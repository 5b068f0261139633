------------------------------ MODULE OAuthServer ------------------------------
(***************************************************************************)
(* src/http/oauth/provider.ts on top of the store: registration, consent,  *)
(* approval by the owner, and the token endpoint, whose handler awaits the *)
(* authentication of the client and the check of the code challenge before *)
(* it exchanges anything.  startHttpServer closes the store only when the   *)
(* last request has been answered (app.ts:418-426): no handler runs then.   *)
(***************************************************************************)
EXTENDS OAuthStore

CONSTANT Req    \* requests to the token and revocation endpoints

VARIABLES
    pc,     \* pc[r]: idle, checked (awaiting what the endpoint awaits), done
    want    \* want[r]: what r asks for, and of which code or pair

reqVars == <<pc, want>>
vars == <<storeVars, reqVars>>

Grants == {"code", "refresh", "revoke access", "revoke refresh"}
NoWish == [grant |-> "none", client |-> NoClient, txn |-> {}, pair |-> {}]

Arriving == Accepting /\ Settled

-----------------------------------------------------------------------------
(* Registration, consent, approval *)

\* registerClient: hasClientCapacity sweeps; putClient makes room.
Register(c) ==
    LET swept == Swept(store) IN
    /\ Arriving /\ since[c] = 0
    /\ SweepTransactions
    /\ \/ \E out \in IF Cardinality(swept.clients) < MaxClients THEN {{}}
                     ELSE {{d} : d \in Evictable(swept)} :
             LET rest == Without(swept, out) IN
             /\ Saves([rest EXCEPT !.clients = @ \cup {c}])
             /\ since' = [since EXCEPT ![c] = now]
       \/ /\ Cardinality(swept.clients) >= MaxClients /\ Evictable(swept) = {}
          /\ SavesIfChanged(swept) /\ UNCHANGED since
    /\ UNCHANGED <<now, issuer, asked, minted, persisted, queue, write, failed, phase, disk,
                   historyVars, reqVars>>

\* authorize, for a client that getClient knows.
Authorize(c, t) ==
    /\ Arriving /\ asked[t].client = NoClient
    /\ SavesIfChanged(AfterGetClient(c))
    /\ IF c \in AfterGetClient(c).clients
       THEN /\ \E out \in TxnEvictions(consents, MaxConsents) : consents' = (consents \ out) \cup {t}
            /\ asked' = [asked EXCEPT ![t] = [client |-> c, at |-> now]]
       ELSE UNCHANGED <<consents, asked>>
    /\ UNCHANGED <<now, issuer, codes, since, minted, persisted, queue, write, failed, phase, disk,
                   historyVars, reqVars>>

\* approveConsent.  Where the owner did not give the right password, or the
\* client no longer has that redirect URI, the transaction waits on.
Approve(t) ==
    LET c == asked[t].client IN
    /\ Arriving /\ t \in consents
    /\ IF ~ConsentLive(t) THEN consents' = consents \ {t} /\ Keeps /\ UNCHANGED <<codes, asked>>
       ELSE /\ SavesIfChanged(AfterGetClient(c))
            /\ \/ /\ c \in AfterGetClient(c).clients
                  /\ consents' = consents \ {t}
                  /\ \E out \in TxnEvictions(codes, MaxCodes) : codes' = (codes \ out) \cup {t}
                  /\ asked' = [asked EXCEPT ![t].at = now]
               \/ UNCHANGED <<consents, codes, asked>>
    /\ UNCHANGED <<now, issuer, since, minted, persisted, queue, write, failed, phase, disk,
                   historyVars, reqVars>>

-----------------------------------------------------------------------------
(* The token endpoint *)

\* A token that is in neither map changes nothing, and is left out.
Wishes(c) ==
    {[grant |-> "code", client |-> c, txn |-> {t}, pair |-> {}] : t \in {u \in Txn : asked[u].client = c}}
    \cup {[grant |-> g, client |-> c, txn |-> {}, pair |-> {p}] :
              g \in Grants \ {"code"},
              p \in {q \in store.access \cup store.refresh : minted[q].client = c}}

Answered(r) == pc' = [pc EXCEPT ![r] = "done"] /\ want' = [want EXCEPT ![r] = NoWish]

\* authenticateClient and challengeForAuthorizationCode, then the await.
Present(r, c) ==
    \E w \in Wishes(c) :
        /\ Arriving /\ pc[r] = "idle"
        /\ SavesIfChanged(AfterGetClient(c))
        /\ IF c \in AfterGetClient(c).clients /\ (w.txn \subseteq codes /\ \A t \in w.txn : CodeLive(t))
           THEN pc' = [pc EXCEPT ![r] = "checked"] /\ want' = [want EXCEPT ![r] = w]
           ELSE Answered(r)
        /\ codes' = IF c \in AfterGetClient(c).clients
                    THEN codes \ {t \in w.txn : ~CodeLive(t)} ELSE codes
        /\ UNCHANGED <<now, issuer, consents, since, asked, minted, persisted, queue, write, failed,
                       phase, disk, historyVars>>

\* issueTokens: a pair that was never seen before takes the place of the
\* oldest where there is no room.
IssueTokens(maps, c, t, p) ==
    /\ p \notin Minted
    /\ minted' = [minted EXCEPT ![p] = [client |-> c, txn |-> {t}, at |-> now, issuer |-> issuer]]
    /\ \E a \in PairEvictions(maps.access), f \in PairEvictions(maps.refresh) :
          Saves([maps EXCEPT !.access = (@ \ a) \cup {p}, !.refresh = (@ \ f) \cup {p}])

\* Mutant: the code is looked at, and left where it is.
ExchangeKeepsCode(r) ==
    /\ Accepting /\ pc[r] = "checked" /\ want[r].grant = "code"
    /\ UNCHANGED codes
    /\ \/ /\ \A t \in want[r].txn : t \in codes /\ CodeLive(t)
          /\ \E t \in want[r].txn, p \in Pair : IssueTokens(store, want[r].client, t, p)
       \/ Keeps /\ UNCHANGED minted
    /\ Answered(r)
    /\ UNCHANGED <<now, issuer, consents, since, asked, persisted, queue, write, failed, phase, disk,
                   historyVars>>

\* exchangeAuthorizationCode: the code is gone, whatever becomes of it; it may
\* be of no use any more, or the redirect URI or the resource may not match.
ExchangeCode(r) ==
    /\ Accepting /\ pc[r] = "checked" /\ want[r].grant = "code"
    /\ codes' = codes \ want[r].txn
    /\ \/ /\ \A t \in want[r].txn : t \in codes /\ CodeLive(t)
          /\ \E t \in want[r].txn, p \in Pair : IssueTokens(store, want[r].client, t, p)
       \/ Keeps /\ UNCHANGED minted
    /\ Answered(r)
    /\ UNCHANGED <<now, issuer, consents, since, asked, persisted, queue, write, failed, phase, disk,
                   historyVars>>

\* The two tokens of the pair are taken out.
Dropped(maps, p) == [maps EXCEPT !.access = @ \ {p}, !.refresh = @ \ {p}]
Expelled(maps, p) == [maps EXCEPT !.refresh = @ \ {p}]

\* exchangeRefreshToken: the pair is replaced, in one step, where the scopes
\* and the resource match.
ExchangeRefresh(r) ==
    /\ Accepting /\ pc[r] = "checked" /\ want[r].grant = "refresh"
    /\ \E p \in want[r].pair :
          \/ /\ p \in store.refresh /\ RefreshLive(p)
             /\ \E t \in minted[p].txn, q \in Pair : IssueTokens(Dropped(store, p), want[r].client, t, q)
             /\ withdrawn' = withdrawn \cup {p}
          \/ /\ p \in store.refresh /\ ~RefreshLive(p)
             /\ Saves(Expelled(store, p)) /\ UNCHANGED <<minted, withdrawn>>
          \/ /\ p \in store.refresh => RefreshLive(p)
             /\ Keeps /\ UNCHANGED <<minted, withdrawn>>
    /\ Answered(r)
    /\ UNCHANGED <<now, issuer, consents, codes, since, asked, persisted, queue, write, failed, phase,
                   disk, forgotten>>

\* Mutant: an access token is taken out alone, and its refresh token stays.
RevokeAccessOnly(r) ==
    /\ Accepting /\ pc[r] = "checked" /\ want[r].grant \in {"revoke access", "revoke refresh"}
    /\ \E p \in want[r].pair :
          \/ /\ p \in store.access
             /\ Saves([store EXCEPT !.access = @ \ {p}])
             /\ withdrawn' = withdrawn \cup {p}
          \/ p \notin store.access /\ Keeps /\ UNCHANGED withdrawn
    /\ Answered(r)
    /\ UNCHANGED <<now, issuer, consents, codes, since, asked, minted, persisted, queue, write, failed,
                   phase, disk, forgotten>>

\* revokeTokenFamily: a token that is known takes the other one with it.
Revoke(r) ==
    /\ Accepting /\ pc[r] = "checked" /\ want[r].grant \in {"revoke access", "revoke refresh"}
    /\ \E p \in want[r].pair :
          LET known == p \in (IF want[r].grant = "revoke access" THEN store.access ELSE store.refresh) IN
          \/ known /\ Saves(Dropped(store, p)) /\ withdrawn' = withdrawn \cup {p}
          \/ ~known /\ Keeps /\ UNCHANGED withdrawn
    /\ Answered(r)
    /\ UNCHANGED <<now, issuer, consents, codes, since, asked, minted, persisted, queue, write, failed,
                   phase, disk, forgotten>>

\* verifyAccessToken: a request to /mcp finds the token expired.
Verify(p) ==
    /\ Arriving /\ p \in store.access /\ ~AccessLive(p)
    /\ Saves([store EXCEPT !.access = @ \ {p}])
    /\ UNCHANGED <<now, issuer, consents, codes, since, asked, minted, persisted, queue, write, failed,
                   phase, disk, historyVars, reqVars>>

\* The timer, which close() stops.
Sweep ==
    /\ Arriving
    /\ SweepTransactions /\ SavesIfChanged(Swept(store))
    /\ <<store, consents, codes>>' # <<store, consents, codes>>
    /\ UNCHANGED <<now, issuer, since, asked, minted, persisted, queue, write, failed, phase, disk,
                   historyVars, reqVars>>

-----------------------------------------------------------------------------

Init ==
    /\ StoreInit
    /\ pc = [r \in Req |-> "idle"] /\ want = [r \in Req |-> NoWish]

Flush == Microtask \/ FlushSkips \/ FlushBegins \/ FlushRenames \/ FlushSucceeds \/ FlushFails
Close == CloseLoops \/ CloseWaits

\* The requests of a process die with it.
Crash ==
    /\ Die
    /\ pc' = [r \in Req |-> IF pc[r] = "checked" THEN "done" ELSE pc[r]]
    /\ want' = [r \in Req |-> NoWish]

Next ==
    \/ \E c \in Client : Register(c) \/ \E t \in Txn : Authorize(c, t)
    \/ \E t \in Txn : Approve(t)
    \/ \E r \in Req : ExchangeCode(r) \/ ExchangeRefresh(r) \/ Revoke(r)
    \/ \E r \in Req, c \in Client : Present(r, c)
    \/ \E p \in Pair : Verify(p)
    \/ Sweep
    \/ (Flush \/ Close \/ CloseBegins \/ (\E i \in Issuer : Start(i)) \/ Tick) /\ UNCHANGED reqVars
    \/ Crash

Spec == Init /\ [][Next]_vars

-----------------------------------------------------------------------------
(* Properties *)

Snapshots == [version : Nat, maps : Maps, forgotten : SUBSET Pair, renamed : BOOLEAN, busy : BOOLEAN]
One(S) == {{x} : x \in S} \cup {{}}

\* The state has its shape, the maps keep to their limits, and no flush was
\* asked for or done of a version that does not exist yet.
TypeOK ==
    /\ now \in 0..MaxTime /\ issuer \in Issuer
    /\ store \in Maps /\ Cardinality(store.clients) <= MaxClients
    /\ Cardinality(store.access) <= MaxTokens /\ Cardinality(store.refresh) <= MaxTokens
    /\ consents \in SUBSET Txn /\ Cardinality(consents) <= MaxConsents
    /\ codes \in SUBSET Txn /\ Cardinality(codes) <= MaxCodes
    /\ since \in [Client -> 0..MaxTime]
    /\ asked \in [Txn -> [client : Client \cup {NoClient}, at : 0..MaxTime]]
    /\ minted \in [Pair -> [client : Client \cup {NoClient}, txn : One(Txn), at : 0..MaxTime,
                            issuer : Issuer \cup {NoIssuer}]]
    /\ dirty \in Nat /\ persisted \in Nat /\ scheduled \in BOOLEAN
    /\ persisted <= dirty /\ queue \in Seq(1..dirty) /\ write \in Snapshots /\ failed \in BOOLEAN
    /\ phase \in {"up", "closing", "flushing", "draining", "closed", "failed", "down"}
    /\ disk \in [issuer : Issuer \cup {NoIssuer}, maps : Maps]
    /\ withdrawn \in SUBSET Pair /\ forgotten \in SUBSET Pair
    /\ pc \in [Req -> {"idle", "checked", "done"}]
    /\ want \in [Req -> [grant : Grants \cup {"none"}, client : Client \cup {NoClient},
                         txn : One(Txn), pair : One(Pair)]]

\* A pair that was rotated or revoked works no more: in this process never,
\* and after a restart not if its end was saved (store.ts:369-402, 589-611).
WithdrawnForGood == withdrawn \cap (store.access \cup store.refresh) = {}

\* When no flush is asked for, queued or running, the file holds what the maps
\* hold, or the store says that it is not ready; and what a clean shutdown
\* leaves on disk holds it too (store.ts:5-8, 200-230, 592-628).
QuietMeansSaved ==
    phase = "closed" \/ (phase = "up" /\ ~scheduled /\ queue = <<>> /\ ~failed) =>
        Resumed(Loaded(store)) = Resumed(Loaded(disk.maps))

\* A process honours no token that another issuer minted (store.ts:59-76).
IssuedHere ==
    \A p \in store.access \cup store.refresh : minted[p].issuer = issuer

\* However many clients register, one that has something that is still valid
\* is not dropped before its time is over (store.ts:292-307, 507-518).
ActiveClientKept ==
    [][\A c \in store.clients :
          phase' # "down" /\ Active(c) /\ ~Outlived(c) => c \in store'.clients]_vars

OfTxn(ps) == [t \in Txn |-> {p \in ps : minted[p].txn = {t}}]

\* The families of the tokens, by the authorization they descend from.
Family == INSTANCE TokenFamily WITH
    issued <- OfTxn(Pair),
    current <- OfTxn(store.refresh),
    writing <- OfTxn(IF write.busy /\ ~write.renamed THEN write.maps.refresh ELSE disk.maps.refresh),
    saved <- OfTxn(disk.maps.refresh),
    up <- Running

\* An authorization code is exchanged once and a refresh token rotated once,
\* whoever races for them, and no crash makes two of one (provider.ts:625-705).
FamiliesNeverFork == Family!Spec
=============================================================================
