----------------------------- MODULE OAuthProofs ----------------------------
(***************************************************************************)
(* OAuthServer for any clients, authorizations, tokens, requests, limits   *)
(* and lifetimes: whose the tokens are, that what ended stays ended, that  *)
(* no active client is dropped, that the maps keep to their limits, that   *)
(* every family of tokens keeps the promise of TokenFamily, and that quiet *)
(* means saved.                                                            *)
(***************************************************************************)
EXTENDS OAuthServer, FiniteSetTheorems, TLAPS

(***************************************************************************)
(* The inductive invariant.                                                *)
(***************************************************************************)

TokensOf(maps) == maps.access \cup maps.refresh

OAuthShape ==
  /\ issuer \in Issuer /\ now \in 0..MaxTime /\ dirty \in Nat
  /\ store \in Maps /\ write \in Snapshots
  /\ disk \in [issuer : Issuer \cup {NoIssuer}, maps : Maps]
  /\ consents \subseteq Txn /\ codes \subseteq Txn
  /\ asked \in [Txn -> [client : Client \cup {NoClient}, at : 0..MaxTime]]
  /\ minted \in [Pair -> [client : Client \cup {NoClient}, txn : One(Txn), at : 0..MaxTime,
                          issuer : Issuer \cup {NoIssuer}]]
  /\ withdrawn \subseteq Pair /\ forgotten \subseteq Pair
  /\ pc \in [Req -> {"idle", "checked", "done"}]
  /\ want \in [Req -> [grant : Grants \cup {"none"}, client : Client \cup {NoClient},
                       txn : One(Txn), pair : One(Pair)]]

\* The maps, wherever they are, hold tokens that were minted, and by the issuer they are of.
Of(maps, i) == \A p \in TokensOf(maps) : p \in Minted /\ minted[p].issuer = i

MintedHere ==
  /\ \A p \in Minted : minted[p].issuer \in Issuer
  /\ Of(store, issuer)
  /\ write.busy => Of(write.maps, issuer)
  /\ Of(disk.maps, disk.issuer)

\* What ended is in none of the maps that may be returned to.
Ended ==
  /\ withdrawn \subseteq Minted /\ forgotten \subseteq withdrawn
  /\ WithdrawnForGood
  /\ forgotten \cap TokensOf(disk.maps) = {}
  /\ write.busy =>
       /\ write.forgotten \subseteq withdrawn
       /\ (forgotten \cup write.forgotten) \cap TokensOf(write.maps) = {}
  /\ write.busy /\ write.renamed => disk.maps = write.maps

\* A process that is down holds nothing.
DownIsEmpty ==
  phase = "down" =>
    store = NoMaps /\ codes = {} /\ consents = {} /\ queue = <<>> /\ ~write.busy
      /\ withdrawn = forgotten

\* One refresh token of a family at a time, in each of the maps.
Single(ps) == \A p, q \in ps : minted[p].txn = minted[q].txn => p = q

OnePerFamily ==
  /\ Single(store.refresh) /\ Single(disk.maps.refresh)
  /\ write.busy => Single(write.maps.refresh)

\* A family begins with a code, which is there only before it does.
Unborn(t) == \A p \in Pair : minted[p].txn # {t}

FamiliesBegin ==
  /\ \A p \in Minted : \E t \in Txn : minted[p].txn = {t}
  /\ \A p \in Pair \ Minted : minted[p].txn = {}
  /\ consents \cap codes = {}
  /\ \A t \in Txn : t \in consents \cup codes => asked[t].client # NoClient /\ Unborn(t)
  /\ \A t \in Txn : asked[t].client = NoClient => Unborn(t)
  /\ \A r \in Req : pc[r] = "checked" => want[r].client \in Client

OAuthInv == OAuthShape /\ MintedHere /\ Ended /\ DownIsEmpty /\ OnePerFamily /\ FamiliesBegin

(***************************************************************************)
(* What the operators on the maps return.                                  *)
(***************************************************************************)

\* n holds nothing that m does not.
Within(n, m) ==
  n \in Maps /\ n.clients \subseteq m.clients /\ n.access \subseteq m.access
             /\ n.refresh \subseteq m.refresh

LEMMA WithoutIsWithin ==
  ASSUME NEW m \in Maps, NEW cs
  PROVE  Within(Without(m, cs), m)
BY DEF Within, Without, Maps

LEMMA UnexpiredIsWithin ==
  ASSUME NEW m \in Maps
  PROVE  Within(Unexpired(m), m)
BY DEF Within, Unexpired, Maps

LEMMA WithinWithin ==
  ASSUME NEW l, NEW m, NEW n, Within(l, m), Within(m, n)
  PROVE  Within(l, n)
BY DEF Within

LEMMA SweptIsWithin ==
  ASSUME NEW m \in Maps
  PROVE  Within(Swept(m), m)
<1>1. Within(Without(m, {c \in m.clients : ClientOver(c)}), m)
  BY WithoutIsWithin
<1>2. Within(Swept(m), Without(m, {c \in m.clients : ClientOver(c)}))
  BY <1>1, UnexpiredIsWithin DEF Swept, Within
<1>3. QED
  BY <1>1, <1>2, WithinWithin

LEMMA AfterGetClientIsWithin ==
  ASSUME NEW c, store \in Maps
  PROVE  Within(AfterGetClient(c), store)
<1>1. Within(store, store)
  BY DEF Within
<1>2. QED
  BY <1>1, WithoutIsWithin DEF AfterGetClient

LEMMA ResumedIsWithin ==
  ASSUME NEW m \in Maps
  PROVE  Within(Resumed(Loaded(m)), m)
<1> DEFINE known == {c \in m.clients : ~Outlived(c)}
           OfKnown(ps) == {p \in ps : minted[p].client \in known}
           l == [clients |-> known, access |-> OfKnown(m.access), refresh |-> OfKnown(m.refresh)]
<1>1. l \in Maps /\ Within(l, m)
  BY DEF Maps, Within
<1>2. Within(Loaded(m), l)
  BY <1>1, UnexpiredIsWithin DEF Loaded
<1>3. Within(Resumed(Loaded(m)), Loaded(m))
  BY <1>2, WithoutIsWithin DEF Resumed, Within
<1>4. QED
  BY <1>1, <1>2, <1>3, WithinWithin

LEMMA SavesKeepsNat ==
  ASSUME dirty \in Nat, NEW m
  PROVE  /\ Saves(m) => store' = m /\ dirty' \in Nat
         /\ SavesIfChanged(m) => store' = m /\ dirty' \in Nat
         /\ Keeps => store' = store /\ dirty' \in Nat
BY DEF Saves, SavesIfChanged, Keeps

(***************************************************************************)
(* What each handler does to the tokens: it takes some out, or it mints a  *)
(* pair.                                                                   *)
(***************************************************************************)

restVars == <<issuer, write, phase, disk, forgotten>>

\* Tokens are taken out, those that it withdraws among them.
Shrinks ==
  /\ store' \in Maps /\ store'.access \subseteq store.access /\ store'.refresh \subseteq store.refresh
  /\ minted' = minted /\ UNCHANGED restVars
  /\ withdrawn \subseteq withdrawn' /\ withdrawn' \subseteq Minted
  /\ withdrawn' \cap TokensOf(store') = {}
  /\ phase # "down"

\* A pair is minted for t, from a code of it or in the place of the pair that is withdrawn.
Mints(c, t, p) ==
  /\ c \in Client /\ t \in Txn /\ p \in Pair \ Minted
  /\ minted' = [minted EXCEPT ![p] = [client |-> c, txn |-> {t}, at |-> now, issuer |-> issuer]]
  /\ store' \in Maps
  /\ store'.access \subseteq store.access \cup {p} /\ store'.refresh \subseteq store.refresh \cup {p}
  /\ p \in store'.refresh
  /\ \A q \in store'.refresh \ {p} : minted[q].txn # {t}
  /\ UNCHANGED restVars
  /\ withdrawn \subseteq withdrawn' /\ withdrawn' \subseteq Minted
  /\ withdrawn' \cap (TokensOf(store') \ {p}) = {}
  /\ phase # "down"

LEMMA MintedStay ==
  ASSUME OAuthShape, NEW c, NEW t, NEW p, Mints(c, t, p)
  PROVE  /\ Minted' = Minted \cup {p}
         /\ \A q \in Pair \ {p} : minted'[q] = minted[q]
         /\ minted'[p].client = c /\ minted'[p].txn = {t} /\ minted'[p].issuer = issuer
BY OAuthAssumption DEF OAuthShape, Minted, Mints

LEMMA WithinShrinks ==
  ASSUME OAuthInv, NEW m, Within(m, store), store' = m, phase # "down",
         UNCHANGED <<minted, issuer, write, phase, disk, historyVars>>
  PROVE  Shrinks
BY DEF OAuthInv, Ended, WithdrawnForGood, Within, Shrinks, restVars, historyVars, TokensOf

\* The handlers that issue no token.
LEMMA HandlersShrink ==
  ASSUME OAuthInv
  PROVE  /\ \A c \in Client : Register(c) => Shrinks
         /\ \A c \in Client, t \in Txn : Authorize(c, t) => Shrinks
         /\ \A t \in Txn : Approve(t) => Shrinks
         /\ \A r \in Req, c \in Client : Present(r, c) => Shrinks
         /\ \A r \in Req : Revoke(r) => Shrinks
         /\ \A p \in Pair : Verify(p) => Shrinks
         /\ Sweep => Shrinks
<1>1. store \in Maps /\ dirty \in Nat
  BY DEF OAuthInv, OAuthShape
<1>2. Within(store, store)
  BY <1>1 DEF Within
<1>3. ASSUME NEW c \in Client, Register(c) PROVE Shrinks
  <2>1. Within(Swept(store), store)
    BY <1>1, SweptIsWithin
  <2>2. PICK m : /\ Within(m, store)
                 /\ store' = m \/ store' = [m EXCEPT !.clients = @ \cup {c}]
    <3>1. CASE \E out \in IF Cardinality(Swept(store).clients) < MaxClients THEN {{}}
                          ELSE {{d} : d \in Evictable(Swept(store))} :
                  Saves([Without(Swept(store), out) EXCEPT !.clients = @ \cup {c}])
      <4>1. PICK out : store' = [Without(Swept(store), out) EXCEPT !.clients = @ \cup {c}]
        BY <3>1, SavesKeepsNat, <1>1
      <4>2. Within(Without(Swept(store), out), store)
        BY <2>1, WithoutIsWithin, WithinWithin DEF Within
      <4>3. QED
        BY <4>1, <4>2
    <3>2. CASE SavesIfChanged(Swept(store))
      BY <3>2, <2>1, SavesKeepsNat, <1>1
    <3>3. QED
      BY <1>3, <3>1, <3>2 DEF Register
  <2>3. store' \in Maps /\ store'.access \subseteq store.access /\ store'.refresh \subseteq store.refresh
    BY <2>2 DEF Within, Maps
  <2>4. UNCHANGED <<minted, issuer, write, phase, disk, historyVars>> /\ phase = "up"
    BY <1>3 DEF Register, Arriving, Accepting
  <2>5. QED
    BY <2>3, <2>4 DEF OAuthInv, Ended, WithdrawnForGood, Shrinks, restVars, historyVars, TokensOf
<1>4. ASSUME NEW c \in Client, NEW t \in Txn, Authorize(c, t) PROVE Shrinks
  <2>1. Within(AfterGetClient(c), store) /\ store' = AfterGetClient(c)
    BY <1>4, <1>1, AfterGetClientIsWithin, SavesKeepsNat DEF Authorize
  <2>2. QED
    BY <1>4, <2>1, WithinShrinks DEF Authorize, Arriving, Accepting
<1>5. ASSUME NEW t \in Txn, Approve(t) PROVE Shrinks
  <2>1. PICK m : Within(m, store) /\ store' = m
    BY <1>5, <1>1, <1>2, AfterGetClientIsWithin, SavesKeepsNat DEF Approve
  <2>2. QED
    BY <1>5, <2>1, WithinShrinks DEF Approve, Arriving, Accepting
<1>6. ASSUME NEW r \in Req, NEW c \in Client, Present(r, c) PROVE Shrinks
  <2>1. Within(AfterGetClient(c), store) /\ store' = AfterGetClient(c)
    BY <1>6, <1>1, AfterGetClientIsWithin, SavesKeepsNat DEF Present
  <2>2. QED
    BY <1>6, <2>1, WithinShrinks DEF Present, Arriving, Accepting
<1>7. ASSUME NEW r \in Req, Revoke(r) PROVE Shrinks
  <2>1. PICK p \in want[r].pair :
          LET known == p \in (IF want[r].grant = "revoke access" THEN store.access ELSE store.refresh)
          IN  \/ known /\ Saves(Dropped(store, p)) /\ withdrawn' = withdrawn \cup {p}
              \/ ~known /\ Keeps /\ UNCHANGED withdrawn
    BY <1>7 DEF Revoke
  <2>2. UNCHANGED <<minted, issuer, write, phase, disk, forgotten>> /\ phase = "up"
    BY <1>7 DEF Revoke, Accepting
  <2>3. CASE Keeps /\ UNCHANGED withdrawn
    BY <2>2, <2>3, <1>1, <1>2, WithinShrinks, SavesKeepsNat DEF historyVars
  <2>4. CASE p \in TokensOf(store) /\ Saves(Dropped(store, p)) /\ withdrawn' = withdrawn \cup {p}
    <3>1. store' = Dropped(store, p)
      BY <2>4, <1>1, SavesKeepsNat
    <3>2. /\ store' \in Maps /\ store'.access = store.access \ {p}
          /\ store'.refresh = store.refresh \ {p}
      BY <3>1, <1>1 DEF Dropped, Maps
    <3>3. p \in Minted
      BY <2>4 DEF OAuthInv, MintedHere, Of
    <3>4. QED
      BY <2>2, <2>4, <3>2, <3>3
         DEF OAuthInv, Ended, WithdrawnForGood, Shrinks, restVars, TokensOf
  <2>5. QED
    BY <2>1, <2>3, <2>4 DEF TokensOf
<1>8. ASSUME NEW p \in Pair, Verify(p) PROVE Shrinks
  <2>1. store' = [store EXCEPT !.access = @ \ {p}]
    BY <1>8, <1>1, SavesKeepsNat DEF Verify
  <2>2. Within(store', store)
    BY <1>1, <2>1 DEF Within, Maps
  <2>3. QED
    BY <1>8, <2>2, WithinShrinks DEF Verify, Arriving, Accepting
<1>9. ASSUME Sweep PROVE Shrinks
  <2>1. Within(Swept(store), store) /\ store' = Swept(store)
    BY <1>9, <1>1, SweptIsWithin, SavesKeepsNat DEF Sweep
  <2>2. QED
    BY <1>9, <2>1, WithinShrinks DEF Sweep, Arriving, Accepting
<1>10. QED
  BY <1>3, <1>4, <1>5, <1>6, <1>7, <1>8, <1>9

\* issueTokens: the new pair, and what of the old ones is not evicted.
LEMMA IssuedTokens ==
  ASSUME NEW m \in Maps, NEW c, NEW t, NEW p \in Pair, IssueTokens(m, c, t, p)
  PROVE  /\ p \notin Minted
         /\ minted' = [minted EXCEPT ![p] = [client |-> c, txn |-> {t}, at |-> now,
                                             issuer |-> issuer]]
         /\ store' \in Maps /\ store'.clients = m.clients
         /\ store'.access \subseteq m.access \cup {p} /\ store'.refresh \subseteq m.refresh \cup {p}
         /\ p \in store'.refresh
<1>1. PICK a, f : store' = [m EXCEPT !.access = (@ \ a) \cup {p}, !.refresh = (@ \ f) \cup {p}]
  BY DEF IssueTokens, Saves
<1>2. QED
  BY <1>1 DEF IssueTokens, Maps

LEMMA CodeMints ==
  ASSUME OAuthInv, NEW r \in Req, ExchangeCode(r)
  PROVE  \/ Shrinks
         \/ \E t \in Txn, p \in Pair :
               /\ Mints(want[r].client, t, p)
               /\ t \in codes /\ codes' = codes \ {t}
<1>1. store \in Maps /\ Within(store, store) /\ want[r].txn \in One(Txn)
  BY DEF OAuthInv, OAuthShape, Within
<1>2. UNCHANGED <<issuer, write, phase, disk, historyVars>> /\ phase = "up"
  BY DEF ExchangeCode, Accepting
<1>3. CASE Keeps /\ UNCHANGED minted
  BY <1>1, <1>2, <1>3, WithinShrinks DEF Keeps
<1>4. ASSUME NEW t \in want[r].txn, NEW p \in Pair, t \in codes,
             IssueTokens(store, want[r].client, t, p)
      PROVE  Mints(want[r].client, t, p) /\ codes' = codes \ {t}
  <2>1. want[r].txn = {t} /\ t \in Txn /\ want[r].client \in Client
    BY <1>1, <1>4 DEF One, OAuthInv, FamiliesBegin, ExchangeCode
  <2>2. Unborn(t)
    BY <1>4, <2>1 DEF OAuthInv, FamiliesBegin
  <2>3. \A q \in store.refresh : minted[q].txn # {t}
    BY <1>1, <2>2 DEF Unborn, Maps
  <2>4. withdrawn' \cap (TokensOf(store') \ {p}) = {}
    BY <1>1, <1>2, <1>4, IssuedTokens
       DEF OAuthInv, Ended, WithdrawnForGood, TokensOf, historyVars
  <2>5. QED
    BY <1>1, <1>2, <1>4, <2>1, <2>3, <2>4, IssuedTokens
       DEF Mints, OAuthInv, Ended, restVars, historyVars, ExchangeCode
<1>5. QED
  BY <1>1, <1>3, <1>4 DEF ExchangeCode, One

LEMMA RefreshMints ==
  ASSUME OAuthInv, NEW r \in Req, ExchangeRefresh(r)
  PROVE  \/ Shrinks
         \/ \E t \in Txn, p \in Pair :
               /\ Mints(want[r].client, t, p)
               /\ \E q \in store.refresh : minted[q].txn = {t}
<1>1. store \in Maps /\ Within(store, store) /\ want[r].pair \in One(Pair)
  BY DEF OAuthInv, OAuthShape, Within
<1>2. UNCHANGED <<issuer, write, phase, disk, forgotten>> /\ phase = "up" /\ want[r].client \in Client
  BY DEF ExchangeRefresh, Accepting, OAuthInv, FamiliesBegin
<1>3. PICK p \in want[r].pair :
          \/ /\ p \in store.refresh /\ RefreshLive(p)
             /\ \E t \in minted[p].txn, q \in Pair :
                   IssueTokens(Dropped(store, p), want[r].client, t, q)
             /\ withdrawn' = withdrawn \cup {p}
          \/ /\ p \in store.refresh /\ ~RefreshLive(p)
             /\ Saves(Expelled(store, p)) /\ UNCHANGED <<minted, withdrawn>>
          \/ /\ p \in store.refresh => RefreshLive(p)
             /\ Keeps /\ UNCHANGED <<minted, withdrawn>>
  BY DEF ExchangeRefresh
<1>4. CASE Keeps /\ UNCHANGED <<minted, withdrawn>>
  BY <1>1, <1>2, <1>4, WithinShrinks DEF Keeps, historyVars
<1>5. CASE Saves(Expelled(store, p)) /\ UNCHANGED <<minted, withdrawn>>
  <2>1. store' = [store EXCEPT !.refresh = @ \ {p}]
    BY <1>5 DEF Saves, Expelled
  <2>2. Within(store', store)
    BY <1>1, <2>1 DEF Within, Maps
  <2>3. QED
    BY <1>2, <1>5, <2>2, WithinShrinks DEF historyVars
<1>6. ASSUME NEW t \in minted[p].txn, NEW q \in Pair, p \in store.refresh,
             IssueTokens(Dropped(store, p), want[r].client, t, q),
             withdrawn' = withdrawn \cup {p}
      PROVE  t \in Txn /\ Mints(want[r].client, t, q) /\ minted[p].txn = {t}
  <2>1. p \in Minted
    BY <1>6 DEF OAuthInv, MintedHere, Of, TokensOf
  <2>2. minted[p].txn = {t} /\ t \in Txn
    BY <1>6, <2>1 DEF OAuthInv, FamiliesBegin
  <2>3. /\ Dropped(store, p) \in Maps
        /\ Dropped(store, p).access = store.access \ {p}
        /\ Dropped(store, p).refresh = store.refresh \ {p}
    BY <1>1 DEF Dropped, Maps
  <2>4. \A u \in store.refresh \ {p} : minted[u].txn # {t}
    BY <1>6, <2>2 DEF OAuthInv, OnePerFamily, Single
  <2>5. q \notin Minted /\ q # p
    BY <1>6, <2>1, <2>3, IssuedTokens
  <2>6. withdrawn' \cap (TokensOf(store') \ {q}) = {}
    BY <1>6, <2>3, IssuedTokens DEF OAuthInv, Ended, WithdrawnForGood, TokensOf
  <2>7. withdrawn \subseteq withdrawn' /\ withdrawn' \subseteq Minted
    BY <1>6, <2>1 DEF OAuthInv, Ended
  <2>8. QED
    BY <1>2, <1>6, <2>2, <2>3, <2>4, <2>5, <2>6, <2>7, IssuedTokens DEF Mints, restVars
<1>7. QED
  BY <1>1, <1>3, <1>4, <1>5, <1>6

(***************************************************************************)
(* What each handler does to the transactions and the requests.            *)
(***************************************************************************)

InOrder ==
  /\ consents' \subseteq Txn /\ codes' \subseteq Txn /\ consents' \cap codes' = {}
  /\ asked' \in [Txn -> [client : Client \cup {NoClient}, at : 0..MaxTime]]
  /\ pc' \in [Req -> {"idle", "checked", "done"}]
  /\ want' \in [Req -> [grant : Grants \cup {"none"}, client : Client \cup {NoClient},
                        txn : One(Txn), pair : One(Pair)]]
  /\ \A t \in Txn : t \in consents' \cup codes' => asked'[t].client # NoClient /\ Unborn(t)
  /\ \A t \in Txn : asked'[t].client = NoClient => asked[t].client = NoClient
  /\ \A r \in Req : pc'[r] = "checked" => want'[r].client \in Client
  /\ now' \in 0..MaxTime /\ dirty' \in Nat

LEMMA FewerAreInOrder ==
  ASSUME OAuthInv, consents' \subseteq consents, codes' \subseteq codes, now' \in 0..MaxTime, dirty' \in Nat,
         UNCHANGED <<asked, pc, want>>
  PROVE  InOrder
BY DEF OAuthInv, OAuthShape, FamiliesBegin, InOrder

LEMMA AnsweredInOrder ==
  ASSUME OAuthInv, consents' \subseteq consents, codes' \subseteq codes, now' \in 0..MaxTime, dirty' \in Nat,
         UNCHANGED asked, NEW r \in Req, Answered(r)
  PROVE  InOrder
<1>1. NoWish \in [grant : Grants \cup {"none"}, client : Client \cup {NoClient},
                 txn : One(Txn), pair : One(Pair)]
  BY DEF NoWish, One
<1>2. /\ pc' \in [Req -> {"idle", "checked", "done"}]
      /\ want' \in [Req -> [grant : Grants \cup {"none"}, client : Client \cup {NoClient},
                            txn : One(Txn), pair : One(Pair)]]
  BY <1>1 DEF Answered, OAuthInv, OAuthShape
<1>3. \A s \in Req : pc'[s] = "checked" => want'[s].client \in Client
  BY DEF Answered, OAuthInv, OAuthShape, FamiliesBegin
<1>4. QED
  BY <1>2, <1>3 DEF OAuthInv, OAuthShape, FamiliesBegin, InOrder

LEMMA HandlersInOrder ==
  ASSUME OAuthInv
  PROVE  /\ \A c \in Client : Register(c) => InOrder
         /\ \A c \in Client, t \in Txn : Authorize(c, t) => InOrder
         /\ \A t \in Txn : Approve(t) => InOrder
         /\ \A r \in Req, c \in Client : Present(r, c) => InOrder
         /\ \A r \in Req : ExchangeCode(r) => InOrder
         /\ \A r \in Req : ExchangeRefresh(r) => InOrder
         /\ \A r \in Req : Revoke(r) => InOrder
         /\ \A p \in Pair : Verify(p) => InOrder
         /\ Sweep => InOrder
<1>1. store \in Maps /\ dirty \in Nat /\ now \in 0..MaxTime
  BY DEF OAuthInv, OAuthShape
<1>2. ASSUME NEW c \in Client, Register(c) PROVE InOrder
  <2>1. dirty' \in Nat
    BY <1>1, <1>2, SavesKeepsNat DEF Register
  <2>2. consents' \subseteq consents /\ codes' \subseteq codes
    BY <1>2 DEF Register, SweepTransactions
  <2>3. QED
    BY <1>1, <1>2, <2>1, <2>2, FewerAreInOrder DEF Register, reqVars
<1>3. ASSUME NEW c \in Client, NEW t \in Txn, Authorize(c, t) PROVE InOrder
  <2>1. dirty' \in Nat /\ now' \in 0..MaxTime /\ codes' = codes /\ UNCHANGED <<pc, want>>
    BY <1>1, <1>3, SavesKeepsNat DEF Authorize, reqVars
  <2>2. CASE UNCHANGED <<consents, asked>>
    BY <2>1, <2>2, FewerAreInOrder
  <2>3. CASE /\ consents' \subseteq consents \cup {t}
             /\ asked' = [asked EXCEPT ![t] = [client |-> c, at |-> now]]
    <3>1. c # NoClient
      BY OAuthAssumption
    <3>2. asked[t].client = NoClient
      BY <1>3 DEF Authorize
    <3>3. asked' \in [Txn -> [client : Client \cup {NoClient}, at : 0..MaxTime]]
      BY <1>1, <2>3 DEF OAuthInv, OAuthShape
    <3>4. t \notin codes /\ Unborn(t)
      BY <3>2 DEF OAuthInv, FamiliesBegin
    <3>5. /\ asked'[t].client = c
          /\ \A u \in Txn \ {t} : asked'[u] = asked[u]
      BY <2>3 DEF OAuthInv, OAuthShape
    <3>6. QED
      BY <2>1, <2>3, <3>1, <3>2, <3>3, <3>4, <3>5 DEF OAuthInv, OAuthShape, FamiliesBegin, InOrder
  <2>4. QED
    BY <1>3, <2>2, <2>3 DEF Authorize
<1>4. ASSUME NEW t \in Txn, Approve(t) PROVE InOrder
  <2>1. dirty' \in Nat /\ now' \in 0..MaxTime /\ UNCHANGED <<pc, want>> /\ t \in consents
    BY <1>1, <1>4, SavesKeepsNat DEF Approve, reqVars
  <2>2. CASE consents' \subseteq consents /\ UNCHANGED <<codes, asked>>
    BY <2>1, <2>2, FewerAreInOrder
  <2>3. CASE /\ consents' = consents \ {t} /\ codes' \subseteq codes \cup {t}
             /\ asked' = [asked EXCEPT ![t].at = now]
    <3>1. /\ asked' \in [Txn -> [client : Client \cup {NoClient}, at : 0..MaxTime]]
          /\ \A u \in Txn : asked'[u].client = asked[u].client
      BY <1>1, <2>3 DEF OAuthInv, OAuthShape
    <3>2. QED
      BY <2>1, <2>3, <3>1 DEF OAuthInv, OAuthShape, FamiliesBegin, InOrder
  <2>4. QED
    BY <1>4, <2>2, <2>3 DEF Approve
<1>5. ASSUME NEW r \in Req, NEW c \in Client, Present(r, c) PROVE InOrder
  <2>1. PICK w \in Wishes(c) :
          \/ pc' = [pc EXCEPT ![r] = "checked"] /\ want' = [want EXCEPT ![r] = w]
          \/ Answered(r)
    BY <1>5 DEF Present
  <2>2. dirty' \in Nat /\ now' \in 0..MaxTime /\ codes' \subseteq codes /\ UNCHANGED <<consents, asked>>
    BY <1>1, <1>5, SavesKeepsNat DEF Present
  <2>3. CASE Answered(r)
    BY <2>2, <2>3, AnsweredInOrder
  <2>4. CASE pc' = [pc EXCEPT ![r] = "checked"] /\ want' = [want EXCEPT ![r] = w]
    <3>1. /\ w \in [grant : Grants \cup {"none"}, client : Client \cup {NoClient},
                    txn : One(Txn), pair : One(Pair)]
          /\ w.client = c
      <4>1. CASE \E u \in Txn : w = [grant |-> "code", client |-> c, txn |-> {u}, pair |-> {}]
        BY <4>1 DEF One, Grants
      <4>2. CASE \E g \in Grants, p \in Pair :
                    w = [grant |-> g, client |-> c, txn |-> {}, pair |-> {p}]
        BY <4>2 DEF One
      <4>3. QED
        BY <1>1, <4>1, <4>2 DEF Wishes, Maps
    <3>2. /\ pc' \in [Req -> {"idle", "checked", "done"}]
          /\ want' \in [Req -> [grant : Grants \cup {"none"}, client : Client \cup {NoClient},
                                txn : One(Txn), pair : One(Pair)]]
      BY <2>4, <3>1 DEF OAuthInv, OAuthShape
    <3>3. \A s \in Req : pc'[s] = "checked" => want'[s].client \in Client
      BY <2>4, <3>1 DEF OAuthInv, OAuthShape, FamiliesBegin
    <3>4. QED
      BY <2>2, <3>2, <3>3 DEF OAuthInv, OAuthShape, FamiliesBegin, InOrder
  <2>5. QED
    BY <2>1, <2>3, <2>4
<1>6. ASSUME NEW r \in Req, ExchangeCode(r) PROVE InOrder
  <2>1. dirty' \in Nat
    BY <1>1, <1>6, SavesKeepsNat DEF ExchangeCode, IssueTokens
  <2>2. QED
    BY <1>1, <1>6, <2>1, AnsweredInOrder DEF ExchangeCode
<1>7. ASSUME NEW r \in Req, ExchangeRefresh(r) PROVE InOrder
  <2>1. dirty' \in Nat
    BY <1>1, <1>7, SavesKeepsNat DEF ExchangeRefresh, IssueTokens
  <2>2. QED
    BY <1>1, <1>7, <2>1, AnsweredInOrder DEF ExchangeRefresh
<1>8. ASSUME NEW r \in Req, Revoke(r) PROVE InOrder
  <2>1. dirty' \in Nat
    BY <1>1, <1>8, SavesKeepsNat DEF Revoke
  <2>2. QED
    BY <1>1, <1>8, <2>1, AnsweredInOrder DEF Revoke
<1>9. ASSUME NEW p \in Pair, Verify(p) PROVE InOrder
  BY <1>1, <1>9, SavesKeepsNat, FewerAreInOrder DEF Verify, reqVars
<1>10. ASSUME Sweep PROVE InOrder
  <2>1. consents' \subseteq consents /\ codes' \subseteq codes
    BY <1>10 DEF Sweep, SweepTransactions
  <2>2. QED
    BY <1>1, <1>10, <2>1, SavesKeepsNat, FewerAreInOrder DEF Sweep, reqVars
<1>11. QED
  BY <1>2, <1>3, <1>4, <1>5, <1>6, <1>7, <1>8, <1>9, <1>10

(***************************************************************************)
(* The invariant is inductive.                                             *)
(***************************************************************************)

LEMMA InitOAuthInv == Init => OAuthInv
<1> SUFFICES ASSUME Init PROVE OAuthInv
  OBVIOUS
<1>0. 0 \in 0..MaxTime /\ 1 \in 0..MaxTime /\ 2 \in 0..MaxTime
  BY OAuthAssumption
<1>1. NoMaps \in Maps /\ NoWrite \in Snapshots /\ TokensOf(NoMaps) = {} /\ ~NoWrite.busy
  BY DEF NoMaps, Maps, NoWrite, Snapshots, TokensOf
<1>2. /\ now = 2 /\ issuer \in Issuer /\ dirty = 0 /\ store = NoMaps /\ write = NoWrite
      /\ consents = {} /\ codes = {} /\ phase = "down" /\ queue = <<>>
      /\ withdrawn = {} /\ forgotten = {}
      /\ store.refresh = {}
  BY DEF Init, StoreInit, NoMaps
<1>3. /\ pc = [r \in Req |-> "idle"]
      /\ want \in [Req -> [grant : Grants \cup {"none"}, client : Client \cup {NoClient},
                           txn : One(Txn), pair : One(Pair)]]
  BY DEF Init, NoWish, One
<1> DEFINE nothing == [client |-> NoClient, txn |-> {}, at |-> 0, issuer |-> NoIssuer]
           Grant == [client : Client \cup {NoClient}, txn : One(Txn), at : 0..MaxTime,
                     issuer : Issuer \cup {NoIssuer}]
<1>4. nothing \in Grant /\ nothing.client = NoClient /\ nothing.txn = {}
  BY <1>0 DEF One
<1> HIDE DEF nothing
<1>5. CASE /\ asked = [t \in Txn |-> [client |-> NoClient, at |-> 0]]
           /\ minted = [p \in Pair |-> nothing] /\ disk = NoFile
  <2>1. disk \in [issuer : Issuer \cup {NoIssuer}, maps : Maps] /\ disk.maps = NoMaps
    BY <1>1, <1>5 DEF NoFile
  <2>2. minted \in [Pair -> Grant] /\ Minted = {} /\ \A p \in Pair : minted[p].txn = {}
    BY <1>4, <1>5 DEF Minted
  <2>3. asked \in [Txn -> [client : Client \cup {NoClient}, at : 0..MaxTime]]
    BY <1>0, <1>5
  <2>4. QED
    BY <1>0, <1>1, <1>2, <1>3, <2>1, <2>2, <2>3
       DEF OAuthInv, OAuthShape, MintedHere, Of, Ended, WithdrawnForGood, DownIsEmpty,
           OnePerFamily, Single, FamiliesBegin, Unborn, NoMaps, TokensOf
<1>6. ASSUME NEW c \in Client, NEW t \in Txn, NEW p \in Pair,
             asked = [u \in Txn |-> [client |-> IF u = t THEN c ELSE NoClient,
                                     at |-> IF u = t THEN 1 ELSE 0]],
             minted = [[q \in Pair |-> nothing] EXCEPT
                         ![p] = [client |-> c, txn |-> {t}, at |-> 1, issuer |-> issuer]],
             disk = [issuer |-> issuer,
                     maps |-> [clients |-> {c}, access |-> {p}, refresh |-> {p}]]
      PROVE  OAuthInv
  <2>1. /\ disk \in [issuer : Issuer \cup {NoIssuer}, maps : Maps]
        /\ disk.issuer = issuer /\ TokensOf(disk.maps) = {p} /\ disk.maps.refresh = {p}
    BY <1>2, <1>6 DEF TokensOf, Maps
  <2>2. /\ minted[p] = [client |-> c, txn |-> {t}, at |-> 1, issuer |-> issuer]
        /\ \A q \in Pair \ {p} : minted[q] = nothing
    BY <1>6
  <2>3. minted \in [Pair -> Grant]
    <3>1. [client |-> c, txn |-> {t}, at |-> 1, issuer |-> issuer] \in Grant
      BY <1>0, <1>2 DEF One
    <3>2. QED
      BY <1>4, <1>6, <3>1
  <2>4. Minted = {p}
    BY <1>4, <2>2, OAuthAssumption DEF Minted
  <2>5. /\ asked \in [Txn -> [client : Client \cup {NoClient}, at : 0..MaxTime]]
        /\ \A u \in Txn : asked[u].client = NoClient => u # t
    BY <1>0, <1>6, OAuthAssumption
  <2>6. \A u \in Txn : asked[u].client = NoClient => Unborn(u)
    BY <1>4, <2>2, <2>5 DEF Unborn
  <2>7. OAuthShape
    BY <1>0, <1>1, <1>2, <1>3, <2>1, <2>3, <2>5 DEF OAuthShape
  <2>8. MintedHere
    BY <1>1, <1>2, <2>1, <2>2, <2>4 DEF MintedHere, Of
  <2>9. Ended /\ DownIsEmpty
    BY <1>1, <1>2, <2>1 DEF Ended, WithdrawnForGood, DownIsEmpty
  <2>10. OnePerFamily
    BY <1>1, <1>2, <2>1 DEF OnePerFamily, Single
  <2>11. FamiliesBegin
    BY <1>2, <1>3, <1>4, <2>2, <2>4, <2>6 DEF FamiliesBegin
  <2>12. QED
    BY <2>7, <2>8, <2>9, <2>10, <2>11 DEF OAuthInv
<1>7. QED
  BY <1>5, <1>6 DEF Init, StoreInit, nothing

\* After a handler that issues no token.
LEMMA ShrinksKeeps ==
  ASSUME OAuthInv, Shrinks, InOrder
  PROVE  OAuthInv'
<1>1. Minted' = Minted /\ minted' = minted /\ TokensOf(store)' \subseteq TokensOf(store)
  BY DEF Minted, Shrinks, TokensOf
<1>2. UNCHANGED <<issuer, write, phase, disk, forgotten>> /\ phase # "down"
  BY DEF Shrinks, restVars
<1>3. OAuthShape'
  BY <1>1, <1>2 DEF OAuthInv, OAuthShape, Shrinks, InOrder, Minted
<1>4. MintedHere'
  BY <1>1, <1>2 DEF OAuthInv, MintedHere, Of, TokensOf
<1>5. Ended'
  BY <1>1, <1>2 DEF OAuthInv, Ended, WithdrawnForGood, Shrinks, TokensOf
<1>6. DownIsEmpty'
  BY <1>2 DEF DownIsEmpty
<1>7. OnePerFamily'
  BY <1>1, <1>2 DEF OAuthInv, OnePerFamily, Single, Shrinks
<1>8. FamiliesBegin'
  BY <1>1 DEF OAuthInv, FamiliesBegin, InOrder, Unborn
<1>9. QED
  BY <1>3, <1>4, <1>5, <1>6, <1>7, <1>8 DEF OAuthInv

\* After one that does: where t was a code it is none any more, and a family
\* that has begun has neither a consent nor a code.
LEMMA MintsKeeps ==
  ASSUME OAuthInv, InOrder, NEW c, NEW t \in Txn, NEW p \in Pair, Mints(c, t, p),
         t \notin consents' \cup codes', asked' = asked, asked[t].client # NoClient
  PROVE  OAuthInv'
<1>1. c \in Client /\ p \in Pair \ Minted
  BY DEF Mints
<1>2. /\ Minted' = Minted \cup {p}
      /\ \A q \in Pair \ {p} : minted'[q] = minted[q]
      /\ minted'[p].client = c /\ minted'[p].txn = {t} /\ minted'[p].issuer = issuer
  BY MintedStay DEF OAuthInv
<1>3. UNCHANGED <<issuer, write, phase, disk, forgotten>> /\ phase # "down"
  BY DEF Mints, restVars
<1>4. Minted \subseteq Pair /\ \A q \in Minted : q # p /\ minted'[q] = minted[q]
  BY <1>1, <1>2 DEF Minted
<1>5. OAuthShape'
  <2>1. [client |-> c, txn |-> {t}, at |-> now, issuer |-> issuer]
          \in [client : Client \cup {NoClient}, txn : One(Txn), at : 0..MaxTime,
               issuer : Issuer \cup {NoIssuer}]
    BY <1>1 DEF One, OAuthInv, OAuthShape
  <2>2. minted' \in [Pair -> [client : Client \cup {NoClient}, txn : One(Txn), at : 0..MaxTime,
                              issuer : Issuer \cup {NoIssuer}]]
    BY <2>1 DEF OAuthInv, OAuthShape, Mints
  <2>3. withdrawn' \subseteq Pair
    BY <1>4 DEF Mints
  <2>4. QED
    BY <1>3, <2>2, <2>3 DEF OAuthInv, OAuthShape, Mints, InOrder
<1>6. MintedHere'
  <2>1. \A q \in Minted' : minted'[q].issuer \in Issuer
    BY <1>2, <1>4 DEF OAuthInv, MintedHere, OAuthShape
  <2>2. Of(store, issuer)'
    <3>1. TokensOf(store)' \subseteq TokensOf(store) \cup {p}
      BY DEF Mints, TokensOf
    <3>2. QED
      BY <1>2, <1>3, <1>4, <3>1 DEF OAuthInv, MintedHere, Of
  <2>3. write.busy => Of(write.maps, issuer)'
    BY <1>2, <1>3, <1>4 DEF OAuthInv, MintedHere, Of, TokensOf
  <2>4. Of(disk.maps, disk.issuer)'
    BY <1>2, <1>3, <1>4 DEF OAuthInv, MintedHere, Of, TokensOf
  <2>5. QED
    BY <1>3, <2>1, <2>2, <2>3, <2>4 DEF MintedHere
<1>7. Ended'
  <2>1. p \notin withdrawn'
    BY <1>1 DEF Mints
  <2>2. WithdrawnForGood'
    BY <2>1 DEF Mints, WithdrawnForGood, TokensOf
  <2>3. QED
    BY <1>2, <1>3, <2>2 DEF OAuthInv, Ended, Mints, TokensOf
<1>8. DownIsEmpty'
  BY <1>3 DEF DownIsEmpty
<1>9. OnePerFamily'
  <2>1. Single(store.refresh)'
    <3>1. \A q \in store.refresh : q \in Minted
      BY DEF OAuthInv, MintedHere, Of, TokensOf
    <3>2. \A q \in store'.refresh : q # p => q \in store.refresh /\ minted'[q].txn = minted[q].txn
                                               /\ minted[q].txn # {t}
      BY <1>4, <3>1 DEF Mints
    <3>3. QED
      BY <1>2, <3>2 DEF OAuthInv, OnePerFamily, Single
  <2>2. Single(disk.maps.refresh)'
    BY <1>3, <1>4 DEF OAuthInv, OnePerFamily, Single, MintedHere, Of, TokensOf
  <2>3. write.busy => Single(write.maps.refresh)'
    BY <1>3, <1>4 DEF OAuthInv, OnePerFamily, Single, MintedHere, Of, TokensOf
  <2>4. QED
    BY <1>3, <2>1, <2>2, <2>3 DEF OnePerFamily
<1>10. FamiliesBegin'
  <2>1. \A u \in Txn : u # t /\ Unborn(u) => Unborn(u)'
    BY <1>2 DEF Unborn
  <2>2. \A q \in Minted' : \E u \in Txn : minted'[q].txn = {u}
    BY <1>2, <1>4 DEF OAuthInv, FamiliesBegin
  <2>3. \A q \in Pair \ Minted' : minted'[q].txn = {}
    BY <1>2 DEF OAuthInv, FamiliesBegin
  <2>4. QED
    BY <2>1, <2>2, <2>3 DEF OAuthInv, FamiliesBegin, InOrder
<1>11. QED
  BY <1>5, <1>6, <1>7, <1>8, <1>9, <1>10 DEF OAuthInv

\* The maps and the transactions stay as they are, and so do the phases where a process lives.
Aside ==
  /\ UNCHANGED <<issuer, tokenVars, reqVars>> /\ now' \in 0..MaxTime /\ dirty' \in Nat
  /\ phase' = "down" <=> phase = "down"

LEMMA AsideKeeps ==
  ASSUME OAuthInv, Aside, write' \in Snapshots,
         disk' \in [issuer : Issuer \cup {NoIssuer}, maps : Maps], forgotten' \subseteq Pair,
         withdrawn' = withdrawn, Of(disk'.maps, disk'.issuer), write'.busy => Of(write'.maps, issuer),
         Ended', phase = "down" => write' = write /\ queue' = queue /\ forgotten' = forgotten,
         Single(disk'.maps.refresh), write'.busy => Single(write'.maps.refresh)
  PROVE  OAuthInv'
<1> USE DEF Aside, tokenVars, reqVars
<1>1. Minted' = Minted
  BY DEF Minted
<1>2. OAuthShape'
  BY DEF OAuthInv, OAuthShape
<1>3. MintedHere'
  BY <1>1 DEF OAuthInv, MintedHere, Of
<1>4. DownIsEmpty'
  BY DEF OAuthInv, DownIsEmpty
<1>5. OnePerFamily'
  BY DEF OAuthInv, OnePerFamily, Single
<1>6. FamiliesBegin'
  BY <1>1 DEF OAuthInv, FamiliesBegin, Unborn
<1>7. QED
  BY <1>2, <1>3, <1>4, <1>5, <1>6 DEF OAuthInv

LEMMA FlushKeeps ==
  ASSUME OAuthInv, UNCHANGED reqVars,
         \/ Microtask \/ FlushSkips \/ FlushBegins \/ FlushRenames \/ FlushSucceeds \/ FlushFails
         \/ CloseLoops \/ CloseWaits \/ CloseBegins \/ Tick
  PROVE  OAuthInv'
<1>1. /\ write \in Snapshots /\ disk \in [issuer : Issuer \cup {NoIssuer}, maps : Maps]
      /\ forgotten \subseteq Pair /\ now \in 0..MaxTime /\ dirty \in Nat /\ issuer \in Issuer
      /\ store \in Maps /\ withdrawn \subseteq Pair
  BY DEF OAuthInv, OAuthShape
<1>2. NoWrite \in Snapshots /\ ~NoWrite.busy
  BY DEF NoWrite, Snapshots, NoMaps, Maps
<1>3. /\ Of(disk.maps, disk.issuer) /\ Single(disk.maps.refresh) /\ Ended
      /\ write.busy => Of(write.maps, issuer) /\ Single(write.maps.refresh)
  BY DEF OAuthInv, MintedHere, OnePerFamily
<1>4. CASE /\ UNCHANGED <<issuer, tokenVars, write, disk, historyVars>>
           /\ now' \in 0..MaxTime /\ dirty' \in Nat
           /\ phase' = "down" <=> phase = "down"
           /\ phase = "down" => queue' = queue
  <2>1. Ended'
    BY <1>3, <1>4 DEF Ended, Minted, WithdrawnForGood, tokenVars, historyVars
  <2>2. QED
    BY <1>1, <1>3, <1>4, <2>1, AsideKeeps DEF Aside, tokenVars, historyVars
<1>5. CASE FlushBegins
  <2>1. /\ write' = [version |-> dirty, maps |-> store, forgotten |-> withdrawn,
                     renamed |-> FALSE, busy |-> TRUE]
        /\ UNCHANGED <<now, issuer, tokenVars, dirty, phase, disk, historyVars>>
    BY <1>5 DEF FlushBegins
  <2>2. write' \in Snapshots /\ write'.maps = store /\ write'.forgotten = withdrawn /\ ~write'.renamed
    BY <1>1, <2>1 DEF Snapshots
  <2>3. phase # "down"
    BY <1>5 DEF FlushBegins, OAuthInv, DownIsEmpty
  <2>4. Ended'
    BY <1>3, <2>1, <2>2 DEF Ended, WithdrawnForGood, Minted, tokenVars, historyVars, TokensOf
  <2>5. QED
    BY <1>1, <1>3, <2>1, <2>2, <2>3, <2>4, AsideKeeps
       DEF Aside, tokenVars, historyVars, OAuthInv, MintedHere, OnePerFamily
<1>6. CASE FlushRenames
  <2>1. /\ write' = [write EXCEPT !.renamed = TRUE] /\ write.busy
        /\ disk' = [issuer |-> issuer, maps |-> write.maps]
        /\ UNCHANGED <<now, issuer, tokenVars, dirty, phase, historyVars>>
    BY <1>6 DEF FlushRenames
  <2>2. /\ write' \in Snapshots /\ write'.busy /\ write'.maps = write.maps
        /\ write'.forgotten = write.forgotten
        /\ disk' \in [issuer : Issuer \cup {NoIssuer}, maps : Maps]
        /\ disk'.maps = write.maps /\ disk'.issuer = issuer
    BY <1>1, <2>1 DEF Snapshots
  <2>3. Ended'
    BY <1>3, <2>1, <2>2 DEF Ended, WithdrawnForGood, Minted, tokenVars, historyVars
  <2>4. phase # "down"
    BY <2>1 DEF OAuthInv, DownIsEmpty
  <2>5. QED
    BY <1>1, <1>3, <2>1, <2>2, <2>3, <2>4, AsideKeeps DEF Aside, historyVars
<1>7. CASE FlushSucceeds \/ FlushFails
  <2>1. /\ write' = NoWrite /\ write.busy
        /\ UNCHANGED <<now, issuer, tokenVars, dirty, phase, disk, withdrawn>>
        /\ \/ forgotten' = forgotten
           \/ forgotten' = forgotten \cup write.forgotten /\ write.renamed
    BY <1>7 DEF FlushSucceeds, FlushFails, historyVars
  <2>2. forgotten' \subseteq withdrawn /\ forgotten' \cap TokensOf(disk.maps) = {}
    BY <1>3, <2>1 DEF Ended
  <2>3. Ended'
    BY <1>2, <1>3, <2>1, <2>2 DEF Ended, WithdrawnForGood, Minted, tokenVars
  <2>4. phase # "down"
    BY <2>1 DEF OAuthInv, DownIsEmpty
  <2>5. QED
    BY <1>1, <1>2, <1>3, <2>1, <2>2, <2>3, <2>4, AsideKeeps DEF Aside
<1>8. ASSUME Microtask \/ FlushSkips \/ CloseLoops \/ CloseWaits \/ CloseBegins \/ Tick PROVE OAuthInv'
  <2>1. UNCHANGED <<issuer, tokenVars, write, disk, historyVars>>
    BY <1>8 DEF Microtask, FlushSkips, CloseLoops, CloseWaits, CloseBegins, Tick, flushVars
  <2>2. now' \in 0..MaxTime /\ dirty' \in Nat
    BY <1>1, <1>8, OAuthAssumption
       DEF Microtask, FlushSkips, CloseLoops, CloseWaits, CloseBegins, Tick, flushVars
  <2>3. phase' = "down" <=> phase = "down"
    BY <1>8 DEF Microtask, FlushSkips, CloseLoops, CloseWaits, CloseBegins, Tick, Turn
  <2>4. phase = "down" => queue' = queue
    BY <1>8 DEF Microtask, FlushSkips, CloseLoops, CloseWaits, CloseBegins, Tick, Turn, flushVars,
                Accepting, OAuthInv, DownIsEmpty
  <2>5. QED
    BY <1>4, <2>1, <2>2, <2>3, <2>4
<1>9. QED
  BY <1>5, <1>6, <1>7, <1>8

LEMMA CrashKeeps ==
  ASSUME OAuthInv, Crash
  PROVE  OAuthInv'
<1>1. /\ NoMaps \in Maps /\ NoWrite \in Snapshots /\ ~NoWrite.busy
      /\ TokensOf(NoMaps) = {} /\ NoMaps.refresh = {}
  BY DEF NoMaps, Maps, NoWrite, Snapshots, TokensOf
<1>2. /\ store' = NoMaps /\ consents' = {} /\ codes' = {} /\ dirty' = 0 /\ queue' = <<>>
      /\ write' = NoWrite /\ withdrawn' = forgotten /\ phase' = "down"
      /\ UNCHANGED <<now, issuer, asked, minted, disk, forgotten>>
  BY DEF Crash, Die
<1>3. Minted' = Minted
  BY <1>2 DEF Minted
<1>4. /\ pc' \in [Req -> {"idle", "checked", "done"}]
      /\ \A r \in Req : pc'[r] # "checked"
      /\ want' \in [Req -> [grant : Grants \cup {"none"}, client : Client \cup {NoClient},
                            txn : One(Txn), pair : One(Pair)]]
  <2>1. pc \in [Req -> {"idle", "checked", "done"}]
    BY DEF OAuthInv, OAuthShape
  <2>2. NoWish \in [grant : Grants \cup {"none"}, client : Client \cup {NoClient},
                   txn : One(Txn), pair : One(Pair)]
    BY DEF NoWish, One
  <2>3. QED
    BY <2>1, <2>2 DEF Crash
<1>5. OAuthShape'
  BY <1>1, <1>2, <1>4 DEF OAuthInv, OAuthShape
<1>6. MintedHere'
  BY <1>1, <1>2, <1>3 DEF OAuthInv, MintedHere, Of
<1>7. Ended'
  BY <1>1, <1>2, <1>3 DEF OAuthInv, Ended, WithdrawnForGood, TokensOf
<1>8. DownIsEmpty'
  BY <1>1, <1>2 DEF DownIsEmpty
<1>9. OnePerFamily'
  BY <1>1, <1>2 DEF OAuthInv, OnePerFamily, Single
<1>10. FamiliesBegin'
  BY <1>2, <1>3, <1>4 DEF OAuthInv, FamiliesBegin, Unborn
<1>11. QED
  BY <1>5, <1>6, <1>7, <1>8, <1>9, <1>10 DEF OAuthInv

\* What the next process loads is of its own issuer, and was in the file.
LEMMA StartLoads ==
  ASSUME OAuthInv, NEW i \in Issuer, Start(i)
  PROVE  /\ store' \in Maps /\ TokensOf(store') \subseteq TokensOf(disk.maps)
         /\ store'.refresh \subseteq disk.maps.refresh
         /\ \A p \in TokensOf(store') : p \in Minted /\ minted[p].issuer = i
<1>1. disk \in [issuer : Issuer \cup {NoIssuer}, maps : Maps]
  BY DEF OAuthInv, OAuthShape
<1>2. CASE OwnFile(i)
  <2>1. Within(Resumed(Loaded(disk.maps)), disk.maps) /\ store' = Resumed(Loaded(disk.maps))
    BY <1>1, <1>2, ResumedIsWithin DEF Start
  <2>2. \A p \in TokensOf(disk.maps) : p \in Minted /\ minted[p].issuer = disk.issuer
    BY DEF OAuthInv, MintedHere, Of
  <2>3. disk.issuer = i \/ TokensOf(disk.maps) = {}
    BY <1>2, <2>2, OAuthAssumption DEF OwnFile, OAuthInv, MintedHere
  <2>4. QED
    BY <2>1, <2>2, <2>3 DEF Within, TokensOf
<1>3. CASE ~OwnFile(i)
  <2>1. store' = Resumed(NoMaps)
    BY <1>3 DEF Start
  <2>2. NoMaps \in Maps
    BY DEF NoMaps, Maps
  <2>3. Within(store', NoMaps)
    BY <2>1, <2>2, WithoutIsWithin DEF Resumed
  <2>4. QED
    BY <2>3 DEF Within, NoMaps, TokensOf
<1>4. QED
  BY <1>2, <1>3

LEMMA StartKeeps ==
  ASSUME OAuthInv, NEW i \in Issuer, Start(i), UNCHANGED reqVars
  PROVE  OAuthInv'
<1>1. /\ store' \in Maps /\ TokensOf(store') \subseteq TokensOf(disk.maps)
      /\ store'.refresh \subseteq disk.maps.refresh
      /\ \A p \in TokensOf(store') : p \in Minted /\ minted[p].issuer = i
  BY StartLoads
<1>2. /\ phase = "down" /\ phase' = "up" /\ issuer' = i
      /\ UNCHANGED <<now, consents, codes, asked, minted, queue, write, disk, withdrawn, forgotten>>
      /\ UNCHANGED <<pc, want>>
  BY DEF Start, Turn, historyVars, reqVars
<1>3. ~write.busy /\ withdrawn = forgotten
  BY <1>2 DEF OAuthInv, DownIsEmpty
<1>4. Minted' = Minted
  BY <1>2 DEF Minted
<1>5. dirty' \in Nat
  BY DEF Start, OAuthInv, OAuthShape
<1>6. OAuthShape'
  BY <1>1, <1>2, <1>5 DEF OAuthInv, OAuthShape
<1>7. MintedHere'
  BY <1>1, <1>2, <1>3, <1>4 DEF OAuthInv, MintedHere, Of
<1>8. Ended'
  BY <1>1, <1>2, <1>3, <1>4 DEF OAuthInv, Ended, WithdrawnForGood, TokensOf
<1>9. DownIsEmpty'
  BY <1>2 DEF DownIsEmpty
<1>10. OnePerFamily'
  BY <1>1, <1>2, <1>3 DEF OAuthInv, OnePerFamily, Single
<1>11. FamiliesBegin'
  BY <1>2, <1>4 DEF OAuthInv, FamiliesBegin, Unborn
<1>12. QED
  BY <1>6, <1>7, <1>8, <1>9, <1>10, <1>11 DEF OAuthInv

LEMMA NextOAuthInv == OAuthInv /\ [Next]_vars => OAuthInv'
<1> SUFFICES ASSUME OAuthInv, [Next]_vars PROVE OAuthInv'
  OBVIOUS
<1>1. CASE /\ \/ \E c \in Client : Register(c) \/ \E t \in Txn : Authorize(c, t)
              \/ \E t \in Txn : Approve(t)
              \/ \E r \in Req : Revoke(r)
              \/ \E r \in Req, c \in Client : Present(r, c)
              \/ \E p \in Pair : Verify(p)
              \/ Sweep
  <2>1. Shrinks
    BY <1>1, HandlersShrink
  <2>2. InOrder
    BY <1>1, HandlersInOrder
  <2>3. QED
    BY <2>1, <2>2, ShrinksKeeps
<1>2. ASSUME NEW r \in Req, ExchangeCode(r) PROVE OAuthInv'
  <2>1. InOrder /\ UNCHANGED <<consents, asked>>
    BY <1>2, HandlersInOrder DEF ExchangeCode
  <2>2. ASSUME NEW t \in Txn, NEW p \in Pair, Mints(want[r].client, t, p),
               t \in codes, codes' = codes \ {t}
        PROVE  OAuthInv'
    <3>1. asked[t].client # NoClient /\ t \notin consents' \cup codes'
      BY <2>1, <2>2 DEF OAuthInv, FamiliesBegin
    <3>2. QED
      BY <2>1, <2>2, <3>1, MintsKeeps
  <2>3. QED
    BY <1>2, <2>1, <2>2, CodeMints, ShrinksKeeps
<1>3. ASSUME NEW r \in Req, ExchangeRefresh(r) PROVE OAuthInv'
  <2>1. InOrder /\ UNCHANGED <<consents, codes, asked>>
    BY <1>3, HandlersInOrder DEF ExchangeRefresh
  <2>2. ASSUME NEW t \in Txn, NEW p \in Pair, Mints(want[r].client, t, p),
               \E q \in store.refresh : minted[q].txn = {t}
        PROVE  OAuthInv'
    <3>1. ~Unborn(t)
      BY <2>2 DEF Unborn, OAuthInv, OAuthShape, Maps
    <3>2. asked[t].client # NoClient /\ t \notin consents' \cup codes'
      BY <2>1, <3>1 DEF OAuthInv, FamiliesBegin
    <3>3. QED
      BY <2>1, <2>2, <3>2, MintsKeeps
  <2>3. QED
    BY <1>3, <2>1, <2>2, RefreshMints, ShrinksKeeps
<1>4. CASE (Flush \/ Close \/ CloseBegins \/ Tick) /\ UNCHANGED reqVars
  BY <1>4, FlushKeeps DEF Flush, Close
<1>5. CASE (\E i \in Issuer : Start(i)) /\ UNCHANGED reqVars
  BY <1>5, StartKeeps
<1>6. CASE Crash
  BY <1>6, CrashKeeps
<1>7. CASE UNCHANGED vars
  BY <1>7 DEF OAuthInv, OAuthShape, MintedHere, Of, Ended, WithdrawnForGood, DownIsEmpty,
              OnePerFamily, Single, FamiliesBegin, Unborn, Minted, TokensOf,
              vars, storeVars, tokenVars, flushVars, historyVars, reqVars
<1>8. QED
  BY <1>1, <1>2, <1>3, <1>4, <1>5, <1>6, <1>7 DEF Next

LEMMA SpecOAuthInv == Spec => []OAuthInv
BY InitOAuthInv, NextOAuthInv, PTL DEF Spec

\* A process never honours a token that another issuer minted: what it loads
\* is of its own issuer, and what it mints it mints itself (store.ts:59-76).
THEOREM IssuerIsKept == Spec => []IssuedHere
<1>1. OAuthInv => IssuedHere
  BY DEF OAuthInv, MintedHere, Of, TokensOf, IssuedHere
<1>2. QED
  BY <1>1, SpecOAuthInv, PTL

\* A pair that was rotated or revoked works no more, and one whose end was
\* saved does not come back with the next process (store.ts:369-402, 589-611).
THEOREM WithdrawnStays == Spec => []WithdrawnForGood
<1>1. OAuthInv => WithdrawnForGood
  BY DEF OAuthInv, Ended
<1>2. QED
  BY <1>1, SpecOAuthInv, PTL

(***************************************************************************)
(* Active clients.  Eviction and expiry are the only ways out, and neither *)
(* reaches a client that has something valid and is not too old.           *)
(***************************************************************************)

LEMMA ActiveIsNotSwept ==
  ASSUME NEW c \in store.clients, Active(c), ~Outlived(c)
  PROVE  /\ c \in Swept(store).clients
         /\ \A d : c \in AfterGetClient(d).clients
         /\ \A maps : c \notin Evictable(maps)
<1>1. ~ClientOver(c)
  BY DEF ClientOver
<1>2. c \in Swept(store).clients
  <2>1. c \in Without(store, {d \in store.clients : ClientOver(d)}).clients
    BY <1>1 DEF Without
  <2>2. \A maps : Unexpired(maps).clients = maps.clients
    BY DEF Unexpired
  <2>3. QED
    BY <2>1, <2>2 DEF Swept
<1>3. ASSUME NEW d PROVE c \in AfterGetClient(d).clients
  BY <1>1 DEF AfterGetClient, Without
<1>4. ASSUME NEW maps PROVE c \notin Evictable(maps)
  BY DEF Evictable
<1>5. QED
  BY <1>2, <1>3, <1>4

\* However many clients register, one that has something that is still valid
\* is not dropped before its time is over (store.ts:292-307, 507-518).
THEOREM ActiveClientStays == Spec => ActiveClientKept
<1>1. ASSUME OAuthInv, [Next]_vars, NEW c \in store.clients, phase' # "down", Active(c), ~Outlived(c)
      PROVE  c \in store'.clients
  <2>1. store \in Maps /\ dirty \in Nat
    BY <1>1 DEF OAuthInv, OAuthShape
  <2>2. /\ c \in Swept(store).clients
        /\ \A d : c \in AfterGetClient(d).clients
        /\ \A maps : c \notin Evictable(maps)
    BY <1>1, ActiveIsNotSwept
  <2>3. ASSUME NEW d \in Client, Register(d) PROVE c \in store'.clients
    <3>1. CASE SavesIfChanged(Swept(store))
      BY <2>1, <2>2, <3>1, SavesKeepsNat
    <3>2. ASSUME NEW out \in IF Cardinality(Swept(store).clients) < MaxClients THEN {{}}
                             ELSE {{e} : e \in Evictable(Swept(store))},
                 Saves([Without(Swept(store), out) EXCEPT !.clients = @ \cup {d}])
          PROVE  c \in store'.clients
      <4>1. c \notin out
        BY <2>2, <3>2
      <4>2. store' = [Without(Swept(store), out) EXCEPT !.clients = @ \cup {d}]
        BY <3>2 DEF Saves
      <4>3. c \in Without(Swept(store), out).clients
        BY <2>2, <4>1 DEF Without
      <4>4. store'.clients = Without(Swept(store), out).clients \cup {d}
        BY <4>2 DEF Without
      <4>5. QED
        BY <4>3, <4>4
    <3>3. QED
      BY <2>3, <3>1, <3>2 DEF Register
  <2>4. ASSUME NEW d \in Client, NEW t \in Txn, Authorize(d, t) PROVE c \in store'.clients
    BY <2>1, <2>2, <2>4, SavesKeepsNat DEF Authorize
  <2>5. ASSUME NEW t \in Txn, Approve(t) PROVE c \in store'.clients
    BY <2>1, <2>2, <2>5, SavesKeepsNat DEF Approve
  <2>6. ASSUME NEW r \in Req, NEW d \in Client, Present(r, d) PROVE c \in store'.clients
    BY <2>1, <2>2, <2>6, SavesKeepsNat DEF Present
  <2>7. ASSUME NEW r \in Req, ExchangeCode(r) PROVE c \in store'.clients
    <3>1. CASE Keeps
      BY <3>1 DEF Keeps
    <3>2. ASSUME NEW d, NEW t, NEW p \in Pair, IssueTokens(store, d, t, p) PROVE c \in store'.clients
      BY <2>1, <3>2, IssuedTokens
    <3>3. QED
      BY <2>7, <3>1, <3>2 DEF ExchangeCode
  <2>8. ASSUME NEW r \in Req, ExchangeRefresh(r) PROVE c \in store'.clients
    <3>1. CASE Keeps
      BY <3>1 DEF Keeps
    <3>2. ASSUME NEW p, NEW d, NEW t, NEW q \in Pair, IssueTokens(Dropped(store, p), d, t, q)
          PROVE  c \in store'.clients
      <4>1. Dropped(store, p) \in Maps /\ Dropped(store, p).clients = store.clients
        BY <2>1 DEF Dropped, Maps
      <4>2. QED
        BY <3>2, <4>1, IssuedTokens
    <3>3. ASSUME NEW p, Saves(Expelled(store, p)) PROVE c \in store'.clients
      BY <2>1, <3>3 DEF Saves, Expelled, Maps
    <3>4. PICK p \in want[r].pair :
            \/ \E t \in minted[p].txn, q \in Pair :
                  IssueTokens(Dropped(store, p), want[r].client, t, q)
            \/ Saves(Expelled(store, p))
            \/ Keeps
      BY <2>8 DEF ExchangeRefresh
    <3>5. QED
      BY <3>1, <3>2, <3>3, <3>4
  <2>9. ASSUME NEW r \in Req, Revoke(r) PROVE c \in store'.clients
    <3>1. CASE Keeps
      BY <3>1 DEF Keeps
    <3>2. ASSUME NEW p, Saves(Dropped(store, p)) PROVE c \in store'.clients
      BY <2>1, <3>2 DEF Saves, Dropped, Maps
    <3>3. QED
      BY <2>9, <3>1, <3>2 DEF Revoke
  <2>10. ASSUME NEW p \in Pair, Verify(p) PROVE c \in store'.clients
    BY <2>1, <2>10 DEF Verify, Saves, Maps
  <2>11. CASE Sweep
    BY <2>1, <2>2, <2>11, SavesKeepsNat DEF Sweep
  <2>12. CASE Flush \/ Close \/ CloseBegins \/ Tick \/ UNCHANGED vars
    BY <2>12 DEF Flush, Close, CloseBegins, Tick, Microtask, FlushSkips, FlushBegins, FlushRenames,
                 FlushSucceeds, FlushFails, CloseLoops, CloseWaits, vars, storeVars, tokenVars
  <2>13. CASE \E i \in Issuer : Start(i)
    BY <1>1, <2>13 DEF Start, Turn, OAuthInv, DownIsEmpty, NoMaps
  <2>14. CASE Crash
    BY <1>1, <2>14 DEF Crash, Die
  <2>15. QED
    BY <1>1, <2>3, <2>4, <2>5, <2>6, <2>7, <2>8, <2>9, <2>10, <2>11, <2>12, <2>13, <2>14 DEF Next
<1>2. OAuthInv /\ [Next]_vars =>
        [\A c \in store.clients : phase' # "down" /\ Active(c) /\ ~Outlived(c) => c \in store'.clients]_vars
  BY <1>1
<1>3. QED
  BY <1>2, SpecOAuthInv, PTL DEF Spec, ActiveClientKept

(***************************************************************************)
(* The families of the tokens.                                             *)
(***************************************************************************)

\* The file, or the snapshot that will be in it.
Written == IF write.busy /\ ~write.renamed THEN write.maps.refresh ELSE disk.maps.refresh

LEMMA InitFamilies == Init => Family!Init
<1> SUFFICES ASSUME Init PROVE Family!Init
  OBVIOUS
<1>1. OAuthInv
  BY InitOAuthInv
<1>2. /\ store.refresh = {} /\ ~(write.busy /\ ~write.renamed) /\ phase = "down"
  BY DEF Init, StoreInit, NoMaps, NoWrite
<1>3. disk.maps.refresh \subseteq Pair
  BY <1>1 DEF OAuthInv, OAuthShape, Maps
<1>4. ASSUME NEW t \in Txn
      PROVE  LET s == {p \in disk.maps.refresh : minted[p].txn = {t}} IN
             s = {} \/ \E p \in Pair : s = {p}
  <2> DEFINE s == {p \in disk.maps.refresh : minted[p].txn = {t}}
  <2>1. \A p, q \in s : p = q
    BY <1>1 DEF OAuthInv, OnePerFamily, Single
  <2>2. ASSUME NEW p \in s PROVE p \in Pair /\ s = {p}
    BY <1>3, <2>1
  <2>3. QED
    BY <2>2
<1>5. \A p \in Pair : p \notin disk.maps.refresh => minted[p].txn = {}
  BY DEF Init, StoreInit, NoFile, NoMaps
<1>6. ASSUME NEW t \in Txn
      PROVE  {p \in Pair : minted[p].txn = {t}} = {p \in disk.maps.refresh : minted[p].txn = {t}}
  BY <1>3, <1>5
<1>7. QED
  BY <1>2, <1>4, <1>6 DEF Family!Init, OfTxn, Running

\* A handler that issues no token ends some families, and leaves the others.
LEMMA ShrinksServes ==
  ASSUME OAuthInv, Shrinks
  PROVE  Family!Serve
<1>1. minted' = minted /\ UNCHANGED <<write, phase, disk>> /\ phase # "down"
  BY DEF Shrinks, restVars
<1>2. store'.refresh \subseteq store.refresh /\ Single(store.refresh)
  BY DEF Shrinks, OAuthInv, OnePerFamily
<1>3. ASSUME NEW t \in Txn PROVE Family!End(t) \/ Family!Same(t)
  <2> DEFINE old == {p \in store.refresh : minted[p].txn = {t}}
             new == {p \in store'.refresh : minted'[p].txn = {t}}
  <2>1. new = {} \/ new = old
    BY <1>1, <1>2 DEF Single
  <2>2. {p \in Pair : minted'[p].txn = {t}} = {p \in Pair : minted[p].txn = {t}}
    BY <1>1
  <2>3. QED
    BY <2>1, <2>2 DEF Family!End, Family!Same, OfTxn
<1>4. QED
  BY <1>1, <1>3 DEF Family!Serve, OfTxn, Running

\* One that issues a pair grants a family, or rotates it, and may end others.
LEMMA MintsServes ==
  ASSUME OAuthInv, NEW c, NEW t \in Txn, NEW p \in Pair, Mints(c, t, p),
         Unborn(t) \/ \E q \in store.refresh : minted[q].txn = {t}
  PROVE  Family!Serve
<1>1. /\ Minted' = Minted \cup {p} /\ p \notin Minted
      /\ \A q \in Pair \ {p} : minted'[q] = minted[q]
      /\ minted'[p].txn = {t}
  <2>1. p \notin Minted
    BY DEF Mints
  <2>2. QED
    BY <2>1, MintedStay DEF OAuthInv
<1>2. UNCHANGED <<write, phase, disk>> /\ phase # "down"
  BY DEF Mints, restVars
<1>3. /\ store.refresh \subseteq Minted /\ disk.maps.refresh \subseteq Minted
      /\ write.busy => write.maps.refresh \subseteq Minted
  BY DEF OAuthInv, MintedHere, Of, TokensOf
<1>4. \A q \in Minted : q \in Pair /\ q # p /\ minted'[q] = minted[q]
  BY <1>1 DEF Minted
<1>5. store'.refresh \subseteq store.refresh \cup {p} /\ p \in store'.refresh
  BY DEF Mints
<1>6. minted[p].txn = {}
  BY <1>1 DEF OAuthInv, FamiliesBegin
<1>7. Family!Grant(t) \/ Family!Rotate(t)
  <2>1. {q \in Pair : minted'[q].txn = {t}} = {q \in Pair : minted[q].txn = {t}} \cup {p}
    BY <1>1
  <2>2. {q \in store'.refresh : minted'[q].txn = {t}} = {p}
    <3>1. ASSUME NEW q \in store'.refresh, minted'[q].txn = {t} PROVE q = p
      BY <1>3, <1>4, <1>5, <3>1 DEF Mints
    <3>2. QED
      BY <1>1, <1>5, <3>1
  <2>3. Family!Mint(t, p)
    BY <1>6, <2>1, <2>2 DEF Family!Mint, OfTxn
  <2>4. CASE Unborn(t)
    BY <2>3, <2>4 DEF Family!Grant, OfTxn, Unborn
  <2>5. CASE \E q \in store.refresh : minted[q].txn = {t}
    BY <2>3, <2>5 DEF Family!Rotate, OfTxn
  <2>6. QED
    BY <2>4, <2>5
<1>8. ASSUME NEW u \in Txn, u # t PROVE Family!End(u) \/ Family!Same(u)
  <2> DEFINE old == {q \in store.refresh : minted[q].txn = {u}}
             new == {q \in store'.refresh : minted'[q].txn = {u}}
  <2>1. {q \in Pair : minted'[q].txn = {u}} = {q \in Pair : minted[q].txn = {u}}
    BY <1>1, <1>6, <1>8
  <2>2. new \subseteq old
    BY <1>1, <1>3, <1>4, <1>5, <1>8
  <2>3. \A q, v \in old : q = v
    BY DEF OAuthInv, OnePerFamily, Single
  <2>4. new = {} \/ new = old
    BY <2>2, <2>3
  <2>5. QED
    BY <2>1, <2>4 DEF Family!End, Family!Same, OfTxn
<1>9. UNCHANGED <<OfTxn(Written), OfTxn(disk.maps.refresh)>>
  BY <1>2, <1>3, <1>4 DEF OfTxn, Written
<1>10. QED
  BY <1>2, <1>7, <1>8, <1>9 DEF Family!Serve, OfTxn, Running, Written

LEMMA StepServes ==
  ASSUME OAuthInv, Next
  PROVE  Family!Next \/ UNCHANGED Family!familyVars
<1>1. CASE /\ \/ \E c \in Client : Register(c) \/ \E t \in Txn : Authorize(c, t)
              \/ \E t \in Txn : Approve(t)
              \/ \E r \in Req : Revoke(r)
              \/ \E r \in Req, c \in Client : Present(r, c)
              \/ \E p \in Pair : Verify(p)
              \/ Sweep
  <2>1. Shrinks
    BY <1>1, HandlersShrink
  <2>2. QED
    BY <2>1, ShrinksServes DEF Family!Next
<1>2. ASSUME NEW r \in Req, ExchangeCode(r) PROVE Family!Next
  <2>1. \A t \in codes : Unborn(t)
    BY DEF OAuthInv, OAuthShape, FamiliesBegin
  <2>2. QED
    BY <1>2, <2>1, CodeMints, ShrinksServes, MintsServes DEF Family!Next
<1>3. ASSUME NEW r \in Req, ExchangeRefresh(r) PROVE Family!Next
  BY <1>3, RefreshMints, ShrinksServes, MintsServes DEF Family!Next
<1>4. CASE \/ Microtask \/ FlushSkips \/ FlushSucceeds
           \/ CloseLoops \/ CloseWaits \/ CloseBegins \/ Tick
  <2>1. UNCHANGED <<minted, store, disk>>
    BY <1>4 DEF Microtask, FlushSkips, FlushSucceeds, CloseLoops, CloseWaits, CloseBegins, Tick,
                tokenVars
  <2>2. Running' <=> Running
    BY <1>4 DEF Microtask, FlushSkips, FlushSucceeds, CloseLoops, CloseWaits, CloseBegins, Tick,
                Running, Turn
  <2>3. Written' = Written
    <3>1. CASE UNCHANGED <<write, disk>>
      BY <3>1 DEF Written
    <3>2. CASE FlushSucceeds
      BY <3>2 DEF FlushSucceeds, Written, NoWrite
    <3>3. QED
      BY <1>4, <3>1, <3>2 DEF Microtask, FlushSkips, CloseLoops, CloseWaits, CloseBegins, Tick, flushVars
  <2>4. QED
    BY <2>1, <2>2, <2>3 DEF Family!familyVars, OfTxn, Written
<1>5. CASE FlushBegins
  <2>1. /\ write'.busy /\ ~write'.renamed /\ write'.maps = store
        /\ UNCHANGED <<minted, store, disk, phase>>
    BY <1>5 DEF FlushBegins, tokenVars
  <2>2. Family!Snapshot
    BY <2>1 DEF Family!Snapshot, OfTxn, Running
  <2>3. QED
    BY <2>2 DEF Family!Next
<1>6. CASE FlushRenames
  <2>1. /\ write.busy /\ ~write.renamed /\ disk'.maps = write.maps
        /\ UNCHANGED <<minted, store, phase>>
    BY <1>6 DEF FlushRenames, tokenVars
  <2>2. write'.renamed
    BY <1>6 DEF FlushRenames, OAuthInv, OAuthShape, Snapshots
  <2>3. Family!Commit
    BY <2>1, <2>2 DEF Family!Commit, OfTxn, Running
  <2>4. QED
    BY <2>3 DEF Family!Next
<1>7. CASE FlushFails
  <2>1. ~write'.busy /\ UNCHANGED <<minted, store, disk, phase>>
    BY <1>7 DEF FlushFails, tokenVars, NoWrite
  <2>2. Family!Abort
    BY <2>1 DEF Family!Abort, OfTxn, Running
  <2>3. QED
    BY <2>2 DEF Family!Next
<1>8. CASE Crash
  <2>1. /\ store'.refresh = {} /\ ~write'.busy /\ phase' = "down"
        /\ UNCHANGED <<minted, disk>>
    BY <1>8 DEF Crash, Die, NoMaps, NoWrite
  <2>2. Family!Die
    BY <2>1 DEF Family!Die, OfTxn, Running
  <2>3. QED
    BY <2>2 DEF Family!Next
<1>9. ASSUME NEW i \in Issuer, Start(i) PROVE Family!Next
  <2>1. /\ phase = "down" /\ phase' = "up" /\ UNCHANGED <<minted, write, disk>>
    BY <1>9 DEF Start, Turn
  <2>2. store'.refresh \subseteq disk.maps.refresh /\ Single(disk.maps.refresh)
    BY <1>9, StartLoads DEF OAuthInv, OnePerFamily
  <2>3. ASSUME NEW t \in Txn
        PROVE  {p \in store'.refresh : minted'[p].txn = {t}}
                 \in {{p \in disk.maps.refresh : minted[p].txn = {t}}, {}}
    BY <2>1, <2>2 DEF Single
  <2>4. Family!Restart
    BY <2>1, <2>3 DEF Family!Restart, OfTxn, Running
  <2>5. QED
    BY <2>4 DEF Family!Next
<1>10. QED
  BY <1>1, <1>2, <1>3, <1>4, <1>5, <1>6, <1>7, <1>8, <1>9 DEF Next, Flush, Close

\* An authorization code is exchanged once and a refresh token rotated once,
\* whoever races for them, and no crash makes two of one: the server
\* implements TokenFamily (provider.ts:625-705).
THEOREM ImplementsFamilies == Spec => FamiliesNeverFork
<1>1. OAuthInv /\ [Next]_vars => [Family!Next]_(Family!familyVars)
  <2>1. UNCHANGED vars => UNCHANGED Family!familyVars
    BY DEF vars, storeVars, tokenVars, flushVars, Family!familyVars, OfTxn, Running
  <2>2. QED
    BY <2>1, StepServes
<1>2. QED
  BY <1>1, InitFamilies, SpecOAuthInv, PTL DEF Spec, FamiliesNeverFork, Family!Spec

(***************************************************************************)
(* Limits and versions.                                                    *)
(***************************************************************************)

Finite == IsFiniteSet(Client) /\ IsFiniteSet(Pair) /\ IsFiniteSet(Txn)

Capped(maps) ==
  /\ Cardinality(maps.clients) <= MaxClients
  /\ Cardinality(maps.access) <= MaxTokens /\ Cardinality(maps.refresh) <= MaxTokens

Limits ==
  /\ Capped(store) /\ Capped(disk.maps)
  /\ write.busy => Capped(write.maps)
  /\ Cardinality(consents) <= MaxConsents /\ Cardinality(codes) <= MaxCodes

Versions ==
  /\ persisted \in Nat /\ persisted <= dirty /\ queue \in Seq(1..dirty)
  /\ scheduled => dirty > 0
  /\ write.busy => write.version <= dirty /\ queue # <<>>
  /\ since \in [Client -> 0..MaxTime]

Flags ==
  /\ scheduled \in BOOLEAN /\ failed \in BOOLEAN
  /\ phase \in {"up", "closing", "flushing", "draining", "closed", "failed", "down"}

LEMMA Fewer ==
  ASSUME NEW S, NEW T, IsFiniteSet(T), S \subseteq T, NEW n \in Nat, Cardinality(T) <= n
  PROVE  IsFiniteSet(S) /\ Cardinality(S) \in Nat /\ Cardinality(S) <= n
<1>1. IsFiniteSet(S) /\ Cardinality(S) <= Cardinality(T)
  BY FS_Subset
<1>2. Cardinality(S) \in Nat /\ Cardinality(T) \in Nat
  BY <1>1, FS_CardinalityType
<1>3. QED
  BY <1>1, <1>2

\* evictOldest makes room for one more, and for no more than that.
LEMMA Replaced ==
  ASSUME NEW S, IsFiniteSet(S), NEW n \in Nat \ {0}, Cardinality(S) <= n, NEW x,
         NEW oldest \in SUBSET S, NEW out \in Evictions(oldest, Cardinality(S), n)
  PROVE  Cardinality((S \ out) \cup {x}) <= n
<1>1. Cardinality(S) \in Nat
  BY FS_CardinalityType
<1>2. CASE Cardinality(S) < n
  <2>1. out = {} /\ (S \ out) \cup {x} = S \cup {x}
    BY <1>2 DEF Evictions
  <2>2. Cardinality(S \cup {x}) = Cardinality(S) \/ Cardinality(S \cup {x}) = Cardinality(S) + 1
    BY FS_AddElement
  <2>3. QED
    BY <1>1, <1>2, <2>1, <2>2
<1>3. CASE ~(Cardinality(S) < n)
  <2>1. PICK y \in S : out = {y}
    BY <1>3 DEF Evictions
  <2>2. IsFiniteSet(S \ {y}) /\ Cardinality(S \ {y}) = Cardinality(S) - 1
    BY <2>1, FS_RemoveElement
  <2>3. \/ Cardinality((S \ {y}) \cup {x}) = Cardinality(S \ {y})
        \/ Cardinality((S \ {y}) \cup {x}) = Cardinality(S \ {y}) + 1
    BY <2>2, FS_AddElement
  <2>4. QED
    BY <1>1, <2>1, <2>2, <2>3
<1>4. QED
  BY <1>2, <1>3

LEMMA MapsAreFinite ==
  ASSUME Finite, NEW m \in Maps
  PROVE  IsFiniteSet(m.clients) /\ IsFiniteSet(m.access) /\ IsFiniteSet(m.refresh)
BY FS_Subset DEF Finite, Maps

LEMMA WithinIsCapped ==
  ASSUME Finite, NEW m \in Maps, Capped(m), NEW l, Within(l, m)
  PROVE  Capped(l)
<1>1. MaxClients \in Nat /\ MaxTokens \in Nat
  BY OAuthAssumption
<1>2. QED
  BY <1>1, MapsAreFinite, Fewer DEF Within, Capped

\* issueTokens keeps to the limit of the tokens.
LEMMA IssuedIsCapped ==
  ASSUME Finite, NEW m \in Maps, Capped(m), NEW c, NEW t, NEW p \in Pair, IssueTokens(m, c, t, p)
  PROVE  Capped(store')
<1>1. PICK a \in PairEvictions(m.access), f \in PairEvictions(m.refresh) :
         store' = [m EXCEPT !.access = (@ \ a) \cup {p}, !.refresh = (@ \ f) \cup {p}]
  BY DEF IssueTokens, Saves
<1>2. /\ store'.clients = m.clients /\ store'.access = (m.access \ a) \cup {p}
      /\ store'.refresh = (m.refresh \ f) \cup {p}
  BY <1>1 DEF Maps
<1>3. MaxTokens \in Nat \ {0}
  BY OAuthAssumption
<1>4. OldestPair(m.access) \subseteq m.access /\ OldestPair(m.refresh) \subseteq m.refresh
  BY DEF OldestPair
<1>5. Cardinality(store'.access) <= MaxTokens /\ Cardinality(store'.refresh) <= MaxTokens
  BY <1>2, <1>3, <1>4, MapsAreFinite, Replaced DEF PairEvictions, Capped
<1>6. QED
  BY <1>2, <1>5 DEF Capped

\* putClient keeps to the limit of the clients.
LEMMA RegisteredIsCapped ==
  ASSUME Finite, OAuthInv, Limits, NEW c \in Client, Register(c)
  PROVE  Capped(store')
<1>1. store \in Maps /\ dirty \in Nat
  BY DEF OAuthInv, OAuthShape
<1>2. Within(Swept(store), store) /\ Swept(store) \in Maps /\ Capped(Swept(store))
  BY <1>1, SweptIsWithin, WithinIsCapped DEF Limits, Within
<1>3. CASE SavesIfChanged(Swept(store))
  BY <1>1, <1>2, <1>3, SavesKeepsNat
<1>4. ASSUME NEW out \in IF Cardinality(Swept(store).clients) < MaxClients THEN {{}}
                         ELSE {{d} : d \in Evictable(Swept(store))},
             Saves([Without(Swept(store), out) EXCEPT !.clients = @ \cup {c}])
      PROVE  Capped(store')
  <2> DEFINE S == Swept(store)
             rest == Without(S, out)
  <2>1. out \in Evictions(Evictable(S), Cardinality(S.clients), MaxClients)
    BY <1>4 DEF Evictions
  <2>2. Evictable(S) \subseteq S.clients
    BY DEF Evictable
  <2>3. Within(rest, S) /\ rest \in Maps /\ Capped(rest) /\ rest.clients = S.clients \ out
    BY <1>2, WithoutIsWithin, WithinIsCapped DEF Within, Without
  <2>4. store' = [rest EXCEPT !.clients = @ \cup {c}]
    BY <1>4 DEF Saves
  <2>5. /\ store'.clients = (S.clients \ out) \cup {c}
        /\ store'.access = rest.access /\ store'.refresh = rest.refresh
    BY <2>3, <2>4 DEF Maps
  <2>6. MaxClients \in Nat \ {0} /\ IsFiniteSet(S.clients) /\ Cardinality(S.clients) <= MaxClients
    BY <1>2, OAuthAssumption, MapsAreFinite DEF Capped
  <2>7. Cardinality((S.clients \ out) \cup {c}) <= MaxClients
    BY <2>1, <2>2, <2>6, Replaced
  <2>8. QED
    BY <2>3, <2>5, <2>7 DEF Capped
<1>5. QED
  BY <1>3, <1>4 DEF Register

\* What a handler does to the maps, and the evictions of the transactions.
LEMMA HandlersAreCapped ==
  ASSUME Finite, OAuthInv, Limits,
         \/ \E c \in Client : Register(c) \/ \E t \in Txn : Authorize(c, t)
         \/ \E t \in Txn : Approve(t)
         \/ \E r \in Req : ExchangeCode(r) \/ ExchangeRefresh(r) \/ Revoke(r)
         \/ \E r \in Req, c \in Client : Present(r, c)
         \/ \E p \in Pair : Verify(p)
         \/ Sweep
  PROVE  Capped(store')
<1>1. store \in Maps /\ dirty \in Nat /\ Capped(store)
  BY DEF OAuthInv, OAuthShape, Limits
<1>2. Within(store, store)
  BY <1>1 DEF Within
<1>3. ASSUME NEW c \in Client, Register(c) PROVE Capped(store')
  BY <1>3, RegisteredIsCapped
<1>4. ASSUME \/ \E c \in Client, t \in Txn : Authorize(c, t)
             \/ \E t \in Txn : Approve(t)
             \/ \E r \in Req, c \in Client : Present(r, c)
      PROVE  Capped(store')
  <2>1. \A c : SavesIfChanged(AfterGetClient(c)) \/ Keeps => Within(store', store)
    BY <1>1, <1>2, AfterGetClientIsWithin, SavesKeepsNat
  <2>2. Within(store', store)
    BY <1>4, <2>1 DEF Authorize, Approve, Present
  <2>3. QED
    BY <1>1, <2>2, WithinIsCapped
<1>5. ASSUME NEW p PROVE /\ Dropped(store, p) \in Maps /\ Within(Dropped(store, p), store)
                         /\ Within(Expelled(store, p), store)
  BY <1>1 DEF Dropped, Expelled, Within, Maps
<1>6. ASSUME NEW r \in Req, ExchangeCode(r) PROVE Capped(store')
  <2>1. CASE Keeps
    BY <1>1, <2>1 DEF Keeps
  <2>2. ASSUME NEW d, NEW t, NEW p \in Pair, IssueTokens(store, d, t, p) PROVE Capped(store')
    BY <1>1, <2>2, IssuedIsCapped
  <2>3. QED
    BY <1>6, <2>1, <2>2 DEF ExchangeCode
<1>7. ASSUME NEW r \in Req, ExchangeRefresh(r) PROVE Capped(store')
  <2>1. CASE Keeps
    BY <1>1, <2>1 DEF Keeps
  <2>2. ASSUME NEW p, NEW d, NEW t, NEW q \in Pair, IssueTokens(Dropped(store, p), d, t, q)
        PROVE  Capped(store')
    <3>1. Capped(Dropped(store, p))
      BY <1>1, <1>5, WithinIsCapped
    <3>2. QED
      BY <1>5, <2>2, <3>1, IssuedIsCapped
  <2>3. ASSUME NEW p, Saves(Expelled(store, p)) PROVE Capped(store')
    <3>1. store' = Expelled(store, p)
      BY <2>3 DEF Saves
    <3>2. QED
      BY <1>1, <1>5, <3>1, WithinIsCapped
  <2>4. PICK p \in want[r].pair :
          \/ \E t \in minted[p].txn, q \in Pair :
                IssueTokens(Dropped(store, p), want[r].client, t, q)
          \/ Saves(Expelled(store, p))
          \/ Keeps
    BY <1>7 DEF ExchangeRefresh
  <2>5. QED
    BY <2>1, <2>2, <2>3, <2>4
<1>8. ASSUME NEW r \in Req, Revoke(r) PROVE Capped(store')
  <2>1. CASE Keeps
    BY <1>1, <2>1 DEF Keeps
  <2>2. ASSUME NEW p, Saves(Dropped(store, p)) PROVE Capped(store')
    <3>1. store' = Dropped(store, p)
      BY <2>2 DEF Saves
    <3>2. QED
      BY <1>1, <1>5, <3>1, WithinIsCapped
  <2>3. QED
    BY <1>8, <2>1, <2>2 DEF Revoke
<1>9. ASSUME NEW p \in Pair, Verify(p) PROVE Capped(store')
  <2>1. Within(store', store)
    BY <1>1, <1>9 DEF Verify, Saves, Within, Maps
  <2>2. QED
    BY <1>1, <2>1, WithinIsCapped
<1>10. ASSUME Sweep PROVE Capped(store')
  <2>1. Within(store', store)
    BY <1>1, <1>10, SweptIsWithin, SavesKeepsNat DEF Sweep
  <2>2. QED
    BY <1>1, <2>1, WithinIsCapped
<1>11. QED
  BY <1>3, <1>4, <1>6, <1>7, <1>8, <1>9, <1>10

\* Consents and codes are evicted like tokens.
LEMMA TransactionsAreCapped ==
  ASSUME Finite, OAuthInv, Limits,
         \/ \E c \in Client : Register(c) \/ \E t \in Txn : Authorize(c, t)
         \/ \E t \in Txn : Approve(t)
         \/ \E r \in Req : ExchangeCode(r) \/ ExchangeRefresh(r) \/ Revoke(r)
         \/ \E r \in Req, c \in Client : Present(r, c)
         \/ \E p \in Pair : Verify(p)
         \/ Sweep
  PROVE  Cardinality(consents') <= MaxConsents /\ Cardinality(codes') <= MaxCodes
<1>1. /\ consents \subseteq Txn /\ codes \subseteq Txn
      /\ Cardinality(consents) <= MaxConsents /\ Cardinality(codes) <= MaxCodes
  BY DEF OAuthInv, OAuthShape, Limits
<1>2. IsFiniteSet(consents) /\ IsFiniteSet(codes)
  BY <1>1, FS_Subset DEF Finite
<1>3. MaxConsents \in Nat \ {0} /\ MaxCodes \in Nat \ {0}
  BY OAuthAssumption
<1>4. CASE consents' \subseteq consents /\ codes' \subseteq codes
  BY <1>1, <1>2, <1>3, <1>4, Fewer
<1>5. \A ts : OldestTxn(ts) \subseteq ts
  BY DEF OldestTxn
<1>6. ASSUME NEW t, NEW out \in TxnEvictions(consents, MaxConsents),
             consents' = (consents \ out) \cup {t}, codes' = codes
      PROVE  Cardinality(consents') <= MaxConsents /\ Cardinality(codes') <= MaxCodes
  BY <1>1, <1>2, <1>3, <1>5, <1>6, Replaced DEF TxnEvictions
<1>7. ASSUME NEW t, NEW out \in TxnEvictions(codes, MaxCodes),
             codes' = (codes \ out) \cup {t}, consents' \subseteq consents
      PROVE  Cardinality(consents') <= MaxConsents /\ Cardinality(codes') <= MaxCodes
  <2>1. Cardinality(codes') <= MaxCodes
    BY <1>1, <1>2, <1>3, <1>5, <1>7, Replaced DEF TxnEvictions
  <2>2. QED
    BY <1>1, <1>2, <1>3, <1>7, <2>1, Fewer
<1>8. ASSUME NEW c \in Client, NEW t \in Txn, Authorize(c, t)
      PROVE  Cardinality(consents') <= MaxConsents /\ Cardinality(codes') <= MaxCodes
  BY <1>4, <1>6, <1>8 DEF Authorize
<1>9. ASSUME NEW t \in Txn, Approve(t)
      PROVE  Cardinality(consents') <= MaxConsents /\ Cardinality(codes') <= MaxCodes
  BY <1>4, <1>7, <1>9 DEF Approve
<1>10. CASE \/ \E c \in Client : Register(c)
            \/ \E r \in Req : ExchangeCode(r) \/ ExchangeRefresh(r) \/ Revoke(r)
            \/ \E r \in Req, c \in Client : Present(r, c)
            \/ \E p \in Pair : Verify(p)
            \/ Sweep
  BY <1>4, <1>10
     DEF Register, ExchangeCode, ExchangeRefresh, Revoke, Present, Verify, Sweep, SweepTransactions
<1>11. QED
  BY <1>8, <1>9, <1>10

LEMMA InitLimits == Init => Limits
<1> SUFFICES ASSUME Init PROVE Limits
  OBVIOUS
<1>1. \A n \in {MaxClients, MaxConsents, MaxCodes, MaxTokens} : n \in Nat /\ 0 <= n /\ 1 <= n
  BY OAuthAssumption
<1>2. /\ store = NoMaps /\ consents = {} /\ codes = {} /\ ~write.busy
  BY DEF Init, StoreInit, NoWrite
<1>3. Capped(NoMaps)
  BY <1>1, FS_EmptySet DEF Capped, NoMaps
<1>4. \A c, p : Capped([clients |-> {c}, access |-> {p}, refresh |-> {p}])
  BY <1>1, FS_Singleton DEF Capped
<1>5. Capped(disk.maps)
  <2>1. CASE disk = NoFile
    BY <1>3, <2>1 DEF NoFile
  <2>2. ASSUME NEW c, NEW p,
               disk = [issuer |-> issuer,
                       maps |-> [clients |-> {c}, access |-> {p}, refresh |-> {p}]]
        PROVE  Capped(disk.maps)
    BY <1>4, <2>2
  <2>3. QED
    BY <2>1, <2>2 DEF Init, StoreInit
<1>6. QED
  BY <1>1, <1>2, <1>3, <1>4, <1>5, FS_EmptySet DEF Limits

LEMMA NextLimits == Finite /\ OAuthInv /\ Limits /\ [Next]_vars => Limits'
<1> SUFFICES ASSUME Finite, OAuthInv, Limits, [Next]_vars PROVE Limits'
  OBVIOUS
<1>1. disk.maps \in Maps /\ write.maps \in Maps
  BY DEF OAuthInv, OAuthShape, Snapshots
<1>2. \A n \in {MaxClients, MaxConsents, MaxCodes, MaxTokens} : n \in Nat /\ 0 <= n
  BY OAuthAssumption
<1>3. Capped(NoMaps)
  BY <1>2, FS_EmptySet DEF Capped, NoMaps
<1>4. CASE \/ \E c \in Client : Register(c) \/ \E t \in Txn : Authorize(c, t)
           \/ \E t \in Txn : Approve(t)
           \/ \E r \in Req : ExchangeCode(r) \/ ExchangeRefresh(r) \/ Revoke(r)
           \/ \E r \in Req, c \in Client : Present(r, c)
           \/ \E p \in Pair : Verify(p)
           \/ Sweep
  <2>1. UNCHANGED <<write, disk>>
    BY <1>4 DEF Register, Authorize, Approve, ExchangeCode, ExchangeRefresh, Revoke, Present, Verify,
                Sweep
  <2>2. QED
    BY <1>4, <2>1, HandlersAreCapped, TransactionsAreCapped DEF Limits
<1>5. CASE Microtask \/ FlushSkips \/ FlushSucceeds \/ FlushFails \/ CloseLoops \/ CloseWaits
             \/ CloseBegins \/ Tick \/ UNCHANGED vars
  <2>1. UNCHANGED <<store, consents, codes, disk>>
    BY <1>5 DEF Microtask, FlushSkips, FlushSucceeds, FlushFails, CloseLoops, CloseWaits, CloseBegins,
                Tick, vars, storeVars, tokenVars
  <2>2. write' = write \/ ~write'.busy
    BY <1>5 DEF Microtask, FlushSkips, FlushSucceeds, FlushFails, CloseLoops, CloseWaits, CloseBegins,
                Tick, vars, storeVars, flushVars, NoWrite
  <2>3. QED
    BY <2>1, <2>2 DEF Limits
<1>6. CASE FlushBegins
  BY <1>6 DEF FlushBegins, Limits, tokenVars
<1>7. CASE FlushRenames
  <2>1. write'.maps = write.maps /\ disk'.maps = write.maps /\ write.busy
    BY <1>7 DEF FlushRenames, OAuthInv, OAuthShape, Snapshots
  <2>2. QED
    BY <1>7, <2>1 DEF FlushRenames, Limits, tokenVars
<1>8. CASE Crash
  BY <1>2, <1>3, <1>8, FS_EmptySet DEF Crash, Die, Limits, NoWrite
<1>9. ASSUME NEW i \in Issuer, Start(i) PROVE Limits'
  <2>1. UNCHANGED <<write, disk, consents, codes>>
    BY <1>9 DEF Start
  <2>2. Within(store', disk.maps) \/ Within(store', NoMaps)
    BY <1>1, <1>9, ResumedIsWithin, WithoutIsWithin DEF Start, Resumed, NoMaps, Maps
  <2>3. Capped(store')
    BY <1>1, <1>3, <2>2, WithinIsCapped DEF Limits, NoMaps, Maps
  <2>4. QED
    BY <2>1, <2>3 DEF Limits
<1>10. QED
  BY <1>4, <1>5, <1>6, <1>7, <1>8, <1>9 DEF Next, Flush, Close

LEMMA LongerQueue ==
  ASSUME NEW n \in Nat, NEW m \in Nat, n <= m, NEW q \in Seq(1..n)
  PROVE  q \in Seq(1..m)
<1>1. 1..n \subseteq 1..m
  OBVIOUS
<1>2. QED
  BY <1>1

LEMMA QueueMoves ==
  ASSUME NEW n \in Nat, NEW q \in Seq(1..n)
  PROVE  /\ n > 0 => Append(q, n) \in Seq(1..n) /\ Append(q, n) # <<>>
         /\ q # <<>> => Tail(q) \in Seq(1..n)
<1>1. ASSUME n > 0 PROVE Append(q, n) \in Seq(1..n) /\ Append(q, n) # <<>>
  <2>1. n \in 1..n
    BY <1>1
  <2>2. QED
    BY <2>1
<1>2. ASSUME q # <<>> PROVE Tail(q) \in Seq(1..n)
  BY <1>2
<1>3. QED
  BY <1>1, <1>2

LEMMA InitVersions == Init => Versions
<1> SUFFICES ASSUME Init PROVE Versions
  OBVIOUS
<1>1. 0 \in 0..MaxTime /\ 1 \in 0..MaxTime
  BY OAuthAssumption
<1>2. since \in [Client -> 0..MaxTime]
  <2>1. CASE since = [c \in Client |-> 0]
    BY <1>1, <2>1
  <2>2. ASSUME NEW c, since = [d \in Client |-> IF d = c THEN 1 ELSE 0]
        PROVE  since \in [Client -> 0..MaxTime]
    BY <1>1, <2>2
  <2>3. QED
    BY <2>1, <2>2 DEF Init, StoreInit
<1>3. /\ dirty = 0 /\ persisted = 0 /\ ~scheduled /\ queue = <<>>
      /\ ~write.busy
  BY DEF Init, StoreInit, NoWrite
<1>4. QED
  BY <1>2, <1>3 DEF Versions

\* A version is new, and is flushed later, as far as a handler is concerned.
LEMMA NewerVersions ==
  ASSUME OAuthInv, Versions, UNCHANGED <<persisted, queue, write>>,
         since' \in [Client -> 0..MaxTime],
         \/ dirty' = dirty /\ scheduled' = scheduled
         \/ dirty' = dirty + 1 /\ scheduled' = TRUE
  PROVE  Versions'
<1>1. dirty \in Nat /\ persisted \in Nat /\ write \in Snapshots /\ write.version \in Nat
  BY DEF OAuthInv, OAuthShape, Versions, Snapshots
<1>2. queue' \in Seq(1..dirty')
  BY <1>1, LongerQueue DEF Versions
<1>3. persisted' <= dirty' /\ (scheduled' => dirty' > 0)
  BY <1>1 DEF Versions
<1>4. write'.busy => write'.version <= dirty' /\ queue' # <<>>
  BY <1>1 DEF Versions
<1>5. QED
  BY <1>1, <1>2, <1>3, <1>4 DEF Versions

LEMMA NextVersions == OAuthInv /\ Versions /\ [Next]_vars => Versions'
<1> SUFFICES ASSUME OAuthInv, Versions, [Next]_vars PROVE Versions'
  OBVIOUS
<1>1. /\ dirty \in Nat /\ persisted \in Nat /\ write \in Snapshots /\ write.version \in Nat
      /\ now \in 0..MaxTime /\ queue \in Seq(1..dirty) /\ since \in [Client -> 0..MaxTime]
  BY DEF OAuthInv, OAuthShape, Versions, Snapshots
<1>2. \A m : Saves(m) \/ SavesIfChanged(m) \/ Keeps =>
        \/ dirty' = dirty /\ scheduled' = scheduled
        \/ dirty' = dirty + 1 /\ scheduled' = TRUE
  BY DEF Saves, SavesIfChanged, Keeps
<1>3. CASE \/ \E c \in Client : Register(c) \/ \E t \in Txn : Authorize(c, t)
           \/ \E t \in Txn : Approve(t)
           \/ \E r \in Req : ExchangeCode(r) \/ ExchangeRefresh(r) \/ Revoke(r)
           \/ \E r \in Req, c \in Client : Present(r, c)
           \/ \E p \in Pair : Verify(p)
           \/ Sweep
  <2>1. UNCHANGED <<persisted, queue, write>>
    BY <1>3 DEF Register, Authorize, Approve, ExchangeCode, ExchangeRefresh, Revoke, Present, Verify,
                Sweep
  <2>2. since' \in [Client -> 0..MaxTime]
    BY <1>1, <1>3 DEF Register, Authorize, Approve, ExchangeCode, ExchangeRefresh, Revoke, Present,
                      Verify, Sweep
  <2>3. \/ dirty' = dirty /\ scheduled' = scheduled
        \/ dirty' = dirty + 1 /\ scheduled' = TRUE
    BY <1>2, <1>3 DEF Register, Authorize, Approve, ExchangeCode, ExchangeRefresh, Revoke, Present,
                      Verify, Sweep, IssueTokens
  <2>4. QED
    BY <2>1, <2>2, <2>3, NewerVersions
<1>4. CASE Microtask
  <2>1. queue' = queue \/ (dirty > 0 /\ queue' = Append(queue, dirty))
    BY <1>1, <1>4 DEF Microtask, Enqueue, Versions
  <2>2. queue' \in Seq(1..dirty) /\ (queue # <<>> => queue' # <<>>)
    BY <1>1, <2>1, QueueMoves
  <2>3. QED
    BY <1>1, <1>4, <2>2 DEF Microtask, Versions, tokenVars
<1>5. CASE CloseLoops
  <2>1. queue' = queue \/ (dirty > 0 /\ queue' = Append(queue, dirty))
    BY <1>1, <1>5 DEF CloseLoops, Enqueue, Versions
  <2>2. queue' \in Seq(1..dirty) /\ (queue # <<>> => queue' # <<>>)
    BY <1>1, <2>1, QueueMoves
  <2>3. QED
    BY <1>1, <1>5, <2>2 DEF CloseLoops, Turn, Versions, tokenVars
<1>6. CASE FlushSkips
  <2>1. queue' \in Seq(1..dirty) /\ ~write.busy
    BY <1>1, <1>6, QueueMoves DEF FlushSkips
  <2>2. QED
    BY <1>6, <2>1 DEF FlushSkips, Versions, tokenVars
<1>7. CASE FlushSucceeds \/ FlushFails
  <2>1. write.busy /\ queue # <<>> /\ queue' = Tail(queue) /\ ~write'.busy
    BY <1>7 DEF FlushSucceeds, FlushFails, Versions, NoWrite
  <2>2. queue' \in Seq(1..dirty)
    BY <1>1, <2>1, QueueMoves
  <2>3. persisted' \in Nat /\ persisted' <= dirty
    BY <1>1, <1>7, <2>1 DEF FlushSucceeds, FlushFails, Versions
  <2>4. QED
    BY <1>7, <2>1, <2>2, <2>3 DEF FlushSucceeds, FlushFails, Versions, tokenVars
<1>8. CASE FlushBegins
  BY <1>1, <1>8 DEF FlushBegins, Versions, tokenVars
<1>9. CASE FlushRenames
  BY <1>1, <1>9 DEF FlushRenames, Versions, tokenVars, Snapshots
<1>10. CASE CloseWaits \/ CloseBegins \/ Tick \/ UNCHANGED vars
  BY <1>1, <1>10 DEF CloseWaits, CloseBegins, Tick, Turn, Versions, tokenVars, flushVars,
                     vars, storeVars
<1>11. CASE Crash
  BY <1>1, <1>11 DEF Crash, Die, Versions, NoWrite
<1>12. ASSUME NEW i \in Issuer, Start(i) PROVE Versions'
  <2>1. /\ UNCHANGED <<since, persisted, queue, write>>
        /\ \/ dirty' = dirty /\ scheduled' = scheduled
           \/ dirty' = dirty + 1 /\ scheduled' = TRUE
    BY <1>12 DEF Start, Turn
  <2>2. queue' \in Seq(1..dirty')
    BY <1>1, <2>1, LongerQueue
  <2>3. QED
    BY <1>1, <2>1, <2>2 DEF Versions
<1>13. QED
  BY <1>3, <1>4, <1>5, <1>6, <1>7, <1>8, <1>9, <1>10, <1>11, <1>12 DEF Next, Flush, Close

LEMMA InitFlags == Init => Flags
BY DEF Init, StoreInit, Flags

LEMMA NextFlags == Flags /\ [Next]_vars => Flags'
<1> SUFFICES ASSUME Flags, [Next]_vars PROVE Flags'
  OBVIOUS
<1>1. \A m : Saves(m) \/ SavesIfChanged(m) \/ Keeps => scheduled' = scheduled \/ scheduled' = TRUE
  BY DEF Saves, SavesIfChanged, Keeps
<1>2. CASE \/ \E c \in Client : Register(c) \/ \E t \in Txn : Authorize(c, t)
           \/ \E t \in Txn : Approve(t)
           \/ \E r \in Req : ExchangeCode(r) \/ ExchangeRefresh(r) \/ Revoke(r)
           \/ \E r \in Req, c \in Client : Present(r, c)
           \/ \E p \in Pair : Verify(p)
           \/ Sweep
  <2>1. UNCHANGED <<failed, phase>>
    BY <1>2 DEF Register, Authorize, Approve, ExchangeCode, ExchangeRefresh, Revoke, Present, Verify,
                Sweep
  <2>2. scheduled' = scheduled \/ scheduled' = TRUE
    BY <1>1, <1>2 DEF Register, Authorize, Approve, ExchangeCode, ExchangeRefresh, Revoke, Present,
                      Verify, Sweep, IssueTokens
  <2>3. QED
    BY <2>1, <2>2, Zenon DEF Flags
<1>3. CASE \/ Microtask \/ FlushSkips \/ FlushBegins \/ FlushRenames \/ FlushSucceeds \/ FlushFails
           \/ CloseBegins \/ CloseLoops \/ CloseWaits \/ Tick \/ Crash \/ UNCHANGED vars
           \/ \E i \in Issuer : Start(i)
  <2>1. scheduled' = scheduled \/ scheduled' = TRUE \/ scheduled' = FALSE
    BY <1>3 DEF Microtask, FlushSkips, FlushBegins, FlushRenames, FlushSucceeds, FlushFails,
                CloseBegins, CloseLoops, CloseWaits, Tick, Crash, Die, Start, vars, storeVars, flushVars
  <2>2. failed' = failed \/ failed' = TRUE \/ failed' = FALSE
    BY <1>3 DEF Microtask, FlushSkips, FlushBegins, FlushRenames, FlushSucceeds, FlushFails,
                CloseBegins, CloseLoops, CloseWaits, Tick, Crash, Die, Start, vars, storeVars, flushVars
  <2>3. phase' \in {phase, "up", "closing", "flushing", "draining", "closed", "failed", "down"}
    BY <1>3 DEF Microtask, FlushSkips, FlushBegins, FlushRenames, FlushSucceeds, FlushFails,
                CloseBegins, CloseLoops, CloseWaits, Tick, Crash, Die, Start, Turn, vars, storeVars
  <2>4. QED
    BY <2>1, <2>2, <2>3, Zenon DEF Flags
<1>4. QED
  BY <1>2, <1>3 DEF Next, Flush, Close

\* With finitely many clients, tokens and authorizations to choose from, every
\* map keeps to its limit, whatever is registered and minted and however often
\* the server restarts, and no version is written that does not exist yet
\* (store.ts:292-307, 369-402, 592-628).
THEOREM TypeCorrect == Finite => (Spec => []TypeOK)
<1> SUFFICES ASSUME Finite PROVE Spec => []TypeOK
  OBVIOUS
<1>1. OAuthInv /\ Limits /\ Versions /\ Flags => TypeOK
  BY DEF OAuthInv, OAuthShape, Limits, Capped, Versions, Flags, TypeOK
<1>2. Init => Limits /\ Versions /\ Flags
  BY InitLimits, InitVersions, InitFlags
<1>3. OAuthInv /\ Limits /\ Versions /\ Flags /\ [Next]_vars => Limits' /\ Versions' /\ Flags'
  BY NextLimits, NextVersions, NextFlags
<1>4. QED
  BY <1>1, <1>2, <1>3, SpecOAuthInv, PTL DEF Spec
(***************************************************************************)
(* Quiet means saved.  Whoever asks for a flush asks for the version that  *)
(* is dirty, so that the last one in the queue is; a snapshot is of the    *)
(* version it carries; and the file and the maps of a saved version are    *)
(* loaded alike, now and at any later time.                                *)
(***************************************************************************)

Quiet ==
  /\ phase \in {"draining", "closed"} => persisted = dirty
  /\ phase = "up" /\ ~scheduled /\ queue = <<>> /\ ~failed => persisted = dirty
  /\ phase = "up" /\ ~scheduled /\ queue # <<>> => queue[Len(queue)] = dirty
  /\ write.busy =>
       /\ persisted < write.version /\ Head(queue) <= write.version
       /\ write.version = dirty => write.maps = store
  /\ phase # "down" /\ persisted = dirty => Loaded(store) = Loaded(disk.maps)
  /\ phase = "down" => dirty = 0 /\ persisted = 0 /\ ~scheduled /\ ~failed

\* Two fields of a record of maps are replaced.
LEMMA TwoReplaced ==
  ASSUME NEW m \in Maps, NEW a, NEW f
  PROVE  [m EXCEPT !.access = a, !.refresh = f] = [clients |-> m.clients, access |-> a, refresh |-> f]
<1>1. [m EXCEPT !.access = a, !.refresh = f] = [[m EXCEPT !.access = a] EXCEPT !.refresh = f]
  OBVIOUS
<1>2. [m EXCEPT !.access = a] = [clients |-> m.clients, access |-> a, refresh |-> m.refresh]
  BY DEF Maps
<1>3. \A c, g : [[clients |-> c, access |-> a, refresh |-> g] EXCEPT !.refresh = f]
                = [clients |-> c, access |-> a, refresh |-> f]
  OBVIOUS
<1>4. QED
  BY <1>1, <1>2, <1>3

\* What has not expired of maps.
LEMMA UnexpiredParts ==
  ASSUME NEW m \in Maps
  PROVE  Unexpired(m) = [clients |-> m.clients, access |-> {p \in m.access : AccessLive(p)},
                         refresh |-> {p \in m.refresh : RefreshLive(p)}]
BY TwoReplaced DEF Unexpired

\* What is loaded of maps (store.ts:141-198).
LEMMA LoadedParts ==
  ASSUME NEW m \in Maps
  PROVE  LET known == {c \in m.clients : ~Outlived(c)} IN
         Loaded(m) =
           [clients |-> known,
            access |-> {p \in m.access : minted[p].client \in known /\ AccessLive(p)},
            refresh |-> {p \in m.refresh : minted[p].client \in known /\ RefreshLive(p)}]
<1> DEFINE known == {c \in m.clients : ~Outlived(c)}
           OfKnown(ps) == {p \in ps : minted[p].client \in known}
           l == [clients |-> known, access |-> OfKnown(m.access), refresh |-> OfKnown(m.refresh)]
<1>1. Loaded(m) = Unexpired(l)
  BY DEF Loaded
<1>2. l \in Maps
  BY DEF Maps
<1> HIDE DEF l
<1>3. Unexpired(l) = [clients |-> l.clients, access |-> {p \in l.access : AccessLive(p)},
                      refresh |-> {p \in l.refresh : RefreshLive(p)}]
  BY <1>2, UnexpiredParts
<1>4. QED
  BY <1>1, <1>2, <1>3 DEF l

\* What is loaded of what was loaded is all of it (store.ts:141-198).
LEMMA LoadedTwice ==
  ASSUME NEW m \in Maps
  PROVE  Loaded(m) \in Maps /\ Loaded(Loaded(m)) = Loaded(m)
<1> DEFINE l == Loaded(m)
<1>1. /\ l.clients = {c \in m.clients : ~Outlived(c)}
      /\ l.access = {p \in m.access : minted[p].client \in l.clients /\ AccessLive(p)}
      /\ l.refresh = {p \in m.refresh : minted[p].client \in l.clients /\ RefreshLive(p)}
      /\ l = [clients |-> l.clients, access |-> l.access, refresh |-> l.refresh]
  BY LoadedParts
<1> HIDE DEF l
<1>2. l \in Maps
  BY <1>1 DEF Maps
<1>3. /\ {c \in l.clients : ~Outlived(c)} = l.clients
      /\ {p \in l.access : minted[p].client \in l.clients /\ AccessLive(p)} = l.access
      /\ {p \in l.refresh : minted[p].client \in l.clients /\ RefreshLive(p)} = l.refresh
  BY <1>1
<1>4. Loaded(l) = l
  BY <1>1, <1>2, <1>3, LoadedParts
<1>5. QED
  BY <1>2, <1>4 DEF l

\* What is loaded alike now is loaded alike later (store.ts:141-198).
LEMMA LoadedLater ==
  ASSUME OAuthShape, since \in [Client -> 0..MaxTime],
         store \in Maps, disk.maps \in Maps, Loaded(store) = Loaded(disk.maps),
         now' = now + 1, UNCHANGED <<since, minted, store, disk>>
  PROVE  Loaded(store)' = Loaded(disk.maps)'
<1> DEFINE KnownOf(x) == {c \in x.clients : ~Outlived(c)}
           KnownThen(x) == {c \in x.clients : ~(now' >= since[c] + ClientTtl)}
           AccessThen(x) == {p \in x.access : minted[p].client \in KnownThen(x) /\ now' < minted[p].at + AccessTtl}
           RefreshThen(x) == {p \in x.refresh : minted[p].client \in KnownThen(x) /\ now' < minted[p].at + RefreshTtl}
           OfKnownThen(x, ps) == {p \in ps : minted[p].client \in KnownThen(x)}
           LoadedThen(x) ==
             [[clients |-> KnownThen(x), access |-> OfKnownThen(x, x.access), refresh |-> OfKnownThen(x, x.refresh)]
                EXCEPT !.access = {p \in @ : now' < minted[p].at + AccessTtl},
                       !.refresh = {p \in @ : now' < minted[p].at + RefreshTtl}]
<1>1. now \in Nat /\ now' \in Nat /\ (\A c \in Client : since[c] \in Nat)
      /\ (\A p \in Pair : minted[p].at \in Nat)
  BY OAuthAssumption DEF OAuthShape
<1>2. \A c \in Client : now' < since[c] + ClientTtl => now < since[c] + ClientTtl
  BY <1>1, OAuthAssumption
<1>3. \A p \in Pair : /\ now' < minted[p].at + AccessTtl => AccessLive(p)
                      /\ now' < minted[p].at + RefreshTtl => RefreshLive(p)
  BY <1>1, OAuthAssumption DEF AccessLive, RefreshLive
<1>4. ASSUME NEW x \in Maps
      PROVE  /\ KnownThen(x) = {c \in Loaded(x).clients : ~(now' >= since[c] + ClientTtl)}
             /\ AccessThen(x) = {p \in Loaded(x).access : minted[p].client \in KnownThen(x) /\ now' < minted[p].at + AccessTtl}
             /\ RefreshThen(x) = {p \in Loaded(x).refresh : minted[p].client \in KnownThen(x) /\ now' < minted[p].at + RefreshTtl}
             /\ LoadedThen(x) = [clients |-> KnownThen(x), access |-> AccessThen(x), refresh |-> RefreshThen(x)]
  <2> DEFINE OfKnown(ps) == {p \in ps : minted[p].client \in KnownThen(x)}
             l == [clients |-> KnownThen(x), access |-> OfKnown(x.access), refresh |-> OfKnown(x.refresh)]
  <2>1. LoadedThen(x) = [l EXCEPT !.access = {p \in @ : now' < minted[p].at + AccessTtl},
                               !.refresh = {p \in @ : now' < minted[p].at + RefreshTtl}]
    OBVIOUS
  <2>2. l \in Maps
    BY DEF Maps
  <2>3. l.clients = KnownThen(x) /\ l.access = OfKnown(x.access) /\ l.refresh = OfKnown(x.refresh)
    OBVIOUS
  <2> HIDE DEF l
  <2>4. LoadedThen(x) = [clients |-> l.clients,
                      access |-> {p \in l.access : now' < minted[p].at + AccessTtl},
                      refresh |-> {p \in l.refresh : now' < minted[p].at + RefreshTtl}]
    BY <2>1, <2>2, TwoReplaced
  <2>5. LoadedThen(x) = [clients |-> KnownThen(x), access |-> AccessThen(x), refresh |-> RefreshThen(x)]
    BY <2>3, <2>4
  <2>6. /\ Loaded(x).clients = {c \in x.clients : ~Outlived(c)}
        /\ Loaded(x).access = {p \in x.access : minted[p].client \in Loaded(x).clients /\ AccessLive(p)}
        /\ Loaded(x).refresh = {p \in x.refresh : minted[p].client \in Loaded(x).clients /\ RefreshLive(p)}
    BY LoadedParts
  <2>7. x.clients \subseteq Client /\ x.access \subseteq Pair /\ x.refresh \subseteq Pair
    BY DEF Maps
  <2>8. KnownThen(x) = {c \in Loaded(x).clients : ~(now' >= since[c] + ClientTtl)}
    <3>1. \A c \in x.clients : ~(now' >= since[c] + ClientTtl) => ~Outlived(c)
      BY <1>1, <1>2, <2>7, OAuthAssumption DEF Outlived
    <3>2. QED
      BY <2>6, <3>1
  <2>9. KnownThen(x) \subseteq Loaded(x).clients
    BY <2>8
  <2> HIDE DEF KnownThen
  <2>10. QED
    BY <1>3, <2>5, <2>6, <2>7, <2>8, <2>9
<1>5. KnownThen(store) = KnownThen(disk.maps)
  <2> HIDE DEF KnownThen
  <2>1. QED
    BY <1>4
<1>6. AccessThen(store) = AccessThen(disk.maps) /\ RefreshThen(store) = RefreshThen(disk.maps)
  <2> HIDE DEF KnownThen, AccessThen, RefreshThen
  <2>1. QED
    BY <1>4, <1>5
<1>7. LoadedThen(store) = LoadedThen(disk.maps)
  <2> HIDE DEF KnownThen, AccessThen, RefreshThen, LoadedThen
  <2>1. QED
    BY <1>4, <1>5, <1>6
<1>8. Loaded(store)' = LoadedThen(store) /\ Loaded(disk.maps)' = LoadedThen(disk.maps)
  BY DEF Loaded, Unexpired, Outlived, AccessLive, RefreshLive
<1>9. QED
  BY <1>7, <1>8

LEMMA InitQuiet == Init => Quiet
BY DEF Init, StoreInit, NoWrite, Quiet

\* What a handler changes it asks to be flushed, as a version of its own.
LEMMA HandlersQuiet ==
  ASSUME OAuthInv, Versions, Quiet, phase = "up",
         UNCHANGED <<now, disk, phase, persisted, failed, queue, write>>,
         \/ UNCHANGED <<store, dirty, scheduled, since, minted>>
         \/ dirty' = dirty + 1 /\ scheduled' = TRUE
  PROVE  Quiet'
<1>1. dirty \in Nat /\ persisted \in Nat /\ persisted <= dirty /\ write.busy => write.version \in Nat /\ write.version <= dirty
  BY DEF OAuthInv, OAuthShape, Versions, Snapshots
<1>2. CASE UNCHANGED <<store, dirty, scheduled, since, minted>>
  <2>1. Loaded(store)' = Loaded(store) /\ Loaded(disk.maps)' = Loaded(disk.maps)
    BY <1>2 DEF Loaded, Unexpired, Outlived, AccessLive, RefreshLive
  <2>2. QED
    BY <1>2, <2>1 DEF Quiet
<1>3. CASE dirty' = dirty + 1 /\ scheduled' = TRUE
  <2>1. persisted' # dirty'
    BY <1>3 DEF OAuthInv, OAuthShape, Versions
  <2>2. write.busy => write'.version # dirty'
    BY <1>3 DEF OAuthInv, OAuthShape, Versions, Snapshots
  <2>3. QED
    BY <1>3, <2>1, <2>2 DEF Quiet
<1>4. QED
  BY <1>2, <1>3

\* The last of a queue is what was appended to it last.
LEMMA LastOfQueue ==
  ASSUME NEW n \in Nat, NEW q \in Seq(1..n)
  PROVE  /\ n > 0 => Append(q, n)[Len(Append(q, n))] = n /\ (q # <<>> => Head(Append(q, n)) = Head(q))
         /\ q # <<>> => Head(q) \in 1..n
         /\ q # <<>> /\ Tail(q) = <<>> => q[Len(q)] = Head(q)
         /\ q # <<>> /\ Tail(q) # <<>> => Tail(q)[Len(Tail(q))] = q[Len(q)]
<1>1. ASSUME n > 0
      PROVE  Append(q, n)[Len(Append(q, n))] = n /\ (q # <<>> => Head(Append(q, n)) = Head(q))
  <2>1. n \in 1..n
    BY <1>1
  <2>2. Append(q, n) \in Seq(1..n) /\ Len(Append(q, n)) = Len(q) + 1
    BY <2>1
  <2>3. Append(q, n)[Len(q) + 1] = n
    BY <2>1
  <2>4. q # <<>> => Head(Append(q, n)) = Head(q)
    BY <2>1
  <2>5. QED
    BY <2>2, <2>3, <2>4
<1>2. q # <<>> => Head(q) \in 1..n
  OBVIOUS
<1>3. ASSUME q # <<>>, Tail(q) = <<>> PROVE q[Len(q)] = Head(q)
  <2>1. Len(Tail(q)) = Len(q) - 1 /\ Head(q) = q[1] /\ Len(q) \in Nat
    BY <1>3
  <2>2. Len(Tail(q)) = 0
    <3>1. Len(<<>>) = 0
      OBVIOUS
    <3>2. QED
      BY <1>3, <3>1
  <2>3. QED
    BY <2>1, <2>2
<1>4. q # <<>> /\ Tail(q) # <<>> => Tail(q)[Len(Tail(q))] = q[Len(q)]
  OBVIOUS
<1>5. QED
  BY <1>1, <1>2, <1>3, <1>4
LEMMA NextQuiet == OAuthInv /\ Versions /\ Flags /\ Quiet /\ [Next]_vars => Quiet'
<1> SUFFICES ASSUME OAuthInv, Versions, Flags, Quiet, [Next]_vars PROVE Quiet'
  OBVIOUS
<1>1. /\ dirty \in Nat /\ persisted \in Nat /\ write \in Snapshots /\ write.version \in Nat
      /\ store \in Maps /\ disk.maps \in Maps
      /\ queue \in Seq(1..dirty) /\ persisted <= dirty /\ OAuthShape
      /\ write.busy => write.version <= dirty /\ queue # <<>>
      /\ write.busy /\ write.renamed => disk.maps = write.maps
  BY DEF OAuthInv, OAuthShape, Versions, Snapshots, Ended
<1>2. \A m : Saves(m) \/ SavesIfChanged(m) \/ Keeps =>
        \/ UNCHANGED <<store, dirty, scheduled>>
        \/ dirty' = dirty + 1 /\ scheduled' = TRUE
  BY DEF Saves, SavesIfChanged, Keeps
<1>3. UNCHANGED <<store, disk, now, since, minted>> =>
        Loaded(store)' = Loaded(store) /\ Loaded(disk.maps)' = Loaded(disk.maps)
  BY DEF Loaded, Unexpired, Outlived, AccessLive, RefreshLive
<1>4. CASE \/ \E c \in Client : Register(c) \/ \E t \in Txn : Authorize(c, t)
           \/ \E t \in Txn : Approve(t)
           \/ \E r \in Req : ExchangeCode(r) \/ ExchangeRefresh(r) \/ Revoke(r)
           \/ \E r \in Req, c \in Client : Present(r, c)
           \/ \E p \in Pair : Verify(p)
           \/ Sweep
  <2>1. phase = "up" /\ UNCHANGED <<now, disk, phase, persisted, failed, queue, write>>
    BY <1>4 DEF Register, Authorize, Approve, ExchangeCode, ExchangeRefresh, Revoke, Present, Verify,
                Sweep, Arriving, Accepting
  <2>2. \/ UNCHANGED <<store, dirty, scheduled, since, minted>>
        \/ dirty' = dirty + 1 /\ scheduled' = TRUE
    <3>1. ASSUME NEW c \in Client, Register(c) PROVE <2>2!1 \/ <2>2!2
      BY <1>2, <3>1 DEF Register, Saves
    <3>2. ASSUME NEW r \in Req, ExchangeCode(r) PROVE <2>2!1 \/ <2>2!2
      BY <1>2, <3>2 DEF ExchangeCode, IssueTokens, Saves, Keeps
    <3>3. ASSUME NEW r \in Req, ExchangeRefresh(r) PROVE <2>2!1 \/ <2>2!2
      BY <1>2, <3>3 DEF ExchangeRefresh, IssueTokens, Saves, Keeps
    <3>4. QED
      BY <1>2, <1>4, <3>1, <3>2, <3>3 DEF Authorize, Approve, Revoke, Present, Verify, Sweep
  <2>3. QED
    BY <2>1, <2>2, HandlersQuiet
<1>5. CASE Microtask
  <2>1. UNCHANGED <<store, disk, now, since, minted, dirty, persisted, write, failed, phase>> /\ scheduled /\ ~scheduled'
    BY <1>5 DEF Microtask, tokenVars
  <2>2. CASE phase = "up"
    <3>1. queue' = Append(queue, dirty) /\ dirty > 0
      BY <1>5, <2>2 DEF Microtask, Enqueue, Accepting, Versions
    <3>2. /\ queue' # <<>> /\ queue'[Len(queue')] = dirty
          /\ queue # <<>> => Head(queue') = Head(queue)
      BY <1>1, <3>1, LastOfQueue, QueueMoves
    <3>3. QED
      BY <1>1, <1>3, <2>1, <2>2, <3>2 DEF Quiet
  <2>3. CASE phase # "up"
    <3>1. queue' = queue
      BY <1>5, <2>3 DEF Microtask, Accepting
    <3>2. QED
      BY <1>1, <1>3, <2>1, <2>3, <3>1 DEF Quiet
  <2>4. QED
    BY <2>2, <2>3
<1>6. CASE FlushSkips \/ FlushSucceeds \/ FlushFails
  <2>1. /\ UNCHANGED <<store, disk, now, since, minted, dirty, scheduled, phase>>
        /\ queue # <<>> /\ queue' = Tail(queue) /\ ~write'.busy
    BY <1>1, <1>6 DEF FlushSkips, FlushSucceeds, FlushFails, tokenVars, NoWrite
  <2>2. phase # "down"
    BY <2>1 DEF OAuthInv, DownIsEmpty
  <2>3. /\ Head(queue) \in 1..dirty
        /\ queue' = <<>> => queue[Len(queue)] = Head(queue)
        /\ queue' # <<>> => queue'[Len(queue')] = queue[Len(queue)]
    BY <1>1, <2>1, LastOfQueue
  <2>4. /\ persisted' \in Nat /\ persisted' <= dirty
        /\ persisted' >= Head(queue) \/ failed'
        /\ persisted <= persisted'
    BY <1>1, <1>6, <2>3 DEF FlushSkips, FlushSucceeds, FlushFails, Quiet
  <2>5. persisted' = dirty => Loaded(store) = Loaded(disk.maps)
    <3>1. CASE persisted' = persisted
      BY <2>2, <3>1 DEF Quiet
    <3>2. CASE persisted' # persisted
      <4>1. FlushSucceeds /\ persisted' = write.version
        BY <1>6, <3>2 DEF FlushSkips, FlushSucceeds, FlushFails
      <4>2. write.busy /\ write.renamed
        BY <4>1 DEF FlushSucceeds
      <4>3. QED
        BY <1>1, <4>1, <4>2 DEF Quiet
    <3>3. QED
      BY <3>1, <3>2
  <2>6. phase = "up" /\ ~scheduled /\ queue' = <<>> /\ ~failed' => persisted' = dirty
    BY <1>1, <2>1, <2>3, <2>4 DEF Quiet
  <2>7. phase \in {"draining", "closed"} => persisted' = dirty
    BY <1>1, <2>4 DEF Quiet
  <2>8. QED
    BY <1>3, <2>1, <2>2, <2>3, <2>5, <2>6, <2>7 DEF Quiet
<1>7. CASE FlushBegins
  <2>1. /\ UNCHANGED <<store, disk, now, since, minted, dirty, persisted, scheduled, queue, failed, phase>>
        /\ write'.version = dirty /\ write'.maps = store
        /\ queue # <<>> /\ persisted < Head(queue)
    BY <1>7 DEF FlushBegins, tokenVars
  <2>2. Head(queue) \in 1..dirty
    BY <1>1, <2>1, LastOfQueue
  <2>3. QED
    BY <1>1, <1>3, <2>1, <2>2 DEF Quiet
<1>8. CASE FlushRenames
  <2>1. /\ UNCHANGED <<store, now, since, minted, dirty, persisted, scheduled, queue, failed, phase>>
        /\ write.busy /\ write'.version = write.version /\ write'.maps = write.maps
    BY <1>1, <1>8 DEF FlushRenames, tokenVars, Snapshots
  <2>2. persisted # dirty
    BY <1>1, <2>1 DEF Quiet
  <2>3. QED
    BY <1>1, <2>1, <2>2 DEF Quiet
<1>9. CASE CloseLoops
  <2>1. UNCHANGED <<store, disk, now, since, minted, dirty, persisted, scheduled, write, failed>>
    BY <1>9 DEF CloseLoops, tokenVars
  <2>2. phase = "closing" /\ phase' \in {"flushing", "draining"} /\ (phase' = "draining" => persisted = dirty)
    BY <1>1, <1>9 DEF CloseLoops, Turn
  <2>3. write.busy => Head(queue') = Head(queue)
    <3>1. queue' = queue \/ (dirty > 0 /\ queue' = Append(queue, dirty))
      BY <1>1, <1>9 DEF CloseLoops, Enqueue
    <3>2. CASE queue' = Append(queue, dirty) /\ dirty > 0
      BY <1>1, <3>2, LastOfQueue
    <3>3. QED
      BY <3>1, <3>2
  <2>4. QED
    BY <1>1, <1>3, <2>1, <2>2, <2>3 DEF Quiet
<1>10. CASE CloseWaits \/ CloseBegins
  <2>1. UNCHANGED <<store, disk, now, since, minted, dirty, persisted, scheduled, queue, write, failed>>
    BY <1>10 DEF CloseWaits, CloseBegins, tokenVars, flushVars
  <2>2. /\ phase \in {"up", "flushing", "draining"}
        /\ phase' \in {"closing", "failed"} \/ (phase = "draining" /\ phase' = "closed")
    BY <1>10 DEF CloseWaits, CloseBegins, Turn
  <2>3. QED
    BY <1>1, <1>3, <2>1, <2>2 DEF Quiet
<1>11. CASE Tick
  <2>1. /\ UNCHANGED <<store, disk, since, minted, dirty, persisted, scheduled, queue, write, failed, phase>>
        /\ now' = now + 1
    BY <1>11 DEF Tick, tokenVars, flushVars
  <2>2. Loaded(store) = Loaded(disk.maps) => Loaded(store)' = Loaded(disk.maps)'
    BY <1>1, <2>1, LoadedLater DEF Versions
  <2>3. QED
    BY <2>1, <2>2 DEF Quiet
<1>12. CASE Crash
  BY <1>12 DEF Crash, Die, Quiet, NoWrite
<1>13. ASSUME NEW i \in Issuer, Start(i) PROVE Quiet'
  <2>1. /\ phase = "down" /\ phase' = "up" /\ UNCHANGED <<now, since, minted, disk, persisted, queue, write, failed>>
        /\ dirty = 0 /\ persisted = 0 /\ ~scheduled /\ ~failed /\ queue = <<>> /\ ~write.busy
    BY <1>13 DEF Start, Turn, Quiet, OAuthInv, DownIsEmpty
  <2>2. CASE dirty' = dirty + 1 /\ scheduled' = TRUE
    BY <2>1, <2>2 DEF Quiet
  <2>3. CASE ~(dirty' = dirty + 1 /\ scheduled' = TRUE)
    <3>1. store' = Loaded(disk.maps) /\ UNCHANGED <<dirty, scheduled>>
      BY <1>13, <2>3 DEF Start
    <3>2. Loaded(store') = Loaded(disk.maps)
      BY <1>1, <3>1, LoadedTwice
    <3>3. Loaded(store)' = Loaded(store') /\ Loaded(disk.maps)' = Loaded(disk.maps)
      BY <2>1 DEF Loaded, Unexpired, Outlived, AccessLive, RefreshLive
    <3>4. QED
      BY <2>1, <3>1, <3>2, <3>3 DEF Quiet
  <2>4. QED
    BY <2>2, <2>3
<1>14. CASE UNCHANGED vars
  BY <1>3, <1>14 DEF vars, storeVars, tokenVars, flushVars, Quiet
<1>15. QED
  BY <1>4, <1>5, <1>6, <1>7, <1>8, <1>9, <1>10, <1>11, <1>12, <1>13, <1>14 DEF Next, Flush, Close

\* Whatever is registered, granted, rotated and revoked, fails to be written,
\* or happens while the store closes: when no flush is asked for, queued or
\* running, a restart finds in the file what the maps hold, unless the store
\* says that it is not ready; and so it does after a clean shutdown
\* (store.ts:5-8, 200-230, 592-628).
THEOREM QuietIsSaved == Spec => []QuietMeansSaved
<1>1. Init => Versions /\ Flags /\ Quiet
  BY InitVersions, InitFlags, InitQuiet
<1>2. OAuthInv /\ Versions /\ Flags /\ Quiet /\ [Next]_vars => Versions' /\ Flags' /\ Quiet'
  BY NextVersions, NextFlags, NextQuiet
<1>3. Quiet => QuietMeansSaved
  BY DEF Quiet, QuietMeansSaved
<1>4. QED
  BY <1>1, <1>2, <1>3, SpecOAuthInv, PTL DEF Spec
=============================================================================
