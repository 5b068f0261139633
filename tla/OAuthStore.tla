------------------------------ MODULE OAuthStore ------------------------------
(***************************************************************************)
(* src/http/oauth/store.ts: the maps of the authorization server, their    *)
(* lifetimes and limits, and the queue that writes them to one file.       *)
(*                                                                         *)
(* A consent and the code that its approval yields carry the number of     *)
(* their transaction; the access and the refresh token of one grant carry  *)
(* the number of their pair.  What never changes once something was made   *)
(* (whose it is, and since when) is kept apart from the maps it is in.     *)
(* All changes that one handler makes between two awaits are one version.  *)
(***************************************************************************)
EXTENDS Naturals, Sequences, FiniteSets

CONSTANTS
    Client, NoClient,
    Txn,            \* authorization requests
    Pair,           \* access and refresh tokens, as minted
    Issuer, NoIssuer,
    MaxClients, MaxConsents, MaxCodes, MaxTokens,
    ConsentTtl, CodeTtl, AccessTtl, RefreshTtl, ClientTtl, InactiveTtl,
    MaxTime,        \* bound: the last tick of the clock
    DiskMayFail

ASSUME OAuthAssumption ==
    /\ NoClient \notin Client /\ NoIssuer \notin Issuer
    /\ {MaxClients, MaxConsents, MaxCodes, MaxTokens} \subseteq Nat \ {0}
    /\ {ConsentTtl, CodeTtl, AccessTtl, RefreshTtl, ClientTtl, InactiveTtl} \subseteq Nat \ {0}
    /\ MaxTime \in Nat /\ MaxTime >= 2
    /\ DiskMayFail \in BOOLEAN

VARIABLES
    now,
    issuer,     \* the issuer this process was configured with
    store,      \* the maps that are persisted: clients, access and refresh tokens
    consents,   \* the transactions that wait for the owner
    codes,      \* the transactions whose code was not used yet
    since,      \* since[c]: when a client registered, 0 before that
    asked,      \* asked[t]: whose transaction t is, and when it was begun or approved
    minted,     \* minted[p]: of whom, in which transaction, when and by which issuer
    dirty, persisted,   \* dirtyVersion, persistedVersion
    scheduled,  \* flushScheduled
    queue,      \* the versions requested by the operations in flushTail
    write,      \* the snapshot that is being written
    failed,     \* persistenceError
    phase,      \* of the store: up, closing, ... until the process is down
    disk,       \* the store file: whose it is, and the maps in it
    withdrawn,  \* history: the pairs that were revoked or rotated in this process, and ...
    forgotten   \* ... those of them whose end was saved

tokenVars == <<store, consents, codes, since, asked, minted>>
flushVars == <<dirty, persisted, scheduled, queue, write, failed>>
historyVars == <<withdrawn, forgotten>>
storeVars == <<now, issuer, tokenVars, flushVars, phase, disk, historyVars>>

Maps == [clients : SUBSET Client, access : SUBSET Pair, refresh : SUBSET Pair]
NoMaps == [clients |-> {}, access |-> {}, refresh |-> {}]

NoWrite == [version |-> 0, maps |-> NoMaps, forgotten |-> {}, renamed |-> FALSE, busy |-> FALSE]
NoFile == [issuer |-> NoIssuer, maps |-> NoMaps]

Minted == {p \in Pair : minted[p].client # NoClient}

-----------------------------------------------------------------------------
(* Lifetimes *)

ConsentLive(t) == now < asked[t].at + ConsentTtl
CodeLive(t) == now < asked[t].at + CodeTtl
AccessLive(p) == now < minted[p].at + AccessTtl
RefreshLive(p) == now < minted[p].at + RefreshTtl

\* hasActiveArtifacts
Active(c) ==
    \/ \E t \in consents : asked[t].client = c /\ ConsentLive(t)
    \/ \E t \in codes : asked[t].client = c /\ CodeLive(t)
    \/ \E p \in store.access : minted[p].client = c /\ AccessLive(p)
    \/ \E p \in store.refresh : minted[p].client = c /\ RefreshLive(p)

Outlived(c) == now >= since[c] + ClientTtl

ClientOver(c) == Outlived(c) \/ (now >= since[c] + InactiveTtl /\ ~Active(c))

\* The clients in cs go, and their tokens with them (removeTokensForClient).
Without(maps, cs) ==
    [clients |-> maps.clients \ cs,
     access  |-> {p \in maps.access : minted[p].client \notin cs},
     refresh |-> {p \in maps.refresh : minted[p].client \notin cs}]

Unexpired(maps) ==
    [maps EXCEPT !.access = {p \in @ : AccessLive(p)}, !.refresh = {p \in @ : RefreshLive(p)}]

\* sweepExpired, as far as it is persisted.
Swept(maps) == Unexpired(Without(maps, {c \in maps.clients : ClientOver(c)}))

SweepTransactions ==
    /\ consents' = {t \in consents : ConsentLive(t)}
    /\ codes' = {t \in codes : CodeLive(t)}

\* getClient removes what it must not return any more.
AfterGetClient(c) ==
    IF c \in store.clients /\ ClientOver(c) THEN Without(store, {c}) ELSE store

-----------------------------------------------------------------------------
(* Limits *)

OldestTxn(ts) == {t \in ts : \A u \in ts : asked[t].at <= asked[u].at}
OldestPair(ps) == {p \in ps : \A q \in ps : minted[p].at <= minted[q].at}

\* evictOldest: what has to go before one more is added.  Equal ages are in
\* the order of insertion, which the model leaves open.
Evictions(oldest, size, limit) == IF size < limit THEN {{}} ELSE {{x} : x \in oldest}

TxnEvictions(ts, limit) == Evictions(OldestTxn(ts), Cardinality(ts), limit)
PairEvictions(ps) == Evictions(OldestPair(ps), Cardinality(ps), MaxTokens)

\* Mutant: the oldest client goes, whether it is active or not.
EvictableOldest(maps) ==
    {c \in maps.clients : \A d \in maps.clients : since[c] <= since[d]}

\* findOldestInactiveClient
Evictable(maps) ==
    LET idle == {c \in maps.clients : ~Active(c)} IN
    {c \in idle : \A d \in idle : since[c] <= since[d]}

-----------------------------------------------------------------------------
(* The flush queue *)

Accepting == phase = "up"           \* assertMutable
Running == phase # "down"

\* Requests, timers and the answers of the disk wait until the microtasks have run.
Settled == ~scheduled /\ (queue = <<>> \/ write.busy)

\* scheduleFlush: the microtask is asked for once.
Saves(maps) ==
    /\ store' = maps
    /\ dirty' = dirty + 1 /\ scheduled' = TRUE

Keeps == UNCHANGED <<store, dirty, scheduled>>

SavesIfChanged(maps) == IF maps = store THEN Keeps ELSE Saves(maps)

Enqueue == queue' = Append(queue, dirty)

\* A store that is closing leaves the last snapshot to close().
Microtask ==
    /\ scheduled /\ scheduled' = FALSE
    /\ IF Accepting THEN Enqueue ELSE UNCHANGED queue
    /\ UNCHANGED <<now, issuer, tokenVars, dirty, persisted, write, failed, phase, disk,
                   historyVars>>

\* An operation whose version was written by an earlier one does nothing.
FlushSkips ==
    /\ queue # <<>> /\ ~write.busy /\ persisted >= Head(queue)
    /\ queue' = Tail(queue)
    /\ UNCHANGED <<now, issuer, tokenVars, dirty, persisted, scheduled, write, failed, phase, disk,
                   historyVars>>

\* The snapshot and its version are taken together.
FlushBegins ==
    /\ queue # <<>> /\ ~write.busy /\ persisted < Head(queue)
    /\ write' = [version |-> dirty, maps |-> store, forgotten |-> withdrawn,
                 renamed |-> FALSE, busy |-> TRUE]
    /\ UNCHANGED <<now, issuer, tokenVars, dirty, persisted, scheduled, queue, failed, phase, disk,
                   historyVars>>

FlushRenames ==
    /\ Settled /\ write.busy /\ ~write.renamed
    /\ disk' = [issuer |-> issuer, maps |-> write.maps]
    /\ write' = [write EXCEPT !.renamed = TRUE]
    /\ UNCHANGED <<now, issuer, tokenVars, dirty, persisted, scheduled, queue, failed, phase,
                   historyVars>>

\* Mutant: the version that is dirty by then is taken for the one that was written.
FlushSucceedsAtDirty ==
    /\ Settled /\ write.busy /\ write.renamed
    /\ persisted' = dirty
    /\ failed' = FALSE
    /\ forgotten' = forgotten \cup write.forgotten
    /\ queue' = Tail(queue) /\ write' = NoWrite
    /\ UNCHANGED <<now, issuer, tokenVars, dirty, scheduled, phase, disk, withdrawn>>

FlushSucceeds ==
    /\ Settled /\ write.busy /\ write.renamed
    /\ persisted' = IF write.version > persisted THEN write.version ELSE persisted
    /\ failed' = FALSE
    /\ forgotten' = forgotten \cup write.forgotten
    /\ queue' = Tail(queue) /\ write' = NoWrite
    /\ UNCHANGED <<now, issuer, tokenVars, dirty, scheduled, phase, disk, withdrawn>>

\* Before the rename, or when the directory cannot be synchronized after it.
FlushFails ==
    /\ DiskMayFail /\ Settled /\ write.busy
    /\ failed' = TRUE
    /\ queue' = Tail(queue) /\ write' = NoWrite
    /\ UNCHANGED <<now, issuer, tokenVars, dirty, persisted, scheduled, phase, disk,
                   historyVars>>

-----------------------------------------------------------------------------
(* close, the end of the process, and the next one *)

Turn(from, to) == phase = from /\ phase' = to

CloseBegins ==
    /\ Turn("up", "closing")
    /\ UNCHANGED <<now, issuer, tokenVars, flushVars, disk,
                   historyVars>>

\* The loop of close(): one more snapshot as long as something is not saved.
CloseLoops ==
    /\ IF persisted < dirty THEN Turn("closing", "flushing") /\ Enqueue
       ELSE Turn("closing", "draining") /\ UNCHANGED queue
    /\ UNCHANGED <<now, issuer, tokenVars, dirty, persisted, scheduled, write, failed, disk,
                   historyVars>>

CloseWaits ==
    /\ queue = <<>>
    /\ \/ Turn("flushing", IF failed THEN "failed" ELSE "closing")
       \/ Turn("draining", IF failed THEN "failed" ELSE "closed")
    /\ UNCHANGED <<now, issuer, tokenVars, flushVars, disk,
                   historyVars>>

\* What was withdrawn, and whose end was not saved, may be back.
Die ==
    /\ Running /\ phase' = "down"
    /\ store' = NoMaps /\ consents' = {} /\ codes' = {}
    /\ dirty' = 0 /\ persisted' = 0 /\ scheduled' = FALSE
    /\ queue' = <<>> /\ write' = NoWrite /\ failed' = FALSE
    /\ withdrawn' = forgotten
    /\ UNCHANGED <<now, issuer, since, asked, minted, disk, forgotten>>

\* loadSync: clients that are valid still, unexpired tokens of those clients.
Loaded(maps) ==
    LET known == {c \in maps.clients : ~Outlived(c)}
        OfKnown(ps) == {p \in ps : minted[p].client \in known} IN
    Unexpired([clients |-> known, access |-> OfKnown(maps.access), refresh |-> OfKnown(maps.refresh)])

\* Mutant: the issuer of the file is not compared.
OwnFileOfAny(i) == i \in Issuer

OwnFile(i) == disk.issuer \in {i, NoIssuer}

\* The constructor sweeps what it loaded: no consent or code is left to keep a client.
Resumed(maps) ==
    LET idle == {c \in maps.clients :
                    /\ now >= since[c] + InactiveTtl
                    /\ \A p \in maps.access \cup maps.refresh : minted[p].client # c} IN
    Without(maps, idle)

\* A file of another issuer is dropped, and will be overwritten.
Start(i) ==
    LET maps == IF OwnFile(i) THEN Loaded(disk.maps) ELSE NoMaps IN
    /\ Turn("down", "up")
    /\ issuer' = i
    /\ store' = Resumed(maps)
    /\ IF OwnFile(i) /\ Resumed(maps) = maps THEN UNCHANGED <<dirty, scheduled>>
       ELSE dirty' = dirty + 1 /\ scheduled' = TRUE
    /\ UNCHANGED <<now, consents, codes, since, asked, minted, persisted, queue, write, failed, disk,
                   historyVars>>

Tick ==
    /\ Settled /\ now < MaxTime /\ now' = now + 1
    /\ UNCHANGED <<issuer, tokenVars, flushVars, phase, disk,
                   historyVars>>

\* The first process finds no file, or one with a grant that an earlier process
\* saved a while ago.
StoreInit ==
    LET nothing == [client |-> NoClient, txn |-> {}, at |-> 0, issuer |-> NoIssuer] IN
    /\ now = 2 /\ issuer \in Issuer
    /\ store = NoMaps /\ consents = {} /\ codes = {}
    /\ \/ /\ since = [c \in Client |-> 0]
          /\ asked = [t \in Txn |-> [client |-> NoClient, at |-> 0]]
          /\ minted = [p \in Pair |-> nothing]
          /\ disk = NoFile
       \/ \E c \in Client, t \in Txn, p \in Pair :
             /\ since = [d \in Client |-> IF d = c THEN 1 ELSE 0]
             /\ asked = [u \in Txn |-> [client |-> IF u = t THEN c ELSE NoClient,
                                        at |-> IF u = t THEN 1 ELSE 0]]
             /\ minted = [[q \in Pair |-> nothing] EXCEPT
                   ![p] = [client |-> c, txn |-> {t}, at |-> 1, issuer |-> issuer]]
             /\ disk = [issuer |-> issuer,
                        maps |-> [clients |-> {c}, access |-> {p}, refresh |-> {p}]]
    /\ dirty = 0 /\ persisted = 0 /\ scheduled = FALSE
    /\ queue = <<>> /\ write = NoWrite /\ failed = FALSE
    /\ phase = "down"
    /\ withdrawn = {} /\ forgotten = {}
=============================================================================
