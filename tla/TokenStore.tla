------------------------------ MODULE TokenStore ------------------------------
(***************************************************************************)
(* The access token of src/core/token-store.ts and the requests of         *)
(* src/core/client.ts that use it: a cache in each process, a file that    *)
(* processes and accounts share under a file lease, one refresh at a time  *)
(* in a process, and the retry of a request that Avito refused with 401.   *)
(*                                                                         *)
(* Every await of the code is the end of a step.  Steps under the lease    *)
(* are one with its acquisition or its release where nothing that the      *)
(* lease protects is awaited in between.                                   *)
(***************************************************************************)
EXTENDS Naturals, FiniteSets

CONSTANTS
    Proc,
    Account,
    Accounts,       \* the accounts that the processes may be configured with
    Call,           \* requests to Avito
    Home,           \* Home[c]: the process of a request
    MaxTokens,      \* bound: tokens that Avito issues
    NoToken,
    Nobody,
    DiskMayFail

\* Tokens are numbered as Avito issues them.
Token == [id : 1 .. MaxTokens, account : Account]

ASSUME TokenAssumption ==
    /\ Accounts \subseteq [Proc -> Account]
    /\ Home \in [Call -> Proc]
    /\ MaxTokens \in Nat \ {0}
    /\ NoToken \notin Token /\ Nobody \notin Proc
    /\ DiskMayFail \in BOOLEAN

VARIABLES
    account,    \* account[p]: the account that p is configured with
    file,       \* the token in the file
    lease,      \* the process whose refresh holds the lease of the file
    issued,     \* the number of tokens that Avito has issued
    expired,    \* the tokens that expire within skewMs
    revoked,    \* the tokens that Avito refuses
    cache,
    refresh,    \* refresh[p]: how far the refresh in flight in p is
    result,     \* result[p]: what it settles with
    pc,
    token,      \* token[c]: the token c has read, then the one it sends
    rejected,   \* rejected[c]: the token with which c was refused
    gone        \* the requests whose deadline has passed

vars == <<account, file, lease, issued, expired, revoked, cache, refresh, result,
          pc, token, rejected, gone>>

stored == <<account, file, lease, issued, expired, revoked>>

Goto(c, label) == pc' = [pc EXCEPT ![c] = label]

\* What a request leaves behind when it is over.
End(c) ==
    /\ Goto(c, "over")
    /\ token' = [token EXCEPT ![c] = NoToken]
    /\ rejected' = [rejected EXCEPT ![c] = NoToken]
    /\ gone' = gone \ {c}

Usable(t) == t # NoToken /\ t.id \notin expired

\* Mutant: the fingerprint of the record is not looked at.
OwnRecordAny(p) == file

\* readFile: the record of another account counts as none.
OwnRecord(p) == IF file # NoToken /\ file.account = account[p] THEN file ELSE NoToken

-----------------------------------------------------------------------------
(* getToken *)

\* Where getToken gets without an await.
Asked(p) ==
    CASE Usable(cache[p])   -> "send"
      [] cache[p] = NoToken -> "read"
      [] OTHER              -> "joined"

\* refresh(): callers share the one in flight.
Join(p) == refresh' = [refresh EXCEPT ![p] = IF @ = "none" THEN "lease" ELSE @]

GetToken(c) ==
    LET p == Home[c] IN
    /\ pc[c] = "new"
    /\ Goto(c, Asked(p))
    /\ token' = [token EXCEPT ![c] = IF Usable(cache[p]) THEN cache[p] ELSE NoToken]
    /\ IF Asked(p) = "joined" THEN Join(p) ELSE UNCHANGED refresh
    /\ UNCHANGED <<stored, cache, result, rejected, gone>>

ReadFile(c) ==
    /\ pc[c] = "read"
    /\ token' = [token EXCEPT ![c] = OwnRecord(Home[c])]
    /\ Goto(c, "loaded")
    /\ UNCHANGED <<stored, cache, refresh, result, rejected, gone>>

\* What was read goes to the cache, whatever the cache holds by now.
UseFile(c) ==
    /\ pc[c] = "loaded" /\ Usable(token[c])
    /\ cache' = [cache EXCEPT ![Home[c]] = token[c]]
    /\ IF c \in gone THEN End(c) ELSE Goto(c, "send") /\ UNCHANGED <<token, rejected, gone>>
    /\ UNCHANGED <<stored, refresh, result>>

RefreshInstead(c) ==
    /\ pc[c] = "loaded" /\ ~Usable(token[c])
    /\ Join(Home[c])
    /\ token' = [token EXCEPT ![c] = NoToken]
    /\ Goto(c, "joined")
    /\ UNCHANGED <<stored, cache, result, rejected, gone>>

-----------------------------------------------------------------------------
(* doRequest *)

Answered(c) ==
    /\ pc[c] = "send" /\ token[c].id \notin revoked
    /\ End(c)
    /\ UNCHANGED <<stored, cache, refresh, result>>

\* A 401 is taken for a stale token once.
Unauthorized(c) ==
    /\ pc[c] = "send" /\ token[c].id \in revoked
    /\ IF rejected[c] = NoToken
       THEN /\ rejected' = [rejected EXCEPT ![c] = token[c]]
            /\ token' = [token EXCEPT ![c] = NoToken]
            /\ Goto(c, "rejected") /\ UNCHANGED gone
       ELSE End(c)
    /\ UNCHANGED <<stored, cache, refresh, result>>

\* invalidate: the cache is cleared before the lease is waited for.
Invalidate(c) ==
    /\ pc[c] = "rejected"
    /\ cache' = [cache EXCEPT ![Home[c]] = NoToken]
    /\ Goto(c, "invalidating")
    /\ UNCHANGED <<stored, refresh, result, token, rejected, gone>>

RemoveFile(c) ==
    /\ pc[c] = "invalidating" /\ lease = Nobody
    /\ file' = IF OwnRecord(Home[c]) # NoToken THEN NoToken ELSE file
    /\ Goto(c, "removed")
    /\ UNCHANGED <<account, lease, issued, expired, revoked, cache, refresh, result,
                   token, rejected, gone>>

\* The lease is not to be had in time, or the file cannot be removed.
RemoveFails(c) ==
    /\ pc[c] = "invalidating" /\ (lease # Nobody \/ DiskMayFail)
    /\ End(c)
    /\ UNCHANGED <<stored, cache, refresh, result>>

\* The release of the lease is over; the refresh in flight may be an older one.
RefreshAfter401(c) ==
    /\ pc[c] = "removed"
    /\ Join(Home[c])
    /\ Goto(c, "refreshing")
    /\ UNCHANGED <<stored, cache, result, token, rejected, gone>>

\* The request gives up; what it has begun goes on without it.
Deadline(c) ==
    /\ c \notin gone
    /\ \/ /\ pc[c] \in {"read", "loaded", "joined", "invalidating", "removed", "refreshing"}
          /\ gone' = gone \cup {c}
          /\ UNCHANGED <<pc, token, rejected>>
       \/ pc[c] = "send" /\ End(c)
    /\ UNCHANGED <<stored, cache, refresh, result>>

-----------------------------------------------------------------------------
(* refresh: the promise that the callers of a process share *)

Settles(p, t) ==
    /\ result' = [result EXCEPT ![p] = t]
    /\ refresh' = [refresh EXCEPT ![p] = "settled"]

\* The file is read once more under the lease.
ReadAgain(p) ==
    /\ refresh[p] = "lease" /\ lease = Nobody
    /\ IF Usable(OwnRecord(p))
       THEN /\ cache' = [cache EXCEPT ![p] = file]
            /\ Settles(p, file) /\ UNCHANGED lease
       ELSE /\ lease' = p
            /\ refresh' = [refresh EXCEPT ![p] = "fetch"]
            /\ UNCHANGED <<cache, result>>
    /\ UNCHANGED <<account, file, issued, expired, revoked, pc, token, rejected, gone>>

RefreshTimesOut(p) ==
    /\ refresh[p] = "lease" /\ lease # Nobody
    /\ Settles(p, NoToken)
    /\ UNCHANGED <<stored, cache, pc, token, rejected, gone>>

\* Mutant: the lease covers the fetch and not the file.
FetchUnlocked(p) ==
    /\ refresh[p] = "fetch" /\ issued < MaxTokens
    /\ issued' = issued + 1
    /\ LET t == [id |-> issued + 1, account |-> account[p]] IN
          /\ cache' = [cache EXCEPT ![p] = t]
          /\ result' = [result EXCEPT ![p] = t]
    /\ refresh' = [refresh EXCEPT ![p] = "write"]
    /\ lease' = Nobody
    /\ UNCHANGED <<account, file, expired, revoked, pc, token, rejected, gone>>

\* Avito issues a new token; it serves the process before it is in the file.
Fetch(p) ==
    /\ refresh[p] = "fetch" /\ issued < MaxTokens
    /\ issued' = issued + 1
    /\ LET t == [id |-> issued + 1, account |-> account[p]] IN
          /\ cache' = [cache EXCEPT ![p] = t]
          /\ result' = [result EXCEPT ![p] = t]
    /\ refresh' = [refresh EXCEPT ![p] = "write"]
    /\ UNCHANGED <<account, file, lease, expired, revoked, pc, token, rejected, gone>>

\* Mutant: the promise is forgotten before it settles.
FetchFailsSilently(p) ==
    /\ refresh[p] = "fetch"
    /\ refresh' = [refresh EXCEPT ![p] = "none"]
    /\ lease' = Nobody
    /\ UNCHANGED <<account, file, issued, expired, revoked, cache, result, pc, token, rejected, gone>>

FetchFails(p) ==
    /\ refresh[p] = "fetch"
    /\ Settles(p, NoToken)
    /\ lease' = Nobody
    /\ UNCHANGED <<account, file, issued, expired, revoked, cache, pc, token, rejected, gone>>

\* Mutant: the lease is released before the write.
WriteFileLate(p) ==
    /\ refresh[p] = "write"
    /\ lease' = Nobody
    /\ refresh' = [refresh EXCEPT ![p] = IF lease = p THEN "write" ELSE "settled"]
    /\ file' = IF lease = p THEN file ELSE result[p]
    /\ UNCHANGED <<account, issued, expired, revoked, cache, result, pc, token, rejected, gone>>

\* A write that fails is logged and forgotten.
WriteFile(p) ==
    /\ refresh[p] = "write"
    /\ \/ file' = result[p]
       \/ DiskMayFail /\ UNCHANGED file
    /\ refresh' = [refresh EXCEPT ![p] = "settled"]
    /\ lease' = Nobody
    /\ UNCHANGED <<account, issued, expired, revoked, cache, result, pc, token, rejected, gone>>

\* The callers go on before anything else happens in the process: getToken
\* returns the result, and the retry after a 401 asks for a token once more.
Settle(p) ==
    LET At(label) == {c \in Call : Home[c] = p /\ pc[c] = label}
        waiting   == At("joined") \cup At("refreshing")
        served    == IF result[p] = NoToken THEN {} ELSE At("joined") \ gone
        retrying  == IF result[p] = NoToken THEN {} ELSE At("refreshing") \ gone
        ending    == waiting \ (served \cup retrying)
    IN
    /\ refresh[p] = "settled"
    /\ pc' = [c \in Call |-> CASE c \in served   -> "send"
                               [] c \in retrying -> Asked(p)
                               [] c \in ending   -> "over"
                               [] OTHER          -> pc[c]]
    /\ token' = [c \in Call |->
          CASE c \in served                        -> result[p]
            [] c \in retrying /\ Usable(cache[p])  -> cache[p]
            [] c \in ending                        -> NoToken
            [] OTHER                               -> token[c]]
    /\ rejected' = [c \in Call |-> IF c \in ending THEN NoToken ELSE rejected[c]]
    /\ gone' = gone \ ending
    /\ refresh' = [refresh EXCEPT ![p] =
                      IF retrying # {} /\ Asked(p) = "joined" THEN "lease" ELSE "none"]
    /\ result' = [result EXCEPT ![p] = NoToken]
    /\ UNCHANGED <<stored, cache>>

-----------------------------------------------------------------------------
(* What happens to tokens and processes *)

Revoke ==
    /\ \E id \in (1 .. issued) \ revoked : revoked' = revoked \cup {id}
    /\ UNCHANGED <<account, file, lease, issued, expired, cache, refresh, result,
                   pc, token, rejected, gone>>

Expire ==
    /\ \E id \in (1 .. issued) \ expired : expired' = expired \cup {id}
    /\ UNCHANGED <<account, file, lease, issued, revoked, cache, refresh, result,
                   pc, token, rejected, gone>>

\* A process dies and starts anew; its lease is stale.
Crash(p) ==
    LET lost == {c \in Call : Home[c] = p /\ pc[c] # "new"} IN
    /\ cache' = [cache EXCEPT ![p] = NoToken]
    /\ refresh' = [refresh EXCEPT ![p] = "none"]
    /\ result' = [result EXCEPT ![p] = NoToken]
    /\ lease' = IF lease = p THEN Nobody ELSE lease
    /\ pc' = [c \in Call |-> IF c \in lost THEN "over" ELSE pc[c]]
    /\ token' = [c \in Call |-> IF c \in lost THEN NoToken ELSE token[c]]
    /\ rejected' = [c \in Call |-> IF c \in lost THEN NoToken ELSE rejected[c]]
    /\ gone' = gone \ lost
    /\ UNCHANGED <<account, file, issued, expired, revoked>>

Init ==
    /\ account \in Accounts
    /\ \/ file = NoToken /\ issued = 0
       \/ file \in [id : {1}, account : Account] /\ issued = 1
    /\ lease = Nobody
    /\ expired = {} /\ revoked = {}
    /\ cache = [p \in Proc |-> NoToken]
    /\ refresh = [p \in Proc |-> "none"]
    /\ result = [p \in Proc |-> NoToken]
    /\ pc = [c \in Call |-> "new"]
    /\ token = [c \in Call |-> NoToken]
    /\ rejected = [c \in Call |-> NoToken]
    /\ gone = {}

Progress(c) ==
    \/ ReadFile(c) \/ UseFile(c) \/ RefreshInstead(c)
    \/ Answered(c) \/ Unauthorized(c)
    \/ Invalidate(c) \/ RemoveFile(c) \/ RemoveFails(c) \/ RefreshAfter401(c)

Refresh(p) ==
    \/ ReadAgain(p) \/ RefreshTimesOut(p)
    \/ Fetch(p) \/ FetchFails(p) \/ WriteFile(p) \/ Settle(p)

Next ==
    \/ \E c \in Call : GetToken(c) \/ Progress(c) \/ Deadline(c)
    \/ \E p \in Proc : Refresh(p) \/ Crash(p)
    \/ Revoke \/ Expire

Spec == Init /\ [][Next]_vars

-----------------------------------------------------------------------------
(* Properties *)

TypeOK ==
    LET MaybeToken == Token \cup {NoToken} IN
    /\ account \in Accounts
    /\ file \in MaybeToken
    /\ lease \in Proc \cup {Nobody}
    /\ issued \in 0 .. MaxTokens
    /\ expired \subseteq 1 .. issued /\ revoked \subseteq 1 .. issued
    /\ cache \in [Proc -> MaybeToken]
    /\ refresh \in [Proc -> {"none", "lease", "fetch", "write", "settled"}]
    /\ result \in [Proc -> MaybeToken]
    /\ \A p \in Proc : refresh[p] \in {"none", "lease", "fetch"} => result[p] = NoToken
    /\ pc \in [Call -> {"new", "read", "loaded", "joined", "send", "rejected",
                        "invalidating", "removed", "refreshing", "over"}]
    /\ token \in [Call -> MaybeToken]
    /\ rejected \in [Call -> MaybeToken]
    /\ gone \subseteq {c \in Call : pc[c] \notin {"new", "send", "over"}}

\* Avito is asked for a token only while the file has none to offer: of
\* processes that find a token missing at once, one fetches it and the others
\* find it in the file (token-store.ts:154-162).
NoNeedlessFetch == \A p \in Proc : refresh[p] = "fetch" => ~Usable(OwnRecord(p))

\* A process sends the tokens of its own account, whoever writes the file
\* (token-store.ts:131-137 and 205-222, test/token-store.test.ts:115).
AccountsApart ==
    \A c \in Call : token[c] # NoToken => token[c].account = account[Home[c]]

\* A token that a request has invalidated does not come back to the file while
\* the request goes on (token-store.ts:120-124).
RejectedOffDisk ==
    \A c \in Call :
        rejected[c] # NoToken /\ pc[c] \notin {"rejected", "invalidating"} => file # rejected[c]

\* What is written to the file is the newest of all tokens: no slow writer
\* brings an older one back (token-store.ts:181-190).
WritesNewest == [][file' \notin {file, NoToken} => file'.id = issued]_vars

\* Who waits for the shared refresh waits for one that is in flight, though
\* refreshes fail, time out, and outlive their callers (token-store.ts:163-199).
NobodyWaitsInVain ==
    \A c \in Call : pc[c] \in {"joined", "refreshing"} => refresh[Home[c]] # "none"

\* The retry after a 401 does not send the token that was refused
\* (token-store.ts:120-124 and 145-151, client.ts:210-226).
RetryWithAnotherToken ==
    \A c \in Call : pc[c] = "send" => token[c] # rejected[c]
=============================================================================
