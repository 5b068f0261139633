----------------------------- MODULE TokenFamily -----------------------------
(***************************************************************************)
(* What the authorizations promise, stated without clients, clocks, queues *)
(* or caps: each is granted once, its refresh token is replaced by one     *)
(* that was never seen before, and one of them works at most.  A restart   *)
(* may go back to what was saved; nothing else brings a token back.        *)
(***************************************************************************)
CONSTANTS Txn, Pair

VARIABLES
    issued,     \* issued[t]: the refresh tokens ever minted in the family of t
    current,    \* current[t]: the one that works, if any
    writing,    \* writing[t]: the one in the snapshot that is being written
    saved,      \* saved[t]: the one on disk
    up

familyVars == <<issued, current, writing, saved, up>>

Init ==
    /\ \A t \in Txn : saved[t] = {} \/ \E p \in Pair : saved[t] = {p}
    /\ issued = saved /\ writing = saved /\ current = [t \in Txn |-> {}]
    /\ up = FALSE

Same(t) == issued'[t] = issued[t] /\ current'[t] = current[t]

Mint(t, p) == issued'[t] = issued[t] \cup {p} /\ p \notin issued[t] /\ current'[t] = {p}

Grant(t) == issued[t] = {} /\ \E p \in Pair : Mint(t, p)

Rotate(t) == current[t] # {} /\ \E p \in Pair : Mint(t, p)

\* Revoked, expired, or pushed out.
End(t) == issued'[t] = issued[t] /\ current'[t] = {}

\* One family is served at a time, while others may end.
Serve ==
    /\ up /\ up' /\ UNCHANGED <<writing, saved>>
    /\ \A t \in Txn : Grant(t) \/ Rotate(t) \/ End(t) \/ Same(t)

Snapshot == writing' = current /\ UNCHANGED <<issued, current, saved, up>>

Commit == saved' = writing /\ UNCHANGED <<issued, current, writing, up>>

Abort == writing' = saved /\ UNCHANGED <<issued, current, saved, up>>

Die ==
    /\ up' = FALSE /\ writing' = saved /\ UNCHANGED <<issued, saved>>
    /\ current' = [t \in Txn |-> {}]

Restart ==
    /\ ~up /\ up' /\ UNCHANGED <<issued, writing, saved>>
    /\ \A t \in Txn : current'[t] \in {saved[t], {}}

Next == Serve \/ Snapshot \/ Commit \/ Abort \/ Die \/ Restart

Spec == Init /\ [][Next]_familyVars
=============================================================================
