------------------------------- MODULE ToolCall -------------------------------
(***************************************************************************)
(* A destructive tool call that needs no confirmation: the handler of      *)
(* src/core/tool-factory.ts, the durable path of runExclusive in           *)
(* src/core/idempotency.ts that it runs under, and the part of             *)
(* src/core/client.ts that tells the ledger whether the mutation was sent. *)
(* Calls run in processes that share one state directory; a process may    *)
(* be killed at any await and starts again with empty maps.                *)
(***************************************************************************)
EXTENDS IdempotencyStore

VARIABLES
    req,         \* req[c]: the process, key and arguments of call c
    pc,          \* pc[c]: how far call c has come
    began,       \* began[c]: the clock runExclusive read when it took the lease
    dispatched,  \* dispatched[c]: the latch set by onDispatch
    refreshed,   \* refreshed[c]: the one retry after a 401 is used up
    served,      \* served[c]: the call whose result c was answered with
    owed         \* history: owed[k], the calls whose mutation was sent under k,
                 \* was not refused, and that the key still has to answer for

callVars == <<req, pc, began, dispatched, refreshed, served, owed>>
vars == <<storeVars, callVars>>

ASSUME PayloadAssumption == Payload = Call /\ NoPayload = NoCall

Request == [proc : Proc, key : Key, argsHash : Args]

\* Inside runExclusive with the reservation written and execute() running
\* or settled, the lease held throughout.
Queued == "queued"            \* waiting for a rate-limiter slot or a token
Sent == "sent"                \* fetch() in flight
Settled == "settled"          \* execute() returned a result
Uncertain == {"cancelled", "transport"}    \* execute() threw: outcome unknown
Executing == {Queued, Sent, Settled} \cup Uncertain

Refused == {"conflict", "held", "unfinished", "timeout", "not_sent", "limit",
            "io_error", "unknown"}
Over == Refused \cup {"served", "dead"}

Proc_(c) == req[c].proc
Key_(c) == req[c].key
Args_(c) == req[c].argsHash
Rec(c) == record[Key_(c)]

HasLease(c) == lease[Key_(c)] = c

-----------------------------------------------------------------------------
(* Steps that several handlers share *)

Goto(c, label) == pc' = [pc EXCEPT ![c] = label]

\* The lease is given back, and the locals of the call are gone.
Leave(c, label) ==
    /\ Goto(c, label)
    /\ lease' = [lease EXCEPT ![Key_(c)] = NoCall]
    /\ began' = [began EXCEPT ![c] = 0]
    /\ dispatched' = [dispatched EXCEPT ![c] = FALSE]
    /\ refreshed' = [refreshed EXCEPT ![c] = FALSE]

Write(c, rec) == record' = [record EXCEPT ![Key_(c)] = rec]

\* A request that was not sent, or that Avito refused, is owed no answer.
NotOwed(c) == owed' = [owed EXCEPT ![Key_(c)] = @ \ {c}]

\* The record of the key goes away: from here on the key answers for nothing.
Reopened(c) == owed' = [owed EXCEPT ![Key_(c)] = {}]

-----------------------------------------------------------------------------
(* lookup: the process answers from its own map when it can.               *)

\* Mutant: the map of the process answers whatever the arguments are.
LookupIgnoresArgs(c) ==
    LET e == SweptEntries(Proc_(c), {})[Key_(c)] IN
    /\ pc[c] = "idle"
    /\ CleanupExpired(Proc_(c), {})
    /\ \/ e = Absent /\ Goto(c, "lock") /\ UNCHANGED served
       \/ e # Absent /\ Goto(c, "served") /\ served' = [served EXCEPT ![c] = e.result]
    /\ UNCHANGED <<now, record, lease, req, began, dispatched, refreshed, owed>>

Lookup(c) ==
    LET e == SweptEntries(Proc_(c), {})[Key_(c)] IN
    /\ pc[c] = "idle"
    /\ CleanupExpired(Proc_(c), {})
    /\ \/ e = Absent /\ Goto(c, "lock") /\ UNCHANGED served
       \/ e # Absent /\ e.argsHash # Args_(c) /\ Goto(c, "conflict") /\ UNCHANGED served
       \/ /\ e # Absent /\ e.argsHash = Args_(c)
          /\ Goto(c, "served") /\ served' = [served EXCEPT ![c] = e.result]
    /\ UNCHANGED <<now, record, lease, req, began, dispatched, refreshed, owed>>

(* The lease is free and c takes it.  When the record refuses or replays   *)
(* the call, the lease is given back in the same step.                     *)

\* Mutant: the lease is not exclusive.
TakesLeaseAnyway(c) == pc[c] = "lock"

TakesLease(c) == pc[c] = "lock" /\ lease[Key_(c)] = NoCall

RefuseConflict(c) ==
    /\ TakesLease(c)
    /\ Conflicts(Key_(c), Args_(c))
    /\ Goto(c, "conflict")
    /\ UNCHANGED <<storeVars, req, began, dispatched, refreshed, served, owed>>

Replay(c) ==
    /\ TakesLease(c)
    /\ ~Conflicts(Key_(c), Args_(c))
    /\ Replays(Key_(c), FALSE, TRUE)
    /\ entries' = [entries EXCEPT ![Proc_(c)][Key_(c)] = Rec(c)]
    /\ served' = [served EXCEPT ![c] = Rec(c).result]
    /\ Goto(c, "served")
    /\ UNCHANGED <<now, record, lease, holds, req, began, dispatched, refreshed, owed>>

RefuseHeld(c) ==
    /\ TakesLease(c)
    /\ ~Conflicts(Key_(c), Args_(c))
    /\ InForce(Rec(c))
    /\ holds' = [holds EXCEPT ![Proc_(c)][Key_(c)] = Rec(c)]
    /\ Goto(c, "held")
    /\ UNCHANGED <<now, record, lease, entries, req, began, dispatched, refreshed, served, owed>>

\* A reservation whose owner never came back stays closed for good.
RefuseUnfinished(c) ==
    /\ TakesLease(c)
    /\ ~Conflicts(Key_(c), Args_(c))
    /\ Rec(c).state = "in_flight"
    /\ Goto(c, "unfinished")
    /\ UNCHANGED <<storeVars, req, began, dispatched, refreshed, served, owed>>

\* No record, or one that lapsed: the lapsed one is removed first.
Claim(c) ==
    /\ TakesLease(c)
    /\ Usable(Key_(c), Args_(c), FALSE, TRUE)
    /\ lease' = [lease EXCEPT ![Key_(c)] = c]
    /\ began' = [began EXCEPT ![c] = now]
    /\ Goto(c, "reserve")
    /\ Write(c, Absent)
    /\ Reopened(c)
    /\ IF Rec(c) = Absent THEN UNCHANGED <<entries, holds>> ELSE Forget(Proc_(c), Key_(c))
    /\ UNCHANGED <<now, req, dispatched, refreshed, served>>

\* FileLockTimeoutError, or the deadline of the wait.
GiveUpLock(c) ==
    /\ pc[c] = "lock"
    /\ lease[Key_(c)] # NoCall
    /\ Goto(c, "timeout")
    /\ UNCHANGED <<storeVars, req, began, dispatched, refreshed, served, owed>>

Reserve(c) ==
    /\ pc[c] = "reserve"
    /\ Write(c, Reservation(Args_(c), began[c]))
    /\ Goto(c, Queued)
    /\ UNCHANGED <<now, lease, entries, holds, req, began, dispatched, refreshed, served, owed>>

\* The write of the reservation is outside the try block: the call fails
\* before execute() starts and leaves no record.
ReserveFails(c) ==
    /\ pc[c] = "reserve" /\ DiskMayFail
    /\ Leave(c, "io_error")
    /\ UNCHANGED <<now, record, entries, holds, req, served, owed>>

-----------------------------------------------------------------------------
(* execute: the request, and what its fate tells the ledger *)

Dispatch(c) ==
    /\ pc[c] = Queued
    /\ Goto(c, Sent)
    /\ dispatched' = [dispatched EXCEPT ![c] = TRUE]
    /\ owed' = [owed EXCEPT ![Key_(c)] = @ \cup {c}]
    /\ UNCHANGED <<storeVars, req, began, refreshed, served>>

\* 401: Avito did not act on the request.  The token is refreshed and the
\* request queued again, once.
Unauthorized(c) ==
    /\ pc[c] = Sent /\ ~refreshed[c]
    /\ Goto(c, Queued)
    /\ dispatched' = [dispatched EXCEPT ![c] = FALSE]
    /\ refreshed' = [refreshed EXCEPT ![c] = TRUE]
    /\ NotOwed(c)
    /\ UNCHANGED <<storeVars, req, began, served>>

\* A status and a body, or a definite error status: an ordinary result.  So
\* is a failure before the request that is no transport failure (an upload
\* outside the allowed directories, missing credentials).
Answered(c) ==
    /\ pc[c] \in {Queued, Sent}
    /\ Goto(c, Settled)
    /\ UNCHANGED <<storeVars, req, began, dispatched, refreshed, served, owed>>

\* Mutant: the latch is not asked, a failed request is taken for one not sent.
NothingSentUnlatched(c) ==
    /\ pc[c] \in {Queued, Sent}
    /\ Write(c, Absent)
    /\ Leave(c, "not_sent")
    /\ UNCHANGED <<now, entries, holds, req, served, owed>>

\* The caller withdrew the call (signal.aborted), or the network or the
\* deadline failed it.  What follows depends on the latch alone.
NothingSent(c) ==
    /\ pc[c] = Queued
    /\ ~dispatched[c]
    /\ Write(c, Absent)
    /\ Leave(c, "not_sent")
    /\ UNCHANGED <<now, entries, holds, req, served, owed>>

OutcomeUnknown(c) ==
    /\ pc[c] = Sent
    /\ \E why \in Uncertain : Goto(c, why)
    /\ UNCHANGED <<storeVars, req, began, dispatched, refreshed, served, owed>>

-----------------------------------------------------------------------------
(* back in runExclusive *)

Reason(c) ==
    IF pc[c] = "cancelled" THEN "cancelled_after_dispatch" ELSE "transport_failure_after_dispatch"

RecordResult(c) ==
    /\ pc[c] = Settled
    /\ HasRoom(Proc_(c), Key_(c), {})
    /\ Remember(Proc_(c), Key_(c), Completed(Args_(c), c), {})
    /\ Write(c, Completed(Args_(c), c))
    /\ served' = [served EXCEPT ![c] = c]
    /\ Leave(c, "served")
    /\ UNCHANGED <<now, req, owed>>

\* remember() found the ledger full, after the mutation: the catch block
\* removes the reservation.
RecordOverflows(c) ==
    /\ pc[c] = Settled
    /\ ~HasRoom(Proc_(c), Key_(c), {})
    /\ CleanupExpired(Proc_(c), {})
    /\ Write(c, Absent)
    /\ Reopened(c)
    /\ Leave(c, "limit")
    /\ UNCHANGED <<now, req, served>>

\* The result is remembered but its record cannot be written: the catch
\* block removes the reservation all the same.
RecordFails(c) ==
    /\ pc[c] = Settled /\ DiskMayFail
    /\ HasRoom(Proc_(c), Key_(c), {})
    /\ Remember(Proc_(c), Key_(c), Completed(Args_(c), c), {})
    /\ Write(c, Absent)
    /\ Reopened(c)
    /\ Leave(c, "io_error")
    /\ UNCHANGED <<now, req, served>>

\* Mutant: an unknown outcome frees the key like any other failure.
RecordHoldFrees(c) ==
    /\ pc[c] \in Uncertain
    /\ Write(c, Absent)
    /\ Leave(c, "unknown")
    /\ UNCHANGED <<now, entries, holds, req, served, owed>>

RecordHold(c) ==
    /\ pc[c] \in Uncertain
    /\ Write(c, Held(Reservation(Args_(c), began[c]), Reason(c)))
    /\ RememberHold(Proc_(c), Key_(c), Held(Reservation(Args_(c), began[c]), Reason(c)))
    /\ Leave(c, "unknown")
    /\ UNCHANGED <<now, req, served, owed>>

\* Mutants: a hold that cannot be written frees the key, or keeps the lease.
HoldFailsFrees(c) ==
    /\ pc[c] \in Uncertain /\ DiskMayFail
    /\ Write(c, Absent)
    /\ Leave(c, "io_error")
    /\ UNCHANGED <<now, entries, holds, req, served, owed>>

HoldFailsLocked(c) ==
    /\ pc[c] \in Uncertain /\ DiskMayFail
    /\ Goto(c, "io_error")
    /\ UNCHANGED <<storeVars, req, began, dispatched, refreshed, served, owed>>

\* The hold cannot be written: the reservation stays behind, which is
\* closed for good.
HoldFails(c) ==
    /\ pc[c] \in Uncertain /\ DiskMayFail
    /\ Leave(c, "io_error")
    /\ UNCHANGED <<now, record, entries, holds, req, served, owed>>

-----------------------------------------------------------------------------
(* A process is killed: its calls die, its maps are lost, and the leases   *)
(* of a dead owner are reclaimed by whoever comes next.                    *)

Crash(p) ==
    LET dying == {c \in Call : Proc_(c) = p /\ pc[c] \notin Over \cup {"idle"}} IN
    /\ pc' = [c \in Call |-> IF c \in dying THEN "dead" ELSE pc[c]]
    /\ lease' = [k \in Key |-> IF lease[k] \in dying THEN NoCall ELSE lease[k]]
    /\ entries' = [entries EXCEPT ![p] = [k \in Key |-> Absent]]
    /\ holds' = [holds EXCEPT ![p] = [k \in Key |-> Absent]]
    /\ began' = [c \in Call |-> IF c \in dying THEN 0 ELSE began[c]]
    /\ dispatched' = [c \in Call |-> c \notin dying /\ dispatched[c]]
    /\ refreshed' = [c \in Call |-> c \notin dying /\ refreshed[c]]
    /\ UNCHANGED <<now, record, req, served, owed>>

Operator(p, k) ==
    /\ ReleaseHold(p, k)
    /\ owed' = IF record[k].state = "indeterminate" THEN [owed EXCEPT ![k] = {}] ELSE owed
    /\ UNCHANGED <<req, pc, began, dispatched, refreshed, served>>

Clock == Advance /\ UNCHANGED <<record, lease, entries, holds, callVars>>

-----------------------------------------------------------------------------

Init ==
    /\ StoreInit
    /\ req \in [Call -> Request]
    /\ pc = [c \in Call |-> "idle"]
    /\ began = [c \in Call |-> 0]
    /\ dispatched = [c \in Call |-> FALSE]
    /\ refreshed = [c \in Call |-> FALSE]
    /\ served = [c \in Call |-> NoCall]
    /\ owed = [k \in Key |-> {}]

\* What a started call does of itself, given time.
Progress(c) ==
    \/ RefuseConflict(c) \/ Replay(c) \/ RefuseHeld(c) \/ RefuseUnfinished(c)
    \/ Claim(c) \/ GiveUpLock(c) \/ Reserve(c) \/ ReserveFails(c)
    \/ Dispatch(c) \/ Unauthorized(c) \/ Answered(c) \/ NothingSent(c) \/ OutcomeUnknown(c)
    \/ RecordResult(c) \/ RecordOverflows(c) \/ RecordFails(c) \/ RecordHold(c) \/ HoldFails(c)

Next ==
    \/ \E c \in Call : Lookup(c) \/ Progress(c)
    \/ \E p \in Proc : Crash(p)
    \/ \E p \in Proc, k \in Key : Operator(p, k)
    \/ Clock

\* Every await of a started call settles: the lease wait, the rate-limiter
\* wait, the token and the fetch carry a deadline, and the file system answers.
Fairness == \A c \in Call : WF_vars(Progress(c))

Spec == Init /\ [][Next]_vars
FairSpec == Spec /\ Fairness

-----------------------------------------------------------------------------
(* Properties *)

TypeOK ==
    /\ StoreTypeOK
    /\ req \in [Call -> Request]
    /\ pc \in [Call -> {"idle", "lock", "reserve"} \cup Executing \cup Over]
    /\ began \in [Call -> 0 .. MaxTime]
    /\ dispatched \in [Call -> BOOLEAN]
    /\ refreshed \in [Call -> BOOLEAN]
    /\ served \in [Call -> Call \cup {NoCall}]
    /\ owed \in [Key -> SUBSET Call]

\* The caller that executes is the one that holds the lease, and its
\* reservation stays in the ledger, under its arguments, until it ends
\* (idempotency.ts:351-450).
ReservationStands ==
    \A c \in Call : pc[c] \in Executing =>
        /\ HasLease(c)
        /\ Rec(c) = Reservation(Args_(c), began[c])

\* However calls, processes, crashes, expiries and operators interleave, the
\* mutations a key has to answer for are at most one, and the ledger holds a
\* record that says so (idempotency.ts:351-450, tool-factory.ts:341-413).
AtMostOneMutation ==
    \A k \in Key :
        /\ \A c, d \in owed[k] : c = d
        /\ owed[k] # {} => record[k].state # "absent"

\* A call is answered with the result of a call of the same key and the same
\* arguments, whether it executed, was replayed from the map of its process
\* or from the record another process wrote (idempotency.ts:302-310, 365-376).
ReplayIsOwnResult ==
    \A c \in Call : served[c] # NoCall =>
        /\ Key_(served[c]) = Key_(c)
        /\ Args_(served[c]) = Args_(c)

ShutStep ==
    \A k \in Key :
        /\ \/ record[k].state = "in_flight" /\ lease[k] = NoCall
           \/ record[k].holdReason = "transport_failure_after_dispatch"
        /\ record'[k] # record[k]
        => \E p \in Proc : Operator(p, k)

\* A reservation without an owner and a hold for a lost answer are lifted by
\* no call, no clock and no restart; the hold alone by an operator
\* (idempotency.ts:61-72, 379-395, 597-620).
ShutUntilReconciled == [][ShutStep]_vars

ForgetsNone ==
    \A k \in Key :
        record[k].state = "in_flight" /\ owed[k] # {} => record'[k].state # "absent"

\* The reservation of a mutation that may have been applied turns into a
\* result or a hold; it is not just removed, which would let the next call
\* repeat the mutation (idempotency.ts:8-10, 432-445).
NeverForgotten == [][ForgetsNone]_vars

\* Nobody keeps a lease: the callers that wait for it are not stuck behind a
\* call that ended, failed or died (idempotency.ts:360-450).
LeaseComesBack == \A k \in Key : lease[k] # NoCall ~> lease[k] = NoCall

-----------------------------------------------------------------------------
(* The ledger implements the slot of a key *)

\* remember() runs out of room only when results and holds may outnumber the
\* quota; each key has at most one of either.
MayForget == DiskMayFail \/ MaxEntries < 2 * Cardinality(Key)

SlotOf(rec) ==
    CASE rec.state = "absent" -> "free"
      [] rec.state = "in_flight" -> "reserved"
      [] rec.state = "completed" -> "answered"
      [] rec.state = "indeterminate" ->
           IF rec.holdReason = "transport_failure_after_dispatch" THEN "lost" ELSE "cancelled"

slot == [k \in Key |-> SlotOf(record[k])]

Promise == INSTANCE MutationSlot WITH
    Key <- Key, Call <- Call, MayForget <- MayForget, slot <- slot, owed <- owed

\* Every behaviour of the calls and the ledger is one of the slots: a sent
\* mutation leaves its key by lapse of a known answer or of a cancelled call,
\* or by an operator, never otherwise (idempotency.ts:61-72).
KeepsPromise == Promise!Spec
=============================================================================
