-------------------------- MODULE PendingActionStore --------------------------
(***************************************************************************)
(* The confirmation queue of src/core/pending-actions.ts in its durable    *)
(* form: one record per action, pending or claimed, under a lease of its   *)
(* own, and in every process a map of the actions it staged and a map of   *)
(* those it is executing.  The durable record is authoritative; the map of *)
(* staged actions only counts against the quota of the process and keeps   *)
(* expired previews in its ledger map.                                     *)
(*                                                                         *)
(* cleanupExpired runs at the head of every reader of that map, so readers *)
(* see LiveActions and the map itself need not be swept.                   *)
(***************************************************************************)
EXTENDS StateDirectory

CONSTANTS
    Action,        \* action ids: random, so known only to who was told
    PendingTtl,    \* confirmation time to live, in ticks
    MaxActions,    \* quota of one process
    MaxAttempts    \* wrong secrets after which an action is deleted

ASSUME PendingAssumption ==
    PendingTtl \in Nat \ {0} /\ MaxActions \in Nat \ {0} /\ MaxAttempts \in Nat \ {0}

VARIABLES
    durable,      \* durable[a]: the state of the record of a
    dueAt,        \* dueAt[a]: its expiresAt, 0 before a is staged
    failures,     \* failures[a]: its failedConfirmationAttempts
    actionLease,  \* actionLease[a]: the caller inside withFileLock on it
    actions,      \* actions[p]: the actions staged by p, not yet taken by it
    inFlight      \* inFlight[p]: the actions p has claimed and not completed

pendingVars == <<durable, dueAt, failures, actionLease, actions, inFlight>>

Overdue(a) == dueAt[a] < now

LiveActions(p) == {a \in actions[p] : ~Overdue(a)}

HasSlot(p) == Cardinality(LiveActions(p)) + Cardinality(inFlight[p]) < MaxActions

IsActive(p, a) == a \in LiveActions(p) \/ a \in inFlight[p]

\* Mutant: a claim counts in the process that made it only.
ActivityLocal(p, a) ==
    IF a \in inFlight[p] THEN "active"
    ELSE IF durable[a] # "pending" THEN "gone"
    ELSE IF Overdue(a) THEN "overdue" ELSE "active"

\* isActivePersistent reads the record without the lease.  An overdue one is
\* reported inactive once removeExpiredPersistent has returned.
Activity(p, a) ==
    IF a \in inFlight[p] \/ durable[a] = "claimed" THEN "active"
    ELSE IF durable[a] = "absent" THEN "gone"
    ELSE IF Overdue(a) THEN "overdue" ELSE "active"

LeaseFree(a) == actionLease[a] = NoCall

DropLocal(p, a) == actions' = [actions EXCEPT ![p] = @ \ {a}]

-----------------------------------------------------------------------------
(* The operations, each inside the lease of the record *)

\* createPersistent: a failed write takes the local copy back.
Stage(p, a) ==
    /\ HasSlot(p)
    /\ durable' = [durable EXCEPT ![a] = "pending"]
    /\ dueAt' = [dueAt EXCEPT ![a] = now + PendingTtl]
    /\ actions' = [actions EXCEPT ![p] = LiveActions(p) \cup {a}]
    /\ UNCHANGED <<failures, actionLease, inFlight>>

\* Mutant: the record is removed as it was read before the lease.
RemoveExpiredBlindly(p, a) ==
    /\ LeaseFree(a)
    /\ durable' = [durable EXCEPT ![a] = "absent"]
    /\ DropLocal(p, a)
    /\ UNCHANGED <<dueAt, failures, actionLease, inFlight>>

\* removeExpiredPersistent re-reads the record: a claim is left alone.
RemoveExpired(p, a) ==
    /\ LeaseFree(a)
    /\ IF durable[a] = "claimed"
         THEN UNCHANGED <<durable, actions>>
         ELSE /\ durable' = [durable EXCEPT ![a] = "absent"]
              /\ DropLocal(p, a)
    /\ UNCHANGED <<dueAt, failures, actionLease, inFlight>>

\* deletePersistent: a cancellation, or a policy that no longer allows the
\* tool.  It counts as a cancellation when Cancellable held.
Cancellable(a) == durable[a] = "pending" /\ ~Overdue(a)

\* Mutants: the lease is not taken, or a claim is deleted too.
DeleteUnlocked(p, a) ==
    /\ durable' = [durable EXCEPT ![a] = IF @ = "claimed" THEN "claimed" ELSE "absent"]
    /\ DropLocal(p, a)
    /\ UNCHANGED <<dueAt, failures, actionLease, inFlight>>

DeleteClaimed(p, a) ==
    /\ LeaseFree(a)
    /\ durable' = [durable EXCEPT ![a] = "absent"]
    /\ DropLocal(p, a)
    /\ UNCHANGED <<dueAt, failures, actionLease, inFlight>>

Delete(p, a) ==
    /\ LeaseFree(a)
    /\ durable' = [durable EXCEPT ![a] = IF @ = "claimed" THEN "claimed" ELSE "absent"]
    /\ DropLocal(p, a)
    /\ UNCHANGED <<dueAt, failures, actionLease, inFlight>>

\* Mutant: off by one.
LastAttemptLate(a) == failures[a] >= MaxAttempts

\* recordFailedConfirmationPersistent: the counter is in the record, so the
\* processes share it; the last attempt deletes the action.
LastAttempt(a) == failures[a] + 1 >= MaxAttempts

\* Mutant: the counter is not written back to the record.
RecordFailureLocal(p, a) ==
    /\ LeaseFree(a)
    /\ Cancellable(a)
    /\ IF LastAttempt(a)
         THEN durable' = [durable EXCEPT ![a] = "absent"] /\ DropLocal(p, a)
         ELSE UNCHANGED <<durable, actions>>
    /\ UNCHANGED <<failures, dueAt, actionLease, inFlight>>

RecordFailure(p, a) ==
    /\ LeaseFree(a)
    /\ Cancellable(a)
    /\ failures' = [failures EXCEPT ![a] = @ + 1]
    /\ IF LastAttempt(a)
         THEN durable' = [durable EXCEPT ![a] = "absent"] /\ DropLocal(p, a)
         ELSE UNCHANGED <<durable, actions>>
    /\ UNCHANGED <<dueAt, actionLease, inFlight>>

\* What a caller does that finds no pending action under the lease: a stale
\* local copy goes, and so does an overdue record.
Unavailable(p, a) ==
    /\ LeaseFree(a)
    /\ ~Cancellable(a)
    /\ durable' = [durable EXCEPT ![a] = IF @ = "claimed" THEN "claimed" ELSE "absent"]
    /\ DropLocal(p, a)
    /\ UNCHANGED <<dueAt, failures, actionLease, inFlight>>

\* Mutant: the lease is not taken.
TakeUnlocked(c, a) ==
    /\ Cancellable(a)
    /\ actionLease' = [actionLease EXCEPT ![a] = c]
    /\ UNCHANGED <<durable, dueAt, failures, actions, inFlight>>

\* takePersistent, first half: the action is pending and not overdue.
Take(c, a) ==
    /\ LeaseFree(a)
    /\ Cancellable(a)
    /\ actionLease' = [actionLease EXCEPT ![a] = c]
    /\ UNCHANGED <<durable, dueAt, failures, actions, inFlight>>

\* Second half: the claim is published before the executor is returned.
Publish(p, a) ==
    /\ durable' = [durable EXCEPT ![a] = "claimed"]
    /\ DropLocal(p, a)
    /\ inFlight' = [inFlight EXCEPT ![p] = @ \cup {a}]
    /\ actionLease' = [actionLease EXCEPT ![a] = NoCall]
    /\ UNCHANGED <<dueAt, failures>>

PublishFails(a) ==
    /\ DiskMayFail
    /\ actionLease' = [actionLease EXCEPT ![a] = NoCall]
    /\ UNCHANGED <<durable, dueAt, failures, actions, inFlight>>

\* complete: the map of the process alone.
CompleteLocal(p, a) ==
    /\ inFlight' = [inFlight EXCEPT ![p] = @ \ {a}]
    /\ UNCHANGED <<durable, dueAt, failures, actionLease, actions>>

\* completePersistent, second half: a claim goes, anything else is left.
ClearClaim(a) ==
    /\ LeaseFree(a)
    /\ durable' = [durable EXCEPT ![a] = IF @ = "claimed" THEN "absent" ELSE @]
    /\ UNCHANGED <<dueAt, failures, actionLease, actions, inFlight>>

-----------------------------------------------------------------------------

PendingTypeOK ==
    /\ durable \in [Action -> {"absent", "pending", "claimed"}]
    /\ dueAt \in [Action -> Nat]
    /\ failures \in [Action -> 0 .. MaxAttempts]
    /\ actionLease \in [Action -> Call \cup {NoCall}]
    /\ actions \in [Proc -> SUBSET Action]
    /\ inFlight \in [Proc -> SUBSET Action]

PendingInit ==
    /\ durable = [a \in Action |-> "absent"]
    /\ dueAt = [a \in Action |-> 0]
    /\ failures = [a \in Action |-> 0]
    /\ actionLease = [a \in Action |-> NoCall]
    /\ actions = [p \in Proc |-> {}]
    /\ inFlight = [p \in Proc |-> {}]

\* The death of a process: its maps are lost and its leases reclaimed.
PendingCrash(p, dying) ==
    /\ actionLease' = [a \in Action |-> IF actionLease[a] \in dying THEN NoCall ELSE actionLease[a]]
    /\ actions' = [actions EXCEPT ![p] = {}]
    /\ inFlight' = [inFlight EXCEPT ![p] = {}]
    /\ UNCHANGED <<durable, dueAt, failures>>
=============================================================================
