--------------------------- MODULE IdempotencyStore ---------------------------
(***************************************************************************)
(* The durable idempotency ledger of src/core/idempotency.ts: one JSON     *)
(* record per (tool, key) in a state directory shared by processes, one    *)
(* file lease per record, and in every process two maps that mirror the    *)
(* records it has seen (results and holds).                                *)
(*                                                                         *)
(* This module holds the state and the operators the store is made of; the *)
(* actions that use them belong to the callers, module ToolCall (a call    *)
(* executed at once) and module ConfirmedCall (a call staged for a         *)
(* confirmation).  A lease excludes every other caller of the same record; *)
(* how the lease directory achieves that is the subject of file-lock.ts.   *)
(***************************************************************************)
EXTENDS StateDirectory

CONSTANTS
    Key,          \* (tool, idempotency key) pairs: one ledger record each
    Args,         \* argument hashes
    NoArgs,       \* no argument hash
    Payload,      \* what a completed record replays
    NoPayload,    \* nothing to replay
    Ttl,          \* ledger time to live, in ticks
    MaxEntries    \* ledger quota of one process

ASSUME LedgerAssumption ==
    Ttl \in Nat /\ MaxEntries \in Nat \ {0} /\ NoPayload \notin Payload

VARIABLES
    record,   \* record[k]: the durable record of k, or Absent
    lease,    \* lease[k]: the caller inside withFileLock on the record of k
    entries,  \* entries[p][k]: the result process p remembers for k, or Absent
    holds     \* holds[p][k]: the hold process p remembers for k, or Absent

storeVars == <<now, record, lease, entries, holds>>

-----------------------------------------------------------------------------
(* Records, and what a process remembers of them *)

Reasons == {"none", "cancelled_after_dispatch", "transport_failure_after_dispatch"}

Record ==
    [state : {"absent", "in_flight", "completed", "indeterminate"},
     argsHash : Args \cup {NoArgs},
     expiresAt : Nat,
     result : Payload \cup {NoPayload},
     holdReason : Reasons]

Absent ==
    [state |-> "absent", argsHash |-> NoArgs, expiresAt |-> 0,
     result |-> NoPayload, holdReason |-> "none"]

Reservation(h, t) ==
    [state |-> "in_flight", argsHash |-> h, expiresAt |-> t + Ttl,
     result |-> NoPayload, holdReason |-> "none"]

Completed(h, r) ==
    [state |-> "completed", argsHash |-> h, expiresAt |-> now + Ttl,
     result |-> r, holdReason |-> "none"]

\* The record a reservation, or a preview, becomes when nobody can tell
\* whether its mutation was applied.  It keeps the expiry it had.
Held(rec, why) ==
    [rec EXCEPT !.state = "indeterminate", !.result = NoPayload, !.holdReason = why]

Expired(rec) == rec.expiresAt < now

\* Mutant: the hold of a lost answer lapses like that of a cancelled call.
InForceLapses(rec) == rec.state = "indeterminate" /\ ~Expired(rec)

\* A hold in force: that of a lost answer always is, that of a cancelled
\* call only until it expires.
InForce(rec) ==
    /\ rec.state = "indeterminate"
    /\ rec.holdReason = "transport_failure_after_dispatch" \/ ~Expired(rec)

-----------------------------------------------------------------------------
(* What runExclusive decides about the record it reads under the lease.    *)
(* keep and usable are the caller's lifecycle checks of the record's       *)
(* result: keep an expired one, and allow any to be replayed.              *)

\* Mutant: the arguments are not compared.
ConflictsNever(k, h) == FALSE

Conflicts(k, h) == record[k].state # "absent" /\ record[k].argsHash # h

Replays(k, keep, usable) ==
    record[k].state = "completed" /\ (keep \/ ~Expired(record[k])) /\ usable

\* Mutant: a reservation is taken for that of a dead process, and reused.
UsableInFlight(k, h, keep, usable) ==
    ~Conflicts(k, h) /\ ~Replays(k, keep, usable) /\ ~InForce(record[k])

Usable(k, h, keep, usable) ==
    /\ ~Conflicts(k, h)
    /\ ~Replays(k, keep, usable)
    /\ ~InForce(record[k])
    /\ record[k].state # "in_flight"

-----------------------------------------------------------------------------
(* The maps of one process.  kept is the set of keys whose expired result  *)
(* a pending confirmation keeps alive.                                     *)

SweptEntries(p, kept) ==
    [k \in Key |-> IF Expired(entries[p][k]) /\ k \notin kept THEN Absent ELSE entries[p][k]]

SweptHolds(p) ==
    [k \in Key |-> IF InForce(holds[p][k]) THEN holds[p][k] ELSE Absent]

CleanupExpired(p, kept) ==
    /\ entries' = [entries EXCEPT ![p] = SweptEntries(p, kept)]
    /\ holds' = [holds EXCEPT ![p] = SweptHolds(p)]

Occupied(map) == {k \in Key : map[k] # Absent}

\* assertCapacity, after the sweep that precedes it.
HasRoom(p, k, kept) ==
    LET e == Occupied(SweptEntries(p, kept))
        d == Occupied(SweptHolds(p))
    IN  k \in e \/ k \in d \/ Cardinality(e) + Cardinality(d) < MaxEntries

\* remember: a result replaces whatever the process knew of the key.
Remember(p, k, rec, kept) ==
    /\ entries' = [entries EXCEPT ![p] = [SweptEntries(p, kept) EXCEPT ![k] = rec]]
    /\ holds' = [holds EXCEPT ![p] = [SweptHolds(p) EXCEPT ![k] = Absent]]

\* The local half of a hold.
RememberHold(p, k, rec) ==
    /\ entries' = [entries EXCEPT ![p][k] = Absent]
    /\ holds' = [holds EXCEPT ![p][k] = rec]

\* What a process forgets of a key whose record it is about to remove.
Forget(p, k) ==
    /\ entries' = [entries EXCEPT ![p][k] = Absent]
    /\ holds' = [holds EXCEPT ![p][k] = Absent]

-----------------------------------------------------------------------------

StoreTypeOK ==
    /\ ClockTypeOK
    /\ record \in [Key -> Record]
    /\ lease \in [Key -> Call \cup {NoCall}]
    /\ entries \in [Proc -> [Key -> Record]]
    /\ holds \in [Proc -> [Key -> Record]]

StoreInit ==
    /\ ClockInit
    /\ record = [k \in Key |-> Absent]
    /\ lease = [k \in Key |-> NoCall]
    /\ entries = [p \in Proc |-> [k \in Key |-> Absent]]
    /\ holds = [p \in Proc |-> [k \in Key |-> Absent]]

\* An operator lifts the hold of a reconciled mutation, from process p:
\* the local refusal, and the record if it is a hold and nothing else.
ReleaseHold(p, k) ==
    /\ lease[k] = NoCall
    /\ holds[p][k] # Absent \/ record[k].state = "indeterminate"
    /\ holds' = [holds EXCEPT ![p][k] = Absent]
    /\ record' = [record EXCEPT ![k] =
                    IF record[k].state = "indeterminate" THEN Absent ELSE record[k]]
    /\ UNCHANGED <<now, lease, entries>>

=============================================================================
