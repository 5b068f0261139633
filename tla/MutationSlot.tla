----------------------------- MODULE MutationSlot -----------------------------
(***************************************************************************)
(* What an idempotency key promises, stated without records, leases,       *)
(* processes or clocks: the slot of a key is free, or reserved by a        *)
(* mutation that is being made, or closed by what became of it.  At most   *)
(* one mutation that may have been applied is owed to a key at a time.     *)
(***************************************************************************)
CONSTANTS
    Key, Call,
    MayForget   \* whether the slot of a sent mutation may be lost

VARIABLES
    slot,   \* slot[k]: free, reserved, or how its mutation ended
    owed    \* owed[k]: the mutations sent under k that k has to answer for

slotVars == <<slot, owed>>

Outcome == {"answered", "cancelled", "lost"}

Init ==
    /\ slot = [k \in Key |-> "free"]
    /\ owed = [k \in Key |-> {}]

Move(k, from, to) ==
    /\ slot[k] \in from
    /\ slot' = [slot EXCEPT ![k] = to]

OwesNothing(k) == owed' = [owed EXCEPT ![k] = {}]

Reserve(k) == Move(k, {"free"}, "reserved") /\ owed[k] = {} /\ UNCHANGED owed

Send(k, c) ==
    /\ slot[k] = "reserved" /\ owed[k] = {}
    /\ owed' = [owed EXCEPT ![k] = {c}]
    /\ UNCHANGED slot

\* Avito refused the request before acting on it.
Refuse(k) == slot[k] = "reserved" /\ OwesNothing(k) /\ UNCHANGED slot

Withdraw(k) == Move(k, {"reserved"}, "free") /\ owed[k] = {} /\ UNCHANGED owed

Close(k) == (\E end \in Outcome : Move(k, {"reserved"}, end)) /\ UNCHANGED owed

\* A known answer and a cancelled call stand for a limited time, ...
Lapse(k) == Move(k, {"answered", "cancelled"}, "free") /\ OwesNothing(k)

\* ... a lost answer until an operator has reconciled it.
Reconcile(k) == Move(k, {"cancelled", "lost"}, "free") /\ OwesNothing(k)

Lose(k) == MayForget /\ Move(k, {"reserved"}, "free") /\ OwesNothing(k)

Next ==
    \E k \in Key :
        \/ Reserve(k) \/ Refuse(k) \/ Withdraw(k) \/ Close(k)
        \/ Lapse(k) \/ Reconcile(k) \/ Lose(k)
        \/ \E c \in Call : Send(k, c)

Spec == Init /\ [][Next]_slotVars
=============================================================================
