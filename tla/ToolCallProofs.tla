----------------------------- MODULE ToolCallProofs -----------------------------
(***************************************************************************)
(* Theorems about ToolCall, for every number of processes, keys, calls and *)
(* arguments, every time to live and every quota.                          *)
(***************************************************************************)
EXTENDS ToolCall, IdempotencyStoreProofs, FiniteSetTheorems

-----------------------------------------------------------------------------
(* Type correctness *)

Label == {"idle", "lock", "reserve"} \cup Executing \cup Over

\* What the locals of the calls, the leases and the history are.
LocalsOK ==
    /\ lease \in [Key -> Call \cup {NoCall}]
    /\ req \in [Call -> Request]
    /\ pc \in [Call -> Label]
    /\ began \in [Call -> 0 .. MaxTime]
    /\ dispatched \in [Call -> BOOLEAN]
    /\ refreshed \in [Call -> BOOLEAN]
    /\ served \in [Call -> Call \cup {NoCall}]
    /\ owed \in [Key -> SUBSET Call]

\* The type invariant, put together from the parts the lemmas speak of.
LEMMA TypeParts ==
  TypeOK <=> now \in 0 .. MaxTime /\ record \in [Key -> Record] /\ MapsOK /\ LocalsOK
  BY DEF TypeOK, StoreTypeOK, ClockTypeOK, MapsOK, LocalsOK, Label

\* A call names a process, a key and arguments.
LEMMA RequestTyped ==
  ASSUME LocalsOK, NEW c \in Call
  PROVE  Proc_(c) \in Proc /\ Key_(c) \in Key /\ Args_(c) \in Args
  BY DEF LocalsOK, Request, Proc_, Key_, Args_

\* A call that leaves keeps the locals of the others.
LEMMA LeaveTyped ==
  ASSUME LocalsOK, NEW c \in Call, NEW label \in Label, Leave(c, label), UNCHANGED req,
         served' \in [Call -> Call \cup {NoCall}], owed' \in [Key -> SUBSET Call]
  PROVE  LocalsOK'
  <1>1. pc' \in [Call -> Label] /\ lease' \in [Key -> Call \cup {NoCall}]
    BY DEF LocalsOK, Leave, Goto
  <1>2. began' \in [Call -> 0 .. MaxTime]
    BY ClockAssumption DEF LocalsOK, Leave
  <1>3. dispatched' \in [Call -> BOOLEAN] /\ refreshed' \in [Call -> BOOLEAN]
    BY DEF LocalsOK, Leave
  <1> QED  BY <1>1, <1>2, <1>3 DEF LocalsOK

\* A record written for the key of a call keeps the records typed.
LEMMA WriteTyped ==
  ASSUME record \in [Key -> Record], LocalsOK, NEW c \in Call, NEW rec \in Record, Write(c, rec)
  PROVE  record' \in [Key -> Record]
  BY RequestTyped DEF Write

\* The initial state has every variable in its type.
LEMMA TypeInit == Init => TypeOK
  BY AbsentIsRecord, ClockAssumption
  DEF Init, StoreInit, ClockInit, TypeOK, StoreTypeOK, ClockTypeOK

\* What every step is shown to preserve, one part at a time.
Typed ==
    /\ now \in 0 .. MaxTime
    /\ record \in [Key -> Record]
    /\ MapsOK
    /\ LocalsOK

\* A call that moves on and touches no map keeps the types.
LEMMA GotoTyped ==
  ASSUME Typed, NEW c \in Call, NEW label \in Label, Goto(c, label),
         UNCHANGED <<storeVars, req, began, dispatched, refreshed, served, owed>>
  PROVE  Typed'
  BY DEF Typed, MapsOK, LocalsOK, Goto, storeVars

\* The lookup in the map of the process: a sweep and a decision.
LEMMA LookupTyped ==
  ASSUME Typed, NEW c \in Call, Lookup(c)
  PROVE  Typed'
  <1> DEFINE e == SweptEntries(Proc_(c), {})[Key_(c)]
  <1>1. Proc_(c) \in Proc /\ Key_(c) \in Key
    BY RequestTyped DEF Typed
  <1>2. MapsOK'
    BY <1>1, CleanupTyped DEF Typed, Lookup
  <1>3. e \in Record
    BY <1>1, SweepTyped DEF Typed
  <1>4. pc' \in [Call -> Label]
    BY DEF Lookup, Goto, Typed, LocalsOK, Label, Over, Refused
  <1>5. served' \in [Call -> Call \cup {NoCall}]
    BY <1>3, PayloadAssumption DEF Lookup, Typed, LocalsOK, Record
  <1> QED  BY <1>2, <1>4, <1>5 DEF Typed, LocalsOK, Lookup

\* The steps of a caller that takes, or is refused, the lease.
LEMMA EntryTyped ==
  ASSUME Typed, NEW c \in Call,
         RefuseConflict(c) \/ Replay(c) \/ RefuseHeld(c) \/ RefuseUnfinished(c)
           \/ Claim(c) \/ GiveUpLock(c)
  PROVE  Typed'
  <1>1. Proc_(c) \in Proc /\ Key_(c) \in Key /\ Rec(c) \in Record
    BY RequestTyped DEF Typed, Rec
  <1>2. {"conflict", "unfinished", "timeout", "served", "held", "reserve"} \subseteq Label
    BY DEF Label, Over, Refused
  <1>3. CASE RefuseConflict(c) \/ RefuseUnfinished(c) \/ GiveUpLock(c)
    BY <1>2, <1>3, GotoTyped DEF RefuseConflict, RefuseUnfinished, GiveUpLock
  <1>4. CASE Replay(c)
    <2>1. MapsOK'
      BY <1>1, <1>4 DEF Replay, Typed, MapsOK
    <2>2. served' \in [Call -> Call \cup {NoCall}]
      BY <1>1, <1>4, PayloadAssumption DEF Replay, Typed, LocalsOK, Record
    <2> QED  BY <1>2, <1>4, <2>1, <2>2 DEF Replay, Typed, LocalsOK, Goto
  <1>5. CASE RefuseHeld(c)
    <2>1. MapsOK'
      BY <1>1, <1>5 DEF RefuseHeld, Typed, MapsOK
    <2> QED  BY <1>2, <1>5, <2>1 DEF RefuseHeld, Typed, LocalsOK, Goto
  <1>6. CASE Claim(c)
    <2>1. MapsOK'
      BY <1>1, <1>6, ForgetTyped DEF Claim, Typed, MapsOK
    <2>2. record' \in [Key -> Record]
      BY <1>6, WriteTyped, AbsentIsRecord DEF Claim, Typed
    <2>3. began' \in [Call -> 0 .. MaxTime]
      BY <1>6 DEF Claim, Typed, LocalsOK
    <2> QED  BY <1>1, <1>2, <1>6, <2>1, <2>2, <2>3 DEF Claim, Typed, LocalsOK, Goto, Reopened
  <1> QED  BY <1>3, <1>4, <1>5, <1>6

\* The steps of a caller up to the settling of its request.
LEMMA ExecuteTyped ==
  ASSUME Typed, NEW c \in Call,
         Reserve(c) \/ ReserveFails(c) \/ Dispatch(c) \/ Unauthorized(c) \/ Answered(c)
           \/ NothingSent(c) \/ OutcomeUnknown(c)
  PROVE  Typed'
  <1>1. Key_(c) \in Key /\ Args_(c) \in Args
    BY RequestTyped DEF Typed
  <1>2. {"io_error", "not_sent"} \cup Executing \subseteq Label
    BY DEF Label, Over, Refused
  <1>3. CASE Reserve(c)
    <2>1. began[c] \in Nat
      BY ClockAssumption DEF Typed, LocalsOK
    <2>2. record' \in [Key -> Record]
      BY <1>1, <1>3, <2>1, WriteTyped, ReservationIsRecord DEF Reserve, Typed
    <2> QED  BY <1>2, <1>3, <2>2 DEF Reserve, Typed, MapsOK, LocalsOK, Goto, Executing
  <1>4. CASE ReserveFails(c)
    BY <1>2, <1>4, LeaveTyped DEF ReserveFails, Typed, MapsOK, LocalsOK
  <1>5. CASE Dispatch(c)
    BY <1>1, <1>2, <1>5 DEF Dispatch, Typed, MapsOK, LocalsOK, Goto, Executing, storeVars
  <1>6. CASE Unauthorized(c)
    BY <1>1, <1>2, <1>6
    DEF Unauthorized, Typed, MapsOK, LocalsOK, Goto, NotOwed, Executing, storeVars
  <1>7. CASE Answered(c) \/ OutcomeUnknown(c)
    BY <1>2, <1>7, GotoTyped DEF Answered, OutcomeUnknown, Executing
  <1>8. CASE NothingSent(c)
    BY <1>2, <1>8, LeaveTyped, WriteTyped, AbsentIsRecord DEF NothingSent, Typed, MapsOK, LocalsOK
  <1> QED  BY <1>3, <1>4, <1>5, <1>6, <1>7, <1>8

\* The steps that record what became of a request.
LEMMA RecordTyped ==
  ASSUME Typed, NEW c \in Call,
         RecordResult(c) \/ RecordOverflows(c) \/ RecordFails(c) \/ RecordHold(c) \/ HoldFails(c)
  PROVE  Typed'
  <1>1. Proc_(c) \in Proc /\ Key_(c) \in Key /\ Args_(c) \in Args /\ began[c] \in Nat
    BY RequestTyped, ClockAssumption DEF Typed, LocalsOK
  <1>2. {"io_error", "limit", "served", "unknown"} \subseteq Label
    BY DEF Label, Over, Refused
  <1>3. Completed(Args_(c), c) \in Record
    BY <1>1, CompletedIsRecord, ClockAssumption, PayloadAssumption DEF Typed
  <1>4. Held(Reservation(Args_(c), began[c]), Reason(c)) \in Record
    BY <1>1, HeldIsRecord, ReservationIsRecord DEF Reason, Reasons
  <1>5. CASE RecordResult(c)
    <2>1. MapsOK' /\ record' \in [Key -> Record]
      BY <1>1, <1>3, <1>5, RememberTyped, WriteTyped DEF RecordResult, Typed
    <2>2. served' \in [Call -> Call \cup {NoCall}]
      BY <1>5 DEF RecordResult, Typed, LocalsOK
    <2> QED  BY <1>2, <1>5, <2>1, <2>2, LeaveTyped DEF RecordResult, Typed, LocalsOK
  <1>6. CASE RecordOverflows(c)
    <2>1. MapsOK' /\ record' \in [Key -> Record]
      BY <1>1, <1>6, CleanupTyped, WriteTyped, AbsentIsRecord DEF RecordOverflows, Typed
    <2>2. owed' \in [Key -> SUBSET Call]
      BY <1>1, <1>6 DEF RecordOverflows, Reopened, Typed, LocalsOK
    <2> QED  BY <1>2, <1>6, <2>1, <2>2, LeaveTyped DEF RecordOverflows, Typed, LocalsOK
  <1>7. CASE RecordFails(c)
    <2>1. MapsOK' /\ record' \in [Key -> Record]
      BY <1>1, <1>3, <1>7, RememberTyped, WriteTyped, AbsentIsRecord DEF RecordFails, Typed
    <2>2. owed' \in [Key -> SUBSET Call]
      BY <1>1, <1>7 DEF RecordFails, Reopened, Typed, LocalsOK
    <2> QED  BY <1>2, <1>7, <2>1, <2>2, LeaveTyped DEF RecordFails, Typed, LocalsOK
  <1>8. CASE RecordHold(c)
    <2>1. MapsOK' /\ record' \in [Key -> Record]
      BY <1>1, <1>4, <1>8, RememberHoldTyped, WriteTyped DEF RecordHold, Typed
    <2> QED  BY <1>2, <1>8, <2>1, LeaveTyped DEF RecordHold, Typed, LocalsOK
  <1>9. CASE HoldFails(c)
    BY <1>2, <1>9, LeaveTyped DEF HoldFails, Typed, MapsOK, LocalsOK
  <1> QED  BY <1>5, <1>6, <1>7, <1>8, <1>9

\* What the environment does: kills, operators and the clock.
LEMMA CrashTyped ==
  ASSUME Typed, NEW p \in Proc, Crash(p)
  PROVE  Typed'
  <1>1. MapsOK'
    BY AbsentIsRecord DEF Crash, Typed, MapsOK
  <1>2. "dead" \in Label
    BY DEF Label, Over
  <1>3. pc' \in [Call -> Label] /\ lease' \in [Key -> Call \cup {NoCall}]
    BY <1>2 DEF Crash, Typed, LocalsOK
  <1>4. began' \in [Call -> 0 .. MaxTime]
    BY ClockAssumption DEF Crash, Typed, LocalsOK
  <1>5. dispatched' \in [Call -> BOOLEAN] /\ refreshed' \in [Call -> BOOLEAN]
    BY DEF Crash, Typed, LocalsOK
  <1> QED  BY <1>1, <1>3, <1>4, <1>5 DEF Crash, Typed, LocalsOK

\* releaseHold() removes a record and a local entry.
LEMMA OperatorTyped ==
  ASSUME Typed, NEW p \in Proc, NEW k \in Key, Operator(p, k)
  PROVE  Typed'
  <1>1. MapsOK' /\ record' \in [Key -> Record]
    BY AbsentIsRecord DEF Operator, ReleaseHold, Typed, MapsOK
  <1>2. owed' \in [Key -> SUBSET Call]
    BY DEF Operator, Typed, LocalsOK
  <1> QED  BY <1>1, <1>2 DEF Operator, ReleaseHold, Typed, LocalsOK

\* The clock stops at MaxTime.
LEMMA ClockTyped == ASSUME Typed, Clock PROVE Typed'
  BY ClockAssumption DEF Clock, Advance, Typed, MapsOK, LocalsOK, callVars

\* Every step of the specification, at last.
LEMMA StepTyped == TypeOK /\ [Next]_vars => TypeOK'
  <1> SUFFICES ASSUME Typed, [Next]_vars PROVE Typed'
    BY TypeParts DEF Typed, TypeOK, StoreTypeOK, ClockTypeOK, MapsOK, LocalsOK, Label
  <1>1. CASE UNCHANGED vars
    BY <1>1 DEF vars, storeVars, callVars, Typed, MapsOK, LocalsOK
  <1>2. ASSUME NEW c \in Call, Lookup(c) \/ Progress(c) PROVE Typed'
    BY <1>2, LookupTyped, EntryTyped, ExecuteTyped, RecordTyped DEF Progress
  <1> QED  BY <1>1, <1>2, CrashTyped, OperatorTyped, ClockTyped DEF Next

\* Every variable keeps its type, in every reachable state.
THEOREM TypeCorrect == Spec => []TypeOK
  <1> QED  BY TypeInit, StepTyped, PTL DEF Spec

-----------------------------------------------------------------------------
(* The inductive invariant.  A call between the taking and the release of  *)
(* the lease owns the record of its key and what the key answers for, so   *)
(* what it finds there is what it left.  Neither ReservationStands nor     *)
(* AtMostOneMutation is inductive: that the key of a call about to send    *)
(* answers for nothing yet is needed to show that it sends the only one.   *)

Holding == {"reserve"} \cup Executing

CallInv(c) ==
    /\ pc[c] \in Holding => HasLease(c)
    /\ pc[c] = "reserve" => Rec(c) = Absent
    /\ pc[c] \in Executing => Rec(c) = Reservation(Args_(c), began[c]) /\ owed[Key_(c)] \subseteq {c}
    /\ pc[c] = Queued => owed[Key_(c)] = {}

KeyInv(k) ==
    /\ lease[k] # NoCall => Key_(lease[k]) = k /\ pc[lease[k]] \in Holding
    /\ owed[k] # {} => record[k].state # "absent"
    /\ \A c, d \in owed[k] : c = d

LedgerInv ==
    /\ \A c \in Call : CallInv(c)
    /\ \A k \in Key : KeyInv(k)

\* The step of one call: the locals of the others, and every key but its own,
\* are left alone, and its own key is not leased to another.
StepOf(c) ==
    /\ lease[Key_(c)] \in {c, NoCall}
    /\ UNCHANGED req
    /\ \A d \in Call \ {c} : pc'[d] = pc[d] /\ began'[d] = began[d]
    /\ \A k \in Key \ {Key_(c)} :
         record'[k] = record[k] /\ lease'[k] = lease[k] /\ owed'[k] = owed[k]

\* For the step of one call it is enough to look at the call and its key.
LEMMA StepIsLocal ==
  ASSUME TypeOK, LedgerInv, NEW c \in Call, StepOf(c), CallInv(c)', KeyInv(Key_(c))'
  PROVE  LedgerInv'
  <1> USE DEF StepOf
  <1>0. \A d \in Call : Key_(d) \in Key /\ Key_(d)' = Key_(d) /\ Args_(d)' = Args_(d)
    BY DEF TypeOK, Request, Key_, Args_
  <1>1. ASSUME NEW d \in Call \ {c} PROVE CallInv(d)'
    <2>1. CASE Key_(d) = Key_(c)
      <3>1. pc[d] \notin Holding
        BY <2>1, NoCallAssumption DEF LedgerInv, CallInv, HasLease
      <3> QED  BY <3>1, <1>0 DEF CallInv, Holding, Executing
    <2>2. CASE Key_(d) # Key_(c)
      BY <2>2, <1>0 DEF LedgerInv, CallInv, HasLease, Rec, Reservation
    <2> QED  BY <2>1, <2>2
  <1>2. ASSUME NEW k \in Key \ {Key_(c)} PROVE KeyInv(k)'
    <2>1. lease[k] # c
      BY <1>0, NoCallAssumption DEF LedgerInv, KeyInv, TypeOK, StoreTypeOK
    <2> QED  BY <2>1, <1>0 DEF LedgerInv, KeyInv, TypeOK, StoreTypeOK
  <1> QED  BY <1>0, <1>1, <1>2 DEF LedgerInv

\* A call that is waiting for the lease holds none and moves on.
LEMMA LeavesLedgerAlone ==
  ASSUME TypeOK, LedgerInv, NEW c \in Call, NEW label, pc[c] \notin Holding, label \notin Holding,
         Goto(c, label), UNCHANGED <<record, lease, req, began, owed>>
  PROVE  LedgerInv'
  <1>1. \A d \in Call : pc'[d] \in Holding => pc'[d] = pc[d]
    BY DEF Goto, TypeOK
  <1>2. \A d \in Call : CallInv(d)'
    BY <1>1 DEF LedgerInv, CallInv, HasLease, Rec, Key_, Args_, Holding, Executing, Queued
  <1>3. \A k \in Key : lease[k] # NoCall => lease[k] \in Call /\ lease[k] # c
    BY DEF LedgerInv, KeyInv, TypeOK, StoreTypeOK
  <1>4. \A k \in Key : KeyInv(k)'
    BY <1>3 DEF LedgerInv, KeyInv, Goto, TypeOK, Key_
  <1> QED  BY <1>2, <1>4 DEF LedgerInv

\* The record that a caller of Claim finds is nobody's: its key is taken over.
LEMMA ClaimKeeps ==
  ASSUME TypeOK, LedgerInv, NEW c \in Call, Claim(c)
  PROVE  LedgerInv'
  <1> USE DEF Holding, Executing, Queued, Sent, Settled, Uncertain
  <1>1. Key_(c) \in Key
    BY DEF TypeOK, Request, Key_
  <1>2. StepOf(c)
    BY <1>1 DEF StepOf, Claim, TakesLease, Goto, Write, Reopened, TypeOK, StoreTypeOK
  <1>3. CallInv(c)'
    BY <1>1 DEF CallInv, Claim, Goto, Write, HasLease, Rec, Key_, TypeOK, StoreTypeOK
  <1>4. KeyInv(Key_(c))'
    BY <1>1 DEF KeyInv, Claim, Goto, Write, Reopened, Key_, TypeOK, StoreTypeOK
  <1> QED  BY <1>2, <1>3, <1>4, StepIsLocal

\* The reservation is written by the holder of the lease, for a free key.
LEMMA ReserveKeeps ==
  ASSUME TypeOK, LedgerInv, NEW c \in Call, Reserve(c)
  PROVE  LedgerInv'
  <1> USE DEF Holding, Executing, Queued, Sent, Settled, Uncertain
  <1>1. Key_(c) \in Key /\ CallInv(c) /\ KeyInv(Key_(c))
    BY DEF TypeOK, Request, Key_, LedgerInv
  <1>2. StepOf(c)
    BY <1>1 DEF StepOf, CallInv, HasLease, Reserve, Goto, Write, TypeOK, StoreTypeOK
  <1>3. owed[Key_(c)] = {}
    BY <1>1 DEF CallInv, KeyInv, Rec, Absent, Reserve
  <1>4. CallInv(c)'
    BY <1>1, <1>3 DEF CallInv, Reserve, Goto, Write, HasLease, Rec, Key_, Args_, Reservation,
                     TypeOK, StoreTypeOK
  <1>5. KeyInv(Key_(c))'
    BY <1>1, <1>3 DEF CallInv, KeyInv, HasLease, Reserve, Goto, Write, Reservation, Key_, TypeOK, StoreTypeOK
  <1> QED  BY <1>2, <1>4, <1>5, StepIsLocal

\* The request: while it is made, the key answers for this call at most.
LEMMA RequestKeeps ==
  ASSUME TypeOK, LedgerInv, NEW c \in Call,
         Dispatch(c) \/ Unauthorized(c) \/ Answered(c) \/ OutcomeUnknown(c)
  PROVE  LedgerInv'
  <1> USE DEF Holding, Executing, Queued, Sent, Settled, Uncertain
  <1>1. Key_(c) \in Key /\ CallInv(c) /\ KeyInv(Key_(c)) /\ pc[c] \in Executing
    BY DEF TypeOK, Request, Key_, LedgerInv, Dispatch, Unauthorized, Answered, OutcomeUnknown
  <1>2. /\ pc'[c] \in Executing /\ (pc'[c] = Queued => owed'[Key_(c)] = {})
        /\ owed'[Key_(c)] \subseteq {c}
    BY <1>1 DEF CallInv, Dispatch, Unauthorized, Answered, OutcomeUnknown, Goto, NotOwed, TypeOK
  <1>3. UNCHANGED <<record, lease, req, began>>
    BY DEF Dispatch, Unauthorized, Answered, OutcomeUnknown, storeVars
  <1>4. StepOf(c)
    BY <1>1, <1>3 DEF StepOf, CallInv, HasLease, Dispatch, Unauthorized, Answered,
                      OutcomeUnknown, Goto, NotOwed, TypeOK
  <1>5. CallInv(c)'
    BY <1>1, <1>2, <1>3 DEF CallInv, HasLease, Rec, Key_, Args_, Reservation
  <1>6. KeyInv(Key_(c))'
    BY <1>1, <1>2, <1>3 DEF CallInv, KeyInv, HasLease, Rec, Key_, Reservation
  <1> QED  BY <1>4, <1>5, <1>6, StepIsLocal

\* A call that gives the lease back must leave its key answering for itself
\* at most, and with a record if it answers for anything.
LEMMA LeaveKeeps ==
  ASSUME TypeOK, LedgerInv, NEW c \in Call, NEW label,
         pc[c] \in Holding, label \notin Holding, Leave(c, label), UNCHANGED req,
         \A k \in Key \ {Key_(c)} : record'[k] = record[k] /\ owed'[k] = owed[k],
         owed'[Key_(c)] \subseteq owed[Key_(c)],
         owed'[Key_(c)] # {} => record'[Key_(c)].state # "absent"
  PROVE  LedgerInv'
  <1>1. Key_(c) \in Key /\ CallInv(c) /\ KeyInv(Key_(c))
    BY DEF TypeOK, Request, Key_, LedgerInv
  <1>2. /\ lease[Key_(c)] = c /\ lease'[Key_(c)] = NoCall
        /\ \A k \in Key \ {Key_(c)} : lease'[k] = lease[k]
        /\ pc'[c] = label
        /\ \A d \in Call \ {c} : pc'[d] = pc[d] /\ began'[d] = began[d]
    BY <1>1 DEF CallInv, HasLease, Leave, Goto, TypeOK, StoreTypeOK
  <1>3. StepOf(c)
    BY <1>2 DEF StepOf
  <1>4. CallInv(c)'
    BY <1>2 DEF CallInv, Holding, Executing
  <1>5. KeyInv(Key_(c))'
    BY <1>1, <1>2 DEF KeyInv, Key_
  <1> QED  BY <1>3, <1>4, <1>5, StepIsLocal

\* Whichever record ends a call, its key answers for that call at most.
LEMMA EndKeeps ==
  ASSUME TypeOK, LedgerInv, NEW c \in Call,
         ReserveFails(c) \/ NothingSent(c) \/ RecordResult(c) \/ RecordOverflows(c)
           \/ RecordFails(c) \/ RecordHold(c) \/ HoldFails(c)
  PROVE  LedgerInv'
  <1> USE DEF Holding, Executing, Queued, Sent, Settled, Uncertain
  <1>1. Key_(c) \in Key /\ CallInv(c) /\ KeyInv(Key_(c))
    BY DEF TypeOK, Request, Key_, LedgerInv
  <1>2. pc[c] \in Holding
    BY DEF ReserveFails, NothingSent, RecordResult, RecordOverflows, RecordFails, RecordHold, HoldFails
  <1>3. owed[Key_(c)] # {} => Rec(c).state # "absent"
    BY <1>1 DEF KeyInv, Rec
  <1>4. CASE ReserveFails(c) \/ HoldFails(c)
    BY <1>2, <1>3, <1>4, LeaveKeeps DEF ReserveFails, HoldFails, Rec
  <1>5. CASE NothingSent(c)
    <2>1. owed[Key_(c)] = {}
      BY <1>1, <1>5 DEF CallInv, NothingSent
    <2> QED  BY <1>2, <1>5, <2>1, LeaveKeeps DEF NothingSent, Write, TypeOK, StoreTypeOK
  <1>6. CASE RecordResult(c)
    <2>1. record'[Key_(c)].state = "completed"
      BY <1>1, <1>6 DEF RecordResult, Write, Completed, TypeOK, StoreTypeOK
    <2> QED  BY <1>2, <1>6, <2>1, LeaveKeeps DEF RecordResult, Write, TypeOK, StoreTypeOK
  <1>7. CASE RecordOverflows(c) \/ RecordFails(c)
    <2>1. owed'[Key_(c)] = {}
      BY <1>1, <1>7 DEF RecordOverflows, RecordFails, Reopened, TypeOK
    <2> QED  BY <1>2, <1>7, <2>1, LeaveKeeps
             DEF RecordOverflows, RecordFails, Reopened, Write, TypeOK, StoreTypeOK
  <1>8. CASE RecordHold(c)
    <2>1. record'[Key_(c)].state = "indeterminate"
      BY <1>1, <1>8 DEF RecordHold, Write, Held, Reservation, TypeOK, StoreTypeOK
    <2> QED  BY <1>2, <1>8, <2>1, LeaveKeeps DEF RecordHold, Write, TypeOK, StoreTypeOK
  <1> QED  BY <1>4, <1>5, <1>6, <1>7, <1>8

\* A killed call loses its lease and leaves its record behind.
LEMMA CrashKeeps ==
  ASSUME TypeOK, LedgerInv, NEW p \in Proc, Crash(p)
  PROVE  LedgerInv'
  <1> DEFINE dying == {c \in Call : Proc_(c) = p /\ pc[c] \notin Over \cup {"idle"}}
  <1> USE DEF Holding, Executing, Queued, Sent, Settled, Uncertain
  <1>1. ASSUME NEW c \in Call PROVE CallInv(c)'
    <2>1. Key_(c) \in Key /\ CallInv(c)
      BY DEF TypeOK, Request, Key_, LedgerInv
    <2>2. CASE c \in dying
      <3>1. pc'[c] = "dead"
        BY <2>2 DEF Crash
      <3> QED  BY <3>1 DEF CallInv
    <2>3. CASE c \notin dying
      <3>1. pc'[c] = pc[c] /\ began'[c] = began[c]
        BY <2>3 DEF Crash
      <3>2. HasLease(c) => HasLease(c)'
        BY <2>1, <2>3 DEF Crash, HasLease, Key_
      <3> QED  BY <2>1, <3>1, <3>2 DEF CallInv, Crash, Rec, Key_, Args_, Reservation
    <2> QED  BY <2>2, <2>3
  <1>2. ASSUME NEW k \in Key PROVE KeyInv(k)'
    <2>1. lease[k] \in Call \cup {NoCall} /\ KeyInv(k)
      BY DEF TypeOK, StoreTypeOK, LedgerInv
    <2>2. lease'[k] = IF lease[k] \in dying THEN NoCall ELSE lease[k]
      BY DEF Crash
    <2>3. lease'[k] # NoCall => lease'[k] = lease[k] /\ pc'[lease[k]] = pc[lease[k]]
      BY <2>1, <2>2 DEF Crash
    <2> QED  BY <2>1, <2>3 DEF KeyInv, Crash, Key_
  <1> QED  BY <1>1, <1>2 DEF LedgerInv

\* An operator touches no key that is leased.
LEMMA OperatorKeeps ==
  ASSUME TypeOK, LedgerInv, NEW p \in Proc, NEW k \in Key, Operator(p, k)
  PROVE  LedgerInv'
  <1> USE DEF Operator, ReleaseHold
  <1>1. ASSUME NEW c \in Call PROVE CallInv(c)'
    <2>1. Key_(c) \in Key /\ CallInv(c)
      BY DEF TypeOK, Request, Key_, LedgerInv
    <2>2. CASE Key_(c) = k
      BY <2>1, <2>2, NoCallAssumption DEF CallInv, HasLease, Holding, Executing, Queued
    <2>3. CASE Key_(c) # k
      BY <2>1, <2>3 DEF CallInv, HasLease, Rec, Key_, Args_, Reservation, TypeOK, StoreTypeOK
    <2> QED  BY <2>2, <2>3
  <1>2. ASSUME NEW j \in Key PROVE KeyInv(j)'
    BY DEF LedgerInv, KeyInv, TypeOK, StoreTypeOK, Key_
  <1> QED  BY <1>1, <1>2 DEF LedgerInv

\* No lease, no record, nothing owed.
LEMMA LedgerInit == Init => LedgerInv
  BY NoCallAssumption
  DEF Init, StoreInit, LedgerInv, CallInv, KeyInv, Holding, Executing, Queued, Sent, Settled, Uncertain

\* Every step of the specification keeps the invariant.
LEMMA LedgerStep == TypeOK /\ LedgerInv /\ [Next]_vars => LedgerInv'
  <1> SUFFICES ASSUME TypeOK, LedgerInv, [Next]_vars PROVE LedgerInv'
    OBVIOUS
  <1>1. CASE UNCHANGED vars \/ Clock
    BY <1>1 DEF vars, storeVars, callVars, Clock, LedgerInv, CallInv, KeyInv, HasLease,
                Rec, Key_, Args_, Reservation
  <1>2. ASSUME NEW c \in Call,
               Lookup(c) \/ RefuseConflict(c) \/ Replay(c) \/ RefuseHeld(c)
                 \/ RefuseUnfinished(c) \/ GiveUpLock(c)
        PROVE  LedgerInv'
    <2>1. /\ pc[c] \notin Holding
          /\ \E label \in {"lock", "conflict", "served", "held", "unfinished", "timeout"} :
               Goto(c, label)
          /\ UNCHANGED <<record, lease, req, began, owed>>
      BY <1>2 DEF Lookup, RefuseConflict, Replay, RefuseHeld, RefuseUnfinished, GiveUpLock,
                  TakesLease, Holding, Executing, Queued, Sent, Settled, Uncertain, storeVars
    <2> QED  BY <2>1, LeavesLedgerAlone DEF Holding, Executing, Queued, Sent, Settled, Uncertain
  <1>3. ASSUME NEW c \in Call, Lookup(c) \/ Progress(c) PROVE LedgerInv'
    BY <1>2, <1>3, ClaimKeeps, ReserveKeeps, RequestKeeps, EndKeeps DEF Progress
  <1> QED  BY <1>1, <1>3, CrashKeeps, OperatorKeeps DEF Next

\* In every reachable state the parts of the invariant hold.
THEOREM LedgerInvariant == Spec => []LedgerInv
  <1> QED  BY TypeCorrect, LedgerInit, LedgerStep, PTL DEF Spec

\* The caller that executes holds the lease and finds its reservation in the
\* ledger, however many processes, calls and crashes there are.
THEOREM ReservationAlwaysStands == Spec => []ReservationStands
  <1>1. LedgerInv => ReservationStands
    BY DEF LedgerInv, CallInv, ReservationStands, Holding
  <1> QED  BY <1>1, LedgerInvariant, PTL

\* No key ever answers for two mutations, nor for one without a record.
THEOREM NeverTwoMutations == Spec => []AtMostOneMutation
  <1>1. LedgerInv => AtMostOneMutation
    BY DEF LedgerInv, KeyInv, AtMostOneMutation
  <1> QED  BY <1>1, LedgerInvariant, PTL

-----------------------------------------------------------------------------
(* Results.  What is replayed comes from a record or from a map that       *)
(* mirrors one; both hold results of calls of the same key and arguments.  *)

OwnResult(k, rec) ==
    rec.state = "completed" =>
        rec.result \in Call /\ Key_(rec.result) = k /\ Args_(rec.result) = rec.argsHash

EntryOK(k, e) == (e # Absent => e.state = "completed") /\ OwnResult(k, e)

ResultInv ==
    /\ \A k \in Key : OwnResult(k, record[k])
    /\ \A p \in Proc, k \in Key : EntryOK(k, entries[p][k])
    /\ ReplayIsOwnResult

\* No record, no entry and no answer.
LEMMA ResultInit == Init => ResultInv
  BY DEF Init, StoreInit, ResultInv, EntryOK, OwnResult, ReplayIsOwnResult, Absent

\* A caller that writes a record of its own leaves the others as they are.
LEMMA WriteOwn ==
  ASSUME TypeOK, ResultInv, NEW c \in Call, NEW rec, Write(c, rec), OwnResult(Key_(c), rec),
         UNCHANGED req
  PROVE  \A k \in Key : OwnResult(k, record[k])'
  BY DEF TypeOK, StoreTypeOK, ResultInv, Write, OwnResult, Key_, Args_

\* A map changed in one process, at keys whose new entries are in order.
LEMMA EntriesOwn ==
  ASSUME TypeOK, ResultInv, NEW p \in Proc, NEW map \in [Key -> Record],
         entries' = [entries EXCEPT ![p] = map],
         \A k \in Key : EntryOK(k, map[k]), UNCHANGED req
  PROVE  \A q \in Proc, k \in Key : EntryOK(k, entries[q][k])'
  BY DEF TypeOK, StoreTypeOK, ResultInv, EntryOK, OwnResult, Key_, Args_

\* What a sweep leaves of a map is in order.
LEMMA SweepOwn ==
  ASSUME TypeOK, ResultInv, NEW p \in Proc, NEW kept
  PROVE  /\ SweptEntries(p, kept) \in [Key -> Record]
         /\ \A k \in Key : EntryOK(k, SweptEntries(p, kept)[k])
  <1>1. \A k : EntryOK(k, Absent)
    BY DEF EntryOK, OwnResult, Absent
  <1> QED  BY <1>1, AbsentIsRecord DEF SweptEntries, TypeOK, StoreTypeOK, ResultInv

\* A step of a call: own answers stay own, whoever is answered.
LEMMA ServedOwn ==
  ASSUME TypeOK, ResultInv, NEW c \in Call, NEW r \in Call,
         Key_(r) = Key_(c), Args_(r) = Args_(c),
         served' = [served EXCEPT ![c] = r], UNCHANGED req
  PROVE  ReplayIsOwnResult'
  BY DEF TypeOK, ResultInv, ReplayIsOwnResult, Key_, Args_

\* An answer from the map of the process is a result of the same key and arguments.
LEMMA LookupOwn ==
  ASSUME TypeOK, ResultInv, NEW c \in Call, Lookup(c)
  PROVE  ResultInv'
  <1> DEFINE e == SweptEntries(Proc_(c), {})[Key_(c)]
  <1>1. Proc_(c) \in Proc /\ Key_(c) \in Key
    BY DEF TypeOK, Request, Proc_, Key_
  <1>2. \A q \in Proc, k \in Key : EntryOK(k, entries[q][k])'
    BY <1>1, SweepOwn, EntriesOwn DEF Lookup, CleanupExpired
  <1>3. \A k \in Key : OwnResult(k, record[k])'
    BY DEF Lookup, ResultInv, OwnResult, Key_, Args_
  <1>4. EntryOK(Key_(c), e)
    BY <1>1, SweepOwn
  <1>5. ReplayIsOwnResult'
    <2>1. CASE UNCHANGED served
      BY <2>1 DEF Lookup, ResultInv, ReplayIsOwnResult, Key_, Args_
    <2>2. CASE e # Absent /\ e.argsHash = Args_(c) /\ served' = [served EXCEPT ![c] = e.result]
      <3>1. e.result \in Call /\ Key_(e.result) = Key_(c) /\ Args_(e.result) = Args_(c)
        BY <1>4, <2>2 DEF EntryOK, OwnResult
      <3> QED  BY <2>2, <3>1, ServedOwn DEF Lookup
    <2> QED  BY <2>1, <2>2 DEF Lookup
  <1> QED  BY <1>2, <1>3, <1>5 DEF ResultInv

\* So is an answer replayed from the record.
LEMMA ReplayOwn ==
  ASSUME TypeOK, ResultInv, NEW c \in Call, Replay(c)
  PROVE  ResultInv'
  <1>1. Proc_(c) \in Proc /\ Key_(c) \in Key
    BY DEF TypeOK, Request, Proc_, Key_
  <1>2. Rec(c) \in Record /\ EntryOK(Key_(c), Rec(c)) /\ Rec(c).state = "completed"
        /\ Rec(c).argsHash = Args_(c)
    BY <1>1 DEF Replay, Replays, Conflicts, Rec, ResultInv, EntryOK, TypeOK, StoreTypeOK
  <1>3. \A q \in Proc, k \in Key : EntryOK(k, entries[q][k])'
    BY <1>1, <1>2 DEF Replay, TypeOK, StoreTypeOK, ResultInv, EntryOK, OwnResult, Key_, Args_
  <1>4. ReplayIsOwnResult'
    BY <1>2, ServedOwn DEF Replay, EntryOK, OwnResult
  <1> QED  BY <1>3, <1>4 DEF Replay, ResultInv, OwnResult, Key_, Args_

\* A step that answers nobody, sweeps or forgets at most, and writes a record
\* that is no result.
LEMMA QuietOwn ==
  ASSUME TypeOK, ResultInv, UNCHANGED <<req, served>>,
         \A k \in Key : record'[k] = record[k] \/ record'[k].state # "completed",
         \A p \in Proc, k \in Key : entries'[p][k] \in {entries[p][k], Absent}
  PROVE  ResultInv'
  BY DEF ResultInv, EntryOK, OwnResult, ReplayIsOwnResult, Absent, Key_, Args_

\* A record without a result, written for one key, spoils no result.
LEMMA WriteOther ==
  ASSUME TypeOK, NEW c \in Call, NEW rec, Write(c, rec), rec.state # "completed"
  PROVE  \A k \in Key : record'[k] = record[k] \/ record'[k].state # "completed"
  BY DEF Write, TypeOK, StoreTypeOK

\* Entries that are dropped spoil no result.
LEMMA DropsEntries ==
  ASSUME TypeOK, NEW p \in Proc, NEW k \in Key,
         UNCHANGED entries \/ entries' = [entries EXCEPT ![p][k] = Absent]
  PROVE  \A q \in Proc, j \in Key : entries'[q][j] \in {entries[q][j], Absent}
  BY DEF TypeOK, StoreTypeOK

\* The result of a call is its own.
LEMMA RecordOwn ==
  ASSUME TypeOK, ResultInv, NEW c \in Call, RecordResult(c) \/ RecordFails(c)
  PROVE  ResultInv'
  <1> DEFINE rec == Completed(Args_(c), c)
             map == [SweptEntries(Proc_(c), {}) EXCEPT ![Key_(c)] = rec]
  <1>1. Proc_(c) \in Proc /\ Key_(c) \in Key /\ Args_(c) \in Args
    BY DEF TypeOK, Request, Proc_, Key_, Args_
  <1>2. rec \in Record /\ EntryOK(Key_(c), rec)
    <2>1. rec \in Record
      BY <1>1, CompletedIsRecord, PayloadAssumption, ClockAssumption
      DEF TypeOK, StoreTypeOK, ClockTypeOK
    <2> QED  BY <2>1 DEF Completed, EntryOK, OwnResult
  <1>3. UNCHANGED req /\ entries' = [entries EXCEPT ![Proc_(c)] = map]
    BY DEF RecordResult, RecordFails, Remember
  <1>4. \A q \in Proc, k \in Key : EntryOK(k, entries[q][k])'
    <2>1. map \in [Key -> Record] /\ \A k \in Key : EntryOK(k, map[k])
      BY <1>1, <1>2, SweepOwn
    <2> HIDE DEF map
    <2> QED  BY <1>1, <1>3, <2>1, EntriesOwn
  <1>5. \A k \in Key : OwnResult(k, record[k])'
    BY <1>2, <1>3, WriteOwn DEF RecordResult, RecordFails, EntryOK, OwnResult, Absent
  <1>6. ReplayIsOwnResult'
    BY <1>3, ServedOwn DEF RecordResult, RecordFails, ResultInv, ReplayIsOwnResult, Key_, Args_
  <1> QED  BY <1>4, <1>5, <1>6 DEF ResultInv

\* Every step keeps the results with their keys and arguments.
LEMMA ResultStep == TypeOK /\ ResultInv /\ [Next]_vars => ResultInv'
  <1> SUFFICES ASSUME TypeOK, ResultInv, [Next]_vars PROVE ResultInv'
    OBVIOUS
  <1>1. CASE UNCHANGED vars \/ Clock
    BY <1>1, QuietOwn DEF vars, storeVars, callVars, Clock
  <1>2. ASSUME NEW c \in Call,
               RefuseConflict(c) \/ RefuseHeld(c) \/ RefuseUnfinished(c) \/ GiveUpLock(c)
                 \/ ReserveFails(c) \/ Dispatch(c) \/ Unauthorized(c) \/ Answered(c)
                 \/ OutcomeUnknown(c) \/ HoldFails(c)
        PROVE  ResultInv'
    BY <1>2, QuietOwn
    DEF RefuseConflict, RefuseHeld, RefuseUnfinished, GiveUpLock, ReserveFails, Dispatch,
        Unauthorized, Answered, OutcomeUnknown, HoldFails, storeVars
  <1>3. ASSUME NEW c \in Call,
               Claim(c) \/ Reserve(c) \/ NothingSent(c) \/ RecordOverflows(c) \/ RecordHold(c)
        PROVE  ResultInv'
    <2>0. Proc_(c) \in Proc /\ Key_(c) \in Key
      BY DEF TypeOK, Request, Proc_, Key_
    <2>1. UNCHANGED <<req, served>>
      BY <1>3 DEF Claim, Reserve, NothingSent, RecordOverflows, RecordHold
    <2>2. \A k \in Key : record'[k] = record[k] \/ record'[k].state # "completed"
      <3>1. /\ Absent.state # "completed"
            /\ \A h, t : Reservation(h, t).state # "completed"
            /\ \A h, t, why : Held(Reservation(h, t), why).state # "completed"
        BY DEF Absent, Reservation, Held
      <3> QED
        BY <1>3, <3>1, WriteOther DEF Claim, Reserve, NothingSent, RecordOverflows, RecordHold
    <2>3. \A p \in Proc, k \in Key : entries'[p][k] \in {entries[p][k], Absent}
      <3>1. CASE Claim(c) \/ Reserve(c) \/ NothingSent(c)
        BY <2>0, <3>1, DropsEntries DEF Claim, Reserve, NothingSent, Forget
      <3>2. CASE RecordOverflows(c)
        BY <3>2 DEF RecordOverflows, CleanupExpired, SweptEntries, TypeOK, StoreTypeOK
      <3>3. CASE RecordHold(c)
        BY <2>0, <3>3, DropsEntries DEF RecordHold, RememberHold
      <3> QED  BY <1>3, <3>1, <3>2, <3>3
    <2> QED  BY <2>1, <2>2, <2>3, QuietOwn
  <1>4. ASSUME NEW p \in Proc, Crash(p) PROVE ResultInv'
    <2>1. \A q \in Proc, k \in Key : entries'[q][k] \in {entries[q][k], Absent}
      BY <1>4 DEF Crash, TypeOK, StoreTypeOK
    <2> QED  BY <1>4, <2>1, QuietOwn DEF Crash
  <1>5. ASSUME NEW p \in Proc, NEW k \in Key, Operator(p, k) PROVE ResultInv'
    <2>1. \A j \in Key : record'[j] = record[j] \/ record'[j].state # "completed"
      BY <1>5 DEF Operator, ReleaseHold, Absent, TypeOK, StoreTypeOK
    <2> QED  BY <1>5, <2>1, QuietOwn DEF Operator, ReleaseHold
  <1>6. ASSUME NEW c \in Call, Lookup(c) \/ Progress(c) PROVE ResultInv'
    BY <1>2, <1>3, <1>6, LookupOwn, ReplayOwn, RecordOwn DEF Progress
  <1> QED  BY <1>1, <1>4, <1>5, <1>6 DEF Next

\* A call is only ever answered with a result of its own key and arguments,
\* whether it executed, or was answered from the map of its process or from a
\* record that any other process wrote.
THEOREM AlwaysOwnResult == Spec => []ReplayIsOwnResult
  <1>1. ResultInv => ReplayIsOwnResult
    BY DEF ResultInv
  <1> QED  BY <1>1, TypeCorrect, ResultInit, ResultStep, PTL DEF Spec

-----------------------------------------------------------------------------
(* Closed keys.  Only a record that is a hold has the reason of one, so a  *)
(* call that waits for the lease finds a lost answer held in force, and a  *)
(* call that has the lease finds its own reservation and not a hold.       *)

HoldInv ==
    \A k \in Key : record[k].holdReason # "none" => record[k].state = "indeterminate"

\* Who finds the record usable finds no hold for a lost answer in it.
LEMMA WritesRespectHolds ==
  /\ Absent.holdReason = "none"
  /\ \A h, t : Reservation(h, t).holdReason = "none"
  /\ \A h, r : Completed(h, r).holdReason = "none"
  /\ \A h, t, why : Held(Reservation(h, t), why).state = "indeterminate"
  BY DEF Absent, Reservation, Completed, Held

\* There are no holds at first.
LEMMA HoldInit == Init => HoldInv
  BY DEF Init, StoreInit, HoldInv, Absent

\* What one call writes is in the record of its own key.
LEMMA WriteHold ==
  ASSUME TypeOK, HoldInv, NEW c \in Call, NEW rec, Write(c, rec),
         rec.holdReason # "none" => rec.state = "indeterminate"
  PROVE  HoldInv'
  BY DEF TypeOK, StoreTypeOK, HoldInv, Write

\* Every step keeps what is known of the holds.
LEMMA HoldStep == TypeOK /\ HoldInv /\ [Next]_vars => HoldInv'
  <1> SUFFICES ASSUME TypeOK, HoldInv, [Next]_vars PROVE HoldInv'
    OBVIOUS
  <1>1. CASE UNCHANGED record
    BY <1>1 DEF HoldInv
  <1>2. ASSUME NEW c \in Call, Lookup(c) \/ Progress(c) PROVE HoldInv'
    <2>1. CASE Claim(c) \/ NothingSent(c) \/ RecordOverflows(c) \/ RecordFails(c)
      BY <2>1, WriteHold, WritesRespectHolds DEF Claim, NothingSent, RecordOverflows, RecordFails
    <2>2. CASE Reserve(c)
      BY <2>2, WriteHold, WritesRespectHolds DEF Reserve
    <2>3. CASE RecordResult(c)
      BY <2>3, WriteHold, WritesRespectHolds DEF RecordResult
    <2>4. CASE RecordHold(c)
      BY <2>4, WriteHold, WritesRespectHolds DEF RecordHold
    <2> QED
      BY <1>1, <1>2, <2>1, <2>2, <2>3, <2>4
      DEF Lookup, Progress, RefuseConflict, Replay, RefuseHeld, RefuseUnfinished, GiveUpLock,
          ReserveFails, Dispatch, Unauthorized, Answered, OutcomeUnknown, HoldFails, storeVars
  <1>3. ASSUME NEW p \in Proc, NEW k \in Key, Operator(p, k) PROVE HoldInv'
    BY <1>3, WritesRespectHolds DEF Operator, ReleaseHold, HoldInv, TypeOK, StoreTypeOK
  <1>4. CASE UNCHANGED vars \/ Clock \/ \E p \in Proc : Crash(p)
    BY <1>1, <1>4 DEF vars, storeVars, Clock, Crash
  <1> QED  BY <1>2, <1>3, <1>4 DEF Next

\* The step of a call that changes a record is the step of a call that holds
\* its lease, or takes it and finds the record usable.
LEMMA WhoWrites ==
  ASSUME TypeOK, NEW c \in Call, Lookup(c) \/ Progress(c), NEW k \in Key,
         record'[k] # record[k]
  PROVE  Key_(c) = k /\ (Claim(c) \/ pc[c] \in Holding)
  <1>1. CASE Claim(c)
    BY <1>1 DEF Claim, Write, TypeOK, StoreTypeOK
  <1>2. CASE /\ pc[c] \in Holding
             /\ \E rec : Write(c, rec)
    BY <1>2 DEF Write, TypeOK, StoreTypeOK
  <1>3. CASE Reserve(c) \/ NothingSent(c) \/ RecordResult(c) \/ RecordOverflows(c)
               \/ RecordFails(c) \/ RecordHold(c)
    BY <1>2, <1>3
    DEF Reserve, NothingSent, RecordResult, RecordOverflows, RecordFails, RecordHold,
        Holding, Executing, Queued, Sent, Settled, Uncertain
  <1>4. CASE UNCHANGED record
    BY <1>4
  <1> QED
    BY <1>1, <1>3, <1>4
    DEF Lookup, Progress, RefuseConflict, Replay, RefuseHeld, RefuseUnfinished, GiveUpLock,
        ReserveFails, Dispatch, Unauthorized, Answered, OutcomeUnknown, HoldFails, storeVars

\* A reservation without an owner, and the hold of a lost answer, are changed
\* by an operator and by nobody else, for however long the system runs.
THEOREM AlwaysShut == Spec => ShutUntilReconciled
  <1>1. TypeOK /\ LedgerInv /\ HoldInv /\ [Next]_vars => [ShutStep]_vars
    <2> SUFFICES ASSUME TypeOK, LedgerInv, HoldInv, Next,
                        NEW k \in Key,
                        \/ record[k].state = "in_flight" /\ lease[k] = NoCall
                        \/ record[k].holdReason = "transport_failure_after_dispatch",
                        record'[k] # record[k]
                 PROVE  \E p \in Proc : Operator(p, k)
      BY DEF ShutStep
    <2>1. ~\E c \in Call : Lookup(c) \/ Progress(c)
      <3> SUFFICES ASSUME NEW c \in Call, Lookup(c) \/ Progress(c) PROVE FALSE
        OBVIOUS
      <3>1. Key_(c) = k /\ (Claim(c) \/ pc[c] \in Holding)
        BY WhoWrites
      <3>2. CASE Claim(c)
        BY <3>1, <3>2 DEF Claim, Usable, InForce, Rec, HoldInv
      <3>3. CASE pc[c] \in Holding
        <4>1. CallInv(c) /\ lease[k] = c /\ c # NoCall
          BY <3>1, <3>3, NoCallAssumption DEF LedgerInv, CallInv, HasLease
        <4>2. Rec(c).holdReason = "none"
          BY <3>3, <4>1, WritesRespectHolds DEF CallInv, Holding
        <4> QED  BY <3>1, <4>1, <4>2 DEF Rec
      <3> QED  BY <3>1, <3>2, <3>3
    <2>2. ASSUME NEW p \in Proc, NEW j \in Key, Operator(p, j) PROVE Operator(p, k)
      BY <2>2 DEF Operator, ReleaseHold, TypeOK, StoreTypeOK
    <2>3. ~(Clock \/ \E p \in Proc : Crash(p))
      BY DEF Clock, Crash
    <2> QED  BY <2>1, <2>2, <2>3 DEF Next
  <1> QED
    BY <1>1, TypeCorrect, LedgerInvariant, HoldInit, HoldStep, PTL DEF Spec, ShutUntilReconciled

-----------------------------------------------------------------------------
(* ToolCall implements MutationSlot: every step of the calls, the ledger,  *)
(* the crashes and the operators is a step of the slot of one key, or      *)
(* changes no slot.                                                        *)

\* The quota has room for every key where MayForget says so.
LEMMA QuotaHolds ==
  ASSUME IsFiniteSet(Key), ~MayForget, NEW p, NEW k \in Key, NEW kept
  PROVE  HasRoom(p, k, kept) /\ ~DiskMayFail
  <1>1. Cardinality(Key) \in Nat /\ ~DiskMayFail
    BY FS_CardinalityType DEF MayForget
  <1>2. MaxEntries >= 2 * Cardinality(Key)
    BY <1>1, LedgerAssumption DEF MayForget
  <1> QED  BY <1>1, <1>2, RoomForAll

\* A record written for one key moves the slot of that key.
LEMMA SlotMoves ==
  ASSUME TypeOK, NEW k \in Key, NEW rec, record' = [record EXCEPT ![k] = rec]
  PROVE  slot' = [slot EXCEPT ![k] = SlotOf(rec)]
  BY DEF TypeOK, StoreTypeOK, slot

\* What the records that are written say of a slot.
LEMMA SlotsWritten ==
  /\ SlotOf(Absent) = "free"
  /\ \A h, t : SlotOf(Reservation(h, t)) = "reserved"
  /\ \A h, r : SlotOf(Completed(h, r)) = "answered"
  /\ \A h, t, why : SlotOf(Held(Reservation(h, t), why)) \in {"lost", "cancelled"}
  BY DEF SlotOf, Absent, Reservation, Completed, Held

\* What a slot says of the record.
LEMMA SlotsRead ==
  ASSUME NEW k \in Key
  PROVE  /\ record[k].state = "absent" => slot[k] = "free"
         /\ record[k].state = "in_flight" => slot[k] = "reserved"
         /\ record[k].state = "completed" => slot[k] = "answered"
         /\ record[k].state = "indeterminate" => slot[k] \in {"lost", "cancelled"}
         /\ record[k].state = "indeterminate"
              /\ record[k].holdReason # "transport_failure_after_dispatch"
            => slot[k] = "cancelled"
  <1>1. slot[k] = SlotOf(record[k])
    BY DEF slot
  <1>2. CASE record[k].state = "absent"
    BY <1>1, <1>2 DEF SlotOf
  <1>3. CASE record[k].state = "in_flight"
    BY <1>1, <1>3 DEF SlotOf
  <1>4. CASE record[k].state = "completed"
    BY <1>1, <1>4 DEF SlotOf
  <1>5. CASE record[k].state = "indeterminate"
    BY <1>1, <1>5 DEF SlotOf
  <1> QED  BY <1>2, <1>3, <1>4, <1>5

\* A step that leaves the records and the history alone moves no slot.
LEMMA SlotStays ==
  ASSUME UNCHANGED <<record, owed>>
  PROVE  UNCHANGED Promise!slotVars
  BY DEF Promise!slotVars, slot

-----------------------------------------------------------------------------
(* One lemma for each way a step may move a slot *)

\* An empty ledger is a ledger of free slots.
LEMMA InitRefines == Init => Promise!Init
  BY DEF Init, StoreInit, Promise!Init, slot, SlotOf, Absent

\* The lapsed record that Claim removes was a result or a cancelled call.
LEMMA ClaimRefines ==
  ASSUME TypeOK, LedgerInv, NEW c \in Call, Claim(c)
  PROVE  [Promise!Next]_(Promise!slotVars)
  <1> DEFINE k == Key_(c)
  <1>1. k \in Key /\ record[k] \in Record /\ KeyInv(k)
    BY DEF TypeOK, StoreTypeOK, Request, Key_, LedgerInv
  <1>2. slot' = [slot EXCEPT ![k] = "free"] /\ owed' = [owed EXCEPT ![k] = {}]
    BY <1>1, SlotMoves, SlotsWritten DEF Claim, Write, Reopened
  <1>3. CASE record[k].state = "absent"
    <2>1. slot[k] = "free" /\ owed[k] = {}
      BY <1>1, <1>3, SlotsRead DEF KeyInv
    <2> QED  BY <1>1, <1>2, <2>1 DEF Promise!slotVars, slot, TypeOK
  <1>4. CASE record[k].state # "absent"
    <2>1. slot[k] \in {"answered", "cancelled"}
      BY <1>1, <1>4, SlotsRead DEF Claim, Usable, InForce, Rec, Record
    <2>2. Promise!Lapse(k)
      BY <1>2, <2>1 DEF Promise!Lapse, Promise!Move, Promise!OwesNothing
    <2> QED  BY <1>1, <2>2 DEF Promise!Next
  <1> QED  BY <1>3, <1>4

\* The reservation and the request: Reserve, Send, Refuse or nothing.
LEMMA RequestRefines ==
  ASSUME TypeOK, LedgerInv, NEW c \in Call,
         Reserve(c) \/ Dispatch(c) \/ Unauthorized(c) \/ NothingSent(c)
  PROVE  [Promise!Next]_(Promise!slotVars)
  <1> DEFINE k == Key_(c)
  <1> USE DEF Holding, Executing, Queued, Sent, Settled, Uncertain
  <1>1. k \in Key /\ record[k] \in Record /\ CallInv(c) /\ KeyInv(k)
    BY DEF TypeOK, StoreTypeOK, Request, Key_, LedgerInv
  <1>2. CASE Reserve(c)
    <2>1. slot[k] = "free" /\ owed[k] = {} /\ UNCHANGED owed
      BY <1>1, <1>2, SlotsRead DEF Reserve, CallInv, KeyInv, Rec, Absent
    <2>2. slot' = [slot EXCEPT ![k] = "reserved"]
      <3>1. record' = [record EXCEPT ![k] = Reservation(Args_(c), began[c])] /\ UNCHANGED owed
        BY <1>2 DEF Reserve, Write
      <3>2. SlotOf(Reservation(Args_(c), began[c])) = "reserved"
        BY SlotsWritten
      <3>3. slot' = [slot EXCEPT ![k] = SlotOf(Reservation(Args_(c), began[c]))]
        BY <1>1, <3>1, SlotMoves
      <3> QED  BY <3>1, <3>2, <3>3
    <2>3. Promise!Reserve(k)
      BY <2>1, <2>2 DEF Promise!Reserve, Promise!Move
    <2> QED  BY <1>1, <2>3 DEF Promise!Next
  <1>3. CASE ~Reserve(c)
    <2>1. slot[k] = "reserved" /\ owed[k] \subseteq {c} /\ (pc[c] = Queued => owed[k] = {})
      BY <1>1, <1>3, SlotsRead DEF Dispatch, Unauthorized, NothingSent, CallInv, Rec, Reservation
    <2>2. CASE Dispatch(c)
      <3>1. Promise!Send(k, c)
        BY <1>1, <2>1, <2>2 DEF Promise!Send, Dispatch, storeVars, slot
      <3> QED  BY <1>1, <3>1 DEF Promise!Next
    <2>3. CASE Unauthorized(c)
      <3>1. Promise!Refuse(k)
        BY <1>1, <2>1, <2>3 DEF Promise!Refuse, Promise!OwesNothing, Unauthorized, NotOwed,
                               storeVars, slot, TypeOK
      <3> QED  BY <1>1, <3>1 DEF Promise!Next
    <2>4. CASE NothingSent(c)
      <3>1. slot' = [slot EXCEPT ![k] = "free"] /\ UNCHANGED owed
        <4>1. record' = [record EXCEPT ![k] = Absent] /\ UNCHANGED owed
          BY <2>4 DEF NothingSent, Write
        <4> QED  BY <1>1, <4>1, SlotMoves, SlotsWritten
      <3>2. Promise!Withdraw(k)
        BY <2>1, <2>4, <3>1 DEF Promise!Withdraw, Promise!Move, NothingSent
      <3> QED  BY <1>1, <3>2 DEF Promise!Next
    <2> QED  BY <1>3, <2>2, <2>3, <2>4
  <1> QED  BY <1>2, <1>3

\* What is recorded of a request: Close, Withdraw or, with MayForget, Lose.
LEMMA RecordRefines ==
  ASSUME IsFiniteSet(Key), TypeOK, LedgerInv, NEW c \in Call,
         RecordResult(c) \/ RecordOverflows(c) \/ RecordFails(c) \/ RecordHold(c)
  PROVE  [Promise!Next]_(Promise!slotVars)
  <1> DEFINE k == Key_(c)
  <1> USE DEF Holding, Executing, Queued, Sent, Settled, Uncertain
  <1>1. k \in Key /\ Proc_(c) \in Proc /\ record[k] \in Record /\ CallInv(c)
    BY DEF TypeOK, StoreTypeOK, Request, Key_, Proc_, LedgerInv
  <1>2. slot[k] = "reserved"
    BY <1>1, SlotsRead
    DEF RecordResult, RecordOverflows, RecordFails, RecordHold, CallInv, Rec, Reservation
  <1>3. CASE RecordResult(c)
    <2>1. slot' = [slot EXCEPT ![k] = "answered"] /\ UNCHANGED owed
      <3>1. record' = [record EXCEPT ![k] = Completed(Args_(c), c)] /\ UNCHANGED owed
        BY <1>3 DEF RecordResult, Write
      <3>2. SlotOf(Completed(Args_(c), c)) = "answered"
        BY SlotsWritten
      <3>3. slot' = [slot EXCEPT ![k] = SlotOf(Completed(Args_(c), c))]
        BY <1>1, <3>1, SlotMoves
      <3> QED  BY <3>1, <3>2, <3>3
    <2>2. Promise!Close(k)
      BY <1>2, <2>1 DEF Promise!Close, Promise!Move, Promise!Outcome
    <2> QED  BY <1>1, <2>2 DEF Promise!Next
  <1>4. CASE RecordHold(c)
    <2> DEFINE rec == Held(Reservation(Args_(c), began[c]), Reason(c))
    <2>1. SlotOf(rec) \in {"lost", "cancelled"}
      BY SlotsWritten
    <2>2. slot' = [slot EXCEPT ![k] = SlotOf(rec)] /\ UNCHANGED owed
      BY <1>1, <1>4, SlotMoves DEF RecordHold, Write
    <2>3. Promise!Close(k)
      BY <1>2, <2>1, <2>2 DEF Promise!Close, Promise!Move, Promise!Outcome
    <2> QED  BY <1>1, <2>3 DEF Promise!Next
  <1>5. CASE RecordOverflows(c) \/ RecordFails(c)
    <2>1. MayForget
      BY <1>1, <1>5, QuotaHolds DEF RecordOverflows, RecordFails, MayForget
    <2>2. slot' = [slot EXCEPT ![k] = "free"] /\ owed' = [owed EXCEPT ![k] = {}]
      BY <1>1, <1>5, SlotMoves, SlotsWritten DEF RecordOverflows, RecordFails, Write, Reopened
    <2>3. Promise!Lose(k)
      BY <1>2, <2>1, <2>2 DEF Promise!Lose, Promise!Move, Promise!OwesNothing
    <2> QED  BY <1>1, <2>3 DEF Promise!Next
  <1> QED  BY <1>3, <1>4, <1>5

\* An operator reconciles a slot, or finds nothing to do.
LEMMA OperatorRefines ==
  ASSUME TypeOK, NEW p \in Proc, NEW k \in Key, Operator(p, k)
  PROVE  [Promise!Next]_(Promise!slotVars)
  <1>1. CASE record[k].state = "indeterminate"
    <2>1. slot[k] \in {"lost", "cancelled"}
      BY <1>1, SlotsRead
    <2>2. slot' = [slot EXCEPT ![k] = "free"] /\ owed' = [owed EXCEPT ![k] = {}]
      BY <1>1, SlotMoves, SlotsWritten DEF Operator, ReleaseHold
    <2>3. Promise!Reconcile(k)
      BY <2>1, <2>2 DEF Promise!Reconcile, Promise!Move, Promise!OwesNothing
    <2> QED  BY <2>3 DEF Promise!Next
  <1>2. CASE record[k].state # "indeterminate"
    <2>1. UNCHANGED <<record, owed>>
      BY <1>2 DEF Operator, ReleaseHold, TypeOK, StoreTypeOK
    <2> QED  BY <2>1, SlotStays
  <1> QED  BY <1>1, <1>2

\* Every step of the calls and the ledger is a step of the slots or none.
LEMMA StepRefines ==
  ASSUME IsFiniteSet(Key), TypeOK, LedgerInv, [Next]_vars
  PROVE  [Promise!Next]_(Promise!slotVars)
  <1>1. CASE UNCHANGED vars \/ Clock \/ \E p \in Proc : Crash(p)
    BY <1>1, SlotStays DEF vars, storeVars, callVars, Clock, Crash
  <1>2. ASSUME NEW c \in Call, Lookup(c) \/ Progress(c)
        PROVE  [Promise!Next]_(Promise!slotVars)
    <2>1. CASE Lookup(c) \/ RefuseConflict(c) \/ Replay(c) \/ RefuseHeld(c)
                 \/ RefuseUnfinished(c) \/ GiveUpLock(c) \/ ReserveFails(c) \/ Answered(c)
                 \/ OutcomeUnknown(c) \/ HoldFails(c)
      BY <2>1, SlotStays DEF Lookup, RefuseConflict, Replay, RefuseHeld, RefuseUnfinished,
                             GiveUpLock, ReserveFails, Answered, OutcomeUnknown, HoldFails, storeVars
    <2> QED  BY <1>2, <2>1, ClaimRefines, RequestRefines, RecordRefines DEF Progress
  <1> QED  BY <1>1, <1>2, OperatorRefines DEF Next

\* Whatever the calls, the processes, the crashes and the operators do, a key
\* behaves like a slot: a sent mutation leaves it by the lapse of a known
\* answer or of a cancelled call, or by an operator, and is lost only where
\* the disk may fail or the quota is smaller than two entries per key.
THEOREM ImplementsSlot == IsFiniteSet(Key) => (Spec => KeepsPromise)
  <1> SUFFICES ASSUME IsFiniteSet(Key) PROVE Spec => KeepsPromise
    OBVIOUS
  <1>1. TypeOK /\ LedgerInv /\ [Next]_vars => [Promise!Next]_(Promise!slotVars)
    BY StepRefines
  <1> QED  BY <1>1, InitRefines, TypeCorrect, LedgerInvariant, PTL DEF Spec, KeepsPromise, Promise!Spec

\* On a disk that does not fail, and with a quota of two entries per key, the
\* mutation that was sent is never forgotten while its reservation stands.
THEOREM ForgetsOnlyWhenFull == IsFiniteSet(Key) /\ ~MayForget => (Spec => NeverForgotten)
  <1> SUFFICES ASSUME IsFiniteSet(Key), ~MayForget PROVE Spec => NeverForgotten
    OBVIOUS
  <1>1. TypeOK /\ LedgerInv /\ [Next]_vars => [ForgetsNone]_vars
    <2> SUFFICES ASSUME TypeOK, LedgerInv, Next, NEW k \in Key,
                        record[k].state = "in_flight", owed[k] # {}
                 PROVE  record'[k].state # "absent"
      BY DEF ForgetsNone
    <2>1. CASE record'[k] = record[k]
      BY <2>1
    <2>2. ASSUME NEW c \in Call, Lookup(c) \/ Progress(c), record'[k] # record[k]
          PROVE  record'[k].state # "absent"
      <3>1. Key_(c) = k /\ (Claim(c) \/ pc[c] \in Holding) /\ CallInv(c) /\ KeyInv(k)
        BY <2>2, WhoWrites DEF LedgerInv
      <3>2. ~Claim(c) /\ ~Reserve(c) /\ ~NothingSent(c)
        <4>1. Rec(c).state = "in_flight" /\ owed[Key_(c)] # {}
          BY <3>1 DEF Rec
        <4>2. ~Claim(c)
          BY <4>1 DEF Claim, Usable, Rec
        <4>3. ~Reserve(c)
          BY <3>1, <4>1 DEF Reserve, CallInv, Absent
        <4>4. ~NothingSent(c)
          BY <3>1, <4>1 DEF NothingSent, CallInv
        <4> QED  BY <4>2, <4>3, <4>4
      <3>3. ~RecordOverflows(c) /\ ~RecordFails(c)
        <4>1. Proc_(c) \in Proc
          BY DEF TypeOK, Request, Proc_
        <4> QED  BY <3>1, <4>1, QuotaHolds DEF RecordOverflows, RecordFails, MayForget
      <3>4. CASE RecordResult(c) \/ RecordHold(c)
        <4>1. /\ \A h, r : Completed(h, r).state # "absent"
              /\ \A h, t, why : Held(Reservation(h, t), why).state # "absent"
          BY DEF Completed, Held, Reservation
        <4>2. \E rec : rec.state # "absent" /\ Write(c, rec)
          BY <3>4, <4>1 DEF RecordResult, RecordHold
        <4> QED  BY <3>1, <4>2 DEF Write, TypeOK, StoreTypeOK
      <3> QED
        BY <2>2, <3>2, <3>3, <3>4
        DEF Lookup, Progress, RefuseConflict, Replay, RefuseHeld, RefuseUnfinished, GiveUpLock,
            ReserveFails, Dispatch, Unauthorized, Answered, OutcomeUnknown, HoldFails, storeVars
    <2>3. ASSUME NEW p \in Proc, NEW j \in Key, Operator(p, j) PROVE record'[k] = record[k]
      BY <2>3 DEF Operator, ReleaseHold, TypeOK, StoreTypeOK
    <2>4. CASE Clock \/ \E p \in Proc : Crash(p)
      BY <2>4 DEF Clock, Crash
    <2> QED  BY <2>1, <2>2, <2>3, <2>4 DEF Next
  <1> QED  BY <1>1, TypeCorrect, LedgerInvariant, PTL DEF Spec, NeverForgotten
===============================================================================
