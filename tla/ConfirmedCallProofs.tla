--------------------------- MODULE ConfirmedCallProofs ---------------------------
(***************************************************************************)
(* Theorems about ConfirmedCall, for every number of processes, proposals, *)
(* confirmations and cancellations, every time to live and every quota:    *)
(* first what needs the action store alone, with its faults, then what the *)
(* ledger promises as long as nothing disturbs it.                         *)
(***************************************************************************)
EXTENDS ConfirmedCall, IdempotencyStoreProofs, FiniteSetTheorems

-----------------------------------------------------------------------------
(* Type correctness, but for the bound of the failure counters: that one   *)
(* needs to know what a wrong secret finds.                                *)

Places ==
    {"idle", "lock", "checking", "sweeping", "judging", "expiring", "reserve", "staging",
     "staged", "overdue", "found", "claiming", "clearing"} \cup Running \cup Over

LedgerOK ==
    /\ now \in 0 .. MaxTime
    /\ record \in [Key -> Record]
    /\ lease \in [Key -> Call \cup {NoCall}]
    /\ MapsOK

QueueOK ==
    /\ durable \in [Action -> {"absent", "pending", "claimed"}]
    /\ dueAt \in [Action -> Nat]
    /\ failures \in [Action -> Nat]
    /\ actionLease \in [Action -> Call \cup {NoCall}]
    /\ actions \in [Proc -> SUBSET Action]
    /\ inFlight \in [Proc -> SUBSET Action]

Requests ==
    /\ proposal \in [Action -> [proc : Proc, key : Key \cup {NoKey}, argsHash : Args]]
    /\ request \in [Confirmation \cup Cancellation -> [proc : Proc, action : Action]]

LocalsOK ==
    /\ pc \in [Call -> Places]
    /\ seen \in [Action -> Action \cup {NoCall}]
    /\ began \in [Action \cup Confirmation -> 0 .. MaxTime]
    /\ retains \in [Proc -> SUBSET Key]
    /\ refreshed \in [Confirmation -> BOOLEAN]
    /\ ran \in [Confirmation -> BOOLEAN]
    /\ owed \in [Key -> SUBSET Action]

Shape == LedgerOK /\ QueueOK /\ Requests /\ LocalsOK

\* Only a proposal that gives a key comes to the ledger, what it looked up is
\* an action, and only an execution with a key is recorded in two steps.
LedgerPlaces ==
    {"lock", "checking", "sweeping", "judging", "expiring", "reserve", "staging", "staged"}

Roles ==
    /\ \A a \in Action : pc[a] \in LedgerPlaces => Keyed(a)
    /\ \A a \in Action :
          pc[a] \in {"checking", "sweeping", "judging", "expiring"} => seen[a] \in Action
    /\ \A f \in Confirmation : pc[f] = "storing" => Keyed(Target(f))

\* Every label a request is sent to is one of its places.
LEMMA PlacesOfCalls ==
  {"idle", "lock", "checking", "sweeping", "judging", "expiring", "reserve", "staging",
   "staged", "overdue", "found", "claiming", "clearing", "queued", "sent", "settled", "lost",
   "storing", "complete", "conflict", "held", "unfinished", "timeout", "limit", "io_error",
   "served", "not_found", "refused", "rejected", "locked", "denied", "unknown", "failed",
   "done", "cancelled", "dead"} = Places
  BY DEF Places, Running, Over

\* What a proposal says is a process, perhaps a key, and arguments.
LEMMA ProposalTyped ==
  ASSUME Requests, NEW a \in Action
  PROVE  /\ PProc(a) \in Proc /\ PArgs(a) \in Args
         /\ PKey(a) \in Key \cup {NoKey}
         /\ Keyed(a) <=> PKey(a) \in Key
  BY CallerAssumption DEF Requests, PProc, PKey, PArgs, Keyed

\* A confirmation or cancellation names a process and an action.
LEMMA RequestTyped ==
  ASSUME Requests, NEW f \in Confirmation \cup Cancellation
  PROVE  /\ FProc(f) \in Proc /\ Target(f) \in Action
         /\ FKey(f) \in Key \cup {NoKey}
         /\ Keyed(Target(f)) <=> FKey(f) \in Key
  BY CallerAssumption DEF Requests, FProc, Target, FKey, PKey, Keyed

\* Proposals, confirmations and cancellations are different requests.
LEMMA KindsDiffer ==
  /\ Action \subseteq Call /\ Confirmation \subseteq Call /\ Cancellation \subseteq Call
  /\ \A a \in Action : a \notin Confirmation /\ a \notin Cancellation
  /\ \A f \in Confirmation : f \notin Action /\ f \notin Cancellation
  /\ \A x \in Cancellation : x \notin Action /\ x \notin Confirmation
  BY CallerAssumption

\* What previews and results are records of.
LEMMA OutcomeIsRecord ==
  ASSUME LedgerOK, Requests, NEW a \in Action
  PROVE  /\ Completed(PArgs(a), Preview(a)) \in Record
         /\ Completed(PArgs(a), Result(a)) \in Record
  <1>1. Preview(a) \in Payload /\ Result(a) \in Payload
    BY CallerAssumption DEF Preview, Result
  <1>2. now \in Nat
    BY ClockAssumption DEF LedgerOK
  <1> QED  BY <1>1, <1>2, ProposalTyped, CompletedIsRecord

\* A record that shows a preview shows that of an action.
LEMMA PreviewNamesAction ==
  ASSUME NEW rec, ShowsPreview(rec)
  PROVE  rec.result.of \in Action /\ rec.result = Preview(rec.result.of)
  BY DEF ShowsPreview, Preview

-----------------------------------------------------------------------------
(* The operations of the queue keep it a queue *)

\* Staging, removing, counting and claiming change the queue within its type.
LEMMA QueueOps ==
  ASSUME QueueOK, now \in Nat, NEW p \in Proc, NEW a,
         \/ a \in Action /\ Stage(p, a)
         \/ RemoveExpired(p, a) \/ Delete(p, a) \/ Unavailable(p, a)
         \/ RecordFailure(p, a) /\ a \in Action
         \/ Publish(p, a) /\ a \in Action
         \/ CompleteLocal(p, a) \/ ClearClaim(a) \/ PublishFails(a)
         \/ \E c \in Call : Take(c, a)
  PROVE  QueueOK'
  <1>1. CASE a \in Action /\ Stage(p, a)
    <2>1. LiveActions(p) \in SUBSET Action
      BY DEF QueueOK, LiveActions
    <2>2. now + PendingTtl \in Nat
      BY PendingAssumption
    <2> QED  BY <1>1, <2>1, <2>2 DEF Stage, QueueOK
  <1>2. CASE RemoveExpired(p, a) \/ Delete(p, a) \/ Unavailable(p, a)
    BY <1>2 DEF RemoveExpired, Delete, Unavailable, DropLocal, QueueOK
  <1>3. CASE RecordFailure(p, a) /\ a \in Action
    <2>1. failures' \in [Action -> Nat]
      BY <1>3 DEF RecordFailure, QueueOK
    <2>2. durable' \in [Action -> {"absent", "pending", "claimed"}] /\ actions' \in [Proc -> SUBSET Action]
      BY <1>3 DEF RecordFailure, DropLocal, QueueOK
    <2> QED  BY <1>3, <2>1, <2>2 DEF RecordFailure, QueueOK
  <1>4. CASE Publish(p, a) /\ a \in Action
    BY <1>4 DEF Publish, DropLocal, QueueOK
  <1>5. CASE CompleteLocal(p, a) \/ ClearClaim(a) \/ PublishFails(a)
    BY <1>5 DEF CompleteLocal, ClearClaim, PublishFails, QueueOK
  <1>6. CASE \E c \in Call : Take(c, a)
    BY <1>6 DEF Take, QueueOK
  <1> QED  BY <1>1, <1>2, <1>3, <1>4, <1>5, <1>6

-----------------------------------------------------------------------------
(* The steps of a proposal *)

\* The parts of the state a step of a request is asked about.
LEMMA ShapeParts ==
  ASSUME Requests, UNCHANGED <<proposal, request>>, LedgerOK', QueueOK', LocalsOK'
  PROVE  Shape'
  BY DEF Shape, Requests

\* A preview that is forgotten leaves the maps of its process typed.
LEMMA EvictTyped ==
  ASSUME Shape, NEW c \in Action, Evict(c)
  PROVE  MapsOK' /\ retains' \in [Proc -> SUBSET Key]
  <1>1. PProc(c) \in Proc
    BY ProposalTyped DEF Shape
  <1>2. MapsOK'
    BY <1>1, AbsentIsRecord DEF Evict, Forget, Shape, LedgerOK, MapsOK
  <1> QED  BY <1>1, <1>2 DEF Evict, Shape, LocalsOK

\* The lookup in the map of the process, and the two ways to clear a preview.
LEMMA LookupTyped ==
  ASSUME Shape, NEW c \in Action, Lookup(c) \/ CheckPreview(c) \/ SweepPreview(c)
  PROVE  Shape'
  <1>1. PProc(c) \in Proc /\ now \in Nat /\ c \in Call
    BY ProposalTyped, ClockAssumption, KindsDiffer DEF Shape, LedgerOK
  <1>2. CASE Lookup(c)
    <2> DEFINE e == SweptEntries(PProc(c), Kept(PProc(c)))[PKey(c)]
    <2>1. LedgerOK'
      BY <1>1, <1>2, CleanupTyped DEF Lookup, Shape, LedgerOK
    <2>2. QueueOK'
      BY <1>2 DEF Lookup, Shape, QueueOK, pendingVars
    <2>3. pc' \in [Call -> Places]
      BY <1>1, <1>2, PlacesOfCalls DEF Lookup, Goto, Shape, LocalsOK
    <2>4. seen' \in [Action -> Action \cup {NoCall}]
      BY <1>2, PreviewNamesAction DEF Lookup, Shape, LocalsOK
    <2>5. retains' \in [Proc -> SUBSET Key]
      BY <1>1, <1>2 DEF Lookup, Shape, LocalsOK
    <2>6. LocalsOK'
      BY <1>2, <2>3, <2>4, <2>5 DEF Lookup, Shape, LocalsOK
    <2> QED  BY <1>2, <2>1, <2>2, <2>6, ShapeParts DEF Lookup, Shape
  <1>3. CASE CheckPreview(c)
    <2>1. MapsOK' /\ retains' \in [Proc -> SUBSET Key]
      <3>1. CASE UNCHANGED <<entries, holds, retains>>
        BY <3>1 DEF Shape, LedgerOK, LocalsOK, MapsOK
      <3>2. CASE Evict(c)
        BY <1>1, <3>2, EvictTyped
      <3> QED  BY <1>3, <3>1, <3>2 DEF CheckPreview
    <2>2. LedgerOK'
      BY <1>3, <2>1 DEF CheckPreview, Shape, LedgerOK
    <2>3. QueueOK'
      BY <1>1, <1>3 DEF CheckPreview, DropLocal, Shape, QueueOK
    <2>4. pc' \in [Call -> Places] /\ seen' \in [Action -> Action \cup {NoCall}]
      BY <1>1, <1>3, PlacesOfCalls DEF CheckPreview, Goto, DoneSeen, Shape, LocalsOK
    <2>5. LocalsOK'
      BY <1>3, <2>1, <2>4 DEF CheckPreview, Shape, LocalsOK
    <2> QED  BY <1>3, <2>2, <2>3, <2>5, ShapeParts DEF CheckPreview, Shape
  <1>4. CASE SweepPreview(c)
    <2>1. MapsOK' /\ retains' \in [Proc -> SUBSET Key]
      BY <1>4, EvictTyped DEF SweepPreview
    <2>2. LedgerOK'
      BY <1>4, <2>1 DEF SweepPreview, Shape, LedgerOK
    <2>3. QueueOK'
      BY <1>1, <1>4, QueueOps DEF SweepPreview, Shape
    <2>4. LocalsOK'
      BY <1>1, <1>4, <2>1, PlacesOfCalls DEF SweepPreview, Goto, DoneSeen, Shape, LocalsOK
    <2> QED  BY <1>4, <2>2, <2>3, <2>4, ShapeParts DEF SweepPreview, Shape
  <1> QED  BY <1>2, <1>3, <1>4

\* The record of a key that a proposal gives is a record.
LEMMA RecordOfKey ==
  ASSUME Shape, NEW k \in Key
  PROVE  record[k] \in Record
  BY DEF Shape, LedgerOK

\* A write to the map of results or holds keeps the maps typed.
LEMMA MapTyped ==
  ASSUME MapsOK, NEW p \in Proc, NEW k, NEW rec, k \in Key => rec \in Record
  PROVE  /\ [entries EXCEPT ![p][k] = rec] \in [Proc -> [Key -> Record]]
         /\ [holds EXCEPT ![p][k] = rec] \in [Proc -> [Key -> Record]]
  BY DEF MapsOK

\* The decisions under the lease of the key that leave the record alone.
LEMMA DecideTyped ==
  ASSUME Shape, NEW c \in Action,
         Refuse(c) \/ ReplayResult(c) \/ OpenPreview(c) \/ ExpiryUncertain(c) \/ GiveUpLock(c)
  PROVE  Shape'
  <1>1. /\ PProc(c) \in Proc /\ c \in Call /\ now \in 0 .. MaxTime /\ 0 \in 0 .. MaxTime
        /\ PKey(c) \in Key => PRec(c) \in Record
    BY ProposalTyped, RecordOfKey, ClockAssumption, KindsDiffer DEF Shape, LedgerOK, PRec
  <1>2. CASE Refuse(c)
    <2>1. holds' \in [Proc -> [Key -> Record]]
      <3>1. holds' = holds \/ holds' = [holds EXCEPT ![PProc(c)][PKey(c)] = PRec(c)]
        BY <1>2 DEF Refuse
      <3>2. MapsOK
        BY DEF Shape, LedgerOK
      <3>3. holds \in [Proc -> [Key -> Record]]
        BY <3>2 DEF MapsOK
      <3>4. [holds EXCEPT ![PProc(c)][PKey(c)] = PRec(c)] \in [Proc -> [Key -> Record]]
        BY <1>1, <3>2, MapTyped
      <3> QED  BY <3>1, <3>3, <3>4
    <2>2. pc' \in [Call -> Places]
      BY <1>1, <1>2, PlacesOfCalls DEF Refuse, Goto, Shape, LocalsOK
    <2>3. LedgerOK' /\ QueueOK' /\ LocalsOK'
      BY <1>2, <2>1, <2>2 DEF Refuse, Shape, LedgerOK, MapsOK, QueueOK, pendingVars, LocalsOK
    <2> QED  BY <1>2, <2>3, ShapeParts DEF Refuse, Shape
  <1>3. CASE ReplayResult(c)
    <2>1. entries' \in [Proc -> [Key -> Record]]
      BY <1>1, <1>3, MapTyped DEF ReplayResult, ReplayRecord, Shape, LedgerOK
    <2>2. LedgerOK' /\ QueueOK' /\ LocalsOK'
      BY <1>1, <1>3, <2>1, PlacesOfCalls
      DEF ReplayResult, ReplayRecord, Goto, Shape, LedgerOK, MapsOK, QueueOK, pendingVars, LocalsOK
    <2> QED  BY <1>3, <2>2, ShapeParts DEF ReplayResult, Shape
  <1>4. CASE OpenPreview(c)
    <2>1. PRec(c).result.of \in Action
      BY <1>4, PreviewNamesAction DEF OpenPreview
    <2>2. LedgerOK' /\ QueueOK' /\ LocalsOK'
      BY <1>1, <1>4, <2>1, PlacesOfCalls
      DEF OpenPreview, Goto, Shape, LedgerOK, MapsOK, QueueOK, pendingVars, LocalsOK
    <2> QED  BY <1>4, <2>2, ShapeParts DEF OpenPreview, Shape
  <1>5. CASE ExpiryUncertain(c)
    <2>1. entries' \in [Proc -> [Key -> Record]]
      BY <1>1, <1>5, MapTyped DEF ExpiryUncertain, ReplayRecord, Shape, LedgerOK
    <2>2. LedgerOK' /\ QueueOK' /\ LocalsOK'
      BY <1>1, <1>5, <2>1, PlacesOfCalls
      DEF ExpiryUncertain, ReplayRecord, ReleaseLease, DoneSeen, DoneBegan, Goto, Shape,
          LedgerOK, MapsOK, QueueOK, pendingVars, LocalsOK
    <2> QED  BY <1>5, <2>2, ShapeParts DEF ExpiryUncertain, Shape
  <1>6. CASE GiveUpLock(c)
    <2>2. LedgerOK' /\ QueueOK' /\ LocalsOK'
      BY <1>1, <1>6, PlacesOfCalls
      DEF GiveUpLock, DoneSeen, Goto, Shape,
          storeVars, LedgerOK, MapsOK, QueueOK, pendingVars, LocalsOK
    <2> QED  BY <1>6, <2>2, ShapeParts DEF GiveUpLock, Shape
  <1> QED  BY <1>2, <1>3, <1>4, <1>5, <1>6

\* Taking the key over, and looking up the life of the action it shows.
LEMMA TakeOverTyped ==
  ASSUME Shape, NEW c \in Action, Claim(c) \/ JudgePreview(c) \/ ExpirePreview(c)
  PROVE  Shape'
  <1>1. /\ PProc(c) \in Proc /\ c \in Call /\ now \in 0 .. MaxTime /\ 0 \in 0 .. MaxTime
        /\ now \in Nat /\ PKey(c) \in Key => PRec(c) \in Record
    BY ProposalTyped, RecordOfKey, ClockAssumption, KindsDiffer DEF Shape, LedgerOK, PRec
  <1>2. [record EXCEPT ![PKey(c)] = Absent] \in [Key -> Record]
    BY AbsentIsRecord DEF Shape, LedgerOK
  <1>3. CASE Claim(c)
    <2>1. MapsOK' /\ retains' \in [Proc -> SUBSET Key]
      <3>1. CASE UNCHANGED <<entries, holds, retains>>
        BY <3>1 DEF Shape, LedgerOK, LocalsOK, MapsOK
      <3> QED  BY <1>3, <3>1, EvictTyped DEF Claim
    <2>2. LedgerOK' /\ QueueOK' /\ LocalsOK'
      BY <1>1, <1>2, <1>3, <2>1, PlacesOfCalls
      DEF Claim, Goto, Shape, LedgerOK, QueueOK, pendingVars, LocalsOK
    <2> QED  BY <1>3, <2>2, ShapeParts DEF Claim, Shape
  <1>4. CASE JudgePreview(c)
    <2>1. PICK label \in {"served", "reserve", "expiring"} : Goto(c, label)
      BY <1>4 DEF JudgePreview, ReplayRecord
    <2>2. MapsOK' /\ retains' \in [Proc -> SUBSET Key]
      <3>1. CASE UNCHANGED <<entries, holds, retains>>
        BY <3>1 DEF Shape, LedgerOK, LocalsOK, MapsOK
      <3>2. CASE ReplayRecord(c) /\ UNCHANGED <<holds, retains>>
        BY <1>1, <3>2, MapTyped DEF ReplayRecord, Shape, LedgerOK, MapsOK, LocalsOK
      <3> QED  BY <1>4, <3>1, <3>2, EvictTyped DEF JudgePreview
    <2>3. record' \in [Key -> Record] /\ lease' \in [Key -> Call \cup {NoCall}]
      BY <1>2, <1>4 DEF JudgePreview, ReleaseLease, Shape, LedgerOK
    <2>4. QueueOK'
      BY <1>1, <1>4 DEF JudgePreview, DropLocal, Shape, QueueOK
    <2>5. /\ seen' \in [Action -> Action \cup {NoCall}]
          /\ began' \in [Action \cup Confirmation -> 0 .. MaxTime]
      BY <1>1, <1>4 DEF JudgePreview, DoneSeen, DoneBegan, Shape, LocalsOK
    <2>6. LedgerOK' /\ LocalsOK'
      BY <1>1, <1>4, <2>1, <2>2, <2>3, <2>5, PlacesOfCalls
      DEF JudgePreview, Goto, Shape, LedgerOK, LocalsOK
    <2> QED  BY <1>4, <2>4, <2>6, ShapeParts DEF JudgePreview, Shape
  <1>5. CASE ExpirePreview(c)
    <2>1. MapsOK' /\ retains' \in [Proc -> SUBSET Key]
      BY <1>5, EvictTyped DEF ExpirePreview
    <2>2. QueueOK'
      BY <1>1, <1>5, QueueOps DEF ExpirePreview, Shape
    <2>3. LedgerOK' /\ LocalsOK'
      BY <1>1, <1>2, <1>5, <2>1, PlacesOfCalls
      DEF ExpirePreview, DoneSeen, Goto, Shape, LedgerOK, LocalsOK
    <2> QED  BY <1>5, <2>2, <2>3, ShapeParts DEF ExpirePreview, Shape
  <1> QED  BY <1>3, <1>4, <1>5

\* What a process retains after a sweep, with a key more or less, are keys.
LEMMA RetainsTyped ==
  ASSUME Shape, NEW c \in Action, NEW kept,
         \/ retains' = [retains EXCEPT ![PProc(c)] =
                          {j \in @ : SweptEntries(PProc(c), kept)[j] # Absent} \cup {PKey(c)}]
         \/ retains' = [retains EXCEPT ![PProc(c)] =
                          {j \in @ : SweptEntries(PProc(c), kept)[j] # Absent}],
         Keyed(c)
  PROVE  retains' \in [Proc -> SUBSET Key]
  BY ProposalTyped DEF Shape, LocalsOK

\* Reserving the key, staging the action, and the preview as its result.
LEMMA StagingTyped ==
  ASSUME Shape, Roles, NEW c \in Action,
         \/ Reserve(c) \/ StageAction(c) \/ StageRefused(c) \/ StageUnkeyed(c)
         \/ RecordPreview(c) \/ PreviewOverflows(c)
  PROVE  Shape'
  <1>1. /\ PProc(c) \in Proc /\ PArgs(c) \in Args /\ c \in Call /\ now \in Nat
        /\ 0 \in 0 .. MaxTime /\ began[c] \in Nat
    BY ProposalTyped, ClockAssumption, KindsDiffer DEF Shape, LedgerOK, LocalsOK
  <1>2. [record EXCEPT ![PKey(c)] = Absent] \in [Key -> Record]
    BY AbsentIsRecord DEF Shape, LedgerOK
  <1>3. CASE Reserve(c)
    <2>1. [record EXCEPT ![PKey(c)] = Reservation(PArgs(c), began[c])] \in [Key -> Record]
      BY <1>1, ReservationIsRecord DEF Shape, LedgerOK
    <2>2. LedgerOK' /\ QueueOK' /\ LocalsOK'
      BY <1>1, <1>3, <2>1, PlacesOfCalls
      DEF Reserve, ReleaseLease, DoneBegan, Goto, Shape, LedgerOK, MapsOK, QueueOK,
          pendingVars, LocalsOK
    <2> QED  BY <1>3, <2>2, ShapeParts DEF Reserve, Shape
  <1>4. CASE StageAction(c)
    <2>1. QueueOK'
      BY <1>1, <1>4, QueueOps DEF StageAction, Shape
    <2>2. LedgerOK' /\ LocalsOK'
      BY <1>1, <1>4, PlacesOfCalls
      DEF StageAction, Goto, Shape, storeVars, LedgerOK, MapsOK, LocalsOK
    <2> QED  BY <1>4, <2>1, <2>2, ShapeParts DEF StageAction, Shape
  <1>5. CASE StageRefused(c)
    <2>1. LedgerOK' /\ QueueOK' /\ LocalsOK'
      BY <1>1, <1>2, <1>5, PlacesOfCalls
      DEF StageRefused, ReleaseLease, Goto, Shape, LedgerOK, MapsOK, QueueOK,
          pendingVars, LocalsOK
    <2> QED  BY <1>5, <2>1, ShapeParts DEF StageRefused, Shape
  <1>6. CASE StageUnkeyed(c)
    <2>1. QueueOK'
      <3>1. CASE UNCHANGED pendingVars
        BY <3>1 DEF pendingVars, Shape, QueueOK
      <3> QED  BY <1>1, <1>6, <3>1, QueueOps DEF StageUnkeyed, Shape
    <2>2. LedgerOK' /\ LocalsOK'
      BY <1>1, <1>6, PlacesOfCalls
      DEF StageUnkeyed, Goto, Shape, storeVars, LedgerOK, MapsOK, LocalsOK
    <2> QED  BY <1>6, <2>1, <2>2, ShapeParts DEF StageUnkeyed, Shape
  <1>7. CASE RecordPreview(c)
    <2> DEFINE rec == Completed(PArgs(c), Preview(c))
    <2>1. rec \in Record
      BY OutcomeIsRecord DEF Shape
    <2>2. MapsOK'
      BY <1>1, <1>7, <2>1, RememberTyped DEF RecordPreview, Shape, LedgerOK
    <2>3. record' \in [Key -> Record]
      BY <1>2, <1>7, <2>1 DEF RecordPreview, Shape, LedgerOK
    <2>4. retains' \in [Proc -> SUBSET Key]
      BY <1>7, RetainsTyped DEF RecordPreview, Roles, LedgerPlaces
    <2>5. LedgerOK' /\ QueueOK' /\ LocalsOK'
      BY <1>1, <1>7, <2>2, <2>3, <2>4, PlacesOfCalls
      DEF RecordPreview, ReleaseLease, Goto, Shape, LedgerOK, QueueOK, pendingVars, LocalsOK
    <2> QED  BY <1>7, <2>5, ShapeParts DEF RecordPreview, Shape
  <1>8. CASE PreviewOverflows(c)
    <2>1. MapsOK'
      BY <1>1, <1>8, CleanupTyped DEF PreviewOverflows, Shape, LedgerOK
    <2>2. retains' \in [Proc -> SUBSET Key]
      BY <1>8, RetainsTyped DEF PreviewOverflows, Roles, LedgerPlaces
    <2>3. LedgerOK' /\ QueueOK' /\ LocalsOK'
      BY <1>1, <1>2, <1>8, <2>1, <2>2, PlacesOfCalls
      DEF PreviewOverflows, ReleaseLease, Goto, Shape, LedgerOK, QueueOK, pendingVars, LocalsOK
    <2> QED  BY <1>8, <2>3, ShapeParts DEF PreviewOverflows, Shape
  <1> QED  BY <1>3, <1>4, <1>5, <1>6, <1>7, <1>8

-----------------------------------------------------------------------------
(* The steps of a confirmation *)

\* A step of the queue that moves one request on keeps the shape.
LEMMA QueueStepTyped ==
  ASSUME Shape, NEW c \in Call, NEW label \in Places, Goto(c, label), QueueOK',
         ran' \in [Confirmation -> BOOLEAN],
         UNCHANGED <<storeVars, proposal, request, seen, began, retains, refreshed, owed>>
  PROVE  Shape'
  <1>1. LedgerOK' /\ LocalsOK'
    BY DEF Goto, Shape, storeVars, LedgerOK, MapsOK, LocalsOK
  <1> QED  BY <1>1, ShapeParts DEF Shape

\* From the lookup of an action to the publication of the claim.
LEMMA ApproveTyped ==
  ASSUME Shape, NEW f \in Confirmation,
         \/ Find(f) \/ FindOverdue(f) \/ WrongSecret(f) \/ CountFails(f) \/ SameApprover(f)
         \/ PolicyDenies(f) \/ TooLate(f) \/ TakeAction(f) \/ PublishClaim(f) \/ GiveUpAction(f)
  PROVE  Shape'
  <1>1. /\ FProc(f) \in Proc /\ Target(f) \in Action /\ f \in Call /\ now \in Nat
        /\ ran \in [Confirmation -> BOOLEAN]
    BY RequestTyped, ClockAssumption, KindsDiffer DEF Shape, LedgerOK, LocalsOK
  <1>2. UNCHANGED pendingVars => QueueOK'
    BY DEF pendingVars, Shape, QueueOK
  <1>3. CASE Find(f)
    <2>1. QueueOK'
      BY <1>1, <1>3 DEF Find, DropLocal, Shape, QueueOK
    <2>2. PICK label \in Places : Goto(f, label)
      BY <1>3, PlacesOfCalls DEF Find
    <2> QED  BY <1>1, <1>3, <2>1, <2>2, QueueStepTyped DEF Find
  <1>4. CASE FindOverdue(f)
    BY <1>1, <1>4, QueueOps, QueueStepTyped, PlacesOfCalls DEF FindOverdue, Shape
  <1>5. CASE WrongSecret(f)
    BY <1>1, <1>5, QueueOps, QueueStepTyped, PlacesOfCalls DEF WrongSecret, AtAction, Shape
  <1>6. CASE CountFails(f) \/ SameApprover(f)
    BY <1>1, <1>2, <1>6, QueueStepTyped, PlacesOfCalls DEF CountFails, SameApprover, AtAction
  <1>7. CASE PolicyDenies(f) \/ TooLate(f)
    BY <1>1, <1>7, QueueOps, QueueStepTyped, PlacesOfCalls
    DEF PolicyDenies, TooLate, AtAction, Shape
  <1>8. CASE TakeAction(f)
    BY <1>1, <1>8, QueueOps, QueueStepTyped, PlacesOfCalls DEF TakeAction, AtAction, Shape
  <1>9. CASE PublishClaim(f)
    <2>1. QueueOK' /\ ran' \in [Confirmation -> BOOLEAN]
      BY <1>1, <1>9, QueueOps DEF PublishClaim, Shape
    <2>2. PICK label \in Places : Goto(f, label)
      BY <1>9, PlacesOfCalls DEF PublishClaim
    <2> QED  BY <1>1, <1>9, <2>1, <2>2, QueueStepTyped DEF PublishClaim
  <1>10. CASE GiveUpAction(f)
    BY <1>1, <1>2, <1>10, QueueStepTyped, PlacesOfCalls DEF GiveUpAction
  <1> QED  BY <1>3, <1>4, <1>5, <1>6, <1>7, <1>8, <1>9, <1>10

\* The request itself touches no file.
LEMMA ExecuteTyped ==
  ASSUME Shape, NEW f \in Confirmation,
         \/ Dispatch(f) \/ Unauthorized(f) \/ Answered(f) \/ NothingSent(f) \/ AnswerLost(f)
         \/ SkipLedger(f)
  PROVE  Shape'
  <1>1. PICK from \in SUBSET Places, to \in Places : InExecution(f, from, to)
    BY PlacesOfCalls DEF Dispatch, Unauthorized, Answered, NothingSent, AnswerLost, SkipLedger
  <1>2. owed' \in [Key -> SUBSET Action]
    <2>1. owed \in [Key -> SUBSET Action] /\ Target(f) \in Action
      BY RequestTyped DEF Shape, LocalsOK
    <2>2. Keyed(Target(f)) => owed[FKey(f)] \in SUBSET Action
      BY <2>1, RequestTyped DEF Shape
    <2> QED  BY <2>1, <2>2 DEF Dispatch, Unauthorized, Answered, NothingSent, AnswerLost,
                              SkipLedger, SetOwed
  <1>3. f \in Call /\ refreshed' \in [Confirmation -> BOOLEAN]
    <2>1. refreshed \in [Confirmation -> BOOLEAN]
      BY DEF Shape, LocalsOK
    <2>2. PICK b \in BOOLEAN : refreshed' = [refreshed EXCEPT ![f] = b]
      <3>1. CASE to = "queued"
        BY <1>1, <3>1, Zenon DEF InExecution
      <3>2. CASE to = "sent"
        <4>1. refreshed' = [refreshed EXCEPT ![f] = refreshed[f]]
          BY <1>1, <3>2, "sent" # "queued", Zenon DEF InExecution
        <4> QED  BY <2>1, <4>1
      <3>3. CASE to # "queued" /\ to # "sent"
        BY <1>1, <3>3, Zenon DEF InExecution
      <3> QED  BY <3>1, <3>2, <3>3
    <2>3. refreshed' \in [Confirmation -> BOOLEAN]
      BY <2>1, <2>2
    <2> QED  BY <2>3, KindsDiffer
  <1>4. LedgerOK' /\ QueueOK' /\ LocalsOK'
    BY <1>1, <1>2, <1>3
    DEF InExecution, Goto, Shape, storeVars, pendingVars, LedgerOK, MapsOK, QueueOK, LocalsOK
  <1> QED  BY <1>1, <1>4, ShapeParts DEF InExecution, Shape

\* What is recorded of it, and the end of the claim.
LEMMA SettleTyped ==
  ASSUME Shape, Roles, NEW f \in Confirmation,
         RememberResult(f) \/ StoreResult(f) \/ StoreHold(f) \/ StoreFails(f) \/ Complete(f)
  PROVE  Shape'
  <1>1. /\ FProc(f) \in Proc /\ Target(f) \in Action /\ f \in Call /\ now \in 0 .. MaxTime
        /\ 0 \in 0 .. MaxTime /\ now \in Nat /\ began[f] \in Nat /\ PArgs(Target(f)) \in Args
    BY RequestTyped, ProposalTyped, ClockAssumption, KindsDiffer DEF Shape, LedgerOK, LocalsOK
  <1>2. UNCHANGED pendingVars => QueueOK'
    BY DEF pendingVars, Shape, QueueOK
  <1>3. AbandonClaim(f) => QueueOK' /\ pc' \in [Call -> Places]
    BY <1>1, QueueOps, PlacesOfCalls DEF AbandonClaim, Goto, Shape, LocalsOK
  <1>4. CASE RememberResult(f)
    <2> DEFINE p == FProc(f)  k == FKey(f)  a == Target(f)
    <2>1. Completed(PArgs(a), Result(a)) \in Record /\ k \in Key
      BY <1>1, <1>4, OutcomeIsRecord, RequestTyped DEF RememberResult, Shape
    <2>2. CASE HasRoom(p, k, Kept(p))
      <3>1. MapsOK'
        BY <1>1, <1>4, <2>1, <2>2, RememberTyped DEF RememberResult, Shape, LedgerOK
      <3>2. retains' \in [Proc -> SUBSET Key]
        BY <1>1, <1>4, <2>2 DEF RememberResult, Shape, LocalsOK
      <3>3. pc' \in [Call -> Places] /\ began' \in [Action \cup Confirmation -> 0 .. MaxTime]
        BY <1>1, <1>4, <2>2, PlacesOfCalls DEF RememberResult, Goto, Shape, LocalsOK
      <3>4. QueueOK'
        BY <1>2, <1>4, <2>2 DEF RememberResult
      <3>5. LedgerOK' /\ LocalsOK'
        BY <1>4, <3>1, <3>2, <3>3 DEF RememberResult, Shape, LedgerOK, LocalsOK
      <3> QED  BY <1>4, <3>4, <3>5, ShapeParts DEF RememberResult, Shape
    <2>3. CASE ~HasRoom(p, k, Kept(p))
      <3>1. MapsOK'
        BY <1>1, <1>4, <2>3, CleanupTyped DEF RememberResult, Shape, LedgerOK
      <3>2. retains' \in [Proc -> SUBSET Key]
        BY <1>1, <1>4, <2>3 DEF RememberResult, Shape, LocalsOK
      <3>3. pc' \in [Call -> Places] /\ QueueOK' /\ UNCHANGED began
        BY <1>3, <1>4, <2>3 DEF RememberResult
      <3>4. LedgerOK' /\ LocalsOK'
        BY <1>4, <3>1, <3>2, <3>3 DEF RememberResult, Shape, LedgerOK, LocalsOK
      <3> QED  BY <1>4, <3>3, <3>4, ShapeParts DEF RememberResult, Shape
    <2> QED  BY <2>2, <2>3
  <1>5. CASE StoreResult(f)
    <2> DEFINE rec == [Completed(PArgs(Target(f)), Result(Target(f))) EXCEPT !.expiresAt = began[f] + Ttl]
    <2>1. rec \in Record
      <3>1. Completed(PArgs(Target(f)), Result(Target(f))) \in Record
        BY <1>1, OutcomeIsRecord DEF Shape
      <3>2. began[f] + Ttl \in Nat
        BY <1>1, LedgerAssumption
      <3> QED  BY <3>1, <3>2 DEF Record
    <2>2. record' \in [Key -> Record]
      BY <1>5, <2>1 DEF StoreResult, Shape, LedgerOK
    <2>3. LedgerOK' /\ QueueOK' /\ LocalsOK'
      BY <1>1, <1>5, <2>2, PlacesOfCalls
      DEF StoreResult, DoneBegan, Goto, Shape, LedgerOK, MapsOK, QueueOK, pendingVars, LocalsOK
    <2> QED  BY <1>5, <2>3, ShapeParts DEF StoreResult, Shape
  <1>6. CASE StoreHold(f)
    <2> DEFINE a == Target(f)
               k == FKey(f)
               base == IF record[k] = Absent THEN Reservation(PArgs(a), now) ELSE record[k]
               rec == Held(base, "transport_failure_after_dispatch")
    <2>1. k \in Key
      BY <1>1, <1>6, RequestTyped DEF StoreHold, Shape
    <2>2. base \in Record
      BY <1>1, <2>1, ReservationIsRecord, RecordOfKey
    <2>3. rec \in Record
      <3>1. "transport_failure_after_dispatch" \in Reasons
        BY DEF Reasons
      <3> QED  BY <2>2, <3>1, HeldIsRecord
    <2>4. CASE ~Conflicts(k, PArgs(a))
      <3>1. MapsOK' /\ record' \in [Key -> Record]
        BY <1>1, <1>6, <2>3, <2>4, RememberHoldTyped DEF StoreHold, Shape, LedgerOK
      <3>2. retains' \in [Proc -> SUBSET Key] /\ pc' \in [Call -> Places]
        BY <1>1, <1>6, <2>4, PlacesOfCalls DEF StoreHold, Goto, Shape, LocalsOK
      <3>3. QueueOK'
        BY <1>2, <1>6, <2>4 DEF StoreHold
      <3>4. LedgerOK' /\ LocalsOK'
        BY <1>6, <3>1, <3>2 DEF StoreHold, Shape, LedgerOK, LocalsOK
      <3> QED  BY <1>6, <3>3, <3>4, ShapeParts DEF StoreHold, Shape
    <2>5. CASE Conflicts(k, PArgs(a))
      <3>1. pc' \in [Call -> Places] /\ QueueOK' /\ UNCHANGED <<record, entries, holds, retains>>
        BY <1>3, <1>6, <2>5 DEF StoreHold
      <3>2. LedgerOK' /\ LocalsOK'
        BY <1>6, <3>1 DEF StoreHold, Shape, LedgerOK, MapsOK, LocalsOK
      <3> QED  BY <1>6, <3>1, <3>2, ShapeParts DEF StoreHold, Shape
    <2> QED  BY <2>4, <2>5
  <1>7. CASE StoreFails(f)
    <2>1. LedgerOK' /\ LocalsOK'
      BY <1>1, <1>3, <1>7
      DEF StoreFails, DoneBegan, Shape, LedgerOK, MapsOK, storeVars, LocalsOK
    <2> QED  BY <1>3, <1>7, <2>1, ShapeParts DEF StoreFails, Shape
  <1>8. CASE Complete(f)
    <2>1. QueueOK'
      BY <1>1, <1>2, <1>8, QueueOps DEF Complete, Shape
    <2>2. PICK label \in Places : Goto(f, label)
      BY <1>8, PlacesOfCalls DEF Complete
    <2>3. ran' \in [Confirmation -> BOOLEAN]
      BY <1>8 DEF Complete, Shape, LocalsOK
    <2> QED  BY <1>1, <1>8, <2>1, <2>2, <2>3, QueueStepTyped DEF Complete
  <1> QED  BY <1>4, <1>5, <1>6, <1>7, <1>8

-----------------------------------------------------------------------------
(* Cancellations, listings, operators, crashes and the clock *)

\* What requests of no proposal or confirmation do to the queue.
LEMMA CancelTyped ==
  ASSUME Shape,
         \/ \E x \in Cancellation : Cancel(x)
         \/ \E p \in Proc, a \in Action : List(p, a)
  PROVE  Shape'
  <1>1. now \in Nat /\ ran \in [Confirmation -> BOOLEAN]
    BY ClockAssumption DEF Shape, LedgerOK, LocalsOK
  <1>2. ASSUME NEW x \in Cancellation, Cancel(x) PROVE Shape'
    <2>1. x \in Call /\ FProc(x) \in Proc /\ Target(x) \in Action
      BY RequestTyped, KindsDiffer DEF Shape
    <2>2. QueueOK'
      BY <1>1, <1>2, <2>1, QueueOps DEF Cancel, Shape
    <2>3. PICK label \in Places : Goto(x, label)
      BY <1>2, PlacesOfCalls DEF Cancel
    <2> QED  BY <1>1, <1>2, <2>1, <2>2, <2>3, QueueStepTyped DEF Cancel
  <1>3. ASSUME NEW p \in Proc, NEW a \in Action, List(p, a) PROVE Shape'
    <2>1. QueueOK'
      BY <1>1, <1>3, QueueOps DEF List, Shape
    <2>2. LedgerOK' /\ LocalsOK'
      BY <1>3 DEF List, storeVars, flowVars, Shape, LedgerOK, MapsOK, LocalsOK
    <2> QED  BY <1>3, <2>1, <2>2, ShapeParts DEF List, flowVars, Shape
  <1> QED  BY <1>2, <1>3

\* A crash empties the maps of one process and frees what it leased.
LEMMA CrashTyped ==
  ASSUME Shape, NEW p \in Proc, Crash(p)
  PROVE  Shape'
  <1>1. LedgerOK'
    BY AbsentIsRecord DEF Crash, Shape, LedgerOK, MapsOK
  <1>2. QueueOK'
    BY DEF Crash, PendingCrash, Shape, QueueOK
  <1>3. pc' \in [Call -> Places] /\ seen' \in [Action -> Action \cup {NoCall}]
    BY PlacesOfCalls DEF Crash, Shape, LocalsOK
  <1>4. /\ began' \in [Action \cup Confirmation -> 0 .. MaxTime]
        /\ retains' \in [Proc -> SUBSET Key]
    BY ClockAssumption DEF Crash, Shape, LocalsOK
  <1>5. refreshed' \in [Confirmation -> BOOLEAN]
    BY DEF Crash, Shape, LocalsOK
  <1>6. LocalsOK'
    BY <1>3, <1>4, <1>5 DEF Crash, Shape, LocalsOK
  <1> QED  BY <1>1, <1>2, <1>6, ShapeParts DEF Crash, Shape

\* An operator lifts a hold, and the clock advances.
LEMMA OperatorTyped ==
  ASSUME Shape, Clock \/ \E p \in Proc, k \in Key : Operator(p, k)
  PROVE  Shape'
  <1>1. ASSUME NEW p \in Proc, NEW k \in Key, Operator(p, k) PROVE Shape'
    <2>1. LedgerOK'
      <3>1. MapsOK' /\ record' \in [Key -> Record]
        BY <1>1, AbsentIsRecord DEF Operator, ReleaseHold, Shape, LedgerOK, MapsOK
      <3> QED  BY <1>1, <3>1 DEF Operator, ReleaseHold, Shape, LedgerOK
    <2>2. QueueOK' /\ LocalsOK'
      BY <1>1 DEF Operator, pendingVars, Shape, QueueOK, LocalsOK
    <2> QED  BY <1>1, <2>1, <2>2, ShapeParts DEF Operator, Shape
  <1>2. ASSUME Clock PROVE Shape'
    BY <1>2, ClockAssumption
    DEF Clock, Advance, pendingVars, flowVars, Shape, LedgerOK, MapsOK, QueueOK, Requests, LocalsOK
  <1> QED  BY <1>1, <1>2

-----------------------------------------------------------------------------
(* All steps *)

\* A step of one call that keeps to the places its kind may be in.
LEMMA RolesMove ==
  ASSUME Shape, Roles, Requests', UNCHANGED <<proposal, request>>, NEW c \in Call, NEW label,
         Goto(c, label),
         c \in Action => /\ label \in LedgerPlaces => Keyed(c)
                         /\ label \in {"checking", "sweeping", "judging", "expiring"}
                              => seen'[c] \in Action,
         \A a \in Action \ {c} : seen'[a] = seen[a],
         c \in Confirmation /\ label = "storing" => Keyed(Target(c))
  PROVE  Roles'
  <1>1. \A d \in Call : pc'[d] = IF d = c THEN label ELSE pc[d]
    BY DEF Goto, Shape, LocalsOK
  <1>2. \A a \in Action : Keyed(a)' = Keyed(a)
    BY DEF Keyed
  <1>3. \A f \in Confirmation : Keyed(Target(f))' = Keyed(Target(f))
    BY DEF Keyed, Target
  <1> QED  BY <1>1, <1>2, <1>3, KindsDiffer DEF Roles

\* A proposal enters the ledger with a key, and looks at what it found.
LEMMA ProposalRoles ==
  ASSUME Shape, Shape', Roles, NEW c \in Action,
         Lookup(c) \/ StageUnkeyed(c) \/ ProposalStep(c)
  PROVE  Roles'
  <1>1. UNCHANGED <<proposal, request>> /\ c \in Call /\ c \notin Confirmation
    BY KindsDiffer
    DEF Lookup, StageUnkeyed, ProposalStep, CheckPreview, SweepPreview, Refuse, ReplayResult,
        Claim, OpenPreview, JudgePreview, ExpirePreview, ExpiryUncertain, GiveUpLock, Reserve,
        StageAction, StageRefused, RecordPreview, PreviewOverflows
  <1>2. seen \in [Action -> Action \cup {NoCall}]
    BY DEF Shape, LocalsOK
  <1> DEFINE Looking == {"checking", "sweeping", "judging", "expiring"}
             Moves(label) ==
               /\ Goto(c, label)
               /\ label \in LedgerPlaces => Keyed(c)
               /\ label \in Looking => seen'[c] \in Action
               /\ \A a \in Action \ {c} : seen'[a] = seen[a]
  <1>3. \E label : Moves(label)
    <2>1. CASE Lookup(c)
      <3> DEFINE e == SweptEntries(PProc(c), Kept(PProc(c)))[PKey(c)]
      <3>1. CASE UNCHANGED seen /\ (Goto(c, "lock") \/ Goto(c, "conflict") \/ Goto(c, "served"))
        BY <2>1, <3>1 DEF Lookup, LedgerPlaces
      <3>2. CASE ShowsPreview(e) /\ Goto(c, "checking") /\ seen' = [seen EXCEPT ![c] = e.result.of]
        <4>1. e.result.of \in Action
          BY <3>2, PreviewNamesAction
        <4>2. seen'[c] \in Action /\ \A a \in Action \ {c} : seen'[a] = seen[a]
          BY <1>2, <3>2, <4>1
        <4>3. Moves("checking")
          BY <2>1, <3>2, <4>2 DEF Lookup
        <4> QED  BY <4>3
      <3> QED  BY <2>1, <3>1, <3>2 DEF Lookup
    <2>2. CASE CheckPreview(c) \/ SweepPreview(c)
      <3>1. Keyed(c) /\ seen[c] \in Action
        BY <2>2 DEF CheckPreview, SweepPreview, Roles, LedgerPlaces
      <3>2. CASE DoneSeen(c) /\ (Goto(c, "served") \/ Goto(c, "lock"))
        BY <1>2, <3>1, <3>2 DEF DoneSeen
      <3>3. CASE UNCHANGED seen /\ Goto(c, "sweeping")
        BY <3>1, <3>3
      <3> QED  BY <2>2, <3>2, <3>3 DEF CheckPreview, SweepPreview
    <2>3. CASE Refuse(c) \/ ReplayResult(c) \/ GiveUpLock(c) \/ ExpiryUncertain(c)
      <3>1. \A a \in Action \ {c} : seen'[a] = seen[a]
        BY <1>2, <2>3 DEF Refuse, ReplayResult, GiveUpLock, ExpiryUncertain, DoneSeen
      <3>2. PICK label \in {"conflict", "unfinished", "held", "served", "timeout"} : Goto(c, label)
        BY <2>3 DEF Refuse, ReplayResult, ReplayRecord, GiveUpLock, ExpiryUncertain
      <3> QED  BY <3>1, <3>2 DEF LedgerPlaces
    <2>4. CASE Claim(c)
      <3>1. Keyed(c)
        BY <2>4 DEF Claim, TakesLease, Roles, LedgerPlaces
      <3> QED  BY <2>4, <3>1 DEF Claim
    <2>5. CASE OpenPreview(c)
      <3>1. Keyed(c) /\ PRec(c).result.of \in Action
        BY <2>5, PreviewNamesAction DEF OpenPreview, TakesLease, Roles, LedgerPlaces
      <3>2. seen'[c] \in Action /\ \A a \in Action \ {c} : seen'[a] = seen[a]
        BY <1>2, <2>5, <3>1 DEF OpenPreview
      <3> QED  BY <2>5, <3>1, <3>2 DEF OpenPreview
    <2>6. CASE JudgePreview(c) \/ ExpirePreview(c)
      <3>1. Keyed(c) /\ seen[c] \in Action
        BY <2>6 DEF JudgePreview, ExpirePreview, Roles, LedgerPlaces
      <3>2. CASE DoneSeen(c) /\ (Goto(c, "served") \/ Goto(c, "reserve"))
        BY <1>2, <3>1, <3>2 DEF DoneSeen
      <3>3. CASE UNCHANGED seen /\ Goto(c, "expiring")
        BY <3>1, <3>3
      <3> QED  BY <2>6, <3>2, <3>3 DEF JudgePreview, ExpirePreview, ReplayRecord
    <2>7. CASE Reserve(c) \/ StageAction(c) \/ StageRefused(c) \/ RecordPreview(c) \/ PreviewOverflows(c)
      <3>1. Keyed(c)
        BY <2>7 DEF Reserve, StageAction, StageRefused, RecordPreview, PreviewOverflows,
                    Roles, LedgerPlaces
      <3>2. UNCHANGED seen
        BY <2>7 DEF Reserve, StageAction, StageRefused, RecordPreview, PreviewOverflows
      <3>3. PICK label \in {"staging", "staged", "io_error", "limit", "served"} : Goto(c, label)
        BY <2>7 DEF Reserve, StageAction, StageRefused, RecordPreview, PreviewOverflows
      <3> QED  BY <3>1, <3>2, <3>3
    <2>8. CASE StageUnkeyed(c)
      <3>1. PICK label \in {"served", "io_error", "limit"} : Goto(c, label)
        BY <2>8 DEF StageUnkeyed
      <3> QED  BY <2>8, <3>1 DEF StageUnkeyed, LedgerPlaces
    <2> QED  BY <2>1, <2>2, <2>3, <2>4, <2>5, <2>6, <2>7, <2>8 DEF ProposalStep
  <1>4. PICK label : Moves(label)
    BY <1>3
  <1> HIDE DEF Moves
  <1>5. Goto(c, label) /\ (label \in LedgerPlaces => Keyed(c)) /\ (label \in Looking => seen'[c] \in Action)
        /\ \A a \in Action \ {c} : seen'[a] = seen[a]
    BY <1>4 DEF Moves
  <1> QED  BY <1>1, <1>5, RolesMove DEF Shape

\* A confirmation that is recorded in two steps has a key.
LEMMA ConfirmationRoles ==
  ASSUME Shape, Shape', Roles, NEW f \in Confirmation, Find(f) \/ ConfirmationStep(f)
  PROVE  Roles'
  <1>1. /\ UNCHANGED <<proposal, request, seen>> /\ f \in Call /\ f \notin Action
    BY KindsDiffer
    DEF Find, ConfirmationStep, FindOverdue, WrongSecret, CountFails, SameApprover, PolicyDenies,
        TooLate, TakeAction, PublishClaim, GiveUpAction, Dispatch, Unauthorized, Answered,
        NothingSent, AnswerLost, RememberResult, StoreResult, StoreHold, StoreFails, SkipLedger,
        Complete, AtAction, InExecution
  <1>2. \E label : Goto(f, label) /\ (label = "storing" => Keyed(Target(f)))
    <2>1. CASE RememberResult(f)
      BY <2>1 DEF RememberResult, AbandonClaim
    <2>2. CASE ~RememberResult(f)
      <3>1. PICK label : Goto(f, label) /\ label # "storing"
        BY <2>2
        DEF Find, ConfirmationStep, FindOverdue, WrongSecret, CountFails, SameApprover,
            PolicyDenies, TooLate, TakeAction, PublishClaim, GiveUpAction, Dispatch, Unauthorized,
            Answered, NothingSent, AnswerLost, StoreResult, StoreHold, StoreFails, SkipLedger,
            Complete, InExecution, AbandonClaim
      <3> QED  BY <3>1
    <2> QED  BY <2>1, <2>2
  <1> QED  BY <1>1, <1>2, RolesMove DEF Shape

\* What is true of every variable by its shape, and of every request by its
\* kind, is so in every reachable state.
LEMMA ShapeStep == Shape /\ Roles /\ [Next]_vars => Shape' /\ Roles'
  <1> SUFFICES ASSUME Shape, Roles, [Next]_vars PROVE Shape' /\ Roles'
    OBVIOUS
  <1>1. CASE UNCHANGED vars
    BY <1>1 DEF vars, storeVars, pendingVars, flowVars, Shape, LedgerOK, MapsOK, QueueOK, Requests,
                LocalsOK, Roles, Keyed, Target
  <1>2. ASSUME NEW a \in Action, Lookup(a) \/ StageUnkeyed(a) \/ ProposalStep(a)
        PROVE  Shape' /\ Roles'
    <2>1. Shape'
      BY <1>2, LookupTyped, DecideTyped, TakeOverTyped, StagingTyped DEF ProposalStep
    <2> QED  BY <1>2, <2>1, ProposalRoles
  <1>3. ASSUME NEW f \in Confirmation, Find(f) \/ ConfirmationStep(f)
        PROVE  Shape' /\ Roles'
    <2>1. Shape'
      BY <1>3, ApproveTyped, ExecuteTyped, SettleTyped DEF ConfirmationStep
    <2> QED  BY <1>3, <2>1, ConfirmationRoles
  <1>4. ASSUME NEW x \in Cancellation, Cancel(x) PROVE Shape' /\ Roles'
    <2>1. Shape'
      BY <1>4, CancelTyped
    <2>2. PICK label : Goto(x, label) /\ label # "storing"
      BY <1>4 DEF Cancel
    <2> QED  BY <1>4, <2>1, <2>2, RolesMove, KindsDiffer DEF Cancel, Shape
  <1>5. CASE Clock \/ (\E p \in Proc, k \in Key : Operator(p, k))
               \/ (\E p \in Proc, a \in Action : List(p, a))
    <2>1. Shape'
      BY <1>5, CancelTyped, OperatorTyped
    <2> QED  BY <1>5, <2>1 DEF Clock, Operator, List, flowVars, Roles, Keyed, Target
  <1>6. ASSUME NEW p \in Proc, Crash(p) PROVE Shape' /\ Roles'
    <2>1. Shape'
      BY <1>6, CrashTyped
    <2>2. \A c \in Call : pc'[c] = pc[c] \/ pc'[c] = "dead"
      BY <1>6 DEF Crash
    <2>3. \A a \in Action : pc'[a] # "dead" => seen'[a] = seen[a]
      BY <1>6, KindsDiffer DEF Crash, Over
    <2> QED  BY <1>6, <2>1, <2>2, <2>3, KindsDiffer DEF Crash, Roles, LedgerPlaces, Keyed, Target
  <1> QED  BY <1>1, <1>2, <1>3, <1>4, <1>5, <1>6 DEF Next

\* The initial state has every variable in its type.
LEMMA ShapeInit == Init => Shape /\ Roles
  <1> SUFFICES ASSUME Init PROVE Shape /\ Roles
    OBVIOUS
  <1>1. "idle" \in Places /\ 0 \in 0 .. MaxTime
    BY PlacesOfCalls, ClockAssumption
  <1>2. LedgerOK
    BY <1>1, AbsentIsRecord DEF Init, StoreInit, ClockInit, LedgerOK, MapsOK
  <1>3. QueueOK /\ Requests
    BY DEF Init, PendingInit, QueueOK, Requests
  <1>4. LocalsOK
    BY <1>1 DEF Init, LocalsOK
  <1>5. Roles
    BY KindsDiffer DEF Init, Roles, LedgerPlaces
  <1> QED  BY <1>2, <1>3, <1>4, <1>5 DEF Shape

-----------------------------------------------------------------------------
(* Approvals: the inductive invariant.  The record of an action goes from  *)
(* absent to pending to claimed to absent and never back, one confirmation *)
(* at a time holds its lease, and the one that published the claim is the  *)
(* only one that clears it.  That an action which is not yet staged has    *)
(* left no trace is what keeps it from being staged a second time.         *)

Unstaged == {"idle", "lock", "checking", "sweeping", "judging", "expiring", "reserve", "staging"}

Approving == {"idle", "overdue", "found", "claiming"}

StagingInv ==
    /\ \A a \in Action :
         pc[a] \in Unstaged => durable[a] = "absent" /\ dueAt[a] = 0 /\ failures[a] = 0
    /\ \A f \in Confirmation \cup Cancellation : pc[f] # "idle" => pc[Target(f)] \notin Unstaged

LeaseInv ==
    \A a \in Action : actionLease[a] # NoCall =>
        /\ actionLease[a] \in Confirmation
        /\ pc[actionLease[a]] = "claiming" /\ Target(actionLease[a]) = a

ConfirmInv(f) ==
    /\ pc[f] = "claiming" => actionLease[Target(f)] = f /\ durable[Target(f)] = "pending"
    /\ pc[f] \in Running \cup {"clearing"} => ran[f]
    /\ ran[f] => pc[f] \notin Approving /\ durable[Target(f)] # "pending"

RefusalInv ==
    /\ \A x \in Confirmation \cup Cancellation :
         pc[x] \in {"cancelled", "locked"} => durable[Target(x)] = "absent"
    /\ RefusedNeverRuns

AttemptsInv ==
    \A a \in Action :
        /\ failures[a] <= MaxAttempts
        /\ failures[a] >= MaxAttempts => durable[a] = "absent"

ApprovalInv ==
    /\ StagingInv /\ LeaseInv /\ RefusalInv /\ AttemptsInv
    /\ \A f \in Confirmation : ConfirmInv(f)
    /\ OneExecution /\ RunsUnderClaim

\* What an action is named by does not change.
LEMMA TargetsStay ==
  ASSUME Shape, UNCHANGED <<proposal, request>>
  PROVE  /\ \A f \in Confirmation \cup Cancellation :
              Target(f)' = Target(f) /\ FProc(f)' = FProc(f) /\ Target(f) \in Action
         /\ \A a \in Action : Keyed(a)' = Keyed(a)
  BY RequestTyped DEF Shape, Target, FProc, Keyed

\* A pending or absent record may go, while its lease is free.
Fades ==
    \A a \in Action :
        \/ durable'[a] = durable[a]
        \/ durable'[a] = "absent" /\ durable[a] # "claimed" /\ actionLease[a] = NoCall

\* A request moves on, at most a record that is not claimed goes, and nothing
\* else happens to the queue.
LEMMA FadeKeeps ==
  ASSUME Shape, ApprovalInv, Fades, NEW c \in Call, NEW label, Goto(c, label),
         UNCHANGED <<dueAt, failures, actionLease, inFlight, ran, proposal, request>>,
         c \in Action => (label \in Unstaged => pc[c] \in Unstaged),
         c \in Confirmation \cup Cancellation =>
            /\ pc[Target(c)] \notin Unstaged
            /\ label \notin {"cancelled", "locked"}
            /\ pc[c] # "claiming" /\ label # "claiming"
            /\ label \in Running \cup {"clearing"} => pc[c] \in Running
            /\ label \in Approving => pc[c] \in Approving
  PROVE  ApprovalInv'
  <1>1. \A d \in Call : pc'[d] = IF d = c THEN label ELSE pc[d]
    BY DEF Goto, Shape, LocalsOK
  <1>2. /\ \A f \in Confirmation \cup Cancellation :
             Target(f)' = Target(f) /\ FProc(f)' = FProc(f) /\ Target(f) \in Action
    BY TargetsStay
  <1>3. StagingInv'
    BY <1>1, <1>2, KindsDiffer DEF Fades, ApprovalInv, StagingInv
  <1>4. LeaseInv'
    BY <1>1, <1>2, KindsDiffer DEF ApprovalInv, LeaseInv
  <1>5. ASSUME NEW f \in Confirmation PROVE ConfirmInv(f)'
    BY <1>1, <1>2, NoCallAssumption, KindsDiffer
    DEF Fades, ApprovalInv, ConfirmInv, Running, Approving
  <1>6. RefusalInv'
    BY <1>1, <1>2, KindsDiffer DEF Fades, ApprovalInv, RefusalInv, RefusedNeverRuns
  <1>7. AttemptsInv'
    BY DEF Fades, ApprovalInv, AttemptsInv
  <1>8. OneExecution'
    BY <1>2 DEF ApprovalInv, OneExecution
  <1>9. RunsUnderClaim'
    BY <1>1, <1>2, KindsDiffer DEF Fades, ApprovalInv, RunsUnderClaim, Running
  <1> QED  BY <1>3, <1>4, <1>5, <1>6, <1>7, <1>8, <1>9 DEF ApprovalInv

\* The removals of the queue let a record fade.
LEMMA RemovalFades ==
  ASSUME Shape, NEW p \in Proc, NEW a \in Action,
         RemoveExpired(p, a) \/ Delete(p, a) \/ Unavailable(p, a)
  PROVE  Fades /\ UNCHANGED <<dueAt, failures, actionLease, inFlight>>
  BY DEF Shape, QueueOK, RemoveExpired, Delete, Unavailable, LeaseFree, Fades

\* A proposal that does not stage its action.
LEMMA ProposalKeeps ==
  ASSUME Shape, Roles, ApprovalInv, NEW c \in Action,
         \/ Lookup(c)
         \/ ProposalStep(c) /\ ~StageAction(c)
         \/ StageUnkeyed(c) /\ UNCHANGED pendingVars
  PROVE  ApprovalInv'
  <1>1. c \in Call /\ c \notin Confirmation \cup Cancellation /\ PProc(c) \in Proc
    BY ProposalTyped, KindsDiffer DEF Shape
  <1>2. UNCHANGED <<proposal, request, ran>>
    BY DEF Lookup, StageUnkeyed, ProposalStep, CheckPreview, SweepPreview, Refuse, ReplayResult,
        Claim, OpenPreview, JudgePreview, ExpirePreview, ExpiryUncertain, GiveUpLock, Reserve,
        StageAction, StageRefused, RecordPreview, PreviewOverflows
  <1>3. Fades /\ UNCHANGED <<dueAt, failures, actionLease, inFlight>>
    <2>1. CASE SweepPreview(c) \/ ExpirePreview(c)
      <3>1. seen[c] \in Action
        BY <2>1 DEF SweepPreview, ExpirePreview, Roles
      <3> QED  BY <1>1, <2>1, <3>1, RemovalFades DEF SweepPreview, ExpirePreview
    <2>2. CASE ~(SweepPreview(c) \/ ExpirePreview(c))
      BY <2>2 DEF Fades, Lookup, StageUnkeyed, ProposalStep, CheckPreview, Refuse, ReplayResult,
        Claim, OpenPreview, JudgePreview, ExpiryUncertain, GiveUpLock, Reserve,
        StageRefused, RecordPreview, PreviewOverflows, pendingVars
    <2> QED  BY <2>1, <2>2
  <1>4. PICK label : Goto(c, label) /\ (label \in Unstaged => pc[c] \in Unstaged)
    <2>1. CASE pc[c] \in Unstaged
      <3>1. \E label : Goto(c, label)
        BY DEF Lookup, StageUnkeyed, ProposalStep, CheckPreview, SweepPreview, Refuse,
          ReplayResult, ReplayRecord, Claim, OpenPreview, JudgePreview, ExpirePreview,
          ExpiryUncertain, GiveUpLock, Reserve, StageRefused, RecordPreview, PreviewOverflows
      <3> QED  BY <2>1, <3>1
    <2>2. CASE pc[c] \notin Unstaged
      <3>1. RecordPreview(c) \/ PreviewOverflows(c)
        BY <2>2 DEF Unstaged, Lookup, StageUnkeyed, ProposalStep, CheckPreview, SweepPreview,
          Refuse, ReplayResult, Claim, OpenPreview, TakesLease, JudgePreview, ExpirePreview,
          ExpiryUncertain, GiveUpLock, Reserve, StageRefused
      <3>2. PICK label \in {"served", "io_error", "limit"} : Goto(c, label)
        BY <3>1 DEF RecordPreview, PreviewOverflows
      <3> QED  BY <3>2 DEF Unstaged
    <2> QED  BY <2>1, <2>2
  <1> QED  BY <1>1, <1>2, <1>3, <1>4, FadeKeeps

\* An action is staged once: it has never been anything before.
LEMMA StageKeeps ==
  ASSUME Shape, ApprovalInv, NEW c \in Action, NEW label,
         pc[c] \in Unstaged, label \notin Unstaged, Stage(PProc(c), c), Goto(c, label),
         UNCHANGED <<proposal, request, ran>>
  PROVE  ApprovalInv'
  <1>1. \A d \in Call : pc'[d] = IF d = c THEN label ELSE pc[d]
    BY DEF Goto, Shape, LocalsOK
  <1>2. \A f \in Confirmation \cup Cancellation :
           Target(f)' = Target(f) /\ FProc(f)' = FProc(f) /\ Target(f) \in Action
    BY TargetsStay
  <1>3. /\ \A a \in Action \ {c} : durable'[a] = durable[a] /\ dueAt'[a] = dueAt[a]
        /\ durable'[c] = "pending" /\ UNCHANGED <<failures, actionLease, inFlight>>
    BY DEF Stage, Shape, QueueOK
  <1>4. /\ failures[c] = 0
        /\ \A f \in Confirmation \cup Cancellation : Target(f) = c => pc[f] = "idle"
    BY DEF ApprovalInv, StagingInv
  <1>5. \A f \in Confirmation : Target(f) = c => ~ran[f]
    BY <1>4 DEF ApprovalInv, ConfirmInv, Approving
  <1>6. StagingInv'
    BY <1>1, <1>2, <1>3, KindsDiffer DEF ApprovalInv, StagingInv
  <1>7. LeaseInv'
    BY <1>1, <1>2, <1>3, KindsDiffer DEF ApprovalInv, LeaseInv
  <1>8. ASSUME NEW f \in Confirmation PROVE ConfirmInv(f)'
    BY <1>1, <1>2, <1>3, <1>4, <1>5, KindsDiffer DEF ApprovalInv, ConfirmInv, Running, Approving
  <1>9. RefusalInv'
    BY <1>1, <1>2, <1>3, <1>4, KindsDiffer DEF ApprovalInv, RefusalInv, RefusedNeverRuns
  <1>10. AttemptsInv'
    BY <1>3, <1>4, PendingAssumption DEF ApprovalInv, AttemptsInv
  <1>11. OneExecution'
    BY <1>2 DEF ApprovalInv, OneExecution
  <1>12. RunsUnderClaim'
    BY <1>1, <1>2, <1>3, <1>4, KindsDiffer DEF ApprovalInv, RunsUnderClaim, Running
  <1> QED  BY <1>6, <1>7, <1>8, <1>9, <1>10, <1>11, <1>12 DEF ApprovalInv

\* A confirmation that neither takes nor holds the action, or only gives it up.
LEMMA ConfirmationFades ==
  ASSUME Shape, Roles, ApprovalInv, NEW f \in Confirmation,
         \/ Find(f) \/ FindOverdue(f) \/ CountFails(f) \/ SameApprover(f) \/ PolicyDenies(f)
         \/ TooLate(f) \/ GiveUpAction(f) \/ Dispatch(f) \/ Unauthorized(f) \/ Answered(f)
         \/ NothingSent(f) \/ AnswerLost(f) \/ StoreResult(f) \/ SkipLedger(f)
         \/ (RememberResult(f) \/ StoreHold(f) \/ Complete(f)) /\ UNCHANGED pendingVars
  PROVE  ApprovalInv'
  <1> USE DEF Running, Approving
  <1>1. f \in Call /\ f \notin Action /\ FProc(f) \in Proc /\ Target(f) \in Action
    BY RequestTyped, KindsDiffer DEF Shape
  <1>2. UNCHANGED <<proposal, request, ran>>
    BY DEF Find, FindOverdue, CountFails, SameApprover, PolicyDenies,
        TooLate, GiveUpAction, Dispatch, Unauthorized, Answered, AtAction, InExecution,
        NothingSent, AnswerLost, StoreResult, SkipLedger, RememberResult, StoreHold, Complete
  <1>3. Fades /\ UNCHANGED <<dueAt, failures, actionLease, inFlight>>
    <2>1. CASE FindOverdue(f) \/ PolicyDenies(f) \/ TooLate(f)
      BY <1>1, <2>1, RemovalFades DEF FindOverdue, PolicyDenies, TooLate
    <2>2. CASE ~(FindOverdue(f) \/ PolicyDenies(f) \/ TooLate(f))
      BY <2>2 DEF Fades, Find, CountFails, SameApprover, GiveUpAction, Dispatch, Unauthorized,
        Answered, AtAction, InExecution, NothingSent, AnswerLost, StoreResult, SkipLedger,
        RememberResult, StoreHold, Complete, pendingVars
    <2> QED  BY <2>1, <2>2
  <1>4. pc[Target(f)] \notin Unstaged
    <2>1. CASE pc[f] = "idle"
      <3>1. dueAt[Target(f)] # 0
        BY <2>1 DEF Find, FindOverdue, CountFails, SameApprover, PolicyDenies,
          TooLate, GiveUpAction, Dispatch, Unauthorized, Answered, AtAction, InExecution,
          NothingSent, AnswerLost, StoreResult, SkipLedger, RememberResult, StoreHold, Complete
      <3> QED  BY <1>1, <3>1 DEF ApprovalInv, StagingInv
    <2> QED  BY <2>1 DEF ApprovalInv, StagingInv
  <1>5. PICK label : /\ Goto(f, label)
                     /\ label \notin {"cancelled", "locked"}
                     /\ pc[f] # "claiming" /\ label # "claiming"
                     /\ label \in Running \cup {"clearing"} => pc[f] \in Running
                     /\ label \in Approving => pc[f] \in Approving
    <2>1. CASE Find(f) \/ FindOverdue(f) \/ CountFails(f) \/ SameApprover(f) \/ PolicyDenies(f)
               \/ TooLate(f) \/ GiveUpAction(f)
      BY <2>1 DEF Find, FindOverdue, CountFails, SameApprover, PolicyDenies, TooLate,
                  GiveUpAction, AtAction
    <2>2. CASE Dispatch(f) \/ Unauthorized(f) \/ Answered(f) \/ NothingSent(f) \/ AnswerLost(f)
               \/ SkipLedger(f)
      BY <2>2 DEF Dispatch, Unauthorized, Answered, NothingSent, AnswerLost, SkipLedger, InExecution
    <2>3. CASE StoreResult(f) \/ RememberResult(f) \/ StoreHold(f)
               \/ (Complete(f) /\ UNCHANGED pendingVars)
      BY <2>3 DEF StoreResult, RememberResult, StoreHold, Complete, AbandonClaim
    <2> QED  BY <2>1, <2>2, <2>3
  <1> QED  BY <1>1, <1>2, <1>3, <1>4, <1>5, FadeKeeps

\* A wrong secret is counted; the last one deletes the action.
LEMMA WrongSecretKeeps ==
  ASSUME Shape, ApprovalInv, NEW f \in Confirmation, WrongSecret(f)
  PROVE  ApprovalInv'
  <1> DEFINE t == Target(f)
             label == IF LastAttempt(t) THEN "locked" ELSE "rejected"
  <1>1. f \in Call /\ f \notin Action /\ t \in Action /\ pc[f] = "found"
    BY RequestTyped, KindsDiffer DEF Shape, WrongSecret, AtAction
  <1>2. \A d \in Call : pc'[d] = IF d = f THEN label ELSE pc[d]
    BY DEF WrongSecret, Goto, Shape, LocalsOK
  <1>3. \A g \in Confirmation \cup Cancellation :
           Target(g)' = Target(g) /\ FProc(g)' = FProc(g) /\ Target(g) \in Action
    BY TargetsStay DEF WrongSecret, AtAction
  <1>4. /\ durable[t] = "pending" /\ actionLease[t] = NoCall
        /\ \A a \in Action \ {t} : durable'[a] = durable[a] /\ failures'[a] = failures[a]
        /\ durable'[t] = IF LastAttempt(t) THEN "absent" ELSE "pending"
        /\ failures'[t] = failures[t] + 1 /\ failures[t] \in Nat
        /\ UNCHANGED <<dueAt, actionLease, inFlight, ran>>
    BY <1>1 DEF WrongSecret, RecordFailure, LeaseFree, Cancellable, Shape, QueueOK
  <1>5. \A g \in Confirmation : Target(g) = t => ~ran[g]
    BY <1>4 DEF ApprovalInv, ConfirmInv
  <1>6. pc[t] \notin Unstaged
    BY <1>1 DEF ApprovalInv, StagingInv
  <1>7. StagingInv'
    BY <1>1, <1>2, <1>3, <1>4, <1>6, KindsDiffer DEF ApprovalInv, StagingInv
  <1>8. LeaseInv'
    BY <1>1, <1>2, <1>3, <1>4, KindsDiffer DEF ApprovalInv, LeaseInv
  <1>9. ASSUME NEW g \in Confirmation PROVE ConfirmInv(g)'
    BY <1>1, <1>2, <1>3, <1>4, <1>5, NoCallAssumption, KindsDiffer
    DEF ApprovalInv, ConfirmInv, Running, Approving
  <1>10. RefusalInv'
    BY <1>1, <1>2, <1>3, <1>4, <1>5, KindsDiffer DEF ApprovalInv, RefusalInv, RefusedNeverRuns
  <1>11. AttemptsInv'
    BY <1>1, <1>4, PendingAssumption DEF ApprovalInv, AttemptsInv, LastAttempt, Shape, QueueOK
  <1>12. OneExecution'
    BY <1>3, <1>4 DEF ApprovalInv, OneExecution
  <1>13. RunsUnderClaim'
    BY <1>1, <1>2, <1>3, <1>4, KindsDiffer DEF ApprovalInv, RunsUnderClaim, Running
  <1> QED  BY <1>7, <1>8, <1>9, <1>10, <1>11, <1>12, <1>13 DEF ApprovalInv

\* A claim is prepared by one confirmation at a time, of a pending action.
LEMMA TakeKeeps ==
  ASSUME Shape, ApprovalInv, NEW f \in Confirmation, TakeAction(f)
  PROVE  ApprovalInv'
  <1> DEFINE t == Target(f)
  <1>1. f \in Call /\ f \notin Action /\ t \in Action /\ pc[f] = "found"
    BY RequestTyped, KindsDiffer DEF Shape, TakeAction, AtAction
  <1>2. \A d \in Call : pc'[d] = IF d = f THEN "claiming" ELSE pc[d]
    BY DEF TakeAction, Goto, Shape, LocalsOK
  <1>3. \A g \in Confirmation \cup Cancellation :
           Target(g)' = Target(g) /\ FProc(g)' = FProc(g) /\ Target(g) \in Action
    BY TargetsStay DEF TakeAction, AtAction
  <1>4. /\ durable[t] = "pending" /\ actionLease[t] = NoCall /\ actionLease'[t] = f
        /\ \A a \in Action \ {t} : actionLease'[a] = actionLease[a]
        /\ UNCHANGED <<durable, dueAt, failures, inFlight, ran>>
    BY <1>1 DEF TakeAction, Take, LeaseFree, Cancellable, Shape, QueueOK
  <1>5. ~ran[f]
    BY <1>4 DEF ApprovalInv, ConfirmInv
  <1>6. StagingInv'
    BY <1>1, <1>2, <1>3, <1>4, KindsDiffer DEF ApprovalInv, StagingInv
  <1>7. LeaseInv'
    BY <1>1, <1>2, <1>3, <1>4, KindsDiffer DEF ApprovalInv, LeaseInv
  <1>8. ASSUME NEW g \in Confirmation PROVE ConfirmInv(g)'
    BY <1>1, <1>2, <1>3, <1>4, <1>5, NoCallAssumption, KindsDiffer
    DEF ApprovalInv, ConfirmInv, Running, Approving
  <1>9. RefusalInv' /\ AttemptsInv' /\ OneExecution'
    BY <1>1, <1>2, <1>3, <1>4, KindsDiffer
    DEF ApprovalInv, RefusalInv, RefusedNeverRuns, AttemptsInv, OneExecution
  <1>10. RunsUnderClaim'
    BY <1>1, <1>2, <1>3, <1>4, KindsDiffer DEF ApprovalInv, RunsUnderClaim, Running
  <1> QED  BY <1>6, <1>7, <1>8, <1>9, <1>10 DEF ApprovalInv

\* The claim is published while the lease is held, so no other confirmation
\* was handed the action, and none will be.
LEMMA PublishKeeps ==
  ASSUME Shape, ApprovalInv, NEW f \in Confirmation, PublishClaim(f)
  PROVE  ApprovalInv'
  <1> DEFINE t == Target(f)
             p == FProc(f)
  <1>1. f \in Call /\ f \notin Action /\ t \in Action /\ p \in Proc /\ pc[f] = "claiming"
    BY RequestTyped, KindsDiffer DEF Shape, PublishClaim
  <1>2. \A g \in Confirmation \cup Cancellation :
           Target(g)' = Target(g) /\ FProc(g)' = FProc(g) /\ Target(g) \in Action
    BY TargetsStay DEF PublishClaim
  <1>3. /\ durable[t] = "pending" /\ actionLease[t] = f
        /\ \A g \in Confirmation : Target(g) = t => ~ran[g]
        /\ \A g \in Confirmation : pc[g] = "claiming" /\ Target(g) = t => g = f
    BY <1>1 DEF ApprovalInv, ConfirmInv
  <1>4. /\ actionLease'[t] = NoCall
        /\ \A a \in Action \ {t} : actionLease'[a] = actionLease[a]
        /\ UNCHANGED <<dueAt, failures>>
    BY <1>1 DEF PublishClaim, Publish, PublishFails, Shape, QueueOK
  <1>5. CASE PublishFails(t) /\ Goto(f, "io_error") /\ UNCHANGED ran
    <2>1. UNCHANGED <<durable, inFlight, ran>>
      BY <1>5 DEF PublishFails
    <2>2. \A d \in Call : pc'[d] = IF d = f THEN "io_error" ELSE pc[d]
      BY <1>5 DEF Goto, Shape, LocalsOK
    <2>3. StagingInv' /\ LeaseInv'
      BY <1>1, <1>2, <1>3, <1>4, <2>1, <2>2, KindsDiffer DEF ApprovalInv, StagingInv, LeaseInv
    <2>4. ASSUME NEW g \in Confirmation PROVE ConfirmInv(g)'
      BY <1>1, <1>2, <1>3, <1>4, <2>1, <2>2, KindsDiffer
      DEF ApprovalInv, ConfirmInv, Running, Approving
    <2>5. RefusalInv' /\ AttemptsInv' /\ OneExecution'
      BY <1>1, <1>2, <1>4, <2>1, <2>2, KindsDiffer
      DEF ApprovalInv, RefusalInv, RefusedNeverRuns, AttemptsInv, OneExecution
    <2>6. RunsUnderClaim'
      BY <1>1, <1>2, <2>1, <2>2, KindsDiffer DEF ApprovalInv, RunsUnderClaim, Running
    <2> QED  BY <2>3, <2>4, <2>5, <2>6 DEF ApprovalInv
  <1>6. CASE Publish(p, t) /\ ran' = [ran EXCEPT ![f] = TRUE] /\ Goto(f, "queued")
    <2>1. /\ durable'[t] = "claimed" /\ t \in inFlight'[p]
          /\ \A a \in Action \ {t} : durable'[a] = durable[a]
          /\ \A q \in Proc : inFlight[q] \subseteq inFlight'[q]
      BY <1>1, <1>6 DEF Publish, Shape, QueueOK
    <2>2. ran'[f] /\ \A g \in Confirmation \ {f} : ran'[g] = ran[g]
      BY <1>6 DEF Shape, LocalsOK
    <2>3. \A d \in Call : pc'[d] = IF d = f THEN "queued" ELSE pc[d]
      BY <1>6 DEF Goto, Shape, LocalsOK
    <2>4. StagingInv' /\ LeaseInv'
      BY <1>1, <1>2, <1>3, <1>4, <2>1, <2>3, KindsDiffer DEF ApprovalInv, StagingInv, LeaseInv
    <2>5. ASSUME NEW g \in Confirmation PROVE ConfirmInv(g)'
      BY <1>1, <1>2, <1>3, <1>4, <2>1, <2>2, <2>3, KindsDiffer
      DEF ApprovalInv, ConfirmInv, Running, Approving
    <2>6. RefusalInv'
      BY <1>1, <1>2, <1>3, <2>1, <2>2, <2>3, KindsDiffer
      DEF ApprovalInv, RefusalInv, RefusedNeverRuns
    <2>7. AttemptsInv'
      BY <1>1, <1>3, <1>4, <2>1 DEF ApprovalInv, AttemptsInv, Shape, QueueOK
    <2>8. OneExecution'
      BY <1>2, <1>3, <2>2 DEF ApprovalInv, OneExecution
    <2>9. RunsUnderClaim'
      <3>1. \A g \in Confirmation : FProc(g) \in Proc
        BY RequestTyped DEF Shape
      <3> QED  BY <1>1, <1>2, <2>1, <2>3, <3>1, KindsDiffer DEF ApprovalInv, RunsUnderClaim, Running
    <2> QED  BY <2>4, <2>5, <2>6, <2>7, <2>8, <2>9 DEF ApprovalInv
  <1> QED  BY <1>5, <1>6 DEF PublishClaim

\* The end of an execution: only the confirmation that made the claim takes
\* it out of the map of its process, and only it clears the record.
LEMMA ReleaseKeeps ==
  ASSUME Shape, ApprovalInv, NEW f \in Confirmation, NEW label, Goto(f, label),
         UNCHANGED <<proposal, request, ran>>,
         \/ /\ pc[f] \in Running /\ label \notin Running
            /\ CompleteLocal(FProc(f), Target(f))
         \/ pc[f] = "clearing" /\ label = "done" /\ ClearClaim(Target(f)),
         label \notin Approving, label \notin {"cancelled", "locked"}
  PROVE  ApprovalInv'
  <1> DEFINE t == Target(f)
  <1>1. /\ f \in Call /\ f \notin Action /\ t \in Action /\ ran[f]
        /\ pc[f] \in Running \cup {"clearing"} /\ pc[f] # "claiming" /\ pc[f] # "idle"
    BY RequestTyped, KindsDiffer DEF Shape, ApprovalInv, ConfirmInv, Approving
  <1>2. \A d \in Call : pc'[d] = IF d = f THEN label ELSE pc[d]
    BY DEF Goto, Shape, LocalsOK
  <1>3. \A g \in Confirmation \cup Cancellation :
           Target(g)' = Target(g) /\ FProc(g)' = FProc(g) /\ Target(g) \in Action
    BY TargetsStay
  <1>4. /\ \A g \in Confirmation : Target(g) = t /\ g # f => ~ran[g]
        /\ durable[t] # "pending"
    BY <1>1 DEF ApprovalInv, OneExecution, ConfirmInv
  <1>5. /\ \A a \in Action \ {t} : durable'[a] = durable[a]
        /\ durable'[t] \in {durable[t], "absent"}
        /\ pc[f] \in Running => durable' = durable
        /\ UNCHANGED <<dueAt, failures, actionLease>>
    BY <1>1 DEF CompleteLocal, ClearClaim, Shape, QueueOK, Running
  <1>6. \A g \in Confirmation : Target(g) # t => (Target(g) \in inFlight'[FProc(g)] <=> Target(g) \in inFlight[FProc(g)])
    <2>1. \A g \in Confirmation : FProc(g) \in Proc
      BY RequestTyped DEF Shape
    <2> QED  BY <1>1, <2>1 DEF CompleteLocal, ClearClaim, Shape, QueueOK
  <1>7. pc[t] \notin Unstaged
    BY <1>1 DEF ApprovalInv, StagingInv, Running
  <1>8. StagingInv'
    BY <1>1, <1>2, <1>3, <1>5, <1>7, KindsDiffer DEF ApprovalInv, StagingInv
  <1>9. LeaseInv'
    BY <1>1, <1>2, <1>3, <1>5, KindsDiffer DEF ApprovalInv, LeaseInv
  <1>10. ASSUME NEW g \in Confirmation PROVE ConfirmInv(g)'
    <2>1. label \in Running \cup {"clearing"} => ran[f]
      BY <1>1
    <2> QED  BY <1>1, <1>2, <1>3, <1>4, <1>5, <2>1, KindsDiffer DEF ApprovalInv, ConfirmInv, Approving
  <1>11. RefusalInv'
    BY <1>1, <1>2, <1>3, <1>5, KindsDiffer DEF ApprovalInv, RefusalInv, RefusedNeverRuns
  <1>12. AttemptsInv' /\ OneExecution'
    BY <1>3, <1>5 DEF ApprovalInv, AttemptsInv, OneExecution
  <1>13. RunsUnderClaim'
    <2> SUFFICES ASSUME NEW g \in Confirmation, pc'[g] \in Running
                 PROVE  durable'[Target(g)] = "claimed" /\ Target(g) \in inFlight'[FProc(g)]
      BY <1>3 DEF RunsUnderClaim
    <2>1. g # f /\ pc[g] \in Running
      BY <1>1, <1>2, KindsDiffer DEF Running
    <2>2. Target(g) # t
      BY <1>4, <2>1 DEF ApprovalInv, ConfirmInv
    <2> QED  BY <1>3, <1>5, <1>6, <2>1, <2>2 DEF ApprovalInv, RunsUnderClaim
  <1> QED  BY <1>8, <1>9, <1>10, <1>11, <1>12, <1>13 DEF ApprovalInv

\* A cancellation removes an action that nobody was handed.
LEMMA CancelKeeps ==
  ASSUME Shape, ApprovalInv, NEW x \in Cancellation, Cancel(x)
  PROVE  ApprovalInv'
  <1> DEFINE t == Target(x)
             label == IF Cancellable(t) THEN "cancelled" ELSE "not_found"
  <1>1. /\ x \in Call /\ x \notin Action /\ x \notin Confirmation /\ t \in Action
        /\ FProc(x) \in Proc /\ pc[x] = "idle"
    BY RequestTyped, KindsDiffer DEF Shape, Cancel
  <1>2. \A d \in Call : pc'[d] = IF d = x THEN label ELSE pc[d]
    BY DEF Cancel, Goto, Shape, LocalsOK
  <1>3. \A g \in Confirmation \cup Cancellation :
           Target(g)' = Target(g) /\ FProc(g)' = FProc(g) /\ Target(g) \in Action
    BY TargetsStay DEF Cancel
  <1>4. Fades /\ UNCHANGED <<dueAt, failures, actionLease, inFlight, ran>>
    BY <1>1, RemovalFades DEF Cancel
  <1>5. pc[t] \notin Unstaged
    BY <1>1 DEF Cancel, ApprovalInv, StagingInv
  <1>6. CASE Cancellable(t)
    <2>1. durable[t] = "pending" /\ durable'[t] = "absent" /\ \A g \in Confirmation : Target(g) = t => ~ran[g]
      BY <1>1, <1>6 DEF Cancel, Cancellable, Delete, ApprovalInv, ConfirmInv, Shape, QueueOK
    <2>2. StagingInv' /\ LeaseInv'
      BY <1>1, <1>2, <1>3, <1>4, <1>5, KindsDiffer
      DEF Fades, ApprovalInv, StagingInv, LeaseInv
    <2>3. ASSUME NEW f \in Confirmation PROVE ConfirmInv(f)'
      BY <1>1, <1>2, <1>3, <1>4, NoCallAssumption, KindsDiffer DEF Fades, ApprovalInv, ConfirmInv
    <2>4. RefusalInv'
      BY <1>1, <1>2, <1>3, <1>4, <1>6, <2>1, KindsDiffer
      DEF Fades, ApprovalInv, RefusalInv, RefusedNeverRuns
    <2>5. AttemptsInv' /\ OneExecution'
      BY <1>3, <1>4 DEF Fades, ApprovalInv, AttemptsInv, OneExecution
    <2>6. RunsUnderClaim'
      BY <1>1, <1>2, <1>3, <1>4, KindsDiffer DEF Fades, ApprovalInv, RunsUnderClaim
    <2> QED  BY <2>2, <2>3, <2>4, <2>5, <2>6 DEF ApprovalInv
  <1>7. CASE ~Cancellable(t)
    <2>1. Goto(x, "not_found")
      BY <1>7 DEF Cancel
    <2> QED  BY <1>1, <1>4, <1>5, <2>1, FadeKeeps DEF Cancel, Running, Approving
  <1> QED  BY <1>6, <1>7

\* A crash frees the leases of the dead and forgets their maps; the records
\* stay as they are.
LEMMA CrashKeeps ==
  ASSUME Shape, ApprovalInv, NEW p \in Proc, Crash(p)
  PROVE  ApprovalInv'
  <1> DEFINE dying == {c \in Call : ProcOf(c) = p /\ pc[c] \notin Over \cup {"idle"}}
  <1>1. \A c \in Call : pc'[c] = IF c \in dying THEN "dead" ELSE pc[c]
    BY DEF Crash
  <1>2. \A g \in Confirmation \cup Cancellation :
           Target(g)' = Target(g) /\ FProc(g)' = FProc(g) /\ Target(g) \in Action
    BY TargetsStay DEF Crash
  <1>3. /\ UNCHANGED <<durable, dueAt, failures, ran>>
        /\ \A a \in Action : actionLease'[a] = IF actionLease[a] \in dying THEN NoCall ELSE actionLease[a]
        /\ \A q \in Proc \ {p} : inFlight'[q] = inFlight[q]
    BY DEF Crash, PendingCrash, Shape, QueueOK
  <1>4. \A c \in dying : pc[c] # "idle" /\ c # NoCall
    BY NoCallAssumption
  <1>5. StagingInv'
    BY <1>1, <1>2, <1>3, <1>4, KindsDiffer DEF ApprovalInv, StagingInv, Unstaged
  <1>6. LeaseInv'
    BY <1>1, <1>2, <1>3, KindsDiffer DEF ApprovalInv, LeaseInv
  <1>7. ASSUME NEW f \in Confirmation PROVE ConfirmInv(f)'
    BY <1>1, <1>2, <1>3, KindsDiffer DEF ApprovalInv, ConfirmInv, Approving, Running
  <1>8. RefusalInv'
    BY <1>1, <1>2, <1>3, KindsDiffer DEF ApprovalInv, RefusalInv, RefusedNeverRuns
  <1>9. AttemptsInv' /\ OneExecution'
    BY <1>2, <1>3 DEF ApprovalInv, AttemptsInv, OneExecution
  <1>10. RunsUnderClaim'
    <2> SUFFICES ASSUME NEW g \in Confirmation, pc'[g] \in Running
                 PROVE  durable'[Target(g)] = "claimed" /\ Target(g) \in inFlight'[FProc(g)]
      BY <1>2 DEF RunsUnderClaim
    <2>1. g \notin dying /\ pc[g] \in Running
      BY <1>1, KindsDiffer DEF Running
    <2>2. pc[g] \notin Over \cup {"idle"}
      BY <2>1 DEF Running, Over
    <2>3. FProc(g) # p /\ FProc(g) \in Proc
      BY <2>1, <2>2, KindsDiffer, RequestTyped DEF ProcOf, Shape
    <2> QED  BY <1>3, <2>1, <2>3 DEF ApprovalInv, RunsUnderClaim
  <1> QED  BY <1>5, <1>6, <1>7, <1>8, <1>9, <1>10 DEF ApprovalInv

\* Every step keeps the approvals in order.
LEMMA ApprovalStep == Shape /\ Roles /\ ApprovalInv /\ [Next]_vars => ApprovalInv'
  <1> SUFFICES ASSUME Shape, Roles, ApprovalInv, [Next]_vars PROVE ApprovalInv'
    OBVIOUS
  <1>1. CASE UNCHANGED <<pendingVars, proposal, request, pc, ran>>
    BY <1>1 DEF pendingVars, ApprovalInv, StagingInv, LeaseInv, RefusalInv, RefusedNeverRuns,
                AttemptsInv, ConfirmInv, OneExecution, RunsUnderClaim, Target, FProc
  <1>2. ASSUME NEW a \in Action, Lookup(a) \/ StageUnkeyed(a) \/ ProposalStep(a)
        PROVE  ApprovalInv'
    <2>1. CASE StageAction(a)
      BY <2>1, StageKeeps DEF StageAction, Unstaged
    <2>2. CASE StageUnkeyed(a)
      <3>1. CASE Stage(PProc(a), a) /\ Goto(a, "served")
        BY <2>2, <3>1, StageKeeps DEF StageUnkeyed, Unstaged
      <3>2. CASE UNCHANGED pendingVars
        BY <2>2, <3>2, ProposalKeeps
      <3> QED  BY <2>2, <3>1, <3>2 DEF StageUnkeyed
    <2>3. CASE Lookup(a) \/ (ProposalStep(a) /\ ~StageAction(a))
      BY <2>3, ProposalKeeps
    <2> QED  BY <1>2, <2>1, <2>2, <2>3
  <1>3. ASSUME NEW f \in Confirmation, Find(f) \/ ConfirmationStep(f)
        PROVE  ApprovalInv'
    <2>1. CASE RememberResult(f) \/ StoreHold(f) \/ StoreFails(f)
      <3>1. CASE AbandonClaim(f)
        <4>1. pc[f] \in Running /\ UNCHANGED <<proposal, request, ran>>
          BY <2>1 DEF RememberResult, StoreHold, StoreFails, Running
        <4> QED  BY <3>1, <4>1, ReleaseKeeps DEF AbandonClaim, Running, Approving
      <3>2. CASE ~AbandonClaim(f)
        BY <2>1, <3>2, ConfirmationFades DEF RememberResult, StoreHold, StoreFails
      <3> QED  BY <3>1, <3>2
    <2>2. CASE Complete(f)
      <3>1. UNCHANGED <<proposal, request, ran>>
        BY <2>2 DEF Complete
      <3>2. CASE pc[f] = "complete" /\ CompleteLocal(FProc(f), Target(f)) /\ Goto(f, "clearing")
        BY <3>1, <3>2, ReleaseKeeps DEF Running, Approving
      <3>3. CASE pc[f] = "clearing" /\ ClearClaim(Target(f)) /\ Goto(f, "done")
        BY <3>1, <3>3, ReleaseKeeps DEF Running, Approving
      <3>4. CASE UNCHANGED pendingVars
        BY <2>2, <3>4, ConfirmationFades
      <3> QED  BY <2>2, <3>2, <3>3, <3>4 DEF Complete
    <2> QED  BY <1>3, <2>1, <2>2, ConfirmationFades, WrongSecretKeeps, TakeKeeps, PublishKeeps
             DEF ConfirmationStep
  <1>4. ASSUME NEW p \in Proc, NEW a \in Action, List(p, a) PROVE ApprovalInv'
    <2>1. Fades /\ UNCHANGED <<dueAt, failures, actionLease, inFlight>>
      BY <1>4, RemovalFades DEF List
    <2>2. Goto(a, pc[a])
      BY <1>4 DEF List, flowVars, Goto, Shape, LocalsOK
    <2> QED  BY <1>4, <2>1, <2>2, FadeKeeps, KindsDiffer DEF List, flowVars
  <1> QED  BY <1>1, <1>2, <1>3, <1>4, CancelKeeps, CrashKeeps
           DEF Next, Clock, Operator, vars, flowVars

-----------------------------------------------------------------------------
(* The wrong secrets *)

Wrong(a) == {f \in Confirmation : Target(f) = a /\ pc[f] \in {"rejected", "locked"}}

CountInv == \A a \in Action : Cardinality(Wrong(a)) = failures[a]

\* Nothing but a wrong secret ends a confirmation as rejected or locked, and
\* such an end is final.
LEMMA OnlySecretsReject ==
  ASSUME Shape, [Next]_vars, ~\E f \in Confirmation : WrongSecret(f)
  PROVE  /\ UNCHANGED <<request, failures>>
         /\ \A f \in Confirmation : pc'[f] \in {"rejected", "locked"} <=> pc[f] \in {"rejected", "locked"}
  <1> DEFINE Ended(label) == label \in {"rejected", "locked"}
  <1>0. pc \in [Call -> Places]
    BY DEF Shape, LocalsOK
  <1>1. CASE UNCHANGED vars
    BY <1>1 DEF vars, flowVars, pendingVars
  <1>2. ASSUME NEW a \in Action, Lookup(a) \/ StageUnkeyed(a) \/ ProposalStep(a)
        PROVE  /\ UNCHANGED <<request, failures>>
               /\ \E label : Goto(a, label)
    BY <1>2
    DEF Lookup, StageUnkeyed, ProposalStep, CheckPreview, SweepPreview, Refuse, ReplayResult,
        ReplayRecord, Claim, OpenPreview, JudgePreview, ExpirePreview, ExpiryUncertain, GiveUpLock,
        Reserve, StageAction, StageRefused, RecordPreview, PreviewOverflows, RemoveExpired, Stage,
        pendingVars
  <1>3. ASSUME NEW f \in Confirmation, Find(f) \/ ConfirmationStep(f)
        PROVE  /\ UNCHANGED <<request, failures>>
               /\ \E label : Goto(f, label) /\ ~Ended(label) /\ ~Ended(pc[f])
    <2>1. CASE Find(f) \/ FindOverdue(f) \/ CountFails(f) \/ SameApprover(f) \/ PolicyDenies(f)
               \/ TooLate(f) \/ TakeAction(f) \/ GiveUpAction(f)
      BY <2>1 DEF Find, FindOverdue, CountFails, SameApprover, PolicyDenies, TooLate,
                  GiveUpAction, TakeAction, AtAction, RemoveExpired, Delete, Unavailable, Take,
                  pendingVars
    <2>2. CASE Dispatch(f) \/ Unauthorized(f) \/ Answered(f) \/ NothingSent(f) \/ AnswerLost(f)
               \/ SkipLedger(f)
      BY <2>2 DEF Dispatch, Unauthorized, Answered, NothingSent, AnswerLost, SkipLedger,
                  InExecution, pendingVars
    <2>3. CASE PublishClaim(f) \/ StoreResult(f) \/ RememberResult(f) \/ StoreHold(f)
               \/ StoreFails(f) \/ Complete(f)
      BY <2>3 DEF PublishClaim, Publish, PublishFails, StoreResult, RememberResult, StoreHold,
                  StoreFails, Complete, AbandonClaim, CompleteLocal, ClearClaim, pendingVars
    <2> QED  BY <1>3, <2>1, <2>2, <2>3 DEF ConfirmationStep
  <1>4. ASSUME NEW x \in Cancellation, Cancel(x)
        PROVE  UNCHANGED <<request, failures>> /\ \E label : Goto(x, label)
    BY <1>4 DEF Cancel, Delete
  <1>5. CASE Clock \/ (\E p \in Proc, k \in Key : Operator(p, k))
               \/ (\E p \in Proc, a \in Action : List(p, a))
    BY <1>5 DEF Clock, Operator, List, RemoveExpired, flowVars, pendingVars
  <1>6. ASSUME NEW p \in Proc, Crash(p)
        PROVE  /\ UNCHANGED <<request, failures>>
               /\ \A f \in Confirmation : Ended(pc'[f]) <=> Ended(pc[f])
    BY <1>6, KindsDiffer DEF Crash, PendingCrash, Over
  <1>7. CASE \E a \in Action : Lookup(a) \/ StageUnkeyed(a) \/ ProposalStep(a)
    BY <1>0, <1>2, <1>7, KindsDiffer DEF Goto
  <1>8. CASE \E f \in Confirmation : Find(f) \/ ConfirmationStep(f)
    BY <1>0, <1>3, <1>8, KindsDiffer DEF Goto
  <1>9. CASE \E x \in Cancellation : Cancel(x)
    BY <1>0, <1>4, <1>9, KindsDiffer DEF Goto
  <1> QED  BY <1>1, <1>5, <1>6, <1>7, <1>8, <1>9 DEF Next

\* The counter of an action is the number of wrong secrets it was given.
LEMMA CountStep ==
  ASSUME IsFiniteSet(Confirmation), Shape, CountInv, [Next]_vars
  PROVE  CountInv'
  <1>1. CASE ~\E f \in Confirmation : WrongSecret(f)
    <2>1. UNCHANGED failures /\ \A a \in Action : Wrong(a)' = Wrong(a)
      BY <1>1, OnlySecretsReject DEF Wrong, Target
    <2> QED  BY <2>1 DEF CountInv
  <1>2. ASSUME NEW f \in Confirmation, WrongSecret(f) PROVE CountInv'
    <2>0. PICK t \in Action : t = Target(f)
      BY RequestTyped DEF Shape
    <2>1. f \in Call
      BY KindsDiffer
    <2>2. failures'[t] = failures[t] + 1 /\ \A a \in Action \ {t} : failures'[a] = failures[a]
      BY <1>2, <2>0 DEF WrongSecret, RecordFailure, Shape, QueueOK
    <2>3. pc[f] = "found" /\ pc'[f] \in {"rejected", "locked"}
          /\ \A d \in Call \ {f} : pc'[d] = pc[d]
      BY <1>2, <2>1 DEF WrongSecret, AtAction, Goto, Shape, LocalsOK
    <2>4. UNCHANGED request
      BY <1>2 DEF WrongSecret, AtAction
    <2>5. Wrong(t)' = Wrong(t) \cup {f} /\ f \notin Wrong(t)
      BY <2>0, <2>1, <2>3, <2>4, KindsDiffer DEF Wrong, Target
    <2>6. \A a \in Action \ {t} : Wrong(a)' = Wrong(a)
      BY <2>0, <2>1, <2>3, <2>4, KindsDiffer DEF Wrong, Target
    <2>7. IsFiniteSet(Wrong(t))
      BY FS_Subset DEF Wrong
    <2>8. Cardinality(Wrong(t)') = failures'[t]
      BY <2>1, <2>2, <2>5, <2>7, FS_AddElement DEF CountInv
    <2> QED  BY <2>1, <2>2, <2>6, <2>8 DEF CountInv
  <1> QED  BY <1>1, <1>2

-----------------------------------------------------------------------------
(* The theorems about approvals *)

\* The initial state has no approval.
LEMMA ApprovalInit == Init => ApprovalInv
  <1> SUFFICES ASSUME Init PROVE ApprovalInv
    OBVIOUS
  <1>1. Shape /\ \A c \in Call : pc[c] = "idle"
    BY ShapeInit DEF Init
  <1>2. /\ \A a \in Action : durable[a] = "absent" /\ dueAt[a] = 0 /\ failures[a] = 0 /\ actionLease[a] = NoCall
        /\ \A f \in Confirmation : ~ran[f]
    BY DEF Init, PendingInit
  <1>3. \A f \in Confirmation \cup Cancellation : Target(f) \in Action
    BY <1>1, RequestTyped DEF Shape
  <1>4. StagingInv /\ LeaseInv /\ RefusalInv /\ OneExecution
    BY <1>1, <1>2, <1>3, KindsDiffer
    DEF StagingInv, LeaseInv, RefusalInv, RefusedNeverRuns, OneExecution
  <1>5. AttemptsInv
    BY <1>2, PendingAssumption DEF AttemptsInv
  <1>6. (\A f \in Confirmation : ConfirmInv(f)) /\ RunsUnderClaim
    BY <1>1, <1>2, KindsDiffer DEF ConfirmInv, RunsUnderClaim, Running
  <1> QED  BY <1>4, <1>5, <1>6 DEF ApprovalInv

\* In every reachable state the approvals are in order.
LEMMA ApprovalInvariant == Spec => [](Shape /\ Roles /\ ApprovalInv)
  <1>1. Init => Shape /\ Roles /\ ApprovalInv
    BY ShapeInit, ApprovalInit
  <1>2. (Shape /\ Roles /\ ApprovalInv) /\ [Next]_vars => (Shape /\ Roles /\ ApprovalInv)'
    BY ShapeStep, ApprovalStep
  <1> QED  BY <1>1, <1>2, PTL DEF Spec

\* Every variable keeps its type, the counters of wrong secrets their bound.
THEOREM TypeCorrect == Spec => []TypeOK
  <1>1. Shape /\ ApprovalInv => TypeOK
    <2> SUFFICES ASSUME Shape, ApprovalInv PROVE TypeOK
      OBVIOUS
    <2>1. failures \in [Action -> 0 .. MaxAttempts]
      BY PendingAssumption DEF Shape, QueueOK, ApprovalInv, AttemptsInv
    <2> QED  BY <2>1 DEF Shape, LedgerOK, MapsOK, QueueOK, Requests, LocalsOK, Places, TypeOK,
                         StoreTypeOK, ClockTypeOK, PendingTypeOK
  <1> QED  BY <1>1, ApprovalInvariant, PTL

\* Of all the requests that confirm an action, in whatever process, before or
\* after a crash, one at most is handed the executor.
THEOREM NeverExecutedTwice == Spec => []OneExecution
  <1>1. ApprovalInv => OneExecution
    BY DEF ApprovalInv
  <1> QED  BY <1>1, ApprovalInvariant, PTL

\* What was reported cancelled, or deleted by the last wrong secret, is not
\* executed, before or after the report.
THEOREM RefusedIsNeverRun == Spec => []RefusedNeverRuns
  <1>1. ApprovalInv => RefusedNeverRuns
    BY DEF ApprovalInv, RefusalInv
  <1> QED  BY <1>1, ApprovalInvariant, PTL

\* A confirmation that executes its action has the durable claim on it, and
\* its process knows that it has.
THEOREM AlwaysRunsUnderClaim == Spec => []RunsUnderClaim
  <1>1. ApprovalInv => RunsUnderClaim
    BY DEF ApprovalInv
  <1> QED  BY <1>1, ApprovalInvariant, PTL

\* Wrong secrets are counted over all processes and restarts, and the last
\* one allowed leaves no action behind: of any finite number of requests.
THEOREM LockoutAlwaysHolds ==
  ASSUME IsFiniteSet(Confirmation)
  PROVE  Spec => []LockoutHolds
  <1>1. Init => CountInv
    <2> SUFFICES ASSUME Init, NEW a \in Action PROVE Cardinality(Wrong(a)) = failures[a]
      BY DEF CountInv
    <2>1. Wrong(a) = {}
      BY KindsDiffer DEF Init, Wrong
    <2> QED  BY <2>1, FS_EmptySet DEF Init, PendingInit
  <1>2. (Shape /\ Roles /\ ApprovalInv) /\ CountInv /\ [Next]_vars => CountInv'
    BY CountStep
  <1>3. ApprovalInv /\ CountInv => LockoutHolds
    BY DEF ApprovalInv, AttemptsInv, CountInv, Wrong, LockoutHolds
  <1> QED  BY <1>1, <1>2, <1>3, ApprovalInvariant, PTL DEF Spec

-----------------------------------------------------------------------------
(* The ledger: the inductive invariant.  An action matters to its key while *)
(* it waits for its confirmation, while it executes, and as long as the key *)
(* has to answer for what was sent.  At most one action matters to a key,   *)
(* and the record of the key says how far it has come: a reservation or its *)
(* preview while it may still be sent, then its result or a hold.  That is  *)
(* so as long as an approval outlives the run, no write of a file fails and *)
(* the ledger has room for a result and a hold of every key.  In the other  *)
(* cases the code reopens the key of an action that still executes: when    *)
(* the approval expires at its claim (MCExpiringClaim), when the preview    *)
(* cannot be recorded, and when it evicts another preview.                  *)

Undisturbed ==
    /\ PendingTtl >= MaxTime
    /\ ~DiskMayFail
    /\ IsFiniteSet(Key) /\ MaxEntries >= 2 * Cardinality(Key)

Leasing == {"judging", "expiring", "reserve", "staging", "staged"}

Sending == {"queued", "sent", "settled", "lost", "storing"}

Busy(a, places) == \E f \in Confirmation : Target(f) = a /\ pc[f] \in places

Matters(a) == durable[a] = "pending" \/ Busy(a, Running) \/ a \in owed[PKey(a)]

KeyLeaseInv ==
    /\ \A k \in Key : lease[k] # NoCall =>
          lease[k] \in Action /\ PKey(lease[k]) = k /\ pc[lease[k]] \in Leasing
    /\ \A c \in Action : pc[c] \in Leasing => lease[PKey(c)] = c

Formed(rec) ==
    /\ rec.state # "indeterminate" => rec.holdReason = "none"
    /\ rec.state = "indeterminate" => rec.holdReason = "transport_failure_after_dispatch"
    /\ rec.state # "completed" => rec.result = NoPayload
    /\ rec.state = "absent" => rec = Absent

RecordInv == \A k \in Key : Formed(record[k])

TimeInv ==
    /\ \A a \in Action : durable[a] = "pending" => dueAt[a] >= PendingTtl
    /\ \A a \in Action : pc[a] \notin {"sweeping", "expiring"}
    /\ \A f \in Confirmation : pc[f] # "overdue"

Answers(a) ==
    LET rec == record[PKey(a)] IN
    /\ rec.argsHash = PArgs(a)
    /\ \/ (rec.state = "in_flight" \/ rec.result = Preview(a)) /\ durable[a] # "absent"
       \/ rec.result = Result(a) /\ durable[a] # "pending" /\ ~Busy(a, Sending)
       \/ rec.state = "indeterminate" /\ durable[a] # "pending" /\ ~Busy(a, Running)

OwedInv ==
    /\ \A k \in Key : \A a \in owed[k] :
          PKey(a) = k /\ pc[a] \notin Unstaged /\ durable[a] # "pending"
    /\ \A f \in Confirmation : Keyed(Target(f)) =>
          /\ pc[f] = "queued" => Target(f) \notin owed[FKey(f)]
          /\ pc[f] \in {"complete", "clearing"} /\ Target(f) \in owed[FKey(f)]
               => record[FKey(f)].result = Result(Target(f))

ProposalInv(c) ==
    LET rec == record[PKey(c)] IN
    /\ pc[c] = "judging" => rec.result = Preview(seen[c]) /\ rec.argsHash = PArgs(c)
    /\ pc[c] = "reserve" => rec.state = "absent"
    /\ pc[c] \in {"staging", "staged"} => rec.state = "in_flight" /\ rec.argsHash = PArgs(c)
    /\ pc[c] \in {"reserve", "staging", "staged"} =>
          \A a \in Action : PKey(a) = PKey(c) /\ Matters(a) => a = c /\ pc[c] = "staged"

AnswerInv ==
    \A a \in Action : Keyed(a) /\ Matters(a) =>
        /\ Answers(a)
        /\ \A b \in Action : PKey(b) = PKey(a) /\ Matters(b) => a = b

LedgerInv ==
    /\ KeyLeaseInv /\ RecordInv /\ TimeInv /\ OwedInv /\ AnswerInv
    /\ \A c \in Action : ProposalInv(c)

\* An approval outlives the run.
LEMMA NeverOverdue ==
  ASSUME Undisturbed, Shape, TimeInv, NEW a \in Action, durable[a] = "pending"
  PROVE  ~Overdue(a)
  BY PendingAssumption, ClockAssumption DEF Undisturbed, Shape, LedgerOK, QueueOK, TimeInv, Overdue

\* An action that executes does so for one confirmation, under a claim.
LEMMA OneRunner ==
  ASSUME Shape, ApprovalInv, NEW f \in Confirmation, pc[f] \in Running \cup {"clearing"}
  PROVE  /\ \A g \in Confirmation :
              pc[g] \in Running \cup {"clearing"} /\ Target(g) = Target(f) => g = f
         /\ pc[f] \in Running => durable[Target(f)] = "claimed"
         /\ durable[Target(f)] # "pending" /\ pc[Target(f)] \notin Unstaged
  <1>1. ran[f] /\ \A g \in Confirmation : pc[g] \in Running \cup {"clearing"} => ran[g]
    BY DEF ApprovalInv, ConfirmInv
  <1>2. pc[f] # "idle"
    BY DEF Running
  <1> QED  BY <1>1, <1>2 DEF ApprovalInv, OneExecution, ConfirmInv, RunsUnderClaim, StagingInv

\* What a step of one request leaves of the others, and of what they name.
LEMMA Moved ==
  ASSUME Shape, NEW c \in Call, NEW label, Goto(c, label), UNCHANGED <<proposal, request>>
  PROVE  /\ \A d \in Call : pc'[d] = IF d = c THEN label ELSE pc[d]
         /\ \A f \in Confirmation : Target(f)' = Target(f) /\ FKey(f)' = FKey(f) /\ Target(f) \in Action
         /\ \A a \in Action : Keyed(a)' = Keyed(a) /\ PKey(a)' = PKey(a) /\ PArgs(a)' = PArgs(a)
  BY RequestTyped DEF Goto, Shape, LocalsOK, Target, FKey, PKey, PArgs, Keyed

\* A request moves on, at most records that are pending go, and nothing that
\* is recorded of a key changes.
LEMMA MoveKeeps ==
  ASSUME Shape, ApprovalInv, LedgerInv, NEW c \in Call, NEW label, Goto(c, label),
         UNCHANGED <<record, lease, dueAt, owed, proposal, request>>,
         \A a \in Action : durable'[a] = durable[a] \/ (durable'[a] = "absent" /\ durable[a] # "claimed"),
         \A a \in Action \ {c} : seen'[a] = seen[a],
         c \in Action =>
            /\ pc[c] \notin Leasing /\ label \notin Leasing \cup {"sweeping"}
            /\ label \in Unstaged => pc[c] \in Unstaged,
         c \in Confirmation =>
            /\ label # "overdue" /\ label # "queued"
            /\ label \in Running => pc[c] \in Running
            /\ label \in Sending => pc[c] \in Sending
            /\ label \in {"complete", "clearing"} /\ Keyed(Target(c)) => pc[c] \in {"queued", "complete"}
  PROVE  LedgerInv'
  <1>1. \A d \in Call : pc'[d] = IF d = c THEN label ELSE pc[d]
    BY Moved
  <1>2. /\ \A f \in Confirmation : Target(f)' = Target(f) /\ FKey(f)' = FKey(f) /\ Target(f) \in Action
        /\ \A a \in Action : Keyed(a)' = Keyed(a) /\ PKey(a)' = PKey(a) /\ PArgs(a)' = PArgs(a)
    BY Moved
  <1>3. \A a \in Action : \A places \in {Running, Sending} : Busy(a, places)' => Busy(a, places)
    <2>1. \A f \in Confirmation : \A places \in {Running, Sending} : pc'[f] \in places => pc[f] \in places
      BY <1>1, KindsDiffer
    <2> QED  BY <1>2, <2>1 DEF Busy
  <1>4. \A a \in Action : Matters(a)' => Matters(a)
    BY <1>2, <1>3 DEF Matters
  <1>5. KeyLeaseInv'
    BY <1>1, <1>2, KindsDiffer DEF LedgerInv, KeyLeaseInv
  <1>6. RecordInv' /\ TimeInv'
    BY <1>1, KindsDiffer DEF LedgerInv, RecordInv, TimeInv, Leasing
  <1>7. OwedInv'
    BY <1>1, <1>2, KindsDiffer, ProposalTyped DEF LedgerInv, OwedInv, Shape, LocalsOK, Running
  <1>8. AnswerInv'
    <2> SUFFICES ASSUME NEW a \in Action, Keyed(a), Matters(a)'
                 PROVE  Answers(a)'
      BY <1>2, <1>4 DEF LedgerInv, AnswerInv
    <2>1. Matters(a) /\ Answers(a)
      BY <1>4 DEF LedgerInv, AnswerInv
    <2>2. durable'[a] = "absent" => durable[a] = "absent"
      <3> SUFFICES ASSUME durable[a] = "pending", durable'[a] = "absent" PROVE FALSE
        BY DEF Shape, QueueOK
      <3>1. a \notin owed[PKey(a)]
        BY ProposalTyped DEF LedgerInv, OwedInv, Shape
      <3>2. ~Busy(a, Running)
        BY OneRunner DEF Busy
      <3> QED  BY <1>2, <1>3, <3>1, <3>2 DEF Matters
    <2>3. durable'[a] = "pending" => durable[a] = "pending"
      OBVIOUS
    <2> QED  BY <1>2, <1>3, <2>1, <2>2, <2>3 DEF Answers, Preview, Result
  <1>9. ASSUME NEW d \in Action PROVE ProposalInv(d)'
    BY <1>1, <1>2, <1>4, KindsDiffer DEF LedgerInv, ProposalInv, Preview, Leasing
  <1> QED  BY <1>5, <1>6, <1>7, <1>8, <1>9 DEF LedgerInv
\* The claim is published: the action matters as it did when it was pending.
LEMMA PublishKeepsLedger ==
  ASSUME Shape, ApprovalInv, LedgerInv, NEW f \in Confirmation, PublishClaim(f)
  PROVE  LedgerInv'
  <1> DEFINE t == Target(f)
  <1>1. f \in Call /\ f \notin Action /\ t \in Action /\ FProc(f) \in Proc /\ pc[f] = "claiming"
    BY RequestTyped, KindsDiffer DEF Shape, PublishClaim
  <1>2. durable[t] = "pending"
    BY <1>1 DEF ApprovalInv, ConfirmInv
  <1>3. CASE PublishFails(t) /\ Goto(f, "io_error")
    <2>1. UNCHANGED <<record, lease, owed, proposal, request, seen>>
      BY DEF PublishClaim, storeVars
    <2> QED  BY <1>1, <1>3, <2>1, MoveKeeps DEF PublishFails, Running, Sending
  <1>4. CASE Publish(FProc(f), t) /\ Goto(f, "queued")
    <2>1. \A d \in Call : pc'[d] = IF d = f THEN "queued" ELSE pc[d]
      BY <1>1, <1>4, Moved DEF PublishClaim
    <2>2. /\ \A g \in Confirmation : Target(g)' = Target(g) /\ FKey(g)' = FKey(g) /\ Target(g) \in Action
          /\ \A a \in Action : Keyed(a)' = Keyed(a) /\ PKey(a)' = PKey(a) /\ PArgs(a)' = PArgs(a)
      BY <1>1, <1>4, Moved DEF PublishClaim
    <2>3. /\ UNCHANGED <<record, lease, owed, seen, dueAt>>
          /\ durable'[t] = "claimed" /\ \A a \in Action \ {t} : durable'[a] = durable[a]
      BY <1>1, <1>4 DEF PublishClaim, Publish, storeVars, Shape, QueueOK
    <2>4. /\ Keyed(t) => t \notin owed[PKey(t)]
          /\ \A g \in Confirmation : Target(g) = t => pc[g] \notin Running
      BY <1>1, <1>2, OneRunner, ProposalTyped DEF LedgerInv, OwedInv, Shape
    <2>5. \A a \in Action \ {t} : \A places \in {Running, Sending} : Busy(a, places)' => Busy(a, places)
      BY <1>1, <2>1, <2>2, KindsDiffer DEF Busy
    <2>6. \A a \in Action : Matters(a)' => Matters(a)
      BY <1>2, <2>2, <2>3, <2>5 DEF Matters
    <2>7. KeyLeaseInv' /\ RecordInv' /\ TimeInv'
      BY <1>1, <2>1, <2>2, <2>3, KindsDiffer DEF LedgerInv, KeyLeaseInv, RecordInv, TimeInv
    <2>8. OwedInv'
      BY <1>1, <2>1, <2>2, <2>3, <2>4, KindsDiffer DEF LedgerInv, OwedInv, FKey, Shape, LocalsOK
    <2>9. AnswerInv'
      <3> SUFFICES ASSUME NEW a \in Action, Keyed(a), Matters(a)' PROVE Answers(a)'
        BY <2>2, <2>6 DEF LedgerInv, AnswerInv
      <3>1. Matters(a) /\ Answers(a)
        BY <2>6 DEF LedgerInv, AnswerInv
      <3>2. CASE a = t
        BY <1>2, <2>2, <2>3, <3>1, <3>2 DEF Answers, Preview, Result
      <3>3. CASE a # t
        BY <2>2, <2>3, <2>5, <3>1, <3>3 DEF Answers, Preview, Result
      <3> QED  BY <3>2, <3>3
    <2>10. ASSUME NEW d \in Action PROVE ProposalInv(d)'
      BY <1>1, <2>1, <2>2, <2>3, <2>6, KindsDiffer DEF LedgerInv, ProposalInv, Preview
    <2> QED  BY <2>7, <2>8, <2>9, <2>10 DEF LedgerInv
  <1> QED  BY <1>3, <1>4 DEF PublishClaim

\* The claim is cleared: the key answers for what was sent, if anything was.
LEMMA ClearKeeps ==
  ASSUME Shape, ApprovalInv, LedgerInv, NEW f \in Confirmation,
         pc[f] = "clearing", ClearClaim(Target(f)), Goto(f, "done"),
         UNCHANGED <<storeVars, proposal, request, seen, owed>>
  PROVE  LedgerInv'
  <1> DEFINE t == Target(f)
  <1>1. f \in Call /\ f \notin Action /\ t \in Action
    BY RequestTyped, KindsDiffer DEF Shape
  <1>2. \A d \in Call : pc'[d] = IF d = f THEN "done" ELSE pc[d]
    BY <1>1, Moved
  <1>3. /\ \A g \in Confirmation : Target(g)' = Target(g) /\ FKey(g)' = FKey(g) /\ Target(g) \in Action
        /\ \A a \in Action : Keyed(a)' = Keyed(a) /\ PKey(a)' = PKey(a) /\ PArgs(a)' = PArgs(a)
    BY <1>1, Moved
  <1>4. /\ UNCHANGED <<record, lease, owed, seen, dueAt>>
        /\ durable'[t] = "absent" /\ \A a \in Action \ {t} : durable'[a] = durable[a]
    BY <1>1, OneRunner DEF ClearClaim, storeVars, Shape, QueueOK
  <1>5. \A g \in Confirmation : Target(g) = t => pc[g] \notin Running
    BY <1>1, OneRunner DEF Running
  <1>6. \A a \in Action : \A places \in {Running, Sending} : Busy(a, places)' => Busy(a, places)
    BY <1>1, <1>2, <1>3, KindsDiffer DEF Busy, Running, Sending
  <1>7. \A a \in Action : Matters(a)' => Matters(a)
    BY <1>3, <1>4, <1>6 DEF Matters
  <1>8. KeyLeaseInv' /\ RecordInv' /\ TimeInv'
    BY <1>1, <1>2, <1>3, <1>4, KindsDiffer DEF LedgerInv, KeyLeaseInv, RecordInv, TimeInv
  <1>9. OwedInv'
    BY <1>1, <1>2, <1>3, <1>4, KindsDiffer DEF LedgerInv, OwedInv, Shape, LocalsOK
  <1>10. AnswerInv'
    <2> SUFFICES ASSUME NEW a \in Action, Keyed(a), Matters(a)' PROVE Answers(a)'
      BY <1>3, <1>7 DEF LedgerInv, AnswerInv
    <2>1. Matters(a) /\ Answers(a)
      BY <1>7 DEF LedgerInv, AnswerInv
    <2>2. CASE a = t
      <3>1. ~Busy(a, Running)' /\ ~Busy(a, Sending)'
        BY <1>5, <1>6, <2>2 DEF Busy, Running, Sending
      <3>2. a \in owed[PKey(a)]
        BY <1>3, <1>4, <2>2, <3>1 DEF Matters
      <3>3. record[PKey(t)].result = Result(t)
        BY <1>1, <2>2, <3>2 DEF LedgerInv, OwedInv, FKey
      <3> QED  BY <1>3, <1>4, <2>1, <2>2, <3>1, <3>3 DEF Answers, Result
    <2>3. CASE a # t
      BY <1>3, <1>4, <1>6, <2>1, <2>3 DEF Answers, Preview, Result
    <2> QED  BY <2>2, <2>3
  <1>11. ASSUME NEW d \in Action PROVE ProposalInv(d)'
    BY <1>1, <1>2, <1>3, <1>4, <1>7, KindsDiffer DEF LedgerInv, ProposalInv, Preview
  <1> QED  BY <1>8, <1>9, <1>10, <1>11 DEF LedgerInv

\* A request is sent, or refused with a 401 and queued again: the action
\* matters as long as it executes.
LEMMA DispatchKeeps ==
  ASSUME Shape, Roles, ApprovalInv, LedgerInv, NEW f \in Confirmation, Dispatch(f) \/ Unauthorized(f)
  PROVE  LedgerInv'
  <1> DEFINE t == Target(f)
             label == IF pc[f] = "queued" THEN "sent" ELSE "queued"
  <1>1. /\ f \in Call /\ f \notin Action /\ t \in Action /\ pc[f] \in {"queued", "sent"}
        /\ Keyed(t) <=> FKey(f) \in Key
    BY RequestTyped, KindsDiffer DEF Shape, Dispatch, Unauthorized, InExecution
  <1>2. Goto(f, label) /\ UNCHANGED <<record, lease, proposal, request, seen, durable, dueAt>>
    BY DEF Dispatch, Unauthorized, InExecution, storeVars, pendingVars
  <1>3. \A d \in Call : pc'[d] = IF d = f THEN label ELSE pc[d]
    BY <1>1, <1>2, Moved
  <1>4. /\ \A g \in Confirmation : Target(g)' = Target(g) /\ FKey(g)' = FKey(g) /\ Target(g) \in Action
        /\ \A a \in Action : Keyed(a)' = Keyed(a) /\ PKey(a)' = PKey(a) /\ PArgs(a)' = PArgs(a)
    BY <1>1, <1>2, Moved
  <1>5. /\ \A k \in Key \ {FKey(f)} : owed'[k] = owed[k]
        /\ Keyed(t) /\ label = "sent" => owed'[FKey(f)] = owed[FKey(f)] \cup {t}
        /\ Keyed(t) /\ label = "queued" => owed'[FKey(f)] = owed[FKey(f)] \ {t}
    BY <1>1 DEF Dispatch, Unauthorized, InExecution, SetOwed, Shape, LocalsOK
  <1>6. /\ durable[t] # "pending" /\ pc[t] \notin Unstaged
        /\ \A g \in Confirmation : pc[g] \in Running \cup {"clearing"} /\ Target(g) = t => g = f
    BY <1>1, OneRunner DEF Running
  <1>7. \A a \in Action : \A places \in {Running, Sending} : Busy(a, places)' <=> Busy(a, places)
    <2>1. \A g \in Confirmation : \A places \in {Running, Sending} : pc'[g] \in places <=> pc[g] \in places
      BY <1>1, <1>3, KindsDiffer DEF Running, Sending
    <2> QED  BY <1>4, <2>1 DEF Busy
  <1>8. Busy(t, Running) /\ FKey(f) = PKey(t)
    BY <1>1 DEF Busy, Running, FKey
  <1>9. \A a \in Action : Keyed(a) /\ Matters(a)' => Matters(a)
    <2> SUFFICES ASSUME NEW a \in Action, Keyed(a), Matters(a)', a # t PROVE Matters(a)
      BY <1>8 DEF Matters
    <2>1. PKey(a) \in Key
      BY ProposalTyped DEF Shape
    <2>2. a \in owed'[PKey(a)] => a \in owed[PKey(a)]
      BY <1>1, <1>5, <2>1
    <2> QED  BY <1>2, <1>4, <1>7, <2>2 DEF Matters
  <1>10. KeyLeaseInv' /\ RecordInv' /\ TimeInv'
    BY <1>1, <1>2, <1>3, <1>4, KindsDiffer DEF LedgerInv, KeyLeaseInv, RecordInv, TimeInv
  <1>11. OwedInv'
    <2>1. ASSUME NEW k \in Key, NEW a \in owed'[k]
          PROVE  a \in Action /\ PKey(a) = k /\ pc'[a] \notin Unstaged /\ durable'[a] # "pending"
      <3>1. (a = t /\ k = PKey(t)) \/ a \in owed[k]
        BY <1>1, <1>5, <1>8
      <3>2. owed[k] \subseteq Action
        BY DEF Shape, LocalsOK
      <3>3. a \in Action /\ PKey(a) = k /\ pc[a] \notin Unstaged /\ durable[a] # "pending"
        BY <1>1, <1>6, <3>1, <3>2 DEF LedgerInv, OwedInv
      <3> QED  BY <1>1, <1>2, <1>3, <3>3, KindsDiffer
    <2>2. ASSUME NEW g \in Confirmation, Keyed(Target(g))
          PROVE  /\ pc'[g] = "queued" => Target(g) \notin owed'[FKey(g)]
                 /\ pc'[g] \in {"complete", "clearing"} /\ Target(g) \in owed'[FKey(g)]
                      => record'[FKey(g)].result = Result(Target(g))
      <3>1. FKey(g) \in Key /\ FKey(g) = PKey(Target(g)) /\ Target(g) \in Action
        BY <2>2, RequestTyped DEF Shape, FKey
      <3>2. CASE g = f
        BY <1>1, <1>3, <1>5, <2>2, <3>2
      <3>3. CASE g # f
        <4>1. pc'[g] = pc[g]
          BY <1>3, <3>3, KindsDiffer
        <4>2. pc[g] \in {"queued", "complete", "clearing"} => Target(g) # t
          BY <1>6, <3>3 DEF Running
        <4>3. Target(g) # t => (Target(g) \in owed'[FKey(g)] <=> Target(g) \in owed[FKey(g)])
          BY <1>1, <1>5, <3>1
        <4> QED  BY <1>2, <2>2, <4>1, <4>2, <4>3 DEF LedgerInv, OwedInv
      <3> QED  BY <3>2, <3>3
    <2>3. \A k \in Key : owed'[k] \subseteq Action
      BY <2>1
    <2> QED  BY <1>4, <2>1, <2>2 DEF OwedInv, Result
  <1>12. AnswerInv'
    <2> SUFFICES ASSUME NEW a \in Action, Keyed(a), Matters(a)' PROVE Answers(a)'
      BY <1>4, <1>9, Zenon DEF LedgerInv, AnswerInv, PKey, Keyed
    <2>1. Matters(a) /\ Answers(a)
      BY <1>9 DEF LedgerInv, AnswerInv
    <2> QED  BY <1>2, <1>4, <1>7, <2>1 DEF Answers, Preview, Result
  <1>13. ASSUME NEW d \in Action PROVE ProposalInv(d)'
    <2>1. pc[d] \in Leasing => \A a \in Action : PKey(a) = PKey(d) => Keyed(a)
      BY DEF Roles, LedgerPlaces, Leasing, Keyed, PKey
    <2>2. pc'[d] = pc[d]
      BY <1>1, <1>3, KindsDiffer
    <2>3. ProposalInv(d)
      BY DEF LedgerInv
    <2> QED  BY <1>2, <1>4, <1>9, <2>1, <2>2, <2>3 DEF ProposalInv, Preview, Leasing
  <1> QED  BY <1>10, <1>11, <1>12, <1>13 DEF LedgerInv
\* A proposal that has the lease of its key, or takes it, writes the record of
\* the key: the others of that key have no lease, so it is enough to know what
\* the record says of those that matter.
LEMMA WriteKeeps ==
  ASSUME Shape, Roles, LedgerInv, NEW c \in Action, NEW label, Goto(c, label), Keyed(c),
         lease[PKey(c)] \in {NoCall, c}, lease'[PKey(c)] \in {NoCall, c},
         lease'[PKey(c)] = c <=> label \in Leasing,
         \A j \in Key \ {PKey(c)} : record'[j] = record[j] /\ lease'[j] = lease[j] /\ owed'[j] = owed[j],
         owed'[PKey(c)] \subseteq owed[PKey(c)],
         UNCHANGED <<durable, dueAt, proposal, request>>, \A a \in Action \ {c} : seen'[a] = seen[a],
         label \in Unstaged => pc[c] \in Unstaged, label \notin {"sweeping", "expiring"},
         \/ record'[PKey(c)] = record[PKey(c)]
         \/ /\ Formed(record'[PKey(c)])
            /\ \A a \in Action : PKey(a) = PKey(c) /\ Matters(a)' => Answers(a)'
            /\ \A f \in Confirmation : FKey(f) = PKey(c) /\ pc[f] \in {"complete", "clearing"}
                 /\ Target(f) \in owed'[PKey(c)] => record'[PKey(c)].result = Result(Target(f)),
         ProposalInv(c)'
  PROVE  LedgerInv'
  <1>1. PICK k \in Key : k = PKey(c)
    BY ProposalTyped DEF Shape
  <1>2. \A d \in Call : pc'[d] = IF d = c THEN label ELSE pc[d]
    BY KindsDiffer, Moved
  <1>3. /\ \A f \in Confirmation : Target(f)' = Target(f) /\ FKey(f)' = FKey(f) /\ Target(f) \in Action
        /\ \A a \in Action : Keyed(a)' = Keyed(a) /\ PKey(a)' = PKey(a) /\ PArgs(a)' = PArgs(a)
    BY KindsDiffer, Moved
  <1>4. c \in Call /\ c # NoCall /\ \A f \in Confirmation : pc'[f] = pc[f]
    BY <1>2, KindsDiffer, NoCallAssumption
  <1>5. \A a \in Action : \A places : Busy(a, places)' <=> Busy(a, places)
    BY <1>3, <1>4 DEF Busy
  <1>6. \A a \in Action : Keyed(a) /\ Matters(a)' => Matters(a)
    <2> SUFFICES ASSUME NEW a \in Action, Keyed(a), Matters(a)' PROVE Matters(a)
      OBVIOUS
    <2>1. PKey(a) \in Key
      BY ProposalTyped DEF Shape
    <2>2. a \in owed'[PKey(a)] => a \in owed[PKey(a)]
      BY <1>1, <2>1
    <2> QED  BY <1>3, <1>5, <2>2 DEF Matters
  <1>7. KeyLeaseInv'
    <2>1. ASSUME NEW j \in Key, lease'[j] # NoCall
          PROVE  lease'[j] \in Action /\ PKey(lease'[j]) = j /\ pc'[lease'[j]] \in Leasing
      <3>1. CASE j = k
        BY <1>1, <1>2, <1>4, <2>1, <3>1
      <3>2. CASE j # k
        BY <1>1, <1>2, <1>4, <2>1, <3>2, KindsDiffer DEF LedgerInv, KeyLeaseInv
      <3> QED  BY <3>1, <3>2
    <2>2. ASSUME NEW d \in Action, pc'[d] \in Leasing PROVE lease'[PKey(d)] = d
      <3>1. CASE d = c
        BY <1>2, <1>4, <2>2, <3>1
      <3>2. CASE d # c
        <4>1. pc[d] \in Leasing
          BY <1>2, <2>2, <3>2, KindsDiffer
        <4>2. lease[PKey(d)] = d /\ PKey(d) \in Key
          BY <4>1, ProposalTyped DEF LedgerInv, KeyLeaseInv, Roles, LedgerPlaces, Leasing, Shape
        <4> QED  BY <1>1, <3>2, <4>2, KindsDiffer, NoCallAssumption
      <3> QED  BY <3>1, <3>2
    <2> QED  BY <1>3, <2>1, <2>2 DEF KeyLeaseInv
  <1>8. RecordInv'
    BY <1>1 DEF LedgerInv, RecordInv
  <1>9. TimeInv'
    BY <1>2, <1>4, KindsDiffer DEF LedgerInv, TimeInv, Leasing
  <1>10. OwedInv'
    <2>1. ASSUME NEW j \in Key PROVE owed'[j] \subseteq owed[j] /\ owed[j] \subseteq Action
      BY <1>1 DEF Shape, LocalsOK
    <2>2. ASSUME NEW j \in Key, NEW a \in owed'[j]
          PROVE  a \in Action /\ PKey(a) = j /\ pc'[a] \notin Unstaged /\ durable'[a] # "pending"
      BY <1>2, <2>1, KindsDiffer DEF LedgerInv, OwedInv
    <2>3. ASSUME NEW f \in Confirmation, Keyed(Target(f))
          PROVE  /\ pc'[f] = "queued" => Target(f) \notin owed'[FKey(f)]
                 /\ pc'[f] \in {"complete", "clearing"} /\ Target(f) \in owed'[FKey(f)]
                      => record'[FKey(f)].result = Result(Target(f))
      <3>1. FKey(f) \in Key
        BY <2>3, RequestTyped DEF Shape
      <3> QED  BY <1>1, <1>4, <2>1, <2>3, <3>1 DEF LedgerInv, OwedInv
    <2> QED  BY <1>3, <2>1, <2>2, <2>3 DEF OwedInv, Result
  <1>11. AnswerInv'
    <2> SUFFICES ASSUME NEW a \in Action, Keyed(a), Matters(a)' PROVE Answers(a)'
      BY <1>3, <1>6, Zenon DEF LedgerInv, AnswerInv, PKey, Keyed
    <2>1. Matters(a) /\ Answers(a) /\ PKey(a) \in Key
      BY <1>6, ProposalTyped DEF LedgerInv, AnswerInv, Shape
    <2>2. CASE record'[PKey(a)] = record[PKey(a)]
      BY <1>3, <1>5, <2>1, <2>2 DEF Answers, Preview, Result
    <2> QED  BY <1>1, <2>1, <2>2
  <1>12. ASSUME NEW d \in Action PROVE ProposalInv(d)'
    <2> SUFFICES ASSUME d # c PROVE ProposalInv(d)'
      OBVIOUS
    <2>1. pc'[d] = pc[d] /\ seen'[d] = seen[d] /\ ProposalInv(d)
      BY <1>2, KindsDiffer DEF LedgerInv
    <2>2. CASE pc[d] \in Leasing
      <3>1. PKey(d) \in Key /\ PKey(d) # k
        <4>1. lease[PKey(d)] = d /\ PKey(d) \in Key
          BY <2>2, ProposalTyped DEF LedgerInv, KeyLeaseInv, Roles, LedgerPlaces, Leasing, Shape
        <4> QED  BY <1>1, <4>1, KindsDiffer, NoCallAssumption
      <3>2. record'[PKey(d)] = record[PKey(d)] /\ \A a \in Action : PKey(a) = PKey(d) => Keyed(a)
        BY <1>1, <3>1, ProposalTyped DEF Shape
      <3> QED  BY <1>3, <1>6, <2>1, <3>2 DEF ProposalInv, Preview
    <2>3. CASE pc[d] \notin Leasing
      BY <2>1, <2>3 DEF ProposalInv, Leasing
    <2> QED  BY <2>2, <2>3
  <1> QED  BY <1>7, <1>8, <1>9, <1>10, <1>11, <1>12 DEF LedgerInv
\* A payload is not the lack of one, and a preview is not a result.
LEMMA PayloadsDiffer ==
  ASSUME NEW a \in Action, NEW b \in Action
  PROVE  /\ Preview(a) # NoPayload /\ Result(a) # NoPayload /\ Preview(a) # Result(b)
         /\ Preview(a) = Preview(b) => a = b
  <1>1. Preview(a) \in Payload /\ Result(a) \in Payload
    BY CallerAssumption DEF Preview, Result
  <1>2. Preview(a).kind # Result(b).kind /\ Preview(a).of = a /\ Preview(b).of = b
    BY DEF Preview, Result
  <1> QED  BY <1>1, <1>2, LedgerAssumption

\* The key is free for a proposal: whatever mattered to it is over.
LEMMA ClaimKeeps ==
  ASSUME Shape, Roles, ApprovalInv, LedgerInv, NEW c \in Action, Claim(c)
  PROVE  LedgerInv'
  <1>1. /\ pc[c] = "lock" /\ Keyed(c) /\ PKey(c) \in Key /\ c # NoCall
    BY ProposalTyped, KindsDiffer, NoCallAssumption DEF Claim, TakesLease, Roles, LedgerPlaces, Shape
  <1>2. /\ lease[PKey(c)] = NoCall /\ lease'[PKey(c)] = c
        /\ record'[PKey(c)] = Absent /\ owed'[PKey(c)] = {}
        /\ \A j \in Key \ {PKey(c)} : record'[j] = record[j] /\ lease'[j] = lease[j] /\ owed'[j] = owed[j]
        /\ UNCHANGED <<durable, dueAt, proposal, request, seen>> /\ Goto(c, "reserve")
    BY <1>1 DEF Claim, TakesLease, pendingVars, Shape, LedgerOK, LocalsOK
  <1>3. \A a \in Action : Busy(a, Running)' => Busy(a, Running)
    <2>1. \A f \in Confirmation : pc'[f] = pc[f] /\ Target(f)' = Target(f)
      BY <1>2, KindsDiffer, Moved
    <2> QED  BY <2>1 DEF Busy
  <1>4. ASSUME NEW a \in Action, PKey(a) = PKey(c), durable[a] = "pending" \/ Busy(a, Running)
        PROVE  FALSE
    <2>1. Matters(a) /\ Answers(a) /\ PRec(c) = record[PKey(a)] /\ Formed(PRec(c))
      BY <1>1, <1>4 DEF Matters, LedgerInv, AnswerInv, RecordInv, PRec, Keyed, PKey
    <2>2. PRec(c).state # "in_flight" /\ PRec(c).result # Preview(a)
      BY DEF Claim, Usable, ShowsPreview, PRec
    <2>3. PRec(c).state # "indeterminate"
      BY <2>1 DEF Claim, Usable, InForce, PRec, Formed
    <2>4. PRec(c).result = Result(a) /\ durable[a] # "pending" /\ PRec(c).argsHash = PArgs(a)
      BY <2>1, <2>2, <2>3 DEF Answers
    <2>5. durable[a] = "claimed"
      BY <1>4, <2>4, OneRunner DEF Busy
    <2>6. PRec(c).state = "completed" /\ PArgs(a) = PArgs(c)
      BY <2>1, <2>4, PayloadsDiffer DEF Formed, Claim, Usable, Conflicts, PRec
    <2>7. Claimed(c)
      BY <1>4, <2>5, <2>6 DEF Claimed
    <2> QED  BY <2>6, <2>7 DEF Claim, Usable, Replays, PRec
  <1>5. \A a \in Action : PKey(a) = PKey(c) => ~Matters(a)'
    <2>1. \A a \in Action : PKey(a)' = PKey(a)
      BY <1>2 DEF PKey
    <2> QED  BY <1>2, <1>3, <1>4, <2>1 DEF Matters
  <1>6. ProposalInv(c)'
    <2>1. pc'[c] = "reserve" /\ \A a \in Action : PKey(a)' = PKey(a)
      BY <1>2, KindsDiffer, Moved
    <2> QED  BY <1>2, <1>5, <2>1 DEF ProposalInv, Absent
  <1>7. Formed(Absent)
    BY DEF Formed, Absent
  <1> QED  BY <1>1, <1>2, <1>5, <1>6, <1>7, WriteKeeps DEF Leasing, Unstaged

\* A preview is opened for the life of its action to be looked up.
LEMMA OpenKeeps ==
  ASSUME Shape, Roles, LedgerInv, NEW c \in Action, OpenPreview(c)
  PROVE  LedgerInv'
  <1>1. /\ pc[c] = "lock" /\ Keyed(c) /\ PKey(c) \in Key /\ c # NoCall
    BY ProposalTyped, KindsDiffer, NoCallAssumption DEF OpenPreview, TakesLease, Roles, LedgerPlaces, Shape
  <1>2. /\ lease[PKey(c)] = NoCall /\ lease'[PKey(c)] = c /\ UNCHANGED <<record, owed>>
        /\ \A j \in Key \ {PKey(c)} : lease'[j] = lease[j]
        /\ UNCHANGED <<durable, dueAt, proposal, request>> /\ Goto(c, "judging")
        /\ seen'[c] = PRec(c).result.of /\ \A a \in Action \ {c} : seen'[a] = seen[a]
    BY <1>1 DEF OpenPreview, TakesLease, pendingVars, Shape, LedgerOK, LocalsOK
  <1>3. ProposalInv(c)'
    <2>1. pc'[c] = "judging" /\ PKey(c)' = PKey(c) /\ PArgs(c)' = PArgs(c)
      BY <1>2, KindsDiffer, Moved
    <2>2. PRec(c).result = Preview(seen'[c]) /\ PRec(c).result.of \in Action
      BY <1>2, PreviewNamesAction DEF OpenPreview
    <2>3. PRec(c).state # "absent"
      BY <1>1, <1>2, <2>2, PayloadsDiffer DEF LedgerInv, RecordInv, Formed, PRec
    <2>4. PRec(c).argsHash = PArgs(c)
      BY <2>3 DEF OpenPreview, Conflicts, PRec
    <2> QED  BY <1>2, <2>1, <2>2, <2>4 DEF ProposalInv, PRec, Preview
  <1> QED  BY <1>1, <1>2, <1>3, WriteKeeps DEF Leasing, Unstaged

\* The preview is replayed, or its action is gone and the key is free.
LEMMA JudgeKeeps ==
  ASSUME Undisturbed, Shape, Roles, LedgerInv, NEW c \in Action, JudgePreview(c)
  PROVE  LedgerInv'
  <1>1. /\ pc[c] = "judging" /\ Keyed(c) /\ PKey(c) \in Key /\ c # NoCall /\ seen[c] \in Action
        /\ lease[PKey(c)] = c
    BY ProposalTyped, KindsDiffer, NoCallAssumption
    DEF JudgePreview, Roles, LedgerPlaces, Shape, LedgerInv, KeyLeaseInv, Leasing
  <1>2. PRec(c).result = Preview(seen[c])
    BY <1>1 DEF LedgerInv, ProposalInv, PRec
  <1>3. UNCHANGED <<durable, dueAt, proposal, request, owed>>
    BY DEF JudgePreview
  <1>4. CASE ReplayRecord(c) /\ ReleaseLease(c) /\ DoneSeen(c) /\ UNCHANGED record
    <2>1. /\ lease'[PKey(c)] = NoCall /\ \A j \in Key \ {PKey(c)} : lease'[j] = lease[j]
          /\ Goto(c, "served") /\ \A a \in Action \ {c} : seen'[a] = seen[a]
      BY <1>1, <1>4 DEF ReplayRecord, ReleaseLease, DoneSeen, Shape, LedgerOK, LocalsOK
    <2>2. ProposalInv(c)'
      BY <1>3, <2>1, KindsDiffer, Moved DEF ProposalInv
    <2> QED  BY <1>1, <1>3, <1>4, <2>1, <2>2, WriteKeeps DEF Leasing, Unstaged
  <1>5. CASE /\ Activity(PProc(c), seen[c]) = "gone" /\ record' = [record EXCEPT ![PKey(c)] = Absent]
             /\ Goto(c, "reserve") /\ DoneSeen(c) /\ UNCHANGED lease
    <2>1. /\ record'[PKey(c)] = Absent /\ \A j \in Key \ {PKey(c)} : record'[j] = record[j]
          /\ \A a \in Action \ {c} : seen'[a] = seen[a]
      BY <1>1, <1>5 DEF DoneSeen, Shape, LedgerOK, LocalsOK
    <2>2. durable[seen[c]] = "absent"
      BY <1>1, <1>5, Zenon DEF Activity
    <2>3. ASSUME NEW a \in Action, PKey(a) = PKey(c), Matters(a) PROVE FALSE
      <3>1. Answers(a) /\ PRec(c) = record[PKey(a)] /\ Formed(PRec(c))
        BY <1>1, <2>3 DEF LedgerInv, AnswerInv, RecordInv, PRec, Keyed, PKey
      <3>2. PRec(c).state = "completed"
        BY <1>1, <1>2, <3>1, PayloadsDiffer DEF Formed
      <3>3. PRec(c).result # Result(a) /\ (PRec(c).result = Preview(a) => a = seen[c])
        BY <1>1, <1>2, PayloadsDiffer
      <3> QED  BY <2>2, <3>1, <3>2, <3>3 DEF Answers
    <2>4. /\ pc'[c] = "reserve" /\ \A a \in Action : PKey(a)' = PKey(a)
          /\ \A f \in Confirmation : pc'[f] = pc[f] /\ Target(f)' = Target(f)
      BY <1>3, <1>5, KindsDiffer, Moved
    <2>5. \A a \in Action : PKey(a) = PKey(c) => ~Matters(a)'
      BY <1>3, <2>3, <2>4 DEF Matters, Busy
    <2>6. ProposalInv(c)'
      BY <2>1, <2>4, <2>5 DEF ProposalInv, Absent
    <2>7. Formed(Absent)
      BY DEF Formed, Absent
    <2>8. \A f \in Confirmation : FKey(f) = PKey(c) /\ pc[f] \in {"complete", "clearing"}
                 => Target(f) \notin owed[PKey(c)]
      <3> SUFFICES ASSUME NEW f \in Confirmation, FKey(f) = PKey(c), Target(f) \in owed[PKey(c)] PROVE FALSE
        OBVIOUS
      <3>1. Target(f) \in Action
        BY RequestTyped DEF Shape
      <3> QED  BY <2>3, <3>1 DEF Matters, FKey
    <2> QED  BY <1>1, <1>3, <1>5, <2>1, <2>5, <2>6, <2>7, <2>8, WriteKeeps DEF Leasing, Unstaged
  <1>6. Activity(PProc(c), seen[c]) # "overdue"
    BY <1>1, NeverOverdue DEF LedgerInv, Activity, Shape, QueueOK
  <1> QED  BY <1>4, <1>5, <1>6 DEF JudgePreview
\* The key is reserved, its action is refused, or the preview is recorded.
LEMMA ReserveKeeps ==
  ASSUME Undisturbed, Shape, Roles, LedgerInv, NEW c \in Action,
         Reserve(c) \/ StageRefused(c) \/ RecordPreview(c)
  PROVE  LedgerInv'
  <1> DEFINE rec == record'[PKey(c)]
  <1>1. /\ pc[c] \in {"reserve", "staging", "staged"} /\ Keyed(c) /\ PKey(c) \in Key /\ c # NoCall
        /\ lease[PKey(c)] = c
    BY ProposalTyped, KindsDiffer, NoCallAssumption
    DEF Reserve, StageRefused, RecordPreview, Roles, LedgerPlaces, Shape, LedgerInv, KeyLeaseInv, Leasing
  <1>2. /\ UNCHANGED <<durable, dueAt, proposal, request, owed, seen>>
        /\ \A j \in Key \ {PKey(c)} : record'[j] = record[j] /\ lease'[j] = lease[j]
    BY <1>1 DEF Reserve, StageRefused, RecordPreview, ReleaseLease, pendingVars, Shape, LedgerOK
  <1>3. /\ \A a \in Action : PKey(a) = PKey(c) /\ Matters(a) => a = c /\ pc[c] = "staged"
        /\ PRec(c).state \in {"absent", "in_flight"}
        /\ pc[c] = "staged" => PRec(c).state = "in_flight"
        /\ Formed(PRec(c))
    BY <1>1 DEF LedgerInv, ProposalInv, RecordInv, PRec
  <1>4. \A f \in Confirmation : FKey(f) = PKey(c) /\ pc[f] \in {"complete", "clearing"}
             => Target(f) \notin owed[PKey(c)]
    <2> SUFFICES ASSUME NEW f \in Confirmation, FKey(f) = PKey(c), Target(f) \in owed[PKey(c)],
                        pc[f] \in {"complete", "clearing"}
                 PROVE  FALSE
      OBVIOUS
    <2>1. Target(f) \in Action /\ Keyed(Target(f))
      BY <1>1, RequestTyped DEF Shape
    <2>2. PRec(c).result = Result(Target(f))
      BY <2>1 DEF LedgerInv, OwedInv, PRec
    <2> QED  BY <1>3, <2>1, <2>2, PayloadsDiffer DEF Formed
  <1>5. ASSUME NEW label, Goto(c, label)
        PROVE  /\ pc'[c] = label /\ PKey(c)' = PKey(c) /\ \A a \in Action : PKey(a)' = PKey(a) /\ PArgs(a)' = PArgs(a)
               /\ \A a \in Action : \A places : Busy(a, places)' <=> Busy(a, places)
               /\ \A a \in Action : Matters(a)' <=> Matters(a)
    <2>1. /\ pc'[c] = label /\ \A a \in Action : PKey(a)' = PKey(a) /\ PArgs(a)' = PArgs(a)
          /\ \A f \in Confirmation : pc'[f] = pc[f] /\ Target(f)' = Target(f)
      BY <1>2, <1>5, KindsDiffer, Moved
    <2>2. \A a \in Action : \A places : Busy(a, places)' <=> Busy(a, places)
      BY <2>1 DEF Busy
    <2> QED  BY <1>2, <2>1, <2>2 DEF Matters
  <1>6. CASE Reserve(c)
    <2>1. /\ rec = Reservation(PArgs(c), began[c]) /\ Goto(c, "staging") /\ UNCHANGED lease
          /\ pc[c] = "reserve"
      BY <1>1, <1>6 DEF Reserve, Undisturbed, Shape, LedgerOK
    <2>2. \A a \in Action : PKey(a) = PKey(c) => ~Matters(a)'
      BY <1>3, <1>5, <2>1
    <2>3. ProposalInv(c)' /\ Formed(rec)
      BY <1>5, <2>1, <2>2 DEF ProposalInv, Reservation, Formed
    <2> QED  BY <1>1, <1>2, <1>4, <2>1, <2>2, <2>3, WriteKeeps DEF Leasing, Unstaged
  <1>7. CASE StageRefused(c)
    <2>1. /\ rec = Absent /\ lease'[PKey(c)] = NoCall /\ pc[c] = "staging"
      BY <1>1, <1>7 DEF StageRefused, ReleaseLease, Shape, LedgerOK
    <2>2. PICK label \in {"limit", "io_error"} : Goto(c, label)
      BY <1>7 DEF StageRefused
    <2>3. \A a \in Action : PKey(a) = PKey(c) => ~Matters(a)'
      BY <1>3, <1>5, <2>1, <2>2
    <2>4. ProposalInv(c)' /\ Formed(rec)
      BY <1>5, <2>1, <2>2, <2>3 DEF ProposalInv, Absent, Formed
    <2> QED  BY <1>1, <1>2, <1>4, <2>1, <2>2, <2>3, <2>4, WriteKeeps DEF Leasing, Unstaged
  <1>8. CASE RecordPreview(c)
    <2>1. /\ rec = Completed(PArgs(c), Preview(c)) /\ lease'[PKey(c)] = NoCall /\ pc[c] = "staged"
          /\ Goto(c, "served")
      BY <1>1, <1>8 DEF RecordPreview, ReleaseLease, Undisturbed, Shape, LedgerOK
    <2>2. ASSUME NEW a \in Action, PKey(a) = PKey(c), Matters(a)' PROVE Answers(a)'
      <3>1. a = c /\ Matters(c)
        BY <1>3, <1>5, <2>1, <2>2
      <3>2. Answers(c)
        BY <1>1, <3>1 DEF LedgerInv, AnswerInv
      <3>3. durable[c] # "absent"
        BY <1>3, <2>1, <3>2, PayloadsDiffer DEF Answers, PRec, Formed
      <3> QED  BY <1>2, <1>5, <2>1, <3>1, <3>3 DEF Answers, Completed, Preview
    <2>3. ProposalInv(c)' /\ Formed(rec)
      BY <1>5, <2>1 DEF ProposalInv, Completed, Formed
    <2> QED  BY <1>1, <1>2, <1>4, <2>1, <2>2, <2>3, WriteKeeps DEF Leasing, Unstaged
  <1> QED  BY <1>6, <1>7, <1>8

\* An action is staged: nothing else matters to its key.
LEMMA StageKeepsLedger ==
  ASSUME Shape, Roles, LedgerInv, NEW c \in Action,
         StageAction(c) \/ (StageUnkeyed(c) /\ Stage(PProc(c), c) /\ Goto(c, "served"))
  PROVE  LedgerInv'
  <1>1. PICK label : /\ Goto(c, label)
                     /\ \/ pc[c] = "staging" /\ label = "staged" /\ Keyed(c)
                        \/ pc[c] = "idle" /\ label = "served" /\ ~Keyed(c)
    BY DEF StageAction, StageUnkeyed, Roles, LedgerPlaces
  <1>2. /\ durable'[c] = "pending" /\ dueAt'[c] = now + PendingTtl
        /\ \A a \in Action \ {c} : durable'[a] = durable[a] /\ dueAt'[a] = dueAt[a]
        /\ UNCHANGED <<record, lease, owed, seen, proposal, request>> /\ Stage(PProc(c), c)
    BY DEF StageAction, StageUnkeyed, Stage, storeVars, Shape, QueueOK
  <1>3. \A d \in Call : pc'[d] = IF d = c THEN label ELSE pc[d]
    BY <1>1, <1>2, KindsDiffer, Moved
  <1>4. /\ \A f \in Confirmation : Target(f)' = Target(f) /\ FKey(f)' = FKey(f) /\ Target(f) \in Action
        /\ \A a \in Action : Keyed(a)' = Keyed(a) /\ PKey(a)' = PKey(a) /\ PArgs(a)' = PArgs(a)
    BY <1>1, <1>2, KindsDiffer, Moved
  <1>5. \A a \in Action : \A places : Busy(a, places)' <=> Busy(a, places)
    <2>1. \A f \in Confirmation : pc'[f] = pc[f]
      BY <1>3, KindsDiffer
    <2> QED  BY <1>4, <2>1 DEF Busy
  <1>6. \A a \in Action \ {c} : Matters(a)' <=> Matters(a)
    BY <1>2, <1>4, <1>5 DEF Matters
  <1>7. Keyed(c) => /\ PRec(c).state = "in_flight" /\ PRec(c).argsHash = PArgs(c)
                    /\ \A a \in Action : PKey(a) = PKey(c) => ~Matters(a)
                    /\ lease[PKey(c)] = c
    BY <1>1 DEF LedgerInv, ProposalInv, KeyLeaseInv, PRec, Leasing
  <1>8. KeyLeaseInv' /\ RecordInv'
    BY <1>1, <1>2, <1>3, <1>4, KindsDiffer DEF LedgerInv, KeyLeaseInv, RecordInv, Leasing
  <1>9. TimeInv'
    <2>1. now \in Nat /\ PendingTtl \in Nat
      BY ClockAssumption, PendingAssumption DEF Shape, LedgerOK
    <2> QED  BY <1>1, <1>2, <1>3, <2>1, KindsDiffer DEF LedgerInv, TimeInv
  <1>10. OwedInv'
    <2>1. \A k \in Key : c \notin owed[k] /\ owed[k] \subseteq Action
      BY <1>1 DEF LedgerInv, OwedInv, Unstaged, Shape, LocalsOK
    <2> QED  BY <1>1, <1>2, <1>3, <1>4, <2>1, KindsDiffer DEF LedgerInv, OwedInv, Result, Unstaged
  <1>11. AnswerInv'
    <2> SUFFICES ASSUME NEW a \in Action, Keyed(a), Matters(a)'
                 PROVE  Answers(a)' /\ \A b \in Action : PKey(b) = PKey(a) /\ Matters(b)' => a = b
      BY <1>4, Zenon DEF AnswerInv, PKey, Keyed
    <2>1. CASE a = c
      <3>1. Answers(a)'
        BY <1>2, <1>4, <1>7, <2>1 DEF Answers, PRec
      <3> QED  BY <1>6, <1>7, <2>1, <3>1
    <2>2. CASE a # c
      <3>1. Matters(a) /\ Answers(a)
        BY <1>6, <2>2 DEF LedgerInv, AnswerInv
      <3>2. PKey(a) # PKey(c)
        BY <1>7, <3>1 DEF PKey, Keyed
      <3>3. Answers(a)'
        BY <1>2, <1>4, <1>5, <2>2, <3>1 DEF Answers, Preview, Result
      <3> QED  BY <1>6, <3>1, <3>2, <3>3 DEF LedgerInv, AnswerInv
    <2> QED  BY <2>1, <2>2
  <1>12. ASSUME NEW d \in Action PROVE ProposalInv(d)'
    <2>1. CASE d = c
      <3>1. pc'[c] = label /\ label \notin {"judging", "reserve", "staging"}
        BY <1>1, <1>3, KindsDiffer
      <3> QED  BY <1>1, <1>2, <1>4, <1>6, <1>7, <2>1, <3>1 DEF ProposalInv, PRec
    <2>2. CASE d # c
      <3>1. pc'[d] = pc[d] /\ ProposalInv(d)
        BY <1>3, <2>2, KindsDiffer DEF LedgerInv
      <3>2. pc[d] \in Leasing => PKey(d) # PKey(c)
        <4> SUFFICES ASSUME pc[d] \in Leasing, PKey(d) = PKey(c) PROVE FALSE
          OBVIOUS
        <4>1. Keyed(d) /\ lease[PKey(d)] = d
          BY DEF Roles, LedgerPlaces, Leasing, LedgerInv, KeyLeaseInv
        <4>2. Keyed(c)
          BY <4>1 DEF Keyed, PKey
        <4> QED  BY <1>7, <2>2, <4>1, <4>2
      <3> QED  BY <1>2, <1>4, <1>6, <3>1, <3>2 DEF ProposalInv, Preview, Leasing
    <2> QED  BY <2>1, <2>2
  <1> QED  BY <1>8, <1>9, <1>10, <1>11, <1>12 DEF LedgerInv
\* What a confirmation that records its outcome finds under the lease: the
\* reservation or the preview of its action, the only one that matters.
LEMMA OutcomeFinds ==
  ASSUME Shape, ApprovalInv, LedgerInv, NEW f \in Confirmation, pc[f] \in {"storing", "lost"}, Keyed(Target(f))
  PROVE  /\ Matters(Target(f)) /\ durable[Target(f)] = "claimed"
         /\ record[FKey(f)].argsHash = PArgs(Target(f))
         /\ record[FKey(f)].state = "in_flight" \/ record[FKey(f)].result = Preview(Target(f))
         /\ record[FKey(f)].state # "absent"
  <1> DEFINE a == Target(f)
  <1>1. a \in Action /\ FKey(f) \in Key /\ FKey(f) = PKey(a)
    BY RequestTyped DEF Shape, FKey
  <1>2. Busy(a, Running) /\ Busy(a, Sending) /\ durable[a] = "claimed"
    BY OneRunner DEF Busy, Running, Sending
  <1>3. Matters(a) /\ Answers(a)
    BY <1>1, <1>2 DEF Matters, LedgerInv, AnswerInv
  <1>4. record[FKey(f)].state = "in_flight" \/ record[FKey(f)].result = Preview(a)
    BY <1>1, <1>2, <1>3 DEF Answers
  <1>5. record[FKey(f)].state # "absent"
    BY <1>1, <1>4, PayloadsDiffer DEF LedgerInv, RecordInv, Formed
  <1> QED  BY <1>1, <1>2, <1>3, <1>4, <1>5 DEF Answers

\* The outcome of an execution is recorded, whatever the record holds by then:
\* it is that of the same action.
LEMMA OutcomeKeeps ==
  ASSUME Shape, Roles, ApprovalInv, LedgerInv, NEW f \in Confirmation,
         NEW label \in {"complete", "unknown"}, Goto(f, label),
         pc[f] \in {"storing", "lost"}, Keyed(Target(f)), lease[FKey(f)] = NoCall,
         NEW rec, record' = [record EXCEPT ![FKey(f)] = rec], Formed(rec),
         rec.argsHash = PArgs(Target(f)),
         \/ rec.result = Result(Target(f))
         \/ rec.state = "indeterminate" /\ label = "unknown",
         UNCHANGED <<lease, owed, seen, durable, dueAt, proposal, request>>
  PROVE  LedgerInv'
  <1>1. /\ f \in Call /\ f \notin Action /\ Target(f) \in Action /\ FKey(f) \in Key
        /\ FKey(f) = PKey(Target(f))
    BY RequestTyped, KindsDiffer DEF Shape, FKey
  <1>2. PICK t \in Action : t = Target(f)
    BY <1>1
  <1>3. PICK k \in Key : k = FKey(f)
    BY <1>1
  <1>4. record'[k] = rec /\ \A j \in Key \ {k} : record'[j] = record[j]
    BY <1>3 DEF Shape, LedgerOK
  <1>5. \A d \in Call : pc'[d] = IF d = f THEN label ELSE pc[d]
    BY <1>1, Moved
  <1>6. /\ \A g \in Confirmation : Target(g)' = Target(g) /\ FKey(g)' = FKey(g) /\ Target(g) \in Action
        /\ \A a \in Action : Keyed(a)' = Keyed(a) /\ PKey(a)' = PKey(a) /\ PArgs(a)' = PArgs(a)
    BY <1>1, Moved
  <1>7. \A a \in Action : \A places \in {Running, Sending} : Busy(a, places)' => Busy(a, places)
    <2>1. \A g \in Confirmation : \A places \in {Running, Sending} : pc'[g] \in places => pc[g] \in places
      BY <1>1, <1>5, KindsDiffer DEF Running, Sending
    <2> QED  BY <1>6, <2>1 DEF Busy
  <1>8. \A a \in Action : Matters(a)' => Matters(a)
    BY <1>6, <1>7 DEF Matters
  <1>9. /\ \A a \in Action : PKey(a) = k /\ Matters(a) => a = t
        /\ durable[t] = "claimed"
    BY <1>1, <1>2, <1>3, OutcomeFinds DEF LedgerInv, AnswerInv
  <1>10. \A g \in Confirmation : Target(g) = t /\ pc[g] \in Running \cup {"clearing"} => g = f
    BY <1>2, OneRunner DEF Running
  <1>11. KeyLeaseInv' /\ TimeInv'
    BY <1>1, <1>5, <1>6, KindsDiffer DEF LedgerInv, KeyLeaseInv, TimeInv
  <1>12. RecordInv'
    BY <1>4 DEF LedgerInv, RecordInv
  <1>13. OwedInv'
    <2>1. ASSUME NEW g \in Confirmation, Keyed(Target(g))
          PROVE  /\ pc'[g] = "queued" => Target(g) \notin owed[FKey(g)]
                 /\ pc'[g] \in {"complete", "clearing"} /\ Target(g) \in owed[FKey(g)]
                      => record'[FKey(g)].result = Result(Target(g))
      <3>1. FKey(g) \in Key /\ FKey(g) = PKey(Target(g)) /\ Target(g) \in Action
        BY <2>1, RequestTyped DEF Shape, FKey
      <3>2. CASE g = f
        BY <1>1, <1>2, <1>3, <1>4, <1>5, <3>2
      <3>3. CASE g # f
        <4>1. pc'[g] = pc[g]
          BY <1>5, <3>3, KindsDiffer
        <4>2. CASE FKey(g) # k
          BY <1>4, <2>1, <3>1, <4>1, <4>2 DEF LedgerInv, OwedInv
        <4>3. CASE FKey(g) = k /\ Target(g) \in owed[k] /\ pc[g] \in {"complete", "clearing"}
          <5>1. Matters(Target(g))
            BY <3>1, <4>3 DEF Matters
          <5> QED  BY <1>9, <1>10, <3>1, <3>3, <4>3, <5>1 DEF Running
        <4> QED  BY <2>1, <4>1, <4>2, <4>3 DEF LedgerInv, OwedInv
      <3> QED  BY <3>2, <3>3
    <2>2. \A j \in Key : \A a \in owed[j] : a \in Action /\ pc'[a] = pc[a]
      BY <1>1, <1>5, KindsDiffer DEF Shape, LocalsOK
    <2> QED  BY <1>6, <2>1, <2>2 DEF LedgerInv, OwedInv, Result
  <1>14. AnswerInv'
    <2> SUFFICES ASSUME NEW a \in Action, Keyed(a), Matters(a)' PROVE Answers(a)'
      BY <1>6, <1>8 DEF LedgerInv, AnswerInv
    <2>1. Matters(a) /\ Answers(a) /\ PKey(a) \in Key
      BY <1>8, ProposalTyped DEF LedgerInv, AnswerInv, Shape
    <2>2. CASE PKey(a) = k
      <3>1. a = t
        BY <1>9, <2>1, <2>2
      <3>2. ~Busy(t, Sending)' /\ (label = "unknown" => ~Busy(t, Running)')
        <4>1. \A g \in Confirmation : Target(g)' = t /\ pc'[g] \in Running \cup Sending => g = f
          BY <1>5, <1>6, <1>7, <1>10, KindsDiffer DEF Running, Sending
        <4>2. pc'[f] = label /\ label \notin Sending /\ (label = "unknown" => label \notin Running)
          BY <1>1, <1>5 DEF Running, Sending
        <4> QED  BY <4>1, <4>2 DEF Busy
      <3> QED  BY <1>2, <1>4, <1>6, <1>9, <2>2, <3>1, <3>2 DEF Answers, Result
    <2>3. CASE PKey(a) # k
      BY <1>4, <1>6, <1>7, <2>1, <2>3 DEF Answers, Preview, Result
    <2> QED  BY <2>2, <2>3
  <1>15. ASSUME NEW d \in Action PROVE ProposalInv(d)'
    <2>1. pc'[d] = pc[d] /\ ProposalInv(d)
      BY <1>1, <1>5, KindsDiffer DEF LedgerInv
    <2>2. pc[d] \in Leasing => PKey(d) \in Key /\ PKey(d) # k
      BY <1>3, ProposalTyped, KindsDiffer, NoCallAssumption
      DEF LedgerInv, KeyLeaseInv, Roles, LedgerPlaces, Leasing, Shape
    <2> QED  BY <1>4, <1>6, <1>8, <2>1, <2>2 DEF ProposalInv, Preview, Leasing
  <1> QED  BY <1>11, <1>12, <1>13, <1>14, <1>15 DEF LedgerInv

\* The result replaces the preview, or the preview becomes a hold.
LEMMA StoreKeeps ==
  ASSUME Shape, Roles, ApprovalInv, LedgerInv, NEW f \in Confirmation, StoreResult(f) \/ StoreHold(f)
  PROVE  LedgerInv'
  <1>1. Keyed(Target(f)) /\ pc[f] \in {"storing", "lost"} /\ Target(f) \in Action
    BY RequestTyped DEF StoreResult, StoreHold, Roles, Shape
  <1>2. CASE StoreResult(f)
    <2> DEFINE rec == [Completed(PArgs(Target(f)), Result(Target(f))) EXCEPT !.expiresAt = began[f] + Ttl]
    <2>1. rec.argsHash = PArgs(Target(f)) /\ rec.result = Result(Target(f)) /\ Formed(rec)
      BY DEF Completed, Formed
    <2>2. /\ record' = [record EXCEPT ![FKey(f)] = rec] /\ Goto(f, "complete")
          /\ lease[FKey(f)] = NoCall /\ UNCHANGED <<lease, owed, seen, durable, dueAt, proposal, request>>
      BY <1>2 DEF StoreResult, pendingVars
    <2> HIDE DEF rec
    <2> QED  BY <1>1, <2>1, <2>2, OutcomeKeeps
  <1>3. CASE StoreHold(f)
    <2> DEFINE base == IF record[FKey(f)] = Absent THEN Reservation(PArgs(Target(f)), now) ELSE record[FKey(f)]
               rec == Held(base, "transport_failure_after_dispatch")
    <2>1. /\ record[FKey(f)].argsHash = PArgs(Target(f)) /\ record[FKey(f)].state # "absent"
      BY <1>1, OutcomeFinds
    <2>2. ~Conflicts(FKey(f), PArgs(Target(f))) /\ base = record[FKey(f)]
      BY <2>1 DEF Conflicts, Absent
    <2>3. record[FKey(f)] \in Record
      BY <1>1, RecordOfKey, RequestTyped DEF Shape
    <2>4. /\ rec.argsHash = PArgs(Target(f)) /\ rec.state = "indeterminate" /\ Formed(rec)
      BY <2>1, <2>2, <2>3 DEF Held, Formed, Record
    <2>5. /\ record' = [record EXCEPT ![FKey(f)] = rec] /\ Goto(f, "unknown")
          /\ lease[FKey(f)] = NoCall /\ UNCHANGED <<lease, owed, seen, durable, dueAt, proposal, request>>
      BY <1>3, <2>2 DEF StoreHold, pendingVars
    <2> HIDE DEF rec
    <2> QED  BY <1>1, <2>4, <2>5, OutcomeKeeps
  <1> QED  BY <1>2, <1>3

\* An operator lifts a hold: nothing that was sent under the key is owed any
\* more, and nothing else mattered to it.
LEMMA OperatorKeeps ==
  ASSUME Shape, Roles, LedgerInv, NEW p \in Proc, NEW k \in Key, Operator(p, k)
  PROVE  LedgerInv'
  <1>1. /\ UNCHANGED <<lease, durable, dueAt, proposal, request, pc, seen>> /\ lease[k] = NoCall
        /\ \A j \in Key \ {k} : record'[j] = record[j] /\ owed'[j] = owed[j]
        /\ record[k].state = "indeterminate" => record'[k] = Absent /\ owed'[k] = {}
        /\ record[k].state # "indeterminate" => record'[k] = record[k] /\ owed'[k] = owed[k]
    BY DEF Operator, ReleaseHold, pendingVars, Shape, LedgerOK, LocalsOK
  <1>2. /\ \A g \in Confirmation : Target(g)' = Target(g) /\ FKey(g)' = FKey(g) /\ Target(g) \in Action
        /\ \A a \in Action : Keyed(a)' = Keyed(a) /\ PKey(a)' = PKey(a) /\ PArgs(a)' = PArgs(a)
    BY <1>1, RequestTyped DEF Shape, Target, FKey, PKey, PArgs, Keyed
  <1>3. \A a \in Action : \A places : Busy(a, places)' <=> Busy(a, places)
    BY <1>1, <1>2 DEF Busy
  <1>4. ASSUME NEW a \in Action, Keyed(a), Matters(a)'
        PROVE  Matters(a) /\ record'[PKey(a)] = record[PKey(a)] /\ PKey(a) \in Key
    <2>1. PKey(a) \in Key
      BY <1>4, ProposalTyped DEF Shape
    <2>2. a \in owed'[PKey(a)] => a \in owed[PKey(a)]
      BY <1>1, <2>1
    <2>3. Matters(a)
      BY <1>1, <1>2, <1>3, <1>4, <2>2 DEF Matters
    <2>4. CASE PKey(a) = k /\ record[k].state = "indeterminate"
      <3>1. durable[a] # "pending" /\ ~Busy(a, Running)
        BY <1>4, <2>3, <2>4, PayloadsDiffer DEF LedgerInv, AnswerInv, Answers, RecordInv, Formed
      <3> QED  BY <1>1, <1>2, <1>3, <1>4, <2>4, <3>1 DEF Matters
    <2> QED  BY <1>1, <2>1, <2>3, <2>4
  <1>5. KeyLeaseInv' /\ TimeInv'
    BY <1>1, <1>2 DEF LedgerInv, KeyLeaseInv, TimeInv
  <1>6. RecordInv'
    BY <1>1 DEF LedgerInv, RecordInv, Formed, Absent
  <1>7. OwedInv'
    <2>1. \A j \in Key : owed'[j] \subseteq owed[j] /\ (record'[j] = record[j] \/ owed'[j] = {}) /\ owed[j] \subseteq Action
      BY <1>1 DEF Shape, LocalsOK
    <2>2. \A g \in Confirmation : Keyed(Target(g)) => FKey(g) \in Key
      BY RequestTyped DEF Shape
    <2> QED  BY <1>1, <1>2, <2>1, <2>2 DEF LedgerInv, OwedInv, Result
  <1>8. AnswerInv'
    <2> SUFFICES ASSUME NEW a \in Action, Keyed(a), Matters(a)'
                 PROVE  Answers(a)' /\ \A b \in Action : PKey(b) = PKey(a) /\ Matters(b)' => a = b
      BY <1>2, Zenon DEF AnswerInv, PKey, Keyed
    <2>1. Answers(a)
      BY <1>4 DEF LedgerInv, AnswerInv
    <2>2. Answers(a)'
      BY <1>1, <1>2, <1>3, <1>4, <2>1 DEF Answers, Preview, Result
    <2>3. \A b \in Action : PKey(b) = PKey(a) => Keyed(b)
      BY DEF PKey, Keyed
    <2> QED  BY <1>4, <2>2, <2>3 DEF LedgerInv, AnswerInv
  <1>9. ASSUME NEW d \in Action PROVE ProposalInv(d)'
    <2>1. ProposalInv(d)
      BY DEF LedgerInv
    <2>2. pc[d] \in Leasing => /\ record'[PKey(d)] = record[PKey(d)]
                               /\ \A a \in Action : PKey(a) = PKey(d) => Keyed(a)
      <3> SUFFICES ASSUME pc[d] \in Leasing
                   PROVE  /\ record'[PKey(d)] = record[PKey(d)]
                          /\ \A a \in Action : PKey(a) = PKey(d) => Keyed(a)
        OBVIOUS
      <3>1. Keyed(d) /\ PKey(d) \in Key /\ lease[PKey(d)] = d
        BY ProposalTyped DEF Roles, LedgerPlaces, Leasing, LedgerInv, KeyLeaseInv, Shape
      <3>2. PKey(d) # k
        BY <1>1, <3>1, KindsDiffer, NoCallAssumption
      <3> QED  BY <1>1, <3>1, <3>2 DEF PKey, Keyed
    <2> QED  BY <1>1, <1>2, <1>4, <2>1, <2>2 DEF ProposalInv, Preview, Leasing
  <1> QED  BY <1>5, <1>6, <1>7, <1>8, <1>9 DEF LedgerInv

\* A crash frees the leases of the dead, and leaves every record as it is.
LEMMA CrashKeepsLedger ==
  ASSUME Shape, Roles, LedgerInv, NEW p \in Proc, Crash(p)
  PROVE  LedgerInv'
  <1> DEFINE dying == {c \in Call : ProcOf(c) = p /\ pc[c] \notin Over \cup {"idle"}}
  <1>1. /\ \A c \in Call : pc'[c] = IF c \in dying THEN "dead" ELSE pc[c]
        /\ \A k \in Key : lease'[k] = IF lease[k] \in dying THEN NoCall ELSE lease[k]
        /\ \A a \in Action : seen'[a] = IF a \in dying THEN NoCall ELSE seen[a]
        /\ UNCHANGED <<record, durable, dueAt, owed, proposal, request>>
    BY DEF Crash, PendingCrash
  <1>2. /\ \A g \in Confirmation : Target(g)' = Target(g) /\ FKey(g)' = FKey(g) /\ Target(g) \in Action
        /\ \A a \in Action : Keyed(a)' = Keyed(a) /\ PKey(a)' = PKey(a) /\ PArgs(a)' = PArgs(a)
    BY <1>1, RequestTyped DEF Shape, Target, FKey, PKey, PArgs, Keyed
  <1>3. \A c \in Call : pc'[c] # "dead" => c \notin dying /\ pc'[c] = pc[c]
    BY <1>1
  <1>4. \A a \in Action : \A places \in {Running, Sending} : Busy(a, places)' => Busy(a, places)
    <2>1. \A f \in Confirmation : \A places \in {Running, Sending} : pc'[f] \in places => pc[f] \in places
      BY <1>3, KindsDiffer DEF Running, Sending
    <2> QED  BY <1>2, <2>1 DEF Busy
  <1>5. \A a \in Action : Matters(a)' => Matters(a)
    BY <1>1, <1>2, <1>4 DEF Matters
  <1>6. KeyLeaseInv'
    <2>1. ASSUME NEW k \in Key, lease'[k] # NoCall
          PROVE  lease'[k] \in Action /\ PKey(lease'[k]) = k /\ pc'[lease'[k]] \in Leasing
      BY <1>1, <2>1, KindsDiffer DEF LedgerInv, KeyLeaseInv
    <2>2. ASSUME NEW d \in Action, pc'[d] \in Leasing PROVE lease'[PKey(d)] = d
      <3>1. d \notin dying /\ pc[d] \in Leasing /\ lease[PKey(d)] = d
        BY <1>3, <2>2, KindsDiffer DEF LedgerInv, KeyLeaseInv, Leasing
      <3>2. PKey(d) \in Key
        BY <3>1, ProposalTyped DEF Roles, LedgerPlaces, Leasing, Shape
      <3> QED  BY <1>1, <3>1, <3>2
    <2> QED  BY <1>2, <2>1, <2>2 DEF KeyLeaseInv
  <1>7. RecordInv' /\ TimeInv'
    BY <1>1, KindsDiffer DEF LedgerInv, RecordInv, TimeInv
  <1>8. OwedInv'
    BY <1>1, <1>2, <1>3, KindsDiffer DEF LedgerInv, OwedInv, Result, Unstaged, Shape, LocalsOK
  <1>9. AnswerInv'
    <2> SUFFICES ASSUME NEW a \in Action, Keyed(a), Matters(a)' PROVE Answers(a)'
      BY <1>2, <1>5 DEF LedgerInv, AnswerInv
    <2>1. Answers(a)
      BY <1>5 DEF LedgerInv, AnswerInv
    <2> QED  BY <1>1, <1>2, <1>4, <2>1 DEF Answers, Preview, Result
  <1>10. ASSUME NEW d \in Action PROVE ProposalInv(d)'
    <2>1. CASE d \in dying
      BY <1>1, <2>1, KindsDiffer DEF ProposalInv
    <2>2. CASE d \notin dying
      <3>1. pc'[d] = pc[d] /\ seen'[d] = seen[d] /\ ProposalInv(d)
        BY <1>1, <2>2, KindsDiffer DEF LedgerInv
      <3> QED  BY <1>1, <1>2, <1>5, <3>1 DEF ProposalInv, Preview
    <2> QED  BY <2>1, <2>2
  <1> QED  BY <1>6, <1>7, <1>8, <1>9, <1>10 DEF LedgerInv
\* A proposal that decides without writing to the record.
LEMMA DecideKeeps ==
  ASSUME Undisturbed, Shape, Roles, ApprovalInv, LedgerInv, NEW c \in Action,
         \/ Lookup(c) \/ CheckPreview(c) \/ Refuse(c) \/ ReplayResult(c) \/ GiveUpLock(c)
         \/ StageUnkeyed(c) /\ UNCHANGED pendingVars
  PROVE  LedgerInv'
  <1>1. c \in Call /\ c \notin Confirmation
    BY KindsDiffer
  <1>2. UNCHANGED <<record, lease, dueAt, owed, proposal, request, durable>>
    BY DEF Lookup, CheckPreview, Refuse, ReplayResult, GiveUpLock, StageUnkeyed, storeVars, pendingVars
  <1>3. \A a \in Action \ {c} : seen'[a] = seen[a]
    BY DEF Lookup, CheckPreview, Refuse, ReplayResult, GiveUpLock, StageUnkeyed, DoneSeen, Shape, LocalsOK
  <1>4. pc[c] \in {"idle", "lock", "checking"}
    BY DEF Lookup, CheckPreview, Refuse, ReplayResult, GiveUpLock, StageUnkeyed, TakesLease,
           LedgerInv, TimeInv
  <1>5. \E label \in {"lock", "conflict", "served", "checking", "unfinished", "held", "timeout",
                      "limit", "io_error"} : Goto(c, label)
    <2>1. CASE CheckPreview(c)
      <3>1. seen[c] \in Action
        BY <2>1 DEF CheckPreview, Roles
      <3>2. Activity(PProc(c), seen[c]) # "overdue"
        BY <3>1, NeverOverdue DEF LedgerInv, Activity, Shape, QueueOK
      <3> QED  BY <2>1, <3>2 DEF CheckPreview
    <2>2. CASE ~CheckPreview(c)
      BY <2>2 DEF Lookup, Refuse, ReplayResult, ReplayRecord, GiveUpLock, StageUnkeyed
    <2> QED  BY <2>1, <2>2
  <1> QED  BY <1>1, <1>2, <1>3, <1>4, <1>5, MoveKeeps DEF Leasing, Unstaged

\* A confirmation that does not write to the record, and leaves the claim.
LEMMA ConfirmationMoves ==
  ASSUME Undisturbed, Shape, Roles, ApprovalInv, LedgerInv, NEW f \in Confirmation,
         \/ Find(f) \/ FindOverdue(f) \/ WrongSecret(f) \/ CountFails(f) \/ SameApprover(f)
         \/ PolicyDenies(f) \/ TooLate(f) \/ TakeAction(f) \/ GiveUpAction(f) \/ Answered(f)
         \/ NothingSent(f) \/ AnswerLost(f) \/ RememberResult(f) \/ StoreFails(f) \/ SkipLedger(f)
         \/ Complete(f) /\ UNCHANGED durable
  PROVE  LedgerInv'
  <1> USE DEF Running, Sending
  <1>1. f \in Call /\ f \notin Action /\ FProc(f) \in Proc /\ Target(f) \in Action /\ pc[f] # "overdue"
    BY RequestTyped, KindsDiffer DEF Shape, LedgerInv, TimeInv
  <1>2. UNCHANGED <<record, lease, dueAt, owed, proposal, request, seen>>
    <2>1. CASE Find(f) \/ FindOverdue(f) \/ WrongSecret(f) \/ CountFails(f) \/ SameApprover(f)
               \/ PolicyDenies(f) \/ TooLate(f) \/ TakeAction(f) \/ GiveUpAction(f)
      BY <2>1 DEF Find, FindOverdue, WrongSecret, RecordFailure, CountFails, SameApprover, PolicyDenies,
         TooLate, TakeAction, Take, GiveUpAction, AtAction, RemoveExpired, Delete, Unavailable,
         storeVars, pendingVars
    <2>2. CASE Answered(f) \/ NothingSent(f) \/ AnswerLost(f) \/ SkipLedger(f)
      BY <2>2 DEF Answered, NothingSent, AnswerLost, SkipLedger, InExecution, storeVars, pendingVars
    <2>3. CASE RememberResult(f) \/ StoreFails(f) \/ Complete(f)
      BY <2>3 DEF RememberResult, StoreFails, Complete, AbandonClaim, CompleteLocal, ClearClaim,
         storeVars, pendingVars
    <2> QED  BY <2>1, <2>2, <2>3
  <1>3. \A a \in Action : durable'[a] = durable[a] \/ (durable'[a] = "absent" /\ durable[a] # "claimed")
    <2>1. CASE FindOverdue(f) \/ PolicyDenies(f) \/ TooLate(f)
      BY <1>1, <2>1, RemovalFades DEF FindOverdue, PolicyDenies, TooLate, Fades
    <2>2. CASE WrongSecret(f)
      BY <1>1, <2>2 DEF WrongSecret, RecordFailure, Cancellable, Shape, QueueOK
    <2>3. CASE ~(FindOverdue(f) \/ PolicyDenies(f) \/ TooLate(f) \/ WrongSecret(f))
      BY <2>3 DEF Find, CountFails, SameApprover, TakeAction, Take, GiveUpAction, Answered, NothingSent,
         AnswerLost, SkipLedger, InExecution, RememberResult, StoreFails, AbandonClaim, CompleteLocal,
         AtAction, pendingVars
    <2> QED  BY <2>1, <2>2, <2>3
  <1>4. PICK label : /\ Goto(f, label) /\ label # "overdue" /\ label # "queued"
                     /\ label \in Running => pc[f] \in Running
                     /\ label \in Sending => pc[f] \in Sending
                     /\ label \in {"complete", "clearing"} /\ Keyed(Target(f))
                          => pc[f] \in {"queued", "complete"}
    <2>1. CASE Find(f)
      <3>1. ~(durable[Target(f)] = "pending" /\ Overdue(Target(f)))
        BY <1>1, NeverOverdue DEF LedgerInv
      <3> QED  BY <2>1, <3>1 DEF Find
    <2>2. CASE FindOverdue(f) \/ WrongSecret(f) \/ CountFails(f) \/ SameApprover(f)
               \/ PolicyDenies(f) \/ TooLate(f) \/ TakeAction(f) \/ GiveUpAction(f)
      BY <2>2 DEF FindOverdue, WrongSecret, CountFails, SameApprover, PolicyDenies, TooLate,
                  TakeAction, GiveUpAction
    <2>3. CASE NothingSent(f) \/ AnswerLost(f) \/ SkipLedger(f)
      BY <2>3 DEF NothingSent, AnswerLost, SkipLedger, InExecution
    <2>4. CASE Answered(f)
      BY <2>4 DEF Answered, InExecution
    <2>5. CASE RememberResult(f) \/ StoreFails(f) \/ Complete(f)
      BY <2>5 DEF RememberResult, StoreFails, Complete, AbandonClaim
    <2> QED  BY <2>1, <2>2, <2>3, <2>4, <2>5
  <1> QED  BY <1>1, <1>2, <1>3, <1>4, MoveKeeps

\* Every step keeps the ledger in order.
LEMMA LedgerStep ==
  Undisturbed /\ Shape /\ Roles /\ ApprovalInv /\ LedgerInv /\ [Next]_vars => LedgerInv'
  <1> SUFFICES ASSUME Undisturbed, Shape, Roles, ApprovalInv, LedgerInv, [Next]_vars PROVE LedgerInv'
    OBVIOUS
  <1>1. CASE UNCHANGED <<record, lease, durable, dueAt, pc, owed, proposal, request, seen>>
    BY <1>1 DEF LedgerInv, KeyLeaseInv, RecordInv, TimeInv, OwedInv, AnswerInv, ProposalInv, Answers,
                Matters, Busy, Target, FKey, Keyed, PKey, PArgs, Result, Preview
  <1>2. ASSUME NEW a \in Action, Lookup(a) \/ StageUnkeyed(a) \/ ProposalStep(a)
        PROVE  LedgerInv'
    <2>1. ~(SweepPreview(a) \/ ExpirePreview(a) \/ ExpiryUncertain(a))
      BY DEF SweepPreview, ExpirePreview, ExpiryUncertain, LedgerInv, TimeInv
    <2>2. ~PreviewOverflows(a)
      <3> SUFFICES ASSUME PreviewOverflows(a) PROVE FALSE
        OBVIOUS
      <3>1. PKey(a) \in Key
        BY ProposalTyped DEF PreviewOverflows, Roles, LedgerPlaces, Shape
      <3> QED  BY <3>1, RoomForAll DEF PreviewOverflows, Undisturbed
    <2>3. StageUnkeyed(a) => UNCHANGED pendingVars \/ (Stage(PProc(a), a) /\ Goto(a, "served"))
      BY DEF StageUnkeyed
    <2>4. CASE Lookup(a) \/ CheckPreview(a) \/ Refuse(a) \/ ReplayResult(a) \/ GiveUpLock(a)
      BY <2>4, DecideKeeps
    <2>5. CASE StageUnkeyed(a) /\ UNCHANGED pendingVars
      BY <2>5, DecideKeeps
    <2>8. CASE StageAction(a) \/ (StageUnkeyed(a) /\ Stage(PProc(a), a) /\ Goto(a, "served"))
      BY <2>8, StageKeepsLedger
    <2>6. CASE Claim(a) \/ OpenPreview(a) \/ JudgePreview(a)
      BY <2>6, ClaimKeeps, OpenKeeps, JudgeKeeps
    <2>7. CASE Reserve(a) \/ StageRefused(a) \/ RecordPreview(a)
      BY <2>7, ReserveKeeps
    <2> QED  BY <1>2, <2>1, <2>2, <2>3, <2>4, <2>5, <2>6, <2>7, <2>8 DEF ProposalStep
  <1>3. ASSUME NEW f \in Confirmation, Find(f) \/ ConfirmationStep(f)
        PROVE  LedgerInv'
    <2>1. CASE Complete(f)
      <3>1. CASE pc[f] = "clearing" /\ ClearClaim(Target(f)) /\ Goto(f, "done")
        BY <2>1, <3>1, ClearKeeps DEF Complete
      <3>2. CASE UNCHANGED durable
        BY <2>1, <3>2, ConfirmationMoves
      <3> QED  BY <2>1, <3>1, <3>2 DEF Complete, CompleteLocal, pendingVars
    <2> QED  BY <1>3, <2>1, ConfirmationMoves, PublishKeepsLedger, DispatchKeeps, StoreKeeps
             DEF ConfirmationStep
  <1>4. ASSUME NEW x \in Cancellation, Cancel(x) PROVE LedgerInv'
    <2>1. x \in Call /\ x \notin Action /\ x \notin Confirmation /\ FProc(x) \in Proc /\ Target(x) \in Action
      BY RequestTyped, KindsDiffer DEF Shape
    <2>2. \A a \in Action : durable'[a] = durable[a] \/ (durable'[a] = "absent" /\ durable[a] # "claimed")
      BY <1>4, <2>1, RemovalFades DEF Cancel, Fades
    <2>3. UNCHANGED <<record, lease, dueAt, owed, proposal, request, seen>> /\ \E label : Goto(x, label)
      BY <1>4 DEF Cancel, Delete, storeVars
    <2> QED  BY <2>1, <2>2, <2>3, MoveKeeps
  <1>5. ASSUME NEW p \in Proc, NEW a \in Action, List(p, a) PROVE LedgerInv'
    BY <1>5, NeverOverdue DEF List, LedgerInv
  <1> QED  BY <1>1, <1>2, <1>3, <1>4, <1>5, OperatorKeeps, CrashKeepsLedger
           DEF Next, Clock, vars, storeVars, flowVars, pendingVars

\* The ledger starts empty, and nothing matters to any key.
LEMMA LedgerInit == Init => LedgerInv
  <1> SUFFICES ASSUME Init PROVE LedgerInv
    OBVIOUS
  <1>1. Shape /\ \A c \in Call : pc[c] = "idle"
    BY ShapeInit DEF Init
  <1>2. /\ \A k \in Key : record[k] = Absent /\ lease[k] = NoCall /\ owed[k] = {}
        /\ \A a \in Action : durable[a] = "absent"
    BY DEF Init, StoreInit, PendingInit
  <1>3. \A f \in Confirmation : Keyed(Target(f)) => FKey(f) \in Key
    BY <1>1, RequestTyped DEF Shape
  <1>4. \A a \in Action : Keyed(a) => ~Matters(a)
    BY <1>1, <1>2, ProposalTyped, KindsDiffer DEF Matters, Busy, Running, Shape
  <1>5. KeyLeaseInv /\ RecordInv /\ TimeInv /\ OwedInv
    BY <1>1, <1>2, <1>3, KindsDiffer
    DEF KeyLeaseInv, RecordInv, Formed, Absent, TimeInv, OwedInv, Leasing
  <1>6. \A c \in Action : ProposalInv(c)
    BY <1>1, KindsDiffer DEF ProposalInv
  <1> QED  BY <1>4, <1>5, <1>6 DEF LedgerInv, AnswerInv

\* In every reachable state of an undisturbed run the ledger is in order.
LEMMA LedgerInvariant ==
  ASSUME Undisturbed
  PROVE  Spec => [](Shape /\ Roles /\ ApprovalInv /\ LedgerInv)
  <1>1. Undisturbed /\ Shape /\ Roles /\ ApprovalInv /\ LedgerInv /\ [Next]_vars => LedgerInv'
    BY LedgerStep
  <1>2. Shape /\ Roles /\ ApprovalInv /\ LedgerInv /\ [Next]_vars => LedgerInv'
    BY <1>1
  <1> QED  BY <1>2, LedgerInit, ApprovalInvariant, PTL DEF Spec

-----------------------------------------------------------------------------
(* The theorems about the ledger *)

\* While approvals last, writes succeed and the ledger has room: of the
\* mutations that were sent under a key, and not refused, the key has to
\* answer for one at most, whichever processes sent them.
THEOREM OneMutationPerKey ==
  ASSUME Undisturbed
  PROVE  Spec => []AtMostOneMutation
  <1>1. Shape /\ LedgerInv => AtMostOneMutation
    <2> SUFFICES ASSUME Shape, LedgerInv, NEW k \in Key, NEW a \in owed[k], NEW b \in owed[k]
                 PROVE  a = b
      BY DEF AtMostOneMutation
    <2>1. a \in Action /\ b \in Action /\ PKey(a) = k /\ PKey(b) = k
      BY DEF LedgerInv, OwedInv, Shape, LocalsOK
    <2>2. Matters(a) /\ Matters(b) /\ Keyed(a)
      BY <2>1, CallerAssumption DEF Matters, Keyed, PKey
    <2> QED  BY <2>1, <2>2 DEF LedgerInv, AnswerInv
  <1> QED  BY <1>1, LedgerInvariant, PTL

\* What the requests ask for does not change.
LEMMA RequestsStay == [Next]_vars => UNCHANGED <<proposal, request>>
  <1> SUFFICES ASSUME [Next]_vars PROVE UNCHANGED <<proposal, request>>
    OBVIOUS
  <1>1. ASSUME NEW a \in Action, Lookup(a) \/ StageUnkeyed(a) \/ ProposalStep(a)
        PROVE  UNCHANGED <<proposal, request>>
    BY <1>1
    DEF Lookup, StageUnkeyed, ProposalStep, CheckPreview, SweepPreview, Refuse, ReplayResult,
        Claim, OpenPreview, JudgePreview, ExpirePreview, ExpiryUncertain, GiveUpLock, Reserve,
        StageAction, StageRefused, RecordPreview, PreviewOverflows
  <1>2. ASSUME NEW f \in Confirmation, Find(f) \/ ConfirmationStep(f)
        PROVE  UNCHANGED <<proposal, request>>
    BY <1>2
    DEF Find, ConfirmationStep, FindOverdue, WrongSecret, CountFails, SameApprover, PolicyDenies,
        TooLate, TakeAction, PublishClaim, GiveUpAction, Dispatch, Unauthorized, Answered,
        NothingSent, AnswerLost, RememberResult, StoreResult, StoreHold, StoreFails, SkipLedger,
        Complete, AtAction, InExecution
  <1>3. CASE UNCHANGED vars
    BY <1>3 DEF vars, flowVars
  <1> QED  BY <1>1, <1>2, <1>3 DEF Next, Cancel, List, Operator, Crash, Clock, flowVars

KeysTaken ==
    \A f \in Confirmation : pc[f] \in Running /\ Keyed(Target(f)) => record[FKey(f)].state # "absent"

\* Under the same conditions the key of an action that executes is not given
\* to another proposal.
THEOREM ExecutingKeyStaysClosed ==
  ASSUME Undisturbed
  PROVE  Spec => KeyClosedWhileClaimed
  <1>1. Shape /\ LedgerInv => KeysTaken
    <2> SUFFICES ASSUME Shape, LedgerInv, NEW f \in Confirmation, pc[f] \in Running, Keyed(Target(f))
                 PROVE  record[FKey(f)].state # "absent"
      BY DEF KeysTaken
    <2>1. Target(f) \in Action /\ FKey(f) \in Key /\ FKey(f) = PKey(Target(f))
      BY RequestTyped DEF Shape, FKey
    <2>2. Busy(Target(f), Running)
      BY DEF Busy
    <2>3. Answers(Target(f)) /\ Formed(record[FKey(f)])
      BY <2>1, <2>2 DEF Matters, LedgerInv, AnswerInv, RecordInv
    <2> QED  BY <2>1, <2>3, PayloadsDiffer DEF Answers, Formed
  <1>2. KeysTaken' /\ [Next]_vars =>
          [\A f \in Confirmation :
             /\ pc[f] \in Running /\ pc'[f] \in Running /\ Keyed(Target(f))
             /\ record[FKey(f)].result = Preview(Target(f))
             => record'[FKey(f)].state # "absent"]_vars
    <2> SUFFICES ASSUME KeysTaken', [Next]_vars, NEW f \in Confirmation,
                        pc'[f] \in Running, Keyed(Target(f))
                 PROVE  record'[FKey(f)].state # "absent"
      OBVIOUS
    <2> UNCHANGED <<proposal, request>>
      BY RequestsStay
    <2>1. Keyed(Target(f))' /\ FKey(f)' = FKey(f)
      BY DEF Keyed, Target, FKey, PKey
    <2> QED  BY <2>1 DEF KeysTaken
  <1> QED  BY <1>1, <1>2, LedgerInvariant, PTL DEF Spec, KeyClosedWhileClaimed
\* Only the confirmation that has the claim, and has told the ledger, gives it
\* up.
LEMMA OnlyClearing ==
  ASSUME Shape, ApprovalInv, [Next]_vars, NEW a \in Action, durable[a] = "claimed", durable'[a] # "claimed"
  PROVE  \E f \in Confirmation : Target(f) = a /\ pc[f] = "clearing"
  <1> DEFINE Gone == durable'[a] # "claimed"
  <1>1. ASSUME NEW c \in Action, Lookup(c) \/ StageUnkeyed(c) \/ ProposalStep(c)
        PROVE  FALSE
    <2>1. CASE StageAction(c) \/ StageUnkeyed(c)
      <3>1. durable[c] = "absent"
        BY <2>1 DEF StageAction, StageUnkeyed, ApprovalInv, StagingInv, Unstaged
      <3> QED  BY <2>1, <3>1 DEF StageAction, StageUnkeyed, Stage, pendingVars, Shape, QueueOK
    <2>2. CASE SweepPreview(c) \/ ExpirePreview(c)
      BY <2>2 DEF SweepPreview, ExpirePreview, RemoveExpired, Shape, QueueOK
    <2>3. CASE Lookup(c) \/ CheckPreview(c) \/ Refuse(c) \/ ReplayResult(c) \/ Claim(c)
               \/ OpenPreview(c) \/ JudgePreview(c) \/ ExpiryUncertain(c) \/ GiveUpLock(c)
               \/ Reserve(c) \/ StageRefused(c) \/ RecordPreview(c) \/ PreviewOverflows(c)
      BY <2>3 DEF Lookup, CheckPreview, Refuse, ReplayResult, Claim, OpenPreview, JudgePreview,
                  ExpiryUncertain, GiveUpLock, Reserve, StageRefused, RecordPreview,
                  PreviewOverflows, pendingVars
    <2> QED  BY <1>1, <2>1, <2>2, <2>3 DEF ProposalStep
  <1>2. ASSUME NEW f \in Confirmation, Find(f) \/ ConfirmationStep(f)
        PROVE  Target(f) = a /\ pc[f] = "clearing"
    <2>1. Target(f) \in Action
      BY RequestTyped DEF Shape
    <2>2. CASE Complete(f)
      BY <2>1, <2>2 DEF Complete, CompleteLocal, ClearClaim, pendingVars, Shape, QueueOK
    <2>3. CASE Find(f) \/ FindOverdue(f) \/ CountFails(f) \/ SameApprover(f) \/ PolicyDenies(f)
               \/ TooLate(f) \/ TakeAction(f) \/ GiveUpAction(f) \/ WrongSecret(f) \/ PublishClaim(f)
      BY <2>1, <2>3 DEF Find, FindOverdue, CountFails, SameApprover, PolicyDenies, TooLate,
                  GiveUpAction, TakeAction, WrongSecret, PublishClaim, AtAction, RemoveExpired,
                  Delete, Unavailable, Take, RecordFailure, Cancellable, Publish, PublishFails,
                  pendingVars, Shape, QueueOK
    <2>4. CASE Dispatch(f) \/ Unauthorized(f) \/ Answered(f) \/ NothingSent(f) \/ AnswerLost(f)
               \/ SkipLedger(f) \/ StoreResult(f) \/ RememberResult(f) \/ StoreHold(f) \/ StoreFails(f)
      BY <2>4 DEF Dispatch, Unauthorized, Answered, NothingSent, AnswerLost, SkipLedger,
                  InExecution, StoreResult, RememberResult, StoreHold, StoreFails, AbandonClaim,
                  CompleteLocal, pendingVars
    <2> QED  BY <1>2, <2>2, <2>3, <2>4 DEF ConfirmationStep
  <1>3. ASSUME NEW x \in Cancellation, Cancel(x) PROVE FALSE
    BY <1>3, RequestTyped DEF Cancel, Delete, Shape, QueueOK
  <1>4. ASSUME NEW p \in Proc, NEW b \in Action, List(p, b) PROVE FALSE
    BY <1>4 DEF List, RemoveExpired, Shape, QueueOK
  <1>5. CASE UNCHANGED durable
    BY <1>5
  <1> QED  BY <1>1, <1>2, <1>3, <1>4, <1>5
           DEF Next, Operator, Crash, PendingCrash, Clock, vars, pendingVars

\* Under the same conditions a claim is given up only when the key answers for
\* what was sent.
THEOREM ClaimGoesLast ==
  ASSUME Undisturbed
  PROVE  Spec => ClaimOutlivesDoubt
  <1>1. Shape /\ ApprovalInv /\ LedgerInv /\ [Next]_vars =>
          [\A a \in Action :
             /\ durable[a] = "claimed" /\ durable'[a] # "claimed"
             /\ Keyed(a) /\ a \in owed[PKey(a)]
             => record[PKey(a)].result = Result(a)]_vars
    <2> SUFFICES ASSUME Shape, ApprovalInv, LedgerInv, [Next]_vars, NEW a \in Action,
                        durable[a] = "claimed", durable'[a] # "claimed", Keyed(a), a \in owed[PKey(a)]
                 PROVE  record[PKey(a)].result = Result(a)
      OBVIOUS
    <2>1. PICK f \in Confirmation : Target(f) = a /\ pc[f] = "clearing"
      BY OnlyClearing
    <2> QED  BY <2>1 DEF LedgerInv, OwedInv, FKey
  <1> QED  BY <1>1, LedgerInvariant, PTL DEF Spec, ClaimOutlivesDoubt

\* No request writes to a record that is a hold.
LEMMA NoneWritesHold ==
  ASSUME Undisturbed, Shape, Roles, ApprovalInv, LedgerInv, [Next]_vars, NEW k \in Key,
         record[k].state = "indeterminate", record'[k] # record[k]
  PROVE  \E p \in Proc : Operator(p, k)
  <1>0. Formed(record[k]) /\ record \in [Key -> Record]
    BY DEF LedgerInv, RecordInv, Shape, LedgerOK
  <1>1. ASSUME NEW c \in Action, Lookup(c) \/ StageUnkeyed(c) \/ ProposalStep(c) PROVE FALSE
    <2>1. CASE Claim(c)
      <3>1. PKey(c) = k
        BY <1>0, <2>1 DEF Claim
      <3> QED  BY <1>0, <2>1, <3>1 DEF Claim, Usable, InForce, Formed
    <2>2. CASE JudgePreview(c)
      <3>1. PKey(c) = k /\ pc[c] = "judging" /\ seen[c] \in Action
        BY <1>0, <2>2 DEF JudgePreview, Roles
      <3>2. record[k].result = Preview(seen[c])
        BY <3>1 DEF LedgerInv, ProposalInv
      <3> QED  BY <1>0, <3>1, <3>2, PayloadsDiffer DEF Formed
    <2>3. CASE Reserve(c) \/ StageRefused(c) \/ RecordPreview(c) \/ PreviewOverflows(c)
      <3>1. PKey(c) = k /\ pc[c] \in {"reserve", "staging", "staged"}
        BY <1>0, <2>3 DEF Reserve, StageRefused, RecordPreview, PreviewOverflows
      <3> QED  BY <3>1 DEF LedgerInv, ProposalInv
    <2>4. CASE SweepPreview(c) \/ ExpirePreview(c) \/ ExpiryUncertain(c)
      BY <2>4 DEF SweepPreview, ExpirePreview, ExpiryUncertain, LedgerInv, TimeInv
    <2>5. CASE Lookup(c) \/ StageUnkeyed(c) \/ CheckPreview(c) \/ Refuse(c) \/ ReplayResult(c)
               \/ OpenPreview(c) \/ GiveUpLock(c) \/ StageAction(c)
      BY <2>5 DEF Lookup, StageUnkeyed, CheckPreview, Refuse, ReplayResult, OpenPreview, GiveUpLock,
                  StageAction, storeVars
    <2> QED  BY <1>1, <2>1, <2>2, <2>3, <2>4, <2>5 DEF ProposalStep
  <1>2. ASSUME NEW f \in Confirmation, Find(f) \/ ConfirmationStep(f) PROVE FALSE
    <2>1. CASE StoreResult(f) \/ StoreHold(f)
      <3>1. FKey(f) = k /\ pc[f] \in {"storing", "lost"} /\ Keyed(Target(f))
        BY <1>0, <2>1 DEF StoreResult, StoreHold, Roles
      <3>2. record[k].result = Preview(Target(f)) /\ Target(f) \in Action
        BY <3>1, OutcomeFinds, RequestTyped DEF Shape
      <3> QED  BY <1>0, <3>2, PayloadsDiffer DEF Formed
    <2>2. CASE ~(StoreResult(f) \/ StoreHold(f))
      BY <1>2, <2>2
      DEF Find, ConfirmationStep, FindOverdue, WrongSecret, CountFails, SameApprover, PolicyDenies,
          TooLate, TakeAction, PublishClaim, GiveUpAction, Dispatch, Unauthorized, Answered,
          NothingSent, AnswerLost, RememberResult, StoreFails, SkipLedger, Complete, AtAction,
          InExecution, storeVars
    <2> QED  BY <2>1, <2>2
  <1>3. ASSUME NEW p \in Proc, NEW j \in Key, Operator(p, j) PROVE \E q \in Proc : Operator(q, k)
    <2>1. j = k
      BY <1>0, <1>3 DEF Operator, ReleaseHold
    <2> QED  BY <1>3, <2>1
  <1>4. CASE UNCHANGED record
    BY <1>4
  <1> QED  BY <1>1, <1>2, <1>3, <1>4 DEF Next, Cancel, List, Crash, Clock, vars, storeVars

\* Under the same conditions only an operator lifts the hold of a lost answer.
THEOREM HoldWaitsForOperator ==
  ASSUME Undisturbed
  PROVE  Spec => HeldUntilReconciled
  <1>1. Undisturbed /\ Shape /\ Roles /\ ApprovalInv /\ LedgerInv /\ [Next]_vars =>
          [\A k \in Key :
             /\ record[k].holdReason = "transport_failure_after_dispatch"
             /\ record'[k] # record[k]
             => \E p \in Proc : Operator(p, k)]_vars
    <2> SUFFICES ASSUME Undisturbed, Shape, Roles, ApprovalInv, LedgerInv, [Next]_vars, NEW k \in Key,
                        record[k].holdReason = "transport_failure_after_dispatch",
                        record'[k] # record[k]
                 PROVE  \E p \in Proc : Operator(p, k)
      OBVIOUS
    <2>1. record[k].state = "indeterminate"
      BY DEF LedgerInv, RecordInv, Formed
    <2> QED  BY <2>1, NoneWritesHold
  <1>2. Shape /\ Roles /\ ApprovalInv /\ LedgerInv /\ [Next]_vars =>
          [\A k \in Key :
             /\ record[k].holdReason = "transport_failure_after_dispatch"
             /\ record'[k] # record[k]
             => \E p \in Proc : Operator(p, k)]_vars
    BY <1>1
  <1> QED  BY <1>2, LedgerInvariant, PTL DEF Spec, HeldUntilReconciled
===============================================================================
