------------------------- MODULE IdempotencyStoreProofs -------------------------
(***************************************************************************)
(* Lemmas about the operators of the ledger that the two kinds of caller,  *)
(* ToolCall and ConfirmedCall, are built from.                             *)
(***************************************************************************)
EXTENDS IdempotencyStore, FiniteSetTheorems, TLAPS

-----------------------------------------------------------------------------
(* The records that are written are records *)

\* No record is a record with nothing in it.
LEMMA AbsentIsRecord == Absent \in Record
  BY DEF Absent, Record, Reasons

\* A reservation made at a time t is a record.
LEMMA ReservationIsRecord ==
  ASSUME NEW h \in Args, NEW t \in Nat
  PROVE  Reservation(h, t) \in Record
  BY LedgerAssumption DEF Reservation, Record, Reasons

\* The result of a call is a record.
LEMMA CompletedIsRecord ==
  ASSUME NEW h \in Args, NEW r \in Payload, now \in Nat
  PROVE  Completed(h, r) \in Record
  BY LedgerAssumption DEF Completed, Record, Reasons

\* A hold is a record.
LEMMA HeldIsRecord ==
  ASSUME NEW rec \in Record, NEW why \in Reasons
  PROVE  Held(rec, why) \in Record
  BY DEF Held, Record, Reasons

-----------------------------------------------------------------------------
(* The maps of a process keep their type *)

MapsOK ==
    /\ entries \in [Proc -> [Key -> Record]]
    /\ holds \in [Proc -> [Key -> Record]]

\* A sweep drops entries and holds, and adds none.
LEMMA SweepTyped ==
  ASSUME MapsOK, NEW p \in Proc, NEW kept
  PROVE  /\ SweptEntries(p, kept) \in [Key -> Record]
         /\ SweptHolds(p) \in [Key -> Record]
  BY AbsentIsRecord DEF MapsOK, SweptEntries, SweptHolds

\* The sweep of one process leaves the maps of all of them in their type.
LEMMA CleanupTyped ==
  ASSUME MapsOK, NEW p \in Proc, NEW kept, CleanupExpired(p, kept)
  PROVE  MapsOK'
  BY SweepTyped DEF MapsOK, CleanupExpired

\* remember() puts a record in the map of one process, and nothing else.
LEMMA RememberTyped ==
  ASSUME MapsOK, NEW p \in Proc, NEW k, NEW rec \in Record, NEW kept,
         Remember(p, k, rec, kept)
  PROVE  MapsOK'
  <1>1. /\ [SweptEntries(p, kept) EXCEPT ![k] = rec] \in [Key -> Record]
        /\ [SweptHolds(p) EXCEPT ![k] = Absent] \in [Key -> Record]
    BY SweepTyped, AbsentIsRecord
  <1> QED  BY <1>1 DEF MapsOK, Remember

\* holdReservation() moves a key from the map of results to that of holds.
LEMMA RememberHoldTyped ==
  ASSUME MapsOK, NEW p \in Proc, NEW k, NEW rec \in Record, RememberHold(p, k, rec)
  PROVE  MapsOK'
  BY AbsentIsRecord DEF MapsOK, RememberHold

\* delete() empties both maps of a key.
LEMMA ForgetTyped ==
  ASSUME MapsOK, NEW p \in Proc, NEW k \in Key, Forget(p, k)
  PROVE  MapsOK'
  BY AbsentIsRecord DEF MapsOK, Forget

\* A result and a hold of each key fit into a quota of two entries per key,
\* so remember() cannot run out of room.
LEMMA RoomForAll ==
  ASSUME IsFiniteSet(Key), MaxEntries >= 2 * Cardinality(Key), NEW p, NEW k \in Key, NEW kept
  PROVE  HasRoom(p, k, kept)
  <1> DEFINE e == Occupied(SweptEntries(p, kept))
             d == Occupied(SweptHolds(p))
  <1>1. CASE k \in e \/ k \in d
    BY <1>1 DEF HasRoom
  <1>2. CASE k \notin e /\ k \notin d
    <2>1. e \subseteq Key \ {k} /\ d \subseteq Key \ {k}
      BY <1>2 DEF Occupied
    <2>2. /\ IsFiniteSet(Key \ {k}) /\ Cardinality(Key \ {k}) = Cardinality(Key) - 1
          /\ Cardinality(Key) \in Nat
      BY FS_RemoveElement, FS_CardinalityType
    <2>3. /\ Cardinality(e) \in Nat /\ Cardinality(e) <= Cardinality(Key) - 1
          /\ Cardinality(d) \in Nat /\ Cardinality(d) <= Cardinality(Key) - 1
      BY <2>1, <2>2, FS_Subset, FS_CardinalityType
    <2>4. Cardinality(e) + Cardinality(d) < MaxEntries
      BY <2>2, <2>3, LedgerAssumption
    <2> QED  BY <2>4 DEF HasRoom
  <1> QED  BY <1>1, <1>2
===============================================================================
