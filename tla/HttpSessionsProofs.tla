------------------------- MODULE HttpSessionsProofs -------------------------
(***************************************************************************)
(* HttpSessions for any number of requests and any limits: what every step *)
(* of the endpoint keeps.  ServerProcessProofs composes these lemmas with  *)
(* the life of the process.                                                *)
(***************************************************************************)
EXTENDS HttpSessions, FiniteSetTheorems, TLAPS

HttpNext ==
  \/ \E r \in Requests : Arrive(r) \/ HandlerStep(r)
  \/ ClientStep \/ CloseStep \/ CloseAllBegins

(***************************************************************************)
(* The inductive invariant.                                                *)
(***************************************************************************)

HttpShape ==
  /\ pc \in [Requests -> Steps]
  /\ at \in [Requests -> Requests \cup {Nobody}]
  /\ active \in [Requests -> Nat]
  /\ released \in [Requests -> BOOLEAN]
  /\ open \subseteq Requests /\ connected \subseteq Requests /\ awaited \subseteq Requests
  /\ initializing \in Nat /\ inflight \in Nat /\ streams \in Nat
  /\ closing \in {"no", "awaiting", "closing", "done"}

\* Sessions are named after requests that initialized them, and only those have visitors.
SessionsAreNamed ==
  /\ \A s \in open : kind[s] = "initialize" /\ pc[s] \in {"answering", "done"}
  /\ \A r \in Requests : pc[r] \in {"creating", "answering"} => kind[r] \in Initializing
  /\ \A r \in Requests :
       pc[r] = "serving" =>
         /\ kind[r] \in InSession \cup Modern
         /\ kind[r] \in InSession =>
              at[r] \in Requests /\ pc[at[r]] \in {"answering", "done"}
         /\ kind[r] \in Modern => at[r] = Nobody /\ ~released[r]

\* What has not been served has neither a session nor a slot behind it.
NotYetServed ==
  \A r \in Requests :
    /\ pc[r] \in {"absent", "unsent", "arrived"} => at[r] = Nobody /\ ~released[r]
    /\ pc[r] = "hungUp" => kind[r] \in Modern /\ released[r]

\* closeAll() finds every session: those being created when it begins are waited for, and
\* after it has begun none is.
ClosingFindsAll ==
  /\ closing = "awaiting" => Creating \subseteq awaited
  /\ closing \in {"closing", "done"} => Creating = {} /\ open = {}
  /\ \A r \in connected : pc[r] = "answering" => r \in open

HttpInv == HttpShape /\ SessionsAreNamed /\ NotYetServed /\ ClosingFindsAll /\ Accounted

(***************************************************************************)
(* Counting.                                                               *)
(***************************************************************************)

Inside(s) == {r \in Requests : pc[r] = "serving" /\ at[r] = s}
Exchanging == {r \in Requests : pc[r] = "serving" /\ kind[r] \in Modern}
Listening == {r \in Requests : pc[r] = "serving" /\ kind[r] = "listen"}

LEMMA CountsAreNumbers ==
  ASSUME NEW S, S \subseteq Requests
  PROVE  IsFiniteSet(S) /\ Cardinality(S) \in Nat
BY LimitsAssumption, FS_Subset, FS_CardinalityType

LEMMA OneMore ==
  ASSUME NEW S, S \subseteq Requests, NEW r, r \notin S
  PROVE  Cardinality(S \cup {r}) = Cardinality(S) + 1
BY CountsAreNumbers, FS_AddElement

LEMMA OneLess ==
  ASSUME NEW S, S \subseteq Requests, NEW r, r \in S
  PROVE  /\ Cardinality(S \ {r}) = Cardinality(S) - 1
         /\ Cardinality(S) >= 1
<1>1. IsFiniteSet(S) /\ Cardinality(S \ {r}) = Cardinality(S) - 1
  BY CountsAreNumbers, FS_RemoveElement
<1>2. Cardinality(S \ {r}) \in Nat /\ Cardinality(S) \in Nat
  BY CountsAreNumbers
<1>3. QED
  BY <1>1, <1>2

LEMMA NoMore ==
  ASSUME NEW S, S \subseteq Requests, NEW T, T \subseteq S
  PROVE  Cardinality(T) <= Cardinality(S)
BY CountsAreNumbers, FS_Subset

\* CountersAreExact in terms of these sets.
Tally ==
  /\ initializing = Cardinality(Creating)
  /\ \A s \in open :
       active[s] = Cardinality(Inside(s)) + (IF pc[s] = "answering" THEN 1 ELSE 0)
  /\ inflight = Cardinality(Exchanging)
  /\ streams = Cardinality(Listening)

LEMMA CountedAreRequests ==
  /\ Creating \subseteq Requests /\ Exchanging \subseteq Requests /\ Listening \subseteq Requests
  /\ \A s : Inside(s) \subseteq Requests
BY DEF Inside, Exchanging, Listening, Creating

LEMMA TallyOfAccounted == Accounted => Tally
BY DEF Accounted, CountersAreExact, Tally, Inside, Exchanging, Listening

LEMMA AccountedByTally ==
  ASSUME Tally', NothingUncounted', Cardinality((open \cup Creating)') <= MaxSessions,
         inflight' <= MaxInflight, streams' <= MaxStreams
  PROVE  Accounted'
BY DEF Accounted, CountersAreExact, Tally, Inside, Exchanging, Listening

\* A request that moves on enters or leaves the sets that are counted, and no other does.
LEMMA Moved ==
  ASSUME HttpShape, NEW r \in Requests, NEW to, Move(r, to), kind' = kind,
         at' \in [Requests -> Requests \cup {Nobody}],
         \A q \in Requests \ {r} : at'[q] = at[q]
  PROVE  /\ pc'[r] = to /\ \A q \in Requests \ {r} : pc'[q] = pc[q]
         /\ Creating' = IF to \in {"creating", "answering"} THEN Creating \cup {r}
                                                             ELSE Creating \ {r}
         /\ Exchanging' = IF to = "serving" /\ kind[r] \in Modern THEN Exchanging \cup {r}
                                                                 ELSE Exchanging \ {r}
         /\ Listening' = IF to = "serving" /\ kind[r] = "listen" THEN Listening \cup {r}
                                                                ELSE Listening \ {r}
         /\ \A s : Inside(s)' = IF to = "serving" /\ at'[r] = s THEN Inside(s) \cup {r}
                                                              ELSE Inside(s) \ {r}
<1>1. pc'[r] = to /\ \A q \in Requests \ {r} : pc'[q] = pc[q]
  BY DEF HttpShape, Move
<1>2. Creating' = IF to \in {"creating", "answering"} THEN Creating \cup {r}
                                                      ELSE Creating \ {r}
  BY <1>1 DEF Creating
<1>3. Exchanging' = IF to = "serving" /\ kind[r] \in Modern THEN Exchanging \cup {r}
                                                           ELSE Exchanging \ {r}
  BY <1>1 DEF Exchanging
<1>4. Listening' = IF to = "serving" /\ kind[r] = "listen" THEN Listening \cup {r}
                                                          ELSE Listening \ {r}
  BY <1>1 DEF Listening
<1>5. ASSUME NEW s
      PROVE  Inside(s)' = IF to = "serving" /\ at'[r] = s THEN Inside(s) \cup {r}
                                                         ELSE Inside(s) \ {r}
  BY <1>1 DEF Inside
<1>6. QED
  BY <1>1, <1>2, <1>3, <1>4, <1>5

\* What moves between steps at which nothing is held is counted nowhere.
Counted == {"creating", "answering", "serving"}

LEMMA MovedUncounted ==
  ASSUME HttpShape, NEW r \in Requests, NEW to, Move(r, to), kind' = kind, at' = at,
         pc[r] \notin Counted, to \notin Counted
  PROVE  /\ pc'[r] = to /\ \A q \in Requests \ {r} : pc'[q] = pc[q]
         /\ Creating' = Creating /\ Exchanging' = Exchanging /\ Listening' = Listening
         /\ \A s : Inside(s)' = Inside(s)
<1>1. pc'[r] = to /\ \A q \in Requests \ {r} : pc'[q] = pc[q]
  BY DEF HttpShape, Move
<1>2. Creating' = Creating /\ Exchanging' = Exchanging /\ Listening' = Listening
  BY <1>1 DEF Creating, Exchanging, Listening, Counted
<1>3. \A s : Inside(s)' = Inside(s)
  BY <1>1 DEF Inside, Counted
<1>4. QED
  BY <1>1, <1>2, <1>3

(***************************************************************************)
(* The 2025 era.                                                           *)
(***************************************************************************)

LEMMA PassingByKeeps ==
  ASSUME HttpInv, NEW r \in Requests, NEW to \in {"arrived", "done"}, Move(r, to),
         pc[r] \in {"unsent", "arrived"},
         UNCHANGED <<era, kind, at, open, active, initializing, connected, inflight, streams,
                     released, closing, awaited>>
  PROVE  HttpInv'
<1>1. /\ UNCHANGED <<era, kind, at, open, active, initializing, connected, inflight, streams,
                     released, closing, awaited>>
      /\ pc[r] \in {"unsent", "arrived"}
  OBVIOUS
<1>2. Move(r, to)
  OBVIOUS
<1>3. HttpShape /\ SessionsAreNamed /\ NotYetServed /\ ClosingFindsAll /\ Accounted
  BY DEF HttpInv
<1>4. /\ pc'[r] = to /\ \A q \in Requests \ {r} : pc'[q] = pc[q]
      /\ Creating' = Creating /\ Exchanging' = Exchanging /\ Listening' = Listening
      /\ \A s : Inside(s)' = Inside(s)
  BY <1>1, <1>2, <1>3, MovedUncounted DEF Counted
<1>5. HttpShape'
  BY <1>1, <1>2, <1>3 DEF HttpShape, Move, Steps
<1>6. SessionsAreNamed'
  BY <1>1, <1>2, <1>3, <1>4 DEF SessionsAreNamed, HttpShape
<1>7. NotYetServed'
  BY <1>1, <1>2, <1>3, <1>4 DEF NotYetServed
<1>8. ClosingFindsAll'
  BY <1>1, <1>2, <1>3, <1>4 DEF ClosingFindsAll, HttpShape
<1>9. Accounted'
  <2>1. NothingUncounted'
    BY <1>1, <1>3, <1>4 DEF Accounted, NothingUncounted
  <2>2. \A s \in open : pc[s] = "answering" <=> pc'[s] = "answering"
    BY <1>1, <1>2, <1>3, <1>4 DEF HttpShape
  <2>3. Tally
    BY <1>3, TallyOfAccounted
  <2>4. Tally'
    BY <1>1, <1>4, <2>2, <2>3 DEF Tally
  <2>5. QED
    BY <1>1, <1>3, <1>4, <2>1, <2>4, AccountedByTally DEF Accounted
<1>10. QED
  BY <1>5, <1>6, <1>7, <1>8, <1>9 DEF HttpInv

LEMMA ArriveKeeps ==
  ASSUME HttpInv, NEW r \in Requests, Arrive(r) \/ RefusedByEra(r) \/ Unknown(r)
  PROVE  HttpInv'
BY PassingByKeeps DEF Arrive, RefusedByEra, Unknown, sessionVars, modernVars, closeVars

LEMMA RoomForOne ==
  ASSUME NEW S, S \subseteq Requests, NEW T, T \subseteq Requests, NEW r \in Requests,
         Cardinality(S) + Cardinality(T) < MaxSessions
  PROVE  Cardinality(S \cup (T \cup {r})) <= MaxSessions
<1>1. /\ IsFiniteSet(S) /\ IsFiniteSet(T) /\ IsFiniteSet(S \cap T)
      /\ Cardinality(S) \in Nat /\ Cardinality(T) \in Nat /\ Cardinality(S \cap T) \in Nat
  <2>1. S \cap T \subseteq Requests
    OBVIOUS
  <2>2. QED
    BY <2>1, CountsAreNumbers
<1>2. /\ IsFiniteSet(S \cup T)
      /\ Cardinality(S \cup T) = Cardinality(S) + Cardinality(T) - Cardinality(S \cap T)
  BY <1>1, FS_Union
<1>3. \/ Cardinality((S \cup T) \cup {r}) = Cardinality(S \cup T)
      \/ Cardinality((S \cup T) \cup {r}) = Cardinality(S \cup T) + 1
  BY <1>2, FS_AddElement
<1>4. S \cup (T \cup {r}) = (S \cup T) \cup {r}
  OBVIOUS
<1>5. Cardinality((S \cup T) \cup {r}) <= MaxSessions
  BY <1>1, <1>2, <1>3, LimitsAssumption
<1>6. QED
  BY <1>4, <1>5

LEMMA InitializeKeeps ==
  ASSUME HttpInv, NEW r \in Requests, Initialize(r)
  PROVE  HttpInv'
<1>1. /\ UNCHANGED <<era, kind, at, open, active, inflight, streams, released, closing, awaited>>
      /\ pc[r] = "arrived" /\ kind[r] \in Initializing
  BY DEF Initialize, modernVars, closeVars
<1>2. HttpShape /\ SessionsAreNamed /\ NotYetServed /\ ClosingFindsAll /\ Accounted /\ Tally
  BY TallyOfAccounted DEF HttpInv
<1>3. CASE ~HasRoom
  <2>1. Move(r, "done") /\ UNCHANGED <<initializing, connected>>
    BY <1>3 DEF Initialize
  <2>2. QED
    BY <1>1, <2>1, PassingByKeeps
<1>4. CASE HasRoom
  <2>1. /\ Move(r, "creating")
        /\ initializing' = initializing + 1
        /\ connected' = connected \cup {r}
        /\ closing = "no" /\ Cardinality(open) + initializing < MaxSessions
    BY <1>4 DEF Initialize, HasRoom
  <2>2. r \notin Creating /\ r \notin Exchanging /\ r \notin Listening /\ \A s : r \notin Inside(s)
    BY <1>1 DEF Creating, Exchanging, Listening, Inside
  <2>3. /\ pc'[r] = "creating" /\ \A q \in Requests \ {r} : pc'[q] = pc[q]
        /\ Creating' = Creating \cup {r}
        /\ Exchanging' = Exchanging \ {r} /\ Listening' = Listening \ {r}
        /\ \A s : Inside(s)' = Inside(s) \ {r}
    <3>1. at' \in [Requests -> Requests \cup {Nobody}]
      BY <1>1, <1>2 DEF HttpShape
    <3>2. QED
      BY <1>1, <1>2, <2>1, <3>1, Moved
  <2>4. Exchanging' = Exchanging /\ Listening' = Listening
    BY <2>2, <2>3
  <2>5. \A s : Inside(s)' = Inside(s)
    <3> TAKE s
    <3>1. Inside(s)' = Inside(s) \ {r} /\ r \notin Inside(s)
      BY <2>2, <2>3
    <3>2. QED
      BY <3>1
  <2>6. \A s \in open : pc[s] = "answering" <=> pc'[s] = "answering"
    BY <1>1, <1>2, <2>3 DEF HttpShape
  <2>7. initializing' = Cardinality(Creating')
    BY <1>2, <2>1, <2>2, <2>3, OneMore, CountedAreRequests DEF Tally
  <2>8. Tally'
    BY <1>1, <1>2, <2>4, <2>5, <2>6, <2>7 DEF Tally
  <2>9. NothingUncounted'
    BY <1>1, <1>2, <2>1, <2>3 DEF Accounted, NothingUncounted
  <2>10. Cardinality((open \cup Creating)') <= MaxSessions
    <3>1. Cardinality(open) + Cardinality(Creating) < MaxSessions
      BY <1>2, <2>1 DEF Tally
    <3>2. Cardinality(open \cup (Creating \cup {r})) <= MaxSessions
      BY <1>2, <3>1, RoomForOne, CountedAreRequests DEF HttpShape
    <3>3. QED
      BY <1>1, <2>3, <3>2
  <2>11. Accounted'
    BY <1>1, <1>2, <2>8, <2>9, <2>10, AccountedByTally DEF Accounted
  <2>12. HttpShape'
    BY <1>1, <1>2, <2>1 DEF HttpShape, Move, Steps
  <2>13. SessionsAreNamed' /\ NotYetServed'
    BY <1>1, <1>2, <2>3 DEF SessionsAreNamed, NotYetServed, HttpShape
  <2>14. ClosingFindsAll'
    BY <1>1, <1>2, <2>1, <2>3 DEF ClosingFindsAll, HttpShape
  <2>15. QED
    BY <2>11, <2>12, <2>13, <2>14 DEF HttpInv
<1>5. QED
  BY <1>3, <1>4

LEMMA FewerHeld ==
  ASSUME HttpShape, Accounted, (open \cup Creating)' \subseteq open \cup Creating
  PROVE  Cardinality((open \cup Creating)') <= MaxSessions
<1>1. open \cup Creating \subseteq Requests
  BY CountedAreRequests DEF HttpShape
<1>2. /\ Cardinality((open \cup Creating)') <= Cardinality(open \cup Creating)
      /\ Cardinality((open \cup Creating)') \in Nat /\ Cardinality(open \cup Creating) \in Nat
  BY <1>1, NoMore, CountsAreNumbers
<1>3. QED
  BY <1>2, LimitsAssumption DEF Accounted

LEMMA SessionInitializedKeeps ==
  ASSUME HttpInv, NEW r \in Requests, SessionInitialized(r)
  PROVE  HttpInv'
<1>1. /\ UNCHANGED <<era, kind, at, initializing, connected, inflight, streams, released, closing,
                     awaited>>
      /\ pc[r] = "creating" /\ kind[r] = "initialize"
      /\ Move(r, "answering")
      /\ open' = open \cup {r}
      /\ active' = [active EXCEPT ![r] = 1]
  BY DEF SessionInitialized, modernVars, closeVars
<1>2. HttpShape /\ SessionsAreNamed /\ NotYetServed /\ ClosingFindsAll /\ Accounted /\ Tally
  BY TallyOfAccounted DEF HttpInv
<1>3. /\ pc'[r] = "answering" /\ \A q \in Requests \ {r} : pc'[q] = pc[q]
      /\ Creating' = Creating
      /\ Exchanging' = Exchanging /\ Listening' = Listening
      /\ \A s : Inside(s)' = Inside(s)
      /\ r \in Creating
  <2>1. pc'[r] = "answering" /\ \A q \in Requests \ {r} : pc'[q] = pc[q]
    BY <1>1, <1>2 DEF HttpShape, Move
  <2>2. Creating' = Creating /\ r \in Creating /\ Exchanging' = Exchanging /\ Listening' = Listening
    BY <1>1, <2>1 DEF Creating, Exchanging, Listening
  <2>3. \A s : Inside(s)' = Inside(s)
    BY <1>1, <2>1 DEF Inside
  <2>4. QED
    BY <2>1, <2>2, <2>3
<1>4. Inside(r) = {} /\ r \notin open
  BY <1>1, <1>2, LimitsAssumption DEF Inside, SessionsAreNamed
<1>5. /\ \A s \in open : active'[s] = active[s] /\ pc'[s] = pc[s]
      /\ active'[r] = 1
  BY <1>1, <1>2, <1>3, <1>4 DEF HttpShape
<1>6. Tally'
  <2>1. \A s \in open' : active'[s] = Cardinality(Inside(s)')
                                      + (IF pc'[s] = "answering" THEN 1 ELSE 0)
    <3>1. ASSUME NEW s \in open
          PROVE  active'[s] = Cardinality(Inside(s)') + (IF pc'[s] = "answering" THEN 1 ELSE 0)
      <4>1. active[s] = Cardinality(Inside(s)) + (IF pc[s] = "answering" THEN 1 ELSE 0)
        BY <1>2 DEF Tally
      <4>2. QED
        BY <4>1, <1>3, <1>5
    <3>2. active'[r] = Cardinality(Inside(r)') + (IF pc'[r] = "answering" THEN 1 ELSE 0)
      BY <1>3, <1>4, <1>5, FS_EmptySet
    <3>3. QED
      BY <1>1, <3>1, <3>2
  <2>2. QED
    BY <1>1, <1>2, <1>3, <2>1 DEF Tally
<1>7. NothingUncounted'
  BY <1>1, <1>2, <1>3 DEF Accounted, NothingUncounted
<1>8. (open \cup Creating)' = open \cup Creating
  BY <1>1, <1>3
<1>9. Accounted'
  BY <1>1, <1>2, <1>6, <1>7, <1>8, AccountedByTally DEF Accounted
<1>10. HttpShape'
  BY <1>1, <1>2 DEF HttpShape, Move, Steps
<1>11. SessionsAreNamed' /\ NotYetServed'
  BY <1>1, <1>2, <1>3 DEF SessionsAreNamed, NotYetServed, HttpShape, Initializing
<1>12. ClosingFindsAll'
  BY <1>1, <1>2, <1>3 DEF ClosingFindsAll, HttpShape
<1>13. QED
  BY <1>9, <1>10, <1>11, <1>12 DEF HttpInv

LEMMA AnsweredKeeps ==
  ASSUME HttpInv, NEW r \in Requests, Answered(r)
  PROVE  HttpInv'
<1>1. /\ UNCHANGED <<era, kind, at, open, connected, inflight, streams, released, closing, awaited>>
      /\ pc[r] = "answering"
      /\ Move(r, "done")
      /\ initializing' = initializing - 1
      /\ active' = IF r \in open THEN [active EXCEPT ![r] = Less(@)] ELSE active
  BY DEF Answered, modernVars, closeVars
<1>2. HttpShape /\ SessionsAreNamed /\ NotYetServed /\ ClosingFindsAll /\ Accounted /\ Tally
  BY TallyOfAccounted DEF HttpInv
<1>3. /\ pc'[r] = "done" /\ \A q \in Requests \ {r} : pc'[q] = pc[q]
      /\ Creating' = Creating \ {r} /\ r \in Creating
      /\ Exchanging' = Exchanging /\ Listening' = Listening
      /\ \A s : Inside(s)' = Inside(s)
  <2>1. pc'[r] = "done" /\ \A q \in Requests \ {r} : pc'[q] = pc[q]
    BY <1>1, <1>2 DEF HttpShape, Move
  <2>2. /\ Creating' = Creating \ {r} /\ r \in Creating
        /\ Exchanging' = Exchanging /\ Listening' = Listening
    BY <1>1, <2>1 DEF Creating, Exchanging, Listening
  <2>3. \A s : Inside(s)' = Inside(s)
    BY <1>1, <2>1 DEF Inside
  <2>4. QED
    BY <2>1, <2>2, <2>3
<1>4. initializing' = Cardinality(Creating') /\ initializing' \in Nat
  BY <1>1, <1>2, <1>3, OneLess, CountsAreNumbers, CountedAreRequests DEF Tally
<1>5. ASSUME NEW s \in open
      PROVE  active'[s] = Cardinality(Inside(s)') + (IF pc'[s] = "answering" THEN 1 ELSE 0)
  <2>1. /\ active[s] = Cardinality(Inside(s)) + (IF pc[s] = "answering" THEN 1 ELSE 0)
        /\ Cardinality(Inside(s)) \in Nat /\ s \in Requests
    BY <1>2, CountsAreNumbers, CountedAreRequests DEF Tally, HttpShape
  <2>2. CASE s = r
    <3>1. active'[r] = Less(active[r])
      BY <1>1, <1>2, <2>2 DEF HttpShape
    <3>2. QED
      BY <1>1, <1>3, <2>1, <2>2, <3>1 DEF Less
  <2>3. CASE s # r
    <3>1. active'[s] = active[s] /\ pc'[s] = pc[s]
      BY <1>1, <1>2, <1>3, <2>1, <2>3 DEF HttpShape
    <3>2. QED
      BY <1>3, <2>1, <3>1
  <2>4. QED
    BY <2>2, <2>3
<1>6. Tally'
  BY <1>1, <1>2, <1>3, <1>4, <1>5 DEF Tally
<1>7. NothingUncounted'
  BY <1>1, <1>2, <1>3 DEF Accounted, NothingUncounted, ClosingFindsAll
<1>8. Cardinality((open \cup Creating)') <= MaxSessions
  BY <1>1, <1>2, <1>3, FewerHeld
<1>9. Accounted'
  BY <1>1, <1>2, <1>6, <1>7, <1>8, AccountedByTally DEF Accounted
<1>10. HttpShape'
  BY <1>1, <1>2, <1>4 DEF HttpShape, Move, Steps, Less
<1>11. SessionsAreNamed' /\ NotYetServed'
  BY <1>1, <1>2, <1>3 DEF SessionsAreNamed, NotYetServed, HttpShape
<1>12. ClosingFindsAll'
  BY <1>1, <1>2, <1>3 DEF ClosingFindsAll, HttpShape
<1>13. QED
  BY <1>9, <1>10, <1>11, <1>12 DEF HttpInv

LEMMA InitializationFailsKeeps ==
  ASSUME HttpInv, NEW r \in Requests, InitializationFails(r)
  PROVE  HttpInv'
<1>1. /\ UNCHANGED <<era, kind, at, active, inflight, streams, released, closing, awaited>>
      /\ pc[r] \in {"creating", "answering"}
      /\ Move(r, "done")
      /\ initializing' = initializing - 1
      /\ connected' = connected \ {r}
      /\ open' = open \ {r}
  BY DEF InitializationFails, modernVars, closeVars
<1>2. HttpShape /\ SessionsAreNamed /\ NotYetServed /\ ClosingFindsAll /\ Accounted /\ Tally
  BY TallyOfAccounted DEF HttpInv
<1>3. /\ pc'[r] = "done" /\ \A q \in Requests \ {r} : pc'[q] = pc[q]
      /\ Creating' = Creating \ {r} /\ r \in Creating
      /\ Exchanging' = Exchanging /\ Listening' = Listening
      /\ \A s : Inside(s)' = Inside(s)
  <2>1. pc'[r] = "done" /\ \A q \in Requests \ {r} : pc'[q] = pc[q]
    BY <1>1, <1>2 DEF HttpShape, Move
  <2>2. /\ Creating' = Creating \ {r} /\ r \in Creating
        /\ Exchanging' = Exchanging /\ Listening' = Listening
    BY <1>1, <2>1 DEF Creating, Exchanging, Listening
  <2>3. \A s : Inside(s)' = Inside(s)
    BY <1>1, <2>1 DEF Inside
  <2>4. QED
    BY <2>1, <2>2, <2>3
<1>4. initializing' = Cardinality(Creating') /\ initializing' \in Nat
  BY <1>1, <1>2, <1>3, OneLess, CountsAreNumbers, CountedAreRequests DEF Tally
<1>5. \A s \in open' : s \in open /\ pc'[s] = pc[s]
  BY <1>1, <1>2, <1>3 DEF HttpShape
<1>6. Tally'
  BY <1>1, <1>2, <1>3, <1>4, <1>5 DEF Tally
<1>7. NothingUncounted'
  BY <1>1, <1>2, <1>3 DEF Accounted, NothingUncounted
<1>8. Accounted'
  BY <1>1, <1>2, <1>3, <1>6, <1>7, FewerHeld, AccountedByTally DEF Accounted
<1>9. HttpShape'
  BY <1>1, <1>2, <1>4 DEF HttpShape, Move, Steps
<1>10. SessionsAreNamed' /\ NotYetServed'
  BY <1>1, <1>2, <1>3 DEF SessionsAreNamed, NotYetServed, HttpShape
<1>11. ClosingFindsAll'
  BY <1>1, <1>2, <1>3 DEF ClosingFindsAll, HttpShape
<1>12. QED
  BY <1>8, <1>9, <1>10, <1>11 DEF HttpInv

LEMMA EnterSessionKeeps ==
  ASSUME HttpInv, NEW r \in Requests, NEW s \in Requests, EnterSession(r, s)
  PROVE  HttpInv'
<1>1. /\ UNCHANGED <<era, kind, open, initializing, connected, inflight, streams, released,
                     closing, awaited>>
      /\ pc[r] = "arrived" /\ kind[r] \in InSession /\ s \in open
      /\ Move(r, "serving")
      /\ at' = [at EXCEPT ![r] = s]
      /\ active' = [active EXCEPT ![s] = @ + 1]
  BY DEF EnterSession, modernVars, closeVars
<1>2. HttpShape /\ SessionsAreNamed /\ NotYetServed /\ ClosingFindsAll /\ Accounted /\ Tally
  BY TallyOfAccounted DEF HttpInv
<1>3. /\ pc'[r] = "serving" /\ \A q \in Requests \ {r} : pc'[q] = pc[q]
      /\ at'[r] = s /\ \A q \in Requests \ {r} : at'[q] = at[q]
      /\ kind[r] \notin Modern /\ kind[r] # "initialize"
  BY <1>1, <1>2 DEF HttpShape, Move, InSession, Modern
<1>4. Creating' = Creating /\ Exchanging' = Exchanging /\ Listening' = Listening
  BY <1>1, <1>3 DEF Creating, Exchanging, Listening, Modern
<1>5. /\ Inside(s)' = Inside(s) \cup {r} /\ r \notin Inside(s)
      /\ \A t : t # s => Inside(t)' = Inside(t)
  BY <1>1, <1>3 DEF Inside
<1>6. ASSUME NEW t \in open
      PROVE  active'[t] = Cardinality(Inside(t)') + (IF pc'[t] = "answering" THEN 1 ELSE 0)
  <2>1. /\ active[t] = Cardinality(Inside(t)) + (IF pc[t] = "answering" THEN 1 ELSE 0)
        /\ Cardinality(Inside(t)) \in Nat /\ t \in Requests
    BY <1>2, CountsAreNumbers, CountedAreRequests DEF Tally, HttpShape
  <2>2. pc'[t] = pc[t]
    BY <1>1, <1>2, <1>3, <2>1 DEF SessionsAreNamed
  <2>3. CASE t = s
    <3>1. active'[s] = active[s] + 1
      BY <1>1, <1>2 DEF HttpShape
    <3>2. Cardinality(Inside(s)') = Cardinality(Inside(s)) + 1
      BY <1>5, OneMore, CountedAreRequests
    <3>3. QED
      BY <2>1, <2>2, <2>3, <3>1, <3>2
  <2>4. CASE t # s
    <3>1. active'[t] = active[t]
      BY <1>1, <1>2, <2>1, <2>4 DEF HttpShape
    <3>2. QED
      BY <1>5, <2>1, <2>2, <2>4, <3>1
  <2>5. QED
    BY <2>3, <2>4
<1>7. Tally'
  BY <1>1, <1>2, <1>4, <1>6 DEF Tally
<1>8. NothingUncounted'
  BY <1>1, <1>2, <1>4 DEF Accounted, NothingUncounted
<1>9. Accounted'
  BY <1>1, <1>2, <1>4, <1>7, <1>8, AccountedByTally DEF Accounted
<1>10. HttpShape'
  BY <1>1, <1>2 DEF HttpShape, Move, Steps
<1>11. SessionsAreNamed' /\ NotYetServed'
  BY <1>1, <1>2, <1>3 DEF SessionsAreNamed, NotYetServed, HttpShape
<1>12. ClosingFindsAll'
  BY <1>1, <1>2, <1>3, <1>4 DEF ClosingFindsAll, HttpShape
<1>13. QED
  BY <1>9, <1>10, <1>11, <1>12 DEF HttpInv

LEMMA LeaveSessionKeeps ==
  ASSUME HttpInv, NEW r \in Requests, LeaveSession(r) \/ StreamHangsUp(r)
  PROVE  HttpInv'
<1>1. /\ UNCHANGED <<era, kind, at, open, initializing, connected, inflight, streams, released,
                     closing, awaited>>
      /\ pc[r] = "serving" /\ kind[r] \in InSession
      /\ Move(r, "done")
      /\ active' = [active EXCEPT ![at[r]] = Less(@)]
  BY DEF LeaveSession, StreamHangsUp, InSession, modernVars, closeVars
<1>2. HttpShape /\ SessionsAreNamed /\ NotYetServed /\ ClosingFindsAll /\ Accounted /\ Tally
  BY TallyOfAccounted DEF HttpInv
<1>3. /\ pc'[r] = "done" /\ \A q \in Requests \ {r} : pc'[q] = pc[q]
      /\ at[r] \in Requests
      /\ kind[r] \notin Modern /\ kind[r] # "initialize"
  BY <1>1, <1>2 DEF HttpShape, SessionsAreNamed, Move, InSession, Modern
<1>4. Creating' = Creating /\ Exchanging' = Exchanging /\ Listening' = Listening
  BY <1>1, <1>3 DEF Creating, Exchanging, Listening, Modern
<1> PICK s \in Requests : s = at[r]
  BY <1>3
<1>5. /\ Inside(s)' = Inside(s) \ {r} /\ r \in Inside(s)
      /\ \A t : t # s => Inside(t)' = Inside(t)
  BY <1>1, <1>3 DEF Inside
<1>6. ASSUME NEW t \in open
      PROVE  active'[t] = Cardinality(Inside(t)') + (IF pc'[t] = "answering" THEN 1 ELSE 0)
  <2>1. /\ active[t] = Cardinality(Inside(t)) + (IF pc[t] = "answering" THEN 1 ELSE 0)
        /\ Cardinality(Inside(t)) \in Nat /\ t \in Requests
    BY <1>2, CountsAreNumbers, CountedAreRequests DEF Tally, HttpShape
  <2>2. pc'[t] = pc[t]
    BY <1>1, <1>2, <1>3, <2>1 DEF SessionsAreNamed
  <2>3. CASE t = s
    <3>1. active'[t] = Less(active[t])
      BY <1>1, <1>2, <1>3, <2>3 DEF HttpShape
    <3>2. Cardinality(Inside(t)') = Cardinality(Inside(t)) - 1 /\ Cardinality(Inside(t)) >= 1
      <4>1. Inside(t)' = Inside(t) \ {r} /\ r \in Inside(t) /\ Inside(t) \subseteq Requests
        BY <1>5, <2>3, CountedAreRequests
      <4>2. QED
        BY <4>1, OneLess
    <3>3. QED
      BY <2>1, <2>2, <3>1, <3>2 DEF Less
  <2>4. CASE t # s
    <3>1. active'[t] = active[t]
      BY <1>1, <1>2, <1>3, <2>1, <2>4 DEF HttpShape
    <3>2. QED
      BY <1>5, <2>1, <2>2, <2>4, <3>1
  <2>5. QED
    BY <2>3, <2>4
<1>7. Tally'
  BY <1>1, <1>2, <1>4, <1>6 DEF Tally
<1>8. NothingUncounted'
  BY <1>1, <1>2, <1>4 DEF Accounted, NothingUncounted
<1>9. Accounted'
  BY <1>1, <1>2, <1>4, <1>7, <1>8, AccountedByTally DEF Accounted
<1>10. HttpShape'
  <2>1. \A n \in Nat : Less(n) \in Nat
    BY DEF Less
  <2>2. QED
    BY <1>1, <1>2, <1>3, <2>1 DEF HttpShape, Move, Steps
<1>11. SessionsAreNamed' /\ NotYetServed'
  BY <1>1, <1>2, <1>3 DEF SessionsAreNamed, NotYetServed, HttpShape
<1>12. ClosingFindsAll'
  BY <1>1, <1>2, <1>3, <1>4 DEF ClosingFindsAll, HttpShape
<1>13. QED
  BY <1>9, <1>10, <1>11, <1>12 DEF HttpInv

\* Steps that move no request: a session is dropped, or closeAll() goes on.
LEMMA NobodyMoved ==
  ASSUME pc' = pc, kind' = kind, at' = at
  PROVE  /\ Creating' = Creating /\ Exchanging' = Exchanging /\ Listening' = Listening
         /\ \A s : Inside(s)' = Inside(s)
BY DEF Creating, Exchanging, Listening, Inside

LEMMA DropKeeps ==
  ASSUME HttpInv, NEW s \in open, Drop(s),
         UNCHANGED <<era, kind, pc, at, active, initializing, inflight, streams, released,
                     closing, awaited>>
  PROVE  HttpInv'
<1>1. /\ open' = open \ {s} /\ connected' = connected \ {s}
      /\ pc[s] \in {"answering", "done"} /\ s \in Requests
  BY DEF Drop, HttpInv, SessionsAreNamed, HttpShape
<1>2. HttpShape /\ SessionsAreNamed /\ NotYetServed /\ ClosingFindsAll /\ Accounted /\ Tally
  BY TallyOfAccounted DEF HttpInv
<1>3. /\ Creating' = Creating /\ Exchanging' = Exchanging /\ Listening' = Listening
      /\ \A t : Inside(t)' = Inside(t)
  BY NobodyMoved
<1>4. Tally'
  BY <1>1, <1>2, <1>3 DEF Tally
<1>5. NothingUncounted'
  BY <1>1, <1>2, <1>3 DEF Accounted, NothingUncounted
<1>6. Accounted'
  BY <1>1, <1>2, <1>3, <1>4, <1>5, FewerHeld, AccountedByTally DEF Accounted
<1>7. HttpShape' /\ SessionsAreNamed' /\ NotYetServed'
  BY <1>1, <1>2 DEF HttpShape, SessionsAreNamed, NotYetServed
<1>8. ClosingFindsAll'
  BY <1>1, <1>2, <1>3 DEF ClosingFindsAll, HttpShape
<1>9. QED
  BY <1>6, <1>7, <1>8 DEF HttpInv

LEMMA SessionEndsKeeps ==
  ASSUME HttpInv,
         \/ \E r \in Requests : DeleteSession(r)
         \/ \E s \in Requests : Reap(s)
  PROVE  HttpInv'
BY DropKeeps DEF DeleteSession, Reap, modernVars, closeVars

(***************************************************************************)
(* The 2026 era.                                                           *)
(***************************************************************************)

LEMMA AdmitKeeps ==
  ASSUME HttpInv, NEW r \in Requests, Admit(r)
  PROVE  HttpInv'
<1>1. /\ UNCHANGED <<era, kind, at, open, active, initializing, connected, released, closing,
                     awaited>>
      /\ pc[r] = "arrived" /\ kind[r] \in Modern
  BY DEF Admit, sessionVars, closeVars
<1>2. HttpShape /\ SessionsAreNamed /\ NotYetServed /\ ClosingFindsAll /\ Accounted /\ Tally
  BY TallyOfAccounted DEF HttpInv
<1>3. CASE ~Admissible(r)
  <2>1. Move(r, "done") /\ UNCHANGED <<inflight, streams>>
    BY <1>3 DEF Admit
  <2>2. QED
    BY <1>1, <2>1, PassingByKeeps
<1>4. CASE Admissible(r)
  <2>1. /\ Move(r, "serving")
        /\ inflight' = inflight + 1
        /\ streams' = IF kind[r] = "listen" THEN streams + 1 ELSE streams
        /\ kind[r] = "listen" => streams < MaxStreams
        /\ inflight < MaxInflight
    BY <1>4 DEF Admit, Admissible
  <2>2. /\ pc'[r] = "serving" /\ \A q \in Requests \ {r} : pc'[q] = pc[q]
        /\ at[r] = Nobody /\ ~released[r] /\ kind[r] \notin InSession
    BY <1>1, <1>2, <2>1 DEF HttpShape, NotYetServed, Move, InSession, Modern
  <2>3. /\ Creating' = Creating
        /\ Exchanging' = Exchanging \cup {r} /\ r \notin Exchanging
        /\ r \notin Listening
        /\ kind[r] = "listen" => Listening' = Listening \cup {r}
        /\ kind[r] # "listen" => Listening' = Listening
    BY <1>1, <2>2 DEF Creating, Exchanging, Listening
  <2>4. \A s \in open : Inside(s)' = Inside(s) /\ (pc[s] = "answering" <=> pc'[s] = "answering")
    <3> TAKE s \in open
    <3>1. s \in Requests /\ s # Nobody
      BY <1>2, LimitsAssumption DEF HttpShape
    <3>2. Inside(s)' = Inside(s)
      BY <1>1, <2>2, <3>1 DEF Inside
    <3>3. QED
      BY <1>1, <2>2, <3>1, <3>2
  <2>5. inflight' = Cardinality(Exchanging') /\ inflight' \in Nat /\ inflight' <= MaxInflight
    <3>1. Cardinality(Exchanging') = Cardinality(Exchanging) + 1
      BY <2>3, OneMore, CountedAreRequests
    <3>2. QED
      BY <1>2, <2>1, <3>1, LimitsAssumption DEF HttpShape, Tally
  <2>6. streams' = Cardinality(Listening') /\ streams' \in Nat /\ streams' <= MaxStreams
    <3>1. CASE kind[r] = "listen"
      <4>1. Cardinality(Listening') = Cardinality(Listening) + 1
        BY <2>3, <3>1, OneMore, CountedAreRequests
      <4>2. QED
        BY <1>2, <2>1, <3>1, <4>1, LimitsAssumption DEF HttpShape, Tally
    <3>2. CASE kind[r] # "listen"
      BY <1>2, <2>1, <2>3, <3>2 DEF HttpShape, Tally, Accounted
    <3>3. QED
      BY <3>1, <3>2
  <2>7. Tally'
    BY <1>1, <1>2, <2>3, <2>4, <2>5, <2>6 DEF Tally
  <2>8. NothingUncounted'
    BY <1>1, <1>2, <2>3 DEF Accounted, NothingUncounted
  <2>9. Accounted'
    BY <1>1, <1>2, <2>3, <2>5, <2>6, <2>7, <2>8, AccountedByTally DEF Accounted
  <2>10. HttpShape'
    BY <1>1, <1>2, <2>1, <2>5, <2>6 DEF HttpShape, Move, Steps
  <2>11. SessionsAreNamed' /\ NotYetServed'
    BY <1>1, <1>2, <2>2 DEF SessionsAreNamed, NotYetServed, HttpShape
  <2>12. ClosingFindsAll'
    BY <1>1, <1>2, <2>2, <2>3 DEF ClosingFindsAll, HttpShape
  <2>13. QED
    BY <2>9, <2>10, <2>11, <2>12 DEF HttpInv
<1>5. QED
  BY <1>3, <1>4

\* An exchange that holds its slot gives it back; one that has given it back does not again.
LEMMA ReleaseKeeps ==
  ASSUME HttpInv, NEW r \in Requests, NEW to \in {"hungUp", "done"}, Move(r, to), Release(r),
         pc[r] \in {"serving", "hungUp"}, kind[r] \in Modern,
         UNCHANGED <<era, kind, at, open, active, initializing, connected, closing, awaited>>
  PROVE  HttpInv'
<1>1. HttpShape /\ SessionsAreNamed /\ NotYetServed /\ ClosingFindsAll /\ Accounted /\ Tally
  BY TallyOfAccounted DEF HttpInv
<1>2. /\ pc'[r] = to /\ \A q \in Requests \ {r} : pc'[q] = pc[q]
      /\ pc[r] = "serving" => ~released[r] /\ at[r] = Nobody
      /\ pc[r] = "hungUp" => released[r]
  BY <1>1 DEF HttpShape, SessionsAreNamed, NotYetServed, Move
<1>3. Creating' = Creating
  BY <1>2 DEF Creating
<1>4. \A s \in open : Inside(s)' = Inside(s) /\ (pc[s] = "answering" <=> pc'[s] = "answering")
  <2> TAKE s \in open
  <2>1. s \in Requests /\ s # Nobody
    BY <1>1, LimitsAssumption DEF HttpShape
  <2>2. Inside(s)' = Inside(s)
    BY <1>2, <2>1 DEF Inside
  <2>3. QED
    BY <1>2, <2>1, <2>2
<1>5. /\ inflight' = Cardinality(Exchanging') /\ streams' = Cardinality(Listening')
      /\ inflight' \in Nat /\ streams' \in Nat
      /\ inflight' <= MaxInflight /\ streams' <= MaxStreams
      /\ released' \in [Requests -> BOOLEAN]
      /\ released'[r] /\ \A q \in Requests \ {r} : released'[q] = released[q]
  <2>1. CASE pc[r] = "hungUp"
    <3>1. Exchanging' = Exchanging /\ Listening' = Listening
      BY <1>2, <2>1 DEF Exchanging, Listening
    <3>2. UNCHANGED <<inflight, streams, released>>
      BY <1>2, <2>1 DEF Release, modernVars
    <3>3. QED
      BY <1>1, <1>2, <2>1, <3>1, <3>2 DEF HttpShape, Tally, Accounted
  <2>2. CASE pc[r] = "serving"
    <3>1. /\ released' = [released EXCEPT ![r] = TRUE]
          /\ inflight' = Less(inflight)
          /\ streams' = IF kind[r] = "listen" THEN Less(streams) ELSE streams
      BY <1>2, <2>2 DEF Release
    <3>2. /\ Exchanging' = Exchanging \ {r} /\ r \in Exchanging
          /\ kind[r] = "listen" => Listening' = Listening \ {r} /\ r \in Listening
          /\ kind[r] # "listen" => Listening' = Listening
      BY <1>2, <2>2 DEF Exchanging, Listening
    <3>3. Cardinality(Exchanging') = Cardinality(Exchanging) - 1 /\ Cardinality(Exchanging) >= 1
      BY <3>2, OneLess, CountedAreRequests
    <3>4. /\ inflight' = Cardinality(Exchanging')
          /\ inflight' \in Nat /\ inflight' <= MaxInflight
      BY <1>1, <3>1, <3>3, LimitsAssumption DEF HttpShape, Tally, Accounted, Less
    <3>5. /\ streams' = Cardinality(Listening')
          /\ streams' \in Nat /\ streams' <= MaxStreams
      <4>1. CASE kind[r] = "listen"
        <5>1. Cardinality(Listening') = Cardinality(Listening) - 1 /\ Cardinality(Listening) >= 1
          BY <3>2, <4>1, OneLess, CountedAreRequests
        <5>2. QED
          BY <1>1, <3>1, <4>1, <5>1, LimitsAssumption DEF HttpShape, Tally, Accounted, Less
      <4>2. CASE kind[r] # "listen"
        BY <1>1, <3>1, <3>2, <4>2 DEF HttpShape, Tally, Accounted
      <4>3. QED
        BY <4>1, <4>2
    <3>6. QED
      BY <1>1, <3>1, <3>4, <3>5 DEF HttpShape
  <2>3. QED
    BY <2>1, <2>2
<1>6. Tally'
  BY <1>1, <1>3, <1>4, <1>5 DEF Tally
<1>7. NothingUncounted'
  BY <1>1, <1>3 DEF Accounted, NothingUncounted
<1>8. Accounted'
  BY <1>1, <1>3, <1>5, <1>6, <1>7, AccountedByTally DEF Accounted
<1>9. HttpShape'
  BY <1>1, <1>5 DEF HttpShape, Move, Steps
<1>10. SessionsAreNamed'
  BY <1>1, <1>2, <1>5 DEF SessionsAreNamed, HttpShape
<1>11. NotYetServed'
  BY <1>1, <1>2, <1>5 DEF NotYetServed
<1>12. ClosingFindsAll'
  BY <1>1, <1>2, <1>3 DEF ClosingFindsAll, HttpShape
<1>13. QED
  BY <1>8, <1>9, <1>10, <1>11, <1>12 DEF HttpInv

LEMMA ExchangeEndsKeeps ==
  ASSUME HttpInv, NEW r \in Requests, HangUp(r) \/ Settle(r)
  PROVE  HttpInv'
BY ReleaseKeeps DEF HangUp, Settle, sessionVars, closeVars

(***************************************************************************)
(* closeAll().                                                             *)
(***************************************************************************)

LEMMA CloseAllKeeps ==
  ASSUME HttpInv, CloseAllBegins \/ CloseStep
  PROVE  HttpInv'
<1>1. /\ UNCHANGED <<era, kind, pc, at, active, initializing, inflight, streams, released>>
      /\ open' \subseteq open
  BY DEF CloseAllBegins, CloseStep, CloseAllTakesSessions, CloseAllEnds, sessionVars, modernVars
<1>2. HttpShape /\ SessionsAreNamed /\ NotYetServed /\ ClosingFindsAll /\ Accounted /\ Tally
  BY TallyOfAccounted DEF HttpInv
<1>3. /\ Creating' = Creating /\ Exchanging' = Exchanging /\ Listening' = Listening
      /\ \A s : Inside(s)' = Inside(s)
  BY <1>1, NobodyMoved
<1>4. Tally'
  BY <1>1, <1>2, <1>3 DEF Tally
<1>5. NothingUncounted' /\ HttpShape' /\ ClosingFindsAll'
  <2>1. CASE CloseAllBegins
    BY <1>1, <1>2, <1>3, <2>1, CountedAreRequests
       DEF CloseAllBegins, Accounted, NothingUncounted, HttpShape, ClosingFindsAll, sessionVars
  <2>2. CASE CloseAllTakesSessions
    <3>1. Creating = {} /\ closing = "awaiting" /\ closing' = "closing"
          /\ awaited' = open /\ open' = {} /\ connected' = connected
      BY <1>2, <2>2 DEF CloseAllTakesSessions, ClosingFindsAll
    <3>2. \A q \in Requests : pc[q] # "answering"
      BY <3>1 DEF Creating
    <3>3. QED
      BY <1>1, <1>2, <1>3, <3>1, <3>2
         DEF Accounted, NothingUncounted, HttpShape, ClosingFindsAll
  <2>3. CASE CloseAllEnds
    BY <1>1, <1>2, <1>3, <2>3
       DEF CloseAllEnds, Accounted, NothingUncounted, HttpShape, ClosingFindsAll
  <2>4. QED
    BY <2>1, <2>2, <2>3 DEF CloseStep
<1>6. Accounted'
  BY <1>1, <1>2, <1>3, <1>4, <1>5, FewerHeld, AccountedByTally DEF Accounted
<1>7. SessionsAreNamed' /\ NotYetServed'
  BY <1>1, <1>2 DEF SessionsAreNamed, NotYetServed
<1>8. QED
  BY <1>5, <1>6, <1>7 DEF HttpInv

(***************************************************************************)
(* The lemmas that the process is built from.                              *)
(***************************************************************************)

LEMMA HttpInvInitial ==
  ASSUME HttpInit, pc \in [Requests -> {"absent", "unsent"}]
  PROVE  HttpInv
<1>1. Creating = {} /\ Exchanging = {} /\ Listening = {} /\ \A s : Inside(s) = {}
  BY DEF Creating, Exchanging, Listening, Inside
<1>2. HttpShape /\ SessionsAreNamed /\ NotYetServed /\ ClosingFindsAll
  BY <1>1 DEF HttpInit, HttpShape, SessionsAreNamed, NotYetServed, ClosingFindsAll, Steps
<1>3. CountersAreExact
  BY <1>1, FS_EmptySet DEF HttpInit, CountersAreExact, Exchanging, Listening
<1>4. open \cup Creating = {}
  BY <1>1 DEF HttpInit
<1>5. Accounted
  BY <1>1, <1>3, <1>4, FS_EmptySet, LimitsAssumption DEF HttpInit, Accounted, NothingUncounted
<1>6. QED
  BY <1>2, <1>5 DEF HttpInv

LEMMA HttpInvInductive ==
  ASSUME HttpInv, [HttpNext]_httpVars
  PROVE  HttpInv'
<1>1. ASSUME NEW r \in Requests, Arrive(r) PROVE HttpInv'
  BY <1>1, ArriveKeeps
<1>2. ASSUME NEW r \in Requests, HandlerStep(r) PROVE HttpInv'
  BY <1>2, ArriveKeeps, InitializeKeeps, SessionInitializedKeeps, AnsweredKeeps,
     InitializationFailsKeeps, EnterSessionKeeps, LeaveSessionKeeps, SessionEndsKeeps,
     AdmitKeeps, ExchangeEndsKeeps DEF HandlerStep
<1>3. ASSUME ClientStep PROVE HttpInv'
  BY <1>3, LeaveSessionKeeps, ExchangeEndsKeeps, InitializationFailsKeeps, SessionEndsKeeps
     DEF ClientStep
<1>4. ASSUME CloseStep \/ CloseAllBegins PROVE HttpInv'
  BY <1>4, CloseAllKeeps
<1>5. ASSUME UNCHANGED httpVars PROVE HttpInv'
  <2>1. UNCHANGED <<era, kind, pc, at, open, active, initializing, inflight, streams, released,
                    connected, closing, awaited>>
    BY <1>5 DEF httpVars
  <2>2. QED
    BY <2>1 DEF HttpInv, HttpShape, SessionsAreNamed, NotYetServed, ClosingFindsAll, Accounted,
                CountersAreExact, NothingUncounted, Creating
<1>6. QED
  BY <1>1, <1>2, <1>3, <1>4, <1>5 DEF HttpNext

\* What takes a session with a request inside out of the map.
LEMMA OnlyIdleDropped ==
  ASSUME HttpInv, [HttpNext]_httpVars, NEW s \in open \ open', active[s] > 0
  PROVE  \/ \E r \in Requests : kind[r] = "delete" /\ pc[r] = "serving" /\ at[r] = s
         \/ pc[s] = "answering" /\ pc'[s] = "done"
         \/ closing # closing'
<1>1. pc[s] \in {"answering", "done"} /\ s \in Requests /\ HttpShape
  BY DEF HttpInv, SessionsAreNamed, HttpShape
<1>2. ASSUME NEW r \in Requests, HandlerStep(r), ~InitializationFails(r)
      PROVE  DeleteSession(r)
  BY <1>2 DEF HandlerStep, RefusedByEra, Initialize, SessionInitialized, Answered, Unknown,
              LeaveSession, Admit, Settle, EnterSession, sessionVars
<1>3. ASSUME NEW r \in Requests, InitializationFails(r)
      PROVE  pc[s] = "answering" /\ pc'[s] = "done"
  BY <1>1, <1>3 DEF InitializationFails, Move, HttpShape
<1>4. ASSUME NEW r \in Requests, DeleteSession(r)
      PROVE  kind[r] = "delete" /\ pc[r] = "serving" /\ at[r] = s
  BY <1>4 DEF DeleteSession, Drop
<1>5. ASSUME NEW t \in Requests, Reap(t) PROVE FALSE
  BY <1>1, <1>5 DEF Reap, Drop, Idle
<1>6. ASSUME CloseStep \/ CloseAllBegins PROVE closing # closing'
  BY <1>6 DEF CloseStep, CloseAllBegins, CloseAllTakesSessions, CloseAllEnds
<1>7. ASSUME NEW r \in Requests, Arrive(r) \/ StreamHangsUp(r) \/ HangUp(r) PROVE FALSE
  BY <1>7 DEF Arrive, StreamHangsUp, HangUp, sessionVars
<1>8. ASSUME UNCHANGED httpVars PROVE FALSE
  BY <1>8 DEF httpVars
<1>9. QED
  BY <1>2, <1>3, <1>4, <1>5, <1>6, <1>7, <1>8 DEF HttpNext, ClientStep
=============================================================================
