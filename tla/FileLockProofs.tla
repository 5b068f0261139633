---------------------------- MODULE FileLockProofs ----------------------------
(***************************************************************************)
(* FileLock for any processes, alive or dead before it starts, any steps   *)
(* that may hang and any debris at the path: the types; what it takes for  *)
(* two processes to be in their critical sections at once; and that two    *)
(* competitors alone never are.                                            *)
(***************************************************************************)
EXTENDS FileLock, FiniteSetTheorems, TLAPS

-----------------------------------------------------------------------------
(* Types *)

Label == {"mkdir", "verify", "alone", "critical", "lost race", "rmdir", "retry", "list"}
            \cup Publishing \cup Removing \cup Judging \cup Over

\* What a process has read fits what it is doing, and a process knows the
\* inode of the directory whose lease it takes.
Fits(label, read, inode) ==
    /\ label \in Label
    /\ label \in Removing => read \in Snapshot
    /\ label \in Judging => read \in Dir
    /\ label \notin Removing \cup Judging => read = NoDir
    /\ label \in {"alone", "critical"} => inode \in Ino
    /\ read \in Snapshot \cup Dir \cup {NoDir} /\ inode \in Ino \cup {NoIno}

Around ==
    /\ path \in Dir \cup {NoDir}
    /\ full \in SUBSET Proc /\ aged \in SUBSET Proc
    /\ alive \in SUBSET (Proc \ Gone)
    /\ current \in SUBSET Proc
    /\ aside \in [Proc -> Dir \cup {NoDir}]
    /\ releasing \in SUBSET Proc

Typed ==
    /\ Around
    /\ pc \in [Proc -> Label]
    /\ mine \in [Proc -> Ino \cup {NoIno}]
    /\ seen \in [Proc -> Snapshot \cup Dir \cup {NoDir}]
    /\ \A p \in Proc : Fits(pc[p], seen[p], mine[p])

\* Typed says of the types what TypeOK says (file-lock.ts:37-57).
LEMMA TypedIsTypeOK == ASSUME Typed PROVE TypeOK
<1>1. ASSUME NEW p \in Proc
      PROVE  seen[p] \in CASE pc[p] \in Removing -> Snapshot
                          [] pc[p] \in Judging -> Dir
                          [] OTHER -> {NoDir}
  <2>1. Removing \cap Judging = {}
    BY DEF Removing, Judging
  <2>2. Fits(pc[p], seen[p], mine[p])
    BY DEF Typed
  <2>3. CASE pc[p] \in Removing
    BY <2>1, <2>2, <2>3 DEF Fits
  <2>4. CASE pc[p] \in Judging
    BY <2>1, <2>2, <2>4 DEF Fits
  <2>5. CASE pc[p] \notin Removing \cup Judging
    BY <2>2, <2>5 DEF Fits
  <2>6. QED
    BY <2>3, <2>4, <2>5
<1>2. QED
  BY <1>1 DEF Typed, TypeOK, Label, Around

\* A process goes on with another label, reading and inode; the others stay.
Goes(p, label, read, inode) ==
    /\ Goto(p, label)
    /\ seen' = [seen EXCEPT ![p] = read]
    /\ mine' = [mine EXCEPT ![p] = inode]

\* A step of one process that leaves it with a label, a reading and an inode
\* that fit each other.
LEMMA StepTyped ==
    ASSUME Typed, Around', NEW p \in Proc, NEW label, NEW read, NEW inode,
           Goes(p, label, read, inode), Fits(label, read, inode)
    PROVE  Typed'
<1>1. pc' \in [Proc -> Label] /\ \A q \in Proc : pc'[q] = IF q = p THEN label ELSE pc[q]
  BY DEF Goes, Goto, Typed, Fits
<1>2. /\ seen' \in [Proc -> Snapshot \cup Dir \cup {NoDir}]
      /\ \A q \in Proc : seen'[q] = IF q = p THEN read ELSE seen[q]
  BY DEF Goes, Typed, Fits
<1>3. /\ mine' \in [Proc -> Ino \cup {NoIno}]
      /\ \A q \in Proc : mine'[q] = IF q = p THEN inode ELSE mine[q]
  BY DEF Goes, Typed, Fits
<1>4. \A q \in Proc : Fits(pc'[q], seen'[q], mine'[q])
  BY <1>1, <1>2, <1>3 DEF Typed
<1>5. QED
  BY <1>1, <1>2, <1>3, <1>4 DEF Typed

\* A process that leaves one variable as it is leaves its own part as it is.
LEMMA Stays ==
    ASSUME Typed, NEW p \in Proc
    PROVE  mine = [mine EXCEPT ![p] = mine[p]] /\ seen = [seen EXCEPT ![p] = seen[p]]
BY DEF Typed

\* What fits the labels without a reading: no reading, and any inode unless
\* the lease is taken.
LEMMA Idle ==
    ASSUME NEW inode \in Ino \cup {NoIno}
    PROVE  /\ \A l \in {"mkdir", "verify", "lost race", "rmdir", "retry", "list"} \cup Publishing \cup Over :
                 Fits(l, NoDir, inode)
           /\ \A l \in {"alone", "critical"} :
                 inode \in Ino => Fits(l, NoDir, inode)
BY DEF Fits, Label, Publishing, Removing, Judging, Over

LEMMA Reading ==
    ASSUME NEW inode \in Ino \cup {NoIno}
    PROVE  /\ \A l \in Removing, read \in Snapshot : Fits(l, read, inode)
           /\ \A l \in Judging, read \in Dir : Fits(l, read, inode)
BY DEF Fits, Label, Publishing, Removing, Judging, Over

LEMMA Kinds ==
    ASSUME Typed, NEW p \in Proc
    PROVE  /\ mine[p] \in Ino \cup {NoIno} /\ NoIno \in Ino \cup {NoIno}
           /\ pc[p] \in {"mkdir", "stat", "open", "write", "verify", "alone", "critical",
                         "lost race", "rmdir", "retry", "list"} => seen[p] = NoDir
           /\ pc[p] \in {"alone", "critical"} => mine[p] \in Ino
           /\ pc[p] \in Removing => seen[p] \in Snapshot
           /\ pc[p] \in Judging => seen[p] \in Dir
BY DEF Typed, Fits, Publishing, Removing, Judging

\* The directories that an operation leaves at the path are directories.
LEMMA PutTyped ==
    ASSUME path \in Dir, NEW markers \in SUBSET Marker, PutMarkers(markers)
    PROVE  path' \in Dir /\ path'.markers = markers /\ path'.ino = path.ino /\ current' = {}
BY DEF PutMarkers, Put, Dir

LEMMA OwnIsMarker == \A p \in Proc : Own(p) \in Marker
BY DEF Own, Marker

LEMMA ClaimedIsMarker == \A m \in Marker, p \in Proc : Claimed(m, p) \in Marker
BY DEF Claimed, Marker

LEMMA InitTyped == ASSUME Init PROVE Typed
<1>1. ASSUME NEW p \in Proc PROVE Fits(pc[p], seen[p], mine[p])
  <2>1. pc[p] \in {"dead", "mkdir"} /\ seen[p] = NoDir /\ mine[p] = NoIno
    BY DEF Init
  <2>2. QED
    BY <2>1 DEF Fits, Label, Removing, Judging, Over
<1>2. pc \in [Proc -> Label]
  BY DEF Init, Label, Over
<1>3. QED
  BY <1>1, <1>2, LeaseAssumption DEF Init, Typed, Around

\* Creating and publishing a generation keeps the types (file-lock.ts:108-136).
LEMMA AcquireTyped ==
    ASSUME Typed, NEW p \in Proc,
           \/ Create(p) \/ StatCreated(p) \/ OpenMarker(p) \/ WriteMarker(p)
           \/ VerifyIdentity(p) \/ VerifyAlone(p) \/ Withdraw(p) \/ WithdrawDir(p) \/ Retry(p)
    PROVE  Typed'
<1>a. /\ Around /\ mine[p] \in Ino \cup {NoIno} /\ NoIno \in Ino \cup {NoIno}
      /\ mine = [mine EXCEPT ![p] = mine[p]]
  BY Stays, Kinds DEF Typed
<1>0. seen = [seen EXCEPT ![p] = NoDir] /\ (pc[p] = "alone" => mine[p] \in Ino)
  <2>1. pc[p] \in {"mkdir", "stat", "open", "write", "verify", "alone", "lost race", "rmdir", "retry"}
    BY DEF Create, StatCreated, OpenMarker, WriteMarker, VerifyIdentity, VerifyAlone,
           Withdraw, WithdrawDir, Retry
  <2>2. QED
    BY <2>1, Kinds, Stays
<1>b. "stat" \in Publishing /\ "open" \in Publishing /\ "write" \in Publishing /\ "timeout" \in Over
  BY DEF Publishing, Over
<1>1. CASE Create(p)
  <2>1. Goes(p, "stat", NoDir, mine[p]) /\ Around'
    BY <1>1, <1>0, <1>a DEF Create, Put, Dir, Goes, Around
  <2>2. Fits("stat", NoDir, mine[p])
    BY <1>b, <1>a, Idle
  <2>3. QED
    BY <2>1, <2>2, StepTyped
<1>2. CASE StatCreated(p)
  <2>1. CASE path # NoDir
    <3>1. Goes(p, "open", NoDir, path.ino) /\ Around' /\ path.ino \in Ino
      BY <1>2, <2>1, <1>0, <1>a DEF StatCreated, Dir, Goes, Around
    <3>2. Fits("open", NoDir, path.ino)
      BY <3>1, <1>b, <1>a, Idle
    <3>3. QED
      BY <3>1, <3>2, StepTyped
  <2>2. CASE path = NoDir
    <3>1. Goes(p, "retry", NoDir, mine[p]) /\ Around'
      BY <1>2, <2>2, <1>0, <1>a DEF StatCreated, Goes, Around
    <3>2. Fits("retry", NoDir, mine[p])
      BY <1>a, Idle
    <3>3. QED
      BY <3>1, <3>2, StepTyped
  <2>3. QED
    BY <2>1, <2>2
<1>3. CASE OpenMarker(p)
  <2>1. CASE path # NoDir
    <3>1. path' \in Dir /\ current' = {}
      BY <1>3, <2>1, <1>a, PutTyped, OwnIsMarker DEF OpenMarker, Dir, Around
    <3>2. Goes(p, "write", NoDir, mine[p]) /\ Around'
      BY <1>3, <2>1, <3>1, <1>0, <1>a DEF OpenMarker, Goes, Around
    <3>3. Fits("write", NoDir, mine[p])
      BY <1>b, <1>a, Idle
    <3>4. QED
      BY <3>2, <3>3, StepTyped
  <2>2. CASE path = NoDir
    <3>1. Goes(p, "retry", NoDir, mine[p]) /\ Around'
      BY <1>3, <2>2, <1>0, <1>a DEF OpenMarker, KeepPath, Goes, Around
    <3>2. Fits("retry", NoDir, mine[p])
      BY <1>a, Idle
    <3>3. QED
      BY <3>1, <3>2, StepTyped
  <2>3. QED
    BY <2>1, <2>2
<1>4. CASE WriteMarker(p)
  <2>1. Goes(p, "verify", NoDir, mine[p]) /\ Around'
    BY <1>4, <1>0, <1>a DEF WriteMarker, Goes, Around
  <2>2. Fits("verify", NoDir, mine[p])
    BY <1>a, Idle
  <2>3. QED
    BY <2>1, <2>2, StepTyped
<1>5. CASE VerifyIdentity(p)
  <2>1. CASE Matches(path, OwnSnapshot(p))
    <3>1. mine[p] \in Ino
      BY <2>1, <1>a DEF Around, Matches, OwnSnapshot, Dir
    <3>2. Goes(p, "alone", NoDir, mine[p]) /\ Around'
      BY <1>5, <2>1, <1>0, <1>a DEF VerifyIdentity, Goes, Around
    <3>3. Fits("alone", NoDir, mine[p])
      BY <3>1, <1>a, Idle
    <3>4. QED
      BY <3>2, <3>3, StepTyped
  <2>2. CASE ~Matches(path, OwnSnapshot(p))
    <3>1. Goes(p, "lost race", NoDir, mine[p]) /\ Around'
      BY <1>5, <2>2, <1>0, <1>a DEF VerifyIdentity, Goes, Around
    <3>2. Fits("lost race", NoDir, mine[p])
      BY <1>a, Idle
    <3>3. QED
      BY <3>1, <3>2, StepTyped
  <2>3. QED
    BY <2>1, <2>2
<1>6. CASE VerifyAlone(p)
  <2>1. mine[p] \in Ino
    BY <1>0, <1>6 DEF VerifyAlone
  <2>2. PICK label \in {"critical", "lost race"} : Goto(p, label)
    BY <1>6 DEF VerifyAlone
  <2>3. Goes(p, label, NoDir, mine[p]) /\ Around'
    BY <1>6, <2>1, <2>2, <1>0, <1>a DEF VerifyAlone, Goes, Around
  <2>4. Fits(label, NoDir, mine[p])
    BY <2>1, <2>2, <1>a, Idle
  <2>5. QED
    BY <2>3, <2>4, StepTyped
<1>7. CASE Withdraw(p)
  <2>1. path' \in Dir \cup {NoDir} /\ current' \in SUBSET Proc
    <3>1. CASE IsThere(Own(p))
      <4>1. path.markers \ {Own(p)} \in SUBSET Marker /\ path \in Dir
        BY <3>1, <1>a DEF IsThere, Dir, Around
      <4>2. QED
        BY <1>7, <3>1, <4>1, PutTyped DEF Withdraw
    <3>2. CASE ~IsThere(Own(p))
      BY <1>7, <3>2, <1>a DEF Withdraw, KeepPath, Around
    <3>3. QED
      BY <3>1, <3>2
  <2>2. Goes(p, "rmdir", NoDir, NoIno) /\ Around'
    BY <1>7, <2>1, <1>0, <1>a DEF Withdraw, Goes, Around
  <2>3. Fits("rmdir", NoDir, NoIno)
    BY <1>a, Idle
  <2>4. QED
    BY <2>2, <2>3, StepTyped
<1>8. CASE WithdrawDir(p)
  <2>1. Goes(p, "retry", NoDir, mine[p]) /\ Around'
    BY <1>8, <1>0, <1>a DEF WithdrawDir, RemoveDir, Put, KeepPath, Goes, Around
  <2>2. Fits("retry", NoDir, mine[p])
    BY <1>a, Idle
  <2>3. QED
    BY <2>1, <2>2, StepTyped
<1>9. CASE Retry(p)
  <2>1. PICK label \in {"mkdir", "timeout"} : Goto(p, label)
    BY <1>9 DEF Retry
  <2>2. Goes(p, label, NoDir, NoIno) /\ Around'
    BY <1>0, <1>9, <2>1, <1>a DEF Retry, Goes, Around
  <2>3. Fits(label, NoDir, NoIno)
    BY <1>a, <1>b, Idle
  <2>4. QED
    BY <2>2, <2>3, StepTyped
<1>10. QED
  BY <1>1, <1>2, <1>3, <1>4, <1>5, <1>6, <1>7, <1>8, <1>9

\* Removing a lease keeps the types (file-lock.ts:499-535).
LEMMA RemoveTyped ==
    ASSUME Typed, NEW p \in Proc,
           \/ MatchLease(p) \/ ClaimMarker(p) \/ CheckClaim(p) \/ MoveAside(p) \/ RemoveAside(p)
    PROVE  Typed'
<1>a. /\ Around /\ mine[p] \in Ino \cup {NoIno}
      /\ mine = [mine EXCEPT ![p] = mine[p]] /\ seen = [seen EXCEPT ![p] = seen[p]]
  BY Stays, Kinds DEF Typed
<1>b. {"match", "claim", "check claim", "move aside", "check aside"} \subseteq Removing
  BY DEF Removing
<1>0. seen[p] \in Snapshot
  <2>1. pc[p] \in Removing
    BY DEF MatchLease, ClaimMarker, CheckClaim, MoveAside, RemoveAside, Removing
  <2>2. QED
    BY <2>1, Kinds
<1>c. ASSUME NEW label \in {"list", "error", "released", "mkdir"}, mine' = mine, Around',
             Ends(p, label) \/ (Goto(p, label) /\ DoneSeen(p))
      PROVE  Typed'
  <2>1. PICK l \in {"list", "error", "released", "mkdir", "lost lease"} : Goto(p, l)
    BY <1>c DEF Ends
  <2>2. Goes(p, l, NoDir, mine[p])
    BY <1>a, <1>c, <2>1 DEF Ends, DoneSeen, Goes
  <2>3. "error" \in Over /\ "released" \in Over /\ "lost lease" \in Over
    BY DEF Over
  <2>4. Fits(l, NoDir, mine[p])
    BY <1>a, <2>3, Idle
  <2>5. QED
    BY <1>c, <2>2, <2>4, StepTyped
<1>1. CASE MatchLease(p)
  <2>1. CASE Matches(path, seen[p])
    <3>1. Goes(p, "claim", seen[p], mine[p]) /\ Around'
      BY <1>1, <2>1, <1>a DEF MatchLease, Goes, Around
    <3>2. Fits("claim", seen[p], mine[p])
      BY <1>a, <1>b, <1>0, Reading
    <3>3. QED
      BY <3>1, <3>2, StepTyped
  <2>2. CASE ~Matches(path, seen[p])
    BY <1>1, <2>2, <1>a, <1>c DEF MatchLease, Around
  <2>3. QED
    BY <2>1, <2>2
<1>2. CASE ClaimMarker(p)
  <2> DEFINE m == seen[p].marker
  <2>1. m \in Marker /\ Claimed(m, p) \in Marker
    BY <1>0, ClaimedIsMarker DEF Snapshot
  <2>2. CASE IsThere(m)
    <3>1. path' \in Dir /\ current' = {}
      <4>1. path \in Dir /\ (path.markers \ {m}) \cup {Claimed(m, p)} \in SUBSET Marker
        BY <1>a, <2>1, <2>2 DEF IsThere, Dir, Around
      <4>2. QED
        BY <1>2, <2>2, <4>1, PutTyped DEF ClaimMarker
    <3>2. [seen[p] EXCEPT !.marker = Claimed(m, p)] \in Snapshot
      BY <1>0, <2>1 DEF Snapshot
    <3>3. Goes(p, "check claim", [seen[p] EXCEPT !.marker = Claimed(m, p)], mine[p]) /\ Around'
      BY <1>2, <2>2, <3>1, <1>a DEF ClaimMarker, Goes, Around
    <3>4. Fits("check claim", [seen[p] EXCEPT !.marker = Claimed(m, p)], mine[p])
      BY <3>2, <1>a, <1>b, Reading
    <3>5. QED
      BY <3>3, <3>4, StepTyped
  <2>3. CASE ~IsThere(m)
    BY <1>2, <2>3, <1>a, <1>c DEF ClaimMarker, KeepPath, Around
  <2>4. QED
    BY <2>2, <2>3
<1>3. CASE CheckClaim(p)
  <2>1. CASE Matches(path, seen[p])
    <3>1. Goes(p, "move aside", seen[p], mine[p]) /\ Around'
      BY <1>3, <2>1, <1>a DEF CheckClaim, Goes, Around
    <3>2. Fits("move aside", seen[p], mine[p])
      BY <1>a, <1>b, <1>0, Reading
    <3>3. QED
      BY <3>1, <3>2, StepTyped
  <2>2. CASE ~Matches(path, seen[p])
    BY <1>3, <2>2, <1>a, <1>c DEF CheckClaim, Around
  <2>3. QED
    BY <2>1, <2>2
<1>4. CASE MoveAside(p)
  <2>1. CASE path # NoDir
    <3>1. Goes(p, "check aside", seen[p], mine[p]) /\ Around'
      BY <1>4, <2>1, <1>a DEF MoveAside, Put, Goes, Around
    <3>2. Fits("check aside", seen[p], mine[p])
      BY <1>a, <1>b, <1>0, Reading
    <3>3. QED
      BY <3>1, <3>2, StepTyped
  <2>2. CASE path = NoDir
    BY <1>4, <2>2, <1>a, <1>c DEF MoveAside, KeepPath, Around
  <2>3. QED
    BY <2>1, <2>2
<1>5. CASE RemoveAside(p)
  <2>1. Around' /\ mine' = mine
    BY <1>5, <1>a DEF RemoveAside, Around
  <2>2. CASE Matches(aside[p], seen[p])
    BY <1>5, <2>1, <2>2, <1>c DEF RemoveAside
  <2>3. CASE ~Matches(aside[p], seen[p])
    BY <1>5, <2>1, <2>3, <1>c DEF RemoveAside
  <2>4. QED
    BY <2>2, <2>3
<1>6. QED
  BY <1>1, <1>2, <1>3, <1>4, <1>5

\* Finding a stale lease or an abandoned directory, leaving the critical
\* section and dying keep the types (file-lock.ts:203-221 and 248-285).
LEMMA FindTyped ==
    ASSUME Typed, NEW p \in Proc,
           \/ Inspect(p) \/ Leave(p) \/ List(p) \/ Judge(p) \/ Identify(p) \/ Reclaim(p) \/ Crash(p)
    PROVE  Typed'
<1>a. /\ Around /\ mine[p] \in Ino \cup {NoIno} /\ NoIno \in Ino \cup {NoIno}
      /\ mine = [mine EXCEPT ![p] = mine[p]] /\ seen = [seen EXCEPT ![p] = seen[p]]
  BY Stays, Kinds DEF Typed
<1>b. /\ "match" \in Removing /\ "dead" \in Over
      /\ {"judge", "identify", "reclaim"} \subseteq Judging
  BY DEF Removing, Judging, Over
<1>1. CASE Inspect(p)
  <2>0. seen[p] = NoDir
    BY <1>1, Kinds DEF Inspect
  <2>1. CASE \E m \in path.markers : path.markers = {m} /\ Stale(m)
    <3>1. PICK m \in path.markers :
             /\ seen' = [seen EXCEPT ![p] = [ino |-> path.ino, marker |-> m, full |-> m.file \in full]]
             /\ Goto(p, "match")
      BY <1>1, <2>1 DEF Inspect
    <3>2. path \in Dir
      BY <1>1, <1>a DEF Inspect, Around
    <3>3. [ino |-> path.ino, marker |-> m, full |-> m.file \in full] \in Snapshot
      BY <3>1, <3>2 DEF Dir, Snapshot
    <3>4. Goes(p, "match", [ino |-> path.ino, marker |-> m, full |-> m.file \in full], mine[p]) /\ Around'
      BY <1>1, <3>1, <1>a DEF Inspect, Goes, Around
    <3>5. Fits("match", [ino |-> path.ino, marker |-> m, full |-> m.file \in full], mine[p])
      BY <3>3, <1>a, <1>b, Reading
    <3>6. QED
      BY <3>4, <3>5, StepTyped
  <2>2. CASE ~\E m \in path.markers : path.markers = {m} /\ Stale(m)
    <3>1. Goes(p, "list", NoDir, mine[p]) /\ Around'
      BY <1>1, <2>0, <2>2, <1>a DEF Inspect, Goes, Around
    <3>2. Fits("list", NoDir, mine[p])
      BY <1>a, Idle
    <3>3. QED
      BY <3>1, <3>2, StepTyped
  <2>3. QED
    BY <2>1, <2>2
<1>2. CASE Leave(p)
  <2>1. OwnSnapshot(p) \in Snapshot
    BY <1>2, Kinds, OwnIsMarker DEF Leave, OwnSnapshot, Snapshot
  <2>2. Goes(p, "match", OwnSnapshot(p), NoIno) /\ Around'
    BY <1>2, <1>a DEF Leave, Goes, Around
  <2>3. Fits("match", OwnSnapshot(p), NoIno)
    BY <2>1, <1>a, <1>b, Reading
  <2>4. QED
    BY <2>2, <2>3, StepTyped
<1>3. CASE List(p)
  <2>0. seen[p] = NoDir
    BY <1>3, Kinds DEF List
  <2>1. CASE Odd(path)
    <3>1. Goes(p, "judge", path, mine[p]) /\ Around' /\ path \in Dir
      BY <1>3, <2>1, <1>a DEF List, Odd, Goes, Around
    <3>2. Fits("judge", path, mine[p])
      BY <3>1, <1>a, <1>b, Reading
    <3>3. QED
      BY <3>1, <3>2, StepTyped
  <2>2. CASE ~Odd(path)
    <3>1. Goes(p, "retry", NoDir, mine[p]) /\ Around'
      BY <1>3, <2>0, <2>2, <1>a DEF List, Goes, Around
    <3>2. Fits("retry", NoDir, mine[p])
      BY <1>a, Idle
    <3>3. QED
      BY <3>1, <3>2, StepTyped
  <2>3. QED
    BY <2>1, <2>2
<1>c. ASSUME NEW goOn, NEW label \in {"identify", "reclaim"}, pc[p] \in Judging, Decide(p, goOn, label),
             UNCHANGED <<path, full, aged, alive, mine, aside, releasing>>
      PROVE  Typed'
  <2>1. CASE goOn
    <3>1. Goes(p, label, seen[p], mine[p]) /\ Around' /\ seen[p] \in Dir
      BY <1>a, <1>c, <2>1, Kinds DEF Decide, Goes, Around
    <3>2. Fits(label, seen[p], mine[p])
      BY <3>1, <1>a, <1>b, Reading
    <3>3. QED
      BY <3>1, <3>2, StepTyped
  <2>2. CASE ~goOn
    <3>1. Goes(p, "retry", NoDir, mine[p]) /\ Around'
      BY <1>a, <1>c, <2>2 DEF Decide, DoneSeen, Goes, Around
    <3>2. Fits("retry", NoDir, mine[p])
      BY <1>a, Idle
    <3>3. QED
      BY <3>1, <3>2, StepTyped
  <2>3. QED
    BY <2>1, <2>2
<1>4. CASE Judge(p)
  BY <1>4, <1>b, <1>c DEF Judge
<1>5. CASE Identify(p)
  BY <1>5, <1>b, <1>c DEF Identify
<1>6. CASE Reclaim(p)
  <2>1. PICK label \in {"mkdir", "retry"} : Goto(p, label)
    BY <1>6 DEF Reclaim
  <2>2. Goes(p, label, NoDir, mine[p]) /\ Around'
    BY <1>6, <2>1, <1>a DEF Reclaim, DoneSeen, Put, Goes, Around
  <2>3. Fits(label, NoDir, mine[p])
    BY <2>1, <1>a, Idle
  <2>4. QED
    BY <2>2, <2>3, StepTyped
<1>7. CASE Crash(p)
  <2>1. Goes(p, "dead", NoDir, NoIno) /\ Around'
    BY <1>7, <1>a DEF Crash, DoneSeen, Goes, Around
  <2>2. Fits("dead", NoDir, NoIno)
    BY <1>a, <1>b, Idle
  <2>3. QED
    BY <2>1, <2>2, StepTyped
<1>8. QED
  BY <1>1, <1>2, <1>3, <1>4, <1>5, <1>6, <1>7

LEMMA AgeTyped == ASSUME Typed, Age PROVE Typed'
<1>1. Around'
  BY DEF Age, Typed, Around, Dir
<1>2. ASSUME NEW p \in Proc PROVE Fits(pc[p], seen'[p], mine[p]) /\ pc'[p] = pc[p] /\ mine'[p] = mine[p]
  <2>1. Fits(pc[p], seen[p], mine[p])
    BY DEF Typed
  <2>2. CASE pc[p] = "judge"
    <3>1. seen'[p] = [seen[p] EXCEPT !.old = TRUE] /\ seen[p] \in Dir
      BY <2>2, Kinds DEF Age, Judging
    <3>2. seen'[p] \in Dir
      BY <3>1 DEF Dir
    <3>3. QED
      BY <2>1, <2>2, <3>2, Reading, Kinds DEF Age, Judging
  <2>3. CASE pc[p] # "judge"
    BY <2>1, <2>3 DEF Age
  <2>4. QED
    BY <2>2, <2>3
<1>3. seen' \in [Proc -> Snapshot \cup Dir \cup {NoDir}]
  BY <1>2 DEF Age, Fits
<1>4. QED
  BY <1>1, <1>2, <1>3 DEF Age, Typed

LEMMA NextTyped == ASSUME Typed, [Next]_vars PROVE Typed'
<1>1. CASE UNCHANGED vars
  BY <1>1 DEF vars, Typed, Around
<1>2. ASSUME NEW p \in Proc, Step(p) \/ Crash(p) PROVE Typed'
  BY <1>2, AcquireTyped, RemoveTyped, FindTyped DEF Step
<1>3. CASE Age
  BY <1>3, AgeTyped
<1>4. QED
  BY <1>1, <1>2, <1>3 DEF Next

\* Whatever the processes find at the path, the state keeps its types
\* (file-lock.ts:37-57).
THEOREM TypeCorrect == Spec => []TypeOK
<1>1. Spec => []Typed
  BY InitTyped, NextTyped, PTL DEF Spec
<1>2. Typed => TypeOK
  BY TypedIsTypeOK
<1>3. QED
  BY <1>1, <1>2, PTL
-----------------------------------------------------------------------------
(* Mutual exclusion *)

\* The dead left nothing but markers and claims of their own.
LeftByTheDead ==
    \A d \in Leftovers : d # NoDir =>
        \A m \in d.markers : m.file \in Gone /\ m.claim \in Gone \cup {Nobody}

\* No process hangs for longer than staleMs between the creation of its
\* marker file and the content.
WritesInTime == "write" \notin Stalls

\* A directory that was not listed empty is still as it was listed when it is
\* renamed: nobody comes in between Identify and Reclaim.
ReclaimsWhatItListed ==
    \A p \in Proc : pc[p] = "reclaim" => Empty(seen[p]) \/ p \in current

\* A process goes for the lease that it read of, has claimed it, or has it.
Aiming == {"match", "claim"}
Claiming == {"check claim", "move aside"}
Active == {"critical"} \cup Aiming \cup Claiming

Target(p) == IF pc[p] = "critical" THEN Own(p) ELSE seen[p].marker

\* The lease that a process goes for is its own to take: it holds it, has
\* claimed it, or is releasing it.
Secured(p) == pc[p] \in {"critical"} \cup Claiming \/ (pc[p] \in Aiming /\ p \in releasing)

Past(q) == q = Nobody \/ q \notin alive

\* What a process knows of itself.
Self(p) ==
    /\ p \in alive <=> pc[p] # "dead"
    /\ p \in releasing => pc[p] \in Removing \cup {"released", "lost lease"}
    /\ pc[p] \in {"verify", "alone", "critical"} => p \in full
    /\ pc[p] = "write" => p \notin aged
    /\ pc[p] \in {"alone", "critical"} /\ IsThere(Own(p)) => path.ino = mine[p]

\* A lease that a process goes for is that of a dead process, or its own.
Reads(p) ==
    LET m == seen[p].marker IN
    pc[p] \in Aiming \cup Claiming =>
        /\ IF p \in releasing THEN m.file = p /\ p \in full ELSE m.file \notin alive
        /\ IF pc[p] \in Claiming THEN m.claim = p ELSE Past(m.claim)
        /\ p \in releasing /\ pc[p] \in Aiming => m = Own(p)
        /\ seen[p].full = (m.file \in full)
        /\ IsThere(m) => path.ino = seen[p].ino

\* A marker at the path that names a live process is where that process is
\* about to look for it.
Tells(m) ==
    /\ m.claim \in alive => pc[m.claim] \in Claiming /\ seen[m.claim].marker = m
    /\ m.claim # Nobody => m.file = m.claim \/ m.file \notin alive
    /\ m.file \in alive /\ m.claim = Nobody =>
          /\ \/ pc[m.file] \in {"write", "verify", "alone", "lost race", "critical"}
             \/ (pc[m.file] \in Aiming /\ m.file \in releasing)
          /\ m.file \notin full => pc[m.file] = "write"

\* A lease that is secured stands.
Stands(p) == Secured(p) => IsThere(Target(p))

\* Of two processes that both find what they go for, neither has secured it,
\* and both go for the same.
Apart(p, q) ==
    p # q /\ pc[p] \in Active /\ pc[q] \in Active /\ IsThere(Target(p)) /\ IsThere(Target(q))
    => Target(p) = Target(q) /\ pc[p] \in Aiming /\ pc[q] \in Aiming

\* As long as a listing is current the path is as it was listed, and what was
\* judged abandoned names nobody alive.
Listed(p) ==
    p \in current =>
        /\ pc[p] \in Judging
        /\ path # NoDir /\ path.markers = seen[p].markers
        /\ pc[p] \in {"identify", "reclaim"} =>
              \A m \in path.markers : m.file \notin alive /\ Past(m.claim)

LeaseInv ==
    /\ \A p \in Proc : Self(p) /\ Reads(p) /\ Stands(p) /\ Listed(p)
    /\ path # NoDir => \A m \in path.markers : Tells(m)
    /\ \A p, q \in Proc : Apart(p, q)

\* A step of p, which is alive, touches nothing that others have, and no
\* marker appears but p's own or its claim.
Alone(p) ==
    /\ p \in alive /\ alive' \subseteq alive
    /\ \A q \in Proc : q # p =>
          /\ pc'[q] = pc[q] /\ seen'[q] = seen[q] /\ mine'[q] = mine[q]
          /\ q \in alive' <=> q \in alive
          /\ q \in full' <=> q \in full
          /\ q \in aged' <=> q \in aged
          /\ q \in releasing' <=> q \in releasing
          /\ q \in current' => q \in current /\ path' = path
    /\ \A m \in Marker : IsThere(m)' =>
          (IsThere(m) /\ path'.ino = path.ino) \/ m = Own(p) \/ m.claim = p

\* What p does not touch of the leases that others have secured.
Spares(p) == \A q \in Proc : q # p /\ Secured(q) => IsThere(Target(q))'

\* The markers that name p are where p is about to look for them.
TellsOf(p) == path # NoDir => \A m \in path.markers : m.file = p \/ m.claim = p => Tells(m)

\* Each process goes for a marker that is none of another live process's
\* (file-lock.ts:499-535).
LEMMA TargetOfOthers ==
    ASSUME Typed, LeaseInv, NEW p \in alive, NEW q \in Proc, q # p, pc[q] \in Active
    PROVE  Target(q) \in Marker /\ Target(q) # Own(p) /\ Target(q).claim # p
<1>0. p \in Proc /\ Nobody \notin Proc /\ Self(q) /\ Reads(q)
  BY LeaseAssumption DEF Typed, Around, LeaseInv
<1>1. CASE pc[q] = "critical"
  BY <1>0, <1>1, OwnIsMarker DEF Target, Own
<1>2. CASE pc[q] \in Aiming \cup Claiming
  <2>1. Target(q) = seen[q].marker
    BY <1>2 DEF Target, Aiming, Claiming
  <2>2. pc[q] \in Removing
    BY <1>2 DEF Removing, Aiming, Claiming
  <2>3. Target(q) \in Marker
    BY <2>1, <2>2, Kinds DEF Snapshot
  <2>4. Target(q) # Own(p)
    BY <1>0, <1>2, <2>1 DEF Reads, Own
  <2>5. Target(q).claim # p
    BY <1>0, <1>2, <2>1 DEF Reads, Past
  <2>6. QED
    BY <2>3, <2>4, <2>5
<1>3. QED
  BY <1>1, <1>2 DEF Active

\* What a process goes for depends on nothing but its own state.
LEMMA SameTarget ==
    ASSUME NEW p \in Proc, NEW q \in Proc, q # p, Alone(p)
    PROVE  /\ Target(q)' = Target(q) /\ Own(q)' = Own(q)
           /\ (pc[q] \in Active)' <=> pc[q] \in Active
           /\ Secured(q)' <=> Secured(q)
<1>1. pc'[q] = pc[q] /\ seen'[q] = seen[q] /\ (q \in releasing' <=> q \in releasing)
  BY DEF Alone
<1>2. QED
  BY <1>1 DEF Target, Own, Active, Secured

LEMMA OthersKept ==
    ASSUME Typed, Typed', LeaseInv, NEW p \in Proc, Alone(p), NEW q \in Proc, q # p
    PROVE  Self(q)' /\ Reads(q)' /\ Listed(q)'
<1>0. /\ p \in alive /\ alive' \subseteq alive /\ pc'[q] = pc[q] /\ seen'[q] = seen[q] /\ mine'[q] = mine[q]
      /\ (q \in alive' <=> q \in alive) /\ (q \in full' <=> q \in full) /\ (q \in aged' <=> q \in aged)
      /\ (q \in releasing' <=> q \in releasing) /\ (q \in current' => q \in current /\ path' = path)
      /\ Self(q) /\ Reads(q) /\ Listed(q) /\ p # Nobody /\ Own(q)' = Own(q)
  BY LeaseAssumption DEF Alone, LeaseInv, Own
<1>1. Self(q)'
  <2>1. IsThere(Own(q))' => IsThere(Own(q)) /\ path'.ino = path.ino
    <3>1. Own(q) \in Marker /\ Own(q) # Own(p) /\ Own(q).claim # p
      BY <1>0, OwnIsMarker DEF Own
    <3>2. QED
      BY <1>0, <3>1 DEF Alone
  <2>2. QED
    BY <1>0, <2>1 DEF Self
<1>2. Reads(q)'
  <2>1. CASE pc[q] \in Aiming \cup Claiming
    <3> DEFINE m == seen[q].marker
    <3>1. m' = m /\ seen'[q].full = seen[q].full /\ seen'[q].ino = seen[q].ino
      BY <1>0
    <3>2. Target(q) = m /\ pc[q] \in Active
      BY <2>1 DEF Target, Active, Aiming, Claiming
    <3>3. m \in Marker /\ m # Own(p) /\ m.claim # p
      BY <1>0, <3>2, TargetOfOthers
    <3>4. IsThere(m)' => IsThere(m) /\ path'.ino = path.ino
      BY <3>1, <3>3 DEF Alone, IsThere
    <3>5. m.file \in Proc /\ m.file # p /\ (m.file \in full' <=> m.file \in full)
      <4>1. m.file \in Proc /\ m.file # p
        BY <1>0, <2>1, <3>3 DEF Reads, Marker
      <4>2. QED
        BY <4>1 DEF Alone
    <3>6. /\ IF q \in releasing THEN m.file = q /\ q \in full ELSE m.file \notin alive
          /\ IF pc[q] \in Claiming THEN m.claim = q ELSE Past(m.claim)
          /\ (q \in releasing /\ pc[q] \in Aiming => m = Own(q))
          /\ seen[q].full = (m.file \in full)
          /\ (IsThere(m) => path.ino = seen[q].ino)
      BY <1>0, <2>1 DEF Reads
    <3> HIDE DEF m
    <3>7. /\ IF q \in releasing' THEN m.file = q /\ q \in full' ELSE m.file \notin alive'
          /\ IF pc'[q] \in Claiming THEN m.claim = q ELSE m.claim = Nobody \/ m.claim \notin alive'
      BY <1>0, <3>6 DEF Past
    <3>8. /\ (q \in releasing' /\ pc'[q] \in Aiming => m = Own(q))
          /\ seen'[q].full = (m.file \in full')
      BY <1>0, <3>1, <3>5, <3>6
    <3>9. IsThere(m)' => path'.ino = seen'[q].ino
      BY <3>1, <3>4, <3>6
    <3>10. QED
      BY <1>0, <3>1, <3>7, <3>8, <3>9 DEF Reads, Past, m, IsThere
  <2>2. CASE pc[q] \notin Aiming \cup Claiming
    BY <1>0, <2>2 DEF Reads
  <2>3. QED
    BY <2>1, <2>2
<1>3. Listed(q)'
  BY <1>0 DEF Listed, Past
<1>4. QED
  BY <1>1, <1>2, <1>3

\* A step that leaves others alone keeps the invariant if it does for the part
\* of the process that takes it.
LEMMA Frame ==
    ASSUME Typed, Typed', LeaseInv, NEW p \in Proc, Alone(p), Spares(p), TellsOf(p)',
           Self(p)', Reads(p)', Stands(p)', Listed(p)',
           \A q \in Proc : q # p => Apart(p, q)'
    PROVE  LeaseInv'
<1>0. p \in alive /\ p # Nobody
  BY LeaseAssumption DEF Alone
<1>1. \A q \in Proc : Self(q)' /\ Reads(q)' /\ Listed(q)'
  BY OthersKept
<1>2. ASSUME NEW q \in Proc PROVE Stands(q)'
  <2>1. CASE q = p
    BY <2>1
  <2>2. CASE q # p
    <3>1. Secured(q)' => IsThere(Target(q))'
      BY <2>2, SameTarget DEF Spares
    <3>2. QED
      BY <3>1 DEF Stands
  <2>3. QED
    BY <2>1, <2>2
<1>3. ASSUME NEW q \in Proc, NEW r \in Proc PROVE Apart(q, r)'
  <2>1. CASE q = p \/ r = p
    BY <2>1 DEF Apart, Target
  <2>2. CASE q # p /\ r # p
    <3>1. /\ Target(q)' = Target(q) /\ Target(r)' = Target(r)
          /\ pc'[q] = pc[q] /\ pc'[r] = pc[r]
      BY <2>2, SameTarget DEF Alone
    <3>2. ASSUME NEW s \in {q, r}, pc[s] \in Active, IsThere(Target(s))' PROVE IsThere(Target(s))
      <4>1. Target(s) \in Marker /\ Target(s) # Own(p) /\ Target(s).claim # p
        BY <1>0, <2>2, <3>2, TargetOfOthers
      <4>2. Target(s)' = Target(s)
        BY <3>1, <3>2
      <4>3. QED
        BY <3>2, <4>1, <4>2 DEF Alone, IsThere
    <3>3. Apart(q, r)
      BY DEF LeaseInv
    <3>4. QED
      BY <3>1, <3>2, <3>3 DEF Apart
  <2>3. QED
    BY <2>1, <2>2
<1>4. ASSUME path' # NoDir, NEW m \in path'.markers PROVE Tells(m)'
  <2>1. CASE m.file = p \/ m.claim = p
    BY <1>4, <2>1 DEF TellsOf
  <2>2. CASE m.file # p /\ m.claim # p
    <3>1. m \in Marker
      BY <1>4 DEF Typed, Around, Dir
    <3>2. IsThere(m)
      BY <1>4, <2>2, <3>1 DEF Alone, IsThere, Own
    <3>3. Tells(m)
      BY <3>2 DEF LeaseInv, IsThere
    <3>4. m.file \in Proc /\ (m.claim # Nobody => m.claim \in Proc)
      BY <3>1 DEF Marker
    <3>5. /\ m.file \in alive' <=> m.file \in alive
          /\ m.file \in full' <=> m.file \in full
          /\ pc'[m.file] = pc[m.file]
          /\ m.file \in releasing' <=> m.file \in releasing
      BY <2>2, <3>4 DEF Alone
    <3>6. m.claim \in alive' => m.claim \in alive /\ pc'[m.claim] = pc[m.claim] /\ seen'[m.claim] = seen[m.claim]
      <4>1. m.claim \in alive' => m.claim \in Proc
        BY DEF Typed, Around
      <4>2. QED
        BY <2>2, <4>1 DEF Alone
    <3>7. QED
      BY <3>3, <3>5, <3>6 DEF Tells
  <2>3. QED
    BY <2>1, <2>2
<1>5. QED
  BY <1>1, <1>2, <1>3, <1>4 DEF LeaseInv

\* A process that does not go for a lease has nothing to secure.
LEMMA Rests ==
    ASSUME NEW p \in Proc, pc'[p] \notin Active
    PROVE  Reads(p)' /\ Stands(p)' /\ \A q \in Proc : Apart(p, q)'
BY DEF Reads, Stands, Secured, Apart, Active

\* A step that does not touch the path spares the leases of others.
LEMMA SamePathSpares ==
    ASSUME LeaseInv, NEW p \in Proc, Alone(p), path' = path
    PROVE  Spares(p)
BY SameTarget DEF LeaseInv, Stands, Spares, IsThere

\* A process that runs is alive, and its state is what the invariant says.
LEMMA OfProcess ==
    ASSUME Typed, LeaseInv, NEW p \in Proc
    PROVE  /\ Self(p) /\ Reads(p) /\ Stands(p) /\ Listed(p)
           /\ pc[p] # "dead" => p \in alive
           /\ pc[p] \notin Judging => p \notin current
           /\ pc[p] \notin Removing \cup {"released", "lost lease"} => p \notin releasing
BY DEF LeaseInv, Self, Listed

\* While it publishes, or runs its critical section, a live process has no
\* marker at the path but its own, and before and after that none.
LEMMA OnlyOwn ==
    ASSUME Typed, LeaseInv, NEW p \in alive, pc[p] \notin Claiming, path # NoDir,
           NEW m \in path.markers, m.file = p \/ m.claim = p
    PROVE  /\ m = Own(p) /\ Tells(m)
           /\ \/ pc[p] \in {"write", "verify", "alone", "lost race", "critical"}
              \/ (pc[p] \in Aiming /\ p \in releasing)
<1>1. Tells(m) /\ m \in Marker /\ p # Nobody /\ Nobody \notin alive
  BY LeaseAssumption DEF LeaseInv, Typed, Around, Dir
<1>2. m.claim # p
  BY <1>1 DEF Tells
<1>3. m.file = p /\ m.claim = Nobody
  <2>1. m.file = p
    BY <1>2
  <2>2. m.claim # Nobody => m.file = m.claim \/ m.file \notin alive
    BY <1>1 DEF Tells
  <2>3. QED
    BY <1>2, <2>1, <2>2
<1>4. m = Own(p)
  BY <1>1, <1>3 DEF Own, Marker
<1>5. QED
  BY <1>1, <1>3, <1>4 DEF Tells

LEMMA NoneLeft ==
    ASSUME Typed, LeaseInv, NEW p \in alive, pc[p] \notin Claiming,
           pc[p] \notin {"write", "verify", "alone", "lost race", "critical"},
           pc[p] \notin Aiming \/ p \notin releasing
    PROVE  path # NoDir => \A m \in path.markers : m.file # p /\ m.claim # p
BY OnlyOwn

\* A process that finds what it goes for is the only one that may have it
\* secured (file-lock.ts:499-535).
LEMMA NobodyElse ==
    ASSUME Typed, LeaseInv, NEW p \in Proc, pc[p] \in Active, IsThere(Target(p)),
           NEW q \in Proc, q # p
    PROVE  ~Secured(q)
<1> SUFFICES ASSUME Secured(q) PROVE FALSE
  OBVIOUS
<1>1. IsThere(Target(q)) /\ pc[q] \in Active
  BY DEF LeaseInv, Stands, Secured, Active
<1>2. Target(p) = Target(q) /\ pc[p] \in Aiming /\ pc[q] \in Aiming
  BY <1>1 DEF LeaseInv, Apart
<1>3. q \in releasing /\ Target(q) = Own(q) /\ q \in alive
  BY <1>2, OfProcess DEF Secured, Target, Reads, Aiming, Claiming
<1>4. Target(p) # Own(q)
  BY <1>3, TargetOfOthers
<1>5. QED
  BY <1>2, <1>3, <1>4

\* What names nobody alive, and is old enough if it names nobody, is what a
\* dead process left (file-lock.ts:340-379).
LEMMA NamesTheDead ==
    ASSUME Typed, LeaseInv, path # NoDir, NEW m \in path.markers,
           Names(m) \cap alive = {}, Names(m) = {} => m.file \in aged
    PROVE  m.file \notin alive /\ Past(m.claim)
<1>1. Tells(m)
  BY DEF LeaseInv
<1>2. CASE m.claim # Nobody
  BY <1>1, <1>2 DEF Tells, Names, Past
<1>3. CASE m.claim = Nobody
  <2>1. Past(m.claim)
    BY <1>3 DEF Past
  <2>2. CASE m.file \in full
    BY <1>3, <2>1, <2>2 DEF Names
  <2>3. CASE m.file \notin full
    <3>1. m.file \in aged
      BY <1>3, <2>3 DEF Names
    <3>2. m.file \in alive => pc[m.file] = "write" /\ m.file \in Proc
      BY <1>1, <1>3, <2>3 DEF Tells, Typed, Around
    <3>3. QED
      BY <2>1, <3>1, <3>2 DEF LeaseInv, Self
  <2>4. QED
    BY <2>2, <2>3
<1>4. QED
  BY <1>2, <1>3

\* A directory that carries no marker of a live process is nobody's lease.
LEMMA NothingSecured ==
    ASSUME Typed, LeaseInv,
           path # NoDir => \A m \in path.markers : m.file \notin alive /\ Past(m.claim)
    PROVE  \A q \in Proc : ~Secured(q)
<1> SUFFICES ASSUME NEW q \in Proc, Secured(q) PROVE FALSE
  OBVIOUS
<1>1. IsThere(Target(q)) /\ Reads(q) /\ q # Nobody
  BY LeaseAssumption DEF LeaseInv, Stands
<1>2. q \in alive
  BY OfProcess DEF Secured, Claiming, Aiming
<1>3. Target(q).file \notin alive /\ Past(Target(q).claim)
  BY <1>1 DEF IsThere
<1>4. CASE pc[q] = "critical"
  BY <1>2, <1>3, <1>4 DEF Target, Own
<1>5. CASE pc[q] \in Claiming
  BY <1>1, <1>2, <1>3, <1>5 DEF Target, Reads, Past, Claiming
<1>6. CASE pc[q] \in Aiming /\ q \in releasing
  BY <1>1, <1>2, <1>3, <1>6 DEF Target, Reads, Aiming
<1>7. QED
  BY <1>4, <1>5, <1>6 DEF Secured

\* The marker of a process that publishes tells where it is (file-lock.ts:108-136).
LEMMA OwnTells ==
    ASSUME NEW p \in Proc, p \in alive', Nobody \notin alive',
           \/ pc'[p] \in {"write", "verify", "alone", "lost race", "critical"}
           \/ (pc'[p] \in Aiming /\ p \in releasing'),
           p \notin full' => pc'[p] = "write"
    PROVE  Tells(Own(p))'
BY DEF Tells, Own

LEMMA OwnTellsOf ==
    ASSUME NEW p \in Proc, Tells(Own(p))',
           path' # NoDir => \A m \in path'.markers : m.file = p \/ m.claim = p => m = Own(p)
    PROVE  TellsOf(p)'
<1>1. PICK o : o = Own(p)
  OBVIOUS
<1>2. Tells(o)'
  BY <1>1 DEF Tells
<1>3. ASSUME path' # NoDir, NEW m \in path'.markers, m.file = p \/ m.claim = p PROVE Tells(m)'
  <2>1. m = o
    BY <1>1, <1>3
  <2>2. QED
    BY <1>2, <2>1 DEF Tells
<1>4. QED
  BY <1>3 DEF TellsOf

\* Publishing a generation touches no lease that another has secured
\* (file-lock.ts:108-136).
LEMMA CreateKeeps == ASSUME Typed, Typed', LeaseInv, NEW p \in Proc, Create(p) PROVE LeaseInv'
<1>0. path' \in Dir /\ path'.markers = {} /\ current' = {}
  BY DEF Create, Put, Dir
<1>1. /\ pc[p] = "mkdir" /\ path = NoDir /\ Goto(p, "stat") /\ current' = {}
      /\ path' # NoDir /\ path'.markers = {}
      /\ UNCHANGED <<full, aged, alive, mine, seen, aside, releasing>>
  BY <1>0, LeaseAssumption DEF Create
<1>2. /\ pc'[p] = "stat" /\ p \in alive /\ p \notin releasing
      /\ \A q \in Proc : q # p => pc'[q] = pc[q]
  BY <1>1, OfProcess DEF Goto, Typed, Removing
<1>3. Alone(p)
  BY <1>1, <1>2 DEF Alone, IsThere
<1>4. Spares(p)
  BY <1>1, <1>3, NothingSecured DEF Spares
<1>5. TellsOf(p)' /\ Self(p)' /\ Listed(p)'
  BY <1>1, <1>2 DEF TellsOf, Self, Listed
<1>6. QED
  BY <1>2, <1>3, <1>4, <1>5, Frame, Rests DEF Active, Aiming, Claiming

LEMMA StatCreatedKeeps == ASSUME Typed, Typed', LeaseInv, NEW p \in Proc, StatCreated(p) PROVE LeaseInv'
<1>1. /\ pc[p] = "stat" /\ \E l \in {"open", "retry"} : Goto(p, l)
      /\ \A q \in Proc : q # p => mine'[q] = mine[q]
      /\ UNCHANGED <<path, full, aged, alive, seen, current, aside, releasing>>
  BY DEF StatCreated, Typed
<1>2. /\ pc'[p] \in {"open", "retry"} /\ p \in alive /\ p \notin releasing /\ p \notin current
      /\ \A q \in Proc : q # p => pc'[q] = pc[q]
  BY <1>1, OfProcess DEF Goto, Typed, Removing, Judging
<1>3. Alone(p)
  BY <1>1, <1>2 DEF Alone, IsThere
<1>4. TellsOf(p)'
  BY <1>1, <1>2, NoneLeft DEF TellsOf, Aiming, Claiming
<1>5. Self(p)' /\ Listed(p)'
  BY <1>1, <1>2 DEF Self, Listed
<1>6. QED
  BY <1>1, <1>2, <1>3, <1>4, <1>5, Frame, Rests, SamePathSpares DEF Active, Aiming, Claiming

LEMMA OpenMarkerKeeps == ASSUME Typed, Typed', LeaseInv, NEW p \in Proc, OpenMarker(p) PROVE LeaseInv'
<1>0. pc[p] = "open" /\ UNCHANGED <<alive, mine, seen, aside, releasing>>
  BY DEF OpenMarker
<1>1. p \in alive /\ p \notin releasing /\ p \notin current /\ Nobody \notin alive
  BY <1>0, LeaseAssumption, OfProcess DEF Removing, Judging, Typed, Around
<1>2. path # NoDir => \A m \in path.markers : m.file # p /\ m.claim # p
  BY <1>0, <1>1, NoneLeft DEF Aiming, Claiming
<1>3. CASE path # NoDir
  <2>1. /\ path' # NoDir /\ path'.markers = path.markers \cup {Own(p)} /\ path'.ino = path.ino
        /\ current' = {} /\ full' = full \ {p} /\ aged' = aged \ {p} /\ Goto(p, "write")
    <3>1. path \in Dir /\ path.markers \cup {Own(p)} \in SUBSET Marker
      BY <1>3, OwnIsMarker DEF Typed, Around, Dir
    <3>2. PutMarkers(path.markers \cup {Own(p)}) /\ path' # NoDir
      BY <1>3, LeaseAssumption, <3>1, PutTyped DEF OpenMarker
    <3>3. QED
      BY <1>3, <3>1, <3>2, PutTyped DEF OpenMarker
  <2>2. pc'[p] = "write" /\ \A q \in Proc : q # p => pc'[q] = pc[q]
    BY <2>1 DEF Goto, Typed
  <2>3. Alone(p)
    BY <1>0, <1>1, <1>3, <2>1, <2>2 DEF Alone, IsThere
  <2>4. Spares(p)
    BY <1>3, <2>1, <2>3, SameTarget DEF LeaseInv, Stands, Spares, IsThere
  <2>5. TellsOf(p)'
    <3>1. Tells(Own(p))'
      BY <1>0, <1>1, <2>2, OwnTells
    <3>2. \A m \in path'.markers : m.file = p \/ m.claim = p => m = Own(p)
      BY <1>2, <1>3, <2>1
    <3>3. QED
      BY <3>1, <3>2, OwnTellsOf
  <2>6. Self(p)' /\ Listed(p)'
    BY <1>0, <1>1, <2>1, <2>2 DEF Self, Listed
  <2>7. QED
    BY <2>2, <2>3, <2>4, <2>5, <2>6, Frame, Rests DEF Active, Aiming, Claiming
<1>4. CASE path = NoDir
  <2>1. Goto(p, "retry") /\ UNCHANGED <<path, current, full, aged>>
    BY <1>4 DEF OpenMarker, KeepPath
  <2>2. pc'[p] = "retry" /\ \A q \in Proc : q # p => pc'[q] = pc[q]
    BY <2>1 DEF Goto, Typed
  <2>3. Alone(p)
    BY <1>0, <1>1, <2>1, <2>2 DEF Alone, IsThere
  <2>4. TellsOf(p)' /\ Self(p)' /\ Listed(p)'
    BY <1>0, <1>1, <1>4, <2>1, <2>2 DEF TellsOf, Self, Listed
  <2>5. QED
    BY <2>1, <2>2, <2>3, <2>4, Frame, Rests, SamePathSpares DEF Active, Aiming, Claiming
<1>5. QED
  BY <1>3, <1>4

LEMMA WriteMarkerKeeps == ASSUME Typed, Typed', LeaseInv, NEW p \in Proc, WriteMarker(p) PROVE LeaseInv'
<1>1. /\ pc[p] = "write" /\ Goto(p, "verify") /\ full' = full \cup {p} /\ aged' = aged \ {p}
      /\ UNCHANGED <<path, alive, mine, seen, current, aside, releasing>>
  BY DEF WriteMarker
<1>2. /\ pc'[p] = "verify" /\ p \in alive /\ p \notin releasing /\ p \notin current
      /\ \A q \in Proc : q # p => pc'[q] = pc[q]
  BY <1>1, OfProcess DEF Goto, Typed, Removing, Judging
<1>3. Alone(p)
  BY <1>1, <1>2 DEF Alone, IsThere
<1>4. TellsOf(p)'
  <2>1. path # NoDir => \A m \in path.markers : m.file = p \/ m.claim = p => m = Own(p)
    BY <1>1, <1>2, OnlyOwn DEF Claiming
  <2>2. QED
    BY <1>1, <1>2, <2>1, OwnTells, OwnTellsOf, LeaseAssumption DEF Typed, Around
<1>5. Self(p)' /\ Listed(p)'
  BY <1>1, <1>2 DEF Self, Listed
<1>6. QED
  BY <1>1, <1>2, <1>3, <1>4, <1>5, Frame, Rests, SamePathSpares DEF Active, Aiming, Claiming

LEMMA VerifyKeeps ==
    ASSUME Typed, Typed', LeaseInv, NEW p \in Proc, VerifyIdentity(p) \/ VerifyAlone(p)
    PROVE  LeaseInv'
<1>0. /\ pc[p] \in {"verify", "alone"}
      /\ UNCHANGED <<path, full, aged, alive, mine, seen, current, aside, releasing>>
  BY DEF VerifyIdentity, VerifyAlone
<1>1. p \in alive /\ p \notin releasing /\ p \notin current /\ p \in full /\ Nobody \notin alive
  BY <1>0, LeaseAssumption, OfProcess DEF Removing, Judging, Typed, Around, Self
<1>2. PICK l \in {"alone", "critical", "lost race"} : Goto(p, l)
  BY DEF VerifyIdentity, VerifyAlone
<1>3. pc'[p] = l /\ \A q \in Proc : q # p => pc'[q] = pc[q]
  BY <1>2 DEF Goto, Typed
<1>4. Alone(p) /\ Spares(p)
  BY <1>0, <1>1, <1>3, SamePathSpares DEF Alone, IsThere
<1>5. TellsOf(p)'
  <2>1. path # NoDir => \A m \in path.markers : m.file = p \/ m.claim = p => m = Own(p)
    BY <1>0, <1>1, OnlyOwn DEF Claiming
  <2>2. QED
    BY <1>0, <1>1, <1>2, <1>3, <2>1, OwnTells, OwnTellsOf
<1>6. Listed(p)'
  BY <1>0, <1>1 DEF Listed
<1>7. CASE l = "lost race"
  <2>1. Self(p)'
    BY <1>0, <1>1, <1>3, <1>7 DEF Self
  <2>2. QED
    BY <1>3, <1>4, <1>5, <1>6, <1>7, <2>1, Frame, Rests DEF Active, Aiming, Claiming
<1>8. CASE l = "alone"
  <2>1. path.ino = mine[p]
    <3>1. CASE VerifyAlone(p)
      BY <1>3, <1>8, <3>1 DEF VerifyAlone, Goto, Typed
    <3>2. CASE VerifyIdentity(p)
      BY <1>3, <1>8, <3>2 DEF VerifyIdentity, Matches, OwnSnapshot, Goto, Typed
    <3>3. QED
      BY <3>1, <3>2
  <2>2. Self(p)'
    BY <1>0, <1>1, <1>3, <1>8, <2>1 DEF Self
  <2>3. QED
    BY <1>3, <1>4, <1>5, <1>6, <1>8, <2>2, Frame, Rests DEF Active, Aiming, Claiming
<1>9. CASE l = "critical"
  <2>1. pc[p] = "alone" /\ path # NoDir /\ path.markers = {Own(p)}
    BY <1>2, <1>3, <1>9 DEF VerifyIdentity, VerifyAlone, SoleMarker, Goto, Typed
  <2>2. Self(p)'
    BY <1>0, <1>1, <1>3, <1>9, <2>1, OfProcess DEF Self, IsThere, Own
  <2>3. Reads(p)' /\ Stands(p)'
    BY <1>0, <1>3, <1>9, <2>1 DEF Reads, Stands, Secured, Target, IsThere, Aiming, Claiming, Own
  <2>4. ASSUME NEW q \in Proc, q # p PROVE Apart(p, q)'
    <3>1. (pc[q] \in Active)' => ~IsThere(Target(q))'
      BY <1>0, <1>1, <1>4, <2>1, <2>4, SameTarget, TargetOfOthers DEF IsThere
    <3>2. QED
      BY <3>1 DEF Apart
  <2>5. QED
    BY <1>4, <1>5, <1>6, <2>2, <2>3, <2>4, Frame
<1>10. QED
  BY <1>2, <1>7, <1>8, <1>9

\* Losing the race and trying again (file-lock.ts:137-195).
LEMMA WithdrawKeeps == ASSUME Typed, Typed', LeaseInv, NEW p \in Proc, Withdraw(p) PROVE LeaseInv'
<1>1. /\ pc[p] = "lost race" /\ Goto(p, "rmdir")
      /\ \A q \in Proc : q # p => mine'[q] = mine[q]
      /\ UNCHANGED <<full, aged, alive, seen, aside, releasing>>
  BY DEF Withdraw, Typed
<1>2. /\ pc'[p] = "rmdir" /\ p \in alive /\ p \notin releasing /\ p \notin current
      /\ \A q \in Proc : q # p => pc'[q] = pc[q]
  BY <1>1, OfProcess DEF Goto, Typed, Removing, Judging
<1>3. path # NoDir => \A m \in path.markers : m.file = p \/ m.claim = p => m = Own(p)
  BY <1>1, <1>2, OnlyOwn DEF Claiming
<1>4. CASE IsThere(Own(p))
  <2>1. /\ path # NoDir /\ path' # NoDir /\ path'.markers = path.markers \ {Own(p)}
        /\ path'.ino = path.ino /\ current' = {}
    <3>1. path \in Dir /\ path.markers \ {Own(p)} \in SUBSET Marker
      BY <1>4 DEF IsThere, Typed, Around, Dir
    <3>2. PutMarkers(path.markers \ {Own(p)})
      BY <1>4 DEF Withdraw
    <3>3. QED
      BY <1>4, <3>1, <3>2, PutTyped, LeaseAssumption DEF IsThere
  <2>2. Alone(p)
    BY <1>1, <1>2, <2>1 DEF Alone, IsThere
  <2>3. Spares(p)
    <3>1. \A q \in Proc : q # p /\ Secured(q) => IsThere(Target(q)) /\ Target(q) # Own(p)
      BY <1>2, TargetOfOthers DEF LeaseInv, Stands, Secured, Active
    <3>2. \A q \in Proc : q # p => Target(q)' = Target(q)
      BY <2>2, SameTarget
    <3>3. QED
      BY <2>1, <3>1, <3>2 DEF Spares, IsThere
  <2>4. TellsOf(p)' /\ Self(p)' /\ Listed(p)'
    BY <1>1, <1>2, <1>3, <2>1 DEF TellsOf, Self, Listed
  <2>5. QED
    BY <1>2, <2>2, <2>3, <2>4, Frame, Rests DEF Active, Aiming, Claiming
<1>5. CASE ~IsThere(Own(p))
  <2>1. UNCHANGED <<path, current>>
    BY <1>5 DEF Withdraw, KeepPath
  <2>2. Alone(p) /\ Spares(p)
    BY <1>1, <1>2, <2>1, SamePathSpares DEF Alone, IsThere
  <2>3. TellsOf(p)' /\ Self(p)' /\ Listed(p)'
    BY <1>1, <1>2, <1>3, <1>5, <2>1 DEF TellsOf, Self, Listed, IsThere
  <2>4. QED
    BY <1>2, <2>2, <2>3, Frame, Rests DEF Active, Aiming, Claiming
<1>6. QED
  BY <1>4, <1>5

LEMMA WithdrawDirKeeps == ASSUME Typed, Typed', LeaseInv, NEW p \in Proc, WithdrawDir(p) PROVE LeaseInv'
<1>1. /\ pc[p] = "rmdir" /\ Goto(p, "retry")
      /\ UNCHANGED <<full, aged, alive, mine, seen, aside, releasing>>
  BY DEF WithdrawDir
<1>2. /\ pc'[p] = "retry" /\ p \in alive /\ p \notin releasing /\ p \notin current
      /\ \A q \in Proc : q # p => pc'[q] = pc[q]
  BY <1>1, OfProcess DEF Goto, Typed, Removing, Judging
<1>3. path # NoDir => \A m \in path.markers : m.file # p /\ m.claim # p
  BY <1>1, <1>2, NoneLeft DEF Aiming, Claiming
<1>4. CASE Empty(path)
  <2>1. path' = NoDir /\ current' = {}
    BY <1>4 DEF WithdrawDir, RemoveDir, Put
  <2>2. Alone(p)
    BY <1>1, <1>2, <2>1 DEF Alone, IsThere
  <2>3. Spares(p)
    BY <1>4, NothingSecured DEF Empty, Spares
  <2>4. TellsOf(p)' /\ Self(p)' /\ Listed(p)'
    BY <1>1, <1>2, <2>1 DEF TellsOf, Self, Listed
  <2>5. QED
    BY <1>2, <2>2, <2>3, <2>4, Frame, Rests DEF Active, Aiming, Claiming
<1>5. CASE ~Empty(path)
  <2>1. UNCHANGED <<path, current>>
    BY <1>5 DEF WithdrawDir, RemoveDir, KeepPath
  <2>2. Alone(p) /\ Spares(p)
    BY <1>1, <1>2, <2>1, SamePathSpares DEF Alone, IsThere
  <2>3. TellsOf(p)' /\ Self(p)' /\ Listed(p)'
    BY <1>1, <1>2, <1>3, <2>1 DEF TellsOf, Self, Listed
  <2>4. QED
    BY <1>2, <2>2, <2>3, Frame, Rests DEF Active, Aiming, Claiming
<1>6. QED
  BY <1>4, <1>5

LEMMA RetryKeeps == ASSUME Typed, Typed', LeaseInv, NEW p \in Proc, Retry(p) PROVE LeaseInv'
<1>1. /\ pc[p] = "retry" /\ \E l \in {"mkdir", "timeout"} : Goto(p, l)
      /\ \A q \in Proc : q # p => mine'[q] = mine[q]
      /\ UNCHANGED <<path, full, aged, alive, seen, current, aside, releasing>>
  BY DEF Retry, Typed
<1>2. /\ pc'[p] \in {"mkdir", "timeout"} /\ p \in alive /\ p \notin releasing /\ p \notin current
      /\ \A q \in Proc : q # p => pc'[q] = pc[q]
  BY <1>1, OfProcess DEF Goto, Typed, Removing, Judging
<1>3. Alone(p)
  BY <1>1, <1>2 DEF Alone, IsThere
<1>4. TellsOf(p)'
  BY <1>1, <1>2, NoneLeft DEF TellsOf, Aiming, Claiming
<1>5. Self(p)' /\ Listed(p)'
  BY <1>1, <1>2 DEF Self, Listed
<1>6. QED
  BY <1>1, <1>2, <1>3, <1>4, <1>5, Frame, Rests, SamePathSpares DEF Active, Aiming, Claiming

\* What acquireLock takes for stale is what a dead process left
\* (file-lock.ts:203-221).
LEMMA InspectKeeps == ASSUME Typed, Typed', LeaseInv, NEW p \in Proc, Inspect(p) PROVE LeaseInv'
<1>1. /\ pc[p] = "mkdir" /\ path # NoDir
      /\ UNCHANGED <<path, full, aged, alive, mine, current, aside, releasing>>
  BY DEF Inspect
<1>2. p \in alive /\ p \notin releasing /\ p \notin current /\ Nobody \notin alive
  BY <1>1, LeaseAssumption, OfProcess DEF Removing, Judging, Typed, Around
<1>3. \A m \in path.markers : m.file # p /\ m.claim # p
  BY <1>1, <1>2, NoneLeft DEF Aiming, Claiming
<1>4. CASE \E m \in path.markers : path.markers = {m} /\ Stale(m)
  <2>1. PICK m \in path.markers :
           /\ path.markers = {m} /\ Stale(m) /\ Goto(p, "match")
           /\ seen' = [seen EXCEPT ![p] = [ino |-> path.ino, marker |-> m, full |-> m.file \in full]]
    BY <1>4 DEF Inspect
  <2>2. /\ pc'[p] = "match" /\ \A q \in Proc : q # p => pc'[q] = pc[q] /\ seen'[q] = seen[q]
        /\ seen'[p].ino = path.ino /\ seen'[p].marker = m /\ seen'[p].full = (m.file \in full)
    BY <2>1 DEF Goto, Typed
  <2>3. m.file \notin alive /\ Past(m.claim)
    <3>1. Names(m) \cap alive = {} /\ (Names(m) = {} => m.file \in aged)
      BY <2>1 DEF Stale
    <3>2. QED
      BY <1>1, <3>1, NamesTheDead
  <2>4. Alone(p) /\ Spares(p)
    BY <1>1, <1>2, <2>2, SamePathSpares DEF Alone, IsThere
  <2>5. TellsOf(p)' /\ Self(p)' /\ Listed(p)' /\ Stands(p)'
    BY <1>1, <1>2, <1>3, <2>2 DEF TellsOf, Self, Listed, Stands, Secured, Claiming
  <2>6. Reads(p)'
    BY <1>1, <1>2, <2>2, <2>3 DEF Reads, Past, Claiming, IsThere
  <2>7. ASSUME NEW q \in Proc, q # p PROVE Apart(p, q)'
    <3>1. /\ Target(q)' = Target(q) /\ Target(p)' = m /\ pc'[p] \in Aiming
          /\ pc'[q] = pc[q] /\ (IsThere(Target(q))' => Target(q) = m)
      BY <1>1, <2>1, <2>2, <2>4, <2>7, SameTarget DEF Target, Aiming, IsThere
    <3>2. CASE pc[q] \notin Active \/ Target(q) # m
      BY <3>1, <3>2 DEF Apart, Active
    <3>3. CASE pc[q] \in Active /\ Target(q) = m
      <4>1. q \in alive
        BY <3>3, OfProcess DEF Active, Aiming, Claiming
      <4>2. pc[q] # "critical"
        BY <2>3, <3>3, <4>1 DEF Target, Own
      <4>3. pc[q] \notin Claiming
        <5> SUFFICES ASSUME pc[q] \in Claiming PROVE FALSE
          OBVIOUS
        <5>1. Target(q) = seen[q].marker /\ seen[q].marker.claim = q
          BY OfProcess DEF Target, Reads, Claiming
        <5>2. QED
          BY <1>2, <2>3, <3>3, <4>1, <5>1 DEF Past
      <4>4. QED
        BY <3>1, <3>3, <4>2, <4>3 DEF Apart, Active
    <3>4. QED
      BY <3>2, <3>3
  <2>8. QED
    BY <2>4, <2>5, <2>6, <2>7, Frame
<1>5. CASE ~\E m \in path.markers : path.markers = {m} /\ Stale(m)
  <2>1. Goto(p, "list") /\ UNCHANGED seen
    BY <1>5 DEF Inspect
  <2>2. pc'[p] = "list" /\ \A q \in Proc : q # p => pc'[q] = pc[q]
    BY <2>1 DEF Goto, Typed
  <2>3. Alone(p) /\ Spares(p)
    BY <1>1, <1>2, <2>1, <2>2, SamePathSpares DEF Alone, IsThere
  <2>4. TellsOf(p)' /\ Self(p)' /\ Listed(p)'
    BY <1>1, <1>2, <1>3, <2>2 DEF TellsOf, Self, Listed
  <2>5. QED
    BY <2>2, <2>3, <2>4, Frame, Rests DEF Active, Aiming, Claiming
<1>6. QED
  BY <1>4, <1>5

\* A lease is removed by the one process that has claimed it, or by its owner
\* (file-lock.ts:499-535).
LEMMA MatchLeaseKeeps == ASSUME Typed, Typed', LeaseInv, NEW p \in Proc, MatchLease(p) PROVE LeaseInv'
<1>1. pc[p] = "match" /\ UNCHANGED <<path, full, aged, alive, mine, current, aside, releasing>>
  BY DEF MatchLease
<1>2. p \in alive /\ p \notin current /\ Nobody \notin alive
  BY <1>1, LeaseAssumption, OfProcess DEF Judging, Typed, Around
<1>3. CASE Matches(path, seen[p])
  <2>1. Goto(p, "claim") /\ UNCHANGED seen
    BY <1>3 DEF MatchLease
  <2>2. pc'[p] = "claim" /\ \A q \in Proc : q # p => pc'[q] = pc[q]
    BY <2>1 DEF Goto, Typed
  <2>3. Alone(p) /\ Spares(p)
    BY <1>1, <1>2, <2>1, <2>2, SamePathSpares DEF Alone, IsThere
  <2>4. Target(p)' = Target(p)
    BY <1>1, <2>1, <2>2 DEF Target
  <2>5. Reads(p)' /\ Stands(p)' /\ Self(p)' /\ Listed(p)'
    <3>1. Reads(p) /\ Stands(p) /\ Self(p) /\ Own(p)' = Own(p)
      BY OfProcess DEF Own
    <3>2. Reads(p)'
      BY <1>1, <2>1, <2>2, <3>1 DEF Reads, Past, IsThere, Aiming, Claiming
    <3>3. Stands(p)'
      BY <1>1, <2>1, <2>2, <2>4, <3>1 DEF Stands, Secured, IsThere, Aiming, Claiming
    <3>4. QED
      BY <1>1, <1>2, <2>2, <3>1, <3>2, <3>3 DEF Self, Listed, Removing
  <2>6. TellsOf(p)'
    <3>1. path # NoDir => \A m \in path.markers : m.file = p \/ m.claim = p =>
             m = Own(p) /\ p \in releasing
      BY <1>1, <1>2, OnlyOwn DEF Aiming, Claiming
    <3>2. p \in releasing => Tells(Own(p))'
      <4>1. p \in releasing => p \in full
        BY <1>1, OfProcess DEF Reads, Aiming
      <4>2. QED
        BY <1>1, <1>2, <2>2, <4>1, OwnTells DEF Aiming
    <3>3. CASE p \in releasing
      BY <1>1, <3>1, <3>2, <3>3, OwnTellsOf
    <3>4. CASE p \notin releasing
      BY <1>1, <3>1, <3>4 DEF TellsOf
    <3>5. QED
      BY <3>3, <3>4
  <2>7. ASSUME NEW q \in Proc, q # p PROVE Apart(p, q)'
    <3>1. Apart(p, q) /\ Target(q)' = Target(q) /\ pc'[q] = pc[q]
      BY <2>2, <2>3, <2>7, SameTarget DEF LeaseInv
    <3>2. QED
      BY <1>1, <2>2, <2>4, <3>1 DEF Apart, IsThere, Active, Aiming, Claiming
  <2>8. QED
    BY <2>3, <2>5, <2>6, <2>7, Frame
<1>4. CASE ~Matches(path, seen[p])
  <2>1. p \notin releasing
    <3> SUFFICES ASSUME p \in releasing PROVE FALSE
      OBVIOUS
    <3>1. Secured(p) /\ Target(p) = seen[p].marker /\ Stands(p) /\ Reads(p)
      BY <1>1, OfProcess DEF Secured, Aiming, Target
    <3>2. QED
      BY <1>1, <1>4, <3>1 DEF Stands, Reads, Matches, IsThere, Aiming
  <2>2. Goto(p, "list") /\ DoneSeen(p)
    BY <1>4, <2>1 DEF MatchLease, Ends
  <2>3. pc'[p] = "list" /\ \A q \in Proc : q # p => pc'[q] = pc[q] /\ seen'[q] = seen[q]
    BY <2>2 DEF Goto, DoneSeen, Typed
  <2>4. Alone(p) /\ Spares(p)
    BY <1>1, <1>2, <2>3, SamePathSpares DEF Alone, IsThere
  <2>5. TellsOf(p)' /\ Self(p)' /\ Listed(p)'
    BY <1>1, <1>2, <2>1, <2>3, NoneLeft DEF TellsOf, Self, Listed, Claiming
  <2>6. QED
    BY <2>3, <2>4, <2>5, Frame, Rests DEF Active, Aiming, Claiming
<1>5. QED
  BY <1>3, <1>4

LEMMA ClaimMarkerKeeps == ASSUME Typed, Typed', LeaseInv, NEW p \in Proc, ClaimMarker(p) PROVE LeaseInv'
<1>1. pc[p] = "claim" /\ UNCHANGED <<full, aged, alive, mine, aside, releasing>>
  BY DEF ClaimMarker
<1>2. p \in alive /\ p \notin current /\ Nobody \notin alive /\ p # Nobody
  BY <1>1, LeaseAssumption, OfProcess DEF Judging, Typed, Around
<1>3. PICK m : m = seen[p].marker
  OBVIOUS
<1>4. Target(p) = m /\ pc[p] \in Active /\ seen[p] \in Snapshot /\ m \in Marker
  BY <1>1, <1>3, Kinds DEF Target, Active, Aiming, Removing, Snapshot
<1>5. /\ IF p \in releasing THEN m.file = p /\ p \in full ELSE m.file \notin alive
      /\ Past(m.claim) /\ (p \in releasing => m = Own(p))
      /\ seen[p].full = (m.file \in full)
      /\ IsThere(m) => path.ino = seen[p].ino
  BY <1>1, <1>3, OfProcess DEF Reads, Aiming, Claiming
<1>6. CASE IsThere(m)
  <2>1. PICK c \in Marker : c = Claimed(m, p)
    BY <1>4, ClaimedIsMarker
  <2>2. c.file = m.file /\ c.claim = p /\ c # m
    BY <1>2, <1>4, <1>5, <2>1 DEF Claimed, Marker, Past
  <2>3. /\ path # NoDir /\ path' # NoDir /\ path'.markers = (path.markers \ {m}) \cup {c}
        /\ path'.ino = path.ino /\ current' = {}
    <3>1. path \in Dir /\ (path.markers \ {m}) \cup {c} \in SUBSET Marker
      BY <1>6, <2>1 DEF IsThere, Typed, Around, Dir
    <3>2. PutMarkers((path.markers \ {m}) \cup {c})
      BY <1>3, <1>6, <2>1 DEF ClaimMarker
    <3>3. QED
      BY <1>6, <3>1, <3>2, PutTyped, LeaseAssumption DEF IsThere
  <2>4. /\ Goto(p, "check claim") /\ seen' = [seen EXCEPT ![p].marker = c]
    BY <1>3, <1>6, <2>1 DEF ClaimMarker
  <2>5. /\ pc'[p] = "check claim" /\ \A q \in Proc : q # p => pc'[q] = pc[q] /\ seen'[q] = seen[q]
        /\ seen'[p].marker = c /\ seen'[p].ino = seen[p].ino /\ seen'[p].full = seen[p].full
    BY <1>4, <2>1, <2>4 DEF Goto, Typed, Snapshot
  <2>6. Alone(p)
    BY <1>1, <1>2, <2>2, <2>3, <2>5 DEF Alone, IsThere
  <2>7. Spares(p)
    BY <1>4, <1>6, NobodyElse DEF Spares
  <2>8. Self(p)' /\ Listed(p)'
    BY <1>1, <1>2, <2>3, <2>5, OfProcess DEF Self, Listed, Removing
  <2>9. Reads(p)' /\ Stands(p)'
    <3>1. Reads(p)'
      BY <1>1, <1>5, <1>6, <2>2, <2>3, <2>5 DEF Reads, IsThere, Aiming, Claiming
    <3>2. QED
      BY <2>3, <2>5, <3>1 DEF Stands, Target, IsThere
  <2>10. TellsOf(p)'
    <3>1. Tells(c)'
      BY <1>1, <1>2, <1>5, <2>2, <2>5 DEF Tells, Claiming
    <3>2. ASSUME NEW o \in path.markers, o # m PROVE o.file # p /\ o.claim # p
      <4>1. o.file = p \/ o.claim = p => o = Own(p) /\ p \in releasing
        BY <1>1, <1>2, <2>3, OnlyOwn DEF Aiming, Claiming
      <4>2. QED
        BY <1>5, <3>2, <4>1
    <3>3. ASSUME NEW o \in path'.markers, o.file = p \/ o.claim = p PROVE o = c
      BY <2>3, <3>2, <3>3
    <3>4. ASSUME NEW o \in path'.markers, o.file = p \/ o.claim = p PROVE Tells(o)'
      BY <3>1, <3>3, <3>4 DEF Tells
    <3>5. QED
      BY <3>4 DEF TellsOf
  <2>11. ASSUME NEW q \in Proc, q # p PROVE Apart(p, q)'
    <3>1. Apart(p, q) /\ Target(q)' = Target(q) /\ pc'[q] = pc[q]
      BY <2>5, <2>6, <2>11, SameTarget DEF LeaseInv
    <3>2. pc[q] \in Active => Target(q) # c
      BY <1>2, <2>2, <2>11, TargetOfOthers
    <3>3. pc[q] \in Active => ~IsThere(Target(q))'
      BY <1>4, <1>6, <2>3, <2>11, <3>1, <3>2 DEF Apart, IsThere
    <3>4. QED
      BY <3>1, <3>3 DEF Apart
  <2>12. QED
    BY <2>6, <2>7, <2>8, <2>9, <2>10, <2>11, Frame
<1>7. CASE ~IsThere(m)
  <2>1. p \notin releasing
    BY <1>1, <1>4, <1>7, OfProcess DEF Stands, Secured, Aiming
  <2>2. Goto(p, "list") /\ DoneSeen(p) /\ UNCHANGED <<path, current>>
    BY <1>3, <1>7, <2>1 DEF ClaimMarker, Ends, KeepPath
  <2>3. pc'[p] = "list" /\ \A q \in Proc : q # p => pc'[q] = pc[q] /\ seen'[q] = seen[q]
    BY <2>2 DEF Goto, DoneSeen, Typed
  <2>4. Alone(p) /\ Spares(p)
    BY <1>1, <1>2, <2>2, <2>3, SamePathSpares DEF Alone, IsThere
  <2>5. TellsOf(p)' /\ Self(p)' /\ Listed(p)'
    BY <1>1, <1>2, <2>1, <2>2, <2>3, NoneLeft DEF TellsOf, Self, Listed, Claiming
  <2>6. QED
    BY <2>3, <2>4, <2>5, Frame, Rests DEF Active, Aiming, Claiming
<1>8. QED
  BY <1>6, <1>7

\* A claim that was made is found again: nobody else can have moved it.
LEMMA ClaimMatches ==
    ASSUME Typed, LeaseInv, NEW p \in Proc, pc[p] \in Claiming
    PROVE  Matches(path, seen[p])
<1>1. Reads(p) /\ IsThere(seen[p].marker)
  BY OfProcess DEF Stands, Secured, Target, Claiming
<1>2. QED
  BY <1>1 DEF Reads, Matches, IsThere

LEMMA CheckClaimKeeps == ASSUME Typed, Typed', LeaseInv, NEW p \in Proc, CheckClaim(p) PROVE LeaseInv'
<1>1. /\ pc[p] = "check claim"
      /\ UNCHANGED <<path, full, aged, alive, mine, current, aside, releasing>>
  BY DEF CheckClaim
<1>2. p \in alive /\ p \notin current /\ Nobody \notin alive
  BY <1>1, LeaseAssumption, OfProcess DEF Judging, Typed, Around
<1>3. Goto(p, "move aside") /\ UNCHANGED seen
  BY <1>1, ClaimMatches DEF CheckClaim, Claiming
<1>4. pc'[p] = "move aside" /\ \A q \in Proc : q # p => pc'[q] = pc[q]
  BY <1>3 DEF Goto, Typed
<1>5. Alone(p) /\ Spares(p)
  BY <1>1, <1>2, <1>3, <1>4, SamePathSpares DEF Alone, IsThere
<1>6. Target(p)' = Target(p) /\ Own(p)' = Own(p)
  BY <1>1, <1>3, <1>4 DEF Target, Own
<1>7. Reads(p) /\ Stands(p) /\ Self(p)
  BY OfProcess
<1>8. Reads(p)'
  BY <1>1, <1>3, <1>4, <1>7 DEF Reads, Past, IsThere, Aiming, Claiming
<1>9. Stands(p)'
  BY <1>1, <1>3, <1>4, <1>6, <1>7 DEF Stands, Secured, IsThere, Aiming, Claiming
<1>10. Self(p)' /\ Listed(p)'
  BY <1>1, <1>2, <1>4, <1>7 DEF Self, Listed, Removing
<1>11. TellsOf(p)'
  <2>1. ASSUME path # NoDir, NEW m \in path.markers, m.file = p \/ m.claim = p PROVE Tells(m)'
    <3>1. Tells(m) /\ m \in Marker
      BY <2>1 DEF LeaseInv, Typed, Around, Dir
    <3>2. m.file \in Proc /\ (m.claim \in alive => m.claim \in Proc)
      BY <3>1 DEF Marker, Typed, Around
    <3>3. /\ m.claim \in alive => pc'[m.claim] \in Claiming /\ seen'[m.claim].marker = m
          /\ m.claim # Nobody => m.file = m.claim \/ m.file \notin alive
      BY <1>3, <1>4, <3>1, <3>2 DEF Tells, Claiming
    <3>4. m.file = p => m.claim # Nobody
      BY <1>1, <1>2, <3>1 DEF Tells, Aiming
    <3>5. m.claim = p \/ m.claim # Nobody
      BY <2>1, <3>4
    <3>6. QED
      BY <1>1, <1>2, <3>3, <3>4, <3>5, LeaseAssumption DEF Tells
  <2>2. QED
    BY <1>1, <2>1 DEF TellsOf
<1>12. ASSUME NEW q \in Proc, q # p PROVE Apart(p, q)'
  <2>1. Apart(p, q) /\ Target(q)' = Target(q) /\ pc'[q] = pc[q]
    BY <1>4, <1>5, <1>12, SameTarget DEF LeaseInv
  <2>2. QED
    BY <1>1, <1>4, <1>6, <2>1 DEF Apart, IsThere, Active, Aiming, Claiming
<1>13. QED
  BY <1>5, <1>8, <1>9, <1>10, <1>11, <1>12, Frame

LEMMA MoveAsideKeeps == ASSUME Typed, Typed', LeaseInv, NEW p \in Proc, MoveAside(p) PROVE LeaseInv'
<1>1. pc[p] = "move aside" /\ UNCHANGED <<full, aged, alive, mine, releasing>>
  BY DEF MoveAside
<1>2. p \in alive /\ p \notin current
  BY <1>1, OfProcess DEF Judging
<1>3. Matches(path, seen[p]) /\ Target(p) = seen[p].marker /\ pc[p] \in Active
  BY <1>1, ClaimMatches DEF Claiming, Target, Active
<1>4. IsThere(Target(p)) /\ path # NoDir
  BY <1>3 DEF Matches, IsThere
<1>5. path' = NoDir /\ current' = {} /\ Goto(p, "check aside") /\ UNCHANGED seen
  BY <1>4 DEF MoveAside, Put
<1>6. pc'[p] = "check aside" /\ \A q \in Proc : q # p => pc'[q] = pc[q]
  BY <1>5 DEF Goto, Typed
<1>7. Alone(p)
  BY <1>1, <1>2, <1>5, <1>6 DEF Alone, IsThere
<1>8. Spares(p)
  BY <1>3, <1>4, NobodyElse DEF Spares
<1>9. TellsOf(p)' /\ Self(p)' /\ Listed(p)'
  BY <1>1, <1>2, <1>5, <1>6, OfProcess DEF TellsOf, Self, Listed, Removing
<1>10. QED
  BY <1>6, <1>7, <1>8, <1>9, Frame, Rests DEF Active, Aiming, Claiming

LEMMA RemoveAsideKeeps == ASSUME Typed, Typed', LeaseInv, NEW p \in Proc, RemoveAside(p) PROVE LeaseInv'
<1>1. pc[p] = "check aside" /\ UNCHANGED <<path, full, aged, alive, mine, current, releasing>> /\ DoneSeen(p)
  BY DEF RemoveAside, Ends
<1>2. p \in alive /\ p \notin current
  BY <1>1, OfProcess DEF Judging
<1>3. PICK l \in {"released", "lost lease", "mkdir", "error"} :
        Goto(p, l) /\ (p \in releasing => l \in {"released", "lost lease"})
  BY DEF RemoveAside, Ends
<1>4. pc'[p] = l /\ \A q \in Proc : q # p => pc'[q] = pc[q] /\ seen'[q] = seen[q]
  BY <1>1, <1>3 DEF Goto, DoneSeen, Typed
<1>5. Alone(p) /\ Spares(p)
  BY <1>1, <1>2, <1>4, SamePathSpares DEF Alone, IsThere
<1>6. TellsOf(p)'
  BY <1>1, <1>2, NoneLeft DEF TellsOf, Aiming, Claiming
<1>7. Self(p)' /\ Listed(p)'
  BY <1>1, <1>2, <1>3, <1>4 DEF Self, Listed
<1>8. QED
  BY <1>3, <1>4, <1>5, <1>6, <1>7, Frame, Rests DEF Active, Aiming, Claiming

\* An owner that leaves its critical section goes for its own lease
\* (file-lock.ts:80-85).
LEMMA LeaveKeeps == ASSUME Typed, Typed', LeaseInv, NEW p \in Proc, Leave(p) PROVE LeaseInv'
<1>1. /\ pc[p] = "critical" /\ releasing' = releasing \cup {p} /\ Goto(p, "match")
      /\ seen' = [seen EXCEPT ![p] = OwnSnapshot(p)]
      /\ UNCHANGED <<path, full, aged, alive, current, aside>>
      /\ \A q \in Proc : q # p => mine'[q] = mine[q]
  BY DEF Leave, Typed
<1>2. p \in alive /\ p \notin current /\ p \in full /\ Nobody \notin alive
  BY <1>1, LeaseAssumption, OfProcess DEF Judging, Self, Typed, Around
<1>3. /\ pc'[p] = "match" /\ \A q \in Proc : q # p => pc'[q] = pc[q] /\ seen'[q] = seen[q]
      /\ seen'[p].marker = Own(p) /\ seen'[p].ino = mine[p] /\ seen'[p].full = TRUE
  BY <1>1 DEF Goto, OwnSnapshot, Typed
<1>4. Alone(p) /\ Spares(p)
  BY <1>1, <1>2, <1>3, SamePathSpares DEF Alone, IsThere
<1>5. Target(p) = Own(p) /\ Target(p)' = Own(p) /\ Own(p)' = Own(p) /\ Own(p).file = p /\ Own(p).claim = Nobody
  BY <1>1, <1>3 DEF Target, Own
<1>6. IsThere(Own(p)) /\ path.ino = mine[p]
  BY <1>1, <1>5, OfProcess DEF Stands, Secured, Self
<1>7. Reads(p)'
  <2>1. PICK m : m = Own(p)
    OBVIOUS
  <2>2. seen'[p].marker = m /\ m.file = p /\ m.claim = Nobody /\ (IsThere(m)' => path'.ino = mine[p])
    BY <1>1, <1>3, <1>5, <1>6, <2>1
  <2>3. p \in releasing' /\ p \in full' /\ pc'[p] \in Aiming /\ pc'[p] \notin Claiming
    BY <1>1, <1>2, <1>3 DEF Aiming, Claiming
  <2>4. QED
    BY <1>3, <1>5, <2>1, <2>2, <2>3 DEF Reads, Past, IsThere
<1>8. Stands(p)'
  BY <1>1, <1>5, <1>6 DEF Stands, IsThere
<1>9. Self(p)' /\ Listed(p)'
  BY <1>1, <1>2, <1>3 DEF Self, Listed, Removing
<1>10. TellsOf(p)'
  <2>1. path # NoDir => \A m \in path.markers : m.file = p \/ m.claim = p => m = Own(p)
    BY <1>1, <1>2, OnlyOwn DEF Claiming
  <2>2. QED
    BY <1>1, <1>2, <1>3, <2>1, OwnTells, OwnTellsOf DEF Aiming
<1>11. ASSUME NEW q \in Proc, q # p PROVE Apart(p, q)'
  <2>1. Apart(p, q) /\ Target(q)' = Target(q) /\ pc'[q] = pc[q]
    BY <1>3, <1>4, <1>11, SameTarget DEF LeaseInv
  <2>2. QED
    BY <1>1, <1>3, <1>5, <1>6, <2>1 DEF Apart, IsThere, Active, Aiming
<1>12. QED
  BY <1>4, <1>7, <1>8, <1>9, <1>10, <1>11, Frame

\* Listing, judging and identifying an abandoned directory (file-lock.ts:248-285).
LEMMA ListKeeps == ASSUME Typed, Typed', LeaseInv, NEW p \in Proc, List(p) PROVE LeaseInv'
<1>1. /\ pc[p] = "list" /\ UNCHANGED <<path, full, aged, alive, mine, aside, releasing>>
      /\ \A q \in Proc : q # p => seen'[q] = seen[q] /\ (q \in current' => q \in current)
  BY DEF List, Typed
<1>2. p \in alive /\ p \notin current /\ p \notin releasing
  BY <1>1, OfProcess DEF Judging, Removing
<1>3. PICK l \in {"judge", "retry"} :
        /\ Goto(p, l)
        /\ l = "judge" => path # NoDir /\ seen' = [seen EXCEPT ![p] = path]
        /\ l = "retry" => current' = current
  BY DEF List, Odd
<1>4. pc'[p] = l /\ \A q \in Proc : q # p => pc'[q] = pc[q]
  BY <1>3 DEF Goto, Typed
<1>5. Alone(p) /\ Spares(p)
  BY <1>1, <1>2, <1>4, SamePathSpares DEF Alone, IsThere
<1>6. TellsOf(p)'
  BY <1>1, <1>2, NoneLeft DEF TellsOf, Aiming, Claiming
<1>7. Self(p)'
  BY <1>1, <1>2, <1>4 DEF Self
<1>8. Listed(p)'
  <2>1. CASE l = "judge"
    <3>1. seen'[p] = path
      BY <1>3, <2>1 DEF Typed
    <3>2. QED
      BY <1>1, <1>3, <1>4, <2>1, <3>1 DEF Listed, Judging
  <2>2. CASE l = "retry"
    BY <1>2, <1>3, <2>2 DEF Listed
  <2>3. QED
    BY <2>1, <2>2
<1>9. QED
  BY <1>4, <1>5, <1>6, <1>7, <1>8, Frame, Rests DEF Active, Aiming, Claiming

LEMMA JudgeKeeps ==
    ASSUME Typed, Typed', LeaseInv, NEW p \in Proc, Judge(p) \/ Identify(p)
    PROVE  LeaseInv'
<1>1. pc[p] \in {"judge", "identify"} /\ UNCHANGED <<path, full, aged, alive, mine, aside, releasing>>
  BY DEF Judge, Identify
<1>2. p \in alive /\ p \notin releasing
  BY <1>1, OfProcess DEF Removing
<1>3. PICK l \in {"identify", "reclaim", "retry"} :
        /\ Goto(p, l)
        /\ l = "retry" => DoneSeen(p) /\ current' = current \ {p}
        /\ l # "retry" => UNCHANGED <<seen, current>>
        /\ l = "identify" => pc[p] = "judge" /\ Abandoned(seen[p])
        /\ l = "reclaim" => pc[p] = "identify"
  BY DEF Judge, Identify, Decide
<1>4. /\ pc'[p] = l
      /\ \A q \in Proc : q # p => pc'[q] = pc[q] /\ seen'[q] = seen[q] /\ (q \in current' => q \in current)
  BY <1>3 DEF Goto, DoneSeen, Typed
<1>5. Alone(p) /\ Spares(p)
  BY <1>1, <1>2, <1>4, SamePathSpares DEF Alone, IsThere
<1>6. TellsOf(p)'
  BY <1>1, <1>2, NoneLeft DEF TellsOf, Aiming, Claiming
<1>7. Self(p)'
  BY <1>1, <1>2, <1>3, <1>4 DEF Self
<1>8. Listed(p)'
  <2>0. Listed(p)
    BY OfProcess
  <2>1. CASE l = "identify"
    <3>1. ASSUME p \in current, NEW m \in path.markers PROVE m.file \notin alive /\ Past(m.claim)
      <4>1. path # NoDir /\ m \in seen[p].markers
        BY <2>0, <3>1 DEF Listed
      <4>2. Names(m) \cap alive = {} /\ m.file \in aged
        BY <1>3, <2>1, <4>1 DEF Abandoned
      <4>3. QED
        BY <4>1, <4>2, NamesTheDead
    <3>2. QED
      BY <1>1, <1>3, <1>4, <2>0, <2>1, <3>1 DEF Listed, Past, Judging
  <2>2. CASE l = "reclaim"
    BY <1>1, <1>3, <1>4, <2>0, <2>2 DEF Listed, Past, Judging
  <2>3. CASE l = "retry"
    BY <1>3, <2>3 DEF Listed
  <2>4. QED
    BY <2>1, <2>2, <2>3
<1>9. QED
  BY <1>4, <1>5, <1>6, <1>7, <1>8, Frame, Rests DEF Active, Aiming, Claiming

\* A directory that is reclaimed as it was listed, or because it is empty, is
\* nobody's lease.
LEMMA ReclaimKeeps ==
    ASSUME Typed, Typed', LeaseInv, ReclaimsWhatItListed, NEW p \in Proc, Reclaim(p)
    PROVE  LeaseInv'
<1>1. pc[p] = "reclaim" /\ UNCHANGED <<full, aged, alive, mine, aside, releasing>> /\ DoneSeen(p)
  BY DEF Reclaim
<1>2. p \in alive /\ p \notin releasing
  BY <1>1, OfProcess DEF Removing
<1>3. PICK l \in {"mkdir", "retry"} : Goto(p, l)
  BY DEF Reclaim
<1>4. pc'[p] = l /\ \A q \in Proc : q # p => pc'[q] = pc[q] /\ seen'[q] = seen[q]
  BY <1>1, <1>3 DEF Goto, DoneSeen, Typed
<1>5. Self(p)'
  BY <1>1, <1>2, <1>4 DEF Self
<1>6. CASE path' = path /\ current' = current \ {p}
  <2>1. Alone(p) /\ Spares(p)
    BY <1>1, <1>2, <1>4, <1>6, SamePathSpares DEF Alone, IsThere
  <2>2. TellsOf(p)' /\ Listed(p)'
    BY <1>1, <1>2, <1>6, NoneLeft DEF TellsOf, Listed, Aiming, Claiming
  <2>3. QED
    BY <1>4, <1>5, <2>1, <2>2, Frame, Rests DEF Active, Aiming, Claiming
<1>7. CASE path # NoDir /\ path' = NoDir /\ current' = {} /\ (Empty(seen[p]) => Empty(path))
  <2>1. Alone(p)
    BY <1>1, <1>2, <1>4, <1>7 DEF Alone, IsThere
  <2>2. TellsOf(p)' /\ Listed(p)'
    BY <1>7 DEF TellsOf, Listed
  <2>3. \A m \in path.markers : m.file \notin alive /\ Past(m.claim)
    <3>1. CASE Empty(path)
      BY <3>1 DEF Empty
    <3>2. CASE ~Empty(path)
      BY <1>1, <1>7, <3>2, OfProcess DEF ReclaimsWhatItListed, Listed
    <3>3. QED
      BY <3>1, <3>2
  <2>4. Spares(p)
    BY <2>3, NothingSecured DEF Spares
  <2>5. QED
    BY <1>4, <1>5, <2>1, <2>2, <2>4, Frame, Rests DEF Active, Aiming, Claiming
<1>8. QED
  BY <1>6, <1>7 DEF Reclaim, Put, Empty

LEMMA CrashKeeps == ASSUME Typed, Typed', LeaseInv, NEW p \in Proc, Crash(p) PROVE LeaseInv'
<1>1. /\ p \in alive /\ alive' = alive \ {p} /\ Goto(p, "dead")
      /\ current' = current \ {p} /\ releasing' = releasing \ {p}
      /\ \A q \in Proc : q # p => mine'[q] = mine[q] /\ seen'[q] = seen[q]
      /\ UNCHANGED <<path, full, aged>>
  BY DEF Crash, DoneSeen, Typed
<1>2. pc'[p] = "dead" /\ \A q \in Proc : q # p => pc'[q] = pc[q]
  BY <1>1 DEF Goto, Typed
<1>3. Alone(p) /\ Spares(p)
  BY <1>1, <1>2, SamePathSpares DEF Alone, IsThere
<1>4. Self(p)' /\ Listed(p)'
  BY <1>1, <1>2 DEF Self, Listed
<1>5. TellsOf(p)'
  <2>1. ASSUME path # NoDir, NEW m \in path.markers, m.file = p \/ m.claim = p PROVE Tells(m)'
    <3>1. Tells(m) /\ m \in Marker
      BY <2>1 DEF LeaseInv, Typed, Around, Dir
    <3>2. /\ m.claim \in alive' => m.claim \in alive /\ m.claim # p
          /\ m.claim \in alive' => m.claim \in Proc
          /\ m.file \in alive' => m.file \in alive /\ m.file # p
      BY <1>1 DEF Typed, Around
    <3>3. m.claim \in alive' => pc'[m.claim] \in Claiming /\ seen'[m.claim].marker = m
      BY <1>1, <1>2, <3>1, <3>2 DEF Tells
    <3>4. m.claim # Nobody => m.file = m.claim \/ m.file \notin alive'
      BY <3>1, <3>2 DEF Tells
    <3>5. ~(m.file \in alive' /\ m.claim = Nobody)
      BY <1>1, <2>1, <3>2, LeaseAssumption
    <3>6. QED
      BY <3>3, <3>4, <3>5 DEF Tells
  <2>2. QED
    BY <1>1, <2>1 DEF TellsOf
<1>6. QED
  BY <1>2, <1>3, <1>4, <1>5, Frame, Rests DEF Active, Aiming, Claiming

\* While time passes nobody is about to write the content of its marker file.
LEMMA AgeKeeps == ASSUME Typed, Typed', LeaseInv, WritesInTime, Age PROVE LeaseInv'
<1>1. /\ UNCHANGED <<full, alive, pc, mine, current, aside, releasing>>
      /\ path # NoDir <=> path' # NoDir
      /\ path # NoDir => path'.markers = path.markers /\ path'.ino = path.ino
  <2>1. path # NoDir => path \in Dir /\ path' = [path EXCEPT !.old = TRUE]
    BY DEF Age, Typed, Around
  <2>2. path # NoDir => path' \in Dir /\ path'.markers = path.markers /\ path'.ino = path.ino
    BY <2>1 DEF Dir
  <2>3. QED
    BY <2>2, LeaseAssumption DEF Age
<1>2. ASSUME NEW p \in Proc
      PROVE  /\ pc[p] \in Removing => seen'[p] = seen[p]
             /\ pc[p] \in Judging => seen'[p].markers = seen[p].markers
             /\ pc[p] # "write"
  <2>1. pc[p] # "judge" => seen'[p] = seen[p]
    BY DEF Age
  <2>2. pc[p] = "judge" => seen'[p] = [seen[p] EXCEPT !.old = TRUE] /\ seen[p] \in Dir
    BY Kinds DEF Age, Judging
  <2>3. pc[p] # "write"
    BY DEF Age, WritesInTime, Publishing
  <2>4. QED
    BY <2>1, <2>2, <2>3 DEF Dir, Removing
<1>3. \A m : IsThere(m)' <=> IsThere(m)
  BY <1>1 DEF IsThere
<1>4. \A p \in Proc : pc[p] \in Aiming \cup Claiming => seen'[p] = seen[p]
  BY <1>2 DEF Aiming, Claiming, Removing
<1>5. \A p \in Proc : pc[p] \in Active => Target(p)' = Target(p)
  BY <1>1, <1>4 DEF Target, Active, Own
<1>6. ASSUME NEW p \in Proc PROVE Self(p)' /\ Reads(p)' /\ Stands(p)' /\ Listed(p)'
  <2>1. Self(p) /\ Reads(p) /\ Stands(p) /\ Listed(p) /\ Own(p)' = Own(p)
    BY OfProcess DEF Own
  <2>2. Self(p)'
    BY <1>1, <1>2, <1>3, <2>1 DEF Self, IsThere
  <2>3. Reads(p)'
    BY <1>1, <1>3, <1>4, <2>1 DEF Reads, Past, IsThere
  <2>4. Stands(p)'
    BY <1>1, <1>3, <1>5, <2>1 DEF Stands, Secured, IsThere, Active
  <2>5. Listed(p)'
    BY <1>1, <1>2, <2>1 DEF Listed, Past
  <2>6. QED
    BY <2>2, <2>3, <2>4, <2>5
<1>7. ASSUME NEW p \in Proc, NEW q \in Proc PROVE Apart(p, q)'
  <2>1. Apart(p, q)
    BY DEF LeaseInv
  <2>2. QED
    BY <1>1, <1>3, <1>5, <2>1 DEF Apart, IsThere
<1>8. ASSUME path' # NoDir, NEW m \in path'.markers PROVE Tells(m)'
  <2>1. Tells(m)
    BY <1>1, <1>8 DEF LeaseInv
  <2>2. m.claim \in alive => m.claim \in Proc
    BY DEF Typed, Around
  <2>3. QED
    BY <1>1, <1>4, <2>1, <2>2 DEF Tells
<1>9. QED
  BY <1>6, <1>7, <1>8 DEF LeaseInv

LEMMA InitLeaseInv == ASSUME Init, LeftByTheDead PROVE LeaseInv
<1>1. ASSUME NEW p \in Proc
      PROVE  pc[p] \in {"dead", "mkdir"} /\ (p \in alive <=> pc[p] # "dead")
  BY DEF Init
<1>2. ASSUME NEW p \in Proc PROVE Self(p) /\ Reads(p) /\ Stands(p) /\ Listed(p)
  BY <1>1 DEF Init, Self, Reads, Stands, Secured, Listed, Aiming, Claiming
<1>3. ASSUME NEW p \in Proc, NEW q \in Proc PROVE Apart(p, q)
  BY <1>1 DEF Apart, Active, Aiming, Claiming
<1>4. ASSUME path # NoDir, NEW m \in path.markers PROVE Tells(m)
  <2>1. m.file \notin alive /\ m.claim \notin alive
    BY <1>4, LeaseAssumption DEF Init, LeftByTheDead
  <2>2. QED
    BY <2>1 DEF Tells
<1>5. QED
  BY <1>2, <1>3, <1>4 DEF LeaseInv

LEMMA NextLeaseInv ==
    ASSUME Typed, LeaseInv, WritesInTime, ReclaimsWhatItListed, [Next]_vars
    PROVE  LeaseInv'
<1>0. Typed'
  BY NextTyped
<1>1. CASE UNCHANGED vars
  <2>1. \A m : IsThere(m)' <=> IsThere(m)
    BY <1>1 DEF vars, IsThere
  <2>2. ASSUME NEW p \in Proc PROVE Self(p)' /\ Reads(p)' /\ Stands(p)' /\ Listed(p)'
    <3>1. Self(p) /\ Reads(p) /\ Stands(p) /\ Listed(p)
      BY OfProcess
    <3>2. Self(p)' /\ Reads(p)'
      BY <1>1, <3>1 DEF vars, Self, Reads, Past, Own, IsThere
    <3>3. Stands(p)' /\ Listed(p)'
      BY <1>1, <3>1 DEF vars, Stands, Secured, Listed, Past, Target, Own, IsThere
    <3>4. QED
      BY <3>2, <3>3
  <2>3. ASSUME NEW p \in Proc, NEW q \in Proc PROVE Apart(p, q)'
    BY <1>1 DEF LeaseInv, vars, Apart, Target, Own, IsThere
  <2>4. ASSUME path' # NoDir, NEW m \in path'.markers PROVE Tells(m)'
    BY <1>1, <2>4 DEF LeaseInv, vars, Tells
  <2>5. QED
    BY <2>2, <2>3, <2>4 DEF LeaseInv
<1>2. ASSUME NEW p \in Proc, Step(p) \/ Crash(p) PROVE LeaseInv'
  <2>1. CASE \/ Create(p) \/ StatCreated(p) \/ OpenMarker(p) \/ WriteMarker(p)
             \/ VerifyIdentity(p) \/ VerifyAlone(p)
    BY <1>0, <2>1, CreateKeeps, StatCreatedKeeps, OpenMarkerKeeps, WriteMarkerKeeps, VerifyKeeps
  <2>2. CASE Withdraw(p) \/ WithdrawDir(p) \/ Retry(p) \/ Inspect(p)
    BY <1>0, <2>2, WithdrawKeeps, WithdrawDirKeeps, RetryKeeps, InspectKeeps
  <2>3. CASE \/ MatchLease(p) \/ ClaimMarker(p) \/ CheckClaim(p) \/ MoveAside(p)
             \/ RemoveAside(p) \/ Leave(p)
    BY <1>0, <2>3, MatchLeaseKeeps, ClaimMarkerKeeps, CheckClaimKeeps, MoveAsideKeeps,
       RemoveAsideKeeps, LeaveKeeps
  <2>4. CASE List(p) \/ Judge(p) \/ Identify(p) \/ Reclaim(p) \/ Crash(p)
    BY <1>0, <2>4, ListKeeps, JudgeKeeps, ReclaimKeeps, CrashKeeps
  <2>5. QED
    BY <1>2, <2>1, <2>2, <2>3, <2>4 DEF Step
<1>3. CASE Age
  BY <1>0, <1>3, AgeKeeps
<1>4. QED
  BY <1>1, <1>2, <1>3 DEF Next

\* The invariant is kept as long as every directory that is reclaimed is still
\* as it was listed (file-lock.ts:248-285).
LEMMA LeaseInvHolds ==
    ASSUME WritesInTime, LeftByTheDead
    PROVE  Spec /\ []ReclaimsWhatItListed => [](Typed /\ LeaseInv)
<1>1. Init => Typed /\ LeaseInv
  BY InitTyped, InitLeaseInv
<1>2. Typed /\ LeaseInv /\ ReclaimsWhatItListed /\ [Next]_vars => Typed' /\ LeaseInv'
  BY NextTyped, NextLeaseInv
<1>3. QED
  BY <1>1, <1>2, PTL DEF Spec

\* However many processes compete, die and hang, and whatever the dead left at
\* the path, two of them run their critical sections at once only after one
\* has renamed a directory that was no longer what it had listed and judged
\* (file-lock.ts:66-86 and 248-285).
THEOREM LeaseExcludes ==
    ASSUME WritesInTime, LeftByTheDead
    PROVE  Spec /\ []ReclaimsWhatItListed => []MutualExclusion
<1>1. ASSUME LeaseInv PROVE MutualExclusion
  <2> SUFFICES ASSUME NEW p \in Proc, NEW q \in Proc, pc[p] = "critical", pc[q] = "critical", p # q
               PROVE  FALSE
    BY DEF MutualExclusion
  <2>1. IsThere(Target(p)) /\ IsThere(Target(q))
    BY <1>1 DEF LeaseInv, Stands, Secured
  <2>2. QED
    BY <1>1, <2>1 DEF LeaseInv, Apart, Active, Aiming
<1>2. QED
  BY <1>1, LeaseInvHolds, PTL

\* Under the same condition the lease of an owner stands under its name until
\* the owner begins to release it (file-lock.ts:80-85).
THEOREM OwnedLeaseStands ==
    ASSUME WritesInTime, LeftByTheDead
    PROVE  Spec /\ []ReclaimsWhatItListed => []LeaseStands
<1>1. ASSUME LeaseInv PROVE LeaseStands
  BY <1>1 DEF LeaseInv, LeaseStands, Stands, Secured, Target
<1>2. QED
  BY <1>1, LeaseInvHolds, PTL

\* Under the same condition a process that gives up, fails or releases its
\* lease, and lives on, leaves neither a marker nor a claim at the path
\* (file-lock.ts:137-195).
THEOREM SurvivorsLeaveNothing ==
    ASSUME WritesInTime, LeftByTheDead
    PROVE  Spec /\ []ReclaimsWhatItListed => []LeavesNoLease
<1>1. ASSUME Typed, LeaseInv PROVE LeavesNoLease
  <2> SUFFICES ASSUME NEW p \in alive, pc[p] \in Over, path # NoDir, NEW m \in path.markers
               PROVE  m.file # p /\ m.claim # p
    BY DEF LeavesNoLease
  <2>1. pc[p] \notin {"write", "verify", "alone", "lost race", "critical"} /\ pc[p] \notin Aiming \cup Claiming
    BY DEF Over, Aiming, Claiming
  <2>2. QED
    BY <1>1, <2>1, NoneLeft
<1>2. QED
  BY <1>1, LeaseInvHolds, PTL

-----------------------------------------------------------------------------
(* Two competitors *)

\* Two live processes, and a directory that the dead left with one marker at
\* most and nothing else in it.
TwoCompete ==
    /\ \A p, q, r \in Proc \ Gone : p = q \/ p = r \/ q = r
    /\ \A d \in Leftovers : d # NoDir => ~d.junk /\ \A m, n \in d.markers : m = n

\* Who creates a directory finds none that the dead left.
Fresh(p) ==
    pc[p] \in {"stat", "open"} /\ path # NoDir => \A m \in path.markers : m.file \notin Gone

\* Markers side by side are of different processes that live or have lived
\* since, and only an empty directory is ever judged.
PairInv ==
    /\ path # NoDir => ~path.junk /\ \A m, n \in path.markers : m # n => m.file # n.file /\ m.file \notin Gone
    /\ \A p \in Proc : Fresh(p) /\ (pc[p] \in Judging => Empty(seen[p]))

\* A step that adds no marker and judges nothing new keeps the invariant.
LEMMA PairFrame ==
    ASSUME Typed, PairInv, NEW p \in Proc,
           path' # NoDir => path # NoDir /\ path'.junk = path.junk /\ path'.markers \subseteq path.markers,
           \A q \in Proc : q # p => pc'[q] = pc[q] /\ seen'[q] = seen[q],
           pc'[p] \in {"stat", "open"} => pc[p] \in {"stat", "open"},
           pc'[p] \in Judging => pc[p] \in Judging /\ seen'[p] = seen[p]
    PROVE  PairInv'
<1>1. ASSUME NEW q \in Proc PROVE Fresh(q)'
  <2>1. pc'[q] \in {"stat", "open"} => pc[q] \in {"stat", "open"}
    BY <1>1
  <2>2. QED
    BY <2>1 DEF PairInv, Fresh
<1>2. ASSUME NEW q \in Proc, pc'[q] \in Judging PROVE Empty(seen[q])'
  <2>1. pc[q] \in Judging /\ seen'[q] = seen[q]
    BY <1>2
  <2>2. QED
    BY <2>1 DEF PairInv, Empty
<1>3. QED
  BY <1>1, <1>2 DEF PairInv

\* With two competitors a listing with two markers never comes about: one
\* would have to be of the process that lists (file-lock.ts:248-285).
LEMMA ListsEmpty ==
    ASSUME Typed, LeaseInv, PairInv, TwoCompete, NEW p \in Proc, List(p), Odd(path)
    PROVE  Empty(path)
<1>1. path # NoDir /\ path \in Dir /\ ~path.junk /\ pc[p] = "list"
  BY DEF Odd, List, Typed, Around, PairInv
<1>2. p \in alive /\ p \in Proc \ Gone
  BY <1>1, OfProcess DEF Typed, Around
<1>3. \A m \in path.markers : m.file # p /\ m.file \in Proc
  BY <1>1, <1>2, NoneLeft DEF Dir, Marker, Aiming, Claiming
<1>4. ASSUME NEW m \in path.markers PROVE FALSE
  <2>1. path.markers # {m}
    BY <1>1, FS_Singleton DEF Odd
  <2>2. PICK n \in path.markers : n # m
    BY <2>1
  <2>3. m.file # n.file /\ m.file \in Proc \ Gone /\ n.file \in Proc \ Gone
    BY <1>1, <1>3, <2>2 DEF PairInv
  <2>4. QED
    BY <1>2, <1>3, <2>3 DEF TwoCompete
<1>5. QED
  BY <1>1, <1>4 DEF Empty

LEMMA InitPairInv == ASSUME Init, TwoCompete PROVE PairInv
<1>1. ASSUME NEW p \in Proc PROVE pc[p] \notin {"stat", "open"} /\ pc[p] \notin Judging
  BY <1>1 DEF Init, Judging
<1>2. QED
  BY <1>1 DEF Init, TwoCompete, PairInv, Fresh

LEMMA AcquirePairInv ==
    ASSUME Typed, LeaseInv, PairInv, NEW p \in Proc,
           \/ Create(p) \/ StatCreated(p) \/ OpenMarker(p) \/ WriteMarker(p)
           \/ VerifyIdentity(p) \/ VerifyAlone(p) \/ Withdraw(p) \/ WithdrawDir(p) \/ Retry(p)
    PROVE  PairInv'
<1>1. CASE Create(p)
  <2>1. /\ path' # NoDir => ~path'.junk /\ path'.markers = {}
        /\ pc'[p] = "stat" /\ UNCHANGED seen /\ \A q \in Proc : q # p => pc'[q] = pc[q]
    BY <1>1 DEF Create, Put, Goto, Typed
  <2>2. QED
    BY <2>1 DEF PairInv, Fresh, Judging, Empty
<1>2. CASE OpenMarker(p) /\ path # NoDir
  <2>1. /\ pc[p] = "open" /\ pc'[p] = "write" /\ UNCHANGED seen
        /\ \A q \in Proc : q # p => pc'[q] = pc[q]
    BY <1>2 DEF OpenMarker, Goto, Typed
  <2>2. p \in alive /\ p \notin Gone
    BY <2>1, OfProcess DEF Typed, Around
  <2>3. path' # NoDir => path'.junk = path.junk /\ path'.markers = path.markers \cup {Own(p)}
    <3>1. path \in Dir
      BY <1>2 DEF Typed, Around
    <3>2. QED
      BY <1>2, <3>1 DEF OpenMarker, PutMarkers, Put, Dir
  <2>4. Own(p).file = p /\ \A m \in path.markers : m.file # p /\ m.file \notin Gone
    <3>1. \A m \in path.markers : m.file # p
      BY <1>2, <2>1, <2>2, NoneLeft DEF Aiming, Claiming
    <3>2. Fresh(p)
      BY DEF PairInv
    <3>3. QED
      BY <1>2, <2>1, <3>1, <3>2 DEF Fresh, Own
  <2>5. ASSUME NEW q \in Proc PROVE Fresh(q)' /\ (pc'[q] \in Judging => Empty(seen[q])')
    <3>1. Fresh(q) /\ (pc[q] \in Judging => Empty(seen[q]))
      BY DEF PairInv
    <3>2. Fresh(q)'
      BY <1>2, <2>1, <2>2, <2>3, <2>4, <3>1 DEF Fresh
    <3>3. QED
      BY <2>1, <3>1, <3>2 DEF Empty, Judging
  <2>6. QED
    BY <1>2, <2>2, <2>3, <2>4, <2>5 DEF PairInv
<1>3. CASE Withdraw(p)
  <2>1. path' # NoDir => path # NoDir /\ path'.junk = path.junk /\ path'.markers \subseteq path.markers
    <3>1. IsThere(Own(p)) => path \in Dir /\ path # NoDir
      BY DEF IsThere, Typed, Around
    <3>2. QED
      BY <1>3, <3>1 DEF Withdraw, PutMarkers, Put, KeepPath, Dir
  <2>2. /\ pc'[p] = "rmdir" /\ UNCHANGED seen /\ \A q \in Proc : q # p => pc'[q] = pc[q]
    BY <1>3 DEF Withdraw, Goto, Typed
  <2>3. QED
    BY <2>1, <2>2, PairFrame DEF Judging
<1>4. CASE \/ StatCreated(p) \/ (OpenMarker(p) /\ path = NoDir) \/ WriteMarker(p)
           \/ VerifyIdentity(p) \/ VerifyAlone(p) \/ WithdrawDir(p) \/ Retry(p)
  <2>1. path' # NoDir => path # NoDir /\ path'.junk = path.junk /\ path'.markers \subseteq path.markers
    <3>1. CASE WithdrawDir(p)
      <4>1. path' = path \/ path' = NoDir
        BY <3>1 DEF WithdrawDir, RemoveDir, Put, KeepPath
      <4>2. QED
        BY <4>1
    <3>2. CASE ~WithdrawDir(p)
      <4>1. path' = path
        BY <1>4, <3>2 DEF StatCreated, OpenMarker, KeepPath, WriteMarker, VerifyIdentity, VerifyAlone, Retry
      <4>2. QED
        BY <4>1
    <3>3. QED
      BY <3>1, <3>2
  <2>2. PICK l \in {"open", "retry", "verify", "alone", "critical", "lost race", "mkdir", "timeout"} :
          Goto(p, l) /\ (l = "open" => pc[p] = "stat")
    BY <1>4 DEF StatCreated, OpenMarker, WriteMarker, VerifyIdentity, VerifyAlone, WithdrawDir, Retry
  <2>3. /\ pc'[p] = l /\ \A q \in Proc : q # p => pc'[q] = pc[q]
    BY <2>2 DEF Goto, Typed
  <2>4. UNCHANGED seen
    BY <1>4 DEF StatCreated, OpenMarker, WriteMarker, VerifyIdentity, VerifyAlone, WithdrawDir, Retry
  <2>5. l \notin Judging /\ l # "stat"
    BY <2>2 DEF Judging
  <2>6. QED
    BY <2>1, <2>2, <2>3, <2>4, <2>5, PairFrame
<1>5. QED
  BY <1>1, <1>2, <1>3, <1>4

LEMMA RemovePairInv ==
    ASSUME Typed, LeaseInv, PairInv, NEW p \in Proc,
           \/ Inspect(p) \/ MatchLease(p) \/ ClaimMarker(p) \/ CheckClaim(p) \/ MoveAside(p)
           \/ RemoveAside(p) \/ Leave(p) \/ Crash(p)
    PROVE  PairInv'
<1>1. PICK l \in Label \ (Judging \cup {"stat", "open"}) : Goto(p, l)
  BY DEF Inspect, MatchLease, ClaimMarker, CheckClaim, MoveAside, RemoveAside, Leave, Crash, Ends,
         Label, Removing, Judging, Over, Publishing
<1>2. /\ pc'[p] \notin Judging /\ pc'[p] \notin {"stat", "open"}
      /\ \A q \in Proc : q # p => pc'[q] = pc[q]
  BY <1>1 DEF Goto, Typed
<1>3. \A q \in Proc : q # p => seen'[q] = seen[q]
  BY DEF Inspect, MatchLease, ClaimMarker, CheckClaim, MoveAside, RemoveAside, Leave, Crash, Ends,
         DoneSeen, Typed
<1>4. CASE ClaimMarker(p) /\ IsThere(seen[p].marker)
  <2>1. PICK m : m = seen[p].marker
    OBVIOUS
  <2>2. m \in path.markers /\ path # NoDir /\ path \in Dir /\ m \in Marker
    BY <1>4, <2>1 DEF IsThere, Typed, Around, Dir
  <2>3. PICK c : c = Claimed(m, p) /\ c.file = m.file
    <3>1. Claimed(m, p).file = m.file
      BY <2>2 DEF Claimed, Marker
    <3>2. QED
      BY <3>1
  <2>4. path' # NoDir => path'.junk = path.junk /\ path'.markers = (path.markers \ {m}) \cup {c}
    BY <1>4, <2>1, <2>2, <2>3 DEF ClaimMarker, PutMarkers, Put, Dir
  <2>5. ASSUME NEW q \in Proc PROVE Fresh(q)' /\ (pc'[q] \in Judging => Empty(seen[q])')
    <3>1. Fresh(q) /\ (pc[q] \in Judging => Empty(seen[q]))
      BY DEF PairInv
    <3>2. Fresh(q)'
      BY <1>2, <2>2, <2>3, <2>4, <3>1 DEF Fresh
    <3>3. QED
      BY <1>2, <1>3, <3>1, <3>2 DEF Empty
  <2>6. ASSUME path' # NoDir, NEW o \in path'.markers, NEW n \in path'.markers, o # n
        PROVE  o.file # n.file /\ o.file \notin Gone
    <3>1. \A a, b \in path.markers : a # b => a.file # b.file /\ a.file \notin Gone
      BY <2>2 DEF PairInv
    <3>2. QED
      BY <2>2, <2>3, <2>4, <2>6, <3>1
  <2>7. QED
    BY <2>2, <2>4, <2>5, <2>6 DEF PairInv
<1>5. CASE ~(ClaimMarker(p) /\ IsThere(seen[p].marker))
  <2>1. path' # NoDir => path # NoDir /\ path'.junk = path.junk /\ path'.markers \subseteq path.markers
    BY <1>5 DEF Inspect, MatchLease, ClaimMarker, CheckClaim, MoveAside, RemoveAside, Leave, Crash,
                KeepPath, Put
  <2>2. QED
    BY <1>2, <1>3, <2>1, PairFrame
<1>6. QED
  BY <1>4, <1>5

LEMMA ReclaimPairInv ==
    ASSUME Typed, LeaseInv, PairInv, TwoCompete, NEW p \in Proc,
           List(p) \/ Judge(p) \/ Identify(p) \/ Reclaim(p)
    PROVE  PairInv'
<1>1. path' # NoDir => path # NoDir /\ path'.junk = path.junk /\ path'.markers \subseteq path.markers
  BY DEF List, Judge, Identify, Reclaim, Put
<1>2. PICK l \in {"judge", "identify", "reclaim", "retry", "mkdir"} :
        /\ Goto(p, l)
        /\ l \in {"identify", "reclaim"} => pc[p] \in {"judge", "identify"} /\ UNCHANGED seen
        /\ l = "judge" => List(p) /\ Odd(path) /\ path' = path /\ seen' = [seen EXCEPT ![p] = path]
  BY DEF List, Judge, Identify, Reclaim, Decide
<1>3. pc'[p] = l /\ \A q \in Proc : q # p => pc'[q] = pc[q]
  BY <1>2 DEF Goto, Typed
<1>4. \A q \in Proc : q # p => seen'[q] = seen[q]
  BY DEF List, Judge, Identify, Reclaim, Decide, DoneSeen, Typed
<1>5. CASE l # "judge"
  <2>1. l \in Judging => pc[p] \in Judging /\ seen'[p] = seen[p]
    BY <1>2, <1>5 DEF Judging
  <2>2. QED
    BY <1>1, <1>2, <1>3, <1>4, <2>1, PairFrame
<1>6. CASE l = "judge"
  <2>1. Empty(path) /\ seen'[p] = path
    BY <1>2, <1>6, ListsEmpty DEF Typed
  <2>2. ASSUME NEW q \in Proc, pc'[q] \in Judging PROVE Empty(seen[q])'
    <3>1. CASE q = p
      BY <2>1, <3>1 DEF Empty
    <3>2. CASE q # p
      BY <1>3, <1>4, <2>2, <3>2 DEF PairInv, Empty
    <3>3. QED
      BY <3>1, <3>2
  <2>3. \A q \in Proc : Fresh(q)'
    BY <1>2, <1>3, <1>6 DEF PairInv, Fresh
  <2>4. QED
    BY <1>2, <1>6, <2>2, <2>3 DEF PairInv
<1>7. QED
  BY <1>5, <1>6

LEMMA NextPairInv ==
    ASSUME Typed, LeaseInv, PairInv, TwoCompete, [Next]_vars
    PROVE  PairInv'
<1>1. CASE UNCHANGED vars
  BY <1>1 DEF vars, PairInv, Fresh, Empty
<1>2. ASSUME NEW p \in Proc, Step(p) \/ Crash(p) PROVE PairInv'
  BY <1>2, AcquirePairInv, RemovePairInv, ReclaimPairInv DEF Step
<1>3. CASE Age
  <2>1. path' # NoDir => path # NoDir /\ path'.junk = path.junk /\ path'.markers = path.markers
    <3>1. path # NoDir => path \in Dir
      BY DEF Typed, Around
    <3>2. QED
      BY <1>3, <3>1 DEF Age, Dir
  <2>2. ASSUME NEW q \in Proc, pc'[q] \in Judging PROVE Empty(seen[q])'
    <3>1. seen[q] \in Dir /\ Empty(seen[q])
      BY <1>3, <2>2, Kinds DEF Age, PairInv
    <3>2. seen'[q] = seen[q] \/ seen'[q] = [seen[q] EXCEPT !.old = TRUE]
      BY <1>3 DEF Age
    <3>3. seen'[q] \in Dir /\ seen'[q].markers = seen[q].markers /\ seen'[q].junk = seen[q].junk
      BY <3>1, <3>2 DEF Dir
    <3>4. QED
      BY <3>1, <3>3, LeaseAssumption DEF Empty
  <2>3. \A q \in Proc : Fresh(q)'
    BY <1>3, <2>1 DEF Age, PairInv, Fresh
  <2>4. QED
    BY <2>1, <2>2, <2>3 DEF PairInv
<1>4. QED
  BY <1>1, <1>2, <1>3 DEF Next

\* Two processes that compete for the lease, whatever either does, hangs at or
\* dies of, and however many died before: one at a time runs its critical
\* section, its lease stands until it releases it, and a process that lives on
\* leaves none (file-lock.ts:66-86, 137-195 and 248-285).
THEOREM LeaseExcludesTwo ==
    ASSUME WritesInTime, LeftByTheDead, TwoCompete
    PROVE  Spec => []MutualExclusion /\ []LeaseStands /\ []LeavesNoLease
<1>1. Init => Typed /\ LeaseInv /\ PairInv
  BY InitTyped, InitLeaseInv, InitPairInv
<1>2. ASSUME PairInv PROVE ReclaimsWhatItListed
  BY <1>2 DEF PairInv, ReclaimsWhatItListed, Judging
<1>3. Typed /\ LeaseInv /\ PairInv /\ [Next]_vars => (Typed /\ LeaseInv /\ PairInv)'
  BY <1>2, NextTyped, NextLeaseInv, NextPairInv
<1>4. Spec => []ReclaimsWhatItListed
  BY <1>1, <1>2, <1>3, PTL DEF Spec
<1>5. QED
  BY <1>4, LeaseExcludes, OwnedLeaseStands, SurvivorsLeaveNothing, PTL
=============================================================================
