------------------------------- MODULE FileLock -------------------------------
(***************************************************************************)
(* The file lease of src/core/file-lock.ts, one file operation at a time.  *)
(*                                                                         *)
(* The lease is a directory at a fixed path with the marker of its owner   *)
(* in it.  Every operation resolves that path anew, so what a process      *)
(* finds there may not be what it left.                                    *)
(*                                                                         *)
(* A marker is known by the process that wrote it (its nonce) and by the   *)
(* process that renamed it to a transition marker, if one did.  Time is    *)
(* what separates what was touched within staleMs from what was not.       *)
(***************************************************************************)
EXTENDS Naturals, FiniteSets

CONSTANTS
    Proc,       \* processes; each acquires the lease once
    Gone,       \* the processes that died before
    Nobody,
    Ino,        \* inode numbers; a freed one may be used again
    NoIno,
    NoDir,      \* the path does not exist
    Leftovers,  \* the directories that the dead may have left at the path
    Stalls,     \* where a process that publishes may hang for longer than staleMs
    Patient     \* the processes whose deadline is far away

Marker == [file : Proc, claim : Proc \cup {Nobody}]

\* A directory: its inode, whether its mtime is older than staleMs, its
\* markers, and whether it has other entries.
Dir == [ino : Ino, old : BOOLEAN, markers : SUBSET Marker, junk : BOOLEAN]

\* What a process believes of the lease that it is about to remove.
Snapshot == [ino : Ino, marker : Marker, full : BOOLEAN]

ASSUME LeaseAssumption ==
    /\ Nobody \notin Proc /\ Gone \subseteq Proc
    /\ NoIno \notin Ino /\ NoDir \notin Dir \cup Snapshot
    /\ Leftovers \subseteq Dir \cup {NoDir}
    /\ Stalls \subseteq {"stat", "open", "write"}
    /\ Patient \subseteq Proc

VARIABLES
    path,       \* the directory at lockPath
    full,       \* the processes whose marker file has its content
    aged,       \* the processes whose marker file is older than staleMs
    alive,
    pc,         \* where a process stands in acquireLock or removeIfUnchanged
    mine,       \* mine[p]: the inode p takes for that of the directory it created
    seen,       \* seen[p]: what p read of the lease that it is about to remove
    current,    \* the processes whose listing still has the mtime of the path
    aside,      \* aside[p]: the directory p moved aside
    releasing   \* the processes that have run their critical section

vars == <<path, full, aged, alive, pc, mine, seen, current, aside, releasing>>

Publishing == {"stat", "open", "write"}
Removing == {"match", "claim", "check claim", "move aside", "check aside"}
Judging == {"judge", "identify", "reclaim"}
Over == {"timeout", "error", "released", "lost lease", "dead"}

Goto(p, label) == pc' = [pc EXCEPT ![p] = label]

Own(p) == [file |-> p, claim |-> Nobody]
Claimed(m, p) == [m EXCEPT !.claim = p]
IsThere(m) == path # NoDir /\ m \in path.markers

\* Whatever happens to the path changes its inode or its mtime.
Put(dir) == path' = dir /\ current' = {}
KeepPath == UNCHANGED <<path, current>>

PutMarkers(markers) == Put([path EXCEPT !.markers = markers, !.old = FALSE])

Empty(dir) == dir # NoDir /\ dir.markers = {} /\ ~dir.junk
RemoveDir == IF Empty(path) THEN Put(NoDir) ELSE KeepPath

\* lockMatches: the inode at a path, and the content under a name in it.
Matches(dir, snap) ==
    /\ dir # NoDir /\ dir.ino = snap.ino /\ snap.marker \in dir.markers
    /\ (snap.marker.file \in full) = snap.full

OwnSnapshot(p) == [ino |-> mine[p], marker |-> Own(p), full |-> TRUE]

-----------------------------------------------------------------------------
(* acquireLock: a new generation *)

UsedInodes == {d.ino : d \in ({path} \cup {aside[p] : p \in Proc}) \ {NoDir}}

Create(p) ==
    /\ pc[p] = "mkdir" /\ path = NoDir
    /\ \E i \in Ino \ UsedInodes :
          Put([ino |-> i, old |-> FALSE, markers |-> {}, junk |-> FALSE])
    /\ Goto(p, "stat")
    /\ UNCHANGED <<full, aged, alive, mine, seen, aside, releasing>>

\* The identity that is remembered is that of whatever is at the path by now.
StatCreated(p) ==
    /\ pc[p] = "stat"
    /\ \/ path # NoDir /\ mine' = [mine EXCEPT ![p] = path.ino] /\ Goto(p, "open")
       \/ path = NoDir /\ Goto(p, "retry") /\ UNCHANGED mine
    /\ UNCHANGED <<path, full, aged, alive, seen, current, aside, releasing>>

\* ENOENT: the directory was removed before the marker was in it.  One that
\* takes its place has another mtime, so hasIdentity makes this a retry.
OpenMarker(p) ==
    /\ pc[p] = "open"
    /\ \/ /\ path # NoDir
          /\ PutMarkers(path.markers \cup {Own(p)})
          /\ full' = full \ {p} /\ aged' = aged \ {p}
          /\ Goto(p, "write")
       \/ path = NoDir /\ Goto(p, "retry") /\ KeepPath /\ UNCHANGED <<full, aged>>
    /\ UNCHANGED <<alive, mine, seen, aside, releasing>>

\* The file is open: its content follows it wherever it was moved.
WriteMarker(p) ==
    /\ pc[p] = "write"
    /\ full' = full \cup {p} /\ aged' = aged \ {p}
    /\ Goto(p, "verify")
    /\ UNCHANGED <<path, alive, mine, seen, current, aside, releasing>>

VerifyIdentity(p) ==
    /\ pc[p] = "verify"
    /\ Goto(p, IF Matches(path, OwnSnapshot(p)) THEN "alone" ELSE "lost race")
    /\ UNCHANGED <<path, full, aged, alive, mine, seen, current, aside, releasing>>

\* Mutant: the marker of p is there, and perhaps others are.
SoleMarkerAmongOthers(p) == IsThere(Own(p))

\* soleMarker: the only recognized entry is the marker of p.
SoleMarker(p) == path # NoDir /\ path.markers = {Own(p)}

VerifyAlone(p) ==
    /\ pc[p] = "alone"
    /\ Goto(p, IF SoleMarker(p) THEN "critical" ELSE "lost race")
    /\ UNCHANGED <<path, full, aged, alive, mine, seen, current, aside, releasing>>

\* Mutant: the own marker is left where it is.
WithdrawNothing(p) ==
    /\ pc[p] = "lost race"
    /\ KeepPath
    /\ mine' = [mine EXCEPT ![p] = NoIno]
    /\ Goto(p, "rmdir")
    /\ UNCHANGED <<full, aged, alive, seen, aside, releasing>>

\* The race is lost: the own marker goes, and the directory if it is empty.
Withdraw(p) ==
    /\ pc[p] = "lost race"
    /\ IF IsThere(Own(p)) THEN PutMarkers(path.markers \ {Own(p)}) ELSE KeepPath
    /\ mine' = [mine EXCEPT ![p] = NoIno]
    /\ Goto(p, "rmdir")
    /\ UNCHANGED <<full, aged, alive, seen, aside, releasing>>

WithdrawDir(p) ==
    /\ pc[p] = "rmdir"
    /\ RemoveDir
    /\ Goto(p, "retry")
    /\ UNCHANGED <<full, aged, alive, mine, seen, aside, releasing>>

\* The deadline is looked at between two attempts.
Retry(p) ==
    /\ pc[p] = "retry"
    /\ \/ Goto(p, "mkdir")
       \/ p \notin Patient /\ Goto(p, "timeout")
    /\ mine' = [mine EXCEPT ![p] = NoIno]
    /\ UNCHANGED <<path, full, aged, alive, seen, current, aside, releasing>>

-----------------------------------------------------------------------------
(* staleSnapshot: a lease with one marker, whose owner or claimant is dead *)

\* Who a marker names: its claimant, or its owner once it has its content.
Names(m) == IF m.claim # Nobody THEN {m.claim} ELSE {m.file} \cap full

Stale(m) == IF Names(m) # {} THEN Names(m) \cap alive = {} ELSE path.old /\ m.file \in aged

Inspect(p) ==
    /\ pc[p] = "mkdir" /\ path # NoDir
    /\ \/ \E m \in path.markers :
            /\ path.markers = {m} /\ Stale(m)
            /\ seen' = [seen EXCEPT ![p] =
                          [ino |-> path.ino, marker |-> m, full |-> m.file \in full]]
            /\ Goto(p, "match")
       \/ /\ ~\E m \in path.markers : path.markers = {m} /\ Stale(m)
          /\ Goto(p, "list") /\ UNCHANGED seen
    /\ UNCHANGED <<path, full, aged, alive, mine, current, aside, releasing>>

-----------------------------------------------------------------------------
(* removeIfUnchanged: of a stale lease, or of one's own *)

\* Mutant: what was read is kept.
DoneSeenKept(p) == UNCHANGED seen

DoneSeen(p) == seen' = [seen EXCEPT ![p] = NoDir]

\* withFileLock ignores the result, acquireLock goes by it.
Ends(p, label) == Goto(p, IF p \in releasing THEN "lost lease" ELSE label) /\ DoneSeen(p)

MatchLease(p) ==
    /\ pc[p] = "match"
    /\ IF Matches(path, seen[p]) THEN Goto(p, "claim") /\ UNCHANGED seen ELSE Ends(p, "list")
    /\ UNCHANGED <<path, full, aged, alive, mine, current, aside, releasing>>

\* The rename of the marker is the claim: one process succeeds.
ClaimMarker(p) ==
    LET m == seen[p].marker IN
    /\ pc[p] = "claim"
    /\ \/ /\ IsThere(m)
          /\ PutMarkers((path.markers \ {m}) \cup {Claimed(m, p)})
          /\ seen' = [seen EXCEPT ![p].marker = Claimed(m, p)]
          /\ Goto(p, "check claim")
       \/ ~IsThere(m) /\ Ends(p, "list") /\ KeepPath
    /\ UNCHANGED <<full, aged, alive, mine, aside, releasing>>

CheckClaim(p) ==
    /\ pc[p] = "check claim"
    /\ IF Matches(path, seen[p]) THEN Goto(p, "move aside") /\ UNCHANGED seen ELSE Ends(p, "error")
    /\ UNCHANGED <<path, full, aged, alive, mine, current, aside, releasing>>

MoveAside(p) ==
    /\ pc[p] = "move aside"
    /\ \/ /\ path # NoDir
          /\ aside' = [aside EXCEPT ![p] = path] /\ Put(NoDir)
          /\ Goto(p, "check aside") /\ UNCHANGED seen
       \/ path = NoDir /\ Ends(p, "error") /\ KeepPath /\ UNCHANGED aside
    /\ UNCHANGED <<full, aged, alive, mine, releasing>>

\* What was moved aside is removed if it is what was claimed, and left if not.
RemoveAside(p) ==
    /\ pc[p] = "check aside"
    /\ IF Matches(aside[p], seen[p])
       THEN Goto(p, IF p \in releasing THEN "released" ELSE "mkdir") /\ DoneSeen(p)
       ELSE Ends(p, "error")
    /\ aside' = [aside EXCEPT ![p] = NoDir]
    /\ UNCHANGED <<path, full, aged, alive, mine, current, releasing>>

\* withFileLock: fn() has settled.
Leave(p) ==
    /\ pc[p] = "critical"
    /\ releasing' = releasing \cup {p}
    /\ seen' = [seen EXCEPT ![p] = OwnSnapshot(p)]
    /\ mine' = [mine EXCEPT ![p] = NoIno]
    /\ Goto(p, "match")
    /\ UNCHANGED <<path, full, aged, alive, current, aside>>

-----------------------------------------------------------------------------
(* removeIfAbandoned: a directory with no marker, or with several *)

Odd(dir) == dir # NoDir /\ Cardinality(dir.markers) # 1

List(p) ==
    /\ pc[p] = "list"
    /\ IF Odd(path)
       THEN /\ seen' = [seen EXCEPT ![p] = path] /\ current' = current \cup {p}
            /\ Goto(p, "judge")
       ELSE Goto(p, "retry") /\ UNCHANGED <<seen, current>>
    /\ UNCHANGED <<path, full, aged, alive, mine, aside, releasing>>

\* Mutant: a directory without markers is nobody's to judge.
AbandonedMarked(dir) ==
    /\ dir.old /\ dir.markers # {}
    /\ \A m \in dir.markers : IsThere(m) /\ Names(m) \cap alive = {} /\ m.file \in aged

\* abandonedFor: no listed entry has gone, names a live process or is young.
Abandoned(dir) ==
    /\ dir.old
    /\ dir.junk => path # NoDir /\ path.junk
    /\ \A m \in dir.markers : IsThere(m) /\ Names(m) \cap alive = {} /\ m.file \in aged

\* The listing is acted upon, or dropped.
Decide(p, goOn, label) ==
    IF goOn THEN Goto(p, label) /\ UNCHANGED <<seen, current>>
    ELSE Goto(p, "retry") /\ DoneSeen(p) /\ current' = current \ {p}

Judge(p) ==
    /\ pc[p] = "judge"
    /\ Decide(p, Abandoned(seen[p]), "identify")
    /\ UNCHANGED <<path, full, aged, alive, mine, aside, releasing>>

\* hasIdentity: inode and mtime are those that were listed.
Identify(p) ==
    /\ pc[p] = "identify"
    /\ Decide(p, p \in current, "reclaim")
    /\ UNCHANGED <<path, full, aged, alive, mine, aside, releasing>>

\* Mutant: an empty directory is renamed like any other.
ReclaimByRename(p) ==
    /\ pc[p] = "reclaim"
    /\ Put(NoDir)
    /\ Goto(p, IF path # NoDir THEN "mkdir" ELSE "retry")
    /\ DoneSeen(p)
    /\ UNCHANGED <<full, aged, alive, mine, aside, releasing>>

\* An empty directory is removed if it is empty still; any other is renamed,
\* whatever is there by now, and its new name deleted.
Reclaim(p) ==
    LET gone == IF Empty(seen[p]) THEN Empty(path) ELSE path # NoDir IN
    /\ pc[p] = "reclaim"
    /\ IF gone THEN Put(NoDir) ELSE path' = path /\ current' = current \ {p}
    /\ Goto(p, IF gone THEN "mkdir" ELSE "retry")
    /\ DoneSeen(p)
    /\ UNCHANGED <<full, aged, alive, mine, aside, releasing>>

-----------------------------------------------------------------------------

Crash(p) ==
    /\ p \in alive /\ pc[p] \notin Over
    /\ alive' = alive \ {p}
    /\ Goto(p, "dead")
    /\ mine' = [mine EXCEPT ![p] = NoIno]
    /\ aside' = [aside EXCEPT ![p] = NoDir]
    /\ DoneSeen(p)
    /\ current' = current \ {p} /\ releasing' = releasing \ {p}
    /\ UNCHANGED <<path, full, aged>>

\* staleMs pass in which nothing is touched.
Age ==
    /\ \A p \in Proc : pc[p] \notin Publishing \ Stalls
    /\ aged' = Proc
    /\ path' = IF path = NoDir THEN path ELSE [path EXCEPT !.old = TRUE]
    /\ seen' = [p \in Proc |-> IF pc[p] = "judge" THEN [seen[p] EXCEPT !.old = TRUE] ELSE seen[p]]
    /\ UNCHANGED <<full, alive, pc, mine, current, aside, releasing>>

Init ==
    /\ path \in Leftovers
    /\ full \in SUBSET Gone
    /\ aged = Proc
    /\ alive = Proc \ Gone
    /\ pc = [p \in Proc |-> IF p \in Gone THEN "dead" ELSE "mkdir"]
    /\ mine = [p \in Proc |-> NoIno]
    /\ seen = [p \in Proc |-> NoDir]
    /\ current = {}
    /\ aside = [p \in Proc |-> NoDir]
    /\ releasing = {}

Step(p) ==
    \/ Create(p) \/ StatCreated(p) \/ OpenMarker(p) \/ WriteMarker(p)
    \/ VerifyIdentity(p) \/ VerifyAlone(p) \/ Withdraw(p) \/ WithdrawDir(p)
    \/ Retry(p) \/ Inspect(p)
    \/ MatchLease(p) \/ ClaimMarker(p) \/ CheckClaim(p) \/ MoveAside(p) \/ RemoveAside(p)
    \/ Leave(p) \/ List(p) \/ Judge(p) \/ Identify(p) \/ Reclaim(p)

Next ==
    \/ \E p \in Proc : Step(p) \/ Crash(p)
    \/ Age

\* File operations return, critical sections end, and time passes.
Fairness == WF_vars(Age) /\ \A p \in Proc : WF_vars(Step(p))

Spec == Init /\ [][Next]_vars
FairSpec == Spec /\ Fairness

-----------------------------------------------------------------------------
(* Properties *)

TypeOK ==
    /\ path \in Dir \cup {NoDir}
    /\ full \in SUBSET Proc /\ aged \in SUBSET Proc
    /\ alive \in SUBSET (Proc \ Gone)
    /\ pc \in [Proc -> {"mkdir", "verify", "alone", "critical", "lost race", "rmdir", "retry",
                        "list"} \cup Publishing \cup Removing \cup Judging \cup Over]
    /\ mine \in [Proc -> Ino \cup {NoIno}]
    /\ \A p \in Proc :
          seen[p] \in CASE pc[p] \in Removing -> Snapshot
                        [] pc[p] \in Judging -> Dir
                        [] OTHER -> {NoDir}
    /\ current \in SUBSET Proc
    /\ aside \in [Proc -> Dir \cup {NoDir}]
    /\ releasing \in SUBSET Proc

\* One process at a time runs its critical section, whatever it found at the
\* path (file-lock.ts:66-86, test/file-lock.test.ts:84 and 486).
MutualExclusion ==
    \A p, q \in Proc : pc[p] = "critical" /\ pc[q] = "critical" => p = q

\* The lease of a live owner stands at the path under its name, as long as
\* the owner has not begun to release it (file-lock.ts:264-281).
LeaseStands == \A p \in Proc : pc[p] = "critical" => IsThere(Own(p))

\* A process that goes on living leaves neither a marker nor a claim behind
\* when it is done: nothing could be reclaimed before it ends.
LeavesNoLease ==
    \A p \in alive : pc[p] \in Over /\ path # NoDir =>
        \A m \in path.markers : p \notin {m.file, m.claim}

\* Whatever dead processes left at the path, a process that waits without a
\* deadline and has no living competitor gets the lease: no directory blocks
\* it for good (file-lock.ts:246-263).
LoneWaiterServed ==
    \A p \in Patient :
        pc[p] = "mkdir" /\ (\A q \in Proc \ {p} : pc[q] \in Over) ~> pc[p] \in {"critical", "dead"}
=============================================================================
