---------------------------- MODULE RateLimiter -----------------------------
(***************************************************************************)
(* The shared budget of one domain (src/src/core/rate-limiter.ts) and its  *)
(* use by AvitoClient.request (src/src/core/client.ts): calls of several   *)
(* processes reserve a unit of the counter in a state file before they are *)
(* sent, give it back when they are cancelled, and this process writes     *)
(* what Avito's responses say of the counter through one queued drain.     *)
(*                                                                         *)
(* The file lease is taken as mutual exclusion (FileLock models it); a     *)
(* wait for it may time out.  Times are compared, never read: the window   *)
(* of a snapshot is "open" before its resetAt, "over" from then on, and a  *)
(* snapshot without resetAt is "fresh" in the second it was observed and   *)
(* "stale" after it.                                                       *)
(***************************************************************************)
EXTENDS Naturals, FiniteSets

CONSTANTS Calls,         \* API calls of all processes that share the state directory
          OurCalls,      \* those of the process that is modelled
          Limit,         \* x-ratelimit-limit
          Headers,       \* what the headers of a response may say of the counter
          MaxAttempts    \* bound on the attempts of one call (doRequest retries)

ASSUME BudgetAssumption ==
  /\ OurCalls \subseteq Calls /\ Limit \in Nat /\ MaxAttempts \in Nat \ {0}
  /\ Headers \subseteq [left : 0..Limit, window : {"open", "fresh", "unknown"}]

VARIABLES call,          \* where each call is
          cancelled,     \* calls whose signal is aborted
          deserted,      \* calls whose caller met its deadline in waitIfNeeded
          reserved,      \* calls that hold a unit
          attempts,      \* attempts each call has left
          lease,         \* the calls that hold the lease of the state file: one at most
          seen,          \* what the holder of the lease read
          budget,        \* the state file
          credit,        \* the counter, as if reserving were one step (history)
          observed,      \* number of this process's last observation
          queued,        \* the newest snapshot waiting to be written
          drain,         \* the running drain
          draining,      \* the snapshot it is writing
          written        \* number of the last observation written, or given up (history)

budgetVars == <<call, cancelled, deserted, reserved, attempts, lease, seen, budget, credit,
                observed, queued, drain, draining, written>>

\* Mutant: the drain writes without the lease that reservations take.
FreeOfCalls == lease = {}

\* Nobody holds the lease, this process's drain included.
Free == lease = {} /\ drain # "writing"

NoBudget == [left |-> 0, window |-> "unknown"]
Snapshots == [left : 0..Limit, window : {"open", "over", "fresh", "stale"}] \cup {NoBudget}
NoSnapshot == [budget |-> NoBudget, number |-> 0]

Places == {"absent", "wanting", "deciding", "sleeping", "admitted", "sent",
           "returning", "restoring", "done"}

BudgetTypeOK ==
  /\ call \in [Calls -> Places]
  /\ cancelled \subseteq Calls /\ deserted \subseteq Calls /\ reserved \subseteq Calls
  /\ attempts \in [Calls -> 0..MaxAttempts]
  /\ lease \subseteq Calls
  /\ seen \in Snapshots /\ budget \in Snapshots
  /\ credit \in 0..Limit
  /\ drain \in {"none", "wanting", "writing"}
  /\ queued.budget \in Snapshots /\ draining.budget \in Snapshots
  /\ written <= observed

BudgetInit ==
  /\ cancelled = {} /\ deserted = {} /\ reserved = {}
  /\ attempts = [c \in Calls |-> MaxAttempts]
  /\ lease = {} /\ seen = NoBudget
  /\ budget \in {NoBudget, [left |-> Limit, window |-> "open"]}
  /\ credit = budget.left
  /\ observed = 0 /\ written = 0
  /\ queued = NoSnapshot /\ drain = "none" /\ draining = NoSnapshot

Place(c, p) == call' = [call EXCEPT ![c] = p]

callVars == <<cancelled, deserted, attempts>>
fileVars == <<budget, credit>>
drainVars == <<observed, queued, drain, draining, written>>

(***************************************************************************)
(* observe() and persistLater(): what a response says of the counter.      *)
(***************************************************************************)

\* What becomes of a window as time passes.
Later(w) == CASE w = "open" -> "over" [] w = "fresh" -> "stale" [] OTHER -> w

\* Headers without a limit are not persisted.  A new snapshot replaces the one
\* that waits; the first one starts the drain, which takes it at once.
Observe(h) ==
  IF h = NoBudget
  THEN UNCHANGED drainVars
  ELSE LET s == [budget |-> h, number |-> observed + 1]
       IN  /\ observed' = observed + 1
           /\ IF drain = "none"
              THEN drain' = "wanting" /\ draining' = s /\ UNCHANGED queued
              ELSE queued' = s /\ UNCHANGED <<drain, draining>>
           /\ UNCHANGED written

(***************************************************************************)
(* waitIfNeeded(): read, decide and write under the lease.                 *)
(***************************************************************************)

Acquire(c) ==
  /\ call[c] \in {"wanting", "returning"}
  /\ Free
  /\ lease' = {c}
  /\ seen' = budget
  /\ Place(c, IF call[c] = "wanting" THEN "deciding" ELSE "restoring")
  /\ UNCHANGED <<callVars, reserved, fileVars, drainVars>>

\* withFileLock gives up: the call fails, a give-back is dropped with a warning.
LeaseTimesOut(c) ==
  /\ call[c] \in {"wanting", "returning"}
  /\ Place(c, "done")
  /\ UNCHANGED <<callVars, reserved, lease, seen, fileVars, drainVars>>

Minus(n) == IF n = 0 THEN 0 ELSE n - 1

\* The holder of the lease writes s over the file, and lets go of it.
WriteBudget(s) ==
  /\ budget' = s
  /\ lease' = {}
  /\ seen' = NoBudget

\* The slot of a caller that has not gone away, or that has: its unit stays spent.
Admitted(c) == Place(c, IF c \in deserted THEN "done" ELSE "admitted")

Unreserved(c) ==
  /\ call[c] = "deciding" /\ seen.window \in {"unknown", "stale"}
  /\ WriteBudget(NoBudget)
  /\ credit' = 0
  /\ Admitted(c)
  /\ UNCHANGED <<callVars, reserved, drainVars>>

\* The window is over: the counter starts again, one unit of it taken.
Refresh(c) ==
  /\ call[c] = "deciding" /\ seen.window = "over"
  /\ WriteBudget([seen EXCEPT !.left = Minus(Limit)])
  /\ credit' = Minus(Limit)
  /\ reserved' = reserved \cup {c}
  /\ Admitted(c)
  /\ UNCHANGED <<callVars, drainVars>>

Reserve(c) ==
  /\ call[c] = "deciding" /\ seen.window \in {"open", "fresh"} /\ seen.left > 1
  /\ WriteBudget([seen EXCEPT !.left = @ - 1])
  /\ credit' = credit - 1
  /\ reserved' = reserved \cup {c}
  /\ Admitted(c)
  /\ UNCHANGED <<callVars, drainVars>>

\* The last unit is kept: sleep and look again.
Exhausted(c) ==
  /\ call[c] = "deciding" /\ seen.window \in {"open", "fresh"} /\ seen.left <= 1
  /\ lease' = {}
  /\ seen' = NoBudget
  /\ Place(c, "sleeping")
  /\ UNCHANGED <<callVars, reserved, fileVars, drainVars>>

Wake(c) ==
  /\ call[c] = "sleeping"
  /\ Place(c, IF c \in cancelled THEN "done" ELSE "wanting")
  /\ UNCHANGED <<callVars, reserved, lease, seen, fileVars, drainVars>>

\* Reading or writing the file fails: the call fails, or the give-back is dropped.
StateFileFails(c) ==
  /\ call[c] \in {"deciding", "restoring"}
  /\ lease' = {}
  /\ seen' = NoBudget
  /\ Place(c, "done")
  /\ UNCHANGED <<callVars, reserved, fileVars, drainVars>>

(***************************************************************************)
(* request(): sent with the unit held, which only a cancellation returns.  *)
(***************************************************************************)

Cancel(c) ==
  /\ call[c] \in {"wanting", "deciding", "sleeping", "admitted", "sent"}
  /\ c \notin cancelled
  /\ cancelled' = cancelled \cup {c}
  /\ UNCHANGED <<call, deserted, attempts, reserved, lease, seen, fileVars, drainVars>>

\* The deadline passes while waitIfNeeded runs on.
Desert(c) ==
  /\ call[c] \in {"wanting", "deciding", "sleeping"}
  /\ c \notin deserted
  /\ deserted' = deserted \cup {c}
  /\ UNCHANGED <<call, cancelled, attempts, reserved, lease, seen, fileVars, drainVars>>

Send(c) ==
  /\ call[c] = "admitted" /\ c \notin cancelled
  /\ Place(c, "sent")
  /\ attempts' = [attempts EXCEPT ![c] = @ - 1]
  /\ UNCHANGED <<cancelled, deserted, reserved, lease, seen, fileVars, drainVars>>

\* The signal ends the attempt, perhaps after its response was observed.
Aborted(c) ==
  /\ call[c] \in {"admitted", "sent"} /\ c \in cancelled
  /\ IF call[c] = "sent" /\ c \in OurCalls THEN \E h \in Headers : Observe(h)
                                           ELSE UNCHANGED drainVars
  /\ Place(c, IF c \in reserved THEN "returning" ELSE "done")
  /\ UNCHANGED <<callVars, reserved, lease, seen, fileVars>>

\* slotFor().release(): the counter is read again and raised by the unit, up to the limit.
Capped(n) == IF n > Limit THEN Limit ELSE n

GiveBack(c) ==
  /\ call[c] = "restoring"
  /\ IF seen = NoBudget
     THEN WriteBudget(seen) /\ UNCHANGED credit
     ELSE /\ WriteBudget([seen EXCEPT !.left = Capped(@ + 1)])
          /\ credit' = Capped(credit + 1)
  /\ reserved' = reserved \ {c}
  /\ Place(c, "done")
  /\ UNCHANGED <<callVars, drainVars>>

\* A response is observed and the call ends, or is sent again without a new reservation.
Respond(c) ==
  /\ call[c] = "sent" /\ c \in OurCalls /\ c \notin cancelled
  /\ \E h \in Headers : Observe(h)
  /\ \/ Place(c, "done") /\ UNCHANGED attempts
     \/ attempts[c] > 0 /\ attempts' = [attempts EXCEPT ![c] = @ - 1] /\ UNCHANGED call
  /\ UNCHANGED <<cancelled, deserted, reserved, lease, seen, fileVars>>

\* A response of another process, with the drain of that process in the same step.
OtherResponds(c) ==
  /\ call[c] = "sent" /\ c \notin OurCalls /\ c \notin cancelled
  /\ Place(c, "done")
  /\ \E h \in Headers :
       IF h = NoBudget THEN UNCHANGED fileVars
       ELSE Free /\ budget' = h /\ credit' = h.left
  /\ UNCHANGED <<callVars, reserved, lease, seen, drainVars>>

(***************************************************************************)
(* drain(): one write at a time, each under the lease.                     *)
(***************************************************************************)

DrainAcquires ==
  /\ drain = "wanting" /\ Free
  /\ drain' = "writing"
  /\ UNCHANGED <<call, callVars, reserved, lease, seen, fileVars, observed, queued, draining,
                 written>>

\* The loop of drain() takes the newest snapshot, or ends.
DrainGoesOn ==
  /\ drain' = IF queued = NoSnapshot THEN "none" ELSE "wanting"
  /\ draining' = queued
  /\ queued' = NoSnapshot
  /\ written' = draining.number
  /\ UNCHANGED observed

DrainWrites ==
  /\ drain = "writing"
  /\ \E w \in {draining.budget.window, Later(draining.budget.window)} :
       WriteBudget([draining.budget EXCEPT !.window = w])
  /\ credit' = draining.budget.left
  /\ DrainGoesOn
  /\ UNCHANGED <<call, callVars, reserved>>

\* The lease is not had in time, or the write fails: a warning, and the loop goes on.
DrainFails ==
  /\ drain # "none"
  /\ DrainGoesOn
  /\ UNCHANGED <<call, callVars, reserved, lease, seen, fileVars>>

\* The clock passes the resetAt of the file, or the second it was observed in; whoever has
\* read the file compares with the same clock.
TimePasses ==
  /\ budget.window \in {"open", "fresh"}
  /\ budget' = [budget EXCEPT !.window = Later(@)]
  /\ seen' = IF seen = budget THEN budget' ELSE seen
  /\ UNCHANGED <<call, callVars, reserved, lease, credit, drainVars>>

CallStep(c) ==
  \/ Acquire(c) \/ Unreserved(c) \/ Refresh(c) \/ Reserve(c) \/ Exhausted(c) \/ Wake(c)
  \/ Send(c) \/ Aborted(c) \/ GiveBack(c) \/ Respond(c) \/ OtherResponds(c)

\* What nothing obliges to happen.
CallerStep(c) == Cancel(c) \/ Desert(c) \/ LeaseTimesOut(c) \/ StateFileFails(c)

DrainStep == DrainAcquires \/ DrainWrites \/ DrainFails

\* flushPersisted() resolves: no drain is running.
Drained == drain = "none"

(***************************************************************************)
(* Properties.                                                             *)
(***************************************************************************)

\* The counter in the file is what it would be if every reservation, give-back, refresh and
\* observation were one indivisible step -- no interleaving of processes loses or invents a
\* unit between the read and the write of one of them -- and once this process has nothing
\* left to write, the last observation it made is the last one it wrote or gave up writing.
LedgerAdds ==
  /\ budget # NoBudget => budget.left = credit
  /\ \A c \in Calls : call[c] \in {"deciding", "restoring"} => lease = {c} /\ seen = budget
  /\ Drained => queued = NoSnapshot /\ written = observed
=============================================================================
