---------------------------- MODULE WebhookStore ----------------------------
(***************************************************************************)
(* The webhook receiver (src/src/http/webhook.ts) and its buffer and log   *)
(* (src/src/core/webhook-store.ts): a delivery is acknowledged whatever    *)
(* becomes of it, a real one is recorded in a ring and queued for a JSONL  *)
(* log that is written one line at a time and rotated.                     *)
(*                                                                         *)
(* A line counts one unit of the log's size.  A write that fails half-way  *)
(* leaves a fragment without its newline (whole = FALSE).                  *)
(***************************************************************************)
EXTENDS Naturals, Sequences, SequencesExt

CONSTANTS Deliveries,    \* the deliveries that may be posted
          BufferSize,    \* AVITO_MCP_WEBHOOK_BUFFER
          MaxLogLines    \* maxLogBytes, in lines

ASSUME WebhookAssumption == BufferSize \in Nat \ {0} /\ MaxLogLines \in Nat \ {0}

VARIABLES what,          \* what each delivery is
          hook,          \* where each delivery is
          events,        \* the ring of retained events, oldest first
          received,      \* every event recorded, in order (history)
          appendQueue,   \* the events whose lines are not written yet
          appending,     \* how far persistLine() is with the first of them
          log, backup,   \* the active file and the rotated one
          healthy,       \* persistenceHealthy
          lost           \* events whose line was given up (history)

hookVars == <<what, hook, events, received, appendQueue, appending, log, backup, healthy, lost>>
logVars == <<appendQueue, appending, log, backup, healthy, lost>>

\* A real event; a ping without payload; a wrong secret; a body that is not JSON.
WhatKinds == {"event", "ping", "stranger", "garbled"}

Fragment == [of : Deliveries, whole : BOOLEAN]

HookTypeOK ==
  /\ what \in [Deliveries -> WhatKinds]
  /\ hook \in [Deliveries -> {"absent", "unsent", "arrived", "done"}]
  /\ events \in Seq(Deliveries) /\ Len(events) <= BufferSize
  /\ received \in Seq(Deliveries) /\ appendQueue \in Seq(Deliveries)
  /\ appending \in {"idle", "rotating", "renaming", "opening"}
  /\ log \in Seq(Fragment) /\ backup \in Seq(Fragment)
  /\ healthy \in BOOLEAN /\ lost \subseteq Deliveries

\* The constructor may find the log path unusable.
HookInit ==
  /\ events = <<>> /\ received = <<>>
  /\ appendQueue = <<>> /\ appending = "idle"
  /\ log = <<>> /\ backup = <<>>
  /\ healthy \in BOOLEAN
  /\ lost = {}

HookArrives(d) ==
  /\ hook[d] = "unsent"
  /\ hook' = [hook EXCEPT ![d] = "arrived"]
  /\ UNCHANGED <<what, events, received, logVars>>

\* record(): into the ring, and into the queue of appends.
Retained(s) == IF Len(s) > BufferSize THEN Tail(s) ELSE s

Record(d) ==
  /\ events' = Retained(Append(events, d))
  /\ received' = Append(received, d)
  /\ appendQueue' = Append(appendQueue, d)
  /\ UNCHANGED <<appending, log, backup, healthy, lost>>

\* The body is complete in time.  Every answer is the same 200.
HookBody(d) ==
  /\ hook[d] = "arrived"
  /\ hook' = [hook EXCEPT ![d] = "done"]
  /\ IF what[d] = "event" THEN Record(d) ELSE UNCHANGED <<events, received, logVars>>
  /\ UNCHANGED what

\* The body deadline passes first: acknowledged all the same, the request destroyed.
HookDeadline(d) ==
  /\ hook[d] = "arrived"
  /\ hook' = [hook EXCEPT ![d] = "done"]
  /\ UNCHANGED <<what, events, received, logVars>>

(***************************************************************************)
(* persistLine() and rotateLog(), with two files retained.                 *)
(***************************************************************************)

\* Mutant: the append of the newest event overtakes the ones before it.
Unchained(q) == Last(q)

\* The appends are chained: the oldest one runs.
Chained(q) == Head(q)

\* The size is read, and decides whether the file is rotated first.
StartAppend ==
  /\ appendQueue # <<>> /\ appending = "idle"
  /\ appending' = IF log # <<>> /\ Len(log) + 1 > MaxLogLines THEN "rotating" ELSE "opening"
  /\ UNCHANGED <<what, hook, events, received, appendQueue, log, backup, healthy, lost>>

RemoveBackup ==
  /\ appending = "rotating"
  /\ appending' = "renaming"
  /\ backup' = <<>>
  /\ UNCHANGED <<what, hook, events, received, appendQueue, log, healthy, lost>>

RenameLog ==
  /\ appending = "renaming"
  /\ appending' = "opening"
  /\ backup' = log
  /\ log' = <<>>
  /\ UNCHANGED <<what, hook, events, received, appendQueue, healthy, lost>>

\* persistLine() returns; the next append of the chain may start.
Settled(d) ==
  /\ appending' = "idle"
  /\ \E i \in DOMAIN appendQueue :
       /\ appendQueue[i] = d
       /\ appendQueue' = SubSeq(appendQueue, 1, i - 1)
                           \o SubSeq(appendQueue, i + 1, Len(appendQueue))

WriteLine ==
  /\ appending = "opening"
  /\ LET d == Chained(appendQueue)
     IN  /\ Settled(d)
         /\ log' = Append(log, [of |-> d, whole |-> TRUE])
  /\ healthy' = TRUE
  /\ UNCHANGED <<what, hook, events, received, backup, lost>>

\* Any of the calls fails; the write may have left part of the line, or all of it when it
\* is the chmod that fails.  The chain goes on.
AppendFails ==
  /\ appending # "idle"
  /\ LET d == Chained(appendQueue)
     IN  /\ Settled(d)
         /\ \/ log' = log /\ lost' = lost \cup {d}
            \/ /\ appending = "opening"
               /\ log' = Append(log, [of |-> d, whole |-> FALSE]) /\ lost' = lost \cup {d}
            \/ /\ appending = "opening"
               /\ log' = Append(log, [of |-> d, whole |-> TRUE]) /\ lost' = lost
  /\ healthy' = FALSE
  /\ UNCHANGED <<what, hook, events, received, backup>>

AppendStep == StartAppend \/ RemoveBackup \/ RenameLog \/ WriteLine

\* flush() resolves: every append queued so far has settled.
Flushed == appendQueue = <<>>

\* No delivery's connection is open, which server.close() waits for.
NoDelivery == \A d \in Deliveries : hook[d] # "arrived"

(***************************************************************************)
(* Properties.                                                             *)
(***************************************************************************)

\* The elements of s that are in T, in their order.
Among(s, T) ==
  LET kept[i \in 0..Len(s)] ==
        IF i = 0 THEN <<>>
        ELSE IF s[i] \in T THEN Append(kept[i - 1], s[i])
        ELSE kept[i - 1]
  IN  kept[Len(s)]

OnDisk == Among(backup \o log, {f \in Fragment : f.whole})

Handled == SubSeq(received, 1, Len(received) - Len(appendQueue))

\* The log and the health bit agree with what was received: the two files together hold the
\* events handled so far, in the order of their receipt, without a gap but for those whose
\* append failed and the oldest ones that rotation dropped; and when the store reports itself
\* healthy with nothing left to write, the last event received is the last line.
LogTellsTheTruth ==
  /\ LET written == Among(Handled, Deliveries \ lost)
         kept    == [i \in 1..Len(OnDisk) |-> OnDisk[i].of]
     IN  IsSuffix(kept, written)
  /\ healthy /\ Flushed /\ received # <<>> =>
       log # <<>> /\ Last(log) = [of |-> Last(received), whole |-> TRUE]
  /\ IsSuffix(events, received)
=============================================================================
