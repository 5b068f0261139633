---------------------------- MODULE HttpSessions ----------------------------
(***************************************************************************)
(* The Streamable HTTP endpoint (src/src/http/mcp-http.ts): sessions of    *)
(* the 2025 era, exchanges and listen streams of the 2026 era, their       *)
(* limits, the reaper of idle sessions and closeAll().                     *)
(*                                                                         *)
(* A request that initializes a session stands for that session as well:   *)
(* its name is the session id.  The clock of the reaper is abstracted: a   *)
(* session without a request inside may be idle for long enough at any     *)
(* moment.  What the SDK's transport does is modelled from how the handler *)
(* uses it: close() ends the streams of the transport and calls onclose.   *)
(***************************************************************************)
EXTENDS Naturals, FiniteSets

CONSTANTS Requests,      \* the requests that clients may send
          MaxSessions,   \* AVITO_MCP_HTTP_MAX_SESSIONS
          MaxInflight,   \* AVITO_MCP_HTTP_MAX_INFLIGHT
          MaxStreams     \* AVITO_MCP_HTTP_MAX_STREAMS

Nobody == 0       \* the session of a request that is in none

ASSUME LimitsAssumption ==
  /\ IsFiniteSet(Requests) /\ Nobody \notin Requests
  /\ MaxSessions \in Nat /\ MaxInflight \in Nat /\ MaxStreams \in Nat

VARIABLES era,           \* AVITO_MCP_PROTOCOL_ERA: "legacy", "dual" or "modern"
          kind,          \* what each request asks for
          pc,            \* where each request is
          at,            \* the session a request is inside of
          open,          \* the ids in the map `sessions`
          active,        \* activeRequests of each session
          initializing,  \* initializingSessions
          inflight,      \* modernInflight
          streams,       \* modernStreams
          released,      \* the latch `released` of each modern exchange
          connected,     \* sessions whose transport and server are not closed
          closing,       \* how far closeAll() is
          awaited        \* the initializations, then the sessions, it deals with

httpVars == <<era, kind, pc, at, open, active, initializing, inflight, streams, released,
              connected, closing, awaited>>

Initializing == {"initialize", "malformed"}     \* the second is answered without a session
InSession    == {"message", "foreign", "stream", "delete"}
Modern       == {"exchange", "listen"}
Kinds        == Initializing \cup InSession \cup Modern

Steps == {"absent", "unsent", "arrived", "creating", "answering", "serving", "hungUp", "done"}

HttpTypeOK ==
  /\ era \in {"legacy", "dual", "modern"}
  /\ kind \in [Requests -> Kinds]
  /\ pc \in [Requests -> Steps]
  /\ at \in [Requests -> Requests \cup {Nobody}]
  /\ open \subseteq Requests /\ connected \subseteq Requests /\ awaited \subseteq Requests
  /\ active \in [Requests -> 0..Cardinality(Requests)]
  /\ initializing \in 0..Cardinality(Requests)
  /\ inflight \in 0..MaxInflight /\ streams \in 0..MaxStreams
  /\ released \in [Requests -> BOOLEAN]
  /\ closing \in {"no", "awaiting", "closing", "done"}

HttpInit ==
  /\ at = [r \in Requests |-> Nobody]
  /\ open = {} /\ connected = {} /\ awaited = {}
  /\ active = [r \in Requests |-> 0]
  /\ initializing = 0 /\ inflight = 0 /\ streams = 0
  /\ released = [r \in Requests |-> FALSE]
  /\ closing = "no"

Less(n) == IF n = 0 THEN 0 ELSE n - 1       \* Math.max(0, n - 1)

Move(r, step) == pc' = [pc EXCEPT ![r] = step]

modernVars == <<inflight, streams, released>>
sessionVars == <<at, open, active, initializing, connected>>
closeVars == <<closing, awaited>>

(***************************************************************************)
(* The 2025 era: initialize, and the requests of an open session.          *)
(***************************************************************************)

\* A request is past the guards and the body parser's awaits are still ahead.
Arrive(r) ==
  /\ pc[r] = "unsent"
  /\ Move(r, "arrived")
  /\ UNCHANGED <<era, kind, sessionVars, modernVars, closeVars>>

\* dispatchByEra(): a leg that is not mounted answers nothing but a refusal.
Leg(r) == IF kind[r] \in Modern THEN "modern" ELSE "legacy"
Mounted(r) == era \in {"dual", Leg(r)}

RefusedByEra(r) ==
  /\ pc[r] = "arrived" /\ ~Mounted(r)
  /\ Move(r, "done")
  /\ UNCHANGED <<era, kind, sessionVars, modernVars, closeVars>>

HasRoom == closing = "no" /\ Cardinality(open) + initializing < MaxSessions

\* The place is reserved and the server connected before the first await returns.
Initialize(r) ==
  /\ pc[r] = "arrived" /\ kind[r] \in Initializing /\ Mounted(r)
  /\ IF HasRoom
     THEN /\ Move(r, "creating")
          /\ initializing' = initializing + 1
          /\ connected' = connected \cup {r}
     ELSE Move(r, "done") /\ UNCHANGED <<initializing, connected>>
  /\ UNCHANGED <<era, kind, at, open, active, modernVars, closeVars>>

\* onsessioninitialized: the session is in the map while initialize is answered.
SessionInitialized(r) ==
  /\ pc[r] = "creating" /\ kind[r] = "initialize"
  /\ Move(r, "answering")
  /\ open' = open \cup {r}
  /\ active' = [active EXCEPT ![r] = 1]
  /\ UNCHANGED <<era, kind, at, initializing, connected, modernVars, closeVars>>

\* createSession returns; a session that was dropped meanwhile is left alone.
Answered(r) ==
  /\ pc[r] = "answering"
  /\ Move(r, "done")
  /\ initializing' = initializing - 1
  /\ active' = IF r \in open THEN [active EXCEPT ![r] = Less(@)] ELSE active
  /\ UNCHANGED <<era, kind, at, open, connected, modernVars, closeVars>>

\* Answered without a session id, or thrown: both halves are closed.
InitializationFails(r) ==
  /\ pc[r] \in {"creating", "answering"}
  /\ Move(r, "done")
  /\ initializing' = initializing - 1
  /\ connected' = connected \ {r}
  /\ open' = open \ {r}
  /\ UNCHANGED <<era, kind, at, active, modernVars, closeVars>>

Named == {s \in Requests : kind[s] = "initialize" /\ pc[s] \in {"answering", "done"}}

\* The id is unknown, or the session belongs to another principal: both answer 404.
Unknown(r) ==
  /\ pc[r] = "arrived" /\ kind[r] \in InSession /\ Mounted(r)
  /\ kind[r] = "foreign" \/ Named = {} \/ Named \ open # {}
  /\ Move(r, "done")
  /\ UNCHANGED <<era, kind, sessionVars, modernVars, closeVars>>

EnterSession(r, s) ==
  /\ pc[r] = "arrived" /\ kind[r] \in InSession \ {"foreign"} /\ Mounted(r)
  /\ s \in open
  /\ Move(r, "serving")
  /\ at' = [at EXCEPT ![r] = s]
  /\ active' = [active EXCEPT ![s] = @ + 1]
  /\ UNCHANGED <<era, kind, open, initializing, connected, modernVars, closeVars>>

\* dropSession(): out of the map, its server and with it its transport closed.
Drop(s) ==
  /\ open' = open \ {s}
  /\ connected' = connected \ {s}

\* DELETE: the transport reports onsessionclosed, and closes.
DeleteSession(r) ==
  /\ pc[r] = "serving" /\ kind[r] = "delete" /\ at[r] \in open
  /\ Drop(at[r])
  /\ UNCHANGED <<era, kind, pc, at, active, initializing, modernVars, closeVars>>

\* The transport's handler settles: a message when it is answered or its transport is
\* closed, a delete once the session is gone, a stream when its transport is closed.
LeaveSession(r) ==
  /\ pc[r] = "serving" /\ kind[r] \in InSession
  /\ kind[r] = "delete" => at[r] \notin open
  /\ kind[r] = "stream" => at[r] \notin connected
  /\ Move(r, "done")
  /\ active' = [active EXCEPT ![at[r]] = Less(@)]
  /\ UNCHANGED <<era, kind, at, open, initializing, connected, modernVars, closeVars>>

\* The client of a stream hangs up, which ends it as well.
StreamHangsUp(r) ==
  /\ pc[r] = "serving" /\ kind[r] = "stream" /\ at[r] \in connected
  /\ Move(r, "done")
  /\ active' = [active EXCEPT ![at[r]] = Less(@)]
  /\ UNCHANGED <<era, kind, at, open, initializing, connected, modernVars, closeVars>>

\* Mutant: the reaper looks at the time of the last request only.
IdleByClock(s) == s \in open

\* The reaper: only a session without a request inside can be idle.
Idle(s) == active[s] = 0

Reap(s) ==
  /\ closing = "no"
  /\ s \in open /\ Idle(s)
  /\ Drop(s)
  /\ UNCHANGED <<era, kind, pc, at, active, initializing, modernVars, closeVars>>

(***************************************************************************)
(* The 2026 era: an exchange holds a slot until its handler settles or its *)
(* response is closed, whichever is first.                                 *)
(***************************************************************************)

Admissible(r) ==
  /\ closing = "no"
  /\ kind[r] = "listen" => streams < MaxStreams
  /\ inflight < MaxInflight

\* admitModernExchange(): both counters are raised before the first await.
Admit(r) ==
  /\ pc[r] = "arrived" /\ kind[r] \in Modern /\ Mounted(r)
  /\ IF Admissible(r)
     THEN /\ Move(r, "serving")
          /\ inflight' = inflight + 1
          /\ streams' = IF kind[r] = "listen" THEN streams + 1 ELSE streams
     ELSE Move(r, "done") /\ UNCHANGED <<inflight, streams>>
  /\ UNCHANGED <<era, kind, released, sessionVars, closeVars>>

\* Mutant: the slot is released by the closed response and again when the handler settles.
ReleaseWithoutLatch(r) ==
  /\ released' = [released EXCEPT ![r] = TRUE]
  /\ inflight' = Less(inflight)
  /\ streams' = IF kind[r] = "listen" THEN Less(streams) ELSE streams

\* release(), which both ends of an exchange call.
Release(r) ==
  IF released[r]
  THEN UNCHANGED modernVars
  ELSE /\ released' = [released EXCEPT ![r] = TRUE]
       /\ inflight' = Less(inflight)
       /\ streams' = IF kind[r] = "listen" THEN Less(streams) ELSE streams

\* The response is closed by the client while the handler runs on.
HangUp(r) ==
  /\ pc[r] = "serving" /\ kind[r] \in Modern
  /\ Move(r, "hungUp")
  /\ Release(r)
  /\ UNCHANGED <<era, kind, sessionVars, closeVars>>

\* Mutant: closeAll() leaves the modern handler, and with it the listen streams, open.
SettleOnHangUp(r) ==
  /\ pc[r] \in {"serving", "hungUp"} /\ kind[r] \in Modern
  /\ kind[r] = "listen" => pc[r] = "hungUp"
  /\ Move(r, "done")
  /\ Release(r)
  /\ UNCHANGED <<era, kind, sessionVars, closeVars>>

\* The handler settles: a listen stream when its client has gone or modern.close() ends it.
Settle(r) ==
  /\ pc[r] \in {"serving", "hungUp"} /\ kind[r] \in Modern
  /\ kind[r] = "listen" /\ pc[r] = "serving" => closing = "done"
  /\ Move(r, "done")
  /\ Release(r)
  /\ UNCHANGED <<era, kind, sessionVars, closeVars>>

(***************************************************************************)
(* closeAll(): refuse what is new, wait for the initializations under way, *)
(* then close every session there is and the modern handler.               *)
(***************************************************************************)

Creating == {r \in Requests : pc[r] \in {"creating", "answering"}}

CloseAllBegins ==
  /\ closing = "no"
  /\ closing' = "awaiting"
  /\ awaited' = Creating
  /\ UNCHANGED <<era, kind, pc, sessionVars, modernVars>>

\* Mutant: the sessions are taken without waiting for the initializations.
CloseAllTakesAtOnce ==
  /\ closing = "awaiting"
  /\ closing' = "closing"
  /\ awaited' = open
  /\ open' = {}
  /\ UNCHANGED <<era, kind, pc, at, active, initializing, connected, modernVars>>

\* Promise.allSettled(initializations) resolves; the map is copied and cleared.
CloseAllTakesSessions ==
  /\ closing = "awaiting" /\ awaited \cap Creating = {}
  /\ closing' = "closing"
  /\ awaited' = open
  /\ open' = {}
  /\ UNCHANGED <<era, kind, pc, at, active, initializing, connected, modernVars>>

CloseAllEnds ==
  /\ closing = "closing"
  /\ closing' = "done"
  /\ connected' = connected \ awaited
  /\ awaited' = {}
  /\ UNCHANGED <<era, kind, pc, at, open, active, initializing, modernVars>>

\* What a client, a failure or the clock may do; nothing obliges them to.
ClientStep ==
  \/ \E r \in Requests : StreamHangsUp(r) \/ HangUp(r)
  \/ \E r \in Requests : kind[r] = "initialize" /\ InitializationFails(r)
  \/ \E s \in Requests : Reap(s)

\* What the handler does with a request once it has it.
HandlerStep(r) ==
  \/ RefusedByEra(r) \/ Initialize(r) \/ SessionInitialized(r) \/ Answered(r)
  \/ Unknown(r) \/ DeleteSession(r) \/ LeaveSession(r)
  \/ Admit(r) \/ Settle(r)
  \/ kind[r] = "malformed" /\ InitializationFails(r)
  \/ \E s \in Requests : EnterSession(r, s)

CloseStep == CloseAllTakesSessions \/ CloseAllEnds

\* Whether the connection of every request has ended, which server.close() waits for.
NoConnection == \A r \in Requests : pc[r] \in {"absent", "unsent", "hungUp", "done"}

(***************************************************************************)
(* Properties.                                                             *)
(***************************************************************************)

CountersAreExact ==
  /\ initializing = Cardinality(Creating)
  /\ \A s \in open :
       active[s] = Cardinality({r \in Requests : pc[r] = "serving" /\ at[r] = s})
                   + (IF pc[s] = "answering" THEN 1 ELSE 0)
  /\ inflight = Cardinality({r \in Requests : pc[r] = "serving" /\ kind[r] \in Modern})
  /\ streams = Cardinality({r \in Requests : pc[r] = "serving" /\ kind[r] = "listen"})

NothingUncounted ==
  connected \subseteq open \cup Creating \cup (IF closing = "closing" THEN awaited ELSE {})

\* What the endpoint has open is what its limits count: every counter is the number of
\* requests that hold a place, a session or transport that is connected is in the map, being
\* created or being closed, and none of the limits is exceeded: not of sessions with those
\* being created, nor of exchanges with the streams among them -- whatever hangs up, fails or
\* is reaped in between.
Accounted ==
  /\ CountersAreExact
  /\ NothingUncounted
  /\ Cardinality(open \cup Creating) <= MaxSessions
  /\ inflight <= MaxInflight /\ streams <= MaxStreams

\* A session with a request inside leaves the map only on a DELETE of that session, when its
\* own initialization fails, or when closeAll() takes it: never because it looks idle.
BusySessionKept ==
  [][\A s \in open \ open' :
       active[s] > 0 =>
         \/ \E r \in Requests : kind[r] = "delete" /\ pc[r] = "serving" /\ at[r] = s
         \/ pc[s] = "answering" /\ pc'[s] = "done"
         \/ closing # closing']_httpVars
=============================================================================
