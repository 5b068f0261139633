---------------------------- MODULE ServerProcess ---------------------------
(***************************************************************************)
(* The process that holds it all (src/src/server.ts, src/src/http/app.ts): *)
(* start-up from the environment, the HTTP listener with its MCP sessions  *)
(* (HttpSessions) and its webhook receiver (WebhookStore), the tool calls  *)
(* (AvitoRequest) and lists (ListPages) it serves, the budget of its calls *)
(* to Avito (RateLimiter), and the order in which a signal shuts it down.  *)
(***************************************************************************)
EXTENDS HttpSessions, WebhookStore, RateLimiter, Configuration, AvitoRequest, ListPages

CONSTANTS Envs,          \* environments to start and stop under
          Loads          \* what arrives together, and the environment it arrives under:
                         \* requests, deliveries, API calls, one tool call, one walk

ASSUME ProcessAssumption ==
  Envs \subseteq Environments /\ \A load \in Loads : load.env \in Environments

VARIABLES env,           \* the environment variables
          phase,         \* how far the process is
          oauth,         \* the OAuth subsystem
          forced         \* whether the hard timer ended the process

lifeVars == <<env, phase, oauth, forced>>
toolVars == <<budgetVars, requestVars, pageVars>>
workVars == <<httpVars, hookVars, toolVars>>
vars == <<workVars, lifeVars>>

ShuttingDown == {"mcp", "server", "webhook", "oauth", "limiter"}

Phases == {"off", "loaded", "mounted", "unbinding", "stdio", "running", "exited"}
            \cup ShuttingDown

TypeOK ==
  /\ HttpTypeOK /\ HookTypeOK /\ BudgetTypeOK /\ RequestTypeOK
  /\ env \in Environments /\ phase \in Phases
  /\ oauth \in {"none", "open", "closed", "failed"} /\ forced \in BOOLEAN

NoUse == [tool |-> CHOOSE t \in Callable : TRUE, policy |-> CHOOSE p \in Policies : TRUE,
          asked |-> "unset"]

\* What there is to do: requests and deliveries of the given kinds, so many API calls, at most
\* one tool call, and at most one walk through a list.
Load(load) ==
  /\ kind = [r \in Requests |-> IF r <= Len(load.requests) THEN load.requests[r] ELSE "message"]
  /\ pc = [r \in Requests |-> IF r <= Len(load.requests) THEN "unsent" ELSE "absent"]
  /\ what = [d \in Deliveries |-> IF d <= Len(load.hooks) THEN load.hooks[d] ELSE "ping"]
  /\ hook = [d \in Deliveries |-> IF d <= Len(load.hooks) THEN "unsent" ELSE "absent"]
  /\ call = [c \in Calls |-> IF c \in load.calls THEN "wanting" ELSE "absent"]
  /\ load.calls = {} => budget = NoBudget
  /\ \E use \in IF load.uses = {} THEN {NoUse} ELSE load.uses :
       tool = use.tool /\ policy = use.policy /\ asked = use.asked
  /\ step = IF load.uses = {} THEN "absent" ELSE "called"
  /\ list \in (IF load.lists = {} THEN {<<>>} ELSE load.lists)
  /\ walk = IF load.lists = {} THEN "absent" ELSE "walking"

NoLoad == [requests |-> <<>>, hooks |-> <<>>, calls |-> {}, uses |-> {}, lists |-> {}]

Init ==
  /\ HttpInit /\ HookInit /\ BudgetInit
  /\ \/ \E load \in Loads : env = load.env /\ Load(load)
     \/ env \in Envs /\ Load(NoLoad)
  /\ RequestInit /\ PagesInit
  /\ era = env.era
  /\ paged = (era # "legacy")
  /\ phase = "off" /\ oauth = "none" /\ forced = FALSE

(***************************************************************************)
(* Start-up.                                                               *)
(***************************************************************************)

LoadConfig ==
  /\ phase = "off"
  /\ phase' = IF Accepted(env) THEN "loaded" ELSE "exited"
  /\ UNCHANGED <<env, oauth, forced, workVars>>

StartStdioOnly ==
  /\ phase = "loaded" /\ ~Listens(env)
  /\ phase' = "stdio"
  /\ UNCHANGED <<env, oauth, forced, workVars>>

\* The handlers are mounted and the OAuth store opened, or start-up throws.
Mount ==
  /\ phase = "loaded" /\ Listens(env)
  /\ IF Mountable(env)
     THEN /\ phase' = "mounted"
          /\ oauth' = IF HttpMcp(env) /\ env.auth = "oauth" THEN "open" ELSE "none"
     ELSE phase' = "exited" /\ UNCHANGED oauth
  /\ UNCHANGED <<env, forced, workVars>>

Listen ==
  /\ phase = "mounted"
  /\ phase' = "running"
  /\ UNCHANGED <<env, oauth, forced, workVars>>

\* The port is taken: every closer runs before the error is passed on.
BindFails ==
  /\ phase = "mounted"
  /\ phase' = "unbinding"
  /\ IF HttpMcp(env) THEN CloseAllBegins ELSE UNCHANGED httpVars
  /\ UNCHANGED <<env, oauth, forced, hookVars, toolVars>>

Unbound ==
  /\ phase = "unbinding"
  /\ HttpMcp(env) => closing = "done"
  /\ Flushed
  /\ phase' = "exited"
  /\ oauth' \in (IF oauth = "open" THEN {"closed", "failed"} ELSE {oauth})
  /\ UNCHANGED <<env, forced, workVars>>

(***************************************************************************)
(* Shutdown: stop accepting, close the MCP sessions, wait for the          *)
(* connections, then flush the webhook log, close OAuth, flush the budget. *)
(***************************************************************************)

Signal ==
  \/ /\ phase = "running" /\ HttpMcp(env)
     /\ phase' = "mcp"
     /\ CloseAllBegins
     /\ UNCHANGED <<env, oauth, forced, hookVars, toolVars>>
  \/ /\ phase = "running" /\ ~HttpMcp(env)
     /\ phase' = "server"
     /\ UNCHANGED <<env, oauth, forced, workVars>>
  \/ /\ phase = "stdio"
     /\ phase' = "limiter"
     /\ UNCHANGED <<env, oauth, forced, workVars>>

Proceed(from, to) ==
  /\ phase = from
  /\ phase' = to
  /\ UNCHANGED <<env, forced, workVars>>

McpClosed == closing = "done" /\ Proceed("mcp", "server") /\ UNCHANGED oauth

ServerClosed == NoConnection /\ NoDelivery /\ Proceed("server", "webhook") /\ UNCHANGED oauth

WebhookFlushed == Flushed /\ Proceed("webhook", "oauth") /\ UNCHANGED oauth

\* A closer that fails does not stop the ones after it.
OAuthClosed ==
  /\ Proceed("oauth", "limiter")
  /\ oauth' \in (IF oauth = "open" THEN {"closed", "failed"} ELSE {oauth})

LimiterFlushed == Drained /\ Proceed("limiter", "exited") /\ UNCHANGED oauth

\* The timer that ends a shutdown which hangs.
HardExit ==
  /\ phase \in ShuttingDown
  /\ phase' = "exited" /\ forced' = TRUE
  /\ UNCHANGED <<env, oauth, workVars>>

(***************************************************************************)
(* Work, while the process is alive.                                       *)
(***************************************************************************)

Alive == phase \in {"running", "stdio"} \cup ShuttingDown

Arrives ==
  /\ phase = "running"
  /\ \/ \E r \in Requests : HttpMcp(env) /\ Arrive(r) /\ UNCHANGED hookVars
     \/ \E d \in Deliveries : WebhookEnabled(env) /\ HookArrives(d) /\ UNCHANGED httpVars
  /\ UNCHANGED <<toolVars, lifeVars>>

Handles(r) == Alive /\ HandlerStep(r) /\ UNCHANGED <<hookVars, toolVars, lifeVars>>
ClientActs == Alive /\ ClientStep /\ UNCHANGED <<hookVars, toolVars, lifeVars>>
Closes == phase # "exited" /\ CloseStep /\ UNCHANGED <<hookVars, toolVars, lifeVars>>

Acknowledges(d) ==
  Alive /\ (HookBody(d) \/ HookDeadline(d)) /\ UNCHANGED <<httpVars, toolVars, lifeVars>>
Appends == phase # "exited" /\ AppendStep /\ UNCHANGED <<httpVars, toolVars, lifeVars>>
AppendBreaks == phase # "exited" /\ AppendFails /\ UNCHANGED <<httpVars, toolVars, lifeVars>>

Serves == UNCHANGED <<httpVars, hookVars, lifeVars>>

CallMoves(c) == Alive /\ CallStep(c) /\ Serves /\ UNCHANGED <<requestVars, pageVars>>
Drains == Alive /\ DrainStep /\ Serves /\ UNCHANGED <<requestVars, pageVars>>
BudgetDisturbed ==
  /\ Alive
  /\ TimePasses \/ \E c \in Calls : CallerStep(c)
  /\ Serves /\ UNCHANGED <<requestVars, pageVars>>

ToolCalled == Alive /\ (RequestStep \/ PeopleStep) /\ Serves /\ UNCHANGED <<budgetVars, pageVars>>
Walks == Alive /\ PageStep /\ Serves /\ UNCHANGED <<budgetVars, requestVars>>

Exited == phase = "exited" /\ UNCHANGED vars

Shutdown == McpClosed \/ ServerClosed \/ WebhookFlushed \/ OAuthClosed \/ LimiterFlushed

Next ==
  \/ LoadConfig \/ StartStdioOnly \/ Mount \/ Listen \/ BindFails \/ Unbound
  \/ Signal \/ Shutdown \/ HardExit \/ Exited
  \/ Arrives \/ ClientActs \/ Closes \/ Appends \/ AppendBreaks \/ Drains \/ BudgetDisturbed
  \/ ToolCalled \/ Walks
  \/ \E r \in Requests : Handles(r)
  \/ \E d \in Deliveries : Acknowledges(d)
  \/ \E c \in Calls : CallMoves(c)

Spec == Init /\ [][Next]_vars

\* Promises settle and timers fire: the event loop runs whatever is ready.  Nothing is owed by
\* clients, by the hard timer, or by Avito beyond a response or a deadline.
Fairness ==
  /\ \A r \in Requests : WF_vars(Handles(r))
  /\ \A d \in Deliveries : WF_vars(Acknowledges(d))
  /\ \A c \in Calls : WF_vars(CallMoves(c))
  /\ WF_vars(Closes) /\ WF_vars(Appends) /\ WF_vars(Drains) /\ WF_vars(Shutdown)

FairSpec == Spec /\ Fairness

(***************************************************************************)
(* Properties.                                                             *)
(***************************************************************************)

\* An exit that the hard timer did not force leaves nothing behind: no session or transport
\* open, none that opened itself after closeAll(), every received event's append settled, the
\* OAuth store closed or its failure reported, and no budget write -- nor its lease -- cut
\* off; also when it was the port that could not be bound.
CleanExit ==
  phase = "exited" /\ ~forced =>
    /\ open = {} /\ connected = {} /\ Creating = {}
    /\ Flushed /\ oauth # "open"
    /\ Drained

\* A signal ends the process without the hard timer: every stream, body, append and budget
\* write that shutdown waits for is ended by something shutdown has done before.
ShutdownEnds == phase \in ShuttingDown ~> phase = "exited"

\* A process that listens for remote MCP authenticates it with a strong secret, or is reached
\* from this machine only, or was told to do without.  Its OAuth issuer is https, or a URL of
\* this machine: no single variable puts a clear-text issuer on the network (config.ts:278-283),
\* whatever the server binds.  And a webhook receiver has a strong secret.
ExposedOnlyGuarded ==
  phase = "running" =>
    /\ HttpMcp(env) =>
         \/ env.auth \in {"oauth", "bearer"} /\ env.credential = "strong"
         \/ env.auth = "none" /\ (env.host = "loopback" \/ env.allowNoAuth)
    /\ HttpMcp(env) /\ env.auth = "oauth" /\ PublicUrl(env).at # "loopback" =>
         PublicUrl(env).scheme = "https" \/ (env.allowInsecure /\ env.allowInsecureIssuer)
    /\ WebhookEnabled(env) => env.hookSecret = "strong" /\ env.hookFlag # "off"
=============================================================================
