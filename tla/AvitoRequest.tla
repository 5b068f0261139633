---------------------------- MODULE AvitoRequest ----------------------------
(***************************************************************************)
(* One tool call from its handler (src/src/core/tool-factory.ts) through   *)
(* AvitoClient.request (src/src/core/client.ts) and back: the policy, the  *)
(* dry run, the approval, the request with its retries and deadline, the   *)
(* withdrawal of the call at any moment, and what the ledger is then told. *)
(*                                                                         *)
(* The wait for the budget (RateLimiter), the token (TokenStore) and the   *)
(* ledger (ToolCall) are modules of their own: here a wait ends or fails.  *)
(* A failure is "refused" (AvitoApiError: Avito answered with a status),   *)
(* "transport" (AvitoTransportError) or "other" (any other error).         *)
(***************************************************************************)
EXTENDS Catalogue, Naturals, FiniteSets

CONSTANTS Policies,      \* configurations of the server
          Callable,      \* the tools that are called
          MaxPolls       \* bound on the status polls of a purchase (20 in promotion.ts)

ASSUME RequestAssumption ==
  /\ Callable \subseteq Tools /\ MaxPolls \in Nat \ {0}
  /\ \A p \in Policies : /\ p.mode \in Modes /\ p.confirmation \in ConfirmationModes
                         /\ p.expose \in BOOLEAN /\ p.dryRunDefault \in BOOLEAN

VARIABLES tool, policy,  \* the tool, and the configuration it is called under
          asked,         \* the dryRun argument
          step,          \* where the call is
          withdrawn,     \* whether the signal of the call is aborted
          approved,      \* whether it runs as the executor of a confirmation
          latch,         \* dispatched: onDispatch was called last, not onRejected
          attempt,       \* what request() has already retried
          polls,         \* status polls of a purchase: 0 while the tool's own request runs
          applied,       \* how often Avito has carried the mutation out (history)
          verdict        \* what the call comes to

requestVars == <<tool, policy, asked, step, withdrawn, approved, latch, attempt, polls, applied,
                 verdict>>

RequestSteps == {"absent", "called", "staged", "slot", "headers", "unsent", "wire", "refreshing",
          "backoff", "body", "error", "done"}
Verdicts == {"none", "hidden", "preview", "dropped", "withdrawn", "notSent", "unknown", "result"}

Max429Retries == 3
Max5xxRetries == 1

FirstAttempt == [refreshed |-> FALSE, limited |-> 0, failed |-> 0]

RequestTypeOK ==
  /\ tool \in Callable /\ policy \in Policies /\ asked \in {"unset", "yes", "no"}
  /\ step \in RequestSteps /\ verdict \in Verdicts
  /\ withdrawn \in BOOLEAN /\ approved \in BOOLEAN /\ latch \in BOOLEAN
  /\ attempt \in [refreshed : BOOLEAN, limited : 0..Max429Retries, failed : 0..Max5xxRetries]
  /\ polls \in 0..MaxPolls /\ applied \in Nat

RequestInit ==
  /\ tool \in Callable /\ policy \in Policies /\ asked \in {"unset", "yes", "no"}
  /\ step \in {"absent", "called"}
  /\ withdrawn = FALSE /\ approved = FALSE /\ latch = FALSE
  /\ attempt = FirstAttempt
  /\ polls = 0 /\ applied = 0 /\ verdict = "none"

askVars == <<tool, policy, asked, withdrawn, approved>>

(***************************************************************************)
(* The handler.                                                            *)
(***************************************************************************)

Mutates == Destructive(tool.risk)

DryRun == Mutates /\ (asked = "yes" \/ (asked = "unset" /\ policy.dryRunDefault))

\* Confirmation tools are there when there is something to confirm and the policy admits them.
Confirmable == policy.confirmation # "off" /\ Allowed(ConfirmTool, "write", policy)

Registered ==
  /\ Allowed(tool.name, tool.risk, policy)
  /\ tool \in ConfirmationTools => policy.confirmation # "off"

End(v) == step' = "done" /\ verdict' = v

Answer ==
  /\ step = "called"
  /\ \/ ~Registered /\ End("hidden")
     \/ Registered /\ tool.way = "local" /\ End("result")
     \/ Registered /\ tool.way # "local" /\ DryRun /\ End("preview")
  /\ UNCHANGED <<askVars, latch, attempt, polls, applied>>

Begin ==
  /\ step = "called" /\ Registered /\ tool.way # "local" /\ ~DryRun
  /\ step' = IF NeedsConfirmation(tool.risk, policy) THEN "staged" ELSE "slot"
  /\ UNCHANGED <<askVars, latch, attempt, polls, applied, verdict>>

\* meta_confirm_action runs executePending(), which has no signal.
Approve ==
  /\ step = "staged" /\ Confirmable /\ Registered
  /\ step' = "slot"
  /\ approved' = TRUE
  /\ UNCHANGED <<tool, policy, asked, withdrawn, latch, attempt, polls, applied, verdict>>

\* The pending action is cancelled or expires.
DropPending ==
  /\ step = "staged"
  /\ End("dropped")
  /\ UNCHANGED <<askVars, latch, attempt, polls, applied>>

\* notifications/cancelled, or the response stream is closed.
Withdraw ==
  /\ step \notin {"absent", "done"} /\ ~withdrawn
  /\ withdrawn' = TRUE
  /\ UNCHANGED <<tool, policy, asked, step, approved, latch, attempt, polls, applied, verdict>>

\* signal.aborted, as request() and execute() see it.
SignalAborted == withdrawn /\ ~approved

(***************************************************************************)
(* execute(): what a failure means for the ledger.                         *)
(***************************************************************************)

Conclusion(failure) ==
  CASE SignalAborted /\ ~latch -> "withdrawn"
    [] SignalAborted /\ latch -> IF failure = "refused" THEN "result" ELSE "unknown"
    [] ~SignalAborted /\ Mutates /\ failure = "transport" -> IF latch THEN "unknown" ELSE "notSent"
    [] OTHER -> "result"

\* A poll that fails is not a failed purchase: its result names the order.
Fail(failure) ==
  End(IF polls > 0 /\ failure \in {"refused", "transport"} THEN "result"
                                                           ELSE Conclusion(failure))

(***************************************************************************)
(* request() and doRequest().                                              *)
(***************************************************************************)

\* Mutant: every method is retried.
RetryableAlways == polls = 0

\* A poll is a POST with the token.
Retryable == polls = 0 /\ tool.method = "GET"

NeedsToken == polls > 0 \/ tool.token

\* The arguments make a request and the budget grants it.
SlotGranted ==
  /\ step = "slot"
  /\ step' = "headers"
  /\ UNCHANGED <<askVars, latch, attempt, polls, applied, verdict>>

\* They do not make one; or the wait fails, is withdrawn, or meets the deadline.
SlotRefused ==
  /\ step = "slot"
  /\ \E failure \in {"other", "transport"} : Fail(failure)
  /\ UNCHANGED <<askVars, latch, attempt, polls, applied>>

\* A static header, the credentials or the token cannot be had, or not in time.
HeadersFail ==
  /\ step = "headers"
  /\ \E failure \in {"other", "transport"} \cup (IF NeedsToken THEN {"refused"} ELSE {}) :
       Fail(failure)
  /\ UNCHANGED <<askVars, latch, attempt, polls, applied>>

\* onDispatch(), which a poll does not have, and fetch(): it sends nothing for a signal that
\* is aborted already.
Dispatch ==
  /\ step = "headers"
  /\ latch' = (latch \/ polls = 0)
  /\ step' = IF SignalAborted THEN "unsent" ELSE "wire"
  /\ UNCHANGED <<askVars, attempt, polls, applied, verdict>>

FetchRejects ==
  /\ step = "unsent"
  /\ Fail("transport")
  /\ UNCHANGED <<askVars, latch, attempt, polls, applied>>

\* Avito carries the request out, or not.
Carried(out) == applied' = applied + (IF out /\ Mutates /\ polls = 0 THEN 1 ELSE 0)

\* No response is had: an error of the network, the deadline, the signal.
Lost ==
  /\ step = "wire"
  /\ \E out \in BOOLEAN : Carried(out)
  /\ Fail("transport")
  /\ UNCHANGED <<askVars, latch, attempt, polls>>

\* Mutant: the polls of a purchase share the callbacks of its creation.
UnauthorizedPoll ==
  /\ step = "wire" /\ NeedsToken /\ ~attempt.refreshed
  /\ latch' = FALSE
  /\ attempt' = [attempt EXCEPT !.refreshed = TRUE]
  /\ step' = "refreshing"
  /\ UNCHANGED <<askVars, polls, applied, verdict>>

\* 401, once: the mutation was refused, the latch is opened again and the token replaced.
Unauthorized ==
  /\ step = "wire" /\ NeedsToken /\ ~attempt.refreshed
  /\ latch' = (latch /\ polls > 0)
  /\ attempt' = [attempt EXCEPT !.refreshed = TRUE]
  /\ step' = "refreshing"
  /\ UNCHANGED <<askVars, polls, applied, verdict>>

Refreshed ==
  /\ step = "refreshing"
  /\ step' = "headers"
  /\ UNCHANGED <<askVars, latch, attempt, polls, applied, verdict>>

\* Within the try: what is neither Avito's answer to the token request nor a body too long
\* becomes "transport".
RefreshFails ==
  /\ step = "refreshing"
  /\ \E failure \in {"refused", "transport", "other"} : Fail(failure)
  /\ UNCHANGED <<askVars, latch, attempt, polls, applied>>

TooMany ==
  /\ step = "wire" /\ Retryable /\ attempt.limited < Max429Retries
  /\ attempt' = [attempt EXCEPT !.limited = @ + 1]
  /\ step' = "backoff"
  /\ UNCHANGED <<askVars, latch, polls, applied, verdict>>

ServerError ==
  /\ step = "wire" /\ Retryable /\ attempt.failed < Max5xxRetries
  /\ \E out \in BOOLEAN : Carried(out)
  /\ attempt' = [attempt EXCEPT !.failed = @ + 1]
  /\ step' = "backoff"
  /\ UNCHANGED <<askVars, latch, polls, verdict>>

\* The sleep is not cut short by the signal, only by the deadline.
SleepEnds ==
  /\ step = "backoff"
  /\ \/ step' = "headers" /\ UNCHANGED verdict
     \/ Fail("transport")
  /\ UNCHANGED <<askVars, latch, attempt, polls, applied>>

\* A response that is final: 2xx, or a status that is not (any longer) retried.
Response ==
  /\ step = "wire"
  /\ \/ Carried(TRUE) /\ step' = "body"
     \/ Carried(FALSE) /\ step' = "error"
     \/ (Retryable => attempt.failed = Max5xxRetries) /\ Carried(TRUE) /\ step' = "error"
  /\ UNCHANGED <<askVars, latch, attempt, polls, verdict>>

\* The body is too long, breaks off, meets the deadline or the signal.
BodyFails ==
  /\ step \in {"body", "error"}
  /\ \E failure \in {"other", "transport"} : Fail(failure)
  /\ UNCHANGED <<askVars, latch, attempt, polls, applied>>

ErrorRead ==
  /\ step = "error"
  /\ Fail("refused")
  /\ UNCHANGED <<askVars, latch, attempt, polls, applied>>

\* The result is returned; but a purchase that was given an orderId, and one that is pending,
\* asks for the status of the order.
Succeed ==
  /\ step = "body"
  /\ \/ End("result") /\ UNCHANGED <<attempt, polls>>
     \/ /\ tool.way = "order" /\ polls < MaxPolls
        /\ polls' = polls + 1
        /\ step' = "slot"
        /\ attempt' = FirstAttempt
        /\ UNCHANGED verdict
  /\ UNCHANGED <<askVars, latch, applied>>

RequestStep ==
  \/ Answer \/ Begin \/ SlotGranted \/ SlotRefused \/ HeadersFail \/ Dispatch \/ FetchRejects
  \/ Lost \/ Unauthorized \/ Refreshed \/ RefreshFails \/ TooMany \/ ServerError \/ SleepEnds
  \/ Response \/ BodyFails \/ ErrorRead \/ Succeed

\* What people do, and owe to nobody.
PeopleStep == Approve \/ DropPending \/ Withdraw

RequestSpec == RequestInit /\ [][RequestStep \/ PeopleStep]_requestVars

(***************************************************************************)
(* Properties.                                                             *)
(***************************************************************************)

\* A call that reports that it did nothing -- withdrawn before its request was sent, or failed
\* before that, so that its idempotency key is free again -- has done nothing at Avito: not
\* in an attempt before a 401, not as the purchase whose order was then polled.
LatchTellsTheTruth == verdict \in {"withdrawn", "notSent"} => applied = 0

\* Retries, a refreshed token, backoffs and polls included, one call changes Avito's state
\* once at most: no tool that changes anything is repeated after a lost answer or a 5xx.
NoBlindResend == applied <= 1

\* What has changed at Avito was allowed in the mode of the server and by its lists, was no
\* dry run, and was approved by somebody when the configuration says so.
OnlyAsLicensed ==
  applied > 0 =>
    /\ policy.mode # "read_only"
    /\ policy.mode = "guarded" => tool.risk = "write"
    /\ tool.name \notin policy.deny
    /\ policy.allow # {} => tool.name \in policy.allow
    /\ asked # "yes"
    /\ policy.dryRunDefault => asked = "no"
    /\ NeedsConfirmation(tool.risk, policy) => approved
=============================================================================
