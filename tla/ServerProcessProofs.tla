-------------------------- MODULE ServerProcessProofs ------------------------
(***************************************************************************)
(* ServerProcess for any environments, loads and limits.  First its parts: *)
(* no unit of the shared request budget is lost or invented between a read *)
(* of the state file and the write that follows it, and the drain ends     *)
(* with the newest observation; what one tool call changes at Avito, and   *)
(* what it says it has, for every catalogue entry and configuration; that  *)
(* the log has the events in the order they came; and that a walk through  *)
(* the pages of a list returns the list.                                   *)
(* Then the life of the process on top of what its parts keep.             *)
(***************************************************************************)
EXTENDS ServerProcess, HttpSessionsProofs, WellFoundedInduction

-----------------------------------------------------------------------------
(* RateLimiter *)

BudgetNext ==
  \/ \E c \in Calls : CallStep(c) \/ CallerStep(c)
  \/ DrainStep \/ TimePasses

(***************************************************************************)
(* The inductive invariant.                                                *)
(***************************************************************************)

Readings == [left : Nat, window : {"open", "over", "fresh", "stale", "unknown"}]

BudgetShape ==
  /\ call \in [Calls -> Places]
  /\ seen \in Readings /\ budget \in Readings
  /\ queued \in [budget : Readings, number : Nat]
  /\ draining \in [budget : Readings, number : Nat]
  /\ observed \in Nat

\* The drain does not write while a call is between its read and its write.
DrainAlone == drain = "writing" => lease = {}

\* The newest observation is the one that waits, or else the one that is being written.
NewestIsLast ==
  drain # "none" =>
    IF queued = NoSnapshot THEN draining.number = observed ELSE queued.number = observed

BudgetInv == BudgetShape /\ DrainAlone /\ NewestIsLast /\ LedgerAdds

LEMMA BudgetInvInitial ==
  ASSUME BudgetInit, call \in [Calls -> {"absent", "wanting"}]
  PROVE  BudgetInv
<1>1. BudgetShape
  BY BudgetAssumption
     DEF BudgetInit, BudgetShape, Readings, NoBudget, NoSnapshot, Places
<1>2. DrainAlone /\ NewestIsLast /\ LedgerAdds
  BY DEF BudgetInit, DrainAlone, NewestIsLast, LedgerAdds, Drained
<1>3. QED
  BY <1>1, <1>2 DEF BudgetInv

(***************************************************************************)
(* observe().                                                              *)
(***************************************************************************)

LEMMA HeadersAreReadings == \A h \in Headers : h \in Readings
BY BudgetAssumption DEF Readings

\* An observation is queued, or its write begun, as the newest.
LEMMA ObserveKeeps ==
  ASSUME BudgetShape, NewestIsLast, LedgerAdds, NEW h \in Headers, Observe(h)
  PROVE  /\ NewestIsLast'
         /\ queued' \in [budget : Readings, number : Nat]
         /\ draining' \in [budget : Readings, number : Nat]
         /\ observed' \in Nat
         /\ drain' = "writing" => drain = "writing"
         /\ drain' = "none" => UNCHANGED <<drain, queued, written, observed>>
<1>1. CASE h = NoBudget
  BY <1>1 DEF Observe, NewestIsLast, BudgetShape, drainVars
<1>2. CASE h # NoBudget
  <2> DEFINE s == [budget |-> h, number |-> observed + 1]
  <2>1. s \in [budget : Readings, number : Nat] /\ s # NoSnapshot /\ s.number = observed + 1
    BY HeadersAreReadings DEF BudgetShape, NoSnapshot
  <2>2. /\ observed' = s.number
        /\ IF drain = "none"
           THEN drain' = "wanting" /\ draining' = s /\ UNCHANGED queued
           ELSE queued' = s /\ UNCHANGED <<drain, draining>>
    BY <1>2, <2>1 DEF Observe
  <2>3. QED
    BY <2>1, <2>2 DEF NewestIsLast, BudgetShape, LedgerAdds, Drained
<1>3. QED
  BY <1>1, <1>2

(***************************************************************************)
(* Calls.                                                                  *)
(***************************************************************************)

AtFile == {"deciding", "restoring"}

\* A call moves where it holds no lease: nothing of the file or the drain changes.
LEMMA WalkingKeeps ==
  ASSUME BudgetInv, NEW c \in Calls, NEW p \in Places \ AtFile,
         Place(c, p) \/ UNCHANGED call, call[c] \in AtFile => UNCHANGED call,
         UNCHANGED <<lease, seen, budget, credit, observed, queued, drain, draining, written>>
  PROVE  BudgetInv'
<1>1. BudgetShape'
  BY DEF BudgetInv, BudgetShape, Place
<1>2. DrainAlone' /\ NewestIsLast'
  BY DEF BudgetInv, DrainAlone, NewestIsLast
<1>3. LedgerAdds'
  BY DEF BudgetInv, BudgetShape, LedgerAdds, Drained, Place, AtFile
<1>4. QED
  BY <1>1, <1>2, <1>3 DEF BudgetInv

LEMMA StrollingKeeps ==
  ASSUME BudgetInv, NEW c \in Calls,
         LeaseTimesOut(c) \/ Wake(c) \/ Cancel(c) \/ Desert(c) \/ Send(c)
  PROVE  BudgetInv'
<1>1. UNCHANGED <<lease, seen, budget, credit, observed, queued, drain, draining, written>>
  BY DEF LeaseTimesOut, Wake, Cancel, Desert, Send, fileVars, drainVars
<1>2. /\ \/ \E p \in {"done", "wanting", "sent"} : Place(c, p)
         \/ UNCHANGED call
      /\ call[c] \in AtFile => UNCHANGED call
  BY DEF LeaseTimesOut, Wake, Cancel, Desert, Send, AtFile
<1>3. {"done", "wanting", "sent"} \subseteq Places \ AtFile
  BY DEF Places, AtFile
<1>4. QED
  BY <1>1, <1>2, <1>3, WalkingKeeps

LEMMA AcquireKeeps ==
  ASSUME BudgetInv, NEW c \in Calls, Acquire(c)
  PROVE  BudgetInv'
<1>1. PICK p \in AtFile : Place(c, p)
  BY DEF Acquire, AtFile
<1>2. /\ Free /\ lease' = {c} /\ seen' = budget
      /\ UNCHANGED <<budget, credit, observed, queued, drain, draining, written>>
  BY DEF Acquire, fileVars, drainVars
<1>3. BudgetShape'
  BY <1>1, <1>2 DEF BudgetInv, BudgetShape, Place, Places, AtFile
<1>4. DrainAlone' /\ NewestIsLast'
  BY <1>2 DEF BudgetInv, DrainAlone, NewestIsLast, Free
<1>5. \A d \in Calls \ {c} : call[d] \notin AtFile /\ call'[d] = call[d]
  <2>1. lease = {}
    BY <1>2 DEF Free
  <2>2. QED
    BY <1>1, <2>1 DEF BudgetInv, BudgetShape, LedgerAdds, Place, AtFile
<1>6. LedgerAdds'
  BY <1>1, <1>2, <1>5 DEF BudgetInv, BudgetShape, LedgerAdds, Drained, Place, AtFile
<1>7. QED
  BY <1>3, <1>4, <1>6 DEF BudgetInv

\* The holder of the lease leaves the file, having written it or not.
LEMMA LeavingKeeps ==
  ASSUME BudgetInv, NEW c \in Calls, call[c] \in AtFile, NEW p \in Places \ AtFile, Place(c, p),
         lease' = {}, seen' = NoBudget, budget' \in Readings,
         budget' # NoBudget => budget'.left = credit',
         UNCHANGED <<observed, queued, drain, draining, written>>
  PROVE  BudgetInv'
<1>1. BudgetShape'
  BY DEF BudgetInv, BudgetShape, Place, Readings, NoBudget
<1>2. DrainAlone' /\ NewestIsLast'
  BY DEF BudgetInv, DrainAlone, NewestIsLast
<1>3. \A d \in Calls : call'[d] \notin AtFile
  <2>1. lease = {c}
    BY DEF BudgetInv, LedgerAdds, AtFile
  <2>2. \A d \in Calls \ {c} : call[d] \notin AtFile
    BY <2>1 DEF BudgetInv, LedgerAdds, AtFile
  <2>3. QED
    BY <2>2 DEF BudgetInv, BudgetShape, Place
<1>4. LedgerAdds'
  BY <1>3 DEF BudgetInv, LedgerAdds, Drained, AtFile
<1>5. QED
  BY <1>1, <1>2, <1>4 DEF BudgetInv

\* What the holder read is the file, and the number in it the counter.
LEMMA HolderReads ==
  ASSUME BudgetInv, NEW c \in Calls, call[c] \in AtFile
  PROVE  /\ seen = budget /\ seen \in Readings
         /\ seen # NoBudget => seen.left = credit /\ credit \in Nat
BY DEF BudgetInv, BudgetShape, LedgerAdds, AtFile, Readings

LEMMA AdmittedPlaces ==
  ASSUME NEW c, Admitted(c)
  PROVE  \E p \in Places \ AtFile : Place(c, p)
BY DEF Admitted, Places, AtFile

LEMMA DecidingKeeps ==
  ASSUME BudgetInv, NEW c \in Calls,
         Unreserved(c) \/ Refresh(c) \/ Reserve(c) \/ Exhausted(c) \/ StateFileFails(c) \/ GiveBack(c)
  PROVE  BudgetInv'
<1>1. /\ call[c] \in AtFile /\ lease' = {} /\ seen' = NoBudget
      /\ UNCHANGED <<observed, queued, drain, draining, written>>
  BY DEF Unreserved, Refresh, Reserve, Exhausted, StateFileFails, GiveBack, WriteBudget, AtFile,
         drainVars
<1>2. \E p \in Places \ AtFile : Place(c, p)
  <2>1. "sleeping" \in Places \ AtFile /\ "done" \in Places \ AtFile
    BY DEF Places, AtFile
  <2>2. QED
    BY <2>1, AdmittedPlaces
       DEF Unreserved, Refresh, Reserve, Exhausted, StateFileFails, GiveBack
<1>3. /\ seen = budget /\ seen \in Readings
      /\ seen # NoBudget => seen.left = credit /\ credit \in Nat
  BY <1>1, HolderReads
<1>4. budget' \in Readings /\ (budget' # NoBudget => budget'.left = credit')
  <2>1. CASE Unreserved(c)
    BY <2>1 DEF Unreserved, WriteBudget, Readings, NoBudget
  <2>2. CASE Refresh(c)
    BY <1>3, <2>2, BudgetAssumption DEF Refresh, WriteBudget, Readings, Minus
  <2>3. CASE Reserve(c)
    <3>1. seen # NoBudget
      BY <2>3 DEF Reserve, NoBudget
    <3>2. QED
      BY <1>3, <2>3, <3>1 DEF Reserve, WriteBudget, Readings
  <2>4. CASE Exhausted(c) \/ StateFileFails(c)
    BY <1>3, <2>4 DEF Exhausted, StateFileFails, fileVars
  <2>5. CASE GiveBack(c) /\ seen = NoBudget
    BY <2>5 DEF GiveBack, WriteBudget, Readings, NoBudget
  <2>6. CASE GiveBack(c) /\ seen # NoBudget
    BY <1>3, <2>6, BudgetAssumption DEF GiveBack, WriteBudget, Readings, Capped
  <2>7. QED
    BY <2>1, <2>2, <2>3, <2>4, <2>5, <2>6
<1>5. QED
  BY <1>1, <1>2, <1>4, LeavingKeeps

LEMMA ObservingKeeps ==
  ASSUME BudgetInv, NEW c \in Calls, Aborted(c) \/ Respond(c)
  PROVE  BudgetInv'
<1>1. /\ \/ \E p \in {"returning", "done"} : Place(c, p)
         \/ UNCHANGED call
      /\ call[c] \notin AtFile
      /\ UNCHANGED <<lease, seen, budget, credit>>
  BY DEF Aborted, Respond, AtFile, fileVars
<1>2. UNCHANGED drainVars \/ \E h \in Headers : Observe(h)
  BY DEF Aborted, Respond
<1>3. CASE UNCHANGED drainVars
  BY <1>1, <1>3, WalkingKeeps DEF drainVars, Places, AtFile
<1>4. ASSUME NEW h \in Headers, Observe(h) PROVE BudgetInv'
  <2>1. /\ NewestIsLast'
        /\ queued' \in [budget : Readings, number : Nat]
        /\ draining' \in [budget : Readings, number : Nat]
        /\ observed' \in Nat
        /\ drain' = "writing" => drain = "writing"
        /\ drain' = "none" => UNCHANGED <<drain, queued, written, observed>>
    BY <1>4, ObserveKeeps DEF BudgetInv
  <2>2. BudgetShape'
    BY <1>1, <2>1 DEF BudgetInv, BudgetShape, Place, Places
  <2>3. DrainAlone'
    BY <1>1, <2>1 DEF BudgetInv, DrainAlone
  <2>4. LedgerAdds'
    BY <1>1, <2>1 DEF BudgetInv, BudgetShape, LedgerAdds, Drained, Place, AtFile
  <2>5. QED
    BY <2>1, <2>2, <2>3, <2>4 DEF BudgetInv
<1>5. QED
  BY <1>2, <1>3, <1>4

LEMMA OtherRespondsKeeps ==
  ASSUME BudgetInv, NEW c \in Calls, OtherResponds(c)
  PROVE  BudgetInv'
<1>1. /\ Place(c, "done") /\ call[c] \notin AtFile /\ "done" \in Places \ AtFile
      /\ UNCHANGED <<lease, seen, observed, queued, drain, draining, written>>
  BY DEF OtherResponds, AtFile, Places, drainVars
<1>2. PICK h \in Headers : IF h = NoBudget THEN UNCHANGED fileVars
                           ELSE Free /\ budget' = h /\ credit' = h.left
  BY DEF OtherResponds
<1>3. CASE h = NoBudget
  BY <1>1, <1>2, <1>3, WalkingKeeps DEF fileVars
<1>4. CASE h # NoBudget
  <2>1. lease = {} /\ budget' = h /\ credit' = h.left /\ h \in Readings
    BY <1>2, <1>4, HeadersAreReadings DEF Free
  <2>2. BudgetShape' /\ \A d \in Calls : call'[d] \notin AtFile
    BY <1>1, <2>1 DEF BudgetInv, BudgetShape, LedgerAdds, AtFile, Place
  <2>3. DrainAlone' /\ NewestIsLast'
    BY <1>1 DEF BudgetInv, DrainAlone, NewestIsLast
  <2>4. LedgerAdds'
    BY <1>1, <2>1, <2>2 DEF BudgetInv, LedgerAdds, Drained, AtFile
  <2>5. QED
    BY <2>2, <2>3, <2>4 DEF BudgetInv
<1>5. QED
  BY <1>3, <1>4

(***************************************************************************)
(* The drain and the clock.                                                *)
(***************************************************************************)

\* The loop takes the snapshot that waits, which is the newest, or ends with it written.
LEMMA GoingOnKeeps ==
  ASSUME BudgetInv, DrainGoesOn, drain # "none"
  PROVE  /\ NewestIsLast' /\ (Drained' => queued' = NoSnapshot /\ written' = observed')
         /\ queued' \in [budget : Readings, number : Nat]
         /\ draining' \in [budget : Readings, number : Nat]
         /\ observed' = observed /\ drain' # "writing"
<1>1. NoSnapshot \in [budget : Readings, number : Nat]
  BY DEF NoSnapshot, NoBudget, Readings
<1>2. QED
  BY <1>1 DEF BudgetInv, BudgetShape, DrainGoesOn, NewestIsLast, Drained

LEMMA LaterReadings == \A s \in Readings : [s EXCEPT !.window = Later(s.window)] \in Readings
BY DEF Readings, Later

LEMMA DrainKeeps ==
  ASSUME BudgetInv, DrainStep
  PROVE  BudgetInv'
<1>1. CASE DrainAcquires
  BY <1>1 DEF DrainAcquires, BudgetInv, BudgetShape, DrainAlone, NewestIsLast, LedgerAdds, Drained,
              Free, fileVars
<1>2. CASE DrainWrites
  <2>1. /\ drain = "writing" /\ lease = {} /\ lease' = {} /\ seen' = NoBudget
        /\ call' = call /\ DrainGoesOn
        /\ credit' = draining.budget.left
    BY <1>2 DEF DrainWrites, WriteBudget, BudgetInv, DrainAlone
  <2>2. budget' \in Readings /\ budget'.left = credit'
    <3>1. draining.budget \in Readings
      BY DEF BudgetInv, BudgetShape
    <3>2. PICK w \in {draining.budget.window, Later(draining.budget.window)} :
             budget' = [draining.budget EXCEPT !.window = w]
      BY <1>2 DEF DrainWrites, WriteBudget
    <3>3. w \in {"open", "over", "fresh", "stale", "unknown"}
      BY <3>1, <3>2 DEF Readings, Later
    <3>4. QED
      BY <2>1, <3>1, <3>2, <3>3 DEF Readings
  <2>3. /\ NewestIsLast' /\ (Drained' => queued' = NoSnapshot /\ written' = observed')
        /\ queued' \in [budget : Readings, number : Nat]
        /\ draining' \in [budget : Readings, number : Nat]
        /\ observed' = observed /\ drain' # "writing"
    BY <2>1, GoingOnKeeps
  <2>4. BudgetShape' /\ DrainAlone'
    BY <2>1, <2>2, <2>3 DEF BudgetInv, BudgetShape, DrainAlone, NoBudget, Readings
  <2>5. \A c \in Calls : call'[c] \notin AtFile
    BY <2>1 DEF BudgetInv, LedgerAdds, AtFile
  <2>6. LedgerAdds'
    BY <2>2, <2>3, <2>5 DEF LedgerAdds, AtFile
  <2>7. QED
    BY <2>3, <2>4, <2>6 DEF BudgetInv
<1>3. CASE DrainFails
  <2>1. /\ drain # "none" /\ DrainGoesOn
        /\ UNCHANGED <<call, lease, seen, budget, credit>>
    BY <1>3 DEF DrainFails, fileVars
  <2>2. /\ NewestIsLast' /\ (Drained' => queued' = NoSnapshot /\ written' = observed')
        /\ queued' \in [budget : Readings, number : Nat]
        /\ draining' \in [budget : Readings, number : Nat]
        /\ observed' = observed /\ drain' # "writing"
    BY <2>1, GoingOnKeeps
  <2>3. BudgetShape' /\ DrainAlone'
    BY <2>1, <2>2 DEF BudgetInv, BudgetShape, DrainAlone
  <2>4. LedgerAdds'
    BY <2>1, <2>2 DEF BudgetInv, LedgerAdds
  <2>5. QED
    BY <2>2, <2>3, <2>4 DEF BudgetInv
<1>4. QED
  BY <1>1, <1>2, <1>3 DEF DrainStep

LEMMA TimePassesKeeps ==
  ASSUME BudgetInv, TimePasses
  PROVE  BudgetInv'
<1>1. /\ budget.window \in {"open", "fresh"}
      /\ budget' = [budget EXCEPT !.window = Later(budget.window)]
      /\ seen' = IF seen = budget THEN budget' ELSE seen
      /\ UNCHANGED <<call, lease, credit, observed, queued, drain, draining, written>>
  BY DEF TimePasses, drainVars
<1>2. budget \in Readings /\ budget # NoBudget
  BY <1>1 DEF BudgetInv, BudgetShape, NoBudget
<1>3. budget' \in Readings /\ budget'.left = budget.left
  BY <1>1, <1>2 DEF Readings, Later
<1>4. BudgetShape'
  BY <1>1, <1>3 DEF BudgetInv, BudgetShape
<1>5. DrainAlone' /\ NewestIsLast'
  BY <1>1 DEF BudgetInv, DrainAlone, NewestIsLast
<1>6. LedgerAdds'
  BY <1>1, <1>2, <1>3 DEF BudgetInv, LedgerAdds, Drained
<1>7. QED
  BY <1>4, <1>5, <1>6 DEF BudgetInv

LEMMA BudgetInvInductive ==
  ASSUME BudgetInv, [BudgetNext]_budgetVars
  PROVE  BudgetInv'
<1>1. ASSUME NEW c \in Calls, CallStep(c) PROVE BudgetInv'
  BY <1>1, AcquireKeeps, DecidingKeeps, StrollingKeeps, ObservingKeeps, OtherRespondsKeeps
     DEF CallStep
<1>2. ASSUME NEW c \in Calls, CallerStep(c) PROVE BudgetInv'
  BY <1>2, StrollingKeeps, DecidingKeeps DEF CallerStep
<1>3. ASSUME UNCHANGED budgetVars PROVE BudgetInv'
  BY <1>3 DEF budgetVars, BudgetInv, BudgetShape, DrainAlone, NewestIsLast, LedgerAdds, Drained
<1>4. QED
  BY <1>1, <1>2, <1>3, DrainKeeps, TimePassesKeeps DEF BudgetNext

-----------------------------------------------------------------------------
(* AvitoRequest *)

(***************************************************************************)
(* The catalogue: nothing that changes Avito's state is a GET, which is    *)
(* all that doRequest() repeats on its own.                                *)
(***************************************************************************)

Repeatable(t) == Destructive(t.risk) => t.method # "GET"

LEMMA GetsAreReads == \A names : \A t \in Gets(names) : Repeatable(t)
BY DEF Gets, Tool, Repeatable, Destructive

LEMMA OthersAreNoGets ==
  ASSUME NEW names, NEW risk, NEW method, method # "GET"
  PROVE  \A t \in Tool(method, risk, names) : Repeatable(t)
BY DEF Tool, Repeatable

LEMMA PostsAreNoGets ==
  \A names : /\ \A t \in PostReads(names) : Repeatable(t)
             /\ \A t \in Writes(names) : Repeatable(t)
             /\ \A t \in Publishes(names) : Repeatable(t)
             /\ \A t \in Spends(names) : Repeatable(t)
BY DEF PostReads, Writes, Publishes, Spends, Tool, Repeatable

LEMMA PurchasesAreNoGets == \A names : \A t \in Purchases(names) : Repeatable(t)
BY DEF Purchases, Tool, Repeatable

LEMMA TokenRequestsAreNoGets == \A names : \A t \in TokenRequests(names) : Repeatable(t)
BY DEF TokenRequests, Tool, Repeatable

LEMMA LocalsAreNoGets == \A names, risk : \A t \in Local(risk, names) : Repeatable(t)
BY DEF Local, Tool, Repeatable

LEMMA CatalogueRepeatable == \A t \in Tools : Repeatable(t)
<1>1. \A t \in AuthTools \cup AutoloadProfileTools \cup AutoloadReportTools
               \cup AutoloadItemTools \cup CalltrackingTools : Repeatable(t)
  BY GetsAreReads, PostsAreNoGets, TokenRequestsAreNoGets
     DEF AuthTools, AutoloadProfileTools, AutoloadReportTools, AutoloadItemTools,
         CalltrackingTools
<1>2. \A t \in CpaTools \cup CpaCurrentTools \cup CpaAuctionTools \cup CpaTargetTools :
         Repeatable(t)
  BY GetsAreReads, PostsAreNoGets
     DEF CpaTools, CpaCurrentTools, CpaAuctionTools, CpaTargetTools
<1>3. \A t \in AnnouncementTools \cup SandboxAnnouncementTools \cup OrderDeliveryTools
               \cup SortingCenterTools : Repeatable(t)
  BY GetsAreReads, PostsAreNoGets
     DEF AnnouncementTools, SandboxAnnouncementTools, OrderDeliveryTools, SortingCenterTools
<1>4. \A t \in TariffTools \cup SandboxParcelTools \cup ParcelTools \cup HierarchyTools :
         Repeatable(t)
  BY GetsAreReads, PostsAreNoGets
     DEF TariffTools, SandboxParcelTools, ParcelTools, HierarchyTools
<1>5. \A t \in ItemStatsTools \cup ItemPriceTools \cup ItemVasTools \cup StockTools :
         Repeatable(t)
  BY GetsAreReads, PostsAreNoGets, OthersAreNoGets
     DEF ItemStatsTools, ItemPriceTools, ItemVasTools, StockTools
<1>6. \A t \in ChatTools \cup MessageTools \cup MessengerSettingTools \cup UploadTools :
         Repeatable(t)
  BY GetsAreReads, PostsAreNoGets
     DEF ChatTools, MessageTools, MessengerSettingTools, UploadTools
<1>7. \A t \in DiscountTools \cup OrderTools \cup OrderTransitionTools \cup LabelTools :
         Repeatable(t)
  BY GetsAreReads, PostsAreNoGets
     DEF DiscountTools, OrderTools, OrderTransitionTools, LabelTools
<1>8. \A t \in BbipTools \cup PromotionTools \cup ReviewTools : Repeatable(t)
  BY GetsAreReads, PostsAreNoGets, PurchasesAreNoGets, OthersAreNoGets
     DEF BbipTools, PromotionTools, ReviewTools
<1>9. \A t \in TariffInfoTools \cup TrxPromoTools \cup UserTools \cup WebhookTools :
         Repeatable(t)
  BY GetsAreReads, PostsAreNoGets
     DEF TariffInfoTools, TrxPromoTools, UserTools, WebhookTools
<1>10. \A t \in LocalTools : Repeatable(t)
  BY LocalsAreNoGets
     DEF LocalTools, WebhookReadTools, ServerStatusTools, AccountStatusTools, ConfirmationTools
<1>11. QED
  BY <1>1, <1>2, <1>3, <1>4, <1>5, <1>6, <1>7, <1>8, <1>9, <1>10 DEF Tools

LEMMA NothingRepeatedChanges == tool \in Callable => (Mutates => tool.method # "GET")
BY RequestAssumption, CatalogueRepeatable DEF Mutates, Repeatable

(***************************************************************************)
(* The inductive invariant.                                                *)
(***************************************************************************)

\* What a call that is staged has passed, and what one that goes on to a request has.
Passed == Allowed(tool.name, tool.risk, policy) /\ ~DryRun
Licensed == Passed /\ (NeedsConfirmation(tool.risk, policy) => approved)

\* Before the tool's own request is answered or lost, Avito has carried nothing out; what it
\* has carried out was dispatched, and the latch says so ever after.
RequestInv ==
  /\ tool \in Callable /\ applied \in Nat /\ polls \in Nat
  /\ latch \in BOOLEAN /\ approved \in BOOLEAN /\ asked \in {"unset", "yes", "no"}
  /\ step \in RequestSteps
  /\ step # "done" => verdict = "none"
  /\ polls = 0 /\ step \notin {"body", "error", "done"} => applied = 0
  /\ polls = 0 /\ step \in {"wire", "unsent", "body", "error"} => latch
  /\ applied <= 1
  /\ applied > 0 => latch /\ Mutates
  /\ applied > 0 \/ step \notin {"absent", "called", "staged", "done"} => Licensed
  /\ step = "staged" => Passed
  /\ LatchTellsTheTruth

\* A failure never ends in "withdrawn" or "notSent" when the latch is set.
LEMMA FailureSpeaksTruly ==
  ASSUME NEW failure, latch \in BOOLEAN, Fail(failure)
  PROVE  step' = "done" /\ (latch => verdict' \notin {"withdrawn", "notSent"})
BY DEF Fail, End, Conclusion

LEMMA InitImpliesInvariant == RequestInit => RequestInv
<1> SUFFICES ASSUME RequestInit PROVE RequestInv
  OBVIOUS
<1>1. tool \in Callable /\ asked \in {"unset", "yes", "no"} /\ applied = 0 /\ polls = 0 /\ verdict = "none"
  BY DEF RequestInit
<1>2. latch = FALSE /\ approved = FALSE
  BY DEF RequestInit
<1>3. step = "absent" \/ step = "called"
  BY DEF RequestInit
<1>4. ~(applied > 0) /\ applied <= 1
  BY <1>1
<1>5. LatchTellsTheTruth
  BY <1>1 DEF LatchTellsTheTruth
<1>6. step \in RequestSteps /\ latch \in BOOLEAN /\ approved \in BOOLEAN
  BY <1>2, <1>3 DEF RequestSteps
<1>7. QED
  BY <1>1, <1>2, <1>3, <1>4, <1>5, <1>6 DEF RequestInv

(***************************************************************************)
(* The steps.                                                              *)
(***************************************************************************)

SameAsked ==
  /\ Licensed' <=> Licensed
  /\ Mutates' <=> Mutates
  /\ tool' = tool /\ asked' = asked /\ approved' = approved

LEMMA SameCall ==
  ASSUME UNCHANGED askVars
  PROVE  SameAsked
BY DEF SameAsked, askVars, Licensed, Passed, Mutates, DryRun

\* A call that ends with what it was carried out so far.
LEMMA EndKeepsInvariant ==
  ASSUME RequestInv, UNCHANGED askVars, UNCHANGED <<latch, polls, applied>>,
         step' = "done", latch => verdict' \notin {"withdrawn", "notSent"}
  PROVE  RequestInv'
<1>1. SameAsked
  BY SameCall
<1>2. applied' = applied /\ latch' = latch /\ polls' = polls
  OBVIOUS
<1>3. LatchTellsTheTruth'
  BY <1>2 DEF RequestInv, LatchTellsTheTruth
<1>4. QED
  BY <1>1, <1>2, <1>3 DEF RequestInv, SameAsked, RequestSteps

\* A failure that changes nothing but the step and the verdict.
LEMMA FailKeepsInvariant ==
  ASSUME RequestInv, NEW failure, Fail(failure), UNCHANGED askVars, UNCHANGED <<latch, polls, applied>>
  PROVE  RequestInv'
BY FailureSpeaksTruly, EndKeepsInvariant DEF RequestInv

\* Every step of the request that neither ends the call nor touches the latch or the mutation.
LEMMA PassageKeepsInvariant ==
  ASSUME RequestInv, UNCHANGED askVars, UNCHANGED <<latch, polls, applied, verdict>>,
         step \notin {"absent", "called", "staged", "done", "body", "error"},
         step' \in {"slot", "headers", "refreshing", "backoff"}
  PROVE  RequestInv'
<1>1. SameAsked
  BY SameCall
<1>2. QED
  BY <1>1 DEF RequestInv, SameAsked, RequestSteps, LatchTellsTheTruth

LEMMA HandlerKeepsInvariant ==
  ASSUME RequestInv, Answer \/ Begin \/ Approve \/ DropPending \/ Withdraw
  PROVE  RequestInv'
<1>1. CASE Answer
  <2>1. applied = 0 \/ latch
    BY DEF RequestInv
  <2>2. verdict' \notin {"withdrawn", "notSent"} /\ step' = "done"
    BY <1>1 DEF Answer, End
  <2>3. QED
    BY <1>1, <2>2, EndKeepsInvariant DEF Answer
<1>2. CASE Begin
  <2>1. SameAsked
    BY <1>2, SameCall DEF Begin
  <2>2. Licensed' <=> Licensed
    BY <2>1 DEF SameAsked
  <2>3. Passed /\ (step' = "slot" => Licensed) /\ (Passed' <=> Passed)
    BY <1>2 DEF Begin, Licensed, Passed, Registered, askVars, DryRun, Mutates
  <2>4. step' \in {"slot", "staged"} /\ step = "called"
    BY <1>2 DEF Begin
  <2>5. QED
    BY <1>2, <2>1, <2>2, <2>3, <2>4 DEF Begin, RequestInv, SameAsked, RequestSteps, LatchTellsTheTruth
<1>3. CASE Approve
  <2>1. step = "staged" /\ step' = "slot" /\ approved' = TRUE
    BY <1>3 DEF Approve
  <2>2. UNCHANGED <<tool, policy, asked, latch, polls, applied, verdict>>
    BY <1>3 DEF Approve
  <2>3. Mutates' <=> Mutates
    BY <2>2 DEF Mutates
  <2>4. Passed'
    BY <2>1, <2>2 DEF RequestInv, Passed, DryRun, Mutates
  <2>5. Licensed'
    BY <2>1, <2>4 DEF Licensed
  <2>6. QED
    BY <2>1, <2>2, <2>3, <2>5 DEF RequestInv, RequestSteps, LatchTellsTheTruth
<1>4. CASE DropPending
  <2>1. verdict' \notin {"withdrawn", "notSent"} /\ step' = "done"
    BY <1>4 DEF DropPending, End
  <2>2. QED
    BY <1>4, <2>1, EndKeepsInvariant DEF DropPending
<1>5. CASE Withdraw
  <2>1. (Licensed' <=> Licensed) /\ (Mutates' <=> Mutates) /\ (Passed' <=> Passed)
    BY <1>5 DEF Withdraw, Licensed, Passed, Mutates, DryRun
  <2>2. QED
    BY <1>5, <2>1 DEF Withdraw, RequestInv, RequestSteps, LatchTellsTheTruth
<1>6. QED
  BY <1>1, <1>2, <1>3, <1>4, <1>5

LEMMA RequestKeepsInvariant ==
  ASSUME RequestInv,
         SlotGranted \/ SlotRefused \/ HeadersFail \/ Dispatch \/ FetchRejects \/ Lost
  PROVE  RequestInv'
<1>1. CASE SlotGranted
  BY <1>1, PassageKeepsInvariant DEF SlotGranted
<1>2. CASE SlotRefused
  BY <1>2, FailKeepsInvariant DEF SlotRefused
<1>3. CASE HeadersFail
  BY <1>3, FailKeepsInvariant DEF HeadersFail
<1>4. CASE FetchRejects
  BY <1>4, FailKeepsInvariant DEF FetchRejects
<1>5. CASE Dispatch
  <2>1. SameAsked
    BY <1>5, SameCall DEF Dispatch
  <2>2. step = "headers" /\ step' \in {"unsent", "wire"} /\ polls' = polls
        /\ applied' = applied /\ verdict' = verdict
    BY <1>5 DEF Dispatch
  <2>3. latch' \in BOOLEAN /\ (polls = 0 => latch') /\ (latch => latch')
    BY <1>5 DEF Dispatch
  <2>4. QED
    BY <2>1, <2>2, <2>3 DEF RequestInv, SameAsked, RequestSteps, LatchTellsTheTruth
<1>6. CASE Lost
  <2>1. PICK out \in BOOLEAN : Carried(out)
    BY <1>6 DEF Lost
  <2>2. SameAsked
    BY <1>6, SameCall DEF Lost
  <2>3. step = "wire" /\ step' = "done" /\ latch' = latch /\ polls' = polls
    BY <1>6 DEF Lost, Fail, End
  <2>4. latch => verdict' \notin {"withdrawn", "notSent"}
    BY <1>6, FailureSpeaksTruly DEF Lost, RequestInv
  <2>5. applied' = applied \/ (applied' = applied + 1 /\ polls = 0 /\ Mutates)
    BY <2>1 DEF Carried, RequestInv
  <2>6. polls = 0 => applied = 0 /\ latch
    BY <2>3 DEF RequestInv
  <2>7. QED
    BY <2>2, <2>3, <2>4, <2>5, <2>6 DEF RequestInv, SameAsked, RequestSteps, LatchTellsTheTruth
<1>7. QED
  BY <1>1, <1>2, <1>3, <1>4, <1>5, <1>6

LEMMA ResponseKeepsInvariant ==
  ASSUME RequestInv,
         Unauthorized \/ Refreshed \/ RefreshFails \/ TooMany \/ ServerError \/ SleepEnds
           \/ Response \/ BodyFails \/ ErrorRead \/ Succeed
  PROVE  RequestInv'
<1>1. CASE Unauthorized
  <2>1. SameAsked
    BY <1>1, SameCall DEF Unauthorized
  <2>2. step = "wire" /\ step' = "refreshing" /\ polls' = polls /\ applied' = applied
        /\ verdict' = verdict
    BY <1>1 DEF Unauthorized
  <2>3. latch' \in BOOLEAN /\ (polls > 0 /\ latch => latch')
    BY <1>1 DEF Unauthorized
  <2>4. polls = 0 => applied = 0
    BY <2>2 DEF RequestInv
  <2>5. QED
    BY <2>1, <2>2, <2>3, <2>4 DEF RequestInv, SameAsked, RequestSteps, LatchTellsTheTruth
<1>2. CASE Refreshed
  BY <1>2, PassageKeepsInvariant DEF Refreshed
<1>3. CASE RefreshFails
  BY <1>3, FailKeepsInvariant DEF RefreshFails
<1>4. CASE TooMany
  BY <1>4, PassageKeepsInvariant DEF TooMany
<1>5. CASE ServerError
  <2>1. PICK out \in BOOLEAN : Carried(out)
    BY <1>5 DEF ServerError
  <2>2. ~Mutates
    BY <1>5, NothingRepeatedChanges DEF ServerError, Retryable, RequestInv
  <2>3. applied' = applied
    BY <2>1, <2>2 DEF Carried, RequestInv
  <2>4. QED
    BY <1>5, <2>3, PassageKeepsInvariant DEF ServerError
<1>6. CASE SleepEnds
  <2>1. CASE step' = "headers" /\ UNCHANGED verdict
    BY <1>6, <2>1, PassageKeepsInvariant DEF SleepEnds
  <2>2. CASE Fail("transport")
    BY <1>6, <2>2, FailKeepsInvariant DEF SleepEnds
  <2>3. QED
    BY <1>6, <2>1, <2>2 DEF SleepEnds
<1>7. CASE Response
  <2>1. PICK out \in BOOLEAN : Carried(out)
    BY <1>7 DEF Response
  <2>2. SameAsked
    BY <1>7, SameCall DEF Response
  <2>3. step = "wire" /\ step' \in {"body", "error"} /\ latch' = latch /\ polls' = polls
        /\ verdict' = verdict
    BY <1>7 DEF Response
  <2>4. applied' = applied \/ (applied' = applied + 1 /\ polls = 0 /\ Mutates)
    BY <2>1 DEF Carried, RequestInv
  <2>5. polls = 0 => applied = 0 /\ latch
    BY <2>3 DEF RequestInv
  <2>6. QED
    BY <2>2, <2>3, <2>4, <2>5 DEF RequestInv, SameAsked, RequestSteps, LatchTellsTheTruth
<1>8. CASE BodyFails
  BY <1>8, FailKeepsInvariant DEF BodyFails
<1>9. CASE ErrorRead
  BY <1>9, FailKeepsInvariant DEF ErrorRead
<1>10. CASE Succeed
  <2>1. CASE End("result")
    <3>1. UNCHANGED <<latch, applied>> /\ UNCHANGED askVars
      BY <1>10 DEF Succeed
    <3>2. step' = "done" /\ verdict' = "result"
      BY <2>1 DEF End
    <3>3. polls' = polls
      BY <1>10, <3>2 DEF Succeed
    <3>4. QED
      BY <3>1, <3>2, <3>3, EndKeepsInvariant
  <2>2. CASE ~End("result")
    <3>1. polls' = polls + 1 /\ step' = "slot" /\ verdict' = verdict
      BY <1>10, <2>2 DEF Succeed
    <3>2. step = "body" /\ latch' = latch /\ applied' = applied
      BY <1>10 DEF Succeed
    <3>3. SameAsked
      BY <1>10, SameCall DEF Succeed
    <3>4. polls' \in Nat /\ polls' # 0
      BY <3>1 DEF RequestInv
    <3>5. QED
      BY <3>1, <3>2, <3>3, <3>4 DEF RequestInv, SameAsked, RequestSteps, LatchTellsTheTruth
  <2>3. QED
    BY <2>1, <2>2
<1>11. QED
  BY <1>1, <1>2, <1>3, <1>4, <1>5, <1>6, <1>7, <1>8, <1>9, <1>10

LEMMA StutterKeepsInvariant == RequestInv /\ UNCHANGED requestVars => RequestInv'
BY DEF requestVars, RequestInv, Licensed, Passed, Mutates, DryRun, RequestSteps, LatchTellsTheTruth

LEMMA RequestInvInductive ==
  ASSUME RequestInv, [RequestStep \/ PeopleStep]_requestVars
  PROVE  RequestInv'
BY HandlerKeepsInvariant, RequestKeepsInvariant, ResponseKeepsInvariant, StutterKeepsInvariant
   DEF RequestStep, PeopleStep

LEMMA InvariantHolds == RequestSpec => []RequestInv
BY InitImpliesInvariant, RequestInvInductive, PTL DEF RequestSpec

LEMMA InvariantSuffices ==
  ASSUME RequestInv
  PROVE  LatchTellsTheTruth /\ NoBlindResend /\ OnlyAsLicensed
<1>1. LatchTellsTheTruth /\ NoBlindResend
  BY DEF RequestInv, NoBlindResend
<1>2. OnlyAsLicensed
  <2>1. SUFFICES ASSUME applied > 0 PROVE OnlyAsLicensed
    BY DEF OnlyAsLicensed
  <2>2. Mutates /\ Licensed
    BY <2>1 DEF RequestInv
  <2>3. tool.risk \in {"write", "money", "public"}
    BY <2>2 DEF Mutates, Destructive
  <2>4. asked # "yes" /\ (policy.dryRunDefault => asked = "no")
    BY <2>1, <2>2 DEF RequestInv, Licensed, Passed, DryRun
  <2>5. QED
    BY <2>2, <2>3, <2>4 DEF OnlyAsLicensed, Licensed, Passed, Allowed
<1>3. QED
  BY <1>1, <1>2

(***************************************************************************)
(* The theorems.                                                           *)
(***************************************************************************)

\* A call that says it did nothing has done nothing: whatever failed, whenever it was
\* withdrawn, and however often its token was refused.
THEOREM RequestTellsTheTruth == RequestSpec => []LatchTellsTheTruth
BY InvariantHolds, InvariantSuffices, PTL

\* One call changes Avito's state once at most, for every tool of the catalogue.
THEOREM RequestChangesOnce == RequestSpec => []NoBlindResend
BY InvariantHolds, InvariantSuffices, PTL

\* Whatever was changed was licensed by the policy, the dryRun argument and an approval.
THEOREM RequestIsLicensed == RequestSpec => []OnlyAsLicensed
BY InvariantHolds, InvariantSuffices, PTL

-----------------------------------------------------------------------------
(* Sequences *)

(***************************************************************************)
(* What a recursive definition computes is proved by induction on the      *)
(* positions it has passed.  The induction is that of a set of naturals:   *)
(* a set is a value the provers can instantiate, a predicate is not.       *)
(***************************************************************************)

\* The order the library proves well founded, which gives a least element to a set of naturals.
NatOrder == OpToRel(<, Nat)

LEMMA LessThan == ASSUME NEW x \in Nat, NEW y \in Nat, x < y PROVE <<x, y>> \in NatOrder
<1>1. <<x, y>> \in Nat \X Nat /\ <<x, y>>[1] = x /\ <<x, y>>[2] = y
  OBVIOUS
<1>2. QED
  BY <1>1 DEF OpToRel, NatOrder

LEMMA Least == ASSUME NEW T, T \subseteq Nat, T # {} PROVE \E x \in T : \A y \in T : x <= y
<1>1. PICK x \in T : \A y \in T : ~ (<<y, x>> \in NatOrder)
  BY NatLessThanWellFounded, WFMin DEF NatOrder
<1>2. \A y \in T : ~(y < x)
  BY <1>1, LessThan
<1>3. QED
  BY <1>2

\* Induction over a set of naturals, not over a predicate: by its least exception.
LEMMA Induct ==
  ASSUME NEW T, 0 \in T, \A n \in Nat : n \in T => n + 1 \in T
  PROVE  Nat \subseteq T
<1>1. SUFFICES ASSUME Nat \ T # {} PROVE FALSE
  OBVIOUS
<1>2. PICK x \in Nat \ T : \A y \in Nat \ T : x <= y
  BY <1>1, Least
<1>3. x # 0 /\ x - 1 \in Nat /\ ~(x <= x - 1)
  BY <1>2
<1>4. x - 1 \in T
  BY <1>2, <1>3
<1>5. (x - 1) + 1 \in T
  BY <1>3, <1>4
<1>6. (x - 1) + 1 = x
  BY <1>2
<1>7. QED
  BY <1>2, <1>5, <1>6

\* The same up to a bound.
LEMMA Climb ==
  ASSUME NEW n \in Nat, NEW T, 0 \in T, \A i \in 1..n : i - 1 \in T => i \in T
  PROVE  0..n \subseteq T
<1> DEFINE U == {k \in Nat : k <= n => k \in T}
<1>1. 0 \in U
  OBVIOUS
<1>2. \A k \in Nat : k \in U => k + 1 \in U
  OBVIOUS
<1>3. Nat \subseteq U
  <2> HIDE DEF U
  <2>1. QED
    BY <1>1, <1>2, Induct
<1>4. QED
  BY <1>3

\* Each value of f is made from the one before it.
Follows(f, n, b, g) == f[0] = b /\ \A i \in 1..n : f[i] = g[i][f[i - 1]]

\* A function defined by recursion over the positions of a sequence exists.
LEMMA Recursion ==
  ASSUME NEW n \in Nat, NEW V, NEW b \in V, NEW g \in [1..n -> [V -> V]]
  PROVE  \E f \in [0..n -> V] : Follows(f, n, b, g)
<1> DEFINE Rec(f, k) == f[0] = b /\ \A i \in 1..k : f[i] = g[i][f[i - 1]]
           Good == {k \in Nat : k <= n => \E f \in [0..k -> V] : Rec(f, k)}
<1>1. 0 \in Good
  <2>1. [i \in 0..0 |-> b] \in [0..0 -> V] 
    OBVIOUS
  <2>2. Rec([i \in 0..0 |-> b], 0)
    OBVIOUS
  <2>3. QED
    BY <2>1, <2>2
<1>2. ASSUME NEW k \in Nat, k \in Good PROVE k + 1 \in Good
  <2>1. SUFFICES ASSUME k + 1 <= n PROVE \E f \in [0..k+1 -> V] : Rec(f, k + 1)
    OBVIOUS
  <2>2. PICK f \in [0..k -> V] : Rec(f, k)
    BY <1>2, <2>1
  <2> DEFINE h == [i \in 0..k+1 |-> IF i = k + 1 THEN g[i][f[k]] ELSE f[i]]
  <2>3. h \in [0..k+1 -> V]
    <3>1. g[k + 1] \in [V -> V] /\ f[k] \in V
      BY <2>1
    <3>2. \A i \in 0..k+1 : i # k + 1 => i \in 0..k
      OBVIOUS
    <3>3. QED
      BY <3>1, <3>2
  <2>4. ASSUME NEW i \in 1..k+1 PROVE h[i] = g[i][h[i - 1]]
    <3>1. CASE i = k + 1
      BY <3>1
    <3>2. CASE i # k + 1
      <4>1. i \in 1..k /\ h[i] = f[i]
        BY <3>2
      <4>2. i - 1 \in 0..k+1 /\ h[i - 1] = f[i - 1]
        BY <3>2
      <4>3. f[i] = g[i][f[i - 1]]
        BY <2>2, <4>1
      <4>4. QED
        BY <4>1, <4>2, <4>3
    <3>3. QED
      BY <3>1, <3>2
  <2>5. Rec(h, k + 1)
    <3>1. h[0] = b
      BY <2>2
    <3> HIDE DEF h
    <3>2. QED
      BY <2>4, <3>1
  <2> HIDE DEF h
  <2>6. QED
    BY <2>3, <2>5
<1>3. Nat \subseteq Good
  <2> HIDE DEF Good
  <2>1. QED
    BY <1>1, <1>2, Induct
<1>4. PICK f \in [0..n -> V] : Rec(f, n)
  BY <1>3
<1>5. QED
  BY <1>4 DEF Follows

LEMMA Appended ==
  ASSUME NEW S, NEW s \in Seq(S), NEW e \in S
  PROVE  /\ Append(s, e) \in Seq(S) /\ Append(s, e) # <<>>
         /\ Append(s, e)[Len(Append(s, e))] = e
<1>1. Append(s, e) \in Seq(S) /\ Len(Append(s, e)) = Len(s) + 1 /\ Append(s, e)[Len(s) + 1] = e
  OBVIOUS
<1>2. Len(s) + 1 # 0 /\ Len(<<>>) = 0
  OBVIOUS
<1>3. QED
  BY <1>1, <1>2

LEMMA ConcatAppend ==
  ASSUME NEW S, NEW r \in Seq(S), NEW s \in Seq(S), NEW e \in S
  PROVE  r \o Append(s, e) = Append(r \o s, e)
OBVIOUS

LEMMA SameSeq ==
  ASSUME NEW S, NEW s \in Seq(S), NEW t \in Seq(S), Len(s) = Len(t),
         \A i \in 1..Len(s) : s[i] = t[i]
  PROVE  s = t
OBVIOUS

\* Induction over the sequences of a set, from the end.
LEMMA Growing ==
  ASSUME NEW S, NEW G, <<>> \in G, \A s \in Seq(S), e \in S : s \in G => Append(s, e) \in G
  PROVE  Seq(S) \subseteq G
<1> DEFINE N == {n \in Nat : \A s \in Seq(S) : Len(s) = n => s \in G}
<1>1. 0 \in N
  <2>1. \A s \in Seq(S) : Len(s) = 0 => s = <<>>
    OBVIOUS
  <2>2. QED
    BY <2>1
<1>2. ASSUME NEW n \in Nat, n \in N PROVE n + 1 \in N
  <2>1. SUFFICES ASSUME NEW s \in Seq(S), Len(s) = n + 1 PROVE s \in G
    OBVIOUS
  <2> DEFINE t == SubSeq(s, 1, n)
  <2>2. t \in Seq(S) /\ Len(t) = n /\ s[n + 1] \in S /\ s = Append(t, s[n + 1])
    BY <2>1
  <2> HIDE DEF t
  <2>3. t \in G
    BY <1>2, <2>2
  <2>4. QED
    BY <2>2, <2>3
<1>3. Nat \subseteq N
  <2> HIDE DEF N
  <2>1. QED
    BY <1>1, <1>2, Induct
<1>4. \A s \in Seq(S) : Len(s) \in Nat
  OBVIOUS
<1>5. QED
  BY <1>3, <1>4

(***************************************************************************)
(* Among.                                                                  *)
(***************************************************************************)

\* The recursion of Among.
AmongRec(s, T, f) ==
  f = [i \in 0..Len(s) |-> IF i = 0 THEN <<>>
                           ELSE IF s[i] \in T THEN Append(f[i - 1], s[i])
                           ELSE f[i - 1]]

\* Some function satisfies it, ...
LEMMA AmongExists ==
  ASSUME NEW S, NEW T, NEW s \in Seq(S)
  PROVE  \E f : AmongRec(s, T, f)
<1> DEFINE n == Len(s)
           V == Seq(S)
           g == [i \in 1..n |-> [v \in Seq(S) |-> IF s[i] \in T THEN Append(v, s[i]) ELSE v]]
<1>1. n \in Nat /\ <<>> \in V
  OBVIOUS
<1>2. g \in [1..n -> [V -> V]]
  OBVIOUS
<1>3. PICK h \in [0..n -> V] : Follows(h, n, <<>>, g)
  <2> HIDE DEF g, n, V
  <2>1. QED
    BY <1>1, <1>2, Recursion
<1>4. \A i \in 1..n : h[i] = IF s[i] \in T THEN Append(h[i - 1], s[i]) ELSE h[i - 1]
  <2>1. \A i \in 1..n : h[i - 1] \in Seq(S)
    OBVIOUS
  <2>2. QED
    BY <1>3, <2>1 DEF Follows
<1>5. h = [i \in 0..n |-> h[i]]
  OBVIOUS
<1>6. AmongRec(s, T, h)
  <2> DEFINE e(i) == IF i = 0 THEN <<>>
                     ELSE IF s[i] \in T THEN Append(h[i - 1], s[i])
                     ELSE h[i - 1]
  <2>1. \A i \in 0..n : h[i] = e(i)
    <3>1. h[0] = e(0)
      BY <1>3 DEF Follows
    <3>2. \A i \in 1..n : h[i] = e(i)
      BY <1>4
    <3> HIDE DEF e
    <3>3. QED
      BY <1>1, <3>1, <3>2
  <2> HIDE DEF e
  <2>2. h = [i \in 0..n |-> e(i)]
    BY <1>5, <2>1
  <2>3. QED
    BY <2>2 DEF AmongRec, e
<1>7. QED
  BY <1>6

\* The same, step by step.
Keeps(f, s, T, S) ==
  /\ f \in [0..Len(s) -> Seq(S)]
  /\ f[0] = <<>>
  /\ \A i \in 1..Len(s) : f[i] = IF s[i] \in T THEN Append(f[i - 1], s[i]) ELSE f[i - 1]

\* ... any that does keeps of s what T has, and ...
LEMMA AmongTyped ==
  ASSUME NEW S, NEW T, NEW s \in Seq(S), NEW f, AmongRec(s, T, f)
  PROVE  Keeps(f, s, T, S)
<1> DEFINE Typed == {i \in 0..Len(s) : f[i] \in Seq(S)}
<1>1. Len(s) \in Nat /\ <<>> \in Seq(S) /\ \A i \in 1..Len(s) : s[i] \in S
  OBVIOUS
<1>2. \A i \in 0..Len(s) : f[i] = IF i = 0 THEN <<>>
                                  ELSE IF s[i] \in T THEN Append(f[i - 1], s[i])
                                  ELSE f[i - 1]
  BY DEF AmongRec
<1>3. f[0] = <<>> /\ \A i \in 1..Len(s) :
        f[i] = IF s[i] \in T THEN Append(f[i - 1], s[i]) ELSE f[i - 1]
  BY <1>1, <1>2
<1>4. 0 \in Typed
  <2>1. f[0] \in Seq(S)
    BY <1>1, <1>3, Zenon
  <2>2. QED
    BY <1>1, <2>1
<1>5. ASSUME NEW i \in 1..Len(s), i - 1 \in Typed PROVE i \in Typed
  <2>1. f[i - 1] \in Seq(S) /\ s[i] \in S
    BY <1>1, <1>5
  <2>2. Append(f[i - 1], s[i]) \in Seq(S)
    BY <2>1
  <2>3. f[i] \in Seq(S)
    BY <1>3, <2>1, <2>2
  <2>4. QED
    BY <2>3
<1>6. 0..Len(s) \subseteq Typed
  <2> HIDE DEF Typed
  <2>1. QED
    BY <1>1, <1>4, <1>5, Climb
<1>7. f = [i \in 0..Len(s) |-> f[i]]
  BY DEF AmongRec
<1>8. QED
  BY <1>3, <1>6, <1>7 DEF Keeps

\* ... Among is where it ends.
LEMMA AmongIs ==
  ASSUME NEW S, NEW T, NEW s \in Seq(S)
  PROVE  \E f : Keeps(f, s, T, S) /\ Among(s, T) = f[Len(s)]
<1> DEFINE f == CHOOSE h : AmongRec(s, T, h)
<1>1. AmongRec(s, T, f)
  BY AmongExists
<1>2. Among(s, T) = f[Len(s)]
  BY DEF Among, AmongRec
<1> HIDE DEF f
<1>3. Keeps(f, s, T, S)
  BY <1>1, AmongTyped
<1>4. QED
  BY <1>2, <1>3

LEMMA AmongNone == ASSUME NEW T PROVE Among(<<>>, T) = <<>>
<1>1. <<>> \in Seq({}) /\ Len(<<>>) = 0
  OBVIOUS
<1>2. PICK f : Keeps(f, <<>>, T, {}) /\ Among(<<>>, T) = f[Len(<<>>)]
  BY <1>1, AmongIs
<1>3. Among(<<>>, T) = f[Len(<<>>)] /\ f[0] = <<>>
  BY <1>2 DEF Keeps
<1>4. QED
  BY <1>1, <1>3, Zenon

LEMMA AmongTypes ==
  ASSUME NEW S, NEW T, NEW s \in Seq(S)
  PROVE  Among(s, T) \in Seq(S)
<1>1. Len(s) \in 0..Len(s)
  OBVIOUS
<1>2. PICK f : Keeps(f, s, T, S) /\ Among(s, T) = f[Len(s)]
  BY AmongIs
<1>3. QED
  BY <1>1, <1>2 DEF Keeps

LEMMA AmongAppend ==
  ASSUME NEW S, NEW T, NEW s \in Seq(S), NEW e \in S
  PROVE  Among(Append(s, e), T) = IF e \in T THEN Append(Among(s, T), e) ELSE Among(s, T)
<1> DEFINE n == Len(s)
           t == Append(s, e)
<1>1. /\ n \in Nat /\ t \in Seq(S) /\ Len(t) = n + 1 /\ t[n + 1] = e
      /\ \A i \in 1..n : t[i] = s[i]
  OBVIOUS
<1> HIDE DEF t
<1>2. PICK f : Keeps(f, s, T, S) /\ Among(s, T) = f[Len(s)]
  BY AmongIs
<1>3. PICK h : Keeps(h, t, T, S) /\ Among(t, T) = h[Len(t)]
  BY <1>1, AmongIs
<1> HIDE DEF n
<1>4. h[n] = f[n]
  <2> DEFINE Same == {i \in 0..n : h[i] = f[i]}
  <2>1. 0 \in Same
    <3>1. h[0] = f[0]
      BY <1>2, <1>3, Zenon DEF Keeps
    <3>2. QED
      BY <1>1, <3>1
  <2>2. ASSUME NEW i \in 1..n, i - 1 \in Same PROVE i \in Same
    <3>1. h[i - 1] = f[i - 1] /\ t[i] = s[i] /\ i \in 1..Len(t) /\ i \in 0..n
      BY <1>1, <2>2
    <3>2. h[i] = IF s[i] \in T THEN Append(f[i - 1], s[i]) ELSE f[i - 1]
      BY <1>3, <3>1 DEF Keeps
    <3>3. h[i] = f[i]
      BY <1>2, <3>2 DEF Keeps, n
    <3>4. QED
      BY <3>1, <3>3
  <2> HIDE DEF Same
  <2>3. 0..n \subseteq Same
    BY <1>1, <2>1, <2>2, Climb
  <2>4. n \in Same
    BY <1>1, <2>3
  <2>5. QED
    BY <2>4 DEF Same
<1>5. h[n + 1] = IF e \in T THEN Append(h[n], e) ELSE h[n]
  <2>1. n + 1 \in 1..Len(t) /\ (n + 1) - 1 = n
    BY <1>1
  <2>2. QED
    BY <1>1, <1>3, <2>1 DEF Keeps
<1>6. QED
  BY <1>1, <1>2, <1>3, <1>4, <1>5 DEF t, n, Keeps

\* What is kept depends on the elements of s alone.
LEMMA AmongSame ==
  ASSUME NEW S, NEW T, NEW U, NEW s \in Seq(S), \A i \in 1..Len(s) : s[i] \in T <=> s[i] \in U
  PROVE  Among(s, T) = Among(s, U)
<1> DEFINE n == Len(s)
<1>1. n \in Nat
  OBVIOUS
<1>2. PICK f : Keeps(f, s, T, S) /\ Among(s, T) = f[Len(s)]
  BY AmongIs
<1>3. PICK h : Keeps(h, s, U, S) /\ Among(s, U) = h[Len(s)]
  BY AmongIs
<1> DEFINE Same == {i \in 0..n : h[i] = f[i]}
<1>4. 0 \in Same
  <2>1. h[0] = f[0]
    BY <1>2, <1>3, Zenon DEF Keeps
  <2>2. QED
    BY <1>1, <2>1
<1>5. ASSUME NEW i \in 1..n, i - 1 \in Same PROVE i \in Same
  <2>1. h[i - 1] = f[i - 1] /\ i \in 0..n /\ (s[i] \in T <=> s[i] \in U)
    BY <1>1, <1>5
  <2>2. h[i] = f[i]
    BY <1>2, <1>3, <2>1 DEF Keeps
  <2>3. QED
    BY <2>1, <2>2
<1> HIDE DEF Same
<1>6. n \in Same
  <2>1. 0..n \subseteq Same
    BY <1>1, <1>4, <1>5, Climb
  <2>2. QED
    BY <1>1, <2>1
<1>7. QED
  BY <1>2, <1>3, <1>6 DEF Same, Keeps

LEMMA AmongConcat ==
  ASSUME NEW S, NEW T, NEW s \in Seq(S), NEW t \in Seq(S)
  PROVE  Among(s \o t, T) = Among(s, T) \o Among(t, T)
<1> DEFINE G == {u \in Seq(S) : Among(s \o u, T) = Among(s, T) \o Among(u, T)}
<1>1. <<>> \in G
  <2>1. s \o <<>> = s /\ Among(s, T) \o <<>> = Among(s, T) /\ <<>> \in Seq(S)
    BY AmongTypes
  <2>2. QED
    BY <2>1, AmongNone
<1>2. ASSUME NEW u \in Seq(S), NEW e \in S, u \in G PROVE Append(u, e) \in G
  <2>1. s \o Append(u, e) = Append(s \o u, e) /\ s \o u \in Seq(S) /\ Append(u, e) \in Seq(S)
    OBVIOUS
  <2> DEFINE a == Among(s, T)
             b == Among(u, T)
             v == s \o u
  <2>2. a \in Seq(S) /\ b \in Seq(S) /\ Among(s \o u, T) = a \o b
    BY <1>2, AmongTypes
  <2>3. v \in Seq(S)
    BY <2>1
  <2> HIDE DEF a, v
  <2>6. Among(Append(v, e), T) = IF e \in T THEN Append(Among(v, T), e) ELSE Among(v, T)
    BY <2>3, AmongAppend
  <2>7. Among(Append(u, e), T) = IF e \in T THEN Append(b, e) ELSE b
    BY AmongAppend
  <2> HIDE DEF b
  <2>4. a \o Append(b, e) = Append(a \o b, e)
    BY <2>2
  <2>5. Among(s \o Append(u, e), T) = a \o Among(Append(u, e), T)
    BY <2>1, <2>2, <2>4, <2>6, <2>7 DEF v
  <2>8. QED
    BY <2>1, <2>5 DEF a
<1>3. Seq(S) \subseteq G
  <2> HIDE DEF G
  <2>1. QED
    BY <1>1, <1>2, Growing
<1>4. QED
  BY <1>3

\* s is what t ends with.
Ends(s, t) ==
  Len(s) <= Len(t) /\ \A i \in 1..Len(s) : s[i] = t[(Len(t) - Len(s)) + i]

LEMMA EndsAsSuffix ==
  ASSUME NEW S, NEW s \in Seq(S), NEW t \in Seq(S), Ends(s, t)
  PROVE  IsSuffix(s, t)
<1> DEFINE m == Len(s)
           n == Len(t)
           r == Reverse(s)
           q == Reverse(t)
<1>1. m \in Nat /\ n \in Nat /\ m <= n
  BY DEF Ends
<1>2. /\ r \in Seq(S) /\ Len(r) = m /\ \A i \in 1..m : r[i] = s[(m - i) + 1]
      /\ q \in Seq(S) /\ Len(q) = n /\ \A i \in 1..n : q[i] = t[(n - i) + 1]
  BY DEF Reverse
<1>3. ASSUME NEW i \in 1..m PROVE r[i] = q[i]
  <2>1. (m - i) + 1 \in 1..m /\ (n - m) + ((m - i) + 1) = (n - i) + 1 /\ i \in 1..n
    BY <1>1
  <2>2. s[(m - i) + 1] = t[(n - i) + 1]
    BY <2>1 DEF Ends
  <2>3. QED
    BY <1>2, <2>1, <2>2
<1> HIDE DEF m, n, r, q
<1>4. /\ SubSeq(r, 1, m) \in Seq(S) /\ SubSeq(q, 1, m) \in Seq(S)
      /\ Len(SubSeq(r, 1, m)) = m /\ Len(SubSeq(q, 1, m)) = m
      /\ \A i \in 1..m : SubSeq(r, 1, m)[i] = r[i] /\ SubSeq(q, 1, m)[i] = q[i]
  BY <1>1, <1>2
<1>5. SubSeq(r, 1, m) = SubSeq(q, 1, m)
  BY <1>3, <1>4
<1>6. QED
  BY <1>1, <1>2, <1>5 DEF IsSuffix, IsPrefix, r, q, m

LEMMA EndsAppend ==
  ASSUME NEW S, NEW s \in Seq(S), NEW t \in Seq(S), Ends(s, t), NEW e
  PROVE  Ends(Append(s, e), Append(t, e))
BY DEF Ends

LEMMA EndsTail ==
  ASSUME NEW S, NEW s \in Seq(S), NEW t \in Seq(S), Ends(s, t), s # <<>>
  PROVE  Ends(Tail(s), t)
<1>1. /\ Len(s) \in Nat /\ Len(t) \in Nat /\ Len(s) # 0
      /\ Len(Tail(s)) = Len(s) - 1 /\ \A i \in 1..(Len(s) - 1) : Tail(s)[i] = s[i + 1]
  OBVIOUS
<1>2. ASSUME NEW i \in 1..(Len(s) - 1)
      PROVE  Tail(s)[i] = t[(Len(t) - (Len(s) - 1)) + i]
  <2>1. i + 1 \in 1..Len(s) /\ (Len(t) - Len(s)) + (i + 1) = (Len(t) - (Len(s) - 1)) + i
    BY <1>1
  <2>2. s[i + 1] = t[(Len(t) - Len(s)) + (i + 1)]
    BY <2>1 DEF Ends
  <2>3. QED
    BY <1>1, <2>1, <2>2
<1>3. QED
  BY <1>1, <1>2 DEF Ends

-----------------------------------------------------------------------------
(* WebhookStore *)

HookNext ==
  \/ \E d \in Deliveries : HookArrives(d) \/ HookBody(d) \/ HookDeadline(d)
  \/ AppendStep \/ AppendFails

(***************************************************************************)
(* The inductive invariant of the log.                                     *)
(***************************************************************************)

OfLines(s) == [i \in 1..Len(s) |-> s[i].of]
HandledCount == Len(received) - Len(appendQueue)

LogShape ==
  /\ hook \in [Deliveries -> {"absent", "unsent", "arrived", "done"}]
  /\ events \in Seq(Deliveries) /\ received \in Seq(Deliveries)
  /\ appendQueue \in Seq(Deliveries)
  /\ appending \in {"idle", "rotating", "renaming", "opening"}
  /\ log \in Seq(Fragment) /\ backup \in Seq(Fragment)
  /\ healthy \in BOOLEAN /\ lost \subseteq Deliveries

\* A delivery is recorded once, when it is answered.
RecordedOnce ==
  /\ \A i \in 1..Len(received) : hook[received[i]] = "done"
  /\ \A i, j \in 1..Len(received) : received[i] = received[j] => i = j

\* What waits to be written is what was received last, and what was given up is not among it.
QueuedInOrder ==
  /\ Ends(appendQueue, received) /\ Ends(events, received)
  /\ \A d \in lost : \E i \in 1..HandledCount : received[i] = d

\* The lines, and the health bit between two appends.
LinesInOrder ==
  /\ Ends(OfLines(OnDisk), Among(Handled, Deliveries \ lost))
  /\ appending = "renaming" => backup = <<>>
  /\ healthy /\ appending = "idle" /\ Handled # <<>> =>
       log # <<>> /\ log[Len(log)] = [of |-> Handled[Len(Handled)], whole |-> TRUE]

LogInv ==
  /\ LogShape /\ RecordedOnce /\ QueuedInOrder /\ LinesInOrder
  /\ Flushed => appending = "idle"

\* The sequences the invariant relates are sequences of deliveries.
LEMMA LinesTyped ==
  ASSUME LogShape, Len(appendQueue) <= Len(received)
  PROVE  /\ backup \o log \in Seq(Fragment) /\ OnDisk \in Seq(Fragment)
         /\ OfLines(OnDisk) \in Seq(Deliveries)
         /\ HandledCount \in Nat
         /\ Handled \in Seq(Deliveries) /\ Len(Handled) = HandledCount
         /\ \A i \in 1..HandledCount : Handled[i] = received[i]
         /\ Among(Handled, Deliveries \ lost) \in Seq(Deliveries)
<1>1. backup \o log \in Seq(Fragment)
  BY DEF LogShape
<1>2. OnDisk \in Seq(Fragment)
  BY <1>1, AmongTypes DEF OnDisk
<1>3. OfLines(OnDisk) \in Seq(Deliveries)
  <2> DEFINE n == Len(OnDisk)
  <2>1. n \in Nat /\ \A i \in 1..n : OnDisk[i] \in Fragment
    BY <1>2
  <2>2. \A i \in 1..n : OnDisk[i].of \in Deliveries
    BY <2>1 DEF Fragment
  <2> HIDE DEF n
  <2>3. [i \in 1..n |-> OnDisk[i].of] \in Seq(Deliveries)
    BY <2>1, <2>2
  <2>4. QED
    BY <2>3 DEF OfLines, n
<1>4. HandledCount \in 0..Len(received) /\ Len(received) \in Nat
  BY DEF HandledCount, LogShape
<1>5. /\ Handled \in Seq(Deliveries) /\ Len(Handled) = HandledCount
      /\ \A i \in 1..HandledCount : Handled[i] = received[i]
  BY <1>4 DEF Handled, HandledCount, LogShape
<1>6. QED
  BY <1>1, <1>2, <1>3, <1>4, <1>5, AmongTypes

LEMMA OfLinesAppend ==
  ASSUME NEW s \in Seq(Fragment), NEW f \in Fragment
  PROVE  OfLines(Append(s, f)) = Append(OfLines(s), f.of)
<1>1. /\ Len(s) \in Nat /\ Len(Append(s, f)) = Len(s) + 1
      /\ \A i \in 1..Len(s) : Append(s, f)[i] = s[i]
      /\ Append(s, f)[Len(s) + 1] = f
  OBVIOUS
<1> DEFINE n == Len(s)
           a == OfLines(Append(s, f))
           b == Append(OfLines(s), f.of)
<1>2. a = [i \in 1..n + 1 |-> Append(s, f)[i].of]
  BY <1>1 DEF OfLines
<1>3. OfLines(s) = [i \in 1..n |-> s[i].of]
  BY DEF OfLines
<1>4. b = [i \in 1..n + 1 |-> IF i \in 1..n THEN s[i].of ELSE f.of]
  BY <1>1, <1>3
<1>5. \A i \in 1..n + 1 : Append(s, f)[i].of = IF i \in 1..n THEN s[i].of ELSE f.of
  BY <1>1
<1> HIDE DEF n, a, b
<1>6. a = b
  BY <1>2, <1>4, <1>5
<1>7. QED
  BY <1>6 DEF a, b

\* Lines that a rotation drops are the oldest.
LEMMA LaterLines ==
  ASSUME NEW r \in Seq(Fragment), NEW s \in Seq(Fragment), NEW t \in Seq(Deliveries),
         Ends(OfLines(r \o s), t)
  PROVE  Ends(OfLines(s), t)
<1>1. /\ Len(r) \in Nat /\ Len(s) \in Nat /\ Len(t) \in Nat
      /\ Len(r \o s) = Len(r) + Len(s) /\ \A i \in 1..Len(s) : (r \o s)[Len(r) + i] = s[i]
  OBVIOUS
<1>2. /\ Len(OfLines(s)) = Len(s) /\ Len(OfLines(r \o s)) = Len(r) + Len(s)
      /\ \A i \in 1..Len(s) : OfLines(s)[i] = s[i].of
      /\ \A i \in 1..Len(s) : OfLines(r \o s)[Len(r) + i] = s[i].of
  BY <1>1 DEF OfLines
<1>3. ASSUME NEW i \in 1..Len(s)
      PROVE  OfLines(s)[i] = t[(Len(t) - Len(s)) + i]
  <2>1. /\ Len(r) + i \in 1..(Len(r) + Len(s))
        /\ (Len(t) - (Len(r) + Len(s))) + (Len(r) + i) = (Len(t) - Len(s)) + i
    BY <1>1
  <2>2. OfLines(r \o s)[Len(r) + i] = t[(Len(t) - (Len(r) + Len(s))) + (Len(r) + i)]
    BY <1>2, <2>1 DEF Ends
  <2>3. QED
    BY <1>2, <2>1, <2>2
<1>4. QED
  BY <1>1, <1>2, <1>3 DEF Ends

LEMMA LogInvInitial ==
  ASSUME HookInit, hook \in [Deliveries -> {"absent", "unsent", "arrived", "done"}]
  PROVE  LogInv
<1>1. LogShape /\ Len(received) = 0 /\ Len(appendQueue) = 0 /\ Len(events) = 0
  BY DEF HookInit, LogShape
<1>2. backup \o log = <<>> /\ Handled = <<>>
  BY <1>1 DEF HookInit, Handled
<1>3. OnDisk = <<>> /\ Among(Handled, Deliveries \ lost) = <<>>
  BY <1>2, AmongNone DEF OnDisk
<1>4. Ends(OfLines(OnDisk), Among(Handled, Deliveries \ lost))
  BY <1>3 DEF Ends, OfLines
<1>5. QED
  BY <1>1, <1>2, <1>4 DEF HookInit, LogInv, RecordedOnce, QueuedInOrder, Ends, LinesInOrder

\* Deliveries that come and go, and the first steps of an append, leave the lines alone.
LEMMA LinesRest ==
  ASSUME LogInv, UNCHANGED <<events, received, appendQueue, log, backup, healthy, lost>>,
         hook' \in [Deliveries -> {"absent", "unsent", "arrived", "done"}],
         \A d \in Deliveries : hook[d] = "done" => hook'[d] = "done",
         \/ UNCHANGED appending
         \/ appendQueue # <<>> /\ appending' \in {"rotating", "opening"}
  PROVE  LogInv'
<1>1. LogShape'
  BY DEF LogInv, LogShape
<1>2. \A i \in 1..Len(received) : received[i] \in Deliveries
  BY DEF LogInv, LogShape
<1>3. RecordedOnce'
  BY <1>2 DEF LogInv, RecordedOnce
<1>4. QueuedInOrder'
  BY DEF LogInv, QueuedInOrder, Ends, HandledCount
<1>5. OnDisk' = OnDisk /\ Handled' = Handled
  BY DEF OnDisk, Handled
<1>6. LinesInOrder'
  BY <1>5 DEF LogInv, LinesInOrder, Ends, OfLines
<1>7. QED
  BY <1>1, <1>3, <1>4, <1>6 DEF LogInv, Flushed

\* A new event joins the queue, and nothing that is handled.
LEMMA RecordKeepsLog ==
  ASSUME LogInv, NEW d \in Deliveries, HookBody(d), what[d] = "event"
  PROVE  LogInv'
<1>1. /\ hook[d] = "arrived" /\ hook' = [hook EXCEPT ![d] = "done"]
      /\ events' = Retained(Append(events, d))
      /\ received' = Append(received, d) /\ appendQueue' = Append(appendQueue, d)
      /\ UNCHANGED <<appending, log, backup, healthy, lost>>
  BY DEF HookBody, Record
<1>2. LogShape /\ RecordedOnce /\ QueuedInOrder /\ LinesInOrder
  BY DEF LogInv
<1> DEFINE m == Len(received)
<1>3. /\ m \in Nat /\ Len(appendQueue) \in Nat /\ Len(appendQueue) <= m
      /\ Len(received') = m + 1 /\ Len(appendQueue') = Len(appendQueue) + 1
      /\ \A i \in 1..m : received'[i] = received[i] /\ received[i] \in Deliveries
      /\ received'[m + 1] = d
  BY <1>1, <1>2 DEF LogShape, QueuedInOrder, Ends
<1>4. Append(events, d) \in Seq(Deliveries) /\ Append(events, d) # <<>>
  <2>1. events \in Seq(Deliveries)
    BY <1>2 DEF LogShape
  <2>2. Append(events, d) \in Seq(Deliveries) /\ Len(Append(events, d)) = Len(events) + 1
    BY <2>1
  <2>3. Len(events) + 1 # 0 /\ Len(<<>>) = 0
    BY <2>1
  <2>4. QED
    BY <2>2, <2>3
<1>5. LogShape'
  <2>1. Retained(Append(events, d)) \in Seq(Deliveries)
    BY <1>4 DEF Retained
  <2>2. QED
    BY <1>1, <1>2, <2>1 DEF LogShape
<1>6. RecordedOnce'
  <2>1. \A i \in 1..m : received[i] # d
    BY <1>1, <1>2 DEF RecordedOnce
  <2>2. ASSUME NEW i \in 1..m + 1 PROVE hook'[received'[i]] = "done"
    <3>1. CASE i = m + 1
      BY <1>1, <1>2, <1>3, <3>1 DEF LogShape
    <3>2. CASE i \in 1..m
      <4>1. received'[i] = received[i] /\ received[i] \in Deliveries /\ hook[received[i]] = "done"
        BY <1>2, <1>3, <3>2 DEF RecordedOnce
      <4>2. QED
        BY <1>1, <1>2, <4>1 DEF LogShape
    <3>3. QED
      BY <1>3, <3>1, <3>2
  <2>3. ASSUME NEW i \in 1..m + 1, NEW j \in 1..m + 1, received'[i] = received'[j] PROVE i = j
    <3>1. (i = m + 1 \/ i \in 1..m) /\ (j = m + 1 \/ j \in 1..m)
      BY <1>3
    <3>2. i \in 1..m /\ j \in 1..m => i = j
      BY <1>2, <1>3, <2>3 DEF RecordedOnce
    <3>3. (i = m + 1 => j \notin 1..m) /\ (j = m + 1 => i \notin 1..m)
      BY <1>3, <2>1, <2>3
    <3>4. QED
      BY <3>1, <3>2, <3>3
  <2>4. QED
    BY <1>3, <2>2, <2>3 DEF RecordedOnce
<1>7. HandledCount' = HandledCount /\ HandledCount \in 0..m
  BY <1>3 DEF HandledCount
<1>8. QueuedInOrder'
  <2>1. Ends(appendQueue, received) /\ Ends(events, received)
    BY <1>2 DEF QueuedInOrder
  <2>2. /\ Ends(Append(appendQueue, d), Append(received, d))
        /\ Ends(Append(events, d), Append(received, d))
    BY <1>2, <2>1, EndsAppend DEF LogShape
  <2>3. Append(received, d) \in Seq(Deliveries)
    BY <1>2 DEF LogShape
  <2>4. Ends(Tail(Append(events, d)), Append(received, d))
    <3> DEFINE e == Append(events, d)
               r == Append(received, d)
    <3>1. e \in Seq(Deliveries) /\ r \in Seq(Deliveries) /\ e # <<>> /\ Ends(e, r)
      BY <1>4, <2>2, <2>3
    <3> HIDE DEF e, r
    <3>2. Ends(Tail(e), r)
      BY <3>1, EndsTail
    <3>3. QED
      BY <3>2 DEF e, r
  <2>5. Ends(appendQueue', received') /\ Ends(events', received')
    BY <1>1, <2>2, <2>4, Zenon DEF Retained
  <2>6. \A c \in lost' : \E i \in 1..HandledCount' : received'[i] = c
    BY <1>1, <1>2, <1>3, <1>7 DEF QueuedInOrder
  <2>7. QED
    BY <2>5, <2>6 DEF QueuedInOrder, Ends
<1>9. Handled' = Handled
  <2>1. /\ Handled \in Seq(Deliveries) /\ Len(Handled) = HandledCount
        /\ \A i \in 1..HandledCount : Handled[i] = received[i]
    BY <1>2, <1>3, LinesTyped
  <2>2. /\ Handled' \in Seq(Deliveries) /\ Len(Handled') = HandledCount
        /\ \A i \in 1..HandledCount : Handled'[i] = received'[i]
    BY <1>3, <1>5, <1>7 DEF Handled, HandledCount, LogShape
  <2>3. \A i \in 1..HandledCount : Handled'[i] = Handled[i]
    BY <1>3, <1>7, <2>1, <2>2
  <2>4. QED
    BY <1>7, <2>1, <2>2, <2>3
<1>10. LinesInOrder'
  BY <1>1, <1>2, <1>9 DEF LinesInOrder, OnDisk, OfLines, Ends
<1>11. Flushed' => appending' = "idle"
  BY <1>3 DEF Flushed
<1>12. QED
  BY <1>5, <1>6, <1>8, <1>10, <1>11 DEF LogInv

\* An append that ends, well or not, is the one of the event that was received first.
LEMMA OldestSettles ==
  ASSUME LogInv, appending # "idle", Settled(Chained(appendQueue))
  PROVE  /\ appendQueue # <<>> /\ appendQueue' = Tail(appendQueue)
         /\ appending' = "idle"
         /\ Head(appendQueue) \in Deliveries
         /\ HandledCount + 1 \in 1..Len(received)
         /\ received[HandledCount + 1] = Head(appendQueue)
<1> DEFINE q == appendQueue
           d == Head(q)
           n == Len(q)
           m == Len(received)
<1>1. q \in Seq(Deliveries) /\ q # <<>> /\ received \in Seq(Deliveries)
  BY DEF LogInv, LogShape, Flushed
<1>2. n \in Nat \ {0} /\ d = q[1] /\ d \in Deliveries /\ m \in Nat
  BY <1>1
<1>3. n <= m /\ \A i \in 1..n : q[i] = received[(m - n) + i]
  BY DEF LogInv, QueuedInOrder, Ends
<1>4. PICK i \in DOMAIN q : q[i] = d /\ q' = SubSeq(q, 1, i - 1) \o SubSeq(q, i + 1, n)
  BY DEF Settled, Chained
<1>5. i = 1
  <2>1. i \in 1..n /\ 1 \in 1..n /\ (m - n) + i \in 1..m /\ (m - n) + 1 \in 1..m
    BY <1>1, <1>2, <1>3
  <2>2. received[(m - n) + i] = received[(m - n) + 1]
    BY <1>2, <1>3, <1>4, <2>1
  <2>3. (m - n) + i = (m - n) + 1
    BY <2>1, <2>2 DEF LogInv, RecordedOnce
  <2>4. QED
    BY <1>2, <2>1, <2>3
<1>6. q' = Tail(q)
  <2>1. SubSeq(q, 1, 0) = <<>> /\ SubSeq(q, 2, n) = Tail(q) /\ <<>> \o Tail(q) = Tail(q)
    BY <1>1, <1>2
  <2>2. q' = SubSeq(q, 1, 0) \o SubSeq(q, 2, n)
    BY <1>4, <1>5
  <2>3. QED
    BY <2>1, <2>2
<1>7. HandledCount + 1 \in 1..m /\ received[HandledCount + 1] = d
  BY <1>2, <1>3 DEF HandledCount
<1>8. QED
  BY <1>1, <1>2, <1>6, <1>7 DEF Settled

\* What is handled grows by it, and it was not given up before.
LEMMA HandledGrows ==
  ASSUME LogInv, appending # "idle", Settled(Chained(appendQueue)), UNCHANGED received
  PROVE  /\ Handled' = Append(Handled, Head(appendQueue))
         /\ HandledCount' = HandledCount + 1
         /\ Head(appendQueue) \notin lost
         /\ \A i \in 1..Len(Handled) : Handled[i] # Head(appendQueue)
<1> DEFINE d == Head(appendQueue)
           c == HandledCount
<1>1. /\ appendQueue # <<>> /\ appendQueue' = Tail(appendQueue) /\ d \in Deliveries
      /\ c + 1 \in 1..Len(received) /\ received[c + 1] = d
  BY OldestSettles
<1>2. LogShape /\ RecordedOnce /\ QueuedInOrder /\ Len(appendQueue) <= Len(received)
  BY DEF LogInv, QueuedInOrder, Ends
<1>3. /\ Handled \in Seq(Deliveries) /\ Len(Handled) = c /\ c \in Nat
      /\ \A i \in 1..c : Handled[i] = received[i]
  BY <1>2, LinesTyped
<1>4. c' = c + 1
  BY <1>1, <1>2 DEF HandledCount, LogShape
<1>5. Handled' = SubSeq(received, 1, c + 1)
  BY <1>4 DEF Handled, HandledCount
<1>6. /\ Handled' \in Seq(Deliveries) /\ Len(Handled') = c + 1
      /\ \A i \in 1..c + 1 : Handled'[i] = received[i]
  <2> DEFINE k == c + 1
  <2>1. k \in 1..Len(received) /\ received \in Seq(Deliveries) /\ Handled' = SubSeq(received, 1, k)
    BY <1>1, <1>2, <1>5 DEF LogShape
  <2> HIDE DEF k
  <2>2. /\ Handled' \in Seq(Deliveries) /\ Len(Handled') = k
        /\ \A i \in 1..k : Handled'[i] = received[i]
    BY <2>1
  <2>3. QED
    BY <2>2 DEF k
<1> HIDE DEF c, d
<1>7. Handled' = Append(Handled, d)
  <2> DEFINE h == Append(Handled, d)
  <2>1. h \in Seq(Deliveries) /\ Len(h) = c + 1 /\ h[c + 1] = d /\ \A i \in 1..c : h[i] = Handled[i]
    BY <1>1, <1>3
  <2> HIDE DEF h
  <2>2. ASSUME NEW i \in 1..c + 1 PROVE Handled'[i] = h[i]
    <3>1. Handled'[i] = received[i] /\ received[c + 1] = d
      BY <1>1, <1>6
    <3>2. CASE i = c + 1
      BY <2>1, <3>1, <3>2
    <3>3. CASE i # c + 1
      <4>1. i \in 1..c
        BY <1>3, <3>3
      <4>2. QED
        BY <1>3, <2>1, <3>1, <4>1
    <3>4. QED
      BY <3>2, <3>3
  <2>3. Handled' = h
    BY <1>3, <1>6, <2>1, <2>2
  <2>4. QED
    BY <2>3 DEF h
<1>8. \A i \in 1..c : received[i] # d
  BY <1>1, <1>2, <1>3 DEF RecordedOnce
<1>9. d \notin lost
  BY <1>2, <1>8 DEF QueuedInOrder, c
<1>10. QED
  BY <1>3, <1>4, <1>7, <1>8, <1>9 DEF c, d

\* An append that ends, with a line, with a part of one or with none.
LEMMA WriteKeepsLog ==
  ASSUME LogInv, WriteLine \/ AppendFails
  PROVE  LogInv'
<1> DEFINE d == Head(appendQueue)
           line == [of |-> d, whole |-> TRUE]
           part == [of |-> d, whole |-> FALSE]
           H == Handled
           D == Deliveries
           c == HandledCount
<1>1. /\ appending # "idle" /\ Settled(Chained(appendQueue))
      /\ UNCHANGED <<hook, events, received, backup>>
      /\ healthy' \in BOOLEAN
  BY DEF WriteLine, AppendFails
<1>2. /\ appendQueue # <<>> /\ appendQueue' = Tail(appendQueue)
      /\ appending' = "idle" /\ d \in D
      /\ c + 1 \in 1..Len(received) /\ received[c + 1] = d
  BY <1>1, OldestSettles
<1>3. /\ Handled' = Append(H, d) /\ HandledCount' = c + 1
      /\ d \notin lost /\ \A i \in 1..Len(H) : H[i] # d
  BY <1>1, HandledGrows
<1>4. \/ log' = log /\ lost' = lost \cup {d} /\ ~healthy'
      \/ log' = Append(log, part) /\ lost' = lost \cup {d} /\ ~healthy'
      \/ log' = Append(log, line) /\ lost' = lost
  BY DEF WriteLine, AppendFails, Chained
<1>5. LogShape /\ RecordedOnce /\ QueuedInOrder /\ LinesInOrder /\ Len(appendQueue) <= Len(received)
  BY DEF LogInv, QueuedInOrder, Ends
<1>6. /\ backup \o log \in Seq(Fragment) /\ OnDisk \in Seq(Fragment)
      /\ OfLines(OnDisk) \in Seq(D)
      /\ H \in Seq(D) /\ Len(H) = c /\ c \in Nat
      /\ Among(H, D \ lost) \in Seq(D)
  BY <1>5, LinesTyped
<1>7. line \in Fragment /\ part \in Fragment
  BY <1>2 DEF Fragment
<1>8. LogShape'
  <2>1. log' \in Seq(Fragment)
    <3>1. log \in Seq(Fragment)
      BY <1>5 DEF LogShape
    <3> HIDE DEF line, part
    <3>2. Append(log, line) \in Seq(Fragment) /\ Append(log, part) \in Seq(Fragment)
      BY <1>7, <3>1, Appended
    <3>3. QED
      BY <1>4, <3>1, <3>2
  <2>2. appendQueue' \in Seq(D)
    BY <1>2, <1>5 DEF LogShape
  <2>3. lost' \subseteq D
    BY <1>2, <1>4, <1>5 DEF LogShape
  <2>4. QED
    BY <1>1, <1>2, <1>5, <2>1, <2>2, <2>3 DEF LogShape
<1>9. RecordedOnce'
  BY <1>1, <1>5 DEF RecordedOnce
<1>10. QueuedInOrder'
  <2>1. Ends(appendQueue', received)
    <3>1. /\ appendQueue \in Seq(D) /\ received \in Seq(D) /\ Ends(appendQueue, received)
      BY <1>5 DEF LogShape, QueuedInOrder
    <3>2. QED
      BY <1>2, <3>1, EndsTail
  <2>2. \A f \in lost' : \E i \in 1..HandledCount' : received[i] = f
    <3>1. \A f \in lost : \E i \in 1..c + 1 : received[i] = f
      BY <1>5, <1>6 DEF QueuedInOrder
    <3>2. \E i \in 1..c + 1 : received[i] = d
      BY <1>2, <1>6
    <3>3. QED
      BY <1>3, <1>4, <3>1, <3>2
  <2>3. QED
    BY <1>1, <1>5, <2>1, <2>2 DEF QueuedInOrder, Ends
<1> HIDE DEF d, H, c, line, part
<1>11. Ends(OfLines(OnDisk'), Among(Handled', D \ lost'))
  <2> DEFINE K == D \ lost
             L == D \ lost'
             F == {f \in Fragment : f.whole}
             disk == backup \o log
             w == Among(H, K)
  <2>1. Ends(OfLines(OnDisk), w) /\ w \in Seq(D)
    BY <1>5, <1>6 DEF LinesInOrder, H
  <2>2. disk \in Seq(Fragment) /\ OnDisk = Among(disk, F) /\ OnDisk' = Among(backup \o log', F)
    BY <1>1, <1>6 DEF OnDisk
  <2>3. line \in F /\ part \notin F
    BY <1>7 DEF line, part
  <2>4. log \in Seq(Fragment) /\ backup \in Seq(Fragment)
    BY <1>5 DEF LogShape
  <2>5. /\ backup \o Append(log, line) = Append(disk, line)
        /\ backup \o Append(log, part) = Append(disk, part)
    BY <1>7, <2>4, ConcatAppend
  <2>6. CASE lost' = lost \cup {d}
    <3>1. \A i \in 1..Len(H) : H[i] \in K <=> H[i] \in L
      BY <1>3, <2>6
    <3>2. d \notin L
      BY <2>6
    <3> HIDE DEF disk, F, w, K, L
    <3>3. OnDisk' = OnDisk
      <4>1. Among(Append(disk, part), F) = Among(disk, F)
        BY <1>7, <2>2, <2>3, AmongAppend
      <4>2. log' = log \/ log' = Append(log, part)
        BY <1>3, <1>4, <2>6
      <4>3. QED
        BY <2>2, <2>5, <4>1, <4>2 DEF disk
    <3>4. Among(Append(H, d), L) = Among(H, L)
      BY <1>2, <1>6, <3>2, AmongAppend
    <3>5. Among(H, L) = Among(H, K)
      BY <1>6, <3>1, AmongSame
    <3>6. QED
      BY <1>3, <2>1, <3>3, <3>4, <3>5 DEF w, L
  <2>7. CASE log' = Append(log, line) /\ lost' = lost
    <3>1. d \in K /\ L = K
      BY <1>2, <1>3, <2>7
    <3> HIDE DEF disk, F, w, K, L
    <3>2. OnDisk' = Append(OnDisk, line)
      <4>1. Among(Append(disk, line), F) = Append(Among(disk, F), line)
        BY <1>7, <2>2, <2>3, AmongAppend
      <4>2. QED
        BY <2>2, <2>5, <2>7, <4>1
    <3>3. Among(Append(H, d), L) = Append(w, d)
      BY <1>2, <1>6, <3>1, AmongAppend DEF w
    <3>4. OfLines(Append(OnDisk, line)) = Append(OfLines(OnDisk), d)
      <4>1. line.of = d
        BY DEF line
      <4>2. QED
        BY <1>2, <1>6, <1>7, <4>1, OfLinesAppend
    <3>5. Ends(Append(OfLines(OnDisk), d), Append(w, d))
      BY <1>6, <2>1, EndsAppend
    <3>6. QED
      BY <1>3, <3>2, <3>3, <3>4, <3>5 DEF L
  <2>8. QED
    BY <1>4, <2>6, <2>7
<1>12. healthy' => log' # <<>> /\ log'[Len(log')] = [of |-> Handled'[Len(Handled')], whole |-> TRUE]
  <2>1. SUFFICES ASSUME healthy'
                 PROVE  /\ log' # <<>>
                        /\ log'[Len(log')] = [of |-> Handled'[Len(Handled')], whole |-> TRUE]
    OBVIOUS
  <2>2. log' = Append(log, line) /\ log \in Seq(Fragment)
    BY <1>4, <1>5, <2>1 DEF LogShape
  <2>3. log' # <<>> /\ log'[Len(log')] = line
    BY <1>7, <2>2, Appended
  <2>4. Handled'[Len(Handled')] = d
    BY <1>2, <1>3, <1>6, Appended
  <2>5. QED
    BY <2>3, <2>4 DEF line
<1>13. LinesInOrder'
  BY <1>2, <1>11, <1>12 DEF LinesInOrder
<1>14. QED
  BY <1>2, <1>8, <1>9, <1>10, <1>13 DEF LogInv

\* removeBackup and renameLog drop whole files of oldest lines.
LEMMA RotationKeepsLog ==
  ASSUME LogInv, RemoveBackup \/ RenameLog
  PROVE  LogInv'
<1>1. /\ UNCHANGED <<hook, events, received, appendQueue, healthy, lost>>
      /\ appending # "idle" /\ appending' \in {"renaming", "opening"}
  BY DEF RemoveBackup, RenameLog
<1>2. LogShape /\ RecordedOnce /\ QueuedInOrder /\ LinesInOrder /\ Len(appendQueue) <= Len(received)
  BY DEF LogInv, QueuedInOrder, Ends
<1>3. LogShape'
  <2>1. <<>> \in Seq(Fragment)
    OBVIOUS
  <2>2. log' \in Seq(Fragment) /\ backup' \in Seq(Fragment)
    BY <1>2, <2>1 DEF RemoveBackup, RenameLog, LogShape
  <2>3. QED
    BY <1>1, <1>2, <2>2 DEF LogShape
<1>4. RecordedOnce' /\ QueuedInOrder'
  BY <1>1, <1>2 DEF RecordedOnce, QueuedInOrder, Ends, HandledCount
<1>5. appending' = "renaming" => backup' = <<>>
  BY DEF RemoveBackup, RenameLog
<1> DEFINE w == Among(Handled, Deliveries \ lost)
<1>6. w' = w
  BY <1>1 DEF Handled
<1>7. Ends(OfLines(OnDisk), w) /\ w \in Seq(Deliveries)
  BY <1>2, LinesTyped DEF LinesInOrder
<1> HIDE DEF w
<1>8. Ends(OfLines(OnDisk'), w)
  <2>1. CASE RemoveBackup
    <3> DEFINE W == {f \in Fragment : f.whole}
               a == Among(backup, W)
               b == Among(log, W)
    <3>1. log \in Seq(Fragment) /\ backup \in Seq(Fragment) /\ log' = log /\ backup' = <<>>
      BY <1>2, <2>1 DEF LogShape, RemoveBackup
    <3>2. OnDisk = a \o b
      BY <3>1, AmongConcat DEF OnDisk
    <3>3. OnDisk' = b
      <4>1. <<>> \o log = log
        BY <3>1
      <4>2. QED
        BY <3>1, <4>1 DEF OnDisk
    <3>4. a \in Seq(Fragment) /\ b \in Seq(Fragment)
      BY <3>1, AmongTypes
    <3> HIDE DEF a, b
    <3>5. QED
      BY <1>7, <3>2, <3>3, <3>4, LaterLines
  <2>2. CASE RenameLog
    <3>1. log \in Seq(Fragment) /\ backup = <<>> /\ log' = <<>> /\ backup' = log
      BY <1>2, <2>2 DEF LogShape, LinesInOrder, RenameLog
    <3>2. log \o <<>> = log /\ <<>> \o log = log
      BY <3>1
    <3>3. OnDisk' = OnDisk
      BY <3>1, <3>2 DEF OnDisk
    <3>4. QED
      BY <1>7, <3>3
  <2>3. QED
    BY <2>1, <2>2
<1>9. LinesInOrder'
  BY <1>1, <1>5, <1>6, <1>8 DEF LinesInOrder, w
<1>10. QED
  BY <1>1, <1>3, <1>4, <1>9 DEF LogInv, Flushed

LEMMA LogInvInductive ==
  ASSUME LogInv, [HookNext]_hookVars
  PROVE  LogInv'
<1>1. ASSUME NEW d \in Deliveries, HookArrives(d) \/ HookDeadline(d) PROVE LogInv'
  <2>1. /\ UNCHANGED <<events, received, appendQueue, log, backup, healthy, lost, appending>>
        /\ hook[d] # "done"
        /\ \/ hook' = [hook EXCEPT ![d] = "arrived"]
           \/ hook' = [hook EXCEPT ![d] = "done"]
    BY <1>1 DEF HookArrives, HookDeadline, logVars
  <2>2. /\ hook' \in [Deliveries -> {"absent", "unsent", "arrived", "done"}]
        /\ \A f \in Deliveries : hook[f] = "done" => hook'[f] = "done"
    BY <2>1 DEF LogInv, LogShape
  <2>3. QED
    BY <2>1, <2>2, LinesRest
<1>2. ASSUME NEW d \in Deliveries, HookBody(d) PROVE LogInv'
  <2>1. CASE what[d] = "event"
    BY <1>2, <2>1, RecordKeepsLog
  <2>2. CASE what[d] # "event"
    <3>1. /\ UNCHANGED <<events, received, appendQueue, log, backup, healthy, lost, appending>>
          /\ hook' = [hook EXCEPT ![d] = "done"]
      BY <1>2, <2>2 DEF HookBody, logVars
    <3>2. /\ hook' \in [Deliveries -> {"absent", "unsent", "arrived", "done"}]
          /\ \A f \in Deliveries : hook[f] = "done" => hook'[f] = "done"
      BY <3>1 DEF LogInv, LogShape
    <3>3. QED
      BY <3>1, <3>2, LinesRest
  <2>3. QED
    BY <2>1, <2>2
<1>3. CASE StartAppend
  BY <1>3, LinesRest DEF StartAppend, LogInv, LogShape
<1>4. CASE RemoveBackup \/ RenameLog
  BY <1>4, RotationKeepsLog
<1>5. CASE WriteLine \/ AppendFails
  BY <1>5, WriteKeepsLog
<1>6. CASE UNCHANGED hookVars
  BY <1>6, LinesRest DEF hookVars, LogInv, LogShape
<1>7. QED
  BY <1>1, <1>2, <1>3, <1>4, <1>5, <1>6 DEF HookNext, AppendStep

\* The invariant says what the property says, and more.
LEMMA LogInvSuffices == LogInv => LogTellsTheTruth
<1> SUFFICES ASSUME LogInv PROVE LogTellsTheTruth
  OBVIOUS
<1>1. LogShape /\ QueuedInOrder /\ LinesInOrder /\ Len(appendQueue) <= Len(received)
  BY DEF LogInv, QueuedInOrder, Ends
<1>2. /\ OfLines(OnDisk) \in Seq(Deliveries)
      /\ Among(Handled, Deliveries \ lost) \in Seq(Deliveries)
  BY <1>1, LinesTyped
<1>3. IsSuffix(OfLines(OnDisk), Among(Handled, Deliveries \ lost))
  BY <1>1, <1>2, EndsAsSuffix DEF LinesInOrder
<1>4. IsSuffix(events, received)
  BY <1>1, EndsAsSuffix DEF LogShape, QueuedInOrder
<1>5. ASSUME healthy, Flushed, received # <<>>
      PROVE  log # <<>> /\ Last(log) = [of |-> Last(received), whole |-> TRUE]
  <2>1. Len(appendQueue) = 0 /\ received \in Seq(Deliveries) /\ appending = "idle"
    BY <1>1, <1>5 DEF Flushed, LogShape, LogInv
  <2>2. Handled = received
    BY <2>1 DEF Handled
  <2>3. QED
    BY <1>1, <1>5, <2>1, <2>2 DEF LinesInOrder, Last
<1>6. QED
  BY <1>3, <1>4, <1>5 DEF LogTellsTheTruth, OfLines

-----------------------------------------------------------------------------
(* ListPages *)

Item == [id : Nat, size : Nat]
Items == Seq(Item)

LEMMA ItemsSized ==
  ASSUME NEW s \in Items
  PROVE  Len(s) \in Nat /\ \A i \in 1..Len(s) : s[i] \in Item /\ s[i].size \in Nat
<1>1. Len(s) \in Nat /\ \A i \in 1..Len(s) : s[i] \in Item
  BY DEF Items
<1>2. \A x \in Item : x.size \in Nat
  BY DEF Item
<1>3. QED
  BY <1>1, <1>2

\* FlattenSeq: the recursion, the same step by step, and one page more.
FlattenRec(t, f) == f = [i \in 1..Len(t) |-> IF i = 1 THEN t[i] ELSE f[i - 1] \o t[i]]

Joins(f, t, S) ==
  /\ f \in [1..Len(t) -> Seq(S)]
  /\ Len(t) > 0 => f[1] = t[1]
  /\ \A i \in 2..Len(t) : f[i] = f[i - 1] \o t[i]

LEMMA FlattenExists ==
  ASSUME NEW S, NEW t \in Seq(Seq(S))
  PROVE  \E f : FlattenRec(t, f)
<1> DEFINE n == Len(t)
           V == Seq(S)
           g == [i \in 1..n |-> [v \in V |-> v \o t[i]]]
<1>1. n \in Nat /\ <<>> \in V /\ \A i \in 1..n : t[i] \in V
  OBVIOUS
<1>2. g \in [1..n -> [V -> V]]
  BY <1>1
<1>3. PICK h \in [0..n -> V] : Follows(h, n, <<>>, g)
  <2> HIDE DEF g, n, V
  <2>1. QED
    BY <1>1, <1>2, Recursion
<1>4. \A i \in 1..n : h[i] = h[i - 1] \o t[i]
  <2>1. \A i \in 1..n : h[i - 1] \in V
    OBVIOUS
  <2>2. QED
    BY <1>3, <2>1 DEF Follows
<1>5. n > 0 => h[1] = t[1]
  <2>1. SUFFICES ASSUME n > 0 PROVE h[1] = t[1]
    OBVIOUS
  <2> HIDE DEF n
  <2>2. 1 \in 1..n /\ 1 - 1 = 0
    BY <1>1, <2>1
  <2>6. h[1] = h[0] \o t[1]
    BY <1>4, <2>2
  <2>3. h[0] = <<>>
    BY <1>3 DEF Follows
  <2>4. t[1] \in Seq(S) /\ <<>> \o t[1] = t[1]
    BY <1>1, <2>2
  <2>5. QED
    BY <2>3, <2>4, <2>6, Zenon
<1> DEFINE f == [i \in 1..n |-> h[i]]
<1>6. f = [i \in 1..n |-> IF i = 1 THEN t[i] ELSE f[i - 1] \o t[i]]
  <2>1. ASSUME NEW i \in 1..n PROVE h[i] = IF i = 1 THEN t[i] ELSE f[i - 1] \o t[i]
    <3>1. CASE i = 1
      BY <1>1, <1>5, <3>1
    <3>2. CASE i # 1
      <4>1. i - 1 \in 1..n /\ f[i - 1] = h[i - 1]
        BY <1>1, <3>2
      <4>2. QED
        BY <1>4, <3>2, <4>1
    <3>3. QED
      BY <3>1, <3>2
  <2>2. QED
    BY <2>1
<1>7. FlattenRec(t, f)
  BY <1>6 DEF FlattenRec
<1>8. QED
  BY <1>7

LEMMA FlattenTyped ==
  ASSUME NEW S, NEW t \in Seq(Seq(S)), NEW f, FlattenRec(t, f)
  PROVE  Joins(f, t, S)
<1> DEFINE n == Len(t)
           Typed == {i \in 0..n : i = 0 \/ f[i] \in Seq(S)}
<1>1. n \in Nat /\ \A i \in 1..n : t[i] \in Seq(S)
  OBVIOUS
<1>2. \A i \in 1..n : f[i] = IF i = 1 THEN t[i] ELSE f[i - 1] \o t[i]
  BY DEF FlattenRec
<1>3. (n > 0 => f[1] = t[1]) /\ \A i \in 2..n : f[i] = f[i - 1] \o t[i]
  <2> HIDE DEF n
  <2>1. n > 0 => 1 \in 1..n
    BY <1>1
  <2>2. \A i \in 2..n : i \in 1..n /\ i # 1
    BY <1>1
  <2>3. QED
    BY <1>2, <2>1, <2>2
<1>4. 0 \in Typed
  BY <1>1
<1>5. ASSUME NEW i \in 1..n, i - 1 \in Typed PROVE i \in Typed
  <2>1. t[i] \in Seq(S) /\ i \in 0..n
    BY <1>1
  <2>2. CASE i = 1
    BY <1>3, <2>1, <2>2
  <2>3. CASE i # 1
    <3>1. f[i - 1] \in Seq(S) /\ i \in 2..n
      BY <1>1, <1>5, <2>3
    <3>2. f[i - 1] \o t[i] \in Seq(S)
      BY <2>1, <3>1
    <3>3. QED
      BY <1>3, <2>1, <3>1, <3>2
  <2>4. QED
    BY <2>2, <2>3
<1>6. 0..n \subseteq Typed
  <2> HIDE DEF Typed, n
  <2>1. QED
    BY <1>1, <1>4, <1>5, Climb
<1>7. ASSUME NEW i \in 1..n PROVE f[i] \in Seq(S)
  <2>1. i \in 0..n /\ i # 0
    BY <1>1
  <2>2. i \in Typed
    BY <1>6, <2>1
  <2>3. QED
    BY <2>1, <2>2
<1>8. f = [i \in 1..n |-> f[i]]
  BY DEF FlattenRec
<1>9. f \in [1..n -> Seq(S)]
  BY <1>7, <1>8
<1>10. QED
  BY <1>3, <1>9 DEF Joins

LEMMA FlattenIs ==
  ASSUME NEW S, NEW t \in Seq(Seq(S)), Len(t) > 0
  PROVE  \E f : Joins(f, t, S) /\ FlattenSeq(t) = f[Len(t)]
<1> DEFINE f == CHOOSE h : FlattenRec(t, h)
<1>1. FlattenRec(t, f)
  BY FlattenExists
<1>2. FlattenSeq(t) = f[Len(t)]
  <2>1. Len(t) # 0
    OBVIOUS
  <2>2. QED
    BY <2>1 DEF FlattenSeq, FlattenRec
<1> HIDE DEF f
<1>3. Joins(f, t, S)
  BY <1>1, FlattenTyped
<1>4. QED
  BY <1>2, <1>3

LEMMA FlattenAppend ==
  ASSUME NEW S, NEW t \in Seq(Seq(S)), NEW p \in Seq(S)
  PROVE  FlattenSeq(Append(t, p)) = IF Len(t) = 0 THEN p ELSE FlattenSeq(t) \o p
<1> DEFINE n == Len(t)
           u == Append(t, p)
<1>1. /\ n \in Nat /\ u \in Seq(Seq(S)) /\ Len(u) = n + 1 /\ u[n + 1] = p
      /\ \A i \in 1..n : u[i] = t[i]
  OBVIOUS
<1>0. u \in Seq(Seq(S)) /\ Len(u) > 0
  BY <1>1
<1> HIDE DEF u
<1>2. PICK h : Joins(h, u, S) /\ FlattenSeq(u) = h[Len(u)]
  BY <1>0, FlattenIs
<1>3. CASE n = 0
  BY <1>1, <1>2, <1>3 DEF Joins, u
<1>4. CASE n # 0
  <2>1. PICK f : Joins(f, t, S) /\ FlattenSeq(t) = f[n]
    BY <1>1, <1>4, FlattenIs
  <2> HIDE DEF n
  <2> DEFINE Same == {i \in 0..n : i = 0 \/ h[i] = f[i]}
  <2>2. 0 \in Same
    BY <1>1
  <2>3. ASSUME NEW i \in 1..n, i - 1 \in Same PROVE i \in Same
    <3>0. i \in 0..n
      BY <1>1
    <3>1. i \in 0..n /\ u[i] = t[i]
      BY <1>1, <3>0, Zenon
    <3>2. CASE i = 1
      BY <1>1, <1>2, <1>4, <2>1, <3>1, <3>2 DEF Joins, n
    <3>3. CASE i # 1
      <4>1. i \in 2..n /\ i \in 2..Len(u) /\ h[i - 1] = f[i - 1]
        BY <1>1, <2>3, <3>3
      <4>2. h[i] = h[i - 1] \o u[i] /\ f[i] = f[i - 1] \o t[i]
        BY <1>2, <2>1, <4>1 DEF Joins, n
      <4>3. QED
        BY <3>1, <4>1, <4>2
    <3>4. QED
      BY <3>2, <3>3
  <2> HIDE DEF Same
  <2>4. n \in Same
    <3>1. 0..n \subseteq Same
      BY <1>1, <2>2, <2>3, Climb
    <3>2. QED
      BY <1>1, <3>1
  <2>5. h[n] = f[n]
    BY <1>4, <2>4 DEF Same
  <2>6. n + 1 \in 2..Len(u) /\ (n + 1) - 1 = n
    BY <1>1, <1>4
  <2>7. h[n + 1] = h[n] \o p
    BY <1>1, <1>2, <2>6 DEF Joins
  <2>8. QED
    BY <1>1, <1>2, <1>4, <2>1, <2>5, <2>7 DEF u, n
<1>5. QED
  BY <1>3, <1>4

\* SizeOf, the same way.
SizeRec(s, f) ==
  f = [i \in 0..Len(s) |-> IF i = 0 THEN 0 ELSE f[i - 1] + s[i].size]

Sums(f, s) ==
  /\ f \in [0..Len(s) -> Nat]
  /\ f[0] = 0
  /\ \A i \in 1..Len(s) : f[i] = f[i - 1] + s[i].size

LEMMA SizeExists ==
  ASSUME NEW s \in Items
  PROVE  \E f : SizeRec(s, f)
<1> DEFINE n == Len(s)
           g == [i \in 1..n |-> [v \in Nat |-> v + s[i].size]]
<1>1. n \in Nat /\ \A i \in 1..n : s[i].size \in Nat
  BY ItemsSized
<1>2. g \in [1..n -> [Nat -> Nat]]
  BY <1>1
<1>3. PICK h \in [0..n -> Nat] : Follows(h, n, 0, g)
  <2> HIDE DEF g, n
  <2>1. QED
    BY <1>1, <1>2, Recursion
<1>4. \A i \in 1..n : h[i] = h[i - 1] + s[i].size
  <2>1. \A i \in 1..n : h[i - 1] \in Nat
    BY <1>1
  <2>2. QED
    BY <1>3, <2>1 DEF Follows
<1>5. h[0] = 0 /\ h = [i \in 0..n |-> h[i]]
  BY <1>3 DEF Follows
<1> DEFINE e(i) == IF i = 0 THEN 0 ELSE h[i - 1] + s[i].size
<1>6. \A i \in 0..n : h[i] = e(i)
  <2>1. \A i \in 0..n : i # 0 => i \in 1..n
    BY <1>1
  <2>2. QED
    BY <1>4, <1>5, <2>1
<1> HIDE DEF e
<1>7. h = [i \in 0..n |-> e(i)]
  BY <1>5, <1>6
<1>8. QED
  BY <1>7 DEF SizeRec, e

LEMMA SizeTyped ==
  ASSUME NEW s \in Items, NEW f, SizeRec(s, f)
  PROVE  Sums(f, s)
<1> DEFINE n == Len(s)
           Typed == {i \in 0..n : f[i] \in Nat}
<1>1. n \in Nat /\ \A i \in 1..n : s[i].size \in Nat
  BY ItemsSized
<1>2. \A i \in 0..n : f[i] = IF i = 0 THEN 0 ELSE f[i - 1] + s[i].size
  BY DEF SizeRec
<1> HIDE DEF n
<1>3. f[0] = 0 /\ \A i \in 1..n : f[i] = f[i - 1] + s[i].size
  BY <1>1, <1>2
<1>4. 0 \in Typed
  BY <1>1, <1>3
<1>5. \A i \in 1..n : i - 1 \in Typed => i \in Typed
  BY <1>1, <1>3
<1>6. 0..n \subseteq Typed
  <2> HIDE DEF Typed
  <2>1. QED
    BY <1>1, <1>4, <1>5, Climb
<1>7. f = [i \in 0..n |-> f[i]]
  BY DEF SizeRec, n
<1>8. f \in [0..n -> Nat]
  BY <1>6, <1>7
<1>9. QED
  BY <1>3, <1>8 DEF Sums, n

LEMMA SizeIs ==
  ASSUME NEW s \in Items
  PROVE  \E f : Sums(f, s) /\ SizeOf(s) = f[Len(s)]
<1> DEFINE f == CHOOSE h : SizeRec(s, h)
<1>1. SizeRec(s, f)
  BY SizeExists
<1>2. SizeOf(s) = f[Len(s)]
  BY DEF SizeOf, SizeRec
<1> HIDE DEF f
<1>3. Sums(f, s)
  BY <1>1, SizeTyped
<1>4. QED
  BY <1>2, <1>3

\* Filled, the same way.
FilledRec(s, f) ==
  f = [i \in 0..Len(s) |-> IF i = 0 THEN 0
                           ELSE (IF i > 1 /\ f[i - 1] + s[i].size > PageBytes
                                 THEN s[i].size
                                 ELSE f[i - 1] + s[i].size)]

Fills(f, s) ==
  /\ f \in [0..Len(s) -> Nat]
  /\ f[0] = 0
  /\ \A i \in 1..Len(s) : f[i] = (IF i > 1 /\ f[i - 1] + s[i].size > PageBytes
                                  THEN s[i].size
                                  ELSE f[i - 1] + s[i].size)

LEMMA FilledExists ==
  ASSUME NEW s \in Items
  PROVE  \E f : FilledRec(s, f)
<1> DEFINE n == Len(s)
           g == [i \in 1..n |-> [v \in Nat |-> (IF i > 1 /\ v + s[i].size > PageBytes
                                                THEN s[i].size
                                                ELSE v + s[i].size)]]
<1>1. n \in Nat /\ \A i \in 1..n : s[i].size \in Nat
  BY ItemsSized
<1>2. g \in [1..n -> [Nat -> Nat]]
  BY <1>1
<1>3. PICK h \in [0..n -> Nat] : Follows(h, n, 0, g)
  <2> HIDE DEF g, n
  <2>1. QED
    BY <1>1, <1>2, Recursion
<1>4. \A i \in 1..n : h[i] = (IF i > 1 /\ h[i - 1] + s[i].size > PageBytes
                              THEN s[i].size
                              ELSE h[i - 1] + s[i].size)
  <2>1. \A i \in 1..n : h[i - 1] \in Nat
    BY <1>1
  <2>2. QED
    BY <1>3, <2>1 DEF Follows
<1>5. h[0] = 0 /\ h = [i \in 0..n |-> h[i]]
  BY <1>3 DEF Follows
<1> DEFINE e(i) == IF i = 0 THEN 0 ELSE (IF i > 1 /\ h[i - 1] + s[i].size > PageBytes
                                         THEN s[i].size
                                         ELSE h[i - 1] + s[i].size)
<1>6. \A i \in 0..n : h[i] = e(i)
  <2>1. \A i \in 0..n : i # 0 => i \in 1..n
    BY <1>1
  <2>2. QED
    BY <1>4, <1>5, <2>1
<1> HIDE DEF e
<1>7. h = [i \in 0..n |-> e(i)]
  BY <1>5, <1>6
<1>8. QED
  BY <1>7 DEF FilledRec, e

LEMMA FilledTyped ==
  ASSUME NEW s \in Items, NEW f, FilledRec(s, f)
  PROVE  Fills(f, s)
<1> DEFINE n == Len(s)
           Typed == {i \in 0..n : f[i] \in Nat}
<1>1. n \in Nat /\ \A i \in 1..n : s[i].size \in Nat
  BY ItemsSized
<1>2. \A i \in 0..n : f[i] = IF i = 0 THEN 0
                             ELSE (IF i > 1 /\ f[i - 1] + s[i].size > PageBytes
                                   THEN s[i].size
                                   ELSE f[i - 1] + s[i].size)
  BY DEF FilledRec
<1> HIDE DEF n
<1>3. f[0] = 0 /\ \A i \in 1..n : f[i] = (IF i > 1 /\ f[i - 1] + s[i].size > PageBytes
                                          THEN s[i].size
                                          ELSE f[i - 1] + s[i].size)
  BY <1>1, <1>2
<1>4. 0 \in Typed
  BY <1>1, <1>3
<1>5. \A i \in 1..n : i - 1 \in Typed => i \in Typed
  BY <1>1, <1>3
<1>6. 0..n \subseteq Typed
  <2> HIDE DEF Typed
  <2>1. QED
    BY <1>1, <1>4, <1>5, Climb
<1>7. f = [i \in 0..n |-> f[i]]
  BY DEF FilledRec, n
<1>8. f \in [0..n -> Nat]
  BY <1>6, <1>7
<1>9. QED
  BY <1>3, <1>8 DEF Fills, n

LEMMA FilledIs ==
  ASSUME NEW s \in Items
  PROVE  Fills(Filled(s), s)
<1> DEFINE f == CHOOSE h : FilledRec(s, h)
<1>1. FilledRec(s, f)
  BY FilledExists
<1>2. Filled(s) = f
  BY DEF Filled, FilledRec
<1> HIDE DEF f
<1>3. Fills(f, s)
  BY <1>1, FilledTyped
<1>4. QED
  BY <1>2, <1>3

\* A page from one start to before the next is within the budget, or one item.
LEMMA PageFits ==
  ASSUME NEW s \in Items, NEW from \in PageStarts(s), NEW to \in from..Len(s),
         from \in 1..Len(s),
         \A i \in (from + 1)..to : i \notin PageStarts(s),
         Len(SubSeq(s, from, to)) > 1
  PROVE  SizeOf(SubSeq(s, from, to)) <= PageBytes
<1> DEFINE page == SubSeq(s, from, to)
           u == Filled(s)
           n == Len(s)
<1>1. /\ n \in Nat /\ from \in 1..n /\ to \in 1..n /\ from <= to
      /\ \A i \in 1..n : s[i].size \in Nat
  BY ItemsSized
<1>2. /\ page \in Items /\ Len(page) = (to - from) + 1
      /\ \A i \in 1..(to - from) + 1 : page[i] = s[(from + i) - 1]
  BY <1>1 DEF Items
<1>3. Fills(u, s)
  BY FilledIs
<1>4. /\ u[0] = 0
      /\ \A i \in 1..n : u[i] = IF i > 1 /\ u[i - 1] + s[i].size > PageBytes
                             THEN s[i].size ELSE u[i - 1] + s[i].size
      /\ \A i \in 0..n : u[i] \in Nat
  BY <1>3 DEF Fills
<1>5. from = 1 \/ (from \in 2..n /\ u[from - 1] + s[from].size > PageBytes)
  BY DEF PageStarts
<1>6. \A i \in (from + 1)..to : ~(u[i - 1] + s[i].size > PageBytes)
  BY <1>1 DEF PageStarts
<1>7. PICK f : Sums(f, page) /\ SizeOf(page) = f[Len(page)]
  BY <1>2, SizeIs
<1>8. f[0] = 0 /\ \A i \in 1..(to - from) + 1 : f[i] = f[i - 1] + page[i].size
  BY <1>2, <1>7 DEF Sums
<1> HIDE DEF page, u, n
<1>9. u[from] = s[from].size
  <2>1. CASE from = 1
    BY <1>1, <1>4, <2>1
  <2>2. CASE from # 1
    BY <1>1, <1>4, <1>5, <2>2
  <2>3. QED
    BY <2>1, <2>2
<1>10. ASSUME NEW i \in (from + 1)..to PROVE u[i] = u[i - 1] + s[i].size /\ u[i] <= PageBytes
  <2>1. i \in 1..n /\ ~(u[i - 1] + s[i].size > PageBytes)
    BY <1>1, <1>6
  <2>2. u[i] = u[i - 1] + s[i].size
    BY <1>4, <2>1
  <2>3. u[i] \in Nat
    BY <1>1, <1>4, <2>1
  <2>4. QED
    BY <2>1, <2>2, <2>3, PagesAssumption
<1> DEFINE k == to - from
           Same == {i \in 0..k : f[i + 1] = u[from + i]}
<1>11. k \in Nat
  BY <1>1
<1>12. 0 \in Same
  <2>1. page[1] = s[from] /\ f[1] = f[0] + page[1].size
    <3>1. 1 \in 1..(to - from) + 1 /\ (from + 1) - 1 = from /\ 1 - 1 = 0
      BY <1>1
    <3>2. f[1] = f[1 - 1] + page[1].size /\ page[1] = s[(from + 1) - 1]
      BY <1>2, <1>8, <3>1
    <3>3. QED
      BY <3>1, <3>2
  <2>2. f[1] = s[from].size
    BY <1>1, <1>8, <2>1
  <2>3. 0 \in 0..k /\ 0 + 1 = 1 /\ from + 0 = from
    BY <1>1, <1>11
  <2>4. QED
    BY <1>9, <2>2, <2>3
<1>13. ASSUME NEW i \in 1..k, i - 1 \in Same PROVE i \in Same
  <2>1. /\ i + 1 \in 1..(to - from) + 1 /\ from + i \in (from + 1)..to /\ i \in 0..k
        /\ (from + (i + 1)) - 1 = from + i /\ (i + 1) - 1 = i /\ (i - 1) + 1 = i
        /\ (from + i) - 1 = from + (i - 1)
    <3>1. from \in Nat /\ to \in Nat /\ i \in Nat /\ 1 <= i /\ i <= to - from
      BY <1>1
    <3>2. QED
      BY <3>1
  <2>2. f[i + 1] = f[i] + s[from + i].size
    <3>1. f[i + 1] = f[(i + 1) - 1] + page[i + 1].size /\ page[i + 1] = s[(from + (i + 1)) - 1]
      BY <1>2, <1>8, <2>1
    <3>2. QED
      BY <2>1, <3>1
  <2>3. u[from + i] = u[from + (i - 1)] + s[from + i].size
    BY <1>10, <2>1
  <2>4. f[i] = u[from + (i - 1)]
    BY <1>13, <2>1
  <2>5. QED
    BY <2>1, <2>2, <2>3, <2>4
<1>14. k \in Same
  <2> HIDE DEF Same, k
  <2>1. 0..k \subseteq Same
    BY <1>11, <1>12, <1>13, Climb
  <2>2. QED
    BY <1>11, <2>1
<1>15. SizeOf(page) = u[to] /\ to \in (from + 1)..to
  <2>1. from + k = to /\ k + 1 = Len(page) /\ k > 0
    BY <1>1, <1>2 DEF page
  <2>2. QED
    BY <1>1, <1>7, <1>14, <2>1
<1>16. QED
  BY <1>10, <1>15 DEF page

(***************************************************************************)
(* The inductive invariant of a walk.                                      *)
(***************************************************************************)

PagesFit ==
  paged => \A i \in 1..Len(pages) : Len(pages[i]) > 1 => SizeOf(pages[i]) <= PageBytes

\* Between two pages: what was received is the list the cursor is of, up to where it points;
\* and a client that was given no other cursor, nor another list, has one of this list.
GoesOn ==
  \/ cursor = NoCursor /\ pages = <<>>
  \/ /\ paged /\ pages # <<>>
     /\ cursor = [method |-> "list", offset |-> cursor.offset, print |-> cursor.print]
     /\ cursor.print \in Items
     /\ cursor.offset \in PageStarts(cursor.print) \ {1}
     /\ FlattenSeq(pages) = SubSeq(cursor.print, 1, cursor.offset - 1)
     /\ honest => cursor.print = list

WalkInv ==
  /\ list \in Items /\ paged \in BOOLEAN /\ honest \in BOOLEAN
  /\ pages \in Seq(Items)
  /\ walk \in {"absent", "walking", "whole", "refused"}
  /\ walk \in {"absent", "walking"} => GoesOn
  /\ walk = "whole" => FlattenSeq(pages) = list
  /\ walk = "refused" => ~honest
  /\ PagesFit

LEMMA WalkInvInitial == PagesInit => WalkInv
<1> SUFFICES ASSUME PagesInit PROVE WalkInv
  OBVIOUS
<1>1. <<>> \in Items /\ <<>> \in Seq(Items) /\ Len(<<>>) = 0
  BY DEF Items
<1>2. list \in Items
  BY <1>1, PagesAssumption DEF PagesInit, Items, Item
<1>3. QED
  BY <1>1, <1>2 DEF PagesInit, WalkInv, GoesOn, PagesFit

\* The pages are those of before and one more, which fits.
LEMMA OneMoreFits ==
  ASSUME WalkInv, NEW p \in Items, pages' = Append(pages, p), UNCHANGED paged,
         paged => (Len(p) > 1 => SizeOf(p) <= PageBytes)
  PROVE  pages' \in Seq(Items) /\ pages' # <<>> /\ PagesFit'
<1>1. pages \in Seq(Items)
  BY DEF WalkInv
<1>2. pages' \in Seq(Items) /\ pages' # <<>>
  BY <1>1, Appended
<1>3. /\ Len(pages) \in Nat /\ Len(pages') = Len(pages) + 1
      /\ pages'[Len(pages) + 1] = p /\ \A i \in 1..Len(pages) : pages'[i] = pages[i]
  BY <1>1
<1>4. ASSUME paged, NEW i \in 1..Len(pages'), Len(pages'[i]) > 1
      PROVE  SizeOf(pages'[i]) <= PageBytes
  <2>1. CASE i = Len(pages) + 1
    BY <1>3, <1>4, <2>1
  <2>2. CASE i # Len(pages) + 1
    <3>1. i \in 1..Len(pages) /\ pages'[i] = pages[i]
      BY <1>3, <2>2
    <3>2. QED
      BY <1>4, <3>1 DEF WalkInv, PagesFit
  <2>3. QED
    BY <2>1, <2>2
<1>5. QED
  BY <1>2, <1>4 DEF PagesFit

\* What one page holds, and where the next one begins.
OneOf(page, s, from) ==
  /\ page.items \in Items
  /\ Len(page.items) > 1 => SizeOf(page.items) <= PageBytes
  /\ \/ /\ page.cursor = NoCursor
        /\ page.items = SubSeq(s, from, Len(s))
     \/ /\ page.cursor # NoCursor
        /\ page.cursor = [method |-> "list", offset |-> page.cursor.offset, print |-> s]
        /\ page.cursor.offset \in PageStarts(s) /\ page.cursor.offset > from
        /\ page.items = SubSeq(s, from, page.cursor.offset - 1)

LEMMA OnePage ==
  ASSUME NEW s \in Items, NEW from \in PageStarts(s)
  PROVE  OneOf(PageFrom(s, from), s, from)
<1> DEFINE later == {i \in PageStarts(s) : i > from}
           next == CHOOSE i \in later : \A j \in later : i <= j
           n == Len(s)
<1>1. n \in Nat /\ from \in Nat \ {0} /\ \A i \in PageStarts(s) : i = 1 \/ i \in 2..n
  BY ItemsSized DEF PageStarts
<1>2. ASSUME NEW to \in 0..n PROVE SubSeq(s, from, to) \in Items
  BY <1>1 DEF Items
<1>3. CASE later = {}
  <2>1. PageFrom(s, from) = [items |-> SubSeq(s, from, n), cursor |-> NoCursor]
    BY <1>3 DEF PageFrom
  <2>2. SubSeq(s, from, n) \in Items
    BY <1>1, <1>2
  <2>3. ASSUME Len(SubSeq(s, from, n)) > 1 PROVE SizeOf(SubSeq(s, from, n)) <= PageBytes
    <3>1. from \in 1..n /\ n \in from..n
      <4>1. CASE n = 0
        <5>1. from = 1 /\ SubSeq(s, 1, 0) = <<>> /\ Len(<<>>) = 0
          BY <1>1, <4>1 DEF Items
        <5>2. QED
          BY <2>3, <4>1, <5>1
      <4>2. CASE n # 0
        BY <1>1, <4>2
      <4>3. QED
        BY <4>1, <4>2
    <3>2. \A i \in (from + 1)..n : i \notin PageStarts(s)
      BY <1>1, <1>3
    <3>3. QED
      BY <2>3, <3>1, <3>2, PageFits
  <2>4. PageFrom(s, from).items = SubSeq(s, from, n) /\ PageFrom(s, from).cursor = NoCursor
    <3> DEFINE rest == SubSeq(s, from, n)
    <3> HIDE DEF rest
    <3>1. PageFrom(s, from) = [items |-> rest, cursor |-> NoCursor]
      BY <2>1 DEF rest
    <3>2. PageFrom(s, from).items = rest /\ PageFrom(s, from).cursor = NoCursor
      BY <3>1
    <3>3. QED
      BY <3>2 DEF rest
  <2>5. QED
    BY <2>2, <2>3, <2>4 DEF OneOf
<1>4. CASE later # {}
  <2>1. \A i \in PageStarts(s) : i \in Nat
    BY <1>1
  <2>2. next \in later /\ \A j \in later : next <= j
    <3>2. later \subseteq Nat
      BY <2>1
    <3> HIDE DEF later
    <3>1. \E i \in later : \A j \in later : i <= j
      BY <1>4, <3>2, Least
    <3>3. QED
      BY <3>1
  <2>3. PageFrom(s, from) = [items |-> SubSeq(s, from, next - 1),
                             cursor |-> [method |-> "list", offset |-> next, print |-> s]]
    BY <1>4 DEF PageFrom
  <2> HIDE DEF next
  <2>4. next \in PageStarts(s) /\ next > from /\ next \in 2..n /\ next - 1 \in from..n
    BY <1>1, <2>2
  <2>5. SubSeq(s, from, next - 1) \in Items
    BY <1>1, <1>2, <2>4
  <2>6. ASSUME Len(SubSeq(s, from, next - 1)) > 1
        PROVE  SizeOf(SubSeq(s, from, next - 1)) <= PageBytes
    <3>1. from \in 1..n
      BY <1>1, <2>4
    <3>2. \A i \in (from + 1)..(next - 1) : i \notin PageStarts(s)
      BY <1>1, <2>2, <2>4
    <3>3. QED
      BY <2>4, <2>6, <3>1, <3>2, PageFits
  <2>7. [method |-> "list", offset |-> next, print |-> s] # NoCursor
    BY DEF NoCursor
  <2>8. QED
    BY <2>3, <2>4, <2>5, <2>6, <2>7 DEF OneOf
<1>5. QED
  BY <1>3, <1>4

\* A cursor that is let pass is the one the client was given, and of the list served.
LEMMA PassesOwn ==
  ASSUME WalkInv, walk = "walking", NEW c \in Presented, Ask(c),
         c = NoCursor \/ Accepts(c, list)
  PROVE  c = cursor
<1>1. c = cursor \/ cursor # NoCursor
  BY DEF Ask
<1>2. CASE cursor # NoCursor
  <2>1. cursor = [method |-> "list", offset |-> cursor.offset, print |-> cursor.print]
    BY <1>2 DEF WalkInv, GoesOn
  <2>0. c.method = "none" \/ (c.method = "list" /\ c.offset \in PageStarts(list))
    BY DEF NoCursor, Accepts
  <2>2. c # Garbled
    BY <2>0 DEF Garbled
  <2>3. c # [cursor EXCEPT !.method = "another list"]
    <3>1. [cursor EXCEPT !.method = "another list"].method = "another list"
      BY <2>1
    <3>2. QED
      BY <2>0, <3>1
  <2>4. ASSUME NEW o \in (1..Len(list)) \ PageStarts(list)
        PROVE  c # [cursor EXCEPT !.offset = o]
    <3>1. [cursor EXCEPT !.offset = o].method = "list" /\ [cursor EXCEPT !.offset = o].offset = o
      BY <2>1
    <3>2. QED
      BY <2>0, <3>1
  <2>5. QED
    BY <2>2, <2>3, <2>4 DEF Presented
<1>3. QED
  BY <1>1, <1>2

\* What was received and one page of what is left of the list.
LEMMA PagesMeet ==
  ASSUME NEW s \in Items, NEW from \in 1..(Len(s) + 1), NEW to \in (from - 1)..Len(s)
  PROVE  SubSeq(s, 1, from - 1) \o SubSeq(s, from, to) = SubSeq(s, 1, to)
<1>1. Len(s) \in Nat
  BY ItemsSized
<1> DEFINE a == SubSeq(s, 1, from - 1)
           b == SubSeq(s, from, to)
           e == SubSeq(s, 1, to)
<1>2. /\ a \in Items /\ Len(a) = from - 1 /\ \A i \in 1..(from - 1) : a[i] = s[i]
  BY <1>1 DEF Items
<1>3. /\ b \in Items /\ Len(b) = (to - from) + 1
      /\ \A i \in 1..(to - from) + 1 : b[i] = s[(from + i) - 1]
  BY <1>1 DEF Items
<1>4. /\ e \in Items /\ Len(e) = to /\ \A i \in 1..to : e[i] = s[i]
  BY <1>1 DEF Items
<1> HIDE DEF a, b, e
<1>5. a \o b \in Items /\ Len(a \o b) = to
  <2>1. a \in Seq(Item) /\ b \in Seq(Item)
    BY <1>2, <1>3 DEF Items
  <2>2. a \o b \in Seq(Item) /\ Len(a \o b) = Len(a) + Len(b)
    BY <2>1
  <2>3. (from - 1) + ((to - from) + 1) = to
    BY <1>1
  <2>4. QED
    BY <1>2, <1>3, <2>2, <2>3 DEF Items
<1>6. ASSUME NEW i \in 1..to PROVE (a \o b)[i] = s[i]
  <2>1. CASE i \in 1..(from - 1)
    <3>1. (a \o b)[i] = a[i]
      BY <1>2, <1>3, <2>1 DEF Items
    <3>2. QED
      BY <1>2, <2>1, <3>1
  <2>2. CASE i \notin 1..(from - 1)
    <3> DEFINE j == i - (from - 1)
    <3>1. j \in 1..(to - from) + 1 /\ (from - 1) + j = i /\ (from + j) - 1 = i
      BY <1>1, <2>2
    <3> HIDE DEF j
    <3>2. (a \o b)[Len(a) + j] = b[j]
      BY <1>2, <1>3, <3>1 DEF Items
    <3>3. QED
      BY <1>2, <1>3, <3>1, <3>2
  <2>3. QED
    BY <2>1, <2>2
<1>7. a \o b = e
  BY <1>4, <1>5, <1>6, SameSeq DEF Items
<1>8. QED
  BY <1>7 DEF a, b, e

LEMMA AskKeepsWalk ==
  ASSUME WalkInv, NEW c \in Presented, Ask(c)
  PROVE  WalkInv'
<1>1. /\ walk = "walking" /\ honest' = (honest /\ c = cursor) /\ UNCHANGED <<list, paged>>
      /\ c = cursor \/ cursor # NoCursor
      /\ list \in Items /\ paged \in BOOLEAN /\ honest \in BOOLEAN /\ pages \in Seq(Items)
      /\ GoesOn
  BY DEF Ask, WalkInv
<1>2. CASE paged /\ c # NoCursor /\ ~Accepts(c, list)
  <2>1. walk' = "refused" /\ UNCHANGED <<pages, cursor>>
    BY <1>2 DEF Ask
  <2>2. honest /\ c = cursor => Accepts(c, list)
    BY <1>1, <1>2 DEF GoesOn, Accepts
  <2>3. QED
    BY <1>1, <1>2, <2>1, <2>2 DEF WalkInv, PagesFit
<1>3. CASE ~(paged /\ c # NoCursor /\ ~Accepts(c, list))
  <2> DEFINE page == Page(list, c)
  <2>1. /\ pages' = Append(pages, page.items) /\ cursor' = page.cursor
        /\ walk' = IF page.cursor = NoCursor THEN "whole" ELSE "walking"
    BY <1>3 DEF Ask
  <2>2. CASE ~paged
    <3>1. page.items = list /\ page.cursor = NoCursor /\ pages = <<>>
      BY <1>1, <2>2 DEF Page, GoesOn
    <3>2. pages' \in Seq(Items) /\ PagesFit'
      BY <1>1, <2>1, <2>2, <3>1, OneMoreFits
    <3>3. FlattenSeq(pages') = list
      <4>1. list \in Seq(Item) /\ <<>> \in Seq(Seq(Item)) /\ Len(<<>>) = 0
        BY <1>1 DEF Items
      <4>2. pages' = Append(<<>>, list)
        BY <2>1, <3>1
      <4>3. QED
        BY <4>1, <4>2, FlattenAppend
    <3>4. QED
      BY <1>1, <2>1, <3>1, <3>2, <3>3 DEF WalkInv
  <2>3. CASE paged
    <3> DEFINE from == IF c = NoCursor THEN 1 ELSE c.offset
    <3>1. c = cursor
      BY <1>1, <1>3, <2>3, PassesOwn
    <3>2. c # NoCursor => Accepts(c, list)
      BY <1>3, <2>3
    <3>3. from \in PageStarts(list)
      BY <3>2 DEF Accepts, PageStarts
    <3>4. from \in 1..(Len(list) + 1) /\ Len(list) \in Nat
      BY <1>1, <3>3, ItemsSized DEF PageStarts
    <3>5. /\ c = NoCursor => pages = <<>> /\ from = 1
          /\ c # NoCursor => pages # <<>> /\ FlattenSeq(pages) = SubSeq(list, 1, from - 1)
      <4>1. \/ cursor = NoCursor /\ pages = <<>>
            \/ /\ cursor.method = "list" /\ pages # <<>>
               /\ FlattenSeq(pages) = SubSeq(cursor.print, 1, cursor.offset - 1)
        BY <1>1 DEF GoesOn
      <4>2. NoCursor.method # "list"
        BY DEF NoCursor
      <4>3. CASE c = NoCursor
        BY <3>1, <4>1, <4>2, <4>3
      <4>4. CASE c # NoCursor
        BY <3>1, <3>2, <4>1, <4>4 DEF Accepts
      <4>5. QED
        BY <4>3, <4>4
    <3>6. page = PageFrom(list, from)
      BY <2>3 DEF Page
    <3> HIDE DEF from, page
    <3>7. OneOf(page, list, from)
      BY <1>1, <3>3, <3>6, OnePage
    <3>8. pages' \in Seq(Items) /\ pages' # <<>> /\ PagesFit'
      BY <1>1, <2>1, <3>7, OneMoreFits DEF OneOf
    <3>9. ASSUME NEW to \in (from - 1)..Len(list), page.items = SubSeq(list, from, to)
          PROVE  FlattenSeq(pages') = SubSeq(list, 1, to)
      <4>1. page.items \in Seq(Item) /\ pages \in Seq(Seq(Item)) /\ Len(<<>>) = 0
        BY <1>1, <3>7 DEF OneOf, Items
      <4>2. FlattenSeq(pages') = IF Len(pages) = 0 THEN page.items ELSE FlattenSeq(pages) \o page.items
        BY <2>1, <4>1, FlattenAppend
      <4>3. CASE c = NoCursor
        BY <3>5, <3>9, <4>1, <4>2, <4>3
      <4>4. CASE c # NoCursor
        <5>1. Len(pages) # 0
          BY <3>5, <4>1, <4>4
        <5>2. QED
          BY <1>1, <3>4, <3>5, <3>9, <4>2, <4>4, <5>1, PagesMeet
      <4>5. QED
        BY <4>3, <4>4
    <3>10. CASE page.cursor = NoCursor
      <4>1. page.items = SubSeq(list, from, Len(list)) /\ Len(list) \in (from - 1)..Len(list)
        BY <3>4, <3>7, <3>10 DEF OneOf
      <4>2. FlattenSeq(pages') = SubSeq(list, 1, Len(list))
        BY <3>9, <4>1
      <4>3. SubSeq(list, 1, Len(list)) = list
        BY <1>1 DEF Items
      <4>4. QED
        BY <1>1, <2>1, <3>8, <3>10, <4>2, <4>3 DEF WalkInv
    <3>11. CASE page.cursor # NoCursor
      <4> DEFINE next == page.cursor.offset
      <4>1. /\ page.cursor = [method |-> "list", offset |-> next, print |-> list]
            /\ next \in PageStarts(list) /\ next > from
            /\ page.items = SubSeq(list, from, next - 1)
        BY <3>7, <3>11 DEF OneOf
      <4>2. next \in 2..Len(list) /\ next # 1 /\ next - 1 \in (from - 1)..Len(list)
        BY <3>4, <4>1 DEF PageStarts
      <4>3. FlattenSeq(pages') = SubSeq(list, 1, next - 1)
        BY <3>9, <4>1, <4>2
      <4> HIDE DEF next
      <4>4. cursor' = [method |-> "list", offset |-> next, print |-> list]
        BY <2>1, <4>1
      <4>5. cursor'.offset = next /\ cursor'.print = list
        BY <4>4
      <4>6. GoesOn'
        BY <1>1, <2>3, <3>8, <4>1, <4>2, <4>3, <4>4, <4>5 DEF GoesOn
      <4>7. QED
        BY <1>1, <2>1, <3>8, <3>11, <4>6 DEF WalkInv
    <3>12. QED
      BY <3>10, <3>11
  <2>4. QED
    BY <1>1, <2>2, <2>3
<1>4. QED
  BY <1>2, <1>3

LEMMA WalkInvInductive ==
  ASSUME WalkInv, [PageStep]_pageVars
  PROVE  WalkInv'
<1>1. CASE Replace
  <2>1. /\ walk = "walking" /\ pages # <<>> /\ list' \in Lists /\ honest' = FALSE
        /\ UNCHANGED <<paged, walk, pages, cursor>>
    BY <1>1 DEF Replace
  <2>2. list' \in Items
    BY <2>1, PagesAssumption DEF Items, Item
  <2>3. GoesOn'
    BY <2>1 DEF WalkInv, GoesOn
  <2>4. QED
    BY <2>1, <2>2, <2>3 DEF WalkInv, PagesFit
<1>2. ASSUME NEW c \in Presented, Ask(c) PROVE WalkInv'
  BY <1>2, AskKeepsWalk
<1>3. CASE UNCHANGED pageVars
  BY <1>3 DEF pageVars, WalkInv, GoesOn, PagesFit
<1>4. QED
  BY <1>1, <1>2, <1>3 DEF PageStep

LEMMA WalkInvSuffices == WalkInv => WalkIsWhole
BY DEF WalkInv, PagesFit, WalkIsWhole

-----------------------------------------------------------------------------
(* ServerProcess *)

(***************************************************************************)
(* Every step of the process is a step or a stutter of each of its parts.  *)
(***************************************************************************)

LEMMA StepsOfParts ==
  ASSUME [Next]_vars
  PROVE  /\ [HttpNext]_httpVars
         /\ [HookNext]_hookVars
         /\ [BudgetNext]_budgetVars
         /\ [RequestStep \/ PeopleStep]_requestVars
         /\ [PageStep]_pageVars
<1>1. CASE UNCHANGED workVars
  BY <1>1 DEF workVars, toolVars
<1>2. CASE BindFails
  BY <1>2 DEF BindFails, toolVars, HttpNext
<1>3. CASE Signal
  BY <1>3 DEF Signal, workVars, toolVars, HttpNext
<1>4. CASE Arrives
  BY <1>4 DEF Arrives, toolVars, HttpNext, HookNext
<1>5. ASSUME NEW r \in Requests, Handles(r) PROVE [HttpNext]_httpVars /\ UNCHANGED <<hookVars, toolVars>>
  BY <1>5 DEF Handles, HttpNext
<1>6. CASE ClientActs \/ Closes
  BY <1>6 DEF ClientActs, Closes, toolVars, HttpNext
<1>7. CASE Appends \/ AppendBreaks \/ \E d \in Deliveries : Acknowledges(d)
  BY <1>7 DEF Appends, AppendBreaks, Acknowledges, toolVars, HookNext
<1>8. CASE Drains \/ BudgetDisturbed \/ \E c \in Calls : CallMoves(c)
  BY <1>8 DEF Drains, BudgetDisturbed, CallMoves, Serves, BudgetNext
<1>9. CASE ToolCalled \/ Walks
  BY <1>9 DEF ToolCalled, Walks, Serves
<1>10. CASE LoadConfig \/ StartStdioOnly \/ Mount \/ Listen \/ Unbound \/ Shutdown \/ HardExit \/ Exited
  BY <1>10, <1>1 DEF LoadConfig, StartStdioOnly, Mount, Listen, Unbound, Shutdown, HardExit, Exited,
                 McpClosed, ServerClosed, WebhookFlushed, OAuthClosed, LimiterFlushed, Proceed, vars
<1>11. CASE UNCHANGED vars
  BY <1>1, <1>11 DEF vars
<1>12. QED
  BY <1>2, <1>3, <1>4, <1>5, <1>6, <1>7, <1>8, <1>9, <1>10, <1>11 DEF Next, toolVars

(***************************************************************************)
(* The invariant of the process's life.                                    *)
(***************************************************************************)

\* What start-up has decided holds as long as the process does.
Configured ==
  /\ env \in Environments /\ phase \in Phases
  /\ phase \in {"loaded", "mounted", "unbinding", "running"} => Accepted(env)
  /\ phase \in {"mounted", "unbinding", "running"} => Mountable(env)
  /\ phase = "stdio" => ~HttpMcp(env)

\* Nothing is served before the process listens, nor where remote MCP is not mounted, and a
\* shutdown that has come past closeAll() has closed everything.
Starting == {"off", "loaded", "mounted", "unbinding"}

HttpQuiet ==
  /\ phase \in Starting \/ ~HttpMcp(env) =>
       /\ pc \in [Requests -> {"absent", "unsent"}]
       /\ open = {} /\ connected = {}
  /\ phase \in {"server", "webhook", "oauth", "limiter"} /\ HttpMcp(env) => closing = "done"

\* An append under way is the one of the first event queued.
HookInv ==
  /\ appendQueue \in Seq(Deliveries)
  /\ Flushed => appending = "idle"

\* No delivery is open once server.close() has waited, and no append once flush() has.
HookQuiet ==
  /\ phase \in Starting \cup {"stdio", "webhook", "oauth", "limiter"} => NoDelivery
  /\ phase \in Starting \cup {"stdio", "oauth", "limiter"} => Flushed

OAuthQuiet ==
  phase \in {"off", "loaded", "stdio", "limiter"} => oauth # "open"

BudgetQuiet == phase \in Starting => Drained

LifeInv ==
  /\ HttpInv /\ BudgetInv /\ RequestInv
  /\ Configured /\ HttpQuiet /\ HookInv /\ HookQuiet /\ OAuthQuiet /\ BudgetQuiet
  /\ CleanExit

LEMMA LifeInvInitial == Init => LifeInv
<1> SUFFICES ASSUME Init PROVE LifeInv
  OBVIOUS
<1>1. PICK load : Load(load) /\ env \in Environments
  BY ProcessAssumption DEF Init
<1>2. /\ pc \in [Requests -> {"absent", "unsent"}]
      /\ call \in [Calls -> {"absent", "wanting"}]
      /\ \A d \in Deliveries : hook[d] # "arrived"
  BY <1>1 DEF Load
<1>3. HttpInit /\ HookInit /\ BudgetInit /\ RequestInit /\ phase = "off" /\ oauth = "none"
  BY DEF Init
<1>4. HttpInv
  BY <1>2, <1>3, HttpInvInitial
<1>5. BudgetInv
  BY <1>2, <1>3, BudgetInvInitial
<1>6. RequestInv
  BY <1>3, InitImpliesInvariant
<1>7. Configured
  BY <1>1, <1>3 DEF Configured, Phases
<1>8. HttpQuiet
  BY <1>2, <1>3 DEF HttpQuiet, HttpInit
<1>9. HookInv /\ HookQuiet
  BY <1>2, <1>3 DEF HookInv, HookQuiet, NoDelivery, Flushed, HookInit
<1>10. OAuthQuiet /\ BudgetQuiet
  BY <1>3 DEF OAuthQuiet, BudgetQuiet, Drained, BudgetInit
<1>11. CleanExit
  BY <1>3 DEF CleanExit
<1>12. QED
  BY <1>4, <1>5, <1>6, <1>7, <1>8, <1>9, <1>10, <1>11 DEF LifeInv

(***************************************************************************)
(* Each part of it, step by step.                                          *)
(***************************************************************************)

\* The phase moves by these actions alone, and the environment never.
LifeMoves ==
  LoadConfig \/ StartStdioOnly \/ Mount \/ Listen \/ BindFails \/ Unbound \/ Signal \/ Shutdown
    \/ HardExit

LEMMA LifeRests ==
  ASSUME [Next]_vars, ~LifeMoves
  PROVE  /\ UNCHANGED lifeVars
         /\ phase # "exited" \/ UNCHANGED workVars
         /\ phase # "running" => ~Arrives
         /\ phase \in Starting => UNCHANGED toolVars
<1>1. CASE UNCHANGED vars
  BY <1>1 DEF vars, workVars, Arrives
<1>2. CASE Exited
  BY <1>2 DEF Exited, vars, workVars, Starting, Arrives
<1>3. CASE Arrives
  BY <1>3 DEF Arrives, Starting
<1>4. CASE ClientActs \/ Closes \/ Appends \/ AppendBreaks \/ (\E r \in Requests : Handles(r))
             \/ \E d \in Deliveries : Acknowledges(d)
  BY <1>4 DEF ClientActs, Handles, Closes, Appends, AppendBreaks, Acknowledges, Alive, Starting,
              ShuttingDown, Arrives
<1>5. CASE Drains \/ BudgetDisturbed \/ ToolCalled \/ Walks \/ \E c \in Calls : CallMoves(c)
  BY <1>5 DEF Drains, BudgetDisturbed, ToolCalled, Walks, CallMoves, Serves, Alive, Starting,
              ShuttingDown, Arrives
<1>6. QED
  BY <1>1, <1>2, <1>3, <1>4, <1>5 DEF Next, LifeMoves

LEMMA HookInvInductive ==
  ASSUME HookInv, [HookNext]_hookVars
  PROVE  HookInv'
<1>1. ASSUME NEW d \in Deliveries, HookArrives(d) \/ HookDeadline(d) PROVE HookInv'
  BY <1>1 DEF HookArrives, HookDeadline, logVars, HookInv, Flushed
<1>2. ASSUME NEW d \in Deliveries, HookBody(d) PROVE HookInv'
  BY <1>2 DEF HookBody, Record, logVars, HookInv, Flushed
<1>3. CASE StartAppend \/ RemoveBackup \/ RenameLog
  BY <1>3 DEF StartAppend, RemoveBackup, RenameLog, HookInv, Flushed
<1>4. CASE WriteLine \/ AppendFails
  <2>1. Settled(Chained(appendQueue))
    BY <1>4 DEF WriteLine, AppendFails
  <2>2. appending' = "idle"
    BY <2>1 DEF Settled
  <2>3. PICK i \in DOMAIN appendQueue :
          appendQueue' = SubSeq(appendQueue, 1, i - 1)
                           \o SubSeq(appendQueue, i + 1, Len(appendQueue))
    BY <2>1 DEF Settled
  <2>4. appendQueue' \in Seq(Deliveries)
    BY <2>3 DEF HookInv
  <2>5. QED
    BY <2>2, <2>4 DEF HookInv
<1>5. CASE UNCHANGED hookVars
  BY <1>5 DEF hookVars, logVars, HookInv, Flushed
<1>6. QED
  BY <1>1, <1>2, <1>3, <1>4, <1>5 DEF HookNext, AppendStep

LEMMA ConfiguredKept ==
  ASSUME Configured, [Next]_vars
  PROVE  Configured' /\ env' = env
<1>1. CASE LoadConfig \/ StartStdioOnly \/ Mount
  BY <1>1 DEF LoadConfig, StartStdioOnly, Mount, Configured, Phases, Listens, HttpMcp
<1>2. CASE Listen \/ BindFails \/ Unbound
  BY <1>2 DEF Listen, BindFails, Unbound, Configured, Phases
<1>3. CASE Signal \/ HardExit
  BY <1>3 DEF Signal, HardExit, Configured, Phases, ShuttingDown
<1>4. CASE Shutdown
  BY <1>4 DEF Shutdown, McpClosed, ServerClosed, WebhookFlushed, OAuthClosed, LimiterFlushed,
              Proceed, Configured, Phases, ShuttingDown
<1>5. CASE ~LifeMoves
  BY <1>5, LifeRests DEF lifeVars, Configured
<1>6. QED
  BY <1>1, <1>2, <1>3, <1>4, <1>5 DEF LifeMoves

\* The handler of a request has it only once it has arrived.
LEMMA NothingToHandle ==
  ASSUME pc \in [Requests -> {"absent", "unsent"}], open = {}, connected = {},
         (\E r \in Requests : HandlerStep(r)) \/ ClientStep \/ CloseStep
  PROVE  UNCHANGED <<pc, connected>> /\ open' = {}
<1>1. ASSUME NEW r \in Requests, HandlerStep(r) PROVE FALSE
  BY <1>1 DEF HandlerStep, RefusedByEra, Initialize, SessionInitialized, Answered, Unknown,
              DeleteSession, LeaveSession, Admit, Settle, InitializationFails, EnterSession
<1>2. CASE ClientStep
  BY <1>2 DEF ClientStep, StreamHangsUp, HangUp, InitializationFails, Reap
<1>3. CASE CloseStep
  BY <1>3 DEF CloseStep, CloseAllTakesSessions, CloseAllEnds
<1>4. QED
  BY <1>1, <1>2, <1>3

LEMMA HttpQuietKept ==
  ASSUME HttpQuiet, Configured, [Next]_vars
  PROVE  HttpQuiet'
<1>0. env' = env
  BY ConfiguredKept
<1>1. CASE LoadConfig \/ StartStdioOnly \/ Mount \/ Listen
  BY <1>1 DEF LoadConfig, StartStdioOnly, Mount, Listen, workVars, httpVars, HttpQuiet, Starting,
              Configured
<1>2. CASE BindFails
  BY <1>0, <1>2 DEF BindFails, HttpQuiet, Starting, CloseAllBegins, sessionVars, httpVars
<1>3. CASE Unbound \/ HardExit
  BY <1>0, <1>3 DEF Unbound, HardExit, HttpQuiet, Starting, workVars, httpVars, ShuttingDown
<1>4. CASE Signal
  BY <1>0, <1>4 DEF Signal, HttpQuiet, Starting, Configured, CloseAllBegins, sessionVars, workVars,
                    httpVars
<1>5. CASE Shutdown
  BY <1>0, <1>5 DEF Shutdown, McpClosed, ServerClosed, WebhookFlushed, OAuthClosed,
                    LimiterFlushed, Proceed, HttpQuiet, Starting, workVars, httpVars
<1>6. CASE ~LifeMoves /\ UNCHANGED httpVars
  BY <1>6, LifeRests DEF lifeVars, httpVars, HttpQuiet
<1>7. CASE ~LifeMoves /\ ~UNCHANGED httpVars
  <2>1. UNCHANGED lifeVars
    BY <1>7, LifeRests
  <2>2. CASE Arrives
    <3>1. HttpMcp(env) /\ phase = "running"
      BY <1>7, <2>2 DEF Arrives
    <3>2. QED
      BY <2>1, <3>1 DEF HttpQuiet, lifeVars, Starting
  <2>3. CASE (\E r \in Requests : Handles(r)) \/ ClientActs \/ Closes
    <3>1. (\E r \in Requests : HandlerStep(r)) \/ ClientStep \/ CloseStep
      BY <2>3 DEF Handles, ClientActs, Closes
    <3>2. closing = "done" => closing' = "done"
      BY <3>1 DEF HandlerStep, RefusedByEra, Initialize, SessionInitialized, Answered, Unknown,
                  DeleteSession, LeaveSession, Admit, Settle, InitializationFails, EnterSession,
                  ClientStep, StreamHangsUp, HangUp, Reap, CloseStep, CloseAllTakesSessions,
                  CloseAllEnds, closeVars
    <3>3. QED
      BY <2>1, <3>1, <3>2, NothingToHandle DEF HttpQuiet, lifeVars
  <2>4. QED
    BY <1>7, <2>2, <2>3 DEF Next, LifeMoves, vars, workVars, Exited, Acknowledges, Appends,
       AppendBreaks, Drains, BudgetDisturbed, ToolCalled, Walks, CallMoves, Serves
<1>8. QED
  BY <1>1, <1>2, <1>3, <1>4, <1>5, <1>6, <1>7 DEF LifeMoves

LEMMA HookQuietKept ==
  ASSUME HookQuiet, HookInv, HookInv', [Next]_vars
  PROVE  HookQuiet'
<1>1. CASE LoadConfig \/ StartStdioOnly \/ Mount \/ Listen
  BY <1>1 DEF LoadConfig, StartStdioOnly, Mount, Listen, workVars, hookVars, logVars, HookQuiet,
              Starting, NoDelivery, Flushed
<1>2. CASE BindFails \/ Unbound \/ HardExit
  BY <1>2 DEF BindFails, Unbound, HardExit, HookQuiet, Starting, workVars, hookVars, logVars,
              NoDelivery, Flushed
<1>3. CASE Signal
  BY <1>3 DEF Signal, HookQuiet, Starting, workVars, hookVars, logVars, NoDelivery, Flushed
<1>4. CASE Shutdown
  BY <1>4 DEF Shutdown, McpClosed, ServerClosed, WebhookFlushed, OAuthClosed, LimiterFlushed,
              Proceed, HookQuiet, Starting, workVars, hookVars, logVars, NoDelivery, Flushed
<1>5. CASE ~LifeMoves
  <2>1. UNCHANGED lifeVars /\ (phase # "running" => ~Arrives)
    BY <1>5, LifeRests
  <2>2. SUFFICES ASSUME phase # "running" PROVE HookQuiet'
    BY <2>1 DEF HookQuiet, lifeVars, Starting
  <2>3. NoDelivery => NoDelivery' /\ (Flushed => Flushed')
    <3>1. CASE UNCHANGED hookVars
      BY <3>1 DEF hookVars, logVars, NoDelivery, Flushed
    <3>2. ASSUME NEW d \in Deliveries, HookBody(d) \/ HookDeadline(d) PROVE ~NoDelivery
      BY <3>2 DEF HookBody, HookDeadline, NoDelivery
    <3>3. CASE AppendStep \/ AppendFails
      <4>1. hook' = hook /\ ~Flushed
        BY <3>3 DEF AppendStep, AppendFails, StartAppend, RemoveBackup, RenameLog, WriteLine,
                    HookInv, Flushed
      <4>2. QED
        BY <4>1 DEF NoDelivery
    <3>4. QED
      BY <1>5, <2>1, <2>2, <3>1, <3>2, <3>3 DEF Next, LifeMoves, vars, workVars, Exited,
         Acknowledges, Appends, AppendBreaks, Drains, BudgetDisturbed, ToolCalled, Walks,
         CallMoves, Serves, Handles, ClientActs, Closes
  <2>4. QED
    BY <2>1, <2>3 DEF HookQuiet, lifeVars, Starting
<1>6. QED
  BY <1>1, <1>2, <1>3, <1>4, <1>5 DEF LifeMoves

LEMMA OAuthQuietKept ==
  ASSUME OAuthQuiet, [Next]_vars
  PROVE  OAuthQuiet'
<1>1. CASE LoadConfig \/ StartStdioOnly \/ Mount \/ Listen \/ BindFails \/ Unbound \/ HardExit
  BY <1>1 DEF LoadConfig, StartStdioOnly, Mount, Listen, BindFails, Unbound, HardExit, OAuthQuiet
<1>2. CASE Signal
  BY <1>2 DEF Signal, OAuthQuiet
<1>3. CASE Shutdown
  BY <1>3 DEF Shutdown, McpClosed, ServerClosed, WebhookFlushed, OAuthClosed, LimiterFlushed,
              Proceed, OAuthQuiet
<1>4. CASE ~LifeMoves
  BY <1>4, LifeRests DEF lifeVars, OAuthQuiet
<1>5. QED
  BY <1>1, <1>2, <1>3, <1>4 DEF LifeMoves

LEMMA BudgetQuietKept ==
  ASSUME BudgetQuiet, [Next]_vars
  PROVE  BudgetQuiet'
<1>1. CASE LoadConfig \/ StartStdioOnly \/ Mount \/ Listen \/ BindFails \/ Unbound \/ HardExit
  BY <1>1 DEF LoadConfig, StartStdioOnly, Mount, Listen, BindFails, Unbound, HardExit, BudgetQuiet,
              Drained, workVars, toolVars, budgetVars, Starting
<1>2. CASE Signal \/ Shutdown
  BY <1>2 DEF Signal, Shutdown, McpClosed, ServerClosed, WebhookFlushed, OAuthClosed,
              LimiterFlushed, Proceed, BudgetQuiet, Starting
<1>3. CASE ~LifeMoves
  BY <1>3, LifeRests DEF lifeVars, BudgetQuiet, toolVars, budgetVars, Drained
<1>4. QED
  BY <1>1, <1>2, <1>3 DEF LifeMoves

LEMMA CleanExitKept ==
  ASSUME LifeInv, [Next]_vars
  PROVE  CleanExit'
<1>1. CASE HardExit \/ Listen \/ StartStdioOnly \/ BindFails \/ Signal
  BY <1>1 DEF HardExit, Listen, StartStdioOnly, BindFails, Signal, CleanExit
<1>2. CASE LoadConfig \/ Mount
  <2>1. UNCHANGED workVars /\ phase \in Starting
    BY <1>2 DEF LoadConfig, Mount, Starting
  <2>2. phase' = "exited" => oauth' # "open"
    BY <1>2 DEF LifeInv, OAuthQuiet, LoadConfig, Mount
  <2>3. open = {} /\ connected = {} /\ Creating = {} /\ Flushed /\ Drained
    BY <2>1 DEF LifeInv, HttpQuiet, HookQuiet, BudgetQuiet, Creating
  <2>4. QED
    BY <2>1, <2>2, <2>3 DEF CleanExit, workVars, httpVars, hookVars, toolVars, budgetVars,
                            logVars, Creating, Flushed, Drained
<1>3. CASE Unbound
  <2>1. UNCHANGED workVars /\ phase \in Starting
    BY <1>3 DEF Unbound, Starting
  <2>2. oauth' # "open"
    BY <1>3 DEF Unbound
  <2>3. open = {} /\ connected = {} /\ Creating = {} /\ Flushed /\ Drained
    BY <2>1 DEF LifeInv, HttpQuiet, HookQuiet, BudgetQuiet, Creating
  <2>4. QED
    BY <2>1, <2>2, <2>3 DEF CleanExit, workVars, httpVars, hookVars, toolVars, budgetVars,
                            logVars, Creating, Flushed, Drained
<1>4. CASE McpClosed \/ ServerClosed \/ WebhookFlushed \/ OAuthClosed
  BY <1>4 DEF McpClosed, ServerClosed, WebhookFlushed, OAuthClosed, Proceed, CleanExit
<1>5. CASE LimiterFlushed
  <2>1. UNCHANGED <<oauth, workVars>> /\ phase = "limiter" /\ Drained
    BY <1>5 DEF LimiterFlushed, Proceed
  <2>2. Flushed /\ oauth # "open"
    BY <2>1 DEF LifeInv, HookQuiet, OAuthQuiet
  <2>3. open = {} /\ connected = {} /\ Creating = {}
    <3>1. CASE HttpMcp(env)
      <4>1. closing = "done"
        BY <2>1, <3>1 DEF LifeInv, HttpQuiet
      <4>2. QED
        BY <4>1 DEF LifeInv, HttpInv, ClosingFindsAll, Accounted, NothingUncounted
    <3>2. CASE ~HttpMcp(env)
      BY <2>1, <3>2 DEF LifeInv, HttpQuiet, Creating
    <3>3. QED
      BY <3>1, <3>2
  <2>4. QED
    BY <2>1, <2>2, <2>3 DEF CleanExit, workVars, httpVars, hookVars, toolVars, budgetVars,
                            logVars, Creating, Flushed, Drained
<1>6. CASE ~LifeMoves
  <2>1. UNCHANGED lifeVars /\ (phase # "exited" \/ UNCHANGED workVars)
    BY <1>6, LifeRests
  <2>2. QED
    BY <2>1 DEF lifeVars, LifeInv, CleanExit, workVars, httpVars, hookVars, toolVars, budgetVars,
                logVars, Creating, Flushed, Drained
<1>7. QED
  BY <1>1, <1>2, <1>3, <1>4, <1>5, <1>6 DEF LifeMoves, Shutdown

LEMMA LifeInvInductive ==
  ASSUME LifeInv, [Next]_vars
  PROVE  LifeInv'
<1>1. HttpInv' /\ HookInv' /\ BudgetInv' /\ RequestInv'
  BY StepsOfParts, HttpInvInductive, HookInvInductive, BudgetInvInductive, RequestInvInductive
     DEF LifeInv
<1>2. Configured' /\ HttpQuiet' /\ HookQuiet' /\ OAuthQuiet' /\ BudgetQuiet' /\ CleanExit'
  BY <1>1, ConfiguredKept, HttpQuietKept, HookQuietKept, OAuthQuietKept, BudgetQuietKept,
     CleanExitKept DEF LifeInv
<1>3. QED
  BY <1>1, <1>2 DEF LifeInv

LEMMA LifeInvHolds == Spec => []LifeInv
BY LifeInvInitial, LifeInvInductive, PTL DEF Spec

(***************************************************************************)
(* The theorems.                                                           *)
(***************************************************************************)

\* An exit that no hard timer forced leaves nothing behind: whatever was mounted, whatever was
\* being served, and whichever closer failed.
THEOREM ExitIsClean == Spec => []CleanExit
BY LifeInvHolds, PTL DEF LifeInv

\* In every environment a process that listens authenticates remote MCP with a strong secret, or
\* binds a loopback address, or was told to do without; and its OAuth issuer is https, or a URL of
\* this machine, or both overrides are set, that of the configuration and that of the SDK.  It
\* takes the checks of load() and of startHttpServer() together: neither is enough.
THEOREM ExposureIsGuarded == Spec => []ExposedOnlyGuarded
<1>1. LifeInv => ExposedOnlyGuarded
  <2>1. SUFFICES ASSUME LifeInv, phase = "running" PROVE ExposedOnlyGuarded
    BY DEF ExposedOnlyGuarded
  <2>2. Accepted(env) /\ Mountable(env) /\ env \in Environments
    BY <2>1 DEF LifeInv, Configured
  <2>3. QED
    BY <2>2 DEF ExposedOnlyGuarded, Accepted, AcceptedByHttpConfig, SecurePublicUrl, PublicUrl,
                Mountable, IssuerAccepted, Environments, Hosts, HttpMcp, WebhookEnabled, IsLoopback
<1>2. QED
  BY <1>1, LifeInvHolds, PTL

\* For any number of requests and any limits: the counters of the endpoint are exact, nothing
\* is connected that they do not count, and no limit is exceeded.
THEOREM EndpointIsAccounted == Spec => []Accounted
BY LifeInvHolds, PTL DEF LifeInv, HttpInv

\* A session with a request inside is never reaped, in any number of sessions and requests.
THEOREM BusySessionsStay == Spec => BusySessionKept
<1>1. LifeInv /\ [Next]_vars =>
        [\A s \in open \ open' :
           active[s] > 0 =>
             \/ \E r \in Requests : kind[r] = "delete" /\ pc[r] = "serving" /\ at[r] = s
             \/ pc[s] = "answering" /\ pc'[s] = "done"
             \/ closing # closing']_httpVars
  BY StepsOfParts, OnlyIdleDropped DEF LifeInv
<1>2. QED
  BY <1>1, LifeInvHolds, PTL DEF Spec, BusySessionKept

\* The ledger of the shared budget adds up for any number of calls of any processes.
THEOREM BudgetAddsUp == Spec => []LedgerAdds
BY LifeInvHolds, PTL DEF LifeInv, BudgetInv

\* The tool call a live process serves says it did nothing only when Avito has done nothing.
THEOREM ServedCallTellsTheTruth == Spec => []LatchTellsTheTruth
BY LifeInvHolds, InvariantSuffices, PTL DEF LifeInv

\* The tool call a live process serves changes Avito once at most.
THEOREM ServedCallChangesOnce == Spec => []NoBlindResend
BY LifeInvHolds, InvariantSuffices, PTL DEF LifeInv

\* The tool call a live process serves changes only what policy, dryRun and approval license.
THEOREM ServedCallIsLicensed == Spec => []OnlyAsLicensed
BY LifeInvHolds, InvariantSuffices, PTL DEF LifeInv

(***************************************************************************)
(* The log and the walk keep invariants of their own.                      *)
(***************************************************************************)

LEMMA LogInvHolds == Spec => []LogInv
<1>1. Init => LogInv
  <2> SUFFICES ASSUME Init PROVE LogInv
    OBVIOUS
  <2>1. PICK load : Load(load)
    BY ProcessAssumption DEF Init
  <2>2. hook \in [Deliveries -> {"absent", "unsent", "arrived", "done"}]
    BY <2>1 DEF Load
  <2>3. HookInit
    BY DEF Init
  <2>4. QED
    BY <2>2, <2>3, LogInvInitial
<1>2. LogInv /\ [Next]_vars => LogInv'
  BY StepsOfParts, LogInvInductive
<1>3. QED
  BY <1>1, <1>2, PTL DEF Spec

LEMMA WalkInvHolds == Spec => []WalkInv
<1>1. Init => WalkInv
  BY WalkInvInitial DEF Init
<1>2. WalkInv /\ [Next]_vars => WalkInv'
  BY StepsOfParts, WalkInvInductive
<1>3. QED
  BY <1>1, <1>2, PTL DEF Spec

\* For any deliveries, buffer and log size, and whichever appends and rotations fail: the ring is
\* what was received last; the lines on disk are the events handled and not given up, in order,
\* but for the oldest; and a store that says it is healthy has written the last event whole.
THEOREM LogIsTruthful == Spec => []LogTellsTheTruth
BY LogInvHolds, LogInvSuffices, PTL

\* For any lists and any page budget: a walk that comes to its end has returned the list that
\* is served, whatever was replaced or presented on the way, in pages within the budget or of
\* one item; and a client that follows its cursors is not refused.
THEOREM WalksAreWhole == Spec => []WalkIsWhole
BY WalkInvHolds, WalkInvSuffices, PTL
=============================================================================
