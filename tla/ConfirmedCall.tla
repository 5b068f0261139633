----------------------------- MODULE ConfirmedCall -----------------------------
(***************************************************************************)
(* A destructive tool call that is staged for a confirmation: the          *)
(* confirmation branch of the handler in src/core/tool-factory.ts, the     *)
(* handlers of meta_confirm_action, meta_cancel_action and                 *)
(* meta_list_pending_actions in src/domains/meta.ts, and the two durable   *)
(* stores they share, IdempotencyStore and PendingActionStore.             *)
(*                                                                         *)
(* A proposal reserves its key, stages an action and records a preview as  *)
(* the result of the key.  A confirmation claims the action, executes it   *)
(* outside the lease of the key, and then replaces the preview.            *)
(***************************************************************************)
EXTENDS IdempotencyStore, PendingActionStore

CONSTANTS
    Confirmation,   \* meta_confirm_action requests
    Cancellation,   \* meta_cancel_action requests
    NoKey           \* the key of a proposal that gives none

ASSUME CallerAssumption ==
    /\ Call = Action \cup Confirmation \cup Cancellation
    /\ Action \cap Confirmation = {} /\ Action \cap Cancellation = {}
    /\ Confirmation \cap Cancellation = {}
    /\ NoKey \notin Key
    /\ Payload = [kind : {"preview", "result"}, of : Action]

VARIABLES
    proposal,   \* proposal[a]: process, key and arguments of the call that stages a
    request,    \* request[f]: process and action of a confirmation or cancellation
    pc,         \* pc[c]: how far request c has come
    seen,       \* seen[c]: the preview a proposal found in the map of its process
    began,      \* began[c]: the clock an expiry is counted from
    retains,    \* retains[p]: keys whose entry has a retainExpired callback
    refreshed,  \* refreshed[f]: the one retry after a 401 is used up
    ran,        \* history: ran[f], confirmation f was handed the executor
    owed        \* history: owed[k], the actions sent under k, not refused, that
                \* the key still has to answer for

flowVars == <<proposal, request, pc, seen, began, retains, refreshed, ran, owed>>
vars == <<storeVars, pendingVars, flowVars>>

Preview(a) == [kind |-> "preview", of |-> a]
Result(a) == [kind |-> "result", of |-> a]

ShowsPreview(rec) == \E a \in Action : rec.result = Preview(a)

PProc(c) == proposal[c].proc
PKey(c) == proposal[c].key
PArgs(c) == proposal[c].argsHash
PRec(c) == record[PKey(c)]
Keyed(a) == proposal[a].key # NoKey

Target(f) == request[f].action
FProc(f) == request[f].proc
FKey(f) == PKey(Target(f))

Running == {"queued", "sent", "settled", "lost", "storing", "complete"}

Over == {"conflict", "held", "unfinished", "timeout", "limit", "io_error", "served",
         "not_found", "refused", "rejected", "locked", "denied", "unknown", "failed", "done",
         "cancelled", "dead"}

Goto(c, label) == pc' = [pc EXCEPT ![c] = label]

\* The locals of a request are reset when it has used them for the last time.
DoneSeen(c) == seen' = [seen EXCEPT ![c] = NoCall]
DoneBegan(c) == began' = [began EXCEPT ![c] = 0]

\* The keys of process p whose expired preview its ledger map retains.
Kept(p) ==
    {k \in retains[p] : ShowsPreview(entries[p][k]) /\ IsActive(p, entries[p][k].result.of)}

-----------------------------------------------------------------------------
(* A proposal: lookup in the map of the process *)

Lookup(c) ==
    LET p == PProc(c)
        k == PKey(c)
        e == SweptEntries(p, Kept(p))[k]
    IN
    /\ pc[c] = "idle" /\ Keyed(c)
    /\ CleanupExpired(p, Kept(p))
    /\ retains' = [retains EXCEPT ![p] = {j \in @ : SweptEntries(p, Kept(p))[j] # Absent}]
    /\ \/ e = Absent /\ Goto(c, "lock") /\ UNCHANGED seen
       \/ e # Absent /\ e.argsHash # PArgs(c) /\ Goto(c, "conflict") /\ UNCHANGED seen
       \/ /\ e # Absent /\ e.argsHash = PArgs(c) /\ ~ShowsPreview(e)
          /\ Goto(c, "served") /\ UNCHANGED seen
       \/ /\ e # Absent /\ e.argsHash = PArgs(c) /\ ShowsPreview(e)
          /\ Goto(c, "checking") /\ seen' = [seen EXCEPT ![c] = e.result.of]
    /\ UNCHANGED <<now, record, lease, pendingVars, proposal, request, began, refreshed, ran, owed>>

\* delete: the stale preview found by lookup, or whatever is there by now.
Evict(c) ==
    /\ Forget(PProc(c), PKey(c))
    /\ retains' = [retains EXCEPT ![PProc(c)] = @ \ {PKey(c)}]

\* The preview found by lookup is replayed while its action lives.
CheckPreview(c) ==
    LET life == Activity(PProc(c), seen[c]) IN
    /\ pc[c] = "checking"
    /\ \/ /\ life = "active" /\ Goto(c, "served") /\ DoneSeen(c)
          /\ UNCHANGED <<entries, holds, actions, retains>>
       \/ /\ life = "gone" /\ Goto(c, "lock") /\ DoneSeen(c)
          /\ DropLocal(PProc(c), seen[c]) /\ Evict(c)
       \/ /\ life = "overdue" /\ Goto(c, "sweeping")
          /\ UNCHANGED <<entries, holds, actions, retains, seen>>
    /\ UNCHANGED <<now, record, lease, durable, dueAt, failures, actionLease, inFlight,
                   proposal, request, began, refreshed, ran, owed>>

SweepPreview(c) ==
    /\ pc[c] = "sweeping"
    /\ RemoveExpired(PProc(c), seen[c])
    /\ Evict(c)
    /\ Goto(c, "lock")
    /\ DoneSeen(c)
    /\ UNCHANGED <<now, record, lease, proposal, request, began, refreshed, ran, owed>>

-----------------------------------------------------------------------------
(* A proposal: runExclusive on the record of the key *)

TakesLease(c) == pc[c] = "lock" /\ lease[PKey(c)] = NoCall

Refuse(c) ==
    /\ TakesLease(c)
    /\ \/ Conflicts(PKey(c), PArgs(c)) /\ Goto(c, "conflict") /\ UNCHANGED holds
       \/ /\ ~Conflicts(PKey(c), PArgs(c)) /\ PRec(c).state = "in_flight"
          /\ Goto(c, "unfinished") /\ UNCHANGED holds
       \/ /\ ~Conflicts(PKey(c), PArgs(c)) /\ InForce(PRec(c))
          /\ holds' = [holds EXCEPT ![PProc(c)][PKey(c)] = PRec(c)]
          /\ Goto(c, "held")
    /\ UNCHANGED <<now, record, lease, entries, pendingVars, proposal, request,
                   seen, began, retains, refreshed, ran, owed>>

\* hasClaimedPersistent: a claim of this key and these arguments that was
\* never completed keeps an expired result.
Claimed(c) ==
    \E a \in Action :
        /\ PKey(a) = PKey(c) /\ PArgs(a) = PArgs(c)
        /\ a \in inFlight[PProc(c)] \/ durable[a] = "claimed"

ReplayRecord(c) ==
    /\ entries' = [entries EXCEPT ![PProc(c)][PKey(c)] = PRec(c)]
    /\ Goto(c, "served")

ReplayResult(c) ==
    /\ TakesLease(c)
    /\ ~Conflicts(PKey(c), PArgs(c))
    /\ ~ShowsPreview(PRec(c))
    /\ Replays(PKey(c), Claimed(c), TRUE)
    /\ ReplayRecord(c)
    /\ UNCHANGED <<now, record, lease, holds, pendingVars, proposal, request,
                   seen, began, retains, refreshed, ran, owed>>

\* No record, or a result that lapsed and is not claimed: the key is free.
Claim(c) ==
    /\ TakesLease(c)
    /\ ~ShowsPreview(PRec(c))
    /\ Usable(PKey(c), PArgs(c), Claimed(c), TRUE)
    /\ lease' = [lease EXCEPT ![PKey(c)] = c]
    /\ began' = [began EXCEPT ![c] = now]
    /\ record' = [record EXCEPT ![PKey(c)] = Absent]
    /\ owed' = [owed EXCEPT ![PKey(c)] = {}]
    /\ IF PRec(c) = Absent THEN UNCHANGED <<entries, holds, retains>> ELSE Evict(c)
    /\ Goto(c, "reserve")
    /\ UNCHANGED <<now, pendingVars, proposal, request, seen, refreshed, ran>>

\* A preview: the lease is kept while the life of its action is looked up.
OpenPreview(c) ==
    /\ TakesLease(c)
    /\ ~Conflicts(PKey(c), PArgs(c))
    /\ ShowsPreview(PRec(c))
    /\ lease' = [lease EXCEPT ![PKey(c)] = c]
    /\ began' = [began EXCEPT ![c] = now]
    /\ seen' = [seen EXCEPT ![c] = PRec(c).result.of]
    /\ Goto(c, "judging")
    /\ UNCHANGED <<now, record, entries, holds, pendingVars, proposal, request,
                   retains, refreshed, ran, owed>>

ReleaseLease(c) == lease' = [lease EXCEPT ![PKey(c)] = NoCall]

\* A live action: replay its preview.  Otherwise the key is free; that an
\* overdue action is looked up again under its lease changes nothing here.
JudgePreview(c) ==
    LET life == Activity(PProc(c), seen[c]) IN
    /\ pc[c] = "judging"
    /\ \/ /\ life = "active" /\ ReplayRecord(c) /\ ReleaseLease(c)
          /\ DoneSeen(c) /\ DoneBegan(c)
          /\ UNCHANGED <<record, holds, actions, retains>>
       \/ /\ life = "gone" /\ DropLocal(PProc(c), seen[c])
          /\ record' = [record EXCEPT ![PKey(c)] = Absent]
          /\ Evict(c) /\ Goto(c, "reserve") /\ DoneSeen(c) /\ UNCHANGED <<lease, began>>
       \/ /\ life = "overdue" /\ Goto(c, "expiring")
          /\ UNCHANGED <<record, lease, entries, holds, actions, retains, seen, began>>
    /\ UNCHANGED <<now, durable, dueAt, failures, actionLease, inFlight,
                   proposal, request, refreshed, ran, owed>>

ExpirePreview(c) ==
    /\ pc[c] = "expiring"
    /\ RemoveExpired(PProc(c), seen[c])
    /\ record' = [record EXCEPT ![PKey(c)] = Absent]
    /\ Evict(c)
    /\ Goto(c, "reserve")
    /\ DoneSeen(c)
    /\ UNCHANGED <<now, lease, proposal, request, began, refreshed, ran, owed>>

\* The lease of the action timed out: the check failed, so the slot stays
\* closed and the preview is replayed.
ExpiryUncertain(c) ==
    /\ pc[c] = "expiring" /\ ~LeaseFree(seen[c])
    /\ ReplayRecord(c)
    /\ ReleaseLease(c)
    /\ DoneSeen(c) /\ DoneBegan(c)
    /\ UNCHANGED <<now, record, holds, pendingVars, proposal, request,
                   retains, refreshed, ran, owed>>

GiveUpLock(c) ==
    /\ \/ pc[c] = "lock" /\ lease[PKey(c)] # NoCall
       \/ pc[c] = "sweeping" /\ ~LeaseFree(seen[c])
    /\ Goto(c, "timeout")
    /\ DoneSeen(c)
    /\ UNCHANGED <<storeVars, pendingVars, proposal, request, began, retains,
                   refreshed, ran, owed>>

-----------------------------------------------------------------------------
(* A proposal: createPending, and the preview as the result of the key *)

Reserve(c) ==
    /\ pc[c] = "reserve"
    /\ \/ record' = [record EXCEPT ![PKey(c)] = Reservation(PArgs(c), began[c])]
          /\ Goto(c, "staging") /\ UNCHANGED lease
       \/ DiskMayFail /\ Goto(c, "io_error") /\ ReleaseLease(c) /\ UNCHANGED record
    /\ DoneBegan(c)
    /\ UNCHANGED <<now, entries, holds, pendingVars, proposal, request, seen,
                   retains, refreshed, ran, owed>>

StageAction(c) ==
    /\ pc[c] = "staging"
    /\ Stage(PProc(c), c)
    /\ Goto(c, "staged")
    /\ UNCHANGED <<storeVars, proposal, request, seen, began, retains, refreshed, ran, owed>>

\* Mutant: a refusal keeps the lease of the key.
StageRefusedLocked(c) ==
    /\ pc[c] = "staging"
    /\ ~HasSlot(PProc(c)) /\ Goto(c, "limit")
    /\ record' = [record EXCEPT ![PKey(c)] = Absent]
    /\ UNCHANGED <<now, lease, entries, holds, pendingVars, proposal, request, seen, began,
                   retains, refreshed, ran, owed>>

\* The queue is full or its record cannot be written: the reservation goes.
StageRefused(c) ==
    /\ pc[c] = "staging"
    /\ \/ ~HasSlot(PProc(c)) /\ Goto(c, "limit")
       \/ HasSlot(PProc(c)) /\ DiskMayFail /\ Goto(c, "io_error")
    /\ record' = [record EXCEPT ![PKey(c)] = Absent]
    /\ ReleaseLease(c)
    /\ UNCHANGED <<now, entries, holds, pendingVars, proposal, request, seen, began,
                   retains, refreshed, ran, owed>>

RecordPreview(c) ==
    LET p == PProc(c)
        rec == Completed(PArgs(c), Preview(c))
    IN
    /\ pc[c] = "staged"
    /\ HasRoom(p, PKey(c), Kept(p))
    /\ Remember(p, PKey(c), rec, Kept(p))
    /\ retains' = [retains EXCEPT ![p] =
                     {j \in @ : SweptEntries(p, Kept(p))[j] # Absent} \cup {PKey(c)}]
    /\ \/ record' = [record EXCEPT ![PKey(c)] = rec] /\ Goto(c, "served")
       \/ /\ DiskMayFail
          /\ record' = [record EXCEPT ![PKey(c)] = Absent] /\ Goto(c, "io_error")
    /\ ReleaseLease(c)
    /\ UNCHANGED <<now, pendingVars, proposal, request, seen, began, refreshed, ran, owed>>

\* The ledger is full: the reservation goes, the staged action stays.
PreviewOverflows(c) ==
    LET p == PProc(c) IN
    /\ pc[c] = "staged"
    /\ ~HasRoom(p, PKey(c), Kept(p))
    /\ CleanupExpired(p, Kept(p))
    /\ retains' = [retains EXCEPT ![p] = {j \in @ : SweptEntries(p, Kept(p))[j] # Absent}]
    /\ record' = [record EXCEPT ![PKey(c)] = Absent]
    /\ ReleaseLease(c)
    /\ Goto(c, "limit")
    /\ UNCHANGED <<now, pendingVars, proposal, request, seen, began, refreshed, ran, owed>>

\* Without a key the action is staged at once and the ledger not asked.
StageUnkeyed(c) ==
    /\ pc[c] = "idle" /\ ~Keyed(c)
    /\ \/ Stage(PProc(c), c) /\ Goto(c, "served")
       \/ ~HasSlot(PProc(c)) /\ Goto(c, "limit") /\ UNCHANGED pendingVars
       \/ /\ HasSlot(PProc(c)) /\ DiskMayFail
          /\ Goto(c, "io_error") /\ UNCHANGED pendingVars
    /\ UNCHANGED <<storeVars, proposal, request, seen, began, retains, refreshed, ran, owed>>

-----------------------------------------------------------------------------
(* A confirmation: find the action, check the secret and the policy, claim *)
(* it.  Only an id that was once staged can be named.  A process in which  *)
(* the tool is not registered has no executor for an action of another:    *)
(* it does not find it.                                                    *)

AtAction(f) ==
    /\ pc[f] = "found"
    /\ UNCHANGED <<storeVars, proposal, request, seen, began, retains, refreshed, owed>>

Find(f) ==
    LET a == Target(f) IN
    /\ pc[f] = "idle" /\ dueAt[a] # 0
    /\ \/ durable[a] # "pending" /\ DropLocal(FProc(f), a) /\ Goto(f, "not_found")
       \/ durable[a] = "pending" /\ Overdue(a) /\ Goto(f, "overdue") /\ UNCHANGED actions
       \/ Cancellable(a) /\ Goto(f, "found") /\ UNCHANGED actions
       \/ /\ Cancellable(a) /\ a \notin actions[FProc(f)]
          /\ Goto(f, "not_found") /\ UNCHANGED actions
    /\ UNCHANGED <<storeVars, durable, dueAt, failures, actionLease, inFlight,
                   proposal, request, seen, began, retains, refreshed, ran, owed>>

FindOverdue(f) ==
    /\ pc[f] = "overdue"
    /\ RemoveExpired(FProc(f), Target(f))
    /\ Goto(f, "not_found")
    /\ UNCHANGED <<storeVars, proposal, request, seen, began, retains, refreshed, ran, owed>>

WrongSecret(f) ==
    /\ AtAction(f)
    /\ RecordFailure(FProc(f), Target(f))
    /\ Goto(f, IF LastAttempt(Target(f)) THEN "locked" ELSE "rejected")
    /\ UNCHANGED ran

\* The failure cannot be counted: the attempt ends in an error.
CountFails(f) ==
    /\ AtAction(f)
    /\ DiskMayFail /\ LeaseFree(Target(f))
    /\ Cancellable(Target(f)) /\ ~LastAttempt(Target(f))
    /\ Goto(f, "io_error")
    /\ UNCHANGED <<pendingVars, ran>>

\* The initiator approves its own action in external mode.
SameApprover(f) ==
    /\ AtAction(f)
    /\ Goto(f, "refused")
    /\ UNCHANGED <<pendingVars, ran>>

\* The configuration changed since the proposal: the tool is not allowed.
PolicyDenies(f) ==
    /\ AtAction(f)
    /\ Delete(FProc(f), Target(f))
    /\ Goto(f, "denied")
    /\ UNCHANGED ran

\* Claimed, cancelled, locked or overdue since it was found.
TooLate(f) ==
    /\ AtAction(f)
    /\ Unavailable(FProc(f), Target(f))
    /\ Goto(f, "not_found")
    /\ UNCHANGED ran

TakeAction(f) ==
    /\ AtAction(f)
    /\ Take(f, Target(f))
    /\ Goto(f, "claiming")
    /\ UNCHANGED ran

PublishClaim(f) ==
    /\ pc[f] = "claiming"
    /\ \/ /\ Publish(FProc(f), Target(f))
          /\ ran' = [ran EXCEPT ![f] = TRUE]
          /\ Goto(f, "queued")
       \/ PublishFails(Target(f)) /\ Goto(f, "io_error") /\ UNCHANGED ran
    /\ UNCHANGED <<storeVars, proposal, request, seen, began, retains, refreshed, owed>>

GiveUpAction(f) ==
    /\ pc[f] \in {"overdue", "found"} /\ ~LeaseFree(Target(f))
    /\ Goto(f, "timeout")
    /\ UNCHANGED <<storeVars, pendingVars, proposal, request, seen, began, retains,
                   refreshed, ran, owed>>

-----------------------------------------------------------------------------
(* A confirmation: the request, which nothing cancels *)

InExecution(f, from, to) ==
    /\ pc[f] \in from
    /\ Goto(f, to)
    /\ refreshed' = [refreshed EXCEPT ![f] =
                       CASE to = "queued" -> TRUE [] to = "sent" -> @ [] OTHER -> FALSE]
    /\ UNCHANGED <<storeVars, pendingVars, proposal, request, seen, began, retains, ran>>

SetOwed(f, set) == owed' = IF Keyed(Target(f)) THEN [owed EXCEPT ![FKey(f)] = set] ELSE owed

Dispatch(f) ==
    /\ InExecution(f, {"queued"}, "sent")
    /\ SetOwed(f, owed[FKey(f)] \cup {Target(f)})

Unauthorized(f) ==
    /\ InExecution(f, {"sent"}, "queued")
    /\ ~refreshed[f]
    /\ SetOwed(f, owed[FKey(f)] \ {Target(f)})

\* Mutant: the claim is completed before the result is recorded.
AnsweredForgets(f) == InExecution(f, {"queued", "sent"}, "complete") /\ UNCHANGED owed

Answered(f) == InExecution(f, {"queued", "sent"}, "settled") /\ UNCHANGED owed

\* The error of a request that was not sent is returned, not remembered.
NothingSent(f) == InExecution(f, {"queued"}, "complete") /\ UNCHANGED owed

\* Mutant: a lost answer is taken for a request that was not sent.
AnswerLostIgnored(f) == InExecution(f, {"sent"}, "complete") /\ UNCHANGED owed

AnswerLost(f) == InExecution(f, {"sent"}, "lost") /\ UNCHANGED owed

-----------------------------------------------------------------------------
(* A confirmation: executePending records the result, and then the claim   *)
(* is completed.  When recording fails the durable claim stays.            *)

AbandonClaim(f) ==
    /\ CompleteLocal(FProc(f), Target(f))
    /\ Goto(f, "failed")

\* rememberPersistent, first the map of the process ...
RememberResult(f) ==
    LET p == FProc(f)
        k == FKey(f)
        a == Target(f)
    IN
    /\ pc[f] = "settled" /\ Keyed(a)
    /\ \/ /\ HasRoom(p, k, Kept(p))
          /\ Remember(p, k, Completed(PArgs(a), Result(a)), Kept(p))
          /\ retains' = [retains EXCEPT ![p] =
                {j \in @ : SweptEntries(p, Kept(p))[j] # Absent} \ {k}]
          /\ began' = [began EXCEPT ![f] = now]
          /\ Goto(f, "storing") /\ UNCHANGED pendingVars
       \/ /\ ~HasRoom(p, k, Kept(p))
          /\ CleanupExpired(p, Kept(p))
          /\ retains' = [retains EXCEPT ![p] =
                {j \in @ : SweptEntries(p, Kept(p))[j] # Absent}]
          /\ AbandonClaim(f) /\ UNCHANGED began
    /\ UNCHANGED <<now, record, lease, proposal, request, seen, refreshed, ran, owed>>

\* ... then the record, whatever it holds by now.
StoreResult(f) ==
    LET a == Target(f)
        rec == [Completed(PArgs(a), Result(a)) EXCEPT !.expiresAt = began[f] + Ttl]
    IN
    /\ pc[f] = "storing" /\ lease[FKey(f)] = NoCall
    /\ record' = [record EXCEPT ![FKey(f)] = rec]
    /\ Goto(f, "complete")
    /\ DoneBegan(f)
    /\ UNCHANGED <<now, lease, entries, holds, pendingVars, proposal, request, seen,
                   retains, refreshed, ran, owed>>

\* holdPersistent: the preview becomes a hold.
StoreHold(f) ==
    LET a == Target(f)
        k == FKey(f)
        p == FProc(f)
        base == IF record[k] = Absent THEN Reservation(PArgs(a), now) ELSE record[k]
        rec == Held(base, "transport_failure_after_dispatch")
    IN
    /\ pc[f] = "lost" /\ Keyed(a) /\ lease[k] = NoCall
    /\ \/ /\ ~Conflicts(k, PArgs(a))
          /\ record' = [record EXCEPT ![k] = rec]
          /\ RememberHold(p, k, rec)
          /\ retains' = [retains EXCEPT ![p] = @ \ {k}]
          /\ Goto(f, "unknown") /\ UNCHANGED pendingVars
       \/ /\ Conflicts(k, PArgs(a))
          /\ AbandonClaim(f) /\ UNCHANGED <<record, entries, holds, retains>>
    /\ UNCHANGED <<now, lease, proposal, request, seen, began, refreshed, ran, owed>>

\* The lease of the key times out, or the write fails.
StoreFails(f) ==
    /\ pc[f] \in {"storing", "lost"} /\ Keyed(Target(f))
    /\ DiskMayFail \/ lease[FKey(f)] # NoCall
    /\ AbandonClaim(f)
    /\ DoneBegan(f)
    /\ UNCHANGED <<storeVars, proposal, request, seen, retains, refreshed, ran, owed>>

\* Without a key there is no ledger to tell.
SkipLedger(f) ==
    /\ ~Keyed(Target(f))
    /\ \/ InExecution(f, {"settled"}, "complete")
       \/ InExecution(f, {"lost"}, "unknown")
    /\ UNCHANGED owed

\* completePersistent: the map of the process at once, the durable claim
\* under the lease; if that cannot be had the claim stays.
Complete(f) ==
    /\ \/ pc[f] = "complete" /\ CompleteLocal(FProc(f), Target(f)) /\ Goto(f, "clearing")
       \/ pc[f] = "clearing" /\ ClearClaim(Target(f)) /\ Goto(f, "done")
       \/ /\ pc[f] = "clearing" /\ ~LeaseFree(Target(f))
          /\ UNCHANGED pendingVars /\ Goto(f, "failed")
    /\ UNCHANGED <<storeVars, proposal, request, seen, began, retains, refreshed, ran, owed>>

-----------------------------------------------------------------------------
(* Cancellations, listings, operators, crashes and the clock *)

\* A cancellation that cannot have the lease in time leaves no trace.
Cancel(x) ==
    /\ pc[x] = "idle" /\ dueAt[Target(x)] # 0
    /\ Delete(FProc(x), Target(x))
    /\ Goto(x, IF Cancellable(Target(x)) THEN "cancelled" ELSE "not_found")
    /\ UNCHANGED <<storeVars, proposal, request, seen, began, retains, refreshed, ran, owed>>

\* listPersistent removes what it finds pending and overdue.
List(p, a) ==
    /\ durable[a] = "pending" /\ Overdue(a)
    /\ RemoveExpired(p, a)
    /\ UNCHANGED <<storeVars, flowVars>>

Operator(p, k) ==
    /\ ReleaseHold(p, k)
    /\ owed' = IF record[k].state = "indeterminate" THEN [owed EXCEPT ![k] = {}] ELSE owed
    /\ UNCHANGED <<pendingVars, proposal, request, pc, seen, began, retains, refreshed, ran>>

ProcOf(c) == IF c \in Action THEN PProc(c) ELSE FProc(c)

Crash(p) ==
    LET dying == {c \in Call : ProcOf(c) = p /\ pc[c] \notin Over \cup {"idle"}} IN
    /\ pc' = [c \in Call |-> IF c \in dying THEN "dead" ELSE pc[c]]
    /\ lease' = [k \in Key |-> IF lease[k] \in dying THEN NoCall ELSE lease[k]]
    /\ entries' = [entries EXCEPT ![p] = [k \in Key |-> Absent]]
    /\ holds' = [holds EXCEPT ![p] = [k \in Key |-> Absent]]
    /\ retains' = [retains EXCEPT ![p] = {}]
    /\ PendingCrash(p, dying)
    /\ seen' = [a \in Action |-> IF a \in dying THEN NoCall ELSE seen[a]]
    /\ began' = [c \in Action \cup Confirmation |-> IF c \in dying THEN 0 ELSE began[c]]
    /\ refreshed' = [f \in Confirmation |-> f \notin dying /\ refreshed[f]]
    /\ UNCHANGED <<now, record, proposal, request, ran, owed>>

Clock == Advance /\ UNCHANGED <<record, lease, entries, holds, pendingVars, flowVars>>

-----------------------------------------------------------------------------

Init ==
    /\ StoreInit
    /\ PendingInit
    /\ proposal \in [Action -> [proc : Proc, key : Key \cup {NoKey}, argsHash : Args]]
    /\ request \in [Confirmation \cup Cancellation -> [proc : Proc, action : Action]]
    /\ pc = [c \in Call |-> "idle"]
    /\ seen = [a \in Action |-> NoCall]
    /\ began = [c \in Action \cup Confirmation |-> 0]
    /\ retains = [p \in Proc |-> {}]
    /\ refreshed = [f \in Confirmation |-> FALSE]
    /\ ran = [f \in Confirmation |-> FALSE]
    /\ owed = [k \in Key |-> {}]

\* What a started proposal, and a started confirmation, does of itself.
ProposalStep(c) ==
    \/ CheckPreview(c) \/ SweepPreview(c) \/ Refuse(c) \/ ReplayResult(c) \/ Claim(c)
    \/ OpenPreview(c) \/ JudgePreview(c) \/ ExpirePreview(c) \/ ExpiryUncertain(c)
    \/ GiveUpLock(c) \/ Reserve(c) \/ StageAction(c) \/ StageRefused(c)
    \/ RecordPreview(c) \/ PreviewOverflows(c)

ConfirmationStep(f) ==
    \/ FindOverdue(f) \/ WrongSecret(f) \/ CountFails(f) \/ SameApprover(f) \/ PolicyDenies(f)
    \/ TooLate(f) \/ TakeAction(f) \/ PublishClaim(f) \/ GiveUpAction(f) \/ Dispatch(f) \/ Unauthorized(f) \/ Answered(f)
    \/ NothingSent(f) \/ AnswerLost(f) \/ RememberResult(f) \/ StoreResult(f) \/ StoreHold(f)
    \/ StoreFails(f) \/ SkipLedger(f) \/ Complete(f)

Next ==
    \/ \E a \in Action : Lookup(a) \/ StageUnkeyed(a) \/ ProposalStep(a)
    \/ \E f \in Confirmation : Find(f) \/ ConfirmationStep(f)
    \/ \E x \in Cancellation : Cancel(x)
    \/ \E p \in Proc, a \in Action : List(p, a)
    \/ \E p \in Proc, k \in Key : Operator(p, k)
    \/ \E p \in Proc : Crash(p)
    \/ Clock

\* The awaits of a started request settle: leases and requests carry a
\* deadline and the file system answers.
Fairness ==
    /\ \A a \in Action : WF_vars(ProposalStep(a))
    /\ \A f \in Confirmation : WF_vars(ConfirmationStep(f))

Spec == Init /\ [][Next]_vars
FairSpec == Spec /\ Fairness
-----------------------------------------------------------------------------
(* Properties *)

TypeOK ==
    /\ StoreTypeOK /\ PendingTypeOK
    /\ proposal \in [Action -> [proc : Proc, key : Key \cup {NoKey}, argsHash : Args]]
    /\ request \in [Confirmation \cup Cancellation -> [proc : Proc, action : Action]]
    /\ pc \in [Call -> {"idle", "lock", "checking", "sweeping", "judging", "expiring",
                       "reserve", "staging", "staged", "overdue", "found", "claiming",
                       "clearing"}
                      \cup Running \cup Over]
    /\ seen \in [Action -> Action \cup {NoCall}]
    /\ began \in [Action \cup Confirmation -> 0 .. MaxTime]
    /\ retains \in [Proc -> SUBSET Key]
    /\ refreshed \in [Confirmation -> BOOLEAN]
    /\ ran \in [Confirmation -> BOOLEAN]
    /\ owed \in [Key -> SUBSET Action]

\* A confirmation is executed once: of all requests that confirm an action,
\* in whatever process, before or after a crash, one at most is handed the
\* executor (pending-actions.ts:246-283, meta.ts:541-557).
OneExecution ==
    \A f, g \in Confirmation : ran[f] /\ ran[g] /\ Target(f) = Target(g) => f = g

\* An action reported cancelled, or deleted by the last wrong secret, was not
\* executed and never is (pending-actions.ts:208-229, 360-407).
RefusedNeverRuns ==
    \A x \in Confirmation \cup Cancellation, f \in Confirmation :
        pc[x] \in {"cancelled", "locked"} /\ ran[f] => Target(x) # Target(f)

\* Wrong secrets against one action are counted across processes and
\* restarts: no more than MaxAttempts are ever answered, and the last of
\* them leaves no action behind (pending-actions.ts:360-407).
LockoutHolds ==
    \A a \in Action :
        LET wrong == {f \in Confirmation : Target(f) = a /\ pc[f] \in {"rejected", "locked"}}
        IN  /\ Cardinality(wrong) = failures[a]
            /\ failures[a] >= MaxAttempts => durable[a] = "absent"

\* While a confirmation executes its action, the claim is on disk and in the
\* map of its process, so neither a second confirmation nor a restart can
\* take the action again (pending-actions.ts:268-280, meta.ts:567-598).
RunsUnderClaim ==
    \A f \in Confirmation :
        pc[f] \in Running => durable[Target(f)] = "claimed" /\ Target(f) \in inFlight[FProc(f)]

\* A claim is given up only when the key answers for what was sent: the
\* result is in the ledger, or nothing was sent (meta.ts:568-572).
ClaimOutlivesDoubt ==
    [][\A a \in Action :
         /\ durable[a] = "claimed" /\ durable'[a] # "claimed"
         /\ Keyed(a) /\ a \in owed[PKey(a)]
         => record[PKey(a)].result = Result(a)]_vars

\* The key of an action that is executing is not given to another proposal
\* (confirmation.test.ts:427, tool-factory.ts:583-620).
KeyClosedWhileClaimed ==
    [][\A f \in Confirmation :
         /\ pc[f] \in Running /\ pc'[f] \in Running /\ Keyed(Target(f))
         /\ record[FKey(f)].result = Preview(Target(f))
         => record'[FKey(f)].state # "absent"]_vars

\* Of the mutations sent under a key it has to answer for one at most,
\* whichever proposals and confirmations of whichever processes sent them
\* (idempotency.ts:1-13, docs/adr/0008).
AtMostOneMutation == \A k \in Key : \A a, b \in owed[k] : a = b

\* Only an operator lifts the hold of a lost answer
\* (idempotency.ts:259-295, 597-620).
HeldUntilReconciled ==
    [][\A k \in Key :
         /\ record[k].holdReason = "transport_failure_after_dispatch"
         /\ record'[k] # record[k]
         => \E p \in Proc : Operator(p, k)]_vars

\* Nobody keeps a lease, though a proposal waits for that of an action while
\* it holds that of its key (idempotency.ts:358-450, pending-actions.ts:572-593).
LeasesComeBack ==
    /\ \A k \in Key : lease[k] # NoCall ~> lease[k] = NoCall
    /\ \A a \in Action : actionLease[a] # NoCall ~> actionLease[a] = NoCall
=============================================================================
