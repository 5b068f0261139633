# avito-mcp in TLA+

avito-mcp is an MCP server (TypeScript, Node.js) that exposes the API of Avito
to language-model clients.  Reading that API is harmless; calling it twice is
not: a client that retries a destructive tool may publish an advertisement
twice, pay twice or answer a customer twice.  The server is also a process of
its own: it keeps sessions, an OAuth authorization server, a webhook log and a
shared rate budget, and it must start guarded and stop clean.  This directory
models those parts, checks them with TLC on small instances, and proves the
central results with TLAPS for every size.

Paths below are relative to `src/`; all of them are TypeScript of the repository.

## 1. Inventory

Several server processes may share one account and one state directory
(`AVITO_MCP_RUNTIME_STATE_DIR`): an stdio server per client, or HTTP servers behind a proxy.
Each process is single-threaded; its handlers interleave at every `await`.
Processes interleave at every file operation.

| Component | State | Operations | What must hold |
|---|---|---|---|
| Idempotency ledger `src/core/idempotency.ts` | one JSON record per key; per process a map of results and a map of holds; quota | `lookup`, `runExclusive`, `rememberPersistent`, `holdPersistent`, `releaseHold`, `delete`, the sweep | a key answers for at most one mutation; a lost answer closes it until an operator reconciles it; a replay is the caller's own result |
| Pending-action store `src/core/pending-actions.ts` | one JSON record per staged action (pending, claimed); per process the executors and the claims in flight; failure counts; quota | `createPersistent`, `getPersistent`, `takePersistent`, `deletePersistent`, `recordFailedConfirmationPersistent`, `completePersistent`, `listPersistent`, `isActivePersistent`, `hasClaimedPersistent` | an action is executed once; a refused one never; a claim outlives every doubt |
| Tool handler `src/core/tool-factory.ts` | locals of a call | `handler`, `execute`, `createPending`, `executePending` | joins the two stores: what is replayed, what is staged, what frees a key; nothing is changed without licence |
| Confirmation tools `src/domains/meta.ts` | locals of a call | `meta_confirm_action`, `meta_cancel_action`, `meta_list_pending_actions` | same |
| Avito client `src/core/client.ts` | dispatch latch, retry counters of a request | `request`, `doRequest`: budget, token, fetch, 401, 429 and 5xx, deadline, bodies, withdrawal | the ledger can tell what was certainly not sent; no mutation is repeated blindly |
| File lease `src/core/file-lock.ts` | a directory with marker files | `acquireLock`, reclaiming, `withFileLock` | mutual exclusion; the lease of a dead owner is reclaimed |
| State files `src/core/runtime-state.ts` | temporary and final files | `readJsonFile`, `writeJsonAtomic` | a record is read whole or not at all |
| Rate limiter `src/core/rate-limiter.ts` | counter and reset per bucket, in a file; the queued snapshot | `observe`, `waitIfNeeded`, the give-back of a slot, the drain, `flushPersisted` | no unit is lost or invented between a read and a write; the newest snapshot is the last written |
| Token store `src/core/token-store.ts` | token in memory and in a file; the refresh in flight | `getToken`, `invalidate`, `refresh` | a rejected token is not handed out again; one refresh at a time |
| HTTP sessions `src/http/mcp-http.ts` | sessions, initializations, exchanges, streams | admission, dispatch by era, the reaper, `closeAll` | counters are exact, limits hold, a busy session stays; nothing is left open |
| OAuth server `src/http/oauth/*.ts` | clients, consents, codes, token families; snapshot queue | register, authorize, approve, exchange, refresh, revoke, verify, sweep, flush | a code or a refresh token is used once; what is withdrawn stays so; the last change is on disk |
| Webhook buffer `src/core/webhook-store.ts`, `src/http/webhook.ts` | ring of events; append queue; log | `record`, `persistLine`, `rotateLog`, `flush` | the log holds what was received, in order |
| Server lifecycle `src/server.ts`, `src/http/app.ts` | how far start-up or shutdown is | load, mount, listen, the signal, the closers, the hard timer | no unguarded listener; a clean exit; an exit |
| Configuration and policy `src/config.ts`, `src/core/policy.ts` | none | `load`, `resolveMode`, `allowed` | which environments start, which tools are there |
| API domains `src/domains/*.ts` | none | tables of tools; polling of a BBIP purchase | no tool with an effect is sent as a GET |
| Pagination `src/core/pagination.ts` | none; cursors are with the client | `pageBoundaries`, cursors | a walk is whole or refused |
| Wire compatibility, upload guard, URLs, subscriptions, resources, prompts, logging, demo | none that survives a request | translations, checks of paths, texts | |

How they interact.  A destructive tool call enters the handler with an
idempotency key.  Without confirmation the handler runs the request inside
`runExclusive`, which holds the file lease of the key from before the
reservation until the record says what became of it.  With confirmation the
handler stages an action under that lease and records the preview as the result
of the key; a `meta_confirm_action`, possibly in another process, claims the
action under the lease of the *action*, sends the request outside every lease,
replaces the preview in the ledger and removes the claim.  The client takes a
unit of the shared budget and a token inside both, and reports to the handler,
through one latch, whether anything was sent.  The HTTP layer multiplies
callers, and shutdown waits for all of them in a fixed order.

What is hard: two leases (one of the key, one of the action), a record and a map
for each, expiry by four comparisons with the clock, a request whose fate is
unknown, processes that die between any two steps, writes that fail after the
mutation was applied, values read before an await and used after it, places that
two ends of an exchange give back, and queues that go on after a failure.
`PROJECT.json` lists the hazards at their lines.

## 2. Modules

| Module | Models |
|---|---|
| `StateDirectory` | what the stores share: the clock, and a disk whose writes may fail |
| `IdempotencyStore` | the records, maps and leases of `idempotency.ts`, one operator per method or decision of it |
| `PendingActionStore` | the same for `pending-actions.ts` |
| `MutationSlot` | abstract: the promise of a key, free, reserved, or closed by how its mutation ended |
| `ToolCall` | handler, `runExclusive`, `execute` and the client as far as the ledger sees it, for calls that need no confirmation; crashes, operators, the clock |
| `ConfirmedCall` | the handler in a confirmation mode, `executePending`, the three meta tools, both stores |
| `FileLock` | the lease that the other modules take for a mutex, one file operation at a time |
| `TokenStore` | the access token: cache and shared file, refresh in flight, invalidation, and the requests that use it |
| `TokenFamily` | abstract: the promise of an authorization, one refresh token that works, never one that worked before |
| `OAuthStore`, `OAuthServer` | maps, lifetimes, caps, eviction and snapshot queue of the authorization server; on top of it the endpoints with their awaits, shutdown, crash, restart under another issuer |
| `Catalogue` | the 148 tools with method, risk, authorization and way of execution, and the policy that admits them |
| `AvitoRequest` | one tool call from its handler through `AvitoClient.request` and back: policy, dry run, approval, every retry, deadline, withdrawal, the polls of a purchase, and what the ledger is told |
| `ListPages` | a client's walk through a paginated list that may change between two pages |
| `RateLimiter` | the durable budget of one domain, shared by processes |
| `HttpSessions` | sessions of the 2025 era, exchanges and listen streams of the 2026 era, limits, reaper, `closeAll` |
| `WebhookStore` | deliveries, ring, append queue, rotation, failing writes |
| `Configuration` | which environments are accepted, mounted and listened on |
| `ServerProcess` | composes the seven modules above with start-up, the port that is taken, shutdown and the hard timer |
| `IdempotencyStoreProofs`, `ToolCallProofs`, `ConfirmedCallProofs`, `FileLockProofs`, `TokenStoreProofs`, `HttpSessionsProofs`, `OAuthProofs`, `ServerProcessProofs` | theorems and the lemmas they rest on |
| `MCToolCall`, `MCConfirmedCall`, `MCFileLock`, `MCTokenStore`, `MCOAuthServer`, `MCServerProcess` | instances for TLC |

Three groups, each composed by EXTENDS.  *The ledger*: `StateDirectory` under
`IdempotencyStore` and `PendingActionStore` under `ToolCall` and
`ConfirmedCall`, which are the two branches of the handler at
`core/tool-factory.ts:624-653`; the confirmation mode is fixed by the
configuration of a deployment, so a key does not meet both.  *The shared files*:
`FileLock`, `TokenStore` and the OAuth modules, each closed in itself.  *The process*:
`ServerProcess` over its parts.  A part of the process is a set of actions
without a `Next` of its own; `ServerProcess` says in which phase each may run.

Two detailed specifications implement an abstract one:
`ToolCall` implements `MutationSlot` (`KeepsPromise`, proved), and `OAuthServer`
implements `TokenFamily` (`FamiliesNeverFork`, proved).

### The ledger

`record[k]` is the JSON file of a key, `entries[p][k]` and `holds[p][k]` the two
maps of process `p`, `lease[k]` its file lease.  `durable[a]` is the file of an
action, `actions[p]` and `inFlight[p]` the maps `actions` and `claimed` of
process `p`, `dueAt[a]` its expiry, `failures[a]` its count of wrong secrets,
`actionLease[a]` its lease.  `pc[c]` is the point at which a call stands, always
at an `await`; what the code does between two awaits is one action, with the
sweep of the map (`cleanupExpired`) that most methods begin with.  `began[c]` is
the time read before an await and used after it, `dispatched[c]` the latch set by
`onDispatch`, `refreshed[c]` the one retry after a 401.  `owed[k]` and `ran[f]`
are history variables: no action reads them.  `owed[k]` is the set of mutations
sent under a key that the key has to answer for.  It grows when a request is
sent, and shrinks when Avito refused the request (401), when a known result
lapses, when an operator reconciles the key, and, in `ToolCall`, when the code
itself gives the record up (`RecordOverflows`, `RecordFails`); that last case is
what `NeverForgotten` is about.  Because the passing runs let go of what is owed
at that step, only `MCToolCallQuota` shows hazard 1.

Where code waits while it holds a lease (`runExclusive` around the request,
`replayAllowed` around the lease of an action, `takePersistent` around its
write) the holder is in `lease` or `actionLease` and the others can only wait or
time out.  `writeJsonAtomic` may fail when `DiskMayFail`; a failed write leaves
the file as it was.  `Crash(p)` kills a process at any point: its calls are dead,
its maps empty, its leases free, the files as they were; the process then serves
new calls.  `Operator` is `releaseHold`.

Keys, argument hashes and results are model values: results are named after the
call that got them.  A key given twice with other arguments is a conflict;
hashing is injective.  `createdAt`, `heldAt` and `ownerPid` are not read by
anything modelled.  The `readdir` of the two maps' files is one step, and so are
the removals of the local entry and of the record in `releaseHold`.

### The shared files

In `FileLock` the state is the directory at the path of the lease: its inode,
whether its mtime is older than `staleMs`, and its marker files, each known by
the process that wrote it and the process that renamed it to a transition
marker, if any.  `pc[p]` names the file operation that process `p` is about to
make.  Every operation resolves the path anew, so what one process removes or
replaces is what the next finds.  A freed inode number may be used again.
`current` is the set of processes whose listing still has the mtime of the
directory.  In all other modules the lease is a mutex that the death of its
owner frees, and a waiter may time out whenever it is taken.  (The two are not
connected by a refinement: finding 4 is a case in which the lease is no mutex.)

In `TokenStore` tokens are numbered as Avito issues them.  `refresh[p]` is how
far the shared promise of process `p` (`inflight`) has come, `result[p]` what it
settles with; `token[c]` is what a request read and then sends, `rejected[c]` the
token with which it got its 401.  The microtasks that follow the settling of the
promise belong to `Settle`: no file operation of the process can come between.
A request whose deadline has passed is in `gone`; the reads, invalidations and
refreshes it began go on, as they do in the code.

In `OAuthStore` a consent and the code that its approval yields carry the number
of their transaction, an access and a refresh token that of their pair.  What
never changes once something is made (whose it is, since when, under which
issuer) is kept apart from the maps it is in.  All changes that one handler makes
between two awaits are one version of the maps; the queue writes versions.
`OAuthServer` stops a request at the awaits of the token endpoint (the check of
the client, the check of the code challenge), so two requests may have passed
the same check.  No handler runs when the store closes, because
`startHttpServer` closes it after the last response (`app.ts:418-426`).

### The process

`phase` is how far the process is, from the environment through `running` or
`stdio`, and from the signal through the closers in the order in which
`app.ts:396-432` and `server.ts` run them.  `Init` picks an environment and at
most one load: requests and deliveries of given kinds, API calls, one tool call,
one walk.  A part's actions run while `Alive`; closers may
run in every phase but the last.

In `HttpSessions` a request that initializes a session stands for that session.
`pc[r]` is where a request is, `at[r]` the session it is inside of; `open` is
the map `sessions`, `active` the counter `activeRequests`, `initializing`,
`inflight` and `streams` the counters of the module, `released` the latch of a
modern exchange.  The reaper's clock is abstracted: a session without a
request may be idle for long enough at any moment.  In `WebhookStore` a line is
one unit of the log's size; a write that breaks off leaves a fragment.  In
`RateLimiter` a budget is what is left and what has become of its window:
`open` (its reset is to come), `over`, `fresh` and `stale` (observed without a
reset, in this second or before), `unknown`; `credit` is the history of what the
counter should be.  Calls of other processes reserve and observe as well; their
drain is one step.  In `AvitoRequest` the waits for budget, token and ledger end
or fail; `applied` counts what Avito has carried out, and no action reads it.  In `ListPages` a
list is a sequence of items with a size, and its fingerprint the list itself.
In `Configuration` secrets, addresses and URLs are classes.  A public URL has a
scheme and a host of its own, which need not be what the server binds: an
explicit `http://localhost` is a URL of this machine behind any bind address
(`config.ts:287`).  The SDK's own check of the issuer (`mcpAuthRouter`) is
external, modelled by what `config.ts:278-283` says of it; that it may refuse
more, such as an IPv6 loopback URL, takes behaviours away and adds none.

## 3. Runs

| Run | Instance | Shows |
|---|---|---|
| `MCServerProcess` | every environment of section "Bounds"; any two requests of every kind, triples that meet in a session or at a limit, up to three deliveries, two API calls, one tool of every kind under every policy, walks; one session, two exchanges, one stream | invariants `Accounted`, `CleanExit`, `LogTellsTheTruth`, `LedgerAdds`, `ExposedOnlyGuarded`, `LatchTellsTheTruth`, `NoBlindResend`, `OnlyAsLicensed`, `WalkIsWhole`, action property `BusySessionKept`, liveness `ShutdownEnds` |
| `MCToolCall` | 2 keys, 2 calls, 2 processes, 2 argument hashes, quota of one entry, disk faults, fairness | `ReservationStands`, `AtMostOneMutation`, `ReplayIsOwnResult`, `ShutUntilReconciled`, the refinement `KeepsPromise`, liveness `LeaseComesBack` |
| `MCToolCallQuota` | 2 keys, quota of one | violates `NeverForgotten` (finding 1) |
| `MCConfirmedCall` | 1 key, 2 proposals, 2 confirmations, 2 processes, approvals that outlive the run | `AtMostOneMutation`, `ClaimOutlivesDoubt`, `KeyClosedWhileClaimed`, `HeldUntilReconciled` |
| `MCConfirmedQuota` | 2 keys, 2 proposals, 1 confirmation, 1 process, quotas of one, disk faults, expiring approvals, fairness | `RunsUnderClaim`, liveness `LeasesComeBack` |
| `MCApproval` | 1 action, 3 confirmations, 1 cancellation, 2 processes, disk faults | `OneExecution`, `RefusedNeverRuns`, `LockoutHolds` |
| `MCExpiringClaim` | 2 proposals, 2 confirmations, approvals of one tick | violates `AtMostOneMutation` (finding 2) |
| `MCFileLock` | 2 processes and one that died before and left nothing, an empty directory, its marker or its claim; deaths; stalls before the marker is opened; fairness | `MutualExclusion`, `LeaseStands`, `LeavesNoLease`, liveness `LoneWaiterServed` |
| `MCReclaimRace` | 2 processes at a directory with two dead markers or entries of another origin | violates `MutualExclusion` (finding 4) |
| `MCTokenStore` | 2 requests in one process, 1 in another, one account or two, 2 tokens, expiry, revocation, deadlines, crashes, disk faults | `NoNeedlessFetch`, `AccountsApart`, `RejectedOffDisk`, `NobodyWaitsInVain`, `WritesNewest` |
| `MCRejectedToken` | the same, without symmetry | violates `RetryWithAnotherToken` (finding 3) |
| `MCOAuthServer` | 2 clients with room for one, 2 authorizations, 3 pairs of tokens with room for two, 2 requests, 2 issuers, 4 ticks, disk faults, crashes, restarts | `WithdrawnForGood`, `QuietMeansSaved`, `IssuedHere`, action property `ActiveClientKept`, the refinement `FamiliesNeverFork` |

What the properties say is written above each of them in its module.

**Bounds.**

*The ledger.*  Two processes and two calls are an owner and a waiter in the same
process or in another; with two keys and one entry the quota bites, with two
hashes a key meets other arguments.  `Ttl = 1` and more ticks than that let a
result lapse, be swept, be replaced.  Two proposals and two confirmations of one
key are a retry that meets its own execution; three confirmations of one action
are two racing ones and one after a crash, with `MaxAttempts = 2` one below, at
and beyond the lockout.  `AllKeyed`, `NoneKeyed` and `Canonical` restrict the
initial states of a run to the proposals it is about, or to one of those that
differ only in names; they constrain no behaviour after that.

*The lease.*  An owner, a waiter and one that died before; two inode numbers are
one to be freed and reused, and one that is moved aside.  It shows exclusion for
the directories that a process can leave by dying once, and for stalls
(`Stalls`) between `mkdir` and the opening of the marker.  A process that hangs
for longer than `staleMs` while it fills its marker is not covered: a cleaner
may then claim the partial marker, and the owner that comes back finds it
missing and withdraws, or, if it has passed its checks, runs without a lease.
With more processes, stalls and deaths can leave two dead markers in the path,
which is the starting point of `MCReclaimRace`.

*Tokens.*  Three requests are one that is refused, one that meets its
invalidation and one that competes for the file.  Two tokens are an old one and
the one that replaces it; when they are spent a fetch can only fail.  The
theorems hold for any number.

*OAuth.*  One client more than there is room for, so that registration evicts;
two requests that race for one code or one refresh token; three pairs, so that a
family is rotated and an older one evicted by the cap of two; every lifetime
shorter than the clock, so that everything can expire; two issuers, so that a
restart may discard what the other left.

*The process.*  `MCEnvs` takes every combination of what remote MCP depends on
(authentication, bind host, scheme and host of the URL, credential, the three
overrides, allowlists), and every combination of the other variables for one
remote and one stdio server.  One place for a session, two for exchanges of which one may be a stream: any two
requests fill them, a third finds them full.  Three events in a ring of two and
a log of one line rotate it at every append.  Two calls, one of them of another
process, share a budget of two, of which the last is never spent.  `MCCallable`
has one tool of every combination of method, risk, authorization and way;
`MCPolicies` every mode with every confirmation mode, each switch alone, and
lists that name a domain or the tool that confirms.  `MaxPolls` is 2 (20 in
`promotion.ts:200`): the first poll and a later one are all the code tells
apart.  Lists of three items fill a page in part, wholly, or exceed it.  Loads are run one kind at a time, and
in pairs where the kinds meet in shutdown: the parts share no other variable.

Deadlock is checked in `MCServerProcess` and `MCOAuthServer`.  Where
`CHECK_DEADLOCK FALSE` stands the system comes to rest: each
call is issued once and each process acquires once.  There the hazard that
everyone waits for everyone is covered by the liveness properties.  Runs without
symmetry are those with a liveness property, or whose counterexample is to be
read.

**Fairness.**  `ToolCall`, `ConfirmedCall`: weak fairness of the steps of each
call that was started: every await in the code has an end, since leases are
waited for with a deadline (`file-lock.ts:186-196`), requests carry one
(`client.ts`), and the file system answers.  Nothing else is fair: nobody has to
issue a call, no operator has to come, no clock has to tick.  `FileLock`: the
steps of a process, and the passing of `staleMs`.  `LoneWaiterServed` speaks of a
waiter without living competitors: two that collide may withdraw from each other
again and again, and only the random delay between attempts
(`file-lock.ts:199`) parts them, which fairness does not express.
`ServerProcess`: handlers, deliveries, calls, `closeAll`, appends, the drain and
the shutdown sequence are weakly fair, because the event loop runs what is
ready, a delivery has its body deadline (`webhook.ts`), and a call its own.
Clients owe nothing (a stream is never hung up, a body never completed), nor
does the hard timer, so that `ShutdownEnds` is not due to it.

**Mutants.**  For each property of a passing run one definition has a mutated
form next to it, a comment `Mutant:` names it; the property fails when the
mutant takes its place.

## 4. Proofs

`ToolCallProofs` proves for all sets of processes, keys, calls and arguments,
all lifetimes and quotas, with or without disk faults:

- `TypeCorrect`: `Spec => []TypeOK`.
- `ReservationAlwaysStands`, `NeverTwoMutations`: the invariants
  `ReservationStands` and `AtMostOneMutation`.  Neither is inductive.  The
  inductive invariant `LedgerInv` ties together lease, program counter, record
  and history: who is between the taking and the release of a lease is its
  holder and the only one; at `reserve` its record is absent; while it executes
  its record is its own reservation and the key owes at most its own mutation,
  and none while the request is still queued.  A crash frees the lease but
  leaves the record, which is why later callers stop at `unfinished`.
- `AlwaysOwnResult`: `ReplayIsOwnResult`, from `ResultInv`: records and map
  entries hold results of their own key and arguments.
- `AlwaysShut`: the action property `ShutUntilReconciled`.

And for finitely many keys,

- `ImplementsSlot`: `Spec => Promise!Spec`; the ledger implements
  `MutationSlot`, each step being a step of a slot or a stutter;
- `ForgetsOnlyWhenFull`: a mutation that was sent is never forgotten when the
  disk does not fail and the quota is at least two entries per key (each key has
  at most one result and one hold in a process, by the lemma `RoomForAll`).
  `MCToolCallQuota` shows that a condition of this kind is needed.

What `ToolCallProofs` and `ConfirmedCallProofs` share, the lemmas about the
operators of the ledger, is `IdempotencyStoreProofs`.

`ConfirmedCallProofs` proves all safety properties of the three runs of
`ConfirmedCall`, in two layers.

*What the approval guarantees by itself*, for all processes, proposals,
confirmations and cancellations, all lifetimes and quotas, with or without disk
faults: `TypeCorrect`, `NeverExecutedTwice`, `RefusedIsNeverRun`,
`AlwaysRunsUnderClaim` and, for finitely many confirmations (it counts them),
`LockoutAlwaysHolds`.  The inductive invariant `ApprovalInv` says for each
confirmation what its label guarantees: who has passed the claim holds the
durable claim until it deletes the action, nobody else has passed it, and an
action that is gone, refused or cancelled has no executor behind it and gets
none.  Claims survive a crash, so that an action whose executor died is claimed
for good.  `CountInv` ties the counter of an action to the set of confirmations
that presented a wrong secret.

*What the ledger adds*, under the hypothesis `Undisturbed`: `OneMutationPerKey`,
`ExecutingKeyStaysClosed`, `ClaimGoesLast`, `HoldWaitsForOperator`.  The
inductive invariant `LedgerInv` says that of all the actions of a key at most one
matters, waits for its confirmation, executes, or was sent and has to be answered
for, and that the record of the key is as far as this action is: its
reservation or its preview, then its result or a hold.  `Undisturbed` is the
conjunction of three things, and each is needed, because the code reopens a key
whose action still executes in each of the other cases:

- an approval outlives the run (`PendingTtl >= MaxTime`): one that expires while
  it is claimed is finding 2, `MCExpiringClaim`;
- no write fails: when the preview of a staged action cannot be recorded, the
  reservation is removed and the action stays;
- the ledger has room for a result and a hold of every key: a preview that finds
  no room evicts another preview, whose action stays.

These are the constants of `MCConfirmedCall`, for any number of everything else.

`FileLockProofs` proves the mutual exclusion that all the other modules take for
granted when they model the lease as a mutex: for any processes, alive, dying,
or dead before, any stalls before the marker is opened, and any debris of the
dead.

- `TypeCorrect`: `Spec => []TypeOK`.
- `LeaseExcludes`, `OwnedLeaseStands`, `SurvivorsLeaveNothing`: exclusion, the
  lease that stands until its owner releases it, and that who lives on leaves
  none, hold as long as `ReclaimsWhatItListed`: a directory that was not empty
  when it was listed is still as it was when it is renamed.  Nothing else can
  break the lease; `MCReclaimRace` (finding 4) is the run in which this does.
- `LeaseExcludesTwo`: when two processes compete, and what the dead left is a
  directory with one marker at most, the condition always holds, and so do the
  three properties, however many died before.  These are the initial states of
  `MCFileLock`.

None of the three is inductive.  `LeaseInv` says that a process going for a
lease goes for that of a dead process or its own (`Reads`), that a marker naming
a live process is where that process will look for it (`Tells`), that a lease
which is secured, held, claimed or being released, stands (`Stands`), that of
two processes that both find what they go for neither has secured it (`Apart`),
and that a listing which is still current names nobody alive (`Listed`).
`PairInv` adds for two competitors that only empty directories are ever judged
abandoned, because one of two markers would be the lister's own.  The hypotheses
are `WritesInTime`, the grace of `staleMs` that the code gives a marker between
its creation and its content, and `LeftByTheDead`, that a leftover names no live
process.

`TokenStoreProofs` proves every property of `MCTokenStore` for all processes,
accounts, requests and any number of tokens.  The inductive invariant `StoreInv`
says that whoever fetches or writes a token holds the lease; that a token about
to be written is the last one issued; that caches, results and requests hold
tokens of their own account, none newer than the last issued; and that no
invalidated token is about to be written.  The last is what makes
`RejectedOffDisk` inductive: an invalidation needs the lease, so a fetch that is
under way afterwards began later and has a newer token.  `NobodyWaitsInVain` is
inductive by itself.

`OAuthProofs` proves, for all clients, authorizations, tokens, requests, limits
and lifetimes, every property of `MCOAuthServer`: `ImplementsFamilies`
(the refinement), `WithdrawnStays`, `IssuerIsKept`, `ActiveClientStays`,
`QuietIsSaved`, and for finite sets `TypeCorrect`, with the cap of every map.  `WithdrawnForGood` speaks
of the maps in memory, and a restart loads others: the invariant `OAuthInv` says
of the file and of the snapshot that is being written what it says of the maps,
that their tokens are minted and of the issuer of the file (`MintedHere`), that
none whose end is saved, or will be with this snapshot, is among them (`Ended`),
and that they hold one refresh token of a family (`OnePerFamily`).  A family that
begins twice is excluded by `FamiliesBegin`: a transaction that waits, or whose
code is unused, has no token yet, and no consent outlives the code it became.
Every handler takes tokens out (`Shrinks`) or mints one pair (`Mints`), which is
all that the invariant and the refinement need to know of it.  `TypeCorrect`
counts what one eviction leaves (`Replaced`); its invariant adds `Limits`, of the
three copies of the maps, and `Versions`, of the flush queue.  `QuietMeansSaved`
compares what two files would be loaded as at every later time.  Its invariant
`Quiet` says that the last version queued is the dirty one, that a snapshot is of
the version it carries, and that the file of a saved version and the maps are
loaded alike, now and later (`LoadedLater`), through every sweep and eviction.

`ServerProcessProofs` proves, for all environments, loads, limits, tools and
policies, lists and deliveries, every invariant of `MCServerProcess` and its
action property: `ExitIsClean`, `ExposureIsGuarded`, `EndpointIsAccounted`,
`BusySessionsStay`, `BudgetAddsUp`, `ServedCallTellsTheTruth`,
`ServedCallChangesOnce`, `ServedCallIsLicensed`, `LogIsTruthful`,
`WalksAreWhole`.  The argument is compositional.  `StepsOfParts` shows that
every step of the process is a step or a stutter of the sessions, of the webhook
store, of the budget, of the tool call and of the walk; so each part keeps its
own inductive invariant, proved without the others.  `ExposureIsGuarded` needs
none of them: the environment of a running server passed `load()`, the start of
its transport and the SDK's own check of the issuer, and the theorem takes the
three together.

- `HttpInv` (`HttpSessionsProofs`).  `Accounted` counts requests by their state,
  and is not inductive: that a counter can be decreased by one needs that the
  request counted is among those counted, so that its session has been named by
  an initialization that is still answering or done (`SessionsAreNamed`), that
  no exchange being served has released its slot, and that one that hung up has
  (`NotYetServed`).  `ClosingFindsAll` adds what `closeAll()` relies on:
  initializations under way when it begins are those it awaits.  The steps are
  proved over the four sets that are counted (`Tally`).
- `BudgetInv` (of the budget).  `LedgerAdds` speaks of the holder of the
  lease; the invariant adds that the drain writes under the lease alone, and
  that the newest observation is the one queued, or else the one being written.
- `RequestInv` (of the tool call).  Before the tool's own request is answered
  or lost Avito has carried nothing out; what it has carried out was dispatched,
  once, by a tool that is no GET, with a latch that has been set ever since, and
  by a call that passed policy, dry run and approval.  That a GET changes
  nothing is a fact about the catalogue, proved over its tables
  (`CatalogueRepeatable`): a tool of the repository that is declared destructive
  is sent as a POST, PUT or DELETE, and is never retried blindly.
- `LogInv` (of the webhook log).  The lines of the two files are what the events
  handled, less those given up, end with (`LinesInOrder`).  To append a line to
  both sides one must know that the event settled is the next one received, not
  handled and not given up before: the queue is what was received last
  (`QueuedInOrder`), and no delivery is recorded twice (`RecordedOnce`).  A
  rotation drops whole files from the front; between its two steps there is no
  backup, so that the rename loses nothing.  For the health bit, a good append
  leaves its line last.
- `WalkInv` (of the walk).  Between two pages, what was received is the list the
  cursor is of, up to where it points (`GoesOn`), and for a client that presented
  nothing else this is the list served; so a cursor that is accepted continues
  the walk, and one that is refused is not an honest client's.  A page from one
  start to before the next is within the budget or has one item (`PageFits`).

The last two speak of what recursive functions compute: the sequence filtered
(`Among`), the pages joined (`FlattenSeq`), the sizes summed (`SizeOf`, `Filled`).
The library's induction theorems take a predicate, which the provers cannot
instantiate; induction over a set they can.  `Least`, a least element of any set
of naturals, follows from the library's facts on well-founded orders, `Induct` and
`Climb` from it, and `Recursion` from these: a function with given steps exists.
Each of the operators is then given by its steps (`Keeps`, `Joins`, `Sums`,
`Fills`), and its laws, such as that filtering distributes over concatenation
(`AmongConcat`), are proved by `Climb` or `Growing`.

On top of these, `LifeInv` says what each phase guarantees to the next:
what was accepted and mounted stays so (`Configured`), nothing is served before
the process listens, and past `closeAll()` everything is closed (`HttpQuiet`);
no delivery is open once `server.close()` has waited, and no append once
`flush()` has (`HookQuiet`, which needs that an idle writer has an empty queue,
`HookInv`); the OAuth store is closed before the last phase, and the budget untouched before the first.
`CleanExit` then follows at each of the five ways to exit.

`RequestTellsTheTruth`, `RequestChangesOnce` and `RequestIsLicensed` state the
three properties of the tool call for `RequestSpec`, a call outside any process.

The assumptions are those on the constants (`NoCallAssumption`,
`ClockAssumption`, `LimitsAssumption`, `ProcessAssumption` and so on), named in
the modules that declare them and evaluated by TLC in every run.

*Model-checked only.*  All liveness, which needs `ENABLED` and is out of the
prover's reach.  Of the safety properties that passing runs check none is left to
TLC alone; three of `FileLock` and four of `ConfirmedCall` are proved under the
hypotheses above, which the constants of their runs satisfy.

## 5. Findings

Checked, each by the run named:

1. **A full ledger reopens the key of a mutation that was made**
   (`MCToolCallQuota`).  `idempotency.ts:8-10` promises that a key is not
   executed twice.  When `remember()` throws because the quota is reached, the
   request has already been answered; the catch block (`idempotency.ts:440-446`)
   removes the reservation as if the request had failed, and a retry repeats it.
2. **An approval taken in its last moment lets a retry run twice**
   (`MCExpiringClaim`).  `isActivePersistent` reads the record of an action
   without its lease and takes a pending, overdue one for dead
   (`pending-actions.ts:331`).  If the record is claimed between that read and
   the removal of the expired action, the handler still evicts the preview and
   stages a new action, while the first one executes: both may be confirmed,
   under one key.
3. **The retry after a 401 may send the refused token again**
   (`MCRejectedToken`).  `getToken` assigns to the cache what it read from the
   file before an await (`token-store.ts:90-92`).  If another request invalidates
   and refreshes in between, the refused token replaces the new one in the cache,
   and the retry, which asks the cache once more (`client.ts:360`), sends it; its
   401 is final.
4. **Two reclaimers of one directory** (`MCReclaimRace`).  `removeIfAbandoned`
   looks at the identity of the directory and then renames whatever is at the
   path (`file-lock.ts:268-277`).  A second reclaimer that has looked moves the
   fresh lease that the first has put there meanwhile, and both run their
   critical section.  It takes a directory with entries, as two dead markers or
   foreign files leave it; the empty directory that a death leaves is removed by
   `rmdir`, which refuses a lease with a marker, and is safe (`MCFileLock`).  By
   `LeaseExcludes` this race is all that can break the lease.

Met while modelling, and not checked by a run:

- `stdio-era.ts:206` lets wrapper messages pin the era from legacy to modern,
  which the comment at 183-196 rules out.
- A call withdrawn while it waits for its token, or sleeps before a retry, still
  fires `onDispatch` (`client.ts:204`) although `fetch` then sends nothing: its
  key is held, where `client.ts:66-69` and `tool-factory.ts:389-391` say that
  it is freed.  Safe, and part of `AvitoRequest`.
- A BBIP purchase whose status poll fails with anything but an Avito error is
  reported without its `orderId` (`promotion.ts:213`), contrary to the comment
  below it.
- The budget: `resetAt` is not advanced when a window is refreshed
  (`rate-limiter.ts:183`); a unit given back after the reset is one of the old
  window; a withdrawal after the request was sent gives its unit back
  (`client.ts:165`); the unit of a caller that deserted its wait is spent
  (`client.ts:154`); a snapshot written late covers what other processes have
  reserved since (`rate-limiter.ts:102`); `flushPersisted` does not wait for
  reservations and give-backs under way.  All are in `RateLimiter`, and are why
  `LedgerAdds` speaks of steps and no property of the number of requests sent.
- A torn line of the webhook log is followed by the next one on the same line.
- The store lease of the OAuth server is reclaimed by a rename with the race of
  finding 4.

## 6. Not modelled, and what is left

In the modelled parts: the process-local (non-durable) paths of ledger, action
store and rate limiter, which `server.ts:146-163` never configures; corrupt JSON;
a write that fails after its rename; `fs.rm` failing; the sweep of temporary
files; the confirmation rate limit; in `FileLock` a marker that cannot be
written (full disk) and legacy locks that are files; in `TokenStore` token files
of an older format and the two methods that only report; in the OAuth modules
the lease of the store file and the pages; in `HttpSessions` the guards, header
rules and filters that a request meets before and inside its handler; in
`WebhookStore` more backups than one; argument schemas, URLs and texts of the
tools.

Components left out: `upload-guard.ts` (checks of paths), the wire and error
translations (`wire-compat.ts`, `wire-errors.ts`, `rpc-codes.ts`,
`handler-seam.ts`: data without state), resources and prompts, logging, demo.

Next:

1. `stdio-era.ts`, the detection of the protocol era on one stream, with the
   divergence above as its run; `subscriptions.ts` with its listeners.
2. Proofs: the exclusion of three competitors over what one death leaves, which TLC
   confirms; what of the ledger's promise for confirmed calls survives an approval
   that expires unclaimed.
3. A refinement of `ToolCall`'s request steps by `AvitoRequest`, which share the
   latch today by their reading of the same code only.
