# A TLA+ model of the Agent Bridge

The Agent Bridge lets an MCP client (Codex) hand a task to a coding agent that
works in its own process and its own git worktree. One Bridge process per
project keeps the authoritative records in SQLite, starts the driver of the
agent, relays its permission requests to a human, and takes the result through
verification and review; a local dashboard shows all of it. This directory
models what is hard to test in it: the concurrent handlers around the life of a
run, the records they leave, and the services they rely on.

Paths below are relative to the repository. `control` stands for
`apps/bridge-mcp/src/bridge-control-service.ts`; `management`, `runtime`, `http`,
`sse` and `projection` for `management-command-service.ts`, `local-runtime.ts`,
`management-http.ts`, `management-sse.ts` and `management-projection.ts` next to
it; `dashboard` for the TypeScript source under `management-dashboard-assets`.

    tlc -workers 2 -config Records.cfg MCRecords     # what is written down
    tlc -workers 2 -config Services.cfg MCServices   # what services never do
    tlc -workers 2 -config Delivery.cfg MCDelivery   # what arrives in the end
    tlc -workers 2 -config OneRun.cfg MCBridgeRun    # and Retry, Recovery, WorkIsJudged
    tlc -workers 2 -config RolloverRefused.cfg Sessions
    tlapm BridgeRunProofs.tla                        # and the other *Proofs modules

## 1. Inventory

| Component | State | Operations | Hard | Correct when |
|---|---|---|---|---|
| Lifecycles (`packages/core`: task, run, session, approval) | statuses of the durable records | transition tables | three components move them, in separate commits or together | statuses of task, run, session and approval agree; outcomes are final |
| MCP service (`control`) | none of its own | create, validate, prepare, start, complete; driver events | awaits between read and commit | commits compose to a legal history; what runs was validated |
| Management commands (`management`) | confirmation tokens, idempotency cache | decide, retry, cancel, clean up | several commits and driver calls per request; repeated requests | no half-done request, no contradictory decision, executed once |
| Local runtime (`runtime`) | managed worktrees, clean-ups under way | start, collect, checkpoint, roll over, clean up, recover | error paths, fire-and-forget clean-up, restart | one driver, its lease, its consumer, its session |
| Run orchestrator | none | create, reconcile, start, fail a run | outcome of a start unknown after a crash | a run is created once |
| Active run registry | handles, event consumers | register, answer, cancel, replace, close | the handle goes before the process | somebody consumes each live run |
| Worktrees and leases | ownership per path (memory), leases (SQLite) | create, adopt, release, expire | two owners of the truth; git awaited between check and use | the writer holds the lease |
| Domain repository | records, revisions, event log, receipts | commit, queries | optimistic concurrency, idempotent replay, several rows per commit | a commit happens whole and once, as in memory |
| Outbox and pump | outbox rows, claim leases | claim, publish, complete, fail, replay | crash between publish and complete | at least once, in order |
| Migrations | schema version, tables | migrate | version read outside the transaction | a database is of one version |
| Drivers | event history, sessions, pending permissions | protocol methods, the pump of the agent's events | awaits while the pump goes on; restoration | every run is ended by somebody, events tell what happened |
| Stdio transport | requests in flight, event queue, child process | request, subscribe, close | exits, time-outs, late answers | every request settles, no event is lost before "done" |
| Context, handoff, rollover | versions, relations, handoffs, packages, successor sessions | prepare, select, roll over | reads before commit; a step after the driver moved fails | what is given is allowed; one session listens |
| Review cycles | review records | findings, feedback, resubmission | loop limit | at most three cycles |
| HTTP access | launch secret, sessions, logout replays | exchange, log out | awaits between check and change | a secret opens one session |
| SSE, fan-out | streams, queues | subscribe, prefetch, drain | slow consumers | reset instead of silent loss |
| Projections, task pages | none | consistent snapshots, pages | records change between queries and pages | what is shown was so at its cursor |
| Dashboard | the state of the page | sync, select, decide, reconnect | reads, writes and notices in any order | acts only on what is current; catches up |
| Verification, process supervision | child processes | run, terminate | time-out against exit, descendants | every process ends, the report is true |
| Instance lock, bootstrap | lock file, the order of start and close | acquire, recover, serve, close | stale locks, starts in flight | one Bridge at a time |
| Artifacts | blobs, manifests, temporary files | put, read, preview a clean-up | crashes between links | what a record names is there |
| Schemas, policies, configuration | none | validate, match | little | pure functions |

They interact in one process and on one event loop. An MCP or HTTP request calls
`control` or `management`; these commit records, then call the runtime, which
spawns a driver and registers it. From then on the registry consumes the
driver's events, and each event goes through the runtime (checkpoint) to
`control` (commit). A terminal event starts a clean-up that nobody waits for;
requests start clean-ups they do wait for; there is at most one per run. Every
commit appends events and outbox rows; the pump publishes them to the fan-out,
which wakes the streams of the dashboard, which reads projections anew. After a
restart the runtime looks at every live run before requests are served.

## 2. Modules

The life of a run:

| Module | What it is |
|---|---|
| `RunLedger` | abstract specification: the durable records of one version of one task, one action per kind of commit, with the combinations of statuses the commits promise |
| `BridgeRun` | the Bridge process executing that task version: requests, event consumers, clean-ups, drivers, crash and recovery. `L == INSTANCE RunLedger`, and `Implements == L!Spec` is a property of its runs |
| `RunLedgerProofs`, `BridgeRunProofs` | the theorems about them: the ledger's invariants, and that the Bridge implements the ledger |

What is written down:

| Module | Source | What it is |
|---|---|---|
| `DomainRequest` | `core/src/repository.ts` | write requests: records at expected revisions, events, key, stated cursor |
| `DomainMemory` | `core/src/in-memory-repository.ts` | the repository in memory: a request takes effect at once; the promise |
| `SqliteStore` | `sqlite-domain-repository.ts` | the same in transactions of single statements that may fail; `SqliteImplementsMemory` is the refinement |
| `Migrations` | `migrations.ts` | opening and migrating the file, by several processes that may die |
| `ContextPolicy` | `context-policy.ts`, `handoff-policy.ts` | which handoffs and packages the policies accept, as predicates |
| `TaskContracts` | `control`, `context-handoff-runtime.ts` | versions, relations, validation, handoffs, packages, starts and retries of a task |
| `SessionChain` | - | what the sessions of a run promise |
| `Sessions` | `runtime` rollover, registry, bindings | the runtime's rollover; refines `SessionChain` |
| `Rollover` | `rollover-policy.ts` | the policy of the core; refines `SessionChain` too |
| `RunSessions` | - | both of them, and their common property `OneSessionListens` |
| `Artifacts` | `local-artifact-repository.ts` | puts, reads and previews at the grain of file operations |
| `ContractProofs`, `SessionProofs`, `StoreProofs` | - | theorems about contracts and packages; about rollovers; about artifacts, migrations, leases and worktrees, the refinement of the repository and the pages of the task list |

The services:

| Module | Source | What it is |
|---|---|---|
| `EventStream` | `event-fanout.ts`, `sse` | queues, prefetch, reset, the wire with back-pressure |
| `Console` | `dashboard`, `http` | the page on top of `EventStream`: syncs, writes, reconnection |
| `TaskPages`, `Projection` | `projection` | pages of the task list; consistent snapshots of several tasks |
| `ManagementAccess` | `http` | launch secrets, sessions, logout |
| `ManagementRequests` | `management` | previews, tokens, idempotency keys, receipts |
| `ExclusiveLeases` | - | what leases promise |
| `LeaseManager` | both lease managers | refines `ExclusiveLeases` |
| `Worktrees` | `git-worktree-manager.ts` | create, adopt and release, on top of `LeaseManager` |
| `StdioTransport` | `stdio-driver-client.ts`, `stdio-driver-host.ts` | both ends of the driver protocol |
| `OpenCodeDriver`, `ClaudeDriver` | the two drivers and their event mappers | a run with its sessions or queries, the pump, the host's requests |
| `ProcessSupervisor`, `Verification` | the files of that name | process groups; the commands of a verification, on top of it |
| `Outbox` | `outbox.ts`, `outbox-pump.ts` | rows, claims, publication, the pumps of two processes |
| `InstanceLock`, `Bootstrap` | `instance-lock.ts`, `bootstrap.ts`, `index.ts`, `dashboard-startup.ts` | the lock file call by call; the life of Bridge processes on top of it |
| `ConsoleProofs`, `DriverProofs`, `ProcessProofs` | - | theorems about streams, the page, access, confirmations and projections; about the two drivers; about Bridge processes and the transport |

`MCRecords`, `MCServices` and `MCDelivery` check these together: their modules
share no variable, so every behaviour is about one of them while the others rest
(`Only(s)`), and TLC's work is the sum of theirs, not the product. `MCBridgeRun`
adds symmetry; its configurations choose clients, faults and bounds.

### RunLedger

`task`, `run`, `binding`, `approval`, `result` are the status columns of the
records. `TaskTransitions` and `RunTransitions` are the tables of
`packages/core/src/task-state-machine.ts` and `agent-run-lifecycle.ts`. An
action is one commit and is commented with the operation name the code gives
it (`bridge_start_task_queue`, `management_cancel_run`, ...). It has no
optimistic concurrency and no handler: it says what a commit is allowed to do to
all records at once.

### BridgeRun

*Handlers.* A handler is atomic between two awaits. Each command `c` is at
`cmd[c].pc`; consumers (`ev[r]`) and clean-ups (`cl[r]`) likewise. Consecutive
reads are merged into one step, a read and the commit built from it are two. A
request that starts a clean-up stays in flight until the clean-up is over. Between
the two commits of a retry there is no I/O, so nothing outside answers there
(`Answers`).

*Optimistic commits.* `snap[t]` is the set of records that thread `t` has read
and is about to write. When another thread commits one of them it becomes
`Stale`, and the commit of `t` is refused. Revisions and the event cursor only
grow, so this is exactly the comparison of expected revisions in
`SqliteDomainRepository.commit`. Decide, cancel, confirm, clean-up and retry also
state the event cursor of the whole project; `OtherTaskCommits` moves it.

*Driver.* `history[r]` is the driver's event buffer and an event is numbered by
its place in it, as in `event-mapper.ts`; a permission request is identified by
its event, as in the idempotency key of its commit. `queue[r]` is what the
consumer has not dealt with. A driver exports its state only between tool calls
and not while it waits for a permission. A resumed driver starts with the
history in the checkpoint, and its stream delivers all of it again.

*Crash.* `CrashAndRestart` loses every variable of the process and every driver;
`records`, `latest`, `contexts`, `checkpoint`, `audited`, `delivered` and `lease`
survive. Recovery then looks at one live run after the other.

*Abstractions.* One project, one task version, one worktree path. Verification
is the step from submission to review; its outcome does not matter to the
status. The outcome commit of a start and the registration are one step. An RPC
is one step that is answered, or fails before or after the driver acted.
`latest` is the run created last (SQLite sorts runs by `updated_at`, the
in-memory repository by creation). A permission asked while the task already
waits is dropped, as in the code. The events of a terminated consumer are lost.

### The other modules

*Grain.* Every step is what the code does between two awaits, between two file
operations (`Artifacts`, `InstanceLock`), or one SQL statement where a failure
between two matters (`SqliteStore`). A step of the outside - SDK, OpenCode server,
git, a browser, an operator, a process that dies - may come whenever it can.

*Data.* Cursors, revisions, commits and session ids are numbers; contents, keys,
owners and names are model values. Sizes are "within" or "over" a limit. Time is a
bounded clock in `LeaseManager`, and elsewhere a step that lets a deadline pass
whenever it is set. Hashes are what they hash.

*Fast path of refinements.* `SqliteImplementsMemory` and `LeasesAreExclusive` are
written `X!Init /\ [][UNCHANGED own \/ X!Next]_(mapped)`: a step that leaves the
module's own variables alone leaves the mapped ones alone too, and TLC is spared
evaluating the mapping there. It is the same formula as `X!Spec`.

*Console.* A read in flight is `stale` once the page's generation has moved on;
`mix` is what the operator does in a behaviour. The page asserts that it is
current when the operator clicks; the server asserts it again for the stream and
for the stated cursor.

*Bounds.* Named constants, with their values in the configurations:

- `Commands`: requests in flight at the Bridge. Two suffice for every race between
  clients we know of, since each involves two requests and the event consumer. Two
  `Runs` suffice for a retry, two permissions for a second request, one crash
  because recovery starts from the durable records alone. `MaxProgress`,
  `MaxPermissions`: events a driver sends.
- `DomainRequest`: two writers and three requests, of which two share a key and two
  a change; one earlier commit, so that revisions and cursors can be stale. A page
  holds one event, so that readers page.
- `TaskContracts`: one task with two versions out of seven contracts that differ in
  what the policies look at; two calls at a time.
- `Sessions`: two runs, two rollover calls, two keys; `Rollover`: four sessions, so
  that chains have a middle, and at each plan the right documents beside ones that
  differ from them in one point or several (`Offers`).
- `Artifacts`: one id, two contents, two puts, one damaged blob.
- `EventStream`, `Console`: two connections over time, one at a time, a queue of
  one, a wire that is full with its first message, two events: every limit is hit.
  One sync at a time per generation; the operator's habits in `Mixes`, one behaviour
  each.
- `ManagementRequests`: two tokens, one key, two requests, two commits. One key
  makes every repetition possible.
- `Projection`: three tasks with a read limit of two, and two changes against two
  attempts, so that the last attempt fails. `TaskPages`: four tasks, pages of two.
- `LeaseManager`, `Worktrees`: two owners, two paths and the task, clock up to 2.
- `StdioTransport`: four calls, one or two events. `Outbox`: three rows of which one
  cannot be read, three attempts, two processes. `Verification`: two commands.
- `ClaudeDriver`: two tool calls, two queries; `OpenCodeDriver`: one tool call per
  session, two sessions, one restart.
- `Bootstrap`: two processes, one run, a stale lock.

## 3. Runs

Passing runs. All have deadlock checking off because clients may simply stop
calling.

| Run | Clients and faults | Shows |
|---|---|---|
| `Records` | every commit of the ledger; 2 runs, 6 requests | one live run; task, run and session statuses agree; a waiting task has a request that can be decided; pending requests never come back; a submitted task has the result of the run that succeeded; outcomes are final |
| | contracts, validations, handoffs, packages and starts in any order | what runs was validated and was given only what the policy allows (`RunsAreFounded`) |
| | rollovers, their failures, the end of the run | sessions form a chain of which one listens, and handles reach it (`OneSessionListens`) |
| | failing statements, deaths, repeated keys | SQLite does what memory does (`SqliteImplementsMemory`), databases open whole, artifacts are kept |
| `Services` | operators, browsers, restarts, expiry | decisions are taken on what the log holds; no gap in a stream; a secret opens one session; a confirmation is executed once and as shown; projections and boards are of one moment |
| | agents, servers, transports that fail | each run is carried by somebody, its events tell what happened, "done" means all events |
| | processes that overlap and die | one owner of a worktree, exclusive leases, Bridges take turns |
| `Delivery` | fair scheduling, failing connections, deaths, lost leases, silent processes | the page catches up, events are published in order, verification ends, every request is answered |
| `OneRun` | start, decide, cancel, fallback, relaunch, clean up, complete, another task; 2 requests; failures of start, driver, export, RPC, outcome | refinement; the task is never left QUEUED, SUBMITTED or VERIFYING with nothing under way, nor RUNNING without a run; a decision is sent once and only while the driver waits; "delivered" is true |
| `Retry` | start, cancel, retry; 2 requests, 2 runs; failing driver | one driver process at a time, an active driver holds its lease; every request is answered and every clean-up ends, although they wait for each other and for the consumer |
| `Recovery` | start, decide, fallback, relaunch, retry; 2 runs; a crash anywhere; failing recovery | refinement across a crash; after recovery every live run has a consumer; replayed history never moves the records illegally |
| `WorkIsJudged` | start, decide, clean up, complete; 2 requests, 2 permissions; failing RPC and outcome, lease expiry | a driver that finished ends its run; a result reaches review |

What they leave out, and why:

- `Records` has `RolloverScenario = "ROLLOVER"`, the value the policy accepts; with
  the value the code passes no rollover gets as far as the driver, which is
  finding 5. It checks the rollover the code would do.
- `Retry` and `Recovery` have no clean-up request, and `Retry` no permissions, to
  stay small; clean-ups that end a run or precede a retry are there.
- `Retry` has no rejected permission because its close is finding 4.
- `Recovery` has one request at a time, so no overlapping launches of a fallback
  (section 4, "also seen"), and no failing driver, whose consumer can be gone for
  the reason given there.
- `OneRun` has no retry and no crash; `WorkIsJudged` no cancellation, because one
  that meets a finishing driver is finding 3.
- `BridgesTakeTurns` exempts processes that `Raced` for a stale lock, `PageCatchesUp`
  a page after the answer to a write or a closed detail, and `RunIsCarried` and
  `RunTellsWhatHappened` the cases their comments name: there the code does
  otherwise (section 4).

*Fairness.* It is always weak fairness of what the code's scheduler runs on its
own; nothing is assumed of clients, operators or agents.

- `FairSpec`: commands, consumers, clean-ups and recovery. The event loop drops no
  continuation, RPCs and verifications have time-outs, closing a driver kills it.
- `ConsoleFairness`: server and browser go on, and a connection that is lost is
  noticed. `EventSource` reconnects by itself.
- `OutboxFairness`: a pump that runs goes on, and time passes for every row.
  Processes may die all the same.
- `VerificationFairness`: the runner goes on, timers fire, and a group that was
  sent SIGKILL is gone.
- `TransportFairness`: the transport goes on, and the timers of requests and of the
  process fire.

Each property of a passing run has a mutant beside the definition it changes
(`\* Mutant: ...`), a plausible slip in that code which makes TLC find the
property violated.

## 4. Findings

Five runs check one property each that the documents state and that the code
violates; `PROJECT.json` quotes the lines.

1. `DriverExit`: a driver that exits ends its stream without an event; its run
   stays `running`.
2. `CrashStranded`: a crash between "task RUNNING" and "run created" leaves a
   RUNNING task that recovery does not look at.
3. `CancelLost`: the run stays `cancelling` when the driver completes while the
   cancellation is committed.
4. `RejectedDriverRuns`: while a rejected driver is being closed, a retry starts
   a second one in the same worktree.
5. `RolloverRefused`: the rollover names a scenario the context policy does not
   know; none can succeed.

Also seen with these models, each reproducible with a changed configuration or a
dropped exemption, and not kept as a run.

Runs and commits:

- a driver failure older than the last approval is refused by the clock check of
  `transitionTask`, and when an approval is decided at the same time the
  interruption that follows is refused too, so the consumer ends and the run
  stays live (`DeadDriverEndsRun`; start, decide, `driverFail`, 1 permission);
- of two launches of an approved fallback, the one refused because the run exists
  releases the lease of the run the other started (`ActiveHoldsLease`; `Recovery`
  with two commands);
- a retry whose second commit or whose FAIL commit is refused, because another
  task moved the cursor, leaves the task QUEUED or RUNNING (`NothingHalfDone`;
  `Retry` with `otherTask`, and `startFail` for the second);
- a cancellation whose run the consumer interrupted meanwhile ends in
  `ACTION_NOT_ALLOWED` without a clean-up: the ended run keeps driver and lease;
- the history replayed after a restart contains approved permission requests,
  whose second commit is refused; the resumed run is interrupted;
- the documented three rounds of rework cannot start, because submission closes
  the binding that feedback needs; the two repositories order the runs of a task
  differently.

Contracts and sessions:

- a rollover whose commit fails leaves the driver in a session the records do not
  name (`strayed` in `Sessions`); the replay of an older rollover key fails once
  its successor is superseded;
- `prepareContext` takes the first relation it finds to a handoff's source:
  `related_to` declared before `depends_on` lets a stale handoff pass with a
  warning (`context-handoff-runtime.ts:107`);
- `startTask` does not compare the package's version with the latest one, a retry
  does (`LatestVersionRuns`);
- the clean-up the runtime does ignores the hash of the preview it was confirmed
  with (`runtime:102`).

Console and access:

- the automatic reconnection of an `EventSource` sends both a cursor parameter and
  `Last-Event-ID`, and is refused with `CURSOR_CONFLICT` once they differ
  (`http:479`), after which the page stays failed until the operator acts;
- closing the detail during a sync moves the generation on without a new sync; a
  write answer older than a delivered notice moves the head back (`dashboard:822`,
  `dashboard:1042`);
- the connection limit is checked before an await, so more streams than the limit
  may open, and a session revoked meanwhile keeps one (`sse:89`);
- two overlapping logouts with different keys lose the replay of the first; a page
  of the task list is refused once its cursor's task leaves the requested statuses.

Drivers and processes:

- Claude: a continuation that cannot be started leaves the run without a query; an
  answer to an abandoned permission fails the run;
- OpenCode: an abort that is refused while `cancelling` leaves a run nobody ends; a
  permission answered by the server's event during the request is refused as a
  mismatch;
- the host of a driver waits in an unsubscribe for the driver's next event, and the
  cancellation behind it times out; `close` on a transport that is already closed
  waits for the process time-out;
- a verification that timed out and has commands left is reported "cancelled";
- a failed `git worktree add -b` may leave its branch, and every later attempt is
  refused with `GIT_BRANCH_CONFLICT`;
- two processes that both find a stale lock: the second moves the first one's fresh
  lock aside and both run (`instance-lock.ts:55`); a start that is in flight at
  close registers after `closeAll`, and its driver survives the Bridge;
- two processes migrating at once: the loser fails with `MIGRATION_FAILED`;
- two puts of the same artifact without `created_at`: the second is a conflict; a
  damaged blob is never repaired.

## 5. Proofs

TLC checks the instances above; TLAPS proves what follows for all values of the
constants: any number of runs, requests, sessions, processes, events and faults.
The proofs assume what the modules state about their constants and nothing else:
bounds are natural numbers, names of different kinds differ. TLC evaluates these
assumptions in every run.

| Module | Theorems | About |
|---|---|---|
| `RunLedgerProofs` | `TypeCorrect`, `Invariance`, `RunsAreSerial`, `TaskTellsRun`, `BindingFollowsRun`, `WaitingHasItsRequest`, `RequestsDoNotReturn`, `ResultsAreKept`, `OutcomesStay` | every invariant of the ledger and its action property |
| `BridgeRunProofs` | `Invariance`, `BridgeImplementsLedger`, `RecordsAgree`, `TypeCorrect`, `DecisionsFindTheirQuestion` | the Bridge process implements the ledger, crashes and recovery included; a driver hears a decision while it waits for it, and once |
| `SessionProofs` | `HandlesReach`, `RunSessionsFormChains`, `RolloversFormAChain`, `OneListens` | both rollovers refine `SessionChain` |
| `ContractProofs` | `WhatRunsIsFounded` | what runs was validated and was given only what the policies allow |
| `ConsoleProofs` | `EventsArriveInOrder`, `NoBlindDecision`, `OneSessionPerSecret`, `ExecutedOnce`, `BoardsAreShownAsTheyWere` | streams without a gap; decisions on what the log holds; access; confirmations; what a projection shows |
| `StoreProofs` | `WhatIsNamedIsKept`, `EveryVersionIsWhole`, `LeaseTablesAgree`, `LeasesImplementPromise`, `LeasesStayExclusive`, `WorktreesAreOwnedOnce` | artifacts; migrations; leases refine `ExclusiveLeases`; one owner of a worktree |
| | `StoreStaysSound`, `DatabaseIsTyped`, `SqliteIsMemory`, `SqliteRefinesMemory`, `BoardsAreWhole` | SQLite refines the repository in memory; pages of the task list add up to a board |
| `ProcessProofs` | `OneBridgeAtATime`, `AllEventsBeforeTheEnd` | lock and bootstrap; the transport |
| `DriverProofs` | `ClaudeRunsAreCarried`, `OpenCodeRunsTellWhatHappened` | what the events of a run say and what its queries and sessions did |

### The ledger

`TypeCorrect` is `Spec => []TypeOK`; `Invariance` is `Spec => []IInv`, from
`InitIInv` and one lemma per kind of step; the others follow. `IInv` is the
conjunction of the ledger's invariants in the run `Records`; that a waiting task
has only one decidable request (`DecidableIsUnique`) follows and is proved with
`WaitingHasItsRequest`. None of them is inductive alone: `RunTaskAgreement` needs
`OneLiveRun` (moving the task for one run must not contradict another),
`OneLiveRun` needs it in return (a terminal or waiting task has no other live
run), `WaitingIsDecidable` after a retry needs `PendingRequests` (an old request
must not become decidable again), and `ResultIsOfTheSuccess` needs the agreement
to know that a submitted task has no live run. `TaskTable` and `RunTable` turn
the transition tables into facts about single events; `RunEnds` covers the five
actions that end a run early.

### The Bridge implements the ledger

`BridgeImplementsLedger` is the main theorem: `Spec => Implements`. Every step of
every handler is a commit the ledger allows, or leaves the records alone. With
the theorems of the ledger it gives `RecordsAgree`: however requests, consumers,
clean-ups, crashes and recovery interleave, one run is live, the statuses agree,
and a waiting task has one request that can be decided.

The difficulty is that a commit is accepted when the records it *states* have not
been written since they were read, while its author has looked at more. So the
invariant says what the optimistic check does not see. `IInv` has six parts:

- the invariant of the ledger;
- `Typed`: a command awaits only where its operation can;
- `RecoversFirst`: recovery is over before a request is served;
- `StreamsHold`: what the history, the queue and the checkpoint of a run may
  hold, so that an event that is applied, or applied again after a restart, fits
  the status of its run;
- `Coordinated`: of the commands on their way to a driver, one at most is ahead of
  its run (`LaunchHolds`); at most one approved fallback waits for its run
  (`PromiseHolds`); two commands never start a driver for the same run
  (`StartingHolds`); a retry that has committed its context finds no run live,
  though its task has been moved on by nobody yet (`RequeueHolds`);
- `Informed`: what a snapshot that is still fresh tells (`SnapHolds`,
  `EventHolds`).

`StaysCoordinated` and `StaysInformed` carry the last two over a step of another
thread; then there is one lemma per action, which shows that its commit is lawful
and what the thread knows afterwards. `TypeCorrect` needs one more part, `Tidy`: an
idle thread holds no snapshot, because none of its commits is pending, and a
clean-up under way has a run.

The proof found a gap in the model. In `Requeue`, the second commit of a retry
reads the task anew after the first one and does not state the cursor, and a
second launch could slip in between. In the code it cannot: from the first commit
to the second read there is no I/O, only resolved promises
(`management-command-service.ts:514`), and whatever a launch waits for is answered
in a later turn of the event loop. `Answers` in `Select` says that.

`DecisionsFindTheirQuestion` is about the other side of an approval: the answer a
driver hears. A decision is sent only while its driver waits for it, and by one
request (`RespondsToOpenQuestion`, crashes included); before the first crash, what
is recorded as delivered was decided and is waited for no more
(`AnswersFindTheirQuestion`). `RespondsToOpenQuestion` says nothing of how a question
comes to be open, so `AnswerInv` adds it: while a driver works, every question in its
history is open or decided, and every pending approval is open (`QuestionHolds`); a
queue holds only questions of the history, so the consumer puts no other to the
operator; the questions of a checkpoint are decided, because a driver exports its
state only while it waits for nobody - that is why a resumed driver, which starts
with no open question, waits for none; and a request that has its decision has the
only one (`AnswerHolds`, `AnsweredOnce`): whoever commits it found the approval
pending, and a decided approval never becomes pending again (`DecisionsLast`, which
is where the refinement of the ledger is used). Most steps ask and answer nothing,
and `AnswersGoOn` carries the invariant over them; a question, its presentation, its
decision, the answer, the checkpoint, a start and a resumption have a lemma each.

### Contracts

`WhatRunsIsFounded` has no bound on tasks, versions, relations, handoffs, packages,
runs and calls. A call reads, checks and commits later, and states at its commit the
revision of the task, the event cursor or nothing at all. `ContractsInv` says what it
may rely on (`CallFits`): what `Moves` lists never changes once it is written; if the
revision is the one that was read, so is the task; a retry whose cursor still stands
finds no package under its key. Validation needs `VersionsFit`: every version but a
draft that is the latest one is within limits, so that a version cannot be
replaced by an invalid one between validation and start. `OneWorksOn` is the part
that is easily missed: the later commits of a start move the task without looking
at its status again, and are lawful because a task that is queued or running is the
work of one call or one run. `PreparedIsSound` is what the policies
achieve: whatever passes them makes a sound package.

Stating it for any contracts showed that the property claimed too much: of work
outside the base, only a `related_to` relation owes a warning. `supersedes` and
`follow_up_of` owe none (`handoff-policy.ts:150`, and its test), and `HandedOver`
now says so.

### Sessions, leases, worktrees

`RunSessionsFormChains` and `RolloversFormAChain` are refinements with a step
lemma per action. The runtime's needs that one rollover at most is past the
policy check for a run and that its commit finds the session it started from
(`OneMoves`, `ReplacedListens`): the handle of the run is what serialises them.
The policy's needs that one session stands at a time and that the plan names it
(`OneStands`, `PlanStands`). `OneListens` joins both to the property of the run.

`LeasesStayExclusive` rests on `TablesAgree`: a resource is indexed under the
lease that names it, before and after pruning (`PrunedTables`). For
`WorktreesAreOwnedOnce`, `EnsureInv` says what a call between two git commands may
rely on, and `OwnerInv` that an owner's leases name its worktree for as long as
they last.

### The repository

`SqliteRefinesMemory` is `StoreSpec => InMemory!MemorySpec`: the repository that
works in SQL statements, any of which may fail, does what the one in memory does at
once, for any writers, requests and number of commits. `SqliteIsMemory` states it
the way the run `Records` checks it. A request is read from the records at one
time and committed at another, so nothing is assumed of the revisions and the
cursor it states (`StoreRequests`).

- The memory takes its step at COMMIT, or where the code answers without a
  transaction; every other statement is a stutter. So the invariant (`StoreInv`,
  theorem `StoreStaysSound`) must say what an open transaction holds: before the
  first write, the database itself; later, that the request fitted the database,
  that the rows are those of the database with some of the request's written over
  them, and that the events are those of the log with the first few of the
  request's behind them (`TxWrites`). At COMMIT nothing is left to write, and this
  is the request applied to the records of the memory.
- The checks of the two are not written alike. SQLite compares the column of a row,
  the memory the record; the invariant has the column equal to what is projected from
  the record (`RowIsSound`). One looks for an event in the table, the other in a
  list; one validates the bindings stored so far, the other the prospective map.
  The code between them is shared by `DomainRequest`.
- A page of events is a SELECT with an order and a limit on one side and a scan that
  stops when the page is full on the other. The first takes the rows whose rank is
  within the limit; that the scan arrives at the same rows, and both at the same
  cursor, needs that ranks count the rows met so far.

`BoardsAreWhole`: what a client put together from pages is a list of one moment. The
invariant is `FirstPart`: what it has is the first *k* tasks of the list at the head
of its first page, and its cursor names the last of them. The code scans the sorted
board from the cursor on, skips other statuses and stops at a full page; that this
gives the next tasks of the filtered list is an induction along the board, made by
looking at the first place where it would be wrong.

### Services

- `BoardsAreShownAsTheyWere`: what a projection answers was so at the cursor it states,
  for any board, number of attempts and changes. The boards of the past are kept
  (`PastIsKept`), and what has been read so far is what the records are unless the
  cursor moved (`ReadAsItIs`); the comparison of cursors at the end discards the
  rest. The property also says that the shares of the chart add up to the whole, that
  none is off by a point and that a larger bucket has no smaller share; the proof is
  about the largest remainders of any four counts, not those of the run.
- `OneSessionPerSecret`: a secret is in one place - to be used, on its way to a
  session in one handler, or the origin of one cookie (`AccessInv`).
- `ExecutedOnce`: a token is taken by one request, and a receipt, a confirmation
  and an execution of one key are of one request (`TakenOnce`, `UsedOnce`).
- `EventsArriveInOrder`: what is being sent, queued and fetched is consecutive
  from the event delivered last, for any capacities (`Consecutive`, `Gapless`).
- `NoBlindDecision`: an action property; the page is honest about the cursor of
  what it shows (`Honest`), and what is shown at the click is what is stated.
- `WhatIsNamedIsKept`: a manifest has its blob at every file operation
  (`ManifestsHaveBlobs`), a preview's list loses nothing that was named since.
- `EveryVersionIsWhole`: the schema has the tables of its version between any two
  statements of the process that holds the write lock (`WritesAlone`).

### Processes

- `OneBridgeAtATime`: unless two processes raced for a stale lock, the lock file
  names the one Bridge that may have the database open (`FileStands`,
  `LockWithBridge`); and each driver belongs to a run that its Bridge still holds
  or closed without hearing (`Belong`).
- `AllEventsBeforeTheEnd`: the requests on the pipe are the calls that are not yet
  served, in order (`ServedInOrder`), so there is one subscription and the stream
  begins when the host has served it (`OneSubscription`). Until the subscription is
  left, the events that were delivered, are queued or are on the pipe add up to
  those the driver emitted (`EventsArrive`), and no event follows the end of the
  stream (`EndArrives`). `LinesAddUp` and `FirstLine` count the lines of the pipe.

### Drivers

- `ClaudeRunsAreCarried`: only the current query, or the one the request under way
  stops, lives (`LiveFits`); the mapper, the validator and the record agree
  (`RecordFits`); what waits in a queue and what the mapper keeps is of calls the
  query made, and a call is of one query (`CallsFit`, `SaidFits`); and what the SDK
  was told differs from what the events say only in a run that failed (`ToldFits`).
- `OpenCodeRunsTellWhatHappened`: the pump and the request of the host can both say
  that a permission was answered, and either may come first. So the invariant is
  about what is on its way: an event in the stream is of a call the server made and
  tells what it did (`OcEventFits`); what the server was told and the events do not
  say yet is the answer in the host's hands, or the run is at its end
  (`OcToldFits`); and an answer in the host's hands finds its question open, or
  said by the pump with the same decision (`OcRequestFits`). The pump's end of a run
  needs that a run that succeeded has no open question (`OcRunFits`).
  `OcQuiet` covers the twenty or so steps that say nothing of a call.

### What stays with TLC

- Liveness (`PageCatchesUp`, `EventsArePublished`, `VerificationEnds`,
  `EveryoneIsAnswered`, `NobodyWaitsForever`, `WorkIsJudged`): fairness and
  ENABLED are out of the prover's reach.
- Properties of `BridgeRun` that hold in some configurations only, for reasons
  section 4 gives: `NothingHalfDone`, `OneDriverProcess`, `ActiveHoldsLease`,
  `SomebodyListens`. A theorem would need an assumption on `Ops` and `Faults` that
  the code does not make.
- `AnswersFindTheirQuestion` after a crash. The theorem covers it while
  `crashes = 0`, as the run does: after a crash the numbers of events beyond the
  checkpoint are used a second time, so that a new question may carry the number of
  an old, delivered one. That decisions are sent only to open questions, and once,
  is proved for every behaviour.
- `RecordsTypeOK` and `ServicesTypeOK`, the type invariants of the compositions: the
  proofs carry the types of each component in its own inductive invariant.
- What recursive operators and the library's operators with operator parameters
  (folds, sorts) compute for every input: the provers cannot expand the first and
  cannot instantiate the second. Where a component needed it, the model says in a
  formula what the fold says - the rank of a task, the sum of four counts - and a
  least counterexample takes the place of the induction.

## 6. Not modelled, and what is open

Left out:

- review cycles and `sendFeedback`: no submission leads into the rework loop;
- the MCP server, tool contracts and schemas: stateless dispatch and validation;
- the permission, path and recovery policies, driver selection, credentials and
  configuration: pure functions over their input;
- calendar days of the projection (`zonedMidnight`), usage tables, rendering;
- the Cline spike and the placeholder CLI driver, which are never started.

Open:

- the safety part of what `EventsArePublished` promises, that an event is published
  before it is completed and after its predecessors, as a theorem of `Outbox`;
- review cycles, once a submission can reach them;
- the properties of `BridgeRun` that hold in some configurations would become
  theorems without an assumption when findings 1 to 4 and the cases under "also
  seen" are dealt with in the code.
