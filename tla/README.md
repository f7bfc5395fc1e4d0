# Verification of agent-brain

TLA+ models of the parts of agent-brain that schedule work, share scarce resources
and keep what users edit; TLC configurations that check them; TLAPS proofs about
the job queue and its life cycle, the provider gate, the GPU lease, the items, the
budgets and the revision history. Line numbers
refer to the files under `src/`; `PROJECT.json` maps every definition to the lines it stands for.

## The system

agent-brain is one tokio process over a Neo4j graph. A chat turn, an MCP call or
a scheduler tick calls tools; long work becomes a chain of `AgentJob` nodes that a
single coordinator runs. What survives a restart is in Neo4j (DuckDB for
telemetry); heaps, permits, waiters, leases, counters and the profile memory are
memory.

| Component | State | Operations | Interacts with |
|---|---|---|---|
| **Job queue** (`crates/work/src/queue*`, `crates/repository/src/agent_job.rs`) | AgentJob nodes; a heap, the coordinator's set-aside entries, tombstones, a stored notification, one semaphore per provider | submit a chain, pop/dispatch, execute, retry, die, promote or cascade; cancel, retry, drain, redrive, discard; audit, expire, clean up; recover | repository (every call is a guarded query), GPU lease (defers local steps), scheduler (owns Tasks), tools |
| **Provider gate** (`crates/llm/src/provider_gate.rs`) | per provider: capacity, permits in use, three FIFOs of waiters | acquire, permit drop, configure | every model call; registry reloads |
| **GPU lease** (`crates/llm/src/gpu_lease.rs`) | the book in memory, one GpuLease node, a release hook | acquire, release, held, init, unload | queue, LLM client, `store_note`, backfill |
| **Scheduler** (`crates/scheduler/src/scheduler.rs`, `repository/src/task.rs`, `workflow.rs`, `work/src/queue/gates.rs`) | Task and Workflow nodes, error budget | tick, fire a due workflow, run now, dispatch a run, scan, stale reset, retry after a low score | queue (enqueues chains; their last step closes the Task) |
| **Item dispatch** (`crates/scheduler/src/item_dispatch.rs`, `api/src/items.rs`) | Todo nodes, SPAWNED edges | poll, start a run, deliver, reconcile; assign, approve, send back, edit | queue, Tasks |
| **Budgets and routing** (`crates/llm/src/budget.rs`, `routing.rs`, `provider_registry.rs`) | counters per provider and model, cooldowns, `model_usage` | record, observe, verdict, seed | every model call |
| **Revisions** (`crates/work/src/revisions.rs`, `repository/src/revision.rs`) | `(:Revision)` nodes of a workflow, a program or a profile; its node; the profile memory | save, revert, delete, reset, seed, reconcile | tools, REST, files |
| **Workflows, programs, profiles** (`crates/work`) | declarative definitions in the graph | render, validate, seed, audit | scheduler, chat |
| **Knowledge** (`crates/knowledge`) | notes, entities, links | store, search, consolidate, reason, backfill | LLM, lease |
| **Chat and agent runner** (`crates/chat`) | one turn's transcript | the tool loop, delegation | gate, budget, tools |
| **MCP server, REST API** (`crates/app`, `crates/api`) | sessions, SSE subscribers, the assembled services | protocol, start-up order | all services |
| **Retrieval, graph upkeep, host, skills, plugin API, models, protocol, decision, engine** | caches and configuration | one call each | repository, HTTP |
| **Plugins** (alias-judge, apis, core, developer, epistemics, github, harness, maps, mcp-client, media, ml-lab, osint-data, reference, research, sandbox, websocket) | own nodes in the graph | tools and idle loops | through tools |
| **HBI frontend, vendored driver, ingress, evaluation data** | - | - | - |

Hard behaviour, and what makes each component right:

* **Queue.** Every execution is a sequence of separate database calls, and the
  submitter, the coordinator, the other executions, operators, the orphan audit,
  TTL expiry and cleanup run between any two of them; the process may stop
  anywhere. Right means: a job runs once at a time and at most `max_attempts`
  times; steps run in order; a cancelled job stays cancelled; no wakeup is lost;
  everything ends.
* **Gate.** Futures are dropped at any await, and the registry is reloaded with
  requests in flight. Right means: no slot is lost or idles, the limit holds,
  classes and arrival order are respected, every waiter is answered.
* **Lease.** The book changes under a lock, its node later and outside it; notes
  ask for the lease several times while they are stored. Right means: one holder,
  for as long as it was told, over restarts; local models come back; no note is
  left without its vector.
* **Scheduler.** A Task's status is written by ticks, by the chain's last step, by
  the chain's death, by the evaluator gate and by the stale reset, in any order, and
  two ticks may overlap. Right means: one chain for a Task, no stacked runs, one
  retry for a low score, what a chain closed stays closed, everything ends.
* **Items.** A poll or a request decides on a copy of the item it read some calls
  ago. Right means: one run at a time, each approved if its agent asks first, at
  most `MAX_RUNS`, and the item leaves `in_progress` again.
* **Budgets.** A verdict is asked before a call and the call is recorded after it;
  counts live in memory. Right means: a run goes over a cap by one call, a restart
  or a midnight gives nothing back and keeps nothing, every model is tried again.
* **Revisions.** A save reads, decides and writes in several calls, beside other
  saves, deletes, resets and a start's seeding. Right means: a linked history, no
  lost edit, and what is live is the newest revision.

## The modules

| Module | What it is |
|---|---|
| `JobQueue`, `MCJobQueue` | the queue: state, actions, properties; instances for TLC |
| `JobLife` | the life cycle a reader of AgentJob nodes may count on: the queue's abstract specification |
| `JobQueueProofs` | type invariant and lost wakeups, proved |
| `JobQueueLifeProofs` | one execution at a time, attempt cap, chain order, cascades, finality of cancel, and that `JobQueue` implements `JobLife`, proved |
| `ProviderGate`, `MCProviderGate` | the gate of one provider |
| `ProviderGateProofs` | no idle slot, no leak, no overtaking, the limit kept, proved |
| `GpuLease`, `MCGpuLease` | the lease, its node, notes and backfills |
| `GpuLeaseProofs` | one holder, grants honoured, notes backfilled, proved |
| `Scheduler`, `MCScheduler` | ticks, Tasks, and the chains they become |
| `SchedulerProofs` | one chain for a run, no stacked run, one retry, one scan Task, closed stays closed, proved |
| `ItemDispatch`, `MCItemDispatch` | one item, its runs, and the user |
| `ItemDispatchProofs` | work for the latest claim, runs numbered once and capped, approvals, proved |
| `Budget`, `MCBudget` | one provider's budget and those who spend it |
| `BudgetProofs` | one call over, and the book agrees with the ledger, proved |
| `Revisions`, `MCRevisions` | one object, its history, and what writes them |
| `RevisionsProofs` | linked history, edits on the newest version that keep what they replace, the live definition and the file's at rest, proved |

Operators marked `\* mutant` stand before the definition they vary; nothing in
the models uses them. They are plausible bugs in that definition, and each
property is known to fail when its definition is replaced by one.

Many properties hold unless some unguarded write went wrong. The models then keep
those writes and record each in a history variable (`slip`, or `overtaken` and
`straddled` in `GpuLease`, `uncounted` in `ProviderGate`); a property names the
slips that excuse it, and holds in spite of all the others.

### JobQueue and JobLife

One action is one database call, or one critical section on memory.

| Model | Code |
|---|---|
| `status`, `attempts`, `created` | AgentJob nodes: `status`, `attempt_count`, existence |
| `heap`, `blocked` | the `BinaryHeap` as a bag (priority is abstracted) and the entries a pass sets aside |
| `tomb`, `notified` | `cancelled_ids`, the permit stored in `notify` |
| `coord` | `idle`, `scan` and the steps of `recover` |
| `exec[s]` | the `execute_job` future that holds permit `s`, with its program counter |
| `submit[r]`, `client[c]` | `enqueue_chain_owned`; a caller of cancel, retry or drain |
| `CreateStep`, `PushFirst`, `SubmitFails` | queue.rs:412-609: first step queued, the others parked, then the heap |
| `Wake`, `Poll`, `Pop`, `EndPass` | queue.rs:686-782; the poll reloads the heap from Neo4j |
| `Start`, `ToolReturns`, `Complete`, `Failed`, `Requeue`, `Dead`, `Unpark`, `PushKids`, `Skip`, `CancelGeneration` | queue.rs:1028-1374, each guarded as its query in agent_job.rs is |
| `CallFails` | one of those calls returns an error |
| `BeginCancel` ... `DrainQueued` | ops.rs, call by call |
| `Redrive`, `Discard`, `OrphanAudit`, `Expire`, `Cleanup` | agent_job.rs, one query each |
| `RecoverRunning`, `RecoverOrphans`, `RecoverHeap`, `Crash` | `recover`, and the loss of all memory |
| `begun`, `completedOnce` | history, read by properties only |

A step is `Optional`, an `Evaluator` (its result may block the chain), `Pinned`
(its model may be refused before the tool runs), `LocalPinned` (deferred while
the GPU is leased) or `Expirable`: what the code reads from the job's arguments.
`max_attempts` of 0 is allowed, as in the code.

`JobLife` knows nodes only: a job is absent, parked, queued, running, over or
erased; it begins from queued with an attempt left, is promoted when its parent has
completed (or is optional and has run), and comes back from the dead letters with
no attempt spent. A step moves any number of jobs, each by one such move.
`LifeRefined` is `JobLife!Spec` with `phase` read off `status` and `created`: a node
never created is `absent`, a deleted one `erased`.

### ProviderGate

One action is one critical section of the mutex: `Arrive` (acquire up to its
await), `Receive`, `Finish` and `GiveUp` (the permit or the future is dropped),
`Configure` and `Ungate` (a registry reload with and without a limit). `call`
says where each request stands; a request that gives up while queued leaves its
sender behind (`gone`), and `Dispatch` skips it as the code does. A request id is
used again once its former use has left no trace.

### GpuLease

Time is the number of hours a lease has left; `Tick` is an hour. `Acquire` writes
the book, `Persist` the node, and every end of a lease spawns a DELETE
(`RunDelete`) and a backfill task (`FillReads`, `FillEmbeds`). A note goes through
`StoreNote`, `AskLease` and `MarkPending`, which are separate calls in
`store_note_raw` and `spawn_extract_entities`; a backfill embeds a note and asks
for its entities the same way. `granted` records what each holder was told;
`overtaken` and `straddled` record that a write came late, and that a note was in
the middle of being stored or embedded when a lease began or ended.

### Scheduler

One action is one database call of a worker: the loop's tick, a tick asked for by a
tool call, or a request to run the workflow now. `task` is the list of Task nodes in
the order of their creation, each with its chains; a chain is executed by
`ChainStep` alone (work, score, close, requeue, die), which is the queue seen from
the Task.

| Model | Code |
|---|---|
| `StartTick`, `ResetStale`, `ReadDue`, `CheckLive`, `Fire`, `Timer`, `EndTick`, `CountError`, `Pause` | `run_tick` and the loop around it: the stale reset, due workflows, and the error budget |
| `List`, `Take`, `Enqueue`, `Mark` | created Tasks, newest first, up to `max_tasks_per_run`; `dispatch_run` enqueues the chain and then marks the Task |
| `Scan`, `Propose` | one open Task for a condition |
| `RunNow`, `Submit`, `Resume`, `TimerDue`, `SixHours` | what comes from outside, and time |
| `WorkDone`, `FailScored`, `Requeue`, `Close`, `StepDies`, `FailOwner`, `CancelChain` | a chain's steps, the evaluator gate with its one retry, the closing step, the death |

Slips: `exposed` (another worker has listed a Task, or holds it, between its creation
or listing and its mark), `unmarked` (the mark failed, the chain was half enqueued
or the process stopped before the mark), `late` (the mark came after the Task's
end), `raced` (a run began between the check and the firing), `together` (two scans
at once).

### ItemDispatch

One item; items do not touch each other. A worker is a poll or a request that
carries the item as it last read it. `Reconcile`, `Reread`, `Settle` and `List` are
the poll; `Refuse`, `Ask`, `Claim`, `CreateTask`, `MarkTask`, `LinkTask`, `Enqueue`,
`GiveBack` are `dispatch` and `start_run`; `StartAssign`/`Patch`/`Reset`,
`StartApprove`/`Allow`, `StartSendBack`/`Return`/`Hold` and
`StartEdit`/`Load`/`Save`/`Reassign` are the user's requests, each call by call.
`AgentAnswers`, `Deliver`, `Store`, `Close`, `StepDies`, `FailTask` execute a run's
chain; `Stale` and `CancelChain` end it from outside.

Slips: `overwritten` (a status write without a guard hit a run that was going on),
`overtaken` (a failure or a result was settled on a later claim), `headless` (a
half-created chain whose claim was given back), `orphan` (a claim lost with its
worker), `early` (a Task failed while its chain works), `swapped` (the assignee
changed under an approval).

### Budget

Time is a clock of minutes, days and months, each bounded by a constant. `book` is
`ProviderCounters`, with `fresh` and `month` saying that its counts are of today and
of this month; `models` is each `ModelState`; `ledger` is what `model_usage` holds.

| Model | Code |
|---|---|
| `Verdict` | `verdict_with`, `check_limits`, `counters_usage` |
| `Begin`, `Admit`, `NextRung` | `generate` and its chain of rungs, each admitted when it is its turn; a turn, admitted once; an embedding under a lease |
| `Round` | `paid_cap_refusal` before every call of a turn |
| `Answer` | the response's headers, `observe` |
| `Write`, `WriteFails`, `Count` | `record_call_reported`: the row, then the book; then on to the next round or rung |
| `Drop` | the future is dropped, or the body is no answer: nobody counts the call |
| `Tick`, `Restart` | time; a start seeds the provider, the models, or neither |

`beyond` counts, per run, the calls that ended today at or beyond a daily limit;
`slip` says that a call is in the book or in the ledger alone: its row failed, it
was an embedding (`record_priced_call` writes no row), or midnight came between the
row and the count.

### Revisions

One object of one of three kinds. A definition is the set of what was put into it: a
save adds its writer's key and keeps the others, so a lost edit is a missing key.
`Start`, `Prepare`, `Gate`, `Latest`, `Txn`, `Plain`, `Remember` are a save or a
revert; `Find`, `ReadVersion`, `Retire`, `Remove`, `Forget` a delete; `Unretire`,
`Reset`, `SeedRead`, `SeedWrite`, `Mark`, `Compare`, `Prune` the seeding of a reset
or of a start; `List`, `Row`, `Judge`, `ReadTop`, `Stamp`, `Load` the reconciliation.
The start runs before the server serves (brain_core.rs:359-369), so requests begin
when it is over. `Restart` also lets the owner remove the file or write it from what
is live.

Slips, all since the last start: `undone` (an unchanged save, or a reset, wrote over
a version that came in between), `stale` (a profile's save was laid over a memory
behind the graph), `restamped` (a stamp went behind the newest version), `outside`
(a seed's or a baseline's revision of something no longer live), `kept` (a delete
matched nothing, for the object was made anew), `rewritten` (a file was written
over an edit before its revision).

## The runs

| Run | Question | Distinct states |
|---|---|---|
| `JobQueueCrash` | three-step chain (an evaluator, an optional local step, a plain one; one attempt each), two permits, one crash, one failing call, one lease: attempt cap, chain order, cascades find their children parked, no lost wakeup, and the nodes live as `JobLife` says | 2.8 M |
| `JobQueueOperators` | two-step chain, two callers, one cancel, drain, redrive, discard, expiry and cleanup each: no double run, cancel is final | 3.0 M |
| `JobQueueLive` | two-step chain with two attempts each, one cancel, retry and crash, under fairness: every job ends unless a step is stranded | 0.6 M |
| `ProviderGate` | four requests of three classes, limits 0, 1, 2 and none: all properties of the gate, liveness included | 5 k |
| `GpuLease` | two holders, two-hour leases, two acquires, one of everything else, one note: all properties of the lease, liveness included | 1.7 M |
| `Scheduler` | the loop beside one other worker, two interferences: one chain, no stacked run, one retry, one scan Task | 1.4 M |
| `SchedulerFaults` | the loop alone with failing calls, a crash, dying steps and six hours that pass, under fairness: what is closed stays closed, every Task ends, a due workflow fires | 0.3 M |
| `ItemDispatch` | two workers, an agent that asks first and one that does not, one assignment, approval, send-back and edit each: no second run, no run number twice, the cap, approvals | 7.4 M |
| `ItemDispatchFaults` | one worker with one failing call, crash, stale reset and cancelled chain, under fairness: no run number twice, the item is released | 472 k |
| `Budget` | a turn of two rounds beside a generation of two rungs or an embedding on one paid provider, two-minute days, two-day months, one restart or failing row, under fairness: one call over, book and ledger agree, every model comes back | 1.2 M |
| `Revisions` | each kind, two requests at a time, four in all, one restart: all properties of the history | 3.7 M |
| `RevisionsHanded` | expected to fail, see below | |

**What the code does and its comments deny.** One is a run: `RevisionsHanded`.
`reconcile` hands an object "back to its file" when the live hash equals the
`seed_hash` last stored on the node (revisions.rs:417-419, 488). Nothing clears that
hash when the file is removed or its plugin is turned off: a runtime-owned object is
then marked yaml-owned with no file there, and the next start deletes a profile or a
program as one whose file is gone (profiles.rs:247-258, programs.rs:848-862).

The others are named as excuses in the properties and found by dropping the excuse:

* `NoDoubleRun`, `AttemptCap`: cancel and retry during an execution give two
  executions and an attempt above the cap. The theorems assume no operator retries.
* `EventuallySettled`: the first step can finish before its successor is created; the
  successor is then parked for good. The orphan audit can cancel the child of an
  optional step between its death and the promotion.
* `LimitUnlessRemoved`: a gate removed and restored under load admits twice its limit
  (provider_gate.rs:3-6 promises the limit).
* `OneHolderUnlessOvertaken`: a late DELETE erases the next lease's node; after a
  restart a second holder gets the GPU (gpu_lease.rs:28-31). `Backfilled`: a note
  marked pending after the release's backfill has read stays without a vector.
* `OneChain`: scheduler.rs:579 says "Mark in_progress at once so the next tick cannot
  dispatch it again"; the Task is created as `created` (scheduler.rs:483) and marked
  after its chain is enqueued, and nothing keeps a tick asked for from overlapping the
  loop's. `create_run`'s own doc (task.rs:72-74) says a firing passes `in_progress`.
* `ClosedStays`: that mark is unconditional (scheduler.rs:580): a chain that has ended
  before it finds its Task in progress again, until the stale reset fails it
  six hours later. The reset itself (task.rs:127-139) does not ask whether the chain
  is still queued.
* `ApprovedRuns`: "single-use" approval (item_dispatch.rs:14-15) is for a run number;
  an assignee swapped under it may be another agent than the one approved.
* `BookAgrees`: "a restart does not hand back a spent quota" (budget.rs:10-11) does
  not hold for embeddings paid for under a lease: `record_priced_call` counts them in
  the book and writes no row to seed from. A row that cannot be written takes the
  computed price with it: the book counts what the provider told, or nothing.
* `NoLostEdit`: "nothing is lost" (revisions.rs:9-11) needs that a profile's save is
  not laid over a memory behind the graph, and that no unchanged save or reset, which
  raise no version, ran beside it. A reset's reconciliation may stamp an older version
  over a newer one (`SavedOnTop`); with three requests, one of them a save based on that
  version, the gate then lets it undo the newer one. The run has two; the proof met the
  case and TLC confirmed it, so `NoLostEdit` names `restamped` as well. `record_delete`
  ignores that the chain has moved on.

**Bounds.** `Budget` (a constant of `JobQueue` and `ItemDispatch`), `Total`, `Harm`,
`MaxOps` and `MaxStarts` bound how often what is not part of normal progress happens.
Retries of a job are bounded by `MaxAttempts`, its executions therefore too. Two
steps have one promotion, one cascade and one predecessor, which is all the
properties relate, and a third makes a cascade of two generations; two permits let
two executions of one job, or of parent and child, overlap; two callers let operators
overlap. The steps of the longer chain have one attempt each, which keeps the run
short: a failure and a recovery with attempts left are in `JobQueueLive`, and for
every cap in the theorems. Four requests fill a gate of capacity two and leave a
waiter of the same class and one of a higher class. Two holders and two-hour leases
let one renew, expire and overlap another's node. Two workers of a scheduler or an
item are all that a race over one node takes; a third would race with one of them.
Two runs of an item are the cap and one more. In `Budget`, a limit of a minute, of a
day, of one model and both caps are each reached first by some behaviour; a day of two
minutes separates a minute's end from midnight, a month of two days midnight from the
month's end; the bench outlasts a day; a backoff of two steps reaches its last one.
Headers and hints lengthen no wait in that run (`Hints` is empty), and calls succeed
or hit the account's limit: the other outcomes differ in how long a model waits.
Four requests let two saves, a delete and a re-creation meet; one restart reconciles
what they left.

**Fairness.** `JobQueueLive`: tasks that can run are scheduled; a tool call
returns (each has a timeout in the code); the poll interval passes when no
notification comes, and only then, which is the weakest reading of the
`select!`; the audit timer fires; a lease expires. Operators, crashes and faults
are not fair. `ProviderGate`: a request that got its permit ends, as its HTTP
timeout makes it; nobody is obliged to give up or to reload. `GpuLease`: time
passes, the coordinator asks `held` at every pass (queue.rs:705), spawned
backfills run and a crashed process is started again. `SchedulerFaults`: the loop
ticks while it is enabled, a tick goes on, the queue executes its chains, six hours
pass; the properties are stated for a loop that is not paused for good.
`ItemDispatchFaults`: requests are served, polls keep coming, chains execute, and the
scheduler's tick fails Tasks that nothing is left to end. `Budget`: time passes, a call
ends (its HTTP timeout makes it) and is recorded; nobody is obliged to call again.

`CHECK_DEADLOCK FALSE` is set for `GpuLease` only, where the process really rests
once the budget is spent and the note is stored.

## The proofs

For every chain, set of permits, caps and budgets that satisfies
`ChainAssumption` and `ParamAssumption`:

* `TypeCorrect`: `Spec => []TypeOK`, one case per action. `MovesShape` and
  `CallsShape` say once what a step of an execution or a caller may do to it.
* `NoLostWakeupHolds`: `Spec => []NoLostWakeup`. By itself it is not inductive:
  during a pass the heap may hold entries that are still to be looked at, and the
  entries set aside return to the heap when it ends. `WakeInv` adds that during a
  pass without a stored notification every entry set aside waits for something,
  that outside a pass nothing is set aside, and that nothing executes before
  recovery is done. A step that frees a permit or pushes an entry stores the
  notification (`WakeKept`, `WakeKeptByExecution`).
* `NoDoubleRunHolds`, `AttemptCapHolds`, `ChainOrderHolds`,
  `CancelledIsFinalHolds`, each `ASSUME Budget["retry"] = 0`: an operator's retry
  breaks them. They rest on `LifeInv`: an execution's job has begun and is running,
  cancelled or gone; a parked job has spent no attempt and a queued one has one left;
  a queued job's predecessor has had its turn; a node that does not exist has no past.
  So `set_job_started`, the only way in, finds no execution under way, an attempt left
  and the predecessor done. One execution at a time, the cap and the order need each
  other: with two executions one could requeue what the other still runs.
* `CascadeFindsParkedHolds`: `Spec => []CascadeFindsParked`, for `Budget["retry"]` and
  `Budget["redrive"]` 0 and no optional step that is an evaluator. Without either it is
  false, and TLC shows how: a dead letter put back before its cascade is over runs
  again and promotes the children the cascade has not reached; an optional evaluator
  whose skip was lost after it had promoted its children runs again and blocks them.
  `CascadeInv` adds to `LifeInv` that a claimed job has one execution and does not wait
  again (`Claimed`), that a parked job has never run and a completed one never runs
  again (`Outcomes`), and that a cascade is only ever about the step that ended the
  chain and about cancelled steps that never ran (`Cancelling`). What can promote a
  child is an execution of its parent: for the former there is no second one, for the
  latter none at all.
* `LifeRefinedHolds`: `Spec => LifeRefined`, under the same assumption. `LifeInv`
  says of every job what its move needs; a step that begins and completes nothing
  moves each node by one of eight moves (`MovesAreMoves`), and `Start` and `Complete`
  are the two that do; every other step maps to a stutter.

For every number of requests, operations and starts (`RevisionsAssumption`):

* `TypeHolds`: `Spec => []TypeOK` of `Revisions`, and `ChainHolds`:
  `Spec => []ChainLinked`, both from one invariant `Inv`. `ChainLinked` alone is not
  inductive: an append in its transaction adds a revision after the version it read,
  linked to the definition it read. `Pending` says of each that the version is one of
  the history and still has that definition (revisions are never changed), and that
  what writes the file's definition runs only while there is a file; the transaction
  itself refuses when the history has moved on. `Linked` states the history as an
  initial segment, from which `Top` is its length (`TopIs`).
* `SavedOnTopHolds`, `NoLostEditHolds`, `LiveIsLatestHolds` and `OwnedByFileHolds`, from
  `Whole`, which extends that invariant. `SavedOnTop` needs that a request past the gate
  carries the version it read (`Way`) and that the object, once the start is over, is at
  the newest version or at none (`Versioned`). `NoLostEdit` needs to know what the
  version says about the definition: as long as the object is at the version a save is
  based on, it has the definition the save was laid over (`Laid`), because a write that
  changes one and not the other is noted, and a version is not given twice. For
  `LiveIsLatest`, `Settled` says that whenever the newest revision is not the live
  definition somebody is about to make it so: a delete about to remove the object, an
  append of the live definition, a reconciliation that has read it, or one that has not
  begun to read (`Fixes`). `OwnedByFile` follows how far the start is (`Seeded`): before
  it prunes, what a retired file owns may still be there; and the hand-back of an owner
  needs that the seed it is compared with is the file's.

For every number of runs, limit, ladder, rounds, day, month, crash and failure
(`BudgetAssumption`):

* `OneCallOverHolds`: `Spec => []OneCallOver`, and `BookAgreesHolds`:
  `Spec => []BookAgrees`, with `TypeHolds`, from one invariant `Inv` of
  `BudgetProofs`. Neither is inductive: a restart replaces the book by the ledger, so
  that no limit the book has reached is forgotten needs to know that the ledger is
  never behind it. `Agrees` says by how much it is ahead: by the calls whose row is
  written and that are not in the book yet, in all, of those that cost something, and
  of each model (`RowAdded` and `RowGone` say what a row written and a call counted do
  to their number). `Over` says that a run with a call beyond a limit has none under
  way while the book is full, and a full book refuses everybody (`FullRefuses`).

For every number of requests, classes, limits and reloads (`GateAssumption`):

* `NoIdleSlotHolds`, `NoLeakHolds`, the action properties `NoOvertakingHolds` and
  `LimitUnlessRemovedHolds`, and `TypesHold` of `ProviderGateProofs`, from one
  invariant. `Counted` ties the counter to the permits that are out, exactly so unless
  the gate was removed around some; `Sound` says that each queue holds its class and
  nobody twice, and `Order` that who is remembered to stand before a waiter does. About
  the loop of `dispatch` it is shown that it ends at a least number of pops (`Least`,
  `PoppedIs`), that each pop sends one permit at most (`OneMoreSent`), so that the last
  one sent still fits (`LeftWithin`), that it only ends with a free permit when nobody
  is left (`LeftFull`), and that who is popped stands before who is left
  (`PoppedFirst`).

For every number of holders, notes, backfills, hours, crashes and faults
(`LeaseAssumption`):

* `OneHolderHolds`, `GrantHonouredHolds`, `BackfilledHolds` and `TypesHold` of
  `GpuLeaseProofs`, from one invariant. None of the three is inductive. A restart
  takes the lease from the node, so what holders were told (`Granted`) must be true of
  the node while the process is down; that it is then true again needs `Persisted`:
  the node is the book as soon as the holder's acquire is not about to write it. The
  history `overtaken` says of a DELETE or MERGE that it came late; the proof shows
  that a write which did not is of the book's own lease. That one holder is told
  follows: what two holders were told would both be what one book says. For the notes,
  `Kept` says of each that no lease straddled who will complete it: the request that
  stores it, the end of the lease in the book, or a backfill that has yet to read or
  has it among its rows.

For every number of workers, agents, runs, edits, crashes and faults, and every cap
(`ItemAssumption`):

* `WorkIsCurrentHolds`, `NoRunTwiceHolds`, `RunsCappedHolds`, `ApprovedRunsHolds` and
  `TypesHold` of `ItemDispatchProofs`, from one invariant. A worker decides on a copy of
  the item and carries it through seven calls, so the invariant is mostly about what
  copies are worth: every worker past its claim has a claim of its own (`Claims`), and
  the run it is making is that claim's, with the number and the agent of its copy and no
  chain yet (`Held`); the numbers in workers' and chains' hands lie below the item's
  count and are distinct (`Numbered`), because the claim that takes one raises the count
  in the same query; an approval on any copy was granted for that number and agent
  (`Allowed`). `Current` needs that a Task fails only when its chain is over
  (`FailedLate`): otherwise a failure seen early would release an item an agent still
  works on. That at most `MaxRuns` chains exist is the pigeonhole principle over
  `Numbered` and `Capped`.

For every number of workers, Tasks, chains and faults, and every share of a tick, cap of
retries and error budget (`SchedulerAssumption`):

* `OneChainHolds`, `NotStackedHolds`, `ClosedStaysHolds`, `RetriedOnceHolds`,
  `OneScanTaskHolds` and `TypesHold` of `SchedulerProofs`, from one invariant. That a run
  gets one chain needs to know what every worker has in its hands: what it has picked or
  created is its own, in no other worker's hands, still `created` and without a chain
  (`Apart`, `Tidy`, `Fresh`), and a Task that has a chain and is still `created` is about
  to be marked (`Chained`), so that no list returns it to anybody but its worker's rival,
  which `exposed` records. That a tick's share names each Task once is proved of the
  ranking in `Picked` (`RankFalls`, `RankOnto`, `PickedIs`). What is closed stays closed
  because a chain that could still write works on a Task that is open, or old (`Settled`):
  the six hours are what makes a Task in progress stale, and no longer live, at once. A
  retry needs its origin's only chain to be over in the same step (`Retried`), and a
  worker about to propose needs the open scans to be none (`Scanned`). Steps are proved by
  what they do to one Task (`Calm`, `Opens`, `Settles`) and to one worker (`Lighter`).

The excuses are part of these theorems: each names the unguarded writes that break it
(`Without`), and is proved for every interleaving of all the others.

`WakeInv`, `LifeInv` and every `Inv` were model-checked on small instances before they
were proved.

Only model-checked: all liveness (TLAPS has no ENABLED). Every safety invariant and every
action property of the runs is proved.

## Abstractions and what is left out

* Queue: priority order of the heap, previews, result substitution, telemetry, events,
  model selection, semaphores resized at run time, the cascade's cap of 64
  generations, and a reply lost after its query committed. `config.enabled` is read by
  the coordinator and never written at run time.
* Lease: an acquire's refusal check and its gate permit are one step; `UNLOAD_WAIT` and
  the engine's unload (gpu_lease.rs:356-361), which changes no lease state but may cut
  off an embedding or race a release, are not modelled, nor are a note's optional
  fields, chunks and links. A holder's acquire and release are not concurrent with
  themselves.
* Scheduler: how long the loop sleeps (scheduler.rs:370), queries and edits of Tasks by
  hand, the conditions the scan looks for.
* Items: creation and deletion, notes and threads, items that became schedules; whether
  an item is due is a free choice.
* Budget: tokens (counted and limited as requests are), a model's own limit of a minute,
  pinned steps (no fallback), the routing policy's other rules, other providers.
* Revisions: drift, diffs and rendering; a program's prune assumes its plugin is loaded;
  validation of a body.
* The components marked `not_modelled` in `PROJECT.json`, with their reasons: they are
  I/O (drivers, HTTP, search), views (REST, the frontend), sequential code behind one
  call (skills, plugins, a chat turn), or batch queries over the graph (knowledge
  upkeep, entity resolution).

## Plan

1. The abstract chain that `Scheduler` and `ItemDispatch` use, as a specification that
   `JobQueue` is shown to implement, as it implements `JobLife`.
2. The engine's unload under a lease, and the loop's sleep.
3. Delegation between agents and the backfill of knowledge, the next components where
   several writers share nodes.
