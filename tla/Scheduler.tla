------------------------------ MODULE Scheduler ------------------------------
(***************************************************************************)
(* The scheduler (crates/scheduler/src/scheduler.rs): ticks that reset     *)
(* stale Tasks, fire a timed workflow, dispatch created Tasks as chains and *)
(* scan for work; with the writers that share the Task nodes with it, the  *)
(* closing step of a chain, its death, the evaluator gate and its retries. *)
(*                                                                         *)
(* One action is one database call.  A worker is a tick of the loop, a     *)
(* tick asked for by a tool call, or a request to run the workflow now:    *)
(* nothing keeps them from overlapping.  There is one timed workflow;      *)
(* workflows share nothing but the Tasks' newest-first list.               *)
(***************************************************************************)
EXTENDS Naturals, Sequences, FiniteSets

CONSTANTS
    Worker,      \* ticks and requests that may run at the same time
    Loop,        \* the worker that is the background loop
    MaxTasks,    \* max_tasks_per_run
    RetryCap,    \* retries after a low score (3 in the code)
    ErrorBudget, \* consecutive failed ticks before the loop pauses itself
    Allowed,     \* what may happen beside the loop's ticks and the chains, and
    Total        \* how often in all (both bound the model)

Ops == {"timer", "tick", "now", "submit", "scan", "score", "refuse", "guard",
        "fault", "crash", "hours", "cancel", "death"}

ASSUME SchedulerAssumption ==
    /\ Loop \in Worker
    /\ MaxTasks \in Nat /\ RetryCap \in Nat /\ ErrorBudget \in Nat /\ Total \in Nat
    /\ Allowed \subseteq Ops

VARIABLES
    task,    \* the Task nodes in the order of their creation, with their chains
    due,     \* next_run_at of the timed workflow has passed
    worker,  \* what each worker is at, and what it has read
    enabled, \* config.enabled
    errors,  \* consecutive_errors
    closed,  \* history: the Tasks a chain has closed
    slip,    \* history: what was overtaken or got lost between two calls
    used     \* how much of Total has been spent

vars == <<task, due, worker, enabled, errors, closed, slip, used>>

-----------------------------------------------------------------------------
(* Types *)

TaskStatus == {"created", "in_progress", "completed", "failed", "blocked"}
Kind == {"schedule", "now", "submitted", "scan"}

\* `gate` has scored the work too low; `closes` is what update_task will set, or
\* that the chain has no such step.
Stage == {"work", "close", "gate", "requeue", "failing", "over"}
Chain == [stage : Stage, closes : {"completed", "blocked", "nothing"}]

\* `old` and `stale`: created, and last written, more than six hours ago.
Task == [kind : Kind, status : TaskStatus, old : BOOLEAN, stale : BOOLEAN,
         tries : Nat, of : Nat, chain : Seq(Chain)]

Pc == {"idle", "reset", "due", "check", "fire", "timer", "enqueue", "mark",
       "list", "take", "scan", "propose", "end", "count", "pause"}

\* `back` is where a worker goes on after a dispatch.
Work == [pc : Pc, kind : Kind, run : Nat, picked : Seq(Nat), back : Pc, seen : Nat]
Idle == [pc |-> "idle", kind |-> "schedule", run |-> 0, picked |-> <<>>,
         back |-> "idle", seen |-> 0]

TypeOK ==
    /\ task \in Seq(Task)
    /\ due \in BOOLEAN
    /\ worker \in [Worker -> Work]
    /\ enabled \in BOOLEAN
    /\ errors \in Nat
    /\ closed \subseteq DOMAIN task
    /\ slip \subseteq {"exposed", "unmarked", "late", "raced", "together"}
    /\ used \in 0..Total

-----------------------------------------------------------------------------
Spend(o) == o \in Allowed /\ used < Total /\ used' = used + 1
Slips(what, when) == slip' = IF when THEN slip \cup {what} ELSE slip

To(w, pc) == worker' = [worker EXCEPT ![w].pc = pc]
GoBack(w) == worker' = [worker EXCEPT ![w].pc = worker[w].back, ![w].run = 0, ![w].back = "idle",
                                      ![w].kind = "schedule"]
Finish(w) == worker' = [worker EXCEPT ![w] = Idle]

Created(kind, tries, of) ==
    [kind |-> kind, status |-> "created", old |-> FALSE, stale |-> FALSE,
     tries |-> tries, of |-> of, chain |-> <<>>]

\* The process starts with a run that was submitted, or halted by the guardrail.
Halted == [Created("schedule", 0, 0) EXCEPT
              !.status = "blocked", !.chain = <<[stage |-> "over", closes |-> "blocked"]>>]

Init ==
    /\ task \in {<<Halted>>, <<Created("submitted", 0, 0)>>}
    /\ due = FALSE
    /\ worker = [w \in Worker |-> Idle]
    /\ enabled = TRUE
    /\ errors = 0
    /\ closed = {k \in DOMAIN task : task[k] = Halted}
    /\ slip = {}
    /\ used = 0

\* update_task_status: a write of the status, whatever it was.
SetTo(k, s) == [task EXCEPT ![k].status = s, ![k].stale = FALSE]

\* fail_task_with_reason leaves a Task alone that has ended or is blocked.
OpenStatus == {"created", "in_progress"}
FailedIfOpenCancelled(k) == SetTo(k, "cancelled")                        \* mutant
FailedIfOpen(k) == IF task[k].status \in OpenStatus THEN SetTo(k, "failed") ELSE task

\* live_run_of: an unfinished run of the workflow, no older than six hours.
LiveForGood == {k \in DOMAIN task : /\ task[k].kind # "scan"            \* mutant
                                    /\ task[k].status \in OpenStatus \cup {"blocked"}}
LiveIgnoringBlocked == {k \in DOMAIN task : /\ task[k].kind # "scan"     \* mutant
                                            /\ task[k].status = "in_progress"
                                            /\ ~task[k].old}
Live == {k \in DOMAIN task : /\ task[k].kind # "scan"
                             /\ task[k].status \in OpenStatus \cup {"blocked"}
                             /\ ~task[k].old}

\* What a worker is going to dispatch, and has not marked.
InHand(w) == {worker[w].picked[i] : i \in DOMAIN worker[w].picked}
             \cup (IF worker[w].pc \in {"timer", "enqueue", "mark"} THEN {worker[w].run} ELSE {})

-----------------------------------------------------------------------------
(* Calls of a tick, in their order *)

\* run_tick: the loop's when its sleep is over and it is enabled, or one asked for.
StartTick(w) ==
    /\ worker[w].pc = "idle"
    /\ \/ w = Loop /\ enabled /\ UNCHANGED used
       \/ w # Loop /\ Spend("tick")
    /\ worker' = [worker EXCEPT ![w] = [Idle EXCEPT !.pc = "reset"]]
    /\ UNCHANGED <<task, due, enabled, errors, closed, slip>>

\* reset_stale_in_progress_tasks
StaleOfNone(t) == FALSE                                                  \* mutant
StaleOfAny(t) == t.stale                                                 \* mutant
StaleOf(t) == t.status = "in_progress" /\ t.stale
ResetStale(w) ==
    /\ worker[w].pc = "reset"
    /\ \/ /\ task' = [k \in DOMAIN task |->
                        IF StaleOf(task[k])
                        THEN [task[k] EXCEPT !.status = "failed", !.stale = FALSE]
                        ELSE task[k]]
          /\ UNCHANGED used
       \/ Spend("fault") /\ UNCHANGED task
    /\ To(w, "due")
    /\ UNCHANGED <<due, enabled, errors, closed, slip>>

\* get_due_workflows
ReadDue(w) ==
    /\ worker[w].pc = "due"
    /\ \/ To(w, IF due THEN "check" ELSE "list") /\ UNCHANGED used
       \/ To(w, "list") /\ due /\ Spend("fault")
    /\ UNCHANGED <<task, due, enabled, errors, closed, slip>>

\* One run at a time; a check that fails does not hold the run back.
CheckLive(w) ==
    /\ worker[w].pc = "check"
    /\ \/ /\ Live = {}
          /\ To(w, "fire")
          /\ UNCHANGED <<slip, used>>
       \/ /\ Live # {}
          /\ To(w, "list")
          /\ UNCHANGED <<slip, used>>
       \/ /\ Spend("fault")
          /\ Slips("raced", TRUE)
          /\ To(w, "fire")
    /\ UNCHANGED <<task, due, enabled, errors, closed>>

\* fire_workflow: create_run, then record_workflow_run, then dispatch_run.
Fire(w) ==
    LET kind == worker[w].kind
        back == IF kind = "now" THEN "idle" ELSE "list" IN
    /\ worker[w].pc = "fire"
    /\ \/ /\ task' = Append(task, Created(kind, 0, 0))
          /\ Slips("raced", kind = "schedule" /\ Live # {})
          /\ worker' = [worker EXCEPT ![w].pc = "timer", ![w].run = Len(task) + 1, ![w].back = back]
          /\ UNCHANGED used
       \/ /\ Spend("fault")
          /\ worker' = [worker EXCEPT ![w] = [Idle EXCEPT !.pc = back]]
          /\ UNCHANGED <<task, slip>>
    /\ UNCHANGED <<due, enabled, errors, closed>>

Timer(w) ==
    /\ worker[w].pc = "timer"
    /\ \/ due' = FALSE /\ UNCHANGED used
       \/ Spend("fault") /\ UNCHANGED due
    /\ To(w, "enqueue")
    /\ UNCHANGED <<task, enabled, errors, closed, slip>>

\* enqueue_chain_owned: the steps are created one by one, so that a failure may
\* leave some behind, which are executed.
Enqueue(w) ==
    LET k == worker[w].run
        chained(c) == [task EXCEPT ![k].chain = Append(@, [stage |-> "work", closes |-> c])] IN
    /\ worker[w].pc = "enqueue"
    /\ \/ /\ task' = chained("completed")
          /\ To(w, "mark")
          /\ UNCHANGED <<slip, used>>
       \/ /\ Spend("guard")
          /\ task' = chained("blocked")
          /\ To(w, "mark")
          /\ UNCHANGED slip
       \/ /\ Spend("fault")
          /\ \/ UNCHANGED <<task, slip>>
             \/ task' = chained("nothing") /\ Slips("unmarked", TRUE)
          /\ GoBack(w)
    /\ UNCHANGED <<due, enabled, errors, closed>>

\* The Task is marked in progress, whatever has become of it meanwhile; a mark
\* that fails is a warning.
MarkedNever(k) == task                                                   \* mutant
Marked(k) == SetTo(k, "in_progress")
Mark(w) ==
    LET k == worker[w].run IN
    /\ worker[w].pc = "mark"
    /\ \/ /\ task' = Marked(k)
          /\ Slips("late", task[k].status \notin OpenStatus)
          /\ UNCHANGED used
       \/ /\ Spend("fault")
          /\ Slips("unmarked", TRUE)
          /\ UNCHANGED task
    /\ GoBack(w)
    /\ UNCHANGED <<due, enabled, errors, closed>>

\* list_tasks("created"), the newest first, and the share of one tick.
Waiting == {k \in DOMAIN task : task[k].status = "created"}
Picked == LET rank(k) == Cardinality({l \in Waiting : l >= k})
              n == IF Cardinality(Waiting) < MaxTasks THEN Cardinality(Waiting) ELSE MaxTasks
          IN  [i \in 1..n |-> CHOOSE k \in Waiting : rank(k) = i]

List(w) ==
    /\ worker[w].pc = "list"
    /\ \/ /\ worker' = [worker EXCEPT ![w].pc = "take", ![w].picked = Picked]
          /\ Slips("exposed", \E v \in Worker \ {w}, i \in DOMAIN Picked : Picked[i] \in InHand(v))
          /\ UNCHANGED used
       \/ /\ Spend("fault")
          /\ To(w, "count")
          /\ UNCHANGED slip
    /\ UNCHANGED <<task, due, enabled, errors, closed>>

\* The next of them: refused, because its workflow is gone or disabled, or dispatched.
Take(w) ==
    LET rest == worker[w].picked IN
    /\ worker[w].pc = "take"
    /\ \/ /\ rest = <<>>
          /\ To(w, "scan")
          /\ UNCHANGED <<task, used>>
       \/ /\ rest # <<>>
          /\ worker' = [worker EXCEPT ![w].pc = "enqueue", ![w].run = Head(rest),
                                      ![w].picked = Tail(rest), ![w].back = "take"]
          /\ UNCHANGED <<task, used>>
       \/ /\ rest # <<>>
          /\ Spend("refuse")
          /\ task' \in {FailedIfOpen(Head(rest)), task}
          /\ worker' = [worker EXCEPT ![w].picked = Tail(rest)]
    /\ UNCHANGED <<due, enabled, errors, closed, slip>>

\* perception_scan: a condition gets a Task unless an earlier one is open.
OpenScans == {k \in DOMAIN task : task[k].kind = "scan" /\ task[k].status \in OpenStatus}
ProposesAlways == TRUE                                                   \* mutant
Proposes == OpenScans = {}

Scan(w) ==
    /\ worker[w].pc = "scan"
    /\ \/ To(w, "end") /\ UNCHANGED <<slip, used>>
       \/ /\ Proposes
          /\ Spend("scan")
          /\ Slips("together", \E v \in Worker \ {w} : worker[v].pc = "propose")
          /\ To(w, "propose")
    /\ UNCHANGED <<task, due, enabled, errors, closed>>

Propose(w) ==
    /\ worker[w].pc = "propose"
    /\ \/ task' = Append(task, Created("scan", 0, 0)) /\ UNCHANGED used
       \/ Spend("fault") /\ UNCHANGED task
    /\ To(w, "end")
    /\ UNCHANGED <<due, enabled, errors, closed, slip>>

\* The error budget: the count is taken under the lock, the pause is not.
EndTick(w) ==
    /\ worker[w].pc = "end"
    /\ errors' = 0
    /\ Finish(w)
    /\ UNCHANGED <<task, due, enabled, closed, slip, used>>

CountError(w) ==
    /\ worker[w].pc = "count"
    /\ errors' = errors + 1
    /\ worker' = [worker EXCEPT ![w].pc = "pause", ![w].seen = errors + 1]
    /\ UNCHANGED <<task, due, enabled, closed, slip, used>>

Pause(w) ==
    /\ worker[w].pc = "pause"
    /\ enabled' = (enabled /\ worker[w].seen < ErrorBudget)
    /\ Finish(w)
    /\ UNCHANGED <<task, due, errors, closed, slip, used>>

\* run_workflow_now looks at no live run and no timer.
RunNow(w) ==
    /\ w # Loop /\ worker[w].pc = "idle"
    /\ Spend("now")
    /\ worker' = [worker EXCEPT ![w] = [Idle EXCEPT !.pc = "fire", !.kind = "now"]]
    /\ UNCHANGED <<task, due, enabled, errors, closed, slip>>

WorkerStep(w) ==
    \/ ResetStale(w) \/ ReadDue(w) \/ CheckLive(w) \/ Fire(w) \/ Timer(w)
    \/ Enqueue(w) \/ Mark(w) \/ List(w) \/ Take(w) \/ Scan(w) \/ Propose(w)
    \/ EndTick(w) \/ CountError(w) \/ Pause(w)

-----------------------------------------------------------------------------
(* The chains *)

Stages(k, c, stage) == [task EXCEPT ![k].chain[c].stage = stage]
ChainFrame == UNCHANGED <<due, worker, enabled, errors>>

\* The work is done, and its evaluator content, if it has one; a score that is too
\* low cancels the rest of the chain (evaluator_gate),
WorkDone(k, c) ==
    /\ task[k].chain[c].stage = "work"
    /\ \/ task' = Stages(k, c, IF task[k].chain[c].closes = "nothing" THEN "over" ELSE "close")
          /\ UNCHANGED used
       \/ /\ task[k].chain[c].closes = "completed"
          /\ Spend("score")
          /\ task' = Stages(k, c, "gate")
    /\ UNCHANGED <<closed, slip>> /\ ChainFrame

\* fails the Task, as far as the call succeeds,
FailScored(k, c) ==
    LET next == Stages(k, c, "requeue") IN
    /\ task[k].chain[c].stage = "gate"
    /\ \/ /\ task' = [next EXCEPT ![k].status = "failed", ![k].stale = FALSE]
          /\ UNCHANGED <<slip, used>>
       \/ /\ Spend("fault")
          /\ Slips("unmarked", TRUE)
          /\ task' = next
    /\ UNCHANGED closed /\ ChainFrame

\* and starts a retry, which carries its count in its context.
MayRetry(k) == task[k].tries < RetryCap
Requeue(k, c) ==
    LET over == Stages(k, c, "over") IN
    /\ task[k].chain[c].stage = "requeue"
    /\ \/ /\ MayRetry(k)
          /\ task' = Append(over, Created(task[k].kind, task[k].tries + 1, k))
          /\ UNCHANGED used
       \/ /\ \/ ~MayRetry(k) /\ UNCHANGED used
             \/ MayRetry(k) /\ Spend("fault")
          /\ task' = over
    /\ UNCHANGED <<closed, slip>> /\ ChainFrame

\* update_task, whatever the Task has become.
Close(k, c) ==
    /\ task[k].chain[c].stage = "close"
    /\ task' = [Stages(k, c, "over") EXCEPT ![k].status = task[k].chain[c].closes,
                                            ![k].stale = FALSE]
    /\ closed' = closed \cup {k}
    /\ UNCHANGED <<slip, used>> /\ ChainFrame

\* A step has used up its attempts.
StepDies(k, c) ==
    /\ "death" \in Allowed
    /\ task[k].chain[c].stage \in {"work", "close"}
    /\ task' = Stages(k, c, "failing")
    /\ UNCHANGED <<closed, slip, used>> /\ ChainFrame

FailOwner(k, c) ==
    /\ task[k].chain[c].stage = "failing"
    /\ \/ /\ task' = [FailedIfOpen(k) EXCEPT ![k].chain[c].stage = "over"]
          /\ UNCHANGED used
       \/ Spend("fault") /\ task' = Stages(k, c, "over")
    /\ UNCHANGED <<closed, slip>> /\ ChainFrame

\* An operator cancels the chain's jobs: nobody tells the Task.
CancelChain(k, c) ==
    /\ task[k].chain[c].stage \in {"work", "close"}
    /\ Spend("cancel")
    /\ task' = Stages(k, c, "over")
    /\ UNCHANGED <<closed, slip>> /\ ChainFrame

ChainStep(k, c) ==
    \/ WorkDone(k, c) \/ FailScored(k, c) \/ Requeue(k, c)
    \/ Close(k, c) \/ StepDies(k, c) \/ FailOwner(k, c)

-----------------------------------------------------------------------------
(* Time, other callers, the process *)

TimerDue ==
    /\ ~due
    /\ Spend("timer")
    /\ due' = TRUE
    /\ UNCHANGED <<task, worker, enabled, errors, closed, slip>>

\* update_config with enabled: true.
Resume ==
    /\ ~enabled
    /\ enabled' = TRUE
    /\ errors' = 0
    /\ UNCHANGED <<task, due, worker, closed, slip, used>>

\* start_run of the timed workflow, by a tool call or a person.
Submit ==
    /\ Spend("submit")
    /\ task' = Append(task, Created("submitted", 0, 0))
    /\ UNCHANGED <<due, worker, enabled, errors, closed, slip>>

\* Six hours pass: with nothing left that would end a Task, or in spite of it, but
\* not between two calls of a dispatch.
Busy == \E k \in DOMAIN task : \E c \in DOMAIN task[k].chain : task[k].chain[c].stage # "over"
Aged == [k \in DOMAIN task |->
            [task[k] EXCEPT !.old = TRUE, !.stale = TRUE]]
SixHours ==
    /\ task # Aged
    /\ \A w \in Worker : InHand(w) = {}
    /\ task' = Aged
    /\ IF Busy THEN Spend("hours") ELSE UNCHANGED used
    /\ UNCHANGED <<due, worker, enabled, errors, closed, slip>>

\* The chains are in the graph, and survive; a run that was enqueued is not marked.
Crash ==
    /\ Spend("crash")
    /\ worker' = [w \in Worker |-> Idle]
    /\ enabled' = TRUE
    /\ errors' = 0
    /\ Slips("unmarked", \E w \in Worker : worker[w].pc = "mark")
    /\ UNCHANGED <<task, due, closed>>

-----------------------------------------------------------------------------
Next ==
    \/ \E w \in Worker : StartTick(w) \/ RunNow(w) \/ WorkerStep(w)
    \/ \E k \in DOMAIN task : \E c \in DOMAIN task[k].chain : ChainStep(k, c) \/ CancelChain(k, c)
    \/ TimerDue \/ Resume \/ Submit \/ SixHours \/ Crash

Spec == Init /\ [][Next]_vars

\* The loop ticks while it is enabled, ticks go on, the queue executes its chains,
\* and time passes.
Fairness ==
    /\ \A w \in Worker : WF_vars(WorkerStep(w))
    /\ WF_vars(StartTick(Loop))
    /\ WF_vars(\E k \in DOMAIN task : \E c \in DOMAIN task[k].chain : ChainStep(k, c))
    /\ WF_vars(SixHours)

FairSpec == Spec /\ Fairness

-----------------------------------------------------------------------------
(* Safety.  Each property names the interleavings and losses that break it. *)

Without(causes) == slip \cap causes = {}

\* A run is worked on by one chain: it is not dispatched again by a later tick, or by
\* another worker that finds it created (scheduler.rs:574-588).  It needs that nobody
\* listed it between its creation, or its listing, and its mark, and that the mark was
\* made and the whole chain enqueued.
OneChain == Without({"exposed", "unmarked"}) => \A k \in DOMAIN task : Len(task[k].chain) <= 1

\* A timed run is not stacked on an unfinished run of its workflow, whether that was
\* timed, submitted, run by hand or halted by the guardrail (scheduler.rs:398-415),
\* unless a run began between the check and the firing, or was marked after its end.
NotStacked ==
    Without({"raced", "exposed", "unmarked", "late"}) =>
        \A k, l \in Live : k < l => ~(task[l].kind = "schedule" /\ task[l].tries = 0)

\* What a chain has closed stays closed: the chain's death, the stale reset and the
\* evaluator leave it alone (task.rs:323-331), unless its mark came after its end.
ClosedStays ==
    Without({"exposed", "unmarked", "late"}) =>
        \A k \in closed : task[k].status \in {"completed", "blocked"}

\* A scored-down run has failed for good, and is retried once (gates.rs:214-284): its
\* chain never closes it beside its retry.
RetriedOnce ==
    Without({"exposed", "unmarked"}) =>
        \A k \in DOMAIN task :
            LET retries == {l \in DOMAIN task : task[l].of = k} IN
            /\ Cardinality(retries) <= 1
            /\ retries # {} /\ Without({"late"}) => task[k].status = "failed"

\* The scan has one open Task for a condition (scheduler.rs:696-697), unless two scans
\* look at the same time, or a Task that had ended is marked in progress.
OneScanTask ==
    Without({"together", "late"}) =>
        Cardinality({k \in OpenScans : task[k].tries = 0}) <= 1

-----------------------------------------------------------------------------
(* Liveness, while the loop does not pause itself for its errors *)

\* Every Task ends, whatever marks, chains and closing steps are lost: it is closed,
\* failed by its chain, or by the stale reset (scheduler.rs:269-274).
EveryTaskEnds ==
    <>[]enabled => <>[](\A k \in DOMAIN task : task[k].status \notin OpenStatus)

\* A timed workflow that is due fires: no run of it, not even a blocked one, holds it
\* back for good (repository/workflow.rs:170-173).
DueFires == <>[]enabled => []<>~due
=============================================================================
