------------------------------ MODULE JobQueue ------------------------------
(***************************************************************************)
(* The background job queue: QueueService (crates/work/src/queue.rs,       *)
(* queue/ops.rs, queue/gates.rs) over the AgentJob nodes it keeps in Neo4j *)
(* (crates/repository/src/agent_job.rs).                                   *)
(*                                                                         *)
(* One action is one database call, or one critical section on the heap,   *)
(* the tombstones or the notify permit: what other tasks can interleave    *)
(* with.  The database survives a crash, everything else does not.         *)
(***************************************************************************)
EXTENDS Integers, FiniteSets

CONSTANTS
    Job,          \* the AgentJob nodes that may be created
    NoJob,        \* "no parent" (an empty parent_job_id)
    Parent,       \* Parent[j]: the preceding step of j's chain, or NoJob
    Root,         \* Root[j]: the first step of j's chain
    Optional,     \* steps stamped __optional
    Evaluator,    \* steps stamped __evaluator_min_score
    Pinned,       \* steps stamped __model, whose model may be refused
    LocalPinned,  \* steps that wait while the GPU is leased
    Expirable,    \* steps with a TTL
    MaxAttempts,  \* MaxAttempts[j]: the step's max_attempts (0 is accepted)
    Slot,         \* the permits of all provider semaphores together
    Serves,       \* Serves[s]: the jobs of the provider that permit s belongs to
    Client,       \* concurrent callers of cancel, retry and drain
    Budget        \* Budget[o]: how often o may happen (bounds the model)

\* What an environment or an operator does, each bounded by Budget.
Ops == {"crash", "fault", "cancel", "retry", "drain", "redrive", "discard",
        "expire", "cleanup", "lease"}

ASSUME ChainAssumption ==
    /\ NoJob \notin Job
    /\ Parent \in [Job -> Job \cup {NoJob}]
    /\ Root \in [Job -> Job]
    /\ \A j \in Job : /\ Parent[j] # j
                      /\ Parent[Root[j]] = NoJob
                      /\ Root[j] = IF Parent[j] = NoJob THEN j ELSE Root[Parent[j]]

ASSUME ParamAssumption ==
    /\ Optional \subseteq Job /\ Evaluator \subseteq Job /\ Pinned \subseteq Job
    /\ LocalPinned \subseteq Job /\ Expirable \subseteq Job
    /\ MaxAttempts \in [Job -> Nat]
    /\ Serves \in [Slot -> SUBSET Job]
    /\ Budget \in [Ops -> Nat]

VARIABLES
    status,        \* Neo4j: AgentJob.status, "none" when there is no such node
    attempts,      \* Neo4j: AgentJob.attempt_count
    created,       \* the steps whose create call has returned to its submitter
    submit,        \* per chain: the submitter's progress in enqueue_chain_owned
    heap,          \* the BinaryHeap as a bag of job ids
    blocked,       \* the coordinator's `blocked` vector, as a bag
    tomb,          \* cancelled_ids
    notified,      \* the permit stored in `notify`
    coord,         \* where the coordinator (or recover before it) stands
    lease,         \* whether gpu_lease::held()
    passLease,     \* gpu_leased, as read at the start of the pass
    exec,          \* per permit: the execute_job future that holds it
    client,        \* per caller: the cancel, retry or drain it is in
    begun,         \* history: steps whose set_job_started ever matched
    completedOnce, \* history: steps whose set_job_completed ever matched
    used           \* how much of Budget has been spent

db      == <<status, attempts>>
queue   == <<heap, blocked, tomb, notified>>
history == <<begun, completedOnce>>
passive == <<lease, history, used>>
vars == <<status, attempts, created, submit, heap, blocked, tomb, notified,
          coord, lease, passLease, exec, client, begun, completedOnce, used>>

-----------------------------------------------------------------------------
(* Types *)

Status == {"none", "queued", "running", "completed", "failed", "dead",
           "dead_letter", "parked", "cancelled"}
ExecPc == {"idle", "start", "tool", "complete", "failed", "requeue", "dead",
           "unpark", "push", "skip", "cascade"}
ClientPc == {"idle", "cancel", "cascade", "tomb", "retry", "untomb", "repush",
             "drain"}
CoordPc == {"reset", "audit", "load", "idle", "scan"}

Roots == {j \in Job : Parent[j] = NoJob}
Execution == [pc : ExecPc, job : Job \cup {NoJob}, todo : SUBSET Job,
              skip : BOOLEAN]
Call == [pc : ClientPc, job : Job \cup {NoJob}, todo : SUBSET Job]

IdleExec == [pc |-> "idle", job |-> NoJob, todo |-> {}, skip |-> FALSE]
IdleCall == [pc |-> "idle", job |-> NoJob, todo |-> {}]
EmptyBag == [j \in Job |-> 0]

TypeOK ==
    /\ status \in [Job -> Status]
    /\ attempts \in [Job -> Nat]
    /\ created \subseteq Job
    /\ submit \in [Roots -> {"open", "done", "lost"}]
    /\ heap \in [Job -> Nat]
    /\ blocked \in [Job -> Nat]
    /\ tomb \subseteq Job
    /\ notified \in BOOLEAN
    /\ coord \in CoordPc
    /\ lease \in BOOLEAN
    /\ passLease \in BOOLEAN
    /\ exec \in [Slot -> Execution]
    /\ client \in [Client -> Call]
    /\ \A s \in Slot : exec[s].pc # "idle" => exec[s].job \in Job
    /\ \A c \in Client : client[c].pc \notin {"idle", "drain", "cascade"} =>
                            client[c].job \in Job
    /\ begun \subseteq Job
    /\ completedOnce \subseteq Job
    /\ used \in [Ops -> Nat]

-----------------------------------------------------------------------------
(* The repository's statements on AgentJob nodes, as functions of status *)

ParkedChildren(P) == {k \in Job : status[k] = "parked" /\ Parent[k] \in P}

\* MATCH ... SET j.status = to, for every job of J.
Marked(J, to) == [j \in Job |-> IF j \in J THEN to ELSE status[j]]

\* MATCH (j {id}) WHERE j.status = from: the guard of a status write.
MatchingAnyStatus(J, from) == {j \in J : status[j] # "none"}      \* mutant
Matching(J, from) == {j \in J : status[j] = from}

\* cancel_orphaned_parked_jobs: the parent is gone, or terminal without result.
OrphansOfCancelled == {k \in Job : /\ status[k] = "parked"         \* mutant
                                   /\ Parent[k] # NoJob
                                   /\ status[Parent[k]] = "cancelled"}
Orphans == {k \in Job : /\ status[k] = "parked"
                        /\ Parent[k] # NoJob
                        /\ status[Parent[k]] \in
                               {"none", "cancelled", "dead", "dead_letter"}}

\* list_queued_agent_jobs, pushed unless the heap holds the id already.
QueuedJobs == {j \in Job : status[j] = "queued"}
Reloaded == [j \in Job |-> IF j \in QueuedJobs /\ heap[j] = 0 THEN 1 ELSE heap[j]]

Popped(j) == [heap EXCEPT ![j] = @ - 1]
Pushed(J) == [j \in Job |-> IF j \in J THEN heap[j] + 1 ELSE heap[j]]

\* Retries are used up (on_job_failed, reset_running_agent_jobs).
Exhausted(j) == attempts[j] >= MaxAttempts[j]

\* reset_running_agent_jobs, per running job.
RecoveredAlways(j) == "queued"                                       \* mutant
Recovered(j) == IF Exhausted(j) THEN "dead" ELSE "queued"

\* A dead step lets its chain carry on.
CarriesOnAlways(j) == TRUE                                           \* mutant
CarriesOn(j) == j \in Optional

Spend(o) == /\ used[o] < Budget[o]
            /\ used' = [used EXCEPT ![o] = @ + 1]

\* Requests are served and tasks spawned only once recover() is through.
Up == coord \in {"idle", "scan"}

-----------------------------------------------------------------------------
Init ==
    /\ status = [j \in Job |-> "none"]
    /\ attempts = [j \in Job |-> 0]
    /\ created = {}
    /\ submit = [r \in Roots |-> "open"]
    /\ heap = EmptyBag
    /\ blocked = EmptyBag
    /\ tomb = {}
    /\ notified = FALSE
    /\ coord = "idle"
    /\ lease = FALSE
    /\ passLease = FALSE
    /\ exec = [s \in Slot |-> IdleExec]
    /\ client = [c \in Client |-> IdleCall]
    /\ begun = {}
    /\ completedOnce = {}
    /\ used = [o \in Ops |-> 0]

-----------------------------------------------------------------------------
(* Submission: enqueue_chain_owned *)

\* One create call: the first step is `queued` at once, a later one `parked`.
CreateStep(j) ==
    /\ Up
    /\ submit[Root[j]] = "open"
    /\ j \notin created
    /\ Parent[j] # NoJob => Parent[j] \in created
    /\ status' = [status EXCEPT ![j] = IF Parent[j] = NoJob THEN "queued"
                                                            ELSE "parked"]
    /\ created' = created \cup {j}
    /\ UNCHANGED <<attempts, submit, queue, coord, passLease, exec, client, passive>>

\* All steps exist: the first one goes onto the heap.
PushFirst(r) ==
    /\ Up
    /\ r \in Roots
    /\ submit[r] = "open"
    /\ \A j \in Job : Root[j] = r => j \in created
    /\ submit' = [submit EXCEPT ![r] = "done"]
    /\ heap' = Pushed({r})
    /\ notified' = TRUE
    /\ UNCHANGED <<db, created, blocked, tomb, coord, passLease, exec, client, passive>>

\* A later create call fails: the submitter gets Err, the earlier steps stay.
SubmitFails(r) ==
    /\ Up
    /\ r \in Roots \cap created
    /\ submit[r] = "open"
    /\ \E j \in Job \ created : Root[j] = r
    /\ Spend("fault")
    /\ submit' = [submit EXCEPT ![r] = "lost"]
    /\ UNCHANGED <<db, created, queue, coord, passLease, exec, client, lease,
                   history>>

-----------------------------------------------------------------------------
(* The coordinator: run_coordinator, reload_from_neo4j *)

Wake ==
    /\ coord = "idle"
    /\ notified
    /\ notified' = FALSE
    /\ coord' = "scan"
    /\ passLease' = lease
    /\ UNCHANGED <<db, created, submit, heap, blocked, tomb, exec, client, passive>>

\* The sleep branch.  A permit stored meanwhile stays for the next turn.
Poll ==
    /\ coord = "idle"
    /\ heap' = Reloaded
    /\ coord' = "scan"
    /\ passLease' = lease
    /\ UNCHANGED <<db, created, submit, blocked, tomb, notified, exec, client, passive>>

FreeSlots(j) == {s \in Slot : exec[s].pc = "idle" /\ j \in Serves[s]}
Deferred(j) == passLease /\ j \in LocalPinned

DropTombstoned(j) ==
    /\ j \in tomb
    /\ tomb' = tomb \ {j}
    /\ UNCHANGED <<blocked, exec>>

SetAside(j) ==
    /\ j \notin tomb
    /\ Deferred(j) \/ FreeSlots(j) = {}
    /\ blocked' = [blocked EXCEPT ![j] = @ + 1]
    /\ UNCHANGED <<tomb, exec>>

Dispatch(j) ==
    /\ j \notin tomb
    /\ ~Deferred(j)
    /\ \E s \in FreeSlots(j) :
          exec' = [exec EXCEPT ![s] = [pc |-> "start", job |-> j, todo |-> {}, skip |-> FALSE]]
    /\ UNCHANGED <<blocked, tomb>>

\* One turn of the drain loop.  The heap's order is abstracted to any order.
Pop(j) ==
    /\ coord = "scan"
    /\ heap[j] > 0
    /\ heap' = Popped(j)
    /\ DropTombstoned(j) \/ SetAside(j) \/ Dispatch(j)
    /\ UNCHANGED <<db, created, submit, notified, coord, passLease, client, passive>>

EndPass ==
    /\ coord = "scan"
    /\ heap = EmptyBag
    /\ heap' = blocked
    /\ blocked' = EmptyBag
    /\ coord' = "idle"
    /\ UNCHANGED <<db, created, submit, tomb, notified, passLease, exec, client, passive>>

-----------------------------------------------------------------------------
(* One execution: execute_job and what it calls *)

Goto(s, pc, todo) ==
    exec' = [exec EXCEPT ![s] = [pc |-> pc, job |-> exec[s].job, todo |-> todo,
                                 skip |-> exec[s].skip]]

\* execute_job returns: the permit is dropped, then the coordinator notified.
ReleaseUnnoticed(s) == /\ exec' = [exec EXCEPT ![s] = IdleExec]    \* mutant
                       /\ UNCHANGED notified
Release(s) == /\ exec' = [exec EXCEPT ![s] = IdleExec]
              /\ notified' = TRUE

ExecFrame == UNCHANGED <<created, submit, blocked, tomb, coord, lease,
                         passLease, client>>

\* set_job_started, guarded on `queued`.
Start(s) ==
    LET j == exec[s].job IN
    /\ exec[s].pc = "start"
    /\ \/ /\ j \in Matching({j}, "queued")
          /\ status' = [status EXCEPT ![j] = "running"]
          /\ attempts' = [attempts EXCEPT ![j] = @ + 1]
          /\ begun' = begun \cup {j}
          /\ Goto(s, "tool", {})
          /\ UNCHANGED notified
       \/ /\ j \notin Matching({j}, "queued")
          /\ Release(s)
          /\ UNCHANGED <<db, begun>>
    /\ UNCHANGED <<heap, completedOnce, used>> /\ ExecFrame

\* The tool's answer; or none is asked for: an optional step whose tool is not
\* registered is skipped, a pinned model that may not run kills the job.
ToolReturns(s) ==
    LET j == exec[s].job IN
    /\ exec[s].pc = "tool"
    /\ \/ Goto(s, "complete", {})
       \/ Goto(s, "failed", {})
       \/ /\ j \in Optional
          /\ exec' = [exec EXCEPT ![s] =
             [pc |-> "unpark", job |-> j, todo |-> {}, skip |-> TRUE]]
       \/ j \in Pinned /\ Goto(s, "dead", {})
    /\ UNCHANGED <<db, heap, notified, history, used>> /\ ExecFrame

\* on_job_succeeded: set_job_completed, then the evaluator's verdict.
Complete(s) ==
    LET j == exec[s].job IN
    /\ exec[s].pc = "complete"
    /\ \/ /\ j \in Matching({j}, "running")
          /\ status' = [status EXCEPT ![j] = "completed"]
          /\ completedOnce' = completedOnce \cup {j}
          /\ \/ Goto(s, "unpark", {})
             \/ j \in Evaluator /\ Goto(s, "cascade", {j})
          /\ UNCHANGED notified
       \/ /\ j \notin Matching({j}, "running")
          /\ Release(s)
          /\ UNCHANGED <<status, completedOnce>>
    /\ UNCHANGED <<attempts, heap, begun, used>> /\ ExecFrame

\* on_job_failed: re-fetch the attempt count and decide.
Failed(s) ==
    LET j == exec[s].job IN
    /\ exec[s].pc = "failed"
    /\ Goto(s, IF Exhausted(j) THEN "dead" ELSE "requeue", {})
    /\ UNCHANGED <<db, heap, notified, history, used>> /\ ExecFrame

\* requeue_for_retry, guarded on `running`.  The heap is not touched.
Requeue(s) ==
    LET j == exec[s].job IN
    /\ exec[s].pc = "requeue"
    /\ status' = Marked(Matching({j}, "running"), "queued")
    /\ Release(s)
    /\ UNCHANGED <<attempts, heap, history, used>> /\ ExecFrame

\* on_job_dead: set_job_dead, then the children carry on or are cancelled.
Dead(s) ==
    LET j == exec[s].job IN
    /\ exec[s].pc = "dead"
    /\ \/ /\ j \in Matching({j}, "running")
          /\ status' = [status EXCEPT ![j] = "dead_letter"]
          /\ IF CarriesOn(j) THEN Goto(s, "unpark", {}) ELSE Goto(s, "cascade", {j})
          /\ UNCHANGED notified
       \/ /\ j \notin Matching({j}, "running")
          /\ Release(s)
          /\ UNCHANGED status
    /\ UNCHANGED <<attempts, heap, history, used>> /\ ExecFrame

\* unpark_children: the parked children become `queued` and are returned.
Unpark(s) ==
    LET kids == ParkedChildren({exec[s].job}) IN
    /\ exec[s].pc = "unpark"
    /\ status' = Marked(kids, "queued")
    /\ Goto(s, "push", kids)
    /\ UNCHANGED <<attempts, heap, notified, history, used>> /\ ExecFrame

\* unpark_and_enqueue_children: the returned children go onto the heap.
PushKids(s) ==
    /\ exec[s].pc = "push"
    /\ heap' = Pushed(exec[s].todo)
    /\ \/ /\ exec[s].skip
          /\ Goto(s, "skip", {})
          /\ notified' = (notified \/ exec[s].todo # {})
       \/ /\ ~exec[s].skip
          /\ Release(s)
    /\ UNCHANGED <<db, history, used>> /\ ExecFrame

\* set_job_skipped, guarded on `running`.
Skip(s) ==
    LET j == exec[s].job IN
    /\ exec[s].pc = "skip"
    /\ status' = Marked(Matching({j}, "running"), "cancelled")
    /\ Release(s)
    /\ UNCHANGED <<attempts, heap, history, used>> /\ ExecFrame

\* cancel_parked_children, one generation per database call.
CancelGeneration(s) ==
    /\ exec[s].pc = "cascade"
    /\ \E p \in exec[s].todo :
          LET kids == ParkedChildren({p})
              rest == (exec[s].todo \ {p}) \cup kids
          IN  /\ status' = Marked(kids, "cancelled")
              /\ IF rest = {} THEN Release(s)
                 ELSE /\ Goto(s, "cascade", rest)
                      /\ UNCHANGED notified
    /\ UNCHANGED <<attempts, heap, history, used>> /\ ExecFrame

\* A database call of the execution fails before it takes effect: each error
\* branch logs and returns, except that a skip goes on after a failed unpark.
CallFails(s) ==
    /\ exec[s].pc \in {"start", "complete", "requeue", "dead", "unpark", "skip", "cascade"}
    /\ Spend("fault")
    /\ \/ /\ exec[s].pc = "unpark" /\ exec[s].skip
          /\ Goto(s, "skip", {})
          /\ UNCHANGED notified
       \/ /\ ~(exec[s].pc = "unpark" /\ exec[s].skip)
          /\ Release(s)
    /\ UNCHANGED <<db, heap, history>> /\ ExecFrame

ExecStep(s) ==
    \/ Start(s) \/ ToolReturns(s) \/ Complete(s) \/ Failed(s) \/ Requeue(s)
    \/ Dead(s) \/ Unpark(s) \/ PushKids(s) \/ Skip(s) \/ CancelGeneration(s)

-----------------------------------------------------------------------------
(* Operators: cancel, retry and drain (several calls), and the dead letters *)

At(c, pc, j, todo) ==
    client' = [client EXCEPT ![c] = [pc |-> pc, job |-> j, todo |-> todo]]
Done(c) == client' = [client EXCEPT ![c] = IdleCall]

CallFrame == UNCHANGED <<created, submit, blocked, coord, lease, passLease,
                         exec, history>>

\* cancel: the status is read, and a finished job refused.
BeginCancel(c, j) ==
    /\ Up
    /\ client[c].pc = "idle"
    /\ status[j] \notin {"none", "completed", "dead", "cancelled"}
    /\ Spend("cancel")
    /\ At(c, "cancel", j, {})
    /\ UNCHANGED <<db, heap, tomb, notified>> /\ CallFrame

\* update_agent_job_status, not guarded on the status just read.
DoCancel(c) ==
    LET j == client[c].job IN
    /\ client[c].pc = "cancel"
    /\ status' = Marked({j} \cap {k \in Job : status[k] # "none"}, "cancelled")
    /\ At(c, "cascade", j, {j})
    /\ UNCHANGED <<attempts, heap, tomb, notified, used>> /\ CallFrame

\* cancel_parked_children on behalf of cancel (then the tombstone) or drain.
ClientCancelGeneration(c) ==
    /\ client[c].pc = "cascade"
    /\ \E p \in client[c].todo :
          LET kids == ParkedChildren({p})
              rest == (client[c].todo \ {p}) \cup kids
          IN  /\ status' = Marked(kids, "cancelled")
              /\ IF rest # {} THEN At(c, "cascade", client[c].job, rest)
                 ELSE IF client[c].job = NoJob THEN Done(c)
                 ELSE At(c, "tomb", client[c].job, {})
    /\ UNCHANGED <<attempts, heap, tomb, notified, used>> /\ CallFrame

Tombstone(c) ==
    /\ client[c].pc = "tomb"
    /\ tomb' = tomb \cup {client[c].job}
    /\ Done(c)
    /\ UNCHANGED <<db, heap, notified, used>> /\ CallFrame

BeginRetry(c, j) ==
    /\ Up
    /\ client[c].pc = "idle"
    /\ status[j] \in {"failed", "dead", "cancelled"}
    /\ Spend("retry")
    /\ At(c, "retry", j, {})
    /\ UNCHANGED <<db, heap, tomb, notified>> /\ CallFrame

\* retry_agent_job: queued again with no attempts, whatever the status is now.
DoRetry(c) ==
    LET j == client[c].job IN
    /\ client[c].pc = "retry"
    /\ \/ /\ status[j] # "none"
          /\ status' = [status EXCEPT ![j] = "queued"]
          /\ attempts' = [attempts EXCEPT ![j] = 0]
       \/ /\ status[j] = "none"
          /\ UNCHANGED db
    /\ At(c, "untomb", j, {})
    /\ UNCHANGED <<heap, tomb, notified, used>> /\ CallFrame

Untomb(c) ==
    /\ client[c].pc = "untomb"
    /\ tomb' = tomb \ {client[c].job}
    /\ At(c, "repush", client[c].job, {})
    /\ UNCHANGED <<db, heap, notified, used>> /\ CallFrame

\* The job is read again and, if it still exists, pushed onto the heap.
Repush(c) ==
    LET j == client[c].job IN
    /\ client[c].pc = "repush"
    /\ \/ /\ status[j] # "none"
          /\ heap' = Pushed({j})
          /\ notified' = TRUE
       \/ /\ status[j] = "none"
          /\ UNCHANGED <<heap, notified>>
    /\ Done(c)
    /\ UNCHANGED <<db, tomb, used>> /\ CallFrame

\* drain: the heap is emptied and its ids tombstoned.
BeginDrain(c) ==
    /\ Up
    /\ client[c].pc = "idle"
    /\ Spend("drain")
    /\ heap' = EmptyBag
    /\ tomb' = tomb \cup {j \in Job : heap[j] > 0}
    /\ At(c, "drain", NoJob, {})
    /\ UNCHANGED <<db, notified>> /\ CallFrame

\* ... then every queued job in the database is cancelled, and its chain after it.
DrainQueued(c) ==
    /\ client[c].pc = "drain"
    /\ status' = Marked(QueuedJobs, "cancelled")
    /\ IF QueuedJobs = {} THEN Done(c) ELSE At(c, "cascade", NoJob, QueuedJobs)
    /\ UNCHANGED <<attempts, heap, tomb, notified, used>> /\ CallFrame

ClientStep(c) ==
    \/ DoCancel(c) \/ ClientCancelGeneration(c) \/ Tombstone(c)
    \/ DoRetry(c) \/ Untomb(c) \/ Repush(c) \/ DrainQueued(c)

\* retry_dead_letter: only the database; the coordinator's poll finds it.
Redrive(j) ==
    /\ Up
    /\ status[j] = "dead_letter"
    /\ Spend("redrive")
    /\ status' = [status EXCEPT ![j] = "queued"]
    /\ attempts' = [attempts EXCEPT ![j] = 0]
    /\ UNCHANGED <<created, submit, queue, coord, lease, passLease, exec,
                   client, history>>

\* delete_dead_letter.
Discard(j) ==
    /\ Up
    /\ status[j] = "dead_letter"
    /\ Spend("discard")
    /\ status' = [status EXCEPT ![j] = "none"]
    /\ UNCHANGED <<attempts, created, submit, queue, coord, lease, passLease,
                   exec, client, history>>

-----------------------------------------------------------------------------
(* The periodic tasks of spawn_coordinator, and the GPU lease *)

OrphanAudit ==
    /\ Up
    /\ Orphans # {}
    /\ status' = Marked(Orphans, "cancelled")
    /\ UNCHANGED <<attempts, created, submit, queue, coord, passLease, exec,
                   client, passive>>

\* expire_jobs: some steps have reached their TTL.
Expire ==
    /\ Up
    /\ Spend("expire")
    /\ \E E \in SUBSET {j \in Expirable : status[j] \in {"queued", "running", "parked"}} :
          E # {} /\ status' = Marked(E, "cancelled")
    /\ UNCHANGED <<attempts, created, submit, queue, coord, lease, passLease,
                   exec, client, history>>

\* Only a tool call can outlast a retention period of a day.
Quiet(j) == /\ \A s \in Slot : exec[s].job = j => exec[s].pc = "tool"
            /\ \A c \in Client : client[c].pc = "idle"
            /\ submit[Root[j]] # "open"

\* cleanup_old_jobs and cleanup_old_dead_letter, one node at a time.
Cleanup(j) ==
    /\ Up
    /\ status[j] \in {"completed", "dead", "cancelled", "failed", "dead_letter"}
    /\ Quiet(j)
    /\ Spend("cleanup")
    /\ status' = [status EXCEPT ![j] = "none"]
    /\ UNCHANGED <<attempts, created, submit, queue, coord, lease, passLease,
                   exec, client, history>>

LeaseTaken ==
    /\ ~lease
    /\ Spend("lease")
    /\ lease' = TRUE
    /\ UNCHANGED <<db, created, submit, queue, coord, passLease, exec, client,
                   history>>

LeaseEnds ==
    /\ lease
    /\ lease' = FALSE
    /\ UNCHANGED <<db, created, submit, queue, coord, passLease, exec, client,
                   history, used>>

-----------------------------------------------------------------------------
(* Crash, and recover() at the next start *)

Crash ==
    /\ Spend("crash")
    /\ submit' = [r \in Roots |-> IF r \in created /\ submit[r] = "open" THEN "lost"
                                                                       ELSE submit[r]]
    /\ heap' = EmptyBag /\ blocked' = EmptyBag /\ tomb' = {}
    /\ notified' = FALSE
    /\ coord' = "reset"
    /\ passLease' = FALSE
    /\ exec' = [s \in Slot |-> IdleExec]
    /\ client' = [c \in Client |-> IdleCall]
    /\ UNCHANGED <<db, created, lease, history>>

\* reset_running_agent_jobs.
RecoverRunning ==
    /\ coord = "reset"
    /\ status' = [j \in Job |->
          IF status[j] = "running" THEN Recovered(j) ELSE status[j]]
    /\ coord' = "audit"
    /\ UNCHANGED <<attempts, created, submit, queue, passLease, exec, client, passive>>

RecoverOrphans ==
    /\ coord = "audit"
    /\ status' = Marked(Orphans, "cancelled")
    /\ coord' = "load"
    /\ UNCHANGED <<attempts, created, submit, queue, passLease, exec, client, passive>>

RecoverHeap ==
    /\ coord = "load"
    /\ heap' = Pushed(QueuedJobs)
    /\ notified' = (notified \/ QueuedJobs # {})
    /\ coord' = "idle"
    /\ UNCHANGED <<db, created, submit, blocked, tomb, passLease, exec, client, passive>>

-----------------------------------------------------------------------------
SubmitStep(r) == \/ \E j \in Job : Root[j] = r /\ CreateStep(j)
                 \/ PushFirst(r)
CoordStep == \/ Wake \/ EndPass \/ \E j \in Job : Pop(j)
             \/ RecoverRunning \/ RecoverOrphans \/ RecoverHeap
CallOps(c) == \/ ClientStep(c) \/ BeginDrain(c)
              \/ \E j \in Job : BeginCancel(c, j) \/ BeginRetry(c, j)
JobOps(j) == Redrive(j) \/ Discard(j) \/ Cleanup(j)

Next ==
    \/ \E r \in Roots : SubmitStep(r) \/ SubmitFails(r)
    \/ CoordStep \/ Poll
    \/ \E s \in Slot : ExecStep(s) \/ CallFails(s)
    \/ \E c \in Client : CallOps(c)
    \/ \E j \in Job : JobOps(j)
    \/ OrphanAudit \/ Expire \/ LeaseTaken \/ LeaseEnds
    \/ Crash

Spec == Init /\ [][Next]_vars

\* Each task keeps being scheduled, a tool call returns in the end, the poll
\* comes when no notification does, and a GPU lease always runs out.
Fairness ==
    /\ WF_vars(CoordStep \/ (~notified /\ Poll))
    /\ \A r \in Roots : WF_vars(SubmitStep(r))
    /\ \A s \in Slot : WF_vars(ExecStep(s))
    /\ \A c \in Client : WF_vars(ClientStep(c))
    /\ WF_vars(OrphanAudit)
    /\ WF_vars(LeaseEnds)

FairSpec == Spec /\ Fairness

-----------------------------------------------------------------------------
(* Safety *)

\* The step's execution is between set_job_started and the write that ends it.
Active(s) == exec[s].pc \in {"tool", "complete", "failed", "requeue", "dead"}

\* No two executions of one job at the same time: a job that is executing is
\* not queued again before that execution has written its outcome, although the
\* heap may hold its id twice and the poll, a retry, an unpark, a dead-letter
\* retry and recovery all queue jobs (queue.rs:1028-1043, agent_job.rs:192).
\* It needs Budget["retry"] = 0: an operator who cancels a job and retries it while
\* it still executes gets a second execution (the run JobQueueAttempts).
NoDoubleRun ==
    \A s, t \in Slot : Active(s) /\ Active(t) /\ exec[s].job = exec[t].job => s = t

\* max_attempts bounds the runs of a job over failures, redelivery, crashes and
\* recovery (agent_job.rs:131-137); a cap of 0 still allows one run.
Cap(j) == IF MaxAttempts[j] = 0 THEN 1 ELSE MaxAttempts[j]
AttemptCap == \A j \in Job : attempts[j] <= Cap(j)

\* A step runs only after its predecessor completed, or was optional and had its
\* turn: no reload, recovery, failure or cancellation lets a parked step overtake
\* (agent_job.rs:101-109, queue.rs:358-364).
ChainOrder ==
    \A j \in begun : Parent[j] # NoJob =>
        \/ Parent[j] \in completedOnce
        \/ Parent[j] \in Optional \cap begun

\* No wakeup is lost: when the coordinator sleeps and no notification is stored,
\* an entry left in the heap waits for a busy provider, the GPU or its tombstone
\* (queue.rs:691-781: the slot is released first, the coordinator woken after).
NoLostWakeup ==
    coord = "idle" /\ ~notified =>
        \A j \in Job : heap[j] > 0 => FreeSlots(j) = {} \/ j \in LocalPinned

\* A chain that is being cancelled has not been promoted meanwhile: no child of a
\* dead step, or of an evaluator that blocked, is on its way
\* (queue.rs:1273-1278, gates.rs:141-145).
\* It needs Budget["redrive"] = 0, besides no retry: a dead letter put back before its
\* cascade is over can run again and promote the children the cascade has not reached
\* (agent_job.rs:604).  And no optional step is an evaluator: one whose skip was lost
\* after the promotion of its children runs again, and may then block them.
CascadeFindsParked ==
    \A s \in Slot : exec[s].pc = "cascade" =>
        \A k \in Job : Parent[k] \in exec[s].todo =>
            status[k] \in {"none", "parked", "cancelled"}

\* A cancelled job stays cancelled, whatever its execution writes later
\* (agent_job.rs:214-216, queue.rs:1264-1269): only the operator's retry revives it.
CancelledIsFinal ==
    [][\A j \in Job : status[j] = "cancelled" => status'[j] \in {"cancelled", "none"}]_vars

-----------------------------------------------------------------------------
(* What readers of the nodes may rely on *)

\* A node that was never created and one that was deleted look the same.
LifePhase == [j \in Job |-> IF status[j] # "none" THEN status[j]
                           ELSE IF j \in created THEN "erased" ELSE "absent"]

Life == INSTANCE JobLife WITH phase <- LifePhase, tries <- attempts,
                              begun <- begun, finished <- completedOnce

\* The queue implements the life cycle of JobLife: whatever tasks, callers and
\* restarts do to the nodes, each job only makes the moves its node's readers
\* (REST, chains, workflows) count on (agent_job.rs:101-260, queue.rs:358-364).
\* It needs Budget["retry"] = 0, as NoDoubleRun does.
LifeRefined == Life!Spec

-----------------------------------------------------------------------------
(* Liveness *)

Settled(j) == status[j] \notin {"queued", "running", "parked"}

\* A parked step whose parent has completed and whose promotion nobody is about
\* to do: no task of the queue looks at it again until the parent is cleaned up.
Stranded(j) ==
    /\ status[j] = "parked"
    /\ status[Parent[j]] = "completed"
    /\ \A s \in Slot : exec[s].job = Parent[j] => exec[s].pc \notin {"unpark", "cascade"}

\* Every job of a chain ends, completed, dead or cancelled, over retries, crashes,
\* operators and the GPU lease, unless a step of it gets stranded.
EventuallySettled ==
    (\A j \in Job : []~(Parent[j] # NoJob /\ Stranded(j))) => <>[](\A j \in Job : Settled(j))

=============================================================================
