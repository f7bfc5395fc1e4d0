---------------------------- MODULE ItemDispatch ----------------------------
(***************************************************************************)
(* One item (a Todo node) that is handed to an agent: the dispatcher and   *)
(* its poll (crates/scheduler/src/item_dispatch.rs), the user's side of it *)
(* (crates/api/src/items.rs, rest/todos.rs, crates/skills/src/todo.rs) and *)
(* the Tasks and chains its runs are.  Items do not touch each other.      *)
(*                                                                         *)
(* One action is one database call.  A worker is a poll or a request that  *)
(* is being served: it decides on what it read some calls ago.  The chain  *)
(* of a run is executed by the job queue, here by its steps alone.         *)
(***************************************************************************)
EXTENDS Naturals, Sequences, FiniteSets

CONSTANTS
    Worker,    \* polls and requests that may be served at the same time
    User,      \* the assignee "user"
    Agent,     \* the spawnable agents
    AsksFirst, \* the agents that may act outside the graph
    MaxRuns,   \* MAX_RUNS
    Budget     \* Budget[o]: how often o may happen (bounds the model)

Ops == {"assign", "approve", "sendback", "edit", "fault", "crash", "stale", "cancel"}

ASSUME ItemAssumption ==
    /\ User \notin Agent
    /\ AsksFirst \subseteq Agent
    /\ MaxRuns \in Nat
    /\ Budget \in [Ops -> Nat]

VARIABLES
    item,    \* the Todo node
    runs,    \* its Tasks in the order of their creation, each with its chain
    worker,  \* what each worker is at, and what it has read
    claim,   \* history: how many claims of a run have been made
    granted, \* history: <<run number, agent>> as the user saw and approved it
    slip,    \* history: the unguarded writes that went wrong
    used     \* how much of Budget has been spent

vars == <<item, runs, worker, claim, granted, slip, used>>

-----------------------------------------------------------------------------
(* Types *)

ItemStatus == {"pending", "in_progress", "awaiting_approval", "awaiting_review", "done"}
Item == [status : ItemStatus, count : Nat, approved : Nat, assignee : Agent \cup {User}]

\* approved_dispatch is null.
NoRun == 0

\* Where the chain of a run is: `store` is a delivery that has read the status.
Stage == {"none", "agent", "deliver", "store", "close", "failing", "over"}
Run == [task : {"created", "in_progress", "completed", "failed"}, linked : BOOLEAN,
        agent : Agent, number : Nat, claim : Nat, stage : Stage, steps : 0..3]

Pc == {"idle", "reconcile", "reread", "settle", "list", "offer", "create", "mark",
       "link", "enqueue", "giveback", "patch", "reset", "allow", "return", "fetch",
       "hold", "load", "save", "reassign"}

\* What a worker carries: the item as it last read it, the run it starts or
\* settles, and what the user asked for.
Work == [pc : Pc, snap : Item, run : Nat, mine : Nat, now : BOOLEAN, back : BOOLEAN,
         want : Agent \cup {User}, to : ItemStatus \cup {"keep"}]

Fresh == [status |-> "pending", count |-> 0, approved |-> NoRun, assignee |-> User]
Idle == [pc |-> "idle", snap |-> Fresh, run |-> 0, mine |-> 0, now |-> FALSE,
         back |-> FALSE, want |-> User, to |-> "keep"]

TypeOK ==
    /\ item \in Item
    /\ runs \in Seq(Run)
    /\ worker \in [Worker -> Work]
    /\ claim \in Nat
    /\ granted \subseteq Nat \X Agent
    /\ slip \subseteq {"overwritten", "overtaken", "headless", "orphan", "early", "swapped"}
    /\ used \in [Ops -> Nat]

-----------------------------------------------------------------------------
Spend(o) == /\ used[o] < Budget[o]
            /\ used' = [used EXCEPT ![o] = @ + 1]

\* The worker goes on to pc, or is done.
To(w, pc) == worker' = [worker EXCEPT ![w].pc = pc]
Finish(w) == worker' = [worker EXCEPT ![w] = Idle]

\* A write MATCH (t:Todo) WHERE t.status = ... SET t.status = ...
SetStatus(from, to) ==
    item' = IF item.status \in from THEN [item EXCEPT !.status = to] ELSE item

\* History: note what an unguarded write, or one guarded too little, ran over.
Slips(what, when) == slip' = IF when THEN slip \cup {what} ELSE slip

Assigned(t) == t.assignee \in Agent

\* The Task linked last, if any.
Linked == {k \in DOMAIN runs : runs[k].linked}
IsLast(k) == k \in Linked /\ \A l \in Linked : l <= k

\* A new item, assigned to somebody or left to the user.
Init ==
    /\ \E a \in Agent \cup {User} : item = [Fresh EXCEPT !.assignee = a]
    /\ runs = <<>>
    /\ worker = [w \in Worker |-> Idle]
    /\ claim = 0
    /\ granted = {}
    /\ slip = {}
    /\ used = [o \in Ops |-> 0]

-----------------------------------------------------------------------------
(* poll: reconcile, then offer the item if it is pending and due *)

StartPoll(w) ==
    /\ worker[w].pc = "idle"
    /\ To(w, "reconcile")
    /\ UNCHANGED <<item, runs, claim, granted, slip, used>>

\* The query: the item is in progress and its last Task has failed.
Failed(k) == IsLast(k) /\ runs[k].task = "failed"

Reconcile(w) ==
    /\ worker[w].pc = "reconcile"
    /\ \/ \E k \in DOMAIN runs :
             /\ item.status = "in_progress" /\ Failed(k)
             /\ worker' = [worker EXCEPT ![w].pc = "reread", ![w].run = k]
       \/ /\ ~(item.status = "in_progress" /\ \E k \in DOMAIN runs : Failed(k))
          /\ To(w, "list")
    /\ UNCHANGED <<item, runs, claim, granted, slip, used>>

\* get_todo: the run count decides where the item goes.
Reread(w) ==
    /\ worker[w].pc = "reread"
    /\ worker' = [worker EXCEPT ![w].pc = "settle", ![w].snap = item]
    /\ UNCHANGED <<item, runs, claim, granted, slip, used>>

AfterFailureKept(t) == IF t.count < MaxRuns THEN "pending" ELSE "in_progress" \* mutant
AfterFailure(t) == IF t.count < MaxRuns THEN "pending" ELSE "awaiting_review"

Settle(w) ==
    LET lost == runs[worker[w].run].claim IN
    /\ worker[w].pc = "settle"
    /\ SetStatus({"in_progress"}, AfterFailure(worker[w].snap))
    /\ Slips("overtaken", item.status = "in_progress" /\ lost # claim)
    /\ worker' = [worker EXCEPT ![w] = [Idle EXCEPT !.pc = "list"]]
    /\ UNCHANGED <<runs, claim, granted, used>>

\* list_todos; what is not due, or beyond this poll's share, is left alone.
List(w) ==
    /\ worker[w].pc = "list"
    /\ \/ /\ Assigned(item) /\ item.status = "pending"
          /\ worker' = [worker EXCEPT ![w] = [Idle EXCEPT !.pc = "offer", !.snap = item]]
       \/ Finish(w)
    /\ UNCHANGED <<item, runs, claim, granted, slip, used>>

-----------------------------------------------------------------------------
(* dispatch, on the item as the worker read it *)

MustAskNever(t) == FALSE                                                 \* mutant
MustAsk(t) == t.assignee \in AsksFirst /\ t.approved # t.count + 1

OfferableUncapped(t) == Assigned(t) /\ t.status \in {"pending", "awaiting_approval"} \* mutant
Offerable(t) == /\ Assigned(t)
                /\ t.status \in {"pending", "awaiting_approval"}
                /\ t.count < MaxRuns

\* Not offered: handle_send_back then puts the item back into review.
TurnedDown(w) == IF worker[w].back THEN To(w, "hold") ELSE Finish(w)

\* Not offerable, not due, or its agent is no longer in the roster.
Refuse(w) ==
    /\ worker[w].pc = "offer"
    /\ \/ TurnedDown(w)
       \/ /\ Offerable(worker[w].snap) /\ ~worker[w].now
          /\ Finish(w)
    /\ UNCHANGED <<item, runs, claim, granted, slip, used>>

Ask(w) ==
    LET t == worker[w].snap IN
    /\ worker[w].pc = "offer"
    /\ Offerable(t) /\ MustAsk(t)
    /\ IF t.status = "pending" THEN SetStatus({"pending"}, "awaiting_approval")
                               ELSE UNCHANGED item
    /\ Finish(w)
    /\ UNCHANGED <<runs, claim, granted, slip, used>>

\* The conditional status change that starts a run.
ClaimableAlways(t) == TRUE                                               \* mutant
ClaimableByStatus(t) == item.status \in {"pending", "awaiting_approval"}    \* mutant
Claimable(t) == item.status \in {"pending", "awaiting_approval"} /\ item.count = t.count

ClaimedUncounted(t) == [item EXCEPT !.status = "in_progress"]              \* mutant
Claimed(t) == [item EXCEPT !.status = "in_progress", !.count = t.count + 1]

Claim(w) ==
    LET t == worker[w].snap IN
    /\ worker[w].pc = "offer"
    /\ Offerable(t) /\ ~MustAsk(t)
    /\ \/ /\ Claimable(t)
          /\ item' = Claimed(t)
          /\ claim' = claim + 1
          /\ worker' = [worker EXCEPT ![w].pc = "create", ![w].mine = claim + 1]
       \/ /\ ~Claimable(t)
          /\ TurnedDown(w)
          /\ UNCHANGED <<item, claim>>
    /\ UNCHANGED <<runs, granted, slip, used>>

\* start_run: create_task, ...
CreateTask(w) ==
    LET t == worker[w].snap IN
    /\ worker[w].pc = "create"
    /\ \/ /\ runs' = Append(runs, [task |-> "created", linked |-> FALSE,
                                   agent |-> t.assignee, number |-> t.count + 1,
                                   claim |-> worker[w].mine, stage |-> "none", steps |-> 0])
          /\ worker' = [worker EXCEPT ![w].pc = "mark", ![w].run = Len(runs) + 1]
          /\ UNCHANGED used
       \/ /\ Spend("fault")
          /\ To(w, "giveback")
          /\ UNCHANGED runs
    /\ UNCHANGED <<item, claim, granted, slip>>

MarkTask(w) ==
    /\ worker[w].pc = "mark"
    /\ runs' = [runs EXCEPT ![worker[w].run].task = "in_progress"]
    /\ To(w, "link")
    /\ UNCHANGED <<item, claim, granted, slip, used>>

\* ... the SPAWNED edge, whose failure is ignored, ...
LinkTask(w) ==
    /\ worker[w].pc = "link"
    /\ \/ /\ runs' = [runs EXCEPT ![worker[w].run].linked = TRUE]
          /\ UNCHANGED <<slip, used>>
       \/ /\ Spend("fault")
          /\ Slips("orphan", TRUE)
          /\ UNCHANGED runs
    /\ To(w, "enqueue")
    /\ UNCHANGED <<item, claim, granted>>

\* ... and the chain: when a later step cannot be created, the earlier ones stay
\* and are executed, although the caller is told that there is no chain.
Enqueue(w) ==
    /\ worker[w].pc = "enqueue"
    /\ \/ /\ runs' = [runs EXCEPT ![worker[w].run].stage = "agent", ![worker[w].run].steps = 3]
          /\ Finish(w)
          /\ UNCHANGED <<slip, used>>
       \/ \E n \in 0..2 :
             /\ Spend("fault")
             /\ runs' = [runs EXCEPT ![worker[w].run].stage = IF n = 0 THEN "none" ELSE "agent",
                                     ![worker[w].run].steps = n]
             /\ Slips("headless", n > 0)
             /\ To(w, "giveback")
    /\ UNCHANGED <<item, claim, granted>>

\* The claim is given back with the count the worker read before it.
GiveBack(w) ==
    /\ worker[w].pc = "giveback"
    /\ \/ /\ item' = IF item.status = "in_progress"
                     THEN [item EXCEPT !.status = "pending", !.count = worker[w].snap.count]
                     ELSE item
          /\ Slips("overtaken", item.status = "in_progress" /\ worker[w].mine # claim)
          /\ UNCHANGED used
       \/ /\ Spend("fault")
          /\ Slips("orphan", TRUE)
          /\ UNCHANGED item
    /\ Finish(w)
    /\ UNCHANGED <<runs, claim, granted>>

Dispatch(w) ==
    \/ Refuse(w) \/ Ask(w) \/ Claim(w)
    \/ CreateTask(w) \/ MarkTask(w) \/ LinkTask(w) \/ Enqueue(w) \/ GiveBack(w)

-----------------------------------------------------------------------------
(* The user's requests: each reads the item, decides, and writes *)

Request(w, o, work) ==
    /\ worker[w].pc = "idle"
    /\ Spend(o)
    /\ worker' = [worker EXCEPT ![w] = work]
    /\ UNCHANGED <<item, runs, claim, granted, slip>>

\* handle_assign
StartAssign(w, a) ==
    /\ item.status \notin {"in_progress", "done"}
    /\ Request(w, "assign", [Idle EXCEPT !.pc = "patch", !.want = a])

Patch(w) ==
    /\ worker[w].pc = "patch"
    /\ item' = [item EXCEPT !.assignee = worker[w].want]
    /\ Slips("swapped", item.approved # NoRun /\ worker[w].want # item.assignee)
    /\ To(w, "reset")
    /\ UNCHANGED <<runs, claim, granted, used>>

\* Whatever the item has become since the request read it.
Reset(w) ==
    /\ worker[w].pc = "reset"
    /\ item' = [item EXCEPT !.status = "pending", !.approved = NoRun]
    /\ Slips("overwritten", item.status \in {"in_progress", "done"})
    /\ IF worker[w].want \in Agent THEN To(w, "fetch") ELSE Finish(w)
    /\ UNCHANGED <<runs, claim, granted, used>>

\* item_or_404 before the offer.
Fetch(w) ==
    /\ worker[w].pc = "fetch"
    /\ worker' = [worker EXCEPT ![w].pc = "offer", ![w].snap = item]
    /\ UNCHANGED <<item, runs, claim, granted, slip, used>>

\* handle_approve: of a run, or of a result.
StartApprove(w) ==
    \/ /\ item.status = "awaiting_approval"
       /\ Request(w, "approve", [Idle EXCEPT !.pc = "allow", !.snap = item, !.now = TRUE])
    \/ /\ item.status = "awaiting_review"
       /\ Request(w, "approve", [Idle EXCEPT !.pc = "load", !.to = "done"])

\* The approval names a run number, and not the agent it was given for.
Grant(w, from) ==
    IF item.status = from
    THEN /\ granted' = granted \cup ({<<worker[w].snap.count + 1, worker[w].snap.assignee>>}
                                     \cap (Nat \X Agent))
         /\ Slips("swapped", item.assignee # worker[w].snap.assignee
                             \/ item.count # worker[w].snap.count)
    ELSE UNCHANGED <<granted, slip>>

Allow(w) ==
    /\ worker[w].pc = "allow"
    /\ item' = IF item.status = "awaiting_approval"
               THEN [item EXCEPT !.approved = worker[w].snap.count + 1] ELSE item
    /\ Grant(w, "awaiting_approval")
    /\ To(w, "fetch")
    /\ UNCHANGED <<runs, claim, used>>

\* handle_send_back: the approval of one more run.
StartSendBack(w) ==
    /\ item.status = "awaiting_review" /\ Assigned(item) /\ item.count < MaxRuns
    /\ Request(w, "sendback", [Idle EXCEPT !.pc = "return", !.snap = item,
                                           !.now = TRUE, !.back = TRUE])

Return(w) ==
    /\ worker[w].pc = "return"
    /\ item' = IF item.status = "awaiting_review"
               THEN [item EXCEPT !.status = "pending", !.approved = item.count + 1] ELSE item
    /\ Grant(w, "awaiting_review")
    /\ To(w, "fetch")
    /\ UNCHANGED <<runs, claim, used>>

Hold(w) ==
    /\ worker[w].pc = "hold"
    /\ SetStatus({"pending"}, "awaiting_review")
    /\ Finish(w)
    /\ UNCHANGED <<runs, claim, granted, slip, used>>

\* handle_update_todo and manage_todo's upsert and complete: update_todo, then
\* the item's other fields.
StartEdit(w, to, a) ==
    Request(w, "edit", [Idle EXCEPT !.pc = "load", !.to = to, !.want = a])

\* update_todo reads the item, and writes every field back,
Load(w) ==
    /\ worker[w].pc = "load"
    /\ worker' = [worker EXCEPT ![w].pc = "save", ![w].snap = item]
    /\ UNCHANGED <<item, runs, claim, granted, slip, used>>

\* the status as it was when the request does not name one.
SavedStatus(w) == IF worker[w].to = "keep" THEN worker[w].snap.status ELSE worker[w].to

Save(w) ==
    /\ worker[w].pc = "save"
    /\ item' = [item EXCEPT !.status = SavedStatus(w)]
    /\ Slips("overwritten", \/ item.status # worker[w].snap.status
                            \/ /\ SavedStatus(w) # item.status
                               /\ "in_progress" \in {SavedStatus(w), item.status})
    /\ To(w, "reassign")
    /\ UNCHANGED <<runs, claim, granted, used>>

\* An assignee changed here keeps the approval given for the other.
Reassign(w) ==
    /\ worker[w].pc = "reassign"
    /\ \/ /\ worker[w].want # User
          /\ item' = [item EXCEPT !.assignee = worker[w].want]
          /\ Slips("swapped", item.approved # NoRun /\ worker[w].want # item.assignee)
       \/ /\ worker[w].want = User
          /\ UNCHANGED <<item, slip>>
    /\ Finish(w)
    /\ UNCHANGED <<runs, claim, granted, used>>

UserStarts(w) ==
    \/ \E a \in Agent \cup {User} : StartAssign(w, a)
    \/ StartApprove(w) \/ StartSendBack(w)
    \/ \E to \in {"keep", "pending", "done"}, a \in Agent \cup {User} : StartEdit(w, to, a)

WorkerStep(w) ==
    \/ Reconcile(w) \/ Reread(w) \/ Settle(w) \/ List(w) \/ Dispatch(w)
    \/ Patch(w) \/ Reset(w) \/ Fetch(w) \/ Allow(w) \/ Return(w) \/ Hold(w)
    \/ Load(w) \/ Save(w) \/ Reassign(w)

-----------------------------------------------------------------------------
(* The chain of a run: run_agent, manage_todo deliver, update_task *)

Stages(k, stage) == runs' = [runs EXCEPT ![k].stage = stage]
ChainFrame == UNCHANGED <<worker, claim, granted, used>>

\* The step after one that exists, if it was created.
Then(k, n, stage) == IF n <= runs[k].steps THEN stage ELSE "over"

AgentAnswers(k) ==
    /\ runs[k].stage = "agent"
    /\ Stages(k, Then(k, 2, "deliver"))
    /\ UNCHANGED <<item, slip>> /\ ChainFrame

\* deliver takes a result only for an item in progress,
Deliver(k) ==
    /\ runs[k].stage = "deliver"
    /\ item.status = "in_progress"
    /\ Stages(k, "store")
    /\ UNCHANGED <<item, slip>> /\ ChainFrame

\* and looks again when it writes: a result that comes too late is reported as
\* delivered all the same.
Store(k) ==
    /\ runs[k].stage = "store"
    /\ SetStatus({"in_progress"}, "awaiting_review")
    /\ Slips("overtaken", item.status = "in_progress" /\ runs[k].claim # claim)
    /\ Stages(k, Then(k, 3, "close"))
    /\ ChainFrame

\* update_task completed, whatever the Task has become.
Close(k) ==
    /\ runs[k].stage = "close"
    /\ runs' = [runs EXCEPT ![k].stage = "over", ![k].task = "completed"]
    /\ UNCHANGED <<item, slip>> /\ ChainFrame

\* A step has used up its attempts; a delivery that finds nothing in progress
\* never does anything else.
StepDies(k) ==
    /\ runs[k].stage \in {"agent", "deliver", "store", "close"}
    /\ Stages(k, "failing")
    /\ UNCHANGED <<item, slip>> /\ ChainFrame

\* fail_task_with_reason, of the Task that owns the chain.
FailTask(k) ==
    /\ runs[k].stage = "failing"
    /\ runs' = [runs EXCEPT ![k].stage = "over",
                  ![k].task = IF @ \in {"created", "in_progress"} THEN "failed" ELSE @]
    /\ UNCHANGED <<item, slip>> /\ ChainFrame

ChainStep(k) == \/ AgentAnswers(k) \/ Deliver(k) \/ Store(k) \/ Close(k)
                \/ StepDies(k) \/ FailTask(k)

\* Nothing is left that would end the Task.
Unattended(k) == /\ runs[k].stage \in {"none", "over"}
                 /\ \A w \in Worker : worker[w].pc \in {"link", "enqueue"} => worker[w].run # k

\* The Task has been in progress for six hours (reset_stale_in_progress_tasks):
\* its chain is over, or has waited that long.
Stale(k) ==
    /\ runs[k].task = "in_progress"
    /\ \/ Unattended(k) /\ UNCHANGED <<slip, used>>
       \/ /\ runs[k].stage \notin {"none", "over"}
          /\ Spend("stale")
          /\ Slips("early", TRUE)
    /\ runs' = [runs EXCEPT ![k].task = "failed"]
    /\ UNCHANGED <<item, worker, claim, granted>>

\* An operator cancels the jobs of the chain: nobody tells its Task.
CancelChain(k) ==
    /\ runs[k].stage \in {"agent", "deliver", "close"}
    /\ Spend("cancel")
    /\ Stages(k, "over")
    /\ UNCHANGED <<item, worker, claim, granted, slip>>

\* Polls and requests are lost, and what they had claimed.
Crash ==
    /\ Spend("crash")
    /\ worker' = [w \in Worker |-> Idle]
    /\ Slips("orphan", \E w \in Worker : worker[w].pc \in
                          {"create", "mark", "link", "enqueue", "giveback"})
    /\ UNCHANGED <<item, runs, claim, granted>>

-----------------------------------------------------------------------------
Next ==
    \/ \E w \in Worker : StartPoll(w) \/ UserStarts(w) \/ WorkerStep(w)
    \/ \E k \in DOMAIN runs : ChainStep(k) \/ Stale(k) \/ CancelChain(k)
    \/ Crash

Spec == Init /\ [][Next]_vars

\* Requests are served, polls keep coming, the queue executes what it holds, and
\* the scheduler's every tick fails Tasks that nothing is left to end.
Fairness ==
    /\ \A w \in Worker : WF_vars(WorkerStep(w)) /\ WF_vars(StartPoll(w))
    /\ WF_vars(\E k \in DOMAIN runs : ChainStep(k))
    /\ WF_vars(\E k \in DOMAIN runs : Unattended(k) /\ Stale(k))

FairSpec == Spec /\ Fairness

-----------------------------------------------------------------------------
(* Safety.  Each property names the writes that may break it, all of them   *)
(* writes which are guarded on less than what was read.                     *)

Without(causes) == slip \cap causes = {}

\* An agent only works on an item for the item's latest claim, while the item is in
\* progress: nobody starts a second run of an item that is being worked on.  Two polls,
\* a poll and a request, or a failure reported late may interleave in any order
\* (item_dispatch.rs:17-20, 296-334).  It needs that no unguarded status write hit the
\* run (a reassignment, an edit), no poll settled the failure of a run that had been
\* replaced, no half-created chain ran on, and no Task was failed under its chain.
WorkIsCurrent ==
    Without({"overwritten", "overtaken", "headless", "early"}) =>
        \A k \in DOMAIN runs : runs[k].stage \in {"agent", "deliver", "store"} =>
            runs[k].claim = claim /\ item.status = "in_progress"

Chained == {k \in DOMAIN runs : runs[k].steps > 0}

\* No run number is worked on twice, and so no approval is used twice
\* (item_dispatch.rs:14-18), whatever is edited, reassigned, retried or lost between
\* the calls; only a half-created chain and a claim given back late can do it.
NoRunTwice ==
    Without({"headless", "overtaken"}) =>
        \A k, l \in Chained : runs[k].number = runs[l].number => k = l

\* An item has at most MAX_RUNS runs over all hands it goes through
\* (item_dispatch.rs:16, 36), under the same condition.
RunsCapped == Without({"headless", "overtaken"}) => Cardinality(Chained) <= MaxRuns

\* An agent that asks first only runs what the user approved for that run and that
\* agent (item_dispatch.rs:12-15), although dispatch decides on a copy of the item.
\* It needs that no assignee was swapped under an approval.
ApprovedRuns ==
    Without({"swapped"}) =>
        \A k \in Chained : runs[k].agent \in AsksFirst =>
            <<runs[k].number, runs[k].agent>> \in granted

\* An item does not stay in progress: each run is delivered, fails, or is failed by
\* the stale reset, and a poll then settles the item (item_dispatch.rs:23-25, 435-460).
\* It needs that no claim was lost with its worker, and no status written over.
Released ==
    [](Without({"overwritten", "overtaken", "orphan"})) => []<>(item.status # "in_progress")
=============================================================================
