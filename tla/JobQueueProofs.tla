--------------------------- MODULE JobQueueProofs ---------------------------
(***************************************************************************)
(* Two invariants of JobQueue for every value of its constants: its type   *)
(* invariant, and that the coordinator never waits while a job it could    *)
(* start sits in its heap.  The second is proved from WakeInv, which says  *)
(* in which states of the coordinator's pass the heap and the free permits *)
(* have already been looked at.                                            *)
(***************************************************************************)
EXTENDS JobQueue, TLAPS

\* What a step of an execution does to it: it moves on, or it ends.
Moves(s) == \/ \E pc \in ExecPc \ {"idle"}, todo \in SUBSET Job : Goto(s, pc, todo)
            \/ exec[s].job \in Optional /\ exec' = [exec EXCEPT ![s] =
                  [pc |-> "unpark", job |-> exec[s].job, todo |-> {}, skip |-> TRUE]]
            \/ Release(s)

\* An execution that goes to a program counter other than idle moves.
LEMMA MovesOn ==
    ASSUME NEW s \in Slot, NEW pc \in ExecPc \ {"idle"}, NEW todo \in SUBSET Job,
           Goto(s, pc, todo)
    PROVE  Moves(s)
BY DEF Moves

\* An execution that moves has a typed state afterwards; only its own entry, the
\* permits and the notification change.
LEMMA MovesShape ==
    ASSUME TypeOK, NEW s \in Slot, exec[s].pc # "idle", Moves(s)
    PROVE  /\ exec' \in [Slot -> Execution]
           /\ exec[s].job \in Job
           /\ \A t \in Slot : t # s => exec'[t] = exec[t]
           /\ exec'[s].pc # "idle" => exec'[s].job = exec[s].job
           /\ exec'[s].pc # "idle" \/ Release(s)
           /\ \A t \in Slot : exec'[t].pc # "idle" => exec'[t].job \in Job
<1>1. CASE \E pc \in ExecPc \ {"idle"}, todo \in SUBSET Job : Goto(s, pc, todo)
  BY <1>1 DEF TypeOK, Goto, Execution
<1>2. CASE Release(s)
  BY <1>2 DEF TypeOK, Release, Execution, ExecPc, IdleExec
<1>3. CASE exec' = [exec EXCEPT ![s] =
                  [pc |-> "unpark", job |-> exec[s].job, todo |-> {}, skip |-> TRUE]]
  BY <1>3 DEF TypeOK, Execution, ExecPc
<1>4. QED
  BY <1>1, <1>2, <1>3 DEF Moves

\* Likewise for a caller of cancel, retry or drain.
Calls(c) == \/ \E pc \in ClientPc, j \in Job, todo \in SUBSET Job : At(c, pc, j, todo)
            \/ \E pc \in {"drain", "cascade"}, todo \in SUBSET Job : At(c, pc, NoJob, todo)
            \/ Done(c)

\* The same for a caller.
LEMMA CallsShape ==
    ASSUME TypeOK, NEW c \in Client, Calls(c)
    PROVE  /\ client' \in [Client -> Call]
           /\ \A d \in Client : d # c => client'[d] = client[d]
           /\ \A d \in Client : client'[d].pc \notin {"idle", "drain", "cascade"} =>
                                   client'[d].job \in Job
<1>1. CASE \E pc \in ClientPc, j \in Job, todo \in SUBSET Job : At(c, pc, j, todo)
  BY <1>1 DEF TypeOK, At, Call
<1>2. CASE \E pc \in {"drain", "cascade"}, todo \in SUBSET Job : At(c, pc, NoJob, todo)
  BY <1>2 DEF TypeOK, At, Call, ClientPc
<1>3. CASE Done(c)
  BY <1>3 DEF TypeOK, Done, Call, ClientPc, IdleCall
<1>4. QED
  BY <1>1, <1>2, <1>3 DEF Calls

\* Every step of an execution holds a permit and moves on or ends.
LEMMA ExecutionMoves ==
    ASSUME TypeOK, NEW s \in Slot, ExecStep(s) \/ CallFails(s)
    PROVE  exec[s].pc # "idle" /\ Moves(s)
<1>1. CASE Start(s)
  <2>1. CASE Goto(s, "tool", {})
    BY <1>1, <2>1, MovesOn DEF Start, ExecPc
  <2>2. CASE Release(s)
    BY <1>1, <2>2 DEF Start, Moves
  <2>3. QED
    BY <1>1, <2>1, <2>2 DEF Start
<1>2. CASE ToolReturns(s)
  BY <1>2 DEF ToolReturns, Moves, ExecPc, TypeOK, Execution, ExecFrame
<1>3. CASE Complete(s)
  <2>1. CASE Goto(s, "unpark", {})
    BY <1>3, <2>1, MovesOn DEF Complete, ExecPc
  <2>2. CASE Goto(s, "cascade", {exec[s].job})
    BY <1>3, <2>2, MovesOn DEF Complete, TypeOK, ExecPc
  <2>3. CASE Release(s)
    BY <1>3, <2>3 DEF Complete, Moves
  <2>4. QED
    BY <1>3, <2>1, <2>2, <2>3 DEF Complete
<1>4. CASE Failed(s)
  BY <1>4 DEF Failed, Moves, ExecPc, TypeOK, Execution, ExecFrame
<1>5. CASE Requeue(s)
  BY <1>5 DEF Requeue, Matching, Marked, Moves, ExecPc, TypeOK, Execution, ExecFrame
<1>6. CASE Dead(s)
  <2>1. CASE Goto(s, "unpark", {})
    BY <1>6, <2>1, MovesOn DEF Dead, ExecPc
  <2>2. CASE Goto(s, "cascade", {exec[s].job})
    BY <1>6, <2>2, MovesOn DEF Dead, TypeOK, ExecPc
  <2>3. CASE Release(s)
    BY <1>6, <2>3 DEF Dead, Moves
  <2>4. QED
    BY <1>6, <2>1, <2>2, <2>3 DEF Dead
<1>7. CASE Unpark(s)
  BY <1>7 DEF Unpark, Marked, ParkedChildren, Moves, ExecPc, TypeOK, Execution, ExecFrame
<1>8. CASE PushKids(s)
  <2>1. CASE Goto(s, "skip", {})
    BY <1>8, <2>1, MovesOn DEF PushKids, ExecPc
  <2>2. CASE Release(s)
    BY <1>8, <2>2 DEF PushKids, Moves
  <2>3. QED
    BY <1>8, <2>1, <2>2 DEF PushKids
<1>9. CASE Skip(s)
  BY <1>9 DEF Skip, Matching, Marked, Moves, ExecPc, TypeOK, Execution, ExecFrame
<1>10. CASE CancelGeneration(s)
  BY <1>10 DEF CancelGeneration, Marked, ParkedChildren, Moves, ExecPc, TypeOK, Execution, ExecFrame
<1>11. CASE CallFails(s)
  <2>1. CASE Goto(s, "skip", {})
    BY <1>11, <2>1, MovesOn DEF CallFails, ExecPc
  <2>2. CASE Release(s)
    BY <1>11, <2>2 DEF CallFails, Moves
  <2>3. QED
    BY <1>11, <2>1, <2>2 DEF CallFails
<1>12. QED
  BY <1>1, <1>2, <1>3, <1>4, <1>5, <1>6, <1>7, <1>8, <1>9, <1>10, <1>11 DEF ExecStep

\* Every step of a caller is one of these.
LEMMA CallerCalls ==
    ASSUME TypeOK, NEW c \in Client, CallOps(c)
    PROVE  Calls(c)
<1> USE ChainAssumption
<1>1. CASE DoCancel(c)
  BY <1>1 DEF DoCancel, Marked, Calls, ClientPc, TypeOK, Call
<1>2. CASE ClientCancelGeneration(c)
  BY <1>2 DEF ClientCancelGeneration, Marked, ParkedChildren, Calls, ClientPc, TypeOK, Call
<1>3. CASE Tombstone(c)
  BY <1>3 DEF Tombstone, Calls, ClientPc, TypeOK, Call
<1>4. CASE DoRetry(c)
  BY <1>4 DEF DoRetry, Calls, ClientPc, TypeOK, Call
<1>5. CASE Untomb(c)
  BY <1>5 DEF Untomb, Calls, ClientPc, TypeOK, Call
<1>6. CASE Repush(c)
  BY <1>6 DEF Repush, Pushed, Calls, ClientPc, TypeOK, Call
<1>7. CASE DrainQueued(c)
  BY <1>7 DEF DrainQueued, Marked, QueuedJobs, Calls, ClientPc, TypeOK, Call
<1>8. CASE BeginDrain(c)
  BY <1>8 DEF BeginDrain, EmptyBag, Calls, ClientPc, TypeOK, Call
<1>9. ASSUME NEW j \in Job, BeginCancel(c, j) PROVE Calls(c)
  BY <1>9 DEF BeginCancel, Calls, ClientPc, TypeOK, Call
<1>10. ASSUME NEW j \in Job, BeginRetry(c, j) PROVE Calls(c)
  BY <1>10 DEF BeginRetry, Calls, ClientPc, TypeOK, Call
<1>11. QED
  BY <1>1, <1>2, <1>3, <1>4, <1>5, <1>6, <1>7, <1>8, <1>9, <1>10 DEF CallOps, ClientStep

\* Every step keeps the types: one case per action.
LEMMA TypeInductive == TypeOK /\ [Next]_vars => TypeOK'
<1> SUFFICES ASSUME TypeOK, [Next]_vars PROVE TypeOK'
  OBVIOUS
<1> USE ChainAssumption, ParamAssumption
<1>1. ASSUME NEW j \in Job, CreateStep(j) PROVE TypeOK'
  BY <1>1 DEF TypeOK, Status, CoordPc, Roots, CreateStep, db, queue, passive, history
<1>2. ASSUME NEW r \in Roots, PushFirst(r) PROVE TypeOK'
  BY <1>2 DEF TypeOK, Status, CoordPc, Roots, PushFirst, Pushed, db, queue, passive, history
<1>3. ASSUME NEW r \in Roots, SubmitFails(r) PROVE TypeOK'
  BY <1>3 DEF TypeOK, Status, CoordPc, Roots, SubmitFails, Spend, Ops, db, queue, passive, history
<1>4. CASE Wake
  BY <1>4 DEF TypeOK, Status, CoordPc, Roots, Wake, db, queue, passive, history
<1>5. CASE Poll
  BY <1>5 DEF TypeOK, Status, CoordPc, Roots, Poll, Reloaded, QueuedJobs, db, queue, passive, history
<1>6. CASE EndPass
  BY <1>6 DEF TypeOK, Status, CoordPc, Roots, EndPass, EmptyBag, db, queue, passive, history
<1>7. ASSUME NEW j \in Job, Pop(j) PROVE TypeOK'
  <2>1. /\ tomb' \subseteq Job
        /\ blocked' \in [Job -> Nat]
    BY <1>7 DEF Pop, DropTombstoned, SetAside, Dispatch, TypeOK
  <2>2. /\ exec' \in [Slot -> Execution]
        /\ \A s \in Slot : exec'[s].pc # "idle" => exec'[s].job \in Job
    <3>1. CASE Dispatch(j)
      BY <3>1 DEF Dispatch, FreeSlots, TypeOK, Execution, ExecPc
    <3>2. CASE ~Dispatch(j)
      BY <1>7, <3>2 DEF Pop, DropTombstoned, SetAside, TypeOK
    <3>3. QED
      BY <3>1, <3>2
  <2>3. heap' \in [Job -> Nat]
    BY <1>7 DEF Pop, Popped, TypeOK
  <2>4. QED
    BY <1>7, <2>1, <2>2, <2>3 DEF TypeOK, Pop, db, passive, history
<1>8. CASE RecoverRunning
  BY <1>8 DEF TypeOK, Status, CoordPc, Roots, RecoverRunning, Recovered, db, queue, passive, history
<1>9. CASE RecoverOrphans
  BY <1>9 DEF TypeOK, Status, CoordPc, Roots, RecoverOrphans, Marked, db, queue, passive, history
<1>10. CASE RecoverHeap
  BY <1>10 DEF TypeOK, Status, CoordPc, Roots, RecoverHeap, Pushed, QueuedJobs, db, queue, passive, history
<1>11. ASSUME NEW s \in Slot, Start(s) PROVE TypeOK'
  <2>1. exec[s].pc # "idle" /\ Moves(s)
    BY <1>11, ExecutionMoves DEF ExecStep
  <2>2. notified' \in BOOLEAN
    BY <1>11 DEF Start, ExecFrame, Release, TypeOK
  <2>3. QED
    BY <1>11, <2>1, <2>2, MovesShape DEF TypeOK, Status, CoordPc, Roots, Start, Matching, ExecFrame, db, history
<1>12. ASSUME NEW s \in Slot, ToolReturns(s) PROVE TypeOK'
  <2>1. exec[s].pc # "idle" /\ Moves(s)
    BY <1>12, ExecutionMoves DEF ExecStep
  <2>2. QED
    BY <1>12, <2>1, MovesShape DEF TypeOK, Status, CoordPc, Roots, ToolReturns, ExecFrame, Release, db, history
<1>13. ASSUME NEW s \in Slot, Complete(s) PROVE TypeOK'
  <2>1. exec[s].pc # "idle" /\ Moves(s)
    BY <1>13, ExecutionMoves DEF ExecStep
  <2>2. notified' \in BOOLEAN
    BY <1>13 DEF Complete, ExecFrame, Release, TypeOK
  <2>3. QED
    BY <1>13, <2>1, <2>2, MovesShape DEF TypeOK, Status, CoordPc, Roots, Complete, Matching, ExecFrame, db, history
<1>14. ASSUME NEW s \in Slot, Failed(s) PROVE TypeOK'
  <2>1. exec[s].pc # "idle" /\ Moves(s)
    BY <1>14, ExecutionMoves DEF ExecStep
  <2>2. QED
    BY <1>14, <2>1, MovesShape DEF TypeOK, Status, CoordPc, Roots, Failed, ExecFrame, Release, db, history
<1>15. ASSUME NEW s \in Slot, Requeue(s) PROVE TypeOK'
  <2>1. exec[s].pc # "idle" /\ Moves(s)
    BY <1>15, ExecutionMoves DEF ExecStep
  <2>2. QED
    BY <1>15, <2>1, MovesShape DEF TypeOK, Status, CoordPc, Roots, Requeue, Matching, Marked, ExecFrame, Release, db, history
<1>16. ASSUME NEW s \in Slot, Dead(s) PROVE TypeOK'
  <2>1. exec[s].pc # "idle" /\ Moves(s)
    BY <1>16, ExecutionMoves DEF ExecStep
  <2>2. notified' \in BOOLEAN
    BY <1>16 DEF Dead, ExecFrame, Release, TypeOK
  <2>3. QED
    BY <1>16, <2>1, <2>2, MovesShape DEF TypeOK, Status, CoordPc, Roots, Dead, Matching, CarriesOn, ExecFrame, db, history
<1>17. ASSUME NEW s \in Slot, Unpark(s) PROVE TypeOK'
  <2>1. exec[s].pc # "idle" /\ Moves(s)
    BY <1>17, ExecutionMoves DEF ExecStep
  <2>2. QED
    BY <1>17, <2>1, MovesShape DEF TypeOK, Status, CoordPc, Roots, Unpark, Marked, ParkedChildren, ExecFrame, Release, db, history
<1>18. ASSUME NEW s \in Slot, PushKids(s) PROVE TypeOK'
  <2>1. exec[s].pc # "idle" /\ Moves(s)
    BY <1>18, ExecutionMoves DEF ExecStep
  <2>2. notified' \in BOOLEAN
    BY <1>18 DEF PushKids, ExecFrame, Release, TypeOK
  <2>3. QED
    BY <1>18, <2>1, <2>2, MovesShape DEF TypeOK, Status, CoordPc, Roots, PushKids, Pushed, ExecFrame, db, history
<1>19. ASSUME NEW s \in Slot, Skip(s) PROVE TypeOK'
  <2>1. exec[s].pc # "idle" /\ Moves(s)
    BY <1>19, ExecutionMoves DEF ExecStep
  <2>2. QED
    BY <1>19, <2>1, MovesShape DEF TypeOK, Status, CoordPc, Roots, Skip, Matching, Marked, ExecFrame, Release, db, history
<1>20. ASSUME NEW s \in Slot, CancelGeneration(s) PROVE TypeOK'
  <2>1. exec[s].pc # "idle" /\ Moves(s)
    BY <1>20, ExecutionMoves DEF ExecStep
  <2>2. notified' \in BOOLEAN
    BY <1>20 DEF CancelGeneration, ExecFrame, Release, TypeOK
  <2>3. QED
    BY <1>20, <2>1, <2>2, MovesShape DEF TypeOK, Status, CoordPc, Roots, CancelGeneration, Marked, ParkedChildren, ExecFrame, db, history
<1>21. ASSUME NEW s \in Slot, CallFails(s) PROVE TypeOK'
  <2>1. exec[s].pc # "idle" /\ Moves(s)
    BY <1>21, ExecutionMoves DEF ExecStep
  <2>2. notified' \in BOOLEAN
    BY <1>21 DEF CallFails, ExecFrame, Release, TypeOK
  <2>3. QED
    BY <1>21, <2>1, <2>2, MovesShape DEF TypeOK, Status, CoordPc, Roots, CallFails, Spend, Ops, ExecFrame, db, history
<1>22. ASSUME NEW c \in Client, DoCancel(c) PROVE TypeOK'
  <2>1. Calls(c)
    BY <1>22, CallerCalls DEF CallOps, ClientStep
  <2>2. QED
    BY <1>22, <2>1, CallsShape DEF TypeOK, Status, CoordPc, Roots, DoCancel, Marked, CallFrame, db, history
<1>23. ASSUME NEW c \in Client, ClientCancelGeneration(c) PROVE TypeOK'
  <2>1. Calls(c)
    BY <1>23, CallerCalls DEF CallOps, ClientStep
  <2>2. QED
    BY <1>23, <2>1, CallsShape DEF TypeOK, Status, CoordPc, Roots, ClientCancelGeneration, Marked, ParkedChildren, CallFrame, db, history
<1>24. ASSUME NEW c \in Client, Tombstone(c) PROVE TypeOK'
  <2>1. Calls(c)
    BY <1>24, CallerCalls DEF CallOps, ClientStep
  <2>2. QED
    BY <1>24, <2>1, CallsShape DEF TypeOK, Status, CoordPc, Roots, Tombstone, CallFrame, db, history
<1>25. ASSUME NEW c \in Client, DoRetry(c) PROVE TypeOK'
  <2>1. Calls(c)
    BY <1>25, CallerCalls DEF CallOps, ClientStep
  <2>2. QED
    BY <1>25, <2>1, CallsShape DEF TypeOK, Status, CoordPc, Roots, DoRetry, CallFrame, db, history
<1>26. ASSUME NEW c \in Client, Untomb(c) PROVE TypeOK'
  <2>1. Calls(c)
    BY <1>26, CallerCalls DEF CallOps, ClientStep
  <2>2. QED
    BY <1>26, <2>1, CallsShape DEF TypeOK, Status, CoordPc, Roots, Untomb, CallFrame, db, history
<1>27. ASSUME NEW c \in Client, Repush(c) PROVE TypeOK'
  <2>1. Calls(c)
    BY <1>27, CallerCalls DEF CallOps, ClientStep
  <2>2. notified' \in BOOLEAN
    BY <1>27 DEF Repush, ExecFrame, TypeOK
  <2>3. QED
    BY <1>27, <2>1, <2>2, CallsShape DEF TypeOK, Status, CoordPc, Roots, Repush, Pushed, CallFrame, db, history
<1>28. ASSUME NEW c \in Client, DrainQueued(c) PROVE TypeOK'
  <2>1. Calls(c)
    BY <1>28, CallerCalls DEF CallOps, ClientStep
  <2>2. QED
    BY <1>28, <2>1, CallsShape DEF TypeOK, Status, CoordPc, Roots, DrainQueued, Marked, QueuedJobs, CallFrame, db, history
<1>29. ASSUME NEW c \in Client, BeginDrain(c) PROVE TypeOK'
  <2>1. Calls(c)
    BY <1>29, CallerCalls DEF CallOps, ClientStep
  <2>2. QED
    BY <1>29, <2>1, CallsShape DEF TypeOK, Status, CoordPc, Roots, BeginDrain, EmptyBag, Spend, Ops, CallFrame, db, history
<1>30. ASSUME NEW c \in Client, NEW j \in Job, BeginCancel(c, j) PROVE TypeOK'
  <2>1. Calls(c)
    BY <1>30, CallerCalls DEF CallOps, ClientStep
  <2>2. QED
    BY <1>30, <2>1, CallsShape DEF TypeOK, Status, CoordPc, Roots, BeginCancel, Spend, Ops, CallFrame, db, history
<1>31. ASSUME NEW c \in Client, NEW j \in Job, BeginRetry(c, j) PROVE TypeOK'
  <2>1. Calls(c)
    BY <1>31, CallerCalls DEF CallOps, ClientStep
  <2>2. QED
    BY <1>31, <2>1, CallsShape DEF TypeOK, Status, CoordPc, Roots, BeginRetry, Spend, Ops, CallFrame, db, history
<1>32. ASSUME NEW j \in Job, Redrive(j) PROVE TypeOK'
  BY <1>32 DEF TypeOK, Status, CoordPc, Roots, Redrive, Spend, Ops, db, queue, passive, history
<1>33. ASSUME NEW j \in Job, Discard(j) PROVE TypeOK'
  BY <1>33 DEF TypeOK, Status, CoordPc, Roots, Discard, Spend, Ops, db, queue, passive, history
<1>34. ASSUME NEW j \in Job, Cleanup(j) PROVE TypeOK'
  BY <1>34 DEF TypeOK, Status, CoordPc, Roots, Cleanup, Spend, Ops, db, queue, passive, history
<1>35. CASE OrphanAudit
  BY <1>35 DEF TypeOK, Status, CoordPc, Roots, OrphanAudit, Marked, db, queue, passive, history
<1>36. CASE Expire
  BY <1>36 DEF TypeOK, Status, CoordPc, Roots, Expire, Marked, Spend, Ops, db, queue, passive, history
<1>37. CASE LeaseTaken
  BY <1>37 DEF TypeOK, Status, CoordPc, Roots, LeaseTaken, Spend, Ops, db, queue, passive, history
<1>38. CASE LeaseEnds
  BY <1>38 DEF TypeOK, Status, CoordPc, Roots, LeaseEnds, db, queue, passive, history
<1>39. CASE Crash
  <2>1. /\ exec' \in [Slot -> Execution] /\ client' \in [Client -> Call]
        /\ \A s \in Slot : exec'[s].pc = "idle"
        /\ \A c \in Client : client'[c].pc = "idle"
    BY <1>39 DEF Crash, Execution, ExecPc, IdleExec, Call, ClientPc, IdleCall
  <2>2. /\ submit' \in [Roots -> {"open", "done", "lost"}]
        /\ heap' \in [Job -> Nat] /\ blocked' \in [Job -> Nat] /\ tomb' \subseteq Job
        /\ notified' \in BOOLEAN /\ passLease' \in BOOLEAN /\ coord' \in CoordPc
    BY <1>39 DEF Crash, EmptyBag, CoordPc, TypeOK
  <2>3. used' \in [Ops -> Nat]
    BY <1>39 DEF Crash, Spend, Ops, TypeOK
  <2>4. QED
    BY <1>39, <2>1, <2>2, <2>3 DEF TypeOK, Crash, db, history
<1>40. CASE UNCHANGED vars
  BY <1>40 DEF vars, TypeOK
<1>41. QED
  BY <1>1, <1>2, <1>3, <1>4, <1>5, <1>6, <1>7, <1>8, <1>9, <1>10, <1>11, <1>12, <1>13, <1>14, <1>15, <1>16, <1>17, <1>18, <1>19, <1>20, <1>21, <1>22, <1>23, <1>24, <1>25, <1>26, <1>27, <1>28, <1>29, <1>30, <1>31, <1>32, <1>33, <1>34, <1>35, <1>36, <1>37, <1>38, <1>39, <1>40
  DEF Next, SubmitStep, CoordStep, ExecStep, ClientStep, CallOps, JobOps

\* The first state of a process is typed.
LEMMA InitTyped == Init => TypeOK
<1> SUFFICES ASSUME Init PROVE TypeOK
  OBVIOUS
<1>1. exec \in [Slot -> Execution] /\ client \in [Client -> Call]
  BY ChainAssumption DEF Init, Execution, ExecPc, IdleExec, Call, ClientPc, IdleCall
<1>2. QED
  BY <1>1 DEF Init, TypeOK, Status, CoordPc, EmptyBag, IdleExec, IdleCall

\* Every variable keeps its type: a step of the code neither writes a status that
\* is none of AgentJob's nor leaves a permit or a caller with no job to work on.
THEOREM TypeCorrect == Spec => []TypeOK
BY InitTyped, TypeInductive, PTL DEF Spec

-----------------------------------------------------------------------------
(* No wakeup is lost *)

Booting == coord \in {"reset", "audit", "load"}
Awaited(j) == FreeSlots(j) = {} \/ j \in LocalPinned

\* What makes NoLostWakeup inductive: the entries set aside during a pass already
\* wait for something, and there is nothing to wait for outside a pass or a boot.
WakeInv ==
    /\ NoLostWakeup
    /\ coord = "scan" /\ ~notified => \A j \in Job : blocked[j] > 0 => Awaited(j)
    /\ coord # "scan" => blocked = EmptyBag
    /\ Booting => /\ heap = EmptyBag
                  /\ \A s \in Slot : exec[s].pc = "idle"
                  /\ \A c \in Client : client[c].pc = "idle"

\* A step that frees no permit, adds nothing to the heap and lets the coordinator
\* stand, or that stores a notification, loses no wakeup.
LEMMA WakeKept ==
    ASSUME TypeOK, TypeOK', WakeInv, coord' = coord, blocked' = blocked,
           \A s \in Slot : exec[s].pc # "idle" /\ ~notified' => exec'[s].pc # "idle",
           ~notified' => ~notified,
           \A j \in Job : heap'[j] > 0 /\ ~notified' => heap[j] > 0,
           Booting => heap' = heap /\ exec' = exec /\ client' = client
    PROVE  WakeInv'
<1>1. \A j \in Job : ~notified' /\ Awaited(j) => Awaited(j)'
  BY DEF Awaited, FreeSlots
<1>2. NoLostWakeup'
  BY <1>1 DEF WakeInv, NoLostWakeup, Awaited
<1>3. QED
  BY <1>1, <1>2 DEF WakeInv, Booting, EmptyBag

\* The same for a step of one execution.
LEMMA WakeKeptByExecution ==
    ASSUME TypeOK, TypeOK', WakeInv, NEW s \in Slot, exec[s].pc # "idle", Moves(s),
           coord' = coord, blocked' = blocked,
           Release(s) \/ (notified => notified'),
           \A j \in Job : heap'[j] > 0 /\ ~notified' => heap[j] > 0
    PROVE  WakeInv'
<1>1. \A t \in Slot : exec[t].pc # "idle" /\ ~notified' => exec'[t].pc # "idle"
  BY MovesShape DEF Release
<1>2. ~notified' => ~notified
  BY DEF Release
<1>3. ~Booting
  BY DEF WakeInv
<1>4. QED
  BY <1>1, <1>2, <1>3, WakeKept

\* Every step keeps WakeInv: one case per action.
LEMMA WakeInductive == TypeOK /\ TypeOK' /\ WakeInv /\ [Next]_vars => WakeInv'
<1> SUFFICES ASSUME TypeOK, TypeOK', WakeInv, [Next]_vars PROVE WakeInv'
  OBVIOUS
<1>1. ASSUME NEW j \in Job, CreateStep(j) PROVE WakeInv'
  BY <1>1, WakeKept DEF CreateStep, Up, Booting, TypeOK, db, queue, passive, history
<1>2. ASSUME NEW r \in Roots, PushFirst(r) PROVE WakeInv'
  BY <1>2, WakeKept DEF PushFirst, Pushed, Up, Booting, TypeOK, db, queue, passive, history
<1>3. ASSUME NEW r \in Roots, SubmitFails(r) PROVE WakeInv'
  BY <1>3, WakeKept DEF SubmitFails, Up, Booting, TypeOK, db, queue, passive, history
<1>4. CASE Wake
  BY <1>4 DEF Wake, WakeInv, NoLostWakeup, Booting, EmptyBag
<1>5. CASE Poll
  BY <1>5 DEF Poll, WakeInv, NoLostWakeup, Booting, EmptyBag
<1>6. CASE EndPass
  BY <1>6 DEF EndPass, WakeInv, NoLostWakeup, Awaited, FreeSlots, Booting
<1>7. ASSUME NEW j \in Job, Pop(j) PROVE WakeInv'
  <2>1. coord = "scan" /\ coord' = "scan" /\ notified' = notified
    BY <1>7 DEF Pop
  <2>2. ASSUME ~notified, NEW k \in Job, blocked'[k] > 0 PROVE Awaited(k)'
    <3>1. CASE SetAside(j)
      <4>1. Awaited(j)
        BY <3>1 DEF SetAside, Deferred, Awaited
      <4>2. Awaited(k)
        BY <2>1, <2>2, <3>1, <4>1 DEF SetAside, WakeInv, TypeOK
      <4>3. QED
        BY <3>1, <4>2 DEF SetAside, Awaited, FreeSlots
    <3>2. CASE DropTombstoned(j)
      BY <2>1, <2>2, <3>2 DEF DropTombstoned, WakeInv, Awaited, FreeSlots
    <3>3. CASE Dispatch(j)
      <4>1. Awaited(k)
        BY <2>1, <2>2, <3>3 DEF Dispatch, WakeInv
      <4>2. \A s \in Slot : exec'[s].pc = "idle" => exec[s].pc = "idle"
        BY <3>3 DEF Dispatch, FreeSlots, TypeOK
      <4>3. QED
        BY <4>1, <4>2 DEF Awaited, FreeSlots
    <3>4. QED
      BY <1>7, <3>1, <3>2, <3>3 DEF Pop
  <2>3. QED
    BY <2>1, <2>2 DEF WakeInv, NoLostWakeup, Booting
<1>8. CASE RecoverRunning
  BY <1>8 DEF RecoverRunning, WakeInv, NoLostWakeup, Booting, queue
<1>9. CASE RecoverOrphans
  BY <1>9 DEF RecoverOrphans, WakeInv, NoLostWakeup, Booting, queue
<1>10. CASE RecoverHeap
  <2>1. heap = EmptyBag /\ blocked = EmptyBag
    BY <1>10 DEF RecoverHeap, WakeInv, Booting
  <2>2. ASSUME ~notified', NEW j \in Job PROVE heap'[j] = 0
    BY <1>10, <2>1, <2>2 DEF RecoverHeap, Pushed, EmptyBag
  <2>3. coord' = "idle" /\ blocked' = blocked
    BY <1>10 DEF RecoverHeap
  <2>4. QED
    BY <2>1, <2>2, <2>3 DEF WakeInv, NoLostWakeup, Booting
<1>11. ASSUME NEW s \in Slot, ExecStep(s) \/ CallFails(s) PROVE WakeInv'
  <2>1. exec[s].pc # "idle" /\ Moves(s)
    BY <1>11, ExecutionMoves
  <2>2. coord' = coord /\ blocked' = blocked
    BY <1>11 DEF ExecStep, Start, ToolReturns, Complete, Failed, Requeue, Dead, Unpark, PushKids,
                 Skip, CancelGeneration, CallFails, ExecFrame
  <2>3. Release(s) \/ (notified => notified')
    BY <1>11 DEF ExecStep, Start, ToolReturns, Complete, Failed, Requeue, Dead, Unpark, PushKids,
                 Skip, CancelGeneration, CallFails
  <2>4. \A j \in Job : heap'[j] > 0 /\ ~notified' => heap[j] > 0
    <3>1. CASE PushKids(s)
      BY <3>1 DEF PushKids, Pushed, Release
    <3>2. CASE ~PushKids(s)
      BY <1>11, <3>2 DEF ExecStep, Start, ToolReturns, Complete, Failed, Requeue, Dead, Unpark,
                         Skip, CancelGeneration, CallFails, db
    <3>3. QED
      BY <3>1, <3>2
  <2>5. QED
    BY <2>1, <2>2, <2>3, <2>4, WakeKeptByExecution
<1>12. ASSUME NEW c \in Client, DoCancel(c) PROVE WakeInv'
  BY <1>12, WakeKept DEF DoCancel, CallFrame, Booting, WakeInv, Up, TypeOK, db, queue, passive, history
<1>13. ASSUME NEW c \in Client, ClientCancelGeneration(c) PROVE WakeInv'
  BY <1>13, WakeKept DEF ClientCancelGeneration, CallFrame, Booting, WakeInv, Up, TypeOK, db, queue, passive, history
<1>14. ASSUME NEW c \in Client, Tombstone(c) PROVE WakeInv'
  BY <1>14, WakeKept DEF Tombstone, CallFrame, Booting, WakeInv, Up, TypeOK, db, queue, passive, history
<1>15. ASSUME NEW c \in Client, DoRetry(c) PROVE WakeInv'
  BY <1>15, WakeKept DEF DoRetry, CallFrame, Booting, WakeInv, Up, TypeOK, db, queue, passive, history
<1>16. ASSUME NEW c \in Client, Untomb(c) PROVE WakeInv'
  BY <1>16, WakeKept DEF Untomb, CallFrame, Booting, WakeInv, Up, TypeOK, db, queue, passive, history
<1>17. ASSUME NEW c \in Client, Repush(c) PROVE WakeInv'
  BY <1>17, WakeKept DEF Repush, Pushed, CallFrame, Booting, WakeInv, Up, TypeOK, db, queue, passive, history
<1>18. ASSUME NEW c \in Client, DrainQueued(c) PROVE WakeInv'
  BY <1>18, WakeKept DEF DrainQueued, CallFrame, Booting, WakeInv, Up, TypeOK, db, queue, passive, history
<1>19. ASSUME NEW c \in Client, BeginDrain(c) PROVE WakeInv'
  BY <1>19, WakeKept DEF BeginDrain, EmptyBag, CallFrame, Booting, WakeInv, Up, TypeOK, db, queue, passive, history
<1>20. ASSUME NEW c \in Client, NEW j \in Job, BeginCancel(c, j) PROVE WakeInv'
  BY <1>20, WakeKept DEF BeginCancel, CallFrame, Booting, WakeInv, Up, TypeOK, db, queue, passive, history
<1>21. ASSUME NEW c \in Client, NEW j \in Job, BeginRetry(c, j) PROVE WakeInv'
  BY <1>21, WakeKept DEF BeginRetry, CallFrame, Booting, WakeInv, Up, TypeOK, db, queue, passive, history
<1>22. ASSUME NEW j \in Job, Redrive(j) PROVE WakeInv'
  BY <1>22, WakeKept DEF Redrive, Up, Booting, TypeOK, db, queue, passive, history
<1>23. ASSUME NEW j \in Job, Discard(j) PROVE WakeInv'
  BY <1>23, WakeKept DEF Discard, Up, Booting, TypeOK, db, queue, passive, history
<1>24. ASSUME NEW j \in Job, Cleanup(j) PROVE WakeInv'
  BY <1>24, WakeKept DEF Cleanup, Up, Booting, TypeOK, db, queue, passive, history
<1>25. CASE OrphanAudit
  BY <1>25, WakeKept DEF OrphanAudit, Up, Booting, TypeOK, db, queue, passive, history
<1>26. CASE Expire
  BY <1>26, WakeKept DEF Expire, Up, Booting, TypeOK, db, queue, passive, history
<1>27. CASE LeaseTaken
  BY <1>27, WakeKept DEF LeaseTaken, Up, Booting, TypeOK, db, queue, passive, history
<1>28. CASE LeaseEnds
  BY <1>28, WakeKept DEF LeaseEnds, Up, Booting, TypeOK, db, queue, passive, history
<1>29. CASE Crash
  BY <1>29 DEF Crash, WakeInv, NoLostWakeup, Booting, IdleExec, IdleCall
<1>30. CASE UNCHANGED vars
  BY <1>30 DEF vars, WakeInv, NoLostWakeup, Awaited, FreeSlots, Booting
<1>31. QED
  BY <1>1, <1>2, <1>3, <1>4, <1>5, <1>6, <1>7, <1>8, <1>9, <1>10, <1>11, <1>12, <1>13, <1>14, <1>15, <1>16, <1>17, <1>18, <1>19, <1>20, <1>21, <1>22, <1>23, <1>24, <1>25, <1>26, <1>27, <1>28, <1>29, <1>30
  DEF Next, SubmitStep, CoordStep, ClientStep, CallOps, JobOps

\* The coordinator never sleeps over an entry it could dispatch: whoever frees a permit
\* or adds to the heap notifies it afterwards, and the notification is kept until it waits.
THEOREM NoLostWakeupHolds == Spec => []NoLostWakeup
<1>1. Init => TypeOK /\ WakeInv
  BY InitTyped DEF Init, WakeInv, NoLostWakeup, Booting, EmptyBag
<1>2. WakeInv => NoLostWakeup
  BY DEF WakeInv
<1>3. QED
  BY <1>1, <1>2, TypeInductive, WakeInductive, PTL DEF Spec
=============================================================================
