------------------------- MODULE JobQueueLifeProofs -------------------------
(***************************************************************************)
(* What happens to one job, for every value of the constants but one: no   *)
(* operator retries a job (Budget["retry"] = 0), whose write is guarded on *)
(* nothing.  With the invariants of one job, every step of the queue maps  *)
(* to a move of JobLife.                                                   *)
(***************************************************************************)
EXTENDS JobQueueProofs

Passed(p) == p \in completedOnce \/ p \in Optional \cap begun
Retrying == {"retry", "untomb", "repush"}

\* No node, no attempts and no run before the create call.
Unborn == \A j \in Job \ created : status[j] = "none" /\ attempts[j] = 0 /\ j \notin begun

\* An execution's job has begun and nobody but an operator, a TTL or the retention
\* has touched it since.
Executing ==
    /\ \A s \in Slot : Active(s) => /\ exec[s].job \in begun
                                    /\ status[exec[s].job] \in {"running", "cancelled", "none"}
    /\ \A s \in Slot : exec[s].pc = "requeue" => ~Exhausted(exec[s].job)
    /\ \A s \in Slot : exec[s].pc = "unpark" => Passed(exec[s].job)
    /\ Booting => \A s \in Slot : exec[s].pc = "idle"

NobodyRetries == \A c \in Client : client[c].pc \notin Retrying

\* What a queued or parked job still has to spend, and what a later status tells.
Waiting ==
    /\ \A j \in Job : status[j] = "parked" => attempts[j] = 0
    /\ \A j \in Job : status[j] = "queued" => attempts[j] < Cap(j)
    /\ \A j \in Job : status[j] \in {"running", "completed", "dead_letter"} => j \in begun
    /\ \A j \in Job : status[j] = "queued" /\ Parent[j] # NoJob => Passed(Parent[j])

LifeInv == Unborn /\ Executing /\ NobodyRetries /\ Waiting /\ NoDoubleRun /\ AttemptCap /\ ChainOrder

\* A step that only cancels or deletes nodes, and moves executions only to where
\* they no longer write their own job as a run's outcome, keeps all of it.
LEMMA LifeKept ==
    ASSUME TypeOK, TypeOK', LifeInv, NobodyRetries',
           attempts' = attempts, created' = created, begun' = begun,
           completedOnce' = completedOnce,
           \A j \in Job : \/ status'[j] = status[j]
                          \/ status[j] # "none" /\ status'[j] \in {"cancelled", "none"},
           \A s \in Slot : \/ exec'[s] = exec[s]
                           \/ exec'[s].pc \in {"idle", "start", "push", "skip", "cascade"},
           Booting' => (Booting /\ exec' = exec) \/ \A s \in Slot : exec'[s].pc = "idle"
    PROVE  LifeInv'
<1>1. Unborn'
  BY DEF LifeInv, Unborn
<1>2. \A s \in Slot : Active(s)' => exec'[s] = exec[s] /\ Active(s)
  BY DEF Active
<1>3. Executing'
  <2>1. \A s \in Slot : Active(s)' => /\ exec'[s].job \in begun
                                      /\ status'[exec'[s].job] \in {"running", "cancelled", "none"}
    BY <1>2 DEF LifeInv, Executing, TypeOK, Active
  <2>2. \A s \in Slot : exec'[s].pc = "requeue" => ~Exhausted(exec'[s].job)
    BY DEF LifeInv, Executing
  <2>3. \A s \in Slot : exec'[s].pc = "unpark" => Passed(exec'[s].job)
    BY DEF LifeInv, Executing
  <2>4. Booting' => \A s \in Slot : exec'[s].pc = "idle"
    BY DEF LifeInv, Executing
  <2>5. QED
    BY <2>1, <2>2, <2>3, <2>4 DEF Executing, Exhausted, Passed
<1>4. Waiting'
  BY DEF LifeInv, Waiting, Passed, Cap
<1>5. NoDoubleRun'
  BY <1>2 DEF LifeInv, NoDoubleRun
<1>6. AttemptCap' /\ ChainOrder'
  BY DEF LifeInv, AttemptCap, ChainOrder, Cap
<1>7. QED
  BY <1>1, <1>3, <1>4, <1>5, <1>6 DEF LifeInv

\* Without retries no caller ever gets to a retry's calls.
LEMMA CallersDoNotRetry ==
    ASSUME TypeOK, NobodyRetries, Budget["retry"] = 0, NEW c \in Client, CallOps(c)
    PROVE  NobodyRetries'
<1>1. ASSUME NEW pc \in ClientPc \ Retrying, NEW j, NEW todo, At(c, pc, j, todo)
      PROVE  NobodyRetries'
  BY <1>1 DEF At, NobodyRetries, TypeOK
<1>2. CASE Done(c)
  BY <1>2 DEF Done, IdleCall, NobodyRetries, Retrying, TypeOK
<1>3. client[c].pc \notin Retrying
  BY DEF NobodyRetries
<1>4. CASE DoCancel(c)
  BY <1>1, <1>4 DEF DoCancel, ClientPc, Retrying
<1>5. CASE ClientCancelGeneration(c)
  BY <1>1, <1>2, <1>5 DEF ClientCancelGeneration, ClientPc, Retrying
<1>6. CASE Tombstone(c)
  BY <1>2, <1>6 DEF Tombstone
<1>7. CASE DoRetry(c) \/ Untomb(c) \/ Repush(c)
  BY <1>3, <1>7 DEF DoRetry, Untomb, Repush, Retrying
<1>8. CASE DrainQueued(c)
  BY <1>1, <1>2, <1>8 DEF DrainQueued, ClientPc, Retrying
<1>9. CASE BeginDrain(c)
  BY <1>1, <1>9 DEF BeginDrain, ClientPc, Retrying
<1>10. ASSUME NEW j \in Job, BeginCancel(c, j) PROVE NobodyRetries'
  BY <1>1, <1>10 DEF BeginCancel, ClientPc, Retrying
<1>11. ASSUME NEW j \in Job, BeginRetry(c, j) PROVE NobodyRetries'
  BY <1>11 DEF BeginRetry, Spend, Ops, TypeOK
<1>12. QED
  BY <1>4, <1>5, <1>6, <1>7, <1>8, <1>9, <1>10, <1>11 DEF CallOps, ClientStep

\* Where a step of an execution leaves it.
LEMMA GotoGives ==
    ASSUME TypeOK, NEW s \in Slot, NEW pc \in ExecPc, NEW todo, Goto(s, pc, todo)
    PROVE  /\ exec'[s].pc = pc /\ exec'[s].job = exec[s].job
           /\ \A t \in Slot : t # s => exec'[t] = exec[t]
BY DEF Goto, TypeOK

\* An execution that gives its permit back is idle, and no other moves.
LEMMA ReleaseGives ==
    ASSUME TypeOK, NEW s \in Slot, Release(s)
    PROVE  /\ exec'[s].pc = "idle"
           /\ \A t \in Slot : t # s => exec'[t] = exec[t]
BY DEF Release, IdleExec, TypeOK

\* The steps of an execution after which its job is no longer its to decide.
LEMMA LifeKeptByExecution ==
    ASSUME TypeOK, TypeOK', LifeInv, NEW s \in Slot, exec[s].pc # "idle",
           attempts' = attempts, completedOnce' = completedOnce, begun' = begun, ExecFrame,
           \A j \in Job : \/ status'[j] = status[j]
                          \/ status[j] # "none" /\ status'[j] \in {"cancelled", "none"},
           Release(s) \/ \E pc \in {"skip", "cascade", "push"}, todo \in SUBSET Job : Goto(s, pc, todo)
    PROVE  LifeInv'
<1>1. \A t \in Slot : \/ exec'[t] = exec[t]
                      \/ exec'[t].pc \in {"idle", "start", "push", "skip", "cascade"}
  BY GotoGives, ReleaseGives DEF ExecPc
<1>2. ~Booting'
  BY DEF LifeInv, Executing, Booting, ExecFrame
<1>3. QED
  BY <1>1, <1>2, LifeKept DEF ExecFrame, LifeInv, NobodyRetries

\* The remaining steps, each on its own: a creation,
LEMMA LifeCreateStep ==
    ASSUME TypeOK, TypeOK', LifeInv, NEW j \in Job, CreateStep(j)
    PROVE  LifeInv'
<1> USE ChainAssumption, ParamAssumption
<1>1. /\ status[j] = "none" /\ attempts[j] = 0 /\ j \notin begun
      /\ exec' = exec /\ client' = client /\ begun' = begun /\ completedOnce' = completedOnce
      /\ attempts' = attempts /\ coord' = coord /\ created' = created \cup {j}
      /\ status'[j] = IF Parent[j] = NoJob THEN "queued" ELSE "parked"
      /\ \A k \in Job : k # j => status'[k] = status[k]
  BY DEF CreateStep, LifeInv, Unborn, TypeOK, passive, history
<1>2. Unborn' /\ NobodyRetries' /\ NoDoubleRun' /\ AttemptCap' /\ ChainOrder'
  BY <1>1 DEF LifeInv, Unborn, NobodyRetries, NoDoubleRun, Active, AttemptCap, Cap, ChainOrder
<1>3. Executing'
  BY <1>1 DEF LifeInv, Executing, Active, Exhausted, Passed, Booting, TypeOK
<1>4. Waiting'
  BY <1>1 DEF LifeInv, Waiting, Passed, Cap, TypeOK
<1>5. QED
  BY <1>2, <1>3, <1>4 DEF LifeInv

\* a start: the job was queued, so that no execution of it is under way, it has an
\* attempt left, and its predecessor has had its turn;
LEMMA LifeStart ==
    ASSUME TypeOK, TypeOK', LifeInv, NEW s \in Slot, Start(s)
    PROVE  LifeInv'
<1> USE ChainAssumption, ParamAssumption
<1> DEFINE j == exec[s].job
<1>1. CASE Release(s)
  <2>1. status[j] # "queued"
    BY <1>1, ReleaseGives, GotoGives DEF Start, Matching, ExecPc, TypeOK
  <2>2. QED
    BY <1>1, <2>1, LifeKeptByExecution DEF Start, Matching, ExecFrame, db, TypeOK
<1>2. CASE ~Release(s)
  <2>1. /\ status[j] = "queued" /\ j \in Job /\ Goto(s, "tool", {})
        /\ status' = [status EXCEPT ![j] = "running"]
        /\ attempts' = [attempts EXCEPT ![j] = @ + 1]
        /\ begun' = begun \cup {j} /\ completedOnce' = completedOnce /\ created' = created
        /\ client' = client /\ coord' = coord /\ ~Booting
    BY <1>2 DEF Start, Matching, ExecFrame, TypeOK, LifeInv, Executing
  <2>2. /\ exec'[s].pc = "tool" /\ exec'[s].job = j
        /\ \A t \in Slot : t # s => exec'[t] = exec[t]
    BY <2>1, GotoGives DEF ExecPc
  <2>3. \A t \in Slot : Active(t) => exec[t].job # j
    BY <2>1 DEF LifeInv, Executing
  <2>4. Unborn' /\ NobodyRetries'
    BY <2>1 DEF LifeInv, Unborn, NobodyRetries, TypeOK
  <2>5. NoDoubleRun'
    BY <2>2, <2>3 DEF LifeInv, NoDoubleRun, Active
  <2>6. AttemptCap'
    BY <2>1 DEF LifeInv, Waiting, AttemptCap, Cap, TypeOK
  <2>7. Waiting'
    BY <2>1 DEF LifeInv, Waiting, Passed, Cap, TypeOK
  <2>8. ChainOrder'
    BY <2>1 DEF LifeInv, Waiting, Passed, ChainOrder
  <2>9. Executing'
    <3>1. status'[j] = "running" /\ \A i \in Job : i # j => status'[i] = status[i]
      BY <2>1 DEF TypeOK
    <3>2. \A i \in Job : i # j => attempts'[i] = attempts[i]
      BY <2>1 DEF TypeOK
    <3>3. \A t \in Slot : Active(t)' => /\ exec'[t].job \in begun'
                                        /\ status'[exec'[t].job] \in {"running", "cancelled", "none"}
      BY <2>1, <2>2, <2>3, <3>1 DEF LifeInv, Executing, Active, TypeOK
    <3>4. \A t \in Slot : exec'[t].pc = "requeue" => ~Exhausted(exec[t].job)'
      BY <2>1, <2>2, <2>3, <3>2 DEF LifeInv, Executing, Active, Exhausted, TypeOK
    <3>5. \A t \in Slot : exec'[t].pc = "unpark" => Passed(exec[t].job)'
      BY <2>1, <2>2, <2>3, <3>1 DEF LifeInv, Executing, Active, Passed, TypeOK
    <3>6. ~Booting'
      BY <2>1 DEF Booting
    <3>7. QED
      BY <3>3, <3>4, <3>5, <3>6 DEF Executing
  <2>10. QED
    BY <2>4, <2>5, <2>6, <2>7, <2>8, <2>9 DEF LifeInv
<1>3. QED
  BY <1>1, <1>2

\* a step of the execution that writes no node;
LEMMA LifeWritesNothing ==
    ASSUME TypeOK, TypeOK', LifeInv, NEW s \in Slot, Active(s),
           exec'[s].pc \in {"complete", "failed", "requeue", "dead", "unpark"},
           exec'[s].job = exec[s].job, \A t \in Slot : t # s => exec'[t] = exec[t],
           exec'[s].pc = "requeue" => ~Exhausted(exec[s].job),
           exec'[s].pc = "unpark" => exec[s].job \in Optional,
           UNCHANGED <<db, history>>, ExecFrame
    PROVE  LifeInv'
<1>1. ~Booting' /\ exec[s].job \in begun
  BY DEF LifeInv, Executing, Booting, ExecFrame, Active
<1>2. Executing'
  BY <1>1 DEF LifeInv, Executing, Active, Exhausted, Passed, db, history, TypeOK
<1>3. NoDoubleRun'
  BY DEF LifeInv, NoDoubleRun, Active
<1>4. Unborn' /\ NobodyRetries' /\ Waiting' /\ AttemptCap' /\ ChainOrder'
  BY DEF LifeInv, Unborn, NobodyRetries, Waiting, Passed, AttemptCap, Cap, ChainOrder, db,
         history, ExecFrame
<1>5. QED
  BY <1>2, <1>3, <1>4 DEF LifeInv

\* a step that writes the outcome of the run, which is then over;
LEMMA LifeWritesOutcome ==
    ASSUME TypeOK, TypeOK', LifeInv, NEW s \in Slot, Active(s),
           status[exec[s].job] = "running",
           \A k \in Job : k # exec[s].job => status'[k] = status[k],
           attempts' = attempts, begun' = begun,
           completedOnce \subseteq completedOnce', ExecFrame,
           exec'[s].pc \in {"idle", "unpark", "cascade"},
           exec'[s].pc # "idle" => exec'[s].job = exec[s].job,
           \A t \in Slot : t # s => exec'[t] = exec[t],
           \/ status'[exec[s].job] \in {"completed", "dead_letter"}
           \/ status'[exec[s].job] = "queued" /\ ~Exhausted(exec[s].job),
           exec'[s].pc = "unpark" => exec[s].job \in completedOnce' \/ exec[s].job \in Optional
    PROVE  LifeInv'
<1> USE ChainAssumption, ParamAssumption
<1> DEFINE j == exec[s].job
<1> DEFINE to == status'[j]
<1>1. j \in Job /\ j \in begun /\ ~Booting'
  BY DEF LifeInv, Executing, Active, TypeOK, Booting, ExecFrame
<1>2. \A t \in Slot : t # s /\ Active(t) => exec[t].job # j
  BY DEF LifeInv, NoDoubleRun
<1>3. \A p \in Job : Passed(p) => Passed(p)'
  BY DEF Passed
<1>4. Executing'
  <2>1. \A t \in Slot : Active(t)' => t # s /\ Active(t) /\ exec'[t] = exec[t]
    BY DEF Active
  <2>2. \A t \in Slot : exec'[t].pc = "requeue" => exec'[t] = exec[t]
    OBVIOUS
  <2>3. \A t \in Slot : exec'[t].pc = "unpark" => Passed(exec[t].job)'
    <3>1. ASSUME NEW t \in Slot, t # s, exec'[t].pc = "unpark" PROVE Passed(exec[t].job)'
      <4>1. Passed(exec[t].job) /\ exec'[t] = exec[t]
        BY <3>1 DEF LifeInv, Executing
      <4>2. QED
        BY <4>1 DEF Passed
    <3>2. exec'[s].pc = "unpark" => Passed(exec[s].job)'
      BY <1>1 DEF Passed
    <3>3. QED
      BY <3>1, <3>2
  <2>4. \A t \in Slot : Active(t)' => /\ exec'[t].job \in begun'
                                     /\ status'[exec'[t].job] \in {"running", "cancelled", "none"}
    BY <1>2, <2>1 DEF LifeInv, Executing, TypeOK, Active
  <2>5. \A t \in Slot : exec'[t].pc = "requeue" => ~Exhausted(exec[t].job)'
    BY <2>2 DEF LifeInv, Executing, Exhausted
  <2>6. QED
    BY <1>1, <2>3, <2>4, <2>5 DEF Executing
<1>5. NoDoubleRun'
  BY DEF LifeInv, NoDoubleRun, Active
<1>6. Waiting'
  <2>1. Parent[j] # NoJob => Passed(Parent[j])
    BY <1>1 DEF LifeInv, ChainOrder, Passed
  <2>2. attempts[j] \in Nat /\ MaxAttempts[j] \in Nat
    BY <1>1 DEF TypeOK
  <2>3. to = "queued" => attempts[j] < Cap(j)
    BY <2>2 DEF Exhausted, Cap
  <2>4. \A k \in Job : status'[k] = IF k = j THEN to ELSE status[k]
    BY DEF TypeOK
  <2>5. to # "parked" /\ to # "running" /\ (to = "completed" \/ to = "dead_letter" => j \in begun)
    BY <1>1
  <2>6. \A k \in Job : status'[k] = "queued" /\ Parent[k] # NoJob => Passed(Parent[k])'
    BY <1>3, <2>1, <2>4 DEF LifeInv, Waiting
  <2>7. QED
    BY <1>1, <2>3, <2>4, <2>5, <2>6 DEF LifeInv, Waiting, Cap
<1>7. Unborn' /\ NobodyRetries' /\ AttemptCap' /\ ChainOrder'
  BY <1>1 DEF LifeInv, Unborn, NobodyRetries, AttemptCap, Cap, ChainOrder, ExecFrame, TypeOK
<1>8. QED
  BY <1>4, <1>5, <1>6, <1>7 DEF LifeInv

\* the promotion of the parked children of a step that has had its turn;
LEMMA LifeUnpark ==
    ASSUME TypeOK, TypeOK', LifeInv, NEW s \in Slot, Unpark(s)
    PROVE  LifeInv'
<1> USE ChainAssumption, ParamAssumption
<1> DEFINE kids == ParkedChildren({exec[s].job})
<1>1. /\ exec[s].pc = "unpark" /\ exec[s].job \in Job /\ Goto(s, "push", kids)
      /\ attempts' = attempts /\ begun' = begun /\ completedOnce' = completedOnce
      /\ created' = created /\ client' = client /\ coord' = coord /\ ~Booting
  BY DEF Unpark, ExecFrame, history, TypeOK, LifeInv, Executing
<1>2. \A k \in Job : \/ status'[k] = status[k]
                     \/ /\ status[k] = "parked" /\ status'[k] = "queued"
                        /\ Parent[k] = exec[s].job
  BY DEF Unpark, Marked, ParkedChildren, TypeOK
<1>3. Passed(exec[s].job) /\ exec'[s].pc = "push" /\ \A t \in Slot : t # s => exec'[t] = exec[t]
  BY <1>1, GotoGives DEF LifeInv, Executing, ExecPc
<1>4. \A t \in Slot : Active(t)' => Active(t) /\ exec'[t] = exec[t]
  BY <1>3 DEF Active
<1>5. Executing'
  <2>1. \A t \in Slot : Active(t)' => /\ exec'[t].job \in begun'
                                      /\ status'[exec'[t].job] \in {"running", "cancelled", "none"}
    BY <1>1, <1>2, <1>4 DEF LifeInv, Executing, TypeOK, Active
  <2>2. QED
    BY <1>1, <1>3, <2>1 DEF LifeInv, Executing, Exhausted, Passed, Booting
<1>6. Waiting'
  <2>1. \A k \in Job : status[k] = "parked" => attempts[k] < Cap(k)
    BY DEF LifeInv, Waiting, Cap, TypeOK
  <2>2. QED
    BY <1>1, <1>2, <1>3, <2>1 DEF LifeInv, Waiting, Passed, Cap
<1>7. NoDoubleRun'
  BY <1>4 DEF LifeInv, NoDoubleRun
<1>8. Unborn' /\ NobodyRetries' /\ AttemptCap' /\ ChainOrder'
  BY <1>1, <1>2 DEF LifeInv, Unborn, NobodyRetries, AttemptCap, Cap, ChainOrder
<1>9. QED
  BY <1>5, <1>6, <1>7, <1>8 DEF LifeInv

\* a dead letter put back: it has begun, so that its predecessor had its turn;
LEMMA LifeRedrive ==
    ASSUME TypeOK, TypeOK', LifeInv, NEW j \in Job, Redrive(j)
    PROVE  LifeInv'
<1> USE ChainAssumption, ParamAssumption
<1>1. /\ status[j] = "dead_letter" /\ j \in begun
      /\ status' = [status EXCEPT ![j] = "queued"] /\ attempts' = [attempts EXCEPT ![j] = 0]
      /\ UNCHANGED <<begun, completedOnce, created, client, coord, exec>> /\ ~Booting
  BY DEF Redrive, Up, Booting, history, LifeInv, Waiting
<1>2. \A t \in Slot : Active(t) => exec[t].job # j
  BY <1>1 DEF LifeInv, Executing
<1>3. Executing'
  BY <1>1, <1>2 DEF LifeInv, Executing, Active, Exhausted, Passed, Booting, TypeOK
<1>4. Waiting'
  BY <1>1 DEF LifeInv, Waiting, ChainOrder, Passed, Cap, TypeOK
<1>5. Unborn' /\ NobodyRetries' /\ NoDoubleRun' /\ AttemptCap' /\ ChainOrder'
  BY <1>1 DEF LifeInv, Unborn, NobodyRetries, NoDoubleRun, Active, AttemptCap, Cap, ChainOrder, TypeOK
<1>6. QED
  BY <1>3, <1>4, <1>5 DEF LifeInv

\* and recovery, when no execution is left.
LEMMA LifeRecoverRunning ==
    ASSUME TypeOK, TypeOK', LifeInv, RecoverRunning
    PROVE  LifeInv'
<1> USE ChainAssumption, ParamAssumption
<1>1. /\ UNCHANGED <<attempts, begun, completedOnce, created, client, exec>>
      /\ \A s \in Slot : exec[s].pc = "idle"
  BY DEF RecoverRunning, passive, history, LifeInv, Executing, Booting
<1>2. \A j \in Job : \/ status'[j] = status[j]
                     \/ status[j] = "running" /\ status'[j] = "dead"
                     \/ status[j] = "running" /\ status'[j] = "queued" /\ ~Exhausted(j)
  BY DEF RecoverRunning, Recovered, TypeOK
<1>3. Executing' /\ NoDoubleRun'
  BY <1>1 DEF Executing, NoDoubleRun, Active
<1>4. \A j \in Job : ~Exhausted(j) => attempts[j] < Cap(j)
  BY DEF Exhausted, Cap, TypeOK
<1>5. Waiting'
  BY <1>1, <1>2, <1>4 DEF LifeInv, Waiting, ChainOrder, Passed, Cap
<1>6. Unborn' /\ NobodyRetries' /\ AttemptCap' /\ ChainOrder'
  BY <1>1, <1>2 DEF LifeInv, Unborn, NobodyRetries, AttemptCap, Cap, ChainOrder
<1>7. QED
  BY <1>3, <1>5, <1>6 DEF LifeInv

\* Every step keeps LifeInv, as long as nobody retries: one case per action.
LEMMA LifeInductive ==
    ASSUME Budget["retry"] = 0
    PROVE  TypeOK /\ TypeOK' /\ LifeInv /\ [Next]_vars => LifeInv'
<1> SUFFICES ASSUME TypeOK, TypeOK', LifeInv, [Next]_vars PROVE LifeInv'
  OBVIOUS
<1> USE ChainAssumption, ParamAssumption
<1>1. ASSUME NEW j \in Job, CreateStep(j) PROVE LifeInv'
  BY <1>1, LifeCreateStep
<1>2. ASSUME NEW r \in Roots, PushFirst(r) PROVE LifeInv'
  BY <1>2, LifeKept DEF PushFirst, LifeInv, NobodyRetries, Booting, TypeOK, db, queue, passive, history
<1>3. ASSUME NEW r \in Roots, SubmitFails(r) PROVE LifeInv'
  BY <1>3, LifeKept DEF SubmitFails, LifeInv, NobodyRetries, Booting, TypeOK, db, queue, passive, history
<1>4. CASE Wake
  BY <1>4, LifeKept DEF Wake, LifeInv, NobodyRetries, Booting, TypeOK, db, queue, passive, history
<1>5. CASE Poll
  BY <1>5, LifeKept DEF Poll, QueuedJobs, LifeInv, NobodyRetries, Booting, TypeOK, db, queue, passive, history
<1>6. CASE EndPass
  BY <1>6, LifeKept DEF EndPass, LifeInv, NobodyRetries, Booting, TypeOK, db, queue, passive, history
<1>7. ASSUME NEW j \in Job, Pop(j) PROVE LifeInv'
  BY <1>7, LifeKept DEF Pop, DropTombstoned, SetAside, Dispatch, FreeSlots, LifeInv, NobodyRetries, Booting, TypeOK, db, queue, passive, history
<1>8. CASE RecoverRunning
  BY <1>8, LifeRecoverRunning
<1>9. CASE RecoverOrphans
  BY <1>9, LifeKept DEF RecoverOrphans, Marked, Orphans, LifeInv, NobodyRetries, Booting, TypeOK, db, queue, passive, history
<1>10. CASE RecoverHeap
  BY <1>10, LifeKept DEF RecoverHeap, QueuedJobs, LifeInv, NobodyRetries, Booting, TypeOK, db, queue, passive, history
<1>11. ASSUME NEW j \in Job, Redrive(j) PROVE LifeInv'
  BY <1>11, LifeRedrive
<1>12. ASSUME NEW j \in Job, Discard(j) PROVE LifeInv'
  BY <1>12, LifeKept DEF Discard, LifeInv, NobodyRetries, Booting, TypeOK, db, queue, passive, history
<1>13. ASSUME NEW j \in Job, Cleanup(j) PROVE LifeInv'
  BY <1>13, LifeKept DEF Cleanup, LifeInv, NobodyRetries, Booting, TypeOK, db, queue, passive, history
<1>14. CASE OrphanAudit
  BY <1>14, LifeKept DEF OrphanAudit, Marked, Orphans, LifeInv, NobodyRetries, Booting, TypeOK, db, queue, passive, history
<1>15. CASE Expire
  BY <1>15, LifeKept DEF Expire, Marked, LifeInv, NobodyRetries, Booting, TypeOK, db, queue, passive, history
<1>16. CASE LeaseTaken
  BY <1>16, LifeKept DEF LeaseTaken, LifeInv, NobodyRetries, Booting, TypeOK, db, queue, passive, history
<1>17. CASE LeaseEnds
  BY <1>17, LifeKept DEF LeaseEnds, LifeInv, NobodyRetries, Booting, TypeOK, db, queue, passive, history
<1>18. CASE Crash
  BY <1>18, LifeKept DEF Crash, IdleExec, IdleCall, Execution, ExecPc, Call, ClientPc, IdleExec, IdleCall, Retrying, LifeInv, NobodyRetries, Booting, TypeOK, db, queue, passive, history
<1>19. ASSUME NEW s \in Slot, Start(s) PROVE LifeInv'
  BY <1>19, LifeStart
<1>20. ASSUME NEW s \in Slot, ToolReturns(s) PROVE LifeInv'
  <2>1. exec[s].pc = "tool" /\ Active(s)
    BY <1>20 DEF ToolReturns, Active
  <2>2. /\ exec'[s].pc \in {"complete", "failed", "unpark", "dead"}
        /\ exec'[s].job = exec[s].job /\ \A t \in Slot : t # s => exec'[t] = exec[t]
        /\ exec'[s].pc = "unpark" => exec[s].job \in Optional
    BY <1>20, GotoGives DEF ToolReturns, ExecPc, TypeOK
  <2>3. QED
    BY <1>20, <2>1, <2>2, LifeWritesNothing DEF ToolReturns
<1>21. ASSUME NEW s \in Slot, Failed(s) PROVE LifeInv'
  <2>1. exec[s].pc = "failed" /\ Active(s)
    BY <1>21 DEF Failed, Active
  <2>2. /\ exec'[s].pc = IF Exhausted(exec[s].job) THEN "dead" ELSE "requeue"
        /\ exec'[s].job = exec[s].job /\ \A t \in Slot : t # s => exec'[t] = exec[t]
    BY <1>21, GotoGives DEF Failed, ExecPc
  <2>3. QED
    BY <1>21, <2>1, <2>2, LifeWritesNothing DEF Failed
<1>22. ASSUME NEW s \in Slot, Complete(s) PROVE LifeInv'
  <2>1. Active(s) /\ exec[s].job \in Job
    BY <1>22 DEF Complete, Active, TypeOK
  <2>2. CASE status[exec[s].job] = "running"
    <3>1. /\ exec'[s].pc \in {"unpark", "cascade", "idle"}
          /\ exec'[s].pc # "idle" => exec'[s].job = exec[s].job
          /\ \A t \in Slot : t # s => exec'[t] = exec[t]
      BY <1>22, <2>1, <2>2, GotoGives, ReleaseGives DEF Complete, Matching, ExecPc
    <3>2. /\ \A k \in Job : k # exec[s].job => status'[k] = status[k]
          /\ status'[exec[s].job] = "completed"
          /\ UNCHANGED <<attempts, begun>> /\ completedOnce \subseteq completedOnce' /\ ExecFrame
      BY <1>22, <2>1, <2>2 DEF Complete, Matching, Marked, history, TypeOK
    <3>3. exec[s].job \in completedOnce'
      BY <1>22, <2>1, <2>2 DEF Complete, Matching
    <3>4. QED
      BY <2>1, <2>2, <3>1, <3>2, <3>3, LifeWritesOutcome
  <2>3. CASE status[exec[s].job] # "running"
    <3>1. Release(s) /\ status' = status
      BY <1>22, <2>1, <2>3 DEF Complete, Matching, Marked, TypeOK
    <3>2. QED
      BY <1>22, <2>1, <2>3, <3>1, LifeKeptByExecution DEF Complete, ExecFrame, history, Matching
  <2>4. QED
    BY <2>2, <2>3
<1>23. ASSUME NEW s \in Slot, Requeue(s) PROVE LifeInv'
  <2>1. Active(s) /\ exec[s].job \in Job
    BY <1>23 DEF Requeue, Active, TypeOK
  <2>2. CASE status[exec[s].job] = "running"
    <3>1. /\ exec'[s].pc \in {"unpark", "cascade", "idle"}
          /\ exec'[s].pc # "idle" => exec'[s].job = exec[s].job
          /\ \A t \in Slot : t # s => exec'[t] = exec[t]
      BY <1>23, <2>1, <2>2, GotoGives, ReleaseGives DEF Requeue, Matching, ExecPc
    <3>2. /\ \A k \in Job : k # exec[s].job => status'[k] = status[k]
          /\ status'[exec[s].job] = "queued"
          /\ UNCHANGED <<attempts, begun>> /\ completedOnce \subseteq completedOnce' /\ ExecFrame
      BY <1>23, <2>1, <2>2 DEF Requeue, Matching, Marked, history, TypeOK
    <3>3. exec'[s].pc = "idle" /\ ~Exhausted(exec[s].job)
      BY <1>23, ReleaseGives DEF Requeue, LifeInv, Executing
    <3>4. QED
      BY <2>1, <2>2, <3>1, <3>2, <3>3, LifeWritesOutcome
  <2>3. CASE status[exec[s].job] # "running"
    <3>1. Release(s) /\ status' = status
      BY <1>23, <2>1, <2>3 DEF Requeue, Matching, Marked, TypeOK
    <3>2. QED
      BY <1>23, <3>1, LifeKeptByExecution DEF Requeue, ExecFrame, history, Matching
  <2>4. QED
    BY <2>2, <2>3
<1>24. ASSUME NEW s \in Slot, Dead(s) PROVE LifeInv'
  <2>1. Active(s) /\ exec[s].job \in Job
    BY <1>24 DEF Dead, Active, TypeOK
  <2>2. CASE status[exec[s].job] = "running"
    <3>1. /\ exec'[s].pc \in {"unpark", "cascade", "idle"}
          /\ exec'[s].pc # "idle" => exec'[s].job = exec[s].job
          /\ \A t \in Slot : t # s => exec'[t] = exec[t]
      BY <1>24, <2>1, <2>2, GotoGives, ReleaseGives DEF Dead, Matching, ExecPc
    <3>2. /\ \A k \in Job : k # exec[s].job => status'[k] = status[k]
          /\ status'[exec[s].job] = "dead_letter"
          /\ UNCHANGED <<attempts, begun>> /\ completedOnce \subseteq completedOnce' /\ ExecFrame
      BY <1>24, <2>1, <2>2 DEF Dead, Matching, Marked, history, TypeOK
    <3>3. exec'[s].pc = "unpark" => exec[s].job \in Optional
      BY <1>24, <2>1, <2>2, GotoGives DEF Dead, Matching, CarriesOn, ExecPc
    <3>4. QED
      BY <2>1, <2>2, <3>1, <3>2, <3>3, LifeWritesOutcome
  <2>3. CASE status[exec[s].job] # "running"
    <3>1. Release(s) /\ status' = status
      BY <1>24, <2>1, <2>3 DEF Dead, Matching, Marked, TypeOK
    <3>2. QED
      BY <1>24, <3>1, LifeKeptByExecution DEF Dead, ExecFrame, history, Matching
  <2>4. QED
    BY <2>2, <2>3
<1>25. ASSUME NEW s \in Slot, Unpark(s) PROVE LifeInv'
  BY <1>25, LifeUnpark
<1>26. ASSUME NEW s \in Slot, PushKids(s) PROVE LifeInv'
  BY <1>26, LifeKeptByExecution DEF PushKids, ExecFrame, db, history
<1>27. ASSUME NEW s \in Slot, Skip(s) PROVE LifeInv'
  BY <1>27, LifeKeptByExecution DEF Skip, Marked, Matching, ExecFrame, history, TypeOK
<1>28. ASSUME NEW s \in Slot, CancelGeneration(s) PROVE LifeInv'
  <2>1. \A j \in Job : \/ status'[j] = status[j]
                       \/ status[j] # "none" /\ status'[j] \in {"cancelled", "none"}
    BY <1>28 DEF CancelGeneration, Marked, ParkedChildren, TypeOK
  <2>2. Release(s) \/ \E todo \in SUBSET Job : Goto(s, "cascade", todo)
    <3>1. PICK p \in exec[s].todo :
             \/ Release(s)
             \/ Goto(s, "cascade", (exec[s].todo \ {p}) \cup ParkedChildren({p}))
      BY <1>28 DEF CancelGeneration
    <3>2. (exec[s].todo \ {p}) \cup ParkedChildren({p}) \in SUBSET Job
      BY DEF TypeOK, Execution, ParkedChildren
    <3>3. QED
      BY <3>1, <3>2
  <2>3. exec[s].pc # "idle" /\ ExecFrame /\ UNCHANGED <<attempts, begun, completedOnce>>
    BY <1>28 DEF CancelGeneration, history
  <2>4. QED
    BY <2>1, <2>2, <2>3, LifeKeptByExecution
<1>29. ASSUME NEW s \in Slot, CallFails(s) PROVE LifeInv'
  BY <1>29, LifeKeptByExecution DEF CallFails, ExecFrame, db, history
<1>30. ASSUME NEW c \in Client, CallOps(c) PROVE LifeInv'
  <2>1. NobodyRetries'
    BY <1>30, CallersDoNotRetry DEF LifeInv
  <2>2. ~DoRetry(c)
    BY DEF LifeInv, NobodyRetries, DoRetry, Retrying
  <2>3. \A j \in Job : \/ status'[j] = status[j]
                       \/ status[j] # "none" /\ status'[j] \in {"cancelled", "none"}
    <3>1. CASE DoCancel(c)
      BY <3>1 DEF DoCancel, Marked
    <3>2. CASE ClientCancelGeneration(c)
      BY <3>2 DEF ClientCancelGeneration, Marked, ParkedChildren
    <3>3. CASE DrainQueued(c)
      BY <3>3 DEF DrainQueued, Marked, QueuedJobs
    <3>4. CASE status' = status
      BY <3>4
    <3>5. QED
      BY <1>30, <2>2, <3>1, <3>2, <3>3, <3>4 DEF CallOps, ClientStep, Tombstone, Untomb, Repush,
         BeginDrain, BeginCancel, BeginRetry, db
  <2>4. attempts' = attempts
    BY <1>30, <2>2 DEF CallOps, ClientStep, DoCancel, ClientCancelGeneration, Tombstone, Untomb,
       Repush, DrainQueued, BeginDrain, BeginCancel, BeginRetry, db
  <2>5. CallFrame
    BY <1>30 DEF CallOps, ClientStep, DoCancel, ClientCancelGeneration, Tombstone, DoRetry, Untomb,
       Repush, DrainQueued, BeginDrain, BeginCancel, BeginRetry
  <2>6. QED
    BY <2>1, <2>3, <2>4, <2>5, LifeKept DEF Booting, CallFrame, history
<1>31. CASE UNCHANGED vars
  BY <1>31, LifeKept DEF vars, LifeInv, NobodyRetries, Booting
<1>32. QED
  BY <1>1, <1>2, <1>3, <1>4, <1>5, <1>6, <1>7, <1>8, <1>9, <1>10, <1>11, <1>12, <1>13, <1>14, <1>15, <1>16, <1>17, <1>18, <1>19, <1>20, <1>21, <1>22, <1>23, <1>24, <1>25, <1>26, <1>27, <1>28, <1>29, <1>30, <1>31
  DEF Next, SubmitStep, CoordStep, ExecStep, JobOps

\* Nothing exists yet in the first state.
LEMMA InitLife == Init => LifeInv
BY ChainAssumption, ParamAssumption DEF Init, LifeInv, Unborn, Executing, NobodyRetries, Waiting,
   NoDoubleRun, AttemptCap, ChainOrder, Active, Passed, Cap, Booting, IdleExec, IdleCall, Retrying

\* So LifeInv holds throughout.
LEMMA LifeAlways ==
    ASSUME Budget["retry"] = 0
    PROVE  Spec => []LifeInv
BY InitTyped, InitLife, TypeInductive, LifeInductive, PTL DEF Spec

\* As long as no operator retries a job, no job executes twice at the same time.
THEOREM NoDoubleRunHolds ==
    ASSUME Budget["retry"] = 0
    PROVE  Spec => []NoDoubleRun
<1>1. LifeInv => NoDoubleRun
  BY DEF LifeInv
<1>2. QED
  BY <1>1, LifeAlways, PTL

\* ... no job is started more often than its max_attempts,
THEOREM AttemptCapHolds ==
    ASSUME Budget["retry"] = 0
    PROVE  Spec => []AttemptCap
<1>1. LifeInv => AttemptCap
  BY DEF LifeInv
<1>2. QED
  BY <1>1, LifeAlways, PTL

\* ... and no step of a chain begins before its predecessor has had its turn.
THEOREM ChainOrderHolds ==
    ASSUME Budget["retry"] = 0
    PROVE  Spec => []ChainOrder
<1>1. LifeInv => ChainOrder
  BY DEF LifeInv
<1>2. QED
  BY <1>1, LifeAlways, PTL

\* No step but an operator's retry writes a cancelled node, except to delete it.
LEMMA CancelledStays ==
    ASSUME TypeOK, LifeInv, Next, NEW k \in Job, status[k] = "cancelled"
    PROVE  status'[k] \in {"cancelled", "none"}
<1> DEFINE Stays == status'[k] \in {"cancelled", "none"}
<1>1. ASSUME NEW j \in Job, CreateStep(j) PROVE Stays
  BY <1>1 DEF CreateStep, LifeInv, Unborn, db, TypeOK
<1>2. ASSUME NEW r \in Roots, PushFirst(r) PROVE Stays
  BY <1>2 DEF PushFirst, db, TypeOK
<1>3. ASSUME NEW r \in Roots, SubmitFails(r) PROVE Stays
  BY <1>3 DEF SubmitFails, db, TypeOK
<1>4. CASE Wake
  BY <1>4 DEF Wake, db, TypeOK
<1>5. CASE Poll
  BY <1>5 DEF Poll, QueuedJobs, db, TypeOK
<1>6. CASE EndPass
  BY <1>6 DEF EndPass, db, TypeOK
<1>7. ASSUME NEW j \in Job, Pop(j) PROVE Stays
  BY <1>7 DEF Pop, db, TypeOK
<1>8. CASE RecoverRunning
  BY <1>8 DEF RecoverRunning, Recovered, db, TypeOK
<1>9. CASE RecoverOrphans
  BY <1>9 DEF RecoverOrphans, Marked, Orphans, db, TypeOK
<1>10. CASE RecoverHeap
  BY <1>10 DEF RecoverHeap, QueuedJobs, db, TypeOK
<1>11. ASSUME NEW s \in Slot, Start(s) PROVE Stays
  BY <1>11 DEF Start, Matching, Matching, db, TypeOK
<1>12. ASSUME NEW s \in Slot, ToolReturns(s) PROVE Stays
  BY <1>12 DEF ToolReturns, db, TypeOK
<1>13. ASSUME NEW s \in Slot, Complete(s) PROVE Stays
  BY <1>13 DEF Complete, Matching, db, TypeOK
<1>14. ASSUME NEW s \in Slot, Failed(s) PROVE Stays
  BY <1>14 DEF Failed, db, TypeOK
<1>15. ASSUME NEW s \in Slot, Requeue(s) PROVE Stays
  BY <1>15 DEF Requeue, Matching, Marked, db, TypeOK
<1>16. ASSUME NEW s \in Slot, Dead(s) PROVE Stays
  BY <1>16 DEF Dead, Matching, db, TypeOK
<1>17. ASSUME NEW s \in Slot, Unpark(s) PROVE Stays
  BY <1>17 DEF Unpark, Marked, ParkedChildren, db, TypeOK
<1>18. ASSUME NEW s \in Slot, PushKids(s) PROVE Stays
  BY <1>18 DEF PushKids, db, TypeOK
<1>19. ASSUME NEW s \in Slot, Skip(s) PROVE Stays
  BY <1>19 DEF Skip, Matching, Marked, db, TypeOK
<1>20. ASSUME NEW s \in Slot, CancelGeneration(s) PROVE Stays
  BY <1>20 DEF CancelGeneration, Marked, ParkedChildren, db, TypeOK
<1>21. ASSUME NEW s \in Slot, CallFails(s) PROVE Stays
  BY <1>21 DEF CallFails, db, TypeOK
<1>22. ASSUME NEW c \in Client, DoCancel(c) PROVE Stays
  BY <1>22 DEF DoCancel, Marked, db, TypeOK
<1>23. ASSUME NEW c \in Client, ClientCancelGeneration(c) PROVE Stays
  BY <1>23 DEF ClientCancelGeneration, Marked, ParkedChildren, db, TypeOK
<1>24. ASSUME NEW c \in Client, Tombstone(c) PROVE Stays
  BY <1>24 DEF Tombstone, db, TypeOK
<1>25. ASSUME NEW c \in Client, DoRetry(c) PROVE Stays
  BY <1>25 DEF DoRetry, LifeInv, NobodyRetries, Retrying, db, TypeOK
<1>26. ASSUME NEW c \in Client, Untomb(c) PROVE Stays
  BY <1>26 DEF Untomb, db, TypeOK
<1>27. ASSUME NEW c \in Client, Repush(c) PROVE Stays
  BY <1>27 DEF Repush, db, TypeOK
<1>28. ASSUME NEW c \in Client, DrainQueued(c) PROVE Stays
  BY <1>28 DEF DrainQueued, Marked, QueuedJobs, db, TypeOK
<1>29. ASSUME NEW c \in Client, BeginDrain(c) PROVE Stays
  BY <1>29 DEF BeginDrain, db, TypeOK
<1>30. ASSUME NEW c \in Client, NEW j \in Job, BeginCancel(c, j) PROVE Stays
  BY <1>30 DEF BeginCancel, db, TypeOK
<1>31. ASSUME NEW c \in Client, NEW j \in Job, BeginRetry(c, j) PROVE Stays
  BY <1>31 DEF BeginRetry, db, TypeOK
<1>32. ASSUME NEW j \in Job, Redrive(j) PROVE Stays
  BY <1>32 DEF Redrive, db, TypeOK
<1>33. ASSUME NEW j \in Job, Discard(j) PROVE Stays
  BY <1>33 DEF Discard, db, TypeOK
<1>34. ASSUME NEW j \in Job, Cleanup(j) PROVE Stays
  BY <1>34 DEF Cleanup, db, TypeOK
<1>35. CASE OrphanAudit
  BY <1>35 DEF OrphanAudit, Marked, Orphans, db, TypeOK
<1>36. CASE Expire
  BY <1>36 DEF Expire, Marked, db, TypeOK
<1>37. CASE LeaseTaken
  BY <1>37 DEF LeaseTaken, db, TypeOK
<1>38. CASE LeaseEnds
  BY <1>38 DEF LeaseEnds, db, TypeOK
<1>39. CASE Crash
  BY <1>39 DEF Crash, db, TypeOK
<1>40. QED
  BY <1>1, <1>2, <1>3, <1>4, <1>5, <1>6, <1>7, <1>8, <1>9, <1>10, <1>11, <1>12, <1>13, <1>14, <1>15, <1>16, <1>17, <1>18, <1>19, <1>20, <1>21, <1>22, <1>23, <1>24, <1>25, <1>26, <1>27, <1>28, <1>29, <1>30, <1>31, <1>32, <1>33, <1>34, <1>35, <1>36, <1>37, <1>38, <1>39
  DEF Next, SubmitStep, CoordStep, ExecStep, ClientStep, CallOps, JobOps

\* A cancelled job stays cancelled, whatever execution, recovery or chain it is part of.
THEOREM CancelledIsFinalHolds ==
    ASSUME Budget["retry"] = 0
    PROVE  Spec => CancelledIsFinal
<1>1. TypeOK /\ LifeInv /\ [Next]_vars =>
          [\A j \in Job : status[j] = "cancelled" => status'[j] \in {"cancelled", "none"}]_vars
  BY CancelledStays
<1>2. QED
  BY <1>1, LifeAlways, TypeCorrect, PTL DEF Spec, CancelledIsFinal

-----------------------------------------------------------------------------
(* The queue implements JobLife: a step of the queue is a move of JobLife's phases *)

\* What a step of the queue may do to the node of j, over the queue's variables.
Moved(j) ==
    \/ j \notin created /\ j \in created' /\ status[j] = "none" /\ attempts'[j] = attempts[j]
          /\ status'[j] = IF Parent[j] = NoJob THEN "queued" ELSE "parked"
    \/ status[j] = "parked" /\ status'[j] = "queued" /\ Passed(Parent[j]) /\ attempts'[j] = attempts[j]
    \/ status[j] = "running" /\ status'[j] = "queued" /\ attempts[j] < Cap(j)
          /\ attempts'[j] = attempts[j]
    \/ status[j] = "running" /\ status'[j] \in {"dead", "dead_letter"} /\ attempts'[j] = attempts[j]
    \/ status[j] # "none" /\ status'[j] = "cancelled" /\ attempts'[j] = attempts[j]
    \/ status[j] \in Life!Over /\ status'[j] = "none" /\ attempts'[j] = attempts[j]
    \/ status[j] = "dead_letter" /\ status'[j] = "queued" /\ attempts'[j] = 0
    \/ status'[j] = status[j] /\ attempts'[j] = attempts[j] /\ (j \in created' <=> j \in created)

\* A step that moves nodes and begins and finishes none is a step of JobLife.
LEMMA MovesAreMoves ==
    ASSUME TypeOK, TypeOK', LifeInv, begun' = begun, completedOnce' = completedOnce,
           created \subseteq created', \A j \in Job : Moved(j)
    PROVE  Life!Next
<1>1. ASSUME NEW j \in Job PROVE Life!Stay(j) \/ Life!Move(j)
  <2>1. status[j] # "none" => j \in created
    BY DEF LifeInv, Unborn
  <2>2. status[j] \in Status /\ status'[j] \in Status /\ attempts[j] \in Nat
    BY DEF TypeOK
  <2>3. LifePhase[j] = IF status[j] # "none" THEN status[j] ELSE IF j \in created THEN "erased" ELSE "absent"
    BY DEF LifePhase
  <2>4. LifePhase'[j] = IF status'[j] # "none" THEN status'[j] ELSE IF j \in created' THEN "erased" ELSE "absent"
    BY DEF LifePhase
  <2>5. QED
    BY <2>1, <2>2, <2>3, <2>4 DEF Moved, Life!Stay, Life!Move, Life!Create, Life!Promote, Life!Again,
       Life!Die, Life!Abandon, Life!Erase, Life!PutBack, Life!Goes, Life!Quietly, Life!Unfinished,
       Life!Cap, Cap, Life!Passed, Passed, Life!Over, Life!Phase, Status
<1>2. LifePhase' \in [Job -> Life!Phase]
  BY DEF LifePhase, TypeOK, Status, Life!Phase, Life!Over
<1>3. QED
  BY <1>1, <1>2 DEF Life!Next, TypeOK

\* The two writes that the moves above leave out: the start of a run,
LEMMA StartBegins ==
    ASSUME TypeOK, TypeOK', LifeInv, NEW s \in Slot, Start(s)
    PROVE  Life!Next \/ (UNCHANGED <<db, begun, completedOnce, created>>)
<1> DEFINE j == exec[s].job
<1>1. CASE Release(s) /\ UNCHANGED <<db, begun>>
  BY <1>1 DEF Start, ExecFrame
<1>2. CASE ~(Release(s) /\ UNCHANGED <<db, begun>>)
  <2>1. /\ j \in Job /\ status[j] = "queued"
        /\ status' = [status EXCEPT ![j] = "running"]
        /\ attempts' = [attempts EXCEPT ![j] = @ + 1]
        /\ begun' = begun \cup {j} /\ completedOnce' = completedOnce /\ created' = created
    BY <1>2 DEF Start, Matching, ExecFrame, TypeOK
  <2>2. attempts[j] < Cap(j)
    BY <2>1 DEF LifeInv, Waiting
  <2>3. Life!Begin(j)
    BY <2>1, <2>2 DEF Life!Begin, Life!Goes, Life!Unfinished, Life!Cap, Cap, LifePhase, TypeOK
  <2>4. \A k \in Job : k # j => Life!Stay(k)
    BY <2>1 DEF Life!Stay, Life!Quietly, Life!Unfinished, LifePhase, TypeOK
  <2>5. LifePhase' \in [Job -> Life!Phase]
    BY DEF LifePhase, TypeOK, Status, Life!Phase, Life!Over
  <2>6. QED
    BY <2>3, <2>4, <2>5 DEF Life!Next, Life!Move, TypeOK
<1>3. QED
  BY <1>1, <1>2

\* and its success.
LEMMA CompleteFinishes ==
    ASSUME TypeOK, TypeOK', LifeInv, NEW s \in Slot, Complete(s)
    PROVE  Life!Next \/ (UNCHANGED <<db, begun, completedOnce, created>>)
<1> DEFINE j == exec[s].job
<1>1. CASE Release(s) /\ UNCHANGED <<status, completedOnce>>
  BY <1>1 DEF Complete, ExecFrame, db
<1>2. CASE ~(Release(s) /\ UNCHANGED <<status, completedOnce>>)
  <2>1. /\ j \in Job /\ status[j] = "running"
        /\ status' = [status EXCEPT ![j] = "completed"]
        /\ completedOnce' = completedOnce \cup {j}
        /\ begun' = begun /\ attempts' = attempts /\ created' = created
    BY <1>2 DEF Complete, Matching, ExecFrame, TypeOK
  <2>2. Life!Finish(j)
    BY <2>1 DEF Life!Finish, Life!Goes, Life!Quietly, LifePhase, TypeOK
  <2>3. \A k \in Job : k # j => Life!Stay(k)
    BY <2>1 DEF Life!Stay, Life!Quietly, Life!Unfinished, LifePhase, TypeOK
  <2>4. LifePhase' \in [Job -> Life!Phase]
    BY DEF LifePhase, TypeOK, Status, Life!Phase, Life!Over
  <2>5. QED
    BY <2>2, <2>3, <2>4 DEF Life!Next, Life!Move, TypeOK
<1>3. QED
  BY <1>1, <1>2

\* Every step of the queue is a step of JobLife, or none: one case per action.
LEMMA StepRefines ==
    ASSUME TypeOK, TypeOK', LifeInv, Next
    PROVE  [Life!Next]_(Life!vars)
<1> USE ChainAssumption, ParamAssumption
<1> DEFINE Moving == /\ begun' = begun /\ completedOnce' = completedOnce
                     /\ created \subseteq created' /\ \A j \in Job : Moved(j)
<1> DEFINE Unmoving == UNCHANGED <<db, begun, completedOnce, created>>
<1>1. ASSUME NEW j \in Job, CreateStep(j) PROVE Moving
  BY <1>1 DEF CreateStep, LifeInv, Unborn, Moved, db, queue, passive, history, TypeOK
<1>2. ASSUME NEW r \in Roots, PushFirst(r) PROVE Moving
  BY <1>2 DEF PushFirst, Moved, db, queue, passive, history, TypeOK
<1>3. ASSUME NEW r \in Roots, SubmitFails(r) PROVE Moving
  BY <1>3 DEF SubmitFails, Moved, db, queue, passive, history, TypeOK
<1>4. ASSUME Wake PROVE Moving
  BY <1>4 DEF Wake, Moved, db, queue, passive, history, TypeOK
<1>5. ASSUME Poll PROVE Moving
  BY <1>5 DEF Poll, Moved, db, queue, passive, history, TypeOK
<1>6. ASSUME EndPass PROVE Moving
  BY <1>6 DEF EndPass, Moved, db, queue, passive, history, TypeOK
<1>7. ASSUME NEW j \in Job, Pop(j) PROVE Moving
  BY <1>7 DEF Pop, Moved, db, queue, passive, history, TypeOK
<1>8. ASSUME RecoverRunning PROVE Moving
  <2>1. \A j \in Job : ~Exhausted(j) => attempts[j] < Cap(j)
    BY DEF Exhausted, Cap, TypeOK
  <2>2. QED
    BY <1>8, <2>1 DEF RecoverRunning, Recovered, Moved, db, queue, passive, history, TypeOK
<1>9. ASSUME RecoverOrphans PROVE Moving
  BY <1>9 DEF RecoverOrphans, Marked, Orphans, Moved, db, queue, passive, history, TypeOK
<1>10. ASSUME RecoverHeap PROVE Moving
  BY <1>10 DEF RecoverHeap, Moved, db, queue, passive, history, TypeOK
<1>11. ASSUME NEW s \in Slot, Start(s) PROVE Life!Next \/ Unmoving
  BY <1>11, StartBegins
<1>12. ASSUME NEW s \in Slot, ToolReturns(s) PROVE Moving
  BY <1>12 DEF ToolReturns, ExecFrame, Moved, db, queue, passive, history, TypeOK
<1>13. ASSUME NEW s \in Slot, Complete(s) PROVE Life!Next \/ Unmoving
  BY <1>13, CompleteFinishes
<1>14. ASSUME NEW s \in Slot, Failed(s) PROVE Moving
  BY <1>14 DEF Failed, ExecFrame, Moved, db, queue, passive, history, TypeOK
<1>15. ASSUME NEW s \in Slot, Requeue(s) PROVE Moving
  <2>1. exec[s].job \in Job /\ ~Exhausted(exec[s].job)
    BY <1>15 DEF Requeue, LifeInv, Executing, TypeOK
  <2>2. attempts[exec[s].job] < Cap(exec[s].job)
    BY <2>1 DEF Exhausted, Cap, TypeOK
  <2>3. QED
    BY <1>15, <2>1, <2>2 DEF Requeue, Marked, Matching, ExecFrame, Moved, db, queue, passive, history, TypeOK
<1>16. ASSUME NEW s \in Slot, Dead(s) PROVE Moving
  BY <1>16 DEF Dead, Matching, ExecFrame, Moved, db, queue, passive, history, TypeOK
<1>17. ASSUME NEW s \in Slot, Unpark(s) PROVE Moving
  <2>1. Passed(exec[s].job)
    BY <1>17 DEF Unpark, LifeInv, Executing
  <2>2. QED
    BY <1>17, <2>1 DEF Unpark, Marked, ParkedChildren, ExecFrame, Moved, db, queue, passive, history, TypeOK
<1>18. ASSUME NEW s \in Slot, PushKids(s) PROVE Moving
  BY <1>18 DEF PushKids, ExecFrame, Moved, db, queue, passive, history, TypeOK
<1>19. ASSUME NEW s \in Slot, Skip(s) PROVE Moving
  BY <1>19 DEF Skip, Marked, Matching, ExecFrame, Moved, db, queue, passive, history, TypeOK
<1>20. ASSUME NEW s \in Slot, CancelGeneration(s) PROVE Moving
  BY <1>20 DEF CancelGeneration, Marked, ParkedChildren, ExecFrame, Moved, db, queue, passive, history, TypeOK
<1>21. ASSUME NEW s \in Slot, CallFails(s) PROVE Moving
  BY <1>21 DEF CallFails, ExecFrame, Moved, db, queue, passive, history, TypeOK
<1>22. ASSUME NEW c \in Client, DoCancel(c) PROVE Moving
  BY <1>22 DEF DoCancel, Marked, CallFrame, Moved, db, queue, passive, history, TypeOK
<1>23. ASSUME NEW c \in Client, ClientCancelGeneration(c) PROVE Moving
  BY <1>23 DEF ClientCancelGeneration, Marked, ParkedChildren, CallFrame, Moved, db, queue, passive, history, TypeOK
<1>24. ASSUME NEW c \in Client, Tombstone(c) PROVE Moving
  BY <1>24 DEF Tombstone, CallFrame, Moved, db, queue, passive, history, TypeOK
<1>25. ASSUME NEW c \in Client, DoRetry(c) PROVE Moving
  BY <1>25 DEF DoRetry, LifeInv, NobodyRetries, Retrying, CallFrame, Moved, db, queue, passive, history, TypeOK
<1>26. ASSUME NEW c \in Client, Untomb(c) PROVE Moving
  BY <1>26 DEF Untomb, CallFrame, Moved, db, queue, passive, history, TypeOK
<1>27. ASSUME NEW c \in Client, Repush(c) PROVE Moving
  BY <1>27 DEF Repush, CallFrame, Moved, db, queue, passive, history, TypeOK
<1>28. ASSUME NEW c \in Client, DrainQueued(c) PROVE Moving
  BY <1>28 DEF DrainQueued, QueuedJobs, Marked, CallFrame, Moved, db, queue, passive, history, TypeOK
<1>29. ASSUME NEW c \in Client, BeginDrain(c) PROVE Moving
  BY <1>29 DEF BeginDrain, CallFrame, Moved, db, queue, passive, history, TypeOK
<1>30. ASSUME NEW c \in Client, NEW j \in Job, BeginCancel(c, j) PROVE Moving
  BY <1>30 DEF BeginCancel, CallFrame, Moved, db, queue, passive, history, TypeOK
<1>31. ASSUME NEW c \in Client, NEW j \in Job, BeginRetry(c, j) PROVE Moving
  BY <1>31 DEF BeginRetry, CallFrame, Moved, db, queue, passive, history, TypeOK
<1>32. ASSUME NEW j \in Job, Redrive(j) PROVE Moving
  BY <1>32 DEF Redrive, Moved, db, queue, passive, history, TypeOK
<1>33. ASSUME NEW j \in Job, Discard(j) PROVE Moving
  BY <1>33 DEF Discard, Life!Over, Moved, db, queue, passive, history, TypeOK
<1>34. ASSUME NEW j \in Job, Cleanup(j) PROVE Moving
  BY <1>34 DEF Cleanup, Life!Over, Moved, db, queue, passive, history, TypeOK
<1>35. ASSUME OrphanAudit PROVE Moving
  BY <1>35 DEF OrphanAudit, Marked, Orphans, Moved, db, queue, passive, history, TypeOK
<1>36. ASSUME Expire PROVE Moving
  BY <1>36 DEF Expire, Marked, Moved, db, queue, passive, history, TypeOK
<1>37. ASSUME LeaseTaken PROVE Moving
  BY <1>37 DEF LeaseTaken, Moved, db, queue, passive, history, TypeOK
<1>38. ASSUME LeaseEnds PROVE Moving
  BY <1>38 DEF LeaseEnds, Moved, db, queue, passive, history, TypeOK
<1>39. ASSUME Crash PROVE Moving
  BY <1>39 DEF Crash, Moved, db, queue, passive, history, TypeOK
<1>40. Moving \/ Life!Next \/ Unmoving
  BY <1>1, <1>2, <1>3, <1>4, <1>5, <1>6, <1>7, <1>8, <1>9, <1>10, <1>11, <1>12, <1>13, <1>14, <1>15, <1>16, <1>17, <1>18, <1>19, <1>20, <1>21, <1>22, <1>23, <1>24, <1>25, <1>26, <1>27, <1>28, <1>29, <1>30, <1>31, <1>32, <1>33, <1>34, <1>35, <1>36, <1>37, <1>38, <1>39
  DEF Next, SubmitStep, CoordStep, ExecStep, ClientStep, CallOps, JobOps
<1>41. Moving => Life!Next
  BY MovesAreMoves
<1>42. Unmoving => UNCHANGED Life!vars
  BY DEF Life!vars, LifePhase, db
<1>43. QED
  BY <1>40, <1>41, <1>42

\* As long as no operator retries a job, the queue implements JobLife: every move a
\* node makes, in any interleaving of tasks, callers and restarts, is one JobLife allows.
THEOREM LifeRefinedHolds ==
    ASSUME Budget["retry"] = 0
    PROVE  Spec => LifeRefined
<1>1. Init => Life!Init
  BY DEF Init, Life!Init, LifePhase
<1>2. TypeOK /\ TypeOK' /\ LifeInv /\ [Next]_vars => [Life!Next]_(Life!vars)
  <2>1. UNCHANGED vars => UNCHANGED Life!vars
    BY DEF vars, Life!vars, LifePhase
  <2>2. QED
    BY <2>1, StepRefines
<1>3. QED
  BY <1>1, <1>2, LifeAlways, TypeCorrect, PTL DEF Spec, Life!Spec, LifeRefined

-----------------------------------------------------------------------------
(* A chain that is being cancelled has not been promoted meanwhile *)

\* The execution has claimed its job: set_job_started matched.
Past(s) == exec[s].pc \notin {"idle", "start"}

\* A job claimed by an execution is not waiting again, and has no second one.
Claimed ==
    /\ \A s \in Slot : Past(s) => /\ exec[s].job \in begun
                                  /\ status[exec[s].job] \notin {"queued", "parked"}
    /\ \A s, t \in Slot : Past(s) /\ Past(t) /\ exec[s].job = exec[t].job => s = t

\* What a status tells of the job's past.
Outcomes ==
    /\ completedOnce \subseteq begun
    /\ \A j \in completedOnce : status[j] \in {"completed", "cancelled", "none"}
    /\ \A j \in Job : status[j] \in {"failed", "dead"} => j \in begun
    /\ \A j \in Job : status[j] = "parked" => j \notin begun

\* The steps whose children a cascade has still to cancel: the one that ended the
\* chain, and cancelled ones that never ran.
Cancelling ==
    \A s \in Slot : exec[s].pc = "cascade" => \A p \in exec[s].todo :
        /\ p \in created
        /\ p = exec[s].job \/ (p \notin begun /\ status[p] \in {"cancelled", "none"})

CascadeInv == Claimed /\ Outcomes /\ Cancelling /\ CascadeFindsParked

\* A child whose parent has not had its turn has not left `parked`, but to end.
LEMMA NotPromoted ==
    ASSUME TypeOK, LifeInv, Outcomes, NEW k \in Job, Parent[k] \in Job, ~Passed(Parent[k])
    PROVE  status[k] \in {"none", "parked", "cancelled"}
<1>1. Parent[k] # NoJob
  BY ChainAssumption
<1>2. status[k] # "queued"
  BY <1>1 DEF LifeInv, Waiting
<1>3. k \notin begun
  BY <1>1 DEF LifeInv, ChainOrder, Passed
<1>4. status[k] \notin {"running", "completed", "dead_letter", "failed", "dead"}
  BY <1>3 DEF LifeInv, Waiting, Outcomes
<1>5. QED
  BY <1>2, <1>4 DEF TypeOK, Status

\* A step that only cancels or deletes nodes, and starts no cascade, keeps all of it.
LEMMA CascadeKept ==
    ASSUME TypeOK, CascadeInv,
           begun' = begun, completedOnce' = completedOnce, created \subseteq created',
           \A j \in Job : status'[j] = status[j] \/ status'[j] \in {"cancelled", "none"},
           \A s \in Slot : \/ exec'[s] = exec[s]
                           \/ exec'[s].pc \in {"idle", "start"}
                           \/ Past(s) /\ exec'[s].job = exec[s].job /\ exec'[s].pc # "cascade"
    PROVE  CascadeInv'
<1>1. \A s \in Slot : Past(s)' => Past(s) /\ exec'[s].job = exec[s].job /\ exec[s].job \in Job
  BY DEF Past, TypeOK
<1>2. \A s \in Slot : exec'[s].pc = "cascade" => exec'[s] = exec[s]
  OBVIOUS
<1>3. Claimed'
  BY <1>1 DEF CascadeInv, Claimed
<1>4. Outcomes'
  BY DEF CascadeInv, Outcomes, TypeOK
<1>5. \A s \in Slot : exec[s].todo \subseteq Job
  BY DEF TypeOK, Execution
<1>6. Cancelling'
  BY <1>2, <1>5 DEF CascadeInv, Cancelling
<1>7. CascadeFindsParked'
  BY <1>2 DEF CascadeInv, CascadeFindsParked
<1>8. QED
  BY <1>3, <1>4, <1>6, <1>7 DEF CascadeInv

\* The remaining steps, each on its own: a creation,
LEMMA CascadeCreateStep ==
    ASSUME TypeOK, TypeOK', LifeInv, CascadeInv, NEW j \in Job, CreateStep(j)
    PROVE  CascadeInv'
<1>1. /\ j \notin created /\ j \notin begun
      /\ exec' = exec /\ begun' = begun /\ completedOnce' = completedOnce
      /\ created' = created \cup {j}
      /\ status'[j] = IF Parent[j] = NoJob THEN "queued" ELSE "parked"
      /\ \A k \in Job : k # j => status'[k] = status[k]
  BY DEF CreateStep, LifeInv, Unborn, TypeOK, passive, history
<1>2. Claimed'
  BY <1>1 DEF CascadeInv, Claimed, Past, TypeOK
<1>3. Outcomes'
  BY <1>1 DEF CascadeInv, Outcomes, TypeOK
<1>4. \A s \in Slot : exec[s].todo \subseteq Job
  BY DEF TypeOK, Execution
<1>5. Cancelling'
  BY <1>1, <1>4 DEF CascadeInv, Cancelling
<1>6. CascadeFindsParked'
  BY <1>1, <1>4, ChainAssumption DEF CascadeInv, CascadeFindsParked
<1>7. QED
  BY <1>2, <1>3, <1>5, <1>6 DEF CascadeInv

\* a start: the job was queued, so that nothing holds it and no cascade is about it;
LEMMA CascadeStart ==
    ASSUME TypeOK, TypeOK', CascadeInv, NEW s \in Slot, Start(s)
    PROVE  CascadeInv'
<1> DEFINE j == exec[s].job
<1>1. CASE Release(s) /\ UNCHANGED <<db, begun>>
  <2>1. \A t \in Slot : exec'[t] = exec[t] \/ exec'[t].pc \in {"idle", "start"}
    BY <1>1, ReleaseGives
  <2>2. QED
    BY <1>1, <2>1, CascadeKept DEF Start, ExecFrame, db
<1>2. CASE ~(Release(s) /\ UNCHANGED <<db, begun>>)
  <2>1. /\ j \in Job /\ status[j] = "queued" /\ Goto(s, "tool", {})
        /\ status' = [status EXCEPT ![j] = "running"]
        /\ begun' = begun \cup {j} /\ completedOnce' = completedOnce /\ created' = created
    BY <1>2 DEF Start, Matching, ExecFrame, TypeOK
  <2>2. /\ exec'[s].pc = "tool" /\ exec'[s].job = j
        /\ \A t \in Slot : t # s => exec'[t] = exec[t]
    BY <2>1, GotoGives DEF ExecPc
  <2>3. status'[j] = "running" /\ \A k \in Job : k # j => status'[k] = status[k]
    BY <2>1 DEF TypeOK
  <2>4. \A t \in Slot : t # s /\ Past(t) => exec[t].job # j /\ exec[t].job \in Job
    BY <2>1 DEF CascadeInv, Claimed, Past, TypeOK
  <2>5. Claimed'
    <3>1. \A t \in Slot : Past(t)' => /\ exec'[t].job \in begun'
                                      /\ status'[exec'[t].job] \notin {"queued", "parked"}
      BY <2>1, <2>2, <2>3, <2>4 DEF CascadeInv, Claimed, Past
    <3>2. ASSUME NEW t \in Slot, NEW u \in Slot, Past(t)', Past(u)', exec'[t].job = exec'[u].job
          PROVE  t = u
      BY <2>2, <2>4, <3>2 DEF CascadeInv, Claimed, Past
    <3>3. QED
      BY <3>1, <3>2 DEF Claimed
  <2>6. Outcomes'
    BY <2>1, <2>3 DEF CascadeInv, Outcomes, TypeOK
  <2>7. \A t \in Slot : exec'[t].pc = "cascade" => t # s /\ exec'[t] = exec[t] /\ exec[t].todo \subseteq Job
    BY <2>2 DEF TypeOK, Execution
  <2>8. Cancelling'
    BY <2>1, <2>3, <2>7 DEF CascadeInv, Cancelling
  <2>9. CascadeFindsParked'
    BY <2>1, <2>3, <2>7 DEF CascadeInv, CascadeFindsParked
  <2>10. QED
    BY <2>5, <2>6, <2>8, <2>9 DEF CascadeInv
<1>3. QED
  BY <1>1, <1>2

\* a step that writes the outcome of a run: a cascade that it starts is about a job
\* that has just been running and is not optional, so that its children still wait;
LEMMA CascadeWritesOutcome ==
    ASSUME TypeOK, TypeOK', LifeInv, CascadeInv, NEW s \in Slot, Past(s),
           status[exec[s].job] = "running",
           \A k \in Job : k # exec[s].job => status'[k] = status[k],
           status'[exec[s].job] \in {"completed", "dead_letter", "queued"},
           begun' = begun, created' = created,
           completedOnce' = IF status'[exec[s].job] = "completed"
                               THEN completedOnce \cup {exec[s].job} ELSE completedOnce,
           exec'[s].pc \in {"idle", "unpark", "cascade"},
           exec'[s].pc # "idle" => exec'[s].job = exec[s].job,
           status'[exec[s].job] = "queued" => exec'[s].pc = "idle",
           exec'[s].pc = "cascade" => exec'[s].todo = {exec[s].job} /\ exec[s].job \notin Optional,
           \A t \in Slot : t # s => exec'[t] = exec[t]
    PROVE  CascadeInv'
<1> DEFINE j == exec[s].job
<1>1. j \in Job /\ j \in begun /\ j \in created /\ j \notin completedOnce
  <2>1. j \in Job /\ j \in begun
    BY DEF CascadeInv, Claimed, Past, TypeOK
  <2>2. QED
    BY <2>1 DEF LifeInv, Unborn, CascadeInv, Outcomes
<1>2. \A t \in Slot : t # s /\ Past(t) => exec[t].job # j /\ exec[t].job \in Job
  BY DEF CascadeInv, Claimed, Past, TypeOK
<1>3. Claimed'
  BY <1>1, <1>2 DEF CascadeInv, Claimed, Past
<1>4. Outcomes'
  BY <1>1 DEF CascadeInv, Outcomes, TypeOK
<1>5. \A t \in Slot : exec[t].todo \subseteq Job
  BY DEF TypeOK, Execution
<1>6. \A t \in Slot : t # s /\ exec[t].pc = "cascade" => j \notin exec[t].todo
  BY <1>1, <1>2 DEF CascadeInv, Cancelling, Past
<1>7. Cancelling'
  BY <1>1, <1>5, <1>6 DEF CascadeInv, Cancelling
<1>8. CascadeFindsParked'
  <2>1. ASSUME NEW k \in Job, exec'[s].pc = "cascade", Parent[k] = j
        PROVE  status'[k] \in {"none", "parked", "cancelled"}
    <3>1. ~Passed(j) /\ k # j
      BY <1>1, <2>1, ChainAssumption DEF Passed
    <3>2. QED
      BY <1>1, <2>1, <3>1, NotPromoted DEF CascadeInv
  <2>2. ASSUME NEW t \in Slot, t # s, exec[t].pc = "cascade", NEW k \in Job, Parent[k] \in exec[t].todo
        PROVE  status'[k] \in {"none", "parked", "cancelled"}
    BY <2>2 DEF CascadeInv, CascadeFindsParked
  <2>3. QED
    BY <2>1, <2>2 DEF CascadeFindsParked
<1>9. QED
  BY <1>3, <1>4, <1>7, <1>8 DEF CascadeInv

\* the promotion of parked children: their parent has run, and is no cascade's job;
LEMMA CascadeUnpark ==
    ASSUME TypeOK, TypeOK', CascadeInv, NEW s \in Slot, Unpark(s)
    PROVE  CascadeInv'
<1> DEFINE kids == ParkedChildren({exec[s].job})
<1>1. /\ exec[s].pc = "unpark" /\ exec[s].job \in Job /\ Goto(s, "push", kids)
      /\ begun' = begun /\ completedOnce' = completedOnce /\ created' = created
  BY DEF Unpark, ExecFrame, history, TypeOK
<1>2. \A k \in Job : \/ status'[k] = status[k]
                     \/ /\ status[k] = "parked" /\ status'[k] = "queued"
                        /\ Parent[k] = exec[s].job
  BY DEF Unpark, Marked, ParkedChildren, TypeOK
<1>3. /\ exec'[s].pc = "push" /\ exec'[s].job = exec[s].job
      /\ \A t \in Slot : t # s => exec'[t] = exec[t]
  BY <1>1, GotoGives DEF ExecPc
<1>4. \A t \in Slot : Past(t)' => Past(t) /\ exec'[t].job = exec[t].job /\ exec[t].job \in Job
  BY <1>1, <1>3 DEF Past, TypeOK
<1>5. Claimed'
  BY <1>1, <1>2, <1>4 DEF CascadeInv, Claimed
<1>6. Outcomes'
  BY <1>1, <1>2 DEF CascadeInv, Outcomes, TypeOK
<1>7. \A t \in Slot : exec'[t].pc = "cascade" => t # s /\ exec'[t] = exec[t] /\ exec[t].todo \subseteq Job
  BY <1>3 DEF TypeOK, Execution
<1>8. Cancelling'
  BY <1>1, <1>2, <1>7 DEF CascadeInv, Cancelling
<1>9. exec[s].job \in begun /\ \A t \in Slot : t # s /\ Past(t) => exec[t].job # exec[s].job
  BY <1>1 DEF CascadeInv, Claimed, Past
<1>10. \A t \in Slot : exec'[t].pc = "cascade" => exec[s].job \notin exec[t].todo
  BY <1>7, <1>9 DEF CascadeInv, Cancelling, Past
<1>11. CascadeFindsParked'
  BY <1>2, <1>7, <1>10 DEF CascadeInv, CascadeFindsParked
<1>12. QED
  BY <1>5, <1>6, <1>8, <1>11 DEF CascadeInv

\* one generation of a cascade: the children it cancels have never run, so that
\* theirs still wait;
LEMMA CascadeGeneration ==
    ASSUME TypeOK, TypeOK', LifeInv, CascadeInv, NEW s \in Slot, CancelGeneration(s)
    PROVE  CascadeInv'
<1>1. PICK p \in exec[s].todo :
        /\ status' = Marked(ParkedChildren({p}), "cancelled")
        /\ \/ Release(s)
           \/ Goto(s, "cascade", (exec[s].todo \ {p}) \cup ParkedChildren({p}))
  BY DEF CancelGeneration
<1> DEFINE kids == ParkedChildren({p})
<1> DEFINE rest == (exec[s].todo \ {p}) \cup kids
<1>2. /\ exec[s].pc = "cascade" /\ exec[s].todo \subseteq Job /\ kids \subseteq Job
      /\ UNCHANGED <<begun, completedOnce, created>>
  BY DEF CancelGeneration, ExecFrame, history, TypeOK, Execution, ParkedChildren
<1>3. \A k \in Job : /\ k \in kids => status'[k] = "cancelled"
                     /\ status'[k] = status[k] \/ status'[k] = "cancelled"
  BY <1>1 DEF Marked
<1>4. CASE Release(s)
  <2>1. \A t \in Slot : exec'[t] = exec[t] \/ exec'[t].pc \in {"idle", "start"}
    BY <1>4, ReleaseGives
  <2>2. QED
    BY <1>2, <1>3, <2>1, CascadeKept
<1>5. CASE Goto(s, "cascade", rest)
  <2>1. /\ exec'[s].pc = "cascade" /\ exec'[s].job = exec[s].job /\ exec'[s].todo = rest
        /\ \A t \in Slot : t # s => exec'[t] = exec[t]
    BY <1>5 DEF Goto, TypeOK
  <2>2. \A t \in Slot : Past(t)' => Past(t) /\ exec'[t].job = exec[t].job /\ exec[t].job \in Job
    BY <1>2, <2>1 DEF Past, TypeOK
  <2>3. Claimed'
    BY <1>2, <1>3, <2>2 DEF CascadeInv, Claimed
  <2>4. Outcomes'
    BY <1>2, <1>3 DEF CascadeInv, Outcomes, TypeOK
  <2>5. \A k \in kids : k \notin begun /\ k \in created /\ k \notin completedOnce
    BY <1>2 DEF ParkedChildren, CascadeInv, Outcomes, LifeInv, Unborn
  <2>6. \A t \in Slot : exec[t].todo \subseteq Job
    BY DEF TypeOK, Execution
  <2>7. Cancelling'
    <3>1. ASSUME NEW t \in Slot, exec'[t].pc = "cascade", NEW q \in exec'[t].todo
          PROVE  /\ q \in created'
                 /\ q = exec'[t].job \/ (q \notin begun' /\ status'[q] \in {"cancelled", "none"})
      <4>1. CASE t = s /\ q \in kids
        BY <1>2, <1>3, <2>5, <4>1
      <4>2. CASE ~(t = s /\ q \in kids)
        <5>1. exec[t].pc = "cascade" /\ q \in exec[t].todo /\ exec'[t].job = exec[t].job /\ q \in Job
          BY <1>2, <2>1, <2>6, <3>1, <4>2
        <5>2. QED
          BY <1>2, <1>3, <5>1 DEF CascadeInv, Cancelling
      <4>3. QED
        BY <4>1, <4>2
    <3>2. QED
      BY <3>1 DEF Cancelling
  <2>8. CascadeFindsParked'
    <3>1. ASSUME NEW t \in Slot, exec'[t].pc = "cascade", NEW k \in Job, Parent[k] \in exec'[t].todo
          PROVE  status'[k] \in {"none", "parked", "cancelled"}
      <4>1. CASE t = s /\ Parent[k] \in kids
        <5>1. ~Passed(Parent[k]) /\ Parent[k] \in Job
          BY <1>2, <2>5, <4>1 DEF Passed
        <5>2. QED
          BY <1>3, <5>1, NotPromoted DEF CascadeInv
      <4>2. CASE ~(t = s /\ Parent[k] \in kids)
        <5>1. exec[t].pc = "cascade" /\ Parent[k] \in exec[t].todo
          BY <1>2, <2>1, <3>1, <4>2
        <5>2. QED
          BY <1>3, <5>1 DEF CascadeInv, CascadeFindsParked
      <4>3. QED
        BY <4>1, <4>2
    <3>2. QED
      BY <3>1 DEF CascadeFindsParked
  <2>9. QED
    BY <2>3, <2>4, <2>7, <2>8 DEF CascadeInv
<1>6. QED
  BY <1>1, <1>4, <1>5

\* and recovery, when no execution is left.
LEMMA CascadeRecoverRunning ==
    ASSUME TypeOK, TypeOK', LifeInv, CascadeInv, RecoverRunning
    PROVE  CascadeInv'
<1>1. /\ UNCHANGED <<begun, completedOnce, created, exec>>
      /\ \A s \in Slot : exec[s].pc = "idle"
  BY DEF RecoverRunning, passive, history, LifeInv, Executing, Booting
<1>2. \A j \in Job : \/ status'[j] = status[j]
                     \/ status[j] = "running" /\ status'[j] \in {"dead", "queued"}
  BY DEF RecoverRunning, Recovered, TypeOK
<1>3. Outcomes'
  BY <1>1, <1>2 DEF CascadeInv, Outcomes, LifeInv, Waiting, TypeOK
<1>4. Claimed' /\ Cancelling' /\ CascadeFindsParked'
  BY <1>1 DEF Claimed, Past, Cancelling, CascadeFindsParked
<1>5. QED
  BY <1>3, <1>4 DEF CascadeInv

\* Every step keeps CascadeInv, as long as nobody puts a dead letter back: one case
\* per action.
LEMMA CascadeInductive ==
    ASSUME Budget["retry"] = 0, Budget["redrive"] = 0, Optional \cap Evaluator = {}
    PROVE  TypeOK /\ TypeOK' /\ LifeInv /\ CascadeInv /\ [Next]_vars => CascadeInv'
<1> SUFFICES ASSUME TypeOK, TypeOK', LifeInv, CascadeInv, [Next]_vars PROVE CascadeInv'
  OBVIOUS
<1>1. ASSUME NEW j \in Job, CreateStep(j) PROVE CascadeInv'
  BY <1>1, CascadeCreateStep
<1>2. ASSUME NEW r \in Roots, PushFirst(r) PROVE CascadeInv'
  BY <1>2, CascadeKept DEF PushFirst, db, passive, history
<1>3. ASSUME NEW r \in Roots, SubmitFails(r) PROVE CascadeInv'
  BY <1>3, CascadeKept DEF SubmitFails, db, history
<1>4. CASE Wake
  BY <1>4, CascadeKept DEF Wake, db, passive, history
<1>5. CASE Poll
  BY <1>5, CascadeKept DEF Poll, db, passive, history
<1>6. CASE EndPass
  BY <1>6, CascadeKept DEF EndPass, db, passive, history
<1>7. ASSUME NEW j \in Job, Pop(j) PROVE CascadeInv'
  <2>1. \A t \in Slot : exec'[t] = exec[t] \/ exec'[t].pc \in {"idle", "start"}
    BY <1>7 DEF Pop, DropTombstoned, SetAside, Dispatch, FreeSlots, TypeOK
  <2>2. QED
    BY <1>7, <2>1, CascadeKept DEF Pop, db, passive, history
<1>8. CASE RecoverRunning
  BY <1>8, CascadeRecoverRunning
<1>9. CASE RecoverOrphans
  BY <1>9, CascadeKept DEF RecoverOrphans, Marked, passive, history
<1>10. CASE RecoverHeap
  BY <1>10, CascadeKept DEF RecoverHeap, db, passive, history
<1>11. ASSUME NEW j \in Job, Redrive(j) PROVE CascadeInv'
  BY <1>11 DEF Redrive, Spend, Ops, TypeOK
<1>12. ASSUME NEW j \in Job, Discard(j) PROVE CascadeInv'
  BY <1>12, CascadeKept DEF Discard, history, TypeOK
<1>13. ASSUME NEW j \in Job, Cleanup(j) PROVE CascadeInv'
  BY <1>13, CascadeKept DEF Cleanup, history, TypeOK
<1>14. CASE OrphanAudit
  BY <1>14, CascadeKept DEF OrphanAudit, Marked, passive, history
<1>15. CASE Expire
  BY <1>15, CascadeKept DEF Expire, Marked, history
<1>16. CASE LeaseTaken
  BY <1>16, CascadeKept DEF LeaseTaken, db, history
<1>17. CASE LeaseEnds
  BY <1>17, CascadeKept DEF LeaseEnds, db, history
<1>18. CASE Crash
  <2>1. \A t \in Slot : exec'[t].pc = "idle"
    BY <1>18 DEF Crash, IdleExec
  <2>2. QED
    BY <1>18, <2>1, CascadeKept DEF Crash, db, history
<1>19. ASSUME NEW s \in Slot, Start(s) PROVE CascadeInv'
  BY <1>19, CascadeStart
\* The steps of an execution that write nothing, or cancel its own job.
<1>20. ASSUME NEW s \in Slot, Past(s),
              Release(s) \/ \E pc \in ExecPc \ {"cascade"} : Goto(s, pc, {}),
              \A j \in Job : status'[j] = status[j] \/ status'[j] \in {"cancelled", "none"},
              UNCHANGED <<begun, completedOnce, created>>
       PROVE  CascadeInv'
  <2>1. \A t \in Slot : \/ exec'[t] = exec[t]
                        \/ exec'[t].pc \in {"idle", "start"}
                        \/ Past(t) /\ exec'[t].job = exec[t].job /\ exec'[t].pc # "cascade"
    BY <1>20, GotoGives, ReleaseGives
  <2>2. QED
    BY <1>20, <2>1, CascadeKept
<1>21. ASSUME NEW s \in Slot, ToolReturns(s) PROVE CascadeInv'
  <2>1. /\ exec'[s].job = exec[s].job /\ exec'[s].pc # "cascade"
        /\ \A t \in Slot : t # s => exec'[t] = exec[t]
    BY <1>21, GotoGives DEF ToolReturns, ExecPc, TypeOK
  <2>2. Past(s) /\ UNCHANGED <<status, begun, completedOnce, created>>
    BY <1>21 DEF ToolReturns, Past, ExecFrame, db, history
  <2>3. QED
    BY <2>1, <2>2, CascadeKept
<1>22. ASSUME NEW s \in Slot, Failed(s) PROVE CascadeInv'
  <2>1. Past(s) /\ UNCHANGED <<status, begun, completedOnce, created>>
    BY <1>22 DEF Failed, Past, ExecFrame, db, history
  <2>2. \E pc \in {"dead", "requeue"} : Goto(s, pc, {})
    BY <1>22 DEF Failed
  <2>3. QED
    BY <1>20, <2>1, <2>2 DEF ExecPc
<1>23. ASSUME NEW s \in Slot, Complete(s) PROVE CascadeInv'
  <2>1. exec[s].job \in Job /\ Past(s) /\ UNCHANGED <<begun, created>>
    BY <1>23 DEF Complete, Past, ExecFrame, TypeOK
  <2>2. CASE status[exec[s].job] = "running"
    <3>1. /\ status' = [status EXCEPT ![exec[s].job] = "completed"]
          /\ completedOnce' = completedOnce \cup {exec[s].job}
          /\ \/ Goto(s, "unpark", {})
             \/ exec[s].job \in Evaluator /\ Goto(s, "cascade", {exec[s].job})
      BY <1>23, <2>1, <2>2 DEF Complete, Matching
    <3>2. /\ status'[exec[s].job] = "completed"
          /\ \A k \in Job : k # exec[s].job => status'[k] = status[k]
      BY <2>1, <3>1 DEF TypeOK
    <3>3. /\ exec'[s].pc \in {"unpark", "cascade"} /\ exec'[s].job = exec[s].job
          /\ \A t \in Slot : t # s => exec'[t] = exec[t]
      BY <3>1, GotoGives DEF ExecPc
    <3>4. exec'[s].pc = "cascade" =>
             exec'[s].todo = {exec[s].job} /\ exec[s].job \notin Optional
      BY <3>1 DEF Goto, TypeOK
    <3>5. QED
      BY <2>1, <2>2, <3>1, <3>2, <3>3, <3>4, CascadeWritesOutcome
  <2>3. CASE status[exec[s].job] # "running"
    BY <1>20, <1>23, <2>1, <2>3 DEF Complete, Matching
  <2>4. QED
    BY <2>2, <2>3
<1>24. ASSUME NEW s \in Slot, Requeue(s) PROVE CascadeInv'
  <2>1. /\ exec[s].job \in Job /\ Past(s) /\ UNCHANGED <<begun, completedOnce, created>>
        /\ Release(s)
    BY <1>24 DEF Requeue, Past, ExecFrame, history, TypeOK
  <2>2. CASE status[exec[s].job] = "running"
    <3>1. /\ status'[exec[s].job] = "queued"
          /\ \A k \in Job : k # exec[s].job => status'[k] = status[k]
      BY <1>24, <2>1, <2>2 DEF Requeue, Marked, Matching
    <3>2. exec'[s].pc = "idle" /\ \A t \in Slot : t # s => exec'[t] = exec[t]
      BY <2>1, ReleaseGives
    <3>3. QED
      BY <2>1, <2>2, <3>1, <3>2, CascadeWritesOutcome
  <2>3. CASE status[exec[s].job] # "running"
    <3>1. status' = status
      BY <1>24, <2>1, <2>3 DEF Requeue, Marked, Matching, TypeOK
    <3>2. QED
      BY <1>20, <2>1, <3>1
  <2>4. QED
    BY <2>2, <2>3
<1>25. ASSUME NEW s \in Slot, Dead(s) PROVE CascadeInv'
  <2>1. exec[s].job \in Job /\ Past(s) /\ UNCHANGED <<begun, completedOnce, created>>
    BY <1>25 DEF Dead, Past, ExecFrame, history, TypeOK
  <2>2. CASE status[exec[s].job] = "running"
    <3>1. /\ status' = [status EXCEPT ![exec[s].job] = "dead_letter"]
          /\ \/ Goto(s, "unpark", {})
             \/ exec[s].job \notin Optional /\ Goto(s, "cascade", {exec[s].job})
      BY <1>25, <2>1, <2>2 DEF Dead, Matching, CarriesOn
    <3>2. /\ status'[exec[s].job] = "dead_letter"
          /\ \A k \in Job : k # exec[s].job => status'[k] = status[k]
      BY <2>1, <3>1 DEF TypeOK
    <3>3. /\ exec'[s].pc \in {"unpark", "cascade"} /\ exec'[s].job = exec[s].job
          /\ \A t \in Slot : t # s => exec'[t] = exec[t]
      BY <3>1, GotoGives DEF ExecPc
    <3>4. exec'[s].pc = "cascade" =>
             exec'[s].todo = {exec[s].job} /\ exec[s].job \notin Optional
      BY <3>1 DEF Goto, TypeOK
    <3>5. QED
      BY <2>1, <2>2, <3>2, <3>3, <3>4, CascadeWritesOutcome
  <2>3. CASE status[exec[s].job] # "running"
    BY <1>20, <1>25, <2>1, <2>3 DEF Dead, Matching
  <2>4. QED
    BY <2>2, <2>3
<1>26. ASSUME NEW s \in Slot, Unpark(s) PROVE CascadeInv'
  BY <1>26, CascadeUnpark
<1>27. ASSUME NEW s \in Slot, PushKids(s) PROVE CascadeInv'
  BY <1>20, <1>27 DEF PushKids, Past, ExecPc, ExecFrame, db, history
<1>28. ASSUME NEW s \in Slot, Skip(s) PROVE CascadeInv'
  BY <1>20, <1>28 DEF Skip, Marked, Past, ExecFrame, history
<1>29. ASSUME NEW s \in Slot, CancelGeneration(s) PROVE CascadeInv'
  BY <1>29, CascadeGeneration
<1>30. ASSUME NEW s \in Slot, CallFails(s) PROVE CascadeInv'
  <2>1. Release(s) \/ (Past(s) /\ Goto(s, "skip", {}))
    BY <1>30 DEF CallFails, Past
  <2>2. \A t \in Slot : \/ exec'[t] = exec[t]
                        \/ exec'[t].pc \in {"idle", "start"}
                        \/ Past(t) /\ exec'[t].job = exec[t].job /\ exec'[t].pc # "cascade"
    BY <2>1, GotoGives, ReleaseGives DEF ExecPc
  <2>3. QED
    BY <1>30, <2>2, CascadeKept DEF CallFails, ExecFrame, db, history
<1>31. ASSUME NEW c \in Client, CallOps(c) PROVE CascadeInv'
  <2>1. CallFrame /\ ~DoRetry(c)
    BY <1>31 DEF CallOps, ClientStep, DoCancel, ClientCancelGeneration, Tombstone, DoRetry, Untomb,
       Repush, DrainQueued, BeginDrain, BeginCancel, BeginRetry, LifeInv, NobodyRetries, Retrying
  <2>2. \A j \in Job : status'[j] = status[j] \/ status'[j] \in {"cancelled", "none"}
    <3>1. CASE DoCancel(c)
      BY <3>1 DEF DoCancel, Marked
    <3>2. CASE ClientCancelGeneration(c)
      BY <3>2 DEF ClientCancelGeneration, Marked
    <3>3. CASE DrainQueued(c)
      BY <3>3 DEF DrainQueued, Marked
    <3>4. CASE status' = status
      BY <3>4
    <3>5. QED
      BY <1>31, <2>1, <3>1, <3>2, <3>3, <3>4 DEF CallOps, ClientStep, Tombstone, Untomb, Repush,
         BeginDrain, BeginCancel, BeginRetry, db
  <2>3. QED
    BY <2>1, <2>2, CascadeKept DEF CallFrame, history
<1>32. CASE UNCHANGED vars
  BY <1>32, CascadeKept DEF vars
<1>33. QED
  BY <1>1, <1>2, <1>3, <1>4, <1>5, <1>6, <1>7, <1>8, <1>9, <1>10, <1>11, <1>12, <1>13, <1>14, <1>15,
     <1>16, <1>17, <1>18, <1>19, <1>21, <1>22, <1>23, <1>24, <1>25, <1>26, <1>27, <1>28, <1>29, <1>30,
     <1>31, <1>32
  DEF Next, SubmitStep, CoordStep, ExecStep, JobOps

\* As long as no operator retries a job or puts a dead letter back, and no optional
\* step is an evaluator, a chain that is being cancelled has not been promoted: no
\* child of a step whose cascade is under way has left `parked` but to end.
THEOREM CascadeFindsParkedHolds ==
    ASSUME Budget["retry"] = 0, Budget["redrive"] = 0, Optional \cap Evaluator = {}
    PROVE  Spec => []CascadeFindsParked
<1>1. Init => CascadeInv
  BY DEF Init, CascadeInv, Claimed, Outcomes, Cancelling, CascadeFindsParked, Past, IdleExec
<1>2. CascadeInv => CascadeFindsParked
  BY DEF CascadeInv
<1>3. QED
  BY <1>1, <1>2, TypeCorrect, LifeAlways, CascadeInductive, PTL DEF Spec
=============================================================================
