-------------------------- MODULE SchedulerProofs --------------------------
(***************************************************************************)
(* One chain for a run, no timed run stacked on another, one retry, one     *)
(* open scan, and what is closed stays closed, for any number of workers,   *)
(* Tasks and faults.                                                       *)
(***************************************************************************)
EXTENDS Scheduler, FiniteSetTheorems, TLAPS

-----------------------------------------------------------------------------
(* Lemmas about the operators *)

Rank(k) == Cardinality({l \in Waiting : l >= k})

LEMMA WaitingFinite ==
    ASSUME TypeOK
    PROVE  Waiting \subseteq Nat /\ IsFiniteSet(Waiting) /\ Cardinality(Waiting) \in Nat
<1>1. DOMAIN task = 1..Len(task) /\ Len(task) \in Nat
  BY DEF TypeOK
<1>2. IsFiniteSet(1..Len(task))  BY <1>1, FS_Interval
<1>3. Waiting \subseteq DOMAIN task  BY DEF Waiting
<1>4. Waiting \in SUBSET (1..Len(task))  BY <1>1, <1>3
<1>5. IsFiniteSet(Waiting)  BY <1>2, <1>4, FS_Subset
<1>6. Cardinality(Waiting) \in Nat  BY <1>5, FS_CardinalityType
<1>7. Waiting \subseteq Nat  BY <1>1, <1>4
<1>8. QED  BY <1>5, <1>6, <1>7

\* A Task listed before another has the higher rank.
LEMMA RankFalls ==
    ASSUME TypeOK, NEW k \in Waiting, NEW l \in Waiting, k < l
    PROVE  Rank(l) < Rank(k)
<1> DEFINE S == {m \in Waiting : m >= k}
           T == {m \in Waiting : m >= l}
<1>1. IsFiniteSet(S) /\ IsFiniteSet(S \ {k})
  BY WaitingFinite, FS_Subset, S \in SUBSET Waiting, S \ {k} \in SUBSET Waiting
<1>2. k \in S /\ T \in SUBSET (S \ {k})
  BY WaitingFinite
<1>3. Cardinality(S \ {k}) = Cardinality(S) - 1  BY <1>1, <1>2, FS_RemoveElement
<1>4. Cardinality(T) <= Cardinality(S \ {k})  BY <1>1, <1>2, FS_Subset
<1>5. IsFiniteSet(T)  BY <1>1, <1>2, FS_Subset
<1>6. Cardinality(S) \in Nat /\ Cardinality(T) \in Nat  BY <1>1, <1>5, FS_CardinalityType
<1>7. Cardinality(T) < Cardinality(S)
  <2> HIDE DEF S, T
  <2> QED  BY <1>3, <1>4, <1>6
<1>8. QED  BY <1>7 DEF Rank

LEMMA RankIs ==
    ASSUME TypeOK, NEW k \in Waiting
    PROVE  Rank(k) \in 1..Cardinality(Waiting)
<1> DEFINE S == {m \in Waiting : m >= k}
<1>1. S \in SUBSET Waiting /\ k \in S  BY WaitingFinite
<1>2. IsFiniteSet(S) /\ Cardinality(S) <= Cardinality(Waiting)
  BY <1>1, WaitingFinite, FS_Subset
<1>3. Cardinality(S) \in Nat /\ Cardinality(S) # 0  BY <1>1, <1>2, FS_CardinalityType, FS_EmptySet
<1>4. QED
  <2>1. Rank(k) = Cardinality(S)  BY DEF Rank
  <2> HIDE DEF S
  <2> QED  BY <2>1, <1>2, <1>3, WaitingFinite

\* So the ranks are 1, 2, ... up to their number.
LEMMA RankOnto ==
    ASSUME TypeOK, NEW i \in 1..Cardinality(Waiting)
    PROVE  \E k \in Waiting : Rank(k) = i
<1> DEFINE n == Cardinality(Waiting)
           f == [k \in Waiting |-> Rank(k)]
<1>1. f \in [Waiting -> 1..n]  BY RankIs
<1>2. \A k, l \in Waiting : f[k] = f[l] => k = l
  <2> SUFFICES ASSUME NEW k \in Waiting, NEW l \in Waiting, f[k] = f[l], k # l PROVE FALSE
    OBVIOUS
  <2>1. k \in Nat /\ l \in Nat  BY WaitingFinite
  <2>2. Rank(k) = Rank(l)  OBVIOUS
  <2>3. Rank(k) \in Nat /\ Rank(l) \in Nat  BY RankIs, WaitingFinite
  <2>4. CASE k < l  BY <2>4, <2>2, <2>3, RankFalls
  <2>5. CASE l < k  BY <2>5, <2>2, <2>3, RankFalls
  <2>6. QED  BY <2>1, <2>4, <2>5
<1>3. f \in Injection(Waiting, 1..n)  BY <1>1, <1>2 DEF Injection, IsInjective
<1>4. n \in Nat /\ IsFiniteSet(1..n) /\ Cardinality(1..n) = n
  <2>1. n \in Nat  BY WaitingFinite
  <2> HIDE DEF n
  <2>2. QED  BY <2>1, FS_Interval
<1>5. f \in Surjection(Waiting, 1..n)  BY <1>3, <1>4, FS_Injection
<1>6. QED  BY <1>5 DEF Surjection

\* A tick picks created Tasks, each once.
LEMMA PickedIs ==
    ASSUME TypeOK
    PROVE  /\ Picked \in Seq(Nat)
           /\ \A i \in DOMAIN Picked : Picked[i] \in Waiting
           /\ \A i, j \in DOMAIN Picked : Picked[i] = Picked[j] => i = j
<1> DEFINE n == IF Cardinality(Waiting) < MaxTasks THEN Cardinality(Waiting) ELSE MaxTasks
<1>1. n \in Nat /\ n <= Cardinality(Waiting)
  BY WaitingFinite, SchedulerAssumption
<1>2. Picked = [i \in 1..n |-> CHOOSE k \in Waiting : Rank(k) = i]
  BY DEF Picked, Rank
<1> HIDE DEF n
<1>3. \A i \in 1..n : Picked[i] \in Waiting /\ Rank(Picked[i]) = i
  <2> SUFFICES ASSUME NEW i \in 1..n PROVE Picked[i] \in Waiting /\ Rank(Picked[i]) = i
    OBVIOUS
  <2>1. i \in 1..Cardinality(Waiting)  BY <1>1, WaitingFinite
  <2>2. QED  BY <1>2, <2>1, RankOnto
<1>4. DOMAIN Picked = 1..n  BY <1>2
<1>5. Picked \in [1..n -> Nat]  BY <1>2, <1>3, WaitingFinite
<1>6. QED  BY <1>1, <1>3, <1>4, <1>5

\* A Task of which one field is written; the chain step c of t set to a stage.
Staged(t, c, s) == [t EXCEPT !.chain = [t.chain EXCEPT ![c] = [t.chain[c] EXCEPT !.stage = s]]]
Written(t, s) == [t EXCEPT !.status = s, !.stale = FALSE]

LEMMA PutIs ==
    ASSUME NEW q \in Seq(Task), NEW k \in DOMAIN q, NEW t \in Task
    PROVE  LET p == [q EXCEPT ![k] = t] IN
           /\ p \in Seq(Task) /\ DOMAIN p = DOMAIN q /\ Len(p) = Len(q)
           /\ p[k] = t /\ \A l \in DOMAIN q : l # k => p[l] = q[l]
  OBVIOUS

LEMMA FieldsAre ==
    ASSUME NEW q \in Seq(Task), NEW k \in DOMAIN q
    PROVE  /\ q[k] \in Task
           /\ q[k].chain \in Seq(Chain) /\ q[k].of \in Nat /\ q[k].tries \in Nat
           /\ q[k].kind \in Kind /\ q[k].status \in TaskStatus
           /\ q[k].old \in BOOLEAN /\ q[k].stale \in BOOLEAN
           /\ DOMAIN q = 1..Len(q) /\ Len(q) \in Nat /\ k \in 1..Len(q) /\ k \in Nat
<1>1. q[k] \in Task  OBVIOUS
<1>2. DOMAIN q = 1..Len(q) /\ Len(q) \in Nat  OBVIOUS
<1>3. QED  BY <1>1, <1>2 DEF Task

LEMMA StagedIs ==
    ASSUME NEW t \in Task, NEW c \in DOMAIN t.chain, NEW s \in Stage
    PROVE  LET u == Staged(t, c, s) IN
           /\ u \in Task
           /\ u.kind = t.kind /\ u.status = t.status /\ u.old = t.old /\ u.stale = t.stale
           /\ u.tries = t.tries /\ u.of = t.of
           /\ DOMAIN u.chain = DOMAIN t.chain /\ Len(u.chain) = Len(t.chain)
           /\ u.chain[c].stage = s /\ u.chain[c].closes = t.chain[c].closes
           /\ \A d \in DOMAIN t.chain : d # c => u.chain[d] = t.chain[d]
<1> DEFINE r == [t.chain[c] EXCEPT !.stage = s]
           q == [t.chain EXCEPT ![c] = r]
<1>1. t.chain \in Seq(Chain) /\ t.chain[c] \in Chain  BY DEF Task
<1>2. r \in Chain /\ r.stage = s /\ r.closes = t.chain[c].closes  BY <1>1 DEF Chain
<1> HIDE DEF r
<1>3. /\ q \in Seq(Chain) /\ DOMAIN q = DOMAIN t.chain /\ Len(q) = Len(t.chain)
      /\ q[c] = r /\ \A d \in DOMAIN t.chain : d # c => q[d] = t.chain[d]
  BY <1>1, <1>2
<1>4. Staged(t, c, s) = [t EXCEPT !.chain = q]  BY DEF Staged, r
<1> HIDE DEF q
<1>5. QED  BY <1>2, <1>3, <1>4 DEF Task

LEMMA WrittenIs ==
    ASSUME NEW t \in Task, NEW s \in TaskStatus
    PROVE  LET u == Written(t, s) IN
           /\ u \in Task
           /\ u.kind = t.kind /\ u.status = s /\ u.old = t.old /\ u.stale = FALSE
           /\ u.tries = t.tries /\ u.of = t.of /\ u.chain = t.chain
  BY DEF Written, Task

LEMMA StagesIs ==
    ASSUME TypeOK, NEW k \in DOMAIN task, NEW c \in DOMAIN task[k].chain, NEW s \in Stage
    PROVE  Stages(k, c, s) = [task EXCEPT ![k] = Staged(task[k], c, s)]
  BY DEF Stages, Staged, TypeOK, Task, Chain

LEMMA SetToIs ==
    ASSUME TypeOK, NEW k \in DOMAIN task, NEW s \in TaskStatus
    PROVE  SetTo(k, s) = [task EXCEPT ![k] = Written(task[k], s)]
  BY DEF SetTo, Written, TypeOK, Task

-----------------------------------------------------------------------------
(* What a step does to one Task: t before it, u after it *)

Sound(t) ==
    /\ t.stale => t.old
    /\ \A c \in DOMAIN t.chain : t.chain[c].stage = "close" => t.chain[c].closes # "nothing"

\* A chain that still may close its Task works on an open one, or on an old one; a
\* chain that the evaluator has ended has failed it.
Settled(t) ==
    \A c \in DOMAIN t.chain :
        /\ t.chain[c].stage = "requeue" => t.status = "failed"
        /\ t.chain[c].stage \in {"work", "close", "gate"} => t.old \/ t.status \in OpenStatus

Lone(t) == \A c \in DOMAIN t.chain : c = 1
Done(t) == t.chain # <<>> /\ t.chain[1].stage = "over"
Unfinished(t) == t.status \in OpenStatus \cup {"blocked"} /\ ~t.old

\* Whatever has been overtaken or lost,
Calm(t, u) ==
    /\ u.kind = t.kind /\ u.tries = t.tries /\ u.of = t.of
    /\ DOMAIN u.chain = DOMAIN t.chain /\ Len(u.chain) = Len(t.chain)
    /\ \A c \in DOMAIN t.chain : t.chain[c].stage = "over" => u.chain[c].stage = "over"
    /\ u.status = "created" => t.status = "created"
    /\ Sound(t) => Sound(u)

\* if no mark came after the end of its Task,
Opens(t, u) == u.status \in OpenStatus => t.status \in OpenStatus

\* and if, besides, it has one chain.
Settles(t, u) ==
    Sound(t) /\ Lone(t) =>
        /\ Done(t) /\ t.status \notin OpenStatus => u.status = t.status
        /\ Settled(t) => Settled(u)
        /\ Settled(t) /\ Unfinished(u) => Unfinished(t)

LEMMA SameIsCalm ==
    ASSUME NEW t PROVE Calm(t, t) /\ Opens(t, t) /\ Settles(t, t)
  BY DEF Calm, Opens, Settles

LEMMA StagedIsCalm ==
    ASSUME NEW t \in Task, NEW c \in DOMAIN t.chain, NEW s \in Stage,
           t.chain[c].stage # "over",
           s = "close" => t.chain[c].closes # "nothing"
    PROVE  Calm(t, Staged(t, c, s)) /\ Opens(t, Staged(t, c, s))
<1> DEFINE u == Staged(t, c, s)
<1>1. /\ u.kind = t.kind /\ u.status = t.status /\ u.old = t.old /\ u.stale = t.stale
      /\ u.tries = t.tries /\ u.of = t.of
      /\ DOMAIN u.chain = DOMAIN t.chain /\ Len(u.chain) = Len(t.chain)
      /\ u.chain[c].stage = s /\ u.chain[c].closes = t.chain[c].closes
      /\ \A d \in DOMAIN t.chain : d # c => u.chain[d] = t.chain[d]
  BY StagedIs
<1> HIDE DEF u
<1>2. Calm(t, u) /\ Opens(t, u)  BY <1>1 DEF Calm, Sound, Opens
<1>3. QED  BY <1>2 DEF u

LEMMA StagedSettles ==
    ASSUME NEW t \in Task, NEW c \in DOMAIN t.chain, NEW s \in Stage \ {"work"},
           s \in {"close", "gate"} => t.chain[c].stage = "work",
           s = "requeue" => t.status = "failed"
    PROVE  Settles(t, Staged(t, c, s))
<1> DEFINE u == Staged(t, c, s)
<1>1. /\ u.status = t.status /\ u.old = t.old
      /\ DOMAIN u.chain = DOMAIN t.chain
      /\ u.chain[c].stage = s
      /\ \A d \in DOMAIN t.chain : d # c => u.chain[d] = t.chain[d]
  BY StagedIs
<1> HIDE DEF u
<1>2. Settles(t, u)  BY <1>1 DEF Settles, Settled, Unfinished, Done, Stage
<1>3. QED  BY <1>2 DEF u

\* A chain that writes the status as it moves: its evaluator, its death, its end.
LEMMA EndsIsCalm ==
    ASSUME NEW t \in Task, NEW c \in DOMAIN t.chain, NEW s \in {"requeue", "over"},
           NEW st \in {"completed", "blocked", "failed"},
           t.chain[c].stage # "over",
           st # "failed" => s = "over" /\ t.chain[c].stage = "close"
    PROVE  /\ Calm(t, Written(Staged(t, c, s), st))
           /\ Opens(t, Written(Staged(t, c, s), st))
           /\ Settles(t, Written(Staged(t, c, s), st))
<1> DEFINE v == Staged(t, c, s)
           u == Written(v, st)
<1>1. /\ v \in Task
      /\ v.kind = t.kind /\ v.status = t.status /\ v.old = t.old /\ v.stale = t.stale
      /\ v.tries = t.tries /\ v.of = t.of
      /\ DOMAIN v.chain = DOMAIN t.chain /\ Len(v.chain) = Len(t.chain)
      /\ v.chain[c].stage = s /\ v.chain[c].closes = t.chain[c].closes
      /\ \A d \in DOMAIN t.chain : d # c => v.chain[d] = t.chain[d]
  BY StagedIs DEF Stage
<1>2. /\ u.kind = t.kind /\ u.status = st /\ u.old = t.old /\ u.stale = FALSE
      /\ u.tries = t.tries /\ u.of = t.of /\ u.chain = v.chain
  <2>1. st \in TaskStatus  BY DEF TaskStatus
  <2> HIDE DEF v
  <2>2. QED  BY <1>1, <2>1, WrittenIs
<1> HIDE DEF u, v
<1>3. Calm(t, u)  BY <1>1, <1>2 DEF Calm, Sound
<1>4. Settles(t, u)
  <2> SUFFICES ASSUME Sound(t), Lone(t)
               PROVE  /\ Done(t) /\ t.status \notin OpenStatus => u.status = t.status
                      /\ Settled(t) => Settled(u)
                      /\ Settled(t) /\ Unfinished(u) => Unfinished(t)
    BY DEF Settles
  <2>1. c = 1 /\ DOMAIN t.chain = {1}  BY DEF Lone
  <2>2. ~Done(t)  BY <2>1 DEF Done
  <2>3. Settled(u)  BY <1>1, <1>2, <2>1 DEF Settled
  <2>4. Settled(t) /\ Unfinished(u) => Unfinished(t)
    BY <1>1, <1>2, <2>1 DEF Settled, Unfinished, OpenStatus
  <2>5. QED  BY <2>2, <2>3, <2>4
<1>5. Opens(t, u)  BY <1>2 DEF Opens, OpenStatus
<1>6. QED  BY <1>3, <1>4, <1>5 DEF u, v

LEMMA MarkIsCalm ==
    ASSUME NEW t \in Task
    PROVE  /\ Calm(t, Written(t, "in_progress"))
           /\ t.status \in OpenStatus => /\ Opens(t, Written(t, "in_progress"))
                                        /\ Settles(t, Written(t, "in_progress"))
<1> DEFINE u == Written(t, "in_progress")
<1>1. /\ u.kind = t.kind /\ u.status = "in_progress" /\ u.old = t.old /\ u.stale = FALSE
      /\ u.tries = t.tries /\ u.of = t.of /\ u.chain = t.chain
  BY WrittenIs, "in_progress" \in TaskStatus DEF TaskStatus
<1> HIDE DEF u
<1>2. Calm(t, u)  BY <1>1 DEF Calm, Sound
<1>3. t.status \in OpenStatus => Opens(t, u) /\ Settles(t, u)
  BY <1>1 DEF Opens, Settles, Settled, Unfinished, Done, OpenStatus
<1>4. QED  BY <1>2, <1>3 DEF u

\* A refusal fails a Task that has no chain yet.
LEMMA FailIsCalm ==
    ASSUME NEW t \in Task
    PROVE  /\ Calm(t, Written(t, "failed")) /\ Opens(t, Written(t, "failed"))
           /\ t.chain = <<>> => Settles(t, Written(t, "failed"))
<1> DEFINE u == Written(t, "failed")
<1>1. /\ u.kind = t.kind /\ u.status = "failed" /\ u.old = t.old /\ u.stale = FALSE
      /\ u.tries = t.tries /\ u.of = t.of /\ u.chain = t.chain
  BY WrittenIs, "failed" \in TaskStatus DEF TaskStatus
<1> HIDE DEF u
<1>2. Calm(t, u) /\ Opens(t, u)  BY <1>1 DEF Calm, Sound, Opens, OpenStatus
<1>3. t.chain = <<>> => Settles(t, u)
  BY <1>1 DEF Settles, Settled, Unfinished, Done, OpenStatus
<1>4. QED  BY <1>2, <1>3 DEF u

\* The stale reset fails a Task in progress, which is old then.
LEMMA ResetIsCalm ==
    ASSUME NEW t \in Task, StaleOf(t)
    PROVE  /\ Calm(t, Written(t, "failed")) /\ Opens(t, Written(t, "failed"))
           /\ Settles(t, Written(t, "failed"))
<1> DEFINE u == Written(t, "failed")
<1>1. /\ u.kind = t.kind /\ u.status = "failed" /\ u.old = t.old /\ u.stale = FALSE
      /\ u.tries = t.tries /\ u.of = t.of /\ u.chain = t.chain
  BY WrittenIs, "failed" \in TaskStatus DEF TaskStatus
<1> HIDE DEF u
<1>2. Calm(t, u) /\ Opens(t, u)  BY <1>1 DEF Calm, Sound, Opens, OpenStatus
<1>3. Settles(t, u)
  BY <1>1 DEF Settles, Settled, Unfinished, Sound, OpenStatus, StaleOf
<1>4. QED  BY <1>2, <1>3 DEF u

LEMMA AgedIsCalm ==
    ASSUME NEW t \in Task
    PROVE  LET u == [t EXCEPT !.old = TRUE, !.stale = TRUE] IN
           u \in Task /\ Calm(t, u) /\ Opens(t, u) /\ Settles(t, u)
<1> DEFINE u == [t EXCEPT !.old = TRUE, !.stale = TRUE]
<1>1. u \in Task  BY DEF Task
<1>2. /\ u.kind = t.kind /\ u.status = t.status /\ u.old /\ u.stale
      /\ u.tries = t.tries /\ u.of = t.of /\ u.chain = t.chain
  BY DEF Task
<1> HIDE DEF u
<1>3. Calm(t, u) /\ Opens(t, u)  BY <1>2 DEF Calm, Sound, Opens
<1>4. Settles(t, u)  BY <1>2 DEF Settles, Settled, Unfinished, Done
<1>5. QED  BY <1>1, <1>3, <1>4 DEF u

-----------------------------------------------------------------------------
(* The invariant *)

\* What a worker has picked; what it is at, at these calls; what it holds and has not
\* enqueued; what it has enqueued and not marked.
Picks(w) == {worker[w].picked[i] : i \in DOMAIN worker[w].picked}
Runs(w, pcs) == IF worker[w].pc \in pcs THEN {worker[w].run} ELSE {}
Held(w) == Picks(w) \cup Runs(w, {"timer", "enqueue"})
Marks(w) == Runs(w, {"mark"})

\* A worker holds no Task twice.
Tidy(w) ==
    /\ \A i, j \in DOMAIN worker[w].picked : worker[w].picked[i] = worker[w].picked[j] => i = j
    /\ Picks(w) \cap Runs(w, {"timer", "enqueue", "mark"}) = {}

Ways ==
    \A w \in Worker : /\ worker[w].kind \in {"schedule", "now"}
                      /\ worker[w].back \in {"idle", "list", "take"}
Hands == \A w \in Worker : InHand(w) \subseteq DOMAIN task
Nodes == \A k \in DOMAIN task : task[k].of < k /\ Sound(task[k])

Alone == Without({"exposed", "unmarked"})
Apart == \A v, w \in Worker : v # w => InHand(v) \cap InHand(w) = {}
Fresh == \A w \in Worker : \A k \in Held(w) : task[k].chain = <<>> /\ task[k].status = "created"

\* A Task with a chain is no longer created, or its mark is to come.
Chained ==
    \A k \in DOMAIN task : task[k].chain # <<>> =>
        /\ Len(task[k].chain) = 1
        /\ task[k].status = "created" => \E w \in Worker : k \in Marks(w)
Retried ==
    \A l \in DOMAIN task : task[l].of # 0 =>
        /\ Done(task[task[l].of])
        /\ \A m \in DOMAIN task : task[m].of = task[l].of => l = m

\* What a worker holds is its own, created and without a chain.
Owned == Alone => Apart /\ (\A w \in Worker : Tidy(w)) /\ Fresh /\ Chained /\ Retried

InTime == Without({"exposed", "unmarked", "late"})
Ended ==
    InTime =>
        /\ \A k \in closed : task[k].status \in {"completed", "blocked"} /\ Done(task[k])
        /\ \A l \in DOMAIN task : task[l].of # 0 => task[task[l].of].status = "failed"
        /\ \A k \in DOMAIN task : Settled(task[k])

\* One worker at most is about to propose, and then there is no open scan.
Scanned ==
    Without({"together", "late"}) =>
        /\ \A k, l \in OpenScans : task[k].tries = 0 /\ task[l].tries = 0 => k = l
        /\ \A w \in Worker : worker[w].pc = "propose" =>
              /\ \A k \in OpenScans : task[k].tries # 0
              /\ \A v \in Worker : worker[v].pc = "propose" => v = w

Kept == Ways /\ Hands /\ Nodes
Inv == TypeOK /\ Kept /\ Owned /\ Ended /\ NotStacked /\ Scanned

-----------------------------------------------------------------------------
(* What most steps do, and what it preserves *)

\* A Task that is new: on its own, or the retry of one whose chain ends with the step.
Newborn(t) == t.chain = <<>> /\ t.status = "created" /\ ~t.old /\ ~t.stale
RetryOf(j) ==
    /\ j \in DOMAIN task
    /\ \E c \in DOMAIN task[j].chain : /\ task[j].chain[c].stage = "requeue"
                                       /\ task'[j].chain[c].stage = "over"
    /\ task'[j].status = task[j].status

OnlyNew(n) == \A m \in DOMAIN task' \ DOMAIN task : m = n

TasksGo ==
    /\ slip \subseteq slip'
    /\ DOMAIN task \subseteq DOMAIN task'
    /\ \A k \in DOMAIN task : Calm(task[k], task'[k])
    /\ "late" \notin slip' => \A k \in DOMAIN task : Opens(task[k], task'[k])
    /\ InTime' => \A k \in DOMAIN task : Settles(task[k], task'[k])
    /\ \A n \in DOMAIN task' \ DOMAIN task :
          /\ OnlyNew(n) /\ n > Len(task)
          /\ Newborn(task'[n])
          /\ task'[n].of # 0 => RetryOf(task'[n].of)

HandsGo ==
    \A w \in Worker :
        /\ InHand(w)' \subseteq InHand(w) /\ Held(w)' \subseteq Held(w)
        /\ Tidy(w) => Tidy(w)'

\* No Task that is held is changed, and no mark is lost.
HeldStays == \A w \in Worker : \A k \in Held(w)' : task'[k].status = "created"
MarksStay ==
    \A w \in Worker : \A k \in Marks(w) :
        task'[k].status = "created" => \E v \in Worker : k \in Marks(v)'

LEMMA NodesStay ==
    ASSUME TypeOK, TypeOK', Nodes, TasksGo
    PROVE  Nodes'
<1> SUFFICES ASSUME NEW k \in DOMAIN task' PROVE task'[k].of < k /\ Sound(task'[k])
  BY DEF Nodes
<1>1. CASE k \in DOMAIN task
  <2>1. Calm(task[k], task'[k])  BY <1>1 DEF TasksGo
  <2>2. task[k].of < k /\ Sound(task[k])  BY <1>1 DEF Nodes
  <2>3. QED  BY <2>1, <2>2 DEF Calm
<1>2. CASE k \notin DOMAIN task
  <2>1. /\ Newborn(task'[k]) /\ k > Len(task)
        /\ task'[k].of # 0 => RetryOf(task'[k].of)
    BY <1>2 DEF TasksGo
  <2>2. Sound(task'[k])  BY <2>1 DEF Newborn, Sound
  <2>3. DOMAIN task = 1..Len(task) /\ Len(task) \in Nat /\ k \in Nat  BY DEF TypeOK
  <2>4. task'[k].of # 0 => task'[k].of \in 1..Len(task)  BY <2>1, <2>3 DEF RetryOf
  <2>5. QED  BY <2>1, <2>2, <2>3, <2>4
<1>3. QED  BY <1>1, <1>2

LEMMA SlipStays ==
    ASSUME slip \subseteq slip'
    PROVE  /\ Alone' => Alone
           /\ InTime' => InTime /\ Alone
           /\ \A c : Without(c)' => Without(c)
  BY DEF Alone, InTime, Without

\* Each Task's origin is a Task before it.
LEMMA OfIs ==
    ASSUME TypeOK, Nodes, NEW l \in DOMAIN task, task[l].of # 0
    PROVE  task[l].of \in DOMAIN task
<1>1. DOMAIN task = 1..Len(task) /\ Len(task) \in Nat  BY DEF TypeOK
<1>2. task[l].of \in Nat  BY FieldsAre DEF TypeOK
<1>3. task[l].of < l  BY DEF Nodes
<1>4. QED  BY <1>1, <1>2, <1>3

LEMMA DoneStays ==
    ASSUME NEW t, NEW u, Calm(t, u), t.chain \in Seq(Chain), u.chain \in Seq(Chain), Done(t)
    PROVE  Done(u)
  BY DEF Calm, Done

LEMMA RetriedStays ==
    ASSUME TypeOK, TypeOK', Nodes, TasksGo, Retried, Chained
    PROVE  Retried'
<1>1. ASSUME NEW l \in DOMAIN task
      PROVE  /\ l \in DOMAIN task' /\ task'[l].of = task[l].of
             /\ Done(task[l]) => Done(task'[l])
  <2>1. Calm(task[l], task'[l]) /\ l \in DOMAIN task'  BY DEF TasksGo
  <2>2. task[l].chain \in Seq(Chain) /\ task'[l].chain \in Seq(Chain)
    BY <2>1, FieldsAre DEF TypeOK
  <2>3. QED  BY <2>1, <2>2, DoneStays DEF Calm
\* A chain that asks for a retry is not over: its Task had none.
<1>2. ASSUME NEW n \in DOMAIN task' \ DOMAIN task, task'[n].of # 0
      PROVE  /\ Done(task'[task'[n].of])
             /\ \A l \in DOMAIN task : task[l].of # task'[n].of
  <2> DEFINE j == task'[n].of
  <2>1. RetryOf(j)  BY <1>2 DEF TasksGo
  <2>2. PICK c \in DOMAIN task[j].chain : /\ task[j].chain[c].stage = "requeue"
                                          /\ task'[j].chain[c].stage = "over"
    BY <2>1 DEF RetryOf
  <2>3. j \in DOMAIN task  BY <2>1 DEF RetryOf
  <2> HIDE DEF j
  <2>4. task[j].chain \in Seq(Chain) /\ task[j].chain # <<>>
    BY <2>2, <2>3, FieldsAre DEF TypeOK
  <2>5. Len(task[j].chain) = 1  BY <2>3, <2>4 DEF Chained
  <2>6. c = 1  BY <2>2, <2>4, <2>5
  <2>7. ~Done(task[j])  BY <2>2, <2>6 DEF Done
  <2>8. \A l \in DOMAIN task : task[l].of # j
    <3> SUFFICES ASSUME NEW l \in DOMAIN task, task[l].of = j PROVE FALSE
      OBVIOUS
    <3>1. j # 0  BY <1>2 DEF j
    <3>2. QED  BY <3>1, <2>7 DEF Retried
  <2>9. Calm(task[j], task'[j])  BY <2>3 DEF TasksGo
  <2>10. task'[j].chain # <<>>  BY <2>9, <2>2 DEF Calm
  <2>11. Done(task'[j])  BY <2>10, <2>2, <2>6 DEF Done
  <2>12. QED  BY <2>8, <2>11 DEF j
<1> SUFFICES ASSUME NEW l \in DOMAIN task', task'[l].of # 0
             PROVE  /\ Done(task'[task'[l].of])
                    /\ \A m \in DOMAIN task' : task'[m].of = task'[l].of => l = m
  BY DEF Retried
<1>3. CASE l \in DOMAIN task
  <2>1. task[l].of # 0 /\ task[l].of = task'[l].of  BY <1>1, <1>3
  <2>2. task[l].of \in DOMAIN task  BY <1>3, <2>1, OfIs
  <2>3. Done(task[task[l].of])  BY <1>3, <2>1 DEF Retried
  <2>4. Done(task'[task'[l].of])  BY <1>1, <2>1, <2>2, <2>3
  <2>5. ASSUME NEW m \in DOMAIN task', task'[m].of = task'[l].of PROVE l = m
    <3>1. CASE m \in DOMAIN task
      <4>1. task[m].of = task[l].of  BY <1>1, <2>1, <2>5, <3>1
      <4>2. QED  BY <1>3, <2>1, <3>1, <4>1 DEF Retried
    <3>2. CASE m \notin DOMAIN task
      BY <3>2, <2>5, <1>2, <1>3, <2>1
    <3>3. QED  BY <3>1, <3>2
  <2>6. QED  BY <2>4, <2>5
<1>4. CASE l \notin DOMAIN task
  <2>1. Done(task'[task'[l].of])  BY <1>2, <1>4
  <2>2. ASSUME NEW m \in DOMAIN task', task'[m].of = task'[l].of PROVE l = m
    <3>1. CASE m \in DOMAIN task  BY <1>1, <1>2, <1>4, <2>2, <3>1
    <3>2. CASE m \notin DOMAIN task  BY <1>4, <3>2 DEF TasksGo, OnlyNew
    <3>3. QED  BY <3>1, <3>2
  <2>3. QED  BY <2>1, <2>2
<1>5. QED  BY <1>3, <1>4

LEMMA ChainedStays ==
    ASSUME TypeOK, TypeOK', TasksGo, MarksStay, Chained
    PROVE  Chained'
<1> SUFFICES ASSUME NEW k \in DOMAIN task', task'[k].chain # <<>>
             PROVE  /\ Len(task'[k].chain) = 1
                    /\ task'[k].status = "created" => \E w \in Worker : k \in Marks(w)'
  BY DEF Chained
<1>1. k \in DOMAIN task  BY DEF TasksGo, Newborn
<1>2. Calm(task[k], task'[k])  BY <1>1 DEF TasksGo
<1>3. task[k].chain # <<>> /\ Len(task'[k].chain) = Len(task[k].chain)
  BY <1>1, <1>2, FieldsAre DEF Calm, TypeOK
<1>4. Len(task'[k].chain) = 1  BY <1>1, <1>3 DEF Chained
<1>5. ASSUME task'[k].status = "created" PROVE \E w \in Worker : k \in Marks(w)'
  <2>1. task[k].status = "created"  BY <1>2, <1>5 DEF Calm
  <2>2. PICK w \in Worker : k \in Marks(w)  BY <1>1, <1>3, <2>1 DEF Chained
  <2>3. QED  BY <1>5, <2>2 DEF MarksStay
<1>6. QED  BY <1>4, <1>5

LEMMA FreshStays ==
    ASSUME TypeOK, TypeOK', Hands, TasksGo, HandsGo, HeldStays, Fresh
    PROVE  Fresh'
<1> SUFFICES ASSUME NEW w \in Worker, NEW k \in Held(w)'
             PROVE  task'[k].chain = <<>> /\ task'[k].status = "created"
  BY DEF Fresh
<1>1. k \in Held(w)  BY DEF HandsGo
<1>2. k \in InHand(w)  BY <1>1 DEF Held, InHand, Picks, Runs
<1>3. k \in DOMAIN task /\ k \in DOMAIN task'  BY <1>2 DEF Hands, TasksGo
<1>4. task[k].chain = <<>>  BY <1>1 DEF Fresh
<1>5. Calm(task[k], task'[k])  BY <1>3 DEF TasksGo
<1>6. task'[k].chain \in Seq(Chain)  BY <1>3, FieldsAre DEF TypeOK
<1>7. task'[k].chain = <<>>  BY <1>4, <1>5, <1>6 DEF Calm
<1>8. QED  BY <1>7 DEF HeldStays

LEMMA OwnedStays ==
    ASSUME TypeOK, TypeOK', Kept, Owned, TasksGo, HandsGo, Alone' => HeldStays /\ MarksStay
    PROVE  Owned'
<1> SUFFICES ASSUME Alone'
             PROVE  (Apart /\ (\A w \in Worker : Tidy(w)) /\ Fresh /\ Chained /\ Retried)'
  BY DEF Owned
<1>1. Apart /\ (\A w \in Worker : Tidy(w)) /\ Fresh /\ Chained /\ Retried
  BY SlipStays DEF TasksGo, Owned
<1>2. Apart'  BY <1>1 DEF Apart, HandsGo
<1>3. (\A w \in Worker : Tidy(w))'  BY <1>1 DEF HandsGo
<1>4. Fresh'  BY <1>1, FreshStays DEF Kept
<1>5. Chained'  BY <1>1, ChainedStays
<1>6. Retried'  BY <1>1, RetriedStays DEF Kept
<1>7. QED  BY <1>2, <1>3, <1>4, <1>5, <1>6

\* Under the same conditions, an ended Task stays as it is.
LEMMA EndedOnes ==
    ASSUME TypeOK, TypeOK', Kept, Owned, Ended, TasksGo, InTime', NEW k \in DOMAIN task
    PROVE  /\ k \in DOMAIN task'
           /\ Calm(task[k], task'[k])
           /\ Settled(task'[k])
           /\ Unfinished(task'[k]) => Unfinished(task[k])
           /\ Done(task[k]) => Done(task'[k])
           /\ Done(task[k]) /\ task[k].status \notin OpenStatus => task'[k].status = task[k].status
<1>1. k \in DOMAIN task' /\ Calm(task[k], task'[k]) /\ Settles(task[k], task'[k])
  BY DEF TasksGo
<1>2. task[k].chain \in Seq(Chain) /\ task'[k].chain \in Seq(Chain)
  BY <1>1, FieldsAre DEF TypeOK
<1>3. Alone /\ InTime  BY SlipStays DEF TasksGo
<1>4. Lone(task[k])
  <2>1. CASE task[k].chain = <<>>  BY <2>1 DEF Lone
  <2>2. CASE task[k].chain # <<>>
    <3>1. Len(task[k].chain) = 1  BY <1>3, <2>2 DEF Owned, Chained
    <3>2. DOMAIN task[k].chain = 1..Len(task[k].chain)  BY <1>2
    <3>3. QED  BY <3>1, <3>2 DEF Lone
  <2>3. QED  BY <2>1, <2>2
<1>5. Sound(task[k])  BY DEF Kept, Nodes
<1>6. Settled(task[k])  BY <1>3 DEF Ended
<1>7. Done(task[k]) => Done(task'[k])  BY <1>1, <1>2, DoneStays
<1>8. QED  BY <1>1, <1>4, <1>5, <1>6, <1>7 DEF Settles

LEMMA EndedStays ==
    ASSUME TypeOK, TypeOK', Kept, Owned, Ended, TasksGo,
           InTime' => \A k \in closed' \ closed :
              task'[k].status \in {"completed", "blocked"} /\ Done(task'[k])
    PROVE  Ended'
<1> SUFFICES ASSUME InTime'
             PROVE  /\ \A k \in closed' : task'[k].status \in {"completed", "blocked"} /\ Done(task'[k])
                    /\ \A l \in DOMAIN task' : task'[l].of # 0 => task'[task'[l].of].status = "failed"
                    /\ \A k \in DOMAIN task' : Settled(task'[k])
  BY DEF Ended
<1>1. Alone /\ InTime  BY SlipStays DEF TasksGo
<1>2. ASSUME NEW k \in closed' PROVE task'[k].status \in {"completed", "blocked"} /\ Done(task'[k])
  <2>1. CASE k \in closed
    <3>1. k \in DOMAIN task  BY <2>1 DEF TypeOK
    <3>2. task[k].status \in {"completed", "blocked"} /\ Done(task[k])  BY <1>1, <2>1 DEF Ended
    <3>3. task[k].status \notin OpenStatus  BY <3>2 DEF OpenStatus
    <3>4. QED  BY <3>1, <3>2, <3>3, EndedOnes
  <2>2. QED  BY <1>2, <2>1
<1>3. ASSUME NEW l \in DOMAIN task', task'[l].of # 0 PROVE task'[task'[l].of].status = "failed"
  <2>1. CASE l \in DOMAIN task
    <3>1. task'[l].of = task[l].of  BY <2>1 DEF TasksGo, Calm
    <3>2. task[l].of \in DOMAIN task  BY <1>3, <2>1, <3>1, OfIs DEF Kept
    <3>3. Done(task[task[l].of])  BY <1>1, <1>3, <2>1, <3>1 DEF Owned, Retried
    <3>4. task[task[l].of].status = "failed"  BY <1>1, <1>3, <2>1, <3>1 DEF Ended
    <3>5. task[task[l].of].status \notin OpenStatus  BY <3>4 DEF OpenStatus
    <3>6. QED  BY <3>1, <3>2, <3>3, <3>4, <3>5, EndedOnes
  <2>2. CASE l \notin DOMAIN task
    <3> DEFINE j == task'[l].of
    <3>1. RetryOf(j)  BY <1>3, <2>2 DEF TasksGo
    <3>2. j \in DOMAIN task /\ task'[j].status = task[j].status  BY <3>1 DEF RetryOf
    <3>3. PICK c \in DOMAIN task[j].chain : task[j].chain[c].stage = "requeue"  BY <3>1 DEF RetryOf
    <3>4. Settled(task[j])  BY <1>1, <3>2 DEF Ended
    <3>5. task[j].status = "failed"  BY <3>3, <3>4 DEF Settled
    <3>6. QED  BY <3>2, <3>5
  <2>3. QED  BY <2>1, <2>2
<1>4. ASSUME NEW k \in DOMAIN task' PROVE Settled(task'[k])
  <2>1. CASE k \in DOMAIN task  BY <2>1, EndedOnes
  <2>2. CASE k \notin DOMAIN task  BY <1>4, <2>2 DEF TasksGo, Newborn, Settled
  <2>3. QED  BY <2>1, <2>2
<1>5. QED  BY <1>2, <1>3, <1>4

LEMMA LiveIs ==
    ASSUME NEW k
    PROVE  k \in Live <=> k \in DOMAIN task /\ task[k].kind # "scan" /\ Unfinished(task[k])
  BY DEF Live, Unfinished

\* A Task that is live now was, or is new.
LEMMA NotStackedStays ==
    ASSUME TypeOK, TypeOK', Kept, Owned, Ended, NotStacked, TasksGo,
           \A n \in DOMAIN task' \ DOMAIN task :
              task'[n].kind = "schedule" /\ task'[n].tries = 0 /\ "raced" \notin slip' => Live = {}
    PROVE  NotStacked'
<1> SUFFICES ASSUME Without({"raced", "exposed", "unmarked", "late"})',
                    NEW k \in Live', NEW l \in Live', k < l,
                    task'[l].kind = "schedule", task'[l].tries = 0
             PROVE  FALSE
  BY DEF NotStacked
<1>1. Without({"raced", "exposed", "unmarked", "late"}) /\ InTime' /\ "raced" \notin slip'
  BY DEF Without, InTime, TasksGo
<1>2. ASSUME NEW m \in Live', m \in DOMAIN task
      PROVE  m \in Live /\ task'[m].kind = task[m].kind /\ task'[m].tries = task[m].tries
  <2>1. task'[m].kind # "scan" /\ Unfinished(task'[m])  BY DEF Live, Unfinished
  <2>2. Calm(task[m], task'[m]) /\ Unfinished(task[m])  BY <1>1, <1>2, <2>1, EndedOnes
  <2>3. QED  BY <1>2, <2>1, <2>2, LiveIs DEF Calm
<1>3. k \in DOMAIN task' /\ l \in DOMAIN task'  BY DEF Live
<1>4. k \in DOMAIN task
  <2> SUFFICES ASSUME k \notin DOMAIN task PROVE FALSE
    OBVIOUS
  <2>1. k > Len(task) /\ OnlyNew(k)  BY <1>3 DEF TasksGo
  <2>2. l = k \/ l \in DOMAIN task  BY <1>3, <2>1 DEF OnlyNew
  <2>3. k \in Nat /\ l \in Nat /\ DOMAIN task = 1..Len(task) /\ Len(task) \in Nat
    BY <1>3 DEF TypeOK
  <2>4. QED  BY <2>1, <2>2, <2>3
<1>5. CASE l \in DOMAIN task
  <2>1. k \in Live /\ l \in Live /\ task[l].kind = "schedule" /\ task[l].tries = 0
    BY <1>2, <1>4, <1>5
  <2>2. QED  BY <1>1, <2>1 DEF NotStacked
<1>6. CASE l \notin DOMAIN task
  <2>1. Live = {}  BY <1>1, <1>3, <1>6
  <2>2. QED  BY <1>2, <1>4, <2>1
<1>7. QED  BY <1>5, <1>6

LEMMA ScansStay ==
    ASSUME TypeOK, TypeOK', TasksGo, "late" \notin slip', NEW k \in OpenScans', k \in DOMAIN task
    PROVE  k \in OpenScans /\ task'[k].tries = task[k].tries
<1>1. Calm(task[k], task'[k]) /\ Opens(task[k], task'[k])  BY DEF TasksGo
<1>2. QED  BY <1>1 DEF OpenScans, Calm, Opens

LEMMA ScannedStays ==
    ASSUME TypeOK, TypeOK', TasksGo, Scanned,
           \A n \in DOMAIN task' \ DOMAIN task : task'[n].kind = "scan" => task'[n].tries # 0,
           \A w \in Worker : worker'[w].pc = "propose" => worker[w].pc = "propose"
    PROVE  Scanned'
<1> SUFFICES ASSUME Without({"together", "late"})'
             PROVE  /\ \A k, l \in OpenScans' : task'[k].tries = 0 /\ task'[l].tries = 0 => k = l
                    /\ \A w \in Worker : worker'[w].pc = "propose" =>
                          /\ \A k \in OpenScans' : task'[k].tries # 0
                          /\ \A v \in Worker : worker'[v].pc = "propose" => v = w
  BY DEF Scanned
<1>1. Without({"together", "late"}) /\ "late" \notin slip'  BY DEF Without, TasksGo
<1>2. ASSUME NEW k \in OpenScans', task'[k].tries = 0
      PROVE  k \in OpenScans /\ task[k].tries = 0
  <2>1. k \in DOMAIN task' /\ task'[k].kind = "scan"  BY DEF OpenScans
  <2>2. k \in DOMAIN task  BY <1>2, <2>1
  <2>3. QED  BY <1>1, <1>2, <2>2, ScansStay
<1>3. QED  BY <1>1, <1>2 DEF Scanned

-----------------------------------------------------------------------------
(* Types *)

LEMMA IdleIs ==
    /\ Idle \in Work
    /\ \A p \in Pc : [Idle EXCEPT !.pc = p] \in Work
    /\ \A p \in Pc, k \in Kind : [Idle EXCEPT !.pc = p, !.kind = k] \in Work
<1>1. <<>> \in Seq(Nat)  OBVIOUS
<1>2. "idle" \in Pc /\ "schedule" \in Kind /\ 0 \in Nat  BY DEF Pc, Kind
<1>3. Idle \in Work  BY <1>1, <1>2 DEF Idle, Work
<1>4. \A p \in Pc : [Idle EXCEPT !.pc = p] \in Work  BY <1>3 DEF Work
<1>5. \A p \in Pc, k \in Kind : [Idle EXCEPT !.pc = p, !.kind = k] \in Work
  BY <1>3 DEF Work
<1>6. QED  BY <1>3, <1>4, <1>5

LEMMA ToIs ==
    ASSUME TypeOK, NEW w \in Worker, NEW p \in Pc, To(w, p)
    PROVE  /\ worker' \in [Worker -> Work]
           /\ \A v \in Worker : v # w => worker'[v] = worker[v]
           /\ worker'[w].pc = p /\ worker'[w].run = worker[w].run
           /\ worker'[w].picked = worker[w].picked
           /\ worker'[w].kind = worker[w].kind /\ worker'[w].back = worker[w].back
  BY DEF To, TypeOK, Work

LEMMA GoBackIs ==
    ASSUME TypeOK, NEW w \in Worker, GoBack(w)
    PROVE  /\ worker' \in [Worker -> Work]
           /\ \A v \in Worker : v # w => worker'[v] = worker[v]
           /\ worker'[w].pc = worker[w].back /\ worker'[w].run = 0
           /\ worker'[w].picked = worker[w].picked
           /\ worker'[w].kind = "schedule" /\ worker'[w].back = "idle"
<1> DEFINE r == worker[w]
           g == [r EXCEPT !.pc = r.back, !.run = 0, !.back = "idle", !.kind = "schedule"]
<1>1. r \in Work /\ worker \in [Worker -> Work]  BY DEF TypeOK
<1>2. "idle" \in Pc /\ "schedule" \in Kind  BY DEF Pc, Kind
<1> HIDE DEF r
<1>3. /\ g \in Work
      /\ g.pc = r.back /\ g.run = 0 /\ g.picked = r.picked /\ g.kind = "schedule" /\ g.back = "idle"
  BY <1>1, <1>2 DEF Work
<1>4. worker' = [worker EXCEPT ![w] = g]  BY DEF GoBack, r
<1> HIDE DEF g
<1>5. QED  BY <1>1, <1>3, <1>4 DEF r

LEMMA FinishIs ==
    ASSUME TypeOK, NEW w \in Worker, Finish(w)
    PROVE  /\ worker' \in [Worker -> Work]
           /\ \A v \in Worker : v # w => worker'[v] = worker[v]
           /\ worker'[w] = Idle
  BY IdleIs DEF Finish, TypeOK

LEMMA SpendIs ==
    ASSUME TypeOK, NEW o, Spend(o)
    PROVE  used' \in 0..Total
  BY SchedulerAssumption DEF Spend, TypeOK

LEMMA SlipsIs ==
    ASSUME TypeOK, NEW what \in {"exposed", "unmarked", "late", "raced", "together"},
           NEW when \in BOOLEAN, Slips(what, when)
    PROVE  slip' \subseteq {"exposed", "unmarked", "late", "raced", "together"}
  BY DEF Slips, TypeOK

LEMMA CreatedIs ==
    ASSUME NEW kind \in Kind, NEW tries \in Nat, NEW of \in Nat
    PROVE  LET t == Created(kind, tries, of) IN
           /\ t \in Task /\ Newborn(t)
           /\ t.kind = kind /\ t.tries = tries /\ t.of = of
  BY DEF Created, Task, TaskStatus, Newborn

LEMMA AppendIs ==
    ASSUME NEW q \in Seq(Task), NEW t \in Task
    PROVE  LET p == Append(q, t) IN
           /\ p \in Seq(Task) /\ Len(p) = Len(q) + 1 /\ DOMAIN p = DOMAIN q \cup {Len(q) + 1}
           /\ p[Len(q) + 1] = t /\ \A k \in DOMAIN q : p[k] = q[k]
  OBVIOUS

LEMMA InitTyped == Init => TypeOK
<1> SUFFICES ASSUME Init PROVE TypeOK
  OBVIOUS
<1>1. Halted \in Task
  <2>1. Created("schedule", 0, 0) \in Task  BY CreatedIs DEF Kind
  <2>2. <<[stage |-> "over", closes |-> "blocked"]>> \in Seq(Chain)  BY DEF Chain, Stage
  <2>3. QED  BY <2>1, <2>2 DEF Halted, Task, TaskStatus
<1>2. Created("submitted", 0, 0) \in Task  BY CreatedIs DEF Kind
<1>3. \A t \in Task : <<t>> \in Seq(Task)  OBVIOUS
<1>4. task = <<Halted>> \/ task = <<Created("submitted", 0, 0)>>  BY DEF Init
<1>5. task \in Seq(Task)  BY <1>1, <1>2, <1>3, <1>4
<1>6. worker \in [Worker -> Work]  BY IdleIs DEF Init
<1>7. closed \subseteq DOMAIN task  BY DEF Init
<1>8. due \in BOOLEAN /\ enabled \in BOOLEAN /\ errors \in Nat /\ slip = {}
  BY DEF Init
<1>9. used \in 0..Total  BY SchedulerAssumption DEF Init
<1>10. QED  BY <1>5, <1>6, <1>7, <1>8, <1>9 DEF TypeOK

\* What SetTo, FailedIfOpen and the stages of a chain leave.
LEMMA WrittenTyped ==
    ASSUME TypeOK, NEW k \in DOMAIN task, NEW s \in TaskStatus
    PROVE  /\ SetTo(k, s) \in Seq(Task) /\ DOMAIN SetTo(k, s) = DOMAIN task
           /\ SetTo(k, s)[k] = Written(task[k], s)
           /\ \A l \in DOMAIN task : l # k => SetTo(k, s)[l] = task[l]
<1>1. task \in Seq(Task) /\ task[k] \in Task  BY FieldsAre DEF TypeOK
<1>2. Written(task[k], s) \in Task  BY <1>1, WrittenIs
<1>3. SetTo(k, s) = [task EXCEPT ![k] = Written(task[k], s)]  BY SetToIs
<1>4. QED  BY <1>1, <1>2, <1>3, PutIs

LEMMA StagesTyped ==
    ASSUME TypeOK, NEW k \in DOMAIN task, NEW c \in DOMAIN task[k].chain, NEW s \in Stage
    PROVE  /\ Stages(k, c, s) \in Seq(Task) /\ DOMAIN Stages(k, c, s) = DOMAIN task
           /\ Len(Stages(k, c, s)) = Len(task)
           /\ Staged(task[k], c, s) \in Task
           /\ Stages(k, c, s)[k] = Staged(task[k], c, s)
           /\ \A l \in DOMAIN task : l # k => Stages(k, c, s)[l] = task[l]
<1>1. task \in Seq(Task) /\ task[k] \in Task  BY FieldsAre DEF TypeOK
<1>2. Staged(task[k], c, s) \in Task  BY <1>1, StagedIs
<1>3. Stages(k, c, s) = [task EXCEPT ![k] = Staged(task[k], c, s)]  BY StagesIs
<1>4. QED  BY <1>1, <1>2, <1>3, PutIs

Ends(k, c, s, st) == [Stages(k, c, s) EXCEPT ![k].status = st, ![k].stale = FALSE]

LEMMA EndsTyped ==
    ASSUME TypeOK, NEW k \in DOMAIN task, NEW c \in DOMAIN task[k].chain, NEW s \in Stage,
           NEW st \in TaskStatus
    PROVE  LET q == Ends(k, c, s, st)
               u == Written(Staged(task[k], c, s), st)
           IN  /\ q \in Seq(Task) /\ DOMAIN q = DOMAIN task
               /\ q[k] = u /\ \A l \in DOMAIN task : l # k => q[l] = task[l]
<1> DEFINE p == Stages(k, c, s)
           u == Written(Staged(task[k], c, s), st)
           q == Ends(k, c, s, st)
<1>1. /\ p \in Seq(Task) /\ DOMAIN p = DOMAIN task
      /\ Staged(task[k], c, s) \in Task /\ p[k] = Staged(task[k], c, s)
      /\ \A l \in DOMAIN task : l # k => p[l] = task[l]
  BY StagesTyped
<1>2. u \in Task  BY <1>1, WrittenIs
<1>3. q = [p EXCEPT ![k].status = st, ![k].stale = FALSE]  BY DEF Ends
<1> HIDE DEF p, q
<1>4. q = [p EXCEPT ![k] = Written(p[k], st)]  BY <1>1, <1>3 DEF Written, Task
<1>5. q = [p EXCEPT ![k] = u]  BY <1>1, <1>4
<1> HIDE DEF u
<1>6. q \in Seq(Task) /\ DOMAIN q = DOMAIN p /\ q[k] = u /\ \A l \in DOMAIN p : l # k => q[l] = p[l]
  BY <1>1, <1>2, <1>5, PutIs
<1>7. QED  BY <1>1, <1>6 DEF p, q, u

\* A chain that dies: the Task is failed, if it is open, and the chain is over.
LEMMA DiesTyped ==
    ASSUME TypeOK, NEW k \in DOMAIN task, NEW c \in DOMAIN task[k].chain
    PROVE  LET q == [FailedIfOpen(k) EXCEPT ![k].chain[c].stage = "over"] IN
           /\ q \in Seq(Task) /\ DOMAIN q = DOMAIN task
           /\ q[k] = IF task[k].status \in OpenStatus
                     THEN Written(Staged(task[k], c, "over"), "failed")
                     ELSE Staged(task[k], c, "over")
           /\ \A l \in DOMAIN task : l # k => q[l] = task[l]
<1> DEFINE p == FailedIfOpen(k)
           q == [p EXCEPT ![k].chain[c].stage = "over"]
<1>1. "failed" \in TaskStatus /\ "over" \in Stage  BY DEF TaskStatus, Stage
<1> SUFFICES /\ q \in Seq(Task) /\ DOMAIN q = DOMAIN task
             /\ q[k] = IF task[k].status \in OpenStatus
                       THEN Written(Staged(task[k], c, "over"), "failed")
                       ELSE Staged(task[k], c, "over")
             /\ \A l \in DOMAIN task : l # k => q[l] = task[l]
  OBVIOUS
<1>2. CASE task[k].status \in OpenStatus
  <2> DEFINE t == task[k]
             r == Written(t, "failed")
             u == Staged(r, c, "over")
  <2>1. p = SetTo(k, "failed")  BY <1>2 DEF FailedIfOpen
  <2>2. /\ p \in Seq(Task) /\ DOMAIN p = DOMAIN task /\ p[k] = r
        /\ \A l \in DOMAIN task : l # k => p[l] = task[l]
    BY <1>1, <2>1, WrittenTyped
  <2>3. t \in Task  BY FieldsAre DEF TypeOK
  <2> HIDE DEF p
  <2>4. q = [p EXCEPT ![k] = Staged(p[k], c, "over")]
    BY <2>2 DEF Staged, Task, Chain
  <2>5. q = [p EXCEPT ![k] = u]  BY <2>2, <2>4
  <2>6. u = Written(Staged(t, c, "over"), "failed")
    BY <2>3 DEF Staged, Written, Task
  <2>7. c \in DOMAIN t.chain  OBVIOUS
  <2> HIDE DEF t
  <2>8. r \in Task /\ r.chain = t.chain  BY <1>1, <2>3, WrittenIs
  <2> HIDE DEF r
  <2>9. u \in Task  BY <1>1, <2>7, <2>8, StagedIs
  <2> HIDE DEF u
  <2>10. /\ q \in Seq(Task) /\ DOMAIN q = DOMAIN p
         /\ q[k] = u /\ \A l \in DOMAIN p : l # k => q[l] = p[l]
    BY <2>2, <2>5, <2>9, PutIs
  <2> HIDE DEF q
  <2>11. q[k] = Written(Staged(task[k], c, "over"), "failed")  BY <2>6, <2>10 DEF t
  <2>12. QED  BY <1>2, <2>2, <2>10, <2>11
<1>3. CASE task[k].status \notin OpenStatus
  <2>1. p = task  BY <1>3 DEF FailedIfOpen
  <2>2. q = Stages(k, c, "over")  BY <2>1 DEF Stages
  <2> HIDE DEF q
  <2>3. QED  BY <1>1, <1>3, <2>2, StagesTyped
<1>4. QED  BY <1>2, <1>3

-----------------------------------------------------------------------------
(* The invariant is preserved by a step that goes on as above *)

NewTasks ==
    \A n \in DOMAIN task' \ DOMAIN task :
        /\ task'[n].kind = "schedule" /\ task'[n].tries = 0 /\ "raced" \notin slip' => Live = {}
        /\ task'[n].kind = "scan" => task'[n].tries # 0
NewlyClosed ==
    InTime' => \A k \in closed' \ closed :
        task'[k].status \in {"completed", "blocked"} /\ Done(task'[k])
NoneProposes == \A w \in Worker : worker'[w].pc = "propose" => worker[w].pc = "propose"

LEMMA HandsStay ==
    ASSUME Hands, TasksGo, HandsGo
    PROVE  Hands'
  BY DEF Hands, TasksGo, HandsGo

LEMMA TasksKeep ==
    ASSUME Inv, TypeOK', Ways', Hands', Owned', Scanned', TasksGo,
           \A n \in DOMAIN task' \ DOMAIN task :
              task'[n].kind = "schedule" /\ task'[n].tries = 0 /\ "raced" \notin slip' => Live = {},
           NewlyClosed
    PROVE  Inv'
<1>1. Kept'  BY NodesStay DEF Inv, Kept
<1>2. Ended'  BY EndedStays DEF Inv, NewlyClosed
<1>3. NotStacked'  BY NotStackedStays DEF Inv
<1>4. QED  BY <1>1, <1>2, <1>3 DEF Inv

LEMMA StepKeeps ==
    ASSUME Inv, TypeOK', Ways', TasksGo, HandsGo, Alone' => HeldStays /\ MarksStay,
           NewTasks, NewlyClosed, NoneProposes
    PROVE  Inv'
<1>1. Hands'  BY HandsStay DEF Inv, Kept
<1>2. Owned'  BY OwnedStays DEF Inv
<1>3. Scanned'  BY ScannedStays DEF Inv, NewTasks, NoneProposes
<1>4. QED  BY <1>1, <1>2, <1>3, TasksKeep DEF NewTasks

LEMMA SameTasksGo ==
    ASSUME UNCHANGED task, slip \subseteq slip'
    PROVE  TasksGo /\ NewTasks
<1>1. \A k \in DOMAIN task : /\ Calm(task[k], task'[k])
                            /\ Opens(task[k], task'[k]) /\ Settles(task[k], task'[k])
  BY SameIsCalm
<1>2. QED  BY <1>1 DEF TasksGo, NewTasks

LEMMA OneTaskGoes ==
    ASSUME NEW k \in DOMAIN task, DOMAIN task' = DOMAIN task,
           \A l \in DOMAIN task : l # k => task'[l] = task[l],
           Calm(task[k], task'[k]),
           "late" \notin slip' => Opens(task[k], task'[k]),
           InTime' => Settles(task[k], task'[k]),
           slip \subseteq slip'
    PROVE  TasksGo /\ NewTasks
<1>1. \A l \in DOMAIN task : l # k => /\ Calm(task[l], task'[l])
                                     /\ Opens(task[l], task'[l]) /\ Settles(task[l], task'[l])
  BY SameIsCalm
<1>2. QED  BY <1>1 DEF TasksGo, NewTasks

LEMMA AppendGoes ==
    ASSUME TypeOK, NEW kind \in Kind, task' = Append(task, Created(kind, 0, 0)),
           slip \subseteq slip'
    PROVE  /\ task' \in Seq(Task) /\ DOMAIN task \subseteq DOMAIN task'
           /\ DOMAIN task' \ DOMAIN task = {Len(task) + 1}
           /\ DOMAIN task' = DOMAIN task \cup {Len(task) + 1}
           /\ task'[Len(task) + 1] = Created(kind, 0, 0)
           /\ task'[Len(task) + 1].kind = kind
           /\ Newborn(task'[Len(task) + 1])
           /\ \A k \in DOMAIN task : task'[k] = task[k]
           /\ TasksGo
<1>1. /\ Created(kind, 0, 0) \in Task /\ Newborn(Created(kind, 0, 0))
      /\ Created(kind, 0, 0).kind = kind /\ Created(kind, 0, 0).of = 0
  BY CreatedIs
<1>2. task \in Seq(Task) /\ Len(task) \in Nat /\ DOMAIN task = 1..Len(task)  BY DEF TypeOK
<1>3. /\ task' \in Seq(Task) /\ DOMAIN task' = DOMAIN task \cup {Len(task) + 1}
      /\ task'[Len(task) + 1] = Created(kind, 0, 0) /\ \A k \in DOMAIN task : task'[k] = task[k]
  BY <1>1, <1>2, AppendIs
<1>4. DOMAIN task' \ DOMAIN task = {Len(task) + 1}  BY <1>2, <1>3
<1>5. \A k \in DOMAIN task : /\ Calm(task[k], task'[k])
                            /\ Opens(task[k], task'[k]) /\ Settles(task[k], task'[k])
  BY <1>3, SameIsCalm
<1>6. \A n \in DOMAIN task' \ DOMAIN task : OnlyNew(n) /\ n > Len(task)
  BY <1>2, <1>4 DEF OnlyNew
<1>7. TasksGo  BY <1>1, <1>3, <1>4, <1>5, <1>6 DEF TasksGo
<1>8. QED  BY <1>1, <1>3, <1>4, <1>7

\* The workers rest in a step of somebody else.
LEMMA SameHandsGo ==
    ASSUME UNCHANGED worker, Ways
    PROVE  HandsGo /\ MarksStay /\ NoneProposes /\ Ways'
  BY DEF HandsGo, MarksStay, NoneProposes, Ways, InHand, Held, Picks, Runs, Tidy, Marks

LEMMA HeldIsIn ==
    ASSUME Hands, NEW w \in Worker, NEW k \in Held(w)
    PROVE  k \in DOMAIN task /\ k \in InHand(w)
  BY DEF Hands, Held, InHand, Picks, Runs

\* As long as what has no chain and is created stays created, what is held does.
LEMMA HeldStaysIf ==
    ASSUME Hands, Fresh, HandsGo,
           \A k \in DOMAIN task : task[k].chain = <<>> /\ task[k].status = "created" =>
                task'[k].status = "created"
    PROVE  HeldStays
<1> SUFFICES ASSUME NEW w \in Worker, NEW k \in Held(w)' PROVE task'[k].status = "created"
  BY DEF HeldStays
<1>1. k \in Held(w)  BY DEF HandsGo
<1>2. QED  BY <1>1, HeldIsIn DEF Fresh

-----------------------------------------------------------------------------
(* The chains *)

Slip == {"exposed", "unmarked", "late", "raced", "together"}

LEMMA ChainMoves ==
    ASSUME Inv, ChainFrame, NEW k \in DOMAIN task, NEW c \in DOMAIN task[k].chain,
           task' \in Seq(Task), DOMAIN task' = DOMAIN task,
           \A l \in DOMAIN task : l # k => task'[l] = task[l],
           Calm(task[k], task'[k]),
           Opens(task[k], task'[k]),
           InTime' => Settles(task[k], task'[k]),
           slip \subseteq slip', slip' \subseteq Slip, used' \in 0..Total,
           closed' \subseteq DOMAIN task, NewlyClosed
    PROVE  Inv'
<1>1. TypeOK /\ Hands /\ Ways /\ Owned  BY DEF Inv, Kept
<1>2. TypeOK'  BY <1>1 DEF TypeOK, ChainFrame, Slip
<1>3. TasksGo /\ NewTasks  BY OneTaskGoes
<1>4. HandsGo /\ MarksStay /\ NoneProposes /\ Ways'  BY <1>1, SameHandsGo DEF ChainFrame
<1>5. task[k].chain # <<>>  BY <1>1, FieldsAre DEF TypeOK
<1>6. Alone' => HeldStays
  <2> SUFFICES ASSUME Alone' PROVE HeldStays
    OBVIOUS
  <2>1. Fresh  BY <1>1, SlipStays DEF Owned
  <2>2. QED  BY <1>1, <1>4, <1>5, <2>1, HeldStaysIf
<1>7. QED  BY <1>2, <1>3, <1>4, <1>6, StepKeeps

LEMMA ChainFacts ==
    ASSUME Inv, NEW k \in DOMAIN task, NEW c \in DOMAIN task[k].chain
    PROVE  /\ TypeOK /\ task[k] \in Task /\ task[k].chain[c] \in Chain
           /\ Sound(task[k]) /\ slip \subseteq Slip /\ closed \subseteq DOMAIN task
           /\ used \in 0..Total
<1>1. TypeOK  BY DEF Inv
<1>2. task[k] \in Task /\ task[k].chain \in Seq(Chain)  BY <1>1, FieldsAre DEF TypeOK
<1>3. QED  BY <1>1, <1>2 DEF Inv, Kept, Nodes, TypeOK, Slip

LEMMA SlipsGrows ==
    ASSUME slip \subseteq Slip, NEW what \in Slip, NEW when, Slips(what, when)
    PROVE  slip \subseteq slip' /\ slip' \subseteq Slip
  BY DEF Slips

LEMMA WorkDoneKeeps ==
    ASSUME Inv, NEW k \in DOMAIN task, NEW c \in DOMAIN task[k].chain, WorkDone(k, c)
    PROVE  Inv'
<1>1. PICK s \in {"over", "close", "gate"} :
         /\ task' = Stages(k, c, s)
         /\ s = "close" => task[k].chain[c].closes # "nothing"
  BY DEF WorkDone
<1>2. task[k].chain[c].stage = "work" /\ ChainFrame /\ UNCHANGED <<closed, slip>>
  BY DEF WorkDone
<1>3. used' \in 0..Total  BY ChainFacts, SpendIs DEF WorkDone
<1>4. /\ task' \in Seq(Task) /\ DOMAIN task' = DOMAIN task
      /\ task'[k] = Staged(task[k], c, s)
      /\ \A l \in DOMAIN task : l # k => task'[l] = task[l]
  BY <1>1, ChainFacts, StagesTyped DEF Stage
<1>5. Calm(task[k], task'[k]) /\ Opens(task[k], task'[k])
  BY <1>1, <1>2, <1>4, ChainFacts, StagedIsCalm DEF Stage
<1>6. Settles(task[k], task'[k])
  BY <1>1, <1>2, <1>4, ChainFacts, StagedSettles DEF Stage
<1>7. QED  BY <1>2, <1>3, <1>4, <1>5, <1>6, ChainFacts, ChainMoves DEF NewlyClosed

LEMMA FailScoredKeeps ==
    ASSUME Inv, NEW k \in DOMAIN task, NEW c \in DOMAIN task[k].chain, FailScored(k, c)
    PROVE  Inv'
<1>1. task[k].chain[c].stage = "gate" /\ ChainFrame /\ UNCHANGED closed
  BY DEF FailScored
<1>2. CASE task' = [Stages(k, c, "requeue") EXCEPT ![k].status = "failed", ![k].stale = FALSE]
           /\ UNCHANGED <<slip, used>>
  <2>1. /\ task' \in Seq(Task) /\ DOMAIN task' = DOMAIN task
        /\ task'[k] = Written(Staged(task[k], c, "requeue"), "failed")
        /\ \A l \in DOMAIN task : l # k => task'[l] = task[l]
    <3>1. TypeOK /\ "requeue" \in Stage /\ "failed" \in TaskStatus
      BY ChainFacts DEF Stage, TaskStatus
    <3>2. task' = Ends(k, c, "requeue", "failed")  BY <1>2 DEF Ends
    <3>3. QED  BY <3>1, <3>2, EndsTyped
  <2>2. Calm(task[k], task'[k]) /\ Opens(task[k], task'[k]) /\ Settles(task[k], task'[k])
    BY <1>1, <2>1, ChainFacts, EndsIsCalm
  <2>3. QED  BY <1>1, <1>2, <2>1, <2>2, ChainFacts, ChainMoves DEF NewlyClosed
<1>3. CASE Spend("fault") /\ Slips("unmarked", TRUE) /\ task' = Stages(k, c, "requeue")
  <2>1. /\ task' \in Seq(Task) /\ DOMAIN task' = DOMAIN task
        /\ task'[k] = Staged(task[k], c, "requeue")
        /\ \A l \in DOMAIN task : l # k => task'[l] = task[l]
    BY <1>3, ChainFacts, StagesTyped DEF Stage
  <2>2. Calm(task[k], task'[k]) /\ Opens(task[k], task'[k])
    BY <1>1, <2>1, ChainFacts, StagedIsCalm DEF Stage
  <2>3. slip \subseteq slip' /\ slip' \subseteq Slip /\ ~InTime'
    BY <1>3, ChainFacts, SlipsGrows DEF Slips, Slip, InTime, Without
  <2>4. used' \in 0..Total  BY <1>3, ChainFacts, SpendIs
  <2>5. QED  BY <1>1, <2>1, <2>2, <2>3, <2>4, ChainFacts, ChainMoves DEF NewlyClosed
<1>4. QED  BY <1>2, <1>3 DEF FailScored

LEMMA CloseKeeps ==
    ASSUME Inv, NEW k \in DOMAIN task, NEW c \in DOMAIN task[k].chain, Close(k, c)
    PROVE  Inv'
<1> DEFINE st == task[k].chain[c].closes
<1>1. /\ task[k].chain[c].stage = "close" /\ ChainFrame /\ UNCHANGED <<slip, used>>
      /\ task' = [Stages(k, c, "over") EXCEPT ![k].status = st, ![k].stale = FALSE]
      /\ closed' = closed \cup {k}
  BY DEF Close
<1>2. st \in {"completed", "blocked"}
  BY <1>1, ChainFacts DEF Sound, Chain
<1>3. st \in TaskStatus /\ "over" \in Stage  BY <1>2 DEF TaskStatus, Stage
<1> HIDE DEF st
<1>4. /\ task' \in Seq(Task) /\ DOMAIN task' = DOMAIN task
      /\ task'[k] = Written(Staged(task[k], c, "over"), st)
      /\ \A l \in DOMAIN task : l # k => task'[l] = task[l]
  <2>1. TypeOK  BY ChainFacts
  <2>2. task' = Ends(k, c, "over", st)  BY <1>1 DEF Ends
  <2>3. QED  BY <1>3, <2>1, <2>2, EndsTyped
<1>5. Calm(task[k], task'[k]) /\ Opens(task[k], task'[k]) /\ Settles(task[k], task'[k])
  BY <1>1, <1>2, <1>4, ChainFacts, EndsIsCalm
<1>6. task'[k].status = st /\ task'[k].chain[c].stage = "over" /\ c \in DOMAIN task'[k].chain
  <2>1. /\ Staged(task[k], c, "over") \in Task
        /\ Staged(task[k], c, "over").chain[c].stage = "over"
        /\ DOMAIN Staged(task[k], c, "over").chain = DOMAIN task[k].chain
    BY <1>3, ChainFacts, StagedIs
  <2> DEFINE v == Staged(task[k], c, "over")
  <2> HIDE DEF v
  <2>2. Written(v, st).status = st /\ Written(v, st).chain = v.chain
    BY <1>3, <2>1, WrittenIs DEF v
  <2>3. QED  BY <1>4, <2>1, <2>2 DEF v
\* It is the only chain, as long as each Task has one.
<1>7. NewlyClosed
  <2> SUFFICES ASSUME InTime' PROVE task'[k].status \in {"completed", "blocked"} /\ Done(task'[k])
    BY <1>1 DEF NewlyClosed
  <2>1. Chained
    BY <1>1 DEF Inv, Owned, InTime, Alone, Without
  <2>2. task'[k].chain # <<>> /\ DOMAIN task'[k].chain = DOMAIN task[k].chain
    BY <1>5, <1>6 DEF Calm
  <2>3. task[k].chain \in Seq(Chain) /\ task[k].chain # <<>>
    BY ChainFacts, FieldsAre DEF TypeOK
  <2>4. Len(task[k].chain) = 1  BY <2>1, <2>3 DEF Chained
  <2>5. c = 1  BY <2>3, <2>4
  <2>6. QED  BY <1>2, <1>6, <2>2, <2>5 DEF Done
<1>8. closed' \subseteq DOMAIN task  BY <1>1, ChainFacts
<1>9. QED  BY <1>1, <1>4, <1>5, <1>7, <1>8, ChainFacts, ChainMoves

LEMMA StepDiesKeeps ==
    ASSUME Inv, NEW k \in DOMAIN task, NEW c \in DOMAIN task[k].chain,
           StepDies(k, c) \/ CancelChain(k, c)
    PROVE  Inv'
<1>1. PICK s \in {"failing", "over"} : task' = Stages(k, c, s)  BY DEF StepDies, CancelChain
<1>2. /\ task[k].chain[c].stage \in {"work", "close"} /\ ChainFrame /\ UNCHANGED <<closed, slip>>
      /\ used' \in 0..Total
  BY ChainFacts, SpendIs DEF StepDies, CancelChain
<1>3. /\ task' \in Seq(Task) /\ DOMAIN task' = DOMAIN task
      /\ task'[k] = Staged(task[k], c, s)
      /\ \A l \in DOMAIN task : l # k => task'[l] = task[l]
  BY <1>1, ChainFacts, StagesTyped DEF Stage
<1>4. Calm(task[k], task'[k]) /\ Opens(task[k], task'[k])
  BY <1>1, <1>2, <1>3, ChainFacts, StagedIsCalm DEF Stage
<1>5. Settles(task[k], task'[k])
  BY <1>1, <1>2, <1>3, ChainFacts, StagedSettles DEF Stage
<1>6. QED  BY <1>2, <1>3, <1>4, <1>5, ChainFacts, ChainMoves DEF NewlyClosed

LEMMA FailOwnerKeeps ==
    ASSUME Inv, NEW k \in DOMAIN task, NEW c \in DOMAIN task[k].chain, FailOwner(k, c)
    PROVE  Inv'
<1>1. task[k].chain[c].stage = "failing" /\ ChainFrame /\ UNCHANGED <<closed, slip>>
  BY DEF FailOwner
<1>2. used' \in 0..Total  BY ChainFacts, SpendIs DEF FailOwner
<1>3. /\ task' \in Seq(Task) /\ DOMAIN task' = DOMAIN task
      /\ \/ task'[k] = Staged(task[k], c, "over")
         \/ task'[k] = Written(Staged(task[k], c, "over"), "failed")
      /\ \A l \in DOMAIN task : l # k => task'[l] = task[l]
  <2>1. CASE task' = [FailedIfOpen(k) EXCEPT ![k].chain[c].stage = "over"]
    BY <2>1, ChainFacts, DiesTyped
  <2>2. CASE task' = Stages(k, c, "over")
    BY <2>2, ChainFacts, StagesTyped DEF Stage
  <2>3. QED  BY <2>1, <2>2 DEF FailOwner
<1>4. CASE task'[k] = Staged(task[k], c, "over")
  <2>1. Calm(task[k], task'[k]) /\ Opens(task[k], task'[k])
    BY <1>1, <1>4, ChainFacts, StagedIsCalm DEF Stage
  <2>2. Settles(task[k], task'[k])  BY <1>1, <1>4, ChainFacts, StagedSettles DEF Stage
  <2>3. QED  BY <1>1, <1>2, <1>3, <2>1, <2>2, ChainFacts, ChainMoves DEF NewlyClosed
<1>5. CASE task'[k] = Written(Staged(task[k], c, "over"), "failed")
  <2>1. Calm(task[k], task'[k]) /\ Opens(task[k], task'[k]) /\ Settles(task[k], task'[k])
    BY <1>1, <1>5, ChainFacts, EndsIsCalm
  <2>2. QED  BY <1>1, <1>2, <1>3, <2>1, ChainFacts, ChainMoves DEF NewlyClosed
<1>6. QED  BY <1>3, <1>4, <1>5

\* A retry is new, and its Task's chain ends in the same step.
LEMMA RequeueKeeps ==
    ASSUME Inv, NEW k \in DOMAIN task, NEW c \in DOMAIN task[k].chain, Requeue(k, c)
    PROVE  Inv'
<1> DEFINE over == Stages(k, c, "over")
           t == Created(task[k].kind, task[k].tries + 1, k)
<1>1. task[k].chain[c].stage = "requeue" /\ ChainFrame /\ UNCHANGED <<closed, slip>>
  BY DEF Requeue
<1>2. used' \in 0..Total  BY ChainFacts, SpendIs DEF Requeue
<1>3. /\ over \in Seq(Task) /\ DOMAIN over = DOMAIN task /\ Len(over) = Len(task)
      /\ over[k] = Staged(task[k], c, "over")
      /\ \A l \in DOMAIN task : l # k => over[l] = task[l]
  BY ChainFacts, StagesTyped DEF Stage
<1>4. Calm(task[k], over[k]) /\ Opens(task[k], over[k])
  BY <1>1, <1>3, ChainFacts, StagedIsCalm DEF Stage
<1>5. Settles(task[k], over[k])  BY <1>1, <1>3, ChainFacts, StagedSettles DEF Stage
<1>6. CASE task' = over
  <2> HIDE DEF over
  <2>1. QED  BY <1>1, <1>2, <1>3, <1>4, <1>5, <1>6, ChainFacts, ChainMoves DEF NewlyClosed
<1>7. CASE task' = Append(over, t)
  <2>1. /\ TypeOK /\ Hands /\ Ways /\ Owned /\ DOMAIN task = 1..Len(task) /\ Len(task) \in Nat
        /\ k \in 1..Len(task) /\ k \in Nat /\ k # 0
    BY DEF Inv, Kept, TypeOK
  <2>2. /\ t \in Task /\ Newborn(t) /\ t.of = k /\ t.tries = task[k].tries + 1 /\ t.tries # 0
    <3>1. task[k].kind \in Kind /\ task[k].tries \in Nat  BY <2>1, FieldsAre DEF TypeOK
    <3>2. task[k].tries + 1 \in Nat /\ task[k].tries + 1 # 0  BY <3>1
    <3>3. QED  BY <2>1, <3>1, <3>2, CreatedIs
  <2>3. /\ over[k].chain[c].stage = "over" /\ over[k].status = task[k].status
    BY <1>3, ChainFacts, StagedIs DEF Stage
  <2> HIDE DEF over, t
  <2>4. /\ task' \in Seq(Task) /\ DOMAIN task' = DOMAIN task \cup {Len(task) + 1}
        /\ task'[Len(task) + 1] = t /\ \A l \in DOMAIN task : task'[l] = over[l]
    BY <1>3, <1>7, <2>2, AppendIs
  <2>5. DOMAIN task' \ DOMAIN task = {Len(task) + 1}  BY <2>1, <2>4
  <2>6. \A l \in DOMAIN task : /\ Calm(task[l], task'[l])
                              /\ Opens(task[l], task'[l]) /\ Settles(task[l], task'[l])
    BY <1>3, <1>4, <1>5, <2>4, SameIsCalm
  <2>7. RetryOf(k)  BY <1>1, <2>3, <2>4 DEF RetryOf
  <2>8. \A n \in DOMAIN task' \ DOMAIN task : OnlyNew(n) /\ n > Len(task)
    BY <2>1, <2>5 DEF OnlyNew
  <2>9. TasksGo  BY <1>1, <2>2, <2>4, <2>5, <2>6, <2>7, <2>8 DEF TasksGo
  <2>10. NewTasks  BY <2>2, <2>4, <2>5 DEF NewTasks
  <2>11. HandsGo /\ MarksStay /\ NoneProposes /\ Ways'  BY <1>1, <2>1, SameHandsGo DEF ChainFrame
  <2>12. TypeOK'  BY <1>1, <1>2, <2>1, <2>4 DEF TypeOK, ChainFrame
  <2>13. task[k].chain # <<>>  BY <2>1, FieldsAre DEF TypeOK
  <2>14. Alone' => HeldStays
    <3> SUFFICES ASSUME Alone' PROVE HeldStays
      OBVIOUS
    <3>1. Fresh  BY <1>1, <2>1, SlipStays DEF Owned
    <3>2. QED  BY <1>3, <2>1, <2>4, <2>11, <2>13, <3>1, HeldStaysIf
  <2>15. QED  BY <1>1, <2>9, <2>10, <2>11, <2>12, <2>14, StepKeeps DEF NewlyClosed
<1>8. QED  BY <1>6, <1>7 DEF Requeue

-----------------------------------------------------------------------------
(* The workers *)

CreatedStay ==
    \A k \in DOMAIN task : task[k].chain = <<>> /\ task[k].status = "created" =>
        task'[k].status = "created"

\* A worker that goes on from r to q, and holds no more than it did.
Lighter(r, q) ==
    /\ r.pc # "mark" /\ q.pc \notin {"mark", "propose"}
    /\ q.kind \in {r.kind, "schedule", "now"} /\ q.back \in {r.back, "idle", "list", "take"}
    /\ q.picked = r.picked \/ q.picked = <<>>
    /\ q.pc \in {"timer", "enqueue"} => r.pc \in {"timer", "enqueue"} /\ q.run = r.run

LEMMA LighterGo ==
    ASSUME Ways, \A w \in Worker : worker'[w] = worker[w] \/ Lighter(worker[w], worker'[w])
    PROVE  HandsGo /\ MarksStay /\ NoneProposes /\ Ways'
<1>1. ASSUME NEW w \in Worker
      PROVE  InHand(w)' \subseteq InHand(w) /\ Held(w)' \subseteq Held(w) /\ (Tidy(w) => Tidy(w)')
  <2>1. CASE worker'[w] = worker[w]  BY <2>1 DEF InHand, Held, Picks, Runs, Tidy
  <2>2. CASE Lighter(worker[w], worker'[w])
    <3>1. Picks(w)' \subseteq Picks(w)  BY <2>2 DEF Lighter, Picks
    <3>2. Runs(w, {"timer", "enqueue", "mark"})' \subseteq Runs(w, {"timer", "enqueue", "mark"})
      BY <2>2 DEF Lighter, Runs
    <3>3. Runs(w, {"timer", "enqueue"})' \subseteq Runs(w, {"timer", "enqueue"})
      BY <2>2 DEF Lighter, Runs
    <3>4. InHand(w) = Picks(w) \cup Runs(w, {"timer", "enqueue", "mark"})
      BY DEF InHand, Picks, Runs
    <3>5. InHand(w)' = Picks(w)' \cup Runs(w, {"timer", "enqueue", "mark"})'
      BY DEF InHand, Picks, Runs
    <3>6. InHand(w)' \subseteq InHand(w) /\ Held(w)' \subseteq Held(w)
      BY <3>1, <3>2, <3>3, <3>4, <3>5 DEF Held
    <3>7. ASSUME Tidy(w) PROVE Tidy(w)'
      <4>1. Picks(w)' \cap Runs(w, {"timer", "enqueue", "mark"})' = {}
        BY <3>1, <3>2, <3>7 DEF Tidy
      <4>2. \A i, j \in DOMAIN worker'[w].picked :
               worker'[w].picked[i] = worker'[w].picked[j] => i = j
        BY <2>2, <3>7 DEF Tidy, Lighter
      <4>3. QED  BY <4>1, <4>2 DEF Tidy
    <3>8. QED  BY <3>6, <3>7
  <2>3. QED  BY <2>1, <2>2
<1>2. HandsGo  BY <1>1 DEF HandsGo
<1>3. MarksStay
  <2>1. \A w \in Worker : Marks(w) \subseteq Marks(w)'  BY DEF Lighter, Marks, Runs
  <2>2. QED  BY <2>1 DEF MarksStay
<1>4. NoneProposes  BY DEF NoneProposes, Lighter
<1>5. Ways'  BY DEF Ways, Lighter
<1>6. QED  BY <1>2, <1>3, <1>4, <1>5

LEMMA LighterKeeps ==
    ASSUME Inv, TypeOK', UNCHANGED closed, TasksGo, NewTasks, CreatedStay,
           \A w \in Worker : worker'[w] = worker[w] \/ Lighter(worker[w], worker'[w])
    PROVE  Inv'
<1>1. Hands /\ Ways /\ Owned  BY DEF Inv, Kept
<1>2. HandsGo /\ MarksStay /\ NoneProposes /\ Ways'  BY <1>1, LighterGo
<1>3. Alone' => HeldStays
  <2> SUFFICES ASSUME Alone' PROVE HeldStays
    OBVIOUS
  <2>1. Fresh  BY <1>1, SlipStays DEF Owned, TasksGo
  <2>2. QED  BY <1>1, <1>2, <2>1, HeldStaysIf DEF CreatedStay
<1>4. QED  BY <1>2, <1>3, StepKeeps DEF NewlyClosed

\* A step of a worker that touches no Task.
LEMMA QuietKeeps ==
    ASSUME Inv, UNCHANGED <<task, closed>>,
           due' \in BOOLEAN, enabled' \in BOOLEAN, errors' \in Nat,
           worker' \in [Worker -> Work], used' \in 0..Total,
           slip \subseteq slip', slip' \subseteq Slip,
           \A w \in Worker : worker'[w] = worker[w] \/ Lighter(worker[w], worker'[w])
    PROVE  Inv'
<1>1. TypeOK'  BY DEF Inv, TypeOK, Slip
<1>2. TasksGo /\ NewTasks  BY SameTasksGo
<1>3. CreatedStay  BY DEF CreatedStay
<1>4. QED  BY <1>1, <1>2, <1>3, LighterKeeps

LEMMA WorkerFacts ==
    ASSUME Inv
    PROVE  /\ TypeOK /\ Ways /\ Hands /\ Owned /\ slip \subseteq Slip
           /\ worker \in [Worker -> Work] /\ used \in 0..Total
           /\ due \in BOOLEAN /\ enabled \in BOOLEAN /\ errors \in Nat
           /\ task \in Seq(Task) /\ DOMAIN task = 1..Len(task) /\ Len(task) \in Nat
           /\ closed \subseteq DOMAIN task
  BY DEF Inv, Kept, TypeOK, Slip

LEMMA StartTickKeeps ==
    ASSUME Inv, NEW w \in Worker, StartTick(w) \/ RunNow(w)
    PROVE  Inv'
<1>1. /\ worker[w].pc = "idle"
      /\ \/ worker' = [worker EXCEPT ![w] = [Idle EXCEPT !.pc = "reset"]]
         \/ worker' = [worker EXCEPT ![w] = [Idle EXCEPT !.pc = "fire", !.kind = "now"]]
      /\ UNCHANGED <<task, due, enabled, errors, closed, slip>>
  BY DEF StartTick, RunNow
<1>2. used' \in 0..Total  BY WorkerFacts, SpendIs DEF StartTick, RunNow
<1>3. PICK q \in Work : /\ worker' = [worker EXCEPT ![w] = q]
                        /\ q.pc \in {"reset", "fire"} /\ q.kind \in {"schedule", "now"}
                        /\ q.back = "idle" /\ q.picked = <<>>
  <2>1. CASE worker' = [worker EXCEPT ![w] = [Idle EXCEPT !.pc = "reset"]]
    BY <2>1, IdleIs DEF Idle, Pc
  <2>2. CASE worker' = [worker EXCEPT ![w] = [Idle EXCEPT !.pc = "fire", !.kind = "now"]]
    <3>1. "fire" \in Pc /\ "now" \in Kind  BY DEF Pc, Kind
    <3>2. [Idle EXCEPT !.pc = "fire", !.kind = "now"] \in Work  BY <3>1, IdleIs
    <3>3. QED  BY <2>2, <3>2 DEF Idle
  <2>3. QED  BY <1>1, <2>1, <2>2
<1>4. /\ worker' \in [Worker -> Work]
      /\ \A v \in Worker : v # w => worker'[v] = worker[v]
      /\ worker'[w] = q
  BY <1>3, WorkerFacts
<1>5. Lighter(worker[w], worker'[w])  BY <1>1, <1>3, <1>4 DEF Lighter
<1>6. QED  BY <1>1, <1>2, <1>4, <1>5, WorkerFacts, QuietKeeps

LEMMA ResetStaleKeeps ==
    ASSUME Inv, NEW w \in Worker, ResetStale(w)
    PROVE  Inv'
<1>1. /\ worker[w].pc = "reset" /\ To(w, "due")
      /\ UNCHANGED <<due, enabled, errors, closed, slip>>
  BY DEF ResetStale
<1>2. used' \in 0..Total  BY WorkerFacts, SpendIs DEF ResetStale
<1>3. /\ worker' \in [Worker -> Work]
      /\ \A v \in Worker : v # w => worker'[v] = worker[v]
      /\ worker'[w].pc = "due"
      /\ worker'[w].picked = worker[w].picked
      /\ worker'[w].kind = worker[w].kind /\ worker'[w].back = worker[w].back
  BY <1>1, WorkerFacts, ToIs DEF Pc
<1>4. Lighter(worker[w], worker'[w])  BY <1>1, <1>3 DEF Lighter
<1>5. CASE task' = [k \in DOMAIN task |->
                      IF StaleOf(task[k])
                      THEN [task[k] EXCEPT !.status = "failed", !.stale = FALSE]
                      ELSE task[k]]
  <2>1. "failed" \in TaskStatus  BY DEF TaskStatus
  <2>2. DOMAIN task' = DOMAIN task  BY <1>5
  <2>3. ASSUME NEW k \in DOMAIN task
        PROVE  /\ task'[k] \in Task
               /\ Calm(task[k], task'[k])
               /\ Opens(task[k], task'[k]) /\ Settles(task[k], task'[k])
               /\ task[k].status = "created" => task'[k].status = "created"
    <3>1. task[k] \in Task  BY WorkerFacts
    <3>2. CASE StaleOf(task[k])
      <4>1. task'[k] = Written(task[k], "failed")  BY <1>5, <3>2 DEF Written
      <4>2. task[k].status # "created"  BY <3>2 DEF StaleOf
      <4>3. QED  BY <2>1, <3>1, <3>2, <4>1, <4>2, WrittenIs, ResetIsCalm
    <3>3. CASE ~StaleOf(task[k])
      BY <1>5, <3>1, <3>3, SameIsCalm
    <3>4. QED  BY <3>2, <3>3
  <2>4. task' \in Seq(Task)
    <3>1. task' \in [1..Len(task) -> Task]  BY <1>5, <2>2, <2>3, WorkerFacts
    <3>2. QED  BY <3>1, WorkerFacts
  <2>5. TasksGo /\ NewTasks  BY <1>1, <2>2, <2>3 DEF TasksGo, NewTasks
  <2>6. CreatedStay  BY <2>3 DEF CreatedStay
  <2>7. TypeOK'  BY <1>1, <1>2, <1>3, <2>2, <2>4, WorkerFacts DEF TypeOK
  <2>8. QED  BY <1>1, <1>3, <1>4, <2>5, <2>6, <2>7, LighterKeeps
<1>6. CASE UNCHANGED task
  BY <1>1, <1>2, <1>3, <1>4, <1>6, WorkerFacts, QuietKeeps
<1>7. QED  BY <1>5, <1>6 DEF ResetStale

\* Calls that read, and go on.
LEMMA ReadDueKeeps ==
    ASSUME Inv, NEW w \in Worker, ReadDue(w) \/ CheckLive(w)
    PROVE  Inv'
<1>1. PICK p \in {"check", "list", "fire"} : To(w, p)  BY DEF ReadDue, CheckLive
<1>2. /\ worker[w].pc \in {"due", "check"} /\ UNCHANGED <<task, due, enabled, errors, closed>>
  BY DEF ReadDue, CheckLive
<1>3. used' \in 0..Total  BY WorkerFacts, SpendIs DEF ReadDue, CheckLive
<1>4. slip \subseteq slip' /\ slip' \subseteq Slip
  BY WorkerFacts DEF ReadDue, CheckLive, Slips, Slip
<1>5. /\ worker' \in [Worker -> Work]
      /\ \A v \in Worker : v # w => worker'[v] = worker[v]
      /\ worker'[w].pc = p
      /\ worker'[w].picked = worker[w].picked
      /\ worker'[w].kind = worker[w].kind /\ worker'[w].back = worker[w].back
  BY <1>1, WorkerFacts, ToIs DEF Pc
<1>6. Lighter(worker[w], worker'[w])  BY <1>2, <1>5 DEF Lighter
<1>7. QED  BY <1>2, <1>3, <1>4, <1>5, <1>6, WorkerFacts, QuietKeeps

LEMMA TimerKeeps ==
    ASSUME Inv, NEW w \in Worker, Timer(w)
    PROVE  Inv'
<1>1. /\ worker[w].pc = "timer" /\ To(w, "enqueue") /\ due' \in BOOLEAN
      /\ UNCHANGED <<task, enabled, errors, closed, slip>>
  BY WorkerFacts DEF Timer
<1>2. used' \in 0..Total  BY WorkerFacts, SpendIs DEF Timer
<1>3. /\ worker' \in [Worker -> Work]
      /\ \A v \in Worker : v # w => worker'[v] = worker[v]
      /\ worker'[w].pc = "enqueue" /\ worker'[w].run = worker[w].run
      /\ worker'[w].picked = worker[w].picked
      /\ worker'[w].kind = worker[w].kind /\ worker'[w].back = worker[w].back
  BY <1>1, WorkerFacts, ToIs DEF Pc
<1>4. Lighter(worker[w], worker'[w])  BY <1>1, <1>3 DEF Lighter
<1>5. QED  BY <1>1, <1>2, <1>3, <1>4, WorkerFacts, QuietKeeps

LEMMA EndTickKeeps ==
    ASSUME Inv, NEW w \in Worker, EndTick(w) \/ Pause(w)
    PROVE  Inv'
<1>1. /\ worker[w].pc \in {"end", "pause"} /\ Finish(w) /\ enabled' \in BOOLEAN /\ errors' \in Nat
      /\ UNCHANGED <<task, due, closed, slip, used>>
  <2>1. CASE EndTick(w)  BY <2>1, WorkerFacts DEF EndTick
  <2>2. CASE Pause(w)
    <3>1. enabled' \in BOOLEAN  BY <2>2 DEF Pause
    <3>2. QED  BY <2>2, <3>1, WorkerFacts DEF Pause
  <2>3. QED  BY <2>1, <2>2
<1>2. /\ worker' \in [Worker -> Work]
      /\ \A v \in Worker : v # w => worker'[v] = worker[v]
      /\ worker'[w] = Idle
  BY <1>1, WorkerFacts, FinishIs
<1>3. Lighter(worker[w], worker'[w])  BY <1>1, <1>2 DEF Lighter, Idle
<1>4. QED  BY <1>1, <1>2, <1>3, WorkerFacts, QuietKeeps

LEMMA CountErrorKeeps ==
    ASSUME Inv, NEW w \in Worker, CountError(w)
    PROVE  Inv'
<1>1. /\ worker[w].pc = "count" /\ errors' = errors + 1
      /\ worker' = [worker EXCEPT ![w].pc = "pause", ![w].seen = errors + 1]
      /\ UNCHANGED <<task, due, enabled, closed, slip, used>>
  BY DEF CountError
<1>2. errors' \in Nat  BY <1>1, WorkerFacts
<1>3. /\ worker' \in [Worker -> Work]
      /\ \A v \in Worker : v # w => worker'[v] = worker[v]
      /\ worker'[w].pc = "pause" /\ worker'[w].picked = worker[w].picked
      /\ worker'[w].kind = worker[w].kind /\ worker'[w].back = worker[w].back
  <2>1. "pause" \in Pc /\ errors + 1 \in Nat  BY WorkerFacts DEF Pc
  <2>2. worker \in [Worker -> Work]  BY WorkerFacts
  <2>3. QED  BY <1>1, <2>1, <2>2 DEF Work
<1>4. Lighter(worker[w], worker'[w])  BY <1>1, <1>3 DEF Lighter
<1>5. QED  BY <1>1, <1>2, <1>3, <1>4, WorkerFacts, QuietKeeps

-----------------------------------------------------------------------------
(* A run begins, is enqueued and is marked *)

LEMMA HandIs ==
    ASSUME NEW w
    PROVE  /\ InHand(w) = Picks(w) \cup Runs(w, {"timer", "enqueue", "mark"})
           /\ InHand(w)' = Picks(w)' \cup Runs(w, {"timer", "enqueue", "mark"})'
           /\ InHand(w) = Held(w) \cup Marks(w)
           /\ InHand(w)' = Held(w)' \cup Marks(w)'
  BY DEF InHand, Picks, Runs, Held, Marks

LEMMA RestsSame ==
    ASSUME NEW v, worker'[v] = worker[v]
    PROVE  /\ InHand(v)' = InHand(v) /\ Held(v)' = Held(v) /\ Picks(v)' = Picks(v)
           /\ Marks(v)' = Marks(v) /\ (Tidy(v) => Tidy(v)')
  BY DEF InHand, Picks, Runs, Held, Marks, Tidy

\* A worker creates a Task and holds it: nobody else does.
LEMMA BeginKeeps ==
    ASSUME Inv, NEW w \in Worker, NEW kind \in {"schedule", "now"},
           worker[w].pc = "fire", task' = Append(task, Created(kind, 0, 0)),
           kind = "schedule" /\ "raced" \notin slip' => Live = {},
           worker' \in [Worker -> Work],
           \A v \in Worker : v # w => worker'[v] = worker[v],
           worker'[w].pc = "timer", worker'[w].run = Len(task) + 1,
           worker'[w].picked = worker[w].picked, worker'[w].kind = kind,
           worker'[w].back \in {"idle", "list"},
           UNCHANGED <<due, enabled, errors, closed, used>>,
           slip \subseteq slip', slip' \subseteq Slip
    PROVE  Inv'
<1> DEFINE n == Len(task) + 1
<1>1. /\ task' \in Seq(Task) /\ DOMAIN task' = DOMAIN task \cup {n}
      /\ DOMAIN task' \ DOMAIN task = {n}
      /\ task'[n].kind = kind /\ Newborn(task'[n])
      /\ \A k \in DOMAIN task : task'[k] = task[k]
      /\ TasksGo
  <2>1. kind \in Kind  BY DEF Kind
  <2>2. QED  BY <2>1, WorkerFacts, AppendGoes
<1>2. n \notin DOMAIN task /\ n \in Nat  BY WorkerFacts
<1>3. TypeOK'  BY <1>1, WorkerFacts DEF TypeOK, Slip
<1>4. Ways'  BY WorkerFacts DEF Ways
<1>5. \A v \in Worker : v # w => InHand(v)' = InHand(v) /\ Held(v)' = Held(v) /\ Marks(v)' = Marks(v)
                               /\ (Tidy(v) => Tidy(v)')
  BY RestsSame
<1>6. /\ Picks(w)' = Picks(w) /\ Runs(w, {"timer", "enqueue", "mark"})' = {n}
      /\ InHand(w)' = Picks(w) \cup {n} /\ Held(w)' = Picks(w) \cup {n}
      /\ InHand(w) = Picks(w) /\ Held(w) = Picks(w) /\ Marks(w) = {}
  BY HandIs DEF Picks, Runs, Held, Marks, InHand
<1> HIDE DEF n
<1>7. \A v \in Worker : InHand(v) \subseteq DOMAIN task /\ n \notin InHand(v)
  BY <1>2, WorkerFacts DEF Hands
<1>8. Hands'  BY <1>1, <1>5, <1>6, <1>7 DEF Hands
<1>9. Owned'
  <2> SUFFICES ASSUME Alone'
               PROVE  (Apart /\ (\A v \in Worker : Tidy(v)) /\ Fresh /\ Chained /\ Retried)'
    BY DEF Owned
  <2>1. Apart /\ (\A v \in Worker : Tidy(v)) /\ Fresh /\ Chained /\ Retried
    BY WorkerFacts, SlipStays DEF Owned
  <2>2. Apart'
    <3>1. \A v \in Worker : v # w => InHand(v)' \cap InHand(w)' = {}
      BY <1>5, <1>6, <1>7, <2>1 DEF Apart
    <3>2. \A v, u \in Worker : v # w /\ u # w /\ v # u => InHand(v)' \cap InHand(u)' = {}
      BY <1>5, <2>1 DEF Apart
    <3>3. QED  BY <3>1, <3>2 DEF Apart
  <2>3. ASSUME NEW v \in Worker PROVE Tidy(v)'
    <3>1. CASE v # w  BY <1>5, <2>1, <3>1
    <3>2. Picks(w)' \cap Runs(w, {"timer", "enqueue", "mark"})' = {}  BY <1>6, <1>7
    <3>3. Tidy(w)'  BY <2>1, <3>2 DEF Tidy
    <3>4. QED  BY <3>1, <3>3
  <2>4. Fresh'
    <3> SUFFICES ASSUME NEW v \in Worker, NEW k \in Held(v)'
                 PROVE  task'[k].chain = <<>> /\ task'[k].status = "created"
      BY DEF Fresh
    <3>1. CASE k = n  BY <1>1, <3>1 DEF Newborn
    <3>2. CASE k # n
      <4>1. k \in Held(v)  BY <1>5, <1>6, <3>2
      <4>2. k \in DOMAIN task  BY <4>1, WorkerFacts, HeldIsIn
      <4>3. QED  BY <1>1, <2>1, <4>1, <4>2 DEF Fresh
    <3>3. QED  BY <3>1, <3>2
  <2>5. MarksStay  BY <1>5, <1>6 DEF MarksStay
  <2>6. Chained'  BY <1>1, <1>3, <2>1, <2>5, WorkerFacts, ChainedStays
  <2>7. Retried'  BY <1>1, <1>3, <2>1, RetriedStays DEF Inv, Kept
  <2>8. QED  BY <2>2, <2>3, <2>4, <2>6, <2>7
<1>10. Scanned'
  <2>1. NoneProposes  BY DEF NoneProposes
  <2>2. QED  BY <1>1, <1>3, <2>1, ScannedStays DEF Inv, NoneProposes
<1>11. QED  BY <1>1, <1>3, <1>4, <1>8, <1>9, <1>10, TasksKeep DEF NewlyClosed

LEMMA FireKeeps ==
    ASSUME Inv, NEW w \in Worker, Fire(w)
    PROVE  Inv'
<1> DEFINE kind == worker[w].kind
           back == IF kind = "now" THEN "idle" ELSE "list"
<1>1. /\ worker[w].pc = "fire" /\ kind \in {"schedule", "now"}
      /\ UNCHANGED <<due, enabled, errors, closed>>
  BY WorkerFacts DEF Fire, Ways
<1>2. CASE /\ task' = Append(task, Created(kind, 0, 0))
           /\ Slips("raced", kind = "schedule" /\ Live # {})
           /\ worker' = [worker EXCEPT ![w].pc = "timer", ![w].run = Len(task) + 1, ![w].back = back]
           /\ UNCHANGED used
  <2>1. slip \subseteq slip' /\ slip' \subseteq Slip  BY <1>2, WorkerFacts DEF Slips, Slip
  <2>2. kind = "schedule" /\ "raced" \notin slip' => Live = {}  BY <1>2 DEF Slips
  <2>3. /\ worker' \in [Worker -> Work]
        /\ \A v \in Worker : v # w => worker'[v] = worker[v]
        /\ worker'[w].pc = "timer" /\ worker'[w].run = Len(task) + 1
        /\ worker'[w].picked = worker[w].picked /\ worker'[w].kind = kind /\ worker'[w].back = back
    <3>1. "timer" \in Pc /\ back \in Pc /\ Len(task) + 1 \in Nat  BY WorkerFacts DEF Pc
    <3>2. worker \in [Worker -> Work]  BY WorkerFacts
    <3> DEFINE b == back
               m == Len(task) + 1
               r == [worker[w] EXCEPT !.pc = "timer", !.run = m, !.back = b]
    <3> HIDE DEF b, m
    <3>3. worker[w] \in Work /\ b \in Pc /\ m \in Nat  BY <3>1, <3>2 DEF b, m
    <3>4. /\ r \in Work /\ r.pc = "timer" /\ r.run = m /\ r.back = b
          /\ r.picked = worker[w].picked /\ r.kind = worker[w].kind
      BY <3>1, <3>3 DEF Work
    <3>5. worker' = [worker EXCEPT ![w] = r]  BY <1>2 DEF b, m
    <3> HIDE DEF r
    <3>6. QED  BY <3>2, <3>4, <3>5 DEF b, m
  <2>4. back \in {"idle", "list"}  OBVIOUS
  <2> HIDE DEF kind
  <2>5. QED  BY <1>1, <1>2, <2>1, <2>2, <2>3, <2>4, BeginKeeps
<1>3. CASE /\ Spend("fault") /\ worker' = [worker EXCEPT ![w] = [Idle EXCEPT !.pc = back]]
           /\ UNCHANGED <<task, slip>>
  <2>1. used' \in 0..Total  BY <1>3, WorkerFacts, SpendIs
  <2>2. back \in Pc /\ back \in {"idle", "list"}  BY DEF Pc
  <2> DEFINE q == [Idle EXCEPT !.pc = back]
  <2>3. /\ q \in Work /\ q.pc = back /\ q.kind = "schedule" /\ q.back = "idle" /\ q.picked = <<>>
    BY <2>2, IdleIs DEF Idle
  <2> HIDE DEF q, back
  <2>4. /\ worker' \in [Worker -> Work]
        /\ \A v \in Worker : v # w => worker'[v] = worker[v]
        /\ worker'[w] = q
    BY <1>3, <2>3, WorkerFacts DEF q
  <2>5. Lighter(worker[w], worker'[w])  BY <1>1, <2>2, <2>3, <2>4 DEF Lighter
  <2>6. QED  BY <1>1, <1>3, <2>1, <2>4, <2>5, WorkerFacts, QuietKeeps
<1>4. QED  BY <1>2, <1>3 DEF Fire

Linked(t, c) == [t EXCEPT !.chain = Append(t.chain, [stage |-> "work", closes |-> c])]

LEMMA LinkedIs ==
    ASSUME NEW t \in Task, NEW c \in {"completed", "blocked", "nothing"}
    PROVE  LET u == Linked(t, c) IN
           /\ u \in Task
           /\ u.kind = t.kind /\ u.status = t.status /\ u.old = t.old /\ u.stale = t.stale
           /\ u.tries = t.tries /\ u.of = t.of
           /\ Sound(t) => Sound(u)
           /\ t.chain = <<>> =>
                /\ Len(u.chain) = 1 /\ u.chain # <<>> /\ u.chain[1].stage = "work"
                /\ DOMAIN u.chain = {1}
<1> DEFINE e == [stage |-> "work", closes |-> c]
           q == Append(t.chain, e)
           u == Linked(t, c)
<1>1. t.chain \in Seq(Chain) /\ e \in Chain /\ e.stage = "work"  BY DEF Task, Chain, Stage
<1>2. u = [t EXCEPT !.chain = q]  BY DEF Linked
<1> HIDE DEF e
<1>3. /\ q \in Seq(Chain) /\ DOMAIN q = DOMAIN t.chain \cup {Len(t.chain) + 1}
      /\ q[Len(t.chain) + 1] = e /\ \A d \in DOMAIN t.chain : q[d] = t.chain[d]
  BY <1>1
<1>4. t.chain = <<>> => Len(q) = 1 /\ q # <<>> /\ q[1] = e /\ DOMAIN q = {1}
  BY <1>1
<1> HIDE DEF q, u
<1>5. /\ u \in Task /\ u.chain = q
      /\ u.kind = t.kind /\ u.status = t.status /\ u.old = t.old /\ u.stale = t.stale
      /\ u.tries = t.tries /\ u.of = t.of
  BY <1>2, <1>3 DEF Task
<1>6. Sound(t) => Sound(u)  BY <1>1, <1>3, <1>5 DEF Sound
<1>7. QED  BY <1>1, <1>4, <1>5, <1>6 DEF u

\* Who is live, and which scans are open, hangs on these fields.
LEMMA LiveSame ==
    ASSUME DOMAIN task' = DOMAIN task,
           \A l \in DOMAIN task : /\ task'[l].kind = task[l].kind /\ task'[l].status = task[l].status
                                  /\ task'[l].old = task[l].old
    PROVE  Live' = Live /\ OpenScans' = OpenScans
<1>1. Live' = {l \in DOMAIN task : /\ task'[l].kind # "scan"
                                  /\ task'[l].status \in OpenStatus \cup {"blocked"}
                                  /\ ~task'[l].old}
  BY DEF Live
<1>2. Live' = Live  BY <1>1 DEF Live
<1>3. OpenScans' = {l \in DOMAIN task : task'[l].kind = "scan" /\ task'[l].status \in OpenStatus}
  BY DEF OpenScans
<1>4. OpenScans' = OpenScans  BY <1>3 DEF OpenScans
<1>5. QED  BY <1>2, <1>4

\* A Task gets its chain, or a part of it: the worker that holds it goes on to mark it,
\* or the loss is counted among the marks that are missing.
LEMMA LinkKeeps ==
    ASSUME Inv, NEW w \in Worker, NEW c \in {"completed", "blocked", "nothing"},
           worker[w].pc = "enqueue",
           LET k == worker[w].run IN
               task' = [task EXCEPT ![k].chain = Append(@, [stage |-> "work", closes |-> c])],
           worker' \in [Worker -> Work],
           \A v \in Worker : v # w => worker'[v] = worker[v],
           worker'[w].picked = worker[w].picked,
           \/ /\ worker'[w].pc = "mark" /\ worker'[w].run = worker[w].run
              /\ worker'[w].kind = worker[w].kind /\ worker'[w].back = worker[w].back
           \/ /\ worker'[w].pc = worker[w].back
              /\ worker'[w].kind = "schedule" /\ worker'[w].back = "idle"
              /\ "unmarked" \in slip',
           used' \in 0..Total, slip \subseteq slip', slip' \subseteq Slip,
           UNCHANGED <<due, enabled, errors, closed>>
    PROVE  Inv'
<1> DEFINE k == worker[w].run
           t == task[k]
           u == Linked(t, c)
<1>1. /\ TypeOK /\ Ways /\ Hands /\ Owned /\ worker \in [Worker -> Work]
      /\ task \in Seq(Task) /\ Nodes
  BY WorkerFacts DEF Inv, Kept
<1>2. k \in Held(w) /\ k \in InHand(w) /\ k \in DOMAIN task
  <2>1. k \in Held(w)  BY DEF Held, Runs
  <2>2. QED  BY <1>1, <2>1, HeldIsIn
<1>3. t \in Task  BY <1>1, <1>2
<1>4. task' = [task EXCEPT ![k] = u]  BY <1>1, <1>2, <1>3 DEF Linked, Task
<1>5. /\ u \in Task
      /\ u.kind = t.kind /\ u.status = t.status /\ u.old = t.old /\ u.stale = t.stale
      /\ u.tries = t.tries /\ u.of = t.of
      /\ Sound(t) => Sound(u)
      /\ t.chain = <<>> =>
           /\ Len(u.chain) = 1 /\ u.chain # <<>> /\ u.chain[1].stage = "work"
           /\ DOMAIN u.chain = {1}
  <2> HIDE DEF t
  <2>1. QED  BY <1>3, LinkedIs
<1>6. /\ task' \in Seq(Task) /\ DOMAIN task' = DOMAIN task /\ task'[k] = u
      /\ \A l \in DOMAIN task : l # k => task'[l] = task[l]
  <2>1. task \in Seq(Task) /\ k \in DOMAIN task /\ u \in Task  BY <1>1, <1>2, <1>5
  <2> HIDE DEF u, k, t
  <2> DEFINE p == [task EXCEPT ![k] = u]
  <2>2. /\ p \in Seq(Task) /\ DOMAIN p = DOMAIN task /\ p[k] = u
        /\ \A l \in DOMAIN task : l # k => p[l] = task[l]
    BY <2>1, PutIs
  <2>3. task' = p  BY <1>4
  <2> HIDE DEF p
  <2>4. QED  BY <2>2, <2>3
<1>7. TypeOK'  BY <1>1, <1>6 DEF TypeOK, Slip
<1> USE DEF k
<1>8. Ways'  BY <1>1 DEF Ways
<1>9. \A v \in Worker : v # w => InHand(v)' = InHand(v) /\ Held(v)' = Held(v) /\ Marks(v)' = Marks(v)
                               /\ (Tidy(v) => Tidy(v)')
  BY RestsSame
<1>10. /\ Picks(w)' = Picks(w) /\ Marks(w) = {}
       /\ Held(w)' = Picks(w) /\ InHand(w)' \subseteq InHand(w)
       /\ Runs(w, {"timer", "enqueue", "mark"}) = {k}
       /\ worker'[w].pc = "mark" => Marks(w)' = {k}
  <2>1. worker[w].back \in {"idle", "list", "take"}  BY <1>1 DEF Ways
  <2>2. QED  BY <2>1, HandIs DEF Picks, Runs, Held, Marks
<1>11. Hands'  BY <1>1, <1>6, <1>9, <1>10 DEF Hands
<1>12. Nodes'
  <2> SUFFICES ASSUME NEW l \in DOMAIN task PROVE task'[l].of < l /\ Sound(task'[l])
    BY <1>6 DEF Nodes
  <2>1. task[l].of < l /\ Sound(task[l])  BY <1>1 DEF Nodes
  <2>2. CASE l = k  BY <1>5, <1>6, <2>1, <2>2
  <2>3. QED  BY <1>6, <2>1, <2>2
<1>13. \A l \in DOMAIN task :
          /\ task'[l].kind = task[l].kind /\ task'[l].status = task[l].status
          /\ task'[l].old = task[l].old
          /\ task'[l].tries = task[l].tries /\ task'[l].of = task[l].of
  BY <1>5, <1>6
<1>14. NotStacked'
  <2>1. Live' = Live  BY <1>6, <1>13, LiveSame
  <2>2. \A l \in Live : l \in DOMAIN task  BY DEF Live
  <2>3. QED  BY <1>13, <2>1, <2>2 DEF Inv, NotStacked, Without
<1>15. Scanned'
  <2>1. OpenScans' = OpenScans  BY <1>6, <1>13, LiveSame
  <2>2. \A l \in OpenScans : task'[l].tries = task[l].tries  BY <1>13 DEF OpenScans
  <2>3. \A v \in Worker : worker'[v].pc = "propose" => worker[v].pc = "propose"
    BY <1>1 DEF Ways
  <2>4. QED  BY <2>1, <2>2, <2>3 DEF Inv, Scanned, Without
<1>16. Alone' => Apart /\ (\A v \in Worker : Tidy(v)) /\ Fresh /\ Chained /\ Retried
                 /\ t.chain = <<>> /\ t.status = "created" /\ worker'[w].pc = "mark"
  BY <1>1, <1>2, SlipStays DEF Owned, Fresh, Alone, Without
<1>17. Owned'
  <2> SUFFICES ASSUME Alone'
               PROVE  (Apart /\ (\A v \in Worker : Tidy(v)) /\ Fresh /\ Chained /\ Retried)'
    BY DEF Owned
  <2>1. Apart'  BY <1>9, <1>10, <1>16 DEF Apart
  <2>2. ASSUME NEW v \in Worker PROVE Tidy(v)'
    <3>1. CASE v # w  BY <1>9, <1>16, <3>1
    <3>2. Runs(w, {"timer", "enqueue", "mark"})' = {k}  BY <1>1, <1>16 DEF Runs, Ways
    <3>3. Tidy(w)'  BY <1>10, <1>16, <3>2 DEF Tidy
    <3>4. QED  BY <3>1, <3>3
  <2>3. Fresh'
    <3> SUFFICES ASSUME NEW v \in Worker, NEW l \in Held(v)'
                 PROVE  task'[l].chain = <<>> /\ task'[l].status = "created"
      BY DEF Fresh
    <3>1. l \in Held(v)  BY <1>9, <1>10 DEF Held
    <3>2. l \in DOMAIN task /\ l \in InHand(v)  BY <1>1, <3>1, HeldIsIn
    <3>3. l # k
      <4>1. CASE v # w  BY <1>2, <1>16, <3>2, <4>1 DEF Apart
      <4>2. CASE v = w  BY <1>10, <1>16, <4>2 DEF Tidy
      <4>3. QED  BY <4>1, <4>2
    <3>4. QED  BY <1>6, <1>16, <3>1, <3>2, <3>3 DEF Fresh
  <2>4. Chained'
    <3> SUFFICES ASSUME NEW l \in DOMAIN task, task'[l].chain # <<>>
                 PROVE  /\ Len(task'[l].chain) = 1
                        /\ task'[l].status = "created" => \E v \in Worker : l \in Marks(v)'
      BY <1>6 DEF Chained
    <3>1. CASE l = k
      <4>1. Len(task'[l].chain) = 1  BY <1>5, <1>6, <1>16, <3>1
      <4>2. l \in Marks(w)'  BY <1>10, <1>16, <3>1
      <4>3. QED  BY <4>1, <4>2
    <3>2. CASE l # k
      <4>1. task'[l] = task[l]  BY <1>6, <3>2
      <4>2. \A v \in Worker : l \in Marks(v) => l \in Marks(v)'  BY <1>9, <1>10
      <4>3. QED  BY <1>16, <4>1, <4>2 DEF Chained
    <3>3. QED  BY <3>1, <3>2
  <2>5. Retried'
    <3> SUFFICES ASSUME NEW l \in DOMAIN task, task'[l].of # 0
                 PROVE  /\ Done(task'[task'[l].of])
                        /\ \A m \in DOMAIN task : task'[m].of = task'[l].of => l = m
      BY <1>6 DEF Retried
    <3>1. task'[l].of = task[l].of  BY <1>13
    <3>2. Done(task[task[l].of]) /\ task[l].of \in DOMAIN task
      BY <1>1, <1>16, <3>1, OfIs DEF Retried
    <3>3. task[l].of # k  BY <1>16, <3>2 DEF Done
    <3>4. Done(task'[task'[l].of])  BY <1>6, <3>1, <3>2, <3>3
    <3>5. ASSUME NEW m \in DOMAIN task, task'[m].of = task'[l].of PROVE l = m
      <4>1. task[m].of = task[l].of /\ task[l].of # 0  BY <1>13, <3>1, <3>5
      <4>2. QED  BY <1>16, <4>1 DEF Retried
    <3>6. QED  BY <3>4, <3>5
  <2>6. QED  BY <2>1, <2>2, <2>3, <2>4, <2>5
<1>18. Ended'
  <2> SUFFICES ASSUME InTime'
               PROVE  /\ \A l \in closed : task'[l].status \in {"completed", "blocked"} /\ Done(task'[l])
                      /\ \A l \in DOMAIN task : task'[l].of # 0 => task'[task'[l].of].status = "failed"
                      /\ \A l \in DOMAIN task : Settled(task'[l])
    BY <1>6 DEF Ended
  <2>1. InTime /\ Alone'  BY SlipStays DEF InTime, Alone, Without
  <2>2. /\ \A l \in closed : task[l].status \in {"completed", "blocked"} /\ Done(task[l])
        /\ \A l \in DOMAIN task : task[l].of # 0 => task[task[l].of].status = "failed"
        /\ \A l \in DOMAIN task : Settled(task[l])
    BY <2>1 DEF Inv, Ended
  <2>3. k \notin closed  BY <1>16, <2>1, <2>2
  <2>4. closed \subseteq DOMAIN task  BY <1>1 DEF TypeOK
  <2>5. \A l \in closed : task'[l] = task[l]  BY <1>6, <2>3, <2>4
  <2>6. \A l \in DOMAIN task : task'[l].of # 0 => task'[task'[l].of].status = "failed"
    BY <1>1, <1>13, <2>2, OfIs
  <2>7. Settled(u)  BY <1>5, <1>16, <2>1 DEF Settled, OpenStatus
  <2>8. \A l \in DOMAIN task : Settled(task'[l])  BY <1>6, <2>2, <2>7
  <2>9. QED  BY <2>2, <2>5, <2>6, <2>8
<1>19. QED  BY <1>7, <1>8, <1>11, <1>12, <1>14, <1>15, <1>17, <1>18 DEF Inv, Kept

Given(k, c) == [task EXCEPT ![k].chain = Append(@, [stage |-> "work", closes |-> c])]

LEMMA EnqueueKeeps ==
    ASSUME Inv, NEW w \in Worker, Enqueue(w)
    PROVE  Inv'
<1> DEFINE k == worker[w].run
<1>1. worker[w].pc = "enqueue" /\ UNCHANGED <<due, enabled, errors, closed>>  BY DEF Enqueue
<1>2. used' \in 0..Total  BY WorkerFacts, SpendIs DEF Enqueue
<1>3. slip \subseteq slip' /\ slip' \subseteq Slip  BY WorkerFacts DEF Enqueue, Slips, Slip
<1>4. ASSUME NEW c \in {"completed", "blocked"}, task' = Given(k, c), To(w, "mark")
      PROVE  Inv'
  <2>1. /\ worker' \in [Worker -> Work]
        /\ \A v \in Worker : v # w => worker'[v] = worker[v]
        /\ worker'[w].pc = "mark" /\ worker'[w].run = worker[w].run
        /\ worker'[w].picked = worker[w].picked
        /\ worker'[w].kind = worker[w].kind /\ worker'[w].back = worker[w].back
    BY <1>4, WorkerFacts, ToIs DEF Pc
  <2>2. QED  BY <1>1, <1>2, <1>3, <1>4, <2>1, LinkKeeps DEF Given
<1>5. CASE /\ GoBack(w)
           /\ \/ UNCHANGED <<task, slip>>
              \/ task' = Given(k, "nothing") /\ Slips("unmarked", TRUE)
  <2>1. /\ worker' \in [Worker -> Work]
        /\ \A v \in Worker : v # w => worker'[v] = worker[v]
        /\ worker'[w].pc = worker[w].back /\ worker'[w].picked = worker[w].picked
        /\ worker'[w].kind = "schedule" /\ worker'[w].back = "idle"
    BY <1>5, WorkerFacts, GoBackIs
  <2>2. CASE UNCHANGED <<task, slip>>
    <3>1. worker[w].back \in {"idle", "list", "take"}  BY WorkerFacts DEF Ways
    <3>2. Lighter(worker[w], worker'[w])  BY <1>1, <2>1, <3>1 DEF Lighter
    <3>3. QED  BY <1>1, <1>2, <2>1, <2>2, <3>2, WorkerFacts, QuietKeeps
  <2>3. CASE task' = Given(k, "nothing") /\ Slips("unmarked", TRUE)
    <3>1. "unmarked" \in slip'  BY <2>3 DEF Slips
    <3>2. QED  BY <1>1, <1>2, <1>3, <2>1, <2>3, <3>1, LinkKeeps DEF Given
  <2>4. QED  BY <1>5, <2>2, <2>3
<1> DEFINE Whole == \/ task' = Given(k, "completed") /\ To(w, "mark")
                    \/ task' = Given(k, "blocked") /\ To(w, "mark")
<1>6. /\ Whole \/ GoBack(w)
      /\ Whole \/ UNCHANGED <<task, slip>> \/ (task' = Given(k, "nothing") /\ Slips("unmarked", TRUE))
  <2>1. Whole \/ GoBack(w)  BY DEF Enqueue, Given
  <2>2. Whole \/ UNCHANGED <<task, slip>> \/ (task' = Given(k, "nothing") /\ Slips("unmarked", TRUE))
    BY Zenon DEF Enqueue, Given
  <2>3. QED  BY <2>1, <2>2
<1>7. CASE Whole  BY <1>4, <1>7
<1> HIDE DEF Whole
<1>8. CASE ~Whole
  <2>1. GoBack(w)  BY <1>6, <1>8
  <2>2. UNCHANGED <<task, slip>> \/ (task' = Given(k, "nothing") /\ Slips("unmarked", TRUE))
    BY Zenon, <1>6, <1>8
  <2>3. QED  BY Zenon, <1>5, <2>1, <2>2
<1>9. QED  BY <1>7, <1>8

\* The mark changes a Task that nobody but its worker holds; it is late, or the Task is
\* open.
LEMMA MarkKeeps ==
    ASSUME Inv, NEW w \in Worker, Mark(w)
    PROVE  Inv'
<1> DEFINE k == worker[w].run
<1>1. worker[w].pc = "mark" /\ GoBack(w) /\ UNCHANGED <<due, enabled, errors, closed>>  BY DEF Mark
<1>2. used' \in 0..Total  BY WorkerFacts, SpendIs DEF Mark
<1>3. slip \subseteq slip' /\ slip' \subseteq Slip  BY WorkerFacts DEF Mark, Slips, Slip
<1>4. /\ worker' \in [Worker -> Work]
      /\ \A v \in Worker : v # w => worker'[v] = worker[v]
      /\ worker'[w].pc = worker[w].back /\ worker'[w].picked = worker[w].picked
      /\ worker'[w].kind = "schedule" /\ worker'[w].back = "idle"
  BY <1>1, WorkerFacts, GoBackIs
<1>5. worker[w].back \in {"idle", "list", "take"}  BY WorkerFacts DEF Ways
<1>6. Ways'  BY <1>4, WorkerFacts DEF Ways
<1>7. NoneProposes  BY <1>4, <1>5 DEF NoneProposes
<1>8. /\ Picks(w)' = Picks(w) /\ Held(w)' = Picks(w) /\ InHand(w)' = Picks(w)
      /\ Runs(w, {"timer", "enqueue", "mark"})' = {}
      /\ Runs(w, {"timer", "enqueue", "mark"}) = {k}
      /\ InHand(w) = Picks(w) \cup {k} /\ Held(w) = Picks(w) /\ Marks(w) = {k}
  BY <1>1, <1>4, <1>5, HandIs DEF Picks, Runs, Held, Marks, InHand
<1>9. \A v \in Worker : v # w => InHand(v)' = InHand(v) /\ Held(v)' = Held(v) /\ Marks(v)' = Marks(v)
                               /\ (Tidy(v) => Tidy(v)')
  BY <1>4, RestsSame
<1>10. HandsGo
  <2>1. Tidy(w) => Tidy(w)'  BY <1>4, <1>8 DEF Tidy
  <2>2. QED  BY <1>8, <1>9, <2>1 DEF HandsGo
<1>11. CASE task' = Marked(k) /\ Slips("late", task[k].status \notin OpenStatus)
  <2>1. k \in DOMAIN task  BY <1>8, WorkerFacts DEF Hands
  <2>2. "in_progress" \in TaskStatus  BY DEF TaskStatus
  <2> DEFINE t == task[k]
             u == Written(t, "in_progress")
  <2>3. t \in Task  BY <2>1, WorkerFacts
  <2>4. u \in Task /\ u.status = "in_progress"  BY <2>2, <2>3, WrittenIs
  <2>5. Calm(t, u) /\ ("late" \notin slip' => Opens(t, u) /\ Settles(t, u))
    BY <1>11, <2>3, MarkIsCalm DEF Slips
  <2> HIDE DEF t, u
  <2>6. /\ task' \in Seq(Task) /\ DOMAIN task' = DOMAIN task /\ task'[k] = u
        /\ \A l \in DOMAIN task : l # k => task'[l] = task[l]
    BY <1>11, <2>1, <2>2, WorkerFacts, WrittenTyped DEF Marked, t, u
  <2>7. InTime' => "late" \notin slip'  BY DEF InTime, Without
  <2> HIDE DEF k
  <2>8. TasksGo /\ NewTasks  BY <1>3, <2>1, <2>5, <2>6, <2>7, OneTaskGoes DEF t
  <2>9. TypeOK'  BY <1>1, <1>2, <1>3, <1>4, <2>6, WorkerFacts DEF TypeOK, Slip
  <2>10. MarksStay
    <3> SUFFICES ASSUME NEW v \in Worker, NEW l \in Marks(v), task'[l].status = "created"
                 PROVE  \E x \in Worker : l \in Marks(x)'
      BY DEF MarksStay
    <3>1. l # k  BY <2>4, <2>6
    <3>2. v # w  BY <1>8, <3>1
    <3>3. QED  BY <1>9, <3>2
  <2>11. ASSUME Alone' PROVE HeldStays
    <3>1. Apart /\ Tidy(w) /\ Fresh  BY <1>3, <2>11, WorkerFacts, SlipStays DEF Owned
    <3> SUFFICES ASSUME NEW v \in Worker, NEW l \in Held(v)' PROVE task'[l].status = "created"
      BY DEF HeldStays
    <3>2. l \in Held(v)  BY <1>10 DEF HandsGo
    <3>3. l \in DOMAIN task /\ l \in InHand(v)  BY <3>2, WorkerFacts, HeldIsIn
    <3>4. l # k
      <4>1. CASE v # w  BY <1>8, <3>1, <3>3, <4>1 DEF Apart
      <4>2. CASE v = w  BY <1>8, <3>1, <3>2, <4>2 DEF Tidy
      <4>3. QED  BY <4>1, <4>2
    <3>5. QED  BY <2>6, <3>1, <3>2, <3>3, <3>4 DEF Fresh
  <2>12. QED  BY <1>1, <1>6, <1>7, <1>10, <2>8, <2>9, <2>10, <2>11, StepKeeps DEF NewlyClosed
<1>12. CASE Slips("unmarked", TRUE) /\ UNCHANGED task
  <2>1. ~Alone'  BY <1>12 DEF Slips, Alone, Without
  <2>2. TasksGo /\ NewTasks  BY <1>3, <1>12, SameTasksGo
  <2>3. TypeOK'  BY <1>1, <1>2, <1>3, <1>4, <1>12, WorkerFacts DEF TypeOK, Slip
  <2>4. QED  BY <1>1, <1>6, <1>7, <1>10, <2>1, <2>2, <2>3, StepKeeps DEF NewlyClosed
<1>13. QED  BY <1>11, <1>12 DEF Mark

\* Another worker lists none of what a worker holds, as far as that is claimed.
LEMMA ListKeeps ==
    ASSUME Inv, NEW w \in Worker, List(w)
    PROVE  Inv'
<1>1. worker[w].pc = "list" /\ UNCHANGED <<task, due, enabled, errors, closed>>  BY DEF List
<1>2. used' \in 0..Total  BY WorkerFacts, SpendIs DEF List
<1>3. slip \subseteq slip' /\ slip' \subseteq Slip  BY WorkerFacts DEF List, Slips, Slip
<1>4. CASE To(w, "count")
  <2>1. /\ worker' \in [Worker -> Work]
        /\ \A v \in Worker : v # w => worker'[v] = worker[v]
        /\ worker'[w].pc = "count" /\ worker'[w].picked = worker[w].picked
        /\ worker'[w].kind = worker[w].kind /\ worker'[w].back = worker[w].back
    BY <1>4, WorkerFacts, ToIs DEF Pc
  <2>2. Lighter(worker[w], worker'[w])  BY <1>1, <2>1 DEF Lighter
  <2>3. QED  BY <1>1, <1>2, <1>3, <2>1, <2>2, WorkerFacts, QuietKeeps
<1>5. CASE /\ worker' = [worker EXCEPT ![w].pc = "take", ![w].picked = Picked]
           /\ Slips("exposed", \E v \in Worker \ {w}, i \in DOMAIN Picked : Picked[i] \in InHand(v))
  <2>1. /\ Picked \in Seq(Nat)
        /\ \A i \in DOMAIN Picked : Picked[i] \in Waiting
        /\ \A i, j \in DOMAIN Picked : Picked[i] = Picked[j] => i = j
    BY WorkerFacts, PickedIs
  <2> DEFINE q == Picked
  <2> HIDE DEF q
  <2>2. /\ worker' \in [Worker -> Work]
        /\ \A v \in Worker : v # w => worker'[v] = worker[v]
        /\ worker'[w].pc = "take" /\ worker'[w].picked = q
        /\ worker'[w].kind = worker[w].kind /\ worker'[w].back = worker[w].back
    <3>1. "take" \in Pc /\ q \in Seq(Nat)  BY <2>1 DEF Pc, q
    <3>2. worker \in [Worker -> Work]  BY WorkerFacts
    <3>3. worker' = [worker EXCEPT ![w].pc = "take", ![w].picked = q]  BY <1>5 DEF q
    <3>4. QED  BY <3>1, <3>2, <3>3 DEF Work
  <2>3. /\ \A i \in DOMAIN q : q[i] \in Waiting
        /\ \A i, j \in DOMAIN q : q[i] = q[j] => i = j
        /\ Slips("exposed", \E v \in Worker \ {w}, i \in DOMAIN q : q[i] \in InHand(v))
    BY <1>5, <2>1 DEF q
  <2>4. /\ Picks(w)' = {q[i] : i \in DOMAIN q} /\ Runs(w, {"timer", "enqueue", "mark"})' = {}
        /\ InHand(w)' = Picks(w)' /\ Held(w)' = Picks(w)' /\ Marks(w) = {} /\ Picks(w)' \subseteq Waiting
    BY <1>1, <2>2, <2>3, HandIs DEF Picks, Runs, Held, Marks
  <2>5. \A v \in Worker : v # w => InHand(v)' = InHand(v) /\ Held(v)' = Held(v)
                                 /\ Marks(v)' = Marks(v) /\ (Tidy(v) => Tidy(v)')
    BY <2>2, RestsSame
  <2>6. TasksGo /\ NewTasks  BY <1>1, <1>3, SameTasksGo
  <2>7. TypeOK'  BY <1>1, <1>2, <1>3, <2>2, WorkerFacts DEF TypeOK, Slip
  <2>8. Ways'  BY <2>2, WorkerFacts DEF Ways
  <2>9. Hands'
    <3>1. Waiting \subseteq DOMAIN task  BY DEF Waiting
    <3>2. QED  BY <1>1, <2>4, <2>5, <3>1, WorkerFacts DEF Hands
  <2>10. NoneProposes  BY <2>2 DEF NoneProposes
  <2>11. Scanned'  BY <2>6, <2>7, <2>10, WorkerFacts, ScannedStays DEF Inv, NewTasks, NoneProposes
  <2>12. Owned'
    <3> SUFFICES ASSUME Alone'
                 PROVE  (Apart /\ (\A v \in Worker : Tidy(v)) /\ Fresh /\ Chained /\ Retried)'
      BY DEF Owned
    <3>1. Apart /\ (\A v \in Worker : Tidy(v)) /\ Fresh /\ Chained /\ Retried
      BY <1>3, WorkerFacts, SlipStays DEF Owned
    <3>2. \A v \in Worker \ {w} : Picks(w)' \cap InHand(v) = {}
      BY <2>3, <2>4 DEF Slips, Alone, Without
    <3>3. Apart'
      <4>1. \A v \in Worker : v # w => InHand(v)' \cap InHand(w)' = {}  BY <2>4, <2>5, <3>2
      <4>2. \A v, u \in Worker : v # w /\ u # w /\ v # u => InHand(v)' \cap InHand(u)' = {}
        BY <2>5, <3>1 DEF Apart
      <4>3. QED  BY <4>1, <4>2 DEF Apart
    <3>4. ASSUME NEW v \in Worker PROVE Tidy(v)'
      <4>1. CASE v # w  BY <2>5, <3>1, <4>1
      <4>2. Tidy(w)'  BY <2>2, <2>3, <2>4 DEF Tidy
      <4>3. QED  BY <4>1, <4>2
    <3>5. ASSUME NEW k \in Picks(w)' PROVE task[k].chain = <<>> /\ task[k].status = "created"
      <4>1. k \in DOMAIN task /\ task[k].status = "created"  BY <2>4 DEF Waiting
      <4>2. ASSUME task[k].chain # <<>> PROVE FALSE
        <5>1. PICK v \in Worker : k \in Marks(v)  BY <3>1, <4>1, <4>2 DEF Chained
        <5>2. v # w  BY <2>4, <5>1
        <5>3. k \in InHand(v)  BY <5>1, HandIs
        <5>4. QED  BY <3>2, <5>2, <5>3
      <4>3. QED  BY <4>1, <4>2
    <3>6. Fresh'  BY <1>1, <2>4, <2>5, <3>1, <3>5 DEF Fresh
    <3>7. MarksStay  BY <2>4, <2>5 DEF MarksStay
    <3>8. Chained'  BY <2>6, <2>7, <3>1, <3>7, WorkerFacts, ChainedStays
    <3>9. Retried'  BY <2>6, <2>7, <3>1, RetriedStays DEF Inv, Kept
    <3>10. QED  BY <3>3, <3>4, <3>6, <3>8, <3>9
  <2>13. QED  BY <1>1, <2>6, <2>7, <2>8, <2>9, <2>11, <2>12, TasksKeep DEF NewTasks, NewlyClosed
<1>6. QED  BY <1>4, <1>5 DEF List

-----------------------------------------------------------------------------
(* A worker takes what it has picked, and proposes what it has found *)

LEMMA TailIs ==
    ASSUME NEW q \in Seq(Nat), q # <<>>
    PROVE  /\ Tail(q) \in Seq(Nat) /\ Head(q) = q[1] /\ 1 \in DOMAIN q
           /\ DOMAIN Tail(q) = 1..(Len(q) - 1) /\ DOMAIN q = 1..Len(q) /\ Len(q) \in Nat
           /\ \A i \in DOMAIN Tail(q) : i + 1 \in DOMAIN q /\ Tail(q)[i] = q[i + 1]
  OBVIOUS

\* The head goes into the worker's hand, or out of it; the tail is what is left.
LEMMA TakenGo ==
    ASSUME Inv, NEW w \in Worker, worker[w].pc = "take", worker[w].picked # <<>>,
           worker' \in [Worker -> Work],
           \A v \in Worker : v # w => worker'[v] = worker[v],
           worker'[w].picked = Tail(worker[w].picked),
           \/ worker'[w].pc = "enqueue" /\ worker'[w].run = Head(worker[w].picked)
           \/ worker'[w].pc = "take"
    PROVE  /\ HandsGo /\ MarksStay /\ NoneProposes
           /\ Head(worker[w].picked) \in Held(w)
           /\ Tidy(w) /\ worker'[w].pc = "take" => Head(worker[w].picked) \notin InHand(w)'
<1> DEFINE q == worker[w].picked
           k == Head(q)
<1>1. q \in Seq(Nat)
  <2>1. worker[w] \in Work  BY WorkerFacts
  <2>2. QED  BY <2>1 DEF Work
<1> HIDE DEF q
<1>2. /\ k = q[1] /\ 1 \in DOMAIN q /\ q # <<>>
      /\ \A i \in DOMAIN Tail(q) : i # 0 /\ i + 1 # 1 /\ i + 1 \in DOMAIN q /\ Tail(q)[i] = q[i + 1]
      /\ \A i, j \in DOMAIN Tail(q) : i + 1 = j + 1 => i = j
  <2>1. q # <<>>  BY DEF q
  <2>2. \A i, j \in DOMAIN Tail(q) : i \in Nat /\ j \in Nat /\ i # 0  BY <1>1, <2>1, TailIs
  <2>3. QED  BY <1>1, <2>1, <2>2, TailIs
<1> DEFINE r == Tail(q)
<1> HIDE DEF k, r
<1>3. /\ k = q[1] /\ 1 \in DOMAIN q
      /\ \A i \in DOMAIN r : i + 1 # 1 /\ i + 1 \in DOMAIN q /\ r[i] = q[i + 1]
      /\ \A i, j \in DOMAIN r : i + 1 = j + 1 => i = j
  BY <1>2 DEF k, r
<1>4. worker'[w].picked = r /\ worker[w].picked = q  BY DEF r, q
<1>5. Picks(w) = {q[i] : i \in DOMAIN q} /\ Picks(w)' = {r[i] : i \in DOMAIN r}  BY <1>4 DEF Picks
<1>6. k \in Picks(w) /\ Picks(w)' \subseteq Picks(w)  BY <1>3, <1>5
<1>7. Tidy(w) => /\ k \notin Picks(w)'
                 /\ \A i, j \in DOMAIN r : r[i] = r[j] => i = j
  <2> SUFFICES ASSUME Tidy(w)
               PROVE  /\ k \notin Picks(w)'
                      /\ \A i, j \in DOMAIN r : r[i] = r[j] => i = j
    OBVIOUS
  <2>1. \A i, j \in DOMAIN q : q[i] = q[j] => i = j  BY <1>4 DEF Tidy
  <2>2. k \notin Picks(w)'  BY <1>3, <1>5, <2>1
  <2>3. \A i, j \in DOMAIN r : r[i] = r[j] => i = j  BY <1>3, <2>1
  <2>4. QED  BY <2>2, <2>3
<1>8. /\ Held(w) = Picks(w) /\ InHand(w) = Picks(w) /\ Marks(w) = {}
      /\ Held(w)' \subseteq Picks(w)' \cup {k} /\ InHand(w)' \subseteq Picks(w)' \cup {k}
      /\ Runs(w, {"timer", "enqueue", "mark"})' \subseteq {k}
      /\ worker'[w].pc = "take" => InHand(w)' = Picks(w)'
  <2>1. worker'[w].pc = "enqueue" => worker'[w].run = k  BY DEF k, q
  <2>2. Runs(w, {"timer", "enqueue"})' \subseteq {k} /\ Runs(w, {"timer", "enqueue", "mark"})' \subseteq {k}
    BY <2>1 DEF Runs
  <2>3. Held(w)' \subseteq Picks(w)' \cup {k}  BY <2>2 DEF Held
  <2>4. InHand(w)' = Picks(w)' \cup Runs(w, {"timer", "enqueue", "mark"})'
    BY DEF InHand, Picks, Runs
  <2>5. worker'[w].pc = "take" => Runs(w, {"timer", "enqueue", "mark"})' = {}  BY DEF Runs
  <2>6. Held(w) = Picks(w) /\ InHand(w) = Picks(w) /\ Marks(w) = {}
    BY HandIs DEF Held, Marks, Runs
  <2>7. QED  BY <2>2, <2>3, <2>4, <2>5, <2>6
<1>9. Tidy(w) => Tidy(w)'
  BY <1>4, <1>7, <1>8 DEF Tidy
<1>10. \A v \in Worker : v # w => InHand(v)' = InHand(v) /\ Held(v)' = Held(v)
                                /\ Marks(v)' = Marks(v) /\ (Tidy(v) => Tidy(v)')
  BY RestsSame
<1>11. HandsGo  BY <1>6, <1>8, <1>9, <1>10 DEF HandsGo
<1>12. MarksStay  BY <1>8, <1>10 DEF MarksStay
<1>13. NoneProposes  BY DEF NoneProposes
<1>14. k \in Held(w) /\ (Tidy(w) /\ worker'[w].pc = "take" => k \notin InHand(w)')
  BY <1>6, <1>7, <1>8
<1>15. QED  BY <1>11, <1>12, <1>13, <1>14 DEF k, q

LEMMA TakeKeeps ==
    ASSUME Inv, NEW w \in Worker, Take(w)
    PROVE  Inv'
<1> DEFINE rest == worker[w].picked
           k == Head(rest)
<1>1. worker[w].pc = "take" /\ UNCHANGED <<due, enabled, errors, closed, slip>>  BY DEF Take
<1>2. used' \in 0..Total  BY WorkerFacts, SpendIs DEF Take
<1>3. worker[w] \in Work /\ rest \in Seq(Nat)
  <2>1. worker[w] \in Work  BY WorkerFacts
  <2>2. QED  BY <2>1 DEF Work
<1>4. CASE rest = <<>> /\ To(w, "scan") /\ UNCHANGED task
  <2>1. /\ worker' \in [Worker -> Work]
        /\ \A v \in Worker : v # w => worker'[v] = worker[v]
        /\ worker'[w].pc = "scan" /\ worker'[w].picked = worker[w].picked
        /\ worker'[w].kind = worker[w].kind /\ worker'[w].back = worker[w].back
    BY <1>4, WorkerFacts, ToIs DEF Pc
  <2>2. Lighter(worker[w], worker'[w])  BY <1>1, <2>1 DEF Lighter
  <2>3. QED  BY <1>1, <1>2, <1>4, <2>1, <2>2, WorkerFacts, QuietKeeps
<1>5. CASE /\ rest # <<>>
           /\ worker' = [worker EXCEPT ![w].pc = "enqueue", ![w].run = k,
                                       ![w].picked = Tail(rest), ![w].back = "take"]
           /\ UNCHANGED task
  <2>1. k \in Nat /\ Tail(rest) \in Seq(Nat)  BY <1>3, <1>5, TailIs
  <2>2. /\ worker' \in [Worker -> Work]
        /\ \A v \in Worker : v # w => worker'[v] = worker[v]
        /\ worker'[w].pc = "enqueue" /\ worker'[w].run = k /\ worker'[w].picked = Tail(rest)
        /\ worker'[w].kind = worker[w].kind /\ worker'[w].back = "take"
    <3> DEFINE t == Tail(rest)
               h == k
               r == [worker[w] EXCEPT !.pc = "enqueue", !.run = h, !.picked = t, !.back = "take"]
    <3>1. "enqueue" \in Pc /\ "take" \in Pc  BY DEF Pc
    <3>2. t \in Seq(Nat) /\ h \in Nat  BY <2>1
    <3> HIDE DEF t, h
    <3>3. /\ r \in Work /\ r.pc = "enqueue" /\ r.run = h /\ r.picked = t
          /\ r.kind = worker[w].kind /\ r.back = "take"
      BY <1>3, <3>1, <3>2 DEF Work
    <3>4. worker' = [worker EXCEPT ![w] = r]  BY <1>5 DEF t, h
    <3> HIDE DEF r
    <3>5. QED  BY <3>3, <3>4, WorkerFacts DEF t, h
  <2>3. HandsGo /\ MarksStay /\ NoneProposes  BY <1>1, <1>5, <2>2, TakenGo
  <2>4. TasksGo /\ NewTasks  BY <1>1, <1>5, SameTasksGo
  <2>5. TypeOK'  BY <1>1, <1>2, <1>5, <2>2, WorkerFacts DEF TypeOK, Slip
  <2>6. Ways'  BY <2>2, WorkerFacts DEF Ways
  <2>7. Alone' => HeldStays
    <3>1. Alone' => Fresh  BY <1>1, WorkerFacts, SlipStays DEF Owned
    <3>2. QED  BY <1>5, <2>3, <3>1, WorkerFacts, HeldStaysIf
  <2>8. QED  BY <1>1, <2>3, <2>4, <2>5, <2>6, <2>7, StepKeeps DEF NewlyClosed
<1>6. CASE /\ rest # <<>>
           /\ task' \in {FailedIfOpen(k), task}
           /\ worker' = [worker EXCEPT ![w].picked = Tail(rest)]
  <2>1. Tail(rest) \in Seq(Nat)  BY <1>3, <1>6, TailIs
  <2>2. /\ worker' \in [Worker -> Work]
        /\ \A v \in Worker : v # w => worker'[v] = worker[v]
        /\ worker'[w].pc = "take" /\ worker'[w].picked = Tail(rest)
        /\ worker'[w].kind = worker[w].kind /\ worker'[w].back = worker[w].back
    <3> DEFINE t == Tail(rest)
               r == [worker[w] EXCEPT !.picked = t]
    <3>1. t \in Seq(Nat)  BY <2>1
    <3> HIDE DEF t
    <3>2. /\ r \in Work /\ r.pc = "take" /\ r.picked = t
          /\ r.kind = worker[w].kind /\ r.back = worker[w].back
      BY <1>1, <1>3, <3>1 DEF Work
    <3>3. worker' = [worker EXCEPT ![w] = r]  BY <1>6 DEF t
    <3> HIDE DEF r
    <3>4. QED  BY <3>2, <3>3, WorkerFacts DEF t
  <2>3. /\ HandsGo /\ MarksStay /\ NoneProposes
        /\ k \in Held(w) /\ (Tidy(w) => k \notin InHand(w)')
    BY <1>1, <1>6, <2>2, TakenGo
  <2>4. Ways'  BY <2>2, WorkerFacts DEF Ways
  <2> HIDE DEF k
  <2>5. k \in DOMAIN task  BY <2>3, WorkerFacts, HeldIsIn
  <2>6. CASE UNCHANGED task
    <3>1. TasksGo /\ NewTasks  BY <1>1, <2>6, SameTasksGo
    <3>2. TypeOK'  BY <1>1, <1>2, <2>2, <2>6, WorkerFacts DEF TypeOK, Slip
    <3>3. Alone' => Fresh  BY <1>1, WorkerFacts, SlipStays DEF Owned
    <3>4. Alone' => HeldStays  BY <2>3, <2>6, <3>3, WorkerFacts, HeldStaysIf
    <3>5. QED  BY <1>1, <2>3, <2>4, <3>1, <3>2, <3>4, StepKeeps DEF NewlyClosed
  <2>7. CASE task' = SetTo(k, "failed")
    <3>1. "failed" \in TaskStatus  BY DEF TaskStatus
    <3> DEFINE t == task[k]
    <3>2. t \in Task  BY <2>5, WorkerFacts
    <3>3. /\ task' \in Seq(Task) /\ DOMAIN task' = DOMAIN task
          /\ task'[k] = Written(t, "failed")
          /\ \A l \in DOMAIN task : l # k => task'[l] = task[l]
      BY <2>5, <2>7, <3>1, WorkerFacts, WrittenTyped
    <3>4. InTime' => t.chain = <<>>
      BY <1>1, <2>3, WorkerFacts, SlipStays DEF Owned, Fresh
    <3> HIDE DEF t
    <3>5. /\ Calm(t, task'[k]) /\ Opens(t, task'[k])
          /\ InTime' => Settles(t, task'[k])
      BY <3>2, <3>3, <3>4, FailIsCalm
    <3>6. TasksGo /\ NewTasks  BY <1>1, <2>5, <3>3, <3>5, OneTaskGoes DEF t
    <3>7. TypeOK'  BY <1>1, <1>2, <2>2, <3>3, WorkerFacts DEF TypeOK, Slip
    <3>8. ASSUME Alone' PROVE HeldStays
      <4>1. Apart /\ Tidy(w) /\ Fresh  BY <1>1, <3>8, WorkerFacts, SlipStays DEF Owned
      <4> SUFFICES ASSUME NEW v \in Worker, NEW l \in Held(v)' PROVE task'[l].status = "created"
        BY DEF HeldStays
      <4>2. l \in Held(v) /\ l \in InHand(v)'  BY <2>3, HandIs DEF HandsGo
      <4>3. l \in DOMAIN task /\ l \in InHand(v)  BY <4>2, WorkerFacts, HeldIsIn
      <4>4. l # k
        <5>1. k \in InHand(w)  BY <2>3, WorkerFacts, HeldIsIn
        <5>2. CASE v # w  BY <4>1, <4>3, <5>1, <5>2 DEF Apart
        <5>3. CASE v = w  BY <2>3, <4>1, <4>2, <5>3
        <5>4. QED  BY <5>2, <5>3
      <4>5. QED  BY <3>3, <4>1, <4>2, <4>3, <4>4 DEF Fresh
    <3>9. QED  BY <1>1, <2>3, <2>4, <3>6, <3>7, <3>8, StepKeeps DEF NewlyClosed
  <2>8. QED  BY <1>6, <2>6, <2>7 DEF FailedIfOpen, k
<1>7. QED  BY <1>4, <1>5, <1>6 DEF Take

\* A worker that has found no open scan, and no other worker about to propose.
LEMMA ScanKeeps ==
    ASSUME Inv, NEW w \in Worker, Scan(w)
    PROVE  Inv'
<1>1. worker[w].pc = "scan" /\ UNCHANGED <<task, due, enabled, errors, closed>>  BY DEF Scan
<1>2. used' \in 0..Total  BY WorkerFacts, SpendIs DEF Scan
<1>3. slip \subseteq slip' /\ slip' \subseteq Slip  BY WorkerFacts DEF Scan, Slips, Slip
<1>4. PICK p \in {"end", "propose"} :
         /\ To(w, p)
         /\ p = "propose" => /\ OpenScans = {}
                             /\ Slips("together", \E v \in Worker \ {w} : worker[v].pc = "propose")
  <2>1. CASE To(w, "end")  BY <2>1
  <2>2. CASE /\ OpenScans = {} /\ To(w, "propose")
             /\ Slips("together", \E v \in Worker \ {w} : worker[v].pc = "propose")
    BY <2>2
  <2>3. QED  BY <2>1, <2>2 DEF Scan, Proposes
<1>5. /\ worker' \in [Worker -> Work]
      /\ \A v \in Worker : v # w => worker'[v] = worker[v]
      /\ worker'[w].pc = p /\ worker'[w].picked = worker[w].picked
      /\ worker'[w].kind = worker[w].kind /\ worker'[w].back = worker[w].back
  BY <1>4, WorkerFacts, ToIs DEF Pc
<1>6. CASE p = "end"
  <2>1. Lighter(worker[w], worker'[w])  BY <1>1, <1>5, <1>6 DEF Lighter
  <2>2. QED  BY <1>1, <1>2, <1>3, <1>5, <2>1, WorkerFacts, QuietKeeps
<1>7. CASE p = "propose"
  <2>1. TypeOK'  BY <1>1, <1>2, <1>3, <1>5, WorkerFacts DEF TypeOK, Slip
  <2>2. TasksGo /\ NewTasks  BY <1>1, <1>3, SameTasksGo
  <2>3. \A v \in Worker : /\ InHand(v)' = InHand(v) /\ Held(v)' = Held(v)
                         /\ Marks(v)' = Marks(v) /\ (Tidy(v) => Tidy(v)')
    <3>1. ASSUME NEW v \in Worker, v # w
          PROVE  /\ InHand(v)' = InHand(v) /\ Held(v)' = Held(v)
                 /\ Marks(v)' = Marks(v) /\ (Tidy(v) => Tidy(v)')
      BY <1>5, <3>1, RestsSame
    <3>2. /\ InHand(w)' = InHand(w) /\ Held(w)' = Held(w)
          /\ Marks(w)' = Marks(w) /\ (Tidy(w) => Tidy(w)')
      BY <1>1, <1>5, <1>7 DEF InHand, Held, Marks, Tidy, Picks, Runs
    <3>3. QED  BY <3>1, <3>2
  <2>4. HandsGo /\ MarksStay  BY <2>3 DEF HandsGo, MarksStay
  <2>5. Ways'  BY <1>5, WorkerFacts DEF Ways
  <2>6. Hands'  BY <2>2, <2>4, WorkerFacts, HandsStay
  <2>7. Alone' => HeldStays
    <3>1. Alone' => Fresh  BY <1>3, WorkerFacts, SlipStays DEF Owned
    <3>2. QED  BY <1>1, <2>4, <3>1, WorkerFacts, HeldStaysIf
  <2>8. Owned'  BY <2>1, <2>2, <2>4, <2>7, OwnedStays DEF Inv
  <2>9. Scanned'
    <3> SUFFICES ASSUME Without({"together", "late"})'
                 PROVE  \A u \in Worker : worker'[u].pc = "propose" => u = w
      <4>1. OpenScans' = {}  BY <1>1, <1>4, <1>7 DEF OpenScans
      <4>2. QED  BY <4>1 DEF Scanned
    <3>1. "together" \notin slip'  BY DEF Without
    <3>2. \A v \in Worker \ {w} : worker[v].pc # "propose"  BY <1>4, <1>7, <3>1 DEF Slips
    <3>3. QED  BY <1>5, <3>2
  <2>10. QED  BY <1>1, <2>1, <2>2, <2>5, <2>6, <2>8, <2>9, TasksKeep DEF NewTasks, NewlyClosed
<1>8. QED  BY <1>4, <1>6, <1>7

LEMMA ProposeKeeps ==
    ASSUME Inv, NEW w \in Worker, Propose(w)
    PROVE  Inv'
<1>1. worker[w].pc = "propose" /\ To(w, "end") /\ UNCHANGED <<due, enabled, errors, closed, slip>>
  BY DEF Propose
<1>2. used' \in 0..Total  BY WorkerFacts, SpendIs DEF Propose
<1>3. /\ worker' \in [Worker -> Work]
      /\ \A v \in Worker : v # w => worker'[v] = worker[v]
      /\ worker'[w].pc = "end" /\ worker'[w].picked = worker[w].picked
      /\ worker'[w].kind = worker[w].kind /\ worker'[w].back = worker[w].back
  BY <1>1, WorkerFacts, ToIs DEF Pc
<1>4. Lighter(worker[w], worker'[w])  BY <1>1, <1>3 DEF Lighter
<1>5. CASE UNCHANGED task
  BY <1>1, <1>2, <1>3, <1>4, <1>5, WorkerFacts, QuietKeeps
<1>6. CASE task' = Append(task, Created("scan", 0, 0))
  <2> DEFINE n == Len(task) + 1
  <2>1. /\ task' \in Seq(Task) /\ DOMAIN task \subseteq DOMAIN task'
        /\ DOMAIN task' \ DOMAIN task = {n} /\ task'[n].kind = "scan"
        /\ DOMAIN task' = DOMAIN task \cup {n}
        /\ \A k \in DOMAIN task : task'[k] = task[k]
        /\ TasksGo
    <3>1. "scan" \in Kind  BY DEF Kind
    <3>2. QED  BY <1>1, <1>6, <3>1, WorkerFacts, AppendGoes
  <2> HIDE DEF n
  <2>2. TypeOK'  BY <1>1, <1>2, <1>3, <2>1, WorkerFacts DEF TypeOK
  <2>3. HandsGo /\ MarksStay /\ NoneProposes /\ Ways'  BY <1>3, <1>4, WorkerFacts, LighterGo
  <2>4. Hands'  BY <2>1, <2>3, WorkerFacts, HandsStay
  <2>5. Alone' => HeldStays
    <3>1. Alone' => Fresh  BY <1>1, WorkerFacts, SlipStays DEF Owned
    <3>2. QED  BY <2>1, <2>3, <3>1, WorkerFacts, HeldStaysIf
  <2>6. Owned'  BY <2>1, <2>2, <2>3, <2>5, OwnedStays DEF Inv
  <2>7. Scanned'
    <3> SUFFICES ASSUME Without({"together", "late"})'
                 PROVE  /\ \A k, l \in OpenScans' : task'[k].tries = 0 /\ task'[l].tries = 0 => k = l
                        /\ \A v \in Worker : worker'[v].pc # "propose"
      BY DEF Scanned
    <3>1. Without({"together", "late"})  BY <1>1 DEF Without
    <3>2. /\ \A k \in OpenScans : task[k].tries # 0
          /\ \A v \in Worker : worker[v].pc = "propose" => v = w
      BY <1>1, <3>1 DEF Inv, Scanned
    <3>3. \A k \in OpenScans' : k = n \/ task'[k].tries # 0
      <4> SUFFICES ASSUME NEW k \in OpenScans', k # n PROVE task'[k].tries # 0
        OBVIOUS
      <4>1. k \in DOMAIN task /\ task'[k] = task[k]  BY <2>1 DEF OpenScans
      <4>2. k \in OpenScans  BY <4>1 DEF OpenScans
      <4>3. QED  BY <3>2, <4>1, <4>2
    <3>4. QED  BY <1>3, <3>2, <3>3
  <2>8. \A m \in DOMAIN task' \ DOMAIN task : task'[m].kind # "schedule"  BY <2>1
  <2>9. QED  BY <1>1, <2>1, <2>2, <2>3, <2>4, <2>6, <2>7, <2>8, TasksKeep DEF NewlyClosed
<1>7. QED  BY <1>5, <1>6 DEF Propose

-----------------------------------------------------------------------------
(* Time, other callers, the process *)

LEMMA TimerDueKeeps ==
    ASSUME Inv, TimerDue \/ Resume
    PROVE  Inv'
<1>1. UNCHANGED <<task, closed, worker, slip>>  BY DEF TimerDue, Resume
<1>2. due' \in BOOLEAN /\ enabled' \in BOOLEAN /\ errors' \in Nat
  <2>1. due \in BOOLEAN /\ enabled \in BOOLEAN /\ errors \in Nat  BY WorkerFacts
  <2>2. CASE TimerDue
    <3>1. due' = TRUE /\ enabled' = enabled /\ errors' = errors  BY <2>2 DEF TimerDue
    <3>2. QED  BY <2>1, <3>1
  <2>3. CASE Resume
    <3>1. due' = due /\ enabled' = TRUE /\ errors' = 0  BY <2>3 DEF Resume
    <3>2. QED  BY <2>1, <3>1
  <2>4. QED  BY <2>2, <2>3
<1>3. used' \in 0..Total  BY WorkerFacts, SpendIs DEF TimerDue, Resume
<1>4. QED  BY <1>1, <1>2, <1>3, WorkerFacts, QuietKeeps

LEMMA SubmitKeeps ==
    ASSUME Inv, Submit
    PROVE  Inv'
<1>1. /\ task' = Append(task, Created("submitted", 0, 0))
      /\ UNCHANGED <<due, worker, enabled, errors, closed, slip>>
  BY DEF Submit
<1>2. used' \in 0..Total  BY WorkerFacts, SpendIs DEF Submit
<1>3. /\ task' \in Seq(Task) /\ DOMAIN task \subseteq DOMAIN task'
      /\ DOMAIN task' \ DOMAIN task = {Len(task) + 1}
      /\ task'[Len(task) + 1].kind = "submitted"
      /\ \A k \in DOMAIN task : task'[k] = task[k]
      /\ TasksGo
  <2>1. "submitted" \in Kind  BY DEF Kind
  <2>2. QED  BY <1>1, <2>1, WorkerFacts, AppendGoes
<1>4. TypeOK'  BY <1>1, <1>2, <1>3, WorkerFacts DEF TypeOK
<1>5. NewTasks  BY <1>3 DEF NewTasks
<1>6. CreatedStay  BY <1>3 DEF CreatedStay
<1>7. QED  BY <1>1, <1>3, <1>4, <1>5, <1>6, LighterKeeps

LEMMA SixHoursKeeps ==
    ASSUME Inv, SixHours
    PROVE  Inv'
<1>1. /\ task' = Aged
      /\ UNCHANGED <<due, worker, enabled, errors, closed, slip>>
  BY DEF SixHours
<1>2. used' \in 0..Total  BY WorkerFacts, SpendIs DEF SixHours
<1>3. DOMAIN task' = DOMAIN task  BY <1>1 DEF Aged
<1>4. ASSUME NEW k \in DOMAIN task
      PROVE  /\ task'[k] \in Task
             /\ Calm(task[k], task'[k])
             /\ Opens(task[k], task'[k]) /\ Settles(task[k], task'[k])
             /\ task[k].status = "created" => task'[k].status = "created"
  <2> DEFINE t == task[k]
             u == [t EXCEPT !.old = TRUE, !.stale = TRUE]
  <2>1. t \in Task  BY WorkerFacts
  <2>2. task'[k] = u  BY <1>1 DEF Aged
  <2>3. u.status = t.status  BY <2>1 DEF Task
  <2>4. u \in Task /\ Calm(t, u) /\ Opens(t, u) /\ Settles(t, u)  BY <2>1, AgedIsCalm
  <2> HIDE DEF u
  <2>5. QED  BY <2>2, <2>3, <2>4
<1>5. task' \in Seq(Task)
  <2>1. task' \in [1..Len(task) -> Task]  BY <1>1, <1>3, <1>4, WorkerFacts DEF Aged
  <2>2. QED  BY <2>1, WorkerFacts
<1>6. TasksGo /\ NewTasks  BY <1>1, <1>3, <1>4 DEF TasksGo, NewTasks
<1>7. CreatedStay  BY <1>4 DEF CreatedStay
<1>8. TypeOK'  BY <1>1, <1>2, <1>3, <1>5, WorkerFacts DEF TypeOK
<1>9. QED  BY <1>1, <1>6, <1>7, <1>8, LighterKeeps

\* A crash loses what the workers hold, and, which is noted, the marks.
LEMMA CrashKeeps ==
    ASSUME Inv, Crash
    PROVE  Inv'
<1>1. /\ worker' = [w \in Worker |-> Idle] /\ enabled' = TRUE /\ errors' = 0
      /\ Slips("unmarked", \E w \in Worker : worker[w].pc = "mark")
      /\ UNCHANGED <<task, due, closed>>
  BY DEF Crash
<1>2. used' \in 0..Total  BY WorkerFacts, SpendIs DEF Crash
<1>3. slip \subseteq slip' /\ slip' \subseteq Slip
  BY <1>1, WorkerFacts, SlipsGrows, "unmarked" \in Slip DEF Slip
<1>4. TypeOK'
  <2>1. worker' \in [Worker -> Work]  BY <1>1, IdleIs
  <2>2. QED  BY <1>1, <1>2, <1>3, <2>1, WorkerFacts DEF TypeOK, Slip
<1>5. \A w \in Worker : /\ worker'[w].pc = "idle" /\ worker'[w].picked = <<>>
                       /\ worker'[w].kind = "schedule" /\ worker'[w].back = "idle"
  BY <1>1 DEF Idle
<1>6. Ways' /\ NoneProposes  BY <1>5 DEF Ways, NoneProposes
<1>7. HandsGo
  <2>1. \A w \in Worker : Picks(w)' = {} /\ Runs(w, {"timer", "enqueue", "mark"})' = {}
                         /\ Held(w)' = {} /\ InHand(w)' = {}
    BY <1>5 DEF Picks, Runs, Held, InHand
  <2>2. \A w \in Worker : Tidy(w)'  BY <1>5, <2>1 DEF Tidy
  <2>3. QED  BY <2>1, <2>2 DEF HandsGo
<1>8. TasksGo /\ NewTasks  BY <1>1, <1>3, SameTasksGo
<1>9. Alone' => HeldStays /\ MarksStay
  <2> SUFFICES ASSUME Alone' PROVE HeldStays /\ MarksStay
    OBVIOUS
  <2>1. Fresh  BY <1>3, WorkerFacts, SlipStays DEF Owned
  <2>2. HeldStays  BY <1>1, <1>7, <2>1, WorkerFacts, HeldStaysIf
  <2>3. \A w \in Worker : worker[w].pc # "mark"  BY <1>1 DEF Slips, Alone, Without
  <2>4. MarksStay  BY <2>3 DEF MarksStay, Marks, Runs
  <2>5. QED  BY <2>2, <2>4
<1>10. QED  BY <1>1, <1>4, <1>6, <1>7, <1>8, <1>9, StepKeeps DEF NewlyClosed

-----------------------------------------------------------------------------
(* The invariant holds *)

LEMMA InitInv == Init => Inv
<1> SUFFICES ASSUME Init PROVE Inv
  OBVIOUS
<1>1. TypeOK  BY InitTyped
<1>2. task = <<Halted>> \/ task = <<Created("submitted", 0, 0)>>  BY DEF Init
<1>3. DOMAIN task = {1}  BY <1>2
<1>4. /\ task[1].of = 0 /\ task[1].tries = 0 /\ task[1].kind \in {"schedule", "submitted"}
      /\ ~task[1].stale
      /\ \/ Newborn(task[1])
         \/ task[1].status = "blocked" /\ task[1].chain = <<[stage |-> "over", closes |-> "blocked"]>>
  <2>1. CASE task[1] = Created("submitted", 0, 0)  BY <2>1 DEF Created, Newborn
  <2>2. CASE task[1] = Halted  BY <2>2 DEF Halted, Created
  <2>3. QED  BY <1>2, <2>1, <2>2
<1>5. 1 \in closed => task[1].status = "blocked" /\ Done(task[1])
  <2>1. 1 \in closed => task[1] = Halted  BY DEF Init
  <2>2. Halted.status = "blocked" /\ Halted.chain = <<[stage |-> "over", closes |-> "blocked"]>>
    BY DEF Halted, Created
  <2>3. Done(Halted)  BY <2>2 DEF Done
  <2>4. QED  BY <2>1, <2>2, <2>3
<1>6. \A w \in Worker : /\ worker[w].pc = "idle" /\ worker[w].picked = <<>>
                       /\ worker[w].kind = "schedule" /\ worker[w].back = "idle"
  BY DEF Init, Idle
<1>7. \A w \in Worker : Picks(w) = {} /\ Runs(w, {"timer", "enqueue", "mark"}) = {}
                       /\ Held(w) = {} /\ InHand(w) = {}
  BY <1>6 DEF Picks, Runs, Held, InHand
<1>8. DOMAIN task[1].chain \subseteq {1}
      /\ \A c \in DOMAIN task[1].chain : task[1].chain[c].stage = "over"
  BY <1>4 DEF Newborn
<1>9. Kept
  <2>1. Nodes  BY <1>3, <1>4, <1>8 DEF Nodes, Sound
  <2>2. QED  BY <1>6, <1>7, <2>1 DEF Kept, Ways, Hands
<1>10. Owned
  <2>1. Apart /\ Fresh /\ \A w \in Worker : Tidy(w)  BY <1>6, <1>7 DEF Apart, Fresh, Tidy
  <2>2. Chained
    <3>1. Len(<<[stage |-> "over", closes |-> "blocked"]>>) = 1  OBVIOUS
    <3>2. task[1].chain # <<>> => Len(task[1].chain) = 1 /\ task[1].status = "blocked"
      BY <1>4, <3>1 DEF Newborn
    <3>3. QED  BY <1>3, <3>2 DEF Chained
  <2>3. Retried  BY <1>3, <1>4 DEF Retried
  <2>4. QED  BY <2>1, <2>2, <2>3 DEF Owned
<1>11. Ended
  <2>1. Settled(task[1])  BY <1>8 DEF Settled
  <2>2. closed \subseteq {1}  BY <1>1, <1>3 DEF TypeOK
  <2>3. QED  BY <1>3, <1>4, <1>5, <2>1, <2>2 DEF Ended
<1>12. NotStacked
  <2>1. Live \subseteq {1}  BY <1>3 DEF Live
  <2>2. QED  BY <2>1 DEF NotStacked
<1>13. Scanned
  <2>1. OpenScans = {}  BY <1>3, <1>4 DEF OpenScans
  <2>2. QED  BY <1>6, <2>1 DEF Scanned
<1>14. QED  BY <1>1, <1>9, <1>10, <1>11, <1>12, <1>13 DEF Inv

LEMMA StepInv == Inv /\ [Next]_vars => Inv'
<1> SUFFICES ASSUME Inv, [Next]_vars PROVE Inv'
  OBVIOUS
<1>1. ASSUME NEW w \in Worker, StartTick(w) \/ RunNow(w) PROVE Inv'
  BY <1>1, StartTickKeeps
<1>2. ASSUME NEW w \in Worker, WorkerStep(w) PROVE Inv'
  <2>1. CASE ResetStale(w)  BY <2>1, ResetStaleKeeps
  <2>2. CASE ReadDue(w) \/ CheckLive(w)  BY <2>2, ReadDueKeeps
  <2>3. CASE Fire(w)  BY <2>3, FireKeeps
  <2>4. CASE Timer(w)  BY <2>4, TimerKeeps
  <2>5. CASE Enqueue(w)  BY <2>5, EnqueueKeeps
  <2>6. CASE Mark(w)  BY <2>6, MarkKeeps
  <2>7. CASE List(w)  BY <2>7, ListKeeps
  <2>8. CASE Take(w)  BY <2>8, TakeKeeps
  <2>9. CASE Scan(w)  BY <2>9, ScanKeeps
  <2>10. CASE Propose(w)  BY <2>10, ProposeKeeps
  <2>11. CASE EndTick(w) \/ Pause(w)  BY <2>11, EndTickKeeps
  <2>12. CASE CountError(w)  BY <2>12, CountErrorKeeps
  <2>13. QED
    BY <1>2, <2>1, <2>2, <2>3, <2>4, <2>5, <2>6, <2>7, <2>8, <2>9, <2>10, <2>11, <2>12 DEF WorkerStep
<1>3. ASSUME NEW k \in DOMAIN task, NEW c \in DOMAIN task[k].chain, ChainStep(k, c) \/ CancelChain(k, c)
      PROVE  Inv'
  <2>1. CASE WorkDone(k, c)  BY <2>1, WorkDoneKeeps
  <2>2. CASE FailScored(k, c)  BY <2>2, FailScoredKeeps
  <2>3. CASE Requeue(k, c)  BY <2>3, RequeueKeeps
  <2>4. CASE Close(k, c)  BY <2>4, CloseKeeps
  <2>5. CASE StepDies(k, c) \/ CancelChain(k, c)  BY <2>5, StepDiesKeeps
  <2>6. CASE FailOwner(k, c)  BY <2>6, FailOwnerKeeps
  <2>7. QED  BY <1>3, <2>1, <2>2, <2>3, <2>4, <2>5, <2>6 DEF ChainStep
<1>4. CASE TimerDue \/ Resume  BY <1>4, TimerDueKeeps
<1>5. CASE Submit  BY <1>5, SubmitKeeps
<1>6. CASE SixHours  BY <1>6, SixHoursKeeps
<1>7. CASE Crash  BY <1>7, CrashKeeps
<1>8. CASE UNCHANGED vars
  <2>1. UNCHANGED <<task, due, worker, enabled, errors, closed, slip, used>>  BY <1>8 DEF vars
  <2>2. QED  BY <2>1, WorkerFacts, QuietKeeps
<1>9. QED  BY <1>1, <1>2, <1>3, <1>4, <1>5, <1>6, <1>7, <1>8 DEF Next

LEMMA SpecInv == Spec => []Inv
<1>1. Init => Inv  BY InitInv
<1>2. Inv /\ [Next]_vars => Inv'  BY StepInv
<1>3. QED  BY <1>1, <1>2, PTL DEF Spec

-----------------------------------------------------------------------------
(* The properties *)

\* Every variable keeps its type: a step never writes a status or a stage that the code
\* does not have, and closed names only Tasks that exist.
THEOREM TypesHold == Spec => []TypeOK
<1>1. Inv => TypeOK  BY DEF Inv
<1>2. QED  BY <1>1, SpecInv, PTL

\* Unless a run was listed by one worker while another had it in hand, or a mark or a
\* part of its chain was lost, no tick or request dispatches it a second time.
THEOREM OneChainHolds == Spec => []OneChain
<1>1. Inv => OneChain
  <2> SUFFICES ASSUME Inv, Without({"exposed", "unmarked"}), NEW k \in DOMAIN task
               PROVE  Len(task[k].chain) <= 1
    BY DEF OneChain
  <2>1. Chained  BY DEF Inv, Owned, Alone
  <2>2. CASE task[k].chain = <<>>
    <3>1. Len(task[k].chain) = 0  BY <2>2
    <3>2. QED  BY <3>1
  <2>3. CASE task[k].chain # <<>>
    <3>1. Len(task[k].chain) = 1  BY <2>1, <2>3 DEF Chained
    <3>2. QED  BY <3>1
  <2>4. QED  BY <2>2, <2>3
<1>2. QED  BY <1>1, SpecInv, PTL

\* A timed run is created only when no unfinished run of its workflow is there, and none
\* that has ended comes back to life under it, as long as the check was not raced and no
\* mark came late or was lost.
THEOREM NotStackedHolds == Spec => []NotStacked
<1>1. Inv => NotStacked  BY DEF Inv
<1>2. QED  BY <1>1, SpecInv, PTL

\* A Task that update_task has closed keeps its status: no death of a chain, stale reset
\* or low score overwrites it, unless a mark came after its end.
THEOREM ClosedStaysHolds == Spec => []ClosedStays
<1>1. Inv => ClosedStays  BY DEF Inv, Ended, InTime, ClosedStays
<1>2. QED  BY <1>1, SpecInv, PTL

\* The evaluator gate starts one retry of a run at most, and the run that has one has
\* failed: nothing closes it beside its retry.
THEOREM RetriedOnceHolds == Spec => []RetriedOnce
<1>1. Inv => RetriedOnce
  <2> SUFFICES ASSUME Inv, Without({"exposed", "unmarked"}), NEW k \in DOMAIN task
               PROVE  LET retries == {l \in DOMAIN task : task[l].of = k} IN
                      /\ Cardinality(retries) <= 1
                      /\ retries # {} /\ Without({"late"}) => task[k].status = "failed"
    BY DEF RetriedOnce
  <2> DEFINE retries == {l \in DOMAIN task : task[l].of = k}
  <2>1. Retried  BY DEF Inv, Owned, Alone
  <2>2. k # 0  BY WorkerFacts
  <2>3. Cardinality(retries) <= 1
    <3>1. CASE retries = {}
      <4>1. Cardinality(retries) = 0  BY <3>1, FS_EmptySet
      <4>2. QED  BY <4>1
    <3>2. CASE retries # {}
      <4>1. PICK l \in retries : TRUE  BY <3>2
      <4>2. retries = {l}  BY <2>1, <2>2, <4>1 DEF Retried
      <4>3. Cardinality(retries) = 1  BY <4>2, FS_Singleton
      <4>4. QED  BY <4>3
    <3>3. QED  BY <3>1, <3>2
  <2>4. ASSUME retries # {}, Without({"late"}) PROVE task[k].status = "failed"
    <3>1. PICK l \in DOMAIN task : task[l].of = k  BY <2>4
    <3>2. InTime  BY <2>4 DEF InTime, Without
    <3>3. QED  BY <2>2, <3>1, <3>2 DEF Inv, Ended
  <2>5. QED  BY <2>3, <2>4
<1>2. QED  BY <1>1, SpecInv, PTL

\* The perception scan has one open Task for its condition, retries aside, however the
\* ticks interleave, unless two scans look at once or an ended Task is marked.
THEOREM OneScanTaskHolds == Spec => []OneScanTask
<1>1. Inv => OneScanTask
  <2> SUFFICES ASSUME Inv, Without({"together", "late"})
               PROVE  Cardinality({k \in OpenScans : task[k].tries = 0}) <= 1
    BY DEF OneScanTask
  <2> DEFINE first == {k \in OpenScans : task[k].tries = 0}
  <2>1. \A k, l \in first : k = l  BY DEF Inv, Scanned
  <2>2. CASE first = {}
    <3>1. Cardinality(first) = 0  BY <2>2, FS_EmptySet
    <3>2. QED  BY <3>1
  <2>3. CASE first # {}
    <3>1. PICK k \in first : TRUE  BY <2>3
    <3>2. first = {k}  BY <2>1, <3>1
    <3>3. Cardinality(first) = 1  BY <3>2, FS_Singleton
    <3>4. QED  BY <3>3
  <2>4. QED  BY <2>2, <2>3
<1>2. QED  BY <1>1, SpecInv, PTL
=============================================================================
