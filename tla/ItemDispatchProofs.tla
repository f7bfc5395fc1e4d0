------------------------- MODULE ItemDispatchProofs -------------------------
(***************************************************************************)
(* One run at a time, no run twice, no more than MaxRuns, and none that was *)
(* not approved, for any number of workers, agents and interferences.  All *)
(* four rest on who holds what: every claim belongs to one worker or to one *)
(* run (Claims, Held), and the numbers in use lie below the item's count,  *)
(* which only the latest claim may take back (Numbered).                   *)
(***************************************************************************)
EXTENDS ItemDispatch, FiniteSetTheorems, TLAPS

\* The workers that hold a claim, and those that have a Task for it.
Starting == {w \in Worker : worker[w].pc \in {"create", "mark", "link", "enqueue", "giveback"}}
Making == {w \in Worker : worker[w].pc \in {"mark", "link", "enqueue"}}

\* Every claim belongs to one worker or to one run.
Claims ==
    /\ \A w \in Starting : worker[w].mine \in 1..claim
    /\ \A v, w \in Starting : worker[v].mine = worker[w].mine => v = w
    /\ \A k \in DOMAIN runs : runs[k].claim \in 1..claim
    /\ \A k, l \in DOMAIN runs : runs[k].claim = runs[l].claim => k = l

\* What a worker is starting: the run of its claim, which has no chain yet.
Held ==
    /\ \A w \in Worker : worker[w].pc = "create" =>
          \A k \in DOMAIN runs : runs[k].claim # worker[w].mine
    /\ \A w \in Making :
          LET k == worker[w].run IN
          /\ k \in DOMAIN runs
          /\ runs[k].claim = worker[w].mine
          /\ runs[k].number = worker[w].snap.count + 1
          /\ runs[k].agent = worker[w].snap.assignee
          /\ runs[k].steps = 0
          /\ runs[k].task = IF worker[w].pc = "mark" THEN "created" ELSE "in_progress"
    /\ \A w \in Worker : worker[w].pc = "giveback" /\ "headless" \notin slip =>
          \A k \in DOMAIN runs : runs[k].claim = worker[w].mine => runs[k].steps = 0
    /\ \A k \in DOMAIN runs : runs[k].steps = 0 => runs[k].stage = "none"

\* A Task fails when its chain is over.
FailedLate ==
    /\ \A w \in Worker : worker[w].pc \in {"reread", "settle"} =>
          /\ worker[w].run \in DOMAIN runs
          /\ "early" \notin slip => runs[worker[w].run].task = "failed"
    /\ "early" \notin slip => \A k \in DOMAIN runs :
          runs[k].stage \notin {"none", "over"} => runs[k].task = "in_progress"

\* The item is in progress for the latest claim, whose worker or chain is the only one.
Current ==
    Without({"overwritten", "overtaken", "headless", "early"}) =>
        /\ \A w \in Starting : worker[w].pc # "giveback" =>
              worker[w].mine = claim /\ item.status = "in_progress"
        /\ \A k \in DOMAIN runs : runs[k].stage \in {"agent", "deliver", "store"} =>
              runs[k].claim = claim /\ item.status = "in_progress"

\* The run numbers in use lie below the item's count, each with one worker or chain.
Numbered ==
    Without({"headless", "overtaken"}) =>
        /\ \A w \in Starting :
              /\ worker[w].snap.count < item.count
              /\ worker[w].mine = claim => item.count = worker[w].snap.count + 1
        /\ \A v, w \in Starting : worker[v].snap.count = worker[w].snap.count => v = w
        /\ \A k \in Chained : runs[k].number <= item.count
        /\ \A k \in Chained, w \in Starting : runs[k].number # worker[w].snap.count + 1
        /\ \A k, l \in Chained : runs[k].number = runs[l].number => k = l

\* A claim was made on an item that had an agent and runs left.
Capped ==
    /\ \A w \in Starting :
          worker[w].snap.count < MaxRuns /\ worker[w].snap.assignee \in Agent
    /\ \A k \in DOMAIN runs : runs[k].number \in 1..MaxRuns

\* An approval was given for the agent that has the item, and on every copy of it.
May(n, a) == a \in AsksFirst => <<n, a>> \in granted
MayAs(t) == t.approved # NoRun => May(t.approved, t.assignee)
Allowed ==
    Without({"swapped"}) =>
        /\ MayAs(item)
        /\ \A w \in Worker : MayAs(worker[w].snap)
        /\ \A w \in Starting : May(worker[w].snap.count + 1, worker[w].snap.assignee)
        /\ \A k \in DOMAIN runs : May(runs[k].number, runs[k].agent)

Inv == TypeOK /\ Claims /\ Held /\ FailedLate /\ Current /\ Numbered /\ Capped /\ Allowed

-----------------------------------------------------------------------------
(* What a worker carries, and the fields of the item *)

\* w goes to pc with these in hand, and nobody else moves.
Moves(w, pc, snap, run, mine) ==
    /\ worker' \in [Worker -> Work]
    /\ \A v \in Worker \ {w} : worker'[v] = worker[v]
    /\ worker'[w].pc = pc /\ worker'[w].snap = snap
    /\ worker'[w].run = run /\ worker'[w].mine = mine

\* The ways a worker is written.
WithRun(w, pc, k) == worker' = [worker EXCEPT ![w].pc = pc, ![w].run = k]
WithMine(w, pc, n) == worker' = [worker EXCEPT ![w].pc = pc, ![w].mine = n]
WithSnap(w, pc, t) == worker' = [worker EXCEPT ![w].pc = pc, ![w].snap = t]
Anew(w, t) == worker' = [worker EXCEPT ![w] = t]

LEMMA IdleIs ==
    /\ Idle \in Work /\ Fresh \in Item
    /\ Idle.pc = "idle" /\ Idle.snap = Fresh /\ Idle.run = 0 /\ Idle.mine = 0
    /\ Fresh.approved = NoRun /\ Fresh.count = 0
BY DEF Idle, Fresh, Work, Item, Pc, ItemStatus, NoRun

LEMMA AnewMoves ==
    ASSUME worker \in [Worker -> Work], NEW w \in Worker, NEW t \in Work, Anew(w, t)
    PROVE  Moves(w, t.pc, t.snap, t.run, t.mine)
BY DEF Anew, Moves

LEMMA ToMoves ==
    ASSUME worker \in [Worker -> Work], NEW w \in Worker, NEW pc \in Pc, To(w, pc)
    PROVE  Moves(w, pc, worker[w].snap, worker[w].run, worker[w].mine)
<1> DEFINE r == [worker[w] EXCEPT !.pc = pc]
<1>1. worker[w] \in Work  OBVIOUS
<1>2. r \in Work  BY <1>1 DEF Work
<1>3. /\ r.pc = pc /\ r.snap = worker[w].snap
      /\ r.run = worker[w].run /\ r.mine = worker[w].mine
  BY <1>1 DEF Work
<1>4. Anew(w, r)  BY DEF To, Anew
<1> HIDE DEF r
<1> QED  BY <1>2, <1>3, <1>4, AnewMoves DEF Moves

LEMMA WithRunMoves ==
    ASSUME worker \in [Worker -> Work], NEW w \in Worker, NEW pc \in Pc, NEW k \in Nat,
           WithRun(w, pc, k)
    PROVE  Moves(w, pc, worker[w].snap, k, worker[w].mine)
<1> DEFINE r == [worker[w] EXCEPT !.pc = pc, !.run = k]
<1>1. worker[w] \in Work  OBVIOUS
<1>2. r \in Work  BY <1>1 DEF Work
<1>3. /\ r.pc = pc /\ r.snap = worker[w].snap
      /\ r.run = k /\ r.mine = worker[w].mine
  BY <1>1 DEF Work
<1>4. Anew(w, r)  BY DEF WithRun, Anew
<1> HIDE DEF r
<1> QED  BY <1>2, <1>3, <1>4, AnewMoves DEF Moves

LEMMA WithMineMoves ==
    ASSUME worker \in [Worker -> Work], NEW w \in Worker, NEW pc \in Pc, NEW n \in Nat,
           WithMine(w, pc, n)
    PROVE  Moves(w, pc, worker[w].snap, worker[w].run, n)
<1> DEFINE r == [worker[w] EXCEPT !.pc = pc, !.mine = n]
<1>1. worker[w] \in Work  OBVIOUS
<1>2. r \in Work  BY <1>1 DEF Work
<1>3. /\ r.pc = pc /\ r.snap = worker[w].snap
      /\ r.run = worker[w].run /\ r.mine = n
  BY <1>1 DEF Work
<1>4. Anew(w, r)  BY DEF WithMine, Anew
<1> HIDE DEF r
<1> QED  BY <1>2, <1>3, <1>4, AnewMoves DEF Moves

LEMMA WithSnapMoves ==
    ASSUME worker \in [Worker -> Work], NEW w \in Worker, NEW pc \in Pc, NEW t \in Item,
           WithSnap(w, pc, t)
    PROVE  Moves(w, pc, t, worker[w].run, worker[w].mine)
<1> DEFINE r == [worker[w] EXCEPT !.pc = pc, !.snap = t]
<1>1. worker[w] \in Work  OBVIOUS
<1>2. r \in Work  BY <1>1 DEF Work
<1>3. /\ r.pc = pc /\ r.snap = t
      /\ r.run = worker[w].run /\ r.mine = worker[w].mine
  BY <1>1 DEF Work
<1>4. Anew(w, r)  BY DEF WithSnap, Anew
<1> HIDE DEF r
<1> QED  BY <1>2, <1>3, <1>4, AnewMoves DEF Moves

LEMMA FinishMoves ==
    ASSUME worker \in [Worker -> Work], NEW w \in Worker, Finish(w)
    PROVE  Moves(w, "idle", Fresh, 0, 0)
BY IdleIs, AnewMoves DEF Finish, Anew

\* A write that leaves the run count alone.
LEMMA ItemIs ==
    ASSUME item \in Item
    PROVE  /\ \A s \in ItemStatus : item' = [item EXCEPT !.status = s] =>
                 /\ item' \in Item /\ item'.status = s /\ item'.count = item.count
                 /\ item'.approved = item.approved /\ item'.assignee = item.assignee
           /\ \A a \in Agent \cup {User} : item' = [item EXCEPT !.assignee = a] =>
                 /\ item' \in Item /\ item'.status = item.status /\ item'.count = item.count
                 /\ item'.approved = item.approved /\ item'.assignee = a
           /\ \A s \in ItemStatus, n \in Nat :
                 item' = [item EXCEPT !.status = s, !.approved = n] =>
                 /\ item' \in Item /\ item'.status = s /\ item'.count = item.count
                 /\ item'.approved = n /\ item'.assignee = item.assignee
           /\ \A n \in Nat : item' = [item EXCEPT !.approved = n] =>
                 /\ item' \in Item /\ item'.status = item.status /\ item'.count = item.count
                 /\ item'.approved = n /\ item'.assignee = item.assignee
BY DEF Item

-----------------------------------------------------------------------------
(* The steps that touch no run *)

\* The slips there are, and the workers between a claim and its run.
Slip == {"overwritten", "overtaken", "headless", "orphan", "early", "swapped"}
StartPc == {"create", "mark", "link", "enqueue", "giveback"}

\* No claim is made, given back or worked on.
Aside ==
    /\ UNCHANGED <<runs, claim>>
    /\ item' \in Item /\ item'.count = item.count
    /\ slip \subseteq slip' /\ slip' \subseteq Slip
    /\ worker' \in [Worker -> Work]
    /\ \A v \in Worker : worker'[v].pc \in StartPc => worker'[v] = worker[v]

\* A worker that has read a failed run has it from its last step.
Reading ==
    \A v \in Worker : worker'[v].pc \in {"reread", "settle"} =>
        worker[v].pc \in {"reread", "settle"} /\ worker'[v].run = worker[v].run

\* The item leaves its progress unnoticed.
Leaves == item.status = "in_progress" /\ item'.status # "in_progress" /\ "overwritten" \notin slip'

\* A copy of the item that a worker takes.
Copies == \A v \in Worker : worker'[v].snap \in {worker[v].snap, item, Fresh}

LEMMA SpendIs ==
    ASSUME TypeOK, NEW o \in Ops, Spend(o)
    PROVE  used' \in [Ops -> Nat]
<1>1. used[o] + 1 \in Nat  BY DEF TypeOK
<1>2. used' = [used EXCEPT ![o] = used[o] + 1]  BY DEF Spend
<1> QED  BY <1>1, <1>2 DEF TypeOK

\* A worker that does not hold a claim moves.
LEMMA MoveIsAside ==
    ASSUME NEW w \in Worker, NEW pc, NEW snap, NEW run, NEW mine,
           Moves(w, pc, snap, run, mine), pc \notin StartPc,
           UNCHANGED <<runs, claim>>, item' \in Item, item'.count = item.count,
           slip \subseteq slip', slip' \subseteq Slip
    PROVE  Aside
BY DEF Aside, Moves

LEMMA TypesAre ==
    ASSUME TypeOK
    PROVE  /\ worker \in [Worker -> Work] /\ item \in Item /\ slip \subseteq Slip
           /\ \A w \in Worker : worker[w] \in Work
           /\ \A w \in Worker : worker[w].snap \in Item /\ worker[w].want \in Agent \cup {User}
           /\ \A w \in Worker : worker[w].to \in ItemStatus \cup {"keep"}
           /\ \A w \in Worker : worker[w].pc \in Pc
           /\ item.count \in Nat /\ item.status \in ItemStatus
           /\ \A w \in Worker : worker[w].snap.count \in Nat
           /\ \A w \in Worker : worker[w].snap.status \in ItemStatus
<1>1. worker \in [Worker -> Work] /\ item \in Item /\ slip \subseteq Slip
  BY DEF TypeOK, Slip
<1>2. \A w \in Worker : worker[w] \in Work  BY <1>1
<1>3. \A w \in Worker : /\ worker[w].snap \in Item /\ worker[w].want \in Agent \cup {User}
                        /\ worker[w].to \in ItemStatus \cup {"keep"} /\ worker[w].pc \in Pc
  BY <1>2 DEF Work
<1> QED  BY <1>1, <1>2, <1>3 DEF Item

\* The poll, which reads and settles.
LEMMA PollIsAside ==
    ASSUME TypeOK, NEW w \in Worker,
           StartPoll(w) \/ Reconcile(w) \/ Reread(w) \/ Settle(w) \/ List(w)
    PROVE  /\ Aside /\ Copies /\ used' = used /\ granted' = granted
           /\ Settle(w) \/ item' = item
           /\ Reconcile(w) \/ Reading
<1>0. \A pc \in {"reconcile", "list", "settle", "idle", "reread", "offer"} :
         pc \in Pc /\ pc \notin StartPc
  BY DEF Pc, StartPc
<1>t. worker \in [Worker -> Work] /\ item \in Item /\ slip \subseteq Slip
  BY TypesAre
<1>1. CASE StartPoll(w)
  <2>1. To(w, "reconcile") /\ UNCHANGED <<item, runs, claim, granted, slip, used>>
    BY <1>1 DEF StartPoll
  <2>2. Moves(w, "reconcile", worker[w].snap, worker[w].run, worker[w].mine)
    BY <1>0, <1>t, <2>1, ToMoves
  <2> QED  BY <1>0, <1>t, <2>1, <2>2, MoveIsAside DEF Moves, Reading, Copies
<1>2. CASE Reconcile(w)
  <2>0. UNCHANGED <<item, runs, claim, granted, slip, used>>  BY <1>2 DEF Reconcile
  <2>1. CASE \E k \in DOMAIN runs : WithRun(w, "reread", k)
    <3>1. PICK k \in DOMAIN runs : WithRun(w, "reread", k)  BY <2>1
    <3>2. k \in Nat  BY <3>1 DEF TypeOK
    <3>3. Moves(w, "reread", worker[w].snap, k, worker[w].mine)
      BY <1>0, <1>t, <3>1, <3>2, WithRunMoves
    <3> QED  BY <1>0, <1>t, <1>2, <2>0, <3>3, MoveIsAside DEF Moves, Copies
  <2>2. CASE To(w, "list")
    <3>1. Moves(w, "list", worker[w].snap, worker[w].run, worker[w].mine)
      BY <1>0, <1>t, <2>2, ToMoves
    <3> QED  BY <1>0, <1>t, <1>2, <2>0, <3>1, MoveIsAside DEF Moves, Copies
  <2> QED  BY <1>2, <2>1, <2>2 DEF Reconcile, WithRun
<1>3. CASE Reread(w)
  <2>1. /\ WithSnap(w, "settle", item) /\ worker[w].pc = "reread"
        /\ UNCHANGED <<item, runs, claim, granted, slip, used>>
    BY <1>3 DEF Reread, WithSnap
  <2>2. Moves(w, "settle", item, worker[w].run, worker[w].mine)
    BY <1>0, <1>t, <2>1, WithSnapMoves
  <2> QED  BY <1>0, <1>t, <2>1, <2>2, MoveIsAside DEF Moves, Reading, Copies
<1>4. CASE Settle(w)
  <2> DEFINE t == [Idle EXCEPT !.pc = "list"]
  <2>1. /\ Anew(w, t)
        /\ UNCHANGED <<runs, claim, granted, used>>
        /\ item' = item \/ \E s \in ItemStatus : item' = [item EXCEPT !.status = s]
        /\ slip' = slip \/ slip' = slip \cup {"overtaken"}
    BY <1>4 DEF Settle, SetStatus, AfterFailure, ItemStatus, Slips, Anew
  <2>2. item' \in Item /\ item'.count = item.count  BY <1>t, <2>1, ItemIs
  <2>3. slip \subseteq slip' /\ slip' \subseteq Slip  BY <1>t, <2>1 DEF Slip
  <2>4. t \in Work /\ t.pc = "list" /\ t.snap = Fresh  BY <1>0, IdleIs DEF Work
  <2> HIDE DEF t
  <2>5. Moves(w, t.pc, t.snap, t.run, t.mine)  BY <1>t, <2>1, <2>4, AnewMoves
  <2> QED
    BY <1>0, <1>4, <2>1, <2>2, <2>3, <2>4, <2>5, MoveIsAside DEF Moves, Reading, Copies
<1>5. CASE List(w)
  <2>1. /\ UNCHANGED <<item, runs, claim, granted, slip, used>>
        /\ Anew(w, [Idle EXCEPT !.pc = "offer", !.snap = item]) \/ Finish(w)
    BY <1>5 DEF List, Anew
  <2>2. /\ [Idle EXCEPT !.pc = "offer", !.snap = item] \in Work
        /\ [Idle EXCEPT !.pc = "offer", !.snap = item].pc = "offer"
        /\ [Idle EXCEPT !.pc = "offer", !.snap = item].snap = item
    BY <1>0, <1>t, IdleIs DEF Work
  <2>3. \E pc \in {"offer", "idle"}, snap \in {item, Fresh} :
           \E run, mine : Moves(w, pc, snap, run, mine)
    BY <1>t, <2>1, <2>2, AnewMoves, FinishMoves
  <2> QED  BY <1>0, <1>t, <2>1, <2>3, MoveIsAside DEF Moves, Reading, Copies
<1> QED  BY <1>1, <1>2, <1>3, <1>4, <1>5

\* A worker moves, and takes up no failure.
LEMMA MoveIsPlain ==
    ASSUME NEW w \in Worker, NEW pc, NEW snap, NEW run, NEW mine,
           Moves(w, pc, snap, run, mine), pc \notin {"reread", "settle"},
           snap \in {worker[w].snap, item, Fresh}
    PROVE  Reading /\ Copies
BY DEF Moves, Reading, Copies

\* What every step of a request keeps.
Quiet ==
    /\ Aside /\ Reading /\ Copies /\ ~Leaves
    /\ used' \in [Ops -> Nat]
    /\ granted \subseteq granted' /\ granted' \subseteq Nat \X Agent

\* Requests decide on the item, and only then write.
LEMMA RequestIsQuiet ==
    ASSUME TypeOK, NEW w \in Worker, NEW o \in Ops, NEW t \in Work, Request(w, o, t),
           t.pc \notin StartPc, t.pc \notin {"reread", "settle"}, t.snap \in {Fresh, item}
    PROVE  Quiet /\ item' = item
<1>1. worker \in [Worker -> Work] /\ item \in Item /\ slip \subseteq Slip  BY TypesAre
<1>2. Anew(w, t) /\ UNCHANGED <<item, runs, claim, granted, slip>> /\ Spend(o)
  BY DEF Request, Anew
<1>3. Moves(w, t.pc, t.snap, t.run, t.mine)  BY <1>1, <1>2, AnewMoves
<1>4. used' \in [Ops -> Nat]  BY <1>2, SpendIs
<1>5. Aside  BY <1>1, <1>2, <1>3, MoveIsAside
<1>6. Reading /\ Copies  BY <1>3, MoveIsPlain
<1> QED  BY <1>2, <1>4, <1>5, <1>6 DEF Quiet, Leaves, TypeOK

LEMMA StartIsQuiet ==
    ASSUME TypeOK, NEW w \in Worker, UserStarts(w)
    PROVE  Quiet /\ item' = item
<1>0. /\ \A pc \in {"patch", "allow", "load", "return"} :
            pc \in Pc /\ pc \notin StartPc /\ pc \notin {"reread", "settle"}
      /\ \A o \in {"assign", "approve", "sendback", "edit"} : o \in Ops
      /\ "done" \in ItemStatus /\ "pending" \in ItemStatus
  BY DEF Pc, StartPc, Ops, ItemStatus
<1>t. item \in Item  BY TypesAre
<1>1. ASSUME NEW a \in Agent \cup {User}, StartAssign(w, a) PROVE Quiet /\ item' = item
  <2> DEFINE t == [Idle EXCEPT !.pc = "patch", !.want = a]
  <2>1. t \in Work /\ t.pc = "patch" /\ t.snap = Fresh  BY <1>0, IdleIs DEF Work
  <2>2. Request(w, "assign", t)  BY <1>1 DEF StartAssign
  <2> HIDE DEF t
  <2> QED  BY <1>0, <2>1, <2>2, RequestIsQuiet
<1>2. CASE StartApprove(w)
  <2> DEFINE t == [Idle EXCEPT !.pc = "allow", !.snap = item, !.now = TRUE]
             u == [Idle EXCEPT !.pc = "load", !.to = "done"]
  <2>1. t \in Work /\ t.pc = "allow" /\ t.snap = item  BY <1>0, <1>t, IdleIs DEF Work
  <2>2. u \in Work /\ u.pc = "load" /\ u.snap = Fresh  BY <1>0, IdleIs DEF Work
  <2>3. Request(w, "approve", t) \/ Request(w, "approve", u)  BY <1>2 DEF StartApprove
  <2> HIDE DEF t, u
  <2> QED  BY <1>0, <2>1, <2>2, <2>3, RequestIsQuiet
<1>3. CASE StartSendBack(w)
  <2> DEFINE t == [Idle EXCEPT !.pc = "return", !.snap = item, !.now = TRUE, !.back = TRUE]
  <2>1. t \in Work /\ t.pc = "return" /\ t.snap = item  BY <1>0, <1>t, IdleIs DEF Work
  <2>2. Request(w, "sendback", t)  BY <1>3 DEF StartSendBack
  <2> HIDE DEF t
  <2> QED  BY <1>0, <2>1, <2>2, RequestIsQuiet
<1>4. ASSUME NEW to \in {"keep", "pending", "done"}, NEW a \in Agent \cup {User},
             StartEdit(w, to, a)
      PROVE  Quiet /\ item' = item
  <2> DEFINE t == [Idle EXCEPT !.pc = "load", !.to = to, !.want = a]
  <2>1. to \in ItemStatus \cup {"keep"}  BY <1>0
  <2>2. t \in Work /\ t.pc = "load" /\ t.snap = Fresh  BY <1>0, <2>1, IdleIs DEF Work
  <2>3. Request(w, "edit", t)  BY <1>4 DEF StartEdit
  <2> HIDE DEF t
  <2> QED  BY <1>0, <2>2, <2>3, RequestIsQuiet
<1> QED  BY <1>1, <1>2, <1>3, <1>4 DEF UserStarts

\* The writes of a request.
LEMMA WriteIsQuiet ==
    ASSUME TypeOK, NEW w \in Worker,
           \/ Patch(w) \/ Reset(w) \/ Fetch(w) \/ Allow(w) \/ Return(w) \/ Hold(w)
           \/ Load(w) \/ Save(w) \/ Reassign(w) \/ Refuse(w) \/ Ask(w)
    PROVE  Quiet
<1>0. /\ \A pc \in {"reset", "idle", "fetch", "offer", "save", "reassign", "hold"} :
            pc \in Pc /\ pc \notin StartPc /\ pc \notin {"reread", "settle"}
      /\ \A s \in {"pending", "in_progress", "awaiting_approval", "awaiting_review", "done"} :
            s \in ItemStatus
  BY DEF Pc, StartPc, ItemStatus
<1>t. /\ worker \in [Worker -> Work] /\ item \in Item /\ slip \subseteq Slip
      /\ \A v \in Worker : /\ worker[v] \in Work /\ worker[v].snap \in Item
                           /\ worker[v].want \in Agent \cup {User}
                           /\ worker[v].to \in ItemStatus \cup {"keep"}
                           /\ worker[v].snap.count \in Nat
                           /\ worker[v].snap.status \in ItemStatus
      /\ item.count \in Nat
  BY TypesAre
<1>u. used \in [Ops -> Nat] /\ granted \subseteq Nat \X Agent  BY DEF TypeOK
\* The worker moves on or is done ...
<1>1. /\ UNCHANGED <<runs, claim, used>>
      /\ \/ \E pc \in {"reset", "fetch", "reassign", "hold"} : To(w, pc)
         \/ WithSnap(w, "offer", item) \/ WithSnap(w, "save", item)
         \/ Finish(w)
  BY DEF Patch, Reset, Fetch, Allow, Return, Hold, Load, Save, Reassign, Refuse, Ask,
     TurnedDown, WithSnap, SetStatus
<1>2. \E pc \in {"reset", "idle", "fetch", "offer", "save", "reassign", "hold"},
         snap \in {worker[w].snap, item, Fresh} : \E run, mine : Moves(w, pc, snap, run, mine)
  BY <1>0, <1>1, <1>t, ToMoves, WithSnapMoves, FinishMoves
\* ... and writes one or two fields of the item.
<1>3. \/ item' = item
      \/ \E s \in ItemStatus : item' = [item EXCEPT !.status = s]
      \/ \E a \in Agent \cup {User} : item' = [item EXCEPT !.assignee = a]
      \/ \E s \in ItemStatus, n \in Nat : item' = [item EXCEPT !.status = s, !.approved = n]
      \/ \E n \in Nat : item' = [item EXCEPT !.approved = n]
  <2>1. CASE Patch(w) \/ Reassign(w)  BY <1>t, <2>1 DEF Patch, Reassign
  <2>2. CASE Reset(w)
    <3>1. NoRun \in Nat  BY DEF NoRun
    <3> QED  BY <1>0, <2>2, <3>1 DEF Reset
  <2>3. CASE Fetch(w) \/ Load(w) \/ Refuse(w)  BY <2>3 DEF Fetch, Load, Refuse
  <2>4. CASE Allow(w)
    <3>1. worker[w].snap.count + 1 \in Nat  BY <1>t
    <3> QED  BY <2>4, <3>1 DEF Allow
  <2>5. CASE Return(w)
    <3>1. item.count + 1 \in Nat  BY <1>t
    <3> QED  BY <1>0, <2>5, <3>1 DEF Return
  <2>6. CASE Hold(w) \/ Ask(w)  BY <1>0, <2>6 DEF Hold, Ask, SetStatus
  <2>7. CASE Save(w)
    <3>1. SavedStatus(w) \in ItemStatus  BY <1>t DEF SavedStatus
    <3> QED  BY <2>7, <3>1 DEF Save
  <2> QED  BY <2>1, <2>2, <2>3, <2>4, <2>5, <2>6, <2>7
<1>4. item' \in Item /\ item'.count = item.count  BY <1>3, <1>t, ItemIs
<1>5. slip \subseteq slip' /\ slip' \subseteq Slip
  BY <1>t DEF Slip, Patch, Reset, Fetch, Allow, Return, Hold, Load, Save, Reassign, Refuse,
     Ask, Slips, Grant
<1>6. granted \subseteq granted' /\ granted' \subseteq Nat \X Agent
  BY <1>u DEF Patch, Reset, Fetch, Allow, Return, Hold, Load, Save, Reassign, Refuse, Ask,
     Grant
<1>7. ~Leaves
  <2> SUFFICES ASSUME item.status = "in_progress", "overwritten" \notin slip'
               PROVE  item'.status = "in_progress"
    BY DEF Leaves
  <2>1. CASE Patch(w) \/ Reassign(w)  BY <1>t, <2>1, ItemIs DEF Patch, Reassign
  <2>2. CASE Reset(w)  BY <2>2 DEF Reset, Slips
  <2>3. CASE Fetch(w) \/ Load(w) \/ Refuse(w)  BY <2>3 DEF Fetch, Load, Refuse
  <2>4. CASE Allow(w) \/ Return(w) \/ Hold(w) \/ Ask(w)
    BY <2>4 DEF Allow, Return, Hold, Ask, SetStatus
  <2>5. CASE Save(w)
    <3>1. SavedStatus(w) = "in_progress"  BY <2>5 DEF Save, Slips
    <3> QED  BY <1>0, <1>t, <2>5, <3>1, ItemIs DEF Save
  <2> QED  BY <2>1, <2>2, <2>3, <2>4, <2>5
<1>8. Aside  BY <1>0, <1>1, <1>2, <1>4, <1>5, MoveIsAside
<1>9. Reading /\ Copies  BY <1>0, <1>2, MoveIsPlain
<1> QED  BY <1>1, <1>u, <1>6, <1>7, <1>8, <1>9 DEF Quiet

LEMMA CrashIsQuiet ==
    ASSUME TypeOK, Crash
    PROVE  Quiet /\ item' = item
<1>1. used' \in [Ops -> Nat]  BY SpendIs DEF Crash, Ops
<1>2. worker' = [w \in Worker |-> Idle] /\ UNCHANGED <<item, runs, claim, granted>>
  BY DEF Crash
<1>3. slip \subseteq slip' /\ slip' \subseteq Slip
  BY TypesAre DEF Crash, Slips, Slip
<1>4. Aside  BY <1>2, <1>3, IdleIs, TypesAre DEF Aside, StartPc
<1>5. Reading /\ Copies /\ ~Leaves  BY <1>2, IdleIs DEF Reading, Copies, Leaves
<1> QED  BY <1>1, <1>2, <1>4, <1>5 DEF Quiet, TypeOK

\* A step aside keeps who holds what.
LEMMA AsideKeeps ==
    ASSUME TypeOK, Aside, Claims, Held, Numbered, Capped
    PROVE  Claims' /\ Held' /\ Numbered' /\ Capped'
<1>1. \A w \in Starting' : w \in Starting /\ worker'[w] = worker[w]
  BY DEF Aside, Starting, StartPc
<1>2. \A w \in Making' : w \in Making /\ worker'[w] = worker[w]
  BY DEF Aside, Making, StartPc
<1>3. \A w \in Worker : worker'[w].pc \in {"create", "giveback"} => worker'[w] = worker[w]
  BY DEF Aside, StartPc
<1>4. Chained' = Chained  BY DEF Aside, Chained
<1>5. Claims'  BY <1>1 DEF Aside, Claims
<1>6. Held'
  <2>1. \A w \in Worker : worker'[w].pc = "create" =>
           \A k \in DOMAIN runs' : runs'[k].claim # worker'[w].mine
    BY <1>3 DEF Aside, Held
  <2>2. ASSUME NEW w \in Making'
        PROVE  LET k == worker'[w].run IN
               /\ k \in DOMAIN runs'
               /\ runs'[k].claim = worker'[w].mine
               /\ runs'[k].number = worker'[w].snap.count + 1
               /\ runs'[k].agent = worker'[w].snap.assignee
               /\ runs'[k].steps = 0
               /\ runs'[k].task = IF worker'[w].pc = "mark" THEN "created" ELSE "in_progress"
    BY <1>2, <2>2 DEF Aside, Held
  <2>3. \A w \in Worker : worker'[w].pc = "giveback" /\ "headless" \notin slip' =>
           \A k \in DOMAIN runs' : runs'[k].claim = worker'[w].mine => runs'[k].steps = 0
    BY <1>3 DEF Aside, Held
  <2> QED  BY <2>1, <2>2, <2>3 DEF Held, Aside
<1>7. Numbered'  BY <1>1, <1>4 DEF Aside, Numbered, Without
<1>8. Capped'  BY <1>1 DEF Aside, Capped
<1> QED  BY <1>5, <1>6, <1>7, <1>8

\* It also keeps the item in progress for its claim, unless something else than an
\* overwritten status took it out.
LEMMA AsideIsCurrent ==
    ASSUME Aside, Current, ~Leaves
    PROVE  Current'
<1>1. \A w \in Starting' : w \in Starting /\ worker'[w] = worker[w]
  BY DEF Aside, Starting, StartPc
<1> QED  BY <1>1 DEF Aside, Current, Without, Leaves

LEMMA AsideFailsLate ==
    ASSUME Aside, FailedLate, Reading
    PROVE  FailedLate'
BY DEF Aside, FailedLate, Reading

-----------------------------------------------------------------------------
(* The steps of a chain *)

\* Nothing is approved, claimed or created.
NothingNew ==
    /\ granted' = granted /\ slip \subseteq slip'
    /\ item'.approved = item.approved /\ item'.assignee = item.assignee
    /\ \A v \in Worker : worker'[v].snap \in {worker[v].snap, Fresh}
    /\ \A v \in Starting' : v \in Starting /\ worker'[v].snap = worker[v].snap
    /\ \A l \in DOMAIN runs' : /\ l \in DOMAIN runs
                               /\ runs'[l].number = runs[l].number
                               /\ runs'[l].agent = runs[l].agent

\* Run k goes to a stage and its Task to a status.
RunMoves(k, stage, task) ==
    /\ runs' \in Seq(Run)
    /\ DOMAIN runs' = DOMAIN runs
    /\ \A l \in DOMAIN runs \ {k} : runs'[l] = runs[l]
    /\ runs'[k].stage = stage /\ runs'[k].task = task
    /\ runs'[k].number = runs[k].number /\ runs'[k].agent = runs[k].agent
    /\ runs'[k].claim = runs[k].claim /\ runs'[k].steps = runs[k].steps

WithTask(k, task) == runs' = [runs EXCEPT ![k].task = task]
WithBoth(k, stage, task) == runs' = [runs EXCEPT ![k].stage = stage, ![k].task = task]
TaskStatus == {"created", "in_progress", "completed", "failed"}

LEMMA RunIs ==
    ASSUME TypeOK, NEW k \in DOMAIN runs
    PROVE  /\ runs[k] \in Run /\ runs[k].stage \in Stage /\ runs[k].task \in TaskStatus
           /\ runs[k].number \in Nat /\ runs[k].agent \in Agent /\ runs[k].claim \in Nat
           /\ runs[k].steps \in 0..3
<1>1. runs[k] \in Run  BY DEF TypeOK
<1> QED  BY <1>1 DEF Run, TaskStatus

\* One run of them is written.
Written(k, r) == runs' = [runs EXCEPT ![k] = r]

LEMMA RunWritten ==
    ASSUME TypeOK, NEW k \in DOMAIN runs, NEW r \in Run, Written(k, r)
    PROVE  /\ runs' \in Seq(Run) /\ DOMAIN runs' = DOMAIN runs /\ runs'[k] = r
           /\ \A l \in DOMAIN runs \ {k} : runs'[l] = runs[l]
BY DEF TypeOK, Written

LEMMA StageMoves ==
    ASSUME TypeOK, NEW k \in DOMAIN runs, NEW stage \in Stage, Stages(k, stage)
    PROVE  RunMoves(k, stage, runs[k].task)
<1>1. runs[k] \in Run /\ runs \in Seq(Run)  BY DEF TypeOK
<1> DEFINE r == [runs[k] EXCEPT !.stage = stage]
<1>2. Written(k, r)  BY DEF Stages, Written
<1>3. r \in Run /\ r.number = runs[k].number /\ r.agent = runs[k].agent
      /\ r.claim = runs[k].claim /\ r.steps = runs[k].steps
  BY <1>1 DEF Run, TaskStatus
<1>4. r.stage = stage /\ r.task = runs[k].task  BY <1>1 DEF Run
<1> HIDE DEF r
<1> QED  BY <1>2, <1>3, <1>4, RunWritten DEF RunMoves

LEMMA TaskMoves ==
    ASSUME TypeOK, NEW k \in DOMAIN runs, NEW task \in TaskStatus, WithTask(k, task)
    PROVE  RunMoves(k, runs[k].stage, task)
<1>1. runs[k] \in Run /\ runs \in Seq(Run)  BY DEF TypeOK
<1> DEFINE r == [runs[k] EXCEPT !.task = task]
<1>2. Written(k, r)  BY DEF WithTask, Written
<1>3. r \in Run /\ r.number = runs[k].number /\ r.agent = runs[k].agent
      /\ r.claim = runs[k].claim /\ r.steps = runs[k].steps
  BY <1>1 DEF Run, TaskStatus
<1>4. r.stage = runs[k].stage /\ r.task = task  BY <1>1 DEF Run
<1> HIDE DEF r
<1> QED  BY <1>2, <1>3, <1>4, RunWritten DEF RunMoves

LEMMA BothMove ==
    ASSUME TypeOK, NEW k \in DOMAIN runs, NEW stage \in Stage, NEW task \in TaskStatus,
           WithBoth(k, stage, task)
    PROVE  RunMoves(k, stage, task)
<1>1. runs[k] \in Run /\ runs \in Seq(Run)  BY DEF TypeOK
<1> DEFINE r == [runs[k] EXCEPT !.stage = stage, !.task = task]
<1>2. Written(k, r)  BY DEF WithBoth, Written
<1>3. r \in Run /\ r.number = runs[k].number /\ r.agent = runs[k].agent
      /\ r.claim = runs[k].claim /\ r.steps = runs[k].steps
  BY <1>1 DEF Run, TaskStatus
<1>4. r.stage = stage /\ r.task = task  BY <1>1 DEF Run
<1> HIDE DEF r
<1> QED  BY <1>2, <1>3, <1>4, RunWritten DEF RunMoves

\* A chain, the stale reset or an operator moves run k.
ChainMoves(k, stage, task) ==
    /\ UNCHANGED <<worker, claim, granted>>
    /\ used' \in [Ops -> Nat]
    /\ item' \in Item /\ item'.count = item.count
    /\ item'.approved = item.approved /\ item'.assignee = item.assignee
    /\ slip \subseteq slip' /\ slip' \subseteq Slip
    /\ RunMoves(k, stage, task)

Working == {"agent", "deliver", "store"}

LEMMA ChainIs ==
    ASSUME TypeOK, NEW k \in DOMAIN runs, ChainStep(k) \/ Stale(k) \/ CancelChain(k)
    PROVE  \E stage \in Stage, task \in TaskStatus :
              /\ ChainMoves(k, stage, task)
              \* only the reset takes a run that has no chain, or leaves it at its stage,
              /\ \/ /\ Stale(k) /\ stage = runs[k].stage /\ task = "failed"
                    /\ Unattended(k) \/ "early" \in slip'
                 \/ /\ runs[k].stage \notin {"none", "over"} /\ stage # "none"
                    /\ stage \in Working => runs[k].stage \in Working
                    \* a Task ends with its chain,
                    /\ \/ task = runs[k].task
                       \/ stage = "over" /\ runs[k].stage = "close"
                       \/ stage = "over" /\ runs[k].task # "failed" /\ task = "failed"
              \* and a result takes the item out of progress.
              /\ \/ item' = item
                 \/ /\ runs[k].stage = "store" /\ stage \notin Working
                    /\ item.status = "in_progress"
                    /\ runs[k].claim = claim \/ "overtaken" \in slip'
<1>t. /\ item \in Item /\ slip \subseteq Slip /\ used \in [Ops -> Nat]
      /\ runs[k].task \in TaskStatus /\ runs[k].stage \in Stage
  BY TypesAre, RunIs DEF TypeOK
<1>0. /\ \A s \in {"deliver", "store", "close", "failing", "over"} :
            s \in Stage /\ s \notin {"none"}
      /\ \A t \in {"completed", "failed"} : t \in TaskStatus
      /\ \A o \in {"stale", "cancel"} : o \in Ops
      /\ "awaiting_review" \in ItemStatus
  BY DEF Stage, TaskStatus, Ops, ItemStatus
<1>1. CASE AgentAnswers(k)
  <2>1. PICK s \in {"deliver", "over"} : Stages(k, s)  BY <1>1 DEF AgentAnswers, Then
  <2>2. UNCHANGED <<item, slip, worker, claim, granted, used>> /\ runs[k].stage = "agent"
    BY <1>1 DEF AgentAnswers, ChainFrame
  <2>3. RunMoves(k, s, runs[k].task)  BY <1>0, <2>1, StageMoves
  <2>4. ChainMoves(k, s, runs[k].task)  BY <1>t, <2>2, <2>3 DEF ChainMoves
  <2> QED  BY <1>0, <1>t, <2>1, <2>2, <2>4 DEF Working
<1>2. CASE Deliver(k)
  <2>1. Stages(k, "store")  BY <1>2 DEF Deliver
  <2>2. UNCHANGED <<item, slip, worker, claim, granted, used>> /\ runs[k].stage = "deliver"
    BY <1>2 DEF Deliver, ChainFrame
  <2>3. RunMoves(k, "store", runs[k].task)  BY <1>0, <2>1, StageMoves
  <2>4. ChainMoves(k, "store", runs[k].task)  BY <1>t, <2>2, <2>3 DEF ChainMoves
  <2> QED  BY <1>0, <1>t, <2>2, <2>4 DEF Working
<1>3. CASE Store(k)
  <2>1. PICK s \in {"close", "over"} : Stages(k, s)  BY <1>3 DEF Store, Then
  <2>2. /\ UNCHANGED <<worker, claim, granted, used>> /\ runs[k].stage = "store"
        /\ slip' = slip \/ slip' = slip \cup {"overtaken"}
        /\ \/ item' = item
           \/ /\ item' = [item EXCEPT !.status = "awaiting_review"]
              /\ item.status = "in_progress"
              /\ runs[k].claim = claim \/ "overtaken" \in slip'
    BY <1>3 DEF Store, ChainFrame, SetStatus, Slips
  <2>3. RunMoves(k, s, runs[k].task)  BY <1>0, <2>1, StageMoves
  <2>4. /\ item' \in Item /\ item'.count = item.count
        /\ item'.approved = item.approved /\ item'.assignee = item.assignee
    BY <1>0, <1>t, <2>2, ItemIs
  <2>5. slip \subseteq slip' /\ slip' \subseteq Slip  BY <1>t, <2>2 DEF Slip
  <2>6. ChainMoves(k, s, runs[k].task)  BY <1>t, <2>2, <2>3, <2>4, <2>5 DEF ChainMoves
  <2> QED  BY <1>0, <1>t, <2>1, <2>2, <2>6 DEF Working
<1>4. CASE Close(k)
  <2>1. WithBoth(k, "over", "completed")  BY <1>4 DEF Close, WithBoth
  <2>2. UNCHANGED <<item, slip, worker, claim, granted, used>> /\ runs[k].stage = "close"
    BY <1>4 DEF Close, ChainFrame
  <2>3. RunMoves(k, "over", "completed")  BY <1>0, <2>1, BothMove
  <2>4. ChainMoves(k, "over", "completed")  BY <1>t, <2>2, <2>3 DEF ChainMoves
  <2> QED  BY <1>0, <1>t, <2>2, <2>4 DEF Working
<1>5. CASE StepDies(k)
  <2>1. Stages(k, "failing")  BY <1>5 DEF StepDies
  <2>2. /\ UNCHANGED <<item, slip, worker, claim, granted, used>>
        /\ runs[k].stage \in {"agent", "deliver", "store", "close"}
    BY <1>5 DEF StepDies, ChainFrame
  <2>3. RunMoves(k, "failing", runs[k].task)  BY <1>0, <2>1, StageMoves
  <2>4. ChainMoves(k, "failing", runs[k].task)  BY <1>t, <2>2, <2>3 DEF ChainMoves
  <2> QED  BY <1>0, <1>t, <2>2, <2>4 DEF Working
<1>6. CASE FailTask(k)
  <2> DEFINE t == IF runs[k].task \in {"created", "in_progress"} THEN "failed" ELSE runs[k].task
  <2>1. WithBoth(k, "over", t)  BY <1>6 DEF FailTask, WithBoth
  <2>2. UNCHANGED <<item, slip, worker, claim, granted, used>> /\ runs[k].stage = "failing"
    BY <1>6 DEF FailTask, ChainFrame
  <2>3. /\ t \in TaskStatus
        /\ \/ t = runs[k].task
           \/ runs[k].task # "failed" /\ t = "failed"
    BY <1>0, <1>t
  <2> HIDE DEF t
  <2>4. RunMoves(k, "over", t)  BY <1>0, <2>1, <2>3, BothMove
  <2>5. ChainMoves(k, "over", t)  BY <1>t, <2>2, <2>4 DEF ChainMoves
  <2> QED  BY <1>0, <1>t, <2>2, <2>3, <2>5 DEF Working
<1>7. CASE Stale(k)
  <2>1. WithTask(k, "failed") /\ UNCHANGED <<item, worker, claim, granted>>
    BY <1>7 DEF Stale, WithTask
  <2>2. \/ Unattended(k) /\ UNCHANGED <<slip, used>>
        \/ Spend("stale") /\ slip' = slip \cup {"early"}
    BY <1>7 DEF Stale, Slips
  <2>3. used' \in [Ops -> Nat]  BY <1>0, <1>t, <2>2, SpendIs
  <2>4. /\ slip \subseteq slip' /\ slip' \subseteq Slip
        /\ Unattended(k) \/ "early" \in slip'
    BY <1>t, <2>2 DEF Slip
  <2>5. RunMoves(k, runs[k].stage, "failed")  BY <1>0, <2>1, TaskMoves
  <2>6. ChainMoves(k, runs[k].stage, "failed")
    BY <1>t, <2>1, <2>3, <2>4, <2>5 DEF ChainMoves
  <2> QED  BY <1>0, <1>t, <1>7, <2>1, <2>4, <2>6
<1>8. CASE CancelChain(k)
  <2>1. Stages(k, "over")  BY <1>8 DEF CancelChain
  <2>2. /\ UNCHANGED <<item, slip, worker, claim, granted>> /\ Spend("cancel")
        /\ runs[k].stage \in {"agent", "deliver", "close"}
    BY <1>8 DEF CancelChain
  <2>3. used' \in [Ops -> Nat]  BY <1>0, <2>2, SpendIs
  <2>4. RunMoves(k, "over", runs[k].task)  BY <1>0, <2>1, StageMoves
  <2>5. ChainMoves(k, "over", runs[k].task)  BY <1>t, <2>2, <2>3, <2>4 DEF ChainMoves
  <2> QED  BY <1>0, <1>t, <2>2, <2>5 DEF Working
<1> QED  BY <1>1, <1>2, <1>3, <1>4, <1>5, <1>6, <1>7, <1>8 DEF ChainStep

\* A chain keeps who holds what, and which runs are of the latest claim.
LEMMA ChainKeeps ==
    ASSUME TypeOK, NEW k \in DOMAIN runs, ChainStep(k) \/ Stale(k) \/ CancelChain(k),
           Claims, Held, FailedLate, Current, Numbered, Capped
    PROVE  /\ TypeOK' /\ NothingNew
           /\ Claims' /\ Held' /\ FailedLate' /\ Current' /\ Numbered' /\ Capped'
<1>1. PICK stage \in Stage, task \in TaskStatus :
         /\ ChainMoves(k, stage, task)
         /\ \/ /\ Stale(k) /\ stage = runs[k].stage /\ task = "failed"
               /\ Unattended(k) \/ "early" \in slip'
            \/ /\ runs[k].stage \notin {"none", "over"} /\ stage # "none"
               /\ stage \in Working => runs[k].stage \in Working
               /\ \/ task = runs[k].task
                  \/ stage = "over" /\ runs[k].stage = "close"
                  \/ stage = "over" /\ runs[k].task # "failed" /\ task = "failed"
         /\ \/ item' = item
            \/ /\ runs[k].stage = "store" /\ stage \notin Working
               /\ item.status = "in_progress"
               /\ runs[k].claim = claim \/ "overtaken" \in slip'
  BY ChainIs
<1>2. /\ worker' = worker /\ claim' = claim /\ slip \subseteq slip' /\ item'.count = item.count
      /\ DOMAIN runs' = DOMAIN runs
      /\ \A l \in DOMAIN runs \ {k} : runs'[l] = runs[l]
      /\ runs'[k].stage = stage /\ runs'[k].task = task
      /\ \A l \in DOMAIN runs :
            /\ runs'[l].number = runs[l].number /\ runs'[l].agent = runs[l].agent
            /\ runs'[l].claim = runs[l].claim /\ runs'[l].steps = runs[l].steps
  BY <1>1 DEF ChainMoves, RunMoves
<1>3. Starting' = Starting /\ Making' = Making /\ Chained' = Chained
  BY <1>2 DEF Starting, Making, Chained
<1>4. Claims'  BY <1>2, <1>3 DEF Claims
<1>5. Numbered'
  <2>1. Chained \subseteq DOMAIN runs  BY DEF Chained
  <2>2. Without({"headless", "overtaken"})' => Without({"headless", "overtaken"})
    BY <1>2 DEF Without
  <2> QED  BY <1>2, <1>3, <2>1, <2>2 DEF Numbered
<1>6. Capped'  BY <1>2, <1>3 DEF Capped
\* A run that a worker is making is left alone.
<1>7. ASSUME NEW w \in Making PROVE worker[w].run # k
  <2>1. /\ runs[worker[w].run].steps = 0
        /\ runs[worker[w].run].task =
              IF worker[w].pc = "mark" THEN "created" ELSE "in_progress"
        /\ worker[w].run \in DOMAIN runs
    BY <1>7 DEF Held
  <2>2. runs[worker[w].run].stage = "none"  BY <2>1 DEF Held
  <2>3. worker[w].pc \in {"mark", "link", "enqueue"}  BY <1>7 DEF Making
  <2>4. CASE Stale(k)
    <3>1. runs[k].task = "in_progress" /\ (Unattended(k) \/ runs[k].stage \notin {"none", "over"})
      BY <2>4 DEF Stale
    <3> QED  BY <2>1, <2>2, <2>3, <3>1 DEF Unattended, Making
  <2>5. CASE runs[k].stage \notin {"none", "over"}  BY <2>2, <2>5
  <2> QED  BY <1>1, <2>4, <2>5
<1>8. \A l \in DOMAIN runs : runs'[l].steps = 0 => runs'[l].stage = "none"
  <2>1. runs[k].steps = 0 => stage = "none"  BY <1>1 DEF Held
  <2> QED  BY <1>2, <2>1 DEF Held
<1>9. Held'
  <2>1. \A w \in Making : runs'[worker[w].run] = runs[worker[w].run]
    BY <1>2, <1>7 DEF Held
  <2> QED  BY <1>2, <1>3, <1>8, <2>1 DEF Held
<1>10. FailedLate'
  <2>1. "early" \notin slip' => "early" \notin slip  BY <1>2
  <2>2. ASSUME "early" \notin slip', runs[k].task = "failed" PROVE task = "failed"
    BY <1>1, <2>1, <2>2 DEF FailedLate
  <2>3. ASSUME "early" \notin slip', stage \notin {"none", "over"} PROVE task = "in_progress"
    BY <1>1, <2>1, <2>3 DEF FailedLate, Unattended
  <2> QED  BY <1>2, <2>1, <2>2, <2>3 DEF FailedLate
<1>11. Current'
  <2> SUFFICES ASSUME Without({"overwritten", "overtaken", "headless", "early"})'
               PROVE  /\ \A w \in Starting : worker[w].pc # "giveback" =>
                            worker[w].mine = claim /\ item'.status = "in_progress"
                      /\ \A l \in DOMAIN runs : runs'[l].stage \in Working =>
                            runs[l].claim = claim /\ item'.status = "in_progress"
    BY <1>2, <1>3 DEF Current, Working
  <2>1. Without({"overwritten", "overtaken", "headless", "early"})  BY <1>2 DEF Without
  <2>2. /\ \A w \in Starting : worker[w].pc # "giveback" =>
              worker[w].mine = claim /\ item.status = "in_progress"
        /\ \A l \in DOMAIN runs : runs[l].stage \in Working =>
              runs[l].claim = claim /\ item.status = "in_progress"
    BY <2>1 DEF Current, Working
  <2>3. \A l \in DOMAIN runs : runs'[l].stage \in Working => runs[l].stage \in Working
    BY <1>1, <1>2
  <2>4. CASE item' = item  BY <2>2, <2>3, <2>4
  <2>5. CASE runs[k].stage = "store" /\ stage \notin Working /\ runs[k].claim = claim
    \* Nothing else is of the latest claim.
    <3>1. ASSUME NEW l \in DOMAIN runs, runs'[l].stage \in Working PROVE FALSE
      BY <1>2, <2>2, <2>3, <2>5, <3>1 DEF Claims
    <3>2. ASSUME NEW w \in Starting, worker[w].pc # "giveback" PROVE FALSE
      <4>1. worker[w].mine = runs[k].claim  BY <2>2, <2>5, <3>2
      <4>2. w \in Making  BY <3>2, <4>1 DEF Starting, Making, Held
      <4>3. worker[w].run = k  BY <4>1, <4>2 DEF Held, Claims
      <4> QED  BY <1>7, <4>2, <4>3
    <3> QED  BY <3>1, <3>2
  <2> QED  BY <1>1, <2>4, <2>5 DEF Without
<1>12. TypeOK'
  <2>1. item' \in Item /\ runs' \in Seq(Run) /\ slip' \subseteq Slip
        /\ used' \in [Ops -> Nat] /\ granted' = granted
    BY <1>1 DEF ChainMoves, RunMoves
  <2> QED  BY <1>2, <2>1 DEF TypeOK, Slip
<1>13. NothingNew  BY <1>1, <1>2, <1>3 DEF NothingNew, ChainMoves
<1> QED  BY <1>4, <1>5, <1>6, <1>9, <1>10, <1>11, <1>12, <1>13

-----------------------------------------------------------------------------
(* The steps that start a run *)

\* The parts that go by who holds which claim.
Ledger == Claims /\ Held /\ FailedLate /\ Current /\ Numbered /\ Capped

\* A claim takes the next number, and nobody is at work on the item.
ClaimTaken(w) ==
    /\ worker[w].pc = "offer"
    /\ worker[w].snap.count < MaxRuns /\ worker[w].snap.assignee \in Agent
    /\ Claimable(worker[w].snap)
    /\ item' = Claimed(worker[w].snap)
    /\ claim' = claim + 1
    /\ WithMine(w, "create", claim + 1)
    /\ UNCHANGED <<runs, granted, slip, used>>

LEMMA ClaimKeeps ==
    ASSUME TypeOK, NEW w \in Worker, ClaimTaken(w), Ledger
    PROVE  TypeOK' /\ Ledger'
<1> USE DEF Ledger
<1>t. /\ worker \in [Worker -> Work] /\ item \in Item /\ claim \in Nat
      /\ item.count \in Nat /\ worker[w].snap.count \in Nat
      /\ \A v \in Worker : worker[v].snap.count \in Nat
  BY TypesAre DEF TypeOK
<1>0. "create" \in Pc /\ "in_progress" \in ItemStatus /\ MaxRuns \in Nat
  BY ItemAssumption DEF Pc, ItemStatus
<1>1. Moves(w, "create", worker[w].snap, worker[w].run, claim + 1)
  <2>1. claim + 1 \in Nat  BY <1>t
  <2>2. WithMine(w, "create", claim + 1)  BY DEF ClaimTaken
  <2> QED  BY <1>0, <1>t, <2>1, <2>2, WithMineMoves
<1>2. /\ worker' \in [Worker -> Work]
      /\ \A v \in Worker \ {w} : worker'[v] = worker[v]
      /\ worker'[w].pc = "create" /\ worker'[w].snap = worker[w].snap
      /\ worker'[w].mine = claim + 1
  BY <1>1 DEF Moves
<1>3. /\ item.status \in {"pending", "awaiting_approval"} /\ item.count = worker[w].snap.count
      /\ worker[w].pc = "offer" /\ worker[w].snap.count < MaxRuns
      /\ worker[w].snap.assignee \in Agent
      /\ claim' = claim + 1 /\ UNCHANGED <<runs, granted, slip, used>>
  BY DEF ClaimTaken, Claimable
<1>4. /\ item' \in Item /\ item'.status = "in_progress" /\ item'.count = item.count + 1
  <2>1. item' = [item EXCEPT !.status = "in_progress", !.count = worker[w].snap.count + 1]
    BY DEF ClaimTaken, Claimed
  <2>2. worker[w].snap.count + 1 \in Nat  BY <1>t
  <2> QED  BY <1>0, <1>3, <1>t, <2>1, <2>2 DEF Item
<1>5. /\ Starting' = Starting \cup {w} /\ w \notin Starting
      /\ Making' = Making /\ w \notin Making /\ Chained' = Chained
  BY <1>2, <1>3 DEF Starting, Making, Chained
<1>6. TypeOK'  BY <1>2, <1>3, <1>4, <1>t DEF TypeOK
<1>7. Claims'
  <2>1. \A v \in Starting : worker'[v] = worker[v] /\ worker[v].mine \in 1..claim
    BY <1>2, <1>5 DEF Claims, Starting
  <2>2. \A v \in Starting' : worker'[v].mine \in 1..(claim + 1)
    BY <1>2, <1>5, <1>t, <2>1
  <2>3. \A u, v \in Starting' : worker'[u].mine = worker'[v].mine => u = v
    BY <1>2, <1>5, <1>t, <2>1 DEF Claims
  <2>4. \A k \in DOMAIN runs : runs[k].claim \in 1..(claim + 1)  BY <1>t DEF Claims
  <2> QED  BY <1>3, <2>2, <2>3, <2>4 DEF Claims
<1>8. Held'
  <2>1. \A k \in DOMAIN runs : runs[k].claim # claim + 1  BY <1>t DEF Claims
  <2>2. \A v \in Making : worker'[v] = worker[v]  BY <1>2, <1>5 DEF Making
  <2> QED  BY <1>2, <1>3, <1>5, <2>1, <2>2 DEF Held
<1>9. FailedLate'  BY <1>2, <1>3 DEF FailedLate
<1>10. Current'
  <2> SUFFICES ASSUME Without({"overwritten", "overtaken", "headless", "early"})
               PROVE  /\ \A v \in Starting' : worker'[v].pc # "giveback" =>
                            worker'[v].mine = claim' /\ item'.status = "in_progress"
                      /\ \A k \in DOMAIN runs : ~(runs[k].stage \in {"agent", "deliver", "store"})
    BY <1>3 DEF Current, Without
  <2>1. /\ \A v \in Starting : worker[v].pc = "giveback"
        /\ \A k \in DOMAIN runs : ~(runs[k].stage \in {"agent", "deliver", "store"})
    BY <1>3 DEF Current
  <2> QED  BY <1>2, <1>3, <1>4, <1>5, <2>1 DEF Starting
<1>11. Numbered'
  <2> SUFFICES ASSUME Without({"headless", "overtaken"}) PROVE Numbered'  BY <1>3 DEF Numbered, Without
  <2>1. /\ \A v \in Starting : worker[v].snap.count < item.count
        /\ \A u, v \in Starting : worker[u].snap.count = worker[v].snap.count => u = v
        /\ \A k \in Chained : runs[k].number <= item.count
        /\ \A k \in Chained, v \in Starting : runs[k].number # worker[v].snap.count + 1
        /\ \A k, l \in Chained : runs[k].number = runs[l].number => k = l
    BY DEF Numbered
  <2>2. \A v \in Starting : worker'[v] = worker[v] /\ worker[v].mine # claim'
    BY <1>2, <1>3, <1>5, <1>t DEF Claims, Starting
  <2>3. \A k \in Chained : runs[k].number \in Nat  BY RunIs DEF Chained
  <2>4. \A v \in Starting' : /\ worker'[v].snap.count < item'.count
                             /\ worker'[v].mine = claim' => item'.count = worker'[v].snap.count + 1
    BY <1>2, <1>3, <1>4, <1>5, <1>t, <2>1, <2>2 DEF Starting
  <2>5. \A u, v \in Starting' : worker'[u].snap.count = worker'[v].snap.count => u = v
    BY <1>2, <1>3, <1>5, <1>t, <2>1, <2>2
  <2>6. \A k \in Chained : runs[k].number <= item'.count
    BY <1>4, <1>t, <2>1, <2>3
  <2>7. \A k \in Chained, v \in Starting' : runs[k].number # worker'[v].snap.count + 1
    BY <1>2, <1>3, <1>5, <1>t, <2>1, <2>2, <2>3
  <2> QED  BY <1>3, <1>5, <2>1, <2>4, <2>5, <2>6, <2>7 DEF Numbered
<1>12. Capped'
  <2>1. \A v \in Starting' :
           worker'[v].snap.count < MaxRuns /\ worker'[v].snap.assignee \in Agent
    BY <1>2, <1>3, <1>5 DEF Capped, Starting
  <2> QED  BY <1>3, <2>1 DEF Capped
<1> QED  BY <1>6, <1>7, <1>8, <1>9, <1>10, <1>11, <1>12

\* A worker that holds a claim goes on with it, and no run is touched: a fault.
LEMMA FaultKeeps ==
    ASSUME TypeOK, NEW w \in Starting, NEW pc \in {"enqueue", "giveback"},
           To(w, pc), UNCHANGED <<item, runs, claim, granted>>, Spend("fault"),
           slip' = slip \/ slip' = slip \cup {"orphan"},
           pc = "giveback" => worker[w].pc = "create",
           pc = "enqueue" => worker[w].pc = "link", Ledger
    PROVE  TypeOK' /\ Ledger' /\ NothingNew
<1> USE DEF Ledger
<1>t. worker \in [Worker -> Work] /\ slip \subseteq Slip /\ w \in Worker
  BY TypesAre DEF Starting
<1>0. "enqueue" \in Pc /\ "giveback" \in Pc /\ "fault" \in Ops  BY DEF Pc, Ops
<1>1. Moves(w, pc, worker[w].snap, worker[w].run, worker[w].mine)  BY <1>0, <1>t, ToMoves
<1>2. /\ worker' \in [Worker -> Work]
      /\ \A v \in Worker \ {w} : worker'[v] = worker[v]
      /\ worker'[w].pc = pc /\ worker'[w].snap = worker[w].snap
      /\ worker'[w].run = worker[w].run /\ worker'[w].mine = worker[w].mine
  BY <1>1 DEF Moves
<1>3. /\ Starting' = Starting /\ Chained' = Chained
      /\ Making' = Making
  BY <1>2, <1>t DEF Starting, Making, Chained
<1>4. /\ slip \subseteq slip' /\ slip' \subseteq Slip /\ "headless" \in slip' <=> "headless" \in slip
      /\ \A causes \in SUBSET {"overwritten", "overtaken", "headless", "early"} :
            Without(causes)' = Without(causes)
  BY <1>t DEF Slip, Without
<1>5. TypeOK'
  <2>1. used' \in [Ops -> Nat]  BY <1>0, SpendIs
  <2> QED  BY <1>2, <1>4, <2>1 DEF TypeOK, Slip
<1>6. Claims'
  <2>1. \A v \in Starting : worker'[v].mine = worker[v].mine  BY <1>2 DEF Starting
  <2> QED  BY <1>3, <2>1 DEF Claims
<1>7. Held'  BY <1>2, <1>3, <1>4, <1>t DEF Held, Making
<1>8. FailedLate'
  <2>1. "early" \in slip' <=> "early" \in slip  OBVIOUS
  <2> QED  BY <1>2, <2>1 DEF FailedLate
<1>9. Current'
  <2>1. Without({"overwritten", "overtaken", "headless", "early"})'
           = Without({"overwritten", "overtaken", "headless", "early"})
    BY <1>4
  <2> QED  BY <1>2, <1>3, <1>t, <2>1 DEF Current, Starting
<1>10. Numbered'
  <2>1. Without({"headless", "overtaken"})' = Without({"headless", "overtaken"})  BY <1>4
  <2>2. \A v \in Starting : worker'[v].snap = worker[v].snap /\ worker'[v].mine = worker[v].mine
    BY <1>2 DEF Starting
  <2> QED  BY <1>3, <2>1, <2>2 DEF Numbered
<1>11. Capped'
  <2>1. \A v \in Starting : worker'[v].snap = worker[v].snap  BY <1>2 DEF Starting
  <2> QED  BY <1>3, <2>1 DEF Capped
<1>12. NothingNew  BY <1>2, <1>3, <1>4 DEF NothingNew, Starting
<1> QED  BY <1>5, <1>6, <1>7, <1>8, <1>9, <1>10, <1>11, <1>12

\* The run of w is the last one, with the number and the agent of its claim.
TaskCreated(w) ==
    /\ UNCHANGED <<item, granted, slip>> /\ w \in Starting /\ Starting' = Starting
    /\ \A v \in Worker : worker'[v].snap = worker[v].snap
    /\ \A l \in DOMAIN runs' :
          \/ /\ l \in DOMAIN runs
             /\ runs'[l].number = runs[l].number /\ runs'[l].agent = runs[l].agent
          \/ /\ runs'[l].number = worker[w].snap.count + 1
             /\ runs'[l].agent = worker[w].snap.assignee

\* The Task of a claim is created.
LEMMA CreateKeeps ==
    ASSUME TypeOK, NEW w \in Worker, CreateTask(w), Ledger
    PROVE  /\ TypeOK' /\ Ledger'
           /\ NothingNew \/ TaskCreated(w)
<1> USE DEF Ledger
<1>p. worker[w].pc = "create" /\ w \in Starting  BY DEF CreateTask, Starting
<1>1. CASE Spend("fault") /\ To(w, "giveback") /\ UNCHANGED runs
  BY <1>1, <1>p, FaultKeeps DEF CreateTask
<1> DEFINE k == Len(runs) + 1
           r == [task |-> "created", linked |-> FALSE, agent |-> worker[w].snap.assignee,
                 number |-> worker[w].snap.count + 1, claim |-> worker[w].mine,
                 stage |-> "none", steps |-> 0]
<1>2. CASE /\ runs' = Append(runs, r)
           /\ WithRun(w, "mark", k)
           /\ UNCHANGED <<item, claim, granted, slip, used>>
  <2>t. /\ worker \in [Worker -> Work] /\ runs \in Seq(Run) /\ claim \in Nat
        /\ worker[w].snap.count \in Nat /\ worker[w].mine \in Nat
        /\ \A v \in Worker : worker[v].snap.count \in Nat
        /\ worker[w].snap.assignee \in Agent
    BY <1>p, TypesAre DEF TypeOK, Work, Capped
  <2>0. "mark" \in Pc /\ k \in Nat  BY <2>t DEF Pc
  <2>1. r \in Run
    <3>1. worker[w].snap.count + 1 \in Nat  BY <2>t
    <3> QED  BY <1>2, <2>t, <3>1 DEF Run, Stage
  <2>2. /\ r.task = "created" /\ r.agent = worker[w].snap.assignee
        /\ r.number = worker[w].snap.count + 1 /\ r.claim = worker[w].mine
        /\ r.stage = "none" /\ r.steps = 0
    OBVIOUS
  <2> HIDE DEF r
  <2>3. /\ runs' \in Seq(Run) /\ DOMAIN runs' = DOMAIN runs \cup {k} /\ k \notin DOMAIN runs
        /\ runs'[k] = r /\ \A l \in DOMAIN runs : runs'[l] = runs[l]
    BY <1>2, <2>t, <2>1
  <2> HIDE DEF k
  <2>4. Moves(w, "mark", worker[w].snap, k, worker[w].mine)
    BY <1>2, <2>0, <2>t, WithRunMoves
  <2>5. /\ worker' \in [Worker -> Work]
        /\ \A v \in Worker \ {w} : worker'[v] = worker[v]
        /\ worker'[w].pc = "mark" /\ worker'[w].snap = worker[w].snap
        /\ worker'[w].run = k /\ worker'[w].mine = worker[w].mine
    BY <2>4 DEF Moves
  <2>6. /\ Starting' = Starting /\ Making' = Making \cup {w} /\ w \notin Making
        /\ Chained' = Chained
    BY <1>p, <2>2, <2>3, <2>5 DEF Starting, Making, Chained
  <2>7. \A v \in Starting : worker'[v].mine = worker[v].mine /\ worker'[v].snap = worker[v].snap
    BY <2>5 DEF Starting
  <2>8. \A l \in DOMAIN runs : runs[l].claim # worker[w].mine  BY <1>p DEF Held
  <2>9. TypeOK'  BY <1>2, <2>3, <2>5 DEF TypeOK
  <2>10. Claims'
    <3>1. \A l \in DOMAIN runs' : runs'[l].claim \in 1..claim
      BY <1>p, <2>2, <2>3 DEF Claims
    <3>2. \A l, m \in DOMAIN runs' : runs'[l].claim = runs'[m].claim => l = m
      BY <2>2, <2>3, <2>8 DEF Claims
    <3> QED  BY <1>2, <2>6, <2>7, <3>1, <3>2 DEF Claims
  <2>11. Held'
    <3>1. ASSUME NEW v \in Worker, worker'[v].pc = "create", NEW l \in DOMAIN runs'
          PROVE  runs'[l].claim # worker'[v].mine
      <4>1. v # w /\ worker'[v] = worker[v]  BY <2>5, <3>1
      <4>2. worker[v].mine # worker[w].mine  BY <1>p, <3>1, <4>1 DEF Claims, Starting
      <4> QED  BY <2>2, <2>3, <3>1, <4>1, <4>2 DEF Held
    <3>2. ASSUME NEW v \in Making'
          PROVE  LET l == worker'[v].run IN
                 /\ l \in DOMAIN runs'
                 /\ runs'[l].claim = worker'[v].mine
                 /\ runs'[l].number = worker'[v].snap.count + 1
                 /\ runs'[l].agent = worker'[v].snap.assignee
                 /\ runs'[l].steps = 0
                 /\ runs'[l].task = IF worker'[v].pc = "mark" THEN "created" ELSE "in_progress"
      <4>1. CASE v = w  BY <2>2, <2>3, <2>5, <4>1
      <4>2. CASE v \in Making
        <5>1. worker'[v] = worker[v]  BY <2>5, <2>6, <4>2 DEF Making
        <5> QED  BY <2>3, <4>2, <5>1 DEF Held
      <4> QED  BY <2>6, <4>1, <4>2
    <3>3. ASSUME NEW v \in Worker, worker'[v].pc = "giveback", "headless" \notin slip',
                 NEW l \in DOMAIN runs', runs'[l].claim = worker'[v].mine
          PROVE  runs'[l].steps = 0
      <4>1. v # w /\ worker'[v] = worker[v]  BY <2>5, <3>3
      <4> QED  BY <1>2, <2>2, <2>3, <3>3, <4>1 DEF Held
    <3>4. \A l \in DOMAIN runs' : runs'[l].steps = 0 => runs'[l].stage = "none"
      BY <2>2, <2>3 DEF Held
    <3> QED  BY <3>1, <3>2, <3>3, <3>4 DEF Held
  <2>12. FailedLate'
    <3>1. \A v \in Worker : worker'[v].pc \in {"reread", "settle"} => worker'[v] = worker[v]
      BY <2>5
    <3>2. "early" \notin slip => \A l \in DOMAIN runs' :
             runs'[l].stage \notin {"none", "over"} => runs'[l].task = "in_progress"
      BY <2>2, <2>3 DEF FailedLate
    <3> QED  BY <1>2, <2>3, <3>1, <3>2 DEF FailedLate
  <2>13. Current'
    <3>1. \A l \in DOMAIN runs' : runs'[l].stage \in {"agent", "deliver", "store"} =>
             l \in DOMAIN runs /\ runs'[l] = runs[l]
      BY <2>2, <2>3
    <3>2. \A v \in Starting : worker'[v].pc # "giveback" => worker[v].pc # "giveback"
      BY <1>p, <2>5 DEF Starting
    <3> QED  BY <1>2, <2>6, <2>7, <3>1, <3>2 DEF Current, Without
  <2>14. Numbered'
    <3>1. \A l \in Chained : runs'[l].number = runs[l].number  BY <2>3 DEF Chained
    <3>2. Without({"headless", "overtaken"})' = Without({"headless", "overtaken"})
      BY <1>2 DEF Without
    <3>3. item' = item /\ claim' = claim  BY <1>2
    <3> HIDE <1>2
    <3> QED  BY <2>6, <2>7, <3>1, <3>2, <3>3 DEF Numbered
  <2>15. Capped'
    <3>1. worker[w].snap.count + 1 \in 1..MaxRuns
      BY <1>p, <2>t, ItemAssumption DEF Capped
    <3> QED  BY <2>2, <2>3, <2>6, <2>7, <3>1 DEF Capped
  <2>16. TaskCreated(w)  BY <1>2, <1>p, <2>2, <2>3, <2>5, <2>6 DEF TaskCreated
  <2> QED  BY <2>9, <2>10, <2>11, <2>12, <2>13, <2>14, <2>15, <2>16
<1> QED  BY <1>1, <1>2 DEF CreateTask, WithRun

\* The Task of a run that is being made is in progress, and its chain not yet there.
LEMMA MakingKeeps ==
    ASSUME TypeOK, NEW w \in Making, worker[w].pc \in {"mark", "link"},
           NEW pc \in {"link", "enqueue"}, To(w, pc),
           RunMoves(worker[w].run, "none", "in_progress"),
           UNCHANGED <<item, claim, granted, slip, used>>, Ledger
    PROVE  TypeOK' /\ Ledger' /\ NothingNew
<1> USE DEF Ledger
<1> DEFINE k == worker[w].run
<1>t. worker \in [Worker -> Work] /\ w \in Worker /\ w \in Starting
  BY TypesAre DEF Starting, Making
<1>1. Moves(w, pc, worker[w].snap, k, worker[w].mine)  BY <1>t, ToMoves DEF Pc
<1>2. /\ worker' \in [Worker -> Work]
      /\ \A v \in Worker \ {w} : worker'[v] = worker[v]
      /\ worker'[w].pc = pc /\ worker'[w].snap = worker[w].snap
      /\ worker'[w].run = worker[w].run /\ worker'[w].mine = worker[w].mine
  BY <1>1 DEF Moves
<1>3. /\ k \in DOMAIN runs /\ runs[k].claim = worker[w].mine /\ runs[k].steps = 0
      /\ runs[k].task # "failed"
  BY DEF Held
<1>4. runs[k].stage = "none"  BY <1>3 DEF Held
<1>5. /\ runs' \in Seq(Run) /\ DOMAIN runs' = DOMAIN runs
      /\ \A l \in DOMAIN runs \ {k} : runs'[l] = runs[l]
      /\ runs'[k].stage = "none" /\ runs'[k].task = "in_progress"
      /\ \A l \in DOMAIN runs :
            /\ runs'[l].number = runs[l].number /\ runs'[l].agent = runs[l].agent
            /\ runs'[l].claim = runs[l].claim /\ runs'[l].steps = runs[l].steps
            /\ runs'[l].stage = runs[l].stage
  BY <1>4 DEF RunMoves
<1> HIDE DEF k
<1>6. Starting' = Starting /\ Making' = Making /\ Chained' = Chained
  BY <1>2, <1>5, <1>t DEF Starting, Making, Chained
<1>7. \A v \in Starting : worker'[v].mine = worker[v].mine /\ worker'[v].snap = worker[v].snap
  BY <1>2 DEF Starting
<1>8. TypeOK'  BY <1>2, <1>5 DEF TypeOK
<1>9. Claims'  BY <1>5, <1>6, <1>7 DEF Claims
<1>10. Held'
  <2>1. ASSUME NEW v \in Worker, worker'[v].pc = "create", NEW l \in DOMAIN runs'
        PROVE  runs'[l].claim # worker'[v].mine
    <3>1. worker'[v] = worker[v]  BY <1>2, <2>1
    <3> QED  BY <1>5, <2>1, <3>1 DEF Held
  <2>2. ASSUME NEW v \in Making
        PROVE  LET l == worker'[v].run IN
               /\ l \in DOMAIN runs'
               /\ runs'[l].claim = worker'[v].mine
               /\ runs'[l].number = worker'[v].snap.count + 1
               /\ runs'[l].agent = worker'[v].snap.assignee
               /\ runs'[l].steps = 0
               /\ runs'[l].task = IF worker'[v].pc = "mark" THEN "created" ELSE "in_progress"
    <3>1. CASE v = w  BY <1>2, <1>3, <1>5, <3>1 DEF k, Held
    <3>2. CASE v # w
      <4>1. worker'[v] = worker[v] /\ v \in Starting  BY <1>2, <3>2 DEF Making, Starting
      <4>2. worker[v].mine # worker[w].mine  BY <1>t, <3>2, <4>1 DEF Claims
      <4>3. worker[v].run \in DOMAIN runs /\ runs[worker[v].run].claim = worker[v].mine
        BY DEF Held
      <4>4. worker[v].run # k  BY <1>3, <4>2, <4>3
      <4>5. runs'[worker[v].run] = runs[worker[v].run]  BY <1>5, <4>3, <4>4
      <4> QED  BY <1>5, <4>1, <4>5 DEF Held
    <3> QED  BY <3>1, <3>2
  <2>3. ASSUME NEW v \in Worker, worker'[v].pc = "giveback", "headless" \notin slip',
               NEW l \in DOMAIN runs', runs'[l].claim = worker'[v].mine
        PROVE  runs'[l].steps = 0
    <3>1. worker'[v] = worker[v]  BY <1>2, <2>3
    <3> QED  BY <1>5, <2>3, <3>1 DEF Held
  <2>4. \A l \in DOMAIN runs' : runs'[l].steps = 0 => runs'[l].stage = "none"
    BY <1>5 DEF Held
  <2> QED  BY <1>6, <2>1, <2>2, <2>3, <2>4 DEF Held
<1>11. FailedLate'
  <2>1. \A v \in Worker : worker'[v].pc \in {"reread", "settle"} => worker'[v] = worker[v]
    BY <1>2
  <2>2. \A l \in DOMAIN runs : runs[l].task = "failed" => runs'[l].task = "failed"
    BY <1>3, <1>5
  <2>3. "early" \notin slip => \A l \in DOMAIN runs' :
           runs'[l].stage \notin {"none", "over"} => runs'[l].task = "in_progress"
    BY <1>5 DEF FailedLate
  <2>4. slip' = slip  OBVIOUS
  <2> QED  BY <1>5, <2>1, <2>2, <2>3, <2>4 DEF FailedLate
<1>12. Current'
  <2>1. \A v \in Starting : worker'[v].pc # "giveback" => worker[v].pc # "giveback"
    BY <1>2 DEF Starting
  <2> QED  BY <1>5, <1>6, <1>7, <2>1 DEF Current, Without
<1>13. Numbered'
  <2>1. \A l \in Chained : runs'[l].number = runs[l].number  BY <1>5 DEF Chained
  <2>2. Without({"headless", "overtaken"})' = Without({"headless", "overtaken"})  BY DEF Without
  <2> QED  BY <1>6, <1>7, <2>1, <2>2 DEF Numbered
<1>14. Capped'  BY <1>5, <1>6, <1>7 DEF Capped
<1>15. NothingNew  BY <1>2, <1>5, <1>6, <1>7 DEF NothingNew
<1> QED  BY <1>8, <1>9, <1>10, <1>11, <1>12, <1>13, <1>14, <1>15

LEMMA MarkKeeps ==
    ASSUME TypeOK, NEW w \in Worker, MarkTask(w), Ledger
    PROVE  TypeOK' /\ Ledger' /\ NothingNew
<1> DEFINE k == worker[w].run
<1>1. worker[w].pc = "mark" /\ w \in Making  BY DEF MarkTask, Making
<1>2. k \in DOMAIN runs /\ runs[k].steps = 0  BY <1>1 DEF Ledger, Held
<1>3. runs[k].stage = "none"  BY <1>2 DEF Ledger, Held
<1>4. WithTask(k, "in_progress")  BY DEF MarkTask, WithTask
<1>5. RunMoves(k, "none", "in_progress")
  <2> HIDE DEF k
  <2> QED  BY <1>2, <1>3, <1>4, TaskMoves DEF TaskStatus
<1> QED  BY <1>1, <1>5, MakingKeeps DEF MarkTask

\* The edge that a reconcile goes by is of no claim; without it the item is an orphan.
LEMMA LinkKeeps ==
    ASSUME TypeOK, NEW w \in Worker, LinkTask(w), Ledger
    PROVE  TypeOK' /\ Ledger' /\ NothingNew
<1> DEFINE k == worker[w].run
<1>1. worker[w].pc = "link" /\ w \in Making /\ w \in Starting
  BY DEF LinkTask, Making, Starting
<1>2. CASE Spend("fault") /\ Slips("orphan", TRUE) /\ UNCHANGED runs
  BY <1>1, <1>2, FaultKeeps DEF LinkTask, Slips
<1>3. CASE /\ runs' = [runs EXCEPT ![worker[w].run].linked = TRUE]
           /\ UNCHANGED <<slip, used>>
  <2>1. k \in DOMAIN runs /\ runs[k].steps = 0 /\ runs[k].task = "in_progress"
    BY <1>1 DEF Ledger, Held
  <2>2. runs[k].stage = "none"  BY <2>1 DEF Ledger, Held
  <2>3. runs[k] \in Run  BY <2>1, RunIs
  <2> DEFINE r == [runs[k] EXCEPT !.linked = TRUE]
  <2>4. Written(k, r)  BY <1>3 DEF Written
  <2>5. /\ r \in Run /\ r.number = runs[k].number /\ r.agent = runs[k].agent
        /\ r.claim = runs[k].claim /\ r.steps = runs[k].steps
        /\ r.stage = "none" /\ r.task = "in_progress"
    BY <2>1, <2>2, <2>3 DEF Run
  <2> HIDE DEF r, k
  <2>6. RunMoves(k, "none", "in_progress")  BY <2>1, <2>4, <2>5, RunWritten DEF RunMoves
  <2> QED  BY <1>1, <1>3, <2>6, MakingKeeps DEF LinkTask, k
<1> QED  BY <1>2, <1>3 DEF LinkTask

\* The chain is created, whole or in part.
WithChain(k, stage, n) == runs' = [runs EXCEPT ![k].stage = stage, ![k].steps = n]

LEMMA ChainCreated ==
    ASSUME TypeOK, NEW k \in DOMAIN runs, NEW stage \in {"none", "agent"}, NEW n \in 0..3,
           WithChain(k, stage, n)
    PROVE  /\ runs' \in Seq(Run) /\ DOMAIN runs' = DOMAIN runs
           /\ \A l \in DOMAIN runs \ {k} : runs'[l] = runs[l]
           /\ runs'[k].stage = stage /\ runs'[k].steps = n
           /\ \A l \in DOMAIN runs :
                 /\ runs'[l].number = runs[l].number /\ runs'[l].agent = runs[l].agent
                 /\ runs'[l].claim = runs[l].claim /\ runs'[l].task = runs[l].task
<1>1. runs[k] \in Run  BY RunIs
<1> DEFINE r == [runs[k] EXCEPT !.stage = stage, !.steps = n]
<1>2. Written(k, r)  BY DEF WithChain, Written
<1>3. /\ r \in Run /\ r.number = runs[k].number /\ r.agent = runs[k].agent
      /\ r.claim = runs[k].claim /\ r.task = runs[k].task
  BY <1>1 DEF Run, Stage
<1>4. r.stage = stage /\ r.steps = n  BY <1>1 DEF Run
<1> HIDE DEF r
<1> QED  BY <1>2, <1>3, <1>4, RunWritten

LEMMA EnqueueKeeps ==
    ASSUME TypeOK, NEW w \in Worker, Enqueue(w), Ledger
    PROVE  TypeOK' /\ Ledger' /\ NothingNew
<1> USE DEF Ledger
<1> DEFINE k == worker[w].run
<1>p. worker[w].pc = "enqueue" /\ w \in Making /\ w \in Starting
  BY DEF Enqueue, Making, Starting
<1>t. /\ worker \in [Worker -> Work] /\ slip \subseteq Slip /\ item.count \in Nat
      /\ \A v \in Worker : worker[v].snap.count \in Nat
      /\ \A l \in DOMAIN runs : runs[l].number \in Nat
  BY TypesAre, RunIs
<1>k. /\ k \in DOMAIN runs /\ runs[k].claim = worker[w].mine /\ runs[k].steps = 0
      /\ runs[k].number = worker[w].snap.count + 1 /\ runs[k].task = "in_progress"
  BY <1>p DEF Held
<1>0. "giveback" \in Pc /\ "fault" \in Ops  BY DEF Pc, Ops
<1>1. PICK n \in 0..3 :
         /\ WithChain(k, IF n = 0 THEN "none" ELSE "agent", n)
         /\ \/ n = 3 /\ Finish(w) /\ UNCHANGED <<slip, used>>
            \/ /\ n # 3 /\ To(w, "giveback") /\ Spend("fault")
               /\ slip' = IF n > 0 THEN slip \cup {"headless"} ELSE slip
  <2>1. CASE /\ runs' = [runs EXCEPT ![worker[w].run].stage = "agent", ![worker[w].run].steps = 3]
             /\ Finish(w)
             /\ UNCHANGED <<slip, used>>
    <3>1. WithChain(k, IF 3 = 0 THEN "none" ELSE "agent", 3)  BY <2>1 DEF WithChain
    <3> QED  BY <2>1, <3>1
  <2>2. CASE \E n \in 0..2 :
             /\ Spend("fault")
             /\ runs' = [runs EXCEPT ![worker[w].run].stage = IF n = 0 THEN "none" ELSE "agent",
                                     ![worker[w].run].steps = n]
             /\ Slips("headless", n > 0)
             /\ To(w, "giveback")
    <3>1. PICK n \in 0..2 :
             /\ Spend("fault")
             /\ runs' = [runs EXCEPT ![worker[w].run].stage = IF n = 0 THEN "none" ELSE "agent",
                                     ![worker[w].run].steps = n]
             /\ Slips("headless", n > 0)
             /\ To(w, "giveback")
      BY <2>2
    <3>2. WithChain(k, IF n = 0 THEN "none" ELSE "agent", n)  BY <3>1 DEF WithChain
    <3> QED  BY <3>1, <3>2 DEF Slips
  <2> QED  BY <2>1, <2>2 DEF Enqueue
<1>f. UNCHANGED <<item, claim, granted>>  BY DEF Enqueue
<1> HIDE DEF k
<1> DEFINE stage == IF n = 0 THEN "none" ELSE "agent"
<1>2. stage \in {"none", "agent"} /\ (stage = "none" <=> n = 0)  OBVIOUS
<1> HIDE DEF stage
<1>3. /\ runs' \in Seq(Run) /\ DOMAIN runs' = DOMAIN runs
      /\ \A l \in DOMAIN runs \ {k} : runs'[l] = runs[l]
      /\ runs'[k].stage = stage /\ runs'[k].steps = n
      /\ \A l \in DOMAIN runs :
            /\ runs'[l].number = runs[l].number /\ runs'[l].agent = runs[l].agent
            /\ runs'[l].claim = runs[l].claim /\ runs'[l].task = runs[l].task
  <2>1. WithChain(k, stage, n)  BY <1>1 DEF stage
  <2> QED  BY <1>2, <1>k, <2>1, ChainCreated
\* w is done, or keeps its claim to give it back.
<1>4. /\ worker' \in [Worker -> Work]
      /\ \A v \in Worker \ {w} : worker'[v] = worker[v]
      /\ \/ n = 3 /\ worker'[w].pc = "idle" /\ worker'[w].snap = Fresh
         \/ /\ n # 3 /\ worker'[w].pc = "giveback"
            /\ worker'[w].snap = worker[w].snap /\ worker'[w].mine = worker[w].mine
  <2>1. CASE n = 3
    <3>1. Moves(w, "idle", Fresh, 0, 0)  BY <1>1, <1>t, <2>1, FinishMoves
    <3> QED  BY <2>1, <3>1 DEF Moves
  <2>2. CASE n # 3
    <3>1. Moves(w, "giveback", worker[w].snap, worker[w].run, worker[w].mine)
      BY <1>0, <1>1, <1>t, <2>2, ToMoves
    <3> QED  BY <2>2, <3>1 DEF Moves
  <2> QED  BY <2>1, <2>2
<1>5. /\ slip \subseteq slip' /\ slip' \subseteq Slip
      /\ n = 3 \/ n = 0 => slip' = slip
      /\ n # 3 /\ n # 0 => "headless" \in slip'
      /\ "early" \in slip' <=> "early" \in slip
  BY <1>1, <1>t DEF Slip
<1>6. /\ \A v \in Starting' : /\ v \in Starting
                              /\ worker'[v].snap = worker[v].snap
                              /\ worker'[v].mine = worker[v].mine
      /\ \A v \in Making' : v \in Making /\ v # w /\ worker'[v] = worker[v]
      /\ n = 3 => w \notin Starting'
  BY <1>4, <1>p DEF Starting, Making
<1>7. TypeOK'
  <2>1. used' \in [Ops -> Nat]  BY <1>0, <1>1, SpendIs DEF TypeOK
  <2> QED  BY <1>3, <1>4, <1>5, <1>f, <2>1 DEF TypeOK, Slip
<1>8. Claims'  BY <1>3, <1>6, <1>f DEF Claims
<1>9. Held'
  <2>1. ASSUME NEW v \in Worker, worker'[v].pc = "create", NEW l \in DOMAIN runs'
        PROVE  runs'[l].claim # worker'[v].mine
    <3>1. worker'[v] = worker[v]  BY <1>4, <2>1
    <3> QED  BY <1>3, <2>1, <3>1 DEF Held
  <2>2. ASSUME NEW v \in Making'
        PROVE  LET l == worker'[v].run IN
               /\ l \in DOMAIN runs'
               /\ runs'[l].claim = worker'[v].mine
               /\ runs'[l].number = worker'[v].snap.count + 1
               /\ runs'[l].agent = worker'[v].snap.assignee
               /\ runs'[l].steps = 0
               /\ runs'[l].task = IF worker'[v].pc = "mark" THEN "created" ELSE "in_progress"
    <3>1. v \in Making /\ v # w /\ worker'[v] = worker[v]  BY <1>6
    <3>2. worker[v].mine # worker[w].mine  BY <1>p, <3>1 DEF Claims, Making, Starting
    <3>3. worker[v].run \in DOMAIN runs /\ runs[worker[v].run].claim = worker[v].mine
      BY <3>1 DEF Held
    <3>4. worker[v].run # k  BY <1>k, <3>2, <3>3
    <3>5. runs'[worker[v].run] = runs[worker[v].run]  BY <1>3, <3>3, <3>4
    <3> QED  BY <1>3, <3>1, <3>5 DEF Held
  <2>3. ASSUME NEW v \in Worker, worker'[v].pc = "giveback", "headless" \notin slip',
               NEW l \in DOMAIN runs', runs'[l].claim = worker'[v].mine
        PROVE  runs'[l].steps = 0
    <3>1. CASE v = w
      <4>1. l = k  BY <1>3, <1>4, <1>k, <2>3, <3>1 DEF Claims
      <4>2. n = 0  BY <1>4, <1>5, <2>3, <3>1
      <4> QED  BY <1>3, <4>1, <4>2
    <3>2. CASE v # w
      <4>1. worker'[v] = worker[v] /\ v \in Starting  BY <1>4, <2>3, <3>2 DEF Starting
      <4>2. worker[v].mine # worker[w].mine  BY <1>p, <3>2, <4>1 DEF Claims
      <4>3. l # k  BY <1>3, <1>k, <2>3, <4>1, <4>2
      <4> QED  BY <1>3, <1>5, <2>3, <4>1, <4>3 DEF Held
    <3> QED  BY <3>1, <3>2
  <2>4. \A l \in DOMAIN runs' : runs'[l].steps = 0 => runs'[l].stage = "none"
    BY <1>2, <1>3 DEF Held
  <2> QED  BY <2>1, <2>2, <2>3, <2>4 DEF Held
<1>10. FailedLate'
  <2>1. \A v \in Worker : worker'[v].pc \in {"reread", "settle"} => worker'[v] = worker[v]
    BY <1>4
  <2>2. "early" \notin slip => \A l \in DOMAIN runs' :
           runs'[l].stage \notin {"none", "over"} => runs'[l].task = "in_progress"
    BY <1>3, <1>k DEF FailedLate
  <2> QED  BY <1>3, <1>5, <2>1, <2>2 DEF FailedLate
<1>11. Current'
  <2> SUFFICES ASSUME Without({"overwritten", "overtaken", "headless", "early"})'
               PROVE  Current'
    BY DEF Current
  <2>1. Without({"overwritten", "overtaken", "headless", "early"}) /\ (n = 3 \/ n = 0)
    BY <1>5 DEF Without
  <2>2. /\ \A v \in Starting : worker[v].pc # "giveback" =>
              worker[v].mine = claim /\ item.status = "in_progress"
        /\ \A l \in DOMAIN runs : runs[l].stage \in {"agent", "deliver", "store"} =>
              runs[l].claim = claim /\ item.status = "in_progress"
    BY <2>1 DEF Current
  <2>3. runs[k].claim = claim /\ item.status = "in_progress"  BY <1>k, <1>p, <2>2
  <2>4. \A v \in Starting' : worker'[v].pc # "giveback" => worker[v].pc # "giveback"
    BY <1>4, <1>6 DEF Starting
  <2> QED  BY <1>3, <1>6, <1>f, <2>2, <2>3, <2>4 DEF Current
<1>12. Numbered'
  <2> SUFFICES ASSUME Without({"headless", "overtaken"})' PROVE Numbered'  BY DEF Numbered
  <2>1. Without({"headless", "overtaken"}) /\ (n = 3 \/ n = 0)  BY <1>5 DEF Without
  <2>2. /\ \A v \in Starting :
              /\ worker[v].snap.count < item.count
              /\ worker[v].mine = claim => item.count = worker[v].snap.count + 1
        /\ \A u, v \in Starting : worker[u].snap.count = worker[v].snap.count => u = v
        /\ \A l \in Chained : runs[l].number <= item.count
        /\ \A l \in Chained, v \in Starting : runs[l].number # worker[v].snap.count + 1
        /\ \A l, m \in Chained : runs[l].number = runs[m].number => l = m
    BY <2>1 DEF Numbered
  <2>3. /\ Chained \subseteq DOMAIN runs /\ k \notin Chained
        /\ \A l \in Chained' : l \in Chained \/ (n = 3 /\ l = k)
    BY <1>3, <1>k, <2>1 DEF Chained
  <2>4. /\ runs[k].number <= item.count
        /\ \A l \in Chained : runs[l].number # runs[k].number
    BY <1>k, <1>p, <1>t, <2>2
  <2>5. ASSUME NEW v \in Starting', n = 3 PROVE runs[k].number # worker[v].snap.count + 1
    <3>1. v \in Starting /\ v # w  BY <1>6, <2>5
    <3>2. v \in Worker /\ w \in Worker  BY <3>1 DEF Starting
    <3> QED  BY <1>k, <1>p, <1>t, <2>2, <3>1, <3>2
  <2>6. \A v \in Starting' :
           /\ worker'[v].snap.count < item'.count
           /\ worker'[v].mine = claim' => item'.count = worker'[v].snap.count + 1
    BY <1>6, <1>f, <2>2
  <2>7. \A u, v \in Starting' : worker'[u].snap.count = worker'[v].snap.count => u = v
    BY <1>6, <2>2
  <2>8. \A l \in Chained' : runs'[l].number <= item'.count
    BY <1>3, <1>f, <1>k, <2>2, <2>3, <2>4
  <2>9. \A l \in Chained', v \in Starting' : runs'[l].number # worker'[v].snap.count + 1
    BY <1>3, <1>6, <1>k, <2>2, <2>3, <2>5
  <2>10. \A l, m \in Chained' : runs'[l].number = runs'[m].number => l = m
    BY <1>3, <1>k, <2>2, <2>3, <2>4
  <2> QED  BY <2>6, <2>7, <2>8, <2>9, <2>10 DEF Numbered
<1>13. Capped'  BY <1>3, <1>6 DEF Capped
<1>14. NothingNew  BY <1>3, <1>4, <1>5, <1>6, <1>f DEF NothingNew
<1> QED  BY <1>7, <1>8, <1>9, <1>10, <1>11, <1>12, <1>13, <1>14

\* A claim that is given back is the latest one, or the item has gone on without it.
LEMMA GiveBackKeeps ==
    ASSUME TypeOK, NEW w \in Worker, GiveBack(w), Ledger
    PROVE  TypeOK' /\ Ledger' /\ NothingNew
<1> USE DEF Ledger
<1>p. worker[w].pc = "giveback" /\ w \in Starting  BY DEF GiveBack, Starting
<1>t. /\ worker \in [Worker -> Work] /\ slip \subseteq Slip /\ item \in Item
      /\ item.count \in Nat /\ used \in [Ops -> Nat]
      /\ \A v \in Worker : worker[v].snap.count \in Nat
      /\ \A l \in DOMAIN runs : runs[l].number \in Nat
  BY TypesAre, RunIs DEF TypeOK
<1>0. "pending" \in ItemStatus /\ "fault" \in Ops  BY DEF ItemStatus, Ops
<1>1. Moves(w, "idle", Fresh, 0, 0)  BY <1>t, FinishMoves DEF GiveBack
<1>2. /\ worker' \in [Worker -> Work]
      /\ \A v \in Worker \ {w} : worker'[v] = worker[v]
      /\ worker'[w].pc = "idle" /\ worker'[w].snap = Fresh
      /\ UNCHANGED <<runs, claim, granted>>
  BY <1>1 DEF Moves, GiveBack
<1>3. /\ Starting' = Starting \ {w} /\ Making' = Making /\ Chained' = Chained
      /\ \A v \in Starting' : worker'[v] = worker[v]
      /\ \A v \in Making' : worker'[v] = worker[v]
  BY <1>2, <1>p DEF Starting, Making, Chained
<1>4. /\ slip \subseteq slip' /\ slip' \subseteq Slip
      /\ "headless" \in slip' <=> "headless" \in slip
      /\ "early" \in slip' <=> "early" \in slip
  BY <1>t DEF GiveBack, Slips, Slip
\* The item is as it was, or pending with the count that the claim was made on.
<1>5. \/ item' = item
      \/ /\ item.status = "in_progress"
         /\ item' = [item EXCEPT !.status = "pending", !.count = worker[w].snap.count]
         /\ worker[w].mine # claim => "overtaken" \in slip'
  BY DEF GiveBack, Slips
<1>6. /\ item' \in Item /\ item'.approved = item.approved /\ item'.assignee = item.assignee
      /\ item' = item \/ item'.count = worker[w].snap.count
  BY <1>0, <1>5, <1>t DEF Item
<1>7. used' \in [Ops -> Nat]  BY <1>0, <1>t, SpendIs DEF GiveBack
<1>8. TypeOK'  BY <1>2, <1>4, <1>6, <1>7 DEF TypeOK, Slip
<1>9. Claims'  BY <1>2, <1>3 DEF Claims
<1>10. Held'
  <2>1. \A v \in Worker : worker'[v].pc \in {"create", "giveback"} => worker'[v] = worker[v]
    BY <1>2
  <2> QED  BY <1>2, <1>3, <1>4, <2>1 DEF Held
<1>11. FailedLate'
  <2>1. \A v \in Worker : worker'[v].pc \in {"reread", "settle"} => worker'[v] = worker[v]
    BY <1>2
  <2> QED  BY <1>2, <1>4, <2>1 DEF FailedLate
<1>12. Current'
  <2> SUFFICES ASSUME Without({"overwritten", "overtaken", "headless", "early"})'
               PROVE  Current'
    BY DEF Current
  <2>1. Without({"overwritten", "overtaken", "headless", "early"})  BY <1>4 DEF Without
  <2>2. /\ \A v \in Starting : worker[v].pc # "giveback" =>
              worker[v].mine = claim /\ item.status = "in_progress"
        /\ \A l \in DOMAIN runs : runs[l].stage \in {"agent", "deliver", "store"} =>
              runs[l].claim = claim /\ item.status = "in_progress"
    BY <2>1 DEF Current
  <2>3. CASE item' = item  BY <1>2, <1>3, <2>2, <2>3 DEF Current
  <2>4. CASE worker[w].mine = claim
    <3>1. \A v \in Starting' : worker[v].pc = "giveback"
      BY <1>3, <1>p, <2>2, <2>4 DEF Claims
    <3>2. \A l \in DOMAIN runs : runs[l].stage \notin {"agent", "deliver", "store"}
      <4>1. "headless" \notin slip  BY <2>1 DEF Without
      <4> QED  BY <1>p, <2>2, <2>4, <4>1 DEF Held
    <3> QED  BY <1>2, <1>3, <3>1, <3>2 DEF Current
  <2>5. "overtaken" \notin slip'  BY DEF Without
  <2> QED  BY <1>5, <2>3, <2>4, <2>5
<1>13. Numbered'
  <2> SUFFICES ASSUME Without({"headless", "overtaken"})' PROVE Numbered'  BY DEF Numbered
  <2>1. Without({"headless", "overtaken"}) /\ "overtaken" \notin slip'  BY <1>4 DEF Without
  <2>2. /\ \A v \in Starting :
              /\ worker[v].snap.count < item.count
              /\ worker[v].mine = claim => item.count = worker[v].snap.count + 1
        /\ \A u, v \in Starting : worker[u].snap.count = worker[v].snap.count => u = v
        /\ \A l \in Chained : runs[l].number <= item.count
        /\ \A l \in Chained, v \in Starting : runs[l].number # worker[v].snap.count + 1
        /\ \A l, m \in Chained : runs[l].number = runs[m].number => l = m
    BY <2>1 DEF Numbered
  <2>3. CASE item' = item  BY <1>2, <1>3, <2>2, <2>3 DEF Numbered
  <2>4. CASE worker[w].mine = claim /\ item'.count = worker[w].snap.count
    <3>1. item.count = worker[w].snap.count + 1  BY <1>p, <2>2, <2>4
    <3>2. ASSUME NEW v \in Starting'
          PROVE  worker[v].snap.count < item'.count /\ worker[v].mine # claim
      <4>1. v \in Starting /\ v # w /\ v \in Worker  BY <1>3 DEF Starting
      <4>2. worker[v].mine # claim  BY <1>p, <2>4, <4>1 DEF Claims
      <4>3. /\ worker[v].snap.count < item.count
            /\ worker[v].snap.count # worker[w].snap.count
        BY <1>p, <2>2, <4>1
      <4> QED  BY <1>t, <2>4, <3>1, <4>1, <4>2, <4>3
    <3>3. ASSUME NEW l \in Chained PROVE runs[l].number <= item'.count
      <4>1. runs[l].number <= item.count /\ runs[l].number # worker[w].snap.count + 1
        BY <1>p, <2>2
      <4>2. runs[l].number \in Nat  BY <1>t DEF Chained
      <4> QED  BY <1>t, <2>4, <3>1, <4>1, <4>2
    <3> QED  BY <1>2, <1>3, <2>2, <3>2, <3>3 DEF Numbered
  <2> QED  BY <1>5, <1>6, <2>1, <2>3, <2>4
<1>14. Capped'  BY <1>2, <1>3 DEF Capped
<1>15. NothingNew  BY <1>2, <1>3, <1>4, <1>6 DEF NothingNew
<1> QED  BY <1>8, <1>9, <1>10, <1>11, <1>12, <1>13, <1>14, <1>15

-----------------------------------------------------------------------------
(* The approvals *)

\* A new worker or item has no approval to show.
LEMMA FreshMay == MayAs(Fresh)
BY IdleIs DEF MayAs

LEMMA NothingNewIsAllowed ==
    ASSUME NothingNew, Allowed
    PROVE  Allowed'
<1> SUFFICES ASSUME Without({"swapped"})' PROVE Allowed'  BY DEF Allowed
<1>1. Without({"swapped"})  BY DEF NothingNew, Without
<1>2. /\ MayAs(item) /\ \A w \in Worker : MayAs(worker[w].snap)
      /\ \A w \in Starting : May(worker[w].snap.count + 1, worker[w].snap.assignee)
      /\ \A k \in DOMAIN runs : May(runs[k].number, runs[k].agent)
  BY <1>1 DEF Allowed
<1>3. granted' = granted  BY DEF NothingNew
<1>4. MayAs(item)'  BY <1>2, <1>3 DEF NothingNew, MayAs, May
<1>5. \A w \in Worker : MayAs(worker[w].snap)'
  BY <1>2, <1>3, FreshMay DEF NothingNew, MayAs, May
<1>6. \A w \in Starting' : May(worker[w].snap.count + 1, worker[w].snap.assignee)'
  BY <1>2, <1>3 DEF NothingNew, May
<1>7. \A k \in DOMAIN runs' : May(runs[k].number, runs[k].agent)'
  BY <1>2, <1>3 DEF NothingNew, May
<1> QED  BY <1>4, <1>5, <1>6, <1>7 DEF Allowed

\* A step aside is allowed if the item is still approved for its agent.
LEMMA AsideIsAllowed ==
    ASSUME Aside, Copies, granted \subseteq granted', Allowed,
           Without({"swapped"})' => MayAs(item)'
    PROVE  Allowed'
<1> SUFFICES ASSUME Without({"swapped"})' PROVE Allowed'  BY DEF Allowed
<1>1. Without({"swapped"})  BY DEF Aside, Without
<1>2. /\ MayAs(item) /\ \A w \in Worker : MayAs(worker[w].snap)
      /\ \A w \in Starting : May(worker[w].snap.count + 1, worker[w].snap.assignee)
      /\ \A k \in DOMAIN runs : May(runs[k].number, runs[k].agent)
  BY <1>1 DEF Allowed
<1>3. \A w \in Worker : MayAs(worker[w].snap)'
  <2> TAKE w \in Worker
  <2>1. worker'[w].snap \in {worker[w].snap, item, Fresh}  BY DEF Copies
  <2>2. MayAs(worker'[w].snap)  BY <1>2, <2>1, FreshMay
  <2> QED  BY <2>2 DEF MayAs, May
<1>4. \A w \in Starting' : w \in Starting /\ worker'[w] = worker[w]
  BY DEF Aside, Starting, StartPc
<1>5. \A w \in Starting' : May(worker[w].snap.count + 1, worker[w].snap.assignee)'
  BY <1>2, <1>4 DEF May
<1>6. \A k \in DOMAIN runs' : May(runs[k].number, runs[k].agent)'
  BY <1>2 DEF Aside, May
<1> QED  BY <1>3, <1>5, <1>6 DEF Allowed

\* The writes of a request: an approval is given for the agent that the user saw.
LEMMA WriteIsAllowed ==
    ASSUME TypeOK, NEW w \in Worker, Allowed, Quiet,
           \/ Patch(w) \/ Reset(w) \/ Fetch(w) \/ Allow(w) \/ Return(w) \/ Hold(w)
           \/ Load(w) \/ Save(w) \/ Reassign(w) \/ Refuse(w) \/ Ask(w)
    PROVE  Allowed'
<1>t. /\ item \in Item /\ worker[w].snap \in Item /\ worker[w].want \in Agent \cup {User}
      /\ worker[w].snap.count \in Nat /\ item.count \in Nat
      /\ worker[w].to \in ItemStatus \cup {"keep"} /\ worker[w].snap.status \in ItemStatus
  BY TypesAre
<1>0. /\ \A s \in {"pending", "in_progress", "awaiting_approval", "awaiting_review", "done"} :
            s \in ItemStatus
      /\ NoRun \in Nat
  BY DEF ItemStatus, NoRun
<1>g. granted \subseteq granted'  BY DEF Quiet
<1>1. ASSUME Without({"swapped"})' PROVE MayAs(item)'
  <2>1. "swapped" \notin slip' /\ MayAs(item)
    BY <1>1 DEF Without, Allowed, Quiet, Aside
  <2>2. CASE /\ item'.approved = item.approved /\ item'.assignee = item.assignee
    BY <1>g, <2>1, <2>2 DEF MayAs, May
  <2>3. CASE Patch(w) \/ Reassign(w)
    <3>1. CASE item' = item  BY <2>2, <3>1
    <3>2. CASE /\ item' = [item EXCEPT !.assignee = worker[w].want]
               /\ item.approved = NoRun \/ worker[w].want = item.assignee
      <4>1. item'.approved = item.approved /\ item'.assignee = worker[w].want
        BY <1>t, <3>2, ItemIs
      <4> QED  BY <1>g, <2>1, <3>2, <4>1 DEF MayAs, May
    <3> QED  BY <2>1, <2>3, <3>1, <3>2 DEF Patch, Reassign, Slips
  <2>4. CASE Reset(w)
    <3>1. item'.approved = NoRun  BY <1>0, <1>t, <2>4, ItemIs DEF Reset
    <3> QED  BY <3>1 DEF MayAs
  <2>5. CASE Allow(w) \/ Return(w)
    <3> DEFINE n == worker[w].snap.count + 1
               a == worker[w].snap.assignee
    <3>1. CASE item' = item  BY <2>2, <3>1
    <3>2. CASE item' # item
      <4>1. /\ Grant(w, item.status)
            /\ \/ item' = [item EXCEPT !.approved = n]
               \/ item' = [item EXCEPT !.status = "pending", !.approved = item.count + 1]
        BY <2>5, <3>2 DEF Allow, Return
      <4>2. /\ item.assignee = a /\ item.count = worker[w].snap.count
            /\ granted' = granted \cup ({<<n, a>>} \cap (Nat \X Agent))
        BY <2>1, <4>1 DEF Grant, Slips
      <4>3. n \in Nat  BY <1>t
      <4>4. item'.approved = n /\ item'.assignee = a
        <5> HIDE DEF n, a
        <5>1. item.count + 1 = n  BY <4>2 DEF n
        <5> QED  BY <1>0, <1>t, <4>1, <4>2, <4>3, <5>1, ItemIs
      <4>5. a \in AsksFirst => <<n, a>> \in granted'
        <5> HIDE DEF n, a
        <5> QED  BY <4>2, <4>3, ItemAssumption
      <4> QED  BY <4>4, <4>5 DEF MayAs, May
    <3> QED  BY <3>1, <3>2
  <2>6. CASE Fetch(w) \/ Load(w) \/ Refuse(w)
    BY <2>2, <2>6 DEF Fetch, Load, Refuse
  <2>7. CASE Hold(w) \/ Ask(w) \/ Save(w)
    <3>1. SavedStatus(w) \in ItemStatus  BY <1>t DEF SavedStatus
    <3>2. item' = item \/ \E s \in ItemStatus : item' = [item EXCEPT !.status = s]
      BY <1>0, <2>7, <3>1 DEF Hold, Ask, Save, SetStatus
    <3>3. item'.approved = item.approved /\ item'.assignee = item.assignee
      BY <1>t, <3>2, ItemIs
    <3> QED  BY <2>2, <3>3
  <2> QED  BY <2>3, <2>4, <2>5, <2>6, <2>7
<1> QED  BY <1>1, <1>g, AsideIsAllowed DEF Quiet

\* An agent that asks first is claimed for on a copy that shows its approval.
LEMMA ClaimIsAllowed ==
    ASSUME TypeOK, NEW w \in Worker, ClaimTaken(w), ~MustAsk(worker[w].snap), Allowed
    PROVE  Allowed'
<1>t. /\ worker \in [Worker -> Work] /\ claim \in Nat /\ item \in Item
      /\ worker[w].snap.count \in Nat
  BY TypesAre DEF TypeOK
<1>1. Moves(w, "create", worker[w].snap, worker[w].run, claim + 1)
  <2>1. claim + 1 \in Nat /\ "create" \in Pc  BY <1>t DEF Pc
  <2>2. WithMine(w, "create", claim + 1)  BY DEF ClaimTaken
  <2> QED  BY <1>t, <2>1, <2>2, WithMineMoves
<1>2. /\ \A v \in Worker : worker'[v].snap = worker[v].snap
      /\ \A v \in Starting' : v \in Starting \/ v = w
      /\ UNCHANGED <<runs, granted, slip>>
  BY <1>1 DEF Moves, Starting, ClaimTaken
<1>3. item'.approved = item.approved /\ item'.assignee = item.assignee
  BY <1>t DEF ClaimTaken, Claimed, Item
<1> SUFFICES ASSUME Without({"swapped"})' PROVE Allowed'  BY DEF Allowed
<1>4. /\ MayAs(item) /\ \A v \in Worker : MayAs(worker[v].snap)
      /\ \A v \in Starting : May(worker[v].snap.count + 1, worker[v].snap.assignee)
      /\ \A k \in DOMAIN runs : May(runs[k].number, runs[k].agent)
  BY <1>2 DEF Allowed, Without
<1>5. May(worker[w].snap.count + 1, worker[w].snap.assignee)
  <2> SUFFICES ASSUME worker[w].snap.assignee \in AsksFirst
               PROVE  <<worker[w].snap.count + 1, worker[w].snap.assignee>> \in granted
    BY DEF May
  <2>1. worker[w].snap.approved = worker[w].snap.count + 1  BY DEF MustAsk
  <2>2. worker[w].snap.approved # NoRun  BY <1>t, <2>1 DEF NoRun
  <2> QED  BY <1>4, <2>1, <2>2 DEF MayAs, May
<1>6. MayAs(item)'  BY <1>2, <1>3, <1>4 DEF MayAs, May
<1>7. \A v \in Worker : MayAs(worker[v].snap)'  BY <1>2, <1>4 DEF MayAs, May
<1>8. \A v \in Starting' : May(worker[v].snap.count + 1, worker[v].snap.assignee)'
  BY <1>2, <1>4, <1>5 DEF May, Starting
<1>9. \A k \in DOMAIN runs' : May(runs[k].number, runs[k].agent)'
  BY <1>2, <1>4 DEF May
<1> QED  BY <1>6, <1>7, <1>8, <1>9 DEF Allowed

LEMMA CreateIsAllowed ==
    ASSUME NEW w \in Worker, TaskCreated(w), Allowed
    PROVE  Allowed'
<1> SUFFICES ASSUME Without({"swapped"})' PROVE Allowed'  BY DEF Allowed
<1>1. /\ MayAs(item) /\ \A v \in Worker : MayAs(worker[v].snap)
      /\ \A v \in Starting : May(worker[v].snap.count + 1, worker[v].snap.assignee)
      /\ \A k \in DOMAIN runs : May(runs[k].number, runs[k].agent)
  BY DEF Allowed, Without, TaskCreated
<1>2. MayAs(item)'  BY <1>1 DEF TaskCreated, MayAs, May
<1>3. \A v \in Worker : MayAs(worker[v].snap)'  BY <1>1 DEF TaskCreated, MayAs, May
<1>4. \A v \in Starting' : May(worker[v].snap.count + 1, worker[v].snap.assignee)'
  BY <1>1 DEF TaskCreated, May, Starting
<1>5. \A k \in DOMAIN runs' : May(runs[k].number, runs[k].agent)'
  BY <1>1 DEF TaskCreated, May
<1> QED  BY <1>2, <1>3, <1>4, <1>5 DEF Allowed

-----------------------------------------------------------------------------
(* The step and the theorems *)

\* A step that touches no run keeps the types.
LEMMA QuietKeepsTypes ==
    ASSUME TypeOK, Aside, used' \in [Ops -> Nat], granted' \subseteq Nat \X Agent
    PROVE  TypeOK'
BY DEF TypeOK, Aside, Slip

\* A step aside that opens no approval and writes over no progress.
LEMMA QuietKeeps ==
    ASSUME Inv, Quiet, Allowed'
    PROVE  Inv'
BY QuietKeepsTypes, AsideKeeps, AsideIsCurrent, AsideFailsLate DEF Inv, Quiet

\* Settling a failure takes the item out of progress: of its latest claim, which is
\* nobody's any more, or of another, which is a slip.
LEMMA SettleIsCurrent ==
    ASSUME Inv, NEW w \in Worker, Settle(w), Aside
    PROVE  Current'
<1> USE DEF Inv
<1> DEFINE k == worker[w].run
<1> SUFFICES ASSUME Without({"overwritten", "overtaken", "headless", "early"})'
             PROVE  Current'
  BY DEF Current
<1>1. Without({"overwritten", "overtaken", "headless", "early"})  BY DEF Aside, Without
<1>2. /\ \A v \in Starting : worker[v].pc # "giveback" =>
            worker[v].mine = claim /\ item.status = "in_progress"
      /\ \A l \in DOMAIN runs : runs[l].stage \in {"agent", "deliver", "store"} =>
            runs[l].claim = claim /\ item.status = "in_progress"
  BY <1>1 DEF Current
<1>3. /\ UNCHANGED <<runs, claim>>
      /\ \A v \in Starting' : v \in Starting /\ worker'[v] = worker[v]
  BY DEF Aside, Starting, StartPc
<1>4. CASE item.status # "in_progress"
  <2>1. item' = item  BY <1>4 DEF Settle, SetStatus
  <2> QED  BY <1>2, <1>3, <2>1 DEF Current
<1>5. CASE item.status = "in_progress"
  <2>1. "overtaken" \notin slip'  BY DEF Without
  <2>2. runs[k].claim = claim  BY <1>5, <2>1 DEF Settle, Slips
  <2>3. "early" \notin slip  BY <1>1 DEF Without
  <2>4. k \in DOMAIN runs /\ runs[k].task = "failed"
    BY <2>3 DEF FailedLate, Settle
  <2>5. runs[k].stage \in {"none", "over"}  BY <2>3, <2>4 DEF FailedLate
  <2> HIDE DEF k
  <2>6. ASSUME NEW l \in DOMAIN runs, runs[l].stage \in {"agent", "deliver", "store"}
        PROVE  FALSE
    BY <1>2, <2>2, <2>4, <2>5, <2>6 DEF Claims
  <2>7. ASSUME NEW v \in Starting, worker[v].pc # "giveback" PROVE FALSE
    <3>1. worker[v].mine = runs[k].claim  BY <1>2, <2>2, <2>7
    <3>2. v \in Making  BY <2>4, <2>7, <3>1 DEF Starting, Making, Held
    <3>3. worker[v].run = k  BY <2>4, <3>1, <3>2 DEF Held, Claims
    <3>4. runs[k].task # "failed"  BY <3>2, <3>3 DEF Held
    <3> QED  BY <2>4, <3>4
  <2> QED  BY <1>3, <2>6, <2>7 DEF Current
<1> QED  BY <1>4, <1>5

LEMMA PollKeeps ==
    ASSUME Inv, NEW w \in Worker,
           StartPoll(w) \/ Reconcile(w) \/ Reread(w) \/ Settle(w) \/ List(w)
    PROVE  Inv'
<1> USE DEF Inv
<1>1. /\ Aside /\ Copies /\ used' = used /\ granted' = granted
      /\ Settle(w) \/ item' = item
      /\ Reconcile(w) \/ Reading
  BY PollIsAside
<1>2. TypeOK'  BY <1>1, QuietKeepsTypes DEF TypeOK
<1>3. Claims' /\ Held' /\ Numbered' /\ Capped'  BY <1>1, AsideKeeps
<1>4. item'.approved = item.approved /\ item'.assignee = item.assignee
  <2>1. CASE Settle(w)
    <3>1. item' = item \/ \E s \in ItemStatus : item' = [item EXCEPT !.status = s]
      BY <2>1 DEF Settle, SetStatus, AfterFailure, ItemStatus
    <3> QED  BY <3>1, TypesAre, ItemIs
  <2> QED  BY <1>1, <2>1
<1>5. Allowed'
  <2>1. Without({"swapped"})' => MayAs(item)'
    BY <1>1, <1>4 DEF Allowed, Without, Aside, MayAs, May
  <2> QED  BY <1>1, <2>1, AsideIsAllowed
<1>6. FailedLate'
  <2>1. CASE Reading  BY <1>1, <2>1, AsideFailsLate
  <2>2. CASE Reconcile(w)
    <3>1. CASE \E k \in DOMAIN runs : Failed(k) /\ WithRun(w, "reread", k)
      <4>1. PICK k \in DOMAIN runs : Failed(k) /\ WithRun(w, "reread", k)  BY <3>1
      <4>2. k \in Nat  BY DEF TypeOK
      <4>3. Moves(w, "reread", worker[w].snap, k, worker[w].mine)
        BY <4>1, <4>2, TypesAre, WithRunMoves DEF Pc
      <4>4. runs[k].task = "failed"  BY <4>1 DEF Failed
      <4> QED  BY <1>1, <4>3, <4>4 DEF FailedLate, Aside, Moves
    <3>2. CASE To(w, "list")
      <4>1. Moves(w, "list", worker[w].snap, worker[w].run, worker[w].mine)
        BY <3>2, TypesAre, ToMoves DEF Pc
      <4> QED  BY <1>1, <4>1 DEF FailedLate, Aside, Moves
    <3> QED  BY <2>2, <3>1, <3>2 DEF Reconcile, WithRun
  <2> QED  BY <1>1, <2>1, <2>2
<1>7. Current'
  <2>1. CASE Settle(w)  BY <1>1, <2>1, SettleIsCurrent
  <2>2. CASE item' = item
    <3>1. ~Leaves  BY <2>2 DEF Leaves
    <3> QED  BY <1>1, <3>1, AsideIsCurrent
  <2> QED  BY <1>1, <2>1, <2>2
<1> QED  BY <1>2, <1>3, <1>5, <1>6, <1>7

LEMMA DispatchKeeps ==
    ASSUME Inv, NEW w \in Worker, Dispatch(w)
    PROVE  Inv'
<1> USE DEF Inv
<1>1. CASE Refuse(w) \/ Ask(w)
  <2>1. Quiet  BY <1>1, WriteIsQuiet
  <2>2. Allowed'  BY <1>1, <2>1, WriteIsAllowed
  <2> QED  BY <2>1, <2>2, QuietKeeps
<1>2. CASE Claim(w)
  <2>1. CASE ClaimTaken(w) /\ ~MustAsk(worker[w].snap)
    BY <2>1, ClaimKeeps, ClaimIsAllowed DEF Ledger
  <2>2. CASE TurnedDown(w) /\ UNCHANGED <<item, claim, runs, granted, slip, used>>
    \* As if it had not been offered.
    <3>1. Refuse(w)  BY <1>2, <2>2 DEF Refuse, Claim
    <3> QED  BY <1>1, <3>1
  <2> QED  BY <1>2, <2>1, <2>2 DEF Claim, ClaimTaken, WithMine, Offerable, Assigned
<1>3. CASE CreateTask(w)
  <2>1. TypeOK' /\ Ledger' /\ (NothingNew \/ TaskCreated(w))
    BY <1>3, CreateKeeps DEF Ledger
  <2>2. Allowed'  BY <2>1, NothingNewIsAllowed, CreateIsAllowed
  <2> QED  BY <2>1, <2>2 DEF Ledger
<1>4. CASE MarkTask(w) \/ LinkTask(w) \/ Enqueue(w) \/ GiveBack(w)
  <2>1. TypeOK' /\ Ledger' /\ NothingNew
    BY <1>4, MarkKeeps, LinkKeeps, EnqueueKeeps, GiveBackKeeps DEF Ledger
  <2> QED  BY <2>1, NothingNewIsAllowed DEF Ledger
<1> QED  BY <1>1, <1>2, <1>3, <1>4 DEF Dispatch

LEMMA InvStep ==
    ASSUME Inv, [Next]_vars
    PROVE  Inv'
<1> USE DEF Inv
<1>1. ASSUME NEW w \in Worker, StartPoll(w) PROVE Inv'  BY <1>1, PollKeeps
<1>2. ASSUME NEW w \in Worker, UserStarts(w) PROVE Inv'
  <2>1. Quiet /\ item' = item  BY <1>2, StartIsQuiet
  <2>2. Without({"swapped"})' => MayAs(item)'
    BY <2>1 DEF Allowed, Without, Quiet, Aside, MayAs, May
  <2>3. Allowed'  BY <2>1, <2>2, AsideIsAllowed DEF Quiet
  <2> QED  BY <2>1, <2>3, QuietKeeps
<1>3. ASSUME NEW w \in Worker, WorkerStep(w) PROVE Inv'
  <2>1. CASE Reconcile(w) \/ Reread(w) \/ Settle(w) \/ List(w)  BY <2>1, PollKeeps
  <2>2. CASE Dispatch(w)  BY <2>2, DispatchKeeps
  <2>3. CASE \/ Patch(w) \/ Reset(w) \/ Fetch(w) \/ Allow(w) \/ Return(w) \/ Hold(w)
             \/ Load(w) \/ Save(w) \/ Reassign(w)
    <3>1. Quiet  BY <2>3, WriteIsQuiet
    <3>2. Allowed'  BY <2>3, <3>1, WriteIsAllowed
    <3> QED  BY <3>1, <3>2, QuietKeeps
  <2> QED  BY <1>3, <2>1, <2>2, <2>3 DEF WorkerStep
<1>4. ASSUME NEW k \in DOMAIN runs, ChainStep(k) \/ Stale(k) \/ CancelChain(k) PROVE Inv'
  <2>1. /\ TypeOK' /\ NothingNew
        /\ Claims' /\ Held' /\ FailedLate' /\ Current' /\ Numbered' /\ Capped'
    BY <1>4, ChainKeeps
  <2> QED  BY <2>1, NothingNewIsAllowed
<1>5. CASE Crash
  <2>1. Quiet /\ item' = item  BY <1>5, CrashIsQuiet
  <2>2. Without({"swapped"})' => MayAs(item)'
    BY <2>1 DEF Allowed, Without, Quiet, Aside, MayAs, May
  <2>3. Allowed'  BY <2>1, <2>2, AsideIsAllowed DEF Quiet
  <2> QED  BY <2>1, <2>3, QuietKeeps
<1>6. CASE UNCHANGED vars
  <2>1. Aside /\ Reading /\ Copies /\ ~Leaves
    BY <1>6, TypesAre DEF vars, Aside, Reading, Copies, Leaves
  <2>2. Quiet /\ item' = item  BY <1>6, <2>1 DEF Quiet, vars, TypeOK
  <2>3. Without({"swapped"})' => MayAs(item)'
    BY <2>2 DEF Allowed, Without, Quiet, Aside, MayAs, May
  <2>4. Allowed'  BY <2>2, <2>3, AsideIsAllowed DEF Quiet
  <2> QED  BY <2>2, <2>4, QuietKeeps
<1> QED  BY <1>1, <1>2, <1>3, <1>4, <1>5, <1>6 DEF Next

LEMMA InvStarts == Init => Inv
<1> SUFFICES ASSUME Init PROVE Inv  OBVIOUS
<1>1. PICK a \in Agent \cup {User} : item = [Fresh EXCEPT !.assignee = a]  BY DEF Init
<1>2. item \in Item /\ item.approved = NoRun  BY <1>1, IdleIs DEF Item
<1>3. /\ worker \in [Worker -> Work] /\ \A w \in Worker : worker[w] = Idle
      /\ Starting = {} /\ Making = {}
  BY IdleIs DEF Init, Starting, Making
<1>4. runs = <<>> /\ DOMAIN runs = {} /\ Chained = {}  BY DEF Init, Chained
<1>5. TypeOK  BY <1>2, <1>3, <1>4 DEF Init, TypeOK
<1>6. Claims /\ Held /\ FailedLate /\ Current /\ Numbered /\ Capped
  BY <1>3, <1>4, IdleIs DEF Claims, Held, FailedLate, Current, Numbered, Capped
<1>7. Allowed  BY <1>2, <1>3, <1>4, IdleIs DEF Allowed, MayAs
<1> QED  BY <1>5, <1>6, <1>7 DEF Inv

LEMMA InvHolds == Spec => []Inv
<1>1. Init => Inv  BY InvStarts
<1>2. Inv /\ [Next]_vars => Inv'  BY InvStep
<1> QED  BY <1>1, <1>2, PTL DEF Spec

\* The item, its runs and what each worker has read have their declared types, whatever
\* is interrupted or edited in between.
THEOREM TypesHold == Spec => []TypeOK
<1>1. Inv => TypeOK  BY DEF Inv
<1> QED  BY <1>1, InvHolds, PTL

\* An agent only works for the item's latest claim, while the item is in progress: two
\* polls, a poll and a request, or a failure reported late may interleave in any order,
\* as long as none of the named unguarded writes hits (item_dispatch.rs:17-20, 296-334).
THEOREM WorkIsCurrentHolds == Spec => []WorkIsCurrent
<1>1. Inv => WorkIsCurrent  BY DEF Inv, Current, WorkIsCurrent
<1> QED  BY <1>1, InvHolds, PTL

\* No run number has two chains, so no approval is used twice (item_dispatch.rs:14-18).
THEOREM NoRunTwiceHolds == Spec => []NoRunTwice
<1>1. Inv => NoRunTwice  BY DEF Inv, Numbered, NoRunTwice
<1> QED  BY <1>1, InvHolds, PTL

\* At most MaxRuns runs of an item get a chain, through however many hands it goes
\* (item_dispatch.rs:16, 36): their numbers are distinct and below the cap.
THEOREM RunsCappedHolds == Spec => []RunsCapped
<1>1. Inv => RunsCapped
  <2> SUFFICES ASSUME Inv, Without({"headless", "overtaken"})
               PROVE  Cardinality(Chained) <= MaxRuns
    BY DEF RunsCapped
  <2> DEFINE number == [k \in Chained |-> runs[k].number]
  <2>1. MaxRuns \in Nat  BY ItemAssumption
  <2>2. number \in [Chained -> 1..MaxRuns]  BY DEF Inv, Capped, Chained
  <2>3. \A k, l \in Chained : number[k] = number[l] => k = l  BY DEF Inv, Numbered
  <2>4. number \in Injection(Chained, 1..MaxRuns)
    BY <2>2, <2>3 DEF Injection, IsInjective
  <2>5. IsFiniteSet(1..MaxRuns) /\ Cardinality(1..MaxRuns) = MaxRuns
    BY <2>1, FS_Interval
  <2>6. Cardinality(Chained) <= Cardinality(1..MaxRuns)  BY <2>4, <2>5, FS_Injection
  <2> QED  BY <2>5, <2>6
<1> QED  BY <1>1, InvHolds, PTL

\* An agent that asks first has a chain only for a run number and an agent that the user
\* saw and approved together, although dispatch decides on a copy of the item
\* (item_dispatch.rs:12-15), as long as no assignee was swapped under an approval.
THEOREM ApprovedRunsHolds == Spec => []ApprovedRuns
<1>1. Inv => ApprovedRuns  BY DEF Inv, Allowed, May, ApprovedRuns, Chained
<1> QED  BY <1>1, InvHolds, PTL
=============================================================================
