---------------------------- MODULE BudgetProofs ----------------------------
(***************************************************************************)
(* A run overshoots a daily limit by one call, and the book says what the   *)
(* ledger says, for any number of runs, limits, rungs, rounds, crashes and  *)
(* failures.  While calls are being recorded the ledger is ahead of the     *)
(* book by just these calls (Agrees); so a restart never takes the book     *)
(* back behind a limit it had reached, and a run that has gone beyond one   *)
(* is refused before its next call (Over).                                 *)
(***************************************************************************)
EXTENDS Budget, FiniteSetTheorems, TLAPS

\* The calls whose row is written and that are not in the book yet: all, those that cost
\* something, and those of one model.
Rowed == {r \in Run : run[r].pc = "count" /\ run[r].kind # "embed"}
Priced == {r \in Rowed : Cost(r) = 1}
RowedOf(m) == {r \in Rowed : ModelOf(r) = m}

DayAgrees ==
    /\ ledger.requests = Today(book) + Cardinality(Rowed)
    /\ ledger.spend = SpentToday + Cardinality(Priced)
    /\ \A m \in Model : ledger.of[m] = Today(models[m]) + Cardinality(RowedOf(m))
MonthAgrees == ledger.spent = SpentMonth + Cardinality(Priced)

Agrees == ("day" \notin slip => DayAgrees) /\ ("month" \notin slip => MonthAgrees)

\* A call without its row is known to be; an embedding never gets one.
Lost == \A r \in Run : /\ run[r].pc = "lost" => slip = {"day", "month"}
                       /\ run[r].pc = "write" => run[r].kind # "embed"

\* The book has reached a daily limit.
Full ==
    /\ book.fresh
    /\ Reached(book.requests, Rpd) \/ (Paid /\ Reached(book.spend, DailyUsd))

\* Who has gone beyond it has no call under way.
Over == Paid => \A r \in Run : \/ beyond[r] = 0
                               \/ beyond[r] = 1 /\ Full /\ run[r].pc \in {"idle", "admit", "round"}

Inv == TypeOK /\ Lost /\ Agrees /\ Over

-----------------------------------------------------------------------------
(* Lemmas on the operators *)

LEMMA ModelOfRun == ASSUME TypeOK, NEW r \in Run PROVE ModelOf(r) \in Model
<1>1. run[r].rung \in 1..Len(Ladder)
  BY DEF TypeOK
<1>2. Ladder \in Seq(Model)
  BY BudgetAssumption
<1>3. QED
  BY <1>1, <1>2 DEF ModelOf

\* What a call adds to the book.
LEMMA CountedIs ==
    ASSUME TypeOK, NEW cost \in Nat
    PROVE  /\ Counted(cost) \in [fresh : BOOLEAN, requests : Nat, spend : Nat,
                                 month : BOOLEAN, spent : Nat, window : Nat]
           /\ Counted(cost).fresh /\ Counted(cost).month
           /\ Counted(cost).requests = Today(book) + 1
           /\ Counted(cost).spend = SpentToday + cost
           /\ Counted(cost).spent = SpentMonth + cost
<1>1. book \in [fresh : BOOLEAN, requests : Nat, spend : Nat, month : BOOLEAN, spent : Nat, window : Nat]
  BY DEF TypeOK
<1> DEFINE now == Rolled(book)
<1>2. now \in [fresh : BOOLEAN, requests : Nat, spend : Nat, month : BOOLEAN, spent : Nat, window : Nat]
  BY <1>1 DEF Rolled
<1>3. /\ now.fresh /\ now.month
      /\ now.requests = Today(book) /\ now.spend = SpentToday /\ now.spent = SpentMonth
  BY <1>1 DEF Rolled, Today, SpentToday, SpentMonth
<1>4. Counted(cost) = [now EXCEPT !.requests = @ + 1, !.spend = @ + cost, !.spent = @ + cost,
                                  !.window = @ + 1]
  BY DEF Counted
<1> HIDE DEF now
<1>5. /\ now.requests + 1 \in Nat /\ now.spend + cost \in Nat /\ now.spent + cost \in Nat
      /\ now.window + 1 \in Nat
  BY <1>2
<1>6. Counted(cost) = [fresh |-> now.fresh, requests |-> now.requests + 1, spend |-> now.spend + cost,
                       month |-> now.month, spent |-> now.spent + cost, window |-> now.window + 1]
  BY <1>2, <1>4
<1>7. QED
  BY <1>2, <1>3, <1>5, <1>6

LEMMA CostIs == ASSUME NEW r \in Run PROVE Cost(r) \in {0, 1}
BY BudgetAssumption DEF Cost

LEMMA LongerIs ==
    ASSUME TypeOK, NEW m \in Model, NEW minutes \in Nat
    PROVE  Longer(m, minutes) \in Nat
BY DEF TypeOK, Longer

LEMMA EndedIs ==
    ASSUME TypeOK, NEW m \in Model, NEW out \in Outcome, NEW minutes \in Nat
    PROVE  /\ Ended(m, out, minutes) \in [fresh : BOOLEAN, requests : Nat, wait : Nat, step : 0..Len(Backoff)]
           /\ Today(Ended(m, out, minutes)) = Today(models[m]) + 1
<1>1. models[m] \in [fresh : BOOLEAN, requests : Nat, wait : Nat, step : 0..Len(Backoff)]
  BY DEF TypeOK
<1>2. Longer(m, minutes) \in Nat
  BY LongerIs
<1>3. Len(Backoff) \in Nat
  BY BudgetAssumption
<1>4. StepAfter(m) \in 0..Len(Backoff)
  BY <1>1, <1>3 DEF StepAfter
<1> DEFINE step == CASE out = "ok" -> 0
                     [] out \in {"limited", "account"} -> StepAfter(m)
                     [] OTHER -> models[m].step
<1>5. step \in 0..Len(Backoff)
  BY <1>1, <1>3, <1>4
<1>6. Ended(m, out, minutes) =
        [fresh |-> TRUE, requests |-> (IF models[m].fresh THEN models[m].requests ELSE 0) + 1,
         wait |-> Longer(m, minutes), step |-> step]
  BY DEF Ended
<1> HIDE DEF step
<1>7. QED
  BY <1>1, <1>2, <1>5, <1>6 DEF Today

\* A limit that is reached stays reached by more.
LEMMA ReachedMore ==
    ASSUME NEW a \in Nat, NEW b \in Nat, a <= b, NEW limit \in Limit, Reached(a, limit)
    PROVE  Reached(b, limit)
BY BudgetAssumption DEF Reached, Limit

\* A full book refuses everybody.
LEMMA FullRefuses == ASSUME TypeOK, Full, NEW m \in Model PROVE ~Verdict(m)
BY DEF Full, Verdict, Today, SpentToday

LEMMA RowedFinite ==
    /\ IsFiniteSet(Rowed) /\ IsFiniteSet(Priced) /\ \A m : IsFiniteSet(RowedOf(m))
    /\ Cardinality(Rowed) \in Nat /\ Cardinality(Priced) \in Nat
    /\ \A m : Cardinality(RowedOf(m)) \in Nat
<1>1. IsFiniteSet(Run)
  BY BudgetAssumption
<1>2. IsFiniteSet(Rowed)
  BY <1>1, FS_Subset DEF Rowed
<1>3. IsFiniteSet(Priced) /\ \A m : IsFiniteSet(RowedOf(m))
  BY <1>2, FS_Subset DEF Priced, RowedOf
<1>4. QED
  BY <1>2, <1>3, FS_CardinalityType

-----------------------------------------------------------------------------
(* Steps of a run that count nothing *)

RunType == [pc : {"idle", "admit", "round", "call", "write", "count", "lost"},
            kind : Kind, rung : 1..Len(Ladder), round : Nat, out : Outcome]

Counting(x) == x.pc = "count" /\ x.kind # "embed"

\* The calls that wait for the book are the same when r neither becomes nor was one.
LEMMA SameRows ==
    ASSUME TypeOK, NEW r \in Run, NEW x \in RunType, run' = [run EXCEPT ![r] = x],
           ~Counting(run[r]), ~Counting(x)
    PROVE  Rowed' = Rowed /\ Priced' = Priced /\ \A m \in Model : RowedOf(m)' = RowedOf(m)
<1>1. run \in [Run -> RunType]
  BY DEF TypeOK, RunType
<1>2. \A q \in Run : run'[q] = IF q = r THEN x ELSE run[q]
  BY <1>1
<1>3. Rowed' = Rowed
  BY <1>2 DEF Rowed, Counting
<1>4. \A q \in Rowed : q # r /\ q \in Run
  BY DEF Rowed, Counting
<1>5. \A q \in Rowed : run'[q] = run[q]
  BY <1>2, <1>4
<1>6. Priced' = Priced
  BY <1>3, <1>5 DEF Priced, Cost
<1>7. ASSUME NEW m \in Model PROVE RowedOf(m)' = RowedOf(m)
  BY <1>3, <1>5 DEF RowedOf, ModelOf
<1>8. QED
  BY <1>3, <1>6, <1>7

LEMMA QuietKeeps ==
    ASSUME Inv, NEW r \in Run, NEW x \in RunType, run' = [run EXCEPT ![r] = x],
           ~Counting(run[r]), ~Counting(x), x.pc # "lost", x.pc = "write" => x.kind # "embed",
           Paid /\ beyond[r] = 1 /\ Full => x.pc \in {"idle", "admit", "round"},
           UNCHANGED <<minute, day, book, bench, ledger, beyond, slip, harm>>,
           models' \in [Model -> [fresh : BOOLEAN, requests : Nat, wait : Nat, step : 0..Len(Backoff)]],
           \A m \in Model : Today(models'[m]) = Today(models[m])
    PROVE  Inv'
<1>1. run \in [Run -> RunType]
  BY DEF Inv, TypeOK, RunType
<1>2. \A q \in Run : run'[q] = IF q = r THEN x ELSE run[q]
  BY <1>1
<1>3. run' \in [Run -> RunType]
  BY <1>1
<1>4. TypeOK'
  BY <1>3 DEF Inv, TypeOK, RunType
<1>5. Lost'
  BY <1>2 DEF Inv, Lost
<1>6. Rowed' = Rowed /\ Priced' = Priced /\ \A m \in Model : RowedOf(m)' = RowedOf(m)
  BY SameRows DEF Inv
<1>7. Agrees'
  <2>1. "day" \notin slip => DayAgrees'
    <3>1. SUFFICES ASSUME DayAgrees PROVE DayAgrees'
      BY DEF Inv, Agrees
    <3>2. Today(book)' = Today(book) /\ SpentToday' = SpentToday
      BY DEF Today, SpentToday
    <3>3. \A m \in Model : Today(models[m])' = Today(models[m])
      BY DEF Today
    <3>4. QED
      BY <1>6, <3>1, <3>2, <3>3 DEF DayAgrees
  <2>2. "month" \notin slip => MonthAgrees'
    BY <1>6 DEF Inv, Agrees, MonthAgrees, SpentMonth
  <2>3. QED
    BY <2>1, <2>2 DEF Agrees
<1>8. Over'
  <2>1. Full' <=> Full
    BY DEF Full
  <2>2. QED
    BY <1>2, <2>1 DEF Inv, Over
<1>9. QED
  BY <1>4, <1>5, <1>7, <1>8 DEF Inv

\* Done and NextRung.
LEMMA RestTyped ==
    /\ Idle \in RunType /\ Idle.pc = "idle"
    /\ \A r \in Run : TypeOK /\ NextRung(r) =>
          \E x \in RunType : x.pc \in {"idle", "admit"} /\ run' = [run EXCEPT ![r] = x]
<1>1. Len(Ladder) \in Nat /\ Len(Ladder) > 0
  BY BudgetAssumption
<1>2. Idle \in RunType /\ Idle.pc = "idle"
  BY <1>1 DEF Idle, RunType, Kind, Outcome
<1>3. ASSUME NEW r \in Run, TypeOK, NextRung(r)
      PROVE  \E x \in RunType : x.pc \in {"idle", "admit"} /\ run' = [run EXCEPT ![r] = x]
  <2>1. run[r] \in RunType
    BY <1>3 DEF TypeOK, RunType
  <2>2. CASE run[r].kind = "generate" /\ run[r].rung < Len(Ladder)
    <3> DEFINE x == [run[r] EXCEPT !.rung = @ + 1, !.pc = "admit", !.out = "ok"]
    <3>1. x \in RunType /\ x.pc = "admit"
      <4>1. run[r].rung + 1 \in 1..Len(Ladder)
        BY <1>1, <2>1, <2>2 DEF RunType
      <4>2. QED
        BY <2>1, <4>1 DEF RunType, Outcome
    <3>2. run' = [run EXCEPT ![r] = x]
      BY <1>3, <2>2 DEF NextRung, Set
    <3>3. QED
      BY <3>1, <3>2
  <2>3. CASE ~(run[r].kind = "generate" /\ run[r].rung < Len(Ladder))
    BY <1>2, <1>3, <2>3 DEF NextRung, Done, Set
  <2>4. QED
    BY <2>2, <2>3
<1>4. QED
  BY <1>2, <1>3

LEMMA StartsKeep ==
    ASSUME Inv, NEW r \in Run, Begin(r) \/ Admit(r) \/ Round(r) \/ Drop(r)
    PROVE  Inv'
<1>1. run[r] \in RunType
  BY DEF Inv, TypeOK, RunType
<1>2. \A m \in Model : Today(models'[m]) = Today(models[m])
  BY DEF Begin, Admit, Round, Drop
<1>3. UNCHANGED <<minute, day, book, models, bench, ledger, beyond, slip, harm>>
  BY DEF Begin, Admit, Round, Drop
<1>4. ModelOf(r) \in Model
  BY ModelOfRun DEF Inv
<1>5. SUFFICES ASSUME ~Counting(run[r])
               PROVE  \E x \in RunType :
                          /\ run' = [run EXCEPT ![r] = x]
                          /\ x.pc \notin {"count", "write", "lost"}
                          /\ Paid /\ beyond[r] = 1 /\ Full => x.pc \in {"idle", "admit", "round"}
  <2>1. ~Counting(run[r])
    BY DEF Begin, Admit, Round, Drop, Counting
  <2>2. models' \in [Model -> [fresh : BOOLEAN, requests : Nat, wait : Nat, step : 0..Len(Backoff)]]
    BY <1>3 DEF Inv, TypeOK
  <2>3. QED
    BY <1>2, <1>3, <1>5, <2>1, <2>2, QuietKeeps DEF Counting
<1>6. CASE Begin(r)
  <2>1. PICK kind \in Kinds[r] : run' = [run EXCEPT ![r] = [Idle EXCEPT !.pc = "admit", !.kind = kind]]
    BY <1>6 DEF Begin, Set
  <2>2. kind \in Kind
    BY BudgetAssumption DEF Kind
  <2>3. [Idle EXCEPT !.pc = "admit", !.kind = kind] \in RunType
    BY <2>2, RestTyped DEF RunType
  <2>4. QED
    BY <2>1, <2>3, RestTyped DEF RunType
<1>7. CASE Admit(r)
  <2>1. CASE Verdict(ModelOf(r))
    <3>1. ~Full
      BY <1>4, <2>1, FullRefuses DEF Inv
    <3>2. PICK pc \in {"round", "call"} : run' = [run EXCEPT ![r] = [run[r] EXCEPT !.pc = pc]]
      BY <1>7, <2>1 DEF Admit, Go, Set
    <3>3. [run[r] EXCEPT !.pc = pc] \in RunType /\ [run[r] EXCEPT !.pc = pc].pc = pc
      BY <1>1, <3>2 DEF RunType
    <3>4. QED
      BY <3>1, <3>2, <3>3
  <2>2. CASE ~Verdict(ModelOf(r))
    BY <1>7, <2>2, RestTyped DEF Admit, Inv
  <2>3. QED
    BY <2>1, <2>2
<1>8. CASE Round(r)
  <2>1. CASE Refused(r)
    BY <1>8, <2>1, RestTyped DEF Round, Done, Set
  <2>2. CASE ~Refused(r)
    <3>1. ~(Paid /\ Full)
      BY <1>4, <2>2, FullRefuses DEF Inv, Refused
    <3> DEFINE x == [run[r] EXCEPT !.pc = "call", !.round = @ + 1]
    <3>2. run' = [run EXCEPT ![r] = x]
      BY <1>8, <2>2 DEF Round, Set
    <3>3. x \in RunType /\ x.pc = "call"
      <4>1. run[r].round + 1 \in Nat
        BY <1>1 DEF RunType
      <4>2. QED
        BY <1>1, <4>1 DEF RunType
    <3>4. QED
      BY <3>1, <3>2, <3>3
  <2>3. QED
    BY <2>1, <2>2
<1>9. CASE Drop(r)
  BY <1>9, RestTyped DEF Drop, Done, Set
<1>10. QED
  BY <1>6, <1>7, <1>8, <1>9

LEMMA AnswerKeeps ==
    ASSUME Inv, NEW r \in Run, NEW out \in Ends, Answer(r, out)
    PROVE  Inv'
<1>1. TypeOK /\ run[r] \in RunType /\ run[r].pc = "call" /\ out \in Outcome
  BY BudgetAssumption DEF Inv, TypeOK, RunType, Answer, Outcome
<1> DEFINE m == ModelOf(r)
<1>2. m \in Model
  BY <1>1, ModelOfRun
<1> HIDE DEF m
<1>3. PICK minutes \in {0} \cup Hints : models' = [models EXCEPT ![m].wait = Longer(m, minutes)]
  BY DEF Answer, m
<1>4. Longer(m, minutes) \in Nat
  BY <1>1, <1>2, LongerIs, BudgetAssumption
<1>5. /\ models' \in [Model -> [fresh : BOOLEAN, requests : Nat, wait : Nat, step : 0..Len(Backoff)]]
      /\ \A o \in Model : Today(models'[o]) = Today(models[o])
  <2>1. models \in [Model -> [fresh : BOOLEAN, requests : Nat, wait : Nat, step : 0..Len(Backoff)]]
    BY <1>1 DEF TypeOK
  <2> DEFINE new == [models[m] EXCEPT !.wait = Longer(m, minutes)]
  <2>2. models' = [models EXCEPT ![m] = new]
    BY <1>3
  <2>3. /\ new \in [fresh : BOOLEAN, requests : Nat, wait : Nat, step : 0..Len(Backoff)]
        /\ new.fresh = models[m].fresh /\ new.requests = models[m].requests
    BY <1>2, <1>4, <2>1
  <2> HIDE DEF new
  <2>4. \A o \in Model : models'[o] = IF o = m THEN new ELSE models[o]
    BY <2>1, <2>2
  <2>5. \A o \in Model : Today(models'[o]) = Today(models[o])
    BY <2>3, <2>4 DEF Today
  <2>6. QED
    BY <1>2, <2>1, <2>2, <2>3, <2>5
<1>6. Paid => beyond[r] = 0
  BY <1>1 DEF Inv, Over
<1>7. \E x \in RunType : /\ run' = [run EXCEPT ![r] = x]
                         /\ ~Counting(x) /\ x.pc # "lost"
                         /\ x.pc = "write" => x.kind # "embed"
  <2>1. CASE run[r].kind = "embed" /\ out = "ok"
    <3> DEFINE x == [run[r] EXCEPT !.pc = "count", !.out = out]
    <3>1. x \in RunType /\ x.pc = "count" /\ x.kind = "embed"
      BY <1>1, <2>1 DEF RunType
    <3>2. run' = [run EXCEPT ![r] = x]
      BY <2>1 DEF Answer, Set
    <3>3. QED
      BY <3>1, <3>2 DEF Counting
  <2>2. CASE run[r].kind = "embed" /\ out # "ok"
    BY <2>2, RestTyped DEF Answer, Done, Set, Counting
  <2>3. CASE run[r].kind # "embed"
    <3> DEFINE x == [run[r] EXCEPT !.pc = "write", !.out = out]
    <3>1. x \in RunType /\ x.pc = "write" /\ x.kind # "embed"
      BY <1>1, <2>3 DEF RunType
    <3>2. run' = [run EXCEPT ![r] = x]
      BY <2>3 DEF Answer, Set
    <3>3. QED
      BY <3>1, <3>2 DEF Counting
  <2>4. QED
    BY <2>1, <2>2, <2>3
<1>8. ~Counting(run[r])
  BY <1>1 DEF Counting
<1>9. UNCHANGED <<minute, day, book, bench, ledger, beyond, slip, harm>>
  BY DEF Answer
<1>10. PICK x \in RunType : /\ run' = [run EXCEPT ![r] = x]
                            /\ ~Counting(x) /\ x.pc # "lost"
                            /\ x.pc = "write" => x.kind # "embed"
  BY <1>7
<1>11. ~(Paid /\ beyond[r] = 1 /\ Full)
  BY <1>6
<1>12. QED
  BY <1>5, <1>8, <1>9, <1>10, <1>11, QuietKeeps

-----------------------------------------------------------------------------
(* Rows that are written, and calls that are counted *)

\* r's call is among those that wait for the book.
LEMMA RowAdded ==
    ASSUME TypeOK, NEW r \in Run, run[r].pc # "count", run[r].kind # "embed",
           run' = [run EXCEPT ![r] = [run[r] EXCEPT !.pc = "count"]]
    PROVE  /\ Cardinality(Rowed)' = Cardinality(Rowed) + 1
           /\ Cardinality(Priced)' = Cardinality(Priced) + Cost(r)
           /\ \A m \in Model : Cardinality(RowedOf(m))' =
                  Cardinality(RowedOf(m)) + (IF m = ModelOf(r) THEN 1 ELSE 0)
<1>1. run[r] \in RunType /\ run \in [Run -> RunType]
  BY DEF TypeOK, RunType
<1>2. /\ \A q \in Run : q # r => run'[q] = run[q]
      /\ run'[r].pc = "count" /\ run'[r].kind = run[r].kind
      /\ run'[r].out = run[r].out /\ run'[r].rung = run[r].rung
  BY <1>1 DEF RunType
<1>3. r \notin Rowed /\ Rowed' = Rowed \cup {r}
  BY <1>2 DEF Rowed
<1>4. \A q \in Run : Cost(q)' = Cost(q) /\ ModelOf(q)' = ModelOf(q)
  BY <1>2 DEF Cost, ModelOf
<1>5. Rowed \subseteq Run
  BY DEF Rowed
<1>6. /\ r \notin Priced
      /\ Priced' = IF Cost(r) = 1 THEN Priced \cup {r} ELSE Priced
  BY <1>3, <1>4, <1>5 DEF Priced
<1>7. ASSUME NEW m \in Model
      PROVE  /\ r \notin RowedOf(m)
             /\ RowedOf(m)' = IF m = ModelOf(r) THEN RowedOf(m) \cup {r} ELSE RowedOf(m)
  BY <1>3, <1>4, <1>5 DEF RowedOf
<1>8. ASSUME NEW S, IsFiniteSet(S), r \notin S PROVE Cardinality(S \cup {r}) = Cardinality(S) + 1
  BY <1>8, FS_AddElement
<1>9. Cardinality(Rowed') = Cardinality(Rowed) + 1
  BY <1>3, <1>8, RowedFinite
<1>10. Cardinality(Priced') = Cardinality(Priced) + Cost(r)
  BY <1>6, <1>8, RowedFinite, CostIs
<1>11. ASSUME NEW m \in Model
       PROVE  Cardinality(RowedOf(m)') = Cardinality(RowedOf(m)) + (IF m = ModelOf(r) THEN 1 ELSE 0)
  BY <1>7, <1>8, RowedFinite
<1>12. QED
  BY <1>9, <1>10, <1>11

LEMMA RowGone ==
    ASSUME TypeOK, NEW r \in Run, Counting(run[r]), NEW x \in RunType, ~Counting(x),
           run' = [run EXCEPT ![r] = x]
    PROVE  /\ Cardinality(Rowed) = Cardinality(Rowed)' + 1
           /\ Cardinality(Priced) = Cardinality(Priced)' + Cost(r)
           /\ \A m \in Model : Cardinality(RowedOf(m)) =
                  Cardinality(RowedOf(m))' + (IF m = ModelOf(r) THEN 1 ELSE 0)
           /\ Cardinality(Rowed)' \in Nat /\ Cardinality(Priced)' \in Nat
           /\ \A m \in Model : Cardinality(RowedOf(m))' \in Nat
<1>1. run \in [Run -> RunType]
  BY DEF TypeOK, RunType
<1>2. \A q \in Run : run'[q] = IF q = r THEN x ELSE run[q]
  BY <1>1
<1>3. r \in Rowed /\ Rowed' = Rowed \ {r}
  BY <1>2 DEF Rowed, Counting
<1>4. \A q \in Run : q # r => Cost(q)' = Cost(q) /\ ModelOf(q)' = ModelOf(q)
  BY <1>2 DEF Cost, ModelOf
<1>5. Rowed \subseteq Run
  BY DEF Rowed
<1>6. /\ r \in Priced <=> Cost(r) = 1
      /\ Priced' = Priced \ {r}
  BY <1>3, <1>4, <1>5 DEF Priced
<1>7. ASSUME NEW m \in Model
      PROVE  /\ r \in RowedOf(m) <=> m = ModelOf(r)
             /\ RowedOf(m)' = RowedOf(m) \ {r}
  BY <1>3, <1>4, <1>5 DEF RowedOf
<1>8. ASSUME NEW S, IsFiniteSet(S)
      PROVE  /\ Cardinality(S \ {r}) \in Nat
             /\ Cardinality(S) = Cardinality(S \ {r}) + (IF r \in S THEN 1 ELSE 0)
  <2>1. CASE r \in S
    BY <1>8, <2>1, FS_RemoveElement, FS_CardinalityType, FS_Subset
  <2>2. CASE r \notin S
    BY <1>8, <2>2, FS_RemoveElement, FS_CardinalityType
  <2>3. QED
    BY <2>1, <2>2
<1>9. Cardinality(Rowed') \in Nat /\ Cardinality(Rowed) = Cardinality(Rowed') + 1
  BY <1>3, <1>8, RowedFinite
<1>10. Cardinality(Priced') \in Nat /\ Cardinality(Priced) = Cardinality(Priced') + Cost(r)
  BY <1>6, <1>8, RowedFinite, CostIs
<1>11. ASSUME NEW m \in Model
       PROVE  /\ Cardinality(RowedOf(m)') \in Nat
              /\ Cardinality(RowedOf(m)) = Cardinality(RowedOf(m)') + (IF m = ModelOf(r) THEN 1 ELSE 0)
  BY <1>7, <1>8, RowedFinite
<1>12. QED
  BY <1>9, <1>10, <1>11

\* A run whose call is under way has no call beyond a limit.
LEMMA NotOver ==
    ASSUME Inv, NEW r \in Run, run[r].pc \in {"call", "write", "count", "lost"}
    PROVE  Paid => beyond[r] = 0
BY DEF Inv, Over

LEMMA WriteKeeps == ASSUME Inv, NEW r \in Run, Write(r) PROVE Inv'
<1>1. run[r] \in RunType /\ run \in [Run -> RunType] /\ TypeOK
  BY DEF Inv, TypeOK, RunType
<1>2. run[r].pc = "write" /\ run[r].kind # "embed"
  BY DEF Inv, Lost, Write
<1> DEFINE x == [run[r] EXCEPT !.pc = "count"]
<1>3. x \in RunType /\ x.pc = "count"
  BY <1>1 DEF RunType
<1>4. run' = [run EXCEPT ![r] = x]
  BY DEF Write, Go, Set
<1>5. \A q \in Run : run'[q] = IF q = r THEN x ELSE run[q]
  BY <1>1, <1>4
<1>6. ModelOf(r) \in Model /\ Cost(r) \in Nat
  BY <1>1, ModelOfRun, CostIs
<1>7. /\ ledger' \in [requests : Nat, spend : Nat, spent : Nat, of : [Model -> Nat]]
      /\ ledger'.requests = ledger.requests + 1
      /\ ledger'.spend = ledger.spend + Cost(r)
      /\ ledger'.spent = ledger.spent + Cost(r)
      /\ \A m \in Model : ledger'.of[m] = ledger.of[m] + (IF m = ModelOf(r) THEN 1 ELSE 0)
  <2>1. /\ ledger.requests \in Nat /\ ledger.spend \in Nat /\ ledger.spent \in Nat
        /\ ledger.of \in [Model -> Nat]
    BY <1>1 DEF TypeOK
  <2> DEFINE of == [ledger.of EXCEPT ![ModelOf(r)] = @ + 1]
  <2>2. /\ of \in [Model -> Nat]
        /\ \A m \in Model : of[m] = ledger.of[m] + (IF m = ModelOf(r) THEN 1 ELSE 0)
    BY <1>6, <2>1
  <2>3. ledger' = [requests |-> ledger.requests + 1, spend |-> ledger.spend + Cost(r),
                   spent |-> ledger.spent + Cost(r), of |-> of]
    BY DEF Write
  <2> HIDE DEF of
  <2>4. /\ ledger.requests + 1 \in Nat /\ ledger.spend + Cost(r) \in Nat
        /\ ledger.spent + Cost(r) \in Nat
    BY <1>6, <2>1
  <2>5. QED
    BY <2>2, <2>3, <2>4
<1>8. UNCHANGED <<minute, day, book, models, bench, beyond, slip, harm>>
  BY DEF Write
<1>9. TypeOK'
  <2>1. run' \in [Run -> RunType]
    BY <1>1, <1>3, <1>4
  <2>2. QED
    BY <1>1, <1>7, <1>8, <2>1 DEF TypeOK, RunType
<1>10. Lost'
  BY <1>3, <1>5, <1>8 DEF Inv, Lost
<1>11. Agrees'
  <2>1. /\ Cardinality(Rowed)' = Cardinality(Rowed) + 1
        /\ Cardinality(Priced)' = Cardinality(Priced) + Cost(r)
        /\ \A m \in Model : Cardinality(RowedOf(m))' =
               Cardinality(RowedOf(m)) + (IF m = ModelOf(r) THEN 1 ELSE 0)
    BY <1>1, <1>2, <1>4, RowAdded
  <2>2. /\ Today(book) \in Nat /\ SpentToday \in Nat /\ SpentMonth \in Nat
        /\ \A m \in Model : Today(models[m]) \in Nat
    BY <1>1 DEF TypeOK, Today, SpentToday, SpentMonth
  <2>3. "day" \notin slip' => DayAgrees'
    <3>1. SUFFICES ASSUME DayAgrees PROVE DayAgrees'
      BY <1>8 DEF Inv, Agrees
    <3>2. UNCHANGED <<Today(book), SpentToday>> /\ \A m \in Model : Today(models[m])' = Today(models[m])
      BY <1>8 DEF Today, SpentToday
    <3>3. ledger'.requests = Today(book)' + Cardinality(Rowed)'
      BY <1>7, <2>1, <2>2, <3>1, <3>2, RowedFinite DEF DayAgrees
    <3>4. ledger'.spend = SpentToday' + Cardinality(Priced)'
      BY <1>6, <1>7, <2>1, <2>2, <3>1, <3>2, RowedFinite DEF DayAgrees
    <3>5. ASSUME NEW m \in Model
          PROVE  ledger'.of[m] = Today(models[m])' + Cardinality(RowedOf(m))'
      <4>1. ledger.of[m] = Today(models[m]) + Cardinality(RowedOf(m))
        BY <3>1 DEF DayAgrees
      <4>2. QED
        BY <1>7, <2>1, <2>2, <3>2, <4>1, RowedFinite
    <3>6. QED
      BY <3>3, <3>4, <3>5 DEF DayAgrees
  <2>4. "month" \notin slip' => MonthAgrees'
    <3>1. UNCHANGED SpentMonth
      BY <1>8 DEF SpentMonth
    <3>2. QED
      BY <1>6, <1>7, <1>8, <2>1, <2>2, <3>1, RowedFinite DEF Inv, Agrees, MonthAgrees
  <2>5. QED
    BY <2>3, <2>4 DEF Agrees
<1>12. Over'
  <2>1. Full' <=> Full
    BY <1>8 DEF Full
  <2>2. QED
    BY <1>2, <1>5, <1>8, <2>1, NotOver DEF Inv, Over
<1>13. QED
  BY <1>9, <1>10, <1>11, <1>12 DEF Inv

LEMMA WriteFailsKeeps == ASSUME Inv, NEW r \in Run, WriteFails(r) PROVE Inv'
<1>1. run[r] \in RunType /\ run \in [Run -> RunType] /\ TypeOK
  BY DEF Inv, TypeOK, RunType
<1> DEFINE x == [run[r] EXCEPT !.pc = "lost"]
<1>2. x \in RunType /\ x.pc = "lost" /\ run' = [run EXCEPT ![r] = x]
  BY <1>1 DEF WriteFails, Go, Set, RunType
<1>3. run' \in [Run -> RunType] /\ \A q \in Run : run'[q] = IF q = r THEN x ELSE run[q]
  BY <1>1, <1>2
<1>4. slip' = {"day", "month"} /\ UNCHANGED <<minute, day, book, models, bench, ledger, beyond>>
  BY DEF WriteFails
<1>5. harm' \in 0..Harm
  BY <1>1, BudgetAssumption DEF WriteFails, TypeOK
<1>6. TypeOK'
  BY <1>1, <1>3, <1>4, <1>5 DEF TypeOK, RunType
<1>7. Lost'
  BY <1>2, <1>3, <1>4 DEF Inv, Lost
<1>8. Agrees'
  BY <1>4 DEF Agrees
<1>9. Over'
  <2>1. Full' <=> Full
    BY <1>4 DEF Full
  <2>2. Paid => beyond[r] = 0
    BY NotOver DEF WriteFails
  <2>3. QED
    BY <1>3, <1>4, <2>1, <2>2 DEF Inv, Over
<1>10. QED
  BY <1>6, <1>7, <1>8, <1>9 DEF Inv

LEMMA CountKeeps == ASSUME Inv, NEW r \in Run, Count(r) PROVE Inv'
<1> DEFINE out == run[r].out
<1> DEFINE m == ModelOf(r)
<1>1. TypeOK /\ run[r] \in RunType /\ run \in [Run -> RunType] /\ out \in Outcome
  BY DEF Inv, TypeOK, RunType
<1>2. m \in Model /\ Cost(r) \in {0, 1}
  BY <1>1, ModelOfRun, CostIs
<1>3. PICK cost \in {0, Cost(r)} :
        /\ book' = Counted(cost)
        /\ run[r].pc = "count" => cost = Cost(r)
  BY DEF Count
<1>4. /\ book' \in [fresh : BOOLEAN, requests : Nat, spend : Nat,
                    month : BOOLEAN, spent : Nat, window : Nat]
      /\ book'.fresh /\ book'.month
      /\ book'.requests = Today(book) + 1
      /\ book'.spend = SpentToday + cost
      /\ book'.spent = SpentMonth + cost
  <2>1. cost \in Nat /\ book' = Counted(cost)
    BY <1>2, <1>3
  <2>2. QED
    BY <1>1, <2>1, CountedIs
<1>5. PICK minutes \in {BackoffOf(m)} \cup Hints \cup {0, 1} :
        models' = [models EXCEPT ![m] = Ended(m, out, minutes)]
  BY DEF Count
<1>6. minutes \in Nat
  <2>1. Backoff \in Seq(Nat \ {0}) /\ Len(Backoff) > 0 /\ Hints \subseteq Nat
    BY BudgetAssumption
  <2>2. models[m].step \in 0..Len(Backoff)
    BY <1>1, <1>2 DEF TypeOK
  <2>3. BackoffOf(m) \in Nat
    <3> DEFINE i == IF models[m].step < Len(Backoff) THEN models[m].step + 1 ELSE Len(Backoff)
    <3>1. i \in 1..Len(Backoff)
      BY <2>1, <2>2
    <3> HIDE DEF i
    <3>2. Backoff[i] \in Nat \ {0}
      BY <2>1, <3>1
    <3>3. BackoffOf(m) = Backoff[i]
      BY DEF BackoffOf, i
    <3>4. QED
      BY <3>2, <3>3
  <2> DEFINE wait == BackoffOf(m)
  <2>4. minutes \in {wait, 0, 1} \cup Hints
    OBVIOUS
  <2>5. wait \in Nat /\ Hints \subseteq Nat
    BY <2>1, <2>3
  <2> HIDE DEF wait
  <2>6. QED
    BY <2>4, <2>5
<1>7. /\ models' \in [Model -> [fresh : BOOLEAN, requests : Nat, wait : Nat, step : 0..Len(Backoff)]]
      /\ \A o \in Model : Today(models'[o]) = Today(models[o]) + (IF o = m THEN 1 ELSE 0)
  <2>1. /\ Ended(m, out, minutes) \in [fresh : BOOLEAN, requests : Nat, wait : Nat, step : 0..Len(Backoff)]
        /\ Today(Ended(m, out, minutes)) = Today(models[m]) + 1
    BY <1>1, <1>2, <1>6, EndedIs
  <2>2. models \in [Model -> [fresh : BOOLEAN, requests : Nat, wait : Nat, step : 0..Len(Backoff)]]
    BY <1>1 DEF TypeOK
  <2>3. \A o \in Model : Today(models[o]) \in Nat
    BY <2>2 DEF Today
  <2>4. \A o \in Model : models'[o] = IF o = m THEN Ended(m, out, minutes) ELSE models[o]
    BY <1>5, <2>2
  <2>5. QED
    BY <1>2, <1>5, <2>1, <2>2, <2>3, <2>4
<1>8. \E x \in RunType : x.pc \in {"idle", "admit", "round"} /\ run' = [run EXCEPT ![r] = x]
  <2>1. CASE Go(r, "round")
    <3>1. [run[r] EXCEPT !.pc = "round"] \in RunType /\ [run[r] EXCEPT !.pc = "round"].pc = "round"
      BY <1>1 DEF RunType
    <3>2. QED
      BY <2>1, <3>1 DEF Go, Set
  <2>2. CASE Done(r)
    BY <2>2, RestTyped DEF Done, Set
  <2>3. CASE NextRung(r)
    BY <1>1, <2>3, RestTyped
  <2>4. QED
    BY <2>1, <2>2, <2>3 DEF Count
<1>9. PICK x \in RunType : x.pc \in {"idle", "admit", "round"} /\ run' = [run EXCEPT ![r] = x]
  BY <1>8
<1>10. run' \in [Run -> RunType] /\ \A q \in Run : run'[q] = IF q = r THEN x ELSE run[q]
  BY <1>1, <1>9
<1>11. /\ UNCHANGED <<minute, day, ledger, harm>>
       /\ bench' = IF out = "ok" THEN 0 ELSE IF out = "account" /\ bench < Hour THEN Hour ELSE bench
       /\ beyond' = [beyond EXCEPT ![r] = IF OutOfDay THEN @ + 1 ELSE @]
       /\ slip' = IF run[r].kind = "embed" THEN {"day", "month"} ELSE slip
       /\ run[r].pc \in {"count", "lost"}
  BY DEF Count
<1> HIDE DEF out, m
<1>12. TypeOK'
  <2>1. bench' \in 0..Hour
    BY <1>1, <1>11, BudgetAssumption DEF TypeOK
  <2>2. beyond' \in [Run -> Nat] /\ slip' \subseteq {"day", "month"}
    <3>1. beyond \in [Run -> Nat] /\ slip \subseteq {"day", "month"}
      BY <1>1 DEF TypeOK
    <3>2. slip' \subseteq {"day", "month"}
      BY <1>11, <3>1
    <3>3. beyond[r] + 1 \in Nat
      BY <3>1
    <3>4. beyond' = beyond \/ beyond' = [beyond EXCEPT ![r] = beyond[r] + 1]
      BY <1>11, <3>1
    <3>5. QED
      BY <3>1, <3>2, <3>3, <3>4
  <2>3. QED
    BY <1>1, <1>4, <1>7, <1>10, <1>11, <2>1, <2>2 DEF TypeOK, RunType
<1>13. Lost'
  BY <1>9, <1>10, <1>11 DEF Inv, Lost
<1>14. Agrees'
  <2>1. SUFFICES ASSUME slip' # {"day", "month"} PROVE Agrees'
    <3>1. CASE slip' = {"day", "month"}
      BY <3>1 DEF Agrees
    <3>2. QED
      BY <2>1, <3>1
  <2>2. slip' = slip /\ Counting(run[r]) /\ cost = Cost(r)
    BY <1>3, <1>11, <2>1 DEF Inv, Lost, Counting
  <2>3. /\ Cardinality(Rowed) = Cardinality(Rowed)' + 1
        /\ Cardinality(Priced) = Cardinality(Priced)' + Cost(r)
        /\ \A o \in Model : Cardinality(RowedOf(o)) =
               Cardinality(RowedOf(o))' + (IF o = m THEN 1 ELSE 0)
        /\ Cardinality(Rowed)' \in Nat /\ Cardinality(Priced)' \in Nat
        /\ \A o \in Model : Cardinality(RowedOf(o))' \in Nat
    BY <1>1, <1>9, <2>2, RowGone DEF Counting, m
  <2>4. /\ Today(book) \in Nat /\ SpentToday \in Nat /\ SpentMonth \in Nat
        /\ \A o \in Model : Today(models[o]) \in Nat
    BY <1>1 DEF TypeOK, Today, SpentToday, SpentMonth
  <2>5. /\ Today(book)' = Today(book) + 1
        /\ SpentToday' = SpentToday + Cost(r)
        /\ SpentMonth' = SpentMonth + Cost(r)
    BY <1>4, <2>2 DEF Today, SpentToday, SpentMonth
  <2>6. "day" \notin slip' => DayAgrees'
    <3>1. SUFFICES ASSUME DayAgrees PROVE DayAgrees'
      BY <2>2 DEF Inv, Agrees
    <3>2. ledger'.requests = Today(book)' + Cardinality(Rowed)'
      BY <1>11, <2>3, <2>4, <2>5, <3>1 DEF DayAgrees
    <3>3. ledger'.spend = SpentToday' + Cardinality(Priced)'
      BY <1>2, <1>11, <2>3, <2>4, <2>5, <3>1 DEF DayAgrees
    <3>4. ASSUME NEW o \in Model
          PROVE  ledger'.of[o] = Today(models[o])' + Cardinality(RowedOf(o))'
      <4>1. ledger.of[o] = Today(models[o]) + Cardinality(RowedOf(o))
        BY <3>1 DEF DayAgrees
      <4>2. Today(models[o])' = Today(models[o]) + (IF o = m THEN 1 ELSE 0)
        BY <1>7 DEF Today
      <4>3. QED
        BY <1>11, <2>3, <2>4, <4>1, <4>2
    <3>5. QED
      BY <3>2, <3>3, <3>4 DEF DayAgrees
  <2>7. "month" \notin slip' => MonthAgrees'
    BY <1>2, <1>11, <2>2, <2>3, <2>4, <2>5 DEF Inv, Agrees, MonthAgrees
  <2>8. QED
    BY <2>6, <2>7 DEF Agrees
<1>15. Over'
  <2>1. SUFFICES ASSUME Paid, NEW q \in Run
                 PROVE  \/ beyond'[q] = 0
                        \/ beyond'[q] = 1 /\ Full' /\ run'[q].pc \in {"idle", "admit", "round"}
    BY DEF Over
  <2>2. Full' <=> OutOfDay
    BY <1>4, <2>1 DEF Full, OutOfDay, Reached
  <2>3. CASE q = r
    <3>1. beyond[r] = 0
      BY <1>11, <2>1, NotOver
    <3>2. beyond'[r] = IF OutOfDay THEN 1 ELSE 0
      BY <1>1, <1>11, <3>1 DEF TypeOK
    <3>3. QED
      BY <1>9, <1>10, <2>2, <2>3, <3>2
  <2>4. CASE q # r
    <3>1. beyond'[q] = beyond[q] /\ run'[q] = run[q]
      BY <1>1, <1>10, <1>11, <2>4 DEF TypeOK
    <3>2. Full => Full'
      <4>1. SUFFICES ASSUME Full PROVE Full'
        OBVIOUS
      <4>2. /\ book.requests \in Nat /\ book.spend \in Nat
            /\ book'.requests \in Nat /\ book'.spend \in Nat
            /\ book.requests <= book'.requests /\ book.spend <= book'.spend
        <5>1. book.requests \in Nat /\ book.spend \in Nat
          BY <1>1 DEF TypeOK
        <5>2. Today(book) = book.requests /\ SpentToday = book.spend
          BY <4>1 DEF Full, Today, SpentToday
        <5>3. cost \in Nat
          BY <1>2
        <5>4. QED
          BY <1>4, <5>1, <5>2, <5>3
      <4>3. Rpd \in Limit /\ DailyUsd \in Limit
        BY BudgetAssumption
      <4>4. QED
        BY <1>4, <4>1, <4>2, <4>3, ReachedMore DEF Full
    <3>3. QED
      BY <2>1, <3>1, <3>2 DEF Inv, Over
  <2>5. QED
    BY <2>3, <2>4
<1>16. QED
  BY <1>12, <1>13, <1>14, <1>15 DEF Inv

-----------------------------------------------------------------------------
(* Time and restarts *)

\* When nobody is late no row waits.
LEMMA NoneLate ==
    ASSUME ~Late
    PROVE  /\ Cardinality(Rowed) = 0 /\ Cardinality(Priced) = 0
           /\ \A m \in Model : Cardinality(RowedOf(m)) = 0
<1>1. Rowed = {}
  BY DEF Late, Rowed
<1>2. Priced = {} /\ \A m \in Model : RowedOf(m) = {}
  BY <1>1 DEF Priced, RowedOf
<1>3. QED
  BY <1>1, <1>2, FS_EmptySet

LEMMA TickKeeps == ASSUME Inv, Tick PROVE Inv'
<1> DEFINE midnight == minute = Day - 1
           newMonth == midnight /\ day = Month - 1
<1>1. TypeOK
  BY DEF Inv
<1>2. /\ minute' = (minute + 1) % Day
      /\ day' = IF midnight THEN (day + 1) % Month ELSE day
      /\ book' = [book EXCEPT !.window = 0, !.fresh = @ /\ ~midnight, !.month = @ /\ ~newMonth]
      /\ models' = [m \in Model |->
            [models[m] EXCEPT !.wait = IF @ > 0 THEN @ - 1 ELSE 0, !.fresh = @ /\ ~midnight]]
      /\ bench' = IF bench > 0 THEN bench - 1 ELSE 0
      /\ ledger' = [requests |-> IF midnight THEN 0 ELSE ledger.requests,
                    spend |-> IF midnight THEN 0 ELSE ledger.spend,
                    spent |-> IF newMonth THEN 0 ELSE ledger.spent,
                    of |-> IF midnight THEN [m \in Model |-> 0] ELSE ledger.of]
      /\ beyond' = IF midnight THEN [r \in Run |-> 0] ELSE beyond
      /\ UNCHANGED <<run, harm>>
  BY DEF Tick
<1>3. /\ midnight /\ Late => "day" \in slip'
      /\ newMonth /\ Late => "month" \in slip'
      /\ ~midnight => ("day" \in slip' <=> "day" \in slip)
      /\ ~newMonth => ("month" \in slip' <=> "month" \in slip)
      /\ slip' \subseteq {"day", "month"}
      /\ Late /\ slip = {"day", "month"} => slip' = {"day", "month"}
  BY <1>1 DEF Tick, TypeOK
<1>4. /\ book' \in [fresh : BOOLEAN, requests : Nat, spend : Nat,
                    month : BOOLEAN, spent : Nat, window : Nat]
      /\ book'.requests = book.requests /\ book'.spend = book.spend /\ book'.spent = book.spent
      /\ book'.fresh = (book.fresh /\ ~midnight) /\ book'.month = (book.month /\ ~newMonth)
  <2>1. book \in [fresh : BOOLEAN, requests : Nat, spend : Nat,
                  month : BOOLEAN, spent : Nat, window : Nat]
    BY <1>1 DEF TypeOK
  <2>2. book' = [fresh |-> book.fresh /\ ~midnight, requests |-> book.requests,
                 spend |-> book.spend, month |-> book.month /\ ~newMonth,
                 spent |-> book.spent, window |-> 0]
    BY <1>2, <2>1
  <2>3. QED
    BY <2>1, <2>2
<1>5. /\ models' \in [Model -> [fresh : BOOLEAN, requests : Nat, wait : Nat, step : 0..Len(Backoff)]]
      /\ \A m \in Model : /\ models'[m].requests = models[m].requests
                          /\ models'[m].fresh = (models[m].fresh /\ ~midnight)
  <2>1. ASSUME NEW m \in Model
        PROVE  /\ models'[m] \in [fresh : BOOLEAN, requests : Nat, wait : Nat, step : 0..Len(Backoff)]
               /\ models'[m].requests = models[m].requests
               /\ models'[m].fresh = (models[m].fresh /\ ~midnight)
    <3>1. models[m] \in [fresh : BOOLEAN, requests : Nat, wait : Nat, step : 0..Len(Backoff)]
      BY <1>1 DEF TypeOK
    <3> DEFINE wait == IF models[m].wait > 0 THEN models[m].wait - 1 ELSE 0
    <3>2. wait \in Nat
      BY <3>1
    <3>3. models'[m] = [models[m] EXCEPT !.wait = wait, !.fresh = @ /\ ~midnight]
      BY <1>2
    <3> HIDE DEF wait, midnight
    <3>4. QED
      BY <3>1, <3>2, <3>3
  <2>2. QED
    BY <1>2, <2>1
<1>6. /\ ledger' \in [requests : Nat, spend : Nat, spent : Nat, of : [Model -> Nat]]
      /\ ~midnight => ledger'.requests = ledger.requests /\ ledger'.spend = ledger.spend
      /\ ~midnight => ledger'.of = ledger.of
      /\ midnight => /\ ledger'.requests = 0 /\ ledger'.spend = 0
                     /\ \A m \in Model : ledger'.of[m] = 0
      /\ ledger'.spent = IF newMonth THEN 0 ELSE ledger.spent
  <2>1. /\ ledger.requests \in Nat /\ ledger.spend \in Nat /\ ledger.spent \in Nat
        /\ ledger.of \in [Model -> Nat]
    BY <1>1 DEF TypeOK
  <2> HIDE DEF midnight, newMonth
  <2>2. QED
    BY <1>2, <2>1
<1>7. Rowed' = Rowed /\ Priced' = Priced /\ \A m \in Model : RowedOf(m)' = RowedOf(m)
  BY <1>2 DEF Rowed, Priced, RowedOf, Cost, ModelOf
<1>8. TypeOK'
  <2>1. minute' \in 0..(Day - 1) /\ day' \in 0..(Month - 1) /\ bench' \in 0..Hour
    <3>1. ASSUME NEW n \in Nat, NEW d \in Nat \ {0} PROVE (n + 1) % d \in 0..(d - 1)
      OBVIOUS
    <3>2. /\ minute \in Nat /\ day \in Nat /\ day \in 0..(Month - 1) /\ bench \in 0..Hour
          /\ Day \in Nat \ {0} /\ Month \in Nat \ {0} /\ Hour \in Nat \ {0}
      BY <1>1, BudgetAssumption DEF TypeOK
    <3>3. minute' \in 0..(Day - 1)
      BY <1>2, <3>1, <3>2
    <3>4. day' \in 0..(Month - 1)
      <4>1. (day + 1) % Month \in 0..(Month - 1)
        BY <3>1, <3>2
      <4>2. QED
        BY <1>2, <3>2, <4>1
    <3>5. bench' \in 0..Hour
      <4>1. bench' = IF bench > 0 THEN bench - 1 ELSE 0
        BY <1>2
      <4>2. QED
        BY <3>2, <4>1
    <3>6. QED
      BY <3>3, <3>4, <3>5
  <2>2. beyond' \in [Run -> Nat]
    BY <1>1, <1>2 DEF TypeOK
  <2>3. QED
    BY <1>1, <1>2, <1>3, <1>4, <1>5, <1>6, <2>1, <2>2 DEF TypeOK
<1> HIDE DEF midnight, newMonth
<1>9. Lost'
  BY <1>2, <1>3 DEF Inv, Lost, Late
<1>10. Agrees'
  <2>1. "day" \notin slip' => DayAgrees'
    <3>1. CASE midnight
      <4>1. SUFFICES ASSUME ~Late PROVE DayAgrees'
        BY <1>3, <3>1
      <4>2. /\ Today(book)' = 0 /\ SpentToday' = 0
            /\ \A m \in Model : Today(models[m])' = 0
        BY <1>4, <1>5, <3>1 DEF Today, SpentToday
      <4>3. QED
        BY <1>6, <1>7, <3>1, <4>1, <4>2, NoneLate DEF DayAgrees
    <3>2. CASE ~midnight
      <4>1. /\ Today(book)' = Today(book) /\ SpentToday' = SpentToday
            /\ \A m \in Model : Today(models[m])' = Today(models[m])
        BY <1>1, <1>4, <1>5, <3>2 DEF Today, SpentToday, TypeOK
      <4>2. QED
        BY <1>3, <1>6, <1>7, <3>2, <4>1 DEF Inv, Agrees, DayAgrees
    <3>3. QED
      BY <3>1, <3>2
  <2>2. "month" \notin slip' => MonthAgrees'
    <3>1. CASE newMonth
      <4>1. SUFFICES ASSUME ~Late PROVE MonthAgrees'
        BY <1>3, <3>1
      <4>2. SpentMonth' = 0
        BY <1>4, <3>1 DEF SpentMonth
      <4>3. QED
        BY <1>6, <1>7, <3>1, <4>1, <4>2, NoneLate DEF MonthAgrees
    <3>2. CASE ~newMonth
      <4>1. SpentMonth' = SpentMonth
        BY <1>1, <1>4, <3>2 DEF SpentMonth, TypeOK
      <4>2. QED
        BY <1>3, <1>6, <1>7, <3>2, <4>1 DEF Inv, Agrees, MonthAgrees
    <3>3. QED
      BY <3>1, <3>2
  <2>3. QED
    BY <2>1, <2>2 DEF Agrees
<1>11. Over'
  <2>1. CASE midnight
    BY <1>2, <2>1 DEF Over
  <2>2. CASE ~midnight
    <3>1. Full' <=> Full
      BY <1>1, <1>4, <2>2 DEF Full, Reached, TypeOK
    <3>2. QED
      BY <1>2, <2>2, <3>1 DEF Inv, Over
  <2>3. QED
    BY <2>1, <2>2
<1>12. QED
  BY <1>8, <1>9, <1>10, <1>11 DEF Inv

LEMMA RestartKeeps == ASSUME Inv, Restart PROVE Inv'
<1>1. TypeOK
  BY DEF Inv
<1>2. PICK read \in {{"day", "month"}, {"month"}, {}} :
        /\ book' = IF "month" \in read THEN Seeded ELSE NoCounts
        /\ models' = [m \in Model |->
              IF "day" \in read
              THEN [NoState EXCEPT !.fresh = ledger.of[m] > 0, !.requests = ledger.of[m]]
              ELSE NoState]
        /\ slip' = {"day", "month"} \ read
  BY DEF Restart
<1>3. /\ harm' \in 0..Harm
      /\ run' = [r \in Run |-> Idle] /\ bench' = 0
      /\ beyond' = IF slip' = {} /\ slip = {} THEN beyond ELSE [r \in Run |-> 0]
      /\ UNCHANGED <<minute, day, ledger>>
  <2>1. harm \in 0..Harm /\ Harm \in Nat
    BY <1>1, BudgetAssumption DEF TypeOK
  <2>2. harm' \in 0..Harm
    <3>1. harm < Harm /\ harm' = harm + 1
      BY DEF Restart
    <3>2. QED
      BY <2>1, <3>1
  <2>3. QED
    BY <2>2 DEF Restart
<1>4. /\ ledger.requests \in Nat /\ ledger.spend \in Nat /\ ledger.spent \in Nat
      /\ ledger.of \in [Model -> Nat]
  BY <1>1 DEF TypeOK
<1>5. Seeded = [fresh |-> TRUE, requests |-> ledger.requests, spend |-> ledger.spend,
                month |-> TRUE, spent |-> ledger.spent, window |-> 0]
  BY DEF Seeded
<1>6. book' \in [fresh : BOOLEAN, requests : Nat, spend : Nat,
                 month : BOOLEAN, spent : Nat, window : Nat]
  BY <1>2, <1>4, <1>5 DEF NoCounts
<1>7. ASSUME NEW m \in Model
      PROVE  /\ models'[m] \in [fresh : BOOLEAN, requests : Nat, wait : Nat, step : 0..Len(Backoff)]
             /\ "day" \in read => Today(models'[m]) = ledger.of[m]
  <2>1. NoState \in [fresh : BOOLEAN, requests : Nat, wait : Nat, step : 0..Len(Backoff)]
    BY BudgetAssumption DEF NoState
  <2>2. CASE "day" \in read
    <3> DEFINE any == ledger.of[m] > 0
    <3>1. ledger.of[m] \in Nat /\ (~any => ledger.of[m] = 0) /\ any \in BOOLEAN
      BY <1>4
    <3>2. models'[m] = [NoState EXCEPT !.fresh = any, !.requests = ledger.of[m]]
      BY <1>2, <2>2
    <3> HIDE DEF any
    <3>3. /\ models'[m] \in [fresh : BOOLEAN, requests : Nat, wait : Nat, step : 0..Len(Backoff)]
          /\ models'[m].fresh = any /\ models'[m].requests = ledger.of[m]
      BY <2>1, <3>1, <3>2
    <3>4. QED
      BY <3>1, <3>3 DEF Today
  <2>3. CASE "day" \notin read
    BY <1>2, <2>1, <2>3
  <2>4. QED
    BY <2>2, <2>3
<1>8. /\ \A r \in Run : run'[r] = Idle /\ run'[r].pc = "idle"
      /\ run' \in [Run -> RunType]
  BY <1>3, RestTyped
<1>9. TypeOK'
  <2>1. models' \in [Model -> [fresh : BOOLEAN, requests : Nat, wait : Nat, step : 0..Len(Backoff)]]
    BY <1>2, <1>7
  <2>2. beyond' \in [Run -> Nat]
    BY <1>1, <1>3 DEF TypeOK
  <2>3. slip' \subseteq {"day", "month"}
    BY <1>2
  <2>4. bench' \in 0..Hour
    BY <1>3, BudgetAssumption
  <2>5. QED
    BY <1>1, <1>3, <1>6, <1>8, <2>1, <2>2, <2>3, <2>4 DEF TypeOK, RunType
<1>10. Lost'
  BY <1>8 DEF Lost
<1>11. Agrees'
  <2>1. /\ Cardinality(Rowed)' = 0 /\ Cardinality(Priced)' = 0
        /\ \A m \in Model : Cardinality(RowedOf(m))' = 0
    <3>1. ~Late'
      BY <1>8 DEF Late
    <3>2. Rowed' = {}
      BY <1>8 DEF Rowed
    <3>3. Priced' = {} /\ \A m \in Model : RowedOf(m)' = {}
      BY <3>2 DEF Priced, RowedOf
    <3>4. QED
      BY <3>2, <3>3, FS_EmptySet
  <2>2. "day" \notin slip' => DayAgrees'
    <3>1. SUFFICES ASSUME "day" \in read, "month" \in read PROVE DayAgrees'
      BY <1>2
    <3>2. Today(book)' = ledger.requests /\ SpentToday' = ledger.spend
      BY <1>2, <1>5, <3>1 DEF Today, SpentToday
    <3>3. \A m \in Model : Today(models[m])' = ledger.of[m]
      BY <1>7, <3>1 DEF Today
    <3>4. QED
      BY <1>3, <1>4, <2>1, <3>2, <3>3 DEF DayAgrees
  <2>3. "month" \notin slip' => MonthAgrees'
    <3>1. SUFFICES ASSUME "month" \in read PROVE MonthAgrees'
      BY <1>2
    <3>2. SpentMonth' = ledger.spent
      BY <1>2, <1>5, <3>1 DEF SpentMonth
    <3>3. QED
      BY <1>3, <1>4, <2>1, <3>2 DEF MonthAgrees
  <2>4. QED
    BY <2>2, <2>3 DEF Agrees
<1>12. Over'
  <2>1. CASE slip = {} /\ slip' = {}
    <3>1. "month" \in read
      BY <1>2, <2>1
    <3>2. /\ book'.fresh /\ book'.requests = ledger.requests /\ book'.spend = ledger.spend
      BY <1>2, <1>5, <3>1
    <3>3. Full => Full'
      <4>1. SUFFICES ASSUME Full PROVE Full'
        OBVIOUS
      <4>2. /\ book.requests \in Nat /\ book.spend \in Nat
            /\ Cardinality(Rowed) \in Nat /\ Cardinality(Priced) \in Nat
        BY <1>1, RowedFinite DEF TypeOK
      <4>3. /\ ledger.requests = book.requests + Cardinality(Rowed)
            /\ ledger.spend = book.spend + Cardinality(Priced)
        BY <2>1, <4>1 DEF Inv, Agrees, DayAgrees, Full, Today, SpentToday
      <4>4. book.requests <= book'.requests /\ book.spend <= book'.spend
        BY <3>2, <4>2, <4>3
      <4>5. Rpd \in Limit /\ DailyUsd \in Limit
        BY BudgetAssumption
      <4>6. QED
        BY <1>4, <3>2, <4>1, <4>2, <4>4, <4>5, ReachedMore DEF Full
    <3>4. QED
      BY <1>3, <1>8, <2>1, <3>3 DEF Inv, Over
  <2>2. CASE ~(slip = {} /\ slip' = {})
    BY <1>3, <2>2 DEF Over
  <2>3. QED
    BY <2>1, <2>2
<1>13. QED
  BY <1>9, <1>10, <1>11, <1>12 DEF Inv

-----------------------------------------------------------------------------
(* The invariant, and what follows from it *)

LEMMA Starts == Init => Inv
<1>1. SUFFICES ASSUME Init PROVE Inv
  OBVIOUS
<1>2. TypeOK
  <2>1. /\ Day \in Nat \ {0} /\ Month \in Nat \ {0} /\ Hour \in Nat /\ Harm \in Nat
        /\ Len(Backoff) \in Nat
    BY BudgetAssumption
  <2>2. minute \in 0..(Day - 1) /\ day \in 0..(Month - 1) /\ bench \in 0..Hour /\ harm \in 0..Harm
    BY <1>1, <2>1 DEF Init
  <2>3. book \in [fresh : BOOLEAN, requests : Nat, spend : Nat,
                  month : BOOLEAN, spent : Nat, window : Nat]
    BY <1>1 DEF Init, NoCounts
  <2>4. models \in [Model -> [fresh : BOOLEAN, requests : Nat, wait : Nat, step : 0..Len(Backoff)]]
    BY <1>1, <2>1 DEF Init, NoState
  <2>5. ledger \in [requests : Nat, spend : Nat, spent : Nat, of : [Model -> Nat]]
    BY <1>1 DEF Init, NoRows
  <2>6. run \in [Run -> RunType]
    BY <1>1, RestTyped DEF Init
  <2>7. beyond \in [Run -> Nat] /\ slip \subseteq {"day", "month"}
    BY <1>1 DEF Init
  <2>8. QED
    BY <2>2, <2>3, <2>4, <2>5, <2>6, <2>7 DEF TypeOK, RunType
<1>3. \A r \in Run : run[r].pc = "idle"
  BY <1>1, RestTyped DEF Init
<1>4. Lost
  BY <1>3 DEF Lost
<1>5. Agrees
  <2>1. ~Late
    BY <1>3 DEF Late
  <2>2. /\ ledger.requests = 0 /\ ledger.spend = 0 /\ ledger.spent = 0
        /\ \A m \in Model : ledger.of[m] = 0
    BY <1>1 DEF Init, NoRows
  <2>3. /\ Today(book) = 0 /\ SpentToday = 0 /\ SpentMonth = 0
        /\ \A m \in Model : Today(models[m]) = 0
    BY <1>1 DEF Init, NoCounts, NoState, Today, SpentToday, SpentMonth
  <2>4. QED
    BY <2>1, <2>2, <2>3, NoneLate DEF Agrees, DayAgrees, MonthAgrees
<1>6. Over
  BY <1>1 DEF Init, Over
<1>7. QED
  BY <1>2, <1>4, <1>5, <1>6 DEF Inv

LEMMA Inductive == Inv /\ [Next]_vars => Inv'
<1>1. SUFFICES ASSUME Inv, [Next]_vars PROVE Inv'
  OBVIOUS
<1>2. ASSUME NEW r \in Run, Step(r) PROVE Inv'
  BY <1>1, <1>2, StartsKeep, AnswerKeeps, WriteKeeps, WriteFailsKeeps, CountKeeps DEF Step
<1>3. CASE Tick
  BY <1>1, <1>3, TickKeeps
<1>4. CASE Restart
  BY <1>1, <1>4, RestartKeeps
<1>5. CASE UNCHANGED vars
  <2>1. UNCHANGED <<minute, day, book, models, bench, ledger, run, beyond, slip, harm>>
    BY <1>5 DEF vars
  <2>2. TypeOK' /\ Lost'
    BY <1>1, <2>1 DEF Inv, TypeOK, Lost
  <2>3. UNCHANGED <<Rowed, Priced>> /\ \A m \in Model : RowedOf(m)' = RowedOf(m)
    BY <2>1 DEF Rowed, Priced, RowedOf, ModelOf, Cost
  <2>4. /\ UNCHANGED <<Today(book), SpentToday, SpentMonth>>
        /\ \A m \in Model : Today(models[m])' = Today(models[m])
    BY <2>1 DEF Today, SpentToday, SpentMonth
  <2>5. Agrees'
    BY <1>1, <2>1, <2>3, <2>4 DEF Inv, Agrees, DayAgrees, MonthAgrees
  <2>6. Over'
    BY <1>1, <2>1 DEF Inv, Over, Full
  <2>7. QED
    BY <2>2, <2>5, <2>6 DEF Inv
<1>6. QED
  BY <1>1, <1>2, <1>3, <1>4, <1>5 DEF Next

LEMMA Invariant == Spec => []Inv
<1>1. QED
  BY Starts, Inductive, PTL DEF Spec

\* The type invariant.
THEOREM TypeHolds == Spec => []TypeOK
<1>1. Inv => TypeOK
  BY DEF Inv
<1>2. QED
  BY <1>1, Invariant, PTL

\* However many runs share a paid provider, and however often the process stops, each of
\* them ends at most one call a day at or beyond a daily limit.
THEOREM OneCallOverHolds == Spec => []OneCallOver
<1>1. Inv => OneCallOver
  BY DEF Inv, Over, OneCallOver
<1>2. QED
  BY <1>1, Invariant, PTL

\* While no call is between its row and the book, and none is in one of them alone, the
\* book says of today and of this month what the ledger says, for the provider and for
\* each of its models.
THEOREM BookAgreesHolds == Spec => []BookAgrees
<1>1. Inv => BookAgrees
  <2>1. SUFFICES ASSUME Inv, ~Late PROVE BookAgrees
    BY DEF BookAgrees
  <2>2. /\ Today(book) \in Nat /\ SpentToday \in Nat /\ SpentMonth \in Nat
        /\ \A m \in Model : Today(models[m]) \in Nat
    BY <2>1 DEF Inv, TypeOK, Today, SpentToday, SpentMonth
  <2>3. QED
    BY <2>1, <2>2, NoneLate DEF Inv, Agrees, DayAgrees, MonthAgrees, BookAgrees
<1>2. QED
  BY <1>1, Invariant, PTL
=============================================================================
