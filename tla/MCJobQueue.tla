----------------------------- MODULE MCJobQueue -----------------------------
(* Instances of JobQueue for TLC: a chain on one or two permits, small caps,  *)
(* and each interference in the budget once.                                 *)
EXTENDS JobQueue, TLC

\* A chain of two steps, or of three.
TwoJobs == {"a1", "a2"}
TwoParent == "a1" :> NoJob @@ "a2" :> "a1"
TripleJobs == TwoJobs \cup {"a3"}
TripleParent == TwoParent @@ "a3" :> "a2"

AllOfChain == [j \in Job |-> "a1"]

NoJobs == {}
First == {"a1"}
Second == {"a2"}

CapTwo == [j \in Job |-> 2]
CapOne == [j \in Job |-> 1]

\* One provider for all.
AnyPermit == [s \in Slot |-> Job]
SlotSymmetry == Permutations(Slot)

\* Budgets.
Nothing == [o \in Ops |-> 0]
Crashes == [Nothing EXCEPT !["crash"] = 1, !["fault"] = 1, !["lease"] = 1]
Operators == [o \in Ops |-> IF o \in {"cancel", "drain", "redrive", "expire", "cleanup", "discard"}
                           THEN 1 ELSE 0]
Interrupted == [Nothing EXCEPT !["cancel"] = 1, !["retry"] = 1, !["crash"] = 1]
=============================================================================
