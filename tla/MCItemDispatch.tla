--------------------------- MODULE MCItemDispatch ---------------------------
(* Instances of ItemDispatch for TLC: one item, an agent that asks first and  *)
(* one that does not, two runs, and each interference in the budget once.    *)
EXTENDS ItemDispatch, TLC

Workers == Permutations(Worker)

Nothing == [o \in Ops |-> 0]
Each(ops) == [o \in Ops |-> IF o \in ops THEN 1 ELSE 0]
Faulty == [o \in Ops |-> IF o \in {"assign", "edit"} THEN 0 ELSE 1]
Hands == Each({"assign", "approve", "sendback", "edit"})
=============================================================================
