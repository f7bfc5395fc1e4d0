------------------------------ MODULE MCBudget ------------------------------
(* Instances of Budget for TLC: a paid provider with two models, days of two  *)
(* minutes and months of two days.                                           *)
EXTENDS Budget

Rungs == <<"big", "small">>
Own == [m \in Model |-> IF m = "big" THEN 1 ELSE None]
Split == [r \in Run |-> IF r = "chat" THEN {"turn"} ELSE {"generate", "embed"}]
Ways == {"ok", "account"}
Steps == <<1, 2>>
=============================================================================
