--------------------------- MODULE MCProviderGate ---------------------------
(* Instances of ProviderGate for TLC: requests of all three classes, and two *)
(* of one class whose order must not change.                                 *)
EXTENDS ProviderGate, TLC

Requests == {"c1", "s1", "b1", "b2"}
Classes == "c1" :> 1 @@ "s1" :> 2 @@ "b1" :> 3 @@ "b2" :> 3
=============================================================================
