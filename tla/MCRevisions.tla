---------------------------- MODULE MCRevisions -----------------------------
(* Instances of Revisions for TLC: each kind of object, with two requests at   *)
(* a time.  NoDef is a set, so that TLC can compare it with a definition.     *)
EXTENDS Revisions, TLC

Every == {"workflow", "program", "profile"}
Nothing == {"nothing"}
Workers == Permutations(Worker)
=============================================================================
