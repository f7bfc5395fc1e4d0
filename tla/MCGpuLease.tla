----------------------------- MODULE MCGpuLease -----------------------------
(* Instances of GpuLease for TLC: two holders, leases of two hours, and a    *)
(* note that is stored beside them.                                          *)
EXTENDS GpuLease, TLC

Full == [o \in Ops |-> IF o = "acquire" THEN 2 ELSE 1]
=============================================================================
