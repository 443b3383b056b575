---- MODULE MCInstanceLock ----
(* The host lock on a few processes; which one is which does not matter.   *)
EXTENDS InstanceLock, TLC
Processes == Permutations(Proc)
====
