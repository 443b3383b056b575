----------------------------- MODULE MCWakeLife -----------------------------
(* Small instances of WakeLife for TLC. *)
EXTENDS WakeLife, TLC

CONSTANTS w1, w2

Both == {w1, w2}
First == {w1}
Second == {w2}
None == {}

Symmetry == Permutations(Wakes)
=============================================================================
