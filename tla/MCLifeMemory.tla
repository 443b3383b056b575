---------------------------- MODULE MCLifeMemory ----------------------------
(* The instances of LifeMemory that TLC checks. *)
EXTENDS LifeMemory

CONSTANTS theirs, others

AllFacts == {theirs, others}
AboutThem == {theirs}
NoFacts == {}

\* A bound: the model changes twice, or once beside a fault, or a message is deleted.
TwoUpsets == \/ gone = {} /\ faults + changes <= 2
             \/ changes = 0
=============================================================================
