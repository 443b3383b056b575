------------------------- MODULE MCOperationLedger -------------------------
(* The instances of OperationLedger that TLC checks. *)
EXTENDS OperationLedger, TLC

CONSTANTS r1, r2, r3, plain, invitation, b1, b2

AllRequests == {r1, r2, r3}
AllKeys == {plain, invitation}
AllBodies == {b1, b2}
Invitations == {invitation}

Symmetry == Permutations(AllRequests) \cup Permutations(AllBodies)
=============================================================================
