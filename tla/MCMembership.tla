--------------------------- MODULE MCMembership ----------------------------
(* Interchangeable nodes for the membership.                               *)
EXTENDS Membership, TLC

NodeSymmetry == Permutations(Node)

============================================================================
