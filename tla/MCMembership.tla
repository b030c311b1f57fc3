---------------------------- MODULE MCMembership ----------------------------
(* A small instance of Membership for TLC.                                 *)
EXTENDS Membership, TLC

Symmetry ==
  Permutations(Users) \cup Permutations(Orgs) \cup Permutations(Invitations)
    \cup Permutations(Handlers)
=============================================================================
