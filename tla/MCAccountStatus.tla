--------------------------- MODULE MCAccountStatus --------------------------
(***************************************************************************)
(* AccountStatus on one account, two admins and two requests.              *)
(***************************************************************************)
EXTENDS AccountStatus, TLC

ActorSymmetry == Permutations(Admins) \cup Permutations(Guards)
=============================================================================
