------------------------- MODULE MCAccessRevocation -------------------------
(***************************************************************************)
(* AccessRevocation on one account.                                        *)
(***************************************************************************)
EXTENDS AccessRevocation, TLC

CONSTANTS u1, t1, t2

OneSession == t1 :> u1
TwoSessions == (t1 :> u1) @@ (t2 :> u1)

\* The tokens are interchangeable when all are dashboard tokens of one account.
Symmetry == Permutations(Tokens)
=============================================================================
