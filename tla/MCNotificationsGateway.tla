----------------------- MODULE MCNotificationsGateway -----------------------
(***************************************************************************)
(* NotificationsGateway on two sockets.  One account with two sessions     *)
(* shows the races between admission and disconnect; two accounts show     *)
(* that they stay apart.                                                   *)
(***************************************************************************)
EXTENDS NotificationsGateway, TLC

CONSTANTS u1, u2, t1, t2, admin

\* t1 and t2 are dashboard tokens of u1; the same signing key made admin.
OneSession == t1 :> u1
OneUser == (t1 :> u1) @@ (t2 :> u1)
TwoUsers == (t1 :> u1) @@ (t2 :> u2) @@ (admin :> u1)

ConnSymmetry == Permutations(Conns)
=============================================================================
