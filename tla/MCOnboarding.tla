---------------------------- MODULE MCOnboarding ----------------------------
(***************************************************************************)
(* Onboarding from one admin's account.                                    *)
(***************************************************************************)
EXTENDS Onboarding, TLC

OneAdmin == "u1" :> [tenant |-> "acme", email |-> "ann", role |-> "ADMIN", status |-> "ACTIVE",
                     verified |-> TRUE, oauth |-> None, from |-> "seed"]
GmailOfBob == "g1" :> "bob"

CallSymmetry == Permutations(Calls)
=============================================================================
