---------------------------- MODULE MCOnboarding ----------------------------
(***************************************************************************)
(* An instance of the onboarding of one application.                       *)
(***************************************************************************)
EXTENDS Onboarding
=============================================================================
