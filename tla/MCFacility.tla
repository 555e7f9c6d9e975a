---------------------------- MODULE MCFacility ----------------------------
(***************************************************************************)
(* Small instances of the binding of facilities to pools.                  *)
(***************************************************************************)
EXTENDS FacilityBinding, TLC

MCFacilitySymmetry == Permutations(Facilities) \cup Permutations(Handlers)
=============================================================================
