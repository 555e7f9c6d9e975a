--------------------------- MODULE MCMaintenance ---------------------------
(***************************************************************************)
(* A small instance of the billing of fees.                                *)
(***************************************************************************)
EXTENDS CreditMaintenance, TLC
=============================================================================
