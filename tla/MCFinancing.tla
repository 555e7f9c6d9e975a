---------------------------- MODULE MCFinancing ----------------------------
(***************************************************************************)
(* A small instance of the financing of orders.                            *)
(***************************************************************************)
EXTENDS Financing, TLC
=============================================================================
