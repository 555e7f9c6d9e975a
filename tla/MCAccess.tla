------------------------------ MODULE MCAccess ------------------------------
(***************************************************************************)
(* Instances of the admission of lenders.  Nothing of the model prefers    *)
(* one code, wallet, nonce or handler to another.                          *)
(***************************************************************************)
EXTENDS LenderAccess, TLC

MCAccessSymmetry ==
    Permutations(Codes) \cup Permutations(Handlers) \cup Permutations(Nonces)
        \cup Permutations(Wallets)
=============================================================================
