-------------------------- MODULE TreasuryReserve --------------------------
(***************************************************************************)
(* contracts/src/TreasuryReserve.sol: the shared backstop that absorbs the *)
(* principal and coupon shortfalls of defaulted pools and collects the     *)
(* protocol's share of surplus.                                            *)
(*                                                                         *)
(* The pool-callable entry points are operators from the state of the      *)
(* reserve to its next state, because they run inside a transaction of a   *)
(* pool; the owner's entry points are actions.  "balance" is the           *)
(* stablecoin the contract holds.                                          *)
(***************************************************************************)
EXTENDS MathLib

CONSTANTS
    RiskParams,        \* the [reserveRate, reserveTarget, protocolHurdleFrac, lpBonusShare] used
    ReserveFunding,    \* reserveBalance the reserve has when the pool opens
    OwnerAmounts       \* amounts the owner withdraws

ASSUME TreasuryAssumption ==
    /\ RiskParams # {}
    /\ RiskParams \subseteq [reserveRate : 0..WAD, reserveTarget : Nat,
                             protocolHurdleFrac : Nat, lpBonusShare : 0..WAD]
    /\ ReserveFunding \in Nat
    /\ OwnerAmounts \subseteq Nat

VARIABLE treasury

TreasuryState ==
    [reserveBalance : Int, imFeesBalance : Int, balance : Int, risk : RiskParams]

TreasuryInit ==
    \E r \in RiskParams :
        treasury = [reserveBalance |-> ReserveFunding, imFeesBalance |-> 0,
                    balance |-> ReserveFunding, risk |-> r]

-----------------------------------------------------------------------------
(* Called by pools *)

reserveShortfallToTarget(tr) == monus(tr.risk.reserveTarget, tr.reserveBalance)

\* Mutant: the reserve hands out what it is asked for.
drawnUncapped(tr, amount) == amount

\* What drawReserve(amount) hands out.
drawn(tr, amount) == least(amount, tr.reserveBalance)

drawReserve(tr, amount) ==
    [tr EXCEPT !.reserveBalance = @ - drawn(tr, amount),
               !.balance        = @ - drawn(tr, amount)]

topUp(tr, amount) ==
    [tr EXCEPT !.reserveBalance = @ + amount, !.balance = @ + amount]

depositImFees(tr, amount) ==
    [tr EXCEPT !.imFeesBalance = @ + amount, !.balance = @ + amount]

-----------------------------------------------------------------------------
(* Called by the owner *)

SetRiskParams(r) == treasury' = [treasury EXCEPT !.risk = r]

WithdrawReserve(amount) ==
    /\ amount <= treasury.reserveBalance
    /\ treasury' = [treasury EXCEPT !.reserveBalance = @ - amount, !.balance = @ - amount]

WithdrawImFees(amount) ==
    /\ amount <= treasury.imFeesBalance
    /\ treasury' = [treasury EXCEPT !.imFeesBalance = @ - amount, !.balance = @ - amount]

TreasuryOwner ==
    \/ \E r \in RiskParams : SetRiskParams(r)
    \/ \E amount \in OwnerAmounts : WithdrawReserve(amount)
    \/ \E amount \in OwnerAmounts : WithdrawImFees(amount)
=============================================================================
