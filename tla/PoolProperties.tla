-------------------------- MODULE PoolProperties ---------------------------
(***************************************************************************)
(* What makes a pool correct: properties of PoolContract.  Each is stated  *)
(* on the whole reachable state space, so a call made at any time by any   *)
(* party counts.                                                           *)
(***************************************************************************)
EXTENDS PoolContract, Sums

Locked == pool.status \in {"Active", "Closed", "Default"}

-----------------------------------------------------------------------------
(* Principal *)

\* From the lock on, every unit the LPs put in is undrawn, lent out or back: no repayment
\* after finality, default, rescue or settlement loses or doubles principal.
PrincipalConservation ==
    Locked => pool.availableToDd + pool.outstanding + pool.collectedPrincipal = pool.principal

\* The array of live references, its index and the drawdown mapping agree after any
\* sequence of pushes and swap-and-pops.
DrawdownIndex ==
    /\ \A i \in DOMAIN drawDownRefs : refIndex[drawDownRefs[i]] = i
    /\ \A ref \in Refs : refIndex[ref] # 0 =>
           refIndex[ref] \in DOMAIN drawDownRefs /\ drawDownRefs[refIndex[ref]] = ref
    /\ \A ref \in Refs : drawDowns[ref].principal > 0 <=> ref \in liveRefs

\* Every live drawdown of an active pool was made to a wallet that can still repay it, and
\* the counter that keeps the wallet from being removed counts its drawdowns.
LiveReceiversAuthorized ==
    pool.status = "Active" =>
        /\ \A ref \in liveRefs : drawDowns[ref].receiverWallet \in authorizedReceivers
        /\ \A w \in Receivers : receiverActiveDrawdowns[w] =
               Cardinality({ref \in liveRefs : drawDowns[ref].receiverWallet = w})

-----------------------------------------------------------------------------
(* Money *)

\* What the pool owes to LPs, borrowers, the protocol and its own reserve of surplus.
booked ==
    IF Locked
    THEN pool.availableToDd + (pool.collectedPrincipal - pool.claimedPrincipal)
           + (pool.collectedYield - pool.claimedYield)
           + (pool.collectedOverrunYield - pool.claimedOverrunYield)
           + (pool.collectedBonus - pool.claimedBonus)
           + pool.reservedYield + pool.protocolFees
    ELSE pool.principal

\* The pool holds exactly the tokens its books say, through every split, flush and draw on
\* the reserve, and so does the reserve.
Solvency ==
    /\ poolBalance = booked
    /\ treasury.balance = treasury.reserveBalance + treasury.imFeesBalance

\* The totals of the pool are the sums over its LPs, and no stream is paid out beyond what
\* was collected for it.  claimPrincipal has no cap of its own: the shares, each rounded
\* down, must add up to no more than the whole.
ClaimsWithinCollected ==
    LET total(f) == SumOf([lp \in LPs |-> lpPositions[lp][f]], LPs)
    IN  /\ pool.principal = total("principal")
        /\ pool.claimedPrincipal = total("claimedPrincipal")
        /\ pool.claimedYield = total("claimedYield")
        /\ pool.claimedOverrunYield = total("claimedOverrunYield")
        /\ pool.claimedBonus = total("claimedBonus")
        /\ pool.claimedPrincipal <= pool.collectedPrincipal
        /\ pool.claimedYield <= pool.collectedYield
        /\ pool.claimedOverrunYield <= pool.collectedOverrunYield
        /\ pool.claimedBonus <= pool.collectedBonus

\* No subtraction of the code ever goes below zero, which would revert a legitimate call.
NoUnderflow ==
    /\ \A f \in DOMAIN pool \ {"status", "paused", "scOverdueCheck", "pspReleased"} :
           pool[f] >= 0
    /\ \A lp \in LPs : \A f \in DOMAIN lpPositions[lp] \ {"finalized"} :
           lpPositions[lp][f] >= 0
    /\ \A w \in Receivers : receiverActiveDrawdowns[w] >= 0
    /\ treasury.reserveBalance >= 0 /\ treasury.imFeesBalance >= 0

-----------------------------------------------------------------------------
(* Shares *)

\* The pool's funding credit is the sum of the LPs' credits at its last checkpoint, however
\* deposits, partial withdrawals, the failed finalization and the first claims interleave.
CreditSum ==
    pool.fundingCredit =
        SumOf([lp \in LPs |-> lpPositions[lp].fundingCredit
                  + lpPositions[lp].principal * (pool.lastUpdate - lpPositions[lp].lastUpdate)],
              LPs)

\* What an LP has been or could be paid of the coupon collected so far.
settled(lp) == settleLpDollarSeconds(lpPositions[lp], pool)
baseOwed(lp) == mulDiv(baseShare(settled(lp), pool, now), pool.collectedYield, WAD)

\* Whatever the LPs claimed before, the coupon left in the pool pays what each is still
\* owed: the cap at the pool's balance never makes an LP pay for another's early claim.
NoLpStarved ==
    pool.status \in Claimable =>
        SumOf([lp \in LPs |-> claimableBase(settled(lp), pool, now)], LPs)
            <= pool.collectedYield - pool.claimedYield

\* What an LP has been paid or could claim of the coupon never shrinks: not by time
\* passing, another LP's claim, or the rebase of the coupon when a default is declared.
EntitlementGrows ==
    [][pool.status \in Claimable => \A lp \in LPs : baseOwed(lp)' >= baseOwed(lp)]_vars

-----------------------------------------------------------------------------
(* Idle exemption, surplus, end of the pool *)

\* Capital shielded from idle fees is undrawn capital, and a shield has a day to end on.
ExemptWithinAvailable ==
    /\ pool.idleExemptAmount <= pool.availableToDd
    /\ pool.idleExemptAmount > 0 <=> pool.idleExemptUntil > 0

\* Surplus is only set aside once the coupon is covered.
ReservedOnlyAfterYield ==
    pool.reservedYield > 0 => pool.collectedYield >= pool.yieldOwed

\* A closed pool has paid everything back and stays so: whichever of the seven calls that
\* may close it did, nothing is lent out, undrawn or owed, and the PSP is free.
ClosedIsWhole ==
    /\ pool.status = "Closed" =>
           /\ whole(pool)
           /\ pool.outstanding = 0 /\ pool.availableToDd = 0 /\ pool.reservedYield = 0
           /\ pool.collectedPrincipal = pool.principal
    /\ pool.pspReleased <=> pool.status \in {"Closed", "Unsuccessful"}

-----------------------------------------------------------------------------
(* Refinement *)

Line == INSTANCE CreditLine WITH
            status    <- pool.status,
            committed <- pool.principal,
            undrawn   <- pool.availableToDd,
            lent      <- pool.outstanding,
            recovered <- pool.collectedPrincipal,
            released  <- pool.pspReleased

\* With all its charges, claims and side doors, the pool is a credit line: no call moves
\* capital but by a draw, a repayment or the wind-down, and none takes it back from there.
IsCreditLine == Line!Spec
=============================================================================
