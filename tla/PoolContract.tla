--------------------------- MODULE PoolContract ----------------------------
(***************************************************************************)
(* contracts/src/PoolContract.sol: one credit pool, from its creation by   *)
(* the factory to its end, with the treasury reserve it shares.            *)
(*                                                                         *)
(* An action is one external call; it happens entirely or, when a require  *)
(* fails anywhere in it, not at all, so a require is a conjunct however    *)
(* late in the call it comes.  The internal functions of the contract are  *)
(* operators from the pool's storage p and the block time t to the storage *)
(* they leave.  The pool's scalar storage is one record; its mappings are  *)
(* functions.  drawDowns[ref].principal = 0 is how the code says that ref  *)
(* has no drawdown, and the zero address is ZeroAddress.                   *)
(*                                                                         *)
(* Callers are not told apart beyond what a require looks at: roles are    *)
(* held by parties that may make any call their role allows.  Payers       *)
(* have the tokens they offer.  The factory accepts releasePsp: its record *)
(* names this pool as long as the PSP wallet changes through the factory.  *)
(***************************************************************************)
EXTENDS TreasuryReserve, Sequences, FiniteSets

CONSTANTS
    LPs, Refs, Receivers,      \* investors, drawdown references, wallets
    PspWallet, ZeroAddress,
    StartTimes,                \* block times at which the pool may be created
    SoftCap, HardCap, MinDeposit,
    Tenure,                    \* days
    AprAnnual, IdleRateDaily, UtilizedRateDaily, PenaltyRateDaily,   \* WAD
    PenaltyGraceDays,
    FundingDurationSecs,
    BufferSecs,                \* fundingExecBufferDays, in seconds
    MinDdDays, MaxDdDays,
    LpAmounts,                 \* amounts deposited and withdrawn
    DrawAmounts, SettlementDays,
    ManagedReceivers,          \* wallets that are authorized and removed
    BreakerSettings,           \* values the circuit breaker is switched to
    PayAmounts,                \* amounts offered for idle fees and settlements
    MaxTime,                   \* bound: the clock stops here
    MaxFees                    \* bound: no drawdown once this much was collected

Statuses == {"Funding", "Active", "Unsuccessful", "Closed", "Default"}

ASSUME PoolAssumption ==
    /\ PspWallet \in Receivers
    /\ ZeroAddress \notin Receivers
    /\ StartTimes \subseteq Nat
    /\ {SoftCap, Tenure, FundingDurationSecs, MaxDdDays} \subseteq Nat \ {0}
    /\ {HardCap, MinDeposit, AprAnnual, PenaltyGraceDays, BufferSecs, MaxTime, MaxFees,
        IdleRateDaily, UtilizedRateDaily, PenaltyRateDaily, MinDdDays} \subseteq Nat
    /\ SoftCap <= HardCap
    /\ IdleRateDaily <= UtilizedRateDaily
    /\ UtilizedRateDaily < PenaltyRateDaily
    /\ LpAmounts \subseteq Nat
    /\ DrawAmounts \subseteq Nat
    /\ PayAmounts \subseteq Nat
    /\ SettlementDays \subseteq Nat \ {0}
    /\ ManagedReceivers \subseteq Receivers
    /\ BreakerSettings \subseteq BOOLEAN
    /\ IsFiniteSet(LPs) /\ IsFiniteSet(Refs)

VARIABLES
    now,                       \* block.timestamp
    pool,                      \* the scalar storage
    lpPositions,               \* [LPs -> LPPosition]
    drawDowns,                 \* [Refs -> DrawDown]
    drawDownRefs,              \* the array of live references
    refIndex,                  \* [Refs -> 1-based position in drawDownRefs, or 0]
    authorizedReceivers,
    receiverActiveDrawdowns,   \* [Receivers -> Nat]
    poolBalance                \* stablecoin the contract holds

drawVars == <<drawDowns, drawDownRefs, refIndex, receiverActiveDrawdowns>>
receiverVars == <<authorizedReceivers, receiverActiveDrawdowns>>
vars == <<now, pool, lpPositions, drawVars, authorizedReceivers, poolBalance, treasury>>

NoDrawDown ==
    [principal |-> 0, startTs |-> 0, expiryTs |-> 0, receiverWallet |-> ZeroAddress]

DrawDown ==
    [principal : Nat, startTs : Nat, expiryTs : Nat,
     receiverWallet : Receivers \cup {ZeroAddress}]

LPPosition ==
    [principal : Int, fundingCredit : Int, lastUpdate : Int, dollarSeconds : Int,
     claimedYield : Int, claimedPrincipal : Int, claimedOverrunYield : Int,
     claimedBonus : Int, finalized : BOOLEAN]

Pool ==
    [status : Statuses,
     fMaturityTs : Nat, poolStartTs : Nat, poolFinalityTs : Nat, span : Int,
     lastUpdate : Nat, lastOverrunTs : Nat,
     principal : Int, availableToDd : Int, outstanding : Int,
     fundingCredit : Int, dollarSeconds : Int,
     yieldOwed : Int, overrunYield : Int, accIdleFees : Int, accPenalty : Int,
     collectedPrincipal : Int, collectedYield : Int, collectedOverrunYield : Int,
     reservedYield : Int, protocolFees : Int, collectedBonus : Int,
     claimedPrincipal : Int, claimedYield : Int, claimedOverrunYield : Int,
     claimedBonus : Int,
     lastIdleDay : Nat, lastPenaltyDay : Nat, idleExemptAmount : Int,
     idleExemptUntil : Nat,
     paused : BOOLEAN, scOverdueCheck : BOOLEAN, pspReleased : BOOLEAN]

-----------------------------------------------------------------------------
(* Creation *)

\* The funding window ends at the first midnight not before its nominal end.
fMaturityOf(t) ==
    LET raw == t + FundingDurationSecs
        rem == raw % SECONDS_PER_DAY
    IN  IF rem = 0 THEN raw ELSE raw + (SECONDS_PER_DAY - rem)

Init ==
    /\ now \in StartTimes
    /\ pool = [status |-> "Funding",
               fMaturityTs |-> fMaturityOf(now), poolStartTs |-> 0,
               poolFinalityTs |-> 0, span |-> 0, lastUpdate |-> now, lastOverrunTs |-> 0,
               principal |-> 0, availableToDd |-> 0, outstanding |-> 0,
               fundingCredit |-> 0, dollarSeconds |-> 0,
               yieldOwed |-> 0, overrunYield |-> 0, accIdleFees |-> 0, accPenalty |-> 0,
               collectedPrincipal |-> 0, collectedYield |-> 0,
               collectedOverrunYield |-> 0, reservedYield |-> 0, protocolFees |-> 0,
               collectedBonus |-> 0, claimedPrincipal |-> 0, claimedYield |-> 0,
               claimedOverrunYield |-> 0, claimedBonus |-> 0,
               lastIdleDay |-> 0, lastPenaltyDay |-> 0, idleExemptAmount |-> 0,
               idleExemptUntil |-> 0,
               paused |-> FALSE, scOverdueCheck |-> TRUE, pspReleased |-> FALSE]
    /\ lpPositions = [lp \in LPs |->
           [principal |-> 0, fundingCredit |-> 0, lastUpdate |-> 0, dollarSeconds |-> 0,
            claimedYield |-> 0, claimedPrincipal |-> 0, claimedOverrunYield |-> 0,
            claimedBonus |-> 0, finalized |-> FALSE]]
    /\ drawDowns = [ref \in Refs |-> NoDrawDown]
    /\ drawDownRefs = <<>>
    /\ refIndex = [ref \in Refs |-> 0]
    /\ authorizedReceivers = {PspWallet}
    /\ receiverActiveDrawdowns = [w \in Receivers |-> 0]
    /\ poolBalance = 0
    /\ TreasuryInit

-----------------------------------------------------------------------------
(* Funding credit: dollar-seconds earned before the lock *)

globalCheckpoint(p, t) ==
    IF p.status = "Funding"
    THEN [p EXCEPT !.fundingCredit = @ + p.principal * (t - p.lastUpdate), !.lastUpdate = t]
    ELSE p

\* Mutant: credit keeps running after the pool turned Unsuccessful.
lpCheckpointUnfrozen(pos, p, t) ==
    [pos EXCEPT !.fundingCredit = @ + pos.principal * (t - pos.lastUpdate), !.lastUpdate = t]

\* An LP stops earning credit at the instant the pool turned Unsuccessful.
lpCheckpoint(pos, p, t) ==
    LET effectiveTs == IF p.status = "Unsuccessful" THEN least(t, p.lastUpdate) ELSE t
    IN  [pos EXCEPT !.fundingCredit = @ + pos.principal * (effectiveTs - pos.lastUpdate),
                    !.lastUpdate = effectiveTs]

\* The first claim brings the LP's credit up to the lock, once.
settleLpDollarSeconds(pos, p) ==
    LET late == ~pos.finalized /\ pos.lastUpdate < p.poolStartTs
        fc   == IF late
                THEN pos.fundingCredit + pos.principal * (p.poolStartTs - pos.lastUpdate)
                ELSE pos.fundingCredit
    IN  [pos EXCEPT !.fundingCredit = fc,
                    !.lastUpdate    = IF late THEN p.poolStartTs ELSE @,
                    !.finalized     = TRUE,
                    !.dollarSeconds = fc + pos.principal * p.span]

releasePsp(p) == [p EXCEPT !.pspReleased = TRUE]

coupon(dollarSecs) == mulDiv(dollarSecs, AprAnnual, WAD * SECONDS_PER_YEAR)

lock(p, t) ==
    LET secs     == Tenure * SECONDS_PER_DAY
        finality == p.fMaturityTs + secs
        ds       == p.fundingCredit + p.principal * secs
    IN  [p EXCEPT !.status         = "Active",
                  !.poolStartTs    = t,
                  !.span           = secs,
                  !.poolFinalityTs = finality,
                  !.dollarSeconds  = ds,
                  !.yieldOwed      = coupon(ds),
                  !.availableToDd  = p.principal,
                  !.lastUpdate     = t,
                  !.lastOverrunTs  = finality,
                  !.lastIdleDay    = dayOf(t),
                  !.lastPenaltyDay = dayOf(finality) + PenaltyGraceDays]

\* Lock when the cap was met and the buffer deadline is not past, else fail.
finalizeFunding(p, t) ==
    LET q == globalCheckpoint(p, t)
    IN  IF q.principal >= SoftCap /\ t <= q.fMaturityTs + BufferSecs
        THEN lock(q, t)
        ELSE releasePsp([q EXCEPT !.status = "Unsuccessful"])

triggerFinalizeFunding(p, t) ==
    IF p.status = "Funding" /\ t >= p.fMaturityTs THEN finalizeFunding(p, t) ELSE p

-----------------------------------------------------------------------------
(* Accruals *)

\* The days [frm, to) not yet billed for idle capital; none after the last full day.
idleFrom(p) == IF p.lastIdleDay > dayOf(p.poolStartTs) THEN p.lastIdleDay ELSE dayOf(p.poolStartTs)
idleTo(p, t) == least(dayOf(t), dayOf(p.poolFinalityTs))

\* How many of those days fall under the exemption of repaid capital.
exemptDays(p, t) ==
    IF p.idleExemptAmount > 0 /\ p.idleExemptUntil > 0
    THEN monus(least(dayOf(p.idleExemptUntil), idleTo(p, t)), idleFrom(p))
    ELSE 0

idleFee(amountDays) == mulDiv(amountDays, IdleRateDaily, WAD)

\* Idle fees due at t and not yet banked.
idleDue(p, t) ==
    LET days   == monus(idleTo(p, t), idleFrom(p))
        exempt == exemptDays(p, t)
    IN  idleFee(monus(p.availableToDd, p.idleExemptAmount) * exempt)
          + idleFee(p.availableToDd * (days - exempt))

billIdleDays(p, t) ==
    IF idleTo(p, t) > idleFrom(p)
    THEN [p EXCEPT !.accIdleFees = @ + idleDue(p, t), !.lastIdleDay = idleTo(p, t)]
    ELSE p

\* The exemption is over once its day has been billed.
releaseExemption(p) ==
    IF p.idleExemptUntil > 0 /\ p.lastIdleDay >= dayOf(p.idleExemptUntil)
    THEN [p EXCEPT !.idleExemptAmount = 0, !.idleExemptUntil = 0]
    ELSE p

\* Penalty days on unpaid idle fees, from the end of the grace period on.
penaltyFrom(p) ==
    LET start == dayOf(p.poolFinalityTs) + PenaltyGraceDays
    IN  IF p.lastPenaltyDay > start THEN p.lastPenaltyDay ELSE start

accruePenalty(p, t) ==
    IF t > p.poolFinalityTs /\ p.accIdleFees > 0 /\ dayOf(t) > penaltyFrom(p)
    THEN [p EXCEPT !.accPenalty = @ + mulDiv(p.accIdleFees * (dayOf(t) - penaltyFrom(p)),
                                             PenaltyRateDaily, WAD),
                   !.lastPenaltyDay = dayOf(t)]
    ELSE p

accrueIdleFees(p, t) ==
    IF p.poolFinalityTs = 0 \/ p.status \in {"Default", "Closed"}
    THEN p
    ELSE accruePenalty(releaseExemption(billIdleDays(p, t)), t)

\* Capital still out after finality keeps earning the annual rate, second by second.
accrueExtensionYield(p, t) ==
    IF p.poolFinalityTs = 0 \/ p.status = "Default" \/ t <= p.lastOverrunTs
    THEN p
    ELSE [p EXCEPT !.overrunYield  = @ + coupon(p.outstanding * (t - p.lastOverrunTs)),
                   !.lastOverrunTs = t]

accrue(p, t) == accrueExtensionYield(accrueIdleFees(p, t), t)

-----------------------------------------------------------------------------
(* Waterfall *)

yieldShort(p)   == monus(p.yieldOwed, p.collectedYield)
overrunShort(p) == monus(p.overrunYield, p.collectedOverrunYield)

\* Fill the coupon, then the overrun; what is left over is for the caller to place.
fill(p, amount) ==
    LET toBase    == least(yieldShort(p), amount)
        toOverrun == least(overrunShort(p), amount - toBase)
    IN  [p EXCEPT !.collectedYield = @ + toBase, !.collectedOverrunYield = @ + toOverrun]

surplus(p, amount) == monus(monus(amount, yieldShort(p)), overrunShort(p))

\* Mutant: the surplus set aside is spent but stays on the books.
allocateNoReset(p, amount, t) ==
    IF p.status = "Active" /\ t < p.poolFinalityTs
    THEN [p EXCEPT !.collectedYield = @ + least(yieldShort(p), amount),
                   !.reservedYield  = @ + monus(amount, yieldShort(p))]
    ELSE LET amt == amount + p.reservedYield
         IN  [fill(p, amt) EXCEPT !.protocolFees = @ + surplus(p, amt)]

allocate(p, amount, t) ==
    IF p.status = "Active" /\ t < p.poolFinalityTs
    THEN [p EXCEPT !.collectedYield = @ + least(yieldShort(p), amount),
                   !.reservedYield  = @ + monus(amount, yieldShort(p))]
    ELSE LET amt == amount + p.reservedYield
         IN  [fill(p, amt) EXCEPT !.reservedYield = 0,
                                  !.protocolFees  = @ + surplus(p, amt)]

-----------------------------------------------------------------------------
(* Maturity and the end of a pool *)

whole(p) ==
    /\ p.collectedYield >= p.yieldOwed
    /\ p.collectedOverrunYield >= p.overrunYield
    /\ p.collectedPrincipal >= p.principal

\* Mutant: the idle exemption outlives the capital it shields.
collectUndrawnExempt(p) ==
    [p EXCEPT !.collectedPrincipal = @ + p.availableToDd, !.availableToDd = 0]

\* Undrawn principal becomes collected principal; the idle exemption is over.
collectUndrawn(p) ==
    [p EXCEPT !.collectedPrincipal = @ + p.availableToDd, !.availableToDd = 0,
              !.idleExemptAmount = 0, !.idleExemptUntil = 0]

matures(p, t) == p.status = "Active" /\ t >= p.poolFinalityTs

\* _mature runs on p at t and closes the pool.
closes(p, t) ==
    LET q == collectUndrawn(p)
    IN  matures(p, t) /\ whole(q) /\ q.accIdleFees = 0 /\ q.accPenalty = 0

\* Surplus that a normal close sends to the reserve.
terminalTopUp(p, tr) ==
    least(mulDiv(p.protocolFees + p.reservedYield, tr.risk.reserveRate, WAD),
          reserveShortfallToTarget(tr))

\* The rest of the surplus: a bonus for the LPs above the hurdle, and the protocol.
settleTerminalSplit(p, tr) ==
    LET residual == p.protocolFees + p.reservedYield - terminalTopUp(p, tr)
        hurdle   == mulDiv(tr.risk.protocolHurdleFrac, p.yieldOwed + p.overrunYield, WAD)
        lpBonus  == mulDiv(tr.risk.lpBonusShare, monus(residual, hurdle), WAD)
    IN  [p EXCEPT !.reservedYield = 0, !.collectedBonus = lpBonus,
                  !.protocolFees  = residual - lpBonus]

mature(p, tr, t) ==
    IF closes(p, t)
    THEN releasePsp(settleTerminalSplit([collectUndrawn(p) EXCEPT !.status = "Closed"], tr))
    ELSE IF matures(p, t) THEN collectUndrawn(p) ELSE p

\* What _mature sends from the pool to the reserve.
maturityTopUp(p, tr, t) == IF closes(p, t) THEN terminalTopUp(p, tr) ELSE 0

\* The caller of _mature leaves p behind, having taken "inflow" from a payer and
\* being about to pay "outflow".
Settle(p, inflow, outflow) ==
    /\ treasury' = topUp(treasury, maturityTopUp(p, treasury, now))
    /\ poolBalance' = poolBalance + inflow - outflow - maturityTopUp(p, treasury, now)

\* Mutant: the default is over when the principal is back.
resolveDefaultOnPrincipal(p) ==
    IF p.collectedPrincipal >= p.principal
    THEN releasePsp([p EXCEPT !.status = "Closed"]) ELSE p

\* Default recovery ends without a terminal split.
resolveDefaultIfWhole(p) ==
    IF whole(p) THEN releasePsp([p EXCEPT !.status = "Closed"]) ELSE p

-----------------------------------------------------------------------------
(* Drawdown terms *)

penaltyStartDay(dd) ==
    least((dd.expiryTs - dd.startTs) \div SECONDS_PER_DAY + 1 + PenaltyGraceDays, MaxDdDays)

\* Whole calendar days since the drawdown, without the day it was made on.
elapsedDays(dd, t) == dayOf(t) - dayOf(dd.startTs)

accruesPenalty(dd, t) == elapsedDays(dd, t) >= penaltyStartDay(dd)

liveRefs == {drawDownRefs[i] : i \in DOMAIN drawDownRefs}

\* What repay charges on top of the principal.
financeCharge(dd, t) ==
    LET daysTotal == elapsedDays(dd, t) + 1
        std       == least(daysTotal, penaltyStartDay(dd))
        stdDays   == IF std < MinDdDays THEN MinDdDays ELSE std
        penDays   == monus(daysTotal, penaltyStartDay(dd))
    IN  mulDiv(dd.principal, stdDays * UtilizedRateDaily + penDays * PenaltyRateDaily, WAD)

hasOverdueUnsettled(p, t) ==
    IF p.scOverdueCheck THEN \E ref \in liveRefs : accruesPenalty(drawDowns[ref], t)
    ELSE p.paused

-----------------------------------------------------------------------------
(* LPs *)

\* After the funding window a deposit fails whatever the finalization does.
Deposit(lp, amount) ==
    LET p   == globalCheckpoint(triggerFinalizeFunding(pool, now), now)
        pos == lpCheckpoint(lpPositions[lp], p, now)
    IN  /\ p.status = "Funding"
        /\ amount >= MinDeposit
        /\ p.principal + amount <= HardCap
        /\ pool' = [p EXCEPT !.principal = @ + amount]
        /\ lpPositions' = [lpPositions EXCEPT ![lp] = [pos EXCEPT !.principal = @ + amount]]
        /\ poolBalance' = poolBalance + amount
        /\ UNCHANGED <<now, drawVars, authorizedReceivers, treasury>>

\* Leaving forfeits the same share of the funding credit as of the principal.
Withdraw(lp, amount) ==
    LET p         == globalCheckpoint(triggerFinalizeFunding(pool, now), now)
        pos       == lpCheckpoint(lpPositions[lp], p, now)
        forfeited == mulDiv(pos.fundingCredit, amount, pos.principal)
    IN  /\ p.status \in {"Funding", "Unsuccessful"}
        /\ amount > 0 /\ amount <= pos.principal
        /\ pos.principal - amount = 0 \/ pos.principal - amount >= MinDeposit
        /\ pool' = [p EXCEPT !.fundingCredit = @ - forfeited, !.principal = @ - amount]
        /\ lpPositions' = [lpPositions EXCEPT
               ![lp] = [pos EXCEPT !.fundingCredit = @ - forfeited, !.principal = @ - amount]]
        /\ poolBalance' = poolBalance - amount
        /\ UNCHANGED <<now, drawVars, authorizedReceivers, treasury>>

FinalizeFunding ==
    /\ pool' = triggerFinalizeFunding(pool, now)
    /\ UNCHANGED <<now, lpPositions, drawVars, authorizedReceivers, poolBalance, treasury>>

\* Mutant: a claim before finality is for the final share.
baseShareUncapped(pos, p, t) == mulDiv(pos.dollarSeconds, WAD, p.dollarSeconds)

\* Share of the coupon an LP has earned so far, never above its final share.
baseShare(pos, p, t) ==
    LET final   == mulDiv(pos.dollarSeconds, WAD, p.dollarSeconds)
        elapsed == t - p.poolStartTs
        dsPool  == p.fundingCredit + p.principal * elapsed
    IN  IF p.status = "Active" /\ t < p.poolFinalityTs /\ dsPool > 0
        THEN least(final, mulDiv(pos.fundingCredit + pos.principal * elapsed, WAD, dsPool))
        ELSE final

\* A claim divides by dollarSeconds and by principal: mulDiv reverts on zero.

\* What the LP is owed of each stream, less what it took.
claimableBase(pos, p, t) ==
    monus(mulDiv(baseShare(pos, p, t), p.collectedYield, WAD), pos.claimedYield)
claimableOverrun(pos, p) ==
    monus(mulDiv(pos.principal, p.collectedOverrunYield, p.principal), pos.claimedOverrunYield)
claimableBonus(pos, p) ==
    monus(mulDiv(pos.principal, p.collectedBonus, p.principal), pos.claimedBonus)

Claimable == {"Active", "Closed", "Default"}

ClaimYield(lp) ==
    LET a       == accrue(pool, now)
        pos     == settleLpDollarSeconds(lpPositions[lp], a)
        p       == mature(a, treasury, now)
        base    == least(claimableBase(pos, p, now), p.collectedYield - p.claimedYield)
        overrun == least(claimableOverrun(pos, p),
                         p.collectedOverrunYield - p.claimedOverrunYield)
        bonus   == least(claimableBonus(pos, p), p.collectedBonus - p.claimedBonus)
    IN  /\ pool.status \in Claimable
        /\ lpPositions[lp].principal > 0
        /\ p.dollarSeconds > 0 /\ p.principal > 0
        /\ pool' = [p EXCEPT !.claimedYield = @ + base, !.claimedOverrunYield = @ + overrun,
                             !.claimedBonus = @ + bonus]
        /\ lpPositions' = [lpPositions EXCEPT
               ![lp] = [pos EXCEPT !.claimedYield = @ + base,
                                   !.claimedOverrunYield = @ + overrun,
                                   !.claimedBonus = @ + bonus]]
        /\ Settle(a, 0, base + overrun + bonus)
        /\ UNCHANGED <<now, drawVars, authorizedReceivers>>

\* Unlike every other call in Active, this one does not accrue the extension yield.
ClaimPrincipal(lp) ==
    LET a         == accrueIdleFees(pool, now)
        p         == mature(a, treasury, now)
        pos       == lpPositions[lp]
        claimable == monus(mulDiv(pos.principal, p.collectedPrincipal, p.principal),
                           pos.claimedPrincipal)
    IN  /\ pool.status \in Claimable
        /\ pos.principal > 0
        /\ p.principal > 0
        /\ pool' = [p EXCEPT !.claimedPrincipal = @ + claimable]
        /\ lpPositions' = [lpPositions EXCEPT ![lp].claimedPrincipal = @ + claimable]
        /\ Settle(a, 0, claimable)
        /\ UNCHANGED <<now, drawVars, authorizedReceivers>>

-----------------------------------------------------------------------------
(* Agent 2: drawdowns and default *)

\* The first conjunct is the bound MaxFees, not a guard of the code.
ExecuteDrawdown(ref, receiver, amount, days) ==
    LET p        == accrue(pool, now)
        expiryTs == now + (days - 1) * SECONDS_PER_DAY
        left     == monus(p.idleExemptAmount, amount)
    IN  /\ pool.collectedYield + pool.reservedYield + pool.collectedOverrunYield < MaxFees
        /\ pool.status = "Active"
        /\ receiver \in authorizedReceivers
        /\ amount > 0
        /\ drawDowns[ref].principal = 0
        /\ days >= MinDdDays /\ days <= MaxDdDays
        /\ dayOf(expiryTs) <= dayOf(pool.poolFinalityTs)
        /\ amount <= pool.availableToDd
        /\ ~hasOverdueUnsettled(pool, now)
        /\ drawDowns' = [drawDowns EXCEPT
               ![ref] = [principal |-> amount, startTs |-> now, expiryTs |-> expiryTs,
                         receiverWallet |-> receiver]]
        /\ drawDownRefs' = Append(drawDownRefs, ref)
        /\ refIndex' = [refIndex EXCEPT ![ref] = Len(drawDownRefs) + 1]
        /\ receiverActiveDrawdowns' = [receiverActiveDrawdowns EXCEPT ![receiver] = @ + 1]
        /\ pool' = [p EXCEPT !.availableToDd = @ - amount, !.outstanding = @ + amount,
                             !.idleExemptAmount = left,
                             !.idleExemptUntil = IF left = 0 THEN 0 ELSE @]
        /\ poolBalance' = poolBalance - amount
        /\ UNCHANGED <<now, lpPositions, authorizedReceivers, treasury>>

\* Mutant: the dollar-seconds of the pool are not rebased with its span.
rebaseCouponSpanOnly(p, t) ==
    LET elapsed == t - p.poolStartTs
        ds      == p.fundingCredit + p.principal * elapsed
    IN  IF t >= p.poolFinalityTs THEN p
        ELSE IF coupon(ds) > p.collectedYield
        THEN [p EXCEPT !.span = elapsed, !.yieldOwed = coupon(ds)]
        ELSE [p EXCEPT !.yieldOwed = p.collectedYield]

\* Before finality the coupon shrinks to what was earned, if that was not yet collected.
rebaseCoupon(p, t) ==
    LET elapsed == t - p.poolStartTs
        ds      == p.fundingCredit + p.principal * elapsed
    IN  IF t >= p.poolFinalityTs THEN p
        ELSE IF coupon(ds) > p.collectedYield
        THEN [p EXCEPT !.span = elapsed, !.dollarSeconds = ds, !.yieldOwed = coupon(ds)]
        ELSE [p EXCEPT !.yieldOwed = p.collectedYield]

\* Mutant: rescued principal is collected and still outstanding.
rescueTwice(p) ==
    LET amt         == p.reservedYield + p.protocolFees
        rest        == surplus(p, amt)
        toPrincipal == least(p.outstanding, rest)
    IN  [fill(p, amt) EXCEPT !.reservedYield = 0, !.protocolFees = rest - toPrincipal,
                             !.collectedPrincipal = @ + toPrincipal]

\* Surplus set aside so far rescues coupon, overrun and principal, in this order.
rescue(p) ==
    LET amt         == p.reservedYield + p.protocolFees
        rest        == surplus(p, amt)
        toPrincipal == least(p.outstanding, rest)
    IN  [fill(p, amt) EXCEPT !.reservedYield = 0, !.protocolFees = rest - toPrincipal,
                             !.collectedPrincipal = @ + toPrincipal,
                             !.outstanding = @ - toPrincipal]

\* Mutant: undrawn capital is left in the line at a default.
DeclareDefaultUndrawn ==
    LET p == rescue(rebaseCoupon(accrue(pool, now), now))
    IN  /\ pool.status = "Active"
        /\ pool' = resolveDefaultIfWhole([p EXCEPT !.status = "Default"])
        /\ UNCHANGED <<now, lpPositions, drawVars, authorizedReceivers, poolBalance, treasury>>

DeclareDefault ==
    LET p == rescue(rebaseCoupon(collectUndrawn(accrue(pool, now)), now))
    IN  /\ pool.status = "Active"
        /\ pool' = resolveDefaultIfWhole([p EXCEPT !.status = "Default"])
        /\ UNCHANGED <<now, lpPositions, drawVars, authorizedReceivers, poolBalance, treasury>>

-----------------------------------------------------------------------------
(* PSP *)

\* Mutant: deleting the element leaves a hole in the array instead of shortening it.
removeDrawDownHole(ref) ==
    /\ drawDownRefs' = [drawDownRefs EXCEPT ![refIndex[ref]] = ZeroAddress]
    /\ refIndex' = [refIndex EXCEPT ![ref] = 0]
    /\ drawDowns' = [drawDowns EXCEPT ![ref] = NoDrawDown]

\* Mutant: the index of the moved reference is not updated.
removeDrawDownStale(ref) ==
    LET idx     == refIndex[ref]
        last    == Len(drawDownRefs)
        lastRef == drawDownRefs[last]
    IN  /\ drawDownRefs' = SubSeq([drawDownRefs EXCEPT ![idx] = lastRef], 1, last - 1)
        /\ refIndex' = [refIndex EXCEPT ![ref] = 0]
        /\ drawDowns' = [drawDowns EXCEPT ![ref] = NoDrawDown]

\* The last reference takes the place of the removed one.
removeDrawDown(ref) ==
    LET idx     == refIndex[ref]
        last    == Len(drawDownRefs)
        lastRef == drawDownRefs[last]
    IN  /\ drawDownRefs' = SubSeq([drawDownRefs EXCEPT ![idx] = lastRef], 1, last - 1)
        /\ refIndex' = [refIndex EXCEPT ![lastRef] = idx, ![ref] = 0]
        /\ drawDowns' = [drawDowns EXCEPT ![ref] = NoDrawDown]

\* Principal is redrawable before finality, and shielded from idle fees that day.
returnPrincipal(p, amount, t) ==
    IF t < p.poolFinalityTs
    THEN [p EXCEPT !.availableToDd = @ + amount, !.outstanding = @ - amount,
                   !.idleExemptAmount = @ + amount,
                   !.idleExemptUntil = (dayOf(t) + 1) * SECONDS_PER_DAY]
    ELSE [p EXCEPT !.collectedPrincipal = @ + amount, !.outstanding = @ - amount]

Repay(ref) ==
    LET dd     == drawDowns[ref]
        charge == financeCharge(dd, now)
        p      == allocate(returnPrincipal(accrue(pool, now), dd.principal, now), charge, now)
    IN  /\ authorizedReceivers # {}
        /\ pool.status = "Active"
        /\ dd.principal > 0
        /\ refIndex[ref] > 0
        /\ removeDrawDown(ref)
        /\ receiverActiveDrawdowns' =
               [receiverActiveDrawdowns EXCEPT ![dd.receiverWallet] = monus(@, 1)]
        /\ pool' = mature(p, treasury, now)
        /\ Settle(p, dd.principal + charge, 0)
        /\ UNCHANGED <<now, lpPositions, authorizedReceivers>>

\* Fees are paid before penalties; when nothing is owed only the accrual stays.
PayAccruedIdleFees(amount) ==
    LET a    == accrue(pool, now)
        pay  == least(amount, a.accIdleFees + a.accPenalty)
        fees == least(pay, a.accIdleFees)
        p    == allocate([a EXCEPT !.accIdleFees = @ - fees, !.accPenalty = @ - (pay - fees)],
                         pay, now)
    IN  /\ authorizedReceivers # {}
        /\ amount > 0
        /\ pool.status = "Active"
        /\ IF pay = 0 THEN pool' = a /\ UNCHANGED <<treasury, poolBalance>>
           ELSE pool' = mature(p, treasury, now) /\ Settle(p, pay, 0)
        /\ UNCHANGED <<now, lpPositions, drawVars, authorizedReceivers>>

-----------------------------------------------------------------------------
(* Multisig: default recovery and protocol fees *)

SettleDefaultPrincipal(amount) ==
    LET owed        == monus(pool.principal, pool.collectedPrincipal)
        fromReserve == drawn(treasury, owed - least(amount, owed))
        paid        == least(amount, owed) + fromReserve
    IN  /\ pool.status = "Default"
        /\ pool' = IF owed > 0 /\ paid = 0 THEN pool
                   ELSE resolveDefaultIfWhole(
                            [pool EXCEPT !.collectedPrincipal = @ + paid,
                                         !.outstanding = @ - paid])
        /\ treasury' = drawReserve(treasury, fromReserve)
        /\ poolBalance' = poolBalance + paid
        /\ UNCHANGED <<now, lpPositions, drawVars, authorizedReceivers>>

SettleDefaultYield(amount) ==
    LET owed        == yieldShort(pool) + overrunShort(pool)
        fromReserve == drawn(treasury, owed - least(amount, owed))
        paid        == least(amount, owed) + fromReserve
    IN  /\ pool.status = "Default"
        /\ pool.collectedPrincipal >= pool.principal
        /\ pool' = IF owed > 0 /\ paid = 0 THEN pool
                   ELSE resolveDefaultIfWhole(fill(pool, paid))
        /\ treasury' = drawReserve(treasury, fromReserve)
        /\ poolBalance' = poolBalance + paid
        /\ UNCHANGED <<now, lpPositions, drawVars, authorizedReceivers>>

SweepProtocolFees ==
    /\ pool.status = "Closed"
    /\ pool.protocolFees > 0
    /\ pool' = [pool EXCEPT !.protocolFees = 0]
    /\ treasury' = depositImFees(treasury, pool.protocolFees)
    /\ poolBalance' = poolBalance - pool.protocolFees
    /\ UNCHANGED <<now, lpPositions, drawVars, authorizedReceivers>>

-----------------------------------------------------------------------------
(* Receivers and the circuit breaker *)

AddReceiver(w) ==
    /\ pool.status \in {"Funding", "Active"}
    /\ w \notin authorizedReceivers
    /\ authorizedReceivers' = authorizedReceivers \cup {w}
    /\ UNCHANGED <<now, pool, lpPositions, drawVars, poolBalance, treasury>>

\* Mutant: a wallet with live drawdowns is removed.
RemoveReceiverLive(w) ==
    /\ pool.status \in {"Funding", "Active"}
    /\ w \in authorizedReceivers
    /\ authorizedReceivers' = authorizedReceivers \ {w}
    /\ UNCHANGED <<now, pool, lpPositions, drawVars, poolBalance, treasury>>

RemoveReceiver(w) ==
    /\ pool.status \in {"Funding", "Active"}
    /\ w \in authorizedReceivers
    /\ receiverActiveDrawdowns[w] = 0
    /\ authorizedReceivers' = authorizedReceivers \ {w}
    /\ UNCHANGED <<now, pool, lpPositions, drawVars, poolBalance, treasury>>

\* Leaving the on-chain check freezes its verdict in "paused".
SetScOverdue(enabled) ==
    /\ pool' = [pool EXCEPT !.scOverdueCheck = enabled,
                   !.paused = IF enabled THEN @
                              ELSE \E ref \in liveRefs : accruesPenalty(drawDowns[ref], now)]
    /\ UNCHANGED <<now, lpPositions, drawVars, authorizedReceivers, poolBalance, treasury>>

SetPaused(b) ==
    /\ ~pool.scOverdueCheck
    /\ pool' = [pool EXCEPT !.paused = b]
    /\ UNCHANGED <<now, lpPositions, drawVars, authorizedReceivers, poolBalance, treasury>>

-----------------------------------------------------------------------------
(* The system *)

\* External: a block with a later timestamp.
Tick ==
    /\ now < MaxTime
    /\ now' = now + 1
    /\ UNCHANGED <<pool, lpPositions, drawVars, authorizedReceivers, poolBalance, treasury>>

LpNext ==
    \/ \E lp \in LPs, amount \in LpAmounts : Deposit(lp, amount) \/ Withdraw(lp, amount)
    \/ \E lp \in LPs : ClaimYield(lp) \/ ClaimPrincipal(lp)
    \/ FinalizeFunding

AgentNext ==
    \/ \E ref \in Refs, w \in Receivers, amount \in DrawAmounts, days \in SettlementDays :
           ExecuteDrawdown(ref, w, amount, days)
    \/ DeclareDefault
    \/ \E b \in BreakerSettings : SetScOverdue(b) \/ SetPaused(b)
    \/ \E w \in ManagedReceivers : AddReceiver(w)

PspNext ==
    \/ \E ref \in Refs : Repay(ref)
    \/ \E amount \in PayAmounts : PayAccruedIdleFees(amount)

MultisigNext ==
    \/ \E amount \in PayAmounts : SettleDefaultPrincipal(amount) \/ SettleDefaultYield(amount)
    \/ SweepProtocolFees
    \/ \E w \in ManagedReceivers : RemoveReceiver(w)
    \/ /\ TreasuryOwner
       /\ UNCHANGED <<now, pool, lpPositions, drawVars, authorizedReceivers, poolBalance>>

\* Types; that no amount is negative is a property of its own (NoUnderflow).
TypeOK ==
    /\ now \in Nat
    /\ pool \in Pool
    /\ lpPositions \in [LPs -> LPPosition]
    /\ drawDowns \in [Refs -> DrawDown]
    /\ drawDownRefs \in Seq(Refs)
    /\ refIndex \in [Refs -> Nat]
    /\ authorizedReceivers \in SUBSET Receivers
    /\ receiverActiveDrawdowns \in [Receivers -> Nat]
    /\ poolBalance \in Int
    /\ treasury \in TreasuryState

Next == Tick \/ LpNext \/ AgentNext \/ PspNext \/ MultisigNext

Spec == Init /\ [][Next]_vars
=============================================================================
