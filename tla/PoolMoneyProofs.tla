-------------------------- MODULE PoolMoneyProofs ---------------------------
(***************************************************************************)
(* Theorems about the money of PoolContract, for every value of its        *)
(* constants: the pool and the reserve hold what their books say, no       *)
(* amount goes below zero, no stream is paid out beyond what was collected *)
(* for it, the totals of the pool are the sums over its LPs, and a closed  *)
(* pool is whole.                                                          *)
(*                                                                         *)
(* MoneyInv is a relation between the pool, its balance, the reserve and   *)
(* the positions of the LPs; BookSound one between the pool and the book   *)
(* of drawdowns.  A call is followed from operator to operator: each has a *)
(* lemma that says what it adds to or takes from the amount the pool has   *)
(* to hold (InPool), and one lemma per call adds them up.                  *)
(*                                                                         *)
(* ShareInv is about the coupon: what an LP is due (Due) is its share, by  *)
(* dollar-seconds, of what was collected, no LP has claimed more, and no   *)
(* call and no block makes it less.  A share is a fraction rounded down;   *)
(* one below the final share can only grow towards it, and one above it is *)
(* cut to it, so the cap is what makes entitlements grow.  A call keeps the *)
(* term of the pool or cuts it at a default (TermKept, TermCut).           *)
(***************************************************************************)
EXTENDS PoolContractProofs, SumTheorems

-----------------------------------------------------------------------------
(* What the operators of a call do to the money *)

SameClaims(p, q) ==
    /\ q.claimedPrincipal = p.claimedPrincipal
    /\ q.claimedYield = p.claimedYield
    /\ q.claimedOverrunYield = p.claimedOverrunYield
    /\ q.claimedBonus = p.claimedBonus

SameRest(p, q) ==
    /\ q.collectedOverrunYield = p.collectedOverrunYield
    /\ q.protocolFees = p.protocolFees
    /\ q.collectedBonus = p.collectedBonus

SameCredit(p, q) ==
    /\ q.fundingCredit = p.fundingCredit
    /\ q.dollarSeconds = p.dollarSeconds
    /\ q.span = p.span
    /\ q.lastUpdate = p.lastUpdate
    /\ q.poolStartTs = p.poolStartTs

\* Billing idle days moves no money.
LEMMA IdleFeesMoney ==
    ASSUME NEW p \in Pool, NEW t \in Nat
    PROVE  LET q == accrueIdleFees(p, t)
           IN  /\ SameClaims(p, q) /\ SameRest(p, q) /\ SameCredit(p, q)
               /\ q.overrunYield = p.overrunYield /\ q.lastOverrunTs = p.lastOverrunTs
<1> DEFINE b == billIdleDays(p, t)
           r == releaseExemption(b)
           c == accruePenalty(r, t)
           Same(x, y) == /\ SameClaims(x, y) /\ SameRest(x, y) /\ SameCredit(x, y)
                         /\ y.overrunYield = x.overrunYield
                         /\ y.lastOverrunTs = x.lastOverrunTs
<1>1. b \in Pool /\ Same(p, b)
  <2>1. b \in Pool
      BY BillPool
  <2>2. \/ b = p
        \/ b = [p EXCEPT !.accIdleFees = @ + idleDue(p, t), !.lastIdleDay = idleTo(p, t)]
      BY Zenon DEF billIdleDays
  <2> HIDE DEF b
  <2> QED
      BY <2>1, <2>2 DEF SameClaims, SameRest, SameCredit, Pool
<1> HIDE DEF b
<1>2. r \in Pool /\ Same(b, r)
  <2>1. r \in Pool
      BY <1>1, ReleasePool
  <2>2. r = b \/ r = [b EXCEPT !.idleExemptAmount = 0, !.idleExemptUntil = 0]
      BY Zenon DEF releaseExemption
  <2> HIDE DEF r
  <2> QED
      BY <1>1, <2>1, <2>2 DEF SameClaims, SameRest, SameCredit, Pool
<1> HIDE DEF r
<1>3. c \in Pool /\ Same(r, c)
  <2>1. c \in Pool
      BY <1>2, PenaltyPool
  <2> DEFINE f == mulDiv(r.accIdleFees * (dayOf(t) - penaltyFrom(r)), PenaltyRateDaily, WAD)
  <2>2. c = r \/ c = [r EXCEPT !.accPenalty = @ + f, !.lastPenaltyDay = dayOf(t)]
      BY Zenon DEF accruePenalty
  <2> HIDE DEF c, f
  <2> QED
      BY <1>2, <2>1, <2>2 DEF SameClaims, SameRest, SameCredit, Pool
<1> HIDE DEF c
<1>4. Same(p, c)
    BY <1>1, <1>2, <1>3 DEF SameClaims, SameRest, SameCredit
<1>5. accrueIdleFees(p, t) = p \/ accrueIdleFees(p, t) = c
    BY Zenon DEF accrueIdleFees, b, r, c
<1> QED
    BY <1>4, <1>5 DEF SameClaims, SameRest, SameCredit

\* A coupon of non-negative dollar-seconds is one, and of none is none.
LEMMA CouponNat ==
    /\ \A ds \in Nat : coupon(ds) \in Nat
    /\ coupon(0) = 0
<1>1. AprAnnual \in Nat /\ WAD * SECONDS_PER_YEAR \in Nat \ {0}
    BY PoolAssumption, Denominators
<1>2. ASSUME NEW ds \in Nat PROVE coupon(ds) \in Nat
    BY <1>1, MulDivNat DEF coupon
<1> DEFINE d == WAD * SECONDS_PER_YEAR
<1>3. coupon(0) = (0 * AprAnnual) \div d
    BY DEF coupon, mulDiv
<1> HIDE DEF d
<1>4. 0 * AprAnnual = 0 /\ d \in Nat \ {0}
    BY <1>1 DEF d
<1>5. 0 \div d = 0
    BY <1>4
<1> QED
    BY <1>2, <1>3, <1>4, <1>5

\* Accruals only add to the overrun, and to nothing when nothing is out.
LEMMA AccrueMoney ==
    ASSUME NEW p \in Pool, NEW t \in Nat
    PROVE  LET q == accrue(p, t)
           IN  /\ SameClaims(p, q) /\ SameRest(p, q) /\ SameCredit(p, q)
               /\ p.outstanding >= 0 => q.overrunYield >= p.overrunYield
               /\ p.outstanding = 0 => q.overrunYield = p.overrunYield
<1> DEFINE i == accrueIdleFees(p, t)
           ds == i.outstanding * (t - i.lastOverrunTs)
           e == accrueExtensionYield(i, t)
<1>1. /\ i \in Pool /\ SameLedger(p, i) /\ i.overrunYield = p.overrunYield
      /\ SameClaims(p, i) /\ SameRest(p, i) /\ SameCredit(p, i)
    BY IdleFeesPool, IdleFeesMoney
<1> HIDE DEF i
<1>2. \/ e = i
      \/ /\ t > i.lastOverrunTs
         /\ e = [i EXCEPT !.overrunYield = @ + coupon(ds), !.lastOverrunTs = t]
  <2>1. i.lastOverrunTs \in Nat
      BY <1>1, PoolTypes
  <2>2. ~(t <= i.lastOverrunTs) => t > i.lastOverrunTs
      BY <2>1
  <2> QED
      BY <2>2, Zenon DEF accrueExtensionYield
<1>3. t > i.lastOverrunTs =>
          /\ i.outstanding >= 0 => coupon(ds) \in Nat
          /\ i.outstanding = 0 => coupon(ds) = 0
  <2>1. i.lastOverrunTs \in Nat /\ i.outstanding \in Int
      BY <1>1, PoolTypes
  <2>2. t > i.lastOverrunTs /\ i.outstanding >= 0 => ds \in Nat
    <3>1. t > i.lastOverrunTs /\ i.outstanding >= 0
              => i.outstanding \in Nat /\ t - i.lastOverrunTs \in Nat
        BY <2>1
    <3> QED
        BY <3>1, MulNat
  <2>3. i.outstanding = 0 => ds = 0
      BY <2>1
  <2> QED
      BY <2>2, <2>3, CouponNat
<1> HIDE DEF ds
<1>4. accrue(p, t) = e
    BY DEF accrue, e, i
<1> HIDE DEF e
<1>5. i.overrunYield \in Int /\ i.outstanding = p.outstanding
    BY <1>1, PoolTypes DEF SameLedger
<1>6. CASE e = i
    BY <1>1, <1>4, <1>5, <1>6
<1>7. CASE /\ t > i.lastOverrunTs
           /\ e = [i EXCEPT !.overrunYield = @ + coupon(ds), !.lastOverrunTs = t]
  <2>1. /\ SameClaims(i, e) /\ SameRest(i, e) /\ SameCredit(i, e)
        /\ e.overrunYield = i.overrunYield + coupon(ds)
      BY <1>1, <1>7 DEF SameClaims, SameRest, SameCredit, Pool
  <2>2. SameClaims(p, e) /\ SameRest(p, e) /\ SameCredit(p, e)
      BY <1>1, <2>1 DEF SameClaims, SameRest, SameCredit
  <2> QED
      BY <1>1, <1>3, <1>4, <1>5, <1>7, <2>1, <2>2
<1> QED
    BY <1>2, <1>6, <1>7

\* The tokens a locked pool must hold: what is undrawn, what is collected and not claimed,
\* and the surplus.
InPool(p) ==
    p.availableToDd + (p.collectedPrincipal - p.claimedPrincipal)
      + (p.collectedYield - p.claimedYield)
      + (p.collectedOverrunYield - p.claimedOverrunYield)
      + (p.collectedBonus - p.claimedBonus)
      + p.reservedYield + p.protocolFees

Held(p) == IF p.status \in LockedStatuses THEN InPool(p) ELSE p.principal

\* What has been collected of each stream only grows.
Grows(p, q) ==
    /\ q.collectedPrincipal >= p.collectedPrincipal
    /\ q.collectedYield >= p.collectedYield
    /\ q.collectedOverrunYield >= p.collectedOverrunYield
    /\ q.collectedBonus >= p.collectedBonus

\* No amount is negative.
NonNeg(p) ==
    /\ p.principal >= 0 /\ p.availableToDd >= 0 /\ p.outstanding >= 0
    /\ p.collectedPrincipal >= 0
    /\ p.yieldOwed >= 0 /\ p.overrunYield >= 0
    /\ p.collectedYield >= 0 /\ p.collectedOverrunYield >= 0 /\ p.collectedBonus >= 0
    /\ p.reservedYield >= 0 /\ p.protocolFees >= 0
    /\ p.fundingCredit >= 0 /\ p.dollarSeconds >= 0 /\ p.span >= 0
    /\ p.claimedPrincipal >= 0 /\ p.claimedYield >= 0 /\ p.claimedOverrunYield >= 0
    /\ p.claimedBonus >= 0

\* The waterfall puts an amount into coupon, overrun and surplus, and loses none of it.
LEMMA FillMoney ==
    ASSUME NEW p \in Pool, NEW amount \in Int
    PROVE  LET q == fill(p, amount)
           IN  /\ SameClaims(p, q) /\ SameCredit(p, q)
               /\ q.protocolFees = p.protocolFees /\ q.collectedBonus = p.collectedBonus
               /\ q.overrunYield = p.overrunYield
               /\ q.collectedYield + q.collectedOverrunYield + surplus(p, amount)
                      = p.collectedYield + p.collectedOverrunYield + amount
               /\ amount >= 0 => /\ q.collectedYield >= p.collectedYield
                                 /\ q.collectedOverrunYield >= p.collectedOverrunYield
               /\ surplus(p, amount) \in Nat
               /\ amount <= yieldShort(p) + overrunShort(p) => surplus(p, amount) = 0
<1> DEFINE toBase    == least(yieldShort(p), amount)
           toOverrun == least(overrunShort(p), amount - toBase)
           q         == [p EXCEPT !.collectedYield = @ + toBase,
                                  !.collectedOverrunYield = @ + toOverrun]
<1>1. yieldShort(p) \in Nat /\ overrunShort(p) \in Nat
    BY PoolTypes DEF yieldShort, overrunShort, monus
<1>2. fill(p, amount) = q
    BY Zenon DEF fill
<1>3. /\ SameClaims(p, q) /\ SameCredit(p, q)
      /\ q.protocolFees = p.protocolFees /\ q.collectedBonus = p.collectedBonus
      /\ q.overrunYield = p.overrunYield
      /\ q.collectedYield = p.collectedYield + toBase
      /\ q.collectedOverrunYield = p.collectedOverrunYield + toOverrun
  <2> HIDE DEF toBase, toOverrun
  <2> QED
      BY DEF SameClaims, SameCredit, Pool
<1> HIDE DEF q
<1>4. /\ toBase + toOverrun + surplus(p, amount) = amount
      /\ amount >= 0 => toBase >= 0 /\ toOverrun >= 0
      /\ toBase \in Int /\ toOverrun \in Int
      /\ surplus(p, amount) \in Nat
      /\ amount <= yieldShort(p) + overrunShort(p) => surplus(p, amount) = 0
    BY <1>1 DEF surplus, monus, least
<1> HIDE DEF toBase, toOverrun
<1>5. p.collectedYield \in Int /\ p.collectedOverrunYield \in Int
    BY PoolTypes
<1> QED
    BY <1>2, <1>3, <1>4, <1>5

\* A payment reaches the pool's books unit for unit, and lowers none of them.
LEMMA AllocateMoney ==
    ASSUME NEW p \in Pool, NEW amount \in Nat, NEW t \in Nat, NonNeg(p)
    PROVE  LET q == allocate(p, amount, t)
           IN  /\ SameClaims(p, q) /\ SameCredit(p, q)
               /\ q.collectedBonus = p.collectedBonus
               /\ q.overrunYield = p.overrunYield /\ q.yieldOwed = p.yieldOwed
               /\ InPool(q) = InPool(p) + amount
               /\ Grows(p, q) /\ NonNeg(q)
<1> DEFINE q == allocate(p, amount, t)
<1>1. q \in Pool /\ SameLedger(p, q) /\ SameIdle(p, q)
    BY AllocatePool
<1>2. CASE p.status = "Active" /\ t < p.poolFinalityTs
  <2> DEFINE base == least(yieldShort(p), amount)
             kept == monus(amount, yieldShort(p))
             r    == [p EXCEPT !.collectedYield = @ + base, !.reservedYield  = @ + kept]
  <2>1. q = r
      BY <1>2, Zenon DEF allocate
  <2>2. base \in Nat /\ kept \in Nat /\ base + kept = amount
      BY PoolTypes DEF yieldShort, monus, least
  <2> HIDE DEF base, kept
  <2>3. /\ SameClaims(p, r) /\ SameCredit(p, r) /\ SameRest(p, r)
        /\ r.collectedYield = p.collectedYield + base
        /\ r.reservedYield = p.reservedYield + kept
        /\ r.overrunYield = p.overrunYield /\ r.yieldOwed = p.yieldOwed
      BY DEF SameClaims, SameCredit, SameRest, Pool
  <2> HIDE DEF r, q
  <2> QED
      BY <1>1, <2>1, <2>2, <2>3, PoolTypes
      DEF InPool, Grows, NonNeg, SameClaims, SameCredit, SameRest, SameLedger, q
<1>3. CASE ~(p.status = "Active" /\ t < p.poolFinalityTs)
  <2> DEFINE amt  == amount + p.reservedYield
             rest == surplus(p, amt)
             f    == fill(p, amt)
             r    == [f EXCEPT !.reservedYield = 0, !.protocolFees = @ + rest]
  <2>1. q = r
      BY <1>3, Zenon DEF allocate
  <2>2. amt \in Int /\ amt >= 0 /\ amt = amount + p.reservedYield
      BY PoolTypes DEF NonNeg
  <2> HIDE DEF amt
  <2>3. /\ f \in Pool /\ SameLedger(p, f)
        /\ f.yieldOwed = p.yieldOwed
        /\ SameClaims(p, f) /\ SameCredit(p, f)
        /\ f.protocolFees = p.protocolFees /\ f.collectedBonus = p.collectedBonus
        /\ f.overrunYield = p.overrunYield
        /\ f.collectedYield + f.collectedOverrunYield + rest
                      = p.collectedYield + p.collectedOverrunYield + amt
        /\ f.collectedYield >= p.collectedYield
        /\ f.collectedOverrunYield >= p.collectedOverrunYield
        /\ rest \in Nat
      BY <2>2, FillPool, FillMoney
  <2> HIDE DEF f, rest
  <2>4. /\ SameClaims(f, r) /\ SameCredit(f, r)
        /\ r.collectedYield = f.collectedYield /\ r.reservedYield = 0
        /\ r.collectedOverrunYield = f.collectedOverrunYield
        /\ r.collectedBonus = f.collectedBonus
        /\ r.protocolFees = f.protocolFees + rest
        /\ r.overrunYield = f.overrunYield /\ r.yieldOwed = f.yieldOwed
      BY <2>3 DEF SameClaims, SameCredit, Pool
  <2> HIDE DEF r, q
  <2>5. r \in Pool
      BY <1>1, <2>1
  <2>6. SameClaims(p, r) /\ SameCredit(p, r)
      BY <2>3, <2>4 DEF SameClaims, SameCredit
  <2>7. /\ r.collectedYield + r.collectedOverrunYield + r.protocolFees
             = p.collectedYield + p.collectedOverrunYield + p.protocolFees + p.reservedYield
                 + amount
        /\ r.collectedYield >= p.collectedYield
        /\ r.collectedOverrunYield >= p.collectedOverrunYield
        /\ r.protocolFees >= p.protocolFees
      BY <2>2, <2>3, <2>4, PoolTypes
  <2>8. SameLedger(p, r)
      BY <1>1, <2>1
  <2>9. InPool(r) = InPool(p) + amount
      BY <2>3, <2>4, <2>5, <2>6, <2>7, <2>8, PoolTypes DEF InPool, SameClaims, SameLedger
  <2>10. Grows(p, r) /\ NonNeg(r)
      BY <2>3, <2>4, <2>5, <2>6, <2>7, <2>8, PoolTypes
      DEF Grows, NonNeg, SameClaims, SameLedger, SameCredit
  <2> QED
      BY <2>1, <2>3, <2>4, <2>6, <2>9, <2>10 DEF q
<1> QED
    BY <1>2, <1>3

\* A share of an amount, rounded down, is between nothing and the amount.
LEMMA ShareOf ==
    ASSUME NEW x \in Nat, NEW d \in Nat \ {0}, NEW r \in 0..d
    PROVE  mulDiv(x, r, d) \in Nat /\ mulDiv(x, r, d) <= x
<1>1. mulDiv(x, r, d) \in Nat
    BY MulDivNat
<1>2. x * r <= x * d
  <2>1. x * r \in Nat /\ x * (d - r) \in Nat
      OBVIOUS
  <2>2. x * d = x * r + x * (d - r)
      OBVIOUS
  <2> QED
      BY <2>1, <2>2
<1> DEFINE n == x * r
           q == n \div d
<1>3. n \in Nat /\ q \in Int /\ d * q <= n
    OBVIOUS
<1>4. n <= x * d
    BY <1>2
<1> HIDE DEF n, q
<1>5. q <= x
  <2>1. SUFFICES ASSUME q >= x + 1 PROVE FALSE
      BY <1>3
  <2>2. d * q >= d * (x + 1)
    <3>1. q - (x + 1) \in Nat
        BY <1>3, <2>1
    <3>2. d * (q - (x + 1)) \in Nat
        BY <3>1
    <3>3. d * q = d * (x + 1) + d * (q - (x + 1))
        BY <1>3
    <3> QED
        BY <1>3, <3>2, <3>3
  <2>3. d * (x + 1) = x * d + d /\ x * d \in Nat
      OBVIOUS
  <2> QED
      BY <1>3, <1>4, <2>2, <2>3
<1> QED
    BY <1>1, <1>5 DEF mulDiv, q, n

\* The reserve is in order: it never owes.
ReserveSound(tr) == tr.reserveBalance >= 0 /\ tr.imFeesBalance >= 0

\* What a normal close sends to the reserve is part of the surplus.
LEMMA TopUpMoney ==
    ASSUME NEW p \in Pool, NEW tr \in TreasuryState, p.protocolFees >= 0, p.reservedYield >= 0
    PROVE  /\ terminalTopUp(p, tr) \in Nat
           /\ terminalTopUp(p, tr) <= p.protocolFees + p.reservedYield
<1> DEFINE x == p.protocolFees + p.reservedYield
<1>1. x \in Nat /\ WAD \in Nat \ {0}
    BY PoolTypes, Denominators
<1>2. tr.risk.reserveRate \in 0..WAD /\ tr.risk.reserveTarget \in Nat
      /\ tr.reserveBalance \in Int
    BY TreasuryAssumption DEF TreasuryState
<1> HIDE DEF x
<1>3. mulDiv(x, tr.risk.reserveRate, WAD) \in Nat /\ mulDiv(x, tr.risk.reserveRate, WAD) <= x
    BY <1>1, <1>2, ShareOf
<1>4. reserveShortfallToTarget(tr) \in Nat
    BY <1>2 DEF reserveShortfallToTarget, monus
<1>5. terminalTopUp(p, tr) = least(mulDiv(x, tr.risk.reserveRate, WAD),
                                   reserveShortfallToTarget(tr))
    BY DEF terminalTopUp, x
<1>6. terminalTopUp(p, tr) \in Nat /\ terminalTopUp(p, tr) <= x
    BY <1>1, <1>3, <1>4, <1>5 DEF least
<1> QED
    BY <1>6 DEF x

\* Collecting what is undrawn moves it within the books.
LEMMA UndrawnMoney ==
    ASSUME NEW p \in Pool
    PROVE  LET q == collectUndrawn(p)
           IN  /\ SameClaims(p, q) /\ SameRest(p, q) /\ SameCredit(p, q)
               /\ q.overrunYield = p.overrunYield
               /\ q.accIdleFees = p.accIdleFees /\ q.accPenalty = p.accPenalty
               /\ InPool(q) = InPool(p)
               /\ p.availableToDd >= 0 => Grows(p, q)
               /\ NonNeg(p) => NonNeg(q)
<1> DEFINE q == collectUndrawn(p)
<1>1. /\ q \in Pool /\ q.principal = p.principal /\ q.availableToDd = 0
      /\ q.outstanding = p.outstanding
      /\ q.collectedPrincipal = p.collectedPrincipal + p.availableToDd
      /\ SameCoupon(p, q)
    BY UndrawnPool
<1>2. /\ SameClaims(p, q) /\ SameRest(p, q) /\ SameCredit(p, q)
      /\ q.overrunYield = p.overrunYield
      /\ q.accIdleFees = p.accIdleFees /\ q.accPenalty = p.accPenalty
  <2>1. q = [p EXCEPT !.collectedPrincipal = @ + p.availableToDd, !.availableToDd = 0,
                      !.idleExemptAmount = 0, !.idleExemptUntil = 0]
      BY Zenon DEF collectUndrawn
  <2> HIDE DEF q
  <2> QED
      BY <2>1 DEF SameClaims, SameRest, SameCredit, Pool
<1> HIDE DEF q
<1>3. InPool(q) = InPool(p)
    BY <1>1, <1>2, PoolTypes DEF InPool, SameClaims, SameRest, SameCoupon
<1>4. (p.availableToDd >= 0 => Grows(p, q)) /\ (NonNeg(p) => NonNeg(q))
    BY <1>1, <1>2, PoolTypes DEF Grows, NonNeg, SameClaims, SameRest, SameCoupon, SameCredit
<1> QED
    BY <1>2, <1>3, <1>4 DEF q

\* The terminal split hands out the surplus it does not send to the reserve.
LEMMA SplitMoney ==
    ASSUME NEW p \in Pool, NEW tr \in TreasuryState, NonNeg(p), p.collectedBonus = 0
    PROVE  LET q == settleTerminalSplit(p, tr)
           IN  /\ SameClaims(p, q) /\ SameCredit(p, q)
               /\ q.yieldOwed = p.yieldOwed /\ q.overrunYield = p.overrunYield
               /\ q.collectedYield = p.collectedYield
               /\ q.collectedOverrunYield = p.collectedOverrunYield
               /\ InPool(q) = InPool(p) - terminalTopUp(p, tr)
               /\ Grows(p, q) /\ NonNeg(q)
<1> DEFINE residual == p.protocolFees + p.reservedYield - terminalTopUp(p, tr)
           hurdle   == mulDiv(tr.risk.protocolHurdleFrac, p.yieldOwed + p.overrunYield, WAD)
           lpBonus  == mulDiv(tr.risk.lpBonusShare, monus(residual, hurdle), WAD)
           fees     == residual - lpBonus
           q        == [p EXCEPT !.reservedYield = 0, !.collectedBonus = lpBonus,
                                 !.protocolFees = fees]
<1>1. settleTerminalSplit(p, tr) = q
    BY DEF settleTerminalSplit
<1>2. q \in Pool /\ SameLedger(p, q)
    BY <1>1, SplitPool
<1>3. residual \in Nat /\ terminalTopUp(p, tr) \in Nat
      /\ residual + terminalTopUp(p, tr) = p.protocolFees + p.reservedYield
    BY TopUpMoney, PoolTypes DEF NonNeg
<1> HIDE DEF residual
<1>4. hurdle \in Nat
  <2>1. p.yieldOwed + p.overrunYield \in Nat /\ tr.risk.protocolHurdleFrac \in Nat
      BY PoolTypes, TreasuryAssumption DEF NonNeg, TreasuryState
  <2> QED
      BY <2>1, MulDivNat, Denominators
<1> HIDE DEF hurdle
<1>5. monus(residual, hurdle) \in Nat /\ monus(residual, hurdle) <= residual
    BY <1>3, <1>4 DEF monus
<1>6. lpBonus \in Nat /\ lpBonus <= residual
  <2> DEFINE y == monus(residual, hurdle)
  <2>1. tr.risk.lpBonusShare \in 0..WAD /\ WAD \in Nat \ {0}
      BY TreasuryAssumption, Denominators DEF TreasuryState
  <2>2. y \in Nat /\ y <= residual
      BY <1>5
  <2> HIDE DEF y
  <2>3. mulDiv(y, tr.risk.lpBonusShare, WAD) \in Nat
        /\ mulDiv(y, tr.risk.lpBonusShare, WAD) <= y
      BY <2>1, <2>2, ShareOf
  <2>4. mulDiv(y, tr.risk.lpBonusShare, WAD) = mulDiv(tr.risk.lpBonusShare, y, WAD)
    <3>1. y * tr.risk.lpBonusShare = tr.risk.lpBonusShare * y
        BY <2>1, <2>2
    <3> QED
        BY <3>1 DEF mulDiv
  <2>5. lpBonus = mulDiv(tr.risk.lpBonusShare, y, WAD)
      BY DEF y
  <2> HIDE DEF lpBonus
  <2> QED
      BY <1>3, <2>2, <2>3, <2>4, <2>5
<1> HIDE DEF lpBonus
<1>7. fees \in Nat /\ fees + lpBonus = residual
    BY <1>3, <1>6
<1> HIDE DEF fees
<1>8. /\ SameClaims(p, q) /\ SameCredit(p, q)
      /\ q.yieldOwed = p.yieldOwed /\ q.overrunYield = p.overrunYield
      /\ q.collectedYield = p.collectedYield
      /\ q.collectedOverrunYield = p.collectedOverrunYield
      /\ q.reservedYield = 0 /\ q.collectedBonus = lpBonus /\ q.protocolFees = fees
    BY DEF SameClaims, SameCredit, Pool
<1> HIDE DEF q
<1>9. InPool(q) = InPool(p) - terminalTopUp(p, tr)
    BY <1>2, <1>3, <1>6, <1>7, <1>8, PoolTypes DEF InPool, SameClaims, SameLedger
<1>10. Grows(p, q) /\ NonNeg(q)
    BY <1>2, <1>6, <1>7, <1>8, PoolTypes
    DEF Grows, NonNeg, SameClaims, SameLedger, SameCredit
<1> QED
    BY <1>1, <1>8, <1>9, <1>10

\* Writing the status and the flag of the PSP moves no money.
LEMMA CloseMoney ==
    ASSUME NEW p \in Pool, NEW s \in Statuses
    PROVE  LET c == [p EXCEPT !.status = s]
               q == releasePsp(p)
           IN  /\ c \in Pool /\ c.status = s /\ c.pspReleased = p.pspReleased
               /\ q \in Pool /\ q.status = p.status /\ q.pspReleased
               /\ \A r \in {c, q} :
                      /\ SameClaims(p, r) /\ SameCredit(p, r) /\ SameRest(p, r)
                      /\ SameCoupon(p, r) /\ SameLent(p, r)
                      /\ r.principal = p.principal
                      /\ r.overrunYield = p.overrunYield
                      /\ InPool(r) = InPool(p) /\ Grows(p, r)
                      /\ NonNeg(p) => NonNeg(r)
<1> DEFINE c == [p EXCEPT !.status = s]
           q == releasePsp(p)
<1>1. c \in Pool /\ c.status = s /\ c.pspReleased = p.pspReleased
    BY StatusUpdate DEF Pool
<1>2. q \in Pool /\ q.status = p.status /\ q.pspReleased
  <2>1. q \in Pool
      BY FlagUpdate, Zenon DEF releasePsp
  <2>2. q.status = p.status /\ q.pspReleased = TRUE
      BY DEF releasePsp, Pool
  <2> HIDE DEF q
  <2> QED
      BY <2>1, <2>2
<1>3. /\ SameClaims(p, c) /\ SameCredit(p, c) /\ SameRest(p, c) /\ SameCoupon(p, c)
      /\ SameLent(p, c) /\ c.principal = p.principal /\ c.overrunYield = p.overrunYield
    BY DEF SameClaims, SameCredit, SameRest, SameCoupon, SameLent, Pool
<1>4. /\ SameClaims(p, q) /\ SameCredit(p, q) /\ SameRest(p, q) /\ SameCoupon(p, q)
      /\ SameLent(p, q) /\ q.principal = p.principal /\ q.overrunYield = p.overrunYield
    BY DEF SameClaims, SameCredit, SameRest, SameCoupon, SameLent, Pool, releasePsp
<1> HIDE DEF c, q
<1>5. ASSUME NEW r \in {c, q}
      PROVE  InPool(r) = InPool(p) /\ Grows(p, r) /\ (NonNeg(p) => NonNeg(r))
    BY <1>1, <1>2, <1>3, <1>4, PoolTypes
    DEF InPool, Grows, NonNeg, SameClaims, SameCredit, SameRest, SameCoupon, SameLent
<1> QED
    BY <1>1, <1>2, <1>3, <1>4, <1>5 DEF c, q

\* _mature pays the reserve out of the pool and otherwise moves money within its books; it
\* closes a pool that has everything back.
LEMMA MatureMoney ==
    ASSUME NEW p \in Pool, NEW tr \in TreasuryState, NEW t \in Nat,
           NonNeg(p), p.status # "Closed" => p.collectedBonus = 0
    PROVE  LET q == mature(p, tr, t)
           IN  /\ SameClaims(p, q) /\ SameCredit(p, q)
               /\ q.yieldOwed = p.yieldOwed /\ q.overrunYield = p.overrunYield
               /\ q.collectedYield = p.collectedYield
               /\ q.collectedOverrunYield = p.collectedOverrunYield
               /\ q.outstanding = p.outstanding
               /\ maturityTopUp(p, tr, t) \in Nat
               /\ InPool(q) = InPool(p) - maturityTopUp(p, tr, t)
               /\ Grows(p, q) /\ NonNeg(q)
               /\ q.status # "Closed" => q.collectedBonus = p.collectedBonus
               /\ \/ q.status = p.status /\ q.pspReleased = p.pspReleased
                  \/ q.status = "Closed" /\ q.pspReleased /\ whole(q)
<1> DEFINE u == collectUndrawn(p)
           c == [u EXCEPT !.status = "Closed"]
           s == settleTerminalSplit(c, tr)
           q == releasePsp(s)
           m == mature(p, tr, t)
<1>1. /\ u \in Pool /\ u.status = p.status /\ u.pspReleased = p.pspReleased
      /\ u.outstanding = p.outstanding /\ u.principal = p.principal /\ SameCoupon(p, u)
      /\ SameClaims(p, u) /\ SameRest(p, u) /\ SameCredit(p, u)
      /\ u.overrunYield = p.overrunYield
      /\ InPool(u) = InPool(p) /\ Grows(p, u) /\ NonNeg(u)
    BY UndrawnPool, UndrawnMoney DEF NonNeg
<1>2. InPool(p) \in Int
    BY PoolTypes DEF InPool
<1>3. CASE closes(p, t)
  <2>1. m = q /\ p.status = "Active" /\ whole(u)
        /\ maturityTopUp(p, tr, t) = terminalTopUp(p, tr)
      BY <1>3, Zenon DEF mature, closes, matures, maturityTopUp
  <2> HIDE DEF u
  <2>2. /\ c \in Pool /\ c.status = "Closed"
        /\ SameClaims(u, c) /\ SameCredit(u, c) /\ SameRest(u, c) /\ SameCoupon(u, c)
        /\ SameLent(u, c) /\ c.principal = u.principal /\ c.overrunYield = u.overrunYield
        /\ InPool(c) = InPool(u) /\ Grows(u, c) /\ NonNeg(c)
      BY <1>1, CloseMoney DEF Statuses
  <2> HIDE DEF c
  <2>3. c.collectedBonus = 0
      BY <1>1, <2>1, <2>2 DEF SameRest
  <2>4. /\ s \in Pool /\ SameLedger(c, s) /\ SameClaims(c, s) /\ SameCredit(c, s)
        /\ s.yieldOwed = c.yieldOwed /\ s.overrunYield = c.overrunYield
        /\ s.collectedYield = c.collectedYield
        /\ s.collectedOverrunYield = c.collectedOverrunYield
        /\ InPool(s) = InPool(c) - terminalTopUp(c, tr)
        /\ Grows(c, s) /\ NonNeg(s)
      BY <2>2, <2>3, SplitPool, SplitMoney
  <2> HIDE DEF s
  <2>5. /\ q \in Pool /\ q.status = s.status /\ q.pspReleased
        /\ SameClaims(s, q) /\ SameCredit(s, q) /\ SameRest(s, q)
        /\ SameCoupon(s, q) /\ SameLent(s, q)
        /\ q.principal = s.principal /\ q.overrunYield = s.overrunYield
        /\ InPool(q) = InPool(s) /\ Grows(s, q) /\ NonNeg(q)
      BY <2>4, CloseMoney DEF Statuses
  <2> HIDE DEF q
  <2>6. terminalTopUp(c, tr) = terminalTopUp(p, tr) /\ terminalTopUp(p, tr) \in Nat
    <3>1. c.protocolFees = p.protocolFees /\ c.reservedYield = p.reservedYield
        BY <1>1, <2>2 DEF SameRest, SameCoupon
    <3>2. terminalTopUp(c, tr) = terminalTopUp(p, tr)
        BY <3>1 DEF terminalTopUp
    <3> QED
        BY <3>2, TopUpMoney DEF NonNeg
  <2>7. SameClaims(p, q) /\ SameCredit(p, q)
      BY <1>1, <2>2, <2>4, <2>5 DEF SameClaims, SameCredit
  <2>8. /\ q.yieldOwed = p.yieldOwed /\ q.overrunYield = p.overrunYield
        /\ q.collectedYield = p.collectedYield
        /\ q.collectedOverrunYield = p.collectedOverrunYield
        /\ q.outstanding = p.outstanding
        /\ q.collectedPrincipal = u.collectedPrincipal /\ q.principal = u.principal
      BY <1>1, <2>2, <2>4, <2>5 DEF SameCoupon, SameRest, SameLent, SameLedger
  <2>9. whole(q)
      BY <1>1, <2>1, <2>8 DEF whole, SameRest, SameCoupon
  <2>10. Grows(p, q)
      BY <1>1, <2>2, <2>4, <2>5, PoolTypes DEF Grows
  <2>11. q.status = "Closed"
      BY <2>2, <2>4, <2>5 DEF SameLedger
  <2>12. InPool(q) = InPool(p) - terminalTopUp(p, tr)
      BY <1>1, <1>2, <2>2, <2>4, <2>5, <2>6
  <2> QED
      BY <2>1, <2>5, <2>6, <2>7, <2>8, <2>9, <2>10, <2>11, <2>12 DEF m
<1>4. CASE ~closes(p, t)
  <2>1. maturityTopUp(p, tr, t) = 0 /\ (m = u \/ m = p)
      BY <1>4, Zenon DEF mature, maturityTopUp
  <2> HIDE DEF u, m
  <2>2. CASE m = u
      BY <1>1, <1>2, <2>1, <2>2 DEF m, SameCoupon, SameRest
  <2>3. CASE m = p
    <3>1. SameClaims(p, p) /\ SameCredit(p, p) /\ Grows(p, p)
        BY PoolTypes DEF SameClaims, SameCredit, Grows
    <3> QED
        BY <1>2, <2>1, <2>3, <3>1 DEF m
  <2> QED
      BY <2>1, <2>2, <2>3
<1> QED
    BY <1>3, <1>4

\* The end of a default moves no money either.
LEMMA ResolveMoney ==
    ASSUME NEW p \in Pool
    PROVE  LET q == resolveDefaultIfWhole(p)
           IN  /\ q \in Pool
               /\ SameClaims(p, q) /\ SameCredit(p, q) /\ SameRest(p, q)
               /\ SameCoupon(p, q) /\ SameLent(p, q)
               /\ q.principal = p.principal /\ q.overrunYield = p.overrunYield
               /\ InPool(q) = InPool(p) /\ Grows(p, q)
               /\ NonNeg(p) => NonNeg(q)
               /\ \/ q.status = p.status /\ q.pspReleased = p.pspReleased
                  \/ q.status = "Closed" /\ q.pspReleased /\ whole(q)
<1> DEFINE c == [p EXCEPT !.status = "Closed"]
           q == releasePsp(c)
           m == resolveDefaultIfWhole(p)
<1>1. \/ m = p
      \/ m = q /\ whole(p)
    BY Zenon DEF resolveDefaultIfWhole
<1>2. /\ c \in Pool /\ c.status = "Closed"
      /\ SameClaims(p, c) /\ SameCredit(p, c) /\ SameRest(p, c) /\ SameCoupon(p, c)
      /\ SameLent(p, c) /\ c.principal = p.principal /\ c.overrunYield = p.overrunYield
      /\ InPool(c) = InPool(p) /\ Grows(p, c) /\ (NonNeg(p) => NonNeg(c))
    BY CloseMoney DEF Statuses
<1> HIDE DEF c
<1>3. /\ q \in Pool /\ q.status = c.status /\ q.pspReleased
      /\ SameClaims(c, q) /\ SameCredit(c, q) /\ SameRest(c, q) /\ SameCoupon(c, q)
      /\ SameLent(c, q) /\ q.principal = c.principal /\ q.overrunYield = c.overrunYield
      /\ InPool(q) = InPool(c) /\ Grows(c, q) /\ (NonNeg(c) => NonNeg(q))
    BY <1>2, CloseMoney DEF Statuses
<1> HIDE DEF q, m
<1>4. CASE m = p
  <2>1. /\ SameClaims(p, p) /\ SameCredit(p, p) /\ SameRest(p, p) /\ SameCoupon(p, p)
        /\ SameLent(p, p) /\ Grows(p, p)
      BY PoolTypes DEF SameClaims, SameCredit, SameRest, SameCoupon, SameLent, Grows
  <2> QED
      BY <1>4, <2>1 DEF m
<1>5. CASE m = q /\ whole(p)
  <2>1. /\ SameClaims(p, q) /\ SameCredit(p, q) /\ SameRest(p, q) /\ SameCoupon(p, q)
        /\ SameLent(p, q)
      BY <1>2, <1>3 DEF SameClaims, SameCredit, SameRest, SameCoupon, SameLent
  <2>2. Grows(p, q)
      BY <2>1, PoolTypes DEF SameRest, SameCoupon, SameLent, Grows
  <2>3. whole(q)
      BY <1>2, <1>3, <1>5, <2>1 DEF whole, SameRest, SameCoupon, SameLent
  <2> QED
      BY <1>2, <1>3, <1>5, <2>1, <2>2, <2>3 DEF m
<1> QED
    BY <1>1, <1>4, <1>5

\* The rescue of a defaulted pool moves surplus to what it owes, principal last.
LEMMA RescueMoney ==
    ASSUME NEW p \in Pool, NonNeg(p)
    PROVE  LET q == rescue(p)
           IN  /\ SameClaims(p, q) /\ SameCredit(p, q)
               /\ q.collectedBonus = p.collectedBonus
               /\ InPool(q) = InPool(p) /\ Grows(p, q) /\ NonNeg(q)
               /\ q.outstanding <= p.outstanding
<1> DEFINE amt  == p.reservedYield + p.protocolFees
           f    == fill(p, amt)
           rest == surplus(p, amt)
           toPrincipal == least(p.outstanding, rest)
           q    == [f EXCEPT !.reservedYield = 0, !.protocolFees = rest - toPrincipal,
                             !.collectedPrincipal = @ + toPrincipal,
                             !.outstanding = @ - toPrincipal]
<1>1. rescue(p) = q
    BY Zenon DEF rescue
<1>2. amt \in Int /\ amt >= 0 /\ amt = p.reservedYield + p.protocolFees
    BY PoolTypes DEF NonNeg
<1> HIDE DEF amt
<1>3. /\ f \in Pool /\ SameLedger(p, f) /\ f.yieldOwed = p.yieldOwed
      /\ SameClaims(p, f) /\ SameCredit(p, f)
      /\ f.protocolFees = p.protocolFees /\ f.collectedBonus = p.collectedBonus
      /\ f.overrunYield = p.overrunYield
      /\ f.collectedYield + f.collectedOverrunYield + rest
                    = p.collectedYield + p.collectedOverrunYield + amt
      /\ f.collectedYield >= p.collectedYield
      /\ f.collectedOverrunYield >= p.collectedOverrunYield
      /\ rest \in Nat
    BY <1>2, FillPool, FillMoney
<1> HIDE DEF f, rest
<1>4. toPrincipal \in Nat /\ toPrincipal <= rest /\ toPrincipal <= p.outstanding
    BY <1>3, PoolTypes DEF NonNeg, least
<1> HIDE DEF toPrincipal
<1>5. q \in Pool
    BY <1>1, RescuePool
<1>6. /\ SameClaims(f, q) /\ SameCredit(f, q)
      /\ q.collectedYield = f.collectedYield /\ q.reservedYield = 0
      /\ q.collectedOverrunYield = f.collectedOverrunYield
      /\ q.collectedBonus = f.collectedBonus
      /\ q.protocolFees = rest - toPrincipal
      /\ q.overrunYield = f.overrunYield /\ q.yieldOwed = f.yieldOwed
      /\ q.principal = f.principal /\ q.availableToDd = f.availableToDd
      /\ q.collectedPrincipal = f.collectedPrincipal + toPrincipal
      /\ q.outstanding = f.outstanding - toPrincipal
    BY <1>3 DEF SameClaims, SameCredit, Pool
<1> HIDE DEF q
<1>7. SameClaims(p, q) /\ SameCredit(p, q)
    BY <1>3, <1>6 DEF SameClaims, SameCredit
<1>8. InPool(q) = InPool(p)
    BY <1>2, <1>3, <1>4, <1>5, <1>6, <1>7, PoolTypes DEF InPool, SameClaims, SameLedger
<1>9. Grows(p, q) /\ NonNeg(q)
    BY <1>3, <1>4, <1>5, <1>6, <1>7, PoolTypes
    DEF Grows, NonNeg, SameClaims, SameLedger, SameCredit
<1>10. q.outstanding <= p.outstanding
    BY <1>3, <1>4, <1>6, PoolTypes DEF SameLedger
<1> QED
    BY <1>1, <1>3, <1>6, <1>7, <1>8, <1>9, <1>10

\* The rebase writes what is owed and over which span, and moves nothing.
LEMMA RebaseMoney ==
    ASSUME NEW p \in Pool, NEW t \in Nat, p.poolStartTs <= t, NonNeg(p)
    PROVE  LET q == rebaseCoupon(p, t)
           IN  /\ SameClaims(p, q) /\ SameRest(p, q)
               /\ q.collectedYield = p.collectedYield /\ q.reservedYield = p.reservedYield
               /\ q.fundingCredit = p.fundingCredit
               /\ q.lastUpdate = p.lastUpdate /\ q.poolStartTs = p.poolStartTs
               /\ InPool(q) = InPool(p) /\ Grows(p, q) /\ NonNeg(q)
<1> DEFINE elapsed == t - p.poolStartTs
           ds      == p.fundingCredit + p.principal * elapsed
           q       == [p EXCEPT !.span = elapsed, !.dollarSeconds = ds,
                                !.yieldOwed = coupon(ds)]
           r       == [p EXCEPT !.yieldOwed = p.collectedYield]
           m       == rebaseCoupon(p, t)
<1>1. m = p \/ m = q \/ m = r
    BY Zenon DEF rebaseCoupon
<1>2. m \in Pool /\ SameLedger(p, m)
    BY RebasePool
<1>3. elapsed \in Nat /\ ds \in Nat /\ coupon(ds) \in Nat
  <2>1. p.poolStartTs \in Nat /\ p.fundingCredit \in Nat /\ p.principal \in Nat
      BY PoolTypes DEF NonNeg
  <2>2. elapsed \in Nat
      BY <2>1
  <2> HIDE DEF elapsed
  <2>3. p.principal * elapsed \in Nat
      BY <2>1, <2>2, MulNat
  <2>4. ds \in Nat
      BY <2>1, <2>3
  <2> QED
      BY <2>2, <2>4, CouponNat
<1> HIDE DEF elapsed, ds
<1>4. ASSUME NEW x \in {p, q, r}
      PROVE  /\ SameClaims(p, x) /\ SameRest(p, x)
             /\ x.collectedYield = p.collectedYield /\ x.reservedYield = p.reservedYield
             /\ x.fundingCredit = p.fundingCredit /\ x.overrunYield = p.overrunYield
             /\ x.lastUpdate = p.lastUpdate /\ x.poolStartTs = p.poolStartTs
             /\ x.span = p.span \/ x.span = elapsed
             /\ x.dollarSeconds = p.dollarSeconds \/ x.dollarSeconds = ds
             /\ \/ x.yieldOwed = p.yieldOwed \/ x.yieldOwed = coupon(ds)
                \/ x.yieldOwed = p.collectedYield
  <2>1. CASE x = p
      BY <2>1 DEF SameClaims, SameRest
  <2>2. CASE x = q
      BY <2>2 DEF SameClaims, SameRest, Pool
  <2>3. CASE x = r
      BY <2>3 DEF SameClaims, SameRest, Pool
  <2> QED
      BY <2>1, <2>2, <2>3
<1> HIDE DEF q, r, m
<1>5. /\ SameClaims(p, m) /\ SameRest(p, m)
      /\ m.collectedYield = p.collectedYield /\ m.reservedYield = p.reservedYield
      /\ m.fundingCredit = p.fundingCredit /\ m.overrunYield = p.overrunYield
      /\ m.lastUpdate = p.lastUpdate /\ m.poolStartTs = p.poolStartTs
      /\ m.span = p.span \/ m.span = elapsed
      /\ m.dollarSeconds = p.dollarSeconds \/ m.dollarSeconds = ds
      /\ \/ m.yieldOwed = p.yieldOwed \/ m.yieldOwed = coupon(ds)
         \/ m.yieldOwed = p.collectedYield
    BY <1>1, <1>4
<1>6. InPool(m) = InPool(p) /\ Grows(p, m)
    BY <1>2, <1>5, PoolTypes DEF InPool, Grows, SameClaims, SameRest, SameLedger
<1>7. NonNeg(m)
    BY <1>2, <1>3, <1>5 DEF NonNeg, SameClaims, SameRest, SameLedger
<1> QED
    BY <1>5, <1>6, <1>7 DEF m

\* Returned principal reaches the books, as undrawn or as collected.
LEMMA ReturnMoney ==
    ASSUME NEW p \in Pool, NEW amount \in Nat \ {0}, NEW t \in Nat, NonNeg(p),
           amount <= p.outstanding
    PROVE  LET q == returnPrincipal(p, amount, t)
           IN  /\ SameClaims(p, q) /\ SameRest(p, q) /\ SameCredit(p, q)
               /\ q.overrunYield = p.overrunYield
               /\ InPool(q) = InPool(p) + amount /\ Grows(p, q) /\ NonNeg(q)
<1> DEFINE q == returnPrincipal(p, amount, t)
           a == [p EXCEPT !.availableToDd = @ + amount, !.outstanding = @ - amount,
                          !.idleExemptAmount = @ + amount,
                          !.idleExemptUntil = (dayOf(t) + 1) * SECONDS_PER_DAY]
           b == [p EXCEPT !.collectedPrincipal = @ + amount, !.outstanding = @ - amount]
<1>1. q \in Pool /\ q.principal = p.principal /\ SameCoupon(p, q)
    BY ReturnPool
<1>2. q = a \/ q = b
    BY Zenon DEF returnPrincipal
<1> HIDE DEF q
<1>3. CASE q = a
  <2>1. /\ SameClaims(p, a) /\ SameRest(p, a) /\ SameCredit(p, a)
        /\ a.overrunYield = p.overrunYield
        /\ a.availableToDd = p.availableToDd + amount
        /\ a.outstanding = p.outstanding - amount
        /\ a.collectedPrincipal = p.collectedPrincipal
      BY DEF SameClaims, SameRest, SameCredit, Pool
  <2> HIDE DEF a
  <2> QED
      BY <1>1, <1>3, <2>1, PoolTypes
      DEF q, InPool, Grows, NonNeg, SameClaims, SameRest, SameCredit, SameCoupon
<1>4. CASE q = b
  <2>1. /\ SameClaims(p, b) /\ SameRest(p, b) /\ SameCredit(p, b)
        /\ b.overrunYield = p.overrunYield
        /\ b.availableToDd = p.availableToDd
        /\ b.outstanding = p.outstanding - amount
        /\ b.collectedPrincipal = p.collectedPrincipal + amount
      BY DEF SameClaims, SameRest, SameCredit, Pool
  <2> HIDE DEF b
  <2> QED
      BY <1>1, <1>4, <2>1, PoolTypes
      DEF q, InPool, Grows, NonNeg, SameClaims, SameRest, SameCredit, SameCoupon
<1> QED
    BY <1>2, <1>3, <1>4

\* Before the lock no money was collected or paid out, and no bonus before the close.
Fresh(p) ==
    /\ p.status \notin LockedStatuses =>
           /\ p.collectedYield = 0 /\ p.collectedOverrunYield = 0 /\ p.protocolFees = 0
           /\ p.claimedPrincipal = 0 /\ p.claimedYield = 0
           /\ p.claimedOverrunYield = 0 /\ p.claimedBonus = 0
    /\ p.status # "Closed" => p.collectedBonus = 0

\* The credit of a pool up to its last checkpoint grows with its principal.
LEMMA CheckpointMoney ==
    ASSUME NEW p \in Pool, NEW t \in Nat, p.lastUpdate <= t
    PROVE  LET q == globalCheckpoint(p, t)
           IN  /\ SameClaims(p, q) /\ SameRest(p, q)
               /\ q.overrunYield = p.overrunYield /\ q.dollarSeconds = p.dollarSeconds
               /\ q.span = p.span /\ q.poolStartTs = p.poolStartTs
               /\ q.fMaturityTs = p.fMaturityTs
               /\ q.fundingCredit
                    = p.fundingCredit + p.principal * (q.lastUpdate - p.lastUpdate)
               /\ p.lastUpdate <= q.lastUpdate
               /\ q.lastUpdate = IF p.status = "Funding" THEN t ELSE p.lastUpdate
               /\ NonNeg(p) => NonNeg(q)
<1> DEFINE q == globalCheckpoint(p, t)
           gain == p.principal * (t - p.lastUpdate)
           g == [p EXCEPT !.fundingCredit = @ + gain, !.lastUpdate = t]
<1>1. q \in Pool /\ SameLedger(p, q) /\ SameCoupon(p, q)
    BY CheckpointPool
<1>2. CASE p.status = "Funding"
  <2>1. q = g
      BY <1>2, Zenon DEF globalCheckpoint
  <2>2. gain \in Int /\ (NonNeg(p) => gain \in Nat)
    <3>1. p.principal \in Int /\ p.lastUpdate \in Nat /\ t - p.lastUpdate \in Nat
        BY PoolTypes
    <3>2. NonNeg(p) => p.principal \in Nat
        BY <3>1 DEF NonNeg
    <3> QED
        BY <3>1, <3>2, MulNat
  <2>3. gain = p.principal * (t - p.lastUpdate)
      OBVIOUS
  <2> HIDE DEF gain
  <2>4. /\ SameClaims(p, g) /\ SameRest(p, g)
        /\ g.overrunYield = p.overrunYield /\ g.dollarSeconds = p.dollarSeconds
        /\ g.span = p.span /\ g.poolStartTs = p.poolStartTs
        /\ g.fMaturityTs = p.fMaturityTs
        /\ g.fundingCredit = p.fundingCredit + gain
        /\ g.lastUpdate = t
      BY DEF SameClaims, SameRest, Pool
  <2> HIDE DEF g, q
  <2>5. NonNeg(p) => NonNeg(q)
      BY <1>1, <2>1, <2>2, <2>4, PoolTypes
      DEF NonNeg, SameClaims, SameRest, SameLedger, SameCoupon
  <2> QED
      BY <1>2, <2>1, <2>3, <2>4, <2>5 DEF q
<1>3. CASE p.status # "Funding"
  <2>1. q = p
      BY <1>3, Zenon DEF globalCheckpoint
  <2>2. p.lastUpdate \in Nat /\ p.fundingCredit \in Int /\ p.principal \in Int
      BY PoolTypes
  <2>3. p.fundingCredit = p.fundingCredit + p.principal * (p.lastUpdate - p.lastUpdate)
    <3>1. p.lastUpdate - p.lastUpdate = 0
        BY <2>2
    <3> QED
        BY <2>2, <3>1
  <2> QED
      BY <1>3, <2>1, <2>2, <2>3 DEF SameClaims, SameRest
<1> QED
    BY <1>2, <1>3

\* _lock makes the principal available and starts the clock; it moves no money.
LEMMA LockMoney ==
    ASSUME NEW p \in Pool, NEW t \in Nat, NonNeg(p)
    PROVE  LET q == lock(p, t)
           IN  /\ SameClaims(p, q) /\ SameRest(p, q)
               /\ q.collectedYield = p.collectedYield /\ q.reservedYield = p.reservedYield
               /\ q.fundingCredit = p.fundingCredit
               /\ q.lastUpdate = t /\ q.poolStartTs = t
               /\ NonNeg(q)
<1> DEFINE q == lock(p, t)
           secs == Tenure * SECONDS_PER_DAY
           ds   == p.fundingCredit + p.principal * secs
           finality == p.fMaturityTs + secs
           r    == [p EXCEPT !.status         = "Active",
                             !.poolStartTs    = t,
                             !.span           = secs,
                             !.poolFinalityTs = finality,
                             !.dollarSeconds  = ds,
                             !.yieldOwed      = coupon(ds),
                             !.availableToDd  = p.principal,
                             !.lastUpdate     = t,
                             !.lastOverrunTs  = finality,
                             !.lastIdleDay    = dayOf(t),
                             !.lastPenaltyDay = dayOf(finality) + PenaltyGraceDays]
<1>1. q = r
    BY Zenon DEF lock
<1>2. secs \in Nat
    BY MulNat, PoolAssumption, MathLibAssumption
<1> HIDE DEF secs
<1>3. ds \in Nat /\ coupon(ds) \in Nat
  <2>1. p.fundingCredit \in Nat /\ p.principal \in Nat
      BY PoolTypes DEF NonNeg
  <2>2. p.principal * secs \in Nat
      BY <1>2, <2>1, MulNat
  <2> QED
      BY <2>1, <2>2, CouponNat
<1> HIDE DEF ds, finality
<1>4. /\ SameClaims(p, r) /\ SameRest(p, r)
      /\ r.collectedYield = p.collectedYield /\ r.reservedYield = p.reservedYield
      /\ r.fundingCredit = p.fundingCredit
      /\ r.lastUpdate = t /\ r.poolStartTs = t
      /\ r.span = secs /\ r.dollarSeconds = ds /\ r.yieldOwed = coupon(ds)
      /\ r.availableToDd = p.principal /\ r.principal = p.principal
      /\ r.outstanding = p.outstanding /\ r.collectedPrincipal = p.collectedPrincipal
      /\ r.overrunYield = p.overrunYield
    BY DEF SameClaims, SameRest, Pool
<1> HIDE DEF r, q
<1>5. NonNeg(r)
    BY <1>2, <1>3, <1>4 DEF NonNeg, SameClaims, SameRest
<1> QED
    BY <1>1, <1>4, <1>5 DEF q

-----------------------------------------------------------------------------
(* Sums over the LPs *)

\* The funding credit a position has at T.
Credit(pos, T) == pos.fundingCredit + pos.principal * (T - pos.lastUpdate)

NonNegPosition(pos) ==
    /\ pos.principal >= 0 /\ pos.fundingCredit >= 0 /\ pos.lastUpdate >= 0
    /\ pos.dollarSeconds >= 0
    /\ pos.claimedYield >= 0 /\ pos.claimedPrincipal >= 0
    /\ pos.claimedOverrunYield >= 0 /\ pos.claimedBonus >= 0

\* The positions L and the pool p: the totals of the pool are the sums over its LPs, and no
\* LP took more than its share of the collected principal.
LpSums(L, p) ==
    /\ p.principal = SumOf([lp \in LPs |-> L[lp].principal], LPs)
    /\ p.fundingCredit = SumOf([lp \in LPs |-> Credit(L[lp], p.lastUpdate)], LPs)
    /\ p.claimedPrincipal = SumOf([lp \in LPs |-> L[lp].claimedPrincipal], LPs)
    /\ p.claimedYield = SumOf([lp \in LPs |-> L[lp].claimedYield], LPs)
    /\ p.claimedOverrunYield = SumOf([lp \in LPs |-> L[lp].claimedOverrunYield], LPs)
    /\ p.claimedBonus = SumOf([lp \in LPs |-> L[lp].claimedBonus], LPs)

LpEach(L, p) ==
    \A lp \in LPs :
        /\ NonNegPosition(L[lp])
        /\ L[lp].lastUpdate <= p.lastUpdate
        /\ L[lp].claimedPrincipal * p.principal <= L[lp].principal * p.collectedPrincipal

LpSound(L, p) == LpEach(L, p) /\ LpSums(L, p)

\* The credit of a position that has not run past T is a natural number.
LEMMA CreditNat ==
    ASSUME NEW pos \in LPPosition, NEW T \in Nat, NonNegPosition(pos), pos.lastUpdate <= T
    PROVE  Credit(pos, T) \in Nat
<1>1. pos.fundingCredit \in Nat /\ pos.principal \in Nat /\ T - pos.lastUpdate \in Nat
    BY PositionTypes DEF NonNegPosition
<1>2. pos.principal * (T - pos.lastUpdate) \in Nat
    BY <1>1, MulNat
<1> QED
    BY <1>1, <1>2 DEF Credit

\* A call that leaves the positions alone keeps them sound when the pool keeps its totals
\* and only collects more principal.
LEMMA LpFrame ==
    ASSUME NEW L \in [LPs -> LPPosition], NEW p \in Pool, NEW q \in Pool, LpSound(L, p),
           SameClaims(p, q), q.fundingCredit = p.fundingCredit, q.lastUpdate = p.lastUpdate,
           q.principal = p.principal, q.collectedPrincipal >= p.collectedPrincipal
    PROVE  LpSound(L, q)
<1>1. LpSums(L, q)
    BY DEF LpSound, LpSums, SameClaims
<1>2. ASSUME NEW lp \in LPs
      PROVE  L[lp].claimedPrincipal * q.principal <= L[lp].principal * q.collectedPrincipal
  <2> DEFINE x == L[lp].principal
             y == L[lp].claimedPrincipal * p.principal
  <2>1. x \in Nat /\ y \in Int /\ y <= x * p.collectedPrincipal
        /\ L[lp].claimedPrincipal \in Int
      BY PositionTypes, PoolTypes DEF LpSound, LpEach, NonNegPosition
  <2> HIDE DEF x, y
  <2>2. q.collectedPrincipal - p.collectedPrincipal \in Nat
        /\ p.collectedPrincipal \in Int /\ q.collectedPrincipal \in Int
      BY PoolTypes
  <2>3. x * (q.collectedPrincipal - p.collectedPrincipal) \in Nat
      BY <2>1, <2>2, MulNat
  <2>4. x * q.collectedPrincipal
          = x * p.collectedPrincipal + x * (q.collectedPrincipal - p.collectedPrincipal)
      BY <2>1, <2>2
  <2>5. y <= x * q.collectedPrincipal
      BY <2>1, <2>2, <2>3, <2>4
  <2> QED
      BY <2>5 DEF x, y
<1> QED
    BY <1>1, <1>2 DEF LpSound, LpEach

\* When the pool checkpoints, its credit advances as the sum of the LPs' credits does.
LEMMA LpAdvance ==
    ASSUME NEW L \in [LPs -> LPPosition], NEW p \in Pool, NEW q \in Pool, LpSound(L, p),
           SameClaims(p, q), p.lastUpdate <= q.lastUpdate,
           q.fundingCredit = p.fundingCredit + p.principal * (q.lastUpdate - p.lastUpdate),
           q.principal = p.principal, q.collectedPrincipal = p.collectedPrincipal
    PROVE  LpSound(L, q)
<1> DEFINE d  == q.lastUpdate - p.lastUpdate
           S  == [lp \in LPs |-> L[lp].principal]
           G  == [lp \in LPs |-> L[lp].principal * d]
           C  == [lp \in LPs |-> Credit(L[lp], p.lastUpdate)]
           C2 == [lp \in LPs |-> Credit(L[lp], q.lastUpdate)]
<1>1. d \in Nat /\ p.lastUpdate \in Nat /\ q.lastUpdate \in Nat /\ IsFiniteSet(LPs)
    BY PoolTypes, PoolAssumption
<1>2. \A lp \in LPs : S[lp] \in Nat
    BY PositionTypes DEF LpSound, LpEach, NonNegPosition
<1>3. \A lp \in LPs : G[lp] = S[lp] * d /\ G[lp] \in Nat
  <2> HIDE DEF d
  <2>1. ASSUME NEW lp \in LPs PROVE G[lp] = S[lp] * d /\ S[lp] \in Nat
      BY <1>2
  <2> HIDE DEF G, S
  <2> QED
      BY <1>1, <2>1, MulNat
<1>4. \A lp \in LPs : C[lp] \in Nat
    BY <1>1, CreditNat DEF LpSound, LpEach
<1>5. ASSUME NEW lp \in LPs PROVE C2[lp] = C[lp] + G[lp]
  <2>1. L[lp].principal \in Int /\ L[lp].lastUpdate \in Int /\ L[lp].fundingCredit \in Int
      BY PositionTypes
  <2>2. L[lp].principal * (q.lastUpdate - L[lp].lastUpdate)
          = L[lp].principal * (p.lastUpdate - L[lp].lastUpdate)
              + L[lp].principal * (q.lastUpdate - p.lastUpdate)
      BY <1>1, <2>1
  <2>3. C2[lp] = L[lp].fundingCredit + L[lp].principal * (q.lastUpdate - L[lp].lastUpdate)
        /\ C[lp] = L[lp].fundingCredit + L[lp].principal * (p.lastUpdate - L[lp].lastUpdate)
        /\ G[lp] = L[lp].principal * (q.lastUpdate - p.lastUpdate)
      BY DEF Credit
  <2> HIDE DEF C, C2, G
  <2>4. L[lp].principal * (p.lastUpdate - L[lp].lastUpdate) \in Int
        /\ L[lp].principal * (q.lastUpdate - p.lastUpdate) \in Int
      BY <1>1, <2>1
  <2> QED
      BY <2>1, <2>2, <2>3, <2>4
<1>6. SumOf(C, LPs) = p.fundingCredit /\ SumOf(S, LPs) = p.principal
    BY DEF LpSound, LpSums
<1> HIDE DEF S, G, C, C2
<1>7. SumOf(G, LPs) = SumOf(S, LPs) * d
    BY <1>1, <1>2, <1>3, SumTimes
<1>8. SumOf(C2, LPs) = SumOf(C, LPs) + SumOf(G, LPs)
    BY <1>1, <1>3, <1>4, <1>5, SumPlus
<1>9. q.fundingCredit = SumOf(C2, LPs)
    BY <1>6, <1>7, <1>8 DEF d
<1>10. LpSums(L, q)
    BY <1>9 DEF LpSound, LpSums, SameClaims, C2
<1>11. LpEach(L, q)
  <2> SUFFICES ASSUME NEW lp \in LPs
               PROVE  /\ NonNegPosition(L[lp])
                      /\ L[lp].lastUpdate <= q.lastUpdate
                      /\ L[lp].claimedPrincipal * q.principal
                             <= L[lp].principal * q.collectedPrincipal
      BY DEF LpEach
  <2>1. L[lp].lastUpdate <= p.lastUpdate /\ L[lp].lastUpdate \in Int
      BY PositionTypes DEF LpSound, LpEach
  <2>2. L[lp].lastUpdate <= q.lastUpdate
      BY <1>1, <2>1
  <2> QED
      BY <2>2 DEF LpSound, LpEach
<1> QED
    BY <1>10, <1>11 DEF LpSound

\* Rewriting the amount of one LP changes the total by the difference.
LEMMA LpSumChange ==
    ASSUME NEW f, NEW g, NEW a \in LPs,
           \A lp \in LPs : f[lp] \in Nat, \A lp \in LPs : g[lp] \in Nat,
           \A lp \in LPs \ {a} : g[lp] = f[lp]
    PROVE  SumOf(g, LPs) = SumOf(f, LPs) - f[a] + g[a]
BY SumChange, PoolAssumption

\* A call that rewrites one position keeps the sums when the pool's totals change by what
\* the position's amounts change by.
LEMMA LpChange ==
    ASSUME NEW L \in [LPs -> LPPosition], NEW p \in Pool, NEW q \in Pool, LpSound(L, p),
           NEW a \in LPs, NEW x \in LPPosition, NonNegPosition(x),
           x.lastUpdate <= p.lastUpdate, q.lastUpdate = p.lastUpdate,
           q.principal = p.principal - L[a].principal + x.principal,
           q.fundingCredit = p.fundingCredit - Credit(L[a], p.lastUpdate)
                                 + Credit(x, p.lastUpdate),
           q.claimedPrincipal = p.claimedPrincipal - L[a].claimedPrincipal
                                    + x.claimedPrincipal,
           q.claimedYield = p.claimedYield - L[a].claimedYield + x.claimedYield,
           q.claimedOverrunYield = p.claimedOverrunYield - L[a].claimedOverrunYield
                                       + x.claimedOverrunYield,
           q.claimedBonus = p.claimedBonus - L[a].claimedBonus + x.claimedBonus,
           x.claimedPrincipal * q.principal <= x.principal * q.collectedPrincipal,
           \A lp \in LPs \ {a} :
               L[lp].claimedPrincipal * q.principal <= L[lp].principal * q.collectedPrincipal
    PROVE  LpSound([L EXCEPT ![a] = x], q)
<1> DEFINE M == [L EXCEPT ![a] = x]
<1>1. M \in [LPs -> LPPosition] /\ M[a] = x /\ \A lp \in LPs \ {a} : M[lp] = L[lp]
    OBVIOUS
<1> HIDE DEF M
<1>2. \A lp \in LPs : NonNegPosition(L[lp]) /\ NonNegPosition(M[lp])
                      /\ L[lp].lastUpdate <= p.lastUpdate /\ M[lp].lastUpdate <= p.lastUpdate
    BY <1>1 DEF LpSound, LpEach
<1>3. IsFiniteSet(LPs) /\ p.lastUpdate \in Nat
    BY PoolAssumption, PoolTypes
<1>4. SumOf([lp \in LPs |-> M[lp].principal], LPs)
        = SumOf([lp \in LPs |-> L[lp].principal], LPs) - L[a].principal + x.principal
  <2> DEFINE f == [lp \in LPs |-> L[lp].principal]
             g == [lp \in LPs |-> M[lp].principal]
  <2>1. (\A lp \in LPs : f[lp] \in Nat) /\ (\A lp \in LPs : g[lp] \in Nat)
      BY <1>1, <1>2, PositionTypes DEF NonNegPosition
  <2>2. f[a] = L[a].principal /\ g[a] = x.principal /\ \A lp \in LPs \ {a} : g[lp] = f[lp]
      BY <1>1
  <2> HIDE DEF f, g
  <2>3. SumOf(g, LPs) = SumOf(f, LPs) - f[a] + g[a]
      BY <2>1, <2>2, LpSumChange, Zenon
  <2> QED
      BY <2>2, <2>3 DEF f, g
<1>5. SumOf([lp \in LPs |-> Credit(M[lp], p.lastUpdate)], LPs)
        = SumOf([lp \in LPs |-> Credit(L[lp], p.lastUpdate)], LPs)
             - Credit(L[a], p.lastUpdate) + Credit(x, p.lastUpdate)
  <2> DEFINE f == [lp \in LPs |-> Credit(L[lp], p.lastUpdate)]
             g == [lp \in LPs |-> Credit(M[lp], p.lastUpdate)]
  <2>1. (\A lp \in LPs : f[lp] \in Nat) /\ (\A lp \in LPs : g[lp] \in Nat)
      BY <1>1, <1>2, <1>3, CreditNat
  <2>2. /\ f[a] = Credit(L[a], p.lastUpdate) /\ g[a] = Credit(x, p.lastUpdate)
        /\ \A lp \in LPs \ {a} : g[lp] = f[lp]
      BY <1>1
  <2> HIDE DEF f, g
  <2>3. SumOf(g, LPs) = SumOf(f, LPs) - f[a] + g[a]
      BY <2>1, <2>2, LpSumChange, Zenon
  <2> QED
      BY <2>2, <2>3 DEF f, g
<1>6. SumOf([lp \in LPs |-> M[lp].claimedPrincipal], LPs)
        = SumOf([lp \in LPs |-> L[lp].claimedPrincipal], LPs) - L[a].claimedPrincipal
             + x.claimedPrincipal
  <2> DEFINE f == [lp \in LPs |-> L[lp].claimedPrincipal]
             g == [lp \in LPs |-> M[lp].claimedPrincipal]
  <2>1. (\A lp \in LPs : f[lp] \in Nat) /\ (\A lp \in LPs : g[lp] \in Nat)
      BY <1>1, <1>2, PositionTypes DEF NonNegPosition
  <2>2. /\ f[a] = L[a].claimedPrincipal /\ g[a] = x.claimedPrincipal
        /\ \A lp \in LPs \ {a} : g[lp] = f[lp]
      BY <1>1
  <2> HIDE DEF f, g
  <2>3. SumOf(g, LPs) = SumOf(f, LPs) - f[a] + g[a]
      BY <2>1, <2>2, LpSumChange, Zenon
  <2> QED
      BY <2>2, <2>3 DEF f, g
<1>7. SumOf([lp \in LPs |-> M[lp].claimedYield], LPs)
        = SumOf([lp \in LPs |-> L[lp].claimedYield], LPs) - L[a].claimedYield
             + x.claimedYield
  <2> DEFINE f == [lp \in LPs |-> L[lp].claimedYield]
             g == [lp \in LPs |-> M[lp].claimedYield]
  <2>1. (\A lp \in LPs : f[lp] \in Nat) /\ (\A lp \in LPs : g[lp] \in Nat)
      BY <1>1, <1>2, PositionTypes DEF NonNegPosition
  <2>2. /\ f[a] = L[a].claimedYield /\ g[a] = x.claimedYield
        /\ \A lp \in LPs \ {a} : g[lp] = f[lp]
      BY <1>1
  <2> HIDE DEF f, g
  <2>3. SumOf(g, LPs) = SumOf(f, LPs) - f[a] + g[a]
      BY <2>1, <2>2, LpSumChange, Zenon
  <2> QED
      BY <2>2, <2>3 DEF f, g
<1>8. SumOf([lp \in LPs |-> M[lp].claimedOverrunYield], LPs)
        = SumOf([lp \in LPs |-> L[lp].claimedOverrunYield], LPs)
             - L[a].claimedOverrunYield + x.claimedOverrunYield
  <2> DEFINE f == [lp \in LPs |-> L[lp].claimedOverrunYield]
             g == [lp \in LPs |-> M[lp].claimedOverrunYield]
  <2>1. (\A lp \in LPs : f[lp] \in Nat) /\ (\A lp \in LPs : g[lp] \in Nat)
      BY <1>1, <1>2, PositionTypes DEF NonNegPosition
  <2>2. /\ f[a] = L[a].claimedOverrunYield /\ g[a] = x.claimedOverrunYield
        /\ \A lp \in LPs \ {a} : g[lp] = f[lp]
      BY <1>1
  <2> HIDE DEF f, g
  <2>3. SumOf(g, LPs) = SumOf(f, LPs) - f[a] + g[a]
      BY <2>1, <2>2, LpSumChange, Zenon
  <2> QED
      BY <2>2, <2>3 DEF f, g
<1>9. SumOf([lp \in LPs |-> M[lp].claimedBonus], LPs)
        = SumOf([lp \in LPs |-> L[lp].claimedBonus], LPs) - L[a].claimedBonus
             + x.claimedBonus
  <2> DEFINE f == [lp \in LPs |-> L[lp].claimedBonus]
             g == [lp \in LPs |-> M[lp].claimedBonus]
  <2>1. (\A lp \in LPs : f[lp] \in Nat) /\ (\A lp \in LPs : g[lp] \in Nat)
      BY <1>1, <1>2, PositionTypes DEF NonNegPosition
  <2>2. /\ f[a] = L[a].claimedBonus /\ g[a] = x.claimedBonus
        /\ \A lp \in LPs \ {a} : g[lp] = f[lp]
      BY <1>1
  <2> HIDE DEF f, g
  <2>3. SumOf(g, LPs) = SumOf(f, LPs) - f[a] + g[a]
      BY <2>1, <2>2, LpSumChange, Zenon
  <2> QED
      BY <2>2, <2>3 DEF f, g
<1>10. LpSums(M, q)
    BY <1>4, <1>5, <1>6, <1>7, <1>8, <1>9, Zenon DEF LpSound, LpSums
<1>11. LpEach(M, q)
    BY <1>1, <1>2 DEF LpEach
<1> QED
    BY <1>10, <1>11 DEF LpSound, M

-----------------------------------------------------------------------------
(* The invariant *)

\* The wallets and counters of the live drawdowns R, where I is zero off them.
DrawnBy(D, I, w) == {ref \in Refs : I[ref] # 0 /\ D[ref].receiverWallet = w}
LentOn(D) == SumOf([ref \in Refs |-> D[ref].principal], Refs)

BookSound ==
    /\ \A ref \in Refs : refIndex[ref] # 0 =>
           drawDowns[ref].receiverWallet \in authorizedReceivers
    /\ \A w \in Receivers :
           receiverActiveDrawdowns[w] = Cardinality(DrawnBy(drawDowns, refIndex, w))
    /\ pool.status \notin {"Default", "Closed"} => pool.outstanding = LentOn(drawDowns)

\* The last checkpoint of a locked pool is its lock, and it has principal.
Clock(p, t) ==
    /\ p.lastUpdate <= t /\ p.poolStartTs <= t
    /\ p.status \in LockedStatuses => p.lastUpdate = p.poolStartTs /\ p.principal > 0

Covered(p) ==
    /\ p.claimedYield <= p.collectedYield
    /\ p.claimedOverrunYield <= p.collectedOverrunYield
    /\ p.claimedBonus <= p.collectedBonus

Ended(p) ==
    /\ p.status = "Closed" => whole(p)
    /\ p.pspReleased <=> p.status \in {"Closed", "Unsuccessful"}

PoolSound(p, t) == Fresh(p) /\ NonNeg(p) /\ Clock(p, t) /\ Covered(p) /\ Ended(p)

MoneyInv ==
    /\ PoolSound(pool, now)
    /\ poolBalance = Held(pool)
    /\ ReserveSound(treasury)
    /\ treasury.balance = treasury.reserveBalance + treasury.imFeesBalance
    /\ LpSound(lpPositions, pool)

\* What the checkpoints of the funding phase do to the shares.
Advances(p, q) ==
    /\ SameClaims(p, q)
    /\ p.lastUpdate <= q.lastUpdate
    /\ q.fundingCredit = p.fundingCredit + p.principal * (q.lastUpdate - p.lastUpdate)
    /\ q.principal = p.principal
    /\ q.collectedPrincipal = p.collectedPrincipal

-----------------------------------------------------------------------------
(* The funding phase *)

\* A checkpoint keeps the pool sound and what it holds.
LEMMA CheckpointSound ==
    ASSUME NEW p \in Pool, NEW t \in Nat, PoolSound(p, t)
    PROVE  LET q == globalCheckpoint(p, t)
           IN  /\ q \in Pool /\ PoolSound(q, t) /\ Held(q) = Held(p) /\ Advances(p, q)
               /\ q.status = p.status /\ q.fMaturityTs = p.fMaturityTs
               /\ q.lastUpdate = IF p.status = "Funding" THEN t ELSE p.lastUpdate
<1> DEFINE q == globalCheckpoint(p, t)
<1>1. q \in Pool /\ SameLedger(p, q) /\ SameCoupon(p, q)
    BY CheckpointPool
<1>2. p.lastUpdate <= t
    BY DEF PoolSound, Clock
<1>3. /\ SameClaims(p, q) /\ SameRest(p, q)
      /\ q.overrunYield = p.overrunYield
      /\ q.poolStartTs = p.poolStartTs /\ q.fMaturityTs = p.fMaturityTs
      /\ q.fundingCredit = p.fundingCredit + p.principal * (q.lastUpdate - p.lastUpdate)
      /\ p.lastUpdate <= q.lastUpdate
      /\ q.lastUpdate = IF p.status = "Funding" THEN t ELSE p.lastUpdate
      /\ NonNeg(p) => NonNeg(q)
    BY <1>2, CheckpointMoney
<1> HIDE DEF q
<1>4. Advances(p, q)
    BY <1>1, <1>3 DEF Advances, SameLedger
<1>5. Held(q) = Held(p)
    BY <1>1, <1>3 DEF Held, InPool, SameLedger, SameCoupon, SameClaims, SameRest
<1>6. Fresh(q) /\ NonNeg(q) /\ Covered(q)
    BY <1>1, <1>3
    DEF PoolSound, Fresh, Covered, SameLedger, SameCoupon, SameClaims, SameRest
<1>7. Clock(q, t)
    BY <1>1, <1>3, PoolTypes DEF PoolSound, Clock, SameLedger, LockedStatuses
<1>8. Ended(q)
    BY <1>1, <1>3 DEF PoolSound, Ended, whole, SameLedger, SameCoupon, SameRest
<1> QED
    BY <1>1, <1>3, <1>4, <1>5, <1>6, <1>7, <1>8 DEF PoolSound, SameLedger, q

\* The end of the funding window keeps the pool sound and what it holds: a lock turns the
\* principal into undrawn capital and starts every stream from nothing.
LEMMA FinalizeSound ==
    ASSUME NEW p \in Pool, NEW t \in Nat, LedgerInv(p), PoolSound(p, t)
    PROVE  LET q == triggerFinalizeFunding(p, t)
           IN  q \in Pool /\ PoolSound(q, t) /\ Held(q) = Held(p) /\ Advances(p, q)
<1> DEFINE c == globalCheckpoint(p, t)
           u == releasePsp([c EXCEPT !.status = "Unsuccessful"])
           l == lock(c, t)
           q == triggerFinalizeFunding(p, t)
<1>1. \/ q = p
      \/ p.status = "Funding" /\ c.principal >= SoftCap /\ q = l
      \/ p.status = "Funding" /\ q = u
    BY Zenon DEF triggerFinalizeFunding, finalizeFunding
<1>2. /\ c \in Pool /\ PoolSound(c, t) /\ Held(c) = Held(p) /\ Advances(p, c)
      /\ c.status = p.status
      /\ c.lastUpdate = IF p.status = "Funding" THEN t ELSE p.lastUpdate
    BY CheckpointSound
<1>3. SameLedger(p, c) /\ SameCoupon(p, c)
    BY CheckpointPool
<1> HIDE DEF c
<1>4. CASE q = p
  <2>1. Advances(p, p)
      BY PoolTypes DEF Advances, SameClaims
  <2> QED
      BY <1>4, <2>1
<1>5. ASSUME p.status = "Funding", c.principal >= SoftCap
      PROVE  l \in Pool /\ PoolSound(l, t) /\ Held(l) = Held(p) /\ Advances(p, l)
  <2>1. /\ l \in Pool /\ l.status = "Active"
        /\ l.principal = c.principal /\ l.availableToDd = c.principal
        /\ l.outstanding = c.outstanding /\ l.collectedPrincipal = c.collectedPrincipal
        /\ l.pspReleased = c.pspReleased
      BY <1>2, LockPool
  <2>2. /\ SameClaims(c, l) /\ SameRest(c, l)
        /\ l.collectedYield = c.collectedYield /\ l.reservedYield = c.reservedYield
        /\ l.fundingCredit = c.fundingCredit
        /\ l.lastUpdate = t /\ l.poolStartTs = t
        /\ NonNeg(l)
      BY <1>2, LockMoney DEF PoolSound
  <2> HIDE DEF l
  <2>3. c.status = "Funding" /\ c.lastUpdate = t /\ Fresh(c) /\ Ended(c)
      BY <1>2, <1>5 DEF PoolSound
  <2>4. c.collectedPrincipal = 0 /\ c.reservedYield = 0
      BY <1>3, <1>5 DEF LedgerInv, LockedStatuses, Unlent, SameLedger, SameCoupon
  <2>5. Held(l) = Held(c)
      BY <2>1, <2>2, <2>3, <2>4, <1>2, PoolTypes
      DEF Held, InPool, LockedStatuses, Fresh, SameClaims, SameRest
  <2>6. Advances(p, l)
      BY <1>2, <2>1, <2>2, <2>3 DEF Advances, SameClaims
  <2>7. c.principal > 0
      BY <1>2, <1>5, PoolTypes, PoolAssumption
  <2>8. Fresh(l) /\ Clock(l, t) /\ Covered(l) /\ Ended(l)
      BY <2>1, <2>2, <2>3, <2>7 DEF Fresh, Clock, Covered, Ended, LockedStatuses, SameRest,
         SameClaims
  <2> QED
      BY <1>2, <2>1, <2>2, <2>5, <2>6, <2>8 DEF PoolSound
<1>6. ASSUME p.status = "Funding"
      PROVE  u \in Pool /\ PoolSound(u, t) /\ Held(u) = Held(p) /\ Advances(p, u)
  <2> DEFINE s == [c EXCEPT !.status = "Unsuccessful"]
  <2>1. /\ s \in Pool /\ s.status = "Unsuccessful" /\ s.principal = c.principal
        /\ SameClaims(c, s) /\ SameCredit(c, s) /\ SameRest(c, s)
        /\ SameCoupon(c, s) /\ SameLent(c, s)
        /\ NonNeg(c) => NonNeg(s)
      BY <1>2, CloseMoney DEF Statuses
  <2>8. u = releasePsp(s)
      OBVIOUS
  <2> HIDE DEF s, u
  <2>2. /\ u \in Pool /\ u.status = s.status /\ u.pspReleased /\ u.principal = s.principal
        /\ SameClaims(s, u) /\ SameCredit(s, u) /\ SameRest(s, u)
        /\ SameCoupon(s, u) /\ SameLent(s, u)
        /\ NonNeg(s) => NonNeg(u)
      BY <2>1, <2>8, CloseMoney DEF Statuses
  <2>3. c.status = "Funding" /\ Fresh(c) /\ NonNeg(c) /\ Clock(c, t) /\ Covered(c)
      BY <1>2, <1>6 DEF PoolSound
  <2>4. Held(u) = Held(c)
      BY <2>1, <2>2, <2>3 DEF Held, LockedStatuses
  <2>5. Advances(p, u)
      BY <1>2, <2>1, <2>2 DEF Advances, SameClaims, SameCredit, SameLent
  <2>6. Fresh(u) /\ Covered(u) /\ Clock(u, t) /\ NonNeg(u)
      BY <2>1, <2>2, <2>3
      DEF Fresh, Covered, Clock, LockedStatuses, SameClaims, SameCredit, SameRest, SameCoupon
  <2>7. Ended(u)
      BY <2>1, <2>2 DEF Ended
  <2> QED
      BY <1>2, <2>2, <2>4, <2>5, <2>6, <2>7 DEF PoolSound
<1> HIDE DEF u, l
<1> QED
    BY <1>1, <1>4, <1>5, <1>6 DEF q

\* What every call of the funding phase starts from.
LEMMA CheckpointedMoney ==
    ASSUME IInv, MoneyInv
    PROVE  LET f == globalCheckpoint(triggerFinalizeFunding(pool, now), now)
               g == triggerFinalizeFunding(pool, now)
           IN  /\ f \in Pool /\ g \in Pool
               /\ PoolSound(f, now) /\ PoolSound(g, now)
               /\ Held(f) = Held(pool) /\ Held(g) = Held(pool)
               /\ LpSound(lpPositions, f) /\ LpSound(lpPositions, g)
               /\ f.status = "Funding" => f.lastUpdate = now
<1> DEFINE g == triggerFinalizeFunding(pool, now)
           f == globalCheckpoint(g, now)
<1>1. /\ now \in Nat /\ pool \in Pool /\ LedgerInv(pool) /\ PoolSound(pool, now)
      /\ lpPositions \in [LPs -> LPPosition] /\ LpSound(lpPositions, pool)
    BY Typed DEF MoneyInv
<1>2. g \in Pool /\ PoolSound(g, now) /\ Held(g) = Held(pool) /\ Advances(pool, g)
    BY <1>1, FinalizeSound
<1> HIDE DEF g
<1>3. /\ f \in Pool /\ PoolSound(f, now) /\ Held(f) = Held(g) /\ Advances(g, f)
      /\ f.status = g.status
      /\ f.lastUpdate = IF g.status = "Funding" THEN now ELSE g.lastUpdate
    BY <1>1, <1>2, CheckpointSound
<1> HIDE DEF f
<1>4. LpSound(lpPositions, g)
    BY <1>1, <1>2, LpAdvance DEF Advances
<1>5. LpSound(lpPositions, f)
    BY <1>1, <1>2, <1>3, <1>4, LpAdvance DEF Advances
<1> QED
    BY <1>2, <1>3, <1>4, <1>5 DEF f, g

\* A checkpointed position earned its credit up to the pool's checkpoint.
LEMMA CheckpointedPosition ==
    ASSUME NEW pos \in LPPosition, NEW p \in Pool, NEW t \in Nat, PoolSound(p, t),
           NonNegPosition(pos), pos.lastUpdate <= p.lastUpdate,
           p.status \in {"Funding", "Unsuccessful"}, p.status = "Funding" => p.lastUpdate = t
    PROVE  LET q == lpCheckpoint(pos, p, t)
           IN  /\ q \in LPPosition /\ NonNegPosition(q)
               /\ q.lastUpdate = p.lastUpdate
               /\ q.principal = pos.principal
               /\ q.fundingCredit = Credit(pos, p.lastUpdate)
               /\ q.claimedPrincipal = pos.claimedPrincipal
               /\ q.claimedYield = pos.claimedYield
               /\ q.claimedOverrunYield = pos.claimedOverrunYield
               /\ q.claimedBonus = pos.claimedBonus
               /\ q.dollarSeconds = pos.dollarSeconds
<1> DEFINE e == IF p.status = "Unsuccessful" THEN least(t, p.lastUpdate) ELSE t
           fc == pos.fundingCredit + pos.principal * (e - pos.lastUpdate)
           q == lpCheckpoint(pos, p, t)
<1>1. q \in LPPosition
    BY CheckpointPosition
<1>2. e = p.lastUpdate
    BY PoolTypes DEF PoolSound, Clock, least
<1>3. q = [pos EXCEPT !.fundingCredit = fc, !.lastUpdate = e]
    BY Zenon DEF lpCheckpoint
<1>4. fc = Credit(pos, p.lastUpdate)
    BY <1>2, Zenon DEF Credit
<1>5. fc \in Nat
    BY <1>4, CreditNat, PoolTypes
<1> HIDE DEF e, fc
<1>6. /\ q.lastUpdate = e /\ q.fundingCredit = fc /\ q.principal = pos.principal
      /\ q.claimedPrincipal = pos.claimedPrincipal
      /\ q.claimedYield = pos.claimedYield
      /\ q.claimedOverrunYield = pos.claimedOverrunYield
      /\ q.claimedBonus = pos.claimedBonus
      /\ q.dollarSeconds = pos.dollarSeconds
    BY <1>3 DEF LPPosition
<1> HIDE DEF q
<1>7. NonNegPosition(q)
    BY <1>2, <1>5, <1>6, PoolTypes DEF NonNegPosition
<1> QED
    BY <1>1, <1>2, <1>4, <1>6, <1>7 DEF q

-----------------------------------------------------------------------------
(* Calls on a locked pool *)

\* A call that moves no clock and pays nothing out keeps a locked pool sound.
LEMMA KeepSound ==
    ASSUME NEW p \in Pool, NEW q \in Pool, NEW t \in Nat, PoolSound(p, t),
           p.status \in LockedStatuses, q.status \in LockedStatuses,
           SameClaims(p, q), Grows(p, q), NonNeg(q), q.principal = p.principal,
           q.lastUpdate = p.lastUpdate, q.poolStartTs = p.poolStartTs,
           q.status # "Closed" => q.collectedBonus = 0, Ended(q)
    PROVE  PoolSound(q, t)
<1>1. Fresh(q)
    BY DEF Fresh
<1>2. Clock(q, t)
    BY DEF PoolSound, Clock
<1>3. Covered(q)
    BY PoolTypes DEF PoolSound, Covered, SameClaims, Grows
<1> QED
    BY <1>1, <1>2, <1>3 DEF PoolSound

\* In a closed or defaulted pool nothing is undrawn; in a closed one nothing is lent out.
LEMMA ClosedLent ==
    ASSUME NEW p \in Pool, LedgerInv(p), NonNeg(p), p.status = "Closed",
           p.collectedPrincipal >= p.principal
    PROVE  /\ p.outstanding = 0 /\ p.availableToDd = 0 /\ p.reservedYield = 0
           /\ p.collectedPrincipal = p.principal
<1>1. Conserved(p) /\ p.availableToDd = 0 /\ p.reservedYield = 0
    BY DEF LedgerInv, LockedStatuses, WoundDown
<1> QED
    BY <1>1, PoolTypes DEF Conserved, NonNeg

\* Accruals move no money of a locked pool.
LEMMA AccruedMoney ==
    ASSUME IInv, MoneyInv, pool.status \in LockedStatuses
    PROVE  \A a \in {accrue(pool, now), accrueIdleFees(pool, now)} :
               /\ a \in Pool /\ LedgerInv(a) /\ PoolSound(a, now)
               /\ SameLedger(pool, a) /\ SameCredit(pool, a)
               /\ poolBalance = InPool(a) /\ LpSound(lpPositions, a)
<1> SUFFICES ASSUME NEW a \in {accrue(pool, now), accrueIdleFees(pool, now)}
             PROVE  /\ a \in Pool /\ LedgerInv(a) /\ PoolSound(a, now)
                    /\ SameLedger(pool, a) /\ SameCredit(pool, a)
                    /\ poolBalance = InPool(a) /\ LpSound(lpPositions, a)
    OBVIOUS
<1>1. /\ now \in Nat /\ pool \in Pool /\ LedgerInv(pool) /\ PoolSound(pool, now)
      /\ lpPositions \in [LPs -> LPPosition] /\ LpSound(lpPositions, pool)
      /\ poolBalance = InPool(pool)
    BY Typed DEF MoneyInv, Held
<1>2. a \in Pool /\ LedgerInv(a) /\ SameLedger(pool, a) /\ SameCoupon(pool, a)
    BY <1>1, Accrued, AccruePool, IdleFeesPool
<1>3. pool.outstanding >= 0
    BY <1>1 DEF PoolSound, NonNeg
<1>4. /\ SameClaims(pool, a) /\ SameRest(pool, a) /\ SameCredit(pool, a)
      /\ a.overrunYield >= pool.overrunYield
      /\ pool.outstanding = 0 => a.overrunYield = pool.overrunYield
  <2>1. CASE a = accrue(pool, now)
      BY <1>1, <1>3, <2>1, AccrueMoney
  <2>2. CASE a = accrueIdleFees(pool, now)
    <3>1. pool.overrunYield >= pool.overrunYield
        BY <1>1, PoolTypes
    <3> QED
        BY <1>1, <2>2, <3>1, IdleFeesMoney
  <2> QED
      BY <2>1, <2>2
<1>5. NonNeg(a) /\ Grows(pool, a) /\ InPool(a) = InPool(pool)
    BY <1>1, <1>2, <1>4, PoolTypes
    DEF PoolSound, NonNeg, Grows, InPool, SameLedger, SameCoupon, SameClaims, SameRest,
        SameCredit
<1>6. Ended(a)
  <2>1. pool.status = "Closed" => a.overrunYield = pool.overrunYield
      BY <1>1, <1>4, ClosedLent DEF PoolSound, Ended, whole
  <2> QED
      BY <1>1, <1>2, <1>4, <2>1
      DEF PoolSound, Ended, whole, SameLedger, SameCoupon, SameRest
<1>7. PoolSound(a, now)
  <2>1. a.status # "Closed" => a.collectedBonus = 0
      BY <1>1, <1>2, <1>4 DEF PoolSound, Fresh, SameLedger, SameRest
  <2> QED
      BY <1>1, <1>2, <1>4, <1>5, <1>6, <2>1, KeepSound DEF SameLedger, SameCredit
<1>8. LpSound(lpPositions, a)
    BY <1>1, <1>2, <1>4, <1>5, LpFrame DEF SameLedger, SameCredit, Grows
<1> QED
    BY <1>1, <1>2, <1>4, <1>5, <1>7, <1>8

\* Maturity moves money between the books of the pool, but for what it sends to the reserve.
LEMMA MatureSound ==
    ASSUME NEW p \in Pool, NEW tr \in TreasuryState, NEW t \in Nat, LedgerInv(p),
           PoolSound(p, t), p.status \in LockedStatuses
    PROVE  LET q == mature(p, tr, t)
           IN  /\ q \in Pool /\ LedgerInv(q) /\ PoolSound(q, t)
               /\ q.status \in LockedStatuses /\ q.status \in {p.status, "Closed"}
               /\ maturityTopUp(p, tr, t) \in Nat
               /\ InPool(q) = InPool(p) - maturityTopUp(p, tr, t)
               /\ q.outstanding = p.outstanding
               /\ q.principal = p.principal
               /\ SameCredit(p, q)
               /\ \A L \in [LPs -> LPPosition] : LpSound(L, p) => LpSound(L, q)
<1> DEFINE q == mature(p, tr, t)
<1>1. q \in Pool /\ LedgerInv(q) /\ q.status \in LockedStatuses
    BY MatureLedger
<1>2. NonNeg(p) /\ (p.status # "Closed" => p.collectedBonus = 0)
    BY DEF PoolSound, Fresh
<1>3. /\ SameClaims(p, q) /\ SameCredit(p, q)
      /\ q.yieldOwed = p.yieldOwed /\ q.overrunYield = p.overrunYield
      /\ q.collectedYield = p.collectedYield
      /\ q.collectedOverrunYield = p.collectedOverrunYield
      /\ q.outstanding = p.outstanding
      /\ maturityTopUp(p, tr, t) \in Nat
      /\ InPool(q) = InPool(p) - maturityTopUp(p, tr, t)
      /\ Grows(p, q) /\ NonNeg(q)
      /\ q.status # "Closed" => q.collectedBonus = p.collectedBonus
      /\ \/ q.status = p.status /\ q.pspReleased = p.pspReleased
         \/ q.status = "Closed" /\ q.pspReleased /\ whole(q)
    BY <1>2, MatureMoney
<1>4. q.principal = p.principal
    BY MaturePool
<1> HIDE DEF q
<1>5. Ended(q)
  <2>1. whole(p) => whole(q)
      BY <1>1, <1>3, <1>4, PoolTypes DEF whole, Grows
  <2> QED
      BY <1>3, <2>1 DEF PoolSound, Ended
<1>6. q.status # "Closed" => q.collectedBonus = 0
    BY <1>2, <1>3
<1>7. PoolSound(q, t)
    BY <1>1, <1>3, <1>4, <1>5, <1>6, KeepSound DEF SameCredit
<1>8. ASSUME NEW L \in [LPs -> LPPosition], LpSound(L, p) PROVE LpSound(L, q)
    BY <1>1, <1>3, <1>4, <1>8, LpFrame DEF SameCredit, Grows
<1> QED
    BY <1>1, <1>3, <1>4, <1>7, <1>8 DEF q

\* What a call that ends in _mature leaves in the pool and in the reserve.
LEMMA SettleSound ==
    ASSUME NEW p, treasury \in TreasuryState, poolBalance \in Int,
           maturityTopUp(p, treasury, now) \in Nat,
           ReserveSound(treasury),
           treasury.balance = treasury.reserveBalance + treasury.imFeesBalance,
           NEW inflow \in Int, NEW outflow \in Int, Settle(p, inflow, outflow)
    PROVE  /\ poolBalance' = poolBalance + inflow - outflow - maturityTopUp(p, treasury, now)
           /\ ReserveSound(treasury')
           /\ treasury'.balance = treasury'.reserveBalance + treasury'.imFeesBalance
<1> DEFINE m == maturityTopUp(p, treasury, now)
<1>1. /\ treasury' = topUp(treasury, m)
      /\ poolBalance' = poolBalance + inflow - outflow - m
    BY Zenon DEF Settle
<1>2. m \in Nat
    OBVIOUS
<1> HIDE DEF m
<1>3. /\ treasury'.reserveBalance = treasury.reserveBalance + m
      /\ treasury'.balance = treasury.balance + m
      /\ treasury'.imFeesBalance = treasury.imFeesBalance
      /\ {treasury.reserveBalance, treasury.balance, treasury.imFeesBalance} \subseteq Int
    BY <1>1, <1>2 DEF topUp, TreasuryState
<1> QED
    BY <1>1, <1>2, <1>3 DEF ReserveSound, m

\* The first claim of an LP brings its credit up to the lock and takes nothing.
LEMMA SettledPosition ==
    ASSUME NEW pos \in LPPosition, NEW p \in Pool, NEW t \in Nat, PoolSound(p, t),
           p.status \in LockedStatuses, NonNegPosition(pos), pos.lastUpdate <= p.lastUpdate
    PROVE  LET q == settleLpDollarSeconds(pos, p)
           IN  /\ q \in LPPosition /\ NonNegPosition(q)
               /\ q.lastUpdate <= p.lastUpdate
               /\ Credit(q, p.lastUpdate) = Credit(pos, p.lastUpdate)
               /\ q.principal = pos.principal
               /\ q.claimedPrincipal = pos.claimedPrincipal
               /\ q.claimedYield = pos.claimedYield
               /\ q.claimedOverrunYield = pos.claimedOverrunYield
               /\ q.claimedBonus = pos.claimedBonus
<1> DEFINE late == ~pos.finalized /\ pos.lastUpdate < p.poolStartTs
           run  == pos.principal * (p.poolStartTs - pos.lastUpdate)
           fc   == IF late THEN pos.fundingCredit + run ELSE pos.fundingCredit
           upd  == IF late THEN p.poolStartTs ELSE pos.lastUpdate
           ext  == pos.principal * p.span
           ds   == fc + ext
           r    == [pos EXCEPT !.fundingCredit = fc, !.lastUpdate = upd, !.finalized = TRUE,
                               !.dollarSeconds = ds]
           q    == settleLpDollarSeconds(pos, p)
<1>1. q = r
    BY DEF settleLpDollarSeconds, LPPosition
<1>2. q \in LPPosition
    BY SettlePosition
<1>3. /\ pos.principal \in Nat /\ pos.fundingCredit \in Nat /\ pos.lastUpdate \in Nat
      /\ p.poolStartTs \in Nat /\ p.lastUpdate = p.poolStartTs /\ p.span \in Nat
      /\ pos.lastUpdate <= p.poolStartTs
    BY PoolTypes, PositionTypes DEF PoolSound, NonNeg, NonNegPosition, Clock
<1>4. run \in Nat
  <2>1. p.poolStartTs - pos.lastUpdate \in Nat
      BY <1>3
  <2> QED
      BY <1>3, <2>1, MulNat
<1>5. ext \in Nat
    BY <1>3, MulNat
<1>6. Credit(pos, p.lastUpdate) = pos.fundingCredit + run
    BY <1>3 DEF Credit
<1>7. r.fundingCredit = fc /\ r.lastUpdate = upd /\ r.dollarSeconds = ds
      /\ r.principal = pos.principal
      /\ r.claimedPrincipal = pos.claimedPrincipal
      /\ r.claimedYield = pos.claimedYield
      /\ r.claimedOverrunYield = pos.claimedOverrunYield
      /\ r.claimedBonus = pos.claimedBonus
  <2> HIDE DEF fc, upd, ds
  <2> QED
      BY DEF LPPosition
<1>8. Credit(r, p.lastUpdate) = fc + pos.principal * (p.lastUpdate - upd)
    BY <1>7, Zenon DEF Credit
<1>9. fc + pos.principal * (p.lastUpdate - upd) = pos.fundingCredit + run
  <2>1. CASE late
    <3>1. pos.principal * (p.lastUpdate - upd) = 0
        BY <1>3, <2>1
    <3> HIDE DEF run
    <3> QED
        BY <1>3, <1>4, <2>1, <3>1
  <2>2. CASE ~late
      BY <1>3, <2>2
  <2> QED
      BY <2>1, <2>2
<1>10. fc \in Nat /\ upd \in Nat /\ upd <= p.lastUpdate
  <2> HIDE DEF run
  <2> QED
      BY <1>3, <1>4
<1> HIDE DEF fc, upd, ext, run, r
<1>11. NonNegPosition(r)
    BY <1>3, <1>5, <1>7, <1>10 DEF NonNegPosition
<1> QED
    BY <1>1, <1>2, <1>6, <1>7, <1>8, <1>9, <1>10, <1>11

-----------------------------------------------------------------------------
(* One lemma per call: the funding phase *)

\* Nothing more is lent out, and as long as the pool is neither defaulted nor closed, nothing
\* less.
SameOut(p, q) ==
    /\ q.outstanding <= p.outstanding
    /\ q.status \notin {"Default", "Closed"} =>
           p.status \notin {"Default", "Closed"} /\ q.outstanding = p.outstanding

\* The part of an LP is no more than the whole.
LEMMA LpElement ==
    ASSUME NEW L \in [LPs -> LPPosition], NEW p \in Pool, LpSound(L, p), NEW a \in LPs
    PROVE  /\ L[a].principal <= p.principal
           /\ Credit(L[a], p.lastUpdate) <= p.fundingCredit
           /\ L[a].claimedPrincipal <= p.claimedPrincipal
<1> DEFINE f == [lp \in LPs |-> L[lp].principal]
           g == [lp \in LPs |-> Credit(L[lp], p.lastUpdate)]
           h == [lp \in LPs |-> L[lp].claimedPrincipal]
<1>1. IsFiniteSet(LPs) /\ p.lastUpdate \in Nat
    BY PoolAssumption, PoolTypes
<1>2. /\ \A lp \in LPs : f[lp] \in Nat
      /\ \A lp \in LPs : g[lp] \in Nat
      /\ \A lp \in LPs : h[lp] \in Nat
    BY <1>1, CreditNat, PositionTypes DEF LpSound, LpEach, NonNegPosition
<1>3. /\ SumOf(f, LPs) = p.principal /\ SumOf(g, LPs) = p.fundingCredit
      /\ SumOf(h, LPs) = p.claimedPrincipal
    BY DEF LpSound, LpSums
<1>4. f[a] = L[a].principal /\ g[a] = Credit(L[a], p.lastUpdate)
      /\ h[a] = L[a].claimedPrincipal
    OBVIOUS
<1> HIDE DEF f, g, h
<1>5. f[a] <= SumOf(f, LPs) /\ g[a] <= SumOf(g, LPs) /\ h[a] <= SumOf(h, LPs)
    BY <1>1, <1>2, SumElement
<1> QED
    BY <1>3, <1>4, <1>5

\* Before the lock no LP claimed anything and nothing was collected.
LEMMA Unclaimed ==
    ASSUME NEW L \in [LPs -> LPPosition], NEW p \in Pool, NEW t \in Nat, LpSound(L, p),
           LedgerInv(p), PoolSound(p, t), p.status \notin LockedStatuses
    PROVE  /\ p.collectedPrincipal = 0
           /\ \A lp \in LPs : L[lp].claimedPrincipal = 0
<1>1. p.collectedPrincipal = 0 /\ p.claimedPrincipal = 0
    BY DEF LedgerInv, Unlent, PoolSound, Fresh
<1>2. ASSUME NEW lp \in LPs PROVE L[lp].claimedPrincipal = 0
  <2>1. L[lp].claimedPrincipal <= 0 /\ L[lp].claimedPrincipal >= 0
        /\ L[lp].claimedPrincipal \in Int
      BY <1>1, LpElement, PositionTypes DEF LpSound, LpEach, NonNegPosition
  <2> QED
      BY <2>1
<1> QED
    BY <1>1, <1>2

\* The types of the next state.
LEMMA NextTyped ==
    ASSUME IInv'
    PROVE  /\ now' \in Nat /\ pool' \in Pool /\ LedgerInv(pool')
           /\ lpPositions' \in [LPs -> LPPosition]
           /\ poolBalance' \in Int /\ treasury' \in TreasuryState
BY DEF IInv, TypeOK

\* A deposit adds to the principal and to the tokens alike.
LEMMA DepositMoney ==
    ASSUME IInv, MoneyInv, NEW lp \in LPs, NEW amount \in LpAmounts, Deposit(lp, amount)
    PROVE  MoneyInv'
<1> DEFINE f   == globalCheckpoint(triggerFinalizeFunding(pool, now), now)
           pos == lpCheckpoint(lpPositions[lp], f, now)
           q   == [f EXCEPT !.principal = @ + amount]
           x   == [pos EXCEPT !.principal = @ + amount]
<1>1. /\ f.status = "Funding"
      /\ pool' = q
      /\ lpPositions' = [lpPositions EXCEPT ![lp] = x]
      /\ poolBalance' = poolBalance + amount
      /\ UNCHANGED <<now, treasury>>
    BY Zenon DEF Deposit
<1>2. /\ now \in Nat /\ lpPositions \in [LPs -> LPPosition]
      /\ poolBalance = Held(pool) /\ amount \in Nat
    BY Typed, PoolAssumption DEF MoneyInv
<1>3. /\ f \in Pool /\ PoolSound(f, now) /\ Held(f) = Held(pool)
      /\ LpSound(lpPositions, f)
      /\ f.status = "Funding" => f.lastUpdate = now
    BY CheckpointedMoney
<1>4. LedgerInv(f)
    BY Checkpointed
<1> HIDE DEF f
<1>5. NonNegPosition(lpPositions[lp]) /\ lpPositions[lp].lastUpdate <= f.lastUpdate
    BY <1>3 DEF LpSound, LpEach
<1>6. /\ pos \in LPPosition /\ NonNegPosition(pos)
      /\ pos.lastUpdate = f.lastUpdate
      /\ pos.principal = lpPositions[lp].principal
      /\ pos.fundingCredit = Credit(lpPositions[lp], f.lastUpdate)
      /\ pos.claimedPrincipal = lpPositions[lp].claimedPrincipal
      /\ pos.claimedYield = lpPositions[lp].claimedYield
      /\ pos.claimedOverrunYield = lpPositions[lp].claimedOverrunYield
      /\ pos.claimedBonus = lpPositions[lp].claimedBonus
      /\ pos.dollarSeconds = lpPositions[lp].dollarSeconds
  <2>1. lpPositions[lp] \in LPPosition
      BY <1>2
  <2> QED
      BY <1>1, <1>2, <1>3, <1>5, <2>1, CheckpointedPosition
<1> HIDE DEF pos
<1>7. q \in Pool
  <2> DEFINE v == f.principal + amount
  <2>1. v \in Int
      BY <1>2, <1>3, PoolTypes
  <2> HIDE DEF v
  <2>2. [f EXCEPT !.principal = v] \in Pool
      BY <1>3, <2>1, PrincipalUpdate
  <2> QED
      BY <2>2 DEF v
<1>8. /\ q.status = "Funding" /\ q.principal = f.principal + amount
      /\ SameClaims(f, q) /\ SameRest(f, q) /\ SameCredit(f, q) /\ SameCoupon(f, q)
      /\ SameLent(f, q) /\ q.overrunYield = f.overrunYield
      /\ q.pspReleased = f.pspReleased
    BY <1>1, <1>3
    DEF SameClaims, SameRest, SameCredit, SameCoupon, SameLent, Pool
<1> HIDE DEF q
<1>9. PoolSound(q, now)
  <2>1. NonNeg(q)
      BY <1>2, <1>3, <1>8, PoolTypes
      DEF PoolSound, NonNeg, SameClaims, SameRest, SameCredit, SameCoupon, SameLent
  <2>2. Fresh(q) /\ Covered(q) /\ Clock(q, now) /\ Ended(q)
      BY <1>1, <1>3, <1>8
      DEF PoolSound, Fresh, Covered, Clock, Ended, LockedStatuses, SameClaims, SameRest,
          SameCredit, SameCoupon, SameLent
  <2> QED
      BY <2>1, <2>2 DEF PoolSound
<1>10. poolBalance' = Held(q)
    BY <1>1, <1>2, <1>3, <1>8 DEF Held, LockedStatuses
<1>11. /\ x \in LPPosition
       /\ x.principal = pos.principal + amount /\ x.fundingCredit = pos.fundingCredit
       /\ x.lastUpdate = pos.lastUpdate /\ x.dollarSeconds = pos.dollarSeconds
       /\ x.claimedPrincipal = pos.claimedPrincipal
       /\ x.claimedYield = pos.claimedYield
       /\ x.claimedOverrunYield = pos.claimedOverrunYield
       /\ x.claimedBonus = pos.claimedBonus
    BY <1>2, <1>6 DEF LPPosition
<1> HIDE DEF x
<1>12. NonNegPosition(x)
    BY <1>2, <1>6, <1>11, PositionTypes DEF NonNegPosition
<1>13. /\ f.collectedPrincipal = 0
       /\ \A l \in LPs : lpPositions[l].claimedPrincipal = 0
    BY <1>1, <1>2, <1>3, <1>4, Unclaimed DEF LockedStatuses
<1>14. LpSound([lpPositions EXCEPT ![lp] = x], q)
  <2>1. q.lastUpdate = f.lastUpdate /\ q.principal = f.principal + amount
        /\ q.fundingCredit = f.fundingCredit /\ q.collectedPrincipal = 0
        /\ q.claimedPrincipal = f.claimedPrincipal /\ q.claimedYield = f.claimedYield
        /\ q.claimedOverrunYield = f.claimedOverrunYield
        /\ q.claimedBonus = f.claimedBonus
      BY <1>8, <1>13 DEF SameClaims, SameCredit, SameLent
  <2>2. \A l \in LPs : lpPositions[l].claimedPrincipal * q.principal
                          <= lpPositions[l].principal * q.collectedPrincipal
    <3>1. \A l \in LPs : lpPositions[l].principal \in Int
        BY <1>2, PositionTypes
    <3> QED
        BY <1>7, <1>13, <2>1, <3>1, PoolTypes
  <2>3. x.claimedPrincipal * q.principal <= x.principal * q.collectedPrincipal
      BY <1>6, <1>7, <1>11, <1>13, <2>1, PoolTypes, PositionTypes
  <2>4. Credit(x, f.lastUpdate) = Credit(lpPositions[lp], f.lastUpdate)
    <3>1. f.lastUpdate \in Int /\ x.principal \in Int /\ x.fundingCredit \in Int
        BY <1>3, <1>11, PoolTypes, PositionTypes
    <3> QED
        BY <1>6, <1>11, <3>1 DEF Credit
  <2>5. Credit(lpPositions[lp], f.lastUpdate) \in Int
      BY <1>6, PositionTypes
  <2>6. /\ q.principal = f.principal - lpPositions[lp].principal + x.principal
        /\ q.fundingCredit = f.fundingCredit - Credit(lpPositions[lp], f.lastUpdate)
                                 + Credit(x, f.lastUpdate)
        /\ q.claimedPrincipal = f.claimedPrincipal - lpPositions[lp].claimedPrincipal
                                    + x.claimedPrincipal
        /\ q.claimedYield = f.claimedYield - lpPositions[lp].claimedYield + x.claimedYield
        /\ q.claimedOverrunYield = f.claimedOverrunYield
                                       - lpPositions[lp].claimedOverrunYield
                                       + x.claimedOverrunYield
        /\ q.claimedBonus = f.claimedBonus - lpPositions[lp].claimedBonus + x.claimedBonus
      BY <1>2, <1>3, <1>6, <1>11, <2>1, <2>4, <2>5, PoolTypes, PositionTypes
  <2>7. x.lastUpdate <= f.lastUpdate
      BY <1>3, <1>6, <1>11, PoolTypes
  <2> QED
      BY <1>2, <1>3, <1>7, <1>11, <1>12, <2>1, <2>2, <2>3, <2>6, <2>7, LpChange
<1> QED
    BY <1>1, <1>9, <1>10, <1>14 DEF MoneyInv

\* A withdrawal takes no more than the LP put in, and forfeits no more than the LP earned.
LEMMA WithdrawMoney ==
    ASSUME IInv, MoneyInv, NEW lp \in LPs, NEW amount \in LpAmounts, Withdraw(lp, amount)
    PROVE  MoneyInv'
<1> DEFINE f   == globalCheckpoint(triggerFinalizeFunding(pool, now), now)
           pos == lpCheckpoint(lpPositions[lp], f, now)
           out == mulDiv(pos.fundingCredit, amount, pos.principal)
           q   == [f EXCEPT !.fundingCredit = @ - out, !.principal = @ - amount]
           x   == [pos EXCEPT !.fundingCredit = @ - out, !.principal = @ - amount]
<1>1. /\ f.status \in {"Funding", "Unsuccessful"}
      /\ amount > 0 /\ amount <= pos.principal
      /\ pool' = q
      /\ lpPositions' = [lpPositions EXCEPT ![lp] = x]
      /\ poolBalance' = poolBalance - amount
      /\ UNCHANGED <<now, treasury>>
    BY Zenon DEF Withdraw
<1>2. /\ now \in Nat /\ lpPositions \in [LPs -> LPPosition]
      /\ poolBalance = Held(pool) /\ amount \in Nat
    BY Typed, PoolAssumption DEF MoneyInv
<1>3. /\ f \in Pool /\ PoolSound(f, now) /\ Held(f) = Held(pool)
      /\ LpSound(lpPositions, f)
      /\ f.status = "Funding" => f.lastUpdate = now
    BY CheckpointedMoney
<1>4. LedgerInv(f)
    BY Checkpointed
<1> HIDE DEF f
<1>5. NonNegPosition(lpPositions[lp]) /\ lpPositions[lp].lastUpdate <= f.lastUpdate
    BY <1>3 DEF LpSound, LpEach
<1>6. /\ pos \in LPPosition /\ NonNegPosition(pos)
      /\ pos.lastUpdate = f.lastUpdate
      /\ pos.principal = lpPositions[lp].principal
      /\ pos.fundingCredit = Credit(lpPositions[lp], f.lastUpdate)
      /\ pos.claimedPrincipal = lpPositions[lp].claimedPrincipal
      /\ pos.claimedYield = lpPositions[lp].claimedYield
      /\ pos.claimedOverrunYield = lpPositions[lp].claimedOverrunYield
      /\ pos.claimedBonus = lpPositions[lp].claimedBonus
      /\ pos.dollarSeconds = lpPositions[lp].dollarSeconds
  <2>1. lpPositions[lp] \in LPPosition
      BY <1>2
  <2> QED
      BY <1>1, <1>2, <1>3, <1>5, <2>1, CheckpointedPosition
<1> HIDE DEF pos
<1>7. out \in Nat /\ out <= pos.fundingCredit
  <2>1. /\ pos.fundingCredit \in Nat /\ pos.principal \in Nat \ {0}
        /\ amount \in 0..pos.principal
      BY <1>1, <1>2, <1>6, PositionTypes DEF NonNegPosition
  <2> QED
      BY <2>1, ShareOf
<1> HIDE DEF out
<1>8. lpPositions[lp].principal <= f.principal
      /\ Credit(lpPositions[lp], f.lastUpdate) <= f.fundingCredit
    BY <1>2, <1>3, LpElement
<1>9. q \in Pool
  <2> DEFINE u == f.fundingCredit - out
             v == f.principal - amount
  <2>1. u \in Int /\ v \in Int
      BY <1>2, <1>3, <1>7, PoolTypes
  <2>2. q = [f EXCEPT !.fundingCredit = u, !.principal = v]
      BY <1>3 DEF Pool
  <2> HIDE DEF q, u, v
  <2> QED
      BY <1>3, <2>1, <2>2, ShareUpdate, PrincipalUpdate, Zenon
<1>10. /\ q.status = f.status /\ q.principal = f.principal - amount
       /\ q.fundingCredit = f.fundingCredit - out
       /\ q.lastUpdate = f.lastUpdate /\ q.poolStartTs = f.poolStartTs
       /\ q.span = f.span /\ q.dollarSeconds = f.dollarSeconds
       /\ SameClaims(f, q) /\ SameRest(f, q) /\ SameCoupon(f, q)
       /\ SameLent(f, q) /\ q.overrunYield = f.overrunYield
       /\ q.pspReleased = f.pspReleased
    BY <1>3 DEF SameClaims, SameRest, SameCoupon, SameLent, Pool
<1> HIDE DEF q
<1>11. PoolSound(q, now)
  <2>1. q.principal >= 0 /\ q.fundingCredit >= 0
      BY <1>1, <1>2, <1>3, <1>6, <1>7, <1>8, <1>10, PoolTypes, PositionTypes
  <2>2. NonNeg(q)
      BY <1>3, <1>10, <2>1
      DEF PoolSound, NonNeg, SameClaims, SameRest, SameCoupon, SameLent
  <2>3. Fresh(q) /\ Covered(q) /\ Clock(q, now) /\ Ended(q)
      BY <1>1, <1>3, <1>10
      DEF PoolSound, Fresh, Covered, Clock, Ended, LockedStatuses, SameClaims, SameRest,
          SameCoupon, SameLent
  <2> QED
      BY <2>2, <2>3 DEF PoolSound
<1>12. poolBalance' = Held(q)
    BY <1>1, <1>2, <1>3, <1>10 DEF Held, LockedStatuses
<1>13. /\ x \in LPPosition
       /\ x.principal = pos.principal - amount
       /\ x.fundingCredit = pos.fundingCredit - out
       /\ x.lastUpdate = pos.lastUpdate /\ x.dollarSeconds = pos.dollarSeconds
       /\ x.claimedPrincipal = pos.claimedPrincipal
       /\ x.claimedYield = pos.claimedYield
       /\ x.claimedOverrunYield = pos.claimedOverrunYield
       /\ x.claimedBonus = pos.claimedBonus
  <2> DEFINE u == pos.fundingCredit - out
             v == pos.principal - amount
             y == [pos EXCEPT !.fundingCredit = u, !.principal = v]
  <2>1. u \in Int /\ v \in Int
      BY <1>2, <1>6, <1>7, PositionTypes
  <2>2. x = y
      OBVIOUS
  <2> HIDE DEF u, v
  <2>3. y \in LPPosition
      BY <1>6, <2>1, PositionUpdate, Zenon
  <2>4. /\ y.principal = v /\ y.fundingCredit = u
        /\ y.lastUpdate = pos.lastUpdate /\ y.dollarSeconds = pos.dollarSeconds
        /\ y.claimedPrincipal = pos.claimedPrincipal
        /\ y.claimedYield = pos.claimedYield
        /\ y.claimedOverrunYield = pos.claimedOverrunYield
        /\ y.claimedBonus = pos.claimedBonus
      BY <1>6 DEF LPPosition
  <2> HIDE DEF x, y
  <2> QED
      BY <2>2, <2>3, <2>4 DEF u, v
<1> HIDE DEF x
<1>14. NonNegPosition(x)
    BY <1>1, <1>2, <1>6, <1>7, <1>13, PositionTypes DEF NonNegPosition
<1>15. /\ f.collectedPrincipal = 0
       /\ \A l \in LPs : lpPositions[l].claimedPrincipal = 0
    BY <1>1, <1>2, <1>3, <1>4, Unclaimed DEF LockedStatuses
<1>16. LpSound([lpPositions EXCEPT ![lp] = x], q)
  <2>1. q.collectedPrincipal = 0
        /\ q.claimedPrincipal = f.claimedPrincipal /\ q.claimedYield = f.claimedYield
        /\ q.claimedOverrunYield = f.claimedOverrunYield
        /\ q.claimedBonus = f.claimedBonus
      BY <1>10, <1>15 DEF SameClaims, SameLent
  <2>2. \A l \in LPs : lpPositions[l].claimedPrincipal * q.principal
                          <= lpPositions[l].principal * q.collectedPrincipal
    <3>1. \A l \in LPs : lpPositions[l].principal \in Int
        BY <1>2, PositionTypes
    <3> QED
        BY <1>9, <1>15, <2>1, <3>1, PoolTypes
  <2>3. x.claimedPrincipal * q.principal <= x.principal * q.collectedPrincipal
      BY <1>6, <1>9, <1>13, <1>15, <2>1, PoolTypes, PositionTypes
  <2>4. Credit(x, f.lastUpdate) = Credit(lpPositions[lp], f.lastUpdate) - out
    <3>1. f.lastUpdate \in Int /\ x.principal \in Int /\ x.fundingCredit \in Int
        BY <1>3, <1>13, PoolTypes, PositionTypes
    <3> QED
        BY <1>6, <1>13, <3>1 DEF Credit
  <2>5. Credit(lpPositions[lp], f.lastUpdate) \in Int
      BY <1>6, PositionTypes
  <2>6. /\ q.principal = f.principal - lpPositions[lp].principal + x.principal
        /\ q.fundingCredit = f.fundingCredit - Credit(lpPositions[lp], f.lastUpdate)
                                 + Credit(x, f.lastUpdate)
        /\ q.claimedPrincipal = f.claimedPrincipal - lpPositions[lp].claimedPrincipal
                                    + x.claimedPrincipal
        /\ q.claimedYield = f.claimedYield - lpPositions[lp].claimedYield + x.claimedYield
        /\ q.claimedOverrunYield = f.claimedOverrunYield
                                       - lpPositions[lp].claimedOverrunYield
                                       + x.claimedOverrunYield
        /\ q.claimedBonus = f.claimedBonus - lpPositions[lp].claimedBonus + x.claimedBonus
      BY <1>2, <1>3, <1>6, <1>7, <1>10, <1>13, <2>1, <2>4, <2>5, PoolTypes, PositionTypes
  <2>7. x.lastUpdate <= f.lastUpdate
      BY <1>3, <1>6, <1>13, PoolTypes
  <2> QED
      BY <1>2, <1>3, <1>9, <1>10, <1>13, <1>14, <2>2, <2>3, <2>6, <2>7, LpChange
<1> QED
    BY <1>1, <1>11, <1>12, <1>16 DEF MoneyInv

\* The end of the funding window moves no token.
LEMMA FinalizeMoney ==
    ASSUME IInv, MoneyInv, FinalizeFunding
    PROVE  MoneyInv'
<1>1. /\ pool' = triggerFinalizeFunding(pool, now)
      /\ UNCHANGED <<now, lpPositions, poolBalance, treasury>>
    BY Zenon DEF FinalizeFunding
<1>2. PoolSound(pool', now) /\ Held(pool') = Held(pool) /\ LpSound(lpPositions, pool')
    BY <1>1, CheckpointedMoney
<1> QED
    BY <1>1, <1>2 DEF MoneyInv

-----------------------------------------------------------------------------
(* One lemma per call: claims *)

\* Rounding down never pays more than the exact share.
LEMMA ShareBelow ==
    ASSUME NEW x \in Nat, NEW y \in Nat, NEW d \in Nat \ {0}
    PROVE  mulDiv(x, y, d) \in Nat /\ mulDiv(x, y, d) * d <= x * y
<1> DEFINE n == x * y
<1>1. n \in Nat /\ mulDiv(x, y, d) = n \div d
    BY MulNat DEF mulDiv
<1> HIDE DEF n
<1>2. n \div d \in Nat /\ n = d * (n \div d) + (n % d) /\ n % d \in 0..(d - 1)
    BY <1>1
<1>3. (n \div d) * d <= n
    BY <1>1, <1>2
<1> QED
    BY <1>1, <1>2, <1>3 DEF n

\* claimYield pays each stream out of what was collected for it and not yet claimed.
LEMMA ClaimYieldMoney ==
    ASSUME IInv, IInv', MoneyInv, NEW lp \in LPs, ClaimYield(lp)
    PROVE  MoneyInv' /\ SameOut(pool, pool')
<1> DEFINE a       == accrue(pool, now)
           pos     == settleLpDollarSeconds(lpPositions[lp], a)
           p       == mature(a, treasury, now)
           base    == least(claimableBase(pos, p, now), p.collectedYield - p.claimedYield)
           overrun == least(claimableOverrun(pos, p),
                            p.collectedOverrunYield - p.claimedOverrunYield)
           bonus   == least(claimableBonus(pos, p), p.collectedBonus - p.claimedBonus)
           q       == [p EXCEPT !.claimedYield = @ + base, !.claimedOverrunYield = @ + overrun,
                                !.claimedBonus = @ + bonus]
           x       == [pos EXCEPT !.claimedYield = @ + base,
                                  !.claimedOverrunYield = @ + overrun,
                                  !.claimedBonus = @ + bonus]
           paid    == base + overrun + bonus
           topped  == maturityTopUp(a, treasury, now)
<1>1. /\ pool.status \in Claimable
      /\ p.dollarSeconds > 0 /\ p.principal > 0
      /\ pool' = q /\ lpPositions' = [lpPositions EXCEPT ![lp] = x]
      /\ Settle(a, 0, paid)
      /\ UNCHANGED now
    BY Zenon DEF ClaimYield
<1>2. /\ now \in Nat /\ lpPositions \in [LPs -> LPPosition] /\ lpPositions[lp] \in LPPosition
      /\ treasury \in TreasuryState /\ poolBalance \in Int /\ ReserveSound(treasury)
      /\ treasury.balance = treasury.reserveBalance + treasury.imFeesBalance
    BY Typed DEF MoneyInv
<1>3. /\ a \in Pool /\ LedgerInv(a) /\ PoolSound(a, now)
      /\ SameLedger(pool, a) /\ SameCredit(pool, a)
      /\ poolBalance = InPool(a) /\ LpSound(lpPositions, a)
    BY <1>1, AccruedMoney DEF Claimable, LockedStatuses
<1>4. a.status \in LockedStatuses
    BY <1>1, <1>3 DEF Claimable, LockedStatuses, SameLedger
<1> HIDE DEF a
<1>5. /\ p \in Pool /\ LedgerInv(p) /\ PoolSound(p, now)
      /\ p.status \in LockedStatuses /\ p.status \in {a.status, "Closed"}
      /\ topped \in Nat
      /\ InPool(p) = InPool(a) - topped
      /\ p.outstanding = a.outstanding
      /\ SameCredit(a, p)
      /\ LpSound(lpPositions, p)
    BY <1>2, <1>3, <1>4, MatureSound
<1> HIDE DEF p
<1>6. NonNegPosition(lpPositions[lp]) /\ lpPositions[lp].lastUpdate <= a.lastUpdate
    BY <1>3 DEF LpSound, LpEach
<1>7. /\ pos \in LPPosition /\ NonNegPosition(pos)
      /\ pos.lastUpdate <= a.lastUpdate
      /\ Credit(pos, a.lastUpdate) = Credit(lpPositions[lp], a.lastUpdate)
      /\ pos.principal = lpPositions[lp].principal
      /\ pos.claimedPrincipal = lpPositions[lp].claimedPrincipal
      /\ pos.claimedYield = lpPositions[lp].claimedYield
      /\ pos.claimedOverrunYield = lpPositions[lp].claimedOverrunYield
      /\ pos.claimedBonus = lpPositions[lp].claimedBonus
    BY <1>2, <1>3, <1>4, <1>6, SettledPosition
<1> HIDE DEF pos
<1>8. /\ base \in Nat /\ p.claimedYield + base <= p.collectedYield
      /\ overrun \in Nat /\ p.claimedOverrunYield + overrun <= p.collectedOverrunYield
      /\ bonus \in Nat /\ p.claimedBonus + bonus <= p.collectedBonus
  <2>1. claimableBase(pos, p, now) \in Nat /\ claimableOverrun(pos, p) \in Nat
        /\ claimableBonus(pos, p) \in Nat
      BY <1>1, <1>2, <1>5, <1>7, ClaimableNat
  <2>2. Covered(p)
      BY <1>5 DEF PoolSound
  <2> QED
      BY <2>1, <2>2, <1>5, PoolTypes DEF least, Covered
<1> HIDE DEF base, overrun, bonus
<1>9. q \in Pool /\ q.status \in Statuses
    BY <1>1, NextTyped, PoolTypes
<1>10. /\ q.claimedYield = p.claimedYield + base
       /\ q.claimedOverrunYield = p.claimedOverrunYield + overrun
       /\ q.claimedBonus = p.claimedBonus + bonus
       /\ q.claimedPrincipal = p.claimedPrincipal
       /\ SameLedger(p, q) /\ SameCoupon(p, q) /\ SameRest(p, q) /\ SameCredit(p, q)
       /\ q.overrunYield = p.overrunYield
    BY <1>5 DEF SameLedger, SameCoupon, SameRest, SameCredit, Pool
<1>11. x \in LPPosition
       /\ x.claimedYield = pos.claimedYield + base
       /\ x.claimedOverrunYield = pos.claimedOverrunYield + overrun
       /\ x.claimedBonus = pos.claimedBonus + bonus
       /\ x.claimedPrincipal = pos.claimedPrincipal
       /\ x.principal = pos.principal /\ x.fundingCredit = pos.fundingCredit
       /\ x.lastUpdate = pos.lastUpdate /\ x.dollarSeconds = pos.dollarSeconds
  <2> DEFINE x1 == pos.claimedYield + base
             x2 == pos.claimedOverrunYield + overrun
             x3 == pos.claimedBonus + bonus
             y == [pos EXCEPT !.claimedYield = x1, !.claimedOverrunYield = x2,
                              !.claimedBonus = x3]
  <2>1. x1 \in Int /\ x2 \in Int /\ x3 \in Int
      BY <1>7, <1>8, PositionTypes
  <2>2. x = y
      BY <1>7 DEF LPPosition
  <2> HIDE DEF x1, x2, x3, x
  <2>3. y \in LPPosition
      BY <1>7, <2>1, PositionUpdate, Zenon
  <2>4. /\ y.claimedYield = x1 /\ y.claimedOverrunYield = x2 /\ y.claimedBonus = x3
        /\ y.claimedPrincipal = pos.claimedPrincipal
        /\ y.principal = pos.principal /\ y.fundingCredit = pos.fundingCredit
        /\ y.lastUpdate = pos.lastUpdate /\ y.dollarSeconds = pos.dollarSeconds
      BY <1>7 DEF LPPosition
  <2> HIDE DEF y
  <2> QED
      BY <2>2, <2>3, <2>4 DEF x1, x2, x3
<1> HIDE DEF q, x
<1>12. PoolSound(q, now)
  <2>1. NonNeg(q)
      BY <1>5, <1>8, <1>10, PoolTypes
      DEF PoolSound, NonNeg, SameLedger, SameCoupon, SameRest, SameCredit
  <2>2. Covered(q)
      BY <1>8, <1>10 DEF Covered, SameCoupon, SameRest
  <2>3. Fresh(q) /\ Clock(q, now) /\ Ended(q)
      BY <1>5, <1>10
      DEF PoolSound, Fresh, Clock, Ended, whole, SameLedger, SameCoupon, SameRest, SameCredit
  <2> QED
      BY <2>1, <2>2, <2>3 DEF PoolSound
<1>13. InPool(q) = InPool(p) - paid
    BY <1>5, <1>8, <1>10, PoolTypes DEF InPool, SameLedger, SameCoupon, SameRest
<1>14. paid \in Int /\ 0 \in Int
    BY <1>8
<1> HIDE DEF paid, topped
<1>15. /\ poolBalance' = poolBalance + 0 - paid - topped
       /\ ReserveSound(treasury')
       /\ treasury'.balance = treasury'.reserveBalance + treasury'.imFeesBalance
    BY <1>1, <1>2, <1>5, <1>14, SettleSound DEF topped
<1>16. poolBalance' = Held(q)
  <2>1. q.status \in LockedStatuses
      BY <1>5, <1>10 DEF SameLedger
  <2> QED
      BY <1>2, <1>3, <1>5, <1>13, <1>14, <1>15, <2>1 DEF Held
<1>17. LpSound([lpPositions EXCEPT ![lp] = x], q)
  <2>1. /\ q.lastUpdate = p.lastUpdate /\ q.principal = p.principal
        /\ q.fundingCredit = p.fundingCredit
        /\ q.collectedPrincipal = p.collectedPrincipal
        /\ p.lastUpdate = a.lastUpdate
      BY <1>5, <1>10 DEF SameLedger, SameCredit
  <2>2. \A l \in LPs : lpPositions[l].claimedPrincipal * q.principal
                          <= lpPositions[l].principal * q.collectedPrincipal
      BY <1>5, <2>1 DEF LpSound, LpEach
  <2>3. x.claimedPrincipal * q.principal <= x.principal * q.collectedPrincipal
      BY <1>7, <1>11, <2>2
  <2>4. Credit(x, p.lastUpdate) = Credit(lpPositions[lp], p.lastUpdate)
      BY <1>7, <1>11, <2>1, Zenon DEF Credit
  <2>5. Credit(lpPositions[lp], p.lastUpdate) \in Int
    <3>1. lpPositions[lp].lastUpdate <= p.lastUpdate
        BY <1>6, <2>1
    <3> QED
        BY <1>2, <1>5, <1>6, <3>1, CreditNat, PoolTypes
  <2>6. /\ q.principal = p.principal - lpPositions[lp].principal + x.principal
        /\ q.fundingCredit = p.fundingCredit - Credit(lpPositions[lp], p.lastUpdate)
                                 + Credit(x, p.lastUpdate)
        /\ q.claimedPrincipal = p.claimedPrincipal - lpPositions[lp].claimedPrincipal
                                    + x.claimedPrincipal
        /\ q.claimedYield = p.claimedYield - lpPositions[lp].claimedYield + x.claimedYield
        /\ q.claimedOverrunYield = p.claimedOverrunYield
                                       - lpPositions[lp].claimedOverrunYield
                                       + x.claimedOverrunYield
        /\ q.claimedBonus = p.claimedBonus - lpPositions[lp].claimedBonus + x.claimedBonus
      BY <1>5, <1>7, <1>8, <1>10, <1>11, <2>1, <2>4, <2>5, PoolTypes, PositionTypes
  <2>7. x.lastUpdate <= p.lastUpdate
      BY <1>7, <1>11, <2>1
  <2>8. NonNegPosition(x)
      BY <1>7, <1>8, <1>11, PositionTypes DEF NonNegPosition
  <2> QED
      BY <1>2, <1>5, <1>9, <1>11, <2>1, <2>2, <2>3, <2>6, <2>7, <2>8, LpChange
<1>18. SameOut(pool, q)
    BY <1>1, <1>3, <1>5, <1>10, PoolTypes DEF SameOut, SameLedger, Claimable
<1> QED
    BY <1>1, <1>12, <1>15, <1>16, <1>17, <1>18 DEF MoneyInv

\* claimPrincipal pays no LP more than its exact share of the collected principal.
LEMMA ClaimPrincipalMoney ==
    ASSUME IInv, IInv', MoneyInv, NEW lp \in LPs, ClaimPrincipal(lp)
    PROVE  MoneyInv' /\ SameOut(pool, pool')
<1> DEFINE a      == accrueIdleFees(pool, now)
           p      == mature(a, treasury, now)
           pos    == lpPositions[lp]
           share  == mulDiv(pos.principal, p.collectedPrincipal, p.principal)
           paid   == monus(share, pos.claimedPrincipal)
           q      == [p EXCEPT !.claimedPrincipal = @ + paid]
           taken  == pos.claimedPrincipal + paid
           x      == [pos EXCEPT !.claimedPrincipal = taken]
           topped == maturityTopUp(a, treasury, now)
<1>1. /\ pool.status \in Claimable
      /\ p.principal > 0
      /\ pool' = q
      /\ lpPositions' = [lpPositions EXCEPT ![lp].claimedPrincipal = @ + paid]
      /\ Settle(a, 0, paid)
      /\ UNCHANGED now
    BY Zenon DEF ClaimPrincipal
<1>2. /\ now \in Nat /\ lpPositions \in [LPs -> LPPosition] /\ pos \in LPPosition
      /\ treasury \in TreasuryState /\ poolBalance \in Int /\ ReserveSound(treasury)
      /\ treasury.balance = treasury.reserveBalance + treasury.imFeesBalance
    BY Typed DEF MoneyInv
<1>3. lpPositions' = [lpPositions EXCEPT ![lp] = x]
    BY <1>1
<1>4. /\ a \in Pool /\ LedgerInv(a) /\ PoolSound(a, now)
      /\ SameLedger(pool, a) /\ SameCredit(pool, a)
      /\ poolBalance = InPool(a) /\ LpSound(lpPositions, a)
    BY <1>1, AccruedMoney DEF Claimable, LockedStatuses
<1>5. a.status \in LockedStatuses
    BY <1>1, <1>4 DEF Claimable, LockedStatuses, SameLedger
<1> HIDE DEF a
<1>6. /\ p \in Pool /\ LedgerInv(p) /\ PoolSound(p, now)
      /\ p.status \in LockedStatuses /\ p.status \in {a.status, "Closed"}
      /\ topped \in Nat
      /\ InPool(p) = InPool(a) - topped
      /\ p.outstanding = a.outstanding
      /\ LpSound(lpPositions, p)
    BY <1>2, <1>4, <1>5, MatureSound
<1> HIDE DEF p
<1>7. /\ NonNegPosition(pos) /\ pos.lastUpdate <= p.lastUpdate
      /\ pos.claimedPrincipal * p.principal <= pos.principal * p.collectedPrincipal
    BY <1>6 DEF LpSound, LpEach
<1> HIDE DEF pos
<1>8. /\ pos.principal \in Nat /\ pos.claimedPrincipal \in Nat
      /\ p.collectedPrincipal \in Nat /\ p.principal \in Nat \ {0}
    BY <1>1, <1>2, <1>6, <1>7, PoolTypes, PositionTypes DEF PoolSound, NonNeg, NonNegPosition
<1>9. share \in Nat /\ share * p.principal <= pos.principal * p.collectedPrincipal
    BY <1>8, ShareBelow
<1> HIDE DEF share
<1>10. /\ paid \in Nat /\ taken \in Nat
       /\ taken * p.principal <= pos.principal * p.collectedPrincipal
  <2>1. CASE share > pos.claimedPrincipal
    <3>1. paid = share - pos.claimedPrincipal /\ taken = share
        BY <1>8, <1>9, <2>1 DEF monus
    <3> QED
        BY <1>8, <1>9, <2>1, <3>1
  <2>2. CASE ~(share > pos.claimedPrincipal)
    <3>1. paid = 0 /\ taken = pos.claimedPrincipal
        BY <1>8, <1>9, <2>2 DEF monus
    <3> QED
        BY <1>7, <1>8, <3>1
  <2> QED
      BY <2>1, <2>2
<1>11. taken = pos.claimedPrincipal + paid
    OBVIOUS
<1> HIDE DEF paid, taken
<1>12. q \in Pool
    BY <1>1, NextTyped
<1>13. /\ q.claimedPrincipal = p.claimedPrincipal + paid
       /\ q.claimedYield = p.claimedYield
       /\ q.claimedOverrunYield = p.claimedOverrunYield
       /\ q.claimedBonus = p.claimedBonus
       /\ SameLedger(p, q) /\ SameCoupon(p, q) /\ SameRest(p, q) /\ SameCredit(p, q)
       /\ q.overrunYield = p.overrunYield
    BY <1>6 DEF SameLedger, SameCoupon, SameRest, SameCredit, Pool
<1>14. /\ x \in LPPosition
       /\ x.claimedPrincipal = taken
       /\ x.claimedYield = pos.claimedYield
       /\ x.claimedOverrunYield = pos.claimedOverrunYield
       /\ x.claimedBonus = pos.claimedBonus
       /\ x.principal = pos.principal /\ x.fundingCredit = pos.fundingCredit
       /\ x.lastUpdate = pos.lastUpdate /\ x.dollarSeconds = pos.dollarSeconds
  <2>1. taken \in Int
      BY <1>10
  <2> QED
      BY <1>2, <2>1, PositionUpdate DEF LPPosition
<1> HIDE DEF q, x
<1>15. PoolSound(q, now)
  <2>1. NonNeg(q)
      BY <1>6, <1>10, <1>13, PoolTypes
      DEF PoolSound, NonNeg, SameLedger, SameCoupon, SameRest, SameCredit
  <2>2. Covered(q)
      BY <1>6, <1>13 DEF PoolSound, Covered, SameCoupon, SameRest
  <2>3. Fresh(q) /\ Clock(q, now) /\ Ended(q)
      BY <1>6, <1>13
      DEF PoolSound, Fresh, Clock, Ended, whole, SameLedger, SameCoupon, SameRest, SameCredit
  <2> QED
      BY <2>1, <2>2, <2>3 DEF PoolSound
<1>16. InPool(q) = InPool(p) - paid
    BY <1>6, <1>10, <1>13, PoolTypes DEF InPool, SameLedger, SameCoupon, SameRest
<1>17. paid \in Int /\ 0 \in Int
    BY <1>10
<1> HIDE DEF topped
<1>18. /\ poolBalance' = poolBalance + 0 - paid - topped
       /\ ReserveSound(treasury')
       /\ treasury'.balance = treasury'.reserveBalance + treasury'.imFeesBalance
    BY <1>1, <1>2, <1>6, <1>17, SettleSound DEF topped
<1>19. poolBalance' = Held(q)
  <2>1. q.status \in LockedStatuses
      BY <1>6, <1>13 DEF SameLedger
  <2> QED
      BY <1>2, <1>4, <1>6, <1>16, <1>17, <1>18, <2>1 DEF Held
<1>20. LpSound([lpPositions EXCEPT ![lp] = x], q)
  <2>1. /\ q.lastUpdate = p.lastUpdate /\ q.principal = p.principal
        /\ q.fundingCredit = p.fundingCredit
        /\ q.collectedPrincipal = p.collectedPrincipal
      BY <1>13 DEF SameLedger, SameCredit
  <2>2. \A l \in LPs : lpPositions[l].claimedPrincipal * q.principal
                          <= lpPositions[l].principal * q.collectedPrincipal
      BY <1>6, <2>1 DEF LpSound, LpEach
  <2>3. x.claimedPrincipal * q.principal <= x.principal * q.collectedPrincipal
      BY <1>10, <1>14, <2>1
  <2>4. Credit(x, p.lastUpdate) = Credit(pos, p.lastUpdate)
      BY <1>14, Zenon DEF Credit
  <2>5. Credit(pos, p.lastUpdate) \in Int
      BY <1>2, <1>6, <1>7, CreditNat, PoolTypes
  <2>6. /\ q.principal = p.principal - pos.principal + x.principal
        /\ q.fundingCredit = p.fundingCredit - Credit(pos, p.lastUpdate)
                                 + Credit(x, p.lastUpdate)
        /\ q.claimedPrincipal = p.claimedPrincipal - pos.claimedPrincipal
                                    + x.claimedPrincipal
        /\ q.claimedYield = p.claimedYield - pos.claimedYield + x.claimedYield
        /\ q.claimedOverrunYield = p.claimedOverrunYield - pos.claimedOverrunYield
                                       + x.claimedOverrunYield
        /\ q.claimedBonus = p.claimedBonus - pos.claimedBonus + x.claimedBonus
      BY <1>2, <1>6, <1>10, <1>11, <1>13, <1>14, <2>1, <2>4, <2>5, PoolTypes, PositionTypes
  <2>7. x.lastUpdate <= p.lastUpdate
      BY <1>7, <1>14
  <2>8. NonNegPosition(x)
      BY <1>7, <1>10, <1>14 DEF NonNegPosition
  <2> QED
      BY <1>2, <1>6, <1>12, <1>14, <2>1, <2>2, <2>3, <2>6, <2>7, <2>8, LpChange DEF pos
<1>21. SameOut(pool, q)
    BY <1>1, <1>4, <1>6, <1>13, PoolTypes DEF SameOut, SameLedger, Claimable
<1> QED
    BY <1>1, <1>3, <1>15, <1>18, <1>19, <1>20, <1>21 DEF MoneyInv

-----------------------------------------------------------------------------
(* One lemma per call: drawdowns, repayments and default *)

\* The storage p of a pool that is not closed becomes q, not closed: the shares stay.
LEMMA OpenSound ==
    ASSUME NEW p \in Pool, NEW q \in Pool, NEW t \in Nat, PoolSound(p, t),
           p.status \in {"Active", "Default"}, q.status \in {"Active", "Default"},
           SameClaims(p, q), Grows(p, q), NonNeg(q), q.principal = p.principal,
           q.pspReleased = p.pspReleased, q.collectedBonus = p.collectedBonus,
           q.fundingCredit = p.fundingCredit, q.lastUpdate = p.lastUpdate,
           q.poolStartTs = p.poolStartTs
    PROVE  /\ PoolSound(q, t)
           /\ \A L \in [LPs -> LPPosition] : LpSound(L, p) => LpSound(L, q)
<1>1. p.status \in LockedStatuses /\ q.status \in LockedStatuses
    BY DEF LockedStatuses
<1>2. Ended(q) /\ q.collectedBonus = 0
    BY DEF PoolSound, Ended, Fresh
<1>3. PoolSound(q, t)
    BY <1>1, <1>2, KeepSound
<1>4. q.collectedPrincipal >= p.collectedPrincipal
    BY DEF Grows
<1>5. ASSUME NEW L \in [LPs -> LPPosition], LpSound(L, p) PROVE LpSound(L, q)
    BY <1>4, <1>5, LpFrame
<1> QED
    BY <1>3, <1>5

\* A drawdown pays undrawn capital out.
LEMMA DrawdownMoney ==
    ASSUME IInv, IInv', MoneyInv, NEW ref \in Refs, NEW w \in Receivers,
           NEW amount \in DrawAmounts,
           NEW days \in SettlementDays, ExecuteDrawdown(ref, w, amount, days)
    PROVE  /\ MoneyInv'
           /\ pool'.outstanding = pool.outstanding + amount /\ pool.status = "Active"
<1> DEFINE p    == accrue(pool, now)
           left == monus(p.idleExemptAmount, amount)
           q    == [p EXCEPT !.availableToDd = @ - amount, !.outstanding = @ + amount,
                             !.idleExemptAmount = left,
                             !.idleExemptUntil = IF left = 0 THEN 0 ELSE @]
<1>1. /\ pool.status = "Active" /\ amount <= pool.availableToDd
      /\ pool' = q
      /\ poolBalance' = poolBalance - amount
      /\ UNCHANGED <<now, lpPositions, treasury>>
    BY Zenon DEF ExecuteDrawdown
<1>2. /\ now \in Nat /\ lpPositions \in [LPs -> LPPosition] /\ poolBalance \in Int
      /\ amount \in Nat
    BY Typed, PoolAssumption
<1>3. /\ p \in Pool /\ PoolSound(p, now) /\ SameLedger(pool, p)
      /\ poolBalance = InPool(p) /\ LpSound(lpPositions, p)
    BY <1>1, AccruedMoney DEF LockedStatuses
<1> HIDE DEF p, left
<1>4. q \in Pool
    BY <1>1, NextTyped
<1>5. /\ q.status = "Active" /\ q.principal = p.principal
      /\ q.availableToDd = p.availableToDd - amount
      /\ q.outstanding = p.outstanding + amount
      /\ q.collectedPrincipal = p.collectedPrincipal
      /\ q.pspReleased = p.pspReleased
      /\ SameClaims(p, q) /\ SameCoupon(p, q) /\ SameRest(p, q) /\ SameCredit(p, q)
      /\ q.overrunYield = p.overrunYield
    BY <1>1, <1>3 DEF SameLedger, SameClaims, SameCoupon, SameRest, SameCredit, Pool
<1> HIDE DEF q
<1>6. NonNeg(q)
    BY <1>1, <1>2, <1>3, <1>5, PoolTypes
    DEF PoolSound, NonNeg, SameLedger, SameClaims, SameCoupon, SameRest, SameCredit
<1>7. Grows(p, q)
    BY <1>3, <1>5, PoolTypes DEF Grows, SameCoupon, SameRest
<1>8. PoolSound(q, now) /\ LpSound(lpPositions, q)
    BY <1>1, <1>2, <1>3, <1>4, <1>5, <1>6, <1>7, OpenSound
    DEF SameLedger, SameRest, SameCredit
<1>9. InPool(q) = InPool(p) - amount
    BY <1>2, <1>3, <1>5, PoolTypes DEF InPool, SameClaims, SameCoupon, SameRest
<1>10. poolBalance' = Held(q)
    BY <1>1, <1>3, <1>5, <1>9 DEF Held, LockedStatuses
<1> QED
    BY <1>1, <1>3, <1>5, <1>8, <1>10 DEF MoneyInv, SameLedger

\* A repayment brings back what was lent out and its charge.
LEMMA RepayMoney ==
    ASSUME IInv, IInv', MoneyInv, NEW ref \in Refs, Repay(ref),
           drawDowns[ref].principal <= pool.outstanding
    PROVE  /\ MoneyInv' /\ pool.status = "Active"
           /\ pool'.outstanding = pool.outstanding - drawDowns[ref].principal
<1> DEFINE dd     == drawDowns[ref]
           charge == financeCharge(dd, now)
           a      == accrue(pool, now)
           back   == dd.principal
           r      == returnPrincipal(a, back, now)
           p      == allocate(r, charge, now)
           topped == maturityTopUp(p, treasury, now)
<1>1. /\ pool.status = "Active"
      /\ back > 0
      /\ pool' = mature(p, treasury, now)
      /\ Settle(p, back + charge, 0)
      /\ UNCHANGED <<now, lpPositions>>
    BY Zenon DEF Repay
<1>2. /\ now \in Nat /\ lpPositions \in [LPs -> LPPosition] /\ poolBalance \in Int
      /\ treasury \in TreasuryState /\ ReserveSound(treasury)
      /\ treasury.balance = treasury.reserveBalance + treasury.imFeesBalance
    BY Typed DEF MoneyInv
<1>3. /\ a \in Pool /\ LedgerInv(a) /\ PoolSound(a, now) /\ SameLedger(pool, a)
      /\ poolBalance = InPool(a) /\ LpSound(lpPositions, a)
    BY <1>1, AccruedMoney DEF LockedStatuses
<1> HIDE DEF a
<1>4. dd \in DrawDown /\ back \in Nat \ {0}
    BY <1>1, BookTyped DEF DrawDown
<1>5. charge \in Nat
    BY <1>2, <1>4, ChargeNat
<1>6. back <= a.outstanding /\ a.status = "Active"
    BY <1>1, <1>3 DEF SameLedger
<1> HIDE DEF dd, back, charge
<1>7. /\ r \in Pool /\ r.status = "Active" /\ r.principal = a.principal
      /\ SameCoupon(a, r) /\ Conserved(r) /\ IdleSound(r)
    BY <1>2, <1>3, <1>4, <1>6, ReturnPool DEF LedgerInv, LockedStatuses
<1>8. r.pspReleased = a.pspReleased /\ r.outstanding = a.outstanding - back
    BY <1>2, <1>3, <1>4, ReturnLine
<1>9. /\ SameClaims(a, r) /\ SameRest(a, r) /\ SameCredit(a, r)
      /\ InPool(r) = InPool(a) + back /\ Grows(a, r) /\ NonNeg(r)
    BY <1>2, <1>3, <1>4, <1>6, ReturnMoney DEF PoolSound
<1> HIDE DEF r
<1>10. PoolSound(r, now) /\ LpSound(lpPositions, r)
    BY <1>2, <1>3, <1>6, <1>7, <1>8, <1>9, OpenSound DEF SameRest, SameCredit
<1>11. CouponFirst(r)
    BY <1>3, <1>7 DEF LedgerInv, CouponFirst, SameCoupon
<1>12. p \in Pool /\ SameLedger(r, p) /\ SameIdle(r, p) /\ CouponFirst(p)
    BY <1>2, <1>5, <1>7, <1>11, AllocatePool
<1>13. /\ SameClaims(r, p) /\ SameCredit(r, p)
       /\ p.collectedBonus = r.collectedBonus
       /\ InPool(p) = InPool(r) + charge /\ Grows(r, p) /\ NonNeg(p)
    BY <1>2, <1>5, <1>7, <1>9, AllocateMoney
<1> HIDE DEF p
<1>14. PoolSound(p, now) /\ LpSound(lpPositions, p)
    BY <1>2, <1>7, <1>10, <1>12, <1>13, OpenSound DEF SameLedger, SameCredit
<1>15. LedgerInv(p) /\ p.status \in LockedStatuses
    BY <1>7, <1>12
    DEF LedgerInv, LockedStatuses, SameLedger, SameIdle, IdleSound, Conserved, WoundDown
<1>16. /\ PoolSound(pool', now) /\ pool'.status \in LockedStatuses
       /\ topped \in Nat
       /\ InPool(pool') = InPool(p) - topped
       /\ pool'.outstanding = p.outstanding
       /\ LpSound(lpPositions, pool')
    BY <1>1, <1>2, <1>12, <1>14, <1>15, MatureSound
<1>17. back + charge \in Int /\ 0 \in Int
    BY <1>4, <1>5
<1> HIDE DEF topped
<1>18. /\ poolBalance' = poolBalance + (back + charge) - 0 - topped
       /\ ReserveSound(treasury')
       /\ treasury'.balance = treasury'.reserveBalance + treasury'.imFeesBalance
    BY <1>1, <1>2, <1>16, <1>17, SettleSound DEF topped
<1>19. poolBalance' = Held(pool')
    BY <1>2, <1>3, <1>4, <1>5, <1>9, <1>13, <1>16, <1>18 DEF Held
<1>20. pool'.outstanding = pool.outstanding - back
    BY <1>3, <1>8, <1>12, <1>16 DEF SameLedger
<1> QED
    BY <1>1, <1>16, <1>18, <1>19, <1>20 DEF MoneyInv, back, dd

\* Idle fees and penalties that are paid go through the waterfall.
LEMMA PayFeesMoney ==
    ASSUME IInv, IInv', MoneyInv, NEW amount \in PayAmounts, PayAccruedIdleFees(amount)
    PROVE  MoneyInv' /\ SameOut(pool, pool')
<1> DEFINE a    == accrue(pool, now)
           pay  == least(amount, a.accIdleFees + a.accPenalty)
           fees == least(pay, a.accIdleFees)
           f    == a.accIdleFees - fees
           e    == a.accPenalty - (pay - fees)
           q    == [a EXCEPT !.accIdleFees = f, !.accPenalty = e]
           p    == allocate(q, pay, now)
           topped == maturityTopUp(p, treasury, now)
<1>1. pool.status = "Active" /\ UNCHANGED <<now, lpPositions>>
    BY Zenon DEF PayAccruedIdleFees
<1>2. /\ now \in Nat /\ lpPositions \in [LPs -> LPPosition] /\ poolBalance \in Int
      /\ treasury \in TreasuryState /\ ReserveSound(treasury)
      /\ treasury.balance = treasury.reserveBalance + treasury.imFeesBalance
    BY Typed DEF MoneyInv
<1>3. /\ a \in Pool /\ LedgerInv(a) /\ PoolSound(a, now) /\ SameLedger(pool, a)
      /\ poolBalance = InPool(a) /\ LpSound(lpPositions, a)
      /\ a.status = "Active"
    BY <1>1, AccruedMoney DEF LockedStatuses, SameLedger
<1>4. \/ pool' = a /\ UNCHANGED <<treasury, poolBalance>>
      \/ pool' = mature(p, treasury, now) /\ Settle(p, pay, 0)
  <2>1. IF pay = 0 THEN pool' = a /\ UNCHANGED <<treasury, poolBalance>>
        ELSE LET r == allocate([a EXCEPT !.accIdleFees = @ - fees,
                                         !.accPenalty = @ - (pay - fees)], pay, now)
             IN  pool' = mature(r, treasury, now) /\ Settle(r, pay, 0)
      BY Zenon DEF PayAccruedIdleFees
  <2> HIDE DEF a, pay, fees
  <2>2. [a EXCEPT !.accIdleFees = @ - fees, !.accPenalty = @ - (pay - fees)] = q
      BY <1>3 DEF Pool
  <2> HIDE DEF q
  <2> QED
      BY <2>1, <2>2
<1> HIDE DEF a
<1>5. a.accIdleFees \in Nat /\ a.accPenalty \in Nat /\ amount \in Nat
    BY <1>3, PoolTypes, PoolAssumption DEF LedgerInv, IdleSound
<1>6. pay \in Nat /\ f \in Nat /\ e \in Nat /\ f \in Int /\ e \in Int
    BY <1>5 DEF least
<1> HIDE DEF pay, f, e
<1>7. q \in Pool
    BY <1>3, <1>6, PrincipalUpdate, Zenon
<1>8. /\ SameLedger(a, q) /\ SameCoupon(a, q)
      /\ SameClaims(a, q) /\ SameRest(a, q) /\ SameCredit(a, q)
      /\ q.overrunYield = a.overrunYield
      /\ q.idleExemptAmount = a.idleExemptAmount
      /\ q.idleExemptUntil = a.idleExemptUntil
      /\ q.accIdleFees = f /\ q.accPenalty = e
    BY <1>3 DEF SameLedger, SameCoupon, SameClaims, SameRest, SameCredit, Pool
<1> HIDE DEF q
<1>9. LedgerInv(q) /\ q.status = "Active"
  <2>1. IdleSound(q)
      BY <1>3, <1>6, <1>8 DEF LedgerInv, IdleSound, SameLedger
  <2> QED
      BY <1>3, <1>7, <1>8, <2>1, LedgerFrame DEF LockedStatuses, SameLedger
<1>10. /\ NonNeg(q) /\ Grows(a, q) /\ InPool(q) = InPool(a)
    BY <1>3, <1>8, PoolTypes
    DEF PoolSound, NonNeg, Grows, InPool, SameLedger, SameCoupon, SameClaims, SameRest,
        SameCredit
<1>11. PoolSound(q, now) /\ LpSound(lpPositions, q)
    BY <1>2, <1>3, <1>7, <1>8, <1>9, <1>10, OpenSound DEF SameLedger, SameRest, SameCredit
<1>12. p \in Pool /\ SameLedger(q, p) /\ SameIdle(q, p) /\ CouponFirst(p)
    BY <1>2, <1>6, <1>7, <1>9, AllocatePool DEF LedgerInv
<1>13. /\ SameClaims(q, p) /\ SameCredit(q, p)
       /\ p.collectedBonus = q.collectedBonus
       /\ InPool(p) = InPool(q) + pay /\ Grows(q, p) /\ NonNeg(p)
    BY <1>2, <1>6, <1>7, <1>10, AllocateMoney
<1> HIDE DEF p
<1>14. PoolSound(p, now) /\ LpSound(lpPositions, p)
    BY <1>2, <1>7, <1>9, <1>11, <1>12, <1>13, OpenSound DEF SameLedger, SameCredit
<1>15. LedgerInv(p) /\ p.status \in LockedStatuses
    BY <1>9, <1>12
    DEF LedgerInv, LockedStatuses, SameLedger, SameIdle, IdleSound, Conserved, WoundDown
<1>16. CASE pool' = a /\ UNCHANGED <<treasury, poolBalance>>
  <2>1. poolBalance' = Held(a) /\ SameOut(pool, a)
      BY <1>1, <1>3, <1>16, PoolTypes DEF Held, LockedStatuses, SameOut, SameLedger
  <2> QED
      BY <1>1, <1>2, <1>3, <1>16, <2>1 DEF MoneyInv
<1>17. CASE pool' = mature(p, treasury, now) /\ Settle(p, pay, 0)
  <2>1. /\ PoolSound(pool', now) /\ pool'.status \in LockedStatuses
        /\ topped \in Nat
        /\ InPool(pool') = InPool(p) - topped
        /\ pool'.outstanding = p.outstanding
        /\ LpSound(lpPositions, pool')
      BY <1>2, <1>12, <1>14, <1>15, <1>17, MatureSound
  <2>2. pay \in Int /\ 0 \in Int
      BY <1>6
  <2> HIDE DEF topped
  <2>3. /\ poolBalance' = poolBalance + pay - 0 - topped
        /\ ReserveSound(treasury')
        /\ treasury'.balance = treasury'.reserveBalance + treasury'.imFeesBalance
      BY <1>2, <1>17, <2>1, <2>2, SettleSound DEF topped
  <2>4. poolBalance' = Held(pool')
      BY <1>2, <1>3, <1>10, <1>13, <2>1, <2>2, <2>3 DEF Held
  <2>5. SameOut(pool, pool')
      BY <1>1, <1>3, <1>8, <1>12, <2>1, PoolTypes DEF SameOut, SameLedger
  <2> QED
      BY <1>1, <2>1, <2>3, <2>4, <2>5 DEF MoneyInv
<1> QED
    BY <1>4, <1>16, <1>17

-----------------------------------------------------------------------------
(* One lemma per call: default recovery and the rest *)

\* The end of a default recovery moves no money.
LEMMA ResolveSound ==
    ASSUME NEW p \in Pool, NEW t \in Nat, PoolSound(p, t), p.status = "Default"
    PROVE  LET q == resolveDefaultIfWhole(p)
           IN  /\ PoolSound(q, t)
               /\ q.status \in {"Default", "Closed"}
               /\ InPool(q) = InPool(p) /\ q.outstanding = p.outstanding
               /\ \A L \in [LPs -> LPPosition] : LpSound(L, p) => LpSound(L, q)
<1> DEFINE q == resolveDefaultIfWhole(p)
<1>1. /\ q \in Pool
      /\ SameClaims(p, q) /\ SameCredit(p, q) /\ SameRest(p, q)
      /\ SameLent(p, q)
      /\ q.principal = p.principal
      /\ InPool(q) = InPool(p) /\ Grows(p, q)
      /\ NonNeg(p) => NonNeg(q)
      /\ \/ q.status = p.status /\ q.pspReleased = p.pspReleased
         \/ q.status = "Closed" /\ q.pspReleased /\ whole(q)
    BY ResolveMoney
<1> HIDE DEF q
<1>2. NonNeg(q) /\ Ended(q) /\ q.collectedBonus = 0
    BY <1>1 DEF PoolSound, Ended, Fresh, SameRest
<1>3. p.status \in LockedStatuses /\ q.status \in LockedStatuses
    BY <1>1 DEF LockedStatuses
<1>4. PoolSound(q, t)
    BY <1>1, <1>2, <1>3, KeepSound DEF SameCredit
<1>5. ASSUME NEW L \in [LPs -> LPPosition], LpSound(L, p) PROVE LpSound(L, q)
    BY <1>1, <1>5, LpFrame DEF SameCredit, Grows
<1>6. q.outstanding = p.outstanding
    BY <1>1 DEF SameLent
<1> QED
    BY <1>1, <1>4, <1>5, <1>6 DEF q

\* The default only moves money between the books of the pool.
LEMMA DeclareDefaultMoney ==
    ASSUME IInv, IInv', MoneyInv, DeclareDefault
    PROVE  MoneyInv' /\ SameOut(pool, pool')
<1> DEFINE a == accrue(pool, now)
           u == collectUndrawn(a)
           b == rebaseCoupon(u, now)
           p == rescue(b)
           d == [p EXCEPT !.status = "Default"]
<1>1. /\ pool.status = "Active" /\ pool' = resolveDefaultIfWhole(d)
      /\ UNCHANGED <<now, lpPositions, poolBalance, treasury>>
    BY Zenon DEF DeclareDefault
<1>2. now \in Nat /\ lpPositions \in [LPs -> LPPosition]
    BY Typed
<1>3. /\ a \in Pool /\ PoolSound(a, now) /\ SameLedger(pool, a)
      /\ poolBalance = InPool(a) /\ LpSound(lpPositions, a)
    BY <1>1, AccruedMoney DEF LockedStatuses
<1> HIDE DEF a
<1>4. /\ u \in Pool /\ u.principal = a.principal /\ u.pspReleased = a.pspReleased
      /\ SameClaims(a, u) /\ SameRest(a, u) /\ SameCredit(a, u)
      /\ InPool(u) = InPool(a) /\ Grows(a, u) /\ NonNeg(u)
      /\ u.outstanding = a.outstanding
  <2>1. NonNeg(a) /\ a.availableToDd >= 0
      BY <1>3 DEF PoolSound, NonNeg
  <2> QED
      BY <1>3, <2>1, UndrawnPool, UndrawnMoney
<1> HIDE DEF u
<1>5. /\ b \in Pool /\ SameLedger(u, b)
      /\ SameClaims(u, b) /\ SameRest(u, b)
      /\ b.fundingCredit = u.fundingCredit
      /\ b.lastUpdate = u.lastUpdate /\ b.poolStartTs = u.poolStartTs
      /\ InPool(b) = InPool(u) /\ Grows(u, b) /\ NonNeg(b)
  <2>1. u.poolStartTs <= now
      BY <1>3, <1>4 DEF PoolSound, Clock, SameCredit
  <2> QED
      BY <1>2, <1>4, <2>1, RebasePool, RebaseMoney
<1> HIDE DEF b
<1>6. /\ p \in Pool /\ p.principal = b.principal /\ p.pspReleased = b.pspReleased
      /\ SameClaims(b, p) /\ SameCredit(b, p)
      /\ p.collectedBonus = b.collectedBonus
      /\ InPool(p) = InPool(b) /\ Grows(b, p) /\ NonNeg(p)
      /\ p.outstanding <= b.outstanding
    BY <1>5, RescuePool, RescueMoney
<1> HIDE DEF p
<1>7. /\ d \in Pool /\ d.status = "Default" /\ d.pspReleased = p.pspReleased
      /\ d.principal = p.principal
      /\ SameClaims(p, d) /\ SameCredit(p, d) /\ SameRest(p, d)
      /\ InPool(d) = InPool(p) /\ Grows(p, d) /\ NonNeg(d)
      /\ SameLent(p, d)
    BY <1>6, CloseMoney DEF Statuses
<1> HIDE DEF d
<1>8. /\ SameClaims(a, d) /\ d.principal = a.principal /\ d.pspReleased = a.pspReleased
      /\ d.collectedBonus = a.collectedBonus /\ d.fundingCredit = a.fundingCredit
      /\ d.lastUpdate = a.lastUpdate /\ d.poolStartTs = a.poolStartTs
    BY <1>4, <1>5, <1>6, <1>7 DEF SameClaims, SameCredit, SameRest, SameLedger
<1>9. Grows(a, d)
    BY <1>3, <1>4, <1>5, <1>6, <1>7, PoolTypes DEF Grows
<1>10. a.status \in {"Active", "Default"} /\ d.status \in {"Active", "Default"}
    BY <1>1, <1>3, <1>7 DEF SameLedger
<1>11. PoolSound(d, now) /\ LpSound(lpPositions, d)
    BY <1>2, <1>3, <1>7, <1>8, <1>9, <1>10, OpenSound
<1>12. /\ PoolSound(pool', now) /\ pool'.status \in {"Default", "Closed"}
       /\ InPool(pool') = InPool(d) /\ LpSound(lpPositions, pool')
       /\ pool'.outstanding = d.outstanding
    BY <1>1, <1>2, <1>7, <1>11, ResolveSound
<1>14. pool'.outstanding <= pool.outstanding
    BY <1>3, <1>4, <1>5, <1>6, <1>7, <1>12, PoolTypes DEF SameLedger, SameLent
<1>13. poolBalance' = Held(pool')
    BY <1>1, <1>3, <1>4, <1>5, <1>6, <1>7, <1>12 DEF Held, LockedStatuses
<1> QED
    BY <1>1, <1>12, <1>13, <1>14 DEF MoneyInv, SameOut

\* What is drawn from the reserve is in it.
LEMMA DrawnMoney ==
    ASSUME NEW tr \in TreasuryState, ReserveSound(tr),
           tr.balance = tr.reserveBalance + tr.imFeesBalance, NEW asked \in Nat
    PROVE  LET n == drawn(tr, asked)
               q == drawReserve(tr, n)
           IN  /\ n \in Nat /\ n <= asked
               /\ ReserveSound(q)
               /\ q.balance = q.reserveBalance + q.imFeesBalance
<1> DEFINE n == drawn(tr, asked)
           m == drawn(tr, n)
           q == drawReserve(tr, n)
<1>1. {tr.reserveBalance, tr.imFeesBalance, tr.balance} \subseteq Int /\ tr.reserveBalance >= 0
    BY DEF TreasuryState, ReserveSound
<1>2. n \in Nat /\ n <= asked /\ n <= tr.reserveBalance
    BY <1>1 DEF drawn, least
<1> HIDE DEF n
<1>3. m = n
    BY <1>1, <1>2 DEF drawn, least
<1>4. q = [tr EXCEPT !.reserveBalance = @ - m, !.balance = @ - m]
    BY Zenon DEF drawReserve
<1> HIDE DEF m
<1>5. /\ q.reserveBalance = tr.reserveBalance - m
      /\ q.balance = tr.balance - m /\ q.imFeesBalance = tr.imFeesBalance
    BY <1>4 DEF TreasuryState
<1> QED
    BY <1>1, <1>2, <1>3, <1>5 DEF ReserveSound, n

\* settleDefaultPrincipal brings back no more than is lent out.
LEMMA SettlePrincipalMoney ==
    ASSUME IInv, IInv', MoneyInv, NEW amount \in PayAmounts, SettleDefaultPrincipal(amount)
    PROVE  MoneyInv' /\ SameOut(pool, pool')
<1> DEFINE owed        == monus(pool.principal, pool.collectedPrincipal)
           asked       == owed - least(amount, owed)
           fromReserve == drawn(treasury, asked)
           paid        == least(amount, owed) + fromReserve
           coll        == pool.collectedPrincipal + paid
           out         == pool.outstanding - paid
           q           == [pool EXCEPT !.collectedPrincipal = coll, !.outstanding = out]
<1>1. /\ pool.status = "Default"
      /\ treasury' = drawReserve(treasury, fromReserve)
      /\ poolBalance' = poolBalance + paid
      /\ UNCHANGED <<now, lpPositions>>
    BY Zenon DEF SettleDefaultPrincipal
<1>2. (pool' = pool /\ paid = 0) \/ pool' = resolveDefaultIfWhole(q)
  <2>1. \/ pool' = pool /\ paid = 0
        \/ pool' = resolveDefaultIfWhole([pool EXCEPT !.collectedPrincipal = @ + paid,
                                                      !.outstanding = @ - paid])
      BY Zenon DEF SettleDefaultPrincipal
  <2> HIDE DEF paid
  <2>2. [pool EXCEPT !.collectedPrincipal = @ + paid, !.outstanding = @ - paid] = q
      BY Typed DEF Pool
  <2> HIDE DEF q
  <2> QED
      BY <2>1, <2>2
<1>3. /\ now \in Nat /\ lpPositions \in [LPs -> LPPosition] /\ poolBalance \in Int
      /\ treasury \in TreasuryState /\ ReserveSound(treasury)
      /\ treasury.balance = treasury.reserveBalance + treasury.imFeesBalance
      /\ pool \in Pool /\ LedgerInv(pool) /\ PoolSound(pool, now)
      /\ poolBalance = Held(pool) /\ LpSound(lpPositions, pool)
      /\ amount \in Nat
    BY Typed, PoolAssumption DEF MoneyInv
<1>4. owed \in Nat /\ owed <= pool.outstanding
    BY <1>1, <1>3, PoolTypes
    DEF LedgerInv, LockedStatuses, Conserved, WoundDown, PoolSound, NonNeg, monus
<1> HIDE DEF owed
<1>5. asked \in Nat /\ least(amount, owed) \in Nat /\ asked + least(amount, owed) = owed
    BY <1>3, <1>4 DEF least
<1> HIDE DEF asked
<1>6. /\ fromReserve \in Nat /\ fromReserve <= asked
      /\ ReserveSound(treasury')
      /\ treasury'.balance = treasury'.reserveBalance + treasury'.imFeesBalance
    BY <1>1, <1>3, <1>5, DrawnMoney
<1> HIDE DEF fromReserve
<1>7. paid \in Nat /\ paid <= pool.outstanding
  <2>1. pool.outstanding \in Int
      BY <1>3, PoolTypes
  <2> QED
      BY <1>4, <1>5, <1>6, <2>1
<1> HIDE DEF paid
<1>8. coll \in Int /\ out \in Int
    BY <1>3, <1>7, PoolTypes
<1>9. q \in Pool
  <2> HIDE DEF coll, out
  <2> QED
      BY <1>3, <1>8, PrincipalUpdate, Zenon
<1>10. /\ q.status = "Default" /\ q.principal = pool.principal
       /\ q.pspReleased = pool.pspReleased
       /\ q.availableToDd = pool.availableToDd
       /\ q.outstanding = pool.outstanding - paid
       /\ q.collectedPrincipal = pool.collectedPrincipal + paid
       /\ SameClaims(pool, q) /\ SameCoupon(pool, q) /\ SameRest(pool, q)
       /\ SameCredit(pool, q) /\ q.overrunYield = pool.overrunYield
    BY <1>1, <1>3 DEF SameClaims, SameCoupon, SameRest, SameCredit, Pool
<1> HIDE DEF q
<1>11. NonNeg(q) /\ Grows(pool, q) /\ InPool(q) = InPool(pool) + paid
    BY <1>3, <1>7, <1>10, PoolTypes
    DEF PoolSound, NonNeg, Grows, InPool, SameClaims, SameCoupon, SameRest, SameCredit
<1>12. PoolSound(q, now) /\ LpSound(lpPositions, q)
    BY <1>1, <1>3, <1>9, <1>10, <1>11, OpenSound DEF SameRest, SameCredit
<1>13. /\ PoolSound(pool', now) /\ LpSound(lpPositions, pool')
       /\ pool'.status \in {"Default", "Closed"}
       /\ InPool(pool') = InPool(pool) + paid
       /\ pool'.outstanding = pool.outstanding - paid
  <2>1. CASE pool' = pool /\ paid = 0
    <3>1. InPool(pool) = InPool(pool) + paid
        BY <1>3, <2>1, PoolTypes DEF InPool
    <3>2. pool.outstanding = pool.outstanding - paid
        BY <1>3, <2>1, PoolTypes
    <3> QED
        BY <1>1, <1>3, <2>1, <3>1, <3>2
  <2>2. CASE pool' = resolveDefaultIfWhole(q)
      BY <1>3, <1>9, <1>10, <1>11, <1>12, <2>2, ResolveSound
  <2> QED
      BY <1>2, <2>1, <2>2
<1>14. poolBalance' = Held(pool')
    BY <1>1, <1>3, <1>13 DEF Held, LockedStatuses
<1> QED
    BY <1>1, <1>3, <1>6, <1>7, <1>13, <1>14, PoolTypes DEF MoneyInv, SameOut

\* settleDefaultYield collects what it is paid.
LEMMA SettleYieldMoney ==
    ASSUME IInv, IInv', MoneyInv, NEW amount \in PayAmounts, SettleDefaultYield(amount)
    PROVE  MoneyInv' /\ SameOut(pool, pool')
<1> DEFINE owed        == yieldShort(pool) + overrunShort(pool)
           asked       == owed - least(amount, owed)
           fromReserve == drawn(treasury, asked)
           paid        == least(amount, owed) + fromReserve
           q           == fill(pool, paid)
<1>1. /\ pool.status = "Default"
      /\ (pool' = pool /\ paid = 0) \/ pool' = resolveDefaultIfWhole(q)
      /\ treasury' = drawReserve(treasury, fromReserve)
      /\ poolBalance' = poolBalance + paid
      /\ UNCHANGED <<now, lpPositions>>
    BY Zenon DEF SettleDefaultYield
<1>2. /\ now \in Nat /\ lpPositions \in [LPs -> LPPosition] /\ poolBalance \in Int
      /\ treasury \in TreasuryState /\ ReserveSound(treasury)
      /\ treasury.balance = treasury.reserveBalance + treasury.imFeesBalance
      /\ pool \in Pool /\ LedgerInv(pool) /\ PoolSound(pool, now)
      /\ poolBalance = Held(pool) /\ LpSound(lpPositions, pool)
      /\ amount \in Nat
    BY Typed, PoolAssumption DEF MoneyInv
<1>3. yieldShort(pool) \in Nat /\ overrunShort(pool) \in Nat /\ owed \in Nat
    BY <1>2, PoolTypes DEF yieldShort, overrunShort, monus
<1>4. owed = yieldShort(pool) + overrunShort(pool)
    OBVIOUS
<1> HIDE DEF owed
<1>5. asked \in Nat /\ least(amount, owed) \in Nat /\ asked + least(amount, owed) = owed
    BY <1>2, <1>3 DEF least
<1> HIDE DEF asked
<1>6. /\ fromReserve \in Nat /\ fromReserve <= asked
      /\ ReserveSound(treasury')
      /\ treasury'.balance = treasury'.reserveBalance + treasury'.imFeesBalance
    BY <1>1, <1>2, <1>5, DrawnMoney
<1> HIDE DEF fromReserve
<1>7. paid \in Nat /\ paid \in Int /\ paid <= owed
    BY <1>3, <1>5, <1>6
<1> HIDE DEF paid
<1>8. /\ q \in Pool /\ SameLedger(pool, q)
      /\ q.yieldOwed = pool.yieldOwed /\ q.reservedYield = pool.reservedYield
    BY <1>2, <1>7, FillPool
<1>9. /\ SameClaims(pool, q) /\ SameCredit(pool, q)
      /\ q.protocolFees = pool.protocolFees /\ q.collectedBonus = pool.collectedBonus
      /\ q.overrunYield = pool.overrunYield
      /\ q.collectedYield + q.collectedOverrunYield
             = pool.collectedYield + pool.collectedOverrunYield + paid
      /\ q.collectedYield >= pool.collectedYield
      /\ q.collectedOverrunYield >= pool.collectedOverrunYield
  <2>1. /\ SameClaims(pool, q) /\ SameCredit(pool, q)
        /\ q.protocolFees = pool.protocolFees /\ q.collectedBonus = pool.collectedBonus
        /\ q.overrunYield = pool.overrunYield
        /\ q.collectedYield + q.collectedOverrunYield + surplus(pool, paid)
               = pool.collectedYield + pool.collectedOverrunYield + paid
        /\ q.collectedYield >= pool.collectedYield
        /\ q.collectedOverrunYield >= pool.collectedOverrunYield
        /\ surplus(pool, paid) = 0
    <3>1. paid <= yieldShort(pool) + overrunShort(pool) /\ paid >= 0
        BY <1>4, <1>7
    <3> QED
        BY <1>2, <1>7, <3>1, FillMoney
  <2> HIDE DEF q
  <2> QED
      BY <1>8, <2>1, PoolTypes
<1> HIDE DEF q
<1>10. NonNeg(q) /\ Grows(pool, q) /\ InPool(q) = InPool(pool) + paid
  <2>1. NonNeg(q)
      BY <1>2, <1>8, <1>9, PoolTypes DEF PoolSound, NonNeg, SameLedger, SameClaims, SameCredit
  <2>2. Grows(pool, q)
      BY <1>2, <1>8, <1>9, PoolTypes DEF Grows, SameLedger
  <2>3. InPool(q) = InPool(pool) + paid
      BY <1>2, <1>7, <1>8, <1>9, PoolTypes DEF InPool, SameLedger, SameClaims
  <2> QED
      BY <2>1, <2>2, <2>3
<1>11. PoolSound(q, now) /\ LpSound(lpPositions, q)
    BY <1>1, <1>2, <1>8, <1>9, <1>10, OpenSound DEF SameLedger, SameCredit
<1>12. /\ PoolSound(pool', now) /\ LpSound(lpPositions, pool')
       /\ pool'.status \in {"Default", "Closed"}
       /\ InPool(pool') = InPool(pool) + paid
       /\ pool'.outstanding = pool.outstanding
  <2>1. CASE pool' = pool /\ paid = 0
    <3>1. InPool(pool) = InPool(pool) + paid
        BY <1>2, <2>1, PoolTypes DEF InPool
    <3> QED
        BY <1>1, <1>2, <2>1, <3>1
  <2>2. CASE pool' = resolveDefaultIfWhole(q)
    <3>1. q.status = "Default"
        BY <1>1, <1>8 DEF SameLedger
    <3>2. q.outstanding = pool.outstanding
        BY <1>8 DEF SameLedger
    <3> QED
        BY <1>2, <1>8, <1>10, <1>11, <2>2, <3>1, <3>2, ResolveSound
  <2> QED
      BY <1>1, <2>1, <2>2
<1>13. poolBalance' = Held(pool')
    BY <1>1, <1>2, <1>12 DEF Held, LockedStatuses
<1> QED
    BY <1>1, <1>2, <1>6, <1>12, <1>13, PoolTypes DEF MoneyInv, SameOut

\* The sweep hands the protocol's fees over, and no more.
LEMMA SweepMoney ==
    ASSUME IInv, IInv', MoneyInv, SweepProtocolFees
    PROVE  MoneyInv' /\ SameOut(pool, pool')
<1> DEFINE q == [pool EXCEPT !.protocolFees = 0]
<1>1. /\ pool.status = "Closed" /\ pool' = q
      /\ treasury' = depositImFees(treasury, pool.protocolFees)
      /\ poolBalance' = poolBalance - pool.protocolFees
      /\ UNCHANGED <<now, lpPositions>>
    BY Zenon DEF SweepProtocolFees
<1>2. /\ now \in Nat /\ lpPositions \in [LPs -> LPPosition] /\ poolBalance \in Int
      /\ treasury \in TreasuryState /\ ReserveSound(treasury)
      /\ treasury.balance = treasury.reserveBalance + treasury.imFeesBalance
      /\ pool \in Pool /\ PoolSound(pool, now)
      /\ poolBalance = Held(pool) /\ LpSound(lpPositions, pool)
    BY Typed DEF MoneyInv
<1>3. q \in Pool
    BY <1>1, NextTyped
<1>4. /\ q.protocolFees = 0 /\ q.collectedBonus = pool.collectedBonus
      /\ q.collectedOverrunYield = pool.collectedOverrunYield
      /\ q.overrunYield = pool.overrunYield
      /\ SameLedger(pool, q) /\ SameCoupon(pool, q) /\ SameClaims(pool, q)
      /\ SameCredit(pool, q)
    BY <1>2 DEF SameLedger, SameCoupon, SameClaims, SameCredit, Pool
<1> HIDE DEF q
<1>5. /\ NonNeg(q) /\ Grows(pool, q) /\ InPool(q) = InPool(pool) - pool.protocolFees
    BY <1>2, <1>4, PoolTypes
    DEF PoolSound, NonNeg, Grows, InPool, SameLedger, SameCoupon, SameClaims, SameCredit
<1>6. PoolSound(q, now)
  <2>1. Ended(q) /\ q.status = "Closed" /\ q.principal = pool.principal
      BY <1>1, <1>2, <1>4 DEF PoolSound, Ended, whole, SameLedger, SameCoupon
  <2> QED
      BY <1>1, <1>2, <1>3, <1>4, <1>5, <2>1, KeepSound DEF LockedStatuses, SameCredit
<1>7. LpSound(lpPositions, q)
    BY <1>2, <1>3, <1>4, <1>5, LpFrame DEF SameLedger, SameCredit, Grows
<1>8. poolBalance' = Held(q)
    BY <1>1, <1>2, <1>4, <1>5 DEF Held, LockedStatuses, SameLedger
<1>9. /\ ReserveSound(treasury')
      /\ treasury'.balance = treasury'.reserveBalance + treasury'.imFeesBalance
  <2> DEFINE n == pool.protocolFees
  <2>1. n \in Nat
      BY <1>2, PoolTypes DEF PoolSound, NonNeg
  <2>2. treasury' = depositImFees(treasury, n)
      BY <1>1
  <2> HIDE DEF n
  <2>3. /\ treasury'.reserveBalance = treasury.reserveBalance
        /\ treasury'.balance = treasury.balance + n
        /\ treasury'.imFeesBalance = treasury.imFeesBalance + n
        /\ {treasury.reserveBalance, treasury.balance, treasury.imFeesBalance} \subseteq Int
      BY <1>2, <2>1, <2>2 DEF depositImFees, TreasuryState
  <2> QED
      BY <1>2, <2>1, <2>3 DEF ReserveSound
<1> QED
    BY <1>1, <1>2, <1>4, <1>6, <1>7, <1>8, <1>9, PoolTypes DEF MoneyInv, SameOut, SameLedger

\* The breaker writes flags only.
LEMMA BreakerMoney ==
    ASSUME IInv, IInv', MoneyInv, NEW b \in BreakerSettings, SetScOverdue(b) \/ SetPaused(b)
    PROVE  MoneyInv' /\ SameOut(pool, pool')
<1>1. /\ pool \in Pool /\ pool' \in Pool /\ PoolSound(pool, now)
      /\ lpPositions \in [LPs -> LPPosition] /\ now \in Nat
    BY Typed, NextTyped DEF MoneyInv
<1>2. UNCHANGED <<now, lpPositions, poolBalance, treasury>>
    BY DEF SetScOverdue, SetPaused
<1>3. /\ SameLedger(pool, pool') /\ SameCoupon(pool, pool') /\ SameClaims(pool, pool')
      /\ SameRest(pool, pool') /\ SameCredit(pool, pool')
      /\ pool'.overrunYield = pool.overrunYield
  <2>1. ASSUME NEW c, NEW d, pool' = [pool EXCEPT !.scOverdueCheck = c, !.paused = d]
        PROVE  <1>3!:
      BY <1>1, <2>1 DEF SameLedger, SameCoupon, SameClaims, SameRest, SameCredit, Pool
  <2>2. CASE SetScOverdue(b)
    <3> DEFINE d == IF b THEN pool.paused
                    ELSE \E ref \in liveRefs : accruesPenalty(drawDowns[ref], now)
    <3>1. pool' = [pool EXCEPT !.scOverdueCheck = b, !.paused = d]
        BY <1>1, <2>2 DEF SetScOverdue, Pool
    <3> HIDE DEF d
    <3> QED
        BY <2>1, <3>1
  <2>3. CASE SetPaused(b)
    <3>1. pool' = [pool EXCEPT !.scOverdueCheck = pool.scOverdueCheck, !.paused = b]
        BY <1>1, <2>3 DEF SetPaused, Pool
    <3> QED
        BY <2>1, <3>1
  <2> QED
      BY <2>2, <2>3
<1>4. PoolSound(pool', now)
    BY <1>1, <1>3
    DEF PoolSound, NonNeg, Fresh, Clock, Covered, Ended, whole, SameLedger, SameCoupon,
        SameClaims, SameRest, SameCredit
<1>5. Held(pool') = Held(pool)
    BY <1>3 DEF Held, InPool, SameLedger, SameCoupon, SameClaims, SameRest
<1>6. LpSound(lpPositions, pool')
  <2>1. pool'.collectedPrincipal >= pool.collectedPrincipal
      BY <1>1, <1>3, PoolTypes DEF SameLedger
  <2> QED
      BY <1>1, <1>3, <2>1, LpFrame DEF MoneyInv, SameLedger, SameCredit
<1> QED
    BY <1>1, <1>2, <1>3, <1>4, <1>5, <1>6, PoolTypes DEF MoneyInv, SameOut, SameLedger

\* The owner takes no more out of the reserve than is in it.
LEMMA OwnerMoney ==
    ASSUME IInv, MoneyInv, TreasuryOwner,
           UNCHANGED <<now, pool, lpPositions, drawVars, authorizedReceivers, poolBalance>>
    PROVE  MoneyInv'
<1>1. /\ treasury \in TreasuryState /\ ReserveSound(treasury)
      /\ treasury.balance = treasury.reserveBalance + treasury.imFeesBalance
    BY Typed DEF MoneyInv
<1>2. {treasury.reserveBalance, treasury.balance, treasury.imFeesBalance} \subseteq Int
    BY <1>1 DEF TreasuryState
<1>3. /\ ReserveSound(treasury')
      /\ treasury'.balance = treasury'.reserveBalance + treasury'.imFeesBalance
  <2>1. ASSUME NEW r \in RiskParams, SetRiskParams(r) PROVE <1>3!:
      BY <1>1, <2>1 DEF SetRiskParams, TreasuryState, ReserveSound
  <2>2. ASSUME NEW n \in OwnerAmounts, WithdrawReserve(n) PROVE <1>3!:
    <3>1. /\ treasury'.reserveBalance = treasury.reserveBalance - n
          /\ treasury'.balance = treasury.balance - n
          /\ treasury'.imFeesBalance = treasury.imFeesBalance
          /\ n <= treasury.reserveBalance
        BY <1>1, <2>2 DEF WithdrawReserve, TreasuryState
    <3> QED
        BY <1>1, <1>2, <3>1, TreasuryAssumption DEF ReserveSound
  <2>3. ASSUME NEW n \in OwnerAmounts, WithdrawImFees(n) PROVE <1>3!:
    <3>1. /\ treasury'.reserveBalance = treasury.reserveBalance
          /\ treasury'.balance = treasury.balance - n
          /\ treasury'.imFeesBalance = treasury.imFeesBalance - n
          /\ n <= treasury.imFeesBalance
        BY <1>1, <2>3 DEF WithdrawImFees, TreasuryState
    <3> QED
        BY <1>1, <1>2, <3>1, TreasuryAssumption DEF ReserveSound
  <2> QED
      BY <2>1, <2>2, <2>3 DEF TreasuryOwner
<1> QED
    BY <1>3 DEF MoneyInv

\* Time and the set of receivers touch no money.
LEMMA FrameMoney ==
    ASSUME IInv, MoneyInv, now' \in Nat, now' >= now,
           UNCHANGED <<pool, lpPositions, poolBalance, treasury>>
    PROVE  MoneyInv' /\ SameOut(pool, pool')
<1>1. Clock(pool, now')
    BY Typed, PoolTypes DEF MoneyInv, PoolSound, Clock
<1> QED
    BY <1>1, Typed, PoolTypes DEF MoneyInv, PoolSound, SameOut

-----------------------------------------------------------------------------
(* The book of drawdowns *)

\* The books D, I have the drawdown ref beyond those of E, J.
OneMore(D, I, E, J, ref) ==
    /\ I[ref] # 0
    /\ \A r \in Refs : J[r] # 0 <=> I[r] # 0 /\ r # ref
    /\ \A r \in Refs \ {ref} : E[r] = D[r]

\* The books D, I have one drawdown more than E, J: it is one more of its wallet's.
LEMMA DrawnOne ==
    ASSUME NEW D, NEW E, NEW I, NEW J, NEW ref \in Refs, NEW v, OneMore(D, I, E, J, ref)
    PROVE  /\ Cardinality(DrawnBy(E, J, v)) \in Nat
           /\ Cardinality(DrawnBy(D, I, v))
                = Cardinality(DrawnBy(E, J, v)) + IF v = D[ref].receiverWallet THEN 1 ELSE 0
<1> DEFINE S == DrawnBy(E, J, v)
           T == DrawnBy(D, I, v)
<1>1. IsFiniteSet(S) /\ ref \notin S
    BY PoolAssumption, FS_Subset DEF DrawnBy, OneMore
<1>2. T = IF v = D[ref].receiverWallet THEN S \cup {ref} ELSE S
    BY DEF DrawnBy, OneMore
<1> HIDE DEF S, T
<1>3. Cardinality(S) \in Nat /\ Cardinality(S \cup {ref}) = Cardinality(S) + 1
    BY <1>1, FS_AddElement, FS_CardinalityType
<1>4. CASE v = D[ref].receiverWallet
  <2>1. T = S \cup {ref}
      BY <1>2, <1>4
  <2>2. Cardinality(T) = Cardinality(S \cup {ref})
      BY <2>1, Zenon
  <2> QED
      BY <1>3, <1>4, <2>2 DEF S, T
<1>5. CASE v # D[ref].receiverWallet
  <2>1. T = S
      BY <1>2, <1>5
  <2>2. Cardinality(T) = Cardinality(S)
      BY <2>1, Zenon
  <2> QED
      BY <1>3, <1>5, <2>2 DEF S, T
<1> QED
    BY <1>4, <1>5

\* A sum over the references changes with one of its values.
LEMMA RefSumChange ==
    ASSUME NEW f, NEW g, NEW ref \in Refs,
           \A r \in Refs : f[r] \in Nat, \A r \in Refs : g[r] \in Nat,
           \A r \in Refs \ {ref} : g[r] = f[r]
    PROVE  SumOf(g, Refs) = SumOf(f, Refs) - f[ref] + g[ref]
BY SumChange, PoolAssumption

\* Rewriting one drawdown changes what is lent out by the difference.
LEMMA LentChange ==
    ASSUME NEW D \in [Refs -> DrawDown], NEW E \in [Refs -> DrawDown], NEW ref \in Refs,
           \A r \in Refs \ {ref} : E[r] = D[r]
    PROVE  /\ LentOn(E) = LentOn(D) - D[ref].principal + E[ref].principal
           /\ D[ref].principal <= LentOn(D)
           /\ LentOn(D) \in Nat
<1> DEFINE f == [r \in Refs |-> D[r].principal]
           g == [r \in Refs |-> E[r].principal]
<1>1. IsFiniteSet(Refs)
    BY PoolAssumption
<1>2. (\A r \in Refs : f[r] \in Nat) /\ (\A r \in Refs : g[r] \in Nat)
    BY DEF DrawDown
<1>3. \A r \in Refs \ {ref} : g[r] = f[r]
    OBVIOUS
<1>4. f[ref] = D[ref].principal /\ g[ref] = E[ref].principal
    OBVIOUS
<1> HIDE DEF f, g
<1>5. SumOf(g, Refs) = SumOf(f, Refs) - f[ref] + g[ref]
    BY <1>2, <1>3, RefSumChange, Zenon
<1>6. f[ref] <= SumOf(f, Refs) /\ SumOf(f, Refs) \in Nat
    BY <1>1, <1>2, SumElement, SumNat
<1> QED
    BY <1>4, <1>5, <1>6, Zenon DEF LentOn, f, g

\* A call that writes no drawdown, removes no receiver and lends nothing keeps the book.
LEMMA BookFrame ==
    ASSUME IInv, BookSound, UNCHANGED drawVars, authorizedReceivers \subseteq authorizedReceivers',
           SameOut(pool, pool')
    PROVE  BookSound'
<1>1. UNCHANGED <<drawDowns, refIndex, receiverActiveDrawdowns>>
    BY DEF drawVars
<1> QED
    BY <1>1 DEF BookSound, SameOut

\* A wallet is only removed when none of the live drawdowns was made to it.
LEMMA RemoveBook ==
    ASSUME IInv, BookSound, NEW w \in ManagedReceivers, RemoveReceiver(w)
    PROVE  BookSound'
<1>1. /\ w \in Receivers /\ receiverActiveDrawdowns[w] = 0
      /\ authorizedReceivers' = authorizedReceivers \ {w}
      /\ UNCHANGED <<pool, drawDowns, refIndex, receiverActiveDrawdowns>>
    BY PoolAssumption DEF RemoveReceiver, drawVars
<1>2. DrawnBy(drawDowns, refIndex, w) = {}
  <2> DEFINE S == DrawnBy(drawDowns, refIndex, w)
  <2>1. IsFiniteSet(S)
      BY PoolAssumption, FS_Subset DEF DrawnBy
  <2>2. Cardinality(S) = 0
      BY <1>1 DEF BookSound
  <2> HIDE DEF S
  <2>3. S = {}
      BY <2>1, <2>2, FS_EmptySet
  <2> QED
      BY <2>3 DEF S
<1>3. \A ref \in Refs : refIndex[ref] # 0 => drawDowns[ref].receiverWallet # w
    BY <1>2 DEF DrawnBy
<1> QED
    BY <1>1, <1>3 DEF BookSound

\* A drawdown enters the book with an authorized wallet.
LEMMA DrawdownBook ==
    ASSUME IInv, BookSound, NEW ref \in Refs, NEW w \in Receivers, NEW amount \in DrawAmounts,
           NEW days \in SettlementDays, ExecuteDrawdown(ref, w, amount, days), IInv',
           pool'.outstanding = pool.outstanding + amount
    PROVE  BookSound'
<1> DEFINE dd == [principal |-> amount, startTs |-> now,
                  expiryTs |-> now + (days - 1) * SECONDS_PER_DAY, receiverWallet |-> w]
<1>1. /\ pool.status = "Active" /\ w \in authorizedReceivers
      /\ drawDowns[ref].principal = 0
      /\ drawDowns' = [drawDowns EXCEPT ![ref] = dd]
      /\ drawDownRefs' = Append(drawDownRefs, ref)
      /\ refIndex' = [refIndex EXCEPT ![ref] = Len(drawDownRefs) + 1]
      /\ receiverActiveDrawdowns' = [receiverActiveDrawdowns EXCEPT ![w] = @ + 1]
      /\ UNCHANGED authorizedReceivers
    BY Zenon DEF ExecuteDrawdown
<1>2. /\ drawDowns \in [Refs -> DrawDown] /\ drawDowns' \in [Refs -> DrawDown]
      /\ receiverActiveDrawdowns \in [Receivers -> Nat]
      /\ refIndex[ref] = 0 /\ amount \in Nat /\ pool \in Pool
  <2>1. drawDowns \in [Refs -> DrawDown] /\ refIndex[ref] = 0 /\ pool \in Pool
      BY <1>1, BookTyped, Typed
  <2>2. receiverActiveDrawdowns \in [Receivers -> Nat]
      BY DEF IInv, TypeOK
  <2>3. drawDowns' \in [Refs -> DrawDown]
      BY DEF IInv, TypeOK
  <2>4. amount \in Nat
      BY PoolAssumption
  <2> QED
      BY <2>1, <2>2, <2>3, <2>4
<1>3. dd.principal = amount /\ dd.receiverWallet = w
    OBVIOUS
<1> HIDE DEF dd
<1>4. drawDowns'[ref] = dd /\ \A r \in Refs \ {ref} : drawDowns'[r] = drawDowns[r]
    BY <1>1, <1>2
<1>5. \A r \in Refs : refIndex'[r] # 0 <=> refIndex[r] # 0 \/ r = ref
    BY <1>1, <1>2, BookTyped, PushIndexed
<1>6. \A v : /\ Cardinality(DrawnBy(drawDowns, refIndex, v)) \in Nat
             /\ Cardinality(DrawnBy(drawDowns', refIndex', v))
                  = Cardinality(DrawnBy(drawDowns, refIndex, v))
                      + IF v = drawDowns'[ref].receiverWallet THEN 1 ELSE 0
  <2> DEFINE D == drawDowns
             E == drawDowns'
             I == refIndex
             J == refIndex'
  <2>1. OneMore(E, J, D, I, ref)
      BY <1>2, <1>4, <1>5 DEF OneMore
  <2> HIDE DEF D, E, I, J
  <2>2. ASSUME NEW v
        PROVE  /\ Cardinality(DrawnBy(D, I, v)) \in Nat
               /\ Cardinality(DrawnBy(E, J, v))
                    = Cardinality(DrawnBy(D, I, v)) + IF v = E[ref].receiverWallet THEN 1 ELSE 0
      BY <2>1, DrawnOne
  <2> QED
      BY <2>2 DEF D, E, I, J
<1>7. \A v \in Receivers : receiverActiveDrawdowns'[v]
                               = Cardinality(DrawnBy(drawDowns', refIndex', v))
  <2> SUFFICES ASSUME NEW v \in Receivers
               PROVE  receiverActiveDrawdowns'[v]
                          = Cardinality(DrawnBy(drawDowns', refIndex', v))
      OBVIOUS
  <2>1. receiverActiveDrawdowns[v] = Cardinality(DrawnBy(drawDowns, refIndex, v))
      BY DEF BookSound
  <2>2. receiverActiveDrawdowns'[v]
            = receiverActiveDrawdowns[v] + IF v = w THEN 1 ELSE 0
      BY <1>1, <1>2
  <2>3. drawDowns'[ref].receiverWallet = w
      BY <1>3, <1>4
  <2> QED
      BY <1>6, <2>1, <2>2, <2>3
<1>8. \A r \in Refs : refIndex'[r] # 0 => drawDowns'[r].receiverWallet \in authorizedReceivers'
    BY <1>1, <1>3, <1>4, <1>5 DEF BookSound
<1>9. pool'.outstanding = LentOn(drawDowns')
  <2>1. /\ LentOn(drawDowns')
               = LentOn(drawDowns) - drawDowns[ref].principal + drawDowns'[ref].principal
        /\ LentOn(drawDowns) \in Nat
      BY <1>2, <1>4, LentChange, Zenon
  <2>3. drawDowns[ref].principal = 0 /\ drawDowns'[ref].principal = amount
      BY <1>1, <1>3, <1>4
  <2>2. pool.outstanding = LentOn(drawDowns)
      BY <1>1 DEF BookSound
  <2> QED
      BY <1>2, <2>1, <2>2, <2>3
<1> QED
    BY <1>7, <1>8, <1>9 DEF BookSound

\* A live drawdown is part of what is lent out.
LEMMA LentOut ==
    ASSUME IInv, BookSound, NEW ref \in Refs, pool.status = "Active"
    PROVE  drawDowns[ref].principal <= pool.outstanding
BY LentChange, BookTyped DEF BookSound

\* A repayment leaves the book with its wallet's count.
LEMMA RepayBook ==
    ASSUME IInv, BookSound, NEW ref \in Refs, Repay(ref), IInv',
           pool'.outstanding = pool.outstanding - drawDowns[ref].principal
    PROVE  BookSound'
<1> DEFINE wallet == drawDowns[ref].receiverWallet
           last == Len(drawDownRefs)
<1>1. /\ pool.status = "Active" /\ refIndex[ref] > 0
      /\ drawDownRefs' =
             SubSeq([drawDownRefs EXCEPT ![refIndex[ref]] = drawDownRefs[last]], 1, last - 1)
      /\ refIndex' = [refIndex EXCEPT ![drawDownRefs[last]] = refIndex[ref], ![ref] = 0]
      /\ drawDowns' = [drawDowns EXCEPT ![ref] = NoDrawDown]
      /\ receiverActiveDrawdowns' = [receiverActiveDrawdowns EXCEPT ![wallet] = monus(@, 1)]
      /\ UNCHANGED authorizedReceivers
    BY Zenon DEF Repay, removeDrawDown
<1>2. /\ drawDowns \in [Refs -> DrawDown] /\ drawDowns' \in [Refs -> DrawDown]
      /\ receiverActiveDrawdowns \in [Receivers -> Nat]
      /\ refIndex \in [Refs -> Nat] /\ refIndex[ref] # 0 /\ pool \in Pool
    BY <1>1, BookTyped, Typed DEF IInv, TypeOK
<1>3. wallet \in authorizedReceivers /\ wallet \in Receivers
    BY <1>2, Typed DEF BookSound
<1> HIDE DEF wallet
<1>4. /\ drawDowns'[ref] = NoDrawDown
      /\ \A r \in Refs \ {ref} : drawDowns'[r] = drawDowns[r]
    BY <1>1, <1>2
<1>5. \A r \in Refs : refIndex'[r] # 0 <=> refIndex[r] # 0 /\ r # ref
  <2> DEFINE I2 == [refIndex EXCEPT ![drawDownRefs[last]] = refIndex[ref], ![ref] = 0]
  <2>1. \A r \in Refs : I2[r] # 0 <=> refIndex[r] # 0 /\ r # ref
      BY <1>2, BookTyped, SwapAndPop, Zenon
  <2> HIDE DEF I2
  <2>2. refIndex' = I2
      BY <1>1 DEF I2
  <2> QED
      BY <2>1, <2>2
<1>6. \A v : /\ Cardinality(DrawnBy(drawDowns', refIndex', v)) \in Nat
             /\ Cardinality(DrawnBy(drawDowns, refIndex, v))
                  = Cardinality(DrawnBy(drawDowns', refIndex', v))
                      + IF v = wallet THEN 1 ELSE 0
  <2>1. OneMore(drawDowns, refIndex, drawDowns', refIndex', ref)
      BY <1>2, <1>4, <1>5 DEF OneMore
  <2> QED
      BY <2>1, DrawnOne DEF wallet
<1>7. \A v \in Receivers : receiverActiveDrawdowns'[v]
                               = Cardinality(DrawnBy(drawDowns', refIndex', v))
  <2> SUFFICES ASSUME NEW v \in Receivers
               PROVE  receiverActiveDrawdowns'[v]
                          = Cardinality(DrawnBy(drawDowns', refIndex', v))
      OBVIOUS
  <2> DEFINE n == Cardinality(DrawnBy(drawDowns', refIndex', v))
  <2>1. n \in Nat /\ receiverActiveDrawdowns[v] = n + IF v = wallet THEN 1 ELSE 0
      BY <1>6 DEF BookSound
  <2>2. receiverActiveDrawdowns'[v]
            = IF v = wallet THEN monus(receiverActiveDrawdowns[v], 1)
              ELSE receiverActiveDrawdowns[v]
      BY <1>1, <1>2
  <2> HIDE DEF n
  <2>3. monus(n + 1, 1) = n
      BY <2>1 DEF monus
  <2>4. receiverActiveDrawdowns'[v] = n
      BY <2>1, <2>2, <2>3
  <2> QED
      BY <2>4 DEF n
<1>8. \A r \in Refs : refIndex'[r] # 0 => drawDowns'[r].receiverWallet \in authorizedReceivers'
    BY <1>1, <1>4, <1>5 DEF BookSound
<1>9. pool'.outstanding = LentOn(drawDowns')
  <2> DEFINE n == drawDowns[ref].principal
  <2>1. NoDrawDown.principal = 0
      BY DEF NoDrawDown
  <2>2. LentOn(drawDowns') = LentOn(drawDowns) - n + 0 /\ LentOn(drawDowns) \in Nat
      BY <1>2, <1>4, <2>1, LentChange
  <2>3. n \in Nat
      BY <1>2 DEF DrawDown
  <2>4. pool.outstanding = LentOn(drawDowns) /\ pool'.outstanding = pool.outstanding - n
      BY <1>1 DEF BookSound
  <2> HIDE DEF n
  <2> QED
      BY <2>2, <2>3, <2>4
<1> QED
    BY <1>7, <1>8, <1>9 DEF BookSound

-----------------------------------------------------------------------------
(* The invariant holds *)

\* The money of a pool: the types and the ledger, the book of drawdowns, the amounts.
FullInv == IInv /\ BookSound /\ MoneyInv

\* The sum of a position of zeroes is zero.
LEMMA InitLp ==
    ASSUME Init
    PROVE  LpSound(lpPositions, pool)
<1>1. \A lp \in LPs :
          /\ NonNegPosition(lpPositions[lp])
          /\ lpPositions[lp].principal = 0 /\ lpPositions[lp].fundingCredit = 0
          /\ lpPositions[lp].lastUpdate = 0
          /\ lpPositions[lp].claimedPrincipal = 0 /\ lpPositions[lp].claimedYield = 0
          /\ lpPositions[lp].claimedOverrunYield = 0 /\ lpPositions[lp].claimedBonus = 0
    BY DEF Init, NonNegPosition
<1>2. /\ pool.principal = 0 /\ pool.fundingCredit = 0 /\ pool.lastUpdate = now /\ now \in Nat
      /\ pool.collectedPrincipal = 0
      /\ pool.claimedPrincipal = 0 /\ pool.claimedYield = 0
      /\ pool.claimedOverrunYield = 0 /\ pool.claimedBonus = 0
    BY PoolAssumption DEF Init
<1>3. \A lp \in LPs : Credit(lpPositions[lp], pool.lastUpdate) = 0
    BY <1>1, <1>2 DEF Credit
<1>4. LpSums(lpPositions, pool)
    BY <1>1, <1>2, <1>3, SumZero DEF LpSums
<1>5. LpEach(lpPositions, pool)
    BY <1>1, <1>2 DEF LpEach
<1> QED
    BY <1>4, <1>5 DEF LpSound

\* A new pool satisfies the invariant.
LEMMA InitFull == Init => FullInv
<1> SUFFICES ASSUME Init PROVE FullInv
    OBVIOUS
<1>1. IInv
    BY InitIInv
<1>2. BookSound
  <2>1. \A w \in Receivers : DrawnBy(drawDowns, refIndex, w) = {}
      BY DEF Init, DrawnBy
  <2>2. \A w \in Receivers : Cardinality(DrawnBy(drawDowns, refIndex, w)) = Cardinality({})
      BY <2>1, Zenon
  <2>3. \A w \in Receivers : Cardinality(DrawnBy(drawDowns, refIndex, w)) = 0
      BY <2>2, FS_EmptySet
  <2>4. LentOn(drawDowns) = 0
      BY SumZero DEF Init, NoDrawDown, LentOn
  <2> QED
      BY <2>3, <2>4 DEF Init, BookSound
<1>3. PoolSound(pool, now) /\ poolBalance = Held(pool)
  <2>1. now \in Nat
      BY PoolAssumption DEF Init
  <2> QED
      BY <2>1 DEF Init, PoolSound, Fresh, NonNeg, Clock, Covered, Ended, Held, LockedStatuses
<1>4. ReserveSound(treasury)
      /\ treasury.balance = treasury.reserveBalance + treasury.imFeesBalance
    BY TreasuryAssumption DEF Init, TreasuryInit, ReserveSound
<1> QED
    BY <1>1, <1>2, <1>3, <1>4, InitLp DEF FullInv, MoneyInv

\* Steps of the funding line lend nothing.
LEMMA LineOut ==
    ASSUME NEW p \in Pool, NEW q \in Pool,
           SameLine(p, q) \/ Funds(p, q) \/ Locks(p, q) \/ Fails(p, q) \/ Leaves(p, q)
    PROVE  SameOut(p, q)
BY PoolTypes DEF SameOut, SameLine, Funds, Locks, Fails, Leaves, SameLent

\* Every call of an LP keeps the invariant.
LEMMA LpNextFull ==
    ASSUME FullInv, IInv', LpNext
    PROVE  FullInv'
<1>1. IInv /\ BookSound /\ MoneyInv
    BY DEF FullInv
<1>2. UNCHANGED drawVars /\ authorizedReceivers \subseteq authorizedReceivers'
    BY DEF LpNext, Deposit, Withdraw, ClaimYield, ClaimPrincipal, FinalizeFunding
<1>3. MoneyInv' /\ SameOut(pool, pool')
  <2>1. ASSUME NEW lp \in LPs, NEW amount \in LpAmounts, Deposit(lp, amount) PROVE <1>3!:
      BY <1>1, <2>1, DepositMoney, DepositLine, Typed, NextTyped, LineOut
  <2>2. ASSUME NEW lp \in LPs, NEW amount \in LpAmounts, Withdraw(lp, amount) PROVE <1>3!:
      BY <1>1, <2>2, WithdrawMoney, WithdrawLine, Typed, NextTyped, LineOut
  <2>3. ASSUME NEW lp \in LPs, ClaimYield(lp) PROVE <1>3!:
      BY <1>1, <2>3, ClaimYieldMoney
  <2>4. ASSUME NEW lp \in LPs, ClaimPrincipal(lp) PROVE <1>3!:
      BY <1>1, <2>4, ClaimPrincipalMoney
  <2>5. CASE FinalizeFunding
    <3>1. pool' = triggerFinalizeFunding(pool, now)
        BY <2>5, Zenon DEF FinalizeFunding
    <3>2. SameOut(pool, pool')
        BY <1>1, <3>1, Typed, NextTyped, FinalizeLine, LineOut
    <3> QED
        BY <1>1, <2>5, <3>2, FinalizeMoney
  <2> QED
      BY <2>1, <2>2, <2>3, <2>4, <2>5 DEF LpNext
<1> QED
    BY <1>1, <1>2, <1>3, BookFrame DEF FullInv

\* Every call of the agent keeps the invariant.
LEMMA AgentNextFull ==
    ASSUME FullInv, IInv', AgentNext
    PROVE  FullInv'
<1>1. IInv /\ BookSound /\ MoneyInv
    BY DEF FullInv
<1>2. ASSUME NEW ref \in Refs, NEW w \in Receivers, NEW amount \in DrawAmounts,
             NEW days \in SettlementDays, ExecuteDrawdown(ref, w, amount, days)
      PROVE  FullInv'
    BY <1>1, <1>2, DrawdownMoney, DrawdownBook DEF FullInv
<1>3. CASE DeclareDefault
  <2>1. UNCHANGED drawVars /\ authorizedReceivers \subseteq authorizedReceivers'
      BY <1>3 DEF DeclareDefault
  <2> QED
      BY <1>1, <1>3, <2>1, DeclareDefaultMoney, BookFrame DEF FullInv
<1>4. ASSUME NEW b \in BreakerSettings, SetScOverdue(b) \/ SetPaused(b)
      PROVE  FullInv'
  <2>1. UNCHANGED drawVars /\ authorizedReceivers \subseteq authorizedReceivers'
      BY <1>4 DEF SetScOverdue, SetPaused
  <2> QED
      BY <1>1, <1>4, <2>1, BreakerMoney, BookFrame DEF FullInv
<1>5. ASSUME NEW w \in ManagedReceivers, AddReceiver(w)
      PROVE  FullInv'
  <2>1. /\ UNCHANGED drawVars /\ authorizedReceivers \subseteq authorizedReceivers'
        /\ UNCHANGED <<now, pool, lpPositions, poolBalance, treasury>>
      BY <1>5 DEF AddReceiver
  <2>2. now' \in Nat /\ now' >= now
      BY <1>1, <2>1, Typed
  <2> QED
      BY <1>1, <2>1, <2>2, FrameMoney, BookFrame DEF FullInv
<1> QED
    BY <1>2, <1>3, <1>4, <1>5 DEF AgentNext

\* Every call of the PSP keeps the invariant.
LEMMA PspNextFull ==
    ASSUME FullInv, IInv', PspNext
    PROVE  FullInv'
<1>1. IInv /\ BookSound /\ MoneyInv
    BY DEF FullInv
<1>2. ASSUME NEW ref \in Refs, Repay(ref)
      PROVE  FullInv'
  <2>1. pool.status = "Active"
      BY <1>2, Zenon DEF Repay
  <2>2. drawDowns[ref].principal <= pool.outstanding
      BY <1>1, <2>1, LentOut
  <2> QED
      BY <1>1, <1>2, <2>2, RepayMoney, RepayBook DEF FullInv
<1>3. ASSUME NEW amount \in PayAmounts, PayAccruedIdleFees(amount)
      PROVE  FullInv'
  <2>1. UNCHANGED drawVars /\ authorizedReceivers \subseteq authorizedReceivers'
      BY <1>3 DEF PayAccruedIdleFees
  <2> QED
      BY <1>1, <1>3, <2>1, PayFeesMoney, BookFrame DEF FullInv
<1> QED
    BY <1>2, <1>3 DEF PspNext

\* Every call of the multisig and of the owner of the reserve keeps the invariant.
LEMMA MultisigNextFull ==
    ASSUME FullInv, IInv', MultisigNext
    PROVE  FullInv'
<1>1. IInv /\ BookSound /\ MoneyInv
    BY DEF FullInv
<1>2. ASSUME NEW amount \in PayAmounts,
             SettleDefaultPrincipal(amount) \/ SettleDefaultYield(amount)
      PROVE  FullInv'
  <2>1. UNCHANGED drawVars /\ authorizedReceivers \subseteq authorizedReceivers'
      BY <1>2 DEF SettleDefaultPrincipal, SettleDefaultYield
  <2> QED
      BY <1>1, <1>2, <2>1, SettlePrincipalMoney, SettleYieldMoney, BookFrame DEF FullInv
<1>3. CASE SweepProtocolFees
  <2>1. UNCHANGED drawVars /\ authorizedReceivers \subseteq authorizedReceivers'
      BY <1>3 DEF SweepProtocolFees
  <2> QED
      BY <1>1, <1>3, <2>1, SweepMoney, BookFrame DEF FullInv
<1>4. ASSUME NEW w \in ManagedReceivers, RemoveReceiver(w)
      PROVE  FullInv'
  <2>1. UNCHANGED <<now, pool, lpPositions, poolBalance, treasury>>
      BY <1>4 DEF RemoveReceiver
  <2>2. now' \in Nat /\ now' >= now
      BY <1>1, <2>1, Typed
  <2> QED
      BY <1>1, <1>4, <2>1, <2>2, FrameMoney, RemoveBook DEF FullInv
<1>5. CASE /\ TreasuryOwner
           /\ UNCHANGED <<now, pool, lpPositions, drawVars, authorizedReceivers, poolBalance>>
  <2>1. SameOut(pool, pool')
      BY <1>1, <1>5, Typed, PoolTypes DEF SameOut
  <2> QED
      BY <1>1, <1>5, <2>1, OwnerMoney, BookFrame DEF FullInv
<1> QED
    BY <1>2, <1>3, <1>4, <1>5 DEF MultisigNext

\* Every step keeps the invariant.
LEMMA NextFull == FullInv /\ [Next]_vars => FullInv'
<1> SUFFICES ASSUME FullInv, [Next]_vars PROVE FullInv'
    OBVIOUS
<1>1. IInv /\ BookSound /\ MoneyInv /\ IInv'
    BY NextIInv DEF FullInv
<1>2. CASE Tick \/ UNCHANGED vars
  <2>1. /\ UNCHANGED drawVars /\ authorizedReceivers \subseteq authorizedReceivers'
        /\ UNCHANGED <<pool, lpPositions, poolBalance, treasury>>
        /\ now' = now + 1 \/ now' = now
      BY <1>2 DEF Tick, vars
  <2>2. now' \in Nat /\ now' >= now
      BY <1>1, <2>1, Typed
  <2> QED
      BY <1>1, <2>1, <2>2, FrameMoney, BookFrame DEF FullInv
<1> QED
    BY <1>1, <1>2, LpNextFull, AgentNextFull, PspNextFull, MultisigNextFull DEF Next

\* Every reachable state satisfies the invariant of the money.
THEOREM MoneyInvariance == Spec => []FullInv
BY InitFull, NextFull, PTL DEF Spec

-----------------------------------------------------------------------------
(* What the invariant says *)

\* The types and facts of the invariant, without its parts.
LEMMA FullTyped ==
    ASSUME FullInv
    PROVE  /\ now \in Nat /\ pool \in Pool /\ LedgerInv(pool)
           /\ lpPositions \in [LPs -> LPPosition]
           /\ poolBalance \in Int /\ treasury \in TreasuryState
           /\ PoolSound(pool, now) /\ LpSound(lpPositions, pool)
           /\ ReserveSound(treasury)
BY Typed DEF FullInv, MoneyInv

\* The books are the balances.
LEMMA FullSolvent == FullInv => Solvency
<1> SUFFICES ASSUME FullInv PROVE Solvency
    OBVIOUS
<1>1. poolBalance = Held(pool)
    BY DEF FullInv, MoneyInv
<1>2. Held(pool) = booked
    BY DEF Held, InPool, booked, Locked, LockedStatuses
<1>3. treasury.balance = treasury.reserveBalance + treasury.imFeesBalance
    BY DEF FullInv, MoneyInv
<1> QED
    BY <1>1, <1>2, <1>3 DEF Solvency

\* Every amount of the invariant is at least zero.
LEMMA FullNonNeg == FullInv => NoUnderflow
<1> SUFFICES ASSUME FullInv PROVE NoUnderflow
    OBVIOUS
<1>1. ASSUME NEW f \in DOMAIN pool \ {"status", "paused", "scOverdueCheck", "pspReleased"}
      PROVE  pool[f] >= 0
  <2>1. pool \in Pool /\ NonNeg(pool) /\ IdleSound(pool)
      BY FullTyped DEF PoolSound, LedgerInv, Unlent, IdleSound
  <2>2. DOMAIN pool = {"status", "fMaturityTs", "poolStartTs", "poolFinalityTs", "span",
            "lastUpdate", "lastOverrunTs", "principal", "availableToDd", "outstanding",
            "fundingCredit", "dollarSeconds", "yieldOwed", "overrunYield", "accIdleFees",
            "accPenalty", "collectedPrincipal", "collectedYield", "collectedOverrunYield",
            "reservedYield", "protocolFees", "collectedBonus", "claimedPrincipal",
            "claimedYield", "claimedOverrunYield", "claimedBonus", "lastIdleDay",
            "lastPenaltyDay", "idleExemptAmount", "idleExemptUntil", "paused",
            "scOverdueCheck", "pspReleased"}
      BY <2>1 DEF Pool
  <2>3. /\ pool.fMaturityTs >= 0 /\ pool.poolStartTs >= 0 /\ pool.poolFinalityTs >= 0
        /\ pool.lastUpdate >= 0 /\ pool.lastOverrunTs >= 0 /\ pool.lastIdleDay >= 0
        /\ pool.lastPenaltyDay >= 0 /\ pool.idleExemptUntil >= 0
      BY <2>1 DEF Pool
  <2>4. pool.accIdleFees >= 0 /\ pool.accPenalty >= 0 /\ pool.idleExemptAmount >= 0
      BY <2>1 DEF IdleSound
  <2> QED
      BY <2>1, <2>2, <2>3, <2>4, <1>1 DEF NonNeg
<1>2. ASSUME NEW lp \in LPs, NEW f \in DOMAIN lpPositions[lp] \ {"finalized"}
      PROVE  lpPositions[lp][f] >= 0
  <2>1. lpPositions[lp] \in LPPosition /\ NonNegPosition(lpPositions[lp])
      BY FullTyped DEF LpSound, LpEach
  <2>2. DOMAIN lpPositions[lp] = {"principal", "fundingCredit", "lastUpdate",
            "dollarSeconds", "claimedYield", "claimedPrincipal", "claimedOverrunYield",
            "claimedBonus", "finalized"}
      BY <2>1 DEF LPPosition
  <2> QED
      BY <1>2, <2>1, <2>2 DEF NonNegPosition
<1>3. \A w \in Receivers : receiverActiveDrawdowns[w] >= 0
  <2>1. receiverActiveDrawdowns \in [Receivers -> Nat]
      BY BookTyped DEF FullInv
  <2> QED
      BY <2>1
<1>4. treasury.reserveBalance >= 0 /\ treasury.imFeesBalance >= 0
    BY FullTyped DEF ReserveSound
<1> QED
    BY <1>1, <1>2, <1>3, <1>4 DEF NoUnderflow

\* Shares rounded down add up to no more than the whole.
LEMMA FullPrincipal ==
    ASSUME FullInv
    PROVE  pool.claimedPrincipal <= pool.collectedPrincipal
<1> DEFINE f == [lp \in LPs |-> lpPositions[lp].principal]
           g == [lp \in LPs |-> lpPositions[lp].claimedPrincipal]
           P == pool.principal
           C == pool.claimedPrincipal
           K == pool.collectedPrincipal
<1>1. P \in Nat /\ C \in Nat /\ K \in Nat
    BY FullTyped, PoolTypes DEF PoolSound, NonNeg
<1>2. SumOf(f, LPs) = P /\ SumOf(g, LPs) = C
    BY FullTyped, Zenon DEF LpSound, LpSums
<1>3. /\ \A lp \in LPs : f[lp] \in Nat
      /\ \A lp \in LPs : g[lp] \in Nat
      /\ \A lp \in LPs : g[lp] * P <= f[lp] * K
    BY FullTyped DEF LpSound, LpEach, NonNegPosition, LPPosition
<1>4. IsFiniteSet(LPs)
    BY PoolAssumption
<1>5. pool.status \notin LockedStatuses => C = 0
    BY FullTyped DEF PoolSound, Fresh
<1>6. pool.status \in LockedStatuses => P > 0
    BY FullTyped DEF PoolSound, Clock
<1> HIDE DEF f, g, P, C, K
<1>7. SumOf(g, LPs) * P <= SumOf(f, LPs) * K
    BY <1>1, <1>3, <1>4, SumShares, Zenon
<1>8. C * P <= P * K
    BY <1>2, <1>7, Zenon
<1>9. P > 0 => C <= K
  <2> SUFFICES ASSUME P > 0, C > K PROVE FALSE
      BY <1>1
  <2>1. C - K >= 1 /\ C - K \in Nat
      BY <1>1
  <2>2. (C - K) * P >= P
    <3> DEFINE n == C - K - 1
    <3>1. n \in Nat
        BY <1>1, <2>1
    <3>2. C - K = n + 1
        BY <1>1
    <3> HIDE DEF n
    <3>3. n * P \in Nat /\ (n + 1) * P = n * P + P
        BY <1>1, <3>1
    <3> QED
        BY <1>1, <3>2, <3>3
  <2>3. (C - K) * P = C * P - P * K
      BY <1>1
  <2> QED
      BY <1>1, <1>8, <2>2, <2>3
<1>10. C <= K
    BY <1>1, <1>5, <1>6, <1>9
<1> QED
    BY <1>10 DEF C, K

\* The totals are the sums, and no stream is overdrawn.
LEMMA FullClaims == FullInv => ClaimsWithinCollected
<1> SUFFICES ASSUME FullInv PROVE ClaimsWithinCollected
    OBVIOUS
<1>1. Covered(pool) /\ LpSums(lpPositions, pool)
    BY FullTyped DEF PoolSound, LpSound
<1>2. pool.claimedPrincipal <= pool.collectedPrincipal
    BY FullPrincipal
<1> QED
    BY <1>1, <1>2, Zenon DEF ClaimsWithinCollected, Covered, LpSums

\* The credit of the pool is the sum of the credits at its checkpoint.
LEMMA FullCredit == FullInv => CreditSum
<1> SUFFICES ASSUME FullInv PROVE CreditSum
    OBVIOUS
<1>1. LpSums(lpPositions, pool)
    BY FullTyped DEF LpSound
<1> QED
    BY <1>1, Zenon DEF CreditSum, LpSums, Credit

\* A closed pool is whole, and nothing is out.
LEMMA FullClosed == FullInv => ClosedIsWhole
<1> SUFFICES ASSUME FullInv PROVE ClosedIsWhole
    OBVIOUS
<1>1. pool \in Pool /\ LedgerInv(pool) /\ NonNeg(pool) /\ Ended(pool)
    BY FullTyped DEF PoolSound
<1>2. pool.status = "Closed" =>
          /\ whole(pool)
          /\ pool.outstanding = 0 /\ pool.availableToDd = 0 /\ pool.reservedYield = 0
          /\ pool.collectedPrincipal = pool.principal
    BY <1>1, ClosedLent DEF Ended, whole
<1> QED
    BY <1>1, <1>2 DEF ClosedIsWhole, Ended

\* The live references are those with an index.
LEMMA FullReceivers == FullInv => LiveReceiversAuthorized
<1> SUFFICES ASSUME FullInv PROVE LiveReceiversAuthorized
    OBVIOUS
<1>1. IInv /\ BookSound
    BY DEF FullInv
<1>2. drawDownRefs \in Seq(Refs) /\ Indexed(drawDownRefs, refIndex)
    BY <1>1, BookTyped
<1>3. \A ref \in Refs : ref \in liveRefs <=> refIndex[ref] # 0
    BY <1>2, LiveIndexed DEF liveRefs
<1>4. liveRefs \subseteq Refs
    BY <1>2 DEF liveRefs
<1>5. ASSUME NEW w \in Receivers
      PROVE  receiverActiveDrawdowns[w]
                 = Cardinality({ref \in liveRefs : drawDowns[ref].receiverWallet = w})
  <2>1. {ref \in liveRefs : drawDowns[ref].receiverWallet = w}
            = DrawnBy(drawDowns, refIndex, w)
      BY <1>3, <1>4 DEF DrawnBy
  <2>2. receiverActiveDrawdowns[w] = Cardinality(DrawnBy(drawDowns, refIndex, w))
      BY <1>1 DEF BookSound
  <2> QED
      BY <2>1, <2>2, Zenon
<1> QED
    BY <1>1, <1>3, <1>4, <1>5 DEF LiveReceiversAuthorized, BookSound

-----------------------------------------------------------------------------
(* Theorems *)

\* The pool holds what its books say, and so does the reserve.
THEOREM PoolSolvent == Spec => []Solvency
BY MoneyInvariance, FullSolvent, PTL

\* No amount goes below zero.
THEOREM PoolNoUnderflow == Spec => []NoUnderflow
BY MoneyInvariance, FullNonNeg, PTL

\* No stream is paid out beyond what was collected for it.
THEOREM PoolClaims == Spec => []ClaimsWithinCollected
BY MoneyInvariance, FullClaims, PTL

\* The funding credit is the sum of the LPs' credits.
THEOREM PoolCredit == Spec => []CreditSum
BY MoneyInvariance, FullCredit, PTL

\* A closed pool has paid everything back.
THEOREM PoolClosed == Spec => []ClosedIsWhole
BY MoneyInvariance, FullClosed, PTL

\* Every live drawdown can still be repaid, and its wallet counts it.
THEOREM PoolReceivers == Spec => []LiveReceiversAuthorized
BY MoneyInvariance, FullReceivers, PTL

-----------------------------------------------------------------------------
(* Shares, rounded down *)

\* A product grows with its factor.
LEMMA MulMono ==
    ASSUME NEW a \in Int, NEW b \in Int, NEW n \in Nat, a <= b
    PROVE  a * n <= b * n
<1> DEFINE c == b - a
<1>1. c \in Nat /\ b = a + c
    OBVIOUS
<1> HIDE DEF c
<1>2. c * n \in Nat
    BY <1>1, MulNat
<1>3. b * n = a * n + c * n
    BY <1>1
<1>4. a * n \in Int
    OBVIOUS
<1> QED
    BY <1>2, <1>3, <1>4

\* A factor that is not zero cancels.
LEMMA MulCancel ==
    ASSUME NEW a \in Int, NEW b \in Int, NEW d \in Nat \ {0}, a * d <= b * d
    PROVE  a <= b
<1> SUFFICES ASSUME b + 1 <= a PROVE FALSE
    OBVIOUS
<1>1. (b + 1) * d <= a * d
    BY MulMono
<1>2. (b + 1) * d = b * d + d
    OBVIOUS
<1>3. a * d \in Int /\ b * d \in Int
    OBVIOUS
<1> QED
    BY <1>1, <1>2, <1>3

\* The quotient is the largest number that goes into the dividend.
LEMMA Quotient ==
    ASSUME NEW n \in Nat, NEW d \in Nat \ {0}
    PROVE  /\ n \div d \in Nat
           /\ (n \div d) * d <= n
           /\ \A m \in Nat : m * d <= n => m <= n \div d
<1> DEFINE q == n \div d
           r == n % d
<1>1. q \in Nat /\ r \in 0..(d - 1) /\ n = d * q + r
    OBVIOUS
<1> HIDE DEF q, r
<1>2. q * d <= n /\ n < (q + 1) * d
    BY <1>1
<1>3. ASSUME NEW m \in Nat, m * d <= n PROVE m <= q
  <2> SUFFICES ASSUME q + 1 <= m PROVE FALSE
      BY <1>1
  <2>1. (q + 1) * d <= m * d
      BY <1>1, MulMono
  <2>2. (q + 1) * d \in Int /\ m * d \in Int
      BY <1>1
  <2> QED
      BY <1>2, <1>3, <2>1, <2>2
<1> QED
    BY <1>1, <1>2, <1>3 DEF q

\* The larger fraction has the larger share.
LEMMA ShareMono ==
    ASSUME NEW x \in Nat, NEW y \in Nat, NEW d \in Nat \ {0}, NEW e \in Nat \ {0},
           NEW w \in Nat, x * e <= y * d
    PROVE  mulDiv(x, w, d) <= mulDiv(y, w, e)
<1> DEFINE s == (x * w) \div d
<1>1. x * w \in Nat /\ y * w \in Nat
    BY MulNat
<1>2. s \in Nat /\ s * d <= x * w
    BY <1>1, Quotient
<1>3. \A m \in Nat : m * e <= y * w => m <= (y * w) \div e
    BY <1>1, Quotient
<1> HIDE DEF s
<1>4. (s * d) * e <= (x * w) * e
    BY <1>1, <1>2, MulMono
<1>5. (x * e) * w <= (y * d) * w
  <2>1. x * e \in Nat /\ y * d \in Nat
      BY MulNat
  <2> QED
      BY <2>1, MulMono
<1>6. (s * e) * d <= (y * w) * d
  <2>1. (s * e) * d = (s * d) * e
      BY <1>2
  <2>2. (x * w) * e = (x * e) * w
      OBVIOUS
  <2>3. (y * d) * w = (y * w) * d
      OBVIOUS
  <2>4. (s * d) * e \in Int /\ (x * w) * e \in Int /\ (y * d) * w \in Int
      BY <1>2
  <2> QED
      BY <1>4, <1>5, <2>1, <2>2, <2>3, <2>4
<1>7. s * e <= y * w
    BY <1>1, <1>2, <1>6, MulCancel
<1>8. s <= (y * w) \div e
    BY <1>2, <1>3, <1>7
<1> QED
    BY <1>8 DEF mulDiv, s

\* A larger share of a larger amount is larger.
LEMMA AmountMono ==
    ASSUME NEW s \in Nat, NEW t \in Nat, s <= t, NEW y \in Nat, NEW z \in Nat, y <= z,
           NEW d \in Nat \ {0}
    PROVE  mulDiv(s, y, d) <= mulDiv(t, z, d)
<1>1. s * y \in Nat /\ t * y \in Nat /\ t * z \in Nat
    BY MulNat
<1>2. s * y <= t * y
    BY MulMono
<1>3. y * t <= z * t
    BY MulMono
<1>4. s * y <= t * z
    BY <1>1, <1>2, <1>3
<1>5. ((s * y) \div d) \in Nat /\ ((s * y) \div d) * d <= s * y
    BY <1>1, Quotient
<1> DEFINE q == (s * y) \div d
<1>6. q \in Nat /\ q * d <= t * z
  <2>1. q * d \in Int
      BY <1>5
  <2> HIDE DEF q
  <2> QED
      BY <1>1, <1>4, <1>5, <2>1 DEF q
<1> HIDE DEF q
<1>7. q <= (t * z) \div d
    BY <1>1, <1>6, Quotient
<1> QED
    BY <1>7 DEF mulDiv, q

-----------------------------------------------------------------------------
(* The share of an LP over time *)

\* An LP that brought less credit than capital has a growing share, the others a shrinking one.
LEMMA Cross ==
    ASSUME NEW c \in Nat, NEW r \in Nat, NEW F \in Nat, NEW P \in Nat,
           NEW a \in Nat, NEW b \in Nat, a <= b
    PROVE  /\ c * P <= r * F => (c + r * a) * (F + P * b) <= (c + r * b) * (F + P * a)
           /\ r * F <= c * P => (c + r * b) * (F + P * a) <= (c + r * a) * (F + P * b)
<1> DEFINE e == b - a
           m == r * F
           n == c * P
           X == (c + r * a) * (F + P * b)
           Y == (c + r * b) * (F + P * a)
<1>1. e \in Nat /\ m \in Nat /\ n \in Nat /\ X \in Nat /\ Y \in Nat
    BY MulNat
<1>2. Y + n * e = X + m * e
  <2>1. Y = c * F + c * (P * a) + (r * F) * b + (r * b) * (P * a)
      OBVIOUS
  <2>2. X = c * F + (c * P) * b + r * (a * F) + (r * a) * (P * b)
      OBVIOUS
  <2>3. n * e = (c * P) * b - c * (P * a)
      OBVIOUS
  <2>4. m * e = (r * F) * b - r * (a * F)
      OBVIOUS
  <2>5. (r * b) * (P * a) = (r * a) * (P * b)
      OBVIOUS
  <2>6. /\ c * F \in Int /\ c * (P * a) \in Int /\ (r * F) * b \in Int
        /\ (r * b) * (P * a) \in Int /\ (c * P) * b \in Int /\ r * (a * F) \in Int
      OBVIOUS
  <2> QED
      BY <2>1, <2>2, <2>3, <2>4, <2>5, <2>6
<1> HIDE DEF e, m, n, X, Y
<1>3. n * e \in Nat /\ m * e \in Nat
    BY <1>1, MulNat
<1>4. n <= m => X <= Y
  <2>1. n <= m => n * e <= m * e
      BY <1>1, MulMono
  <2> QED
      BY <1>1, <1>2, <1>3, <2>1
<1>5. m <= n => Y <= X
  <2>1. m <= n => m * e <= n * e
      BY <1>1, MulMono
  <2> QED
      BY <1>1, <1>2, <1>3, <2>1
<1> QED
    BY <1>4, <1>5 DEF m, n, X, Y

\* What an LP with credit c at the lock and principal r is due: at the end, so far, now.
FinalShare(p, c, r) == mulDiv(c + r * p.span, WAD, p.dollarSeconds)

DueSeconds(p, t) == p.fundingCredit + p.principal * (t - p.poolStartTs)

ShareSoFar(p, t, c, r) == mulDiv(c + r * (t - p.poolStartTs), WAD, DueSeconds(p, t))

ShareAt(p, t, c, r) ==
    IF p.status = "Active" /\ t < p.poolFinalityTs /\ DueSeconds(p, t) > 0
    THEN least(FinalShare(p, c, r), ShareSoFar(p, t, c, r))
    ELSE FinalShare(p, c, r)

Owed(p, t, c, r) == mulDiv(ShareAt(p, t, c, r), p.collectedYield, WAD)

\* The dollar-seconds the shares are of, from the lock on, and the end of the term.
TermSound(p) ==
    p.status \in LockedStatuses =>
        /\ p.span >= 0 /\ p.dollarSeconds > 0
        /\ p.dollarSeconds = p.fundingCredit + p.principal * p.span
        /\ p.status = "Active" => p.poolFinalityTs <= p.poolStartTs + p.span

\* The numbers the shares are made of.
LEMMA TermTypes ==
    ASSUME NEW p \in Pool, NEW t \in Nat, PoolSound(p, t), TermSound(p),
           p.status \in LockedStatuses
    PROVE  /\ p.span \in Nat /\ p.dollarSeconds \in Nat \ {0}
           /\ p.fundingCredit \in Nat /\ p.principal \in Nat \ {0}
           /\ t - p.poolStartTs \in Nat /\ DueSeconds(p, t) \in Nat
           /\ p.collectedYield \in Nat /\ WAD \in Nat \ {0}
           /\ p.poolStartTs \in Nat /\ p.poolFinalityTs \in Nat
<1>1. /\ p.span \in Nat /\ p.dollarSeconds \in Nat \ {0}
      /\ p.fundingCredit \in Nat /\ p.principal \in Nat \ {0}
      /\ t - p.poolStartTs \in Nat /\ p.collectedYield \in Nat
      /\ p.poolStartTs \in Nat /\ p.poolFinalityTs \in Nat
    BY PoolTypes DEF PoolSound, TermSound, NonNeg, Clock
<1>2. DueSeconds(p, t) \in Nat
    BY <1>1, MulNat DEF DueSeconds
<1> QED
    BY <1>1, <1>2, MathLibAssumption

\* Shares are natural numbers, and no share is above the final one.
LEMMA ShareNat ==
    ASSUME NEW p \in Pool, NEW t \in Nat, PoolSound(p, t), TermSound(p),
           p.status \in LockedStatuses, NEW c \in Nat, NEW r \in Nat
    PROVE  /\ ShareAt(p, t, c, r) \in Nat /\ FinalShare(p, c, r) \in Nat
           /\ DueSeconds(p, t) > 0 => ShareSoFar(p, t, c, r) \in Nat
           /\ ShareAt(p, t, c, r) <= FinalShare(p, c, r)
           /\ Owed(p, t, c, r) \in Nat
<1> DEFINE f == FinalShare(p, c, r)
           s == ShareSoFar(p, t, c, r)
           D == DueSeconds(p, t)
<1>1. f \in Nat
  <2>1. c + r * p.span \in Nat
      BY TermTypes, MulNat
  <2> QED
      BY <2>1, TermTypes, MulDivNat DEF FinalShare
<1>2. D > 0 => s \in Nat
  <2> DEFINE x == c + r * (t - p.poolStartTs)
  <2>1. x \in Nat
      BY TermTypes, MulNat
  <2>2. D \in Nat
      BY TermTypes
  <2>3. s = mulDiv(x, WAD, D)
      BY Zenon DEF ShareSoFar
  <2>4. WAD \in Nat
      BY TermTypes
  <2> HIDE DEF D, s, x
  <2>5. D > 0 => mulDiv(x, WAD, D) \in Nat
      BY <2>1, <2>2, <2>4, MulDivNat
  <2> QED
      BY <2>3, <2>5
<1>3. ShareAt(p, t, c, r) = IF p.status = "Active" /\ t < p.poolFinalityTs /\ D > 0
                            THEN least(f, s) ELSE f
    BY Zenon DEF ShareAt
<1> HIDE DEF f, s, D
<1>4. ShareAt(p, t, c, r) \in Nat /\ ShareAt(p, t, c, r) <= f
    BY <1>1, <1>2, <1>3 DEF least
<1>5. Owed(p, t, c, r) \in Nat
    BY <1>4, TermTypes, MulDivNat DEF Owed
<1> QED
    BY <1>1, <1>2, <1>4, <1>5 DEF f, s, D

\* A share that shrinks is cut to the final one from the start, so time only adds to it.
LEMMA ShareOverTime ==
    ASSUME NEW p \in Pool, NEW t \in Nat, NEW u \in Nat, t <= u, PoolSound(p, t),
           PoolSound(p, u), TermSound(p),
           p.status \in LockedStatuses, NEW c \in Nat, NEW r \in Nat
    PROVE  ShareAt(p, t, c, r) <= ShareAt(p, u, c, r)
<1> DEFINE f == FinalShare(p, c, r)
           s(v) == ShareSoFar(p, v, c, r)
           F == p.fundingCredit
           P == p.principal
           e(v) == v - p.poolStartTs
           D(v) == DueSeconds(p, v)
<1>1. /\ F \in Nat /\ P \in Nat \ {0} /\ p.span \in Nat /\ p.dollarSeconds \in Nat \ {0}
      /\ WAD \in Nat \ {0} /\ p.poolStartTs \in Nat /\ p.poolFinalityTs \in Nat
      /\ p.dollarSeconds = F + P * p.span
      /\ p.status = "Active" => p.poolFinalityTs <= p.poolStartTs + p.span
    BY TermTypes DEF TermSound
<1>2. \A v \in {t, u} : e(v) \in Nat /\ D(v) \in Nat /\ D(v) = F + P * e(v)
    BY TermTypes DEF DueSeconds
<1>3. \A v \in {t, u} : /\ ShareAt(p, v, c, r) \in Nat /\ f \in Nat
                        /\ ShareAt(p, v, c, r) <= f
                        /\ D(v) > 0 => s(v) \in Nat
    BY ShareNat
<1>4. \A v \in {t, u} :
          ShareAt(p, v, c, r) = IF p.status = "Active" /\ v < p.poolFinalityTs /\ D(v) > 0
                                THEN least(f, s(v)) ELSE f
    BY Zenon DEF ShareAt
<1>5. e(t) <= e(u)
    BY <1>1
<1>6. \A v \in {t, u} : s(v) = mulDiv(c + r * e(v), WAD, D(v))
    BY Zenon DEF ShareSoFar
<1>7. f = mulDiv(c + r * p.span, WAD, p.dollarSeconds)
    BY Zenon DEF FinalShare
<1>8. \A v \in {t, u} : p.status = "Active" /\ v < p.poolFinalityTs => e(v) <= p.span
    BY <1>1
<1> DEFINE x(v) == c + r * e(v)
           y == c + r * p.span
<1>9. y \in Nat /\ \A v \in {t, u} : x(v) \in Nat
    BY <1>1, <1>2, MulNat
<1>10. c * P \in Nat /\ r * F \in Nat
    BY <1>1, MulNat
<1> HIDE DEF f, s, F, P, e, D
<1>11. CASE r * F <= c * P
  <2>1. ASSUME NEW v \in {t, u}, p.status = "Active", v < p.poolFinalityTs, D(v) > 0
        PROVE  f <= s(v)
    <3>1. (c + r * p.span) * (F + P * e(v)) <= (c + r * e(v)) * (F + P * p.span)
        BY <1>1, <1>2, <1>8, <1>11, <2>1, Cross
    <3>2. y * D(v) <= x(v) * p.dollarSeconds
        BY <1>1, <1>2, <3>1
    <3>4. D(v) \in Nat \ {0} /\ x(v) \in Nat /\ y \in Nat
        BY <1>2, <1>9, <2>1
    <3> HIDE DEF x, y
    <3>3. mulDiv(y, WAD, p.dollarSeconds) <= mulDiv(x(v), WAD, D(v))
        BY <1>1, <3>2, <3>4, ShareMono
    <3> QED
        BY <1>6, <1>7, <3>3 DEF x, y
  <2>2. \A v \in {t, u} : ShareAt(p, v, c, r) = f
    <3> SUFFICES ASSUME NEW v \in {t, u} PROVE ShareAt(p, v, c, r) = f
        OBVIOUS
    <3>1. CASE p.status = "Active" /\ v < p.poolFinalityTs /\ D(v) > 0
      <4>1. f <= s(v) /\ f \in Nat /\ s(v) \in Nat
          BY <1>3, <2>1, <3>1
      <4>2. least(f, s(v)) = f
          BY <4>1 DEF least
      <4> QED
          BY <1>4, <3>1, <4>2
    <3>2. CASE ~(p.status = "Active" /\ v < p.poolFinalityTs /\ D(v) > 0)
        BY <1>4, <3>2
    <3> QED
        BY <3>1, <3>2
  <2> QED
      BY <1>3, <2>2
<1>12. CASE c * P <= r * F /\ F > 0
  <2>1. \A v \in {t, u} : D(v) > 0
    <3>1. \A v \in {t, u} : P * e(v) \in Nat
        BY <1>1, <1>2, MulNat
    <3> QED
        BY <1>1, <1>2, <1>12, <3>1
  <2>2. (c + r * e(t)) * (F + P * e(u)) <= (c + r * e(u)) * (F + P * e(t))
      BY <1>1, <1>2, <1>5, <1>12, Cross
  <2>3. x(t) * D(u) <= x(u) * D(t)
      BY <1>2, <2>2
  <2> HIDE DEF x, y
  <2>4. mulDiv(x(t), WAD, D(t)) <= mulDiv(x(u), WAD, D(u))
    <3>1. D(t) \in Nat \ {0} /\ D(u) \in Nat \ {0} /\ x(t) \in Nat /\ x(u) \in Nat
        BY <1>2, <1>9, <2>1
    <3> QED
        BY <1>1, <2>3, <3>1, ShareMono
  <2>5. s(t) <= s(u) /\ s(t) \in Nat /\ s(u) \in Nat /\ f \in Nat
      BY <1>3, <1>6, <2>1, <2>4 DEF x
  <2>6. least(f, s(t)) <= least(f, s(u)) /\ least(f, s(t)) <= f
      BY <2>5 DEF least
  <2>7. u < p.poolFinalityTs => t < p.poolFinalityTs
      BY <1>1
  <2> QED
      BY <1>3, <1>4, <2>1, <2>5, <2>6, <2>7
<1>13. r * F <= c * P \/ (c * P <= r * F /\ F > 0)
  <2>1. F = 0 => r * F = 0
      BY <1>1
  <2> QED
      BY <1>1, <1>10, <2>1
<1> QED
    BY <1>11, <1>12, <1>13

-----------------------------------------------------------------------------
(* What a call does to the term *)

\* The term stays and more was collected; a pool that left Active does not come back.
TermKept(p, q) ==
    /\ SameCredit(p, q)
    /\ q.principal = p.principal /\ q.poolFinalityTs = p.poolFinalityTs
    /\ q.status \in LockedStatuses
    /\ q.status = "Active" => p.status = "Active"
    /\ q.collectedYield >= p.collectedYield

\* The term is cut at t, and the shares become final as they are.
TermCut(p, q, t) ==
    /\ p.status = "Active" /\ t < p.poolFinalityTs
    /\ q.status \in {"Default", "Closed"}
    /\ q.fundingCredit = p.fundingCredit /\ q.principal = p.principal
    /\ q.lastUpdate = p.lastUpdate /\ q.poolStartTs = p.poolStartTs
    /\ q.span = t - p.poolStartTs
    /\ q.dollarSeconds = DueSeconds(p, t) /\ q.dollarSeconds > 0
    /\ q.collectedYield >= p.collectedYield

\* One step after the other keeps the term.
LEMMA TermKeptTwice ==
    ASSUME NEW p \in Pool, NEW q \in Pool, NEW s \in Pool, TermKept(p, q), TermKept(q, s)
    PROVE  TermKept(p, s)
BY PoolTypes DEF TermKept, SameCredit

\* A cut term stays cut when it is kept on either side.
LEMMA TermCutKept ==
    ASSUME NEW o \in Pool, NEW p \in Pool, NEW q \in Pool, NEW s \in Pool, NEW t \in Nat,
           o.status = "Active", p.status = "Active",
           TermKept(o, p), TermCut(p, q, t), TermKept(q, s)
    PROVE  TermCut(o, s, t)
<1>1. /\ p.fundingCredit = o.fundingCredit /\ p.principal = o.principal
      /\ p.lastUpdate = o.lastUpdate /\ p.poolStartTs = o.poolStartTs
      /\ p.poolFinalityTs = o.poolFinalityTs
      /\ p.collectedYield >= o.collectedYield
    BY DEF TermKept, SameCredit
<1>2. DueSeconds(o, t) = DueSeconds(p, t)
    BY <1>1 DEF DueSeconds
<1>3. /\ s.fundingCredit = q.fundingCredit /\ s.principal = q.principal
      /\ s.lastUpdate = q.lastUpdate /\ s.poolStartTs = q.poolStartTs
      /\ s.span = q.span /\ s.dollarSeconds = q.dollarSeconds
      /\ s.status \in {"Default", "Closed"}
      /\ s.collectedYield >= q.collectedYield
    BY DEF TermKept, TermCut, SameCredit, LockedStatuses
<1>4. s.collectedYield >= o.collectedYield
    BY <1>1, <1>3, PoolTypes DEF TermCut
<1> QED
    BY <1>1, <1>2, <1>3, <1>4 DEF TermCut

\* The term stays sound.
LEMMA TermKeptSound ==
    ASSUME NEW p \in Pool, NEW q \in Pool, NEW t \in Nat, TermSound(p),
           p.status \in LockedStatuses, TermKept(p, q) \/ TermCut(p, q, t),
           t >= p.poolStartTs
    PROVE  TermSound(q)
<1>1. CASE TermKept(p, q)
    BY <1>1 DEF TermKept, TermSound, SameCredit
<1>2. CASE TermCut(p, q, t)
    BY <1>2, PoolTypes DEF TermCut, TermSound, DueSeconds
<1> QED
    BY <1>1, <1>2

\* Nobody's share gets smaller.
LEMMA ShareKept ==
    ASSUME NEW p \in Pool, NEW q \in Pool, NEW t \in Nat, PoolSound(p, t), PoolSound(q, t),
           TermSound(p), TermSound(q), p.status \in LockedStatuses,
           TermKept(p, q) \/ TermCut(p, q, t), NEW c \in Nat, NEW r \in Nat
    PROVE  /\ q.status \in LockedStatuses
           /\ ShareAt(p, t, c, r) <= ShareAt(q, t, c, r)
<1>1. q.status \in LockedStatuses
    BY DEF TermKept, TermCut, LockedStatuses
<1>2. /\ ShareAt(p, t, c, r) \in Nat /\ FinalShare(p, c, r) \in Nat
      /\ DueSeconds(p, t) > 0 => ShareSoFar(p, t, c, r) \in Nat
      /\ ShareAt(p, t, c, r) <= FinalShare(p, c, r)
      /\ ShareAt(q, t, c, r) \in Nat /\ FinalShare(q, c, r) \in Nat
    BY <1>1, ShareNat
<1>3. CASE TermKept(p, q)
  <2>1. FinalShare(q, c, r) = FinalShare(p, c, r)
      BY <1>3 DEF FinalShare, TermKept, SameCredit
  <2>2. DueSeconds(q, t) = DueSeconds(p, t)
      BY <1>3 DEF DueSeconds, TermKept, SameCredit
  <2>3. ShareSoFar(q, t, c, r) = ShareSoFar(p, t, c, r)
      BY <1>3, <2>2 DEF ShareSoFar, TermKept, SameCredit
  <2>4. CASE q.status = "Active"
    <3>1. p.status = "Active" /\ q.poolFinalityTs = p.poolFinalityTs
        BY <1>3, <2>4 DEF TermKept
    <3>2. ShareAt(q, t, c, r) = ShareAt(p, t, c, r)
        BY <2>1, <2>2, <2>3, <2>4, <3>1 DEF ShareAt
    <3> QED
        BY <1>1, <1>2, <3>2
  <2>5. CASE q.status # "Active"
    <3>1. ShareAt(q, t, c, r) = FinalShare(q, c, r)
        BY <2>5 DEF ShareAt
    <3> QED
        BY <1>1, <1>2, <2>1, <3>1
  <2> QED
      BY <2>4, <2>5
<1>4. CASE TermCut(p, q, t)
  <2>1. q.status # "Active" /\ p.status = "Active" /\ t < p.poolFinalityTs
        /\ DueSeconds(p, t) > 0
      BY <1>4 DEF TermCut
  <2>2. ShareAt(q, t, c, r) = FinalShare(q, c, r)
      BY <2>1 DEF ShareAt
  <2>3. FinalShare(q, c, r) = ShareSoFar(p, t, c, r)
      BY <1>4 DEF FinalShare, ShareSoFar, TermCut
  <2>4. ShareAt(p, t, c, r) = least(FinalShare(p, c, r), ShareSoFar(p, t, c, r))
      BY <2>1 DEF ShareAt
  <2>5. ShareAt(p, t, c, r) <= ShareSoFar(p, t, c, r)
      BY <1>2, <2>1, <2>4 DEF least
  <2> QED
      BY <1>1, <2>2, <2>3, <2>5
<1> QED
    BY <1>3, <1>4

\* What an LP is due never shrinks: not by a call, not by time.
LEMMA OwedKept ==
    ASSUME NEW p \in Pool, NEW q \in Pool, NEW t \in Nat, PoolSound(p, t), PoolSound(q, t),
           TermSound(p), p.status \in LockedStatuses,
           TermKept(p, q) \/ TermCut(p, q, t), NEW c \in Nat, NEW r \in Nat
    PROVE  Owed(p, t, c, r) <= Owed(q, t, c, r)
<1>1. TermSound(q)
    BY TermKeptSound DEF PoolSound, Clock
<1>2. q.status \in LockedStatuses /\ ShareAt(p, t, c, r) <= ShareAt(q, t, c, r)
    BY <1>1, ShareKept
<1>3. ShareAt(p, t, c, r) \in Nat /\ ShareAt(q, t, c, r) \in Nat
    BY <1>1, <1>2, ShareNat
<1>4. p.collectedYield \in Nat /\ q.collectedYield \in Nat /\ WAD \in Nat \ {0}
    BY <1>1, <1>2, TermTypes
<1>5. p.collectedYield <= q.collectedYield
    BY <1>4 DEF TermKept, TermCut
<1> QED
    BY <1>2, <1>3, <1>4, <1>5, AmountMono DEF Owed

\* Nor by a block.
LEMMA OwedOverTime ==
    ASSUME NEW p \in Pool, NEW t \in Nat, NEW u \in Nat, t <= u, PoolSound(p, t),
           PoolSound(p, u), TermSound(p), p.status \in LockedStatuses,
           NEW c \in Nat, NEW r \in Nat
    PROVE  Owed(p, t, c, r) <= Owed(p, u, c, r)
<1>1. ShareAt(p, t, c, r) <= ShareAt(p, u, c, r)
    BY ShareOverTime
<1>2. ShareAt(p, t, c, r) \in Nat /\ ShareAt(p, u, c, r) \in Nat
    BY ShareNat
<1>3. p.collectedYield \in Nat /\ WAD \in Nat \ {0}
    BY TermTypes
<1> QED
    BY <1>1, <1>2, <1>3, AmountMono DEF Owed

-----------------------------------------------------------------------------
(* The parts of a call and the term *)

\* Accruals keep the term.
LEMMA AccrueTerm ==
    ASSUME NEW p \in Pool, NEW t \in Nat, p.status \in LockedStatuses
    PROVE  /\ accrue(p, t) \in Pool /\ TermKept(p, accrue(p, t))
           /\ accrueIdleFees(p, t) \in Pool /\ TermKept(p, accrueIdleFees(p, t))
<1>1. \A q \in {accrue(p, t), accrueIdleFees(p, t)} :
          q \in Pool /\ SameLedger(p, q) /\ SameCoupon(p, q) /\ SameCredit(p, q)
    BY AccruePool, AccrueMoney, IdleFeesPool, IdleFeesMoney
<1>2. \A q \in {accrue(p, t), accrueIdleFees(p, t)} : q \in Pool /\ TermKept(p, q)
    BY <1>1, PoolTypes DEF TermKept, SameLedger, SameCoupon
<1> QED
    BY <1>2

\* So do the waterfall and the return of principal.
LEMMA AllocateTerm ==
    ASSUME NEW p \in Pool, NEW amount \in Nat, NEW t \in Nat, NonNeg(p),
           p.status \in LockedStatuses
    PROVE  allocate(p, amount, t) \in Pool /\ TermKept(p, allocate(p, amount, t))
<1> DEFINE q == allocate(p, amount, t)
<1>1. q \in Pool /\ SameLedger(p, q) /\ SameCredit(p, q) /\ Grows(p, q)
    BY AllocatePool, AllocateMoney
<1> HIDE DEF q
<1> QED
    BY <1>1 DEF TermKept, SameLedger, Grows, q

\* Returned principal leaves the term alone.
LEMMA ReturnTerm ==
    ASSUME NEW p \in Pool, NEW amount \in Nat \ {0}, NEW t \in Nat, NonNeg(p),
           amount <= p.outstanding, p.status \in LockedStatuses
    PROVE  returnPrincipal(p, amount, t) \in Pool /\ TermKept(p, returnPrincipal(p, amount, t))
<1> DEFINE q == returnPrincipal(p, amount, t)
<1>1. /\ q \in Pool /\ q.status = p.status /\ q.principal = p.principal
      /\ SameCredit(p, q) /\ Grows(p, q)
    BY ReturnPool, ReturnMoney
<1>2. q.poolFinalityTs = p.poolFinalityTs
    BY DEF returnPrincipal, Pool
<1> HIDE DEF q
<1> QED
    BY <1>1, <1>2 DEF TermKept, Grows, q

\* Undrawn principal that is collected leaves the term alone.
LEMMA UndrawnTerm ==
    ASSUME NEW p \in Pool, NonNeg(p), p.status \in LockedStatuses
    PROVE  collectUndrawn(p) \in Pool /\ TermKept(p, collectUndrawn(p))
<1> DEFINE q == collectUndrawn(p)
<1>1. /\ q \in Pool /\ q.status = p.status /\ q.principal = p.principal
      /\ SameCredit(p, q) /\ Grows(p, q)
    BY UndrawnPool, UndrawnMoney DEF NonNeg
<1>2. q.poolFinalityTs = p.poolFinalityTs
    BY DEF collectUndrawn, Pool
<1> HIDE DEF q
<1> QED
    BY <1>1, <1>2 DEF TermKept, Grows, q

\* So does the rescue by surplus.
LEMMA RescueTerm ==
    ASSUME NEW p \in Pool, NonNeg(p), p.status \in LockedStatuses
    PROVE  rescue(p) \in Pool /\ TermKept(p, rescue(p))
<1> DEFINE q == rescue(p)
           amt == p.reservedYield + p.protocolFees
           f   == fill(p, amt)
<1>1. /\ q \in Pool /\ q.status = p.status /\ q.principal = p.principal
      /\ SameCredit(p, q) /\ Grows(p, q)
    BY RescuePool, RescueMoney
<1>2. amt \in Int
    BY PoolTypes
<1>3. f \in Pool /\ f.poolFinalityTs = p.poolFinalityTs
    BY <1>2, FillPool DEF SameLedger
<1>4. q.poolFinalityTs = f.poolFinalityTs
  <2> HIDE DEF f
  <2>1. \A v1, v2, v3, v4 : [f EXCEPT !.reservedYield = v1, !.protocolFees = v2,
                             !.collectedPrincipal = @ + v3, !.outstanding = @ - v4]
                                .poolFinalityTs = f.poolFinalityTs
      BY <1>3 DEF Pool
  <2> QED
      BY <2>1 DEF rescue, f
<1> HIDE DEF q, f, amt
<1> QED
    BY <1>1, <1>3, <1>4 DEF TermKept, Grows, q

\* A change of status after the lock, away from Active, keeps the term.
LEMMA EndTerm ==
    ASSUME NEW p \in Pool, p.status \in LockedStatuses, NEW s \in {"Default", "Closed"}
    PROVE  LET q == [p EXCEPT !.status = s]
           IN  /\ q \in Pool /\ q.status = s /\ TermKept(p, q)
               /\ releasePsp(q) \in Pool /\ releasePsp(q).status = s
               /\ TermKept(p, releasePsp(q))
<1> DEFINE q == [p EXCEPT !.status = s]
           r == releasePsp(q)
<1>1. q \in Pool /\ q.status = s /\ SameCredit(p, q) /\ q.principal = p.principal
      /\ SameCoupon(p, q)
  <2>1. s \in Statuses
      BY DEF Statuses
  <2> QED
      BY <2>1, CloseMoney
<1>2. r \in Pool /\ r.status = q.status /\ SameCredit(q, r) /\ r.principal = q.principal
      /\ SameCoupon(q, r)
    BY <1>1, CloseMoney, StatusUpdate DEF Statuses
<1>3. q.poolFinalityTs = p.poolFinalityTs /\ r.poolFinalityTs = q.poolFinalityTs
    BY DEF releasePsp, Pool
<1> HIDE DEF q, r
<1>4. TermKept(p, q)
    BY <1>1, <1>3, PoolTypes DEF TermKept, SameCoupon, LockedStatuses
<1>5. TermKept(q, r)
    BY <1>1, <1>2, <1>3, PoolTypes DEF TermKept, SameCoupon, LockedStatuses
<1> QED
    BY <1>1, <1>2, <1>4, <1>5, TermKeptTwice DEF q, r

\* The end of a default recovery keeps the term.
LEMMA ResolveTerm ==
    ASSUME NEW p \in Pool, p.status \in LockedStatuses
    PROVE  resolveDefaultIfWhole(p) \in Pool /\ TermKept(p, resolveDefaultIfWhole(p))
<1>1. TermKept(p, p)
    BY PoolTypes DEF TermKept, SameCredit
<1>2. "Closed" \in {"Default", "Closed"}
    OBVIOUS
<1> QED
    BY <1>1, <1>2, EndTerm, Zenon DEF resolveDefaultIfWhole

\* Maturity keeps the term, whether it closes the pool or not.
LEMMA MatureTerm ==
    ASSUME NEW p \in Pool, NEW tr \in TreasuryState, NEW t \in Nat, NonNeg(p),
           p.status # "Closed" => p.collectedBonus = 0, p.status \in LockedStatuses
    PROVE  mature(p, tr, t) \in Pool /\ TermKept(p, mature(p, tr, t))
<1> DEFINE u == collectUndrawn(p)
           c == [u EXCEPT !.status = "Closed"]
           s == settleTerminalSplit(c, tr)
           r == releasePsp(s)
           q == mature(p, tr, t)
<1>1. /\ q \in Pool /\ q.principal = p.principal /\ SameCredit(p, q)
      /\ q.collectedYield = p.collectedYield
      /\ q.status = p.status \/ (p.status = "Active" /\ q.status = "Closed")
    BY MaturePool, MatureMoney
<1>2. u \in Pool /\ u.poolFinalityTs = p.poolFinalityTs
    BY UndrawnTerm DEF TermKept
<1>3. c \in Pool /\ c.poolFinalityTs = u.poolFinalityTs
    BY <1>2, StatusUpdate DEF Pool, Statuses
<1>4. s \in Pool /\ s.poolFinalityTs = c.poolFinalityTs
    BY <1>3, SplitPool DEF SameLedger
<1>5. r.poolFinalityTs = s.poolFinalityTs
    BY <1>4 DEF releasePsp, Pool
<1>6. q = r \/ q = u \/ q = p
    BY Zenon DEF mature
<1> HIDE DEF q, u, c, s, r
<1> QED
    BY <1>1, <1>2, <1>3, <1>4, <1>5, <1>6, PoolTypes DEF TermKept, LockedStatuses, q

\* The default before finality cuts the term to the coupon earned, or leaves it alone.
LEMMA RebaseTerm ==
    ASSUME NEW p \in Pool, NEW t \in Nat, PoolSound(p, t), p.status = "Active"
    PROVE  LET q == rebaseCoupon(p, t)
           IN  /\ q \in Pool /\ q.status = "Active"
               /\ \/ TermKept(p, q)
                  \/ TermCut(p, [q EXCEPT !.status = "Default"], t)
<1> DEFINE e  == t - p.poolStartTs
           ds == p.fundingCredit + p.principal * e
           q1 == [p EXCEPT !.span = e, !.dollarSeconds = ds, !.yieldOwed = coupon(ds)]
           q2 == [p EXCEPT !.yieldOwed = p.collectedYield]
           q  == rebaseCoupon(p, t)
           d  == [q EXCEPT !.status = "Default"]
<1>1. q = IF t >= p.poolFinalityTs THEN p
          ELSE IF coupon(ds) > p.collectedYield THEN q1 ELSE q2
    BY Zenon DEF rebaseCoupon
<1>2. q \in Pool /\ q.status = "Active"
    BY RebasePool DEF SameLedger
<1>3. e \in Nat /\ p.fundingCredit \in Nat /\ p.principal \in Nat /\ p.collectedYield \in Nat
    BY PoolTypes DEF PoolSound, Clock, NonNeg
<1>4. ds \in Nat
    BY <1>3, MulNat
<1>5. ds = DueSeconds(p, t)
    BY DEF DueSeconds
<1>6. CASE q = p \/ q = q2
  <2>1. q.status = p.status /\ SameCredit(p, q) /\ q.principal = p.principal
        /\ q.poolFinalityTs = p.poolFinalityTs /\ q.collectedYield = p.collectedYield
      BY <1>6 DEF SameCredit, Pool
  <2> HIDE DEF q, q2
  <2> QED
      BY <1>2, <1>3, <2>1 DEF TermKept, LockedStatuses, q
<1>7. CASE t < p.poolFinalityTs /\ coupon(ds) > p.collectedYield /\ q = q1
  <2>1. ds > 0
    <3> HIDE DEF ds
    <3>1. ds # 0
        BY <1>3, <1>7, CouponNat
    <3> QED
        BY <1>4, <3>1
  <2>2. /\ q1.fundingCredit = p.fundingCredit /\ q1.principal = p.principal
        /\ q1.lastUpdate = p.lastUpdate /\ q1.poolStartTs = p.poolStartTs
        /\ q1.span = e /\ q1.dollarSeconds = ds
        /\ q1.collectedYield = p.collectedYield
      BY DEF Pool
  <2>3. SameCredit(q, d) /\ d.principal = q.principal /\ SameCoupon(q, d)
        /\ d.status = "Default"
      BY <1>2, CloseMoney DEF Statuses
  <2> HIDE DEF q1, q, d, ds
  <2>4. TermCut(p, d, t)
      BY <1>3, <1>5, <1>7, <2>1, <2>2, <2>3 DEF TermCut, SameCredit, SameCoupon
  <2> QED
      BY <1>2, <2>4 DEF q, d
<1>8. p.poolFinalityTs \in Nat /\ coupon(ds) \in Nat
    BY <1>4, CouponNat, PoolTypes
<1> HIDE DEF q1, q2, ds, q
<1> QED
    BY <1>1, <1>6, <1>7, <1>8 DEF q

-----------------------------------------------------------------------------
(* The invariant of the shares *)

\* What the LP at pos is due of the coupon.
Due(pos, p, t) == Owed(p, t, Credit(pos, p.lastUpdate), pos.principal)

\* A position that was settled is settled up to the lock.
SettledAtLock(pos, p) ==
    pos.finalized => p.status \in LockedStatuses /\ pos.lastUpdate = p.poolStartTs

\* No LP has claimed more than it is due.
ShareSound(L, p, t) ==
    /\ TermSound(p)
    /\ \A lp \in LPs : SettledAtLock(L[lp], p)
    /\ p.status \in LockedStatuses => \A lp \in LPs : L[lp].claimedYield <= Due(L[lp], p, t)

ShareInv == ShareSound(lpPositions, pool, now)

\* A call leaves the term, or cuts it.
TermStep(p, q, t) == TermKept(p, q) \/ TermCut(p, q, t)

\* A call leaves a position its capital and credit, and pays no more than is due.
PositionKept(x, y, p, q, t) ==
    /\ y.principal = x.principal
    /\ Credit(y, p.lastUpdate) = Credit(x, p.lastUpdate)
    /\ y.finalized => y.lastUpdate = p.poolStartTs
    /\ y.claimedYield = x.claimedYield \/ y.claimedYield <= Due(x, q, t)

\* What an LP is due is a natural number.
LEMMA DueNat ==
    ASSUME NEW pos \in LPPosition, NEW p \in Pool, NEW t \in Nat, PoolSound(p, t),
           TermSound(p), p.status \in LockedStatuses, NonNegPosition(pos),
           pos.lastUpdate <= p.lastUpdate
    PROVE  /\ Credit(pos, p.lastUpdate) \in Nat /\ pos.principal \in Nat
           /\ Due(pos, p, t) \in Nat
<1>1. p.lastUpdate \in Nat
    BY PoolTypes
<1>2. Credit(pos, p.lastUpdate) \in Nat
    BY <1>1, CreditNat
<1>3. pos.principal \in Nat
    BY PositionTypes DEF NonNegPosition
<1> QED
    BY <1>2, <1>3, ShareNat DEF Due

\* A settled position has its credit up to the lock and is paid its share.
LEMMA SettledShare ==
    ASSUME NEW pos \in LPPosition, NEW p \in Pool, NEW t \in Nat, PoolSound(p, t),
           p.status \in LockedStatuses, NonNegPosition(pos), pos.lastUpdate <= p.lastUpdate,
           SettledAtLock(pos, p), NEW q, SameCredit(p, q), q.principal = p.principal
    PROVE  LET s == settleLpDollarSeconds(pos, p)
           IN  /\ s.finalized /\ s.lastUpdate = p.poolStartTs
               /\ mulDiv(baseShare(s, q, t), q.collectedYield, WAD) = Due(pos, q, t)
<1> DEFINE late == ~pos.finalized /\ pos.lastUpdate < p.poolStartTs
           run  == pos.principal * (p.poolStartTs - pos.lastUpdate)
           fc   == IF late THEN pos.fundingCredit + run ELSE pos.fundingCredit
           upd  == IF late THEN p.poolStartTs ELSE pos.lastUpdate
           ds   == fc + pos.principal * p.span
           s    == settleLpDollarSeconds(pos, p)
           c    == Credit(pos, p.lastUpdate)
           r    == pos.principal
<1>1. s = [pos EXCEPT !.fundingCredit = fc, !.lastUpdate = upd, !.finalized = TRUE,
                      !.dollarSeconds = ds]
    BY DEF settleLpDollarSeconds, LPPosition
<1>2. /\ pos.principal \in Nat /\ pos.fundingCredit \in Nat /\ pos.lastUpdate \in Nat
      /\ p.poolStartTs \in Nat /\ p.lastUpdate = p.poolStartTs
      /\ pos.lastUpdate <= p.poolStartTs
    BY PoolTypes, PositionTypes DEF PoolSound, NonNegPosition, Clock
<1>3. c = pos.fundingCredit + run
    BY <1>2 DEF Credit
<1>4. fc = c /\ upd = p.poolStartTs
  <2>1. CASE late
      BY <1>3, <2>1
  <2>2. CASE ~late
    <3>1. pos.lastUpdate = p.poolStartTs
        BY <1>2, <2>2 DEF SettledAtLock
    <3>2. run = 0
        BY <1>2, <3>1
    <3> HIDE DEF run
    <3> QED
        BY <1>2, <1>3, <2>2, <3>1, <3>2
  <2> QED
      BY <2>1, <2>2
<1>5. s.finalized /\ s.lastUpdate = upd /\ s.fundingCredit = fc /\ s.dollarSeconds = ds
      /\ s.principal = r
  <2> HIDE DEF fc, upd, ds, s
  <2> QED
      BY <1>1 DEF LPPosition
<1>6. ds = c + r * q.span
    BY <1>4 DEF SameCredit
<1> HIDE DEF fc, upd, ds, s, c, r
<1>7. baseShare(s, q, t) = ShareAt(q, t, c, r)
    BY <1>4, <1>5, <1>6, Zenon DEF baseShare, ShareAt, FinalShare, ShareSoFar, DueSeconds
<1>8. q.lastUpdate = p.lastUpdate
    BY DEF SameCredit
<1> QED
    BY <1>4, <1>5, <1>7, <1>8, Zenon DEF Due, Owed, s, c, r

\* A call that keeps every position keeps the shares sound, and nobody is due less.
LEMMA ShareStep ==
    ASSUME NEW L \in [LPs -> LPPosition], NEW M \in [LPs -> LPPosition],
           NEW p \in Pool, NEW q \in Pool, NEW t \in Nat,
           PoolSound(p, t), PoolSound(q, t), LpSound(L, p), ShareSound(L, p, t),
           p.status \in LockedStatuses, TermStep(p, q, t),
           \A lp \in LPs : PositionKept(L[lp], M[lp], p, q, t)
    PROVE  /\ ShareSound(M, q, t)
           /\ \A lp \in LPs : Due(L[lp], p, t) <= Due(M[lp], q, t)
<1>1. TermSound(p) /\ TermSound(q)
    BY TermKeptSound DEF ShareSound, PoolSound, Clock, TermStep
<1>2. /\ q.status \in LockedStatuses /\ q.lastUpdate = p.lastUpdate
      /\ q.poolStartTs = p.poolStartTs
    BY DEF TermStep, TermKept, TermCut, SameCredit, LockedStatuses
<1>3. ASSUME NEW lp \in LPs
      PROVE  /\ Due(L[lp], p, t) <= Due(M[lp], q, t)
             /\ M[lp].claimedYield <= Due(M[lp], q, t)
             /\ SettledAtLock(M[lp], q)
  <2> DEFINE x == L[lp]
             y == M[lp]
  <2>1. x \in LPPosition /\ y \in LPPosition
      BY Zenon
  <2>2. NonNegPosition(x) /\ x.lastUpdate <= p.lastUpdate
      BY DEF LpSound, LpEach
  <2>3. PositionKept(x, y, p, q, t)
      BY Zenon
  <2>4. x.claimedYield <= Due(x, p, t)
      BY DEF ShareSound
  <2> HIDE DEF x, y
  <2>5. Credit(x, p.lastUpdate) \in Nat /\ x.principal \in Nat /\ Due(x, p, t) \in Nat
        /\ Due(x, q, t) \in Nat
      BY <1>1, <1>2, <2>1, <2>2, DueNat
  <2>6. Due(y, q, t) = Due(x, q, t)
      BY <1>2, <2>3, Zenon DEF Due, PositionKept
  <2>7. Due(x, p, t) <= Due(x, q, t)
      BY <1>1, <1>2, <2>5, OwedKept DEF Due, TermStep
  <2>8. y.claimedYield <= Due(y, q, t)
    <3>1. x.claimedYield \in Int /\ y.claimedYield \in Int
        BY <2>1, PositionTypes
    <3> QED
        BY <2>3, <2>4, <2>5, <2>6, <2>7, <3>1 DEF PositionKept
  <2>9. SettledAtLock(y, q)
      BY <1>2, <2>3 DEF SettledAtLock, PositionKept
  <2> QED
      BY <2>6, <2>7, <2>8, <2>9 DEF x, y
<1> QED
    BY <1>1, <1>3, Zenon DEF ShareSound

\* So does a block.
LEMMA ShareTick ==
    ASSUME NEW L \in [LPs -> LPPosition], NEW p \in Pool, NEW t \in Nat, NEW u \in Nat,
           t <= u, PoolSound(p, t), PoolSound(p, u), LpSound(L, p), ShareSound(L, p, t)
    PROVE  /\ ShareSound(L, p, u)
           /\ p.status \in LockedStatuses =>
                  \A lp \in LPs : Due(L[lp], p, t) <= Due(L[lp], p, u)
<1>1. TermSound(p) /\ \A lp \in LPs : SettledAtLock(L[lp], p)
    BY Zenon DEF ShareSound
<1>2. ASSUME NEW lp \in LPs, p.status \in LockedStatuses
      PROVE  /\ Due(L[lp], p, t) <= Due(L[lp], p, u)
             /\ L[lp].claimedYield <= Due(L[lp], p, u)
  <2> DEFINE x == L[lp]
  <2>1. x \in LPPosition
      BY Zenon
  <2>2. NonNegPosition(x) /\ x.lastUpdate <= p.lastUpdate
      BY DEF LpSound, LpEach
  <2>3. x.claimedYield <= Due(x, p, t)
      BY <1>2 DEF ShareSound
  <2> HIDE DEF x
  <2>4. Credit(x, p.lastUpdate) \in Nat /\ x.principal \in Nat /\ Due(x, p, t) \in Nat
        /\ Due(x, p, u) \in Nat
      BY <1>1, <1>2, <2>1, <2>2, DueNat
  <2>5. Due(x, p, t) <= Due(x, p, u)
      BY <1>1, <1>2, <2>4, OwedOverTime DEF Due
  <2>6. x.claimedYield \in Int
      BY <2>1, PositionTypes
  <2> QED
      BY <2>3, <2>4, <2>5, <2>6 DEF x
<1> QED
    BY <1>1, <1>2, Zenon DEF ShareSound

\* A position nobody touched is kept.
LEMMA SamePosition ==
    ASSUME NEW L \in [LPs -> LPPosition], NEW p, NEW t, ShareSound(L, p, t), NEW q
    PROVE  \A lp \in LPs : PositionKept(L[lp], L[lp], p, q, t)
BY Zenon DEF ShareSound, SettledAtLock, PositionKept

-----------------------------------------------------------------------------
(* One lemma per call: the term *)

\* A pool keeps its own term.
LEMMA TermSelf ==
    ASSUME NEW p \in Pool, p.status \in LockedStatuses
    PROVE  TermKept(p, p)
BY PoolTypes DEF TermKept, SameCredit

\* What a call of a locked pool starts from.
LEMMA AccruedTerm ==
    ASSUME FullInv, pool.status \in LockedStatuses
    PROVE  \A a \in {accrue(pool, now), accrueIdleFees(pool, now)} :
               /\ a \in Pool /\ LedgerInv(a) /\ PoolSound(a, now) /\ NonNeg(a)
               /\ TermKept(pool, a) /\ a.status = pool.status /\ a.outstanding = pool.outstanding
               /\ a.status # "Closed" => a.collectedBonus = 0
               /\ LpSound(lpPositions, a)
<1>1. IInv /\ MoneyInv /\ now \in Nat /\ pool \in Pool
    BY FullTyped DEF FullInv
<1>2. \A a \in {accrue(pool, now), accrueIdleFees(pool, now)} : TermKept(pool, a)
    BY <1>1, AccrueTerm
<1>3. \A a \in {accrue(pool, now), accrueIdleFees(pool, now)} :
          /\ a \in Pool /\ LedgerInv(a) /\ PoolSound(a, now)
          /\ SameLedger(pool, a) /\ LpSound(lpPositions, a)
    BY <1>1, AccruedMoney
<1> QED
    BY <1>2, <1>3 DEF PoolSound, Fresh, SameLedger

\* A drawdown moves capital and not the term.
LEMMA DrawdownTerm ==
    ASSUME FullInv, NEW ref \in Refs, NEW w \in Receivers, NEW amount \in DrawAmounts,
           NEW days \in SettlementDays, ExecuteDrawdown(ref, w, amount, days)
    PROVE  TermKept(pool, pool') /\ UNCHANGED <<now, lpPositions>>
<1> DEFINE a    == accrue(pool, now)
           left == monus(a.idleExemptAmount, amount)
           till == IF left = 0 THEN 0 ELSE a.idleExemptUntil
<1>1. pool.status = "Active" /\ UNCHANGED <<now, lpPositions>>
    BY Zenon DEF ExecuteDrawdown
<1>2. pool' = [a EXCEPT !.availableToDd = @ - amount, !.outstanding = @ + amount,
                        !.idleExemptAmount = left,
                        !.idleExemptUntil = IF left = 0 THEN 0 ELSE @]
    BY Zenon DEF ExecuteDrawdown
<1>3. a \in Pool /\ a.status = "Active" /\ TermKept(pool, a) /\ pool \in Pool
    BY <1>1, AccruedTerm, FullTyped DEF LockedStatuses
<1> HIDE DEF a, left
<1>4. TermKept(pool, pool')
  <2>1. /\ SameCredit(a, pool') /\ pool'.principal = a.principal
        /\ pool'.poolFinalityTs = a.poolFinalityTs /\ pool'.status = a.status
        /\ pool'.collectedYield = a.collectedYield
      BY <1>2, <1>3 DEF SameCredit, Pool
  <2> QED
      BY <1>3, <2>1 DEF TermKept, SameCredit
<1> QED
    BY <1>1, <1>4

\* A declared default may cut the term.
LEMMA DeclareDefaultTerm ==
    ASSUME FullInv, DeclareDefault
    PROVE  TermStep(pool, pool', now) /\ UNCHANGED <<now, lpPositions>>
<1> DEFINE a == accrue(pool, now)
           u == collectUndrawn(a)
           b == rebaseCoupon(u, now)
           p == rescue(b)
           d == [p EXCEPT !.status = "Default"]
           e == [b EXCEPT !.status = "Default"]
<1>1. /\ pool.status = "Active" /\ pool' = resolveDefaultIfWhole(d)
      /\ UNCHANGED <<now, lpPositions>>
    BY Zenon DEF DeclareDefault
<1>2. now \in Nat /\ pool \in Pool
    BY FullTyped
<1>3. a \in Pool /\ PoolSound(a, now) /\ NonNeg(a) /\ TermKept(pool, a) /\ a.status = "Active"
      /\ LpSound(lpPositions, a) /\ a.collectedBonus = 0
    BY <1>1, AccruedTerm DEF LockedStatuses
<1> HIDE DEF a
<1>4. /\ u \in Pool /\ u.status = "Active" /\ u.principal = a.principal
      /\ u.pspReleased = a.pspReleased
      /\ SameClaims(a, u) /\ SameRest(a, u) /\ SameCredit(a, u)
      /\ Grows(a, u) /\ NonNeg(u)
  <2>1. a.availableToDd >= 0
      BY <1>3 DEF NonNeg
  <2> QED
      BY <1>3, <2>1, UndrawnPool, UndrawnMoney
<1>5. TermKept(a, u)
    BY <1>3, UndrawnTerm DEF LockedStatuses
<1> HIDE DEF u
<1>6. PoolSound(u, now)
    BY <1>2, <1>3, <1>4, OpenSound DEF SameRest, SameCredit
<1>7. /\ b \in Pool /\ b.status = "Active"
      /\ TermKept(u, b) \/ TermCut(u, e, now)
    BY <1>2, <1>4, <1>6, RebaseTerm
<1>8. NonNeg(b)
  <2>1. u.poolStartTs <= now
      BY <1>6 DEF PoolSound, Clock
  <2> QED
      BY <1>2, <1>4, <2>1, RebaseMoney
<1> HIDE DEF b
<1>9. p \in Pool /\ TermKept(b, p)
    BY <1>7, <1>8, RescueTerm DEF LockedStatuses
<1> HIDE DEF p
<1>10. d \in Pool /\ TermKept(p, d)
  <2>1. "Default" \in {"Default", "Closed"} /\ p.status \in LockedStatuses
      BY <1>9 DEF TermKept
  <2> QED
      BY <1>9, <2>1, EndTerm
<1>11. e \in Pool /\ e.status = "Default"
    BY <1>7, CloseMoney DEF Statuses
<1>12. TermKept(e, d)
  <2>1. SameCredit(b, e) /\ e.principal = b.principal /\ SameCoupon(b, e)
        /\ e.poolFinalityTs = b.poolFinalityTs
    <3>1. SameCredit(b, e) /\ e.principal = b.principal /\ SameCoupon(b, e)
        BY <1>7, CloseMoney DEF Statuses
    <3>2. e.poolFinalityTs = b.poolFinalityTs
        BY <1>7 DEF Pool
    <3> QED
        BY <3>1, <3>2
  <2>2. TermKept(b, d)
      BY <1>7, <1>9, <1>10, TermKeptTwice
  <2>3. d.status = "Default"
      BY <1>9 DEF Pool
  <2> HIDE DEF d, e
  <2> QED
      BY <2>1, <2>2, <2>3 DEF TermKept, SameCredit, SameCoupon
<1> HIDE DEF d, e
<1>13. pool' \in Pool /\ TermKept(d, pool')
  <2>1. d.status \in LockedStatuses
      BY <1>10 DEF TermKept
  <2> QED
      BY <1>1, <1>10, <2>1, ResolveTerm
<1>14. CASE TermKept(u, b)
  <2>1. TermKept(pool, u)
      BY <1>2, <1>3, <1>4, <1>5, TermKeptTwice
  <2>2. TermKept(pool, b)
      BY <1>2, <1>4, <1>7, <1>14, <2>1, TermKeptTwice
  <2>3. TermKept(pool, p)
      BY <1>2, <1>7, <1>9, <2>2, TermKeptTwice
  <2>4. TermKept(pool, d)
      BY <1>2, <1>9, <1>10, <2>3, TermKeptTwice
  <2>5. TermKept(pool, pool')
      BY <1>2, <1>10, <1>13, <2>4, TermKeptTwice
  <2> QED
      BY <1>1, <2>5 DEF TermStep
<1>15. CASE TermCut(u, e, now)
  <2>1. TermKept(pool, u)
      BY <1>2, <1>3, <1>4, <1>5, TermKeptTwice
  <2>2. TermKept(e, pool')
      BY <1>10, <1>11, <1>12, <1>13, TermKeptTwice
  <2>3. TermCut(pool, pool', now)
      BY <1>1, <1>2, <1>4, <1>11, <1>13, <1>15, <2>1, <2>2, TermCutKept
  <2> QED
      BY <1>1, <2>3 DEF TermStep
<1> QED
    BY <1>7, <1>14, <1>15

\* The breaker is not part of the term.
LEMMA BreakerTerm ==
    ASSUME FullInv, NEW b \in BreakerSettings, SetScOverdue(b) \/ SetPaused(b)
    PROVE  /\ pool'.status = pool.status /\ pool'.fMaturityTs = pool.fMaturityTs
           /\ UNCHANGED <<now, lpPositions>>
           /\ pool.status \in LockedStatuses => TermKept(pool, pool')
<1>1. pool \in Pool
    BY FullTyped
<1>2. \E v1, v2 : pool' = [pool EXCEPT !.scOverdueCheck = v1, !.paused = v2]
  <2>1. CASE SetScOverdue(b)
    <3>1. pool' = [pool EXCEPT !.scOverdueCheck = b,
                      !.paused = IF b THEN @
                                 ELSE \E ref \in liveRefs : accruesPenalty(drawDowns[ref], now)]
        BY <2>1, Zenon DEF SetScOverdue
    <3> DEFINE w == IF b THEN pool.paused
                    ELSE \E ref \in liveRefs : accruesPenalty(drawDowns[ref], now)
    <3>2. pool' = [pool EXCEPT !.scOverdueCheck = b, !.paused = w]
        BY <1>1, <3>1 DEF Pool
    <3> QED
        BY <3>2, Zenon
  <2>2. CASE SetPaused(b)
    <3>1. pool' = [pool EXCEPT !.paused = b]
        BY <2>2, Zenon DEF SetPaused
    <3>2. pool' = [pool EXCEPT !.scOverdueCheck = pool.scOverdueCheck, !.paused = b]
        BY <1>1, <3>1 DEF Pool
    <3> QED
        BY <3>2, Zenon
  <2> QED
      BY <2>1, <2>2
<1>3. /\ SameCredit(pool, pool') /\ pool'.principal = pool.principal
      /\ pool'.poolFinalityTs = pool.poolFinalityTs /\ pool'.status = pool.status
      /\ pool'.collectedYield = pool.collectedYield /\ pool'.fMaturityTs = pool.fMaturityTs
    BY <1>1, <1>2 DEF SameCredit, Pool
<1>4. UNCHANGED <<now, lpPositions>>
    BY DEF SetScOverdue, SetPaused
<1>5. pool.collectedYield \in Int
    BY <1>1, PoolTypes
<1> QED
    BY <1>3, <1>4, <1>5 DEF TermKept

\* A repayment moves capital and pays the coupon.
LEMMA RepayTerm ==
    ASSUME FullInv, NEW ref \in Refs, Repay(ref)
    PROVE  TermKept(pool, pool') /\ UNCHANGED <<now, lpPositions>>
<1> DEFINE dd     == drawDowns[ref]
           charge == financeCharge(dd, now)
           a      == accrue(pool, now)
           back   == dd.principal
           r      == returnPrincipal(a, back, now)
           p      == allocate(r, charge, now)
<1>1. /\ pool.status = "Active"
      /\ back > 0
      /\ pool' = mature(p, treasury, now)
      /\ UNCHANGED <<now, lpPositions>>
    BY Zenon DEF Repay
<1>2. IInv /\ BookSound /\ now \in Nat /\ pool \in Pool /\ treasury \in TreasuryState
    BY FullTyped DEF FullInv
<1>3. a \in Pool /\ NonNeg(a) /\ TermKept(pool, a) /\ a.status = "Active"
      /\ a.outstanding = pool.outstanding /\ a.collectedBonus = 0
    BY <1>1, AccruedTerm DEF LockedStatuses
<1> HIDE DEF a
<1>4. dd \in DrawDown /\ back \in Nat \ {0}
    BY <1>1, <1>2, BookTyped DEF DrawDown
<1>5. charge \in Nat
    BY <1>2, <1>4, ChargeNat
<1>6. back <= a.outstanding
    BY <1>1, <1>2, <1>3, LentOut
<1> HIDE DEF dd, back, charge
<1>7. r \in Pool /\ TermKept(a, r)
    BY <1>2, <1>3, <1>4, <1>6, ReturnTerm DEF LockedStatuses
<1>8. r.status = "Active" /\ NonNeg(r) /\ r.collectedBonus = 0
    BY <1>2, <1>3, <1>4, <1>6, ReturnPool, ReturnMoney DEF SameRest
<1> HIDE DEF r
<1>9. p \in Pool /\ TermKept(r, p)
    BY <1>2, <1>5, <1>7, <1>8, AllocateTerm DEF LockedStatuses
<1>10. p.status = "Active" /\ NonNeg(p) /\ p.collectedBonus = 0
    BY <1>2, <1>5, <1>7, <1>8, AllocatePool, AllocateMoney DEF SameLedger
<1> HIDE DEF p
<1>11. pool' \in Pool /\ TermKept(p, pool')
    BY <1>1, <1>2, <1>9, <1>10, MatureTerm DEF LockedStatuses
<1>12. TermKept(pool, r)
    BY <1>2, <1>3, <1>7, TermKeptTwice
<1>13. TermKept(pool, p)
    BY <1>2, <1>7, <1>9, <1>12, TermKeptTwice
<1>14. TermKept(pool, pool')
    BY <1>2, <1>9, <1>11, <1>13, TermKeptTwice
<1> QED
    BY <1>1, <1>14

\* So does a payment of idle fees.
LEMMA PayFeesTerm ==
    ASSUME FullInv, NEW amount \in PayAmounts, PayAccruedIdleFees(amount)
    PROVE  TermKept(pool, pool') /\ UNCHANGED <<now, lpPositions>>
<1> DEFINE a    == accrue(pool, now)
           pay  == least(amount, a.accIdleFees + a.accPenalty)
           fees == least(pay, a.accIdleFees)
           f    == a.accIdleFees - fees
           e    == a.accPenalty - (pay - fees)
           q    == [a EXCEPT !.accIdleFees = f, !.accPenalty = e]
           p    == allocate(q, pay, now)
<1>1. pool.status = "Active" /\ UNCHANGED <<now, lpPositions>>
    BY Zenon DEF PayAccruedIdleFees
<1>2. now \in Nat /\ pool \in Pool /\ treasury \in TreasuryState
    BY FullTyped
<1>3. a \in Pool /\ NonNeg(a) /\ TermKept(pool, a) /\ a.status = "Active"
      /\ LedgerInv(a) /\ a.collectedBonus = 0
    BY <1>1, AccruedTerm DEF LockedStatuses
<1>4. pool' = a \/ pool' = mature(p, treasury, now)
  <2>1. IF pay = 0 THEN pool' = a
        ELSE LET r == allocate([a EXCEPT !.accIdleFees = @ - fees,
                                         !.accPenalty = @ - (pay - fees)], pay, now)
             IN  pool' = mature(r, treasury, now)
      BY Zenon DEF PayAccruedIdleFees
  <2> HIDE DEF a, pay, fees
  <2>2. [a EXCEPT !.accIdleFees = @ - fees, !.accPenalty = @ - (pay - fees)] = q
      BY <1>3 DEF Pool
  <2> HIDE DEF q
  <2> QED
      BY <2>1, <2>2
<1> HIDE DEF a
<1>5. a.accIdleFees \in Nat /\ a.accPenalty \in Nat /\ amount \in Nat
    BY <1>3, PoolTypes, PoolAssumption DEF LedgerInv, IdleSound
<1>6. pay \in Nat /\ f \in Int /\ e \in Int
    BY <1>5 DEF least
<1> HIDE DEF pay, f, e
<1>7. q \in Pool
    BY <1>3, <1>6, PrincipalUpdate, Zenon
<1>8. /\ SameLedger(a, q) /\ SameCoupon(a, q)
      /\ SameClaims(a, q) /\ SameRest(a, q) /\ SameCredit(a, q)
      /\ q.overrunYield = a.overrunYield
    BY <1>3 DEF SameLedger, SameCoupon, SameClaims, SameRest, SameCredit, Pool
<1> HIDE DEF q
<1>9. q.status = "Active" /\ NonNeg(q) /\ q.collectedBonus = 0 /\ TermKept(a, q)
  <2>1. NonNeg(q)
      BY <1>3, <1>8 DEF NonNeg, SameLedger, SameCoupon, SameClaims, SameRest, SameCredit
  <2>2. q.collectedYield >= a.collectedYield
      BY <1>3, <1>8, PoolTypes DEF SameCoupon
  <2> QED
      BY <1>3, <1>8, <2>1, <2>2 DEF SameLedger, SameRest, TermKept, LockedStatuses
<1>10. p \in Pool /\ TermKept(q, p)
    BY <1>2, <1>6, <1>7, <1>9, AllocateTerm DEF LockedStatuses
<1>11. p.status = "Active" /\ NonNeg(p) /\ p.collectedBonus = 0
    BY <1>2, <1>6, <1>7, <1>9, AllocatePool, AllocateMoney DEF SameLedger
<1> HIDE DEF p
<1>12. mature(p, treasury, now) \in Pool /\ TermKept(p, mature(p, treasury, now))
    BY <1>2, <1>10, <1>11, MatureTerm DEF LockedStatuses
<1>13. TermKept(pool, q)
    BY <1>2, <1>3, <1>7, <1>9, TermKeptTwice
<1>14. TermKept(pool, p)
    BY <1>2, <1>7, <1>10, <1>13, TermKeptTwice
<1>15. TermKept(pool, mature(p, treasury, now))
    BY <1>2, <1>10, <1>12, <1>14, TermKeptTwice
<1> QED
    BY <1>1, <1>3, <1>4, <1>15

\* A settlement of the defaulted principal leaves the term alone.
LEMMA SettlePrincipalTerm ==
    ASSUME FullInv, NEW amount \in PayAmounts, SettleDefaultPrincipal(amount)
    PROVE  TermKept(pool, pool') /\ UNCHANGED <<now, lpPositions>>
<1> DEFINE owed == monus(pool.principal, pool.collectedPrincipal)
           paid == least(amount, owed) + drawn(treasury, owed - least(amount, owed))
           q    == [pool EXCEPT !.collectedPrincipal = @ + paid, !.outstanding = @ - paid]
<1>1. /\ pool.status = "Default" /\ UNCHANGED <<now, lpPositions>>
      /\ pool' = pool \/ pool' = resolveDefaultIfWhole(q)
    BY Zenon DEF SettleDefaultPrincipal
<1>2. pool \in Pool /\ now \in Nat /\ treasury \in TreasuryState
    BY FullTyped
<1>3. q \in Pool
  <2>1. paid \in Int
    <3>1. owed \in Nat /\ amount \in Nat
        BY <1>2, PoolTypes, PoolAssumption DEF monus
    <3> HIDE DEF owed
    <3>2. owed - least(amount, owed) \in Nat /\ least(amount, owed) \in Nat
        BY <3>1 DEF least
    <3>3. drawn(treasury, owed - least(amount, owed)) \in Nat
        BY <1>2, <3>2, FullTyped, DrawnMoney DEF FullInv, MoneyInv
    <3> QED
        BY <3>2, <3>3
  <2> HIDE DEF paid
  <2> DEFINE v == pool.collectedPrincipal + paid
             w == pool.outstanding - paid
  <2>2. v \in Int /\ w \in Int
      BY <1>2, <2>1, PoolTypes
  <2>3. q = [pool EXCEPT !.collectedPrincipal = v, !.outstanding = w]
      BY <1>2 DEF Pool
  <2> HIDE DEF v, w, q
  <2>4. [pool EXCEPT !.collectedPrincipal = v, !.outstanding = w] \in Pool
      BY <1>2, <2>2, PrincipalUpdate, Zenon
  <2> QED
      BY <2>3, <2>4
<1>4. TermKept(pool, q) /\ q.status = "Default"
  <2> HIDE DEF paid
  <2>1. /\ SameCredit(pool, q) /\ q.principal = pool.principal
        /\ q.poolFinalityTs = pool.poolFinalityTs /\ q.status = pool.status
        /\ q.collectedYield = pool.collectedYield
      BY <1>2 DEF SameCredit, Pool
  <2> HIDE DEF q
  <2> QED
      BY <1>1, <1>2, <2>1, PoolTypes DEF TermKept, LockedStatuses
<1> HIDE DEF q
<1>5. resolveDefaultIfWhole(q) \in Pool /\ TermKept(q, resolveDefaultIfWhole(q))
    BY <1>3, <1>4, ResolveTerm DEF LockedStatuses
<1>6. TermKept(pool, resolveDefaultIfWhole(q))
    BY <1>2, <1>3, <1>4, <1>5, TermKeptTwice
<1>7. TermKept(pool, pool)
    BY <1>1, <1>2, TermSelf DEF LockedStatuses
<1> QED
    BY <1>1, <1>6, <1>7

\* So does a settlement of the defaulted yield, which only collects more.
LEMMA SettleYieldTerm ==
    ASSUME FullInv, NEW amount \in PayAmounts, SettleDefaultYield(amount)
    PROVE  TermKept(pool, pool') /\ UNCHANGED <<now, lpPositions>>
<1> DEFINE owed == yieldShort(pool) + overrunShort(pool)
           paid == least(amount, owed) + drawn(treasury, owed - least(amount, owed))
           q    == fill(pool, paid)
<1>1. /\ pool.status = "Default" /\ UNCHANGED <<now, lpPositions>>
      /\ pool' = pool \/ pool' = resolveDefaultIfWhole(q)
    BY Zenon DEF SettleDefaultYield
<1>2. pool \in Pool /\ now \in Nat /\ treasury \in TreasuryState
    BY FullTyped
<1>3. paid \in Nat
  <2>1. owed \in Nat /\ amount \in Nat
      BY <1>2, PoolTypes, PoolAssumption DEF yieldShort, overrunShort, monus
  <2> HIDE DEF owed
  <2>2. owed - least(amount, owed) \in Nat /\ least(amount, owed) \in Nat
      BY <2>1 DEF least
  <2>3. drawn(treasury, owed - least(amount, owed)) \in Nat
      BY <1>2, <2>2, FullTyped, DrawnMoney DEF FullInv, MoneyInv
  <2> QED
      BY <2>2, <2>3
<1> HIDE DEF paid
<1>4. /\ q \in Pool /\ SameLedger(pool, q) /\ SameCredit(pool, q)
      /\ q.collectedYield >= pool.collectedYield
    BY <1>2, <1>3, FillPool, FillMoney
<1> HIDE DEF q
<1>5. TermKept(pool, q) /\ q.status = "Default"
    BY <1>1, <1>4 DEF TermKept, SameLedger, LockedStatuses
<1>6. resolveDefaultIfWhole(q) \in Pool /\ TermKept(q, resolveDefaultIfWhole(q))
    BY <1>4, <1>5, ResolveTerm DEF LockedStatuses
<1>7. TermKept(pool, resolveDefaultIfWhole(q))
    BY <1>2, <1>4, <1>5, <1>6, TermKeptTwice
<1>8. TermKept(pool, pool)
    BY <1>1, <1>2, TermSelf DEF LockedStatuses
<1> QED
    BY <1>1, <1>7, <1>8

\* And the sweep of the fees.
LEMMA SweepTerm ==
    ASSUME FullInv, SweepProtocolFees
    PROVE  TermKept(pool, pool') /\ UNCHANGED <<now, lpPositions>>
<1>1. /\ pool.status = "Closed" /\ pool' = [pool EXCEPT !.protocolFees = 0]
      /\ UNCHANGED <<now, lpPositions>>
    BY Zenon DEF SweepProtocolFees
<1>2. pool \in Pool
    BY FullTyped
<1>3. /\ SameCredit(pool, pool') /\ pool'.principal = pool.principal
      /\ pool'.poolFinalityTs = pool.poolFinalityTs /\ pool'.status = pool.status
      /\ pool'.collectedYield = pool.collectedYield
    BY <1>1, <1>2 DEF SameCredit, Pool
<1> QED
    BY <1>1, <1>2, <1>3, PoolTypes DEF TermKept, LockedStatuses

-----------------------------------------------------------------------------
(* The claims and the lock *)

\* A claim of yield pays no more than is due.
LEMMA ClaimYieldKept ==
    ASSUME FullInv, FullInv', ShareInv, NEW lp \in LPs, ClaimYield(lp)
    PROVE  /\ TermKept(pool, pool') /\ UNCHANGED now
           /\ \A l \in LPs :
                  PositionKept(lpPositions[l], lpPositions'[l], pool, pool', now)
<1> DEFINE a       == accrue(pool, now)
           old     == lpPositions[lp]
           pos     == settleLpDollarSeconds(old, a)
           p       == mature(a, treasury, now)
           base    == least(claimableBase(pos, p, now), p.collectedYield - p.claimedYield)
           overrun == least(claimableOverrun(pos, p),
                            p.collectedOverrunYield - p.claimedOverrunYield)
           bonus   == least(claimableBonus(pos, p), p.collectedBonus - p.claimedBonus)
           q       == [p EXCEPT !.claimedYield = @ + base, !.claimedOverrunYield = @ + overrun,
                                !.claimedBonus = @ + bonus]
           x       == [pos EXCEPT !.claimedYield = @ + base,
                                  !.claimedOverrunYield = @ + overrun,
                                  !.claimedBonus = @ + bonus]
<1>1. /\ pool.status \in Claimable
      /\ p.dollarSeconds > 0 /\ p.principal > 0
      /\ pool' = q /\ lpPositions' = [lpPositions EXCEPT ![lp] = x]
      /\ UNCHANGED now
    BY Zenon DEF ClaimYield
<1>2. /\ now \in Nat /\ lpPositions \in [LPs -> LPPosition] /\ old \in LPPosition
      /\ treasury \in TreasuryState /\ pool \in Pool /\ PoolSound(pool, now)
      /\ LpSound(lpPositions, pool)
    BY FullTyped
<1>3. pool.status \in LockedStatuses
    BY <1>1 DEF Claimable, LockedStatuses
<1>4. /\ a \in Pool /\ LedgerInv(a) /\ PoolSound(a, now) /\ NonNeg(a) /\ TermKept(pool, a)
      /\ a.status # "Closed" => a.collectedBonus = 0
      /\ LpSound(lpPositions, a)
    BY <1>3, AccruedTerm
<1>5. a.status \in LockedStatuses
    BY <1>4 DEF TermKept
<1> HIDE DEF a
<1>6. p \in Pool /\ TermKept(a, p)
    BY <1>2, <1>4, <1>5, MatureTerm
<1>7. PoolSound(p, now)
    BY <1>2, <1>4, <1>5, MatureSound
<1> HIDE DEF p
<1>8. NonNegPosition(old) /\ old.lastUpdate <= pool.lastUpdate
      /\ old.lastUpdate <= a.lastUpdate
    BY <1>2, <1>4 DEF LpSound, LpEach
<1>9. SettledAtLock(old, pool) /\ old.claimedYield <= Due(old, pool, now)
      /\ TermSound(pool)
    BY <1>3, Zenon DEF ShareInv, ShareSound
<1>10. SettledAtLock(old, a)
    BY <1>4, <1>5, <1>9 DEF SettledAtLock, TermKept, SameCredit
<1> HIDE DEF old
<1>11. /\ pos \in LPPosition /\ NonNegPosition(pos)
       /\ Credit(pos, a.lastUpdate) = Credit(old, a.lastUpdate)
       /\ pos.principal = old.principal
       /\ pos.claimedYield = old.claimedYield
    BY <1>2, <1>4, <1>5, <1>8, SettledPosition
<1>12. /\ pos.finalized /\ pos.lastUpdate = a.poolStartTs
       /\ mulDiv(baseShare(pos, p, now), p.collectedYield, WAD) = Due(old, p, now)
  <2>1. SameCredit(a, p) /\ p.principal = a.principal
      BY <1>6 DEF TermKept
  <2> QED
      BY <1>2, <1>4, <1>5, <1>8, <1>10, <2>1, SettledShare
<1> HIDE DEF pos
<1>13. TermKept(pool, p)
    BY <1>2, <1>4, <1>6, TermKeptTwice
<1>14. TermSound(p) /\ p.status \in LockedStatuses
  <2>1. now >= pool.poolStartTs
      BY <1>2 DEF PoolSound, Clock
  <2> QED
      BY <1>2, <1>3, <1>6, <1>9, <1>13, <2>1, TermKeptSound DEF TermKept
<1>15. /\ Credit(old, pool.lastUpdate) \in Nat /\ old.principal \in Nat
       /\ Due(old, pool, now) \in Nat /\ Due(old, p, now) \in Nat
  <2>1. p.lastUpdate = pool.lastUpdate
      BY <1>13 DEF TermKept, SameCredit
  <2> QED
      BY <1>2, <1>3, <1>6, <1>7, <1>8, <1>9, <1>14, <2>1, DueNat
<1>16. Due(old, pool, now) <= Due(old, p, now)
  <2>1. p.lastUpdate = pool.lastUpdate
      BY <1>13 DEF TermKept, SameCredit
  <2> QED
      BY <1>2, <1>3, <1>6, <1>7, <1>9, <1>13, <1>15, <2>1, OwedKept DEF Due
<1>17. base \in Int /\ pos.claimedYield + base <= Due(old, p, now)
  <2> DEFINE d == Due(old, p, now)
             k == pos.claimedYield
             r == p.collectedYield - p.claimedYield
  <2>1. claimableBase(pos, p, now) = monus(d, k)
      BY <1>12, Zenon DEF claimableBase
  <2>2. base = least(monus(d, k), r)
      BY <2>1, Zenon
  <2>3. d \in Nat /\ k \in Int /\ r \in Int /\ k <= d
      BY <1>6, <1>9, <1>11, <1>15, <1>16, PoolTypes, PositionTypes
  <2> HIDE DEF d, k, r, base
  <2>4. base \in Int /\ k + base <= d
      BY <2>2, <2>3 DEF least, monus
  <2> QED
      BY <2>4 DEF d, k
<1> HIDE DEF base, overrun, bonus
<1>18. /\ SameCredit(p, q) /\ q.principal = p.principal
       /\ q.poolFinalityTs = p.poolFinalityTs /\ q.status = p.status
       /\ q.collectedYield = p.collectedYield
    BY <1>6 DEF SameCredit, Pool
<1>19. /\ x.claimedYield = pos.claimedYield + base
       /\ x.principal = pos.principal /\ x.fundingCredit = pos.fundingCredit
       /\ x.lastUpdate = pos.lastUpdate
    BY <1>11 DEF LPPosition
<1> HIDE DEF q, x
<1>20. TermKept(pool, q)
    BY <1>13, <1>18 DEF TermKept, SameCredit
<1>21. PositionKept(old, x, pool, q, now)
  <2>1. a.lastUpdate = pool.lastUpdate /\ a.poolStartTs = pool.poolStartTs
      BY <1>4 DEF TermKept, SameCredit
  <2>2. Credit(x, pool.lastUpdate) = Credit(pos, pool.lastUpdate)
      BY <1>19, Zenon DEF Credit
  <2>3. Credit(x, pool.lastUpdate) = Credit(old, pool.lastUpdate)
      BY <1>11, <2>1, <2>2, Zenon
  <2>4. ShareAt(q, now, Credit(old, p.lastUpdate), old.principal)
          = ShareAt(p, now, Credit(old, p.lastUpdate), old.principal)
      BY <1>18, Zenon DEF ShareAt, FinalShare, ShareSoFar, DueSeconds, SameCredit
  <2>5. Due(old, q, now) = Due(old, p, now)
      BY <1>18, <2>4, Zenon DEF Due, Owed, SameCredit
  <2>6. x.claimedYield <= Due(old, q, now)
      BY <1>17, <1>19, <2>5
  <2> QED
      BY <1>11, <1>12, <1>19, <2>1, <2>3, <2>6, Zenon DEF PositionKept
<1>22. ASSUME NEW l \in LPs
       PROVE  PositionKept(lpPositions[l], lpPositions'[l], pool, q, now)
  <2>1. CASE l = lp
      BY <1>1, <1>2, <1>21, <2>1 DEF old
  <2>2. CASE l # lp
    <3>1. lpPositions'[l] = lpPositions[l]
        BY <1>1, <1>2, <2>2
    <3>2. PositionKept(lpPositions[l], lpPositions[l], pool, q, now)
        BY <1>2, SamePosition, Zenon DEF ShareInv
    <3> QED
        BY <3>1, <3>2
  <2> QED
      BY <2>1, <2>2
<1> QED
    BY <1>1, <1>20, <1>22

\* A claim of principal is no claim of yield.
LEMMA ClaimPrincipalKept ==
    ASSUME FullInv, ShareInv, NEW lp \in LPs, ClaimPrincipal(lp)
    PROVE  /\ TermKept(pool, pool') /\ UNCHANGED now
           /\ \A l \in LPs :
                  PositionKept(lpPositions[l], lpPositions'[l], pool, pool', now)
<1> DEFINE a    == accrueIdleFees(pool, now)
           p    == mature(a, treasury, now)
           old  == lpPositions[lp]
           paid == monus(mulDiv(old.principal, p.collectedPrincipal, p.principal),
                         old.claimedPrincipal)
           q    == [p EXCEPT !.claimedPrincipal = @ + paid]
           x    == [old EXCEPT !.claimedPrincipal = @ + paid]
<1>1. /\ pool.status \in Claimable
      /\ pool' = q
      /\ lpPositions' = [lpPositions EXCEPT ![lp].claimedPrincipal = @ + paid]
      /\ UNCHANGED now
    BY Zenon DEF ClaimPrincipal
<1>2. /\ now \in Nat /\ lpPositions \in [LPs -> LPPosition] /\ old \in LPPosition
      /\ treasury \in TreasuryState /\ pool \in Pool
    BY FullTyped
<1>3. pool.status \in LockedStatuses
    BY <1>1 DEF Claimable, LockedStatuses
<1>4. /\ a \in Pool /\ NonNeg(a) /\ TermKept(pool, a)
      /\ a.status # "Closed" => a.collectedBonus = 0
    BY <1>3, AccruedTerm
<1>5. a.status \in LockedStatuses
    BY <1>4 DEF TermKept
<1> HIDE DEF a
<1>6. p \in Pool /\ TermKept(a, p)
    BY <1>2, <1>4, <1>5, MatureTerm
<1> HIDE DEF p
<1>7. TermKept(pool, p)
    BY <1>2, <1>4, <1>6, TermKeptTwice
<1>8. lpPositions' = [lpPositions EXCEPT ![lp] = x]
    BY <1>1
<1> HIDE DEF paid
<1>9. /\ SameCredit(p, q) /\ q.principal = p.principal
      /\ q.poolFinalityTs = p.poolFinalityTs /\ q.status = p.status
      /\ q.collectedYield = p.collectedYield
    BY <1>6 DEF SameCredit, Pool
<1>10. /\ x.claimedYield = old.claimedYield /\ x.finalized = old.finalized
       /\ x.principal = old.principal /\ x.fundingCredit = old.fundingCredit
       /\ x.lastUpdate = old.lastUpdate
    BY <1>2 DEF LPPosition
<1> HIDE DEF q, x
<1>11. TermKept(pool, q)
    BY <1>7, <1>9 DEF TermKept, SameCredit
<1>12. \A l \in LPs : PositionKept(lpPositions[l], lpPositions[l], pool, q, now)
    BY <1>2, SamePosition, Zenon DEF ShareInv
<1>13. PositionKept(old, x, pool, q, now)
  <2>1. PositionKept(old, old, pool, q, now)
      BY <1>12, Zenon
  <2>2. Credit(x, pool.lastUpdate) = Credit(old, pool.lastUpdate)
      BY <1>10, Zenon DEF Credit
  <2> QED
      BY <1>10, <2>1, <2>2, Zenon DEF PositionKept
<1>14. ASSUME NEW l \in LPs
       PROVE  PositionKept(lpPositions[l], lpPositions'[l], pool, q, now)
  <2>1. CASE l = lp
      BY <1>2, <1>8, <1>13, <2>1 DEF old
  <2>2. CASE l # lp
    <3>1. lpPositions'[l] = lpPositions[l]
        BY <1>2, <1>8, <2>2
    <3> QED
        BY <1>12, <3>1
  <2> QED
      BY <2>1, <2>2
<1> QED
    BY <1>1, <1>11, <1>14

\* Deposits and withdrawals are over at the lock.
LEMMA FundingOver ==
    ASSUME FullInv, pool.status \in LockedStatuses
    PROVE  /\ triggerFinalizeFunding(pool, now) = pool
           /\ globalCheckpoint(pool, now) = pool
           /\ \A lp \in LPs, amount \in LpAmounts :
                  ~Deposit(lp, amount) /\ ~Withdraw(lp, amount)
<1>1. pool.status \notin {"Funding", "Unsuccessful"}
    BY DEF LockedStatuses
<1>2. triggerFinalizeFunding(pool, now) = pool /\ globalCheckpoint(pool, now) = pool
    BY <1>1 DEF triggerFinalizeFunding, globalCheckpoint
<1>3. ASSUME NEW lp \in LPs, NEW amount \in LpAmounts
      PROVE  ~Deposit(lp, amount) /\ ~Withdraw(lp, amount)
  <2>1. Deposit(lp, amount) => globalCheckpoint(triggerFinalizeFunding(pool, now), now).status
                                   = "Funding"
      BY Zenon DEF Deposit
  <2>2. Withdraw(lp, amount) => globalCheckpoint(triggerFinalizeFunding(pool, now), now).status
                                    \in {"Funding", "Unsuccessful"}
      BY Zenon DEF Withdraw
  <2> QED
      BY <1>1, <1>2, <2>1, <2>2
<1> QED
    BY <1>2, <1>3

\* In a locked pool every call but a claim leaves all positions alone.
OthersNext ==
    \/ FinalizeFunding \/ AgentNext \/ PspNext \/ MultisigNext

\* None of them moves the term but to cut it.
LEMMA OthersKept ==
    ASSUME FullInv, pool.status \in LockedStatuses, OthersNext
    PROVE  TermStep(pool, pool', now) /\ UNCHANGED <<now, lpPositions>>
<1>1. TermKept(pool, pool)
    BY FullTyped, TermSelf
<1>2. CASE FinalizeFunding
  <2>1. pool' = triggerFinalizeFunding(pool, now) /\ UNCHANGED <<now, lpPositions>>
      BY <1>2, Zenon DEF FinalizeFunding
  <2> QED
      BY <1>1, <2>1, FundingOver DEF TermStep
<1>3. CASE AgentNext
  <2>1. ASSUME NEW ref \in Refs, NEW w \in Receivers, NEW amount \in DrawAmounts,
               NEW days \in SettlementDays, ExecuteDrawdown(ref, w, amount, days)
        PROVE  TermStep(pool, pool', now) /\ UNCHANGED <<now, lpPositions>>
      BY <2>1, DrawdownTerm DEF TermStep
  <2>2. CASE DeclareDefault
      BY <2>2, DeclareDefaultTerm
  <2>3. ASSUME NEW b \in BreakerSettings, SetScOverdue(b) \/ SetPaused(b)
        PROVE  TermStep(pool, pool', now) /\ UNCHANGED <<now, lpPositions>>
      BY <2>3, BreakerTerm DEF TermStep
  <2>4. ASSUME NEW w \in ManagedReceivers, AddReceiver(w)
        PROVE  TermStep(pool, pool', now) /\ UNCHANGED <<now, lpPositions>>
      BY <1>1, <2>4 DEF AddReceiver, TermStep
  <2> QED
      BY <1>3, <2>1, <2>2, <2>3, <2>4 DEF AgentNext
<1>4. CASE PspNext
  <2>1. ASSUME NEW ref \in Refs, Repay(ref)
        PROVE  TermStep(pool, pool', now) /\ UNCHANGED <<now, lpPositions>>
      BY <2>1, RepayTerm DEF TermStep
  <2>2. ASSUME NEW amount \in PayAmounts, PayAccruedIdleFees(amount)
        PROVE  TermStep(pool, pool', now) /\ UNCHANGED <<now, lpPositions>>
      BY <2>2, PayFeesTerm DEF TermStep
  <2> QED
      BY <1>4, <2>1, <2>2 DEF PspNext
<1>5. CASE MultisigNext
  <2>1. ASSUME NEW amount \in PayAmounts,
               SettleDefaultPrincipal(amount) \/ SettleDefaultYield(amount)
        PROVE  TermStep(pool, pool', now) /\ UNCHANGED <<now, lpPositions>>
      BY <2>1, SettlePrincipalTerm, SettleYieldTerm DEF TermStep
  <2>2. CASE SweepProtocolFees
      BY <2>2, SweepTerm DEF TermStep
  <2>3. ASSUME NEW w \in ManagedReceivers, RemoveReceiver(w)
        PROVE  TermStep(pool, pool', now) /\ UNCHANGED <<now, lpPositions>>
      BY <1>1, <2>3 DEF RemoveReceiver, TermStep
  <2>4. CASE /\ TreasuryOwner
             /\ UNCHANGED <<now, pool, lpPositions, drawVars, authorizedReceivers, poolBalance>>
      BY <1>1, <2>4 DEF TermStep
  <2> QED
      BY <1>5, <2>1, <2>2, <2>3, <2>4 DEF MultisigNext
<1> QED
    BY <1>2, <1>3, <1>4, <1>5 DEF OthersNext

\* What LPs may do with a locked pool.
LEMMA LockedCalls ==
    ASSUME FullInv, pool.status \in LockedStatuses, [Next]_vars
    PROVE  \/ \E lp \in LPs : ClaimYield(lp) \/ ClaimPrincipal(lp)
           \/ OthersNext
           \/ UNCHANGED <<pool, lpPositions>> /\ now' \in {now, now + 1}
<1>1. CASE LpNext
    BY <1>1, FundingOver DEF LpNext, OthersNext
<1>2. CASE Tick \/ UNCHANGED vars
    BY <1>2 DEF Tick, vars
<1> QED
    BY <1>1, <1>2 DEF Next, OthersNext

\* Every step of a locked pool keeps the shares sound, and nobody is due less after it.
LEMMA LockedStep ==
    ASSUME FullInv, FullInv', ShareInv, pool.status \in LockedStatuses, [Next]_vars
    PROVE  /\ ShareInv' /\ pool'.status \in LockedStatuses
           /\ \A lp \in LPs :
                  Due(lpPositions[lp], pool, now) <= Due(lpPositions[lp], pool, now)'
<1>1. /\ now \in Nat /\ pool \in Pool /\ lpPositions \in [LPs -> LPPosition]
      /\ PoolSound(pool, now) /\ LpSound(lpPositions, pool)
    BY FullTyped
<1>2. /\ now' \in Nat /\ pool' \in Pool /\ lpPositions' \in [LPs -> LPPosition]
      /\ PoolSound(pool', now')
  <2>1. IInv'
      BY DEF FullInv
  <2>2. MoneyInv'
      BY DEF FullInv
  <2> QED
      BY <2>1, <2>2, NextTyped, Zenon DEF MoneyInv
<1>3. ShareSound(lpPositions, pool, now)
    BY Zenon DEF ShareInv
<1>4. CASE UNCHANGED <<pool, lpPositions>> /\ now' \in {now, now + 1}
  <2>1. PoolSound(pool, now') /\ now <= now'
      BY <1>1, <1>2, <1>4
  <2>2. /\ ShareSound(lpPositions, pool, now')
        /\ \A lp \in LPs :
               Due(lpPositions[lp], pool, now) <= Due(lpPositions[lp], pool, now')
      BY <1>1, <1>2, <1>3, <2>1, ShareTick, Zenon
  <2> QED
      BY <1>4, <2>2, Zenon DEF ShareInv
<1>5. ASSUME TermStep(pool, pool', now), now' = now,
             \A lp \in LPs : PositionKept(lpPositions[lp], lpPositions'[lp], pool, pool', now)
      PROVE  /\ ShareInv' /\ pool'.status \in LockedStatuses
             /\ \A lp \in LPs :
                    Due(lpPositions[lp], pool, now) <= Due(lpPositions[lp], pool, now)'
  <2>3. pool'.status \in LockedStatuses
      BY <1>5 DEF TermStep, TermKept, TermCut, LockedStatuses
  <2>1. PoolSound(pool', now)
      BY <1>2, <1>5
  <2>2. /\ ShareSound(lpPositions', pool', now)
        /\ \A lp \in LPs :
               Due(lpPositions[lp], pool, now) <= Due(lpPositions'[lp], pool', now)
      BY <1>1, <1>2, <1>3, <1>5, <2>1, ShareStep, Zenon
  <2> QED
      BY <1>5, <2>2, <2>3, Zenon DEF ShareInv
<1>6. CASE \E lp \in LPs : ClaimYield(lp) \/ ClaimPrincipal(lp)
    BY <1>5, <1>6, ClaimYieldKept, ClaimPrincipalKept DEF TermStep
<1>7. CASE OthersNext
  <2>1. TermStep(pool, pool', now) /\ UNCHANGED <<now, lpPositions>>
      BY <1>7, OthersKept
  <2>2. \A lp \in LPs : PositionKept(lpPositions[lp], lpPositions[lp], pool, pool', now)
      BY <1>1, <1>3, SamePosition, Zenon
  <2> QED
      BY <1>5, <2>1, <2>2
<1> QED
    BY <1>4, <1>6, <1>7, LockedCalls

-----------------------------------------------------------------------------
(* Until the lock *)

\* Before the lock nothing is claimed.
LEMMA NothingClaimed ==
    ASSUME FullInv, pool.status \notin LockedStatuses
    PROVE  \A lp \in LPs : lpPositions[lp].claimedYield = 0
<1> DEFINE f == [lp \in LPs |-> lpPositions[lp].claimedYield]
<1>1. /\ lpPositions \in [LPs -> LPPosition] /\ LpSound(lpPositions, pool)
      /\ pool.claimedYield = 0
    BY FullTyped DEF PoolSound, Fresh
<1>2. \A lp \in LPs : f[lp] = lpPositions[lp].claimedYield /\ f[lp] \in Nat
    BY <1>1, PositionTypes DEF LpSound, LpEach, NonNegPosition
<1>3. SumOf(f, LPs) = 0
    BY <1>1, Zenon DEF LpSound, LpSums
<1> HIDE DEF f
<1>4. \A lp \in LPs : f[lp] <= SumOf(f, LPs)
    BY <1>2, PoolAssumption, SumElement
<1> QED
    BY <1>2, <1>3, <1>4

\* The lock starts a term of the full tenure, and what it shares out is not zero.
LEMMA LockTerm ==
    ASSUME NEW p \in Pool, NEW t \in Nat, NonNeg(p), p.principal >= SoftCap,
           t >= p.fMaturityTs
    PROVE  TermSound(lock(p, t))
<1> DEFINE secs == Tenure * SECONDS_PER_DAY
           ext  == p.principal * secs
           ds   == p.fundingCredit + ext
           q    == lock(p, t)
<1>1. secs \in Nat /\ secs > 0
  <2>1. Tenure \in Nat \ {0} /\ SECONDS_PER_DAY \in Nat \ {0}
      BY PoolAssumption, MathLibAssumption
  <2> QED
      BY <2>1
<1> HIDE DEF secs
<1>2. p.principal \in Nat /\ p.principal > 0 /\ p.fundingCredit \in Nat /\ p.fMaturityTs \in Nat
    BY PoolTypes, PoolAssumption DEF NonNeg
<1>3. ext \in Nat /\ ext > 0
    BY <1>1, <1>2
<1>4. /\ q.span = secs /\ q.dollarSeconds = ds /\ q.fundingCredit = p.fundingCredit
      /\ q.principal = p.principal /\ q.poolStartTs = t
      /\ q.poolFinalityTs = p.fMaturityTs + secs
  <2> HIDE DEF ds
  <2>1. q = [p EXCEPT !.status         = "Active",
                  !.poolStartTs    = t,
                  !.span           = secs,
                  !.poolFinalityTs = p.fMaturityTs + secs,
                  !.dollarSeconds  = ds,
                  !.yieldOwed      = coupon(ds),
                  !.availableToDd  = p.principal,
                  !.lastUpdate     = t,
                  !.lastOverrunTs  = p.fMaturityTs + secs,
                  !.lastIdleDay    = dayOf(t),
                  !.lastPenaltyDay = dayOf(p.fMaturityTs + secs) + PenaltyGraceDays]
      BY DEF lock, secs, ds
  <2> HIDE DEF q
  <2> QED
      BY <2>1 DEF Pool
<1> HIDE DEF q
<1>5. ds = p.fundingCredit + p.principal * secs
    OBVIOUS
<1>6. ds > 0
    BY <1>2, <1>3
<1> HIDE DEF ds, ext
<1>7. p.fMaturityTs + secs <= t + secs
    BY <1>1, <1>2
<1> QED
    BY <1>1, <1>4, <1>5, <1>6, <1>7 DEF TermSound, q

\* The end of the funding window keeps the shares sound, lock or not.
LEMMA FinalizeShares ==
    ASSUME FullInv, FullInv', ShareInv, pool.status \notin LockedStatuses, FinalizeFunding
    PROVE  ShareInv'
<1> DEFINE c == globalCheckpoint(pool, now)
           u == releasePsp([c EXCEPT !.status = "Unsuccessful"])
           l == lock(c, now)
<1>1. /\ now' = now /\ lpPositions' = lpPositions
      /\ pool' = triggerFinalizeFunding(pool, now)
    BY Zenon DEF FinalizeFunding
<1>2. /\ now \in Nat /\ pool \in Pool /\ lpPositions \in [LPs -> LPPosition]
      /\ PoolSound(pool, now)
    BY FullTyped
<1>3. \A lp \in LPs : ~lpPositions[lp].finalized
    BY DEF ShareInv, ShareSound, SettledAtLock
<1>4. \/ pool' = pool
      \/ now >= pool.fMaturityTs /\ c.principal >= SoftCap /\ pool' = l
      \/ pool' = u
    BY <1>1, Zenon DEF triggerFinalizeFunding, finalizeFunding
<1>5. c \in Pool /\ NonNeg(c) /\ c.fMaturityTs = pool.fMaturityTs /\ c.status = pool.status
    BY <1>2, CheckpointSound DEF PoolSound
<1> HIDE DEF c
<1>6. ASSUME now >= pool.fMaturityTs, c.principal >= SoftCap
      PROVE  TermSound(l)
    BY <1>2, <1>5, <1>6, LockTerm
<1>7. TermSound(u) /\ u.status \notin LockedStatuses
  <2>1. u.status = "Unsuccessful"
      BY <1>5 DEF releasePsp, Pool
  <2> HIDE DEF u
  <2> QED
      BY <2>1 DEF TermSound, LockedStatuses
<1>8. TermSound(pool')
    BY <1>4, <1>6, <1>7 DEF TermSound
<1>9. ASSUME NEW lp \in LPs, pool'.status \in LockedStatuses
      PROVE  lpPositions'[lp].claimedYield <= Due(lpPositions'[lp], pool', now')
  <2>1. /\ now' \in Nat /\ pool' \in Pool /\ lpPositions' \in [LPs -> LPPosition]
        /\ PoolSound(pool', now') /\ LpSound(lpPositions', pool')
    <3>1. IInv' /\ MoneyInv'
        BY DEF FullInv
    <3> QED
        BY <3>1, NextTyped, Zenon DEF MoneyInv
  <2>2. lpPositions'[lp] \in LPPosition /\ NonNegPosition(lpPositions'[lp])
        /\ lpPositions'[lp].lastUpdate <= pool'.lastUpdate
      BY <2>1 DEF LpSound, LpEach
  <2>3. Due(lpPositions'[lp], pool', now') \in Nat
      BY <1>8, <1>9, <2>1, <2>2, DueNat
  <2>4. lpPositions'[lp].claimedYield = 0
      BY <1>1, NothingClaimed
  <2> QED
      BY <2>3, <2>4
<1>10. \A lp \in LPs : SettledAtLock(lpPositions'[lp], pool')
    BY <1>1, <1>3 DEF SettledAtLock
<1> QED
    BY <1>8, <1>9, <1>10, Zenon DEF ShareInv, ShareSound

\* A pool that is not locked has no shares yet.
LEMMA NoShares ==
    ASSUME NEW L, NEW p, NEW t, p.status \notin LockedStatuses,
           \A lp \in LPs : ~L[lp].finalized
    PROVE  ShareSound(L, p, t)
BY Zenon DEF ShareSound, TermSound, SettledAtLock

\* A deposit or a withdrawal settles no position.
LEMMA FundingShares ==
    ASSUME FullInv, ShareInv, pool.status \notin LockedStatuses,
           NEW lp \in LPs, NEW amount \in LpAmounts,
           Deposit(lp, amount) \/ Withdraw(lp, amount)
    PROVE  ShareInv'
<1> DEFINE f   == globalCheckpoint(triggerFinalizeFunding(pool, now), now)
           pos == lpCheckpoint(lpPositions[lp], f, now)
<1>1. IInv /\ now \in Nat /\ lpPositions \in [LPs -> LPPosition]
    BY FullTyped DEF FullInv
<1>2. f \in Pool
    BY <1>1, Checkpointed
<1>3. \A l \in LPs : ~lpPositions[l].finalized
    BY DEF ShareInv, ShareSound, SettledAtLock
<1>4. f.status \in {"Funding", "Unsuccessful"}
    BY Zenon DEF Deposit, Withdraw
<1>5. \E v1, v2 : /\ pool' = [f EXCEPT !.fundingCredit = v1, !.principal = v2]
                  /\ \E w1, w2 : lpPositions' = [lpPositions EXCEPT
                         ![lp] = [pos EXCEPT !.fundingCredit = w1, !.principal = w2]]
  <2>1. pos \in LPPosition
    <3>1. lpPositions[lp] \in LPPosition
        BY <1>1
    <3> QED
        BY <1>1, <1>2, <3>1, CheckpointPosition
  <2>2. CASE Deposit(lp, amount)
    <3>1. /\ pool' = [f EXCEPT !.principal = @ + amount]
          /\ lpPositions' = [lpPositions EXCEPT ![lp] = [pos EXCEPT !.principal = @ + amount]]
        BY <2>2, Zenon DEF Deposit
    <3> HIDE DEF f, pos
    <3>2. pool' = [f EXCEPT !.fundingCredit = f.fundingCredit,
                            !.principal = f.principal + amount]
        BY <1>2, <3>1 DEF Pool
    <3>3. [pos EXCEPT !.principal = @ + amount]
            = [pos EXCEPT !.fundingCredit = pos.fundingCredit,
                          !.principal = pos.principal + amount]
        BY <2>1 DEF LPPosition
    <3>4. lpPositions' = [lpPositions EXCEPT
              ![lp] = [pos EXCEPT !.fundingCredit = pos.fundingCredit,
                                  !.principal = pos.principal + amount]]
        BY <3>1, <3>3, Zenon
    <3> QED
        BY <3>2, <3>4, Zenon
  <2>3. CASE Withdraw(lp, amount)
    <3> DEFINE out == mulDiv(pos.fundingCredit, amount, pos.principal)
    <3>1. /\ pool' = [f EXCEPT !.fundingCredit = @ - out, !.principal = @ - amount]
          /\ lpPositions' = [lpPositions EXCEPT
                 ![lp] = [pos EXCEPT !.fundingCredit = @ - out, !.principal = @ - amount]]
        BY <2>3, Zenon DEF Withdraw
    <3> HIDE DEF f, pos, out
    <3>2. pool' = [f EXCEPT !.fundingCredit = f.fundingCredit - out,
                            !.principal = f.principal - amount]
        BY <1>2, <3>1 DEF Pool
    <3>3. [pos EXCEPT !.fundingCredit = @ - out, !.principal = @ - amount]
            = [pos EXCEPT !.fundingCredit = pos.fundingCredit - out,
                          !.principal = pos.principal - amount]
        BY <2>1 DEF LPPosition
    <3>4. lpPositions' = [lpPositions EXCEPT
              ![lp] = [pos EXCEPT !.fundingCredit = pos.fundingCredit - out,
                                  !.principal = pos.principal - amount]]
        BY <3>1, <3>3, Zenon
    <3> QED
        BY <3>2, <3>4, Zenon
  <2> QED
      BY <2>2, <2>3
<1>6. pool'.status \notin LockedStatuses
  <2>1. pool'.status = f.status
    <3> HIDE DEF f
    <3> QED
        BY <1>2, <1>5 DEF Pool
  <2> QED
      BY <1>4, <2>1 DEF LockedStatuses
<1>7. ~pos.finalized
  <2> DEFINE old == lpPositions[lp]
  <2>1. old \in LPPosition /\ ~old.finalized
      BY <1>1, <1>3
  <2> HIDE DEF old
  <2>2. ~lpCheckpoint(old, f, now).finalized
      BY <2>1 DEF lpCheckpoint, LPPosition
  <2> QED
      BY <2>2 DEF old
<1>8. pos \in LPPosition
  <2>1. lpPositions[lp] \in LPPosition
      BY <1>1
  <2> QED
      BY <1>1, <1>2, <2>1, CheckpointPosition
<1> HIDE DEF f, pos
<1>9. ASSUME NEW l \in LPs
      PROVE  ~lpPositions'[l].finalized
  <2>1. PICK w1, w2 : lpPositions' = [lpPositions EXCEPT
            ![lp] = [pos EXCEPT !.fundingCredit = w1, !.principal = w2]]
      BY <1>5
  <2>2. CASE l = lp
    <3>1. lpPositions'[l] = [pos EXCEPT !.fundingCredit = w1, !.principal = w2]
        BY <1>1, <2>1, <2>2
    <3> QED
        BY <1>7, <1>8, <3>1 DEF LPPosition
  <2>3. CASE l # lp
    <3>1. lpPositions'[l] = lpPositions[l]
        BY <1>1, <2>1, <2>3
    <3> QED
        BY <1>3, <3>1
  <2> QED
      BY <2>2, <2>3
<1> QED
    BY <1>6, <1>9, NoShares, Zenon DEF ShareInv

\* Every step of a pool that is not locked keeps the shares sound.
LEMMA OpenStep ==
    ASSUME FullInv, FullInv', ShareInv, pool.status \notin LockedStatuses, [Next]_vars
    PROVE  ShareInv'
<1>1. \A lp \in LPs : ~lpPositions[lp].finalized
    BY DEF ShareInv, ShareSound, SettledAtLock
<1>2. ASSUME pool'.status = pool.status, lpPositions' = lpPositions
      PROVE  ShareInv'
    BY <1>1, <1>2, NoShares, Zenon DEF ShareInv
<1>3. ~\E lp \in LPs : ClaimYield(lp) \/ ClaimPrincipal(lp)
    BY Zenon DEF ClaimYield, ClaimPrincipal, Claimable, LockedStatuses
<1>4. CASE LpNext
    BY <1>3, <1>4, FundingShares, FinalizeShares DEF LpNext
<1>5. CASE AgentNext
  <2>1. \A ref \in Refs, w \in Receivers, amount \in DrawAmounts, days \in SettlementDays :
            ~ExecuteDrawdown(ref, w, amount, days)
      BY DEF ExecuteDrawdown, LockedStatuses
  <2>2. ~DeclareDefault
      BY DEF DeclareDefault, LockedStatuses
  <2>3. ASSUME NEW b \in BreakerSettings, SetScOverdue(b) \/ SetPaused(b)
        PROVE  ShareInv'
      BY <1>2, <2>3, BreakerTerm
  <2>4. ASSUME NEW w \in ManagedReceivers, AddReceiver(w)
        PROVE  ShareInv'
      BY <1>2, <2>4 DEF AddReceiver
  <2> QED
      BY <1>5, <2>1, <2>2, <2>3, <2>4 DEF AgentNext
<1>6. ~PspNext
    BY DEF PspNext, Repay, PayAccruedIdleFees, LockedStatuses
<1>7. CASE MultisigNext
  <2>1. \A amount \in PayAmounts :
            ~SettleDefaultPrincipal(amount) /\ ~SettleDefaultYield(amount)
      BY DEF SettleDefaultPrincipal, SettleDefaultYield, LockedStatuses
  <2>2. ~SweepProtocolFees
      BY DEF SweepProtocolFees, LockedStatuses
  <2>3. ASSUME NEW w \in ManagedReceivers, RemoveReceiver(w)
        PROVE  ShareInv'
      BY <1>2, <2>3 DEF RemoveReceiver
  <2>4. CASE /\ TreasuryOwner
             /\ UNCHANGED <<now, pool, lpPositions, drawVars, authorizedReceivers, poolBalance>>
      BY <1>2, <2>4
  <2> QED
      BY <1>7, <2>1, <2>2, <2>3, <2>4 DEF MultisigNext
<1>8. CASE Tick \/ UNCHANGED vars
    BY <1>2, <1>8 DEF Tick, vars
<1> QED
    BY <1>4, <1>5, <1>6, <1>7, <1>8 DEF Next

\* A new pool has no shares.
LEMMA InitShares == Init => ShareInv
<1> SUFFICES ASSUME Init PROVE ShareInv
    OBVIOUS
<1>1. pool.status = "Funding" /\ \A lp \in LPs : ~lpPositions[lp].finalized
    BY DEF Init
<1>2. pool.status \notin LockedStatuses
    BY <1>1 DEF LockedStatuses
<1> QED
    BY <1>1, <1>2, NoShares, Zenon DEF ShareInv

\* In every reachable state no LP has claimed more of the coupon than it is due.
THEOREM ShareInvariance == Spec => []ShareInv
<1>1. Init => ShareInv
    BY InitShares
<1>2. FullInv /\ FullInv' /\ ShareInv /\ [Next]_vars => ShareInv'
    BY LockedStep, OpenStep
<1>3. Spec => []FullInv
    BY MoneyInvariance
<1> QED
    BY <1>1, <1>2, <1>3, PTL DEF Spec

-----------------------------------------------------------------------------
(* What the invariant of the shares says *)

\* What the properties call owed is what the LP is due.
LEMMA OwedIsDue ==
    ASSUME NEW L \in [LPs -> LPPosition], NEW p \in Pool, NEW t \in Nat, PoolSound(p, t),
           LpSound(L, p), ShareSound(L, p, t), p.status \in LockedStatuses, NEW lp \in LPs
    PROVE  /\ mulDiv(baseShare(settleLpDollarSeconds(L[lp], p), p, t), p.collectedYield, WAD)
                = Due(L[lp], p, t)
           /\ settleLpDollarSeconds(L[lp], p).claimedYield = L[lp].claimedYield
           /\ L[lp] \in LPPosition /\ Due(L[lp], p, t) \in Nat
           /\ L[lp].claimedYield \in Nat /\ L[lp].claimedYield <= Due(L[lp], p, t)
           /\ Credit(L[lp], p.lastUpdate) \in Nat /\ L[lp].principal \in Nat
<1> DEFINE pos == L[lp]
<1>1. pos \in LPPosition
    OBVIOUS
<1>2. NonNegPosition(pos) /\ pos.lastUpdate <= p.lastUpdate
    BY DEF LpSound, LpEach
<1>3. TermSound(p) /\ SettledAtLock(pos, p) /\ pos.claimedYield <= Due(pos, p, t)
    BY Zenon DEF ShareSound
<1> HIDE DEF pos
<1>4. SameCredit(p, p)
    BY DEF SameCredit
<1>5. mulDiv(baseShare(settleLpDollarSeconds(pos, p), p, t), p.collectedYield, WAD)
        = Due(pos, p, t)
    BY <1>1, <1>2, <1>3, <1>4, SettledShare
<1>6. settleLpDollarSeconds(pos, p).claimedYield = pos.claimedYield
    BY <1>1, <1>2, SettledPosition
<1>7. /\ Due(pos, p, t) \in Nat /\ Credit(pos, p.lastUpdate) \in Nat
      /\ pos.principal \in Nat
    BY <1>1, <1>2, <1>3, DueNat
<1>8. pos.claimedYield \in Nat
    BY <1>1, <1>2, PositionTypes DEF NonNegPosition
<1> QED
    BY <1>1, <1>3, <1>5, <1>6, <1>7, <1>8 DEF pos

\* The same in a reachable state.
LEMMA OwedNow ==
    ASSUME FullInv, ShareInv, pool.status \in LockedStatuses, NEW lp \in LPs
    PROVE  baseOwed(lp) = Due(lpPositions[lp], pool, now)
<1>1. /\ now \in Nat /\ pool \in Pool /\ lpPositions \in [LPs -> LPPosition]
      /\ PoolSound(pool, now) /\ LpSound(lpPositions, pool)
    BY FullTyped
<1>2. ShareSound(lpPositions, pool, now)
    BY Zenon DEF ShareInv
<1>3. mulDiv(baseShare(settleLpDollarSeconds(lpPositions[lp], pool), pool, now),
             pool.collectedYield, WAD) = Due(lpPositions[lp], pool, now)
    BY <1>1, <1>2, OwedIsDue
<1> QED
    BY <1>3, Zenon DEF baseOwed, settled

\* And in the next one.
LEMMA OwedNext ==
    ASSUME FullInv', ShareInv', pool'.status \in LockedStatuses, NEW lp \in LPs
    PROVE  /\ baseOwed(lp)' = Due(lpPositions[lp], pool, now)'
           /\ Due(lpPositions[lp], pool, now)' \in Nat
<1>1. /\ now' \in Nat /\ pool' \in Pool /\ lpPositions' \in [LPs -> LPPosition]
      /\ PoolSound(pool', now') /\ LpSound(lpPositions', pool')
  <2>1. IInv'
      BY DEF FullInv
  <2>2. MoneyInv'
      BY DEF FullInv
  <2> QED
      BY <2>1, <2>2, NextTyped, Zenon DEF MoneyInv
<1>2. ShareSound(lpPositions', pool', now')
    BY Zenon DEF ShareInv
<1>3. /\ mulDiv(baseShare(settleLpDollarSeconds(lpPositions'[lp], pool'), pool', now'),
                pool'.collectedYield, WAD) = Due(lpPositions'[lp], pool', now')
      /\ Due(lpPositions'[lp], pool', now') \in Nat
    BY <1>1, <1>2, OwedIsDue
<1> QED
    BY <1>3, Zenon DEF baseOwed, settled

\* What an LP was paid or could claim of the coupon never shrinks, whatever call is made
\* and whoever makes it: no block, claim, repayment, default or recovery takes any of it.
THEOREM PoolEntitlement == Spec => EntitlementGrows
<1>1. ASSUME FullInv, FullInv', ShareInv, [Next]_vars
      PROVE  pool.status \in Claimable => \A lp \in LPs : baseOwed(lp)' >= baseOwed(lp)
  <2> SUFFICES ASSUME pool.status \in LockedStatuses, NEW lp \in LPs
               PROVE  baseOwed(lp)' >= baseOwed(lp)
      BY DEF Claimable, LockedStatuses
  <2>1. /\ ShareInv' /\ pool'.status \in LockedStatuses
        /\ Due(lpPositions[lp], pool, now) <= Due(lpPositions[lp], pool, now)'
      BY <1>1, LockedStep
  <2>2. baseOwed(lp) = Due(lpPositions[lp], pool, now)
      BY <1>1, OwedNow
  <2>3. baseOwed(lp)' = Due(lpPositions[lp], pool, now)'
      BY <1>1, <2>1, OwedNext
  <2>4. Due(lpPositions[lp], pool, now) \in Nat /\ Due(lpPositions[lp], pool, now)' \in Nat
    <3>1. Due(lpPositions[lp], pool, now) \in Nat
      <4>1. /\ now \in Nat /\ pool \in Pool /\ lpPositions \in [LPs -> LPPosition]
            /\ PoolSound(pool, now) /\ LpSound(lpPositions, pool)
          BY <1>1, FullTyped
      <4>2. ShareSound(lpPositions, pool, now)
          BY <1>1, Zenon DEF ShareInv
      <4> QED
          BY <4>1, <4>2, OwedIsDue
    <3> QED
        BY <1>1, <2>1, <3>1, OwedNext
  <2> QED
      BY <2>1, <2>2, <2>3, <2>4
<1>2. FullInv /\ FullInv' /\ ShareInv /\ [Next]_vars
        => [pool.status \in Claimable => \A lp \in LPs : baseOwed(lp)' >= baseOwed(lp)]_vars
    BY <1>1
<1> QED
    BY <1>2, MoneyInvariance, ShareInvariance, PTL DEF Spec, EntitlementGrows

-----------------------------------------------------------------------------
(* The shares of all LPs *)

\* The final shares, each rounded down, are no more than the whole.
LEMMA SharesWithinWhole ==
    ASSUME NEW L \in [LPs -> LPPosition], NEW p \in Pool, NEW t \in Nat, PoolSound(p, t),
           LpSound(L, p), ShareSound(L, p, t), p.status \in LockedStatuses
    PROVE  LET f == [lp \in LPs |->
                       ShareAt(p, t, Credit(L[lp], p.lastUpdate), L[lp].principal)]
           IN  (\A lp \in LPs : f[lp] \in Nat) /\ SumOf(f, LPs) \in Nat /\ SumOf(f, LPs) <= WAD
<1> DEFINE c(lp) == Credit(L[lp], p.lastUpdate)
           r(lp) == L[lp].principal
           f == [lp \in LPs |-> ShareAt(p, t, c(lp), r(lp))]
           g == [lp \in LPs |-> FinalShare(p, c(lp), r(lp))]
           C == [lp \in LPs |-> c(lp)]
           R == [lp \in LPs |-> r(lp)]
           T == [lp \in LPs |-> r(lp) * p.span]
           A == [lp \in LPs |-> c(lp) + r(lp) * p.span]
           D == p.dollarSeconds
           S == p.span
<1>1. /\ TermSound(p) /\ S \in Nat /\ D \in Nat \ {0} /\ WAD \in Nat \ {0}
      /\ p.fundingCredit \in Nat /\ p.principal \in Nat
      /\ D = p.fundingCredit + p.principal * S
  <2>1. TermSound(p)
      BY DEF ShareSound
  <2> QED
      BY <2>1, TermTypes DEF TermSound
<1>2. ASSUME NEW lp \in LPs PROVE c(lp) \in Nat /\ r(lp) \in Nat
    BY OwedIsDue
<1>3. p.fundingCredit = SumOf(C, LPs) /\ p.principal = SumOf(R, LPs)
    BY Zenon DEF LpSound, LpSums
<1> HIDE DEF c, r, S, D
<1>4. ASSUME NEW lp \in LPs
      PROVE  /\ f[lp] \in Nat /\ g[lp] \in Nat /\ f[lp] <= g[lp]
             /\ C[lp] \in Nat /\ R[lp] \in Nat /\ T[lp] \in Nat /\ A[lp] \in Nat
             /\ T[lp] = R[lp] * S /\ A[lp] = C[lp] + T[lp]
             /\ g[lp] * D <= A[lp] * WAD
  <2> DEFINE k == c(lp) + r(lp) * p.span
  <2>1. c(lp) \in Nat /\ r(lp) \in Nat
      BY <1>2
  <2>2. r(lp) * p.span \in Nat /\ k \in Nat
      BY <1>1, <2>1, MulNat DEF S
  <2>3. /\ ShareAt(p, t, c(lp), r(lp)) \in Nat /\ FinalShare(p, c(lp), r(lp)) \in Nat
        /\ ShareAt(p, t, c(lp), r(lp)) <= FinalShare(p, c(lp), r(lp))
      BY <1>1, <2>1, ShareNat
  <2>4. FinalShare(p, c(lp), r(lp)) = mulDiv(k, WAD, D)
      BY Zenon DEF FinalShare, D
  <2> HIDE DEF k
  <2>5. mulDiv(k, WAD, D) * D <= k * WAD
      BY <1>1, <2>2, ShareBelow
  <2> QED
      BY <2>1, <2>2, <2>3, <2>4, <2>5 DEF S, k
<1> HIDE DEF f, g, C, R, T, A
<1>5. SumOf(T, LPs) = SumOf(R, LPs) * S
    BY <1>1, <1>4, PoolAssumption, SumTimes
<1>6. SumOf(A, LPs) = SumOf(C, LPs) + SumOf(T, LPs)
    BY <1>4, PoolAssumption, SumPlus
<1>7. SumOf(A, LPs) = D
    BY <1>1, <1>3, <1>5, <1>6
<1>8. SumOf(g, LPs) * D <= SumOf(A, LPs) * WAD
    BY <1>1, <1>4, PoolAssumption, SumShares
<1>9. SumOf(f, LPs) <= SumOf(g, LPs)
    BY <1>4, PoolAssumption, SumMonotone
<1>10. SumOf(f, LPs) \in Nat /\ SumOf(g, LPs) \in Nat
    BY <1>4, PoolAssumption, SumNat
<1>11. SumOf(g, LPs) * D <= WAD * D
    BY <1>1, <1>7, <1>8
<1>12. SumOf(g, LPs) <= WAD
    BY <1>1, <1>10, <1>11, MulCancel
<1> QED
    BY <1>1, <1>4, <1>9, <1>10, <1>12 DEF f, c, r

\* What all LPs are due is no more than what was collected.
LEMMA DueWithinCollected ==
    ASSUME NEW L \in [LPs -> LPPosition], NEW p \in Pool, NEW t \in Nat, PoolSound(p, t),
           LpSound(L, p), ShareSound(L, p, t), p.status \in LockedStatuses
    PROVE  SumOf([lp \in LPs |-> Due(L[lp], p, t)], LPs) <= p.collectedYield
<1> DEFINE f == [lp \in LPs |->
                   ShareAt(p, t, Credit(L[lp], p.lastUpdate), L[lp].principal)]
           g == [lp \in LPs |-> Due(L[lp], p, t)]
           Y == p.collectedYield
<1>1. (\A lp \in LPs : f[lp] \in Nat) /\ SumOf(f, LPs) \in Nat /\ SumOf(f, LPs) <= WAD
    BY SharesWithinWhole
<1>2. Y \in Nat /\ WAD \in Nat \ {0}
  <2>1. TermSound(p)
      BY DEF ShareSound
  <2> QED
      BY <2>1, TermTypes
<1>3. ASSUME NEW lp \in LPs PROVE g[lp] \in Nat /\ g[lp] * WAD <= f[lp] * Y
  <2>1. g[lp] = mulDiv(f[lp], Y, WAD)
      BY Zenon DEF Due, Owed
  <2>2. f[lp] \in Nat
      BY <1>1
  <2> HIDE DEF f, g
  <2> QED
      BY <1>2, <2>1, <2>2, ShareBelow
<1> HIDE DEF f, g, Y
<1>4. SumOf(g, LPs) * WAD <= SumOf(f, LPs) * Y
    BY <1>1, <1>2, <1>3, PoolAssumption, SumShares
<1>5. SumOf(f, LPs) * Y <= WAD * Y
    BY <1>1, <1>2, MulMono
<1>6. SumOf(g, LPs) \in Nat
    BY <1>3, PoolAssumption, SumNat
<1>7. SumOf(g, LPs) * WAD <= Y * WAD
  <2>1. SumOf(g, LPs) * WAD \in Int /\ SumOf(f, LPs) * Y \in Int /\ WAD * Y \in Int
      BY <1>1, <1>2, <1>6
  <2>2. WAD * Y = Y * WAD
      BY <1>2
  <2> QED
      BY <1>4, <1>5, <2>1, <2>2
<1> QED
    BY <1>2, <1>6, <1>7, MulCancel DEF g, Y

\* The invariants leave every LP its coupon.
LEMMA FullNoLpStarved == FullInv /\ ShareInv => NoLpStarved
<1> SUFFICES ASSUME FullInv, ShareInv, pool.status \in LockedStatuses
             PROVE  SumOf([lp \in LPs |-> claimableBase(settled(lp), pool, now)], LPs)
                        <= pool.collectedYield - pool.claimedYield
    BY DEF NoLpStarved, Claimable, LockedStatuses
<1> DEFINE f == [lp \in LPs |-> claimableBase(settled(lp), pool, now)]
           g == [lp \in LPs |-> lpPositions[lp].claimedYield]
           h == [lp \in LPs |-> Due(lpPositions[lp], pool, now)]
<1>1. /\ now \in Nat /\ pool \in Pool /\ lpPositions \in [LPs -> LPPosition]
      /\ PoolSound(pool, now) /\ LpSound(lpPositions, pool)
    BY FullTyped
<1>2. ShareSound(lpPositions, pool, now)
    BY Zenon DEF ShareInv
<1>3. SumOf(h, LPs) <= pool.collectedYield
    BY <1>1, <1>2, DueWithinCollected
<1>4. pool.claimedYield = SumOf(g, LPs)
    BY <1>1, Zenon DEF LpSound, LpSums
<1>5. ASSUME NEW lp \in LPs
      PROVE  f[lp] \in Nat /\ g[lp] \in Nat /\ h[lp] = f[lp] + g[lp]
  <2> DEFINE d == Due(lpPositions[lp], pool, now)
             k == lpPositions[lp].claimedYield
             s == settleLpDollarSeconds(lpPositions[lp], pool)
  <2>1. /\ mulDiv(baseShare(s, pool, now), pool.collectedYield, WAD) = d
        /\ s.claimedYield = k /\ d \in Nat /\ k \in Nat /\ k <= d
      BY <1>1, <1>2, OwedIsDue
  <2>2. claimableBase(s, pool, now) = monus(d, k)
      BY <2>1, Zenon DEF claimableBase
  <2>3. f[lp] = monus(d, k) /\ g[lp] = k /\ h[lp] = d
      BY <2>2, Zenon DEF settled
  <2> HIDE DEF d, k, s, f, g, h
  <2>4. monus(d, k) \in Nat /\ d = monus(d, k) + k
      BY <2>1 DEF monus
  <2> QED
      BY <2>1, <2>3, <2>4
<1> HIDE DEF f, g, h
<1>6. SumOf(h, LPs) = SumOf(f, LPs) + SumOf(g, LPs)
    BY <1>5, PoolAssumption, SumPlus
<1>7. SumOf(f, LPs) \in Nat /\ SumOf(g, LPs) \in Nat
    BY <1>5, PoolAssumption, SumNat
<1>8. pool.collectedYield \in Int
    BY <1>1, PoolTypes
<1>9. SumOf(f, LPs) <= pool.collectedYield - pool.claimedYield
    BY <1>3, <1>4, <1>6, <1>7, <1>8
<1> QED
    BY <1>9 DEF f

\* The coupon left in the pool pays every LP what it is still owed, whoever claimed before.
THEOREM PoolNoLpStarved == Spec => []NoLpStarved
BY FullNoLpStarved, MoneyInvariance, ShareInvariance, PTL
=============================================================================
