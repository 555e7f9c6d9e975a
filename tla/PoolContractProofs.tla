------------------------- MODULE PoolContractProofs -------------------------
(***************************************************************************)
(* Theorems about PoolContract, for every value of its constants: its      *)
(* types, its ledger, and that it implements CreditLine.  What its money   *)
(* comes to is in PoolMoneyProofs.                                         *)
(*                                                                         *)
(* A call of the contract is a composition of a few operators on the       *)
(* storage of the pool.  The first part says of each that it keeps the     *)
(* type of the storage, which fields of the ledger it changes, and that it *)
(* keeps three facts about one pool: principal is conserved, idle fees and *)
(* their exemption are sound, and the coupon is covered first.  The proofs *)
(* about calls cite these lemmas and never open an operator again.         *)
(*                                                                         *)
(* In the last part the steps of the credit line are restated as relations *)
(* between two values of the storage, which compose: accruals, the         *)
(* waterfall and claims leave the line alone, so a call makes the step     *)
(* that its one movement of capital makes.                                 *)
(***************************************************************************)
EXTENDS PoolProperties, TLAPS

-----------------------------------------------------------------------------
(* Arithmetic of the library *)

\* Fixed-point multiplication yields an integer when the denominator is not zero.
LEMMA MulDivInt ==
    ASSUME NEW x \in Int, NEW y \in Int, NEW d \in Nat \ {0}
    PROVE  mulDiv(x, y, d) \in Int
BY DEF mulDiv

\* The calendar day of a timestamp is a natural number.
LEMMA DayOfNat ==
    ASSUME NEW t \in Nat
    PROVE  dayOf(t) \in Nat
BY MathLibAssumption DEF dayOf

\* The product of two natural numbers is one.
LEMMA MulNat ==
    ASSUME NEW x \in Nat, NEW y \in Nat
    PROVE  x * y \in Nat
OBVIOUS

\* ... and a natural number when its factors are.
LEMMA MulDivNat ==
    ASSUME NEW x \in Nat, NEW y \in Nat, NEW d \in Nat \ {0}
    PROVE  mulDiv(x, y, d) \in Nat
BY MulNat DEF mulDiv

\* The interest denominators of the contracts are positive.
LEMMA Denominators == WAD \in Nat \ {0} /\ WAD * SECONDS_PER_YEAR \in Nat \ {0}
<1>1. SECONDS_PER_YEAR \in Nat \ {0}
    BY MathLibAssumption DEF SECONDS_PER_YEAR
<1> QED
    BY <1>1, MathLibAssumption

\* The coupon of any dollar-seconds is an integer.
LEMMA CouponInt ==
    ASSUME NEW ds \in Int
    PROVE  coupon(ds) \in Int
BY MulDivInt, Denominators, PoolAssumption DEF coupon

-----------------------------------------------------------------------------
(* The storage of a pool keeps its type under an update of one field *)

\* Writing a status, a timestamp, an amount or a flag to its field keeps the type.
LEMMA StatusUpdate == \A p \in Pool, v \in Statuses : [p EXCEPT !.status = v] \in Pool
BY DEF Pool

\* The same for timestamps and day indexes.
LEMMA NatUpdate ==
    \A p \in Pool, v \in Nat :
        /\ [p EXCEPT !.poolStartTs = v] \in Pool
        /\ [p EXCEPT !.poolFinalityTs = v] \in Pool
        /\ [p EXCEPT !.lastUpdate = v] \in Pool
        /\ [p EXCEPT !.lastOverrunTs = v] \in Pool
        /\ [p EXCEPT !.lastIdleDay = v] \in Pool
        /\ [p EXCEPT !.lastPenaltyDay = v] \in Pool
        /\ [p EXCEPT !.idleExemptUntil = v] \in Pool
BY DEF Pool

\* The same for amounts of principal and of fees.
LEMMA PrincipalUpdate ==
    \A p \in Pool, v \in Int :
        /\ [p EXCEPT !.principal = v] \in Pool
        /\ [p EXCEPT !.availableToDd = v] \in Pool
        /\ [p EXCEPT !.outstanding = v] \in Pool
        /\ [p EXCEPT !.collectedPrincipal = v] \in Pool
        /\ [p EXCEPT !.idleExemptAmount = v] \in Pool
        /\ [p EXCEPT !.accIdleFees = v] \in Pool
        /\ [p EXCEPT !.accPenalty = v] \in Pool
BY DEF Pool

\* The same for the amounts the waterfall fills.
LEMMA YieldUpdate ==
    \A p \in Pool, v \in Int :
        /\ [p EXCEPT !.yieldOwed = v] \in Pool
        /\ [p EXCEPT !.overrunYield = v] \in Pool
        /\ [p EXCEPT !.collectedYield = v] \in Pool
        /\ [p EXCEPT !.collectedOverrunYield = v] \in Pool
        /\ [p EXCEPT !.reservedYield = v] \in Pool
        /\ [p EXCEPT !.protocolFees = v] \in Pool
        /\ [p EXCEPT !.collectedBonus = v] \in Pool
BY DEF Pool

\* The same for the LPs' shares and claims.
LEMMA ShareUpdate ==
    \A p \in Pool, v \in Int :
        /\ [p EXCEPT !.span = v] \in Pool
        /\ [p EXCEPT !.fundingCredit = v] \in Pool
        /\ [p EXCEPT !.dollarSeconds = v] \in Pool
        /\ [p EXCEPT !.claimedPrincipal = v] \in Pool
        /\ [p EXCEPT !.claimedYield = v] \in Pool
        /\ [p EXCEPT !.claimedOverrunYield = v] \in Pool
        /\ [p EXCEPT !.claimedBonus = v] \in Pool
BY DEF Pool

\* The same for the flags.
LEMMA FlagUpdate ==
    \A p \in Pool, v \in BOOLEAN :
        /\ [p EXCEPT !.paused = v] \in Pool
        /\ [p EXCEPT !.scOverdueCheck = v] \in Pool
        /\ [p EXCEPT !.pspReleased = v] \in Pool
BY DEF Pool

\* Arithmetic on the amounts of a pool stays within the integers.
LEMMA PoolTypes ==
    ASSUME NEW p \in Pool
    PROVE  /\ p.status \in Statuses
           /\ {p.fMaturityTs, p.poolStartTs, p.poolFinalityTs, p.lastUpdate, p.lastOverrunTs,
               p.lastIdleDay, p.lastPenaltyDay, p.idleExemptUntil} \subseteq Nat
           /\ {p.span, p.principal, p.availableToDd, p.outstanding, p.fundingCredit,
               p.dollarSeconds, p.yieldOwed, p.overrunYield, p.accIdleFees, p.accPenalty,
               p.collectedPrincipal, p.collectedYield, p.collectedOverrunYield,
               p.reservedYield, p.protocolFees, p.collectedBonus, p.claimedPrincipal,
               p.claimedYield, p.claimedOverrunYield, p.claimedBonus,
               p.idleExemptAmount} \subseteq Int
           /\ {p.paused, p.scOverdueCheck, p.pspReleased} \subseteq BOOLEAN
BY DEF Pool
-----------------------------------------------------------------------------
(* What the operators of a call do to the ledger *)

\* The fields the conservation of principal, and the end of a pool, are about.
SameLedger(p, q) ==
    /\ q.status = p.status
    /\ q.pspReleased = p.pspReleased
    /\ q.poolFinalityTs = p.poolFinalityTs
    /\ q.principal = p.principal
    /\ q.availableToDd = p.availableToDd
    /\ q.outstanding = p.outstanding
    /\ q.collectedPrincipal = p.collectedPrincipal

\* The fields the order of the waterfall is about.
SameCoupon(p, q) ==
    /\ q.yieldOwed = p.yieldOwed
    /\ q.collectedYield = p.collectedYield
    /\ q.reservedYield = p.reservedYield

\* The fields idle fees and their exemption are about.
SameIdle(p, q) ==
    /\ q.idleExemptAmount = p.idleExemptAmount
    /\ q.idleExemptUntil = p.idleExemptUntil
    /\ q.accIdleFees = p.accIdleFees
    /\ q.accPenalty = p.accPenalty

\* No idle fee is negative, and no more capital is exempt from them than is undrawn.
IdleSound(p) ==
    /\ 0 <= p.idleExemptAmount /\ p.idleExemptAmount <= p.availableToDd
    /\ p.idleExemptAmount > 0 <=> p.idleExemptUntil > 0
    /\ 0 <= p.accIdleFees /\ 0 <= p.accPenalty

\* Surplus is set aside only once the coupon is covered.
CouponFirst(p) == p.reservedYield > 0 => p.collectedYield >= p.yieldOwed

\* A pool in default, or closed, has no surplus set aside and nothing to lend any more.
WoundDown(p) ==
    p.status \in {"Default", "Closed"} => p.reservedYield = 0 /\ p.availableToDd = 0

\* Accruals bill days and seconds: they move no principal and no collected yield.
LEMMA CheckpointPool ==
    ASSUME NEW p \in Pool, NEW t \in Nat
    PROVE  /\ globalCheckpoint(p, t) \in Pool
           /\ SameLedger(p, globalCheckpoint(p, t))
           /\ SameCoupon(p, globalCheckpoint(p, t))
           /\ SameIdle(p, globalCheckpoint(p, t))
<1>1. p.fundingCredit + p.principal * (t - p.lastUpdate) \in Int
    BY PoolTypes
<1>2. globalCheckpoint(p, t) \in Pool
    BY <1>1, ShareUpdate, NatUpdate, Zenon DEF globalCheckpoint
<1> QED
    BY <1>2 DEF globalCheckpoint, SameLedger, SameCoupon, SameIdle, Pool

\* The window and the amount of an idle bill are numbers.
LEMMA IdleDays ==
    ASSUME NEW p \in Pool, NEW t \in Nat
    PROVE  /\ idleFrom(p) \in Nat
           /\ idleTo(p, t) \in Nat
           /\ idleDue(p, t) \in Int
<1>1. idleFrom(p) \in Nat /\ idleTo(p, t) \in Nat
    BY DayOfNat, PoolTypes DEF idleFrom, idleTo, least
<1>2. exemptDays(p, t) \in Int
    BY <1>1, DayOfNat, PoolTypes DEF exemptDays, monus, least
<1>3. \A n \in Int : idleFee(n) \in Int
    BY MulDivInt, Denominators, PoolAssumption DEF idleFee
<1> DEFINE days   == monus(idleTo(p, t), idleFrom(p))
           exempt == exemptDays(p, t)
           open   == monus(p.availableToDd, p.idleExemptAmount)
<1>4. days \in Int /\ open \in Int
    BY <1>1, PoolTypes DEF monus
<1>5. open * exempt \in Int /\ p.availableToDd * (days - exempt) \in Int
    BY <1>2, <1>4, PoolTypes
<1>6. idleFee(open * exempt) + idleFee(p.availableToDd * (days - exempt)) \in Int
    BY <1>3, <1>5
<1> QED
    BY <1>1, <1>6 DEF idleDue

\* An idle bill is never negative: its exempt part is at most what is undrawn, and its
\* exempt days are at most the days billed.
LEMMA IdleDueNat ==
    ASSUME NEW p \in Pool, NEW t \in Nat, IdleSound(p)
    PROVE  idleDue(p, t) \in Nat
<1> DEFINE days   == monus(idleTo(p, t), idleFrom(p))
           exempt == exemptDays(p, t)
           open   == monus(p.availableToDd, p.idleExemptAmount)
<1>1. days \in Nat
    BY IdleDays DEF monus
<1>2. exempt \in Nat /\ exempt <= days
    BY IdleDays, DayOfNat, PoolTypes DEF exemptDays, monus, least
<1>3. open \in Nat /\ p.availableToDd \in Nat
    BY PoolTypes DEF monus, IdleSound
<1>4. open * exempt \in Nat
    BY <1>2, <1>3, MulNat
<1>5. p.availableToDd * (days - exempt) \in Nat
  <2> HIDE DEF days, exempt
  <2>1. days - exempt \in Nat
      BY <1>1, <1>2
  <2> QED
      BY <2>1, <1>3, MulNat
<1>6. \A n \in Nat : idleFee(n) \in Nat
    BY MulDivNat, Denominators, PoolAssumption DEF idleFee
<1>7. idleFee(open * exempt) + idleFee(p.availableToDd * (days - exempt)) \in Nat
    BY <1>4, <1>5, <1>6
<1> QED
    BY <1>7 DEF idleDue

\* Billing idle days moves no principal and no yield, and keeps the bill non-negative.
LEMMA BillPool ==
    ASSUME NEW p \in Pool, NEW t \in Nat
    PROVE  /\ billIdleDays(p, t) \in Pool
           /\ SameLedger(p, billIdleDays(p, t))
           /\ SameCoupon(p, billIdleDays(p, t))
           /\ IdleSound(p) => IdleSound(billIdleDays(p, t))
<1>1. p.accIdleFees + idleDue(p, t) \in Int /\ idleTo(p, t) \in Nat
    BY IdleDays, PoolTypes
<1>2. billIdleDays(p, t) \in Pool
    BY <1>1, PrincipalUpdate, NatUpdate, Zenon DEF billIdleDays
<1>3. ASSUME IdleSound(p) PROVE IdleSound(billIdleDays(p, t))
    BY <1>1, <1>3, IdleDueNat DEF billIdleDays, IdleSound, Pool
<1> QED
    BY <1>2, <1>3 DEF billIdleDays, SameLedger, SameCoupon, Pool

\* Dropping a spent exemption moves no principal and no yield.
LEMMA ReleasePool ==
    ASSUME NEW p \in Pool
    PROVE  /\ releaseExemption(p) \in Pool
           /\ SameLedger(p, releaseExemption(p))
           /\ SameCoupon(p, releaseExemption(p))
           /\ IdleSound(p) => IdleSound(releaseExemption(p))
<1>1. 0 \in Int /\ 0 \in Nat
    OBVIOUS
<1>2. releaseExemption(p) \in Pool
    BY <1>1, PrincipalUpdate, NatUpdate, Zenon DEF releaseExemption
<1> QED
    BY <1>2 DEF releaseExemption, IdleSound, SameLedger, SameCoupon, Pool

\* Accruing the late penalty moves no principal and no yield, and only adds to it.
LEMMA PenaltyPool ==
    ASSUME NEW p \in Pool, NEW t \in Nat
    PROVE  /\ accruePenalty(p, t) \in Pool
           /\ SameLedger(p, accruePenalty(p, t))
           /\ SameCoupon(p, accruePenalty(p, t))
           /\ IdleSound(p) => IdleSound(accruePenalty(p, t))
<1>1. penaltyFrom(p) \in Nat
    BY DayOfNat, PoolTypes, PoolAssumption DEF penaltyFrom
<1>2. dayOf(t) \in Nat
    BY DayOfNat
<1>3. p.accIdleFees * (dayOf(t) - penaltyFrom(p)) \in Int
    BY <1>1, <1>2, PoolTypes
<1> DEFINE n == p.accIdleFees * (dayOf(t) - penaltyFrom(p))
           v == p.accPenalty + mulDiv(n, PenaltyRateDaily, WAD)
           q == [p EXCEPT !.accPenalty = v, !.lastPenaltyDay = dayOf(t)]
<1>4. accruePenalty(p, t) = p \/ (accruePenalty(p, t) = q /\ dayOf(t) > penaltyFrom(p))
    BY Zenon DEF accruePenalty
<1>5. v \in Int
  <2> HIDE DEF n
  <2>1. PenaltyRateDaily \in Int
      BY PoolAssumption
  <2>2. mulDiv(n, PenaltyRateDaily, WAD) \in Int
      BY <1>3, <2>1, MulDivInt, Denominators DEF n
  <2> QED
      BY <2>2, PoolTypes
<1> HIDE DEF v
<1>6. q \in Pool
    BY <1>2, <1>5, PrincipalUpdate, NatUpdate, Zenon
<1>9. ASSUME IdleSound(p), dayOf(t) > penaltyFrom(p) PROVE IdleSound(q)
  <2>1. dayOf(t) - penaltyFrom(p) \in Nat /\ p.accIdleFees \in Nat
      BY <1>1, <1>2, <1>9, PoolTypes DEF IdleSound
  <2>2. n \in Nat
      BY <2>1, MulNat
  <2> HIDE DEF n
  <2>3. mulDiv(n, PenaltyRateDaily, WAD) \in Nat
      BY <2>2, MulDivNat, Denominators, PoolAssumption
  <2>4. v \in Nat
      BY <2>3, <1>9, PoolTypes DEF v, IdleSound
  <2> QED
      BY <2>4, <1>9 DEF IdleSound, Pool
<1>7. SameLedger(p, q) /\ SameCoupon(p, q)
    BY DEF SameLedger, SameCoupon, Pool
<1>8. SameLedger(p, p) /\ SameCoupon(p, p)
    BY DEF SameLedger, SameCoupon
<1> HIDE DEF q
<1> QED
    BY <1>4, <1>6, <1>7, <1>8, <1>9

\* _accrueIdleFees as a whole: bill, release, penalty, or nothing.
LEMMA IdleFeesPool ==
    ASSUME NEW p \in Pool, NEW t \in Nat
    PROVE  /\ accrueIdleFees(p, t) \in Pool
           /\ SameLedger(p, accrueIdleFees(p, t))
           /\ SameCoupon(p, accrueIdleFees(p, t))
           /\ IdleSound(p) => IdleSound(accrueIdleFees(p, t))
<1> DEFINE b == billIdleDays(p, t)
           r == releaseExemption(b)
<1>1. b \in Pool /\ SameLedger(p, b) /\ SameCoupon(p, b) /\ (IdleSound(p) => IdleSound(b))
    BY BillPool
<1>2. r \in Pool /\ SameLedger(b, r) /\ SameCoupon(b, r) /\ (IdleSound(b) => IdleSound(r))
    BY <1>1, ReleasePool
<1>3. /\ accruePenalty(r, t) \in Pool
      /\ SameLedger(r, accruePenalty(r, t)) /\ SameCoupon(r, accruePenalty(r, t))
      /\ IdleSound(r) => IdleSound(accruePenalty(r, t))
    BY <1>2, PenaltyPool
<1>4. accrueIdleFees(p, t) = p \/ accrueIdleFees(p, t) = accruePenalty(r, t)
    BY Zenon DEF accrueIdleFees
<1> HIDE DEF b, r
<1> QED
    BY <1>1, <1>2, <1>3, <1>4 DEF SameLedger, SameCoupon

\* Extension yield is owed, and nothing else changes.
LEMMA ExtensionPool ==
    ASSUME NEW p \in Pool, NEW t \in Nat
    PROVE  /\ accrueExtensionYield(p, t) \in Pool
           /\ SameLedger(p, accrueExtensionYield(p, t))
           /\ SameCoupon(p, accrueExtensionYield(p, t))
           /\ SameIdle(p, accrueExtensionYield(p, t))
<1>1. p.outstanding * (t - p.lastOverrunTs) \in Int
    BY PoolTypes
<1>2. p.overrunYield + coupon(p.outstanding * (t - p.lastOverrunTs)) \in Int
    BY <1>1, CouponInt, PoolTypes
<1>3. accrueExtensionYield(p, t) \in Pool
    BY <1>2, YieldUpdate, NatUpdate, Zenon DEF accrueExtensionYield
<1> QED
    BY <1>3 DEF accrueExtensionYield, SameLedger, SameCoupon, SameIdle, Pool

\* The two accruals every mutating call starts with.
LEMMA AccruePool ==
    ASSUME NEW p \in Pool, NEW t \in Nat
    PROVE  /\ accrue(p, t) \in Pool
           /\ SameLedger(p, accrue(p, t))
           /\ SameCoupon(p, accrue(p, t))
           /\ IdleSound(p) => IdleSound(accrue(p, t))
<1> DEFINE i == accrueIdleFees(p, t)
           e == accrueExtensionYield(i, t)
<1>1. i \in Pool /\ SameLedger(p, i) /\ SameCoupon(p, i) /\ (IdleSound(p) => IdleSound(i))
    BY IdleFeesPool
<1>2. e \in Pool /\ SameLedger(i, e) /\ SameCoupon(i, e) /\ SameIdle(i, e)
    BY <1>1, ExtensionPool
<1>3. accrue(p, t) = e
    BY DEF accrue
<1> HIDE DEF i, e
<1> QED
    BY <1>1, <1>2, <1>3 DEF SameLedger, SameCoupon, SameIdle, IdleSound

\* The waterfall fills the coupon before the overrun, and touches no principal.
LEMMA FillPool ==
    ASSUME NEW p \in Pool, NEW amount \in Int
    PROVE  /\ fill(p, amount) \in Pool
           /\ SameLedger(p, fill(p, amount))
           /\ SameIdle(p, fill(p, amount))
           /\ fill(p, amount).yieldOwed = p.yieldOwed
           /\ fill(p, amount).reservedYield = p.reservedYield
           /\ fill(p, amount).collectedYield
                  = p.collectedYield + least(yieldShort(p), amount)
<1> DEFINE toBase    == least(yieldShort(p), amount)
           toOverrun == least(overrunShort(p), amount - toBase)
           base      == p.collectedYield + toBase
           overrun   == p.collectedOverrunYield + toOverrun
           q         == [p EXCEPT !.collectedYield = base, !.collectedOverrunYield = overrun]
<1>1. base \in Int /\ overrun \in Int
    BY PoolTypes DEF yieldShort, overrunShort, monus, least
<1>2. fill(p, amount) = q
    BY DEF fill
<1>3. q \in Pool
  <2> HIDE DEF base, overrun
  <2> QED
    BY <1>1, YieldUpdate, Zenon
<1> HIDE DEF overrun
<1>4. /\ SameLedger(p, q) /\ SameIdle(p, q)
      /\ q.yieldOwed = p.yieldOwed /\ q.reservedYield = p.reservedYield
      /\ q.collectedYield = base
    BY DEF SameLedger, SameIdle, Pool
<1> HIDE DEF q
<1> QED
    BY <1>2, <1>3, <1>4

\* What an allocation leaves over is never negative.
LEMMA SurplusInt ==
    ASSUME NEW p \in Pool, NEW amount \in Int
    PROVE  surplus(p, amount) \in Nat
BY PoolTypes DEF surplus, yieldShort, overrunShort, monus

\* The waterfall moves no principal, and sets surplus aside only behind a covered coupon.
LEMMA AllocatePool ==
    ASSUME NEW p \in Pool, NEW amount \in Nat, NEW t \in Nat
    PROVE  /\ allocate(p, amount, t) \in Pool
           /\ SameLedger(p, allocate(p, amount, t))
           /\ SameIdle(p, allocate(p, amount, t))
           /\ CouponFirst(p) => CouponFirst(allocate(p, amount, t))
<1>1. CASE p.status = "Active" /\ t < p.poolFinalityTs
  <2> DEFINE base == p.collectedYield + least(yieldShort(p), amount)
             kept == p.reservedYield + monus(amount, yieldShort(p))
             q    == [p EXCEPT !.collectedYield = base, !.reservedYield = kept]
  <2>1. allocate(p, amount, t) = q
      BY <1>1 DEF allocate
  <2>2. base \in Int /\ kept \in Int
      BY PoolTypes DEF yieldShort, monus, least
  <2>3. q \in Pool
    <3> HIDE DEF base, kept
    <3> QED
      BY <2>2, YieldUpdate, Zenon
  <2>4. SameLedger(p, q) /\ SameIdle(p, q)
      BY DEF SameLedger, SameIdle, Pool
  <2>5. q.collectedYield = base /\ q.reservedYield = kept /\ q.yieldOwed = p.yieldOwed
      BY DEF Pool
  <2>6. CouponFirst(p) => CouponFirst(q)
    <3> HIDE DEF q
    <3> QED
      BY <2>5, PoolTypes DEF CouponFirst, yieldShort, monus, least
  <2> QED
      BY <2>1, <2>3, <2>4, <2>6
<1>2. CASE ~(p.status = "Active" /\ t < p.poolFinalityTs)
  <2> DEFINE amt  == amount + p.reservedYield
             f    == fill(p, amt)
             fees == f.protocolFees + surplus(p, amt)
             q    == [f EXCEPT !.reservedYield = 0, !.protocolFees = fees]
  <2>1. allocate(p, amount, t) = q
      BY <1>2, Zenon DEF allocate
  <2>2. amt \in Int
      BY PoolTypes
  <2> HIDE DEF amt
  <2>3. f \in Pool /\ SameLedger(p, f) /\ SameIdle(p, f)
      BY <2>2, FillPool
  <2>4. fees \in Int /\ 0 \in Int
      BY <2>2, <2>3, SurplusInt, PoolTypes
  <2> HIDE DEF f, fees
  <2>5. q \in Pool
      BY <2>3, <2>4, YieldUpdate, Zenon
  <2>6. SameLedger(f, q) /\ SameIdle(f, q) /\ CouponFirst(q)
      BY <2>3 DEF SameLedger, SameIdle, CouponFirst, Pool
  <2> HIDE DEF q
  <2> QED
      BY <2>1, <2>3, <2>5, <2>6 DEF SameLedger, SameIdle
<1> QED
    BY <1>1, <1>2

\* Undrawn, lent and collected principal add up to what the LPs put in.
Conserved(p) == p.availableToDd + p.outstanding + p.collectedPrincipal = p.principal

\* Maturity moves undrawn principal to collected principal; closing then only splits the
\* surplus.
LEMMA UndrawnPool ==
    ASSUME NEW p \in Pool
    PROVE  /\ collectUndrawn(p) \in Pool
           /\ collectUndrawn(p).status = p.status
           /\ collectUndrawn(p).principal = p.principal
           /\ collectUndrawn(p).pspReleased = p.pspReleased
           /\ collectUndrawn(p).availableToDd = 0
           /\ collectUndrawn(p).outstanding = p.outstanding
           /\ collectUndrawn(p).collectedPrincipal = p.collectedPrincipal + p.availableToDd
           /\ SameCoupon(p, collectUndrawn(p))
           /\ Conserved(p) => Conserved(collectUndrawn(p))
           /\ IdleSound(p) => IdleSound(collectUndrawn(p))
<1>1. p.collectedPrincipal + p.availableToDd \in Int /\ 0 \in Int /\ 0 \in Nat
    BY PoolTypes
<1>2. collectUndrawn(p) \in Pool
    BY <1>1, PrincipalUpdate, NatUpdate, Zenon DEF collectUndrawn
<1>3. /\ collectUndrawn(p).status = p.status
      /\ collectUndrawn(p).principal = p.principal
      /\ collectUndrawn(p).pspReleased = p.pspReleased
      /\ collectUndrawn(p).availableToDd = 0
      /\ collectUndrawn(p).outstanding = p.outstanding
      /\ collectUndrawn(p).collectedPrincipal = p.collectedPrincipal + p.availableToDd
      /\ SameCoupon(p, collectUndrawn(p))
    BY DEF collectUndrawn, SameCoupon, Pool
<1>4. Conserved(p) => Conserved(collectUndrawn(p))
    BY DEF collectUndrawn, Conserved, Pool
<1>5. IdleSound(p) => IdleSound(collectUndrawn(p))
    BY DEF collectUndrawn, IdleSound, Pool
<1> QED
    BY <1>2, <1>3, <1>4, <1>5

\* The reserve's part of a surplus is an integer.
LEMMA TopUpInt ==
    ASSUME NEW p \in Pool, NEW tr \in TreasuryState
    PROVE  terminalTopUp(p, tr) \in Int
<1>1. /\ tr.risk.reserveRate \in Int /\ tr.risk.reserveTarget \in Int
      /\ tr.reserveBalance \in Int
    BY TreasuryAssumption DEF TreasuryState
<1>2. p.protocolFees + p.reservedYield \in Int
    BY PoolTypes
<1>3. mulDiv(p.protocolFees + p.reservedYield, tr.risk.reserveRate, WAD) \in Int
    BY <1>1, <1>2, MulDivInt, Denominators
<1> QED
    BY <1>1, <1>3 DEF terminalTopUp, reserveShortfallToTarget, least, monus

\* The terminal split empties the surplus that was set aside and moves no principal.
LEMMA SplitPool ==
    ASSUME NEW p \in Pool, NEW tr \in TreasuryState
    PROVE  /\ settleTerminalSplit(p, tr) \in Pool
           /\ SameLedger(p, settleTerminalSplit(p, tr))
           /\ SameIdle(p, settleTerminalSplit(p, tr))
           /\ settleTerminalSplit(p, tr).reservedYield = 0
<1> DEFINE residual == p.protocolFees + p.reservedYield - terminalTopUp(p, tr)
           hurdle   == mulDiv(tr.risk.protocolHurdleFrac, p.yieldOwed + p.overrunYield, WAD)
           lpBonus  == mulDiv(tr.risk.lpBonusShare, monus(residual, hurdle), WAD)
           fees     == residual - lpBonus
           q        == [p EXCEPT !.reservedYield = 0, !.collectedBonus = lpBonus,
                                 !.protocolFees = fees]
<1>1. settleTerminalSplit(p, tr) = q
    BY DEF settleTerminalSplit
<1>2. tr.risk.protocolHurdleFrac \in Int /\ tr.risk.lpBonusShare \in Int
    BY TreasuryAssumption DEF TreasuryState
<1>3. residual \in Int
    BY TopUpInt, PoolTypes
<1>4. hurdle \in Int
  <2>1. p.yieldOwed + p.overrunYield \in Int
      BY PoolTypes
  <2> QED
      BY <2>1, <1>2, MulDivInt, Denominators
<1> HIDE DEF residual, hurdle
<1>5. lpBonus \in Int
  <2>1. monus(residual, hurdle) \in Int
      BY <1>3, <1>4 DEF monus
  <2> QED
      BY <2>1, <1>2, MulDivInt, Denominators
<1> HIDE DEF lpBonus
<1>6. fees \in Int /\ 0 \in Int
    BY <1>3, <1>5
<1> HIDE DEF fees
<1>7. q \in Pool
    BY <1>5, <1>6, YieldUpdate, Zenon
<1>8. SameLedger(p, q) /\ SameIdle(p, q) /\ q.reservedYield = 0
    BY DEF SameLedger, SameIdle, Pool
<1> HIDE DEF q
<1> QED
    BY <1>1, <1>7, <1>8

\* Closing a pool writes its status and the flag that frees the PSP.
LEMMA ClosePool ==
    ASSUME NEW p \in Pool, NEW s \in Statuses
    PROVE  LET q == releasePsp([p EXCEPT !.status = s])
           IN  /\ q \in Pool
               /\ q.status = s
               /\ q.pspReleased
               /\ q.principal = p.principal
               /\ SameCoupon(p, q) /\ SameIdle(p, q)
               /\ q.availableToDd = p.availableToDd
               /\ q.outstanding = p.outstanding
               /\ q.collectedPrincipal = p.collectedPrincipal
<1> DEFINE q == releasePsp([p EXCEPT !.status = s])
<1>1. q \in Pool
    BY StatusUpdate, FlagUpdate, Zenon DEF releasePsp
<1>2. /\ q.status = s
      /\ q.pspReleased
      /\ q.principal = p.principal
      /\ SameCoupon(p, q) /\ SameIdle(p, q)
      /\ q.availableToDd = p.availableToDd
      /\ q.outstanding = p.outstanding
      /\ q.collectedPrincipal = p.collectedPrincipal
    BY DEF releasePsp, SameCoupon, SameIdle, Pool
<1> QED
    BY <1>1, <1>2

\* _mature leaves a pool as it was, matures it, or closes it: principal is conserved, idle
\* fees stay sound and the coupon stays first.
LEMMA MaturePool ==
    ASSUME NEW p \in Pool, NEW tr \in TreasuryState, NEW t \in Nat
    PROVE  /\ mature(p, tr, t) \in Pool
           /\ mature(p, tr, t).principal = p.principal
           /\ \/ mature(p, tr, t).status = p.status
              \/ p.status = "Active" /\ mature(p, tr, t).status = "Closed"
           /\ Conserved(p) => Conserved(mature(p, tr, t))
           /\ IdleSound(p) => IdleSound(mature(p, tr, t))
           /\ CouponFirst(p) => CouponFirst(mature(p, tr, t))
           /\ WoundDown(p) => WoundDown(mature(p, tr, t))
<1> DEFINE u == collectUndrawn(p)
           c == [u EXCEPT !.status = "Closed"]
           s == settleTerminalSplit(c, tr)
           q == releasePsp(s)
<1>1. /\ u \in Pool /\ u.status = p.status /\ u.principal = p.principal
      /\ u.availableToDd = 0 /\ SameCoupon(p, u)
      /\ Conserved(p) => Conserved(u)
      /\ IdleSound(p) => IdleSound(u)
    BY UndrawnPool
<1>2. CASE closes(p, t)
  <2>1. mature(p, tr, t) = q /\ p.status = "Active"
      BY <1>2, Zenon DEF mature, closes, matures
  <2> HIDE DEF u
  <2>2. c \in Pool
      BY <1>1, StatusUpdate, Zenon DEF Statuses
  <2>3. /\ c.principal = u.principal /\ c.status = "Closed" /\ c.availableToDd = 0
        /\ Conserved(u) => Conserved(c)
        /\ IdleSound(u) => IdleSound(c)
      BY <1>1 DEF Conserved, IdleSound, Pool
  <2> HIDE DEF c
  <2>4. s \in Pool /\ SameLedger(c, s) /\ SameIdle(c, s) /\ s.reservedYield = 0
      BY <2>2, SplitPool
  <2> HIDE DEF s
  <2>5. q \in Pool
      BY <2>4, FlagUpdate, Zenon DEF releasePsp
  <2>6. /\ q.status = s.status /\ q.principal = s.principal
        /\ q.availableToDd = s.availableToDd
        /\ q.outstanding = s.outstanding
        /\ q.collectedPrincipal = s.collectedPrincipal
        /\ SameIdle(s, q) /\ q.reservedYield = 0
      BY <2>4 DEF releasePsp, SameIdle, Pool
  <2> HIDE DEF q
  <2>7. q.principal = p.principal /\ q.status = "Closed" /\ CouponFirst(q) /\ WoundDown(q)
      BY <1>1, <2>3, <2>4, <2>6 DEF SameLedger, CouponFirst, WoundDown
  <2>8. Conserved(p) => Conserved(q)
      BY <1>1, <2>3, <2>4, <2>6 DEF SameLedger, Conserved
  <2>9. IdleSound(p) => IdleSound(q)
      BY <1>1, <2>3, <2>4, <2>6 DEF SameLedger, SameIdle, IdleSound
  <2> QED
      BY <2>1, <2>5, <2>7, <2>8, <2>9
<1>3. CASE ~closes(p, t)
  <2>1. mature(p, tr, t) = u \/ mature(p, tr, t) = p
      BY <1>3, Zenon DEF mature
  <2> HIDE DEF u
  <2> QED
      BY <1>1, <2>1 DEF SameCoupon, CouponFirst, WoundDown
<1> QED
    BY <1>2, <1>3

\* A default ends by closing the pool, without touching its books.
LEMMA ResolvePool ==
    ASSUME NEW p \in Pool, p.status = "Default"
    PROVE  /\ resolveDefaultIfWhole(p) \in Pool
           /\ resolveDefaultIfWhole(p).status \in {"Default", "Closed"}
           /\ resolveDefaultIfWhole(p).principal = p.principal
           /\ Conserved(p) => Conserved(resolveDefaultIfWhole(p))
           /\ IdleSound(p) => IdleSound(resolveDefaultIfWhole(p))
           /\ CouponFirst(p) => CouponFirst(resolveDefaultIfWhole(p))
           /\ WoundDown(p) => WoundDown(resolveDefaultIfWhole(p))
<1> DEFINE q == releasePsp([p EXCEPT !.status = "Closed"])
<1>1. resolveDefaultIfWhole(p) = q \/ resolveDefaultIfWhole(p) = p
    BY Zenon DEF resolveDefaultIfWhole
<1>2. /\ q \in Pool /\ q.status = "Closed" /\ q.principal = p.principal
      /\ SameCoupon(p, q) /\ SameIdle(p, q)
      /\ q.availableToDd = p.availableToDd
      /\ q.outstanding = p.outstanding
      /\ q.collectedPrincipal = p.collectedPrincipal
    BY ClosePool DEF Statuses
<1> HIDE DEF q
<1> QED
    BY <1>1, <1>2 DEF Conserved, IdleSound, CouponFirst, WoundDown, SameCoupon, SameIdle

\* The rescue of a defaulting pool spends its whole surplus, on the principal last.
LEMMA RescuePool ==
    ASSUME NEW p \in Pool
    PROVE  /\ rescue(p) \in Pool
           /\ rescue(p).status = p.status
           /\ rescue(p).pspReleased = p.pspReleased
           /\ rescue(p).principal = p.principal
           /\ rescue(p).availableToDd = p.availableToDd
           /\ Conserved(p) => Conserved(rescue(p))
           /\ IdleSound(p) => IdleSound(rescue(p))
           /\ CouponFirst(rescue(p))
           /\ rescue(p).reservedYield = 0
<1> DEFINE amt  == p.reservedYield + p.protocolFees
           f    == fill(p, amt)
           rest == surplus(p, amt)
           toPrincipal == least(p.outstanding, rest)
           fees == rest - toPrincipal
           coll == f.collectedPrincipal + toPrincipal
           out  == f.outstanding - toPrincipal
           q    == [f EXCEPT !.reservedYield = 0, !.protocolFees = fees,
                             !.collectedPrincipal = coll, !.outstanding = out]
<1>1. rescue(p) = q
    BY Zenon DEF rescue
<1>2. amt \in Int
    BY PoolTypes
<1> HIDE DEF amt
<1>3. f \in Pool /\ SameLedger(p, f) /\ SameIdle(p, f)
    BY <1>2, FillPool
<1>4. toPrincipal \in Int /\ fees \in Int
    BY <1>2, SurplusInt, PoolTypes DEF least
<1> HIDE DEF f, toPrincipal, fees
<1>5. coll \in Int /\ out \in Int /\ 0 \in Int
    BY <1>3, <1>4, PoolTypes
<1>6. q \in Pool
  <2> HIDE DEF coll, out
  <2> QED
      BY <1>3, <1>4, <1>5, YieldUpdate, PrincipalUpdate, Zenon
<1>7. /\ q.status = f.status /\ q.principal = f.principal
      /\ q.pspReleased = f.pspReleased
      /\ q.availableToDd = f.availableToDd
      /\ q.collectedPrincipal = coll /\ q.outstanding = out
      /\ SameIdle(f, q) /\ q.reservedYield = 0
    BY <1>3 DEF SameIdle, Pool
<1> HIDE DEF q
<1>8. Conserved(p) => Conserved(q)
    BY <1>3, <1>4, <1>7, PoolTypes DEF Conserved, SameLedger
<1>9. IdleSound(p) => IdleSound(q)
    BY <1>3, <1>7 DEF IdleSound, SameLedger, SameIdle
<1> QED
    BY <1>1, <1>3, <1>6, <1>7, <1>8, <1>9 DEF SameLedger, CouponFirst

\* The rebase of the coupon at a default moves no principal.
LEMMA RebasePool ==
    ASSUME NEW p \in Pool, NEW t \in Nat
    PROVE  /\ rebaseCoupon(p, t) \in Pool
           /\ SameLedger(p, rebaseCoupon(p, t))
           /\ SameIdle(p, rebaseCoupon(p, t))
<1> DEFINE elapsed == t - p.poolStartTs
           ds      == p.fundingCredit + p.principal * elapsed
           owed    == coupon(ds)
           q       == [p EXCEPT !.span = elapsed, !.dollarSeconds = ds, !.yieldOwed = owed]
           r       == [p EXCEPT !.yieldOwed = p.collectedYield]
<1>1. rebaseCoupon(p, t) = p \/ rebaseCoupon(p, t) = q \/ rebaseCoupon(p, t) = r
    BY Zenon DEF rebaseCoupon
<1>2. elapsed \in Int /\ ds \in Int
    BY PoolTypes
<1> HIDE DEF elapsed, ds
<1>3. owed \in Int /\ p.collectedYield \in Int
    BY <1>2, CouponInt, PoolTypes
<1> HIDE DEF owed
<1>4. q \in Pool
    BY <1>2, <1>3, ShareUpdate, YieldUpdate, Zenon
<1>5. r \in Pool
    BY <1>3, YieldUpdate, Zenon
<1>6. /\ SameLedger(p, p) /\ SameIdle(p, p)
      /\ SameLedger(p, q) /\ SameIdle(p, q)
      /\ SameLedger(p, r) /\ SameIdle(p, r)
    BY DEF SameLedger, SameIdle, Pool
<1> HIDE DEF q, r
<1> QED
    BY <1>1, <1>4, <1>5, <1>6

\* Repaid principal becomes redrawable before finality and collected after it.
LEMMA ReturnPool ==
    ASSUME NEW p \in Pool, NEW amount \in Nat \ {0}, NEW t \in Nat
    PROVE  /\ returnPrincipal(p, amount, t) \in Pool
           /\ returnPrincipal(p, amount, t).status = p.status
           /\ returnPrincipal(p, amount, t).principal = p.principal
           /\ SameCoupon(p, returnPrincipal(p, amount, t))
           /\ Conserved(p) => Conserved(returnPrincipal(p, amount, t))
           /\ IdleSound(p) => IdleSound(returnPrincipal(p, amount, t))
<1> DEFINE avail  == p.availableToDd + amount
           out    == p.outstanding - amount
           exempt == p.idleExemptAmount + amount
           until  == (dayOf(t) + 1) * SECONDS_PER_DAY
           coll   == p.collectedPrincipal + amount
           q      == [p EXCEPT !.availableToDd = avail, !.outstanding = out,
                               !.idleExemptAmount = exempt, !.idleExemptUntil = until]
           r      == [p EXCEPT !.collectedPrincipal = coll, !.outstanding = out]
<1>1. returnPrincipal(p, amount, t) = q \/ returnPrincipal(p, amount, t) = r
    BY Zenon DEF returnPrincipal
<1>2. avail \in Int /\ out \in Int /\ exempt \in Int /\ coll \in Int
    BY PoolTypes
<1>3. until \in Nat /\ until > 0
  <2>1. dayOf(t) + 1 \in Nat \ {0} /\ SECONDS_PER_DAY \in Nat \ {0}
      BY DayOfNat, MathLibAssumption
  <2> HIDE DEF avail, out, exempt, coll
  <2>2. \A x, y \in Nat \ {0} : x * y \in Nat \ {0}
      BY Z3
  <2> QED
      BY <2>1, <2>2
<1> HIDE DEF until
<1>4. q \in Pool /\ r \in Pool
  <2> HIDE DEF avail, out, exempt, coll
  <2>1. q \in Pool
      BY <1>2, <1>3, PrincipalUpdate, NatUpdate, Zenon
  <2>2. r \in Pool
      BY <1>2, PrincipalUpdate, Zenon
  <2> QED
      BY <2>1, <2>2
<1>5. /\ q.status = p.status /\ q.principal = p.principal /\ SameCoupon(p, q)
      /\ r.status = p.status /\ r.principal = p.principal /\ SameCoupon(p, r)
    BY DEF SameCoupon, Pool
<1>6. Conserved(p) => Conserved(q) /\ Conserved(r)
    BY DEF Conserved, Pool
<1>7. IdleSound(p) => IdleSound(q) /\ IdleSound(r)
    BY <1>3 DEF IdleSound, Pool
<1> HIDE DEF q, r
<1> QED
    BY <1>1, <1>4, <1>5, <1>6, <1>7

-----------------------------------------------------------------------------
(* The lock *)

LockedStatuses == {"Active", "Closed", "Default"}

\* Before the lock there is nothing to lend, to collect or to bill.
Unlent(p) ==
    /\ p.availableToDd = 0 /\ p.outstanding = 0 /\ p.collectedPrincipal = 0
    /\ p.reservedYield = 0
    /\ p.idleExemptAmount = 0 /\ p.idleExemptUntil = 0
    /\ p.accIdleFees = 0 /\ p.accPenalty = 0

\* The inductive invariant of the pool's ledger.
LedgerInv(p) ==
    /\ p.status \in LockedStatuses => Conserved(p)
    /\ p.status \notin LockedStatuses => Unlent(p)
    /\ IdleSound(p)
    /\ CouponFirst(p)
    /\ WoundDown(p)

\* _lock makes every deposit available and none lent.
LEMMA LockPool ==
    ASSUME NEW p \in Pool, NEW t \in Nat
    PROVE  /\ lock(p, t) \in Pool
           /\ lock(p, t).status = "Active"
           /\ lock(p, t).principal = p.principal
           /\ lock(p, t).availableToDd = p.principal
           /\ lock(p, t).outstanding = p.outstanding
           /\ lock(p, t).collectedPrincipal = p.collectedPrincipal
           /\ lock(p, t).pspReleased = p.pspReleased
           /\ Unlent(p) /\ p.principal >= 0 => LedgerInv(lock(p, t))
<1> DEFINE secs     == Tenure * SECONDS_PER_DAY
           finality == p.fMaturityTs + secs
           ds       == p.fundingCredit + p.principal * secs
           owed     == coupon(ds)
           day      == dayOf(t)
           penalty  == dayOf(finality) + PenaltyGraceDays
           q        == [p EXCEPT !.status         = "Active",
                                 !.poolStartTs    = t,
                                 !.span           = secs,
                                 !.poolFinalityTs = finality,
                                 !.dollarSeconds  = ds,
                                 !.yieldOwed      = owed,
                                 !.availableToDd  = p.principal,
                                 !.lastUpdate     = t,
                                 !.lastOverrunTs  = finality,
                                 !.lastIdleDay    = day,
                                 !.lastPenaltyDay = penalty]
<1>1. lock(p, t) = q
    BY Zenon DEF lock
<1>2. secs \in Nat /\ secs \in Int
    BY MulNat, PoolAssumption, MathLibAssumption
<1> HIDE DEF secs
<1>3. finality \in Nat /\ ds \in Int
    BY <1>2, PoolTypes
<1> HIDE DEF finality, ds
<1>4. owed \in Int /\ day \in Nat /\ penalty \in Nat /\ p.principal \in Int
    BY <1>3, CouponInt, DayOfNat, PoolTypes, PoolAssumption
<1> HIDE DEF owed, day, penalty
<1>5. q \in Pool
  <2>1. "Active" \in Statuses
      BY DEF Statuses
  <2> QED
      BY <1>2, <1>3, <1>4, <2>1, StatusUpdate, NatUpdate, PrincipalUpdate, ShareUpdate,
         YieldUpdate, ZenonT(60)
<1>6. /\ q.status = "Active" /\ q.principal = p.principal
      /\ q.availableToDd = p.principal /\ q.pspReleased = p.pspReleased
      /\ q.outstanding = p.outstanding
      /\ q.collectedPrincipal = p.collectedPrincipal
      /\ q.reservedYield = p.reservedYield
      /\ SameIdle(p, q)
    BY DEF SameIdle, Pool
<1> HIDE DEF q
<1>7. Unlent(p) /\ p.principal >= 0 => LedgerInv(q)
    BY <1>4, <1>6
    DEF Unlent, LedgerInv, LockedStatuses, Conserved, IdleSound, CouponFirst, WoundDown,
        SameIdle
<1> QED
    BY <1>1, <1>5, <1>6, <1>7

\* _triggerFinalizeFunding fails, locks or leaves the pool, and keeps its ledger.
LEMMA FinalizePool ==
    ASSUME NEW p \in Pool, NEW t \in Nat
    PROVE  /\ triggerFinalizeFunding(p, t) \in Pool
           /\ LedgerInv(p) => LedgerInv(triggerFinalizeFunding(p, t))
<1> DEFINE g == globalCheckpoint(p, t)
           u == releasePsp([g EXCEPT !.status = "Unsuccessful"])
<1>1. g \in Pool /\ SameLedger(p, g) /\ SameCoupon(p, g) /\ SameIdle(p, g)
    BY CheckpointPool
<1>2. u \in Pool /\ u.status = "Unsuccessful" /\ SameCoupon(g, u) /\ SameIdle(g, u)
      /\ u.availableToDd = g.availableToDd
      /\ u.outstanding = g.outstanding
      /\ u.collectedPrincipal = g.collectedPrincipal
    BY <1>1, ClosePool DEF Statuses
<1>3. \/ triggerFinalizeFunding(p, t) = p
      \/ p.status = "Funding" /\ g.principal >= SoftCap
         /\ triggerFinalizeFunding(p, t) = lock(g, t)
      \/ p.status = "Funding" /\ triggerFinalizeFunding(p, t) = u
    BY Zenon DEF triggerFinalizeFunding, finalizeFunding
<1> HIDE DEF g, u
<1>4. lock(g, t) \in Pool /\ (Unlent(g) /\ g.principal >= 0 => LedgerInv(lock(g, t)))
    BY <1>1, LockPool
<1>5. ASSUME LedgerInv(p), p.status = "Funding"
      PROVE  Unlent(g) /\ LedgerInv(u)
    BY <1>1, <1>2, <1>5
    DEF LedgerInv, LockedStatuses, Unlent, SameLedger, SameCoupon, SameIdle, IdleSound,
        CouponFirst, WoundDown
<1>6. g.principal >= SoftCap => g.principal >= 0
    BY <1>1, PoolTypes, PoolAssumption
<1> QED
    BY <1>1, <1>2, <1>3, <1>4, <1>5, <1>6

-----------------------------------------------------------------------------
(* The array of live references *)

\* The array s and its index I agree.
Indexed(s, I) ==
    /\ \A i \in DOMAIN s : I[s[i]] = i
    /\ \A ref \in Refs : I[ref] # 0 => I[ref] \in DOMAIN s /\ s[I[ref]] = ref

\* A pushed reference is indexed by its position.
LEMMA PushIndexed ==
    ASSUME NEW s \in Seq(Refs), NEW I \in [Refs -> Nat], Indexed(s, I),
           NEW ref \in Refs, I[ref] = 0
    PROVE  LET s2 == Append(s, ref)
               I2 == [I EXCEPT ![ref] = Len(s) + 1]
           IN  /\ s2 \in Seq(Refs) /\ I2 \in [Refs -> Nat]
               /\ Indexed(s2, I2)
               /\ \A r \in Refs : I2[r] # 0 <=> I[r] # 0 \/ r = ref
<1> DEFINE s2 == Append(s, ref)
           I2 == [I EXCEPT ![ref] = Len(s) + 1]
<1>1. /\ Len(s) \in Nat /\ DOMAIN s = 1..Len(s)
      /\ s2 \in Seq(Refs) /\ DOMAIN s2 = 1..(Len(s) + 1)
      /\ s2[Len(s) + 1] = ref
      /\ \A i \in 1..Len(s) : s2[i] = s[i] /\ s[i] \in Refs
    OBVIOUS
<1>2. I2 \in [Refs -> Nat] /\ I2[ref] = Len(s) + 1 /\ \A r \in Refs \ {ref} : I2[r] = I[r]
    BY <1>1
<1>3. \A i \in 1..Len(s) : s[i] # ref
    BY <1>1 DEF Indexed
<1> HIDE DEF s2, I2
<1>4. \A i \in DOMAIN s2 : I2[s2[i]] = i
  <2> SUFFICES ASSUME NEW i \in 1..(Len(s) + 1) PROVE I2[s2[i]] = i
      BY <1>1
  <2>1. CASE i = Len(s) + 1
      BY <2>1, <1>1, <1>2
  <2>2. CASE i \in 1..Len(s)
    <3>1. s2[i] = s[i] /\ s[i] \in Refs \ {ref}
        BY <2>2, <1>1, <1>3
    <3>2. I[s[i]] = i
        BY <2>2, <1>1 DEF Indexed
    <3> QED
        BY <3>1, <3>2, <1>2
  <2> QED
      BY <2>1, <2>2, <1>1
<1>5. \A r \in Refs : I2[r] # 0 => I2[r] \in DOMAIN s2 /\ s2[I2[r]] = r
  <2> SUFFICES ASSUME NEW r \in Refs, I2[r] # 0
               PROVE  I2[r] \in 1..(Len(s) + 1) /\ s2[I2[r]] = r
      BY <1>1
  <2>1. CASE r = ref
      BY <2>1, <1>1, <1>2
  <2>2. CASE r # ref
      BY <2>2, <1>1, <1>2 DEF Indexed
  <2> QED
      BY <2>1, <2>2
<1>6. \A r \in Refs : I2[r] # 0 <=> I[r] # 0 \/ r = ref
    BY <1>1, <1>2
<1>7. Indexed(s2, I2)
    BY <1>4, <1>5 DEF Indexed
<1> QED
    BY <1>1, <1>2, <1>6, <1>7 DEF s2, I2

\* Swap-and-pop removes exactly the given reference, wherever it stands in the array.
LEMMA SwapAndPop ==
    ASSUME NEW s \in Seq(Refs), NEW I \in [Refs -> Nat], Indexed(s, I),
           NEW ref \in Refs, I[ref] # 0
    PROVE  LET last == Len(s)
               s2   == SubSeq([s EXCEPT ![I[ref]] = s[last]], 1, last - 1)
               I2   == [I EXCEPT ![s[last]] = I[ref], ![ref] = 0]
           IN  /\ s2 \in Seq(Refs) /\ I2 \in [Refs -> Nat]
               /\ Indexed(s2, I2)
               /\ \A r \in Refs : I2[r] # 0 <=> I[r] # 0 /\ r # ref
<1> DEFINE last == Len(s)
           idx  == I[ref]
           t    == [s EXCEPT ![idx] = s[last]]
           s2   == SubSeq(t, 1, last - 1)
           I1   == [I EXCEPT ![s[last]] = idx]
           I2   == [I1 EXCEPT ![ref] = 0]
<1>1. last \in Nat \ {0} /\ idx \in 1..last /\ s[idx] = ref /\ DOMAIN s = 1..last
    BY DEF Indexed
<1>2. s[last] \in Refs
    BY <1>1
<1>3. t \in Seq(Refs) /\ Len(t) = last /\ t[idx] = s[last]
      /\ \A i \in 1..last : i # idx => t[i] = s[i]
    BY <1>1, <1>2
<1>4. /\ s2 \in Seq(Refs) /\ Len(s2) = last - 1 /\ DOMAIN s2 = 1..(last - 1)
      /\ \A i \in 1..(last - 1) : s2[i] = t[i]
  <2> HIDE DEF t, last
  <2> QED
      BY <1>1, <1>3
<1>5. /\ I2 \in [Refs -> Nat] /\ I2[ref] = 0
      /\ s[last] # ref => I2[s[last]] = idx
      /\ \A r \in Refs \ {ref, s[last]} : I2[r] = I[r]
    BY <1>1, <1>2
<1>6. \A i \in 1..last : s[i] \in Refs /\ I[s[i]] = i
    BY <1>1 DEF Indexed
<1>7. \A r \in Refs : I[r] # 0 => I[r] \in 1..last /\ s[I[r]] = r
    BY <1>1 DEF Indexed
<1> HIDE DEF last, idx, t, s2, I1, I2
<1>8. \A i \in DOMAIN s2 : I2[s2[i]] = i
  <2> SUFFICES ASSUME NEW i \in 1..(last - 1) PROVE I2[s2[i]] = i
      BY <1>4
  <2>1. CASE i = idx
      BY <2>1, <1>1, <1>3, <1>4, <1>5, <1>6
  <2>2. CASE i # idx
    <3>1. s2[i] = s[i] /\ I[s[i]] = i /\ s[i] \in Refs
        BY <2>2, <1>1, <1>3, <1>4, <1>6
    <3>2. s[i] # ref /\ s[i] # s[last]
        BY <3>1, <2>2, <1>1, <1>6 DEF idx
    <3> QED
        BY <3>1, <3>2, <1>5
  <2> QED
      BY <2>1, <2>2
<1>9. \A r \in Refs : I2[r] # 0 => I2[r] \in DOMAIN s2 /\ s2[I2[r]] = r
  <2> SUFFICES ASSUME NEW r \in Refs, I2[r] # 0 PROVE I2[r] \in 1..(last - 1) /\ s2[I2[r]] = r
      BY <1>4
  <2>1. r # ref
      BY <1>5
  <2>2. CASE r = s[last]
    <3>1. I2[r] = idx /\ idx # last
        BY <2>1, <2>2, <1>1, <1>5
    <3> QED
        BY <3>1, <2>2, <1>1, <1>3, <1>4
  <2>3. CASE r # s[last]
    <3>1. I2[r] = I[r] /\ I[r] \in 1..last /\ s[I[r]] = r
        BY <2>1, <2>3, <1>5, <1>7
    <3>2. I[r] # last /\ I[r] # idx
        BY <3>1, <2>1, <2>3, <1>1
    <3> QED
        BY <3>1, <3>2, <1>1, <1>3, <1>4
  <2> QED
      BY <2>2, <2>3
<1>10. \A r \in Refs : I2[r] # 0 <=> I[r] # 0 /\ r # ref
  <2> SUFFICES ASSUME NEW r \in Refs PROVE I2[r] # 0 <=> I[r] # 0 /\ r # ref
      OBVIOUS
  <2>1. CASE r = ref
      BY <2>1, <1>5
  <2>2. CASE r # ref /\ r = s[last]
      BY <2>2, <1>1, <1>5, <1>6
  <2>3. CASE r # ref /\ r # s[last]
      BY <2>3, <1>5
  <2> QED
      BY <2>1, <2>2, <2>3
<1>11. Indexed(s2, I2)
    BY <1>8, <1>9 DEF Indexed
<1> QED
    BY <1>4, <1>5, <1>10, <1>11 DEF last, idx, t, s2, I1, I2

-----------------------------------------------------------------------------
(* The positions of the LPs *)

\* A position keeps its type under the updates the calls make.
LEMMA PositionUpdate ==
    \A pos \in LPPosition, v \in Int :
        /\ [pos EXCEPT !.principal = v] \in LPPosition
        /\ [pos EXCEPT !.fundingCredit = v] \in LPPosition
        /\ [pos EXCEPT !.lastUpdate = v] \in LPPosition
        /\ [pos EXCEPT !.dollarSeconds = v] \in LPPosition
        /\ [pos EXCEPT !.claimedYield = v] \in LPPosition
        /\ [pos EXCEPT !.claimedPrincipal = v] \in LPPosition
        /\ [pos EXCEPT !.claimedOverrunYield = v] \in LPPosition
        /\ [pos EXCEPT !.claimedBonus = v] \in LPPosition
        /\ [pos EXCEPT !.finalized = TRUE] \in LPPosition
BY DEF LPPosition

\* The amounts of a position are integers.
LEMMA PositionTypes ==
    ASSUME NEW pos \in LPPosition
    PROVE  {pos.principal, pos.fundingCredit, pos.lastUpdate, pos.dollarSeconds,
            pos.claimedYield, pos.claimedPrincipal, pos.claimedOverrunYield,
            pos.claimedBonus} \subseteq Int
BY DEF LPPosition

\* _lpCheckpoint keeps the type of a position and its principal.
LEMMA CheckpointPosition ==
    ASSUME NEW pos \in LPPosition, NEW p \in Pool, NEW t \in Nat
    PROVE  /\ lpCheckpoint(pos, p, t) \in LPPosition
           /\ lpCheckpoint(pos, p, t).principal = pos.principal
<1> DEFINE ts == IF p.status = "Unsuccessful" THEN least(t, p.lastUpdate) ELSE t
           fc == pos.fundingCredit + pos.principal * (ts - pos.lastUpdate)
           q  == [pos EXCEPT !.fundingCredit = fc, !.lastUpdate = ts]
<1>1. lpCheckpoint(pos, p, t) = q
    BY Zenon DEF lpCheckpoint
<1>2. ts \in Int
    BY PoolTypes DEF least
<1> HIDE DEF ts
<1>3. fc \in Int
    BY <1>2, PositionTypes
<1> HIDE DEF fc
<1>4. q \in LPPosition
    BY <1>2, <1>3, PositionUpdate, Zenon
<1>5. q.principal = pos.principal
    BY DEF LPPosition
<1> QED
    BY <1>1, <1>4, <1>5

\* _settleLpDollarSeconds keeps the type of a position.
LEMMA SettlePosition ==
    ASSUME NEW pos \in LPPosition, NEW p \in Pool
    PROVE  settleLpDollarSeconds(pos, p) \in LPPosition
<1> DEFINE late == ~pos.finalized /\ pos.lastUpdate < p.poolStartTs
           fc   == IF late
                   THEN pos.fundingCredit + pos.principal * (p.poolStartTs - pos.lastUpdate)
                   ELSE pos.fundingCredit
           upd  == IF late THEN p.poolStartTs ELSE pos.lastUpdate
           ds   == fc + pos.principal * p.span
           q    == [pos EXCEPT !.fundingCredit = fc, !.lastUpdate = upd, !.finalized = TRUE,
                               !.dollarSeconds = ds]
<1>1. settleLpDollarSeconds(pos, p) = q
    BY DEF settleLpDollarSeconds, LPPosition
<1>2. upd \in Int /\ fc \in Int
    BY PoolTypes, PositionTypes
<1> HIDE DEF fc, upd
<1>3. ds \in Int
    BY <1>2, PoolTypes, PositionTypes
<1> HIDE DEF ds
<1>4. q \in LPPosition
    BY <1>2, <1>3, PositionUpdate, Zenon
<1> QED
    BY <1>1, <1>4

\* What an LP can claim of each stream is a natural number.
LEMMA ClaimableNat ==
    ASSUME NEW pos \in LPPosition, NEW p \in Pool, NEW t \in Nat,
           p.dollarSeconds > 0, p.principal > 0
    PROVE  /\ claimableBase(pos, p, t) \in Nat
           /\ claimableOverrun(pos, p) \in Nat
           /\ claimableBonus(pos, p) \in Nat
           /\ monus(mulDiv(pos.principal, p.collectedPrincipal, p.principal),
                    pos.claimedPrincipal) \in Nat
<1>1. p.dollarSeconds \in Nat \ {0} /\ p.principal \in Nat \ {0}
    BY PoolTypes
<1> DEFINE elapsed == t - p.poolStartTs
           dsPool  == p.fundingCredit + p.principal * elapsed
           dsLp    == pos.fundingCredit + pos.principal * elapsed
           final   == mulDiv(pos.dollarSeconds, WAD, p.dollarSeconds)
           soFar   == mulDiv(dsLp, WAD, dsPool)
<1>2. final \in Int
  <2>1. WAD \in Int
      BY Denominators
  <2> QED
      BY <1>1, <2>1, PositionTypes, MulDivInt
<1>3. dsPool \in Int /\ dsLp \in Int
    BY PoolTypes, PositionTypes
<1>4. dsPool > 0 => soFar \in Int
  <2> HIDE DEF dsPool, dsLp
  <2>1. WAD \in Int
      BY Denominators
  <2> QED
      BY <1>3, <2>1, MulDivInt
<1> HIDE DEF final, soFar
<1>5. baseShare(pos, p, t) \in Int
  <2>1. \/ baseShare(pos, p, t) = final
        \/ dsPool > 0 /\ baseShare(pos, p, t) = least(final, soFar)
      BY DEF baseShare, final, soFar
  <2> HIDE DEF dsPool
  <2> QED
      BY <1>2, <1>4, <2>1 DEF least
<1>6. mulDiv(baseShare(pos, p, t), p.collectedYield, WAD) \in Int
    BY <1>5, PoolTypes, MulDivInt, Denominators
<1>7. \A x \in {p.collectedOverrunYield, p.collectedBonus, p.collectedPrincipal} :
          mulDiv(pos.principal, x, p.principal) \in Int
    BY <1>1, PoolTypes, PositionTypes, MulDivInt
<1>8. \A x, y \in Int : monus(x, y) \in Nat
    BY DEF monus
<1> QED
    BY <1>6, <1>7, <1>8, PositionTypes DEF claimableBase, claimableOverrun, claimableBonus

-----------------------------------------------------------------------------
(* The inductive invariant *)

IInv ==
    /\ TypeOK
    /\ DrawdownIndex
    /\ LedgerInv(pool)

\* The drawdown book is typed and agrees with its index.
BookInv ==
    /\ drawDowns \in [Refs -> DrawDown]
    /\ drawDownRefs \in Seq(Refs)
    /\ refIndex \in [Refs -> Nat]
    /\ receiverActiveDrawdowns \in [Receivers -> Nat]
    /\ DrawdownIndex

\* A live reference is one with an index.
LEMMA LiveIndexed ==
    ASSUME NEW s \in Seq(Refs), NEW I, Indexed(s, I)
    PROVE  \A ref \in Refs : ref \in {s[i] : i \in DOMAIN s} <=> I[ref] # 0
<1> SUFFICES ASSUME NEW ref \in Refs
             PROVE  ref \in {s[i] : i \in DOMAIN s} <=> I[ref] # 0
    OBVIOUS
<1>1. DOMAIN s = 1..Len(s) /\ Len(s) \in Nat
    OBVIOUS
<1>2. ASSUME ref \in {s[i] : i \in DOMAIN s} PROVE I[ref] # 0
  <2>1. PICK i \in DOMAIN s : s[i] = ref
      BY <1>2
  <2> QED
      BY <2>1, <1>1 DEF Indexed
<1>3. ASSUME I[ref] # 0 PROVE ref \in {s[i] : i \in DOMAIN s}
    BY <1>3 DEF Indexed
<1> QED
    BY <1>2, <1>3

\* A call that leaves the drawdowns alone leaves their book in order.
LEMMA BookUnchanged ==
    ASSUME IInv, UNCHANGED drawVars
    PROVE  BookInv'
BY DEF IInv, TypeOK, BookInv, drawVars, DrawdownIndex, liveRefs

\* Accruals and checkpoints keep the invariant of the ledger.
LEMMA LedgerFrame ==
    ASSUME NEW p \in Pool, NEW q \in Pool, LedgerInv(p), SameLedger(p, q), SameCoupon(p, q),
           \/ SameIdle(p, q)
           \/ p.status \in LockedStatuses /\ IdleSound(q)
    PROVE  LedgerInv(q)
BY DEF LedgerInv, SameLedger, SameCoupon, SameIdle, IdleSound, CouponFirst, WoundDown,
    Conserved, Unlent

\* What a call that runs the accruals starts from.
LEMMA Accrued ==
    ASSUME IInv, pool.status \in LockedStatuses
    PROVE  /\ accrue(pool, now) \in Pool
           /\ LedgerInv(accrue(pool, now))
           /\ SameLedger(pool, accrue(pool, now))
           /\ accrueIdleFees(pool, now) \in Pool
           /\ LedgerInv(accrueIdleFees(pool, now))
           /\ SameLedger(pool, accrueIdleFees(pool, now))
<1>1. pool \in Pool /\ now \in Nat /\ LedgerInv(pool) /\ IdleSound(pool)
    BY DEF IInv, TypeOK, LedgerInv
<1> QED
    BY <1>1, AccruePool, IdleFeesPool, LedgerFrame

\* _mature keeps the invariant of the ledger of a locked pool.
LEMMA MatureLedger ==
    ASSUME NEW p \in Pool, NEW tr \in TreasuryState, NEW t \in Nat,
           LedgerInv(p), p.status \in LockedStatuses
    PROVE  /\ mature(p, tr, t) \in Pool
           /\ LedgerInv(mature(p, tr, t))
           /\ mature(p, tr, t).status \in LockedStatuses
BY MaturePool DEF LedgerInv, LockedStatuses

-----------------------------------------------------------------------------
(* The treasury *)

\* Writing an amount to its field keeps the type of the treasury.
LEMMA TreasuryUpdate ==
    \A tr \in TreasuryState, v \in Int :
        /\ [tr EXCEPT !.reserveBalance = v] \in TreasuryState
        /\ [tr EXCEPT !.imFeesBalance = v] \in TreasuryState
        /\ [tr EXCEPT !.balance = v] \in TreasuryState
BY DEF TreasuryState

\* Every movement of the treasury keeps its type.
LEMMA TreasuryMoves ==
    ASSUME NEW tr \in TreasuryState, NEW amount \in Int
    PROVE  /\ topUp(tr, amount) \in TreasuryState
           /\ depositImFees(tr, amount) \in TreasuryState
           /\ drawn(tr, amount) \in Int
           /\ drawReserve(tr, amount) \in TreasuryState
<1>1. {tr.reserveBalance, tr.imFeesBalance, tr.balance} \subseteq Int
    BY DEF TreasuryState
<1>2. topUp(tr, amount) \in TreasuryState
  <2>1. tr.reserveBalance + amount \in Int /\ tr.balance + amount \in Int
      BY <1>1
  <2> QED
      BY <2>1, TreasuryUpdate, Zenon DEF topUp
<1>3. depositImFees(tr, amount) \in TreasuryState
  <2>1. tr.imFeesBalance + amount \in Int /\ tr.balance + amount \in Int
      BY <1>1
  <2> QED
      BY <2>1, TreasuryUpdate, Zenon DEF depositImFees
<1>4. drawn(tr, amount) \in Int
    BY <1>1 DEF drawn, least
<1>5. drawReserve(tr, amount) \in TreasuryState
  <2>1. tr.reserveBalance - drawn(tr, amount) \in Int
        /\ tr.balance - drawn(tr, amount) \in Int
      BY <1>1, <1>4
  <2> QED
      BY <2>1, TreasuryUpdate, Zenon DEF drawReserve
<1> QED
    BY <1>2, <1>3, <1>4, <1>5

\* _mature moves an integer amount from the pool to the reserve.
LEMMA SettleTypes ==
    ASSUME NEW p \in Pool, now \in Nat, treasury \in TreasuryState, poolBalance \in Int,
           NEW inflow \in Int, NEW outflow \in Int, Settle(p, inflow, outflow)
    PROVE  treasury' \in TreasuryState /\ poolBalance' \in Int
<1> DEFINE up == maturityTopUp(p, treasury, now)
<1>1. up \in Int
    BY TopUpInt DEF maturityTopUp
<1>2. treasury' = topUp(treasury, up) /\ poolBalance' = poolBalance + inflow - outflow - up
    BY Zenon DEF Settle
<1> HIDE DEF up
<1>3. topUp(treasury, up) \in TreasuryState
    BY <1>1, TreasuryMoves
<1> QED
    BY <1>1, <1>2, <1>3

-----------------------------------------------------------------------------
(* Each call keeps the inductive invariant *)

\* Calls that leave the drawdowns alone.
LEMMA KeepBook ==
    ASSUME IInv, UNCHANGED drawVars,
           now' \in Nat, pool' \in Pool, LedgerInv(pool'),
           lpPositions' \in [LPs -> LPPosition], authorizedReceivers' \in SUBSET Receivers,
           poolBalance' \in Int, treasury' \in TreasuryState
    PROVE  IInv'
BY BookUnchanged DEF IInv, TypeOK, BookInv

\* The parts of the inductive invariant that most calls need.
LEMMA Typed ==
    ASSUME IInv
    PROVE  /\ now \in Nat /\ pool \in Pool /\ LedgerInv(pool)
           /\ lpPositions \in [LPs -> LPPosition]
           /\ authorizedReceivers \in SUBSET Receivers
           /\ poolBalance \in Int /\ treasury \in TreasuryState
BY DEF IInv, TypeOK

\* What a deposit and a withdrawal start from.
LEMMA Checkpointed ==
    ASSUME IInv
    PROVE  LET p == globalCheckpoint(triggerFinalizeFunding(pool, now), now)
           IN  p \in Pool /\ LedgerInv(p)
<1> DEFINE f == triggerFinalizeFunding(pool, now)
           p == globalCheckpoint(f, now)
<1>1. now \in Nat /\ f \in Pool /\ LedgerInv(f)
    BY Typed, FinalizePool
<1> HIDE DEF f
<1>2. p \in Pool /\ SameLedger(f, p) /\ SameCoupon(f, p) /\ SameIdle(f, p)
    BY <1>1, CheckpointPool
<1> HIDE DEF p
<1>3. LedgerInv(p)
    BY <1>1, <1>2, LedgerFrame
<1> QED
    BY <1>2, <1>3 DEF p, f

\* deposit adds to the principal of a pool that has not locked.
LEMMA DepositStep ==
    ASSUME IInv, NEW lp \in LPs, NEW amount \in LpAmounts, Deposit(lp, amount)
    PROVE  IInv'
<1> DEFINE p   == globalCheckpoint(triggerFinalizeFunding(pool, now), now)
           c   == lpCheckpoint(lpPositions[lp], p, now)
           raised == p.principal + amount
           staked == c.principal + amount
           pos == [c EXCEPT !.principal = staked]
           q   == [p EXCEPT !.principal = raised]
<1>1. /\ p.status = "Funding"
      /\ poolBalance' = poolBalance + amount
      /\ UNCHANGED drawVars
      /\ UNCHANGED <<now, authorizedReceivers, treasury>>
    BY Zenon DEF Deposit
<1>2. p \in Pool /\ LedgerInv(p) /\ amount \in Int
    BY Checkpointed, PoolAssumption
<1>3. c \in LPPosition
  <2> HIDE DEF p
  <2> QED
      BY <1>2, Typed, CheckpointPosition
<1>8. pool' = q /\ lpPositions' = [lpPositions EXCEPT ![lp] = pos]
  <2>1. /\ pool' = [p EXCEPT !.principal = @ + amount]
        /\ lpPositions' = [lpPositions EXCEPT ![lp] = [c EXCEPT !.principal = @ + amount]]
      BY Zenon DEF Deposit
  <2> HIDE DEF p, c
  <2> QED
      BY <2>1, <1>2, <1>3 DEF Pool, LPPosition
<1> HIDE DEF p, c
<1>4. raised \in Int /\ staked \in Int
    BY <1>2, <1>3, PoolTypes, PositionTypes
<1> HIDE DEF raised, staked
<1>5. pos \in LPPosition /\ q \in Pool
    BY <1>2, <1>3, <1>4, PositionUpdate, PrincipalUpdate, Zenon
<1>6. LedgerInv(q)
    BY <1>1, <1>2
    DEF Pool, LedgerInv, LockedStatuses, Unlent, IdleSound, CouponFirst, WoundDown
<1> HIDE DEF pos, q
<1>7. lpPositions' \in [LPs -> LPPosition] /\ poolBalance' \in Int
    BY <1>1, <1>2, <1>5, <1>8, Typed
<1> QED
    BY <1>1, <1>5, <1>6, <1>7, <1>8, Typed, KeepBook

\* withdraw takes from the principal of a pool that has not locked.
LEMMA WithdrawStep ==
    ASSUME IInv, NEW lp \in LPs, NEW amount \in LpAmounts, Withdraw(lp, amount)
    PROVE  IInv'
<1> DEFINE p   == globalCheckpoint(triggerFinalizeFunding(pool, now), now)
           c   == lpCheckpoint(lpPositions[lp], p, now)
           forfeited == mulDiv(c.fundingCredit, amount, c.principal)
           credit == c.fundingCredit - forfeited
           staked == c.principal - amount
           total  == p.fundingCredit - forfeited
           raised == p.principal - amount
           pos == [c EXCEPT !.fundingCredit = credit, !.principal = staked]
           q   == [p EXCEPT !.fundingCredit = total, !.principal = raised]
<1>1. /\ p.status \in {"Funding", "Unsuccessful"}
      /\ amount > 0 /\ amount <= c.principal
      /\ poolBalance' = poolBalance - amount
      /\ UNCHANGED drawVars
      /\ UNCHANGED <<now, authorizedReceivers, treasury>>
    BY Zenon DEF Withdraw
<1>2. p \in Pool /\ LedgerInv(p) /\ amount \in Int
    BY Checkpointed, PoolAssumption
<1>3. c \in LPPosition
  <2> HIDE DEF p
  <2> QED
      BY <1>2, Typed, CheckpointPosition
<1>8. pool' = q /\ lpPositions' = [lpPositions EXCEPT ![lp] = pos]
  <2>1. /\ pool' = [p EXCEPT !.fundingCredit = @ - forfeited, !.principal = @ - amount]
        /\ lpPositions' = [lpPositions EXCEPT
               ![lp] = [c EXCEPT !.fundingCredit = @ - forfeited, !.principal = @ - amount]]
      BY Zenon DEF Withdraw
  <2> HIDE DEF p, c, forfeited
  <2> QED
      BY <2>1, <1>2, <1>3 DEF Pool, LPPosition
<1> HIDE DEF p, c
<1>4. c.principal \in Nat \ {0} /\ c.fundingCredit \in Int
    BY <1>1, <1>2, <1>3, PositionTypes
<1>5. forfeited \in Int
    BY <1>2, <1>4, MulDivInt
<1> HIDE DEF forfeited
<1>6. credit \in Int /\ staked \in Int /\ total \in Int /\ raised \in Int
    BY <1>2, <1>4, <1>5, PoolTypes
<1> HIDE DEF credit, staked, total, raised
<1>7. pos \in LPPosition /\ q \in Pool
    BY <1>2, <1>3, <1>6, PositionUpdate, PrincipalUpdate, ShareUpdate, Zenon
<1>9. LedgerInv(q)
    BY <1>1, <1>2
    DEF Pool, LedgerInv, LockedStatuses, Unlent, IdleSound, CouponFirst, WoundDown
<1> HIDE DEF pos, q
<1>10. lpPositions' \in [LPs -> LPPosition] /\ poolBalance' \in Int
    BY <1>1, <1>2, <1>7, <1>8, Typed
<1> QED
    BY <1>1, <1>7, <1>8, <1>9, <1>10, Typed, KeepBook

\* finalizeFunding writes the pool only.
LEMMA FinalizeStep ==
    ASSUME IInv, FinalizeFunding
    PROVE  IInv'
<1>1. pool' \in Pool /\ LedgerInv(pool')
    BY Typed, FinalizePool DEF FinalizeFunding
<1> QED
    BY <1>1, Typed, KeepBook DEF FinalizeFunding, drawVars

\* claimYield moves no principal: it matures the pool and pays a position.
LEMMA ClaimYieldStep ==
    ASSUME IInv, NEW lp \in LPs, ClaimYield(lp)
    PROVE  IInv'
<1> DEFINE a       == accrue(pool, now)
           pos     == settleLpDollarSeconds(lpPositions[lp], a)
           p       == mature(a, treasury, now)
           base    == least(claimableBase(pos, p, now), p.collectedYield - p.claimedYield)
           overrun == least(claimableOverrun(pos, p),
                            p.collectedOverrunYield - p.claimedOverrunYield)
           bonus   == least(claimableBonus(pos, p), p.collectedBonus - p.claimedBonus)
           q       == [p EXCEPT !.claimedYield = @ + base, !.claimedOverrunYield = @ + overrun,
                                !.claimedBonus = @ + bonus]
           x       == [pos EXCEPT !.claimedYield = @ + base,
                                  !.claimedOverrunYield = @ + overrun,
                                  !.claimedBonus = @ + bonus]
<1>1. /\ pool.status \in Claimable
      /\ p.dollarSeconds > 0 /\ p.principal > 0
      /\ pool' = q /\ lpPositions' = [lpPositions EXCEPT ![lp] = x]
      /\ Settle(a, 0, base + overrun + bonus)
      /\ UNCHANGED drawVars
      /\ UNCHANGED <<now, authorizedReceivers>>
    BY Zenon DEF ClaimYield
<1>2. a \in Pool /\ LedgerInv(a) /\ a.status \in LockedStatuses
    BY <1>1, Accrued DEF Claimable, LockedStatuses, SameLedger
<1> HIDE DEF a
<1>3. p \in Pool /\ LedgerInv(p)
    BY <1>2, MatureLedger, Typed
<1>4. pos \in LPPosition
    BY <1>2, Typed, SettlePosition
<1> HIDE DEF p, pos
<1>5. base \in Int /\ overrun \in Int /\ bonus \in Int
  <2>1. claimableBase(pos, p, now) \in Int /\ claimableOverrun(pos, p) \in Int
        /\ claimableBonus(pos, p) \in Int
      BY <1>1, <1>3, <1>4, ClaimableNat, Typed
  <2> QED
      BY <2>1, <1>3, PoolTypes DEF least
<1> HIDE DEF base, overrun, bonus
<1>6. q \in Pool /\ x \in LPPosition
  <2> DEFINE y1 == p.claimedYield + base
             y2 == p.claimedOverrunYield + overrun
             y3 == p.claimedBonus + bonus
             x1 == pos.claimedYield + base
             x2 == pos.claimedOverrunYield + overrun
             x3 == pos.claimedBonus + bonus
  <2>1. y1 \in Int /\ y2 \in Int /\ y3 \in Int /\ x1 \in Int /\ x2 \in Int /\ x3 \in Int
      BY <1>3, <1>4, <1>5, PoolTypes, PositionTypes
  <2>2. q = [p EXCEPT !.claimedYield = y1, !.claimedOverrunYield = y2, !.claimedBonus = y3]
      BY <1>3 DEF Pool
  <2>3. x = [pos EXCEPT !.claimedYield = x1, !.claimedOverrunYield = x2, !.claimedBonus = x3]
      BY <1>4 DEF LPPosition
  <2> HIDE DEF q, x, y1, y2, y3, x1, x2, x3
  <2>4. [p EXCEPT !.claimedYield = y1, !.claimedOverrunYield = y2, !.claimedBonus = y3]
           \in Pool
      BY <1>3, <2>1, ShareUpdate, Zenon
  <2>5. [pos EXCEPT !.claimedYield = x1, !.claimedOverrunYield = x2, !.claimedBonus = x3]
           \in LPPosition
      BY <1>4, <2>1, PositionUpdate, Zenon
  <2> QED
      BY <2>2, <2>3, <2>4, <2>5
<1>7. SameLedger(p, q) /\ SameCoupon(p, q) /\ SameIdle(p, q)
    BY <1>3 DEF SameLedger, SameCoupon, SameIdle, Pool
<1> HIDE DEF q, x
<1>8. LedgerInv(q)
    BY <1>3, <1>6, <1>7, LedgerFrame
<1>9. lpPositions' \in [LPs -> LPPosition]
    BY <1>1, <1>6, Typed
<1>10. treasury' \in TreasuryState /\ poolBalance' \in Int
  <2>1. base + overrun + bonus \in Int /\ 0 \in Int
      BY <1>5
  <2> QED
      BY <2>1, <1>1, <1>2, Typed, SettleTypes
<1> QED
    BY <1>1, <1>6, <1>8, <1>9, <1>10, Typed, KeepBook

\* claimPrincipal pays collected principal out and keeps the total it is collected into.
LEMMA ClaimPrincipalStep ==
    ASSUME IInv, NEW lp \in LPs, ClaimPrincipal(lp)
    PROVE  IInv'
<1> DEFINE a         == accrueIdleFees(pool, now)
           p         == mature(a, treasury, now)
           pos       == lpPositions[lp]
           claimable == monus(mulDiv(pos.principal, p.collectedPrincipal, p.principal),
                              pos.claimedPrincipal)
           q         == [p EXCEPT !.claimedPrincipal = @ + claimable]
           x         == [lpPositions EXCEPT ![lp].claimedPrincipal = @ + claimable]
<1>1. /\ pool.status \in Claimable
      /\ p.principal > 0
      /\ pool' = q /\ lpPositions' = x
      /\ Settle(a, 0, claimable)
      /\ UNCHANGED drawVars
      /\ UNCHANGED <<now, authorizedReceivers>>
    BY Zenon DEF ClaimPrincipal
<1>2. a \in Pool /\ LedgerInv(a) /\ a.status \in LockedStatuses
    BY <1>1, Accrued DEF Claimable, LockedStatuses, SameLedger
<1> HIDE DEF a
<1>3. p \in Pool /\ LedgerInv(p)
    BY <1>2, MatureLedger, Typed
<1>4. pos \in LPPosition
    BY Typed
<1> HIDE DEF p, pos
<1>5. claimable \in Int
  <2>1. p.principal \in Nat \ {0} /\ p.collectedPrincipal \in Int /\ pos.principal \in Int
      BY <1>1, <1>3, <1>4, PoolTypes, PositionTypes
  <2>2. mulDiv(pos.principal, p.collectedPrincipal, p.principal) \in Int
      BY <2>1, MulDivInt
  <2> QED
      BY <2>2, <1>4, PositionTypes DEF monus
<1> HIDE DEF claimable
<1>6. q \in Pool
    BY <1>3, <1>5 DEF Pool
<1>7. SameLedger(p, q) /\ SameCoupon(p, q) /\ SameIdle(p, q)
    BY <1>3 DEF SameLedger, SameCoupon, SameIdle, Pool
<1> HIDE DEF q
<1>8. LedgerInv(q)
    BY <1>3, <1>6, <1>7, LedgerFrame
<1>9. x \in [LPs -> LPPosition]
  <2> DEFINE y == pos.claimedPrincipal + claimable
             z == [pos EXCEPT !.claimedPrincipal = y]
  <2>1. y \in Int
      BY <1>4, <1>5, PositionTypes
  <2> HIDE DEF y
  <2>2. z \in LPPosition
      BY <2>1, <1>4, PositionUpdate, Zenon
  <2>3. x = [lpPositions EXCEPT ![lp] = z]
      BY DEF y, pos
  <2> HIDE DEF x, z
  <2> QED
      BY <2>2, <2>3, Typed
<1> HIDE DEF x
<1>10. treasury' \in TreasuryState /\ poolBalance' \in Int
  <2>1. 0 \in Int
      OBVIOUS
  <2> QED
      BY <2>1, <1>1, <1>2, <1>5, Typed, SettleTypes
<1> QED
    BY <1>1, <1>6, <1>8, <1>9, <1>10, Typed, KeepBook

\* declareDefault moves undrawn principal, and the surplus spent on the rescue, to collected
\* principal, and leaves neither surplus nor undrawn principal.
LEMMA DeclareDefaultStep ==
    ASSUME IInv, DeclareDefault
    PROVE  IInv'
<1> DEFINE a == accrue(pool, now)
           u == collectUndrawn(a)
           b == rebaseCoupon(u, now)
           p == rescue(b)
           d == [p EXCEPT !.status = "Default"]
<1>1. /\ pool.status = "Active" /\ pool' = resolveDefaultIfWhole(d)
      /\ UNCHANGED drawVars
      /\ UNCHANGED <<now, lpPositions, authorizedReceivers, poolBalance, treasury>>
    BY Zenon DEF DeclareDefault
<1>2. a \in Pool /\ Conserved(a) /\ IdleSound(a)
    BY <1>1, Accrued DEF LockedStatuses, SameLedger, LedgerInv
<1> HIDE DEF a
<1>3. u \in Pool /\ Conserved(u) /\ IdleSound(u) /\ u.availableToDd = 0
    BY <1>2, UndrawnPool
<1> HIDE DEF u
<1>4. b \in Pool /\ SameLedger(u, b) /\ SameIdle(u, b)
    BY <1>3, RebasePool, Typed
<1> HIDE DEF b
<1>5. Conserved(b) /\ IdleSound(b) /\ b.availableToDd = 0
    BY <1>3, <1>4 DEF Conserved, IdleSound, SameLedger, SameIdle
<1>6. /\ p \in Pool /\ Conserved(p) /\ IdleSound(p) /\ CouponFirst(p)
      /\ p.reservedYield = 0 /\ p.availableToDd = 0
    BY <1>4, <1>5, RescuePool
<1> HIDE DEF p
<1>7. d \in Pool
    BY <1>6, StatusUpdate, Zenon DEF Statuses
<1>8. /\ d.status = "Default" /\ Conserved(d) /\ IdleSound(d) /\ CouponFirst(d)
      /\ WoundDown(d)
    BY <1>6 DEF Conserved, IdleSound, CouponFirst, WoundDown, Pool
<1> HIDE DEF d
<1>9. pool' \in Pool /\ LedgerInv(pool')
    BY <1>1, <1>7, <1>8, ResolvePool DEF LedgerInv, LockedStatuses
<1> QED
    BY <1>1, <1>9, Typed, KeepBook

\* payAccruedIdleFees lowers the bill by at most what is billed.
LEMMA PayFeesStep ==
    ASSUME IInv, NEW amount \in PayAmounts, PayAccruedIdleFees(amount)
    PROVE  IInv'
<1> DEFINE a    == accrue(pool, now)
           pay  == least(amount, a.accIdleFees + a.accPenalty)
           fees == least(pay, a.accIdleFees)
           f    == a.accIdleFees - fees
           e    == a.accPenalty - (pay - fees)
           q    == [a EXCEPT !.accIdleFees = f, !.accPenalty = e]
           p    == allocate(q, pay, now)
<1>1. /\ pool.status = "Active"
      /\ UNCHANGED drawVars
      /\ UNCHANGED <<now, lpPositions, authorizedReceivers>>
    BY Zenon DEF PayAccruedIdleFees
<1>2. a \in Pool /\ LedgerInv(a) /\ a.status = "Active"
    BY <1>1, Accrued DEF LockedStatuses, SameLedger
<1>3. \/ pool' = a /\ UNCHANGED <<treasury, poolBalance>>
      \/ pool' = mature(p, treasury, now) /\ Settle(p, pay, 0)
  <2>1. IF pay = 0 THEN pool' = a /\ UNCHANGED <<treasury, poolBalance>>
        ELSE LET r == allocate([a EXCEPT !.accIdleFees = @ - fees,
                                         !.accPenalty = @ - (pay - fees)], pay, now)
             IN  pool' = mature(r, treasury, now) /\ Settle(r, pay, 0)
      BY Zenon DEF PayAccruedIdleFees
  <2> HIDE DEF a, pay, fees
  <2>2. [a EXCEPT !.accIdleFees = @ - fees, !.accPenalty = @ - (pay - fees)] = q
      BY <1>2 DEF Pool
  <2> HIDE DEF q
  <2> QED
      BY <2>1, <2>2
<1> HIDE DEF a
<1>4. a.accIdleFees \in Nat /\ a.accPenalty \in Nat /\ amount \in Nat
    BY <1>2, PoolTypes, PoolAssumption DEF LedgerInv, IdleSound
<1>5. pay \in Nat /\ f \in Nat /\ e \in Nat /\ f \in Int /\ e \in Int
    BY <1>4 DEF least
<1> HIDE DEF pay, f, e
<1>6. q \in Pool
    BY <1>2, <1>5, PrincipalUpdate, Zenon
<1>7. LedgerInv(q) /\ q.status = "Active"
  <2>1. /\ SameLedger(a, q) /\ SameCoupon(a, q)
        /\ q.idleExemptAmount = a.idleExemptAmount
        /\ q.idleExemptUntil = a.idleExemptUntil
        /\ q.accIdleFees = f /\ q.accPenalty = e
      BY <1>2 DEF SameLedger, SameCoupon, Pool
  <2> HIDE DEF q
  <2>2. IdleSound(q)
      BY <1>2, <1>5, <2>1 DEF LedgerInv, IdleSound, SameLedger
  <2> QED
      BY <1>2, <1>6, <2>1, <2>2, LedgerFrame DEF LockedStatuses, SameLedger
<1> HIDE DEF q
<1>8. p \in Pool /\ LedgerInv(p) /\ p.status \in LockedStatuses
  <2>1. p \in Pool /\ SameLedger(q, p) /\ SameIdle(q, p) /\ CouponFirst(p)
      BY <1>5, <1>6, <1>7, AllocatePool, Typed DEF LedgerInv
  <2> HIDE DEF p
  <2> QED
      BY <1>7, <2>1
      DEF LedgerInv, LockedStatuses, SameLedger, SameIdle, IdleSound, Conserved, WoundDown
<1> HIDE DEF p
<1>9. pool' \in Pool /\ LedgerInv(pool')
    BY <1>2, <1>3, <1>8, MatureLedger, Typed
<1>10. treasury' \in TreasuryState /\ poolBalance' \in Int
  <2>1. pay \in Int /\ 0 \in Int
      BY <1>5
  <2> QED
      BY <2>1, <1>3, <1>8, Typed, SettleTypes
<1> QED
    BY <1>1, <1>9, <1>10, Typed, KeepBook

\* settleDefaultPrincipal moves lent principal to collected principal.
LEMMA SettlePrincipalStep ==
    ASSUME IInv, NEW amount \in PayAmounts, SettleDefaultPrincipal(amount)
    PROVE  IInv'
<1> DEFINE owed        == monus(pool.principal, pool.collectedPrincipal)
           asked       == owed - least(amount, owed)
           fromReserve == drawn(treasury, asked)
           paid        == least(amount, owed) + fromReserve
           coll        == pool.collectedPrincipal + paid
           out         == pool.outstanding - paid
           q           == [pool EXCEPT !.collectedPrincipal = coll, !.outstanding = out]
<1>1. /\ pool.status = "Default"
      /\ treasury' = drawReserve(treasury, fromReserve)
      /\ poolBalance' = poolBalance + paid
      /\ UNCHANGED drawVars
      /\ UNCHANGED <<now, lpPositions, authorizedReceivers>>
    BY Zenon DEF SettleDefaultPrincipal
<1>2. pool' = pool \/ pool' = resolveDefaultIfWhole(q)
  <2>1. \/ pool' = pool
        \/ pool' = resolveDefaultIfWhole([pool EXCEPT !.collectedPrincipal = @ + paid,
                                                      !.outstanding = @ - paid])
      BY Zenon DEF SettleDefaultPrincipal
  <2> HIDE DEF paid
  <2>2. [pool EXCEPT !.collectedPrincipal = @ + paid, !.outstanding = @ - paid] = q
      BY Typed DEF Pool
  <2> HIDE DEF q
  <2> QED
      BY <2>1, <2>2
<1>3. asked \in Int /\ least(amount, owed) \in Int
    BY Typed, PoolTypes, PoolAssumption DEF monus, least
<1>4. fromReserve \in Int /\ treasury' \in TreasuryState
  <2> HIDE DEF asked
  <2>1. fromReserve \in Int
      BY <1>3, Typed, TreasuryMoves
  <2> HIDE DEF fromReserve
  <2> QED
      BY <1>1, <2>1, Typed, TreasuryMoves
<1>5. paid \in Int
    BY <1>3, <1>4
<1> HIDE DEF paid
<1>6. coll \in Int /\ out \in Int /\ poolBalance' \in Int
    BY <1>1, <1>5, Typed, PoolTypes
<1>7. q \in Pool
  <2> HIDE DEF coll, out
  <2> QED
      BY <1>6, Typed, PrincipalUpdate, Zenon
<1>8. /\ q.status = "Default"
      /\ Conserved(pool) => Conserved(q)
      /\ IdleSound(pool) => IdleSound(q)
      /\ CouponFirst(pool) => CouponFirst(q)
      /\ WoundDown(pool) => WoundDown(q)
    BY <1>1, <1>5, Typed DEF Conserved, IdleSound, CouponFirst, WoundDown, Pool
<1> HIDE DEF q
<1>9. pool' \in Pool /\ LedgerInv(pool')
    BY <1>1, <1>2, <1>7, <1>8, ResolvePool, Typed DEF LedgerInv, LockedStatuses
<1> QED
    BY <1>1, <1>4, <1>6, <1>9, Typed, KeepBook

\* settleDefaultYield sends its payment through the waterfall, and may close the pool.
LEMMA SettleYieldStep ==
    ASSUME IInv, NEW amount \in PayAmounts, SettleDefaultYield(amount)
    PROVE  IInv'
<1> DEFINE owed        == yieldShort(pool) + overrunShort(pool)
           asked       == owed - least(amount, owed)
           fromReserve == drawn(treasury, asked)
           paid        == least(amount, owed) + fromReserve
           q           == fill(pool, paid)
<1>1. /\ pool.status = "Default"
      /\ pool' = pool \/ pool' = resolveDefaultIfWhole(q)
      /\ treasury' = drawReserve(treasury, fromReserve)
      /\ poolBalance' = poolBalance + paid
      /\ UNCHANGED drawVars
      /\ UNCHANGED <<now, lpPositions, authorizedReceivers>>
    BY Zenon DEF SettleDefaultYield
<1>2. yieldShort(pool) \in Nat /\ overrunShort(pool) \in Nat
    BY Typed, PoolTypes DEF yieldShort, overrunShort, monus
<1>3. asked \in Int /\ least(amount, owed) \in Nat
    BY <1>2, PoolAssumption DEF least
<1>4. fromReserve \in Int /\ treasury' \in TreasuryState
  <2> HIDE DEF asked
  <2>1. fromReserve \in Int
      BY <1>3, Typed, TreasuryMoves
  <2> HIDE DEF fromReserve
  <2> QED
      BY <1>1, <2>1, Typed, TreasuryMoves
<1>5. paid \in Int
    BY <1>3, <1>4
<1> HIDE DEF paid
<1>6. poolBalance' \in Int
    BY <1>1, <1>5, Typed
<1>7. /\ q \in Pool /\ SameLedger(pool, q) /\ SameIdle(pool, q)
      /\ q.yieldOwed = pool.yieldOwed /\ q.reservedYield = pool.reservedYield
      /\ q.collectedYield = pool.collectedYield + least(yieldShort(pool), paid)
    BY <1>5, Typed, FillPool
<1> HIDE DEF q
<1>8. CouponFirst(q) /\ WoundDown(q)
    BY <1>1, <1>7, Typed DEF LedgerInv, WoundDown, CouponFirst, SameLedger
<1>9. pool' \in Pool /\ LedgerInv(pool')
    BY <1>1, <1>7, <1>8, ResolvePool, Typed
    DEF LedgerInv, LockedStatuses, SameLedger, SameIdle, IdleSound, Conserved
<1> QED
    BY <1>1, <1>4, <1>6, <1>9, Typed, KeepBook

\* sweepProtocolFees pays fees out.
LEMMA SweepStep ==
    ASSUME IInv, SweepProtocolFees
    PROVE  IInv'
<1> DEFINE q == [pool EXCEPT !.protocolFees = 0]
<1>1. q \in Pool /\ pool.protocolFees \in Int
  <2>1. 0 \in Int /\ pool.protocolFees \in Int
      BY Typed, PoolTypes
  <2> QED
      BY <2>1, Typed, YieldUpdate, Zenon
<1>2. SameLedger(pool, q) /\ SameCoupon(pool, q) /\ SameIdle(pool, q)
    BY Typed DEF SameLedger, SameCoupon, SameIdle, Pool
<1> HIDE DEF q
<1>3. LedgerInv(q)
    BY <1>1, <1>2, Typed, LedgerFrame
<1>4. treasury' \in TreasuryState /\ poolBalance' \in Int
    BY <1>1, Typed, TreasuryMoves DEF SweepProtocolFees
<1>5. /\ pool' = q
      /\ UNCHANGED drawVars
      /\ UNCHANGED <<now, lpPositions, authorizedReceivers>>
    BY Zenon DEF SweepProtocolFees, q
<1> QED
    BY <1>1, <1>3, <1>4, <1>5, Typed, KeepBook

\* addReceiver and removeReceiver write the set of authorized wallets only.
LEMMA ReceiverStep ==
    ASSUME IInv, NEW w \in ManagedReceivers, AddReceiver(w) \/ RemoveReceiver(w)
    PROVE  IInv'
<1>1. authorizedReceivers' \in SUBSET Receivers
    BY Typed, PoolAssumption DEF AddReceiver, RemoveReceiver
<1>2. UNCHANGED drawVars /\ UNCHANGED <<now, pool, lpPositions, poolBalance, treasury>>
    BY DEF AddReceiver, RemoveReceiver
<1> QED
    BY <1>1, <1>2, Typed, KeepBook

\* setScOverdue and setPaused write flags only.
LEMMA BreakerStep ==
    ASSUME IInv, NEW b \in BreakerSettings, SetScOverdue(b) \/ SetPaused(b)
    PROVE  IInv'
<1>1. UNCHANGED drawVars
      /\ UNCHANGED <<now, lpPositions, authorizedReceivers, poolBalance, treasury>>
    BY DEF SetScOverdue, SetPaused
<1>2. PICK c \in BOOLEAN, d \in BOOLEAN :
          pool' = [pool EXCEPT !.scOverdueCheck = c, !.paused = d]
  <2>1. b \in BOOLEAN /\ pool.paused \in BOOLEAN /\ pool.scOverdueCheck \in BOOLEAN
      BY PoolAssumption, Typed DEF Pool
  <2>2. CASE SetScOverdue(b)
      BY <2>1, <2>2, Typed DEF SetScOverdue, Pool
  <2>3. CASE SetPaused(b)
    <3>1. pool = [pool EXCEPT !.scOverdueCheck = pool.scOverdueCheck]
        BY Typed DEF Pool
    <3>2. pool' = [pool EXCEPT !.scOverdueCheck = pool.scOverdueCheck, !.paused = b]
        BY <2>3, <3>1, Zenon DEF SetPaused
    <3> QED
        BY <2>1, <3>2
  <2> QED
      BY <2>2, <2>3
<1> DEFINE q == [pool EXCEPT !.scOverdueCheck = c, !.paused = d]
<1>3. q \in Pool
    BY Typed, FlagUpdate, Zenon
<1>4. SameLedger(pool, q) /\ SameCoupon(pool, q) /\ SameIdle(pool, q)
    BY Typed DEF SameLedger, SameCoupon, SameIdle, Pool
<1>5. pool' = q
    BY <1>2
<1> HIDE DEF q
<1> QED
    BY <1>1, <1>3, <1>4, <1>5, Typed, LedgerFrame, KeepBook

\* The owner of the treasury writes the treasury only.
LEMMA OwnerStep ==
    ASSUME IInv, TreasuryOwner,
           UNCHANGED <<now, pool, lpPositions, drawVars, authorizedReceivers, poolBalance>>
    PROVE  IInv'
<1>1. treasury' \in TreasuryState
  <2>0. treasury \in TreasuryState /\ {treasury.reserveBalance, treasury.imFeesBalance,
                                       treasury.balance} \subseteq Int
      BY Typed DEF TreasuryState
  <2>1. CASE \E r \in RiskParams : SetRiskParams(r)
      BY <2>0, <2>1 DEF SetRiskParams, TreasuryState
  <2>2. CASE \E amount \in OwnerAmounts : WithdrawReserve(amount)
    <3>1. PICK amount \in OwnerAmounts : WithdrawReserve(amount)
        BY <2>2
    <3>2. treasury.reserveBalance - amount \in Int /\ treasury.balance - amount \in Int
        BY <2>0, TreasuryAssumption
    <3> QED
        BY <2>0, <3>1, <3>2, TreasuryUpdate, Zenon DEF WithdrawReserve
  <2>3. CASE \E amount \in OwnerAmounts : WithdrawImFees(amount)
    <3>1. PICK amount \in OwnerAmounts : WithdrawImFees(amount)
        BY <2>3
    <3>2. treasury.imFeesBalance - amount \in Int /\ treasury.balance - amount \in Int
        BY <2>0, TreasuryAssumption
    <3> QED
        BY <2>0, <3>1, <3>2, TreasuryUpdate, Zenon DEF WithdrawImFees
  <2> QED
      BY <2>1, <2>2, <2>3 DEF TreasuryOwner
<1> QED
    BY <1>1, Typed, KeepBook

\* Time passes and nothing else.
LEMMA TickStep ==
    ASSUME IInv, Tick
    PROVE  IInv'
BY Typed, KeepBook DEF Tick

\* Calls that add or remove a drawdown.
LEMMA ChangeBook ==
    ASSUME BookInv', now' \in Nat, pool' \in Pool, LedgerInv(pool'),
           lpPositions' \in [LPs -> LPPosition], authorizedReceivers' \in SUBSET Receivers,
           poolBalance' \in Int, treasury' \in TreasuryState
    PROVE  IInv'
BY DEF IInv, TypeOK, BookInv

\* The book of drawdowns in the form its steps need.
LEMMA BookTyped ==
    ASSUME IInv
    PROVE  /\ drawDowns \in [Refs -> DrawDown]
           /\ drawDownRefs \in Seq(Refs)
           /\ refIndex \in [Refs -> Nat]
           /\ receiverActiveDrawdowns \in [Receivers -> Nat]
           /\ Indexed(drawDownRefs, refIndex)
           /\ \A ref \in Refs : drawDowns[ref].principal > 0 <=> refIndex[ref] # 0
<1>1. /\ drawDowns \in [Refs -> DrawDown]
      /\ drawDownRefs \in Seq(Refs)
      /\ refIndex \in [Refs -> Nat]
      /\ receiverActiveDrawdowns \in [Receivers -> Nat]
      /\ Indexed(drawDownRefs, refIndex)
      /\ \A ref \in Refs : drawDowns[ref].principal > 0 <=> ref \in liveRefs
    BY DEF IInv, TypeOK, DrawdownIndex, Indexed
<1>2. \A ref \in Refs : ref \in liveRefs <=> refIndex[ref] # 0
    BY <1>1, LiveIndexed DEF liveRefs
<1> QED
    BY <1>1, <1>2

\* The book is in order when the new array and index agree and index the drawdowns.
LEMMA BookFromIndex ==
    ASSUME drawDowns' \in [Refs -> DrawDown],
           drawDownRefs' \in Seq(Refs),
           refIndex' \in [Refs -> Nat],
           receiverActiveDrawdowns' \in [Receivers -> Nat],
           Indexed(drawDownRefs', refIndex'),
           \A ref \in Refs : drawDowns'[ref].principal > 0 <=> refIndex'[ref] # 0
    PROVE  BookInv'
<1>1. \A ref \in Refs : ref \in liveRefs' <=> refIndex'[ref] # 0
    BY LiveIndexed DEF liveRefs
<1> QED
    BY <1>1 DEF BookInv, DrawdownIndex, Indexed

\* executeDrawdown enters a drawdown at the end of the array and lends what is available.
LEMMA DrawdownStep ==
    ASSUME IInv, NEW ref \in Refs, NEW w \in Receivers, NEW amount \in DrawAmounts,
           NEW days \in SettlementDays, ExecuteDrawdown(ref, w, amount, days)
    PROVE  IInv'
<1> DEFINE p     == accrue(pool, now)
           left  == monus(p.idleExemptAmount, amount)
           until == IF left = 0 THEN 0 ELSE p.idleExemptUntil
           avail == p.availableToDd - amount
           out   == p.outstanding + amount
           q     == [p EXCEPT !.availableToDd = avail, !.outstanding = out,
                              !.idleExemptAmount = left, !.idleExemptUntil = until]
           expiryTs == now + (days - 1) * SECONDS_PER_DAY
           dd    == [principal |-> amount, startTs |-> now, expiryTs |-> expiryTs,
                     receiverWallet |-> w]
<1>1. /\ pool.status = "Active"
      /\ amount > 0 /\ amount <= pool.availableToDd
      /\ drawDowns[ref].principal = 0
      /\ drawDowns' = [drawDowns EXCEPT ![ref] = dd]
      /\ drawDownRefs' = Append(drawDownRefs, ref)
      /\ refIndex' = [refIndex EXCEPT ![ref] = Len(drawDownRefs) + 1]
      /\ receiverActiveDrawdowns' = [receiverActiveDrawdowns EXCEPT ![w] = @ + 1]
      /\ poolBalance' = poolBalance - amount
      /\ UNCHANGED <<now, lpPositions, authorizedReceivers, treasury>>
    BY Zenon DEF ExecuteDrawdown
<1>2. p \in Pool /\ LedgerInv(p) /\ SameLedger(pool, p)
    BY <1>1, Accrued DEF LockedStatuses
<1>3. pool' = q
  <2>1. pool' = [p EXCEPT !.availableToDd = @ - amount, !.outstanding = @ + amount,
                          !.idleExemptAmount = left,
                          !.idleExemptUntil = IF left = 0 THEN 0 ELSE @]
      BY Zenon DEF ExecuteDrawdown
  <2> HIDE DEF p, left
  <2> QED
      BY <2>1, <1>2 DEF Pool
<1> HIDE DEF p
<1>4. amount \in Nat \ {0} /\ now \in Nat
    BY <1>1, Typed, PoolAssumption
<1>5. left \in Int /\ until \in Nat /\ avail \in Int /\ out \in Int
    BY <1>2, <1>4, PoolTypes DEF monus
<1>6. q \in Pool
  <2> HIDE DEF left, until, avail, out
  <2> QED
      BY <1>2, <1>5, PrincipalUpdate, NatUpdate, Zenon
<1>7. LedgerInv(q)
  <2>1. /\ q.status = "Active" /\ q.principal = p.principal
        /\ q.availableToDd = avail /\ q.outstanding = out
        /\ q.collectedPrincipal = p.collectedPrincipal
        /\ q.idleExemptAmount = left /\ q.idleExemptUntil = until
        /\ q.accIdleFees = p.accIdleFees /\ q.accPenalty = p.accPenalty
        /\ SameCoupon(p, q)
    <3> HIDE DEF left, until, avail, out
    <3> QED
        BY <1>1, <1>2 DEF SameLedger, SameCoupon, Pool
  <2> HIDE DEF q
  <2>2. Conserved(q)
      BY <1>1, <1>2, <1>4, <2>1, PoolTypes
      DEF LedgerInv, LockedStatuses, SameLedger, Conserved
  <2>3. IdleSound(q)
    <3>1. amount <= p.availableToDd /\ IdleSound(p)
        BY <1>1, <1>2 DEF SameLedger, LedgerInv
    <3> QED
        BY <3>1, <1>2, <1>4, <2>1, PoolTypes DEF IdleSound, monus
  <2> QED
      BY <1>2, <2>1, <2>2, <2>3
      DEF LedgerInv, LockedStatuses, SameCoupon, CouponFirst, WoundDown
<1> HIDE DEF q
<1>8. dd \in DrawDown
  <2>1. days - 1 \in Nat /\ SECONDS_PER_DAY \in Nat
      BY PoolAssumption, MathLibAssumption
  <2>2. (days - 1) * SECONDS_PER_DAY \in Nat
      BY <2>1, MulNat
  <2>3. expiryTs \in Nat
      BY <2>2, <1>4
  <2> HIDE DEF expiryTs
  <2> QED
      BY <1>4, <2>3 DEF DrawDown
<1>9. refIndex[ref] = 0
    BY <1>1, BookTyped
<1>10. /\ drawDownRefs' \in Seq(Refs) /\ refIndex' \in [Refs -> Nat]
       /\ Indexed(drawDownRefs', refIndex')
       /\ \A r \in Refs : refIndex'[r] # 0 <=> refIndex[r] # 0 \/ r = ref
    BY <1>1, <1>9, BookTyped, PushIndexed
<1>11. drawDowns' \in [Refs -> DrawDown] /\ receiverActiveDrawdowns' \in [Receivers -> Nat]
    BY <1>1, <1>8, BookTyped
<1>12. \A r \in Refs : drawDowns'[r].principal > 0 <=> refIndex'[r] # 0
    BY <1>1, <1>4, <1>10, BookTyped
<1>13. BookInv'
    BY <1>10, <1>11, <1>12, BookFromIndex
<1>14. poolBalance' \in Int
    BY <1>1, <1>4, Typed
<1> QED
    BY <1>1, <1>3, <1>6, <1>7, <1>13, <1>14, Typed, ChangeBook

\* Interest and penalty of a drawdown are never negative, whenever it is repaid.
LEMMA ChargeNat ==
    ASSUME NEW dd \in DrawDown, NEW t \in Nat
    PROVE  financeCharge(dd, t) \in Nat
<1> DEFINE start     == penaltyStartDay(dd)
           daysTotal == elapsedDays(dd, t) + 1
           std       == least(daysTotal, start)
           stdDays   == IF std < MinDdDays THEN MinDdDays ELSE std
           penDays   == monus(daysTotal, start)
           rate      == stdDays * UtilizedRateDaily + penDays * PenaltyRateDaily
<1>1. dd.principal \in Nat /\ dd.startTs \in Nat /\ dd.expiryTs \in Nat
    BY DEF DrawDown
<1>2. start \in Int
  <2>1. (dd.expiryTs - dd.startTs) \div SECONDS_PER_DAY \in Int
      BY <1>1, MathLibAssumption
  <2> QED
      BY <2>1, PoolAssumption DEF penaltyStartDay, least
<1>3. daysTotal \in Int
    BY <1>1, DayOfNat DEF elapsedDays
<1> HIDE DEF start, daysTotal
<1>4. stdDays \in Nat /\ penDays \in Nat
    BY <1>2, <1>3, PoolAssumption DEF least, monus
<1> HIDE DEF stdDays, penDays
<1>5. rate \in Nat
  <2>1. stdDays * UtilizedRateDaily \in Nat /\ penDays * PenaltyRateDaily \in Nat
      BY <1>4, MulNat, PoolAssumption
  <2> QED
      BY <2>1
<1> HIDE DEF rate
<1>6. mulDiv(dd.principal, rate, WAD) \in Nat
    BY <1>1, <1>5, MulDivNat, Denominators
<1> QED
    BY <1>6 DEF financeCharge, rate, stdDays, penDays, std, start, daysTotal

\* repay returns lent principal, and removes a settled drawdown by swap and pop.
LEMMA RepayStep ==
    ASSUME IInv, NEW ref \in Refs, Repay(ref)
    PROVE  IInv'
<1> DEFINE dd     == drawDowns[ref]
           charge == financeCharge(dd, now)
           a      == accrue(pool, now)
           r      == returnPrincipal(a, dd.principal, now)
           p      == allocate(r, charge, now)
           last   == Len(drawDownRefs)
<1>1. /\ pool.status = "Active"
      /\ dd.principal > 0 /\ refIndex[ref] > 0
      /\ receiverActiveDrawdowns' =
             [receiverActiveDrawdowns EXCEPT ![dd.receiverWallet] = monus(@, 1)]
      /\ pool' = mature(p, treasury, now)
      /\ Settle(p, dd.principal + charge, 0)
      /\ UNCHANGED <<now, lpPositions, authorizedReceivers>>
    BY Zenon DEF Repay
<1>2. /\ drawDownRefs' =
             SubSeq([drawDownRefs EXCEPT ![refIndex[ref]] = drawDownRefs[last]], 1, last - 1)
      /\ refIndex' = [refIndex EXCEPT ![drawDownRefs[last]] = refIndex[ref], ![ref] = 0]
      /\ drawDowns' = [drawDowns EXCEPT ![ref] = NoDrawDown]
    BY Zenon DEF Repay, removeDrawDown
<1>3. a \in Pool /\ LedgerInv(a) /\ a.status = "Active"
    BY <1>1, Accrued DEF LockedStatuses, SameLedger
<1> HIDE DEF a
<1>4. dd \in DrawDown /\ dd.principal \in Nat \ {0} /\ now \in Nat
    BY <1>1, BookTyped, Typed DEF DrawDown
<1>5. charge \in Nat
    BY <1>4, ChargeNat
<1> HIDE DEF dd, charge
<1>6. /\ r \in Pool /\ r.status = "Active" /\ SameCoupon(a, r)
      /\ Conserved(r) /\ IdleSound(r)
    BY <1>3, <1>4, ReturnPool DEF LedgerInv, LockedStatuses
<1>7. CouponFirst(r)
    BY <1>3, <1>6 DEF LedgerInv, CouponFirst, SameCoupon
<1> HIDE DEF r
<1>8. p \in Pool /\ SameLedger(r, p) /\ SameIdle(r, p) /\ CouponFirst(p)
    BY <1>4, <1>5, <1>6, <1>7, AllocatePool
<1> HIDE DEF p
<1>9. LedgerInv(p) /\ p.status \in LockedStatuses
    BY <1>6, <1>8
    DEF LedgerInv, LockedStatuses, SameLedger, SameIdle, IdleSound, Conserved, WoundDown
<1>10. pool' \in Pool /\ LedgerInv(pool')
    BY <1>1, <1>8, <1>9, MatureLedger, Typed
<1>11. treasury' \in TreasuryState /\ poolBalance' \in Int
  <2>1. dd.principal + charge \in Int /\ 0 \in Int
      BY <1>4, <1>5
  <2> QED
      BY <2>1, <1>1, <1>8, Typed, SettleTypes
<1>12. /\ drawDownRefs' \in Seq(Refs) /\ refIndex' \in [Refs -> Nat]
       /\ Indexed(drawDownRefs', refIndex')
       /\ \A x \in Refs : refIndex'[x] # 0 <=> refIndex[x] # 0 /\ x # ref
  <2> DEFINE s2 == SubSeq([drawDownRefs EXCEPT ![refIndex[ref]] = drawDownRefs[last]],
                          1, last - 1)
             I2 == [refIndex EXCEPT ![drawDownRefs[last]] = refIndex[ref], ![ref] = 0]
  <2>1. /\ drawDownRefs \in Seq(Refs) /\ refIndex \in [Refs -> Nat]
        /\ Indexed(drawDownRefs, refIndex) /\ refIndex[ref] # 0
      BY <1>1, BookTyped
  <2>2. /\ s2 \in Seq(Refs) /\ I2 \in [Refs -> Nat]
        /\ Indexed(s2, I2)
        /\ \A x \in Refs : I2[x] # 0 <=> refIndex[x] # 0 /\ x # ref
      BY <2>1, SwapAndPop, Zenon
  <2>3. drawDownRefs' = s2 /\ refIndex' = I2
      BY <1>2
  <2> HIDE DEF s2, I2
  <2> QED
      BY <2>2, <2>3
<1>13. NoDrawDown \in DrawDown /\ NoDrawDown.principal = 0
    BY DEF NoDrawDown, DrawDown
<1>14. drawDowns' \in [Refs -> DrawDown]
    BY <1>2, <1>13, BookTyped
<1>15. receiverActiveDrawdowns' \in [Receivers -> Nat]
  <2>1. \A n \in Nat : monus(n, 1) \in Nat
      BY DEF monus
  <2> QED
      BY <2>1, <1>1, BookTyped
<1>16. \A x \in Refs : drawDowns'[x].principal > 0 <=> refIndex'[x] # 0
    BY <1>2, <1>12, <1>13, BookTyped
<1>17. BookInv'
    BY <1>12, <1>14, <1>15, <1>16, BookFromIndex
<1> QED
    BY <1>1, <1>10, <1>11, <1>17, Typed, ChangeBook

-----------------------------------------------------------------------------
(* The theorems *)

\* A pool starts in the inductive invariant.
LEMMA InitIInv == Init => IInv
<1> SUFFICES ASSUME Init PROVE IInv
    OBVIOUS
<1>1. now \in Nat
    BY PoolAssumption DEF Init
<1>2. fMaturityOf(now) \in Nat
  <2> DEFINE raw == now + FundingDurationSecs
             rem == raw % SECONDS_PER_DAY
  <2>1. raw \in Nat
      BY <1>1, PoolAssumption
  <2> HIDE DEF raw
  <2>2. rem \in Int /\ rem < SECONDS_PER_DAY
      BY <2>1, MathLibAssumption
  <2> HIDE DEF rem
  <2>3. raw + (SECONDS_PER_DAY - rem) \in Nat
      BY <2>1, <2>2, MathLibAssumption
  <2> QED
      BY <2>1, <2>3 DEF fMaturityOf, raw, rem
<1>3. pool \in Pool /\ LedgerInv(pool)
    BY <1>1, <1>2 DEF Init, Pool, Statuses, LedgerInv, LockedStatuses, Unlent, IdleSound,
                      CouponFirst, WoundDown
<1>4. lpPositions \in [LPs -> LPPosition]
    BY DEF Init, LPPosition
<1>5. /\ drawDowns \in [Refs -> DrawDown] /\ drawDownRefs \in Seq(Refs)
      /\ refIndex \in [Refs -> Nat] /\ receiverActiveDrawdowns \in [Receivers -> Nat]
      /\ DrawdownIndex
    BY DEF Init, DrawDown, NoDrawDown, DrawdownIndex, liveRefs
<1>6. authorizedReceivers \in SUBSET Receivers /\ poolBalance \in Int
    BY PoolAssumption DEF Init
<1>7. treasury \in TreasuryState
    BY TreasuryAssumption DEF Init, TreasuryInit, TreasuryState
<1> QED
    BY <1>1, <1>3, <1>4, <1>5, <1>6, <1>7 DEF IInv, TypeOK

\* Every call keeps the inductive invariant.
LEMMA NextIInv == IInv /\ [Next]_vars => IInv'
<1> SUFFICES ASSUME IInv, [Next]_vars PROVE IInv'
    OBVIOUS
<1>1. CASE Tick
    BY <1>1, TickStep
<1>2. CASE LpNext
    BY <1>2, DepositStep, WithdrawStep, ClaimYieldStep, ClaimPrincipalStep, FinalizeStep
    DEF LpNext
<1>3. CASE AgentNext
    BY <1>3, DrawdownStep, DeclareDefaultStep, BreakerStep, ReceiverStep DEF AgentNext
<1>4. CASE PspNext
    BY <1>4, RepayStep, PayFeesStep DEF PspNext
<1>5. CASE MultisigNext
    BY <1>5, SettlePrincipalStep, SettleYieldStep, SweepStep, ReceiverStep, OwnerStep
    DEF MultisigNext
<1>6. CASE UNCHANGED vars
  <2>1. UNCHANGED drawVars
        /\ UNCHANGED <<now, pool, lpPositions, authorizedReceivers, poolBalance, treasury>>
      BY <1>6 DEF vars
  <2> QED
      BY <2>1, Typed, KeepBook
<1> QED
    BY <1>1, <1>2, <1>3, <1>4, <1>5, <1>6 DEF Next

\* Every reachable state satisfies the inductive invariant: the types, the drawdown index
\* and the ledger of the pool.
THEOREM Invariance == Spec => []IInv
BY InitIInv, NextIInv, PTL DEF Spec

\* Every call of the contract leaves the storage of the pool, the positions, the book of
\* drawdowns and the reserve with the types they are declared with.
THEOREM TypeCorrect == Spec => []TypeOK
<1>1. IInv => TypeOK
    BY DEF IInv
<1> QED
    BY <1>1, Invariance, PTL

\* The array of live references, its index and the drawdowns agree after any sequence of
\* executeDrawdown and repay.
THEOREM DrawdownIndexCorrect == Spec => []DrawdownIndex
<1>1. IInv => DrawdownIndex
    BY DEF IInv
<1> QED
    BY <1>1, Invariance, PTL

\* No call loses or doubles principal: from the lock on, what is undrawn, lent out and
\* collected adds up to what the LPs put in.
THEOREM PrincipalConserved == Spec => []PrincipalConservation
<1>1. IInv => PrincipalConservation
    BY DEF IInv, LedgerInv, LockedStatuses, Conserved, PrincipalConservation, Locked
<1> QED
    BY <1>1, Invariance, PTL

\* executeDrawdown, repay, the billing of idle days and maturity never leave more capital
\* exempt from idle fees than is undrawn.
THEOREM ExemptionSound == Spec => []ExemptWithinAvailable
<1>1. IInv => ExemptWithinAvailable
    BY DEF IInv, LedgerInv, IdleSound, ExemptWithinAvailable
<1> QED
    BY <1>1, Invariance, PTL

\* allocate never sets surplus aside while the coupon is short, and neither the rebase of
\* a default nor the reserve's settlement makes the coupon short again.
THEOREM CouponCoveredFirst == Spec => []ReservedOnlyAfterYield
<1>1. IInv => ReservedOnlyAfterYield
    BY DEF IInv, LedgerInv, CouponFirst, ReservedOnlyAfterYield
<1> QED
    BY <1>1, Invariance, PTL

-----------------------------------------------------------------------------
(* The steps of the line, on the storage *)

SameLine(p, q) ==
    /\ q.status = p.status
    /\ q.principal = p.principal
    /\ q.availableToDd = p.availableToDd
    /\ q.outstanding = p.outstanding
    /\ q.collectedPrincipal = p.collectedPrincipal
    /\ q.pspReleased = p.pspReleased

\* Nothing but the principal, the status and the hold on the PSP changes.
SameLent(p, q) ==
    /\ q.availableToDd = p.availableToDd
    /\ q.outstanding = p.outstanding
    /\ q.collectedPrincipal = p.collectedPrincipal

Funds(p, q) ==
    /\ p.status = "Funding" /\ q.status = "Funding"
    /\ q.principal \in Int /\ q.pspReleased = p.pspReleased /\ SameLent(p, q)

Locks(p, q) ==
    /\ p.status = "Funding" /\ q.status = "Active"
    /\ q.availableToDd = p.principal /\ q.principal = p.principal
    /\ q.outstanding = p.outstanding /\ q.collectedPrincipal = p.collectedPrincipal
    /\ q.pspReleased = p.pspReleased

Fails(p, q) ==
    /\ p.status = "Funding" /\ q.status = "Unsuccessful"
    /\ q.principal <= p.principal /\ q.pspReleased = TRUE /\ SameLent(p, q)

Leaves(p, q) ==
    /\ p.status = "Unsuccessful" /\ q.status = "Unsuccessful"
    /\ q.principal <= p.principal /\ q.pspReleased = p.pspReleased /\ SameLent(p, q)

Draws(p, q) ==
    /\ p.status = "Active" /\ q.status = "Active" /\ q.principal = p.principal
    /\ q.outstanding > p.outstanding
    /\ q.availableToDd = p.availableToDd - (q.outstanding - p.outstanding)
    /\ q.availableToDd >= 0
    /\ q.collectedPrincipal = p.collectedPrincipal /\ q.pspReleased = p.pspReleased

Returns(p, q) ==
    /\ p.status = "Active" /\ q.status = "Active" /\ q.principal = p.principal
    /\ q.outstanding < p.outstanding
    /\ q.availableToDd = p.availableToDd + (p.outstanding - q.outstanding)
    /\ q.collectedPrincipal = p.collectedPrincipal /\ q.pspReleased = p.pspReleased

Winds(p, q) ==
    /\ p.status \in {"Active", "Default"}
    /\ q.status = p.status \/ <<p.status, q.status>> \in Line!Moves
    /\ q.principal = p.principal
    /\ q.availableToDd = 0
    /\ q.collectedPrincipal + q.outstanding
           = p.collectedPrincipal + p.outstanding + p.availableToDd
    /\ q.status = "Closed" => q.collectedPrincipal >= q.principal
    /\ q.pspReleased = (p.pspReleased \/ q.status = "Closed")

LineStep(p, q) ==
    \/ SameLine(p, q) \/ Funds(p, q) \/ Locks(p, q) \/ Fails(p, q) \/ Leaves(p, q)
    \/ Draws(p, q) \/ Returns(p, q) \/ Winds(p, q)

\* A step on the storage is a step of the line, or none.
LEMMA StepImplements ==
    ASSUME LineStep(pool, pool')
    PROVE  [Line!Next]_(Line!lineVars)
BY DEF LineStep, SameLine, SameLent, Funds, Locks, Fails, Leaves, Draws, Returns, Winds,
    Line!Next, Line!lineVars, Line!Fund, Line!Lock, Line!Fail, Line!Leave, Line!Draw,
    Line!Return, Line!WindDown, Line!Moves

\* The ledger is more than the line.
LEMMA LedgerLine ==
    ASSUME NEW p, NEW q, SameLedger(p, q)
    PROVE  SameLine(p, q)
BY DEF SameLedger, SameLine

-----------------------------------------------------------------------------
(* Operators *)

\* _mature winds the line down, and does nothing before finality.
LEMMA MatureWinds ==
    ASSUME NEW p \in Pool, NEW tr \in TreasuryState, NEW t \in Nat
    PROVE  IF matures(p, t) THEN Winds(p, mature(p, tr, t)) ELSE mature(p, tr, t) = p
<1> DEFINE u == collectUndrawn(p)
           c == [u EXCEPT !.status = "Closed"]
           s == settleTerminalSplit(c, tr)
           q == releasePsp(s)
<1>1. /\ u \in Pool /\ u.status = p.status /\ u.principal = p.principal
      /\ u.pspReleased = p.pspReleased /\ u.availableToDd = 0
      /\ u.outstanding = p.outstanding
      /\ u.collectedPrincipal = p.collectedPrincipal + p.availableToDd
    BY UndrawnPool
<1>2. p.collectedPrincipal \in Int /\ p.availableToDd \in Int /\ p.outstanding \in Int
      /\ p.pspReleased \in BOOLEAN
    BY PoolTypes DEF Pool
<1>3. CASE closes(p, t)
  <2>1. mature(p, tr, t) = q /\ matures(p, t) /\ p.status = "Active" /\ whole(u)
      BY <1>3, Zenon DEF mature, closes, matures
  <2> HIDE DEF u
  <2>2. c \in Pool
      BY <1>1, StatusUpdate, Zenon DEF Statuses
  <2>3. /\ c.status = "Closed" /\ c.principal = u.principal /\ c.availableToDd = 0
        /\ c.outstanding = u.outstanding /\ c.collectedPrincipal = u.collectedPrincipal
      BY <1>1 DEF Pool
  <2> HIDE DEF c
  <2>4. s \in Pool /\ SameLedger(c, s)
      BY <2>2, SplitPool
  <2> HIDE DEF s
  <2>5. /\ q.status = s.status /\ q.principal = s.principal
        /\ q.availableToDd = s.availableToDd /\ q.outstanding = s.outstanding
        /\ q.collectedPrincipal = s.collectedPrincipal /\ q.pspReleased = TRUE
      BY <2>4 DEF releasePsp, Pool
  <2> HIDE DEF q
  <2>6. u.collectedPrincipal >= u.principal
      BY <2>1 DEF whole
  <2>7. q.pspReleased = (p.pspReleased \/ q.status = "Closed")
    <3>1. q.status = "Closed"
        BY <2>3, <2>4, <2>5 DEF SameLedger
    <3> QED
        BY <3>1, <2>5, Zenon
  <2>8. Winds(p, q)
      BY <1>1, <1>2, <2>1, <2>3, <2>4, <2>5, <2>6, <2>7 DEF Winds, SameLedger, Line!Moves
  <2> QED
      BY <2>1, <2>8
<1>4. CASE ~closes(p, t) /\ matures(p, t)
  <2>1. mature(p, tr, t) = u /\ p.status = "Active"
      BY <1>4, Zenon DEF mature, matures
  <2> HIDE DEF u
  <2>2. Winds(p, u)
      BY <1>1, <1>2, <2>1 DEF Winds
  <2> QED
      BY <1>4, <2>1, <2>2
<1>5. CASE ~matures(p, t)
  <2>1. mature(p, tr, t) = p
      BY <1>5, Zenon DEF mature, closes
  <2> QED
      BY <1>5, <2>1
<1> QED
    BY <1>3, <1>4, <1>5

\* The end of a default closes the line, if it closes anything, when nothing is missing.
LEMMA ResolveWinds ==
    ASSUME NEW p \in Pool, p.status = "Default", p.availableToDd = 0
    PROVE  Winds(p, resolveDefaultIfWhole(p))
<1> DEFINE q == releasePsp([p EXCEPT !.status = "Closed"])
<1>1. p.collectedPrincipal \in Int /\ p.outstanding \in Int /\ p.pspReleased \in BOOLEAN
    BY PoolTypes DEF Pool
<1>2. CASE whole(p)
  <2>1. resolveDefaultIfWhole(p) = q /\ p.collectedPrincipal >= p.principal
      BY <1>2 DEF resolveDefaultIfWhole, whole
  <2>2. /\ q.status = "Closed" /\ q.principal = p.principal
        /\ q.availableToDd = p.availableToDd /\ q.outstanding = p.outstanding
        /\ q.collectedPrincipal = p.collectedPrincipal
      BY ClosePool DEF Statuses
  <2>3. q.pspReleased = TRUE
      BY DEF releasePsp, Pool
  <2> HIDE DEF q
  <2>4. q.pspReleased = (p.pspReleased \/ q.status = "Closed")
      BY <2>2, <2>3, Zenon
  <2>5. <<p.status, q.status>> \in Line!Moves
      BY <2>2 DEF Line!Moves
  <2>6. Winds(p, q)
      BY <1>1, <2>1, <2>2, <2>4, <2>5 DEF Winds
  <2> QED
      BY <2>1, <2>6
<1>3. CASE ~whole(p)
  <2>1. resolveDefaultIfWhole(p) = p
      BY <1>3 DEF resolveDefaultIfWhole
  <2> QED
      BY <1>1, <2>1 DEF Winds
<1> QED
    BY <1>2, <1>3

\* A repayment returns capital before finality and winds the line down after it.
LEMMA ReturnLine ==
    ASSUME NEW p \in Pool, NEW amount \in Nat \ {0}, NEW t \in Nat
    PROVE  LET r == returnPrincipal(p, amount, t)
           IN  /\ r.status = p.status /\ r.principal = p.principal
               /\ r.pspReleased = p.pspReleased /\ r.poolFinalityTs = p.poolFinalityTs
               /\ r.outstanding = p.outstanding - amount
               /\ IF t < p.poolFinalityTs
                  THEN /\ r.availableToDd = p.availableToDd + amount
                       /\ r.collectedPrincipal = p.collectedPrincipal
                  ELSE /\ r.availableToDd = p.availableToDd
                       /\ r.collectedPrincipal = p.collectedPrincipal + amount
BY DEF returnPrincipal, Pool

\* The funding window closes by the lock, by failure, or not yet.
LEMMA FinalizeLine ==
    ASSUME NEW p \in Pool, NEW t \in Nat
    PROVE  LET f == globalCheckpoint(triggerFinalizeFunding(p, t), t)
               g == triggerFinalizeFunding(p, t)
           IN  /\ SameLine(p, g) \/ Locks(p, g) \/ Fails(p, g)
               /\ g \in Pool /\ f \in Pool /\ SameLine(g, f)
<1> DEFINE c == globalCheckpoint(p, t)
           u == releasePsp([c EXCEPT !.status = "Unsuccessful"])
           g == triggerFinalizeFunding(p, t)
<1>1. c \in Pool /\ SameLedger(p, c)
    BY CheckpointPool
<1>2. \/ g = p
      \/ p.status = "Funding" /\ g = lock(c, t)
      \/ p.status = "Funding" /\ g = u
    BY Zenon DEF triggerFinalizeFunding, finalizeFunding
<1>3. g \in Pool
    BY FinalizePool
<1>4. globalCheckpoint(g, t) \in Pool /\ SameLine(g, globalCheckpoint(g, t))
    BY <1>3, CheckpointPool, LedgerLine
<1>5. SameLine(p, p)
    BY DEF SameLine
<1>6. ASSUME p.status = "Funding" PROVE Locks(p, lock(c, t))
  <2> HIDE DEF c
  <2>1. /\ lock(c, t).status = "Active" /\ lock(c, t).principal = c.principal
        /\ lock(c, t).availableToDd = c.principal
        /\ lock(c, t).outstanding = c.outstanding
        /\ lock(c, t).collectedPrincipal = c.collectedPrincipal
        /\ lock(c, t).pspReleased = c.pspReleased
      BY <1>1, LockPool
  <2> QED
      BY <1>1, <1>6, <2>1 DEF SameLedger, Locks
<1>7. ASSUME p.status = "Funding" PROVE Fails(p, u)
  <2> HIDE DEF c
  <2>1. /\ u.status = "Unsuccessful" /\ u.principal = c.principal
        /\ u.availableToDd = c.availableToDd
        /\ u.outstanding = c.outstanding /\ u.collectedPrincipal = c.collectedPrincipal
        /\ u.pspReleased = TRUE
      BY <1>1 DEF releasePsp, Pool
  <2> HIDE DEF u
  <2>2. p.principal \in Int
      BY PoolTypes
  <2> QED
      BY <1>1, <1>7, <2>1, <2>2 DEF SameLedger, Fails, SameLent
<1> HIDE DEF c, u, g
<1>8. SameLine(p, g) \/ Locks(p, g) \/ Fails(p, g)
    BY <1>2, <1>5, <1>6, <1>7
<1> QED
    BY <1>3, <1>4, <1>8 DEF g

-----------------------------------------------------------------------------
(* One lemma per call *)

\* A deposit funds the line.
LEMMA DepositLine ==
    ASSUME IInv, NEW lp \in LPs, NEW amount \in LpAmounts, Deposit(lp, amount)
    PROVE  Funds(pool, pool')
<1> DEFINE g == triggerFinalizeFunding(pool, now)
           f == globalCheckpoint(g, now)
<1>1. /\ f.status = "Funding"
      /\ pool' = [f EXCEPT !.principal = @ + amount]
    BY Zenon DEF Deposit
<1>2. /\ SameLine(pool, g) \/ Locks(pool, g) \/ Fails(pool, g)
      /\ f \in Pool /\ SameLine(g, f)
    BY Typed, FinalizeLine
<1> HIDE DEF f, g
<1>3. /\ pool'.status = f.status /\ pool'.principal = f.principal + amount
      /\ SameLent(f, pool') /\ pool'.pspReleased = f.pspReleased
    BY <1>1, <1>2 DEF SameLent, Pool
<1>4. pool'.principal \in Int
    BY <1>2, <1>3, PoolTypes, PoolAssumption
<1> QED
    BY <1>1, <1>2, <1>3, <1>4 DEF SameLine, Locks, Fails, Funds, SameLent

\* A withdrawal funds the line by less, or leaves it after it failed.
LEMMA WithdrawLine ==
    ASSUME IInv, NEW lp \in LPs, NEW amount \in LpAmounts, Withdraw(lp, amount)
    PROVE  Funds(pool, pool') \/ Fails(pool, pool') \/ Leaves(pool, pool')
<1> DEFINE g == triggerFinalizeFunding(pool, now)
           f == globalCheckpoint(g, now)
           c == lpCheckpoint(lpPositions[lp], f, now)
           x == mulDiv(c.fundingCredit, amount, c.principal)
<1>1. /\ f.status \in {"Funding", "Unsuccessful"} /\ amount > 0
      /\ pool' = [f EXCEPT !.fundingCredit = @ - x, !.principal = @ - amount]
    BY Zenon DEF Withdraw
<1> HIDE DEF x, c
<1>2. /\ SameLine(pool, g) \/ Locks(pool, g) \/ Fails(pool, g)
      /\ f \in Pool /\ SameLine(g, f)
    BY Typed, FinalizeLine
<1> HIDE DEF f, g
<1>3. /\ pool'.status = f.status /\ pool'.principal = f.principal - amount
      /\ SameLent(f, pool') /\ pool'.pspReleased = f.pspReleased
    BY <1>1, <1>2 DEF SameLent, Pool
<1>4. f.principal \in Int /\ pool.principal \in Int /\ amount \in Nat
    BY <1>2, Typed, PoolTypes, PoolAssumption
<1>5. pool'.principal \in Int /\ pool'.principal <= f.principal
    BY <1>1, <1>3, <1>4
<1>6. CASE SameLine(pool, g)
    BY <1>1, <1>2, <1>3, <1>5, <1>6 DEF SameLine, Funds, Leaves, SameLent
<1>7. CASE Locks(pool, g)
    BY <1>1, <1>2, <1>7 DEF SameLine, Locks
<1>8. CASE Fails(pool, g)
  <2>1. g.principal \in Int /\ f.principal = g.principal
      BY <1>2, <1>4 DEF SameLine
  <2> QED
      BY <1>2, <1>3, <1>4, <1>5, <1>8, <2>1 DEF SameLine, Fails, SameLent
<1> QED
    BY <1>2, <1>6, <1>7, <1>8

\* A claim of the coupon winds an active line down at finality, and else leaves it alone.
LEMMA ClaimYieldLine ==
    ASSUME IInv, NEW lp \in LPs, ClaimYield(lp)
    PROVE  SameLine(pool, pool') \/ Winds(pool, pool')
<1> DEFINE a   == accrue(pool, now)
           pos == settleLpDollarSeconds(lpPositions[lp], a)
           p   == mature(a, treasury, now)
           base    == least(claimableBase(pos, p, now), p.collectedYield - p.claimedYield)
           overrun == least(claimableOverrun(pos, p),
                            p.collectedOverrunYield - p.claimedOverrunYield)
           bonus   == least(claimableBonus(pos, p), p.collectedBonus - p.claimedBonus)
<1>1. /\ pool.status \in Claimable
      /\ pool' = [p EXCEPT !.claimedYield = @ + base, !.claimedOverrunYield = @ + overrun,
                           !.claimedBonus = @ + bonus]
    BY Zenon DEF ClaimYield
<1>2. a \in Pool /\ LedgerInv(a) /\ a.status \in LockedStatuses /\ SameLine(pool, a)
    BY <1>1, Accrued, LedgerLine DEF Claimable, LockedStatuses, SameLedger
<1> HIDE DEF a
<1>3. p \in Pool /\ (Winds(a, p) \/ SameLine(a, p))
    BY <1>2, MatureLedger, MatureWinds, Typed DEF SameLine
<1> HIDE DEF p, base, overrun, bonus
<1>4. SameLine(p, pool')
    BY <1>1, <1>3 DEF SameLine, Pool
<1> QED
    BY <1>2, <1>3, <1>4 DEF SameLine, Winds

\* A claim of principal winds an active line down at finality, and else leaves it alone.
LEMMA ClaimPrincipalLine ==
    ASSUME IInv, NEW lp \in LPs, ClaimPrincipal(lp)
    PROVE  SameLine(pool, pool') \/ Winds(pool, pool')
<1> DEFINE a         == accrueIdleFees(pool, now)
           p         == mature(a, treasury, now)
           claimable == monus(mulDiv(lpPositions[lp].principal, p.collectedPrincipal,
                                     p.principal),
                              lpPositions[lp].claimedPrincipal)
<1>1. /\ pool.status \in Claimable
      /\ pool' = [p EXCEPT !.claimedPrincipal = @ + claimable]
    BY Zenon DEF ClaimPrincipal
<1>2. a \in Pool /\ LedgerInv(a) /\ a.status \in LockedStatuses /\ SameLine(pool, a)
    BY <1>1, Accrued, LedgerLine DEF Claimable, LockedStatuses, SameLedger
<1> HIDE DEF a
<1>3. p \in Pool /\ (Winds(a, p) \/ SameLine(a, p))
    BY <1>2, MatureLedger, MatureWinds, Typed DEF SameLine
<1> HIDE DEF p, claimable
<1>4. SameLine(p, pool')
    BY <1>1, <1>3 DEF SameLine, Pool
<1> QED
    BY <1>2, <1>3, <1>4 DEF SameLine, Winds

\* A drawdown draws.
LEMMA DrawdownLine ==
    ASSUME IInv, NEW ref \in Refs, NEW w \in Receivers, NEW amount \in DrawAmounts,
           NEW days \in SettlementDays, ExecuteDrawdown(ref, w, amount, days)
    PROVE  Draws(pool, pool')
<1> DEFINE p    == accrue(pool, now)
           left == monus(p.idleExemptAmount, amount)
<1>1. /\ pool.status = "Active"
      /\ amount > 0 /\ amount <= pool.availableToDd
      /\ pool' = [p EXCEPT !.availableToDd = @ - amount, !.outstanding = @ + amount,
                           !.idleExemptAmount = left,
                           !.idleExemptUntil = IF left = 0 THEN 0 ELSE @]
    BY Zenon DEF ExecuteDrawdown
<1>2. p \in Pool /\ SameLedger(pool, p)
    BY <1>1, Accrued DEF LockedStatuses
<1> HIDE DEF p, left
<1>3. /\ pool'.status = p.status /\ pool'.principal = p.principal
      /\ pool'.availableToDd = p.availableToDd - amount
      /\ pool'.outstanding = p.outstanding + amount
      /\ pool'.collectedPrincipal = p.collectedPrincipal
      /\ pool'.pspReleased = p.pspReleased
    BY <1>1, <1>2 DEF Pool
<1>4. amount \in Nat /\ p.availableToDd \in Int /\ p.outstanding \in Int
    BY <1>2, PoolTypes, PoolAssumption
<1> QED
    BY <1>1, <1>2, <1>3, <1>4 DEF SameLedger, Draws

\* A repayment returns capital before finality, and winds the line down from then on.
LEMMA RepayLine ==
    ASSUME IInv, NEW ref \in Refs, Repay(ref)
    PROVE  Returns(pool, pool') \/ Winds(pool, pool')
<1> DEFINE dd     == drawDowns[ref]
           charge == financeCharge(dd, now)
           a      == accrue(pool, now)
           r      == returnPrincipal(a, dd.principal, now)
           p      == allocate(r, charge, now)
<1>1. /\ pool.status = "Active"
      /\ dd.principal > 0
      /\ pool' = mature(p, treasury, now)
    BY Zenon DEF Repay
<1>2. a \in Pool /\ SameLedger(pool, a) /\ LedgerInv(a)
    BY <1>1, Accrued DEF LockedStatuses
<1> HIDE DEF a
<1>3. dd \in DrawDown /\ dd.principal \in Nat \ {0} /\ now \in Nat
    BY <1>1, BookTyped, Typed DEF DrawDown
<1>4. charge \in Nat
    BY <1>3, ChargeNat
<1> DEFINE amount == dd.principal
<1> HIDE DEF dd, charge
<1>5. /\ r.status = a.status /\ r.principal = a.principal
      /\ r.pspReleased = a.pspReleased /\ r.poolFinalityTs = a.poolFinalityTs
      /\ r.outstanding = a.outstanding - amount
      /\ IF now < a.poolFinalityTs
         THEN /\ r.availableToDd = a.availableToDd + amount
              /\ r.collectedPrincipal = a.collectedPrincipal
         ELSE /\ r.availableToDd = a.availableToDd
              /\ r.collectedPrincipal = a.collectedPrincipal + amount
    BY <1>2, <1>3, ReturnLine
<1>6. r \in Pool
    BY <1>2, <1>3, ReturnPool
<1> HIDE DEF r
<1>7. p \in Pool /\ SameLedger(r, p)
    BY <1>3, <1>4, <1>6, AllocatePool
<1> HIDE DEF p
<1>8. IF matures(p, now) THEN Winds(p, pool') ELSE pool' = p
    BY <1>1, <1>7, MatureWinds, Typed
<1>9. /\ a.availableToDd \in Int /\ a.outstanding \in Int /\ a.collectedPrincipal \in Int
      /\ amount \in Nat \ {0} /\ a.poolFinalityTs \in Nat
    BY <1>2, <1>3, PoolTypes DEF Pool
<1> HIDE DEF amount
<1>10. CASE matures(p, now)
    BY <1>1, <1>2, <1>5, <1>7, <1>8, <1>9, <1>10 DEF SameLedger, Winds
<1>11. CASE ~matures(p, now)
  <2>1. now < a.poolFinalityTs
      BY <1>1, <1>2, <1>3, <1>5, <1>7, <1>9, <1>11 DEF SameLedger, matures
  <2> QED
      BY <1>1, <1>2, <1>5, <1>7, <1>8, <1>9, <1>11, <2>1 DEF SameLedger, Returns
<1> QED
    BY <1>10, <1>11

\* The payment of idle fees winds the line down at finality, and else leaves it alone.
LEMMA PayFeesLine ==
    ASSUME IInv, NEW amount \in PayAmounts, PayAccruedIdleFees(amount)
    PROVE  SameLine(pool, pool') \/ Winds(pool, pool')
<1> DEFINE a    == accrue(pool, now)
           pay  == least(amount, a.accIdleFees + a.accPenalty)
           fees == least(pay, a.accIdleFees)
           f    == a.accIdleFees - fees
           e    == a.accPenalty - (pay - fees)
           q    == [a EXCEPT !.accIdleFees = f, !.accPenalty = e]
           p    == allocate(q, pay, now)
<1>1. pool.status = "Active"
    BY Zenon DEF PayAccruedIdleFees
<1>2. a \in Pool /\ LedgerInv(a) /\ SameLedger(pool, a)
    BY <1>1, Accrued DEF LockedStatuses
<1>3. pool' = a \/ pool' = mature(p, treasury, now)
  <2>1. IF pay = 0 THEN pool' = a
        ELSE pool' = mature(allocate([a EXCEPT !.accIdleFees = @ - fees,
                                               !.accPenalty = @ - (pay - fees)], pay, now),
                            treasury, now)
      BY Zenon DEF PayAccruedIdleFees
  <2> HIDE DEF a, pay, fees
  <2>2. [a EXCEPT !.accIdleFees = @ - fees, !.accPenalty = @ - (pay - fees)] = q
      BY <1>2 DEF Pool
  <2> HIDE DEF q
  <2> QED
      BY <2>1, <2>2
<1> HIDE DEF a
<1>4. a.accIdleFees \in Nat /\ a.accPenalty \in Nat /\ amount \in Nat
    BY <1>2, PoolTypes, PoolAssumption DEF LedgerInv, IdleSound
<1>5. pay \in Nat /\ f \in Int /\ e \in Int
    BY <1>4 DEF least
<1> HIDE DEF pay, f, e
<1>6. q \in Pool
    BY <1>2, <1>5, PrincipalUpdate, Zenon
<1>7. SameLedger(a, q)
    BY <1>2 DEF SameLedger, Pool
<1> HIDE DEF q
<1>8. p \in Pool /\ SameLedger(q, p)
    BY <1>5, <1>6, AllocatePool, Typed
<1> HIDE DEF p
<1>9. pool' = a \/ pool' = p \/ Winds(p, pool')
    BY <1>3, <1>8, MatureWinds, Typed
<1> QED
    BY <1>2, <1>7, <1>8, <1>9 DEF SameLedger, SameLine, Winds

\* A step from a default, or into one, winds the line down when the ledger conserves
\* principal on both sides of it.
LEMMA ConservedWinds ==
    ASSUME NEW p \in Pool, NEW q \in Pool, Conserved(p), Conserved(q),
           p.status \in {"Active", "Default"}, q.status \in {"Default", "Closed"},
           q.principal = p.principal, q.availableToDd = 0,
           q.status = "Closed" => q.collectedPrincipal >= q.principal,
           q.pspReleased = (p.pspReleased \/ q.status = "Closed")
    PROVE  Winds(p, q)
<1>1. /\ p.availableToDd \in Int /\ p.outstanding \in Int /\ p.collectedPrincipal \in Int
      /\ q.availableToDd \in Int /\ q.outstanding \in Int /\ q.collectedPrincipal \in Int
    BY PoolTypes
<1>2. q.collectedPrincipal + q.outstanding
          = p.collectedPrincipal + p.outstanding + p.availableToDd
    BY <1>1 DEF Conserved
<1>3. q.status = p.status \/ <<p.status, q.status>> \in Line!Moves
    BY DEF Line!Moves
<1> QED
    BY <1>2, <1>3 DEF Winds

\* A declared default winds the line down.
LEMMA DeclareDefaultLine ==
    ASSUME IInv, DeclareDefault
    PROVE  Winds(pool, pool')
<1> DEFINE a == accrue(pool, now)
           u == collectUndrawn(a)
           b == rebaseCoupon(u, now)
           p == rescue(b)
           d == [p EXCEPT !.status = "Default"]
<1>1. pool.status = "Active" /\ pool' = resolveDefaultIfWhole(d)
    BY Zenon DEF DeclareDefault
<1>2. a \in Pool /\ SameLedger(pool, a)
    BY <1>1, Accrued DEF LockedStatuses
<1> HIDE DEF a
<1>3. /\ u \in Pool /\ u.principal = a.principal /\ u.pspReleased = a.pspReleased
      /\ u.availableToDd = 0
    BY <1>2, UndrawnPool
<1> HIDE DEF u
<1>4. b \in Pool /\ SameLedger(u, b)
    BY <1>3, RebasePool, Typed
<1> HIDE DEF b
<1>5. /\ p \in Pool /\ p.principal = b.principal /\ p.pspReleased = b.pspReleased
      /\ p.availableToDd = b.availableToDd
    BY <1>4, RescuePool
<1> HIDE DEF p
<1>6. /\ d.status = "Default" /\ d.principal = p.principal
      /\ d.pspReleased = p.pspReleased /\ d.availableToDd = p.availableToDd
    BY <1>5 DEF Pool
<1>7. d \in Pool
    BY <1>5, StatusUpdate, Zenon DEF Statuses
<1> HIDE DEF d
<1>8. Winds(d, pool')
    BY <1>1, <1>2, <1>3, <1>4, <1>5, <1>6, <1>7, ResolveWinds DEF SameLedger
<1>9. pool'.status \in {"Default", "Closed"}
    BY <1>1, <1>6, <1>7, ResolvePool
<1>10. /\ pool' \in Pool /\ Conserved(pool) /\ Conserved(pool')
  <2>1. IInv'
      BY DeclareDefaultStep
  <2>2. pool' \in Pool /\ LedgerInv(pool')
      BY <2>1 DEF IInv, TypeOK
  <2> QED
      BY <2>2, <1>1, <1>9, Typed DEF LedgerInv, LockedStatuses
<1>11. /\ pool'.principal = pool.principal /\ pool'.availableToDd = 0
       /\ pool'.status = "Closed" => pool'.collectedPrincipal >= pool'.principal
       /\ pool'.pspReleased = (pool.pspReleased \/ pool'.status = "Closed")
    BY <1>2, <1>3, <1>4, <1>5, <1>6, <1>8 DEF SameLedger, Winds
<1> QED
    BY <1>1, <1>9, <1>10, <1>11, Typed, ConservedWinds

\* A settlement of principal winds a defaulted line down.
LEMMA SettlePrincipalLine ==
    ASSUME IInv, NEW amount \in PayAmounts, SettleDefaultPrincipal(amount)
    PROVE  SameLine(pool, pool') \/ Winds(pool, pool')
<1> DEFINE owed        == monus(pool.principal, pool.collectedPrincipal)
           asked       == owed - least(amount, owed)
           paid        == least(amount, owed) + drawn(treasury, asked)
           coll        == pool.collectedPrincipal + paid
           out         == pool.outstanding - paid
           q           == [pool EXCEPT !.collectedPrincipal = coll, !.outstanding = out]
<1>1. pool.status = "Default"
    BY Zenon DEF SettleDefaultPrincipal
<1>2. pool' = pool \/ pool' = resolveDefaultIfWhole(q)
  <2>1. \/ pool' = pool
        \/ pool' = resolveDefaultIfWhole([pool EXCEPT !.collectedPrincipal = @ + paid,
                                                      !.outstanding = @ - paid])
      BY Zenon DEF SettleDefaultPrincipal
  <2> HIDE DEF paid
  <2>2. [pool EXCEPT !.collectedPrincipal = @ + paid, !.outstanding = @ - paid] = q
      BY Typed DEF Pool
  <2> HIDE DEF q
  <2> QED
      BY <2>1, <2>2
<1>3. paid \in Int
  <2>1. asked \in Int /\ least(amount, owed) \in Int
      BY Typed, PoolTypes, PoolAssumption DEF monus, least
  <2> HIDE DEF asked
  <2> QED
      BY <2>1, Typed, TreasuryMoves
<1> HIDE DEF paid
<1>4. coll \in Int /\ out \in Int
    BY <1>3, Typed, PoolTypes
<1>5. q \in Pool
  <2> HIDE DEF coll, out
  <2> QED
      BY <1>4, Typed, PrincipalUpdate, Zenon
<1>6. /\ q.status = "Default" /\ q.principal = pool.principal
      /\ q.pspReleased = pool.pspReleased /\ q.availableToDd = pool.availableToDd
      /\ q.collectedPrincipal = coll /\ q.outstanding = out
    BY <1>1, Typed DEF Pool
<1>7. pool.availableToDd = 0
    BY <1>1, Typed DEF LedgerInv, WoundDown
<1> HIDE DEF q
<1>8. Winds(q, resolveDefaultIfWhole(q))
    BY <1>5, <1>6, <1>7, ResolveWinds
<1>9. coll + out = pool.collectedPrincipal + pool.outstanding
    BY <1>3, Typed, PoolTypes
<1>10. SameLine(pool, pool)
    BY DEF SameLine
<1> QED
    BY <1>1, <1>2, <1>6, <1>7, <1>8, <1>9, <1>10 DEF Winds

\* A settlement of yield closes a defaulted line, or leaves it alone.
LEMMA SettleYieldLine ==
    ASSUME IInv, NEW amount \in PayAmounts, SettleDefaultYield(amount)
    PROVE  SameLine(pool, pool') \/ Winds(pool, pool')
<1> DEFINE owed  == yieldShort(pool) + overrunShort(pool)
           asked == owed - least(amount, owed)
           paid  == least(amount, owed) + drawn(treasury, asked)
           q     == fill(pool, paid)
<1>1. pool.status = "Default" /\ (pool' = pool \/ pool' = resolveDefaultIfWhole(q))
    BY Zenon DEF SettleDefaultYield
<1>2. paid \in Int
  <2>1. yieldShort(pool) \in Nat /\ overrunShort(pool) \in Nat
      BY Typed, PoolTypes DEF yieldShort, overrunShort, monus
  <2>2. asked \in Int /\ least(amount, owed) \in Int
      BY <2>1, PoolAssumption DEF least
  <2> HIDE DEF asked
  <2> QED
      BY <2>2, Typed, TreasuryMoves
<1> HIDE DEF paid
<1>3. q \in Pool /\ SameLedger(pool, q)
    BY <1>2, Typed, FillPool
<1> HIDE DEF q
<1>4. q.status = "Default" /\ q.availableToDd = 0
    BY <1>1, <1>3, Typed DEF SameLedger, LedgerInv, WoundDown
<1>5. Winds(q, resolveDefaultIfWhole(q))
    BY <1>3, <1>4, ResolveWinds
<1>6. SameLine(pool, pool)
    BY DEF SameLine
<1> QED
    BY <1>1, <1>3, <1>5, <1>6 DEF SameLedger, SameLine, Winds

\* The calls that touch no capital leave the line alone.
LEMMA OtherLine ==
    ASSUME IInv,
           \/ SweepProtocolFees \/ Tick \/ UNCHANGED vars
           \/ \E w \in ManagedReceivers : AddReceiver(w) \/ RemoveReceiver(w)
           \/ \E b \in BreakerSettings : SetScOverdue(b) \/ SetPaused(b)
           \/ UNCHANGED pool
    PROVE  SameLine(pool, pool')
<1>1. pool \in Pool
    BY Typed
<1>2. CASE UNCHANGED pool
    BY <1>2 DEF SameLine
<1>3. CASE SweepProtocolFees
    BY <1>1, <1>3 DEF SweepProtocolFees, SameLine, Pool
<1>4. ASSUME NEW b \in BreakerSettings, SetScOverdue(b) \/ SetPaused(b)
      PROVE  SameLine(pool, pool')
  <2>1. PICK c : \/ pool' = [pool EXCEPT !.paused = c]
                 \/ pool' = [pool EXCEPT !.scOverdueCheck = b, !.paused = c]
    <3>1. CASE SetPaused(b)
        BY <3>1, Zenon DEF SetPaused
    <3>2. CASE SetScOverdue(b)
        BY <3>2, Zenon DEF SetScOverdue
    <3> QED
        BY <1>4, <3>1, <3>2
  <2>2. CASE pool' = [pool EXCEPT !.paused = c]
      BY <1>1, <2>2 DEF SameLine, Pool
  <2>3. CASE pool' = [pool EXCEPT !.scOverdueCheck = b, !.paused = c]
      BY <1>1, <2>3 DEF SameLine, Pool
  <2> QED
      BY <2>1, <2>2, <2>3
<1>5. CASE Tick \/ UNCHANGED vars
    BY <1>2, <1>5 DEF Tick, vars
<1>6. ASSUME NEW w \in ManagedReceivers, AddReceiver(w) \/ RemoveReceiver(w)
      PROVE  SameLine(pool, pool')
    BY <1>2, <1>6 DEF AddReceiver, RemoveReceiver
<1> QED
    BY <1>2, <1>3, <1>4, <1>5, <1>6

-----------------------------------------------------------------------------
(* The theorems *)

\* A new pool is a new line.
LEMMA InitImplements == Init => Line!Init
BY DEF Init, Line!Init

\* Every call of the contract is a step of the line, or none.
LEMMA NextImplements == IInv /\ [Next]_vars => [Line!Next]_(Line!lineVars)
<1> SUFFICES ASSUME IInv, [Next]_vars PROVE LineStep(pool, pool')
    BY StepImplements
<1>1. CASE LpNext
  <2>1. ASSUME NEW lp \in LPs, NEW amount \in LpAmounts, Deposit(lp, amount)
        PROVE  LineStep(pool, pool')
      BY <2>1, DepositLine DEF LineStep
  <2>2. ASSUME NEW lp \in LPs, NEW amount \in LpAmounts, Withdraw(lp, amount)
        PROVE  LineStep(pool, pool')
      BY <2>2, WithdrawLine DEF LineStep
  <2>3. ASSUME NEW lp \in LPs, ClaimYield(lp) PROVE LineStep(pool, pool')
      BY <2>3, ClaimYieldLine DEF LineStep
  <2>4. ASSUME NEW lp \in LPs, ClaimPrincipal(lp) PROVE LineStep(pool, pool')
      BY <2>4, ClaimPrincipalLine DEF LineStep
  <2>5. ASSUME FinalizeFunding PROVE LineStep(pool, pool')
      BY <2>5, Typed, FinalizeLine DEF FinalizeFunding, LineStep
  <2> QED
      BY <1>1, <2>1, <2>2, <2>3, <2>4, <2>5 DEF LpNext
<1>2. CASE AgentNext
  <2>1. ASSUME NEW ref \in Refs, NEW w \in Receivers, NEW amount \in DrawAmounts,
               NEW days \in SettlementDays, ExecuteDrawdown(ref, w, amount, days)
        PROVE  LineStep(pool, pool')
      BY <2>1, DrawdownLine DEF LineStep
  <2>2. ASSUME DeclareDefault PROVE LineStep(pool, pool')
      BY <2>2, DeclareDefaultLine DEF LineStep
  <2> QED
      BY <1>2, <2>1, <2>2, OtherLine DEF AgentNext, LineStep
<1>3. CASE PspNext
  <2>1. ASSUME NEW ref \in Refs, Repay(ref) PROVE LineStep(pool, pool')
      BY <2>1, RepayLine DEF LineStep
  <2>2. ASSUME NEW amount \in PayAmounts, PayAccruedIdleFees(amount)
        PROVE  LineStep(pool, pool')
      BY <2>2, PayFeesLine DEF LineStep
  <2> QED
      BY <1>3, <2>1, <2>2 DEF PspNext
<1>4. CASE MultisigNext
  <2>1. ASSUME NEW amount \in PayAmounts, SettleDefaultPrincipal(amount)
        PROVE  LineStep(pool, pool')
      BY <2>1, SettlePrincipalLine DEF LineStep
  <2>2. ASSUME NEW amount \in PayAmounts, SettleDefaultYield(amount)
        PROVE  LineStep(pool, pool')
      BY <2>2, SettleYieldLine DEF LineStep
  <2> QED
      BY <1>4, <2>1, <2>2, OtherLine DEF MultisigNext, LineStep
<1>5. CASE Tick \/ UNCHANGED vars
    BY <1>5, OtherLine DEF LineStep
<1> QED
    BY <1>1, <1>2, <1>3, <1>4, <1>5 DEF Next

\* Whatever the calls charge, bill, rebase and split, a pool is a credit line: PoolContract
\* implements CreditLine.
THEOREM Implements == Spec => IsCreditLine
<1>1. Spec => []IInv
    BY Invariance
<1> QED
    BY <1>1, InitImplements, NextImplements, PTL DEF Spec, IsCreditLine, Line!Spec
=============================================================================
