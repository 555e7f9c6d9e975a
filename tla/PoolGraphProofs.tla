-------------------------- MODULE PoolGraphProofs ---------------------------
(***************************************************************************)
(* Theorems about the subgraph's picture of a pool and about the monitor   *)
(* that reads it: the picture agrees with the contract after any calls,    *)
(* and what the monitor reports of it is so.                               *)
(*                                                                         *)
(* The indexed specification takes steps of the contract, so the           *)
(* invariants of the contract hold in it.  PictureInv relates the picture  *)
(* to the storage in four parts: the status and its times, the LPs, the    *)
(* drawdowns, and what is outstanding.  A step writes the status first and *)
(* what its call did next; the two write different fields.                 *)
(***************************************************************************)
EXTENDS RiskMonitor, PoolMoneyProofs

-----------------------------------------------------------------------------
(* What the handlers write *)

PictureFields ==
    {"status", "fundingMaturity", "finalityAt", "totalAssets", "outstanding", "lenderCount",
     "positions", "drawdowns"}

SameTerm(g, h) ==
    /\ h.status = g.status
    /\ h.fundingMaturity = g.fundingMaturity
    /\ h.finalityAt = g.finalityAt

SameLenders(g, h) ==
    /\ h.totalAssets = g.totalAssets
    /\ h.lenderCount = g.lenderCount
    /\ h.positions = g.positions

SameDraws(g, h) == h.drawdowns = g.drawdowns

\* The status that a status of the contract is shown as.
StatusOf(s) ==
    CASE s = "Funding" -> "FUNDING" [] s = "Active" -> "ACTIVE"
      [] s = "Unsuccessful" -> "UNSUCCESSFUL" [] s = "Closed" -> "CLOSED"
      [] s = "Default" -> "DEFAULTED"

\* The event of a status writes the status, and the finality at the lock.
LEMMA StatusHandled ==
    ASSUME NEW g, DOMAIN g = PictureFields,
           g.status = StatusOf(pool.status),
           pool'.status \in Statuses,
           pool'.status = "Funding" => pool.status = "Funding"
    PROVE  LET h == handle(g, statusEvent)
           IN  /\ DOMAIN h = PictureFields
               /\ h.status = StatusOf(pool'.status)
               /\ h.fundingMaturity = g.fundingMaturity
               /\ h.finalityAt = IF pool'.status = "Active" /\ pool.status # "Active"
                                 THEN pool'.poolFinalityTs ELSE g.finalityAt
               /\ SameLenders(g, h) /\ SameDraws(g, h) /\ h.outstanding = g.outstanding
<1> DEFINE h == handle(g, statusEvent)
<1>1. CASE pool'.status = pool.status
  <2>1. statusEvent = NoEvent
      BY <1>1 DEF statusEvent
  <2>2. h = g
      BY <2>1 DEF handle, NoEvent
  <2> QED
      BY <1>1, <2>2 DEF SameLenders, SameDraws
<1>2. CASE pool'.status # pool.status /\ pool'.status = "Active"
  <2>1. statusEvent = [name |-> "Locked", finality |-> pool'.poolFinalityTs]
      BY <1>2 DEF statusEvent
  <2>2. h = [g EXCEPT !.status = "ACTIVE", !.finalityAt = pool'.poolFinalityTs]
      BY <2>1 DEF handle
  <2> HIDE DEF h
  <2> QED
      BY <1>2, <2>2 DEF SameLenders, SameDraws, StatusOf, PictureFields, h
<1>3. CASE pool'.status # pool.status /\ pool'.status = "Unsuccessful"
  <2>1. statusEvent = [name |-> "FundingFailed"]
      BY <1>3 DEF statusEvent
  <2>2. h = [g EXCEPT !.status = "UNSUCCESSFUL"]
      BY <2>1 DEF handle
  <2> HIDE DEF h
  <2> QED
      BY <1>3, <2>2 DEF SameLenders, SameDraws, StatusOf, PictureFields, h
<1>4. CASE pool'.status # pool.status /\ pool'.status = "Closed"
  <2>1. statusEvent = [name |-> "PoolClosed"]
      BY <1>4 DEF statusEvent
  <2>2. h = [g EXCEPT !.status = "CLOSED"]
      BY <2>1 DEF handle
  <2> HIDE DEF h
  <2> QED
      BY <1>4, <2>2 DEF SameLenders, SameDraws, StatusOf, PictureFields, h
<1>5. CASE pool'.status # pool.status /\ pool'.status = "Default"
  <2>1. statusEvent = [name |-> "DefaultDeclared"]
      BY <1>5 DEF statusEvent
  <2>2. h = [g EXCEPT !.status = "DEFAULTED"]
      BY <2>1 DEF handle
  <2> HIDE DEF h
  <2> QED
      BY <1>5, <2>2 DEF SameLenders, SameDraws, StatusOf, PictureFields, h
<1> QED
    BY <1>1, <1>2, <1>3, <1>4, <1>5 DEF Statuses

\* The event of a deposit adds to the position, which it may make.
LEMMA DepositHandled ==
    ASSUME NEW g, DOMAIN g = PictureFields, NEW lp, NEW amount
    PROVE  LET h == handle(g, lpEvent("Deposit", lp, amount))
           IN  /\ DOMAIN h = PictureFields
               /\ SameTerm(g, h) /\ SameDraws(g, h) /\ h.outstanding = g.outstanding
               /\ h.totalAssets = g.totalAssets + amount
               /\ h.positions = store(g.positions, lp, shares(g, lp) + amount)
               /\ h.lenderCount = IF lp \in DOMAIN g.positions THEN g.lenderCount
                                  ELSE g.lenderCount + 1
<1> DEFINE h == handle(g, lpEvent("Deposit", lp, amount))
           n == IF lp \in DOMAIN g.positions THEN g.lenderCount ELSE g.lenderCount + 1
           s == store(g.positions, lp, shares(g, lp) + amount)
<1>1. h = handleDeposit(g, lpEvent("Deposit", lp, amount))
    BY DEF handle, lpEvent
<1>2. handleDeposit(g, lpEvent("Deposit", lp, amount))
          = [g EXCEPT !.positions = s, !.totalAssets = g.totalAssets + amount,
                      !.lenderCount = n]
    BY DEF handleDeposit, lpEvent, PictureFields
<1> HIDE DEF h, n, s
<1>3. h = [g EXCEPT !.positions = s, !.totalAssets = g.totalAssets + amount,
                    !.lenderCount = n]
    BY <1>1, <1>2
<1>4. /\ DOMAIN h = PictureFields
      /\ SameTerm(g, h) /\ SameDraws(g, h) /\ h.outstanding = g.outstanding
      /\ h.totalAssets = g.totalAssets + amount
      /\ h.positions = s /\ h.lenderCount = n
    BY <1>3 DEF SameTerm, SameDraws, PictureFields
<1> QED
    BY <1>4 DEF h, n, s

\* The event of a withdrawal takes from it.
LEMMA WithdrawHandled ==
    ASSUME NEW g, DOMAIN g = PictureFields, NEW lp, NEW amount
    PROVE  LET h == handle(g, lpEvent("Withdraw", lp, amount))
           IN  /\ DOMAIN h = PictureFields
               /\ SameTerm(g, h) /\ SameDraws(g, h) /\ h.outstanding = g.outstanding
               /\ h.totalAssets = g.totalAssets - amount
               /\ h.positions = store(g.positions, lp, shares(g, lp) - amount)
               /\ h.lenderCount = g.lenderCount
<1> DEFINE h == handle(g, lpEvent("Withdraw", lp, amount))
           s == store(g.positions, lp, shares(g, lp) - amount)
<1>1. h = handleWithdraw(g, lpEvent("Withdraw", lp, amount))
    BY DEF handle, lpEvent
<1>2. handleWithdraw(g, lpEvent("Withdraw", lp, amount))
          = [g EXCEPT !.positions = s, !.totalAssets = g.totalAssets - amount]
    BY DEF handleWithdraw, lpEvent, PictureFields
<1> HIDE DEF h, s
<1>3. h = [g EXCEPT !.positions = s, !.totalAssets = g.totalAssets - amount]
    BY <1>1, <1>2
<1>4. /\ DOMAIN h = PictureFields
      /\ SameTerm(g, h) /\ SameDraws(g, h) /\ h.outstanding = g.outstanding
      /\ h.totalAssets = g.totalAssets - amount
      /\ h.positions = s /\ h.lenderCount = g.lenderCount
    BY <1>3 DEF SameTerm, SameDraws, PictureFields
<1> QED
    BY <1>4 DEF h, s

\* The event of a claim stores the position again.
LEMMA ClaimHandled ==
    ASSUME NEW g, DOMAIN g = PictureFields, NEW lp
    PROVE  LET h == handle(g, lpEvent("Claimed", lp, 0))
           IN  /\ DOMAIN h = PictureFields
               /\ SameTerm(g, h) /\ SameDraws(g, h) /\ h.outstanding = g.outstanding
               /\ h.totalAssets = g.totalAssets /\ h.lenderCount = g.lenderCount
               /\ h.positions = store(g.positions, lp, shares(g, lp))
<1> DEFINE h == handle(g, lpEvent("Claimed", lp, 0))
           s == store(g.positions, lp, shares(g, lp))
<1>1. h = [g EXCEPT !.positions = s]
    BY DEF handle, handleClaimed, lpEvent
<1> HIDE DEF h, s
<1>2. /\ DOMAIN h = PictureFields
      /\ SameTerm(g, h) /\ SameDraws(g, h) /\ h.outstanding = g.outstanding
      /\ h.totalAssets = g.totalAssets /\ h.positions = s /\ h.lenderCount = g.lenderCount
    BY <1>1 DEF SameTerm, SameDraws, PictureFields
<1> QED
    BY <1>2 DEF h, s

\* The event of a drawdown makes its entity, or takes over the one of a former drawdown.
LEMMA DrawdownHandled ==
    ASSUME NEW g, DOMAIN g = PictureFields, NEW ref, NEW amount
    PROVE  LET h == handle(g, drawEvent("DrawdownExecuted", ref, amount))
               d == [amount |-> amount, drawnAt |-> now, repaid |-> FALSE]
           IN  /\ DOMAIN h = PictureFields
               /\ SameTerm(g, h) /\ SameLenders(g, h)
               /\ h.drawdowns = store(g.drawdowns, ref, d)
               /\ h.outstanding = g.outstanding + amount
<1> DEFINE h == handle(g, drawEvent("DrawdownExecuted", ref, amount))
           d == [amount |-> amount, drawnAt |-> now, repaid |-> FALSE]
           s == store(g.drawdowns, ref, d)
<1>1. h = handleDrawdownExecuted(g, drawEvent("DrawdownExecuted", ref, amount))
    BY DEF handle, drawEvent
<1>2. handleDrawdownExecuted(g, drawEvent("DrawdownExecuted", ref, amount))
          = [g EXCEPT !.drawdowns = s, !.outstanding = g.outstanding + amount]
    BY DEF handleDrawdownExecuted, drawEvent, PictureFields
<1> HIDE DEF h, s, d
<1>3. h = [g EXCEPT !.drawdowns = s, !.outstanding = g.outstanding + amount]
    BY <1>1, <1>2
<1>4. /\ DOMAIN h = PictureFields
      /\ SameTerm(g, h) /\ SameLenders(g, h)
      /\ h.drawdowns = s /\ h.outstanding = g.outstanding + amount
    BY <1>3 DEF SameTerm, SameLenders, PictureFields
<1> QED
    BY <1>4 DEF h, s, d

\* The event of a repayment marks the entity.
LEMMA RepaidHandled ==
    ASSUME NEW g, DOMAIN g = PictureFields, NEW ref, NEW amount, ref \in DOMAIN g.drawdowns
    PROVE  LET h == handle(g, drawEvent("Repaid", ref, amount))
               d == [g.drawdowns[ref] EXCEPT !.repaid = TRUE]
           IN  /\ DOMAIN h = PictureFields
               /\ SameTerm(g, h) /\ SameLenders(g, h)
               /\ h.drawdowns = store(g.drawdowns, ref, d)
               /\ h.outstanding = g.outstanding - amount
<1> DEFINE h == handle(g, drawEvent("Repaid", ref, amount))
           d == [g.drawdowns[ref] EXCEPT !.repaid = TRUE]
           s == store(g.drawdowns, ref, d)
<1>1. h = handleRepaid(g, drawEvent("Repaid", ref, amount))
    BY DEF handle, drawEvent
<1>2. handleRepaid(g, drawEvent("Repaid", ref, amount))
          = [g EXCEPT !.drawdowns = s, !.outstanding = g.outstanding - amount]
    BY DEF handleRepaid, drawEvent, PictureFields
<1> HIDE DEF h, s, d
<1>3. h = [g EXCEPT !.drawdowns = s, !.outstanding = g.outstanding - amount]
    BY <1>1, <1>2
<1>4. /\ DOMAIN h = PictureFields
      /\ SameTerm(g, h) /\ SameLenders(g, h)
      /\ h.drawdowns = s /\ h.outstanding = g.outstanding - amount
    BY <1>3 DEF SameTerm, SameLenders, PictureFields
<1> QED
    BY <1>4 DEF h, s, d

-----------------------------------------------------------------------------
(* The parts of the picture *)

\* The status of the storage p, and the times that matter in it.
TermPicture(g, p) ==
    /\ DOMAIN g = PictureFields
    /\ g.status = StatusOf(p.status)
    /\ p.status = "Funding" => g.fundingMaturity = p.fMaturityTs
    /\ p.status = "Active" =>
           /\ g.finalityAt = p.poolFinalityTs /\ p.poolFinalityTs > 0
           /\ p.span = Tenure * SECONDS_PER_DAY

\* The principal P of the pool and the positions L.
LenderPicture(g, P, L) ==
    /\ g.totalAssets = P
    /\ DOMAIN g.positions \subseteq LPs
    /\ \A lp \in LPs : shares(g, lp) = L[lp].principal
    /\ g.lenderCount = Cardinality(DOMAIN g.positions)

DrawdownEntity == [amount : Nat, drawnAt : Nat, repaid : BOOLEAN]

\* The drawdowns D, of which those in the index I are live.
DrawPicture(g, D, I) ==
    /\ DOMAIN g.drawdowns \subseteq Refs
    /\ \A ref \in DOMAIN g.drawdowns : g.drawdowns[ref] \in DrawdownEntity
    /\ \A ref \in Refs : I[ref] # 0 <=> ref \in DOMAIN g.drawdowns /\ ~g.drawdowns[ref].repaid
    /\ \A ref \in Refs : I[ref] # 0 =>
           /\ g.drawdowns[ref].amount = D[ref].principal
           /\ g.drawdowns[ref].drawnAt = D[ref].startTs

\* What is out, until a default or the close writes off without an event.
OutPicture(g, p) ==
    /\ g.outstanding \in Int /\ g.outstanding >= p.outstanding
    /\ p.status \notin {"Default", "Closed"} => g.outstanding = p.outstanding

\* No live drawdown was made later than t, or for longer than the tenure.
DrawTerms(D, I, t) ==
    \A ref \in Refs : I[ref] # 0 =>
        /\ D[ref].startTs <= t
        /\ (D[ref].expiryTs - D[ref].startTs) \div SECONDS_PER_DAY <= Tenure

PictureInv ==
    /\ TermPicture(graph, pool)
    /\ LenderPicture(graph, pool.principal, lpPositions)
    /\ DrawPicture(graph, drawDowns, refIndex)
    /\ OutPicture(graph, pool)
    /\ DrawTerms(drawDowns, refIndex, now)

\* An event that leaves the LPs alone leaves their part.
LEMMA LenderSame ==
    ASSUME NEW g, NEW h, NEW P, NEW L, LenderPicture(g, P, L), SameLenders(g, h),
           NEW M, \A lp \in LPs : M[lp].principal = L[lp].principal
    PROVE  LenderPicture(h, P, M)
BY DEF LenderPicture, SameLenders, shares

\* So it is with the drawdowns.
LEMMA DrawSame ==
    ASSUME NEW g, NEW h, NEW D, NEW I, DrawPicture(g, D, I), SameDraws(g, h)
    PROVE  DrawPicture(h, D, I)
BY DEF DrawPicture, SameDraws

\* The position of a is stored with v, and it counts when it is new.
LEMMA LenderStored ==
    ASSUME NEW g, NEW h, NEW P, NEW Q, NEW L, NEW M, NEW a \in LPs, NEW v,
           LenderPicture(g, P, L),
           h.totalAssets = Q,
           h.positions = store(g.positions, a, v),
           h.lenderCount = IF a \in DOMAIN g.positions THEN g.lenderCount ELSE g.lenderCount + 1,
           M[a].principal = v,
           \A lp \in LPs \ {a} : M[lp].principal = L[lp].principal
    PROVE  LenderPicture(h, Q, M)
<1> DEFINE X == DOMAIN g.positions
           Y == DOMAIN h.positions
<1>1. /\ Y = X \cup {a} /\ h.positions[a] = v
      /\ \A x \in X \ {a} : h.positions[x] = g.positions[x]
    BY DEF store
<1>2. X \subseteq LPs /\ g.lenderCount = Cardinality(X)
    BY DEF LenderPicture
<1>3. ASSUME NEW lp \in LPs PROVE shares(h, lp) = M[lp].principal
  <2>1. CASE lp = a
      BY <1>1, <2>1 DEF shares
  <2>2. CASE lp # a
    <3>1. shares(g, lp) = L[lp].principal
        BY DEF LenderPicture
    <3> QED
        BY <1>1, <2>2, <3>1 DEF shares
  <2> QED
      BY <2>1, <2>2
<1>4. h.lenderCount = Cardinality(Y)
  <2>1. IsFiniteSet(X)
      BY <1>2, PoolAssumption, FS_Subset
  <2>2. Cardinality(X \cup {a}) = IF a \in X THEN Cardinality(X) ELSE Cardinality(X) + 1
      BY <2>1, FS_AddElement
  <2>3. Cardinality(Y) = Cardinality(X \cup {a})
      BY <1>1, Zenon
  <2> HIDE DEF Y
  <2> QED
      BY <1>2, <2>2, <2>3
<1> QED
    BY <1>1, <1>2, <1>3, <1>4 DEF LenderPicture

\* An LP that has capital in the pool has a position in the picture.
LEMMA LenderKnown ==
    ASSUME NEW g, NEW P, NEW L, LenderPicture(g, P, L), NEW a \in LPs, L[a].principal > 0
    PROVE  a \in DOMAIN g.positions
BY DEF LenderPicture, shares

\* A new drawdown is stored with its entity.
LEMMA DrawStored ==
    ASSUME NEW g, NEW h, NEW D, NEW I, NEW E, NEW J, NEW ref \in Refs, NEW d \in DrawdownEntity,
           DrawPicture(g, D, I),
           h.drawdowns = store(g.drawdowns, ref, d),
           d.amount = E[ref].principal, d.drawnAt = E[ref].startTs, ~d.repaid,
           \A r \in Refs \ {ref} : E[r] = D[r],
           \A r \in Refs : J[r] # 0 <=> I[r] # 0 \/ r = ref
    PROVE  DrawPicture(h, E, J)
<1>1. /\ DOMAIN h.drawdowns = DOMAIN g.drawdowns \cup {ref}
      /\ h.drawdowns[ref] = d
      /\ \A x \in DOMAIN g.drawdowns \ {ref} : h.drawdowns[x] = g.drawdowns[x]
    BY DEF store
<1> QED
    BY <1>1 DEF DrawPicture

\* A repaid one is marked.
LEMMA DrawMarked ==
    ASSUME NEW g, NEW h, NEW D, NEW I, NEW E, NEW J, NEW ref \in Refs,
           DrawPicture(g, D, I), ref \in DOMAIN g.drawdowns,
           h.drawdowns = store(g.drawdowns, ref, [g.drawdowns[ref] EXCEPT !.repaid = TRUE]),
           \A r \in Refs \ {ref} : E[r] = D[r],
           \A r \in Refs : J[r] # 0 <=> I[r] # 0 /\ r # ref
    PROVE  DrawPicture(h, E, J)
<1> DEFINE d == [g.drawdowns[ref] EXCEPT !.repaid = TRUE]
<1>1. d \in DrawdownEntity /\ d.repaid
    BY DEF DrawdownEntity, DrawPicture
<1>2. h.drawdowns = store(g.drawdowns, ref, d)
    OBVIOUS
<1> HIDE DEF d
<1>3. /\ DOMAIN h.drawdowns = DOMAIN g.drawdowns \cup {ref}
      /\ h.drawdowns[ref] = d
      /\ \A x \in DOMAIN g.drawdowns \ {ref} : h.drawdowns[x] = g.drawdowns[x]
    BY <1>2 DEF store
<1> QED
    BY <1>1, <1>3 DEF DrawPicture

-----------------------------------------------------------------------------
(* What a call does to the status, its times and the LPs *)

\* Nothing comes back to the funding phase, and a term starts once and for the full tenure.
TermMoves(p, q) ==
    /\ q.status = "Funding" => p.status = "Funding" /\ q.fMaturityTs = p.fMaturityTs
    /\ q.status = "Active" =>
           IF p.status = "Active" THEN q.poolFinalityTs = p.poolFinalityTs /\ q.span = p.span
           ELSE q.poolFinalityTs > 0 /\ q.span = Tenure * SECONDS_PER_DAY

\* The term of a lock.
LEMMA LockTimes ==
    ASSUME NEW p \in Pool, NEW t \in Nat
    PROVE  LET q == lock(p, t)
           IN  /\ q.status = "Active" /\ q.poolFinalityTs > 0
               /\ q.span = Tenure * SECONDS_PER_DAY
<1> DEFINE secs == Tenure * SECONDS_PER_DAY
           ds   == p.fundingCredit + p.principal * secs
           q    == lock(p, t)
<1>1. secs \in Nat /\ secs > 0
  <2>1. Tenure \in Nat \ {0} /\ SECONDS_PER_DAY \in Nat \ {0}
      BY PoolAssumption, MathLibAssumption
  <2> QED
      BY <2>1
<1> HIDE DEF secs
<1>2. q.status = "Active" /\ q.span = secs /\ q.poolFinalityTs = p.fMaturityTs + secs
  <2> HIDE DEF ds
  <2>1. q = [p EXCEPT !.status         = "Active",
                  !.poolStartTs    = t,
                  !.span           = secs,
                  !.poolFinalityTs = p.fMaturityTs + secs,
                  !.dollarSeconds  = ds,
                  !.yieldOwed      = coupon(ds),
                  !.availableToDd  = p.principal,
                  !.lastUpdate     = t,
                  !.lastOverrunTs  = p.fMaturityTs + secs,
                  !.lastIdleDay    = dayOf(t),
                  !.lastPenaltyDay = dayOf(p.fMaturityTs + secs) + PenaltyGraceDays]
      BY DEF lock, secs, ds
  <2> HIDE DEF q
  <2> QED
      BY <2>1 DEF Pool
<1> HIDE DEF q
<1>3. p.fMaturityTs \in Nat
    BY PoolTypes
<1> QED
    BY <1>1, <1>2, <1>3 DEF q, secs

\* The end of the funding window, which every call of an LP before the lock looks for.
LEMMA FinalizeMoves ==
    ASSUME FullInv
    PROVE  LET g == triggerFinalizeFunding(pool, now)
               f == globalCheckpoint(g, now)
           IN  /\ g \in Pool /\ f \in Pool
               /\ TermMoves(pool, g) /\ g.principal = pool.principal
               /\ f.status = g.status /\ f.fMaturityTs = g.fMaturityTs
               /\ f.principal = pool.principal
<1> DEFINE c == globalCheckpoint(pool, now)
           g == triggerFinalizeFunding(pool, now)
           f == globalCheckpoint(g, now)
           u == releasePsp([c EXCEPT !.status = "Unsuccessful"])
           l == lock(c, now)
<1>1. now \in Nat /\ pool \in Pool /\ LedgerInv(pool) /\ PoolSound(pool, now)
    BY FullTyped
<1>2. g \in Pool /\ PoolSound(g, now) /\ g.principal = pool.principal
    BY <1>1, FinalizeSound DEF Advances
<1>3. \/ g = pool
      \/ pool.status = "Funding" /\ (g = l \/ g = u)
    BY Zenon DEF triggerFinalizeFunding, finalizeFunding
<1> HIDE DEF g
<1>4. /\ f \in Pool /\ f.status = g.status /\ f.fMaturityTs = g.fMaturityTs
      /\ f.principal = g.principal
    BY <1>1, <1>2, CheckpointSound DEF Advances
<1>5. c \in Pool
    BY <1>1, CheckpointSound
<1> HIDE DEF c, f
<1>6. u.status = "Unsuccessful"
    BY <1>5 DEF releasePsp, Pool
<1>7. l.status = "Active" /\ l.poolFinalityTs > 0 /\ l.span = Tenure * SECONDS_PER_DAY
    BY <1>1, <1>5, LockTimes
<1> HIDE DEF u, l
<1>8. TermMoves(pool, g)
    BY <1>3, <1>6, <1>7 DEF TermMoves
<1> QED
    BY <1>2, <1>4, <1>8 DEF f, g

\* A deposit adds to the principal of the pool and of the LP.
LEMMA DepositShares ==
    ASSUME FullInv, NEW lp \in LPs, NEW amount \in LpAmounts, Deposit(lp, amount)
    PROVE  /\ TermMoves(pool, pool')
           /\ pool'.principal = pool.principal + amount
           /\ lpPositions'[lp].principal = lpPositions[lp].principal + amount
           /\ \A l \in LPs \ {lp} : lpPositions'[l].principal = lpPositions[l].principal
           /\ UNCHANGED <<now, drawDowns, refIndex>>
<1> DEFINE g   == triggerFinalizeFunding(pool, now)
           f   == globalCheckpoint(g, now)
           pos == lpCheckpoint(lpPositions[lp], f, now)
<1>1. /\ f.status = "Funding"
      /\ pool' = [f EXCEPT !.principal = @ + amount]
      /\ lpPositions' = [lpPositions EXCEPT ![lp] = [pos EXCEPT !.principal = @ + amount]]
      /\ UNCHANGED <<now, drawVars>>
    BY Zenon DEF Deposit
<1>2. now \in Nat /\ pool \in Pool /\ lpPositions \in [LPs -> LPPosition]
    BY FullTyped
<1>3. /\ f \in Pool /\ TermMoves(pool, g) /\ f.status = g.status
      /\ f.fMaturityTs = g.fMaturityTs /\ f.principal = pool.principal
    BY FinalizeMoves
<1> HIDE DEF f, g
<1>4. pos \in LPPosition /\ pos.principal = lpPositions[lp].principal
    BY <1>2, <1>3, CheckpointPosition
<1> HIDE DEF pos
<1>5. /\ pool'.status = "Funding" /\ pool'.fMaturityTs = f.fMaturityTs
      /\ pool'.principal = f.principal + amount
    BY <1>1, <1>3 DEF Pool
<1>6. /\ lpPositions'[lp].principal = lpPositions[lp].principal + amount
      /\ \A l \in LPs \ {lp} : lpPositions'[l] = lpPositions[l]
    BY <1>1, <1>2, <1>4 DEF LPPosition
<1>7. TermMoves(pool, pool')
    BY <1>1, <1>3, <1>5 DEF TermMoves
<1> QED
    BY <1>1, <1>3, <1>5, <1>6, <1>7 DEF drawVars

\* A withdrawal takes from both.
LEMMA WithdrawShares ==
    ASSUME FullInv, NEW lp \in LPs, NEW amount \in LpAmounts, Withdraw(lp, amount)
    PROVE  /\ TermMoves(pool, pool')
           /\ pool'.principal = pool.principal - amount
           /\ lpPositions[lp].principal > 0
           /\ lpPositions'[lp].principal = lpPositions[lp].principal - amount
           /\ \A l \in LPs \ {lp} : lpPositions'[l].principal = lpPositions[l].principal
           /\ UNCHANGED <<now, drawDowns, refIndex>>
<1> DEFINE g   == triggerFinalizeFunding(pool, now)
           f   == globalCheckpoint(g, now)
           pos == lpCheckpoint(lpPositions[lp], f, now)
           out == mulDiv(pos.fundingCredit, amount, pos.principal)
<1>1. /\ f.status \in {"Funding", "Unsuccessful"}
      /\ amount > 0 /\ amount <= pos.principal
      /\ pool' = [f EXCEPT !.fundingCredit = @ - out, !.principal = @ - amount]
      /\ lpPositions' = [lpPositions EXCEPT
             ![lp] = [pos EXCEPT !.fundingCredit = @ - out, !.principal = @ - amount]]
      /\ UNCHANGED <<now, drawVars>>
    BY Zenon DEF Withdraw
<1>2. /\ now \in Nat /\ pool \in Pool /\ lpPositions \in [LPs -> LPPosition]
      /\ amount \in Nat
    BY FullTyped, PoolAssumption
<1>3. /\ f \in Pool /\ TermMoves(pool, g) /\ f.status = g.status
      /\ f.fMaturityTs = g.fMaturityTs /\ f.principal = pool.principal
    BY FinalizeMoves
<1> HIDE DEF f, g
<1>4. pos \in LPPosition /\ pos.principal = lpPositions[lp].principal
    BY <1>2, <1>3, CheckpointPosition
<1> HIDE DEF pos, out
<1>5. /\ pool'.status = f.status /\ pool'.fMaturityTs = f.fMaturityTs
      /\ pool'.principal = f.principal - amount
    BY <1>1, <1>3 DEF Pool
<1>6. /\ lpPositions'[lp].principal = lpPositions[lp].principal - amount
      /\ \A l \in LPs \ {lp} : lpPositions'[l] = lpPositions[l]
    BY <1>1, <1>2, <1>4 DEF LPPosition
<1>7. TermMoves(pool, pool')
    BY <1>1, <1>3, <1>5 DEF TermMoves
<1>8. lpPositions[lp].principal > 0
    BY <1>1, <1>2, <1>4, PositionTypes
<1> QED
    BY <1>1, <1>3, <1>5, <1>6, <1>7, <1>8 DEF drawVars

\* A pool that is locked keeps its term or ends it.
LEMMA TermStepMoves ==
    ASSUME NEW p \in Pool, NEW q \in Pool, NEW t, p.status \in LockedStatuses,
           TermStep(p, q, t)
    PROVE  TermMoves(p, q) /\ q.principal = p.principal
BY DEF TermStep, TermKept, TermCut, SameCredit, TermMoves, LockedStatuses

\* A claim pays an LP that has capital in the pool, and leaves it there.
LEMMA ClaimShares ==
    ASSUME FullInv, FullInv', ShareInv, NEW lp \in LPs, ClaimYield(lp) \/ ClaimPrincipal(lp)
    PROVE  /\ TermMoves(pool, pool') /\ SameOut(pool, pool')
           /\ pool'.principal = pool.principal
           /\ lpPositions[lp].principal > 0
           /\ \A l \in LPs : lpPositions'[l].principal = lpPositions[l].principal
           /\ UNCHANGED <<now, drawDowns, refIndex>>
<1>1. /\ pool.status \in LockedStatuses /\ lpPositions[lp].principal > 0
      /\ UNCHANGED drawVars
    BY DEF ClaimYield, ClaimPrincipal, Claimable, LockedStatuses
<1>2. /\ TermKept(pool, pool') /\ UNCHANGED now
      /\ \A l \in LPs : PositionKept(lpPositions[l], lpPositions'[l], pool, pool', now)
    BY ClaimYieldKept, ClaimPrincipalKept
<1>3. IInv /\ IInv' /\ MoneyInv
    BY DEF FullInv
<1>4. SameOut(pool, pool')
    BY <1>3, ClaimYieldMoney, ClaimPrincipalMoney
<1>5. pool \in Pool /\ pool' \in Pool
    BY <1>3, Typed, NextTyped
<1>6. TermMoves(pool, pool') /\ pool'.principal = pool.principal
    BY <1>1, <1>2, <1>5, TermStepMoves DEF TermStep
<1> QED
    BY <1>1, <1>2, <1>4, <1>6 DEF PositionKept, drawVars

\* The calls that change no LP and no drawdown.
PlainStep ==
    \/ FinalizeFunding \/ DeclareDefault
    \/ \E b \in BreakerSettings : SetScOverdue(b) \/ SetPaused(b)
    \/ \E w \in ManagedReceivers : AddReceiver(w)
    \/ \E amount \in PayAmounts : PayAccruedIdleFees(amount)
    \/ MultisigNext

LEMMA PlainKept ==
    ASSUME FullInv, FullInv', PlainStep
    PROVE  /\ TermMoves(pool, pool') /\ SameOut(pool, pool')
           /\ pool'.principal = pool.principal
           /\ UNCHANGED <<now, lpPositions, drawDowns, refIndex>>
<1>1. IInv /\ IInv' /\ MoneyInv
    BY DEF FullInv
<1>2. pool \in Pool /\ pool' \in Pool
    BY <1>1, Typed, NextTyped
<1>3. UNCHANGED <<now, lpPositions, drawVars>>
  <2>1. MultisigNext => UNCHANGED <<now, lpPositions, drawVars>>
      BY DEF MultisigNext, SettleDefaultPrincipal, SettleDefaultYield, SweepProtocolFees,
          RemoveReceiver
  <2> QED
      BY <2>1
      DEF PlainStep, FinalizeFunding, DeclareDefault, SetScOverdue, SetPaused, AddReceiver,
          PayAccruedIdleFees
<1>4. ASSUME UNCHANGED pool
      PROVE  TermMoves(pool, pool') /\ SameOut(pool, pool') /\ pool'.principal = pool.principal
    BY <1>2, <1>4, PoolTypes DEF TermMoves, SameOut
<1>5. ASSUME pool.status \in LockedStatuses, TermStep(pool, pool', now)
      PROVE  TermMoves(pool, pool') /\ pool'.principal = pool.principal
    BY <1>2, <1>5, TermStepMoves
<1>6. CASE FinalizeFunding
  <2>1. pool' = triggerFinalizeFunding(pool, now)
      BY <1>6, Zenon DEF FinalizeFunding
  <2>2. SameOut(pool, pool')
      BY <1>1, <2>1, Typed, NextTyped, FinalizeLine, LineOut
  <2> QED
      BY <1>3, <2>1, <2>2, FinalizeMoves DEF drawVars
<1>7. CASE DeclareDefault
  <2>1. pool.status \in LockedStatuses
      BY <1>7, Zenon DEF DeclareDefault, LockedStatuses
  <2> QED
      BY <1>1, <1>3, <1>5, <1>7, <2>1, DeclareDefaultTerm, DeclareDefaultMoney DEF drawVars
<1>8. ASSUME NEW b \in BreakerSettings, SetScOverdue(b) \/ SetPaused(b)
      PROVE  TermMoves(pool, pool') /\ SameOut(pool, pool') /\ pool'.principal = pool.principal
  <2>1. /\ pool'.status = pool.status /\ pool'.fMaturityTs = pool.fMaturityTs
        /\ pool.status \in LockedStatuses => TermKept(pool, pool')
      BY <1>8, BreakerTerm
  <2>2. pool'.principal = pool.principal
      BY <1>1, <1>8, OtherLine DEF SameLine
  <2>3. SameOut(pool, pool')
      BY <1>1, <1>8, BreakerMoney
  <2>4. TermMoves(pool, pool')
      BY <2>1 DEF TermMoves, TermKept, SameCredit, LockedStatuses
  <2> QED
      BY <2>2, <2>3, <2>4
<1>9. ASSUME NEW amount \in PayAmounts, PayAccruedIdleFees(amount)
      PROVE  TermMoves(pool, pool') /\ SameOut(pool, pool') /\ pool'.principal = pool.principal
  <2>1. pool.status \in LockedStatuses
      BY <1>9, Zenon DEF PayAccruedIdleFees, LockedStatuses
  <2> QED
      BY <1>1, <1>5, <1>9, <2>1, PayFeesTerm, PayFeesMoney DEF TermStep
<1>10. ASSUME NEW amount \in PayAmounts,
              SettleDefaultPrincipal(amount) \/ SettleDefaultYield(amount)
       PROVE  TermMoves(pool, pool') /\ SameOut(pool, pool') /\ pool'.principal = pool.principal
  <2>1. pool.status \in LockedStatuses
      BY <1>10, Zenon DEF SettleDefaultPrincipal, SettleDefaultYield, LockedStatuses
  <2>2. TermStep(pool, pool', now)
      BY <1>10, SettlePrincipalTerm, SettleYieldTerm DEF TermStep
  <2> QED
      BY <1>1, <1>5, <1>10, <2>1, <2>2, SettlePrincipalMoney, SettleYieldMoney
<1>11. ASSUME SweepProtocolFees
       PROVE  TermMoves(pool, pool') /\ SameOut(pool, pool') /\ pool'.principal = pool.principal
  <2>1. pool.status \in LockedStatuses
      BY <1>11, Zenon DEF SweepProtocolFees, LockedStatuses
  <2> QED
      BY <1>1, <1>5, <1>11, <2>1, SweepTerm, SweepMoney DEF TermStep
<1>12. ASSUME NEW w \in ManagedReceivers, AddReceiver(w) \/ RemoveReceiver(w)
       PROVE  UNCHANGED pool
    BY <1>12 DEF AddReceiver, RemoveReceiver
<1>13. CASE MultisigNext
    BY <1>3, <1>4, <1>10, <1>11, <1>12, <1>13 DEF MultisigNext, drawVars
<1> QED
    BY <1>3, <1>4, <1>6, <1>7, <1>8, <1>9, <1>12, <1>13 DEF PlainStep, drawVars

-----------------------------------------------------------------------------
(* What a call does to the drawdowns *)

\* A term of k days from n on that ends on the day of F, or before, is no longer than m.
LEMMA DaysWithin ==
    ASSUME NEW n \in Nat, NEW k \in Nat, NEW m \in Nat, NEW F \in Nat, NEW d \in Nat \ {0},
           F <= n + m * d, (n + k * d) \div d <= F \div d
    PROVE  (k * d) \div d <= m
<1> DEFINE q == n \div d
           r == F \div d
           s == (n + k * d) \div d
           z == (k * d) \div d
           kd == k * d
           md == m * d
<1>1. kd \in Nat /\ md \in Nat
    BY MulNat
<1>2. n + kd \in Nat
    BY <1>1
<1>3. /\ q \in Nat /\ n < (q + 1) * d /\ q * d <= n
      /\ r \in Nat /\ r * d <= F
      /\ s \in Nat /\ (\A i \in Nat : i * d <= n + kd => i <= s)
      /\ z \in Nat /\ z * d <= kd
  <2>1. q \in Nat /\ q * d <= n /\ (\A i \in Nat : i * d <= n => i <= q)
      BY Quotient
  <2>2. q + 1 \in Nat /\ ~(q + 1 <= q)
      BY <2>1
  <2>3. ~((q + 1) * d <= n)
      BY <2>1, <2>2
  <2>4. (q + 1) * d \in Nat
      BY <2>2, MulNat
  <2>5. n < (q + 1) * d
      BY <2>3, <2>4
  <2>6. r \in Nat /\ r * d <= F
      BY Quotient
  <2>7. s \in Nat /\ (\A i \in Nat : i * d <= n + kd => i <= s)
      BY <1>2, Quotient
  <2>8. z \in Nat /\ z * d <= kd
      BY <1>1, Quotient
  <2> QED
      BY <2>1, <2>5, <2>6, <2>7, <2>8
<1>4. s <= r
    OBVIOUS
<1>5. F <= n + md
    OBVIOUS
<1> HIDE DEF q, r, s, z
<1>6. q + k <= s
  <2>1. (q + k) * d = q * d + kd
      BY <1>3
  <2>2. q * d \in Nat
      BY <1>3, MulNat
  <2>3. (q + k) * d <= n + kd
      BY <1>1, <1>3, <2>1, <2>2
  <2> QED
      BY <1>3, <2>3
<1>7. r <= q + m
  <2>1. (q + 1 + m) * d = (q + 1) * d + md
      BY <1>3
  <2>2. (q + 1) * d \in Nat /\ r * d \in Nat
      BY <1>3, MulNat
  <2>3. r * d < (q + 1 + m) * d
      BY <1>1, <1>3, <1>5, <2>1, <2>2
  <2>4. SUFFICES ASSUME q + 1 + m <= r PROVE FALSE
      BY <1>3
  <2>5. (q + 1 + m) * d <= r * d
      BY <1>3, <2>4, MulMono
  <2> QED
      BY <1>1, <2>1, <2>2, <2>3, <2>5
<1>8. z <= k
    BY <1>3, MulCancel
<1>9. z <= m
    BY <1>3, <1>4, <1>6, <1>7, <1>8
<1> QED
    BY <1>9 DEF z

\* A drawdown enters the book with a term that the tenure covers.
LEMMA DrawdownEntered ==
    ASSUME FullInv, FullInv', ShareInv, PictureInv, NEW ref \in Refs, NEW w \in Receivers,
           NEW amount \in DrawAmounts, NEW days \in SettlementDays,
           ExecuteDrawdown(ref, w, amount, days)
    PROVE  /\ TermMoves(pool, pool') /\ pool'.status = "Active"
           /\ pool'.principal = pool.principal
           /\ pool'.outstanding = pool.outstanding + amount
           /\ UNCHANGED <<now, lpPositions>>
           /\ drawDowns'[ref].principal = amount /\ drawDowns'[ref].startTs = now
           /\ \A r \in Refs \ {ref} : drawDowns'[r] = drawDowns[r]
           /\ \A r \in Refs : refIndex'[r] # 0 <=> refIndex[r] # 0 \/ r = ref
           /\ DrawTerms(drawDowns', refIndex', now)
<1> DEFINE span == (days - 1) * SECONDS_PER_DAY
           dd   == [principal |-> amount, startTs |-> now, expiryTs |-> now + span,
                    receiverWallet |-> w]
<1>1. /\ pool.status = "Active"
      /\ drawDowns[ref].principal = 0
      /\ dayOf(now + span) <= dayOf(pool.poolFinalityTs)
      /\ drawDowns' = [drawDowns EXCEPT ![ref] = dd]
      /\ refIndex' = [refIndex EXCEPT ![ref] = Len(drawDownRefs) + 1]
    BY Zenon DEF ExecuteDrawdown
<1>2. IInv /\ IInv' /\ MoneyInv
    BY DEF FullInv
<1>3. /\ now \in Nat /\ pool \in Pool /\ pool' \in Pool /\ days - 1 \in Nat
      /\ drawDowns \in [Refs -> DrawDown] /\ refIndex[ref] = 0
  <2>1. now \in Nat /\ pool \in Pool /\ pool' \in Pool
      BY <1>2, Typed, NextTyped
  <2>2. drawDowns \in [Refs -> DrawDown] /\ refIndex[ref] = 0
      BY <1>1, <1>2, BookTyped
  <2>3. days \in Nat \ {0}
      BY PoolAssumption
  <2> QED
      BY <2>1, <2>2, <2>3
<1>4. /\ TermKept(pool, pool') /\ UNCHANGED <<now, lpPositions>>
      /\ pool'.outstanding = pool.outstanding + amount
    BY <1>2, DrawdownTerm, DrawdownMoney
<1>5. TermMoves(pool, pool') /\ pool'.principal = pool.principal
    BY <1>1, <1>3, <1>4, TermStepMoves DEF TermStep, LockedStatuses
<1>6. \A r \in Refs : refIndex'[r] # 0 <=> refIndex[r] # 0 \/ r = ref
    BY <1>1, <1>2, <1>3, BookTyped, PushIndexed
<1>7. pool'.status = "Active"
  <2>1. pool' = [accrue(pool, now) EXCEPT
                    !.availableToDd = @ - amount, !.outstanding = @ + amount,
                    !.idleExemptAmount = monus(accrue(pool, now).idleExemptAmount, amount),
                    !.idleExemptUntil =
                        IF monus(accrue(pool, now).idleExemptAmount, amount) = 0
                        THEN 0 ELSE @]
      BY Zenon DEF ExecuteDrawdown
  <2>2. accrue(pool, now) \in Pool /\ accrue(pool, now).status = "Active"
      BY <1>1, AccruedTerm DEF LockedStatuses
  <2> QED
      BY <2>1, <2>2 DEF Pool
<1>8. span \div SECONDS_PER_DAY <= Tenure
  <2>1. TermSound(pool) /\ pool.span = Tenure * SECONDS_PER_DAY /\ pool.poolStartTs <= now
      BY <1>1, FullTyped DEF ShareInv, ShareSound, PictureInv, TermPicture, PoolSound, Clock
  <2>2. pool.poolFinalityTs <= pool.poolStartTs + pool.span
      BY <1>1, <2>1 DEF TermSound, LockedStatuses
  <2>3. Tenure \in Nat /\ SECONDS_PER_DAY \in Nat \ {0}
      BY PoolAssumption, MathLibAssumption
  <2>4. pool.poolFinalityTs \in Nat /\ pool.poolStartTs \in Nat /\ pool.span \in Int
      BY <1>3, PoolTypes
  <2>5. pool.poolFinalityTs <= now + Tenure * SECONDS_PER_DAY
      BY <1>3, <2>1, <2>2, <2>4
  <2>6. (now + (days - 1) * SECONDS_PER_DAY) \div SECONDS_PER_DAY
            <= pool.poolFinalityTs \div SECONDS_PER_DAY
      BY <1>1 DEF dayOf
  <2> QED
      BY <1>3, <2>3, <2>4, <2>5, <2>6, DaysWithin
<1>9. span \in Nat
    BY <1>3, MathLibAssumption, MulNat
<1> HIDE DEF span
<1>10. /\ dd.principal = amount /\ dd.startTs = now /\ dd.expiryTs - dd.startTs = span
    BY <1>3, <1>9
<1> HIDE DEF dd
<1>11. drawDowns'[ref] = dd /\ \A r \in Refs \ {ref} : drawDowns'[r] = drawDowns[r]
    BY <1>1, <1>3
<1>12. DrawTerms(drawDowns', refIndex', now)
  <2>1. DrawTerms(drawDowns, refIndex, now)
      BY DEF PictureInv
  <2>2. now <= now
      BY <1>3
  <2> QED
      BY <1>6, <1>8, <1>10, <1>11, <2>1, <2>2 DEF DrawTerms
<1> QED
    BY <1>4, <1>5, <1>6, <1>7, <1>10, <1>11, <1>12

\* A repaid one leaves it.
LEMMA RepaidLeft ==
    ASSUME FullInv, FullInv', NEW ref \in Refs, Repay(ref)
    PROVE  /\ TermMoves(pool, pool')
           /\ pool'.principal = pool.principal
           /\ pool'.outstanding = pool.outstanding - drawDowns[ref].principal
           /\ pool.status = "Active" /\ drawDowns[ref].principal \in Nat
           /\ UNCHANGED <<now, lpPositions>>
           /\ refIndex[ref] # 0
           /\ \A r \in Refs \ {ref} : drawDowns'[r] = drawDowns[r]
           /\ \A r \in Refs : refIndex'[r] # 0 <=> refIndex[r] # 0 /\ r # ref
<1> DEFINE last == Len(drawDownRefs)
           I2   == [refIndex EXCEPT ![drawDownRefs[last]] = refIndex[ref], ![ref] = 0]
<1>1. /\ pool.status = "Active" /\ refIndex[ref] > 0
      /\ refIndex' = I2
      /\ drawDowns' = [drawDowns EXCEPT ![ref] = NoDrawDown]
    BY Zenon DEF Repay, removeDrawDown
<1>2. IInv /\ IInv' /\ MoneyInv /\ BookSound
    BY DEF FullInv
<1>3. /\ pool \in Pool /\ pool' \in Pool /\ drawDowns \in [Refs -> DrawDown]
      /\ refIndex \in [Refs -> Nat] /\ refIndex[ref] # 0
    BY <1>1, <1>2, Typed, NextTyped, BookTyped
<1>4. \A r \in Refs : I2[r] # 0 <=> refIndex[r] # 0 /\ r # ref
    BY <1>2, <1>3, BookTyped, SwapAndPop, Zenon
<1> HIDE DEF I2
<1>5. drawDowns[ref].principal <= pool.outstanding
    BY <1>1, <1>2, LentOut
<1>6. /\ TermKept(pool, pool') /\ UNCHANGED <<now, lpPositions>>
      /\ pool'.outstanding = pool.outstanding - drawDowns[ref].principal
    BY <1>2, <1>5, RepayTerm, RepayMoney
<1>7. TermMoves(pool, pool') /\ pool'.principal = pool.principal
    BY <1>1, <1>3, <1>6, TermStepMoves DEF TermStep, LockedStatuses
<1> QED
    BY <1>1, <1>3, <1>4, <1>6, <1>7 DEF DrawDown

-----------------------------------------------------------------------------
(* The picture follows *)

\* A step writes the status: the rest of the picture is as it was.
LEMMA StatusStep ==
    ASSUME TermPicture(graph, pool), TermMoves(pool, pool'), pool \in Pool, pool' \in Pool
    PROVE  LET h == handle(graph, statusEvent)
           IN  /\ TermPicture(h, pool')
               /\ SameLenders(graph, h) /\ SameDraws(graph, h)
               /\ h.outstanding = graph.outstanding
<1> DEFINE h == handle(graph, statusEvent)
<1>1. /\ DOMAIN graph = PictureFields /\ graph.status = StatusOf(pool.status)
      /\ pool'.status \in Statuses
      /\ pool'.status = "Funding" => pool.status = "Funding"
    BY PoolTypes DEF TermPicture, TermMoves
<1>2. /\ DOMAIN h = PictureFields
      /\ h.status = StatusOf(pool'.status)
      /\ h.fundingMaturity = graph.fundingMaturity
      /\ h.finalityAt = IF pool'.status = "Active" /\ pool.status # "Active"
                        THEN pool'.poolFinalityTs ELSE graph.finalityAt
      /\ SameLenders(graph, h) /\ SameDraws(graph, h)
      /\ h.outstanding = graph.outstanding
    BY <1>1, StatusHandled
<1> HIDE DEF h
<1>3. TermPicture(h, pool')
    BY <1>2 DEF TermPicture, TermMoves
<1> QED
    BY <1>2, <1>3 DEF h

\* An event that leaves the status and its times leaves their part.
LEMMA TermSame ==
    ASSUME NEW g, NEW h, NEW p, TermPicture(g, p), DOMAIN h = PictureFields, SameTerm(g, h)
    PROVE  TermPicture(h, p)
BY DEF TermPicture, SameTerm

\* Nothing but a draw and a repayment changes what is out before a default or the close.
LEMMA OutSame ==
    ASSUME NEW g, NEW h, NEW p \in Pool, NEW q \in Pool, OutPicture(g, p), SameOut(p, q),
           h.outstanding = g.outstanding
    PROVE  OutPicture(h, q)
BY PoolTypes DEF OutPicture, SameOut

\* What every step starts from.
LEMMA PictureStart ==
    ASSUME FullInv, FullInv', PictureInv, TermMoves(pool, pool')
    PROVE  LET h == handle(graph, statusEvent)
           IN  /\ TermPicture(h, pool') /\ DOMAIN h = PictureFields
               /\ LenderPicture(h, pool.principal, lpPositions)
               /\ DrawPicture(h, drawDowns, refIndex)
               /\ OutPicture(h, pool)
<1> DEFINE h == handle(graph, statusEvent)
<1>1. pool \in Pool /\ pool' \in Pool
  <2>1. IInv /\ IInv'
      BY DEF FullInv
  <2> QED
      BY <2>1, Typed, NextTyped
<1>2. /\ TermPicture(graph, pool)
      /\ LenderPicture(graph, pool.principal, lpPositions)
      /\ DrawPicture(graph, drawDowns, refIndex)
      /\ OutPicture(graph, pool)
    BY DEF PictureInv
<1>3. /\ TermPicture(h, pool')
      /\ SameLenders(graph, h) /\ SameDraws(graph, h)
      /\ h.outstanding = graph.outstanding
    BY <1>1, <1>2, StatusStep
<1> HIDE DEF h
<1>4. LenderPicture(h, pool.principal, lpPositions)
    BY <1>2, <1>3, LenderSame
<1>5. DrawPicture(h, drawDowns, refIndex)
    BY <1>2, <1>3, DrawSame
<1> QED
    BY <1>2, <1>3, <1>4, <1>5 DEF OutPicture, TermPicture, h

\* The drawdowns' part of the invariant when no drawdown is touched.
LEMMA TermsKept ==
    ASSUME DrawTerms(drawDowns, refIndex, now), UNCHANGED <<now, drawDowns, refIndex>>
    PROVE  DrawTerms(drawDowns, refIndex, now)'
BY DEF DrawTerms

\* A deposit is followed.
LEMMA DepositFollowed ==
    ASSUME FullInv, FullInv', PictureInv, NEW lp \in LPs, NEW amount \in LpAmounts,
           Deposit(lp, amount), index(lpEvent("Deposit", lp, amount))
    PROVE  PictureInv'
<1> DEFINE g == handle(graph, statusEvent)
<1>1. /\ TermMoves(pool, pool')
      /\ pool'.principal = pool.principal + amount
      /\ lpPositions'[lp].principal = lpPositions[lp].principal + amount
      /\ \A l \in LPs \ {lp} : lpPositions'[l].principal = lpPositions[l].principal
      /\ UNCHANGED <<now, drawDowns, refIndex>>
    BY DepositShares
<1>2. IInv /\ IInv' /\ pool \in Pool /\ pool' \in Pool
    BY Typed, NextTyped DEF FullInv
<1>3. SameOut(pool, pool')
    BY <1>2, DepositLine, LineOut
<1>4. /\ TermPicture(g, pool') /\ DOMAIN g = PictureFields
      /\ LenderPicture(g, pool.principal, lpPositions)
      /\ DrawPicture(g, drawDowns, refIndex)
      /\ OutPicture(g, pool)
    BY <1>1, PictureStart
<1>5. graph' = handle(g, lpEvent("Deposit", lp, amount))
    BY DEF index
<1> HIDE DEF g
<1>6. /\ DOMAIN graph' = PictureFields
      /\ SameTerm(g, graph') /\ SameDraws(g, graph') /\ graph'.outstanding = g.outstanding
      /\ graph'.totalAssets = g.totalAssets + amount
      /\ graph'.positions = store(g.positions, lp, shares(g, lp) + amount)
      /\ graph'.lenderCount = IF lp \in DOMAIN g.positions THEN g.lenderCount
                              ELSE g.lenderCount + 1
    BY <1>4, <1>5, DepositHandled
<1>7. shares(g, lp) = lpPositions[lp].principal /\ g.totalAssets = pool.principal
    BY <1>4 DEF LenderPicture
<1>8. LenderPicture(graph', pool'.principal, lpPositions')
  <2>1. graph'.totalAssets = pool'.principal
      BY <1>1, <1>6, <1>7
  <2>2. lpPositions'[lp].principal = shares(g, lp) + amount
      BY <1>1, <1>7
  <2> QED
      BY <1>1, <1>4, <1>6, <2>1, <2>2, LenderStored
<1>9. TermPicture(graph', pool') /\ DrawPicture(graph', drawDowns, refIndex)
      /\ OutPicture(graph', pool')
    BY <1>2, <1>3, <1>4, <1>6, TermSame, DrawSame, OutSame
<1>10. DrawTerms(drawDowns, refIndex, now)'
    BY <1>1, TermsKept DEF PictureInv
<1> QED
    BY <1>1, <1>8, <1>9, <1>10 DEF PictureInv

\* A withdrawal is followed, and so is one that fails the pool.
LEMMA WithdrawFollowed ==
    ASSUME FullInv, FullInv', PictureInv, NEW lp \in LPs, NEW amount \in LpAmounts,
           Withdraw(lp, amount), index(lpEvent("Withdraw", lp, amount))
    PROVE  PictureInv'
<1> DEFINE g == handle(graph, statusEvent)
<1>1. /\ TermMoves(pool, pool')
      /\ pool'.principal = pool.principal - amount
      /\ lpPositions[lp].principal > 0
      /\ lpPositions'[lp].principal = lpPositions[lp].principal - amount
      /\ \A l \in LPs \ {lp} : lpPositions'[l].principal = lpPositions[l].principal
      /\ UNCHANGED <<now, drawDowns, refIndex>>
    BY WithdrawShares
<1>2. IInv /\ IInv' /\ pool \in Pool /\ pool' \in Pool
    BY Typed, NextTyped DEF FullInv
<1>3. SameOut(pool, pool')
    BY <1>2, WithdrawLine, LineOut
<1>4. /\ TermPicture(g, pool') /\ DOMAIN g = PictureFields
      /\ LenderPicture(g, pool.principal, lpPositions)
      /\ DrawPicture(g, drawDowns, refIndex)
      /\ OutPicture(g, pool)
    BY <1>1, PictureStart
<1>5. graph' = handle(g, lpEvent("Withdraw", lp, amount))
    BY DEF index
<1> HIDE DEF g
<1>6. /\ DOMAIN graph' = PictureFields
      /\ SameTerm(g, graph') /\ SameDraws(g, graph') /\ graph'.outstanding = g.outstanding
      /\ graph'.totalAssets = g.totalAssets - amount
      /\ graph'.positions = store(g.positions, lp, shares(g, lp) - amount)
      /\ graph'.lenderCount = g.lenderCount
    BY <1>4, <1>5, WithdrawHandled
<1>7. shares(g, lp) = lpPositions[lp].principal /\ g.totalAssets = pool.principal
    BY <1>4 DEF LenderPicture
<1>8. LenderPicture(graph', pool'.principal, lpPositions')
  <2>1. graph'.totalAssets = pool'.principal
      BY <1>1, <1>6, <1>7
  <2>2. lpPositions'[lp].principal = shares(g, lp) - amount
      BY <1>1, <1>7
  <2>3. lp \in DOMAIN g.positions
      BY <1>1, <1>4, LenderKnown
  <2> QED
      BY <1>1, <1>4, <1>6, <2>1, <2>2, <2>3, LenderStored
<1>9. TermPicture(graph', pool') /\ DrawPicture(graph', drawDowns, refIndex)
      /\ OutPicture(graph', pool')
    BY <1>2, <1>3, <1>4, <1>6, TermSame, DrawSame, OutSame
<1>10. DrawTerms(drawDowns, refIndex, now)'
    BY <1>1, TermsKept DEF PictureInv
<1> QED
    BY <1>1, <1>8, <1>9, <1>10 DEF PictureInv

\* A claim is followed, and so is one that closes the pool.
LEMMA ClaimFollowed ==
    ASSUME FullInv, FullInv', ShareInv, PictureInv, NEW lp \in LPs,
           ClaimYield(lp) \/ ClaimPrincipal(lp), index(lpEvent("Claimed", lp, 0))
    PROVE  PictureInv'
<1> DEFINE g == handle(graph, statusEvent)
<1>1. /\ TermMoves(pool, pool') /\ SameOut(pool, pool')
      /\ pool'.principal = pool.principal
      /\ lpPositions[lp].principal > 0
      /\ \A l \in LPs : lpPositions'[l].principal = lpPositions[l].principal
      /\ UNCHANGED <<now, drawDowns, refIndex>>
    BY ClaimShares
<1>2. IInv /\ IInv' /\ pool \in Pool /\ pool' \in Pool
    BY Typed, NextTyped DEF FullInv
<1>4. /\ TermPicture(g, pool') /\ DOMAIN g = PictureFields
      /\ LenderPicture(g, pool.principal, lpPositions)
      /\ DrawPicture(g, drawDowns, refIndex)
      /\ OutPicture(g, pool)
    BY <1>1, PictureStart
<1>5. graph' = handle(g, lpEvent("Claimed", lp, 0))
    BY DEF index
<1> HIDE DEF g
<1>6. /\ DOMAIN graph' = PictureFields
      /\ SameTerm(g, graph') /\ SameDraws(g, graph') /\ graph'.outstanding = g.outstanding
      /\ graph'.totalAssets = g.totalAssets /\ graph'.lenderCount = g.lenderCount
      /\ graph'.positions = store(g.positions, lp, shares(g, lp))
    BY <1>4, <1>5, ClaimHandled
<1>7. shares(g, lp) = lpPositions[lp].principal /\ g.totalAssets = pool.principal
    BY <1>4 DEF LenderPicture
<1>8. LenderPicture(graph', pool'.principal, lpPositions')
  <2>1. graph'.totalAssets = pool'.principal
      BY <1>1, <1>6, <1>7
  <2>2. lpPositions'[lp].principal = shares(g, lp)
      BY <1>1, <1>7
  <2>3. lp \in DOMAIN g.positions
      BY <1>1, <1>4, LenderKnown
  <2> QED
      BY <1>1, <1>4, <1>6, <2>1, <2>2, <2>3, LenderStored
<1>9. TermPicture(graph', pool') /\ DrawPicture(graph', drawDowns, refIndex)
      /\ OutPicture(graph', pool')
    BY <1>1, <1>2, <1>4, <1>6, TermSame, DrawSame, OutSame
<1>10. DrawTerms(drawDowns, refIndex, now)'
    BY <1>1, TermsKept DEF PictureInv
<1> QED
    BY <1>1, <1>8, <1>9, <1>10 DEF PictureInv

\* A drawdown is followed.
LEMMA DrawdownFollowed ==
    ASSUME FullInv, FullInv', ShareInv, PictureInv, NEW ref \in Refs, NEW w \in Receivers,
           NEW amount \in DrawAmounts, NEW days \in SettlementDays,
           ExecuteDrawdown(ref, w, amount, days),
           index(drawEvent("DrawdownExecuted", ref, amount))
    PROVE  PictureInv'
<1> DEFINE g == handle(graph, statusEvent)
           d == [amount |-> amount, drawnAt |-> now, repaid |-> FALSE]
<1>1. /\ TermMoves(pool, pool') /\ pool'.status = "Active"
      /\ pool'.principal = pool.principal
      /\ pool'.outstanding = pool.outstanding + amount
      /\ UNCHANGED <<now, lpPositions>>
      /\ drawDowns'[ref].principal = amount /\ drawDowns'[ref].startTs = now
      /\ \A r \in Refs \ {ref} : drawDowns'[r] = drawDowns[r]
      /\ \A r \in Refs : refIndex'[r] # 0 <=> refIndex[r] # 0 \/ r = ref
      /\ DrawTerms(drawDowns', refIndex', now)
    BY DrawdownEntered
<1>2. pool.status = "Active" /\ amount \in Nat /\ now \in Nat /\ pool \in Pool
    BY FullTyped, PoolAssumption DEF ExecuteDrawdown
<1>3. /\ TermPicture(g, pool') /\ DOMAIN g = PictureFields
      /\ LenderPicture(g, pool.principal, lpPositions)
      /\ DrawPicture(g, drawDowns, refIndex)
      /\ OutPicture(g, pool)
    BY <1>1, PictureStart
<1>4. graph' = handle(g, drawEvent("DrawdownExecuted", ref, amount))
    BY DEF index
<1> HIDE DEF g
<1>5. /\ DOMAIN graph' = PictureFields
      /\ SameTerm(g, graph') /\ SameLenders(g, graph')
      /\ graph'.drawdowns = store(g.drawdowns, ref, d)
      /\ graph'.outstanding = g.outstanding + amount
    BY <1>3, <1>4, DrawdownHandled
<1>6. DrawPicture(graph', drawDowns', refIndex')
  <2> DEFINE h == graph'
             E == drawDowns'
             J == refIndex'
  <2>1. h.drawdowns = store(g.drawdowns, ref, d)
      BY <1>5
  <2>2. d \in DrawdownEntity /\ d.amount = E[ref].principal /\ d.drawnAt = E[ref].startTs
        /\ ~d.repaid
      BY <1>1, <1>2 DEF DrawdownEntity
  <2>3. /\ \A r \in Refs \ {ref} : E[r] = drawDowns[r]
        /\ \A r \in Refs : J[r] # 0 <=> refIndex[r] # 0 \/ r = ref
      BY <1>1
  <2> HIDE DEF d, h, E, J
  <2>4. DrawPicture(h, E, J)
      BY <1>3, <2>1, <2>2, <2>3, DrawStored
  <2> QED
      BY <2>4 DEF h, E, J
<1>7. OutPicture(graph', pool')
    BY <1>1, <1>2, <1>3, <1>5, PoolTypes DEF OutPicture
<1>8. TermPicture(graph', pool') /\ LenderPicture(graph', pool'.principal, lpPositions')
    BY <1>1, <1>3, <1>5, TermSame, LenderSame
<1>9. DrawTerms(drawDowns, refIndex, now)'
    BY <1>1
<1> QED
    BY <1>6, <1>7, <1>8, <1>9 DEF PictureInv

\* A repayment is followed, and so is one that closes the pool.
LEMMA RepayFollowed ==
    ASSUME FullInv, FullInv', PictureInv, NEW ref \in Refs, Repay(ref),
           index(drawEvent("Repaid", ref, drawDowns[ref].principal))
    PROVE  PictureInv'
<1> DEFINE g == handle(graph, statusEvent)
           amount == drawDowns[ref].principal
           d == [g.drawdowns[ref] EXCEPT !.repaid = TRUE]
<1>1. /\ TermMoves(pool, pool')
      /\ pool'.principal = pool.principal
      /\ pool'.outstanding = pool.outstanding - amount
      /\ pool.status = "Active" /\ amount \in Nat
      /\ UNCHANGED <<now, lpPositions>>
      /\ refIndex[ref] # 0
      /\ \A r \in Refs \ {ref} : drawDowns'[r] = drawDowns[r]
      /\ \A r \in Refs : refIndex'[r] # 0 <=> refIndex[r] # 0 /\ r # ref
    BY RepaidLeft
<1>2. pool \in Pool
    BY FullTyped
<1>3. /\ TermPicture(g, pool') /\ DOMAIN g = PictureFields
      /\ LenderPicture(g, pool.principal, lpPositions)
      /\ DrawPicture(g, drawDowns, refIndex)
      /\ OutPicture(g, pool)
    BY <1>1, PictureStart
<1>4. graph' = handle(g, drawEvent("Repaid", ref, amount))
    BY DEF index
<1> HIDE DEF g, amount
<1>5. ref \in DOMAIN g.drawdowns
    BY <1>1, <1>3 DEF DrawPicture
<1>6. /\ DOMAIN graph' = PictureFields
      /\ SameTerm(g, graph') /\ SameLenders(g, graph')
      /\ graph'.drawdowns = store(g.drawdowns, ref, d)
      /\ graph'.outstanding = g.outstanding - amount
    BY <1>3, <1>4, <1>5, RepaidHandled
<1>7. DrawPicture(graph', drawDowns', refIndex')
    BY <1>1, <1>3, <1>5, <1>6, DrawMarked
<1>8. OutPicture(graph', pool')
    BY <1>1, <1>2, <1>3, <1>6, PoolTypes DEF OutPicture
<1>9. TermPicture(graph', pool') /\ LenderPicture(graph', pool'.principal, lpPositions')
    BY <1>1, <1>3, <1>6, TermSame, LenderSame
<1>10. DrawTerms(drawDowns, refIndex, now)'
    BY <1>1 DEF PictureInv, DrawTerms
<1> QED
    BY <1>7, <1>8, <1>9, <1>10 DEF PictureInv

\* A call without an event of its own is followed by its status.
LEMMA PlainFollowed ==
    ASSUME FullInv, FullInv', PictureInv, PlainStep, index(NoEvent)
    PROVE  PictureInv'
<1> DEFINE g == handle(graph, statusEvent)
<1>1. /\ TermMoves(pool, pool') /\ SameOut(pool, pool')
      /\ pool'.principal = pool.principal
      /\ UNCHANGED <<now, lpPositions, drawDowns, refIndex>>
    BY PlainKept
<1>2. IInv /\ IInv' /\ pool \in Pool /\ pool' \in Pool
    BY Typed, NextTyped DEF FullInv
<1>3. /\ TermPicture(g, pool')
      /\ LenderPicture(g, pool.principal, lpPositions)
      /\ DrawPicture(g, drawDowns, refIndex)
      /\ OutPicture(g, pool)
    BY <1>1, PictureStart
<1> HIDE DEF g
<1>4. graph' = g
  <2>1. graph' = handle(g, NoEvent)
      BY DEF index, g
  <2> QED
      BY <2>1 DEF handle, NoEvent
<1>5. OutPicture(graph', pool')
    BY <1>1, <1>2, <1>3, <1>4, OutSame
<1>6. DrawTerms(drawDowns, refIndex, now)'
    BY <1>1, TermsKept DEF PictureInv
<1> QED
    BY <1>1, <1>3, <1>4, <1>5, <1>6 DEF PictureInv

\* Time passing changes nothing in it.
LEMMA TickFollowed ==
    ASSUME FullInv, FullInv', PictureInv, Tick \/ UNCHANGED vars, UNCHANGED graph
    PROVE  PictureInv'
<1>1. /\ UNCHANGED <<pool, lpPositions, drawDowns, refIndex>>
      /\ now' = now + 1 \/ now' = now
    BY DEF Tick, vars, drawVars
<1>2. now \in Nat /\ drawDowns \in [Refs -> DrawDown]
    BY FullTyped, BookTyped DEF FullInv
<1>3. DrawTerms(drawDowns, refIndex, now')
    BY <1>1, <1>2 DEF PictureInv, DrawTerms, DrawDown
<1> QED
    BY <1>1, <1>3 DEF PictureInv

\* The picture of a new pool.
LEMMA InitPicture == Init /\ GraphInit => PictureInv
<1> SUFFICES ASSUME Init, GraphInit PROVE PictureInv
    OBVIOUS
<1>1. /\ pool.status = "Funding" /\ pool.principal = 0 /\ pool.outstanding = 0
      /\ \A lp \in LPs : lpPositions[lp].principal = 0
      /\ \A ref \in Refs : refIndex[ref] = 0
    BY DEF Init
<1>2. /\ DOMAIN graph = PictureFields
      /\ graph.status = "FUNDING" /\ graph.fundingMaturity = pool.fMaturityTs
      /\ graph.totalAssets = 0 /\ graph.outstanding = 0 /\ graph.lenderCount = 0
      /\ DOMAIN graph.positions = {} /\ DOMAIN graph.drawdowns = {}
    BY DEF GraphInit, PictureFields
<1>3. TermPicture(graph, pool)
    BY <1>1, <1>2 DEF TermPicture, StatusOf
<1>4. LenderPicture(graph, pool.principal, lpPositions)
  <2>1. Cardinality(DOMAIN graph.positions) = 0
    <3>1. Cardinality({}) = 0
        BY FS_EmptySet
    <3> QED
        BY <1>2, <3>1, Zenon
  <2> QED
      BY <1>1, <1>2, <2>1 DEF LenderPicture, shares
<1>5. /\ DrawPicture(graph, drawDowns, refIndex) /\ OutPicture(graph, pool)
      /\ DrawTerms(drawDowns, refIndex, now)
    BY <1>1, <1>2 DEF DrawPicture, OutPicture, DrawTerms
<1> QED
    BY <1>3, <1>4, <1>5 DEF PictureInv

\* Every step of the contract with its events keeps the invariant.
LEMMA NextPicture ==
    ASSUME FullInv, FullInv', ShareInv, PictureInv, [IndexedNext]_indexedVars
    PROVE  PictureInv'
<1>1. CASE IndexedCall
  <2>1. ASSUME NEW lp \in LPs, NEW amount \in LpAmounts,
               \/ Deposit(lp, amount) /\ index(lpEvent("Deposit", lp, amount))
               \/ Withdraw(lp, amount) /\ index(lpEvent("Withdraw", lp, amount))
        PROVE  PictureInv'
      BY <2>1, DepositFollowed, WithdrawFollowed
  <2>2. ASSUME NEW lp \in LPs, ClaimYield(lp) \/ ClaimPrincipal(lp),
               index(lpEvent("Claimed", lp, 0))
        PROVE  PictureInv'
      BY <2>2, ClaimFollowed
  <2>3. ASSUME NEW ref \in Refs, NEW w \in Receivers, NEW amount \in DrawAmounts,
               NEW days \in SettlementDays, ExecuteDrawdown(ref, w, amount, days),
               index(drawEvent("DrawdownExecuted", ref, amount))
        PROVE  PictureInv'
      BY <2>3, DrawdownFollowed
  <2>4. ASSUME NEW ref \in Refs, Repay(ref),
               index(drawEvent("Repaid", ref, drawDowns[ref].principal))
        PROVE  PictureInv'
      BY <2>4, RepayFollowed
  <2> QED
      BY <1>1, <2>1, <2>2, <2>3, <2>4, Zenon DEF IndexedCall
<1>2. CASE PlainCall
  <2>1. PlainStep /\ index(NoEvent)
      BY <1>2, Zenon DEF PlainCall, PlainStep
  <2> QED
      BY <2>1, PlainFollowed
<1>3. CASE (Tick \/ UNCHANGED vars) /\ UNCHANGED graph
    BY <1>3, TickFollowed
<1> QED
    BY <1>1, <1>2, <1>3 DEF IndexedNext, indexedVars

\* With its events the contract does what it does without them.
LEMMA IndexedStep == [IndexedNext]_indexedVars => [Next]_vars
<1> SUFFICES ASSUME [IndexedNext]_indexedVars PROVE [Next]_vars
    OBVIOUS
<1>1. IndexedCall => Next
    BY Zenon DEF IndexedCall, Next, LpNext, AgentNext, PspNext
<1>2. PlainCall => Next
    BY Zenon DEF PlainCall, Next, LpNext, AgentNext, PspNext
<1> QED
    BY <1>1, <1>2 DEF IndexedNext, indexedVars, Next

\* Indexed or not, the pool is a pool.
LEMMA IndexedPool == IndexedSpec => Spec
BY IndexedStep, PTL DEF IndexedSpec, Spec

\* In every reachable state the picture agrees with the storage part by part.
THEOREM PictureInvariance == IndexedSpec => []PictureInv
<1>1. IndexedSpec => []FullInv /\ []ShareInv
    BY IndexedPool, MoneyInvariance, ShareInvariance, PTL
<1>2. FullInv /\ FullInv' /\ ShareInv /\ PictureInv /\ [IndexedNext]_indexedVars => PictureInv'
    BY NextPicture
<1> QED
    BY <1>1, <1>2, InitPicture, PTL DEF IndexedSpec

-----------------------------------------------------------------------------
(* What follows from it *)

\* The live drawdowns are the ones with an index.
LEMMA LiveIsIndexed ==
    ASSUME FullInv
    PROVE  liveRefs = {ref \in Refs : refIndex[ref] # 0}
<1>1. drawDownRefs \in Seq(Refs) /\ Indexed(drawDownRefs, refIndex)
    BY BookTyped DEF FullInv
<1>2. \A ref \in Refs : ref \in liveRefs <=> refIndex[ref] # 0
    BY <1>1, LiveIndexed DEF liveRefs
<1>3. liveRefs \subseteq Refs
    BY <1>1 DEF liveRefs
<1> QED
    BY <1>2, <1>3

\* The parts of the picture are what the property says.
LEMMA PictureFollows == FullInv /\ PictureInv => GraphFollowsPool
<1> SUFFICES ASSUME FullInv, PictureInv PROVE GraphFollowsPool
    OBVIOUS
<1>1. /\ TermPicture(graph, pool)
      /\ LenderPicture(graph, pool.principal, lpPositions)
      /\ DrawPicture(graph, drawDowns, refIndex)
      /\ OutPicture(graph, pool)
    BY DEF PictureInv
<1>2. liveRefs = {ref \in Refs : refIndex[ref] # 0}
    BY LiveIsIndexed
<1>3. graph.status = facilityStatus
    BY <1>1 DEF TermPicture, StatusOf, facilityStatus
<1>4. {ref \in DOMAIN graph.drawdowns : ~graph.drawdowns[ref].repaid} = liveRefs
    BY <1>1, <1>2 DEF DrawPicture
<1>5. \A ref \in liveRefs : /\ graph.drawdowns[ref].amount = drawDowns[ref].principal
                            /\ graph.drawdowns[ref].drawnAt = drawDowns[ref].startTs
    BY <1>1, <1>2 DEF DrawPicture
<1>6. IF pool.status = "Active" THEN graph.outstanding = pool.outstanding
      ELSE graph.outstanding >= pool.outstanding
    BY <1>1 DEF OutPicture
<1> QED
    BY <1>1, <1>3, <1>4, <1>5, <1>6 DEF GraphFollowsPool, LenderPicture

\* Whole days between two times are no more than the calendar days between them.
LEMMA DaysBetween ==
    ASSUME NEW from \in Nat, NEW to \in Nat, from <= to
    PROVE  /\ daysBetween(from, to) \in Nat
           /\ daysBetween(from, to) <= dayOf(to) - dayOf(from)
<1> DEFINE d == SECONDS_PER_DAY
           n == monus(to, from)
           b == n \div d
           q == from \div d
           r == to \div d
<1>1. d \in Nat \ {0}
    BY MathLibAssumption
<1>2. n \in Nat /\ from + n = to
    BY DEF monus
<1> HIDE DEF d, n
<1>3. b \in Nat /\ b * d <= n
    BY <1>1, <1>2, Quotient
<1>4. q \in Nat /\ q * d <= from
    BY <1>1, Quotient
<1>5. r \in Nat /\ \A m \in Nat : m * d <= to => m <= r
    BY <1>1, Quotient
<1> HIDE DEF b, q, r
<1>6. (q + b) * d <= to
  <2>1. (q + b) * d = q * d + b * d
      BY <1>1, <1>3, <1>4
  <2>2. q * d \in Nat /\ b * d \in Nat
      BY <1>1, <1>3, <1>4, MulNat
  <2> QED
      BY <1>2, <1>3, <1>4, <2>1, <2>2
<1>7. q + b <= r
    BY <1>3, <1>4, <1>5, <1>6
<1> QED
    BY <1>3, <1>4, <1>5, <1>7 DEF daysBetween, dayOf, b, q, r, n, d

\* The age that the monitor alarms at is one the contract charges a penalty at.
LEMMA AlarmIsDue ==
    ASSUME FullInv, PictureInv, NEW ref \in penaltyAlarms(graph)
    PROVE  ref \in liveRefs /\ accruesPenalty(drawDowns[ref], now)
<1> DEFINE e    == graph.drawdowns[ref]
           dd   == drawDowns[ref]
           age  == daysBetween(dd.startTs, now)
           term == (dd.expiryTs - dd.startTs) \div SECONDS_PER_DAY
<1>1. ref \in DOMAIN graph.drawdowns /\ ~e.repaid
      /\ daysBetween(e.drawnAt, now) > Tenure + PenaltyGraceDays
    BY DEF penaltyAlarms, penaltyAccruing
<1>2. /\ ref \in Refs /\ refIndex[ref] # 0 /\ e.drawnAt = dd.startTs
      /\ dd.startTs <= now /\ term <= Tenure
    BY <1>1 DEF PictureInv, DrawPicture, DrawTerms
<1>3. ref \in liveRefs
    BY <1>2, LiveIsIndexed
<1>4. /\ now \in Nat /\ dd.startTs \in Nat /\ dd.expiryTs \in Nat
    BY <1>2, FullTyped, BookTyped DEF FullInv, DrawDown
<1>5. Tenure \in Nat /\ PenaltyGraceDays \in Nat /\ MaxDdDays \in Nat
      /\ SECONDS_PER_DAY \in Nat \ {0}
    BY PoolAssumption, MathLibAssumption
<1>6. term \in Int
    BY <1>4, <1>5
<1>7. age \in Nat /\ age <= elapsedDays(dd, now)
    BY <1>2, <1>4, DaysBetween DEF elapsedDays
<1>8. elapsedDays(dd, now) \in Int
    BY <1>4, DayOfNat DEF elapsedDays
<1>9. age > Tenure + PenaltyGraceDays
    BY <1>1, <1>2
<1>10. penaltyStartDay(dd) = least(term + 1 + PenaltyGraceDays, MaxDdDays)
    BY DEF penaltyStartDay
<1> HIDE DEF age, term
<1>11. penaltyStartDay(dd) <= term + 1 + PenaltyGraceDays /\ penaltyStartDay(dd) \in Int
    BY <1>5, <1>6, <1>10 DEF least
<1>12. elapsedDays(dd, now) >= penaltyStartDay(dd)
    BY <1>2, <1>5, <1>6, <1>7, <1>8, <1>9, <1>11
<1> QED
    BY <1>3, <1>12 DEF accruesPenalty

\* The monitor is right about a picture that agrees with the contract.
LEMMA PictureReported == FullInv /\ PictureInv => MonitorIsRight
<1> SUFFICES ASSUME FullInv, PictureInv PROVE MonitorIsRight
    OBVIOUS
<1>1. TermPicture(graph, pool) /\ OutPicture(graph, pool) /\ graph.totalAssets = pool.principal
    BY DEF PictureInv, LenderPicture
<1>2. now \in Nat /\ pool \in Pool
    BY FullTyped
<1>3. ASSUME pool.status = "Active", now >= pool.poolFinalityTs, pool.outstanding > 0
      PROVE  nearFinality(graph) = "CRITICAL"
  <2>1. graph.status = "ACTIVE" /\ graph.outstanding # 0
      BY <1>1, <1>2, <1>3, PoolTypes DEF TermPicture, OutPicture, StatusOf
  <2>2. graph.finalityAt = pool.poolFinalityTs /\ pool.poolFinalityTs \in Nat
        /\ pool.poolFinalityTs > 0
      BY <1>1, <1>2, <1>3, PoolTypes DEF TermPicture
  <2>3. monus(graph.finalityAt, now) = 0
      BY <1>2, <1>3, <2>2 DEF monus
  <2>4. daysBetween(now, graph.finalityAt) = 0
    <3>1. SECONDS_PER_DAY \in Nat \ {0}
        BY MathLibAssumption
    <3>2. 0 \div SECONDS_PER_DAY = 0
        BY <3>1
    <3> QED
        BY <2>3, <3>2 DEF daysBetween
  <2> QED
      BY <2>1, <2>2, <2>4 DEF nearFinality, outstandingNearFinality, NearDays
<1>4. fundingStalled(graph) <=> pool.status = "Funding" /\ now >= pool.fMaturityTs
    BY <1>1, <1>2, PoolTypes DEF fundingStalled, TermPicture, StatusOf, Statuses
<1>5. IF pool.status = "Funding" /\ now >= pool.fMaturityTs
      THEN windowExpired(graph) = IF pool.principal >= SoftCap THEN "WARNING" ELSE "INFO"
      ELSE windowExpired(graph) = "none"
    BY <1>1, <1>4 DEF windowExpired
<1> QED
    BY <1>3, <1>5, AlarmIsDue DEF MonitorIsRight

\* After any calls of any parties the subgraph shows the pool as it is: its status, what
\* every LP has in it, the drawdowns that are live, and what is out.
THEOREM SubgraphFollowsPool == IndexedSpec => []GraphFollowsPool
<1>1. IndexedSpec => []FullInv
    BY IndexedPool, MoneyInvariance, PTL
<1> QED
    BY <1>1, PictureInvariance, PictureFollows, PTL

\* What the risk monitor reports of a pool is so, and it reports what it exists to report.
THEOREM MonitorCorrect == IndexedSpec => []MonitorIsRight
<1>1. IndexedSpec => []FullInv
    BY IndexedPool, MoneyInvariance, PTL
<1> QED
    BY <1>1, PictureInvariance, PictureReported, PTL
=============================================================================
