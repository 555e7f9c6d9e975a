------------------------------ MODULE Subgraph ------------------------------
(***************************************************************************)
(* The subgraph's picture of a pool: subgraph/src/factory.ts and pool.ts,  *)
(* composed with the contract whose events feed them.                      *)
(*                                                                         *)
(* Every call of the contract emits events, in the order of its code; the  *)
(* handlers run once per event and in that order, so the picture as of a   *)
(* block is a function of what was emitted up to it.  What indexing lags   *)
(* behind is the whole picture together with its block time: graph and now *)
(* are a pair that some block has had.  Running totals that only grow, and *)
(* the immutable entities that repeat an event, are left out.              *)
(***************************************************************************)
EXTENDS PoolContract

VARIABLE graph

indexedVars == <<vars, graph>>

FacilityStatuses == {"FUNDING", "ACTIVE", "UNSUCCESSFUL", "CLOSED", "DEFAULTED"}

\* handlePoolCreated.  The terms, which it reads from the clone, are those of the pool.
GraphInit ==
    graph = [status |-> "FUNDING", fundingMaturity |-> pool.fMaturityTs, finalityAt |-> 0,
             totalAssets |-> 0, outstanding |-> 0, lenderCount |-> 0,
             positions |-> [lp \in {} |-> 0],
             drawdowns |-> [ref \in {} |-> 0]]

-----------------------------------------------------------------------------
(* Handlers *)

store(entities, id, entity) ==
    [x \in DOMAIN entities \cup {id} |-> IF x = id THEN entity ELSE entities[x]]

\* The shares of a position; one that is loaded for the first time is made.
shares(g, lp) == IF lp \in DOMAIN g.positions THEN g.positions[lp] ELSE 0

handleDeposit(g, e) ==
    [g EXCEPT !.positions = store(@, e.lp, shares(g, e.lp) + e.amount),
              !.totalAssets = @ + e.amount,
              !.lenderCount = IF e.lp \in DOMAIN g.positions THEN @ ELSE @ + 1]

handleWithdraw(g, e) ==
    [g EXCEPT !.positions = store(@, e.lp, shares(g, e.lp) - e.amount),
              !.totalAssets = @ - e.amount]

\* handleYieldClaimed and handlePrincipalClaimed
handleClaimed(g, e) == [g EXCEPT !.positions = store(@, e.lp, shares(g, e.lp))]

\* A reference that was repaid and is drawn again takes the entity of the former drawdown.
handleDrawdownExecuted(g, e) ==
    [g EXCEPT !.drawdowns = store(@, e.ref, [amount |-> e.amount, drawnAt |-> now,
                                             repaid |-> FALSE]),
              !.outstanding = @ + e.amount]

\* Mutant: what is repaid stays outstanding.
handleRepaidKept(g, e) ==
    IF e.ref \in DOMAIN g.drawdowns
    THEN [g EXCEPT !.drawdowns = store(@, e.ref, [g.drawdowns[e.ref] EXCEPT !.repaid = TRUE])]
    ELSE g

handleRepaid(g, e) ==
    [g EXCEPT !.drawdowns =
                  IF e.ref \in DOMAIN @
                  THEN store(@, e.ref, [g.drawdowns[e.ref] EXCEPT !.repaid = TRUE]) ELSE @,
              !.outstanding = @ - e.amount]

handle(g, e) ==
    CASE e.name = "Deposit"          -> handleDeposit(g, e)
      [] e.name = "Withdraw"         -> handleWithdraw(g, e)
      [] e.name = "Claimed"          -> handleClaimed(g, e)
      [] e.name = "DrawdownExecuted" -> handleDrawdownExecuted(g, e)
      [] e.name = "Repaid"           -> handleRepaid(g, e)
      [] e.name = "Locked"           -> [g EXCEPT !.status = "ACTIVE", !.finalityAt = e.finality]
      [] e.name = "FundingFailed"    -> [g EXCEPT !.status = "UNSUCCESSFUL"]
      [] e.name = "PoolClosed"       -> [g EXCEPT !.status = "CLOSED"]
      [] e.name = "DefaultDeclared"  -> [g EXCEPT !.status = "DEFAULTED"]
      [] e.name = "none"             -> g

-----------------------------------------------------------------------------
(* Events of a call *)

NoEvent == [name |-> "none"]

\* Wherever the contract assigns its status it emits the event of that status.
statusEvent ==
    IF pool'.status = pool.status THEN NoEvent
    ELSE CASE pool'.status = "Active" ->
                  [name |-> "Locked", finality |-> pool'.poolFinalityTs]
           [] pool'.status = "Unsuccessful" -> [name |-> "FundingFailed"]
           [] pool'.status = "Closed"       -> [name |-> "PoolClosed"]
           [] pool'.status = "Default"      -> [name |-> "DefaultDeclared"]

\* The event of a status and that of the call write different fields: either may come first.
index(event) == graph' = handle(handle(graph, statusEvent), event)

lpEvent(name, lp, amount) == [name |-> name, lp |-> lp, amount |-> amount]
drawEvent(name, ref, amount) == [name |-> name, ref |-> ref, amount |-> amount]

\* The calls of the LPs, the draws and the repayments emit an event of their own.
IndexedCall ==
    \/ \E lp \in LPs, amount \in LpAmounts :
           \/ Deposit(lp, amount) /\ index(lpEvent("Deposit", lp, amount))
           \/ Withdraw(lp, amount) /\ index(lpEvent("Withdraw", lp, amount))
    \/ \E lp \in LPs : (ClaimYield(lp) \/ ClaimPrincipal(lp)) /\ index(lpEvent("Claimed", lp, 0))
    \/ \E ref \in Refs, w \in Receivers, amount \in DrawAmounts, days \in SettlementDays :
           /\ ExecuteDrawdown(ref, w, amount, days)
           /\ index(drawEvent("DrawdownExecuted", ref, amount))
    \/ \E ref \in Refs : Repay(ref) /\ index(drawEvent("Repaid", ref, drawDowns[ref].principal))

\* All that is indexed of the others is the status they bring about.
PlainCall ==
    /\ \/ FinalizeFunding \/ DeclareDefault
       \/ \E b \in BreakerSettings : SetScOverdue(b) \/ SetPaused(b)
       \/ \E w \in ManagedReceivers : AddReceiver(w)
       \/ \E amount \in PayAmounts : PayAccruedIdleFees(amount)
       \/ MultisigNext
    /\ index(NoEvent)

IndexedNext == IndexedCall \/ PlainCall \/ (Tick /\ UNCHANGED graph)

IndexedSpec == Init /\ GraphInit /\ [][IndexedNext]_indexedVars

-----------------------------------------------------------------------------
(* Properties *)

facilityStatus ==
    CASE pool.status = "Funding" -> "FUNDING" [] pool.status = "Active" -> "ACTIVE"
      [] pool.status = "Unsuccessful" -> "UNSUCCESSFUL" [] pool.status = "Closed" -> "CLOSED"
      [] pool.status = "Default" -> "DEFAULTED"

\* The picture agrees with the contract after any calls: its status, what every LP has in it,
\* which drawdowns are live and since when, and what is out.  A default writes off what it
\* settles without an event, so from then on the picture may show more outstanding.
GraphFollowsPool ==
    /\ graph.status = facilityStatus
    /\ graph.totalAssets = pool.principal
    /\ \A lp \in LPs : shares(graph, lp) = lpPositions[lp].principal
    /\ graph.lenderCount = Cardinality(DOMAIN graph.positions)
    /\ {ref \in DOMAIN graph.drawdowns : ~graph.drawdowns[ref].repaid} = liveRefs
    /\ \A ref \in liveRefs :
           /\ graph.drawdowns[ref].amount = drawDowns[ref].principal
           /\ graph.drawdowns[ref].drawnAt = drawDowns[ref].startTs
    /\ IF pool.status = "Active" THEN graph.outstanding = pool.outstanding
       ELSE graph.outstanding >= pool.outstanding
=============================================================================
