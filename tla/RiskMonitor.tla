---------------------------- MODULE RiskMonitor -----------------------------
(***************************************************************************)
(* agent/src/rules.js: what the risk monitor finds in the subgraph's       *)
(* picture of a facility, held against the contract it is a picture of.    *)
(* The share of a borrower in all facilities and the unclaimed yield are   *)
(* left out: nothing in one pool says that they are right or wrong.        *)
(***************************************************************************)
EXTENDS Subgraph

daysBetween(from, to) == monus(to, from) \div SECONDS_PER_DAY

\* windowDays
NearDays == 3

\* Mutant: the last day of grace is counted as a day of penalty.
penaltyAccruingEarly(d) ==
    ~d.repaid /\ daysBetween(d.drawnAt, now) >= Tenure + PenaltyGraceDays

\* The picture has no term of a drawdown: its age is held against the tenure of the facility.
penaltyAccruing(d) ==
    ~d.repaid /\ daysBetween(d.drawnAt, now) > Tenure + PenaltyGraceDays

outstandingNearFinality(g) ==
    /\ g.status = "ACTIVE" /\ g.outstanding # 0 /\ g.finalityAt # 0
    /\ daysBetween(now, g.finalityAt) <= NearDays

fundingStalled(g) == g.status = "FUNDING" /\ now >= g.fundingMaturity

\* The drawdowns a penalty is reported for, all of them CRITICAL.
penaltyAlarms(g) == {ref \in DOMAIN g.drawdowns : penaltyAccruing(g.drawdowns[ref])}

\* How severe the other findings are.
nearFinality(g) ==
    IF ~outstandingNearFinality(g) THEN "none"
    ELSE IF daysBetween(now, g.finalityAt) = 0 THEN "CRITICAL" ELSE "WARNING"

windowExpired(g) ==
    IF ~fundingStalled(g) THEN "none"
    ELSE IF g.totalAssets >= SoftCap THEN "WARNING" ELSE "INFO"

-----------------------------------------------------------------------------
(* Properties *)

\* What the monitor reports is so, and what it exists to report it does report: a penalty is
\* only alarmed at when the contract charges it, capital that is out after finality is
\* critical, and a funding window that is over is shown until somebody finalizes it, as one
\* to activate when and only when the soft cap is met.
MonitorIsRight ==
    /\ \A ref \in penaltyAlarms(graph) :
           ref \in liveRefs /\ accruesPenalty(drawDowns[ref], now)
    /\ pool.status = "Active" /\ now >= pool.poolFinalityTs /\ pool.outstanding > 0
           => nearFinality(graph) = "CRITICAL"
    /\ IF pool.status = "Funding" /\ now >= pool.fMaturityTs
       THEN windowExpired(graph) = IF pool.principal >= SoftCap THEN "WARNING" ELSE "INFO"
       ELSE windowExpired(graph) = "none"
=============================================================================
