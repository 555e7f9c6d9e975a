----------------------------- MODULE MCFactory -----------------------------
(***************************************************************************)
(* Small instances of the factory.                                         *)
(***************************************************************************)
EXTENDS PoolFactory, TLC

Rates(apr, tenure, grace, idle, util, pen) ==
    [aprAnnual |-> apr, tenure |-> tenure, penaltyGraceDays |-> grace,
     idleRateDaily |-> idle, utilizedRateDaily |-> util, penaltyRateDaily |-> pen]

\* Terms that lock at midnight, and terms that are snapped to it: at WAD = 4 and two ticks
\* a day the second are coverable only when the snap is a tick shorter.
MCTerms ==
    {[fundingDurationSecs |-> 2, softCap |-> 4, hardCap |-> 8, tenure |-> 1,
      idleRateDaily |-> 1, utilizedRateDaily |-> 2, penaltyRateDaily |-> 3,
      penaltyGraceDays |-> 0, aprAnnual |-> apr] : apr \in {1, 2}}

MCBounds ==
    {[maxFundingDurationSecs |-> 2, fundingExecBuffer |-> 1, maxGracePeriodDays |-> 1],
     [maxFundingDurationSecs |-> 2, fundingExecBuffer |-> 0, maxGracePeriodDays |-> 0]}

MCEnvelopes ==
    {[min |-> Rates(0, 1, 0, 0, 0, 0), max |-> Rates(9, 9, 9, 9, 9, 9), hardCapCeiling |-> c]
        : c \in {4, 8}}

MCPoolSymmetry == Permutations(PoolIds)
=============================================================================
