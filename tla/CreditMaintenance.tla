------------------------- MODULE CreditMaintenance -------------------------
(***************************************************************************)
(* The fees for credit that is not used: the daily calculation of          *)
(* server/workers/creditMaintenanceWorker.js, which accrues a day's fee    *)
(* for every borrower and bills the accumulated fee at the end of a        *)
(* period, its marking of overdue charges, and the borrower's              *)
(* POST /maintenance/pay/:chargeId.                                        *)
(*                                                                         *)
(* Both jobs load all their documents at once and save them one by one,    *)
(* with notifications in between; save() writes the paths that changed.    *)
(* Fees are in units of the daily fee for one unit of credit.              *)
(***************************************************************************)
EXTENDS Integers, Sequences, Sums

CONSTANTS
    Psps,
    Charges,           \* documents that may be created
    Workers,           \* as many calculations may be under way at once
    Approved,          \* approvedAmount of every borrower
    Utilizations,      \* what may be utilized of it, or beyond it
    Period,            \* days of maintenanceChargeFrequency: 7 or 30
    PaymentDays,       \* a charge is due as many days after it was made: 3
    MaxDay,
    MaxRuns,           \* calculations that are started
    MaxMishaps         \* of them, cut off by an error or a restart, or overlapping another

ASSUME MaintenanceAssumption ==
    /\ Psps # {} /\ IsFiniteSet(Charges) /\ IsFiniteSet(Workers)
    /\ Approved \in Nat \ {0} /\ Utilizations \subseteq Nat /\ 0 \in Utilizations
    /\ Period \in Nat \ {0} /\ PaymentDays \in Nat
    /\ MaxDay \in Nat /\ MaxRuns \in Nat /\ MaxMishaps \in Nat

VARIABLES
    psp,               \* [Psps -> PspDoc]
    utilized,          \* [Psps -> currentlyUtilized], which other routes write
    charge,            \* [Charges -> ChargeDoc]
    run,               \* [Workers -> the calculation under way]
    marking,           \* the charges that are being marked, as they were loaded
    payment,           \* the payment under way: one at a time
    day,
    runs,
    failures,
    overlaps,          \* history: calculations that were started while another was under way
    earned,            \* [Psps -> fees of the calculations that were stored]
    paid               \* the borrowers that have paid a charge

maintenanceVars == <<psp, utilized, charge, run, marking, payment, day, runs, failures, overlaps,
          earned, paid>>

\* No date: the calculation has never met the borrower.
Never == -1

PspDoc ==
    [approved : BOOLEAN, accumulated : Nat, last : (0 .. MaxDay) \cup {Never}]

ChargeDoc ==
    [status : {"none", "Pending", "Paid", "Overdue"}, psp : Psps, amount : Nat,
     start : 0 .. MaxDay, due : 0 .. (MaxDay + PaymentDays)]

NoCharge ==
    [status |-> "none", psp |-> CHOOSE p \in Psps : TRUE, amount |-> 0, start |-> 0, due |-> 0]

\* What making a charge saves, in this order.
\* Mutant: the accumulator is reset before the charge is stored.
chargeStepsResetFirst == <<"profile", "charge">>

chargeSteps == <<"charge", "profile">>

\* docs are the borrowers still to be gone through, as they were loaded; step is how far the
\* charge of current is.
NoRun == [at |-> "idle", docs |-> [p \in {} |-> 0], utilized |-> [p \in {} |-> 0],
          current |-> {}, fee |-> 0, step |-> 1]

NoPayment == [at |-> "idle", charge |-> {}, loaded |-> {}]

MaintenanceInit ==
    /\ psp = [p \in Psps |-> [approved |-> TRUE, accumulated |-> 0, last |-> Never]]
    /\ utilized = [p \in Psps |-> 0]
    /\ charge = [c \in Charges |-> NoCharge]
    /\ run = [k \in Workers |-> NoRun] /\ marking = {} /\ payment = NoPayment
    /\ day = 0 /\ runs = 0 /\ failures = 0 /\ overlaps = 0
    /\ earned = [p \in Psps |-> 0] /\ paid = {}

jobs == <<run, marking, payment>>
bounds == <<day, runs, failures, overlaps>>
ghosts == <<earned, paid>>

\* save(): the paths that differ from what was loaded.
saved(stored, loaded, doc) ==
    [f \in DOMAIN doc |-> IF doc[f] # loaded[f] THEN doc[f] ELSE stored[f]]

-----------------------------------------------------------------------------
(* processDailyMaintenance: by cron at midnight, or by a borrower's                           *)
(* POST /maintenance/trigger-calculation, which waits for no other.                           *)

\* Mutant: a line that is overdrawn is not left out.
calculateDailyMaintenanceFeeOverdrawn(used) == Approved - used

calculateDailyMaintenanceFee(used) ==
    LET availableCredit == Approved - used
    IN  IF availableCredit <= 0 THEN 0 ELSE availableCredit

\* The time of day differs from one calculation to the next: a day may be missing to a whole.
shouldCreateMaintenanceCharge(doc, shortOfDay) == day - doc.last - shortOfDay >= Period

goOn(k, r) == run' = [run EXCEPT ![k] = r]

RunStart(k) ==
    /\ run[k].at = "idle" /\ runs < MaxRuns
    /\ LET active == {p \in Psps : psp[p].approved}
       IN  goOn(k, [NoRun EXCEPT !.at = "next",
                        !.docs = [p \in active |-> psp[p]],
                        !.utilized = [p \in active |-> utilized[p]]])
    /\ runs' = runs + 1
    /\ overlaps' = IF \E j \in Workers : run[j].at # "idle" THEN overlaps + 1 ELSE overlaps
    /\ failures + overlaps' <= MaxMishaps
    /\ UNCHANGED <<psp, utilized, charge, marking, payment, day, failures>> /\ UNCHANGED ghosts

accrued(doc, fee) ==
    [doc EXCEPT !.accumulated = @ + fee, !.last = IF @ = Never THEN day ELSE @]

earn(p, fee) == earned' = [earned EXCEPT ![p] = @ + fee]

\* The calculation goes on to the borrowers other than p.
doneWith(k, p) ==
    LET others == DOMAIN run[k].docs \ {p}
    IN  goOn(k, [NoRun EXCEPT !.at = "next",
                     !.docs = [q \in others |-> run[k].docs[q]],
                     !.utilized = [q \in others |-> run[k].utilized[q]]])

\* A borrower who is not billed today.
Accrue(k) ==
    /\ run[k].at = "next"
    /\ \E p \in DOMAIN run[k].docs, shortOfDay \in {0, 1} :
           LET fee == calculateDailyMaintenanceFee(run[k].utilized[p])
               doc == accrued(run[k].docs[p], fee)
           IN  /\ ~shouldCreateMaintenanceCharge(doc, shortOfDay)
               /\ psp' = [psp EXCEPT ![p] = saved(@, run[k].docs[p], doc)]
               /\ earn(p, fee)
               /\ doneWith(k, p)
    /\ UNCHANGED <<utilized, charge, marking, payment, paid>> /\ UNCHANGED bounds

\* One who is.
ChargeStart(k) ==
    /\ run[k].at = "next"
    /\ \E p \in DOMAIN run[k].docs, shortOfDay \in {0, 1} :
           LET fee == calculateDailyMaintenanceFee(run[k].utilized[p])
           IN  /\ shouldCreateMaintenanceCharge(accrued(run[k].docs[p], fee), shortOfDay)
               /\ goOn(k, [run[k] EXCEPT !.at = "charge", !.current = {p}, !.fee = fee])
    /\ UNCHANGED <<psp, utilized, charge, marking, payment>>
    /\ UNCHANGED bounds /\ UNCHANGED ghosts

chargeStep(k, p, step) ==
    /\ run[k].at = "charge" /\ p \in run[k].current /\ chargeSteps[run[k].step] = step
    /\ IF run[k].step = Len(chargeSteps) THEN doneWith(k, p)
       ELSE goOn(k, [run[k] EXCEPT !.step = @ + 1])
    /\ IF run[k].step = 1 THEN earn(p, run[k].fee) ELSE UNCHANGED earned

\* createMaintenanceCharge
ChargeStore(k) ==
    /\ \E p \in Psps, c \in Charges :
           /\ chargeStep(k, p, "charge")
           /\ charge[c].status = "none"
           /\ LET doc == accrued(run[k].docs[p], run[k].fee)
              IN  charge' = [charge EXCEPT ![c] =
                      [status |-> "Pending", psp |-> p, amount |-> doc.accumulated,
                       start |-> doc.last, due |-> day + PaymentDays]]
    /\ UNCHANGED <<psp, utilized, marking, payment, paid>> /\ UNCHANGED bounds

\* Mutant: the date of the last charge is left as it was.
chargedSameDate(doc) == [doc EXCEPT !.accumulated = 0]

charged(doc) == [doc EXCEPT !.accumulated = 0, !.last = day]

ChargeReset(k) ==
    /\ \E p \in Psps :
           /\ chargeStep(k, p, "profile")
           /\ psp' = [psp EXCEPT ![p] = saved(@, run[k].docs[p], charged(run[k].docs[p]))]
    /\ UNCHANGED <<utilized, charge, marking, payment, paid>> /\ UNCHANGED bounds

RunEnd(k) ==
    /\ run[k].at = "next" /\ DOMAIN run[k].docs = {}
    /\ goOn(k, NoRun)
    /\ UNCHANGED <<psp, utilized, charge, marking, payment>> /\ UNCHANGED bounds /\ UNCHANGED ghosts

\* The server restarts, or a save fails: the borrowers that were still to come are left out.
RunFails(k) ==
    /\ run[k].at # "idle" /\ failures + overlaps < MaxMishaps
    /\ goOn(k, NoRun) /\ failures' = failures + 1
    /\ UNCHANGED <<psp, utilized, charge, marking, payment, day, runs, overlaps>>
    /\ UNCHANGED ghosts

-----------------------------------------------------------------------------
(* markOverdueCharges: by cron at noon, or POST /maintenance/mark-overdue *)

\* Mutant: the due date is compared the wrong way round.
overdueChargesEarly == {c \in Charges : charge[c].status = "Pending" /\ charge[c].due > day}

overdueCharges == {c \in Charges : charge[c].status = "Pending" /\ charge[c].due < day}

MarkStart ==
    /\ marking = {} /\ overdueCharges # {}
    /\ marking' = overdueCharges
    /\ UNCHANGED <<psp, utilized, charge, run, payment>> /\ UNCHANGED bounds /\ UNCHANGED ghosts

\* markAsOverdue of a document that was loaded as Pending, whatever it is by now.
MarkOverdue ==
    /\ \E c \in marking :
           /\ charge' = [charge EXCEPT ![c].status = "Overdue"]
           /\ marking' = marking \ {c}
    /\ UNCHANGED <<psp, utilized, run, payment>> /\ UNCHANGED bounds /\ UNCHANGED ghosts

-----------------------------------------------------------------------------
(* POST /maintenance/pay/:chargeId: the profile and the charge are loaded, the charge is      *)
(* saved as paid, then the profile with its accumulator wiped.                                *)

payable(doc) == doc.status \in {"Pending", "Overdue"}

PayStart ==
    /\ payment.at = "idle"
    /\ \E c \in Charges :
           /\ payable(charge[c])
           /\ payment' = [at |-> "charge", charge |-> {c}, loaded |-> {psp[charge[c].psp]}]
    /\ UNCHANGED <<psp, utilized, charge, run, marking>> /\ UNCHANGED bounds /\ UNCHANGED ghosts

PayCharge ==
    /\ payment.at = "charge"
    /\ \E c \in payment.charge :
           /\ charge' = [charge EXCEPT ![c].status = "Paid"]
           /\ paid' = paid \cup {charge[c].psp}
    /\ payment' = [payment EXCEPT !.at = "profile"]
    /\ UNCHANGED <<psp, utilized, run, marking, earned>> /\ UNCHANGED bounds

PayReset ==
    /\ payment.at = "profile"
    /\ \E c \in payment.charge, loaded \in payment.loaded :
           psp' = [psp EXCEPT ![charge[c].psp] =
                      saved(@, loaded, [loaded EXCEPT !.accumulated = 0])]
    /\ payment' = NoPayment
    /\ UNCHANGED <<utilized, charge, run, marking>> /\ UNCHANGED bounds /\ UNCHANGED ghosts

-----------------------------------------------------------------------------
(* Elsewhere *)

\* Financing draws and, so the code intends, repayments; a confirmation asks for no limit.
Utilize ==
    /\ \E p \in Psps, amount \in Utilizations :
           /\ amount # utilized[p]
           /\ utilized' = [utilized EXCEPT ![p] = amount]
    /\ UNCHANGED <<psp, charge>> /\ UNCHANGED jobs /\ UNCHANGED bounds /\ UNCHANGED ghosts

\* The line is found to have expired.
Expire ==
    /\ \E p \in Psps : psp[p].approved /\ psp' = [psp EXCEPT ![p].approved = FALSE]
    /\ UNCHANGED <<utilized, charge>> /\ UNCHANGED jobs /\ UNCHANGED bounds /\ UNCHANGED ghosts

Tick ==
    /\ day < MaxDay
    /\ day' = day + 1
    /\ UNCHANGED <<psp, utilized, charge, runs, failures, overlaps>>
    /\ UNCHANGED jobs /\ UNCHANGED ghosts

RunNext ==
    \E k \in Workers :
        \/ RunStart(k) \/ Accrue(k) \/ RunEnd(k) \/ RunFails(k)
        \/ ChargeStart(k) \/ ChargeStore(k) \/ ChargeReset(k)

MarkNext == MarkStart \/ MarkOverdue

MaintenanceNext ==
    \/ RunNext
    \/ MarkNext
    \/ PayStart \/ PayCharge \/ PayReset
    \/ Utilize \/ Expire
    \/ Tick

MaintenanceSpec == MaintenanceInit /\ [][MaintenanceNext]_maintenanceVars

\* Cron starts the marking every day.
FairMaintenanceSpec == MaintenanceSpec /\ WF_maintenanceVars(MarkNext)

-----------------------------------------------------------------------------
(* Properties *)

\* Types: no fee, and so no charge, is negative, though more may be utilized than was approved.
MaintenanceTypeOK ==
    /\ psp \in [Psps -> PspDoc]
    /\ utilized \in [Psps -> Utilizations]
    /\ charge \in [Charges -> ChargeDoc]
    /\ \A k \in Workers :
           DOMAIN run[k].docs \subseteq Psps /\ run[k].current \subseteq DOMAIN run[k].docs
    /\ marking \subseteq {c \in Charges : charge[c].status # "none"}
    /\ day \in 0 .. MaxDay /\ runs \in 0 .. MaxRuns /\ failures + overlaps \in 0 .. MaxMishaps
    /\ earned \in [Psps -> Nat] /\ paid \subseteq Psps

chargesOf(p) == {c \in Charges : charge[c].status # "none" /\ charge[c].psp = p}

\* However often the calculation is run, and whatever is paid meanwhile, a period is billed
\* once, and once more for every calculation that was cut off or overlapped another.
BilledOncePerPeriod ==
    \A p \in Psps, c \in Charges :
        c \in chargesOf(p) =>
            Cardinality({d \in chargesOf(p) : charge[d].start = charge[c].start})
                <= 1 + failures + overlaps

\* A fee that was stored is billed or still accumulated, wherever a calculation is cut off,
\* for a borrower who has not paid.  Paying wipes what has accumulated since the charge, and
\* of two calculations that overlap the later overwrites what the other has accumulated.
NoFeeLost ==
    overlaps = 0 =>
        \A p \in Psps \ paid :
            psp[p].accumulated
                + SumOf([c \in chargesOf(p) |-> charge[c].amount], chargesOf(p))
                >= earned[p]

\* A charge that is not paid in time does not stay pending.
LateChargeMarked ==
    \A c \in Charges :
        (charge[c].status = "Pending" /\ charge[c].due < day) ~> charge[c].status # "Pending"
=============================================================================
