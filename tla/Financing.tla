----------------------------- MODULE Financing -----------------------------
(***************************************************************************)
(* How the orders of one borrower are financed on the server's books:      *)
(* POST /psp/request-financing, the CAD's /admin/financing/:id/confirm,    *)
(* the repayment routes with server/workers/repaymentAgent.js, and the     *)
(* hourly server/workers/overdueWatcher.js.                                *)
(*                                                                         *)
(* Every await is a point where others run: a handler is a record in calls *)
(* and the watcher's poll one in watcher, each with what it has read.      *)
(* Document.save() writes the paths that were changed since the document   *)
(* was loaded, on top of whatever is stored by then.                       *)
(*                                                                         *)
(* The clock counts days.  Polls fall within a day, never on its stroke,   *)
(* so with whole numbers now > dueDate is day >= due.                      *)
(***************************************************************************)
EXTENDS Integers, Sequences, Sums

CONSTANTS
    Requests,          \* documents that may be created
    Orders,
    Amounts,
    Tenors,            \* drawdownTenor, in days
    Handlers,          \* as many requests to the server are in progress
    Confirmers,        \* those of them that are confirmations of the CAD
    Grace,             \* penaltyGracePeriodHours, in days
    DailyPenalty,      \* penaltyBips: of a unit of money a day
    MaxDay,
    MaxFailed,         \* repayments that are reported in vain
    MaxRestarts

ASSUME FinancingAssumption ==
    /\ IsFiniteSet(Requests) /\ Orders # {} /\ Amounts # {} /\ Tenors # {}
    /\ Amounts \subseteq Nat \ {0} /\ Tenors \subseteq Nat \ {0}
    /\ Confirmers \subseteq Handlers
    /\ Grace \in Nat \ {0} /\ DailyPenalty \in Nat
    /\ MaxDay \in Nat /\ MaxFailed \in Nat /\ MaxRestarts \in Nat

VARIABLES
    utilized,          \* PSPProfile.currentlyUtilized
    request,           \* [Requests -> RequestDoc]
    deposit,           \* [Orders -> status of its EfficientDeposit]
    failed,            \* how many RepaymentRecords there are: every one is of a failure
    calls,             \* [Handlers -> Call]
    watcher,
    day,
    restarts

vars == <<utilized, request, deposit, failed, calls, watcher, day, restarts>>

-----------------------------------------------------------------------------
(* Documents *)

\* The statuses that are stored.  No request becomes Validated, AwaitingDrawdown, Rejected or
\* Failed, since nothing that runs starts the validation agent, and none ProcessingRepayment
\* or Repaid, since no repayment succeeds.
Outstanding == {"Disbursed", "Overdue", "PenaltyApplied"}

Statuses == {"none", "Pending", "RepaymentPending"} \cup Outstanding

\* Stored once the CAD has confirmed.
Drawn == Outstanding \cup {"RepaymentPending"}

DepositStatuses == {"absent", "None", "Financing", "Financed"}

RequestDoc ==
    [status : Statuses, order : Orders, amount : Amounts, tenor : Tenors, due : Nat,
     isOverdue : BOOLEAN, penaltyAmount : Nat]

NoRequest ==
    [status |-> "none", order |-> CHOOSE o \in Orders : TRUE,
     amount |-> CHOOSE a \in Amounts : TRUE, tenor |-> CHOOSE t \in Tenors : TRUE,
     due |-> 0, isOverdue |-> FALSE, penaltyAmount |-> 0]

\* Document.save(): what the document was loaded as, and what the code made of it.
saved(stored, loaded, doc) ==
    [f \in DOMAIN doc |-> IF doc[f] # loaded[f] THEN doc[f] ELSE stored[f]]

\* What confirming a request saves, in this order: the profile, the request, the deposit.
\* Mutants: the request before the profile, or the deposit before the request.
confirmStepsRequestFirst == <<"disburse", "utilize", "finance">>
confirmStepsDepositFirst == <<"utilize", "finance", "disburse">>

confirmSteps == <<"utilize", "disburse", "finance">>

NoCall == [op |-> "none"]

Call ==
    [op : {"create", "mark"}, order : Orders]
        \cup [op : {"confirm"}, request : Requests, utilized : Nat, step : DOMAIN confirmSteps]
        \cup [op : {"pending"}, request : Requests, loaded : RequestDoc]
        \cup {NoCall}

\* docs are the requests as the poll has loaded them, seen by the check of the current one,
\* which took the time when it began.
Idle == [at |-> "idle", docs |-> [r \in {} |-> NoRequest], current |-> {}, now |-> 0]

Init ==
    /\ utilized = 0
    /\ request = [r \in Requests |-> NoRequest]
    /\ deposit = [o \in Orders |-> "absent"]
    /\ failed = 0
    /\ calls = [h \in Handlers |-> NoCall]
    /\ watcher = Idle
    /\ day = 0 /\ restarts = 0

books == <<utilized, request, deposit, failed>>

begin(h, call) ==
    /\ calls[h] = NoCall
    /\ calls' = [calls EXCEPT ![h] = call]

continue(h, call) == calls' = [calls EXCEPT ![h] = call]

finish(h) == continue(h, NoCall)

handlersOnly == UNCHANGED <<watcher, day, restarts>>

-----------------------------------------------------------------------------
(* Orders and requests *)

\* POST /webhook/eficyent/deposits, once for an order.
DepositArrives(o) ==
    /\ deposit[o] = "absent"
    /\ deposit' = [deposit EXCEPT ![o] = "None"]
    /\ UNCHANGED <<utilized, request, failed, calls>> /\ handlersOnly

\* POST /psp/request-financing refuses an order whose deposit is being financed or is
\* financed.  It does not refuse one that it has no deposit of.
RequestRead(h, o) ==
    /\ h \notin Confirmers
    /\ deposit[o] \notin {"Financing", "Financed"}
    /\ begin(h, [op |-> "create", order |-> o])
    /\ UNCHANGED books /\ handlersOnly

RequestCreate(h) ==
    /\ calls[h].op = "create"
    /\ \E r \in Requests, amount \in Amounts, tenor \in Tenors :
           /\ request[r].status = "none"
           /\ request' = [request EXCEPT ![r] =
                  [NoRequest EXCEPT !.status = "Pending", !.order = calls[h].order,
                                    !.amount = amount, !.tenor = tenor]]
    /\ continue(h, [op |-> "mark", order |-> calls[h].order])
    /\ UNCHANGED <<utilized, deposit, failed>> /\ handlersOnly

setDeposit(o, status) ==
    deposit' = [deposit EXCEPT ![o] = IF @ = "absent" THEN @ ELSE status]

RequestMark(h) ==
    /\ calls[h].op = "mark"
    /\ setDeposit(calls[h].order, "Financing")
    /\ finish(h)
    /\ UNCHANGED <<utilized, request, failed>> /\ handlersOnly

-----------------------------------------------------------------------------
(* POST /admin/financing/:id/confirm: the profile, the request, then the deposit.  What       *)
(* GET /admin/financing/:id/validate tells the CAD of the credit and the order binds nobody.  *)

ConfirmRead(h, r) ==
    /\ h \in Confirmers
    /\ request[r].status = "Pending"
    /\ begin(h, [op |-> "confirm", request |-> r, utilized |-> utilized, step |-> 1])
    /\ UNCHANGED books /\ handlersOnly

confirmStep(h, step) ==
    /\ calls[h].op = "confirm" /\ confirmSteps[calls[h].step] = step
    /\ IF calls[h].step = Len(confirmSteps)
       THEN finish(h) ELSE continue(h, [calls[h] EXCEPT !.step = @ + 1])
    /\ UNCHANGED failed /\ handlersOnly

ConfirmUtilize(h) ==
    /\ confirmStep(h, "utilize")
    /\ utilized' = calls[h].utilized + request[calls[h].request].amount
    /\ UNCHANGED <<request, deposit>>

ConfirmDisburse(h) ==
    /\ confirmStep(h, "disburse")
    /\ LET r == calls[h].request
       IN  request' = [request EXCEPT ![r].status = "Disbursed",
                                      ![r].due = day + request[r].tenor - 1]
    /\ UNCHANGED <<utilized, deposit>>

ConfirmFinance(h) ==
    /\ confirmStep(h, "finance")
    /\ setDeposit(request[calls[h].request].order, "Financed")
    /\ UNCHANGED <<utilized, request>>

-----------------------------------------------------------------------------
(* Repayments.  FinancingRequest has no interestDays, so what both functions expect of       *)
(* interest is not a number, which no document with such a field can be saved with.          *)

\* POST /psp/request-repayment: requestRepayment.
RepaymentRead(h, r) ==
    /\ h \notin Confirmers
    /\ request[r].status \in Drawn
    /\ begin(h, [op |-> "pending", request |-> r, loaded |-> request[r]])
    /\ UNCHANGED books /\ handlersOnly

\* The request is saved; the record that is to be confirmed is refused by its schema.
RepaymentPending(h) ==
    /\ calls[h].op = "pending"
    /\ LET c == calls[h]
       IN  request' = [request EXCEPT ![c.request] =
               saved(@, c.loaded, [c.loaded EXCEPT !.status = "RepaymentPending"])]
    /\ finish(h)
    /\ UNCHANGED <<utilized, deposit, failed>> /\ handlersOnly

\* POST /psp/process-repayment: processRepayment.  Neither the request nor the profile is
\* saved; the failure is recorded.
ProcessRepayment(r) ==
    /\ request[r].status # "none" /\ failed < MaxFailed
    /\ failed' = failed + 1
    /\ UNCHANGED <<utilized, request, deposit, calls>> /\ handlersOnly

-----------------------------------------------------------------------------
(* The watcher: one poll at a time *)

watcherOnly == UNCHANGED <<utilized, deposit, failed, calls, day, restarts>>

pastDue(doc, now)  == now >= doc.due
overdueDays(doc, now) == now - doc.due

\* Mutant: the grace period is not waited for.
pastGraceAtOnce(doc, now) == pastDue(doc, now)

pastGrace(doc, now) == pastDue(doc, now) /\ overdueDays(doc, now) >= Grace
estimatedPenalty(doc, now) == doc.amount * DailyPenalty * overdueDays(doc, now)

\* Mutant: whatever is due is loaded, with what the borrower has announced to repay.
watchedAll(doc) == doc.status \in Drawn /\ doc.due <= day + 1

\* Mutant: only what is due within 24 hours is loaded.
watchedDueSoon(doc) == doc.status \in Outstanding /\ doc.due = day + 1

\* What pollOverdueRequests asks for.
watched(doc) == doc.status \in Outstanding /\ doc.due <= day + 1

Poll ==
    /\ watcher.at = "idle"
    /\ \E r \in Requests : watched(request[r])
    /\ watcher' = [Idle EXCEPT !.at = "next",
           !.docs = [r \in {q \in Requests : watched(request[q])} |-> request[r]]]
    /\ UNCHANGED request /\ watcherOnly

PollEnd ==
    /\ watcher.at = "next" /\ watcher.docs = Idle.docs
    /\ watcher' = Idle
    /\ UNCHANGED request /\ watcherOnly

\* checkRequestAlerts of one of them goes by the time at its beginning, and first marks it.
\* The reminders before the due date and their flags are left out.
MarkOverdue ==
    /\ watcher.at = "next"
    /\ \E r \in DOMAIN watcher.docs :
           LET loaded == watcher.docs[r]
               doc == IF pastGrace(loaded, day) /\ ~loaded.isOverdue
                      THEN [loaded EXCEPT !.isOverdue = TRUE, !.status = "Overdue"]
                      ELSE loaded
           IN  /\ request' = [request EXCEPT ![r] = saved(@, loaded, doc)]
               /\ watcher' = [watcher EXCEPT !.at = "email", !.docs[r] = doc,
                                             !.current = {r}, !.now = day]
    /\ watcherOnly

penaltyGrown(doc, now) ==
    pastDue(doc, now) /\ doc.isOverdue /\ estimatedPenalty(doc, now) > doc.penaltyAmount

penalized(doc, now) ==
    [doc EXCEPT !.penaltyAmount = estimatedPenalty(doc, now), !.status = "PenaltyApplied"]

\* Then, when the borrower and the staff have been written to, it is charged.
ApplyPenalty ==
    /\ watcher.at = "email"
    /\ \E r \in watcher.current :
           LET loaded == watcher.docs[r]
           IN  /\ request' = IF penaltyGrown(loaded, watcher.now)
                             THEN [request EXCEPT ![r] =
                                      saved(@, loaded, penalized(loaded, watcher.now))]
                             ELSE request
               /\ watcher' = [Idle EXCEPT !.at = "next",
                      !.docs = [q \in DOMAIN watcher.docs \ {r} |-> watcher.docs[q]]]
    /\ watcherOnly

-----------------------------------------------------------------------------
Tick ==
    /\ day < MaxDay
    /\ day' = day + 1
    /\ UNCHANGED <<calls, watcher, restarts>> /\ UNCHANGED books

\* Whatever was between two awaits is gone.
Restart ==
    /\ restarts < MaxRestarts
    /\ restarts' = restarts + 1
    /\ calls' = [h \in Handlers |-> NoCall]
    /\ watcher' = Idle
    /\ UNCHANGED day /\ UNCHANGED books

HandlerNext(h) ==
    \/ \E o \in Orders : RequestRead(h, o)
    \/ \E r \in Requests : ConfirmRead(h, r) \/ RepaymentRead(h, r)
    \/ RequestCreate(h) \/ RequestMark(h)
    \/ ConfirmUtilize(h) \/ ConfirmDisburse(h) \/ ConfirmFinance(h)
    \/ RepaymentPending(h)

WatcherNext ==
    \/ Poll \/ MarkOverdue \/ ApplyPenalty \/ PollEnd

Next ==
    \/ \E o \in Orders : DepositArrives(o)
    \/ \E h \in Handlers : HandlerNext(h)
    \/ \E r \in Requests : ProcessRepayment(r)
    \/ WatcherNext
    \/ Tick
    \/ Restart

Spec == Init /\ [][Next]_vars

\* setInterval keeps the watcher going; nobody has to request, confirm or repay.
FairSpec == Spec /\ WF_vars(WatcherNext)

-----------------------------------------------------------------------------
(* Properties *)

drawnRequests == {r \in Requests : request[r].status \in Drawn}

\* Types, and that a request is marked overdue when its grace has passed and not before.
FinancingTypeOK ==
    /\ utilized \in Nat
    /\ request \in [Requests -> RequestDoc]
    /\ deposit \in [Orders -> DepositStatuses]
    /\ \A r \in Requests :
           /\ request[r].status \in {"Overdue", "PenaltyApplied"} => request[r].isOverdue
           /\ request[r].isOverdue => request[r].due + Grace <= day
    /\ failed \in 0 .. MaxFailed
    /\ calls \in [Handlers -> Call]
    /\ DOMAIN watcher.docs \subseteq Requests /\ watcher.current \subseteq DOMAIN watcher.docs
    /\ day \in 0 .. MaxDay /\ restarts \in 0 .. MaxRestarts

\* The three books agree wherever a confirmation is cut off and whatever else is requested
\* of the order meanwhile.  What is drawn is part of the utilization that the credit is
\* measured against: too much may be counted, never too little.  And an order is shown as
\* financed only when a request of it was disbursed.
BooksAgree ==
    /\ SumOf([r \in drawnRequests |-> request[r].amount], drawnRequests) <= utilized
    /\ \A o \in Orders :
           deposit[o] = "Financed" => \E r \in drawnRequests : request[r].order = o

\* What the borrower has announced to repay is taken back by nobody but a poll that had loaded
\* the request before.
NoticeKept ==
    [][\A r \in Requests :
           request[r].status = "RepaymentPending" /\ request'[r].status # "RepaymentPending"
               => /\ r \in DOMAIN watcher.docs
                  /\ watcher.docs[r].status # "RepaymentPending"]_vars

\* A request that is past its grace is marked, unless the borrower announces its repayment.
LateIsMarked ==
    \A r \in Requests :
        (request[r].status = "Disbursed" /\ pastGrace(request[r], day))
            ~> (request[r].isOverdue \/ request[r].status = "RepaymentPending")

=============================================================================
