-------------------------- MODULE FinancingProofs --------------------------
(***************************************************************************)
(* Proofs about the financing of orders, for any requests, orders, amounts *)
(* and handlers, as long as one confirmation is under way at a time        *)
(* (OneConfirmer): of two the later overwrites what the other has utilized *)
(* and disburses again what the watcher has marked by then.                *)
(***************************************************************************)
EXTENDS Financing, SumTheorems

\* One handler at most confirms.
OneConfirmer == \A h, k \in Confirmers : h = k

-----------------------------------------------------------------------------
(* The invariant *)

DrawnSum == SumOf([r \in drawnRequests |-> request[r].amount], drawnRequests)

\* What is true of a request as it is stored: nothing is overdue before it is disbursed.
RequestOK(doc) ==
    /\ doc.status \in {"none", "Pending"} => ~doc.isOverdue
    /\ doc.status \in {"Overdue", "PenaltyApplied"} => doc.isOverdue
    /\ doc.isOverdue => doc.due + Grace <= day

BooksInv ==
    /\ utilized \in Nat
    /\ request \in [Requests -> RequestDoc]
    /\ deposit \in [Orders -> DepositStatuses]
    /\ \A r \in Requests : RequestOK(request[r])
    /\ failed \in 0 .. MaxFailed
    /\ day \in 0 .. MaxDay /\ restarts \in 0 .. MaxRestarts
    /\ BooksAgree

\* What a call may rely on: a confirmation, that its request waits until it is disbursed, and
\* that the profile has it counted in between.
CallOK(h, c) ==
    /\ c.op = "confirm" =>
           /\ h \in Confirmers
           /\ request[c.request].status \in (IF c.step = 3 THEN Drawn ELSE {"Pending"})
           /\ c.step = 1 => c.utilized = utilized
           /\ c.step = 2 => DrawnSum + request[c.request].amount <= utilized
    /\ c.op = "pending" => request[c.request].status \in Drawn

\* What a poll has loaded may be old, but not its due date, and what it has marked is marked.
LoadedOK(r, doc) ==
    /\ doc.status \in Outstanding /\ request[r].status \in Drawn
    /\ doc.due = request[r].due
    /\ doc.isOverdue => request[r].isOverdue
    /\ doc.status \in {"Overdue", "PenaltyApplied"} => doc.isOverdue

PollInv ==
    /\ watcher = [at |-> watcher.at, docs |-> watcher.docs, current |-> watcher.current,
                  now |-> watcher.now]
    /\ watcher.at \in {"idle", "next", "email"} /\ watcher.now \in Nat
    /\ watcher.docs \in [DOMAIN watcher.docs -> RequestDoc]
    /\ DOMAIN watcher.docs \subseteq Requests
    /\ watcher.current \subseteq DOMAIN watcher.docs
    /\ \A r \in DOMAIN watcher.docs : LoadedOK(r, watcher.docs[r])

FinancingInv ==
    /\ BooksInv
    /\ calls \in [Handlers -> Call]
    /\ \A h \in Handlers : CallOK(h, calls[h])
    /\ PollInv

-----------------------------------------------------------------------------
(* Documents and calls *)

\* A save writes the fields that the code has changed and leaves the others as they are.
LEMMA SavedDoc ==
    ASSUME NEW stored \in RequestDoc, NEW loaded \in RequestDoc, NEW doc \in RequestDoc
    PROVE  LET e == saved(stored, loaded, doc)
           IN  /\ e \in RequestDoc
               /\ e.status = IF doc.status # loaded.status THEN doc.status ELSE stored.status
               /\ e.order = IF doc.order # loaded.order THEN doc.order ELSE stored.order
               /\ e.amount = IF doc.amount # loaded.amount THEN doc.amount ELSE stored.amount
               /\ e.due = IF doc.due # loaded.due THEN doc.due ELSE stored.due
               /\ e.isOverdue = IF doc.isOverdue # loaded.isOverdue THEN doc.isOverdue
                                ELSE stored.isOverdue
<1> DEFINE e == saved(stored, loaded, doc)
<1>1. e = [f \in {"status", "order", "amount", "tenor", "due", "isOverdue", "penaltyAmount"} |->
               IF doc[f] # loaded[f] THEN doc[f] ELSE stored[f]]
  BY DEF saved, RequestDoc
<1>2. e \in RequestDoc
  BY <1>1 DEF RequestDoc
<1> QED
  BY <1>1, <1>2

\* A document that does not exist yet.
LEMMA NoRequestDoc ==
    /\ NoRequest \in RequestDoc /\ NoRequest.status = "none"
    /\ NoRequest.isOverdue = FALSE /\ NoRequest.due = 0
  BY FinancingAssumption DEF NoRequest, RequestDoc, Statuses

\* What a call of each kind carries.
LEMMA CallFields ==
    ASSUME NEW c \in Call
    PROVE  /\ c.op \in {"create", "mark"} => c.order \in Orders
           /\ c.op = "confirm" =>
                  /\ c.request \in Requests /\ c.utilized \in Nat /\ c.step \in 1 .. 3
                  /\ c = [op |-> "confirm", request |-> c.request, utilized |-> c.utilized,
                          step |-> c.step]
           /\ c.op = "pending" => c.request \in Requests /\ c.loaded \in RequestDoc
  BY DEF Call, NoCall, confirmSteps

\* The statuses, as far as the proofs tell them apart.
LEMMA StatusFacts ==
    /\ Outstanding \subseteq Drawn /\ Drawn \subseteq Statuses
    /\ "none" \notin Drawn /\ "Pending" \notin Drawn
    /\ "Disbursed" \in Outstanding /\ "RepaymentPending" \in Drawn
    /\ "RepaymentPending" \notin Outstanding
    /\ "Overdue" \in Outstanding /\ "PenaltyApplied" \in Outstanding
    /\ "none" \in Statuses /\ "Pending" \in Statuses
    /\ Outstanding = {"Disbursed", "Overdue", "PenaltyApplied"}
  BY DEF Outstanding, Drawn, Statuses

\* What is drawn is finite and adds up to a number.
LEMMA DrawnSumNat ==
    ASSUME BooksInv
    PROVE  /\ IsFiniteSet(drawnRequests) /\ drawnRequests \subseteq Requests
           /\ DrawnSum \in Nat /\ DrawnSum <= utilized
<1>1. IsFiniteSet(drawnRequests) /\ drawnRequests \subseteq Requests
  BY FinancingAssumption, FS_Subset DEF drawnRequests
<1> DEFINE f == [r \in drawnRequests |-> request[r].amount]
<1>2. \A r \in drawnRequests : f[r] \in Nat
  BY <1>1, FinancingAssumption DEF BooksInv, RequestDoc
<1> HIDE DEF f
<1>3. SumOf(f, drawnRequests) \in Nat
  BY <1>1, <1>2, SumNat
<1> QED
  BY <1>1, <1>3 DEF f, DrawnSum, BooksInv, BooksAgree

-----------------------------------------------------------------------------
(* Steps that draw nothing *)

\* A step that neither draws nor takes back, and leaves what waits for the CAD alone.
Quiet ==
    /\ request' \in [Requests -> RequestDoc]
    /\ \A r \in Requests :
           /\ request[r].status \in Drawn =>
                  /\ request'[r].status \in Drawn
                  /\ request'[r].amount = request[r].amount
                  /\ request'[r].order = request[r].order
                  /\ request'[r].due = request[r].due
                  /\ request[r].isOverdue => request'[r].isOverdue
           /\ request[r].status = "Pending" => request'[r] = request[r]
           /\ request[r].status \notin Drawn => request'[r].status \notin Drawn
           /\ RequestOK(request'[r])
    /\ UNCHANGED utilized

LEMMA QuietSum ==
    ASSUME BooksInv, Quiet
    PROVE  drawnRequests' = drawnRequests /\ DrawnSum' = DrawnSum
<1>1. drawnRequests' = drawnRequests
  BY DEF drawnRequests, Quiet
<1> DEFINE f == [r \in drawnRequests |-> request[r].amount]
           g == [r \in drawnRequests |-> request'[r].amount]
<1>2. f = g
  BY DEF Quiet, drawnRequests
<1> QED
  BY <1>1, <1>2 DEF DrawnSum

LEMMA QuietCall ==
    ASSUME FinancingInv, Quiet, NEW h \in Handlers, NEW c \in Call, CallOK(h, c)
    PROVE  CallOK(h, c)'
<1>1. DrawnSum' = DrawnSum
  BY QuietSum DEF FinancingInv
<1> QED
  BY <1>1, CallFields, StatusFacts DEF CallOK, Quiet

LEMMA QuietBooks ==
    ASSUME FinancingInv, Quiet, UNCHANGED day, deposit' \in [Orders -> DepositStatuses],
           \A o \in Orders : deposit'[o] = "Financed" => deposit[o] = "Financed",
           failed' \in 0 .. MaxFailed, restarts' \in 0 .. MaxRestarts
    PROVE  BooksInv'
<1>1. drawnRequests' = drawnRequests /\ DrawnSum' = DrawnSum
  BY QuietSum DEF FinancingInv
<1>2. BooksAgree'
  <2>1. DrawnSum' <= utilized'
    BY <1>1 DEF FinancingInv, BooksInv, BooksAgree, DrawnSum, Quiet
  <2>2. ASSUME NEW o \in Orders, deposit'[o] = "Financed"
        PROVE  \E r \in drawnRequests' : request'[r].order = o
    <3>1. PICK r \in drawnRequests : request[r].order = o
      BY <2>2 DEF FinancingInv, BooksInv, BooksAgree
    <3> QED
      BY <1>1, <3>1 DEF Quiet, drawnRequests
  <2> QED
    BY <2>1, <2>2 DEF BooksAgree, DrawnSum
<1>3. \A r \in Requests : RequestOK(request[r])'
  BY DEF Quiet, RequestOK
<1> QED
  BY <1>2, <1>3 DEF Quiet, FinancingInv, BooksInv

LEMMA QuietPoll ==
    ASSUME FinancingInv, Quiet, UNCHANGED watcher
    PROVE  PollInv'
<1> SUFFICES ASSUME NEW r \in DOMAIN watcher.docs
             PROVE  LoadedOK(r, watcher.docs[r])'
  BY DEF FinancingInv, PollInv
<1>1. r \in Requests /\ LoadedOK(r, watcher.docs[r])
  BY DEF FinancingInv, PollInv
<1> QED
  BY <1>1 DEF LoadedOK, Quiet

\* A step that leaves requests and profile alone is quiet, and so is one that writes a
\* request as these handlers and the watcher do.
LEMMA Untouched ==
    ASSUME FinancingInv, UNCHANGED <<request, utilized>>
    PROVE  Quiet
BY DEF FinancingInv, BooksInv, Quiet

LEMMA QuietWrite ==
    ASSUME FinancingInv, NEW r \in Requests, NEW e \in RequestDoc, UNCHANGED utilized,
           request' = [request EXCEPT ![r] = e], RequestOK(e),
           \/ /\ request[r].status \in Drawn /\ e.status \in Drawn
              /\ e.amount = request[r].amount /\ e.order = request[r].order
              /\ e.due = request[r].due
              /\ request[r].isOverdue => e.isOverdue
           \/ request[r].status = "none" /\ e.status = "Pending"
    PROVE  Quiet
<1>1. request \in [Requests -> RequestDoc] /\ \A q \in Requests : RequestOK(request[q])
  BY DEF FinancingInv, BooksInv
<1>2. \A q \in Requests : request'[q] = IF q = r THEN e ELSE request[q]
  BY <1>1
<1> QED
  BY <1>1, <1>2, StatusFacts DEF Quiet

\* A quiet step of a handler.
LEMMA QuietHandler ==
    ASSUME FinancingInv, Quiet, NEW h \in Handlers, NEW c \in Call, CallOK(h, c)',
           calls' = [calls EXCEPT ![h] = c], handlersOnly, failed' \in 0 .. MaxFailed,
           deposit' \in [Orders -> DepositStatuses],
           \A o \in Orders : deposit'[o] = "Financed" => deposit[o] = "Financed"
    PROVE  FinancingInv'
<1>1. UNCHANGED <<watcher, day>> /\ restarts' \in 0 .. MaxRestarts
  BY DEF handlersOnly, FinancingInv, BooksInv
<1>2. BooksInv' /\ PollInv'
  BY <1>1, QuietBooks, QuietPoll
<1>3. calls' \in [Handlers -> Call] /\ calls \in [Handlers -> Call]
  BY DEF FinancingInv
<1>4. ASSUME NEW k \in Handlers PROVE CallOK(k, calls[k])'
  <2>1. CASE k = h
    BY <1>3, <2>1 DEF CallOK
  <2>2. CASE k # h
    <3>1. calls'[k] = calls[k] /\ calls[k] \in Call /\ CallOK(k, calls[k])
      BY <1>3, <2>2 DEF FinancingInv
    <3>2. CallOK(k, calls[k])'
      BY <3>1, QuietCall
    <3> QED
      BY <3>1, <3>2 DEF CallOK
  <2> QED
    BY <2>1, <2>2
<1> QED
  BY <1>2, <1>3, <1>4 DEF FinancingInv

-----------------------------------------------------------------------------
(* Handlers *)

\* A deposit that is marked is one there is.
LEMMA DepositMarked ==
    ASSUME BooksInv, NEW o \in Orders, NEW s \in DepositStatuses, setDeposit(o, s)
    PROVE  /\ deposit' \in [Orders -> DepositStatuses]
           /\ \A p \in Orders : deposit'[p] \in {deposit[p], s}
BY DEF BooksInv, setDeposit

LEMMA ReadKeeps ==
    ASSUME FinancingInv, NEW h \in Handlers,
           \/ \E o \in Orders : RequestRead(h, o)
           \/ \E r \in Requests : ConfirmRead(h, r) \/ RepaymentRead(h, r)
    PROVE  FinancingInv'
<1>1. UNCHANGED books /\ handlersOnly
  BY DEF RequestRead, ConfirmRead, RepaymentRead
<1>2. Quiet /\ failed' \in 0 .. MaxFailed /\ deposit' \in [Orders -> DepositStatuses]
      /\ UNCHANGED deposit
  BY <1>1, Untouched DEF books, FinancingInv, BooksInv
<1>3. PICK c \in Call : calls' = [calls EXCEPT ![h] = c] /\ CallOK(h, c)
  <2>1. ASSUME NEW o \in Orders, RequestRead(h, o)
        PROVE  \E c \in Call : calls' = [calls EXCEPT ![h] = c] /\ CallOK(h, c)
    <3> DEFINE c == [op |-> "create", order |-> o]
    <3>1. c \in Call /\ CallOK(h, c)
      BY DEF Call, CallOK
    <3> QED
      BY <2>1, <3>1 DEF RequestRead, begin
  <2>2. ASSUME NEW r \in Requests, ConfirmRead(h, r)
        PROVE  \E c \in Call : calls' = [calls EXCEPT ![h] = c] /\ CallOK(h, c)
    <3> DEFINE c == [op |-> "confirm", request |-> r, utilized |-> utilized, step |-> 1]
    <3>1. c \in Call
      BY DEF Call, confirmSteps, FinancingInv, BooksInv
    <3>2. CallOK(h, c)
      BY <2>2 DEF CallOK, ConfirmRead
    <3> QED
      BY <2>2, <3>1, <3>2 DEF ConfirmRead, begin
  <2>3. ASSUME NEW r \in Requests, RepaymentRead(h, r)
        PROVE  \E c \in Call : calls' = [calls EXCEPT ![h] = c] /\ CallOK(h, c)
    <3> DEFINE c == [op |-> "pending", request |-> r, loaded |-> request[r]]
    <3>1. c \in Call
      BY DEF Call, FinancingInv, BooksInv
    <3>2. CallOK(h, c)
      BY <2>3 DEF CallOK, RepaymentRead
    <3> QED
      BY <2>3, <3>1, <3>2 DEF RepaymentRead, begin
  <2> QED
    BY <2>1, <2>2, <2>3
<1>4. CallOK(h, c)'
  BY <1>2, <1>3, QuietCall
<1> QED
  BY <1>1, <1>2, <1>3, <1>4, QuietHandler

\* A call that relies on nothing.
LEMMA IdleCall ==
    ASSUME NEW h, NEW c \in Call, c.op \in {"none", "create", "mark"}
    PROVE  CallOK(h, c) /\ CallOK(h, c)'
BY DEF CallOK

LEMMA RequestKeeps ==
    ASSUME FinancingInv, NEW h \in Handlers, RequestCreate(h) \/ RequestMark(h)
    PROVE  FinancingInv'
<1>1. calls[h] \in Call /\ calls[h].order \in Orders
  BY CallFields DEF FinancingInv, RequestCreate, RequestMark
<1>2. CASE RequestCreate(h)
  <2>1. PICK r \in Requests, amount \in Amounts, tenor \in Tenors :
            /\ request[r].status = "none"
            /\ request' = [request EXCEPT ![r] =
                   [NoRequest EXCEPT !.status = "Pending", !.order = calls[h].order,
                                     !.amount = amount, !.tenor = tenor]]
    BY <1>2 DEF RequestCreate
  <2> DEFINE e == [NoRequest EXCEPT !.status = "Pending", !.order = calls[h].order,
                                    !.amount = amount, !.tenor = tenor]
  <2>2. e \in RequestDoc /\ e.status = "Pending" /\ e.isOverdue = FALSE
    BY <1>1, NoRequestDoc, StatusFacts DEF RequestDoc
  <2>3. request' = [request EXCEPT ![r] = e]
    BY <2>1
  <2> HIDE DEF e
  <2>4. RequestOK(e)
    BY <2>2 DEF RequestOK
  <2>5. UNCHANGED <<utilized, deposit, failed>> /\ handlersOnly
    BY <1>2 DEF RequestCreate
  <2>6. Quiet
    BY <2>1, <2>2, <2>3, <2>4, <2>5, QuietWrite
  <2>7. PICK c \in Call : calls' = [calls EXCEPT ![h] = c] /\ c.op = "mark"
    <3> DEFINE m == [op |-> "mark", order |-> calls[h].order]
    <3>1. m \in Call /\ m.op = "mark"
      BY <1>1 DEF Call
    <3>2. calls' = [calls EXCEPT ![h] = m]
      BY <1>2 DEF RequestCreate, continue
    <3> QED
      BY <3>1, <3>2
  <2>8. failed' \in 0 .. MaxFailed /\ deposit' \in [Orders -> DepositStatuses]
    BY <2>5 DEF FinancingInv, BooksInv
  <2>9. CallOK(h, c)'
    BY <2>7, IdleCall
  <2> QED
    BY <2>5, <2>6, <2>7, <2>8, <2>9, QuietHandler
<1>3. CASE RequestMark(h)
  <2>1. /\ UNCHANGED <<utilized, request, failed>> /\ handlersOnly
        /\ calls' = [calls EXCEPT ![h] = NoCall]
        /\ setDeposit(calls[h].order, "Financing")
    BY <1>3 DEF RequestMark, finish, continue
  <2>2. /\ deposit' \in [Orders -> DepositStatuses]
        /\ \A p \in Orders : deposit'[p] \in {deposit[p], "Financing"}
    BY <1>1, <2>1, DepositMarked DEF DepositStatuses, FinancingInv
  <2>3. Quiet /\ failed' \in 0 .. MaxFailed
    BY <2>1, Untouched DEF FinancingInv, BooksInv
  <2>4. NoCall \in Call /\ CallOK(h, NoCall)'
    BY DEF NoCall, Call, CallOK
  <2> QED
    BY <2>1, <2>2, <2>3, <2>4, QuietHandler
<1> QED
  BY <1>2, <1>3

\* Announcing a repayment changes the status only, of a request that is drawn by then too.
LEMMA RepaymentKeeps ==
    ASSUME FinancingInv, NEW h \in Handlers, RepaymentPending(h)
    PROVE  FinancingInv'
<1> DEFINE c == calls[h]
           r == c.request
           doc == [c.loaded EXCEPT !.status = "RepaymentPending"]
           e == saved(request[r], c.loaded, doc)
<1>1. c \in Call /\ c.op = "pending" /\ r \in Requests /\ c.loaded \in RequestDoc
  BY CallFields DEF FinancingInv, RepaymentPending
<1>2. request[r] \in RequestDoc /\ request[r].status \in Drawn /\ RequestOK(request[r])
  BY <1>1 DEF FinancingInv, BooksInv, CallOK
<1>3. /\ doc \in RequestDoc /\ doc.status = "RepaymentPending" /\ doc.order = c.loaded.order
      /\ doc.amount = c.loaded.amount /\ doc.due = c.loaded.due
      /\ doc.isOverdue = c.loaded.isOverdue
  BY <1>1, StatusFacts DEF RequestDoc
<1>4. request' = [request EXCEPT ![r] = e]
  BY <1>1 DEF RepaymentPending, FinancingInv, BooksInv
<1>5. /\ calls' = [calls EXCEPT ![h] = NoCall]
      /\ UNCHANGED <<utilized, deposit, failed>> /\ handlersOnly
  BY DEF RepaymentPending, finish, continue
<1> HIDE DEF c, r, doc
<1>6. /\ e \in RequestDoc /\ e.order = request[r].order /\ e.amount = request[r].amount
      /\ e.due = request[r].due /\ e.isOverdue = request[r].isOverdue
      /\ e.status = "RepaymentPending" \/ e.status = request[r].status
  BY <1>1, <1>2, <1>3, SavedDoc
<1> HIDE DEF e
<1>7. RequestOK(e) /\ e.status \in Drawn
  BY <1>2, <1>6, StatusFacts DEF RequestOK
<1>8. Quiet
  BY <1>1, <1>2, <1>4, <1>5, <1>6, <1>7, QuietWrite
<1>9. failed' \in 0 .. MaxFailed /\ deposit' \in [Orders -> DepositStatuses]
  BY <1>5 DEF FinancingInv, BooksInv
<1>10. NoCall \in Call /\ CallOK(h, NoCall)'
  BY DEF NoCall, Call, CallOK
<1> QED
  BY <1>5, <1>8, <1>9, <1>10, QuietHandler

-----------------------------------------------------------------------------
(* The confirmation *)

\* Other handlers confirm nothing, and what they rely on stays when nothing is taken back.
LEMMA ConfirmOthers ==
    ASSUME FinancingInv, OneConfirmer, NEW h \in Confirmers, NEW k \in Handlers, k # h,
           calls'[k] = calls[k],
           \A r \in Requests :
               request[r].status \in Drawn => request'[r].status \in Drawn
    PROVE  CallOK(k, calls[k])'
<1>1. calls[k] \in Call /\ CallOK(k, calls[k])
  BY DEF FinancingInv
<1>2. calls[k].op # "confirm"
  BY <1>1 DEF OneConfirmer, CallOK
<1> QED
  BY <1>1, <1>2, CallFields DEF CallOK

\* What a confirmation that is about to take its step has in its hands.
LEMMA ConfirmCall ==
    ASSUME FinancingInv, NEW h \in Handlers, NEW step \in {"utilize", "disburse", "finance"},
           confirmStep(h, step)
    PROVE  LET c == calls[h]
               n == CASE step = "utilize" -> 1 [] step = "disburse" -> 2 [] step = "finance" -> 3
           IN  /\ c \in Call /\ c.op = "confirm" /\ c.step = n /\ h \in Confirmers
               /\ c.request \in Requests /\ c.utilized \in Nat /\ CallOK(h, c)
               /\ UNCHANGED <<failed, watcher, day, restarts>>
               /\ calls' = [calls EXCEPT ![h] =
                      IF n = 3 THEN NoCall
                      ELSE [op |-> "confirm", request |-> c.request, utilized |-> c.utilized,
                            step |-> n + 1]]
<1> DEFINE c == calls[h]
           n == CASE step = "utilize" -> 1 [] step = "disburse" -> 2 [] step = "finance" -> 3
<1>1. c \in Call /\ c.op = "confirm" /\ CallOK(h, c) /\ h \in Confirmers
  BY DEF FinancingInv, confirmStep, CallOK
<1>2. /\ c.request \in Requests /\ c.utilized \in Nat /\ c.step \in 1 .. 3
      /\ c = [op |-> "confirm", request |-> c.request, utilized |-> c.utilized,
              step |-> c.step]
  BY <1>1, CallFields
<1>3. c.step = n
  BY <1>2 DEF confirmStep, confirmSteps
<1>4. /\ UNCHANGED <<failed, watcher, day, restarts>>
      /\ calls' = [calls EXCEPT ![h] = IF n = 3 THEN NoCall ELSE [c EXCEPT !.step = @ + 1]]
  BY <1>3 DEF confirmStep, confirmSteps, finish, continue, handlersOnly
<1> HIDE DEF n
<1>5. [c EXCEPT !.step = @ + 1]
          = [op |-> "confirm", request |-> c.request, utilized |-> c.utilized, step |-> n + 1]
  BY <1>2, <1>3
<1> HIDE DEF c
<1>6. calls' = [calls EXCEPT ![h] =
          IF n = 3 THEN NoCall
          ELSE [op |-> "confirm", request |-> c.request, utilized |-> c.utilized,
                step |-> n + 1]]
  BY <1>4, <1>5
<1> QED
  BY <1>1, <1>2, <1>3, <1>4, <1>6 DEF c, n

\* The profile first: too much is counted until the request is disbursed.
LEMMA UtilizeKeeps ==
    ASSUME FinancingInv, OneConfirmer, NEW h \in Handlers, ConfirmUtilize(h)
    PROVE  FinancingInv'
<1> DEFINE c == calls[h]
           r == c.request
<1>1. /\ confirmStep(h, "utilize") /\ utilized' = c.utilized + request[r].amount
      /\ UNCHANGED <<request, deposit>>
  BY DEF ConfirmUtilize
<1>2. PICK d \in Call :
          /\ d.op = "confirm" /\ d.step = 2 /\ d.request = r
          /\ calls' = [calls EXCEPT ![h] = d]
  <2> DEFINE d == [op |-> "confirm", request |-> r, utilized |-> c.utilized, step |-> 2]
  <2>1. /\ r \in Requests /\ c.utilized \in Nat
        /\ calls' = [calls EXCEPT ![h] = d]
    BY <1>1, ConfirmCall
  <2>2. d \in Call
    BY <2>1 DEF Call, confirmSteps
  <2> QED
    BY <2>1, <2>2
<1>3. /\ h \in Confirmers /\ r \in Requests /\ CallOK(h, c) /\ c.op = "confirm" /\ c.step = 1
      /\ UNCHANGED <<failed, watcher, day, restarts>>
  BY <1>1, ConfirmCall
<1>4. /\ c.utilized = utilized /\ request[r].status = "Pending" /\ utilized \in Nat
      /\ request[r].amount \in Nat \ {0}
  <2>1. request[r] \in RequestDoc /\ utilized \in Nat
    BY <1>3 DEF FinancingInv, BooksInv
  <2>2. c.utilized = utilized /\ request[r].status = "Pending"
    BY <1>3 DEF CallOK
  <2> QED
    BY <2>1, <2>2, FinancingAssumption DEF RequestDoc
<1>5. DrawnSum \in Nat /\ DrawnSum <= utilized /\ DrawnSum' = DrawnSum
      /\ drawnRequests' = drawnRequests
  BY <1>1, DrawnSumNat DEF FinancingInv, DrawnSum, drawnRequests
<1>6. utilized' \in Nat /\ DrawnSum' + request'[r].amount <= utilized' /\ DrawnSum' <= utilized'
  BY <1>1, <1>4, <1>5
<1>7. BooksInv'
  <2>1. BooksAgree'
    BY <1>1, <1>5, <1>6 DEF BooksAgree, DrawnSum, FinancingInv, BooksInv
  <2> QED
    BY <1>1, <1>3, <1>6, <2>1 DEF BooksInv, FinancingInv, RequestOK
<1>8. PollInv'
  BY <1>1, <1>3 DEF FinancingInv, PollInv, LoadedOK
<1>9. CallOK(h, d)'
  BY <1>1, <1>2, <1>3, <1>4, <1>6 DEF CallOK
<1>10. ASSUME NEW k \in Handlers PROVE CallOK(k, calls[k])'
  <2>1. CASE k = h
    BY <1>2, <1>9, <2>1 DEF CallOK, FinancingInv
  <2>2. CASE k # h
    <3>1. calls'[k] = calls[k]
      BY <1>2, <2>2 DEF FinancingInv
    <3> QED
      BY <1>1, <1>3, <2>2, <3>1, ConfirmOthers
  <2> QED
    BY <2>1, <2>2
<1> QED
  BY <1>2, <1>7, <1>8, <1>10 DEF FinancingInv

\* Then the request, which by then is counted.
LEMMA DisburseKeeps ==
    ASSUME FinancingInv, OneConfirmer, NEW h \in Handlers, ConfirmDisburse(h)
    PROVE  FinancingInv'
<1> DEFINE c == calls[h]
           r == c.request
           e == [request[r] EXCEPT !.status = "Disbursed", !.due = day + request[r].tenor - 1]
<1>1. /\ confirmStep(h, "disburse") /\ UNCHANGED <<utilized, deposit>>
      /\ request' = [request EXCEPT ![r].status = "Disbursed",
                                    ![r].due = day + request[r].tenor - 1]
  BY DEF ConfirmDisburse
<1>2. PICK d \in Call :
          /\ d.op = "confirm" /\ d.step = 3 /\ d.request = r
          /\ calls' = [calls EXCEPT ![h] = d]
  <2> DEFINE d == [op |-> "confirm", request |-> r, utilized |-> c.utilized, step |-> 3]
  <2>1. /\ r \in Requests /\ c.utilized \in Nat
        /\ calls' = [calls EXCEPT ![h] = d]
    BY <1>1, ConfirmCall
  <2>2. d \in Call
    BY <2>1 DEF Call, confirmSteps
  <2> QED
    BY <2>1, <2>2
<1>3. /\ h \in Confirmers /\ r \in Requests /\ CallOK(h, c) /\ c.op = "confirm" /\ c.step = 2
      /\ UNCHANGED <<failed, watcher, day, restarts>>
  BY <1>1, ConfirmCall
<1>4. /\ request[r].status = "Pending" /\ DrawnSum + request[r].amount <= utilized
      /\ request[r] \in RequestDoc /\ RequestOK(request[r]) /\ day \in Nat
  BY <1>3, FinancingAssumption DEF CallOK, FinancingInv, BooksInv
<1>5. /\ e \in RequestDoc /\ e.status = "Disbursed" /\ e.amount = request[r].amount
      /\ e.order = request[r].order /\ e.isOverdue = FALSE
  <2>1. day + request[r].tenor - 1 \in Nat
    <3>1. request[r].tenor \in Nat \ {0}
      BY <1>4, FinancingAssumption DEF RequestDoc
    <3> QED
      BY <1>4, <3>1
  <2> QED
    BY <1>4, <2>1, StatusFacts DEF RequestDoc, RequestOK
<1>6. request' = [request EXCEPT ![r] = e]
  BY <1>1, <1>3, <1>4 DEF FinancingInv, BooksInv, RequestDoc
<1> HIDE DEF c, r, e
<1>7. request \in [Requests -> RequestDoc] /\ request' \in [Requests -> RequestDoc]
      /\ \A q \in Requests : request'[q] = IF q = r THEN e ELSE request[q]
  BY <1>3, <1>5, <1>6 DEF FinancingInv, BooksInv
<1>8. drawnRequests' = drawnRequests \cup {r} /\ r \notin drawnRequests
  BY <1>3, <1>4, <1>5, <1>7, StatusFacts DEF drawnRequests
<1>9. DrawnSum' = DrawnSum + request[r].amount
  <2> DEFINE f == [q \in drawnRequests' |-> request'[q].amount]
             g == [q \in drawnRequests |-> request[q].amount]
  <2>1. IsFiniteSet(drawnRequests') /\ r \in drawnRequests' /\ drawnRequests' \ {r} = drawnRequests
    BY <1>8, DrawnSumNat, FS_AddElement DEF FinancingInv
  <2>2. /\ \A q \in drawnRequests' : f[q] \in Nat
        /\ f[r] = request[r].amount
        /\ \A q \in drawnRequests : f[q] = g[q]
    BY <1>3, <1>4, <1>5, <1>7, <1>8, FinancingAssumption DEF RequestDoc, drawnRequests
  <2>3. SumOf(f, drawnRequests') = SumOf(f, drawnRequests' \ {r}) + f[r]
    <3> HIDE DEF f
    <3> QED
      BY <2>1, <2>2, SumPart
  <2>4. SumOf(f, drawnRequests) = SumOf(g, drawnRequests)
    <3> HIDE DEF f, g
    <3> QED
      BY <2>2, SumSame
  <2> QED
    BY <2>1, <2>2, <2>3, <2>4 DEF DrawnSum
<1>10. BooksAgree'
  <2>1. DrawnSum' <= utilized'
    BY <1>1, <1>4, <1>9
  <2>2. ASSUME NEW o \in Orders, deposit'[o] = "Financed"
        PROVE  \E q \in drawnRequests' : request'[q].order = o
    <3>1. PICK q \in drawnRequests : request[q].order = o
      BY <1>1, <2>2 DEF FinancingInv, BooksInv, BooksAgree
    <3> QED
      BY <1>7, <1>8, <3>1 DEF drawnRequests
  <2> QED
    BY <2>1, <2>2 DEF BooksAgree, DrawnSum
<1>11. BooksInv'
  <2>1. \A q \in Requests : RequestOK(request[q])'
    BY <1>3, <1>5, <1>7 DEF FinancingInv, BooksInv, RequestOK
  <2> QED
    BY <1>1, <1>3, <1>7, <1>10, <2>1 DEF BooksInv, FinancingInv
<1>12. PollInv'
  <2> SUFFICES ASSUME NEW q \in DOMAIN watcher.docs
               PROVE  LoadedOK(q, watcher.docs[q])'
    BY <1>3 DEF FinancingInv, PollInv
  <2>1. q \in Requests /\ LoadedOK(q, watcher.docs[q])
    BY DEF FinancingInv, PollInv
  <2>2. q # r
    BY <1>4, <2>1, StatusFacts DEF LoadedOK
  <2> QED
    BY <1>3, <1>7, <2>1, <2>2 DEF LoadedOK
<1>13. CallOK(h, d)'
  BY <1>2, <1>3, <1>5, <1>7, StatusFacts DEF CallOK
<1>14. ASSUME NEW k \in Handlers PROVE CallOK(k, calls[k])'
  <2>1. CASE k = h
    BY <1>2, <1>13, <2>1 DEF CallOK, FinancingInv
  <2>2. CASE k # h
    <3>1. \A q \in Requests : request[q].status \in Drawn => request'[q].status \in Drawn
      BY <1>5, <1>7, StatusFacts
    <3>2. calls'[k] = calls[k]
      BY <1>2, <2>2 DEF FinancingInv
    <3> QED
      BY <1>3, <2>2, <3>1, <3>2, ConfirmOthers
  <2> QED
    BY <2>1, <2>2
<1> QED
  BY <1>2, <1>11, <1>12, <1>14 DEF FinancingInv

\* The deposit last, when its request is disbursed.
LEMMA FinanceKeeps ==
    ASSUME FinancingInv, OneConfirmer, NEW h \in Handlers, ConfirmFinance(h)
    PROVE  FinancingInv'
<1> DEFINE c == calls[h]
           r == c.request
<1>1. /\ confirmStep(h, "finance") /\ setDeposit(request[r].order, "Financed")
      /\ UNCHANGED <<utilized, request>>
  BY DEF ConfirmFinance
<1>2. /\ h \in Confirmers /\ r \in Requests /\ CallOK(h, c) /\ c.op = "confirm" /\ c.step = 3
      /\ UNCHANGED <<failed, watcher, day, restarts>>
      /\ calls' = [calls EXCEPT ![h] = NoCall]
  BY <1>1, ConfirmCall
<1>3. request[r].status \in Drawn /\ request[r].order \in Orders
  BY <1>2 DEF CallOK, FinancingInv, BooksInv, RequestDoc
<1>4. /\ deposit' \in [Orders -> DepositStatuses]
      /\ \A o \in Orders : deposit'[o] # deposit[o] => o = request[r].order
  BY <1>1, <1>3 DEF FinancingInv, BooksInv, setDeposit, DepositStatuses
<1>5. BooksAgree'
  <2>1. drawnRequests' = drawnRequests /\ r \in drawnRequests
    BY <1>1, <1>2, <1>3 DEF drawnRequests
  <2>2. ASSUME NEW o \in Orders, deposit'[o] = "Financed"
        PROVE  \E q \in drawnRequests : request[q].order = o
    BY <1>4, <2>1, <2>2 DEF FinancingInv, BooksInv, BooksAgree
  <2> QED
    BY <1>1, <2>1, <2>2 DEF FinancingInv, BooksInv, BooksAgree
<1>6. BooksInv'
  BY <1>1, <1>2, <1>4, <1>5 DEF BooksInv, FinancingInv, RequestOK
<1>7. PollInv'
  BY <1>1, <1>2 DEF FinancingInv, PollInv, LoadedOK
<1>8. NoCall \in Call /\ CallOK(h, NoCall)'
  BY DEF NoCall, Call, CallOK
<1>9. ASSUME NEW k \in Handlers PROVE CallOK(k, calls[k])'
  <2>1. CASE k = h
    BY <1>2, <1>8, <2>1 DEF CallOK, FinancingInv
  <2>2. CASE k # h
    <3>1. calls'[k] = calls[k]
      BY <1>2, <2>2 DEF FinancingInv
    <3> QED
      BY <1>1, <1>2, <2>2, <3>1, ConfirmOthers
  <2> QED
    BY <2>1, <2>2
<1> QED
  BY <1>2, <1>6, <1>7, <1>8, <1>9 DEF FinancingInv

-----------------------------------------------------------------------------
(* The watcher *)

LEMMA QuietWatcher ==
    ASSUME FinancingInv, Quiet, watcherOnly, PollInv'
    PROVE  FinancingInv'
<1>1. UNCHANGED <<deposit, failed, calls, day, restarts>>
  BY DEF watcherOnly
<1>2. BooksInv'
  <2>1. /\ deposit' \in [Orders -> DepositStatuses]
        /\ \A o \in Orders : deposit'[o] = "Financed" => deposit[o] = "Financed"
        /\ failed' \in 0 .. MaxFailed /\ restarts' \in 0 .. MaxRestarts /\ UNCHANGED day
    BY <1>1 DEF FinancingInv, BooksInv
  <2> QED
    BY <2>1, QuietBooks
<1>3. ASSUME NEW h \in Handlers PROVE CallOK(h, calls[h])'
  <2>1. calls[h] \in Call /\ CallOK(h, calls[h])
    BY DEF FinancingInv
  <2>2. PICK c \in Call : c = calls[h]
    BY <2>1
  <2>3. CallOK(h, c)'
    BY <2>1, <2>2, QuietCall
  <2> QED
    BY <1>1, <2>2, <2>3 DEF CallOK
<1> QED
  BY <1>1, <1>2, <1>3 DEF FinancingInv

\* A save of the watcher is one of a request it has loaded, and leaves its dates alone.
WatcherWrites(r, doc) ==
    /\ r \in DOMAIN watcher.docs /\ doc \in RequestDoc
    /\ request' = [request EXCEPT ![r] = saved(@, watcher.docs[r], doc)]
    /\ doc.order = watcher.docs[r].order /\ doc.amount = watcher.docs[r].amount
    /\ doc.due = watcher.docs[r].due
    /\ \/ doc = watcher.docs[r]
       \/ /\ doc.status = "Overdue" /\ doc.isOverdue = TRUE
          /\ ~watcher.docs[r].isOverdue /\ doc.due + Grace <= day
       \/ doc.status = "PenaltyApplied" /\ doc.isOverdue = TRUE /\ watcher.docs[r].isOverdue

LEMMA WatcherQuiet ==
    ASSUME FinancingInv, NEW r, NEW doc, WatcherWrites(r, doc), UNCHANGED utilized
    PROVE  /\ Quiet /\ r \in Requests /\ request'[r].due = doc.due
           /\ doc.isOverdue => request'[r].isOverdue
           /\ \A q \in Requests : q # r => request'[q] = request[q]
<1> DEFINE loaded == watcher.docs[r]
           e == saved(request[r], loaded, doc)
<1>1. /\ r \in Requests /\ loaded \in RequestDoc /\ LoadedOK(r, loaded)
      /\ request[r] \in RequestDoc /\ RequestOK(request[r])
  BY DEF WatcherWrites, FinancingInv, PollInv, BooksInv
<1>2. /\ e \in RequestDoc
      /\ e.status = IF doc.status # loaded.status THEN doc.status ELSE request[r].status
      /\ e.order = request[r].order /\ e.amount = request[r].amount /\ e.due = request[r].due
      /\ e.isOverdue = IF doc.isOverdue # loaded.isOverdue THEN doc.isOverdue
                       ELSE request[r].isOverdue
  BY <1>1, SavedDoc DEF WatcherWrites
<1>3. request' = [request EXCEPT ![r] = e]
  BY <1>1 DEF WatcherWrites, FinancingInv, BooksInv
<1> HIDE DEF e
<1>4. /\ request[r].status \in Drawn /\ loaded.due = request[r].due
      /\ loaded.isOverdue => request[r].isOverdue
      /\ loaded.status \in Outstanding
      /\ loaded.status \in {"Overdue", "PenaltyApplied"} => loaded.isOverdue
  BY <1>1 DEF LoadedOK
<1>5. loaded.isOverdue \in BOOLEAN /\ doc.isOverdue \in BOOLEAN /\ request[r].isOverdue \in BOOLEAN
  BY <1>1 DEF RequestDoc, WatcherWrites
<1>6. CASE doc = loaded
  <2>1. e.status = request[r].status /\ e.isOverdue = request[r].isOverdue
    BY <1>2, <1>6
  <2>2. RequestOK(e)
    BY <1>1, <1>2, <2>1 DEF RequestOK
  <2>3. Quiet
    BY <1>1, <1>2, <1>3, <1>4, <2>1, <2>2, QuietWrite
  <2> QED
    BY <1>1, <1>2, <1>3, <1>4, <1>6, <2>1, <2>3 DEF FinancingInv, BooksInv, WatcherWrites
<1>7. CASE /\ doc.status = "Overdue" /\ doc.isOverdue = TRUE
           /\ ~loaded.isOverdue /\ doc.due + Grace <= day
  <2>1. e.status = "Overdue" /\ e.isOverdue = TRUE /\ doc.due = request[r].due
    BY <1>2, <1>4, <1>5, <1>7 DEF WatcherWrites
  <2>2. RequestOK(e) /\ e.status \in Drawn
    BY <1>2, <1>7, <2>1, StatusFacts DEF RequestOK
  <2>3. Quiet
    BY <1>1, <1>2, <1>3, <1>4, <2>1, <2>2, QuietWrite
  <2> QED
    BY <1>1, <1>2, <1>3, <2>1, <2>3 DEF FinancingInv, BooksInv
<1>8. CASE doc.status = "PenaltyApplied" /\ doc.isOverdue = TRUE /\ loaded.isOverdue
  <2>1. /\ e.status \in {"PenaltyApplied", request[r].status}
        /\ e.isOverdue = request[r].isOverdue /\ request[r].isOverdue
        /\ doc.due = request[r].due
    BY <1>2, <1>4, <1>5, <1>8 DEF WatcherWrites
  <2>2. RequestOK(e) /\ e.status \in Drawn
    BY <1>1, <1>2, <1>4, <2>1, StatusFacts DEF RequestOK
  <2>3. Quiet
    BY <1>1, <1>2, <1>3, <1>4, <2>1, <2>2, QuietWrite
  <2> QED
    BY <1>1, <1>2, <1>3, <2>1, <2>3 DEF FinancingInv, BooksInv
<1> QED
  BY <1>6, <1>7, <1>8 DEF WatcherWrites

\* What is still loaded after a save of one of the requests is as sound as it was.
LEMMA StillLoaded ==
    ASSUME FinancingInv, Quiet, NEW q \in DOMAIN watcher.docs
    PROVE  LoadedOK(q, watcher.docs[q]) /\ q \in Requests
           /\ watcher.docs[q] \in RequestDoc
           /\ /\ watcher.docs[q].status \in Outstanding /\ request'[q].status \in Drawn
              /\ watcher.docs[q].due = request'[q].due
              /\ watcher.docs[q].isOverdue => request'[q].isOverdue
              /\ watcher.docs[q].status \in {"Overdue", "PenaltyApplied"}
                     => watcher.docs[q].isOverdue
<1>1. LoadedOK(q, watcher.docs[q]) /\ q \in Requests /\ watcher.docs[q] \in RequestDoc
  BY DEF FinancingInv, PollInv
<1> QED
  BY <1>1 DEF LoadedOK, Quiet

LEMMA PollKeeps ==
    ASSUME FinancingInv, Poll \/ PollEnd
    PROVE  FinancingInv'
<1>1. UNCHANGED request /\ watcherOnly /\ UNCHANGED utilized
  BY DEF Poll, PollEnd, watcherOnly
<1>2. Quiet
  BY <1>1, Untouched
<1>3. CASE PollEnd
  <2>1. PollInv'
    BY <1>3 DEF PollEnd, PollInv, Idle
  <2> QED
    BY <1>1, <1>2, <2>1, QuietWatcher
<1>4. CASE Poll
  <2> DEFINE R == {q \in Requests : watched(request[q])}
             docs == [r \in R |-> request[r]]
  <2>1. watcher' = [at |-> "next", docs |-> docs, current |-> {}, now |-> 0]
    BY <1>4 DEF Poll, Idle
  <2>2. docs \in [R -> RequestDoc] /\ DOMAIN docs = R
    BY DEF FinancingInv, BooksInv
  <2>3. ASSUME NEW r \in R PROVE LoadedOK(r, request[r])
    BY <2>3, StatusFacts DEF watched, LoadedOK, FinancingInv, BooksInv, RequestOK
  <2>4. ASSUME NEW r \in DOMAIN watcher'.docs PROVE LoadedOK(r, watcher.docs[r])'
    <3>1. r \in R /\ watcher'.docs[r] = request[r]
      BY <2>1, <2>2, <2>4
    <3> QED
      BY <1>1, <2>3, <3>1 DEF LoadedOK
  <2> HIDE DEF docs
  <2>5. PollInv'
    BY <2>1, <2>2, <2>4 DEF PollInv
  <2> QED
    BY <1>1, <1>2, <2>5, QuietWatcher
<1> QED
  BY <1>3, <1>4

\* The write of MarkOverdue, and what the watcher holds after it.
LEMMA MarkWrites ==
    ASSUME FinancingInv, MarkOverdue
    PROVE  \E r \in DOMAIN watcher.docs, doc \in RequestDoc :
               /\ WatcherWrites(r, doc)
               /\ watcher' = [at |-> "email", docs |-> [watcher.docs EXCEPT ![r] = doc],
                              current |-> {r}, now |-> day]
               /\ doc.status \in Outstanding
               /\ doc.status \in {"Overdue", "PenaltyApplied"} => doc.isOverdue
<1>1. PICK r \in DOMAIN watcher.docs :
          LET loaded == watcher.docs[r]
              doc == IF pastGrace(loaded, day) /\ ~loaded.isOverdue
                     THEN [loaded EXCEPT !.isOverdue = TRUE, !.status = "Overdue"]
                     ELSE loaded
          IN  /\ request' = [request EXCEPT ![r] = saved(@, loaded, doc)]
              /\ watcher' = [watcher EXCEPT !.at = "email", !.docs[r] = doc,
                                            !.current = {r}, !.now = day]
  BY DEF MarkOverdue
<1> DEFINE loaded == watcher.docs[r]
           doc == IF pastGrace(loaded, day) /\ ~loaded.isOverdue
                  THEN [loaded EXCEPT !.isOverdue = TRUE, !.status = "Overdue"]
                  ELSE loaded
<1>2. loaded \in RequestDoc /\ LoadedOK(r, loaded) /\ day \in Nat
  BY DEF FinancingInv, PollInv, BooksInv
<1>3. watcher' = [at |-> "email", docs |-> [watcher.docs EXCEPT ![r] = doc],
                  current |-> {r}, now |-> day]
  <2>1. watcher = [at |-> watcher.at, docs |-> watcher.docs, current |-> watcher.current,
                   now |-> watcher.now]
    BY DEF FinancingInv, PollInv
  <2>2. watcher' = [watcher EXCEPT !.at = "email", !.docs[r] = doc, !.current = {r}, !.now = day]
    BY <1>1
  <2> HIDE DEF doc
  <2> QED
    BY <2>1, <2>2
<1>4. request' = [request EXCEPT ![r] = saved(@, loaded, doc)]
  BY <1>1
<1>5. /\ doc \in RequestDoc /\ doc.order = loaded.order /\ doc.amount = loaded.amount
      /\ doc.due = loaded.due
      /\ \/ doc = loaded
         \/ /\ doc.status = "Overdue" /\ doc.isOverdue = TRUE
            /\ ~loaded.isOverdue /\ doc.due + Grace <= day
  <2>1. CASE pastGrace(loaded, day) /\ ~loaded.isOverdue
    <3>1. loaded.due + Grace <= day
      <4>1. loaded.due \in Nat /\ day - loaded.due >= Grace
        BY <1>2, <2>1 DEF pastGrace, overdueDays, RequestDoc
      <4> QED
        BY <1>2, <4>1, FinancingAssumption
    <3>2. doc = [loaded EXCEPT !.isOverdue = TRUE, !.status = "Overdue"]
      BY <2>1
    <3> QED
      BY <1>2, <2>1, <3>1, <3>2, StatusFacts DEF RequestDoc
  <2>2. CASE ~(pastGrace(loaded, day) /\ ~loaded.isOverdue)
    BY <1>2, <2>2
  <2> QED
    BY <2>1, <2>2
<1>6. /\ doc.status \in Outstanding
      /\ doc.status \in {"Overdue", "PenaltyApplied"} => doc.isOverdue
  BY <1>2, <1>5, StatusFacts DEF LoadedOK
<1> HIDE DEF doc
<1> QED
  BY <1>3, <1>4, <1>5, <1>6 DEF WatcherWrites

LEMMA MarkKeeps ==
    ASSUME FinancingInv, MarkOverdue
    PROVE  FinancingInv'
<1>1. PICK r \in DOMAIN watcher.docs, doc \in RequestDoc :
          /\ WatcherWrites(r, doc)
          /\ watcher' = [at |-> "email", docs |-> [watcher.docs EXCEPT ![r] = doc],
                         current |-> {r}, now |-> day]
          /\ doc.status \in Outstanding
          /\ doc.status \in {"Overdue", "PenaltyApplied"} => doc.isOverdue
  BY MarkWrites
<1>2. watcherOnly /\ UNCHANGED utilized
  BY DEF MarkOverdue, watcherOnly
<1>3. /\ Quiet /\ r \in Requests /\ request'[r].due = doc.due
      /\ doc.isOverdue => request'[r].isOverdue
  BY <1>1, <1>2, WatcherQuiet
<1>4. /\ watcher.docs \in [DOMAIN watcher.docs -> RequestDoc]
      /\ DOMAIN watcher.docs \subseteq Requests /\ day \in Nat
  BY DEF FinancingInv, PollInv, BooksInv
<1> DEFINE docs == [watcher.docs EXCEPT ![r] = doc]
<1>5. /\ docs \in [DOMAIN watcher.docs -> RequestDoc] /\ DOMAIN docs = DOMAIN watcher.docs
      /\ \A q \in DOMAIN watcher.docs : docs[q] = IF q = r THEN doc ELSE watcher.docs[q]
  BY <1>4
<1>6. watcher'.docs = docs /\ watcher'.current = {r} /\ watcher'.at = "email" /\ watcher'.now = day
      /\ watcher' = [at |-> watcher'.at, docs |-> watcher'.docs,
                     current |-> watcher'.current, now |-> watcher'.now]
  BY <1>1
<1> HIDE DEF docs
<1>7. ASSUME NEW q \in DOMAIN watcher'.docs PROVE LoadedOK(q, watcher.docs[q])'
  <2>1. CASE q = r
    <3>1. watcher'.docs[q] = doc
      BY <1>5, <1>6, <2>1
    <3>2. request'[q].status \in Drawn
      BY <1>1, <1>3, <2>1, StillLoaded
    <3> QED
      BY <1>1, <1>3, <2>1, <3>1, <3>2 DEF LoadedOK
  <2>2. CASE q # r
    <3>1. q \in DOMAIN watcher.docs /\ watcher'.docs[q] = watcher.docs[q]
      BY <1>5, <1>6, <2>2
    <3> QED
      BY <1>3, <3>1, StillLoaded DEF LoadedOK
  <2> QED
    BY <2>1, <2>2
<1>8. PollInv'
  BY <1>1, <1>4, <1>5, <1>6, <1>7 DEF PollInv
<1> QED
  BY <1>2, <1>3, <1>8, QuietWatcher

\* The write of ApplyPenalty: of what was loaded, or the same again.
LEMMA PenaltyWrites ==
    ASSUME FinancingInv, ApplyPenalty
    PROVE  \E r \in DOMAIN watcher.docs :
               /\ \/ UNCHANGED request
                  \/ \E doc \in RequestDoc : WatcherWrites(r, doc)
               /\ watcher' = [at |-> "next",
                      docs |-> [q \in DOMAIN watcher.docs \ {r} |-> watcher.docs[q]],
                      current |-> {}, now |-> 0]
<1>1. PICK r \in watcher.current :
          LET loaded == watcher.docs[r]
          IN  /\ request' = IF penaltyGrown(loaded, watcher.now)
                            THEN [request EXCEPT ![r] =
                                     saved(@, loaded, penalized(loaded, watcher.now))]
                            ELSE request
              /\ watcher' = [Idle EXCEPT !.at = "next",
                     !.docs = [q \in DOMAIN watcher.docs \ {r} |-> watcher.docs[q]]]
  BY DEF ApplyPenalty
<1> DEFINE loaded == watcher.docs[r]
           doc == penalized(loaded, watcher.now)
<1>2. /\ r \in DOMAIN watcher.docs /\ loaded \in RequestDoc /\ watcher.now \in Nat
  BY DEF FinancingInv, PollInv
<1>3. watcher' = [at |-> "next",
                  docs |-> [q \in DOMAIN watcher.docs \ {r} |-> watcher.docs[q]],
                  current |-> {}, now |-> 0]
  <2> DEFINE left == [q \in DOMAIN watcher.docs \ {r} |-> watcher.docs[q]]
  <2>1. watcher' = [Idle EXCEPT !.at = "next", !.docs = left]
    BY <1>1
  <2> HIDE DEF left
  <2>2. watcher' = [at |-> "next", docs |-> left, current |-> {}, now |-> 0]
    BY <2>1 DEF Idle
  <2> QED
    BY <2>2 DEF left
<1>4. CASE penaltyGrown(loaded, watcher.now)
  <2>1. loaded.isOverdue /\ estimatedPenalty(loaded, watcher.now) > loaded.penaltyAmount
    BY <1>4 DEF penaltyGrown
  <2>2. estimatedPenalty(loaded, watcher.now) \in Nat
    <3>1. loaded.amount \in Amounts /\ loaded.penaltyAmount \in Nat /\ loaded.due \in Nat
      BY <1>2 DEF RequestDoc
    <3>2. loaded.amount \in Nat /\ DailyPenalty \in Nat
      BY <3>1, FinancingAssumption
    <3>3. loaded.amount * DailyPenalty \in Nat
      BY <3>2
    <3>4. loaded.amount * DailyPenalty * (watcher.now - loaded.due) \in Int
      BY <1>2, <3>1, <3>3
    <3> QED
      BY <2>1, <3>1, <3>4 DEF estimatedPenalty, overdueDays
  <2>3. /\ doc \in RequestDoc /\ doc.status = "PenaltyApplied" /\ doc.isOverdue = TRUE
        /\ doc.order = loaded.order /\ doc.amount = loaded.amount /\ doc.due = loaded.due
    BY <1>2, <2>1, <2>2, StatusFacts DEF penalized, RequestDoc
  <2>4. request' = [request EXCEPT ![r] = saved(@, loaded, doc)]
    BY <1>1, <1>4
  <2> HIDE DEF doc
  <2>5. WatcherWrites(r, doc)
    BY <1>2, <2>1, <2>3, <2>4 DEF WatcherWrites
  <2> QED
    BY <1>2, <1>3, <2>3, <2>5
<1>5. CASE ~penaltyGrown(loaded, watcher.now)
  BY <1>1, <1>2, <1>3, <1>5
<1> QED
  BY <1>4, <1>5

LEMMA PenaltyKeeps ==
    ASSUME FinancingInv, ApplyPenalty
    PROVE  FinancingInv'
<1>1. PICK r \in DOMAIN watcher.docs :
          /\ \/ UNCHANGED request
             \/ \E doc \in RequestDoc : WatcherWrites(r, doc)
          /\ watcher' = [at |-> "next",
                 docs |-> [q \in DOMAIN watcher.docs \ {r} |-> watcher.docs[q]],
                 current |-> {}, now |-> 0]
  BY PenaltyWrites
<1>2. watcherOnly /\ UNCHANGED utilized
  BY DEF ApplyPenalty, watcherOnly
<1>3. Quiet
  BY <1>1, <1>2, Untouched, WatcherQuiet
<1> DEFINE R == DOMAIN watcher.docs \ {r}
           docs == [q \in R |-> watcher.docs[q]]
<1>4. /\ docs \in [R -> RequestDoc] /\ DOMAIN docs = R /\ R \subseteq Requests
      /\ \A q \in R : docs[q] = watcher.docs[q] /\ q \in DOMAIN watcher.docs
  BY DEF FinancingInv, PollInv
<1>5. watcher' = [at |-> "next", docs |-> docs, current |-> {}, now |-> 0]
  BY <1>1
<1> HIDE DEF docs, R
<1>6. /\ watcher'.docs = docs /\ watcher'.current = {} /\ watcher'.at = "next" /\ watcher'.now = 0
      /\ watcher' = [at |-> watcher'.at, docs |-> watcher'.docs,
                     current |-> watcher'.current, now |-> watcher'.now]
  BY <1>5
<1>7. ASSUME NEW q \in DOMAIN watcher'.docs PROVE LoadedOK(q, watcher.docs[q])'
  <2>1. q \in DOMAIN watcher.docs /\ watcher'.docs[q] = watcher.docs[q]
    BY <1>4, <1>6
  <2> QED
    BY <1>3, <2>1, StillLoaded DEF LoadedOK
<1>8. PollInv'
  BY <1>4, <1>6, <1>7 DEF PollInv
<1> QED
  BY <1>2, <1>3, <1>8, QuietWatcher

-----------------------------------------------------------------------------
(* The rest of the system *)

\* At first nothing is drawn, and nothing is under way.
LEMMA InitHolds ==
    ASSUME Init
    PROVE  FinancingInv
<1>1. /\ utilized = 0 /\ failed = 0 /\ day = 0 /\ restarts = 0 /\ watcher = Idle
      /\ request = [r \in Requests |-> NoRequest] /\ calls = [h \in Handlers |-> NoCall]
      /\ deposit = [o \in Orders |-> "absent"]
  BY DEF Init
<1>2. request \in [Requests -> RequestDoc] /\ \A r \in Requests : RequestOK(request[r])
  BY <1>1, NoRequestDoc DEF RequestOK
<1>3. drawnRequests = {}
  BY <1>1, NoRequestDoc, StatusFacts DEF drawnRequests
<1>4. DrawnSum = 0
  <2>1. SumOf([r \in drawnRequests |-> request[r].amount], {}) = 0
    BY SumZero, FS_EmptySet
  <2> QED
    BY <1>3, <2>1 DEF DrawnSum
<1>5. BooksInv
  <2>1. BooksAgree
    BY <1>1, <1>4 DEF BooksAgree, DrawnSum
  <2>2. deposit \in [Orders -> DepositStatuses]
    BY <1>1 DEF DepositStatuses
  <2>3. utilized \in Nat /\ failed \in 0 .. MaxFailed /\ day \in 0 .. MaxDay
        /\ restarts \in 0 .. MaxRestarts
    BY <1>1, FinancingAssumption
  <2> QED
    BY <1>2, <2>1, <2>2, <2>3 DEF BooksInv
<1>6. calls \in [Handlers -> Call] /\ \A h \in Handlers : CallOK(h, calls[h])
  BY <1>1 DEF Call, NoCall, CallOK
<1>7. PollInv
  BY <1>1 DEF PollInv, Idle
<1> QED
  BY <1>5, <1>6, <1>7 DEF FinancingInv

\* The webhook of a deposit, and a repayment that fails, touch neither requests nor profile.
LEMMA OutsideKeeps ==
    ASSUME FinancingInv,
           \/ \E o \in Orders : DepositArrives(o)
           \/ \E r \in Requests : ProcessRepayment(r)
    PROVE  FinancingInv'
<1>1. UNCHANGED <<request, utilized, calls, watcher, day, restarts>>
  BY DEF DepositArrives, ProcessRepayment, handlersOnly
<1>2. Quiet
  BY <1>1, Untouched
<1>3. /\ deposit' \in [Orders -> DepositStatuses]
      /\ \A o \in Orders : deposit'[o] = "Financed" => deposit[o] = "Financed"
  BY DEF DepositArrives, ProcessRepayment, FinancingInv, BooksInv, DepositStatuses
<1>4. failed' \in 0 .. MaxFailed
  <2>1. failed \in 0 .. MaxFailed /\ MaxFailed \in Nat
    BY FinancingAssumption DEF FinancingInv, BooksInv
  <2>2. failed' = failed \/ (failed < MaxFailed /\ failed' = failed + 1)
    BY DEF DepositArrives, ProcessRepayment
  <2> QED
    BY <2>1, <2>2
<1>5. BooksInv' /\ PollInv'
  <2>1. restarts' \in 0 .. MaxRestarts
    BY <1>1 DEF FinancingInv, BooksInv
  <2> QED
    BY <1>1, <1>2, <1>3, <1>4, <2>1, QuietBooks, QuietPoll
<1>6. ASSUME NEW h \in Handlers PROVE CallOK(h, calls[h])'
  <2>1. calls[h] \in Call /\ CallOK(h, calls[h])
    BY DEF FinancingInv
  <2>2. PICK c \in Call : c = calls[h]
    BY <2>1
  <2>3. CallOK(h, c)'
    BY <1>2, <2>1, <2>2, QuietCall
  <2> QED
    BY <1>1, <2>2, <2>3 DEF CallOK
<1> QED
  BY <1>1, <1>5, <1>6 DEF FinancingInv

\* A day that passes makes nothing less overdue.
LEMMA TickKeeps ==
    ASSUME FinancingInv, Tick
    PROVE  FinancingInv'
<1>1. /\ UNCHANGED <<utilized, request, deposit, failed, calls, watcher, restarts>>
      /\ day < MaxDay /\ day' = day + 1
  BY DEF Tick, books
<1>2. day \in Nat /\ day' \in 0 .. MaxDay
  BY <1>1, FinancingAssumption DEF FinancingInv, BooksInv
<1>3. ASSUME NEW r \in Requests PROVE RequestOK(request[r])'
  <2>1. request[r].due \in Nat /\ RequestOK(request[r]) /\ Grace \in Nat
    BY FinancingAssumption DEF FinancingInv, BooksInv, RequestDoc
  <2>2. request[r].due + Grace <= day => request[r].due + Grace <= day'
    BY <1>1, <1>2, <2>1
  <2> QED
    BY <1>1, <2>1, <2>2 DEF RequestOK
<1>4. BooksAgree'
  BY <1>1 DEF FinancingInv, BooksInv, BooksAgree, drawnRequests
<1>5. BooksInv'
  BY <1>1, <1>2, <1>3, <1>4 DEF FinancingInv, BooksInv
<1>6. \A h \in Handlers : CallOK(h, calls[h])'
  BY <1>1 DEF FinancingInv, CallOK, DrawnSum, drawnRequests
<1>7. PollInv'
  BY <1>1 DEF FinancingInv, PollInv, LoadedOK
<1> QED
  BY <1>1, <1>5, <1>6, <1>7 DEF FinancingInv

\* A restart forgets what was under way, and nothing of what is stored.
LEMMA RestartKeeps ==
    ASSUME FinancingInv, Restart
    PROVE  FinancingInv'
<1>1. /\ UNCHANGED <<utilized, request, deposit, failed, day>>
      /\ restarts < MaxRestarts /\ restarts' = restarts + 1
      /\ calls' = [h \in Handlers |-> NoCall] /\ watcher' = Idle
  BY DEF Restart, books
<1>2. restarts' \in 0 .. MaxRestarts
  BY <1>1, FinancingAssumption DEF FinancingInv, BooksInv
<1>3. Quiet
  BY <1>1, Untouched
<1>4. BooksInv'
  <2>1. /\ deposit' \in [Orders -> DepositStatuses] /\ failed' \in 0 .. MaxFailed
        /\ \A o \in Orders : deposit'[o] = "Financed" => deposit[o] = "Financed"
    BY <1>1 DEF FinancingInv, BooksInv
  <2> QED
    BY <1>1, <1>2, <1>3, <2>1, QuietBooks
<1>5. calls' \in [Handlers -> Call] /\ \A h \in Handlers : CallOK(h, calls[h])'
  BY <1>1 DEF Call, NoCall, CallOK
<1>6. PollInv'
  BY <1>1 DEF PollInv, Idle
<1> QED
  BY <1>4, <1>5, <1>6 DEF FinancingInv

LEMMA StepKeeps ==
    ASSUME FinancingInv, OneConfirmer, [Next]_vars
    PROVE  FinancingInv'
<1>1. CASE UNCHANGED vars
  BY <1>1 DEF vars, FinancingInv, BooksInv, RequestOK, BooksAgree, drawnRequests, CallOK,
              DrawnSum, PollInv, LoadedOK
<1>2. ASSUME NEW h \in Handlers, HandlerNext(h)
      PROVE  FinancingInv'
  <2>1. CASE \/ \E o \in Orders : RequestRead(h, o)
             \/ \E r \in Requests : ConfirmRead(h, r) \/ RepaymentRead(h, r)
    BY <2>1, ReadKeeps
  <2>2. CASE RequestCreate(h) \/ RequestMark(h)
    BY <2>2, RequestKeeps
  <2>3. CASE ConfirmUtilize(h)
    BY <2>3, UtilizeKeeps
  <2>4. CASE ConfirmDisburse(h)
    BY <2>4, DisburseKeeps
  <2>5. CASE ConfirmFinance(h)
    BY <2>5, FinanceKeeps
  <2>6. CASE RepaymentPending(h)
    BY <2>6, RepaymentKeeps
  <2> QED
    BY <1>2, <2>1, <2>2, <2>3, <2>4, <2>5, <2>6 DEF HandlerNext
<1>3. CASE WatcherNext
  BY <1>3, PollKeeps, MarkKeeps, PenaltyKeeps DEF WatcherNext
<1>4. CASE \/ \E o \in Orders : DepositArrives(o)
           \/ \E r \in Requests : ProcessRepayment(r)
  BY <1>4, OutsideKeeps
<1>5. CASE Tick \/ Restart
  BY <1>5, TickKeeps, RestartKeeps
<1> QED
  BY <1>1, <1>2, <1>3, <1>4, <1>5 DEF Next

-----------------------------------------------------------------------------
(* Theorems *)

\* The invariant holds of every behaviour with one confirmation at a time.
THEOREM FinancingInvariance ==
    ASSUME OneConfirmer
    PROVE  Spec => []FinancingInv
<1>1. Init => FinancingInv
  BY InitHolds
<1>2. FinancingInv /\ [Next]_vars => FinancingInv'
  BY StepKeeps
<1> QED
  BY <1>1, <1>2, PTL DEF Spec

\* The documents keep their shape, and a request is marked overdue when its grace has passed
\* and not before: the watcher saves its marks over what has been stored since it loaded the
\* request (overdueWatcher.js), and its dates are those that are stored.
THEOREM FinancingTypeCorrect ==
    ASSUME OneConfirmer
    PROVE  Spec => []FinancingTypeOK
<1>1. FinancingInv => FinancingTypeOK
  BY DEF FinancingInv, BooksInv, RequestOK, PollInv, FinancingTypeOK
<1> QED
  BY <1>1, FinancingInvariance, PTL

\* The utilization of the profile covers every request that is drawn, and an order is shown as
\* financed only when a request of it is drawn: POST /admin/financing/:id/confirm saves the
\* profile, the request and the deposit in this order, and may be cut off after each.
THEOREM FinancingBooksAgree ==
    ASSUME OneConfirmer
    PROVE  Spec => []BooksAgree
<1>1. FinancingInv => BooksAgree
  BY DEF FinancingInv, BooksInv
<1> QED
  BY <1>1, FinancingInvariance, PTL

\* What a handler or the watcher may make of a request whose repayment is announced.
LEMMA StepKeepsNotice ==
    ASSUME FinancingInv, OneConfirmer, Next, NEW r \in Requests,
           request[r].status = "RepaymentPending", request'[r].status # "RepaymentPending"
    PROVE  r \in DOMAIN watcher.docs /\ watcher.docs[r].status # "RepaymentPending"
<1>1. request \in [Requests -> RequestDoc]
  BY DEF FinancingInv, BooksInv
<1>2. ASSUME request' = request PROVE FALSE
  BY <1>2
<1>3. ASSUME NEW h \in Handlers, HandlerNext(h) PROVE FALSE
  <2>1. CASE RequestCreate(h)
    BY <1>1, <2>1 DEF RequestCreate
  <2>2. CASE ConfirmDisburse(h)
    <3>1. calls[h].op = "confirm" /\ calls[h].step = 2
      BY <2>2, ConfirmCall DEF ConfirmDisburse
    <3>2. calls[h].request \in Requests /\ request[calls[h].request].status = "Pending"
      BY <3>1, CallFields DEF FinancingInv, CallOK
    <3>3. r # calls[h].request
      BY <3>2
    <3>4. request'[r] = request[r]
      BY <1>1, <2>2, <3>2, <3>3 DEF ConfirmDisburse
    <3> QED
      BY <3>4
  <2>3. CASE RepaymentPending(h)
    <3> DEFINE c == calls[h]
               e == saved(request[c.request], c.loaded,
                          [c.loaded EXCEPT !.status = "RepaymentPending"])
    <3>1. c.request \in Requests /\ c.loaded \in RequestDoc
      BY <2>3, CallFields DEF FinancingInv, RepaymentPending
    <3>2. request' = [request EXCEPT ![c.request] = e]
      BY <1>1, <2>3, <3>1 DEF RepaymentPending
    <3>3. [c.loaded EXCEPT !.status = "RepaymentPending"] \in RequestDoc
      BY <3>1, StatusFacts DEF RequestDoc
    <3>4. e.status \in {"RepaymentPending", request[c.request].status}
      <4> DEFINE doc == [c.loaded EXCEPT !.status = "RepaymentPending"]
      <4>1. doc.status = "RepaymentPending" /\ doc \in RequestDoc
        BY <3>1, <3>3 DEF RequestDoc
      <4>2. request[c.request] \in RequestDoc /\ e = saved(request[c.request], c.loaded, doc)
        BY <1>1, <3>1
      <4> HIDE DEF e, doc
      <4>3. e.status = IF doc.status # c.loaded.status THEN doc.status
                       ELSE request[c.request].status
        BY <3>1, <4>1, <4>2, SavedDoc
      <4> QED
        BY <4>1, <4>3
    <3> HIDE DEF e
    <3>5. request'[r] = IF r = c.request THEN e ELSE request[r]
      BY <1>1, <3>1, <3>2
    <3> QED
      BY <3>4, <3>5
  <2>4. CASE \/ \E o \in Orders : RequestRead(h, o)
             \/ \E q \in Requests : ConfirmRead(h, q) \/ RepaymentRead(h, q)
             \/ RequestMark(h) \/ ConfirmUtilize(h) \/ ConfirmFinance(h)
    BY <1>2, <2>4 DEF RequestRead, ConfirmRead, RepaymentRead, RequestMark, ConfirmUtilize,
                      ConfirmFinance, books
  <2> QED
    BY <1>3, <2>1, <2>2, <2>3, <2>4 DEF HandlerNext
<1>4. ASSUME NEW q \in DOMAIN watcher.docs, NEW doc \in RequestDoc, WatcherWrites(q, doc),
             UNCHANGED utilized
      PROVE  r \in DOMAIN watcher.docs /\ watcher.docs[r].status # "RepaymentPending"
  <2>1. r = q
    BY <1>4, WatcherQuiet
  <2>2. watcher.docs[r].status \in Outstanding
    BY <1>4, <2>1 DEF FinancingInv, PollInv, LoadedOK
  <2> QED
    BY <1>4, <2>1, <2>2, StatusFacts
<1>5. CASE MarkOverdue
  <2>1. UNCHANGED utilized
    BY <1>5 DEF MarkOverdue, watcherOnly
  <2> QED
    BY <1>4, <1>5, <2>1, MarkWrites
<1>6. CASE ApplyPenalty
  <2>1. UNCHANGED utilized
    BY <1>6 DEF ApplyPenalty, watcherOnly
  <2> QED
    BY <1>2, <1>4, <1>6, <2>1, PenaltyWrites
<1>7. CASE \/ \E o \in Orders : DepositArrives(o)
           \/ \E q \in Requests : ProcessRepayment(q)
           \/ Poll \/ PollEnd \/ Tick \/ Restart
  BY <1>2, <1>7 DEF DepositArrives, ProcessRepayment, Poll, PollEnd, Tick, Restart, books
<1> QED
  BY <1>3, <1>5, <1>6, <1>7 DEF Next, WatcherNext

\* An announced repayment is taken back only by a poll that had loaded the request before the
\* announcement: every other save writes over the status of a request that is not announced,
\* or announces it (admin.js, repaymentAgent.js, overdueWatcher.js).
THEOREM FinancingNoticeKept ==
    ASSUME OneConfirmer
    PROVE  Spec => NoticeKept
<1>1. FinancingInv /\ [Next]_vars =>
          [\A r \in Requests :
               request[r].status = "RepaymentPending" /\ request'[r].status # "RepaymentPending"
                   => /\ r \in DOMAIN watcher.docs
                      /\ watcher.docs[r].status # "RepaymentPending"]_vars
  BY StepKeepsNotice
<1> QED
  BY <1>1, FinancingInvariance, PTL DEF Spec, NoticeKept

=============================================================================
