---------------------------- MODULE RpcThrottle ----------------------------
(***************************************************************************)
(* server/config/rpcThrottle.js: the queue in front of every JSON-RPC      *)
(* request of the server.  One event loop: the body of an action runs      *)
(* without interruption, and what it awaits is another action.             *)
(*                                                                         *)
(* A timer may fire early here, the pump it runs looks at the clock again; *)
(* a backoff ends at any time.  The endpoint is external: it answers,      *)
(* reports a revert, or refuses.                                           *)
(***************************************************************************)
EXTENDS Integers, Sequences, FiniteSets

CONSTANTS
    Requests,
    MAX_CONCURRENT,
    MIN_GAP,           \* between two sends, in ticks
    MAX_RETRIES

ASSUME ThrottleAssumption ==
    /\ MAX_CONCURRENT \in Nat \ {0}
    /\ MIN_GAP \in Nat
    /\ MAX_RETRIES \in Nat
    /\ IsFiniteSet(Requests)

VARIABLES
    active,            \* slots taken
    gap,               \* ticks since the last send, up to MIN_GAP
    waiting,           \* requests that wait for a slot
    timers,            \* pumps that setTimeout still owes
    phase,             \* [Requests -> Phases]
    attempt            \* [Requests -> 0 .. MAX_RETRIES]

throttleVars == <<active, gap, waiting, timers, phase, attempt>>

Phases == {"new", "queued", "sent", "backoff", "answered", "failed"}

Settled == {"answered", "failed"}

Sent == {r \in Requests : phase[r] = "sent"}

ThrottleInit ==
    /\ active = 0 /\ gap = MIN_GAP
    /\ waiting = <<>> /\ timers = 0
    /\ phase = [r \in Requests |-> "new"]
    /\ attempt = [r \in Requests |-> 0]

-----------------------------------------------------------------------------
(* The pump, run on q waiting requests with a slots taken and t timers set, after the *)
(* phases became ph.                                                                 *)

Rest(q, a, t, ph) ==
    /\ q = <<>> \/ a >= MAX_CONCURRENT
    /\ waiting' = q /\ active' = a /\ timers' = t /\ phase' = ph
    /\ UNCHANGED gap

\* Mutant: a pump that comes too early does not come back.
RearmNot(q, a, t, ph) ==
    /\ q # <<>> /\ a < MAX_CONCURRENT
    /\ gap < MIN_GAP
    /\ waiting' = q /\ active' = a /\ timers' = t /\ phase' = ph
    /\ UNCHANGED gap

Rearm(q, a, t, ph) ==
    /\ q # <<>> /\ a < MAX_CONCURRENT
    /\ gap < MIN_GAP
    /\ waiting' = q /\ active' = a /\ timers' = t + 1 /\ phase' = ph
    /\ UNCHANGED gap

Send(q, a, t, ph) ==
    /\ q # <<>> /\ a < MAX_CONCURRENT
    /\ gap >= MIN_GAP
    /\ waiting' = Tail(q) /\ active' = a + 1 /\ timers' = t
    /\ phase' = [ph EXCEPT ![Head(q)] = "sent"]
    /\ gap' = 0

pump(q, a, t, ph) == Rest(q, a, t, ph) \/ Rearm(q, a, t, ph) \/ Send(q, a, t, ph)

acquire(r) == pump(Append(waiting, r), active, timers, [phase EXCEPT ![r] = "queued"])

\* Mutant: a slot is given back and nobody is told.
releaseSilent(r, p) ==
    /\ active' = active - 1
    /\ phase' = [phase EXCEPT ![r] = p]
    /\ UNCHANGED <<waiting, timers, gap>>

release(r, p) == pump(waiting, active - 1, timers, [phase EXCEPT ![r] = p])

-----------------------------------------------------------------------------
(* One request, through its attempts *)

Request(r) ==
    /\ phase[r] = "new"
    /\ acquire(r)
    /\ UNCHANGED attempt

Answer(r) ==
    /\ phase[r] = "sent"
    /\ release(r, "answered")
    /\ UNCHANGED attempt

\* A revert is the contract's answer and is not tried again.
Revert(r) ==
    /\ phase[r] = "sent"
    /\ release(r, "failed")
    /\ UNCHANGED attempt

\* Mutant: a refused request sleeps in its slot.
RefuseHolding(r) ==
    /\ phase[r] = "sent"
    /\ IF attempt[r] = MAX_RETRIES
       THEN release(r, "failed") /\ UNCHANGED attempt
       ELSE /\ phase' = [phase EXCEPT ![r] = "backoff"]
            /\ attempt' = [attempt EXCEPT ![r] = @ + 1]
            /\ UNCHANGED <<active, gap, waiting, timers>>

\* Mutant: one attempt too many.
RefuseOnceMore(r) ==
    /\ phase[r] = "sent"
    /\ IF attempt[r] > MAX_RETRIES
       THEN release(r, "failed") /\ UNCHANGED attempt
       ELSE release(r, "backoff") /\ attempt' = [attempt EXCEPT ![r] = @ + 1]

\* The endpoint refuses: the slot is given back before the backoff.
Refuse(r) ==
    /\ phase[r] = "sent"
    /\ IF attempt[r] = MAX_RETRIES
       THEN release(r, "failed") /\ UNCHANGED attempt
       ELSE release(r, "backoff") /\ attempt' = [attempt EXCEPT ![r] = @ + 1]

Retry(r) ==
    /\ phase[r] = "backoff"
    /\ acquire(r)
    /\ UNCHANGED attempt

FireTimer ==
    /\ timers > 0
    /\ pump(waiting, active, timers - 1, phase)
    /\ UNCHANGED attempt

GapTick ==
    /\ gap < MIN_GAP /\ gap' = gap + 1
    /\ UNCHANGED <<active, waiting, timers, phase, attempt>>

\* What the endpoint says, which it does sooner or later.
Reply(r) == Answer(r) \/ Revert(r) \/ Refuse(r)

ThrottleNext ==
    \/ \E r \in Requests : Request(r) \/ Reply(r) \/ Retry(r)
    \/ FireTimer
    \/ GapTick

ThrottleSpec == ThrottleInit /\ [][ThrottleNext]_throttleVars

\* The event loop runs what is due; nobody has to make a request.
Fairness ==
    /\ \A r \in Requests : WF_throttleVars(Reply(r)) /\ WF_throttleVars(Retry(r))
    /\ WF_throttleVars(FireTimer)
    /\ WF_throttleVars(GapTick)

FairThrottleSpec == ThrottleSpec /\ Fairness

-----------------------------------------------------------------------------
(* Properties *)

ThrottleTypeOK ==
    /\ active \in 0 .. MAX_CONCURRENT
    /\ gap \in 0 .. MIN_GAP
    /\ waiting \in Seq(Requests)
    /\ timers \in Nat
    /\ phase \in [Requests -> Phases]
    /\ attempt \in [Requests -> 0 .. MAX_RETRIES]

\* A slot is taken by exactly the requests the endpoint has not answered: one that failed,
\* or sleeps before it is tried again, holds none.
SlotsAreHeld == active = Cardinality(Sent)

\* Every slot that a waiting request could have is taken or has a pump on its way, although
\* each pump sends one request only and pumps that find no slot are not repeated.
NoIdleSlot ==
    \/ active + timers >= MAX_CONCURRENT
    \/ timers >= Len(waiting)

\* Every request is answered or fails: none waits for ever behind the others, or for a pump
\* that nobody owes.
EveryRequestSettles == \A r \in Requests : phase[r] = "queued" ~> phase[r] \in Settled
=============================================================================
