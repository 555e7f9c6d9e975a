---------------------------- MODULE CreditLine -----------------------------
(***************************************************************************)
(* What one pool promises, whatever it charges: the capital committed to   *)
(* it is, from the lock on, undrawn, lent or recovered and nowhere else;   *)
(* the line ends when all of it is recovered, or fails before it was lent; *)
(* and its PSP is held from the creation to the end, and not longer.       *)
(*                                                                         *)
(* An action may stand for several internal steps of a call of the         *)
(* contract: a failed line is noticed by the withdrawal that leaves it.    *)
(***************************************************************************)
EXTENDS Integers, PoolLifecycle

VARIABLES
    status,
    committed,   \* principal of the LPs
    undrawn,     \* may be drawn
    lent,        \* drawn and not repaid
    recovered,   \* to be claimed by the LPs
    released     \* the PSP may have another pool

lineVars == <<status, committed, undrawn, lent, recovered, released>>

Init ==
    /\ status = "Funding"
    /\ committed = 0 /\ undrawn = 0 /\ lent = 0 /\ recovered = 0
    /\ released = FALSE

Fund ==
    /\ status = "Funding"
    /\ committed' \in Int
    /\ UNCHANGED <<status, undrawn, lent, recovered, released>>

Lock ==
    /\ status = "Funding" /\ status' = "Active"
    /\ undrawn' = committed
    /\ UNCHANGED <<committed, lent, recovered, released>>

Fail ==
    /\ status = "Funding" /\ status' = "Unsuccessful"
    /\ committed' <= committed
    /\ released' = TRUE
    /\ UNCHANGED <<undrawn, lent, recovered>>

Leave ==
    /\ status = "Unsuccessful"
    /\ committed' <= committed
    /\ UNCHANGED <<status, undrawn, lent, recovered, released>>

Draw ==
    /\ status = "Active"
    /\ lent' > lent
    /\ undrawn' = undrawn - (lent' - lent)
    /\ undrawn' >= 0
    /\ UNCHANGED <<status, committed, recovered, released>>

Return ==
    /\ status = "Active"
    /\ lent' < lent
    /\ undrawn' = undrawn + (lent - lent')
    /\ UNCHANGED <<status, committed, recovered, released>>

\* Nothing is undrawn any more; the line ends when nothing is missing.
WindDown ==
    /\ status \in {"Active", "Default"}
    /\ status' = status \/ <<status, status'>> \in Moves
    /\ undrawn' = 0
    /\ recovered' + lent' = recovered + lent + undrawn
    /\ status' = "Closed" => recovered' >= committed
    /\ released' = (released \/ status' = "Closed")
    /\ UNCHANGED committed

Next == Fund \/ Lock \/ Fail \/ Leave \/ Draw \/ Return \/ WindDown

Spec == Init /\ [][Next]_lineVars
=============================================================================
