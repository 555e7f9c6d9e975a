------------------------------ MODULE MathLib ------------------------------
(***************************************************************************)
(* contracts/src/MathLib.sol: fixed-point arithmetic and the calendar.      *)
(*                                                                         *)
(* WAD, the day and the year are constants of the library (1e18, 86400 and *)
(* 365).  They are parameters here so that an instance can use a coarse    *)
(* clock and a coarse fixed point; every formula keeps its rounding.       *)
(* uint256 never overflows for amounts of a token with a bounded supply,   *)
(* so integers are unbounded; a subtraction that would underflow (and so   *)
(* revert) makes a value negative, which the type invariants exclude.      *)
(***************************************************************************)
EXTENDS Integers

CONSTANTS
    WAD,               \* the fixed-point unit
    SECONDS_PER_DAY,   \* ticks of the clock in a calendar day
    DAYS_PER_YEAR      \* days in the fixed year of the coupon formulas

ASSUME MathLibAssumption ==
    /\ WAD \in Nat \ {0}
    /\ SECONDS_PER_DAY \in Nat \ {0}
    /\ DAYS_PER_YEAR \in Nat \ {0}

SECONDS_PER_YEAR == DAYS_PER_YEAR * SECONDS_PER_DAY

\* Mutant: rounding up.
mulDivUp(x, y, denominator) == (x * y + denominator - 1) \div denominator

\* Multiply then divide, rounding down; the product never overflows.
mulDiv(x, y, denominator) == (x * y) \div denominator

\* Calendar-day index of a timestamp.
dayOf(ts) == ts \div SECONDS_PER_DAY

\* a - b, or nothing: the "a > b ? a - b : 0" the contracts use throughout.
monus(a, b) == IF a > b THEN a - b ELSE 0

\* The smaller of two: the "if (x > cap) x = cap" the contracts use throughout.
least(a, b) == IF a < b THEN a ELSE b
=============================================================================
