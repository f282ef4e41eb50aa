----------------------------- MODULE PriceBands -----------------------------
(***************************************************************************)
(* The goods that the parsers of the suppliers make of their lists and     *)
(* answers (src/src/good/dtos): a good has warehouses, a warehouse has a   *)
(* quantity, a multiple in which it sells and price bands.  A band applies *)
(* from min to max pieces, and without an upper bound when max is zero.    *)
(* Names, producers, currencies, delivery times and the other parameters   *)
(* of a good are left out; money is counted in whole units of a size that  *)
(* each parser names.                                                      *)
(*                                                                         *)
(* A cell of a list is an integer, or NaN when it is empty or not a        *)
(* number: the operators below are what JavaScript does with such cells.   *)
(***************************************************************************)
EXTENDS Integers, FiniteSets

CONSTANT NaN

ASSUME NaNAssumption == NaN \notin Int

Cell == Int \cup {NaN}
Count == Nat \ {0}

Truthy(x) == x \notin {NaN, 0}
IsPositive(x) == x # NaN /\ x > 0
More(x, y) == x # NaN /\ y # NaN /\ x > y

\* x || d, x ?? d, x - y and x * y.
Or(x, d) == IF Truthy(x) THEN x ELSE d
Fallback(x, d) == IF x = NaN THEN d ELSE x
Minus(x, y) == IF x = NaN THEN NaN ELSE x - y
Times(x, y) == IF x = NaN THEN NaN ELSE x * y

Larger(x, y) == IF x > y THEN x ELSE y
Smaller(x, y) == IF x < y THEN x ELSE y

\* Math.round and Math.ceil of the quotient of two positive numbers.
Round(x, y) == (2 * x + y) \div (2 * y)
Ceil(x, y) == (x + y - 1) \div y

----------------------------------------------------------------------------
Band(value, min, max) ==
    [value |-> value, min |-> min, max |-> max, isOrdinary |-> FALSE]
Ordinary(band) == [band EXCEPT !.isOrdinary = TRUE]

Warehouse(name, quantity, multiple, prices) ==
    [name |-> name, quantity |-> quantity, multiple |-> multiple, prices |-> prices]

Good(code, warehouses) == [code |-> code, warehouses |-> warehouses]

\* A set with one element when the condition holds: a row or a warehouse the
\* parsers push only then.
When(condition, element) == IF condition THEN {element} ELSE {}

----------------------------------------------------------------------------
(***************************************************************************)
(* What a buyer pays: the bands for buying (not the ordinary ones) that    *)
(* apply to a quantity of a warehouse.                                     *)
(***************************************************************************)
Covers(band, q) ==
    /\ band.min # NaN /\ band.min <= q
    /\ band.max # NaN /\ (band.max = 0 \/ q <= band.max)

Charged(prices, q) == {b \in prices : ~b.isOrdinary /\ Covers(b, q)}

(***************************************************************************)
(* What the supplier means: a tariff is a sequence of steps, the value of  *)
(* a step holding from its min up to the next one.  A tariff is spelled    *)
(* out when its first steps rise, each with a price, and the rest are      *)
(* empty; other rows do not say what a quantity costs.                     *)
(***************************************************************************)
Step(min, value) == [min |-> min, value |-> value]

Filled(step) == IsPositive(step.min) /\ IsPositive(step.value)
Empty(step) == ~Truthy(step.min) /\ ~Truthy(step.value)

Spelled(steps) ==
    \E k \in DOMAIN steps :
        /\ \A i \in DOMAIN steps : IF i <= k THEN Filled(steps[i]) ELSE Empty(steps[i])
        /\ \A i, j \in 1..k : i < j => steps[i].min < steps[j].min

\* The values the tariff asks for q pieces: one, or none below the first step.
Asked(steps, q) ==
    {steps[i].value : i \in {n \in DOMAIN steps :
        /\ Filled(steps[n])
        /\ steps[n].min <= q
        /\ \A j \in DOMAIN steps : j > n /\ Filled(steps[j]) => q < steps[j].min}}
=============================================================================
