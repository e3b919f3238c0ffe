---------------------------- MODULE LoadThresholds ----------------------------
(***************************************************************************)
(* The numbers behind a load test: evaluateTest of internal/domain         *)
(* compares a reading with the rated load times 1.25 or 1.10 in float64.   *)
(* InspectionCase only knows a reading as within or outside the limit;     *)
(* this module says where that line runs for ratings in tens of kilograms  *)
(* and readings in whole kilograms.                                        *)
(*                                                                         *)
(* 1.25 is a float64 and its product with such a rating is exact.  1.10 is *)
(* not: 1.1 * 2^52 ends in .6 and is rounded up by 0.4, so for a rating of *)
(* 10k the exact product is 11k + 4k / 2^52.  It is rounded to a multiple  *)
(* of 2^(e - 52), where 2^e <= 11k < 2^(e+1): to 11k, or one unit above it *)
(* when the excess is more than half a unit, 4k > 2^(e - 1).               *)
(***************************************************************************)
EXTENDS Integers

CONSTANT MaxTens   \* bound: ratings up to ten times this many kilograms

VARIABLES rated, kind, applied, result

vars == <<rated, kind, applied, result>>

Kinds == {"static_load", "dynamic_load"}
Percent == [k \in Kinds |-> IF k = "static_load" THEN 125 ELSE 110]

-----------------------------------------------------------------------------

Binade(x) == CHOOSE e \in 0..30 : 2^e <= x /\ x < 2^(e + 1)

\* Is float64(rated * 1.10) above the true product?
RoundsUp(r) == LET k == r \div 10 IN 8 * k > 2^Binade(11 * k)

StaticPasses(r, a) == 4 * a >= 5 * r

DynamicPasses(r, a) ==
  \/ 10 * a > 11 * r
  \/ 10 * a = 11 * r /\ ~RoundsUp(r)

\* A load test of an asset about to be judged.
Init ==
  /\ rated \in {10 * k : k \in 1..MaxTens}
  /\ kind \in Kinds
  /\ applied \in (rated - 1)..(2 * rated)
  /\ result = "none"

EvaluateTest ==
  /\ result = "none"
  /\ result' =
       IF (kind = "static_load" /\ StaticPasses(rated, applied))
          \/ (kind = "dynamic_load" /\ DynamicPasses(rated, applied))
       THEN "pass" ELSE "fail"
  /\ UNCHANGED <<rated, kind, applied>>

Next == EvaluateTest

Spec == Init /\ [][Next]_vars

-----------------------------------------------------------------------------
(* What the documentation says and the code does not do *)

Enough == 100 * applied >= Percent[kind] * rated

\* README: a dynamic load must reach at least 110 percent of the rated load,
\* so a reading of that much, or more, is a pass.
EnoughPasses == result = "fail" => ~Enough
=============================================================================
