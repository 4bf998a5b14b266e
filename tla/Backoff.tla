------------------------------- MODULE Backoff -------------------------------
(***************************************************************************)
(* The saturating exponential backoff of the platform: a delay is doubled  *)
(* once per failed attempt and never exceeds its ceiling.  The loop        *)
(* compares with max/2 before it doubles, so that no intermediate value    *)
(* leaves the range of time.Duration; when the ceiling is odd, max/2 is    *)
(* rounded down.                                                           *)
(***************************************************************************)
EXTENDS Naturals

\* Doubling(base, max)[n]: the delay after the n-th failed attempt, n >= 1.
\* Go clips the result once more on return, for a base above its ceiling.
Doubling(base, max) ==
    LET after[n \in Nat] ==
          IF n <= 1 THEN base
          ELSE IF after[n - 1] >= max THEN after[n - 1]
          ELSE IF after[n - 1] > max \div 2 THEN max
          ELSE 2 * after[n - 1]
    IN  [n \in Nat |-> IF after[n] > max THEN max ELSE after[n]]
==============================================================================
