------------------------------ MODULE Log1pSeries ------------------------------
(***************************************************************************)
(* log1p_series_shifted(x), the log(J) = log1p(J - 1) of the Neo-Hookean  *)
(* kernels: one range-reduction step, then the series                     *)
(* 2 (y + y^3/3 + y^5/5 + y^7/7) with y = x / (2 + x).  The series is    *)
(* accurate for sqrt(2)/2 < J < sqrt(2); the comment above it says the    *)
(* reduction extends this to sqrt(2)/4 < J < 2 sqrt(2).                   *)
(*                                                                         *)
(* Values are exact rationals (Rat of NeoHookean).  log(2) is kept        *)
(* symbolic: the helper's result is log2 * log(2) + the series at y, and  *)
(* the comparisons with sqrt(2) are made on squares.                      *)
(***************************************************************************)
EXTENDS NeoHookean

CONSTANT Inputs   \* the arguments x = Jm1 the helper is called with (Rats)

VARIABLES
  x,        \* the argument
  reduced,  \* [x |-> x after the reduction, log2 |-> coefficient of log(2), y |-> y]
  pc        \* "call" or "returned"

vars == <<x, reduced, pc>>

RECURSIVE GcdOf(_, _)
GcdOf(a, b) == IF b = 0 THEN a ELSE GcdOf(b, a % b)
\* A rational in lowest terms with a positive denominator (den 0 kept).
Norm(r) ==
  LET g == GcdOf(IF r.num < 0 THEN -r.num ELSE r.num, IF r.den < 0 THEN -r.den ELSE r.den)
      s == IF r.den < 0 THEN -1 ELSE 1
  IN  IF g = 0 THEN r ELSE Rat(s * (r.num \div g), s * (r.den \div g))

Pos(r) == r.num * r.den > 0
Lt(a, b) == Pos(RatSub(b, a))
Sq(r) == RatMul(r, r)
\* J = x + 1 compared with sqrt(2) / 2 and sqrt(2), on squares.
BelowLeft(r) == LET J == RatAdd(r, RatInt(1)) IN ~Pos(J) \/ Lt(RatMul(RatInt(2), Sq(J)), RatInt(1))
AboveRight(r) == LET J == RatAdd(r, RatInt(1)) IN Pos(J) /\ Lt(RatInt(2), Sq(J))

\* Faulty variant: x = 2 * x in the left branch.
Log1pSeriesShiftedDoubleX(r) ==
  LET red == IF BelowLeft(r) THEN [x |-> RatMul(RatInt(2), r), log2 |-> -1]
             ELSE IF AboveRight(r) THEN [x |-> RatDiv(RatSub(r, RatInt(1)), RatInt(2)), log2 |-> 1]
             ELSE [x |-> r, log2 |-> 0]
  IN  [x |-> Norm(red.x), log2 |-> red.log2, y |-> Norm(RatDiv(red.x, RatAdd(RatInt(2), red.x)))]

\* Faulty variant: sum -= log(2.) without the / 2, so 2 * sum counts two.
Log1pSeriesShiftedWholeLog2(r) ==
  LET red == IF BelowLeft(r) THEN [x |-> RatAdd(RatInt(1), RatMul(RatInt(2), r)), log2 |-> -2]
             ELSE IF AboveRight(r) THEN [x |-> RatDiv(RatSub(r, RatInt(1)), RatInt(2)), log2 |-> 2]
             ELSE [x |-> r, log2 |-> 0]
  IN  [x |-> Norm(red.x), log2 |-> red.log2, y |-> Norm(RatDiv(red.x, RatAdd(RatInt(2), red.x)))]

\* if (x < left) { sum -= log(2.) / 2; x = 1 + 2 * x; }
\* else if (right < x) { sum += log(2.) / 2; x = (x - 1) / 2; }
\* y = x / (2. + x); then the series 2 (y + y^3/3 + y^5/5 + y^7/7),
\* an odd polynomial of y that the model keeps as y.  The final 2 * sum
\* doubles the log(2) / 2, so log2 counts whole log(2)s.
Log1pSeriesShifted(r) ==
  LET red == IF BelowLeft(r) THEN [x |-> RatAdd(RatInt(1), RatMul(RatInt(2), r)), log2 |-> -1]
             ELSE IF AboveRight(r) THEN [x |-> RatDiv(RatSub(r, RatInt(1)), RatInt(2)), log2 |-> 1]
             ELSE [x |-> r, log2 |-> 0]
  IN  [x |-> Norm(red.x), log2 |-> red.log2, y |-> Norm(RatDiv(red.x, RatAdd(RatInt(2), red.x)))]

Init ==
  /\ x \in Inputs
  /\ reduced = [x |-> RatInt(0), log2 |-> 0, y |-> RatInt(0)]
  /\ pc = "call"

\* One call of the helper.
Call ==
  /\ pc = "call"
  /\ reduced' = Log1pSeriesShifted(x)
  /\ pc' = "returned"
  /\ UNCHANGED x

Next == Call

Spec == Init /\ [][Next]_vars

-----------------------------------------------------------------------------
TypeOK ==
  /\ pc \in {"call", "returned"}
  /\ reduced.log2 \in {-1, 0, 1}

Eq(a, b) == a.num * b.den = b.num * a.den

\* The comment's claim: for sqrt(2)/4 < J < 2 sqrt(2) the reduced J' lies
\* in the series' range sqrt(2)/2 <= J' <= sqrt(2), J = J' 2^log2 (so the
\* log(2) the code adds is right), and |y| <= 0.172, where the first
\* dropped term bounds the error 2 |y|^9 / (9 (1 - y^2)) below 1e-7.
ReductionInAccurateRange ==
  LET J == RatAdd(x, RatInt(1))
      J2 == RatAdd(reduced.x, RatInt(1))
      y == reduced.y
      scale == IF reduced.log2 = 1 THEN RatInt(2)
               ELSE IF reduced.log2 = -1 THEN Rat(1, 2) ELSE RatInt(1)
  IN  pc = "returned" /\ Pos(J) /\ Lt(RatInt(1), RatMul(RatInt(8), Sq(J)))
        /\ Lt(Sq(J), RatInt(8)) =>
        /\ ~Lt(RatMul(RatInt(2), Sq(J2)), RatInt(1)) /\ ~Lt(RatInt(2), Sq(J2))
        /\ Eq(RatMul(J2, scale), J)
        /\ ~Lt(Rat(172, 1000), y) /\ ~Lt(y, Rat(-172, 1000))

\* log(1/J) = -log(J): the helper's result at J and at 1/J negate, i.e.
\* the two calls reduce by opposite powers of 2 and reach opposite y.
\* This ties the left branch to the right one, on every input J > 0
\* whose reciprocal is also an input.
LogIsOdd ==
  \A b \in Inputs :
    LET J == RatAdd(x, RatInt(1))
        K == RatAdd(b, RatInt(1))
        other == Log1pSeriesShifted(b)
    IN  pc = "returned" /\ Pos(J) /\ Eq(RatMul(J, K), RatInt(1)) =>
          reduced.log2 = -other.log2 /\ Eq(reduced.y, RatMul(RatInt(-1), other.y))

=============================================================================
