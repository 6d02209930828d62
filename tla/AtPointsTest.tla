---------------------------- MODULE AtPointsTest ----------------------------
(***************************************************************************)
(* The at-points restriction test t234: it builds the combined offsets/   *)
(* indices array "ind" of an element restriction at points in which        *)
(* element i owns (i+1) % num_elem + 1 points drawn cyclically from        *)
(* num_points = 2 num_elem points starting at point num_elem, creates the *)
(* restriction (copying ind), checks the min/max points per element,      *)
(* sizes the E-vector buffer y by the maximum, and then for each element  *)
(* zeroes x, scatter-adds y into x for that element alone and checks that *)
(* x is 1 exactly on that element's points.                               *)
(*                                                                         *)
(* num_elem is 3 in the test; the model lets it range over NumElemChoices *)
(* to show which sizes the construction and the expectations fit.  Every  *)
(* loop of the test is kept; values are the test's (0.0 and 1.0 become 0  *)
(* and 1, sums of ones are exact).                                        *)
(***************************************************************************)
EXTENDS Integers

CONSTANT NumElemChoices
ASSUME NumElemChoicesAssumption == NumElemChoices \subseteq Nat \ {0}

VARIABLES
  numElem,    \* num_elem
  pc,         \* the statement the test executes next
  i, j, k,    \* the test's loop counters
  offset,     \* next free position of ind during construction
  pointIndex, \* next global point drawn during construction / checking
  ind,        \* the VLA ind[(num_elem + 1) + num_points]
  indOverrun, \* a write of ind beyond its declared length happened
  rstr,       \* the restriction's copy of ind (CEED_COPY_VALUES)
  minPoints, maxPoints,
  ySize,      \* length of y: CeedVectorCreate(ceed, max_points, &y)
  yOverrun,   \* the restriction read y beyond its length
  x,          \* the L-vector x
  errors      \* (kind, index) pairs of the test's printf error reports

vars == <<numElem, pc, i, j, k, offset, pointIndex, ind, indOverrun, rstr,
          minPoints, maxPoints, ySize, yOverrun, x, errors>>

NumPoints == numElem * 2
IndLen == (numElem + 1) + NumPoints
\* Faulty variant: one point too many per element.
PointsInElemPlusOne(e) == ((e + 1) % numElem) + 2
\* num_points_in_elem for element e, as both loops of the test compute it.
PointsInElem(e) == ((e + 1) % numElem) + 1
\* ind[q] = v, for a VLA: a write past the end is undefined behaviour; it is
\* recorded, and the in-bounds part of ind is left unchanged.
WriteInd(q, v) ==
  /\ ind' = IF q \in DOMAIN ind THEN [ind EXCEPT ![q] = v] ELSE ind
  /\ indOverrun' = (indOverrun \/ q \notin DOMAIN ind)

Unwritten == -1

Init ==
  /\ numElem \in NumElemChoices
  /\ pc = "build"
  /\ i = 0 /\ j = 0 /\ k = 0
  /\ offset = numElem + 1
  /\ pointIndex = numElem
  /\ ind = [q \in 0 .. IndLen - 1 |-> Unwritten]
  /\ indOverrun = FALSE
  /\ rstr = <<>>
  /\ minPoints = 0 /\ maxPoints = 0 /\ ySize = 0
  /\ yOverrun = FALSE
  /\ x = <<>>
  /\ errors = {}

(* Construction of ind, lines 17-32.                                      *)
BuildElem ==
  /\ pc = "build" /\ i < numElem
  /\ WriteInd(i, offset)
  /\ j' = 0
  /\ pc' = "buildPoint"
  /\ UNCHANGED <<numElem, i, k, offset, pointIndex, rstr, minPoints,
                 maxPoints, ySize, yOverrun, x, errors>>

\* Faulty variant: point_index is not wrapped modulo num_points.
BuildPointNoWrap ==
  /\ pc = "buildPoint" /\ j < PointsInElem(i)
  /\ WriteInd(offset + j, pointIndex)
  /\ pointIndex' = pointIndex + 1
  /\ j' = j + 1
  /\ UNCHANGED <<numElem, pc, i, k, offset, rstr, minPoints, maxPoints,
                 ySize, yOverrun, x, errors>>

\* ind[offset + j] = point_index; point_index = (point_index + 1) % num_points.
BuildPoint ==
  /\ pc = "buildPoint" /\ j < PointsInElem(i)
  /\ WriteInd(offset + j, pointIndex)
  /\ pointIndex' = (pointIndex + 1) % NumPoints
  /\ j' = j + 1
  /\ UNCHANGED <<numElem, pc, i, k, offset, rstr, minPoints, maxPoints,
                 ySize, yOverrun, x, errors>>

BuildElemDone ==
  /\ pc = "buildPoint" /\ j = PointsInElem(i)
  /\ offset' = offset + PointsInElem(i)
  /\ i' = i + 1
  /\ pc' = "build"
  /\ UNCHANGED <<numElem, j, k, pointIndex, ind, indOverrun, rstr,
                 minPoints, maxPoints, ySize, yOverrun, x, errors>>

\* ind[num_elem] = offset, then CeedElemRestrictionCreateAtPoints copies
\* ind (line 33) and CeedElemRestrictionCreateVector makes x of num_points
\* entries, set to 0.0 (lines 35-36).
BuildEnd ==
  /\ pc = "build" /\ i = numElem
  /\ WriteInd(numElem, offset)
  /\ rstr' = IF numElem \in DOMAIN ind THEN [ind EXCEPT ![numElem] = offset]
                                       ELSE ind
  /\ x' = [p \in 0 .. NumPoints - 1 |-> 0]
  /\ pc' = "minmax"
  /\ UNCHANGED <<numElem, i, j, k, offset, pointIndex, minPoints, maxPoints,
                 ySize, yOverrun, errors>>

(* The restriction as CeedElemRestrictionCreateAtPoints reads ind: the    *)
(* offsets of element e's points are r[e] .. r[e+1]-1 in the same array.  *)
PointsOf(r, e) == r[e] .. r[e + 1] - 1
ElemSizes(r) == {r[e + 1] - r[e] : e \in 0 .. numElem - 1}
\* The construction-time validation of an IndexMap (MinMax runs only after
\* a successful creation): offsets nondecreasing,
\* every index a point of the L-vector.
ValidAtPoints(r) ==
  /\ \A e \in 0 .. numElem : r[e] \in 0 .. IndLen
  /\ \A e \in 0 .. numElem - 1 : r[e] <= r[e + 1]
  /\ \A e \in 0 .. numElem - 1 : \A q \in PointsOf(r, e) :
       r[q] \in 0 .. NumPoints - 1
SetMin(S) == CHOOSE m \in S : \A n \in S : m <= n
SetMax(S) == CHOOSE m \in S : \A n \in S : m >= n

\* Faulty variant: y sized by the minimum number of points per element.
MinMaxYByMin ==
  /\ pc = "minmax" /\ ValidAtPoints(rstr)
  /\ minPoints' = SetMin(ElemSizes(rstr))
  /\ maxPoints' = SetMax(ElemSizes(rstr))
  /\ errors' = IF minPoints' # 1 \/ maxPoints' # numElem
                 THEN errors \cup {<<"minmax", 0>>} ELSE errors
  /\ ySize' = minPoints'
  /\ i' = 0
  /\ pc' = "zero"
  /\ UNCHANGED <<numElem, j, k, offset, pointIndex, ind, indOverrun, rstr,
                 yOverrun, x>>

\* Lines 38-49: query min/max points, report a mismatch with 1 and
\* num_elem, create y of max_points entries, all 1.0.
MinMax ==
  /\ pc = "minmax" /\ ValidAtPoints(rstr)
  /\ minPoints' = SetMin(ElemSizes(rstr))
  /\ maxPoints' = SetMax(ElemSizes(rstr))
  /\ errors' = IF minPoints' # 1 \/ maxPoints' # numElem
                 THEN errors \cup {<<"minmax", 0>>} ELSE errors
  /\ ySize' = maxPoints'
  /\ i' = 0
  /\ pc' = "zero"
  /\ UNCHANGED <<numElem, j, k, offset, pointIndex, ind, indOverrun, rstr,
                 yOverrun, x>>

(* Lines 52-73, the loop over the elements i.                             *)
\* Faulty variant: x is not reset between elements.
ZeroXSkipped ==
  /\ pc = "zero" /\ i < numElem
  /\ x' = x
  /\ j' = 0
  /\ pc' = "apply"
  /\ UNCHANGED <<numElem, i, k, offset, pointIndex, ind, indOverrun, rstr,
                 minPoints, maxPoints, ySize, yOverrun, errors>>

\* CeedVectorSetValue(x, 0.0).
ZeroX ==
  /\ pc = "zero" /\ i < numElem
  /\ x' = [p \in DOMAIN x |-> 0]
  /\ j' = 0
  /\ pc' = "apply"
  /\ UNCHANGED <<numElem, i, k, offset, pointIndex, ind, indOverrun, rstr,
                 minPoints, maxPoints, ySize, yOverrun, errors>>

\* CeedElemRestrictionApplyAtPointsInElement(rstr, i, CEED_TRANSPOSE, y, x):
\* the j-th point of element i adds y[j] into x at its global point.
ApplyPoint ==
  /\ pc = "apply" /\ j < rstr[i + 1] - rstr[i]
  /\ x' = [x EXCEPT ![rstr[rstr[i] + j]] = @ + 1]
  /\ yOverrun' = (yOverrun \/ j >= ySize)
  /\ j' = j + 1
  /\ UNCHANGED <<numElem, pc, i, k, offset, pointIndex, ind, indOverrun,
                 rstr, minPoints, maxPoints, ySize, errors>>

ApplyDone ==
  /\ pc = "apply" /\ j = rstr[i + 1] - rstr[i]
  /\ j' = 0 /\ k' = 0
  /\ pointIndex' = numElem
  /\ pc' = "check"
  /\ UNCHANGED <<numElem, i, offset, ind, indOverrun, rstr, minPoints,
                 maxPoints, ySize, yOverrun, x, errors>>

\* One comparison of the check loop: x[point_index] against 1.0 when the
\* point belongs to element j = i, 0.0 otherwise.
CheckPoint ==
  /\ pc = "check" /\ j < numElem /\ k < PointsInElem(j)
  /\ errors' = IF x[pointIndex] # (IF i = j THEN 1 ELSE 0)
                 THEN errors \cup {<<"x", pointIndex>>} ELSE errors
  /\ pointIndex' = (pointIndex + 1) % NumPoints
  /\ k' = k + 1
  /\ UNCHANGED <<numElem, pc, i, j, offset, ind, indOverrun, rstr,
                 minPoints, maxPoints, ySize, yOverrun, x>>

CheckElemDone ==
  /\ pc = "check" /\ j < numElem /\ k = PointsInElem(j)
  /\ j' = j + 1 /\ k' = 0
  /\ UNCHANGED <<numElem, pc, i, offset, pointIndex, ind, indOverrun, rstr,
                 minPoints, maxPoints, ySize, yOverrun, x, errors>>

CheckDone ==
  /\ pc = "check" /\ j = numElem
  /\ i' = i + 1
  /\ pc' = "zero"
  /\ UNCHANGED <<numElem, j, k, offset, pointIndex, ind, indOverrun, rstr,
                 minPoints, maxPoints, ySize, yOverrun, x, errors>>

\* The loop ends; x, y and the restriction are destroyed (lines 76-80).
Finish ==
  /\ pc = "zero" /\ i = numElem
  /\ pc' = "done"
  /\ UNCHANGED <<numElem, i, j, k, offset, pointIndex, ind, indOverrun, rstr,
                 minPoints, maxPoints, ySize, yOverrun, x, errors>>

Next ==
  \/ BuildElem \/ BuildPoint \/ BuildElemDone \/ BuildEnd
  \/ MinMax
  \/ ZeroX \/ ApplyPoint \/ ApplyDone
  \/ CheckPoint \/ CheckElemDone \/ CheckDone \/ Finish

Spec == Init /\ [][Next]_vars

-----------------------------------------------------------------------------
(* Properties.                                                            *)

\* The construction of ind never writes past the array the test declares,
\* so the restriction is built from the intended offsets and indices.
IndInBounds == ~indOverrun

\* The ind the test builds is a map CeedElemRestrictionCreateAtPoints
\* accepts: offsets nondecreasing and within ind, and every point index
\* inside the L-vector of num_points points.
ValidIndexMap == pc = "minmax" => ValidAtPoints(rstr)

\* Every element's points fit in y, the buffer sized by the maximum number
\* of points per element: the transpose apply of one element never reads y
\* past its end.
YFitsElement == ~yOverrun

\* The test reports no error: min/max points are 1 and num_elem, and after
\* each element's transpose apply x is 1 exactly on that element's points.
NoErrorReported == errors = {}

=============================================================================
