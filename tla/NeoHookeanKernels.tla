--------------------------- MODULE NeoHookeanKernels ---------------------------
(***************************************************************************)
(* The two QFunctions of the finite-strain Neo-Hookean solid at one        *)
(* quadrature point: ElasFSResidual_NH computes dvdX and stores grad_u in  *)
(* its second output, and ElasFSJacobian_NH reads that stored grad_u back  *)
(* (its in[2]) to apply the linearised operator to a direction deltaug.    *)
(*                                                                         *)
(* Values are exact integers: the stress is kept multiplied by detC and    *)
(* the Jacobian's output by 2 detC^2 (see NeoHookean), and logJ is the     *)
(* parameter LogJ.  Lambda and Mu are the Lame parameters the kernels       *)
(* derive from the context's E and nu, scaled to coprime integers: every   *)
(* output is linear in (lambda, mu) together, so the identities below     *)
(* hold for the scaled pair exactly when they hold for the real one.      *)
(*                                                                         *)
(* After the solve, the example evaluates the strain energy               *)
(* (ElasFSEnergy_NH) and the nodal diagnostics (ElasFSDiagnostic_NH) at   *)
(* the same state.                                                        *)
(***************************************************************************)
EXTENDS NeoHookean

CONSTANTS
  UgInputs,     \* candidate reference gradients ug of the state u
  DeltaInputs,  \* candidate reference gradients deltaug of the direction
  DXdxInputs,   \* candidate inverse element Jacobians dXdx (from q_data)
  WdetJ,        \* quadrature weight times det J (q_data[0])
  E,            \* the context's Young's modulus (an integer)
  Nu,           \* the context's Poisson's ratio (a Rat)
  LogJ

\* The inputs are arrays of (scaled) integers, as the kernels read them.
ASSUME InputsAssumption ==
  /\ UgInputs \subseteq [Idx3 -> [Idx3 -> Int]]
  /\ DeltaInputs \subseteq [Idx3 -> [Idx3 -> Int]]
  /\ DXdxInputs \subseteq [Idx3 -> [Idx3 -> Int]]

\* wdetJ, E and logJ are integers and nu a rational of two integers (its
\* denominator may be anything: the kernels never check it).
ASSUME ParametersAssumption ==
  /\ WdetJ \in Int /\ E \in Int /\ LogJ \in Int
  /\ Nu \in [num : Int, den : Int]

VARIABLES
  ug, deltaug, dXdx,  \* the kernels' inputs at the point
  gradu,              \* out[1] of the residual = in[2] of the Jacobian
  dvdX,               \* out[0] of the residual, times detC
  deltadvdX,          \* out[0] of the Jacobian, times 2 detC^2
  energy,             \* out[0] of the energy kernel, times 2
  diagnostic,         \* out[0][3..7] of the diagnostic kernel (see Diagnostic)
  status,             \* the last kernel's return code
  pc                  \* the last kernel that returned, or "start"

vars == <<ug, deltaug, dXdx, gradu, dvdX, deltadvdX, energy, diagnostic, status, pc>>

\* Euclid's algorithm on naturals, as a recursive function.
Gcd[a \in Nat, b \in Nat] == IF b = 0 THEN a ELSE Gcd[b, a % b]
Abs(n) == IF n < 0 THEN -n ELSE n

\* The Lame parameters of the context (the same lines in every kernel).
Lame == LameParameters(RatInt(E), Nu)
\* lambda : mu as coprime integers (lambda.num mu.den : mu.num lambda.den).
LameScaled ==
  LET l == Lame.lambda.num * Lame.mu.den
      m == Lame.mu.num * Lame.lambda.den
      d == Gcd[Abs(l), Abs(m)]
  \* d is a natural, 0 only when l = m = 0; the test says so, so that the
  \* pair is an integer pair without unfolding the recursion.
  IN  IF d \in Nat \ {0} THEN <<l \div d, m \div d>> ELSE <<l, m>>
Lambda == LameScaled[1]
Mu == LameScaled[2]

Zero3 == [j \in Idx3 |-> [k \in Idx3 |-> 0]]
Scale(c, a) == [j \in Idx3 |-> [k \in Idx3 |-> c * a[j][k]]]

\* The stress times detC, S = {{Swork[0], Swork[5], Swork[4]}, ...}.
StressScaled(g) == VoigtUnpack(SworkScaled(Lambda, Mu, LogJ, g))
\* detC * C_inv = the numerators of computeMatinvSym(C).
CinvScaled(g) == VoigtUnpack(MatinvSymWork(RightCauchyGreen(VoigtUnpack(E2work(g)))))

Init ==
  /\ ug \in UgInputs
  /\ deltaug \in DeltaInputs
  /\ dXdx \in DXdxInputs
  /\ gradu = Zero3
  /\ dvdX = Zero3
  /\ deltadvdX = Zero3
  /\ energy = 0
  /\ diagnostic = [pressure |-> 0, trace2 |-> 0, invariant4 |-> 0, volume |-> 0, energy2 |-> 0]
  /\ status = "CEED_ERROR_SUCCESS"
  /\ pc = "start"

\* ElasFSResidual_NH: grad_u from ug and dXdx (stored to out[1]),
\* F = I + grad_u, S from commonFS, P = F S, dvdX = dXdx P^T wdetJ.
ElasFSResidual_NH ==
  /\ pc = "start"
  /\ LET g == ApplyDXdx(dXdx, ReadGradient(ug))
     IN  /\ gradu' = g
         /\ dvdX' = ApplyDXdxTranspose(dXdx,
                      FirstPiolaKirchhoff(DeformationGradient(g), StressScaled(g)),
                      WdetJ)
  /\ status' = "CEED_ERROR_SUCCESS"
  /\ pc' = "residual"
  /\ UNCHANGED <<ug, deltaug, dXdx, deltadvdX, energy, diagnostic>>

\* ElasFSJacobian_NH: graddeltau from deltaug, F and commonFS from the
\* stored grad_u, deltaE, deltaS, deltaP = graddeltau S + F deltaS, and
\* deltadvdX = dXdx deltaP^T wdetJ.
ElasFSJacobian_NH ==
  /\ pc = "residual"
  /\ LET dg == ApplyDXdx(dXdx, ReadGradient(deltaug))
         F == DeformationGradient(gradu)
         detC == DetC(gradu)
         dE2 == VoigtUnpack(DeltaEworkTwice(dg, F))
         dS == DeltaSScaled(Lambda, Mu, LogJ, CinvScaled(gradu), dE2)
         dP == DeltaFirstPiolaKirchhoff(dg, Scale(2 * detC, StressScaled(gradu)), F, dS)
     IN  deltadvdX' = ApplyDXdxTranspose(dXdx, dP, WdetJ)
  /\ status' = "CEED_ERROR_SUCCESS"
  /\ pc' = "jacobian"
  /\ UNCHANGED <<ug, deltaug, dXdx, gradu, dvdX, energy, diagnostic>>

\* ElasFSEnergy_NH: grad_u from ug and dXdx, E2, logJ, and the energy
\* density times wdetJ.
ElasFSEnergy_NH ==
  /\ pc = "jacobian"
  /\ energy' = EnergyTwice(Lambda, Mu, LogJ, ApplyDXdx(dXdx, ReadGradient(ug)), WdetJ)
  /\ status' = "CEED_ERROR_SUCCESS"
  /\ pc' = "energy"
  /\ UNCHANGED <<ug, deltaug, dXdx, gradu, dvdX, deltadvdX, diagnostic>>

\* ElasFSDiagnostic_NH: grad_u from ug and dXdx, E2, and the pressure,
\* invariants, volume ratio and strain energy density (not weighted).
ElasFSDiagnostic_NH ==
  /\ pc = "energy"
  /\ diagnostic' = Diagnostic(Lambda, Mu, LogJ, ApplyDXdx(dXdx, ReadGradient(ug)))
  /\ status' = "CEED_ERROR_SUCCESS"
  /\ pc' = "diagnostic"
  /\ UNCHANGED <<ug, deltaug, dXdx, gradu, dvdX, deltadvdX, energy>>

Next == ElasFSResidual_NH \/ ElasFSJacobian_NH \/ ElasFSEnergy_NH \/ ElasFSDiagnostic_NH

Spec == Init /\ [][Next]_vars

-----------------------------------------------------------------------------
(* Properties, over exact integers.                                       *)

MatMul(a, b) == [j \in Idx3 |-> [k \in Idx3 |-> Sum3(LAMBDA m : a[j][m] * b[m][k])]]
Contract(a, b) == Sum3(LAMBDA j : Sum3(LAMBDA k : a[j][k] * b[j][k]))
Det3(a) ==
  a[0][0] * (a[1][1] * a[2][2] - a[1][2] * a[2][1]) -
  a[0][1] * (a[1][0] * a[2][2] - a[1][2] * a[2][0]) +
  a[0][2] * (a[1][0] * a[2][1] - a[1][1] * a[2][0])
Transpose(a) == [j \in Idx3 |-> [k \in Idx3 |-> a[k][j]]]
\* 12 p'(0) for a polynomial p of degree <= 4, from p(-2) .. p(2).
Stencil12(p(_)) == p(-2) - 8 * p(-1) + 8 * p(1) - p(2)
Shift(g, t, d) == [j \in Idx3 |-> [k \in Idx3 |-> g[j][k] + t * d[j][k]]]

\* The error design: a kernel signals a degenerate point (a singular
\* material Jacobian, J = det F <= 0, where C_inv divides by detC = J^2 and
\* logJ is undefined) with a non-zero return.  The residual kernel
\* returns CEED_ERROR_SUCCESS for every point.
DegenerateJacobianReported ==
  pc = "residual" /\ computeJM1(gradu) + 1 <= 0 => status # "CEED_ERROR_SUCCESS"

\* commonFS inverts C with detC = (Jm1 + 1)^2 instead of det(C), and the
\* Voigt adjugate of computeMatinvSym: C * (detC C_inv) = detC I must hold
\* exactly, with detC = det(F^T F) for F = I + grad_u.
InverseIsExact ==
  pc # "start" =>
    LET C == RightCauchyGreen(VoigtUnpack(E2work(gradu)))
    IN  /\ MatMul(C, CinvScaled(gradu)) = Scale(DetC(gradu), Identity3)
        /\ DetC(gradu) = Det3(MatMul(Transpose(DeformationGradient(gradu)),
                                      DeformationGradient(gradu)))

\* The S that commonFS assembles from lambda logJ C_inv + mu C_inv E2 in
\* Voigt order is the documented S = mu I + (lambda logJ - mu) C_inv.
StressIsNeoHookean ==
  pc # "start" =>
    StressScaled(gradu) =
      [j \in Idx3 |-> [k \in Idx3 |->
         Mu * DetC(gradu) * Delta(j, k) +
         (Lambda * LogJ - Mu) * CinvScaled(gradu)[j][k]]]

\* Both kernels' outputs are weak forms: for the test gradient v = deltaug
\* (same derivative-major layout), dvdX : v = wdetJ P : grad v and
\* deltadvdX : v = wdetJ deltaP : grad v, where grad v applies dXdx the way
\* the input side does.  A transposed dXdx or P breaks it.
ResidualIsWeakForm ==
  LET gv == ApplyDXdx(dXdx, ReadGradient(deltaug))
      vIn == [k \in Idx3 |-> [j \in Idx3 |-> deltaug[k][j]]]
      F == DeformationGradient(gradu)
      dE2 == VoigtUnpack(DeltaEworkTwice(gv, F))
      dP == DeltaFirstPiolaKirchhoff(gv, Scale(2 * DetC(gradu), StressScaled(gradu)), F,
              DeltaSScaled(Lambda, Mu, LogJ, CinvScaled(gradu), dE2))
  IN  /\ pc # "start" =>
           Contract(dvdX, vIn) =
             WdetJ * Contract(FirstPiolaKirchhoff(F, StressScaled(gradu)), gv)
      /\ pc = "jacobian" => Contract(deltadvdX, vIn) = WdetJ * Contract(dP, gv)

\* The Jacobian kernel's output is the derivative of the residual kernel's
\* output in the direction graddeltau, with logJ moving as dJ / J.  The
\* derivative is taken of the residual's own formula, P = F S with
\* S = lambda logJ C_inv + mu C_inv E2 and C_inv = B / detC (B the adjugate
\* numerators, detC = J^2), by the product and quotient rules; the
\* derivatives of E2, J and B come from the residual's operators at shifted
\* gradients (exact: they are polynomials of degree 2, 3 and 4).  The
\* Jacobian instead builds deltaS from deltaE, lambda C_inv : deltaE and
\* -2 C_inv deltaE C_inv, so a dropped term or a wrong sign there breaks it.
\* Every quantity below is multiplied by 12 and by the kernels' scalings.
TangentIsDerivative ==
  pc = "jacobian" =>
    LET dg == ApplyDXdx(dXdx, ReadGradient(deltaug))
        F == DeformationGradient(gradu)
        J == computeJM1(gradu) + 1
        detC == DetC(gradu)
        B == CinvScaled(gradu)
        E2At(t) == VoigtUnpack(E2work(Shift(gradu, t, dg)))
        \* 2 dE2, 12 dJ and 12 dB along dg.
        dE2 == [j \in Idx3 |-> [k \in Idx3 |-> E2At(1)[j][k] - E2At(-1)[j][k]]]
        dJ == Stencil12(LAMBDA t : computeJM1(Shift(gradu, t, dg)))
        dB == [j \in Idx3 |-> [k \in Idx3 |->
                Stencil12(LAMBDA t : CinvScaled(Shift(gradu, t, dg))[j][k])]]
        \* 12 detC^2 dC_inv = 12 (dB detC - B ddetC), ddetC = 2 J dJ.
        dCinv == [j \in Idx3 |-> [k \in Idx3 |-> dB[j][k] * detC - 2 * J * dJ * B[j][k]]]
        \* 24 detC^2 dS = 24 detC^2 (lambda (dJ / J) C_inv + lambda logJ dC_inv
        \*                 + mu (dC_inv E2 + C_inv dE2)).
        dS == [j \in Idx3 |-> [k \in Idx3 |->
                2 * Lambda * J * dJ * B[j][k] + 2 * Lambda * LogJ * dCinv[j][k] +
                2 * Mu * (MatMul(dCinv, E2At(0))[j][k] + 6 * detC * MatMul(B, dE2)[j][k])]]
        \* 24 detC^2 dP = 24 detC^2 (dg S + F dS), with S = StressScaled / detC.
        dP == [j \in Idx3 |-> [k \in Idx3 |->
                Sum3(LAMBDA m : 24 * detC * dg[j][m] * StressScaled(gradu)[m][k] +
                                F[j][m] * dS[m][k])]]
    IN  Scale(12, deltadvdX) = ApplyDXdxTranspose(dXdx, dP, WdetJ)

\* Once a kernel has evaluated, the lambda and mu it used are the textbook
\* Lame parameters of the context's E and nu, despite the kernels' detour
\* via TwoMu and the bulk modulus Kbulk:
\* lambda (1 + nu)(1 - 2 nu) = E nu and 2 mu (1 + nu) = E.
LameIsClosedForm ==
  pc # "start" =>
  LET l == Lame.lambda
      m == Lame.mu
      onePlus == RatAdd(RatInt(1), Nu)
      oneMinus == RatSub(RatInt(1), RatMul(RatInt(2), Nu))
      lhs == RatMul(RatMul(l, onePlus), oneMinus)
      rhs == RatMul(RatInt(E), Nu)
      lhs2 == RatMul(RatMul(RatInt(2), m), onePlus)
  IN  /\ lhs.num * rhs.den = rhs.num * lhs.den
      /\ lhs2.num = E * lhs2.den

\* The residual kernel is the gradient of the energy kernel: in the
\* direction deltaug, dvdX : v is the derivative of the energy density
\* times wdetJ, with logJ varying as log J (d logJ = dJ / J).  Both terms
\* are taken with the exact five-point stencil, the logJ one by varying
\* the energy kernel's logJ; times 144 detC to stay in integers.
EnergyIsPotential ==
  pc # "start" =>
    LET gv == ApplyDXdx(dXdx, ReadGradient(deltaug))
        vIn == [k \in Idx3 |-> [j \in Idx3 |-> deltaug[k][j]]]
        EnergyAt(t, L) ==
          EnergyTwice(Lambda, Mu, L, Shift(gradu, t, gv), WdetJ)
        J == computeJM1(gradu) + 1
        dJ12 == Stencil12(LAMBDA t : computeJM1(Shift(gradu, t, gv)))
        dL12 == Stencil12(LAMBDA l : EnergyAt(0, LogJ + l))
        dt12 == Stencil12(LAMBDA t : EnergyAt(t, LogJ))
    IN  288 * Contract(dvdX, vIn) = J * dL12 * dJ12 + 12 * J * J * dt12

\* The diagnostic kernel's strain energy density, weighted by wdetJ, is
\* the energy kernel's output at the same state: the two kernels each
\* carry their own copy of the formula and of the E2 computation.
DiagnosticMatchesEnergy ==
  pc = "diagnostic" => diagnostic.energy2 * WdetJ = energy

=============================================================================
