------------------------------ MODULE NeoHookean ------------------------------
(***************************************************************************)
(* The pointwise algebra of the finite-strain Neo-Hookean QFunctions      *)
(* (examples/solids/qfunctions/finite-strain-neo-hookean.h), one operator *)
(* per step of the code, over integer matrices.                           *)
(*                                                                         *)
(* A 3x3 array a[j][k] is a function [Idx3 -> [Idx3 -> Int]]; a Voigt     *)
(* work array of 6 is a function [Voigt -> Int].  Real divisions are kept *)
(* exact by carrying numerator and denominator: computeMatinvSym returns  *)
(* B with Ainv = B / detA, and the "/ 2." of deltaE is left out (the      *)
(* operator returns 2 deltaE).  log1p_series_shifted is not modelled: the *)
(* value logJ enters the stress as a parameter.                           *)
(***************************************************************************)
EXTENDS Integers

Idx3 == 0 .. 2
Voigt == 0 .. 5

\* a[0] + a[1] + a[2] for a term a(n).
Sum3(a(_)) == a(0) + a(1) + a(2)
Delta(j, k) == IF j = k THEN 1 ELSE 0
Identity3 == [j \in Idx3 |-> [k \in Idx3 |-> Delta(j, k)]]

\* const CeedInt indj[6] = {0, 1, 2, 1, 0, 0}, indk[6] = {0, 1, 2, 2, 2, 1}
indj == [m \in Voigt |-> <<0, 1, 2, 1, 0, 0>>[m + 1]]
indk == [m \in Voigt |-> <<0, 1, 2, 2, 2, 1>>[m + 1]]

\* The symmetric 3x3 array the code builds from a work array w:
\* {{w[0], w[5], w[4]}, {w[5], w[1], w[3]}, {w[4], w[3], w[2]}}.
VoigtUnpack(w) ==
  [j \in Idx3 |-> [k \in Idx3 |->
     w[<<<<0, 5, 4>>, <<5, 1, 3>>, <<4, 3, 2>>>>[j + 1][k + 1]]]]

\* computeJM1: det(I + grad_u) - 1, expanded.
computeJM1(g) ==
  g[0][0] * (g[1][1] * g[2][2] - g[1][2] * g[2][1]) +
  g[0][1] * (g[1][2] * g[2][0] - g[1][0] * g[2][2]) +
  g[0][2] * (g[1][0] * g[2][1] - g[2][0] * g[1][1]) +
  g[0][0] + g[1][1] + g[2][2] +
  g[0][0] * g[1][1] + g[0][0] * g[2][2] + g[1][1] * g[2][2] -
  g[0][1] * g[1][0] - g[0][2] * g[2][0] - g[1][2] * g[2][1]

\* Faulty variant: the sign of the (1,2) cofactor reversed.
computeMatinvSymSign(A) ==
  <<A[1][1] * A[2][2] - A[1][2] * A[2][1],
    A[0][0] * A[2][2] - A[0][2] * A[2][0],
    A[0][0] * A[1][1] - A[0][1] * A[1][0],
    A[0][0] * A[1][2] - A[0][2] * A[1][0],
    A[0][1] * A[1][2] - A[0][2] * A[1][1],
    A[0][2] * A[2][1] - A[0][1] * A[2][2]>>

\* computeMatinvSym: the numerators B of Ainv[m] = B[m] / detA.
computeMatinvSym(A) ==
  <<A[1][1] * A[2][2] - A[1][2] * A[2][1],
    A[0][0] * A[2][2] - A[0][2] * A[2][0],
    A[0][0] * A[1][1] - A[0][1] * A[1][0],
    A[0][2] * A[1][0] - A[0][0] * A[1][2],
    A[0][1] * A[1][2] - A[0][2] * A[1][1],
    A[0][2] * A[2][1] - A[0][1] * A[2][2]>>

\* The tuple above as a work array indexed from 0.
MatinvSymWork(A) == [m \in Voigt |-> computeMatinvSym(A)[m + 1]]

(* The Physics context of every kernel: E and nu, and the Lame          *)
(* parameters each kernel derives from them.                              *)
\* A rational as numerator and denominator; a denominator 0 is the result
\* of a division by zero.
Rat(n, d) == [num |-> n, den |-> d]
RatAdd(a, b) == Rat(a.num * b.den + b.num * a.den, a.den * b.den)
RatSub(a, b) == Rat(a.num * b.den - b.num * a.den, a.den * b.den)
RatMul(a, b) == Rat(a.num * b.num, a.den * b.den)
RatDiv(a, b) == Rat(a.num * b.den, a.den * b.num)
RatInt(n) == Rat(n, 1)

\* Faulty variant: lambda = (3 Kbulk - 2 TwoMu) / 3.
LameParametersTwoMu(E, nu) ==
  LET TwoMu == RatDiv(E, RatAdd(RatInt(1), nu))
      Kbulk == RatDiv(E, RatMul(RatInt(3), RatSub(RatInt(1), RatMul(RatInt(2), nu))))
  IN  [mu |-> RatDiv(TwoMu, RatInt(2)), Kbulk |-> Kbulk,
       lambda |-> RatDiv(RatSub(RatMul(RatInt(3), Kbulk), RatMul(RatInt(2), TwoMu)),
                         RatInt(3))]

\* TwoMu = E / (1 + nu), mu = TwoMu / 2, Kbulk = E / (3 * (1 - 2 * nu)),
\* lambda = (3 * Kbulk - TwoMu) / 3.
LameParameters(E, nu) ==
  LET TwoMu == RatDiv(E, RatAdd(RatInt(1), nu))
      Kbulk == RatDiv(E, RatMul(RatInt(3), RatSub(RatInt(1), RatMul(RatInt(2), nu))))
  IN  [mu |-> RatDiv(TwoMu, RatInt(2)), Kbulk |-> Kbulk,
       lambda |-> RatDiv(RatSub(RatMul(RatInt(3), Kbulk), TwoMu), RatInt(3))]

(* commonFS                                                               *)
\* E2work: 2E = grad_u + grad_u^T + grad_u^T grad_u, in Voigt order.
E2work(g) ==
  [m \in Voigt |->
     g[indj[m]][indk[m]] + g[indk[m]][indj[m]] +
     Sum3(LAMBDA n : g[n][indj[m]] * g[n][indk[m]])]

\* C = I + 2E, built from the upper triangle of E2.
RightCauchyGreen(E2) ==
  [j \in Idx3 |-> [k \in Idx3 |->
     Delta(j, k) + E2[IF j <= k THEN j ELSE k][IF j <= k THEN k ELSE j]]]

\* detC = (Jm1 + 1) * (Jm1 + 1).
DetC(g) == (computeJM1(g) + 1) * (computeJM1(g) + 1)

\* Faulty variant: the mu C_inv E2 product loops over n < 2.
SworkScaledShortLoop(lambda, mu, logJ, g) ==
  LET E2 == VoigtUnpack(E2work(g))
      B == MatinvSymWork(RightCauchyGreen(E2))
      Binv == VoigtUnpack(B)
  IN  [m \in Voigt |->
         lambda * logJ * B[m] +
         mu * Binv[indj[m]][0] * E2[0][indk[m]] +
         mu * Binv[indj[m]][1] * E2[1][indk[m]]]

\* detC * Swork[m]: Swork[m] = (lambda logJ) Cinvwork[m]
\*   + sum_n mu C_inv[indj[m]][n] E2[n][indk[m]], with Cinvwork = B / detC.
SworkScaled(lambda, mu, logJ, g) ==
  LET E2 == VoigtUnpack(E2work(g))
      B == MatinvSymWork(RightCauchyGreen(E2))
      Binv == VoigtUnpack(B)
  IN  [m \in Voigt |->
         lambda * logJ * B[m] +
         Sum3(LAMBDA n : mu * Binv[indj[m]][n] * E2[n][indk[m]])]

(* ElasFSResidual_NH, one quadrature point.                               *)
\* du[j][m] = ug[m][j][i]: the basis gives derivative-major gradients.
ReadGradient(ug) == [j \in Idx3 |-> [m \in Idx3 |-> ug[m][j]]]

\* grad_u[j][k] = sum_m dXdx[m][k] du[j][m].
ApplyDXdx(dXdx, du) ==
  [j \in Idx3 |-> [k \in Idx3 |-> Sum3(LAMBDA m : dXdx[m][k] * du[j][m])]]

\* F = I3 + grad_u.
DeformationGradient(g) ==
  [j \in Idx3 |-> [k \in Idx3 |-> g[j][k] + Delta(j, k)]]

\* P = F * S.
FirstPiolaKirchhoff(F, S) ==
  [j \in Idx3 |-> [k \in Idx3 |-> Sum3(LAMBDA m : F[j][m] * S[m][k])]]

\* Faulty variant: dXdx applied untransposed.
ApplyDXdxTransposeSwapped(dXdx, P, wdetJ) ==
  [k \in Idx3 |-> [j \in Idx3 |->
     Sum3(LAMBDA m : dXdx[m][k] * P[j][m] * wdetJ)]]

\* dvdX[k][j] = sum_m dXdx[k][m] P[j][m] wdetJ.
ApplyDXdxTranspose(dXdx, P, wdetJ) ==
  [k \in Idx3 |-> [j \in Idx3 |->
     Sum3(LAMBDA m : dXdx[k][m] * P[j][m] * wdetJ)]]

(* ElasFSJacobian_NH, one quadrature point.                               *)
\* Faulty variant: only graddeltau^T F, the symmetrising term dropped.
DeltaEworkTwiceHalf(dg, F) ==
  [m \in Voigt |->
     Sum3(LAMBDA n : 2 * dg[n][indj[m]] * F[n][indk[m]])]

\* 2 deltaEwork[m] = sum_n graddeltau[n][indj[m]] F[n][indk[m]]
\*                         + F[n][indj[m]] graddeltau[n][indk[m]].
DeltaEworkTwice(dg, F) ==
  [m \in Voigt |->
     Sum3(LAMBDA n : dg[n][indj[m]] * F[n][indk[m]] +
                     F[n][indj[m]] * dg[n][indk[m]])]

\* Faulty variant: the lambda C_inv : deltaE term dropped.
DeltaSScaledNoLambda(lambda, mu, logJ, Binv, dE2) ==
  LET deltaECinv ==
        [j \in Idx3 |-> [k \in Idx3 |-> Sum3(LAMBDA m : dE2[j][m] * Binv[m][k])]]
      intermediate ==
        [j \in Idx3 |-> [k \in Idx3 |->
           Sum3(LAMBDA m : Binv[j][m] * deltaECinv[m][k])]]
  IN  [j \in Idx3 |-> [k \in Idx3 |-> -2 * (lambda * logJ - mu) * intermediate[j][k]]]

\* 2 detC^2 deltaS, for Binv = detC C_inv and dE2 = 2 deltaE:
\* Cinv_contract_E = C_inv : deltaE, intermediate = C_inv deltaE C_inv,
\* deltaS = lambda Cinv_contract_E C_inv - 2 (lambda logJ - mu) intermediate.
DeltaSScaled(lambda, mu, logJ, Binv, dE2) ==
  LET contract == Sum3(LAMBDA j : Sum3(LAMBDA k : Binv[j][k] * dE2[j][k]))
      deltaECinv ==
        [j \in Idx3 |-> [k \in Idx3 |-> Sum3(LAMBDA m : dE2[j][m] * Binv[m][k])]]
      intermediate ==
        [j \in Idx3 |-> [k \in Idx3 |->
           Sum3(LAMBDA m : Binv[j][m] * deltaECinv[m][k])]]
  IN  [j \in Idx3 |-> [k \in Idx3 |->
         lambda * contract * Binv[j][k] -
         2 * (lambda * logJ - mu) * intermediate[j][k]]]

\* deltaP = graddeltau * S + F * deltaS.
DeltaFirstPiolaKirchhoff(dg, S, F, dS) ==
  [j \in Idx3 |-> [k \in Idx3 |->
     Sum3(LAMBDA m : dg[j][m] * S[m][k] + F[j][m] * dS[m][k])]]

(* ElasFSEnergy_NH and ElasFSDiagnostic_NH, one quadrature point.          *)
\* The trace of E2, E2[0][0] + E2[1][1] + E2[2][2].
Trace(a) == a[0][0] + a[1][1] + a[2][2]

\* Faulty variant: lambda logJ^2 without the / 2.
EnergyTwiceNoHalf(lambda, mu, logJ, g, wdetJ) ==
  LET E2 == VoigtUnpack(E2work(g))
  IN  (2 * lambda * logJ * logJ - 2 * mu * logJ + mu * Trace(E2)) * wdetJ

\* Twice energy[i] = (lambda logJ logJ / 2 - mu logJ
\*                    + mu (E2[0][0] + E2[1][1] + E2[2][2]) / 2) wdetJ.
EnergyTwice(lambda, mu, logJ, g, wdetJ) ==
  LET E2 == VoigtUnpack(E2work(g))
  IN  (lambda * logJ * logJ - 2 * mu * logJ + mu * Trace(E2)) * wdetJ

\* Faulty variant: the strain energy's mu tr(E2) term without the / 2.
DiagnosticNoHalf(lambda, mu, logJ, g) ==
  LET E2 == VoigtUnpack(E2work(g))
  IN  [pressure |-> -lambda * logJ, trace2 |-> Trace(E2),
       invariant4 |-> Sum3(LAMBDA j : Sum3(LAMBDA m : E2[j][m] * E2[m][j])),
       volume |-> computeJM1(g) + 1,
       energy2 |-> lambda * logJ * logJ - 2 * mu * logJ + 2 * mu * Trace(E2)]

\* diagnostic[3..7] (the displacement copy diagnostic[0..2] = u is left
\* out): pressure -lambda logJ, the trace invariant (E2[0][0] + E2[1][1] +
\* E2[2][2]) / 2 kept times 2, the second invariant sum E2[j][m] E2[m][j]
\* / 4 kept times 4, the volume ratio Jm1 + 1, and the strain energy kept
\* times 2.
Diagnostic(lambda, mu, logJ, g) ==
  LET E2 == VoigtUnpack(E2work(g))
  IN  [pressure |-> -lambda * logJ, trace2 |-> Trace(E2),
       invariant4 |-> Sum3(LAMBDA j : Sum3(LAMBDA m : E2[j][m] * E2[m][j])),
       volume |-> computeJM1(g) + 1,
       energy2 |-> lambda * logJ * logJ - 2 * mu * logJ + mu * Trace(E2)]

=============================================================================
