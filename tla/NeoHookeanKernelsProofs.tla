------------------------ MODULE NeoHookeanKernelsProofs ------------------------
(***************************************************************************)
(* The kernel run's invariants, proved for every integer input the        *)
(* constants allow rather than for the sample gradients of                *)
(* MCNeoHookeanKernels.  Each kernel's output stays what it computed from *)
(* the unchanged inputs (KernelInv), so every property reduces to an       *)
(* algebraic identity of NeoHookeanProofs or of this module.               *)
(***************************************************************************)
EXTENDS NeoHookeanKernels, NeoHookeanProofs, TLAPS

\* The last kernel that returned.
PcValues == {"start", "residual", "jacobian", "energy", "diagnostic"}

\* grad_u as the residual and energy kernels read it from ug and dXdx.
GradU == ApplyDXdx(dXdx, ReadGradient(ug))

\* The linearised first Piola-Kirchhoff stress deltaP of ElasFSJacobian_NH
\* at the stored grad_u g.
DeltaP(g) ==
  LET dg == ApplyDXdx(dXdx, ReadGradient(deltaug))
      F == DeformationGradient(g)
      dE2 == VoigtUnpack(DeltaEworkTwice(dg, F))
      dS == DeltaSScaled(Lambda, Mu, LogJ, CinvScaled(g), dE2)
  IN  DeltaFirstPiolaKirchhoff(dg, Scale(2 * DetC(g), StressScaled(g)), F, dS)

\* The inductive invariant: the inputs are integer arrays that no kernel
\* changes, and each output, once written, is what its kernel computes
\* from them (the Jacobian from the grad_u the residual stored).
KernelInv ==
  /\ ug \in Mat3 /\ deltaug \in Mat3 /\ dXdx \in Mat3 /\ gradu \in Mat3
  /\ pc \in PcValues
  /\ pc # "start" =>
       /\ gradu = GradU
       /\ dvdX = ApplyDXdxTranspose(dXdx,
                   FirstPiolaKirchhoff(DeformationGradient(gradu), StressScaled(gradu)),
                   WdetJ)
  /\ pc \in {"jacobian", "energy", "diagnostic"} =>
       deltadvdX = ApplyDXdxTranspose(dXdx, DeltaP(gradu), WdetJ)
  /\ pc \in {"energy", "diagnostic"} =>
       energy = EnergyTwice(Lambda, Mu, LogJ, GradU, WdetJ)
  /\ pc = "diagnostic" => diagnostic = Diagnostic(Lambda, Mu, LogJ, GradU)
-----------------------------------------------------------------------------
\* A rational of two integers.
RatT == [num : Int, den : Int]

\* The Rat operations of the kernels' context keep numerator and
\* denominator integers (a zero denominator included).
LEMMA RatClosed ==
  ASSUME NEW x \in RatT, NEW y \in RatT, NEW n \in Int
  PROVE  /\ RatAdd(x, y) \in RatT /\ RatSub(x, y) \in RatT
         /\ RatMul(x, y) \in RatT /\ RatDiv(x, y) \in RatT
         /\ RatInt(n) \in RatT
BY DEF RatT, RatAdd, RatSub, RatMul, RatDiv, RatInt, Rat

\* The Lame parameters of an integer E and a rational nu are rationals.
LEMMA LameType ==
  Lame.lambda \in RatT /\ Lame.mu \in RatT
<1> DEFINE TwoMu == RatDiv(RatInt(E), RatAdd(RatInt(1), Nu))
           Kbulk == RatDiv(RatInt(E), RatMul(RatInt(3), RatSub(RatInt(1), RatMul(RatInt(2), Nu))))
<1>1. RatInt(E) \in RatT /\ RatInt(1) \in RatT /\ RatInt(2) \in RatT
      /\ RatInt(3) \in RatT /\ Nu \in RatT
  BY ParametersAssumption, RatClosed DEF RatT
<1>2. TwoMu \in RatT
  BY <1>1, RatClosed
<1>3. Kbulk \in RatT
  BY <1>1, RatClosed
<1>4. RatDiv(TwoMu, RatInt(2)) \in RatT
  BY <1>1, <1>2, RatClosed
<1>5. RatDiv(RatSub(RatMul(RatInt(3), Kbulk), TwoMu), RatInt(3)) \in RatT
  BY <1>1, <1>2, <1>3, RatClosed
<1>. QED  BY <1>4, <1>5 DEF Lame, LameParameters

\* The scaled Lame parameters are integers: the Rat operations multiply
\* integers, and the division by the gcd is taken only when it is positive.
LEMMA LameScaledType ==
  Lambda \in Int /\ Mu \in Int
<1> DEFINE l == Lame.lambda.num * Lame.mu.den
           m == Lame.mu.num * Lame.lambda.den
<1>1. l \in Int /\ m \in Int
  BY LameType DEF RatT
\* The gcd is named without unfolding its recursion.
<1>2. \E d : LameScaled = IF d \in Nat \ {0} THEN <<l \div d, m \div d>> ELSE <<l, m>>
  BY Zenon DEF LameScaled
<1>3. PICK d : LameScaled = IF d \in Nat \ {0} THEN <<l \div d, m \div d>> ELSE <<l, m>>
  BY <1>2
<1>. QED  BY <1>1, <1>3 DEF Lambda, Mu

\* The gradient the kernels compute from integer arrays is an integer array.
LEMMA ApplyDXdxType ==
  ASSUME NEW D \in Mat3, NEW U \in Mat3
  PROVE  ApplyDXdx(D, ReadGradient(U)) \in Mat3
BY DEF ApplyDXdx, ReadGradient, Sum3, Mat3, Idx3

\* The initial state satisfies the invariant: nothing has been written.
LEMMA InitKernelInv ==
  Init => KernelInv
BY InputsAssumption DEF Init, KernelInv, PcValues, Zero3, Mat3, Idx3

\* Each kernel keeps the invariant.
LEMMA NextKernelInv ==
  KernelInv /\ [Next]_vars => KernelInv'
<1> SUFFICES ASSUME KernelInv, [Next]_vars PROVE KernelInv'
  OBVIOUS
<1>1. GradU \in Mat3
  BY ApplyDXdxType DEF KernelInv, GradU
<1>2. CASE ElasFSResidual_NH
  BY <1>1, <1>2 DEF ElasFSResidual_NH, KernelInv, PcValues, GradU
<1>3. CASE ElasFSJacobian_NH
  BY <1>3 DEF ElasFSJacobian_NH, KernelInv, PcValues, GradU, DeltaP
<1>4. CASE ElasFSEnergy_NH
  BY <1>4 DEF ElasFSEnergy_NH, KernelInv, PcValues, GradU, DeltaP
<1>5. CASE ElasFSDiagnostic_NH
  BY <1>5 DEF ElasFSDiagnostic_NH, KernelInv, PcValues, GradU, DeltaP
<1>6. CASE UNCHANGED vars
  BY <1>6 DEF vars, KernelInv, PcValues, GradU, DeltaP
<1>. QED  BY <1>2, <1>3, <1>4, <1>5, <1>6 DEF Next

\* Every reachable state satisfies the invariant.
THEOREM KernelInvHolds ==
  Spec => []KernelInv
BY InitKernelInv, NextKernelInv, PTL DEF Spec
-----------------------------------------------------------------------------
\* det(F^T F) = det(F)^2 for F with entries a .. r, the products of F^T F
\* written as MatMul forms them and the determinant as Det3 expands it.
GramIdentity(a, b, c, d, e, f, p, q, r) ==
  (a * a + d * d + p * p) * ((b * b + e * e + q * q) * (c * c + f * f + r * r) - (b * c + e * f + q * r) * (c * b + f * e + r * q))
    - (a * b + d * e + p * q) * ((b * a + e * d + q * p) * (c * c + f * f + r * r) - (b * c + e * f + q * r) * (c * a + f * d + r * p))
    + (a * c + d * f + p * r) * ((b * a + e * d + q * p) * (c * b + f * e + r * q) - (b * b + e * e + q * q) * (c * a + f * d + r * p))
    = (a * e * r + b * f * p + c * d * q - c * e * p - a * f * q - b * d * r) * (a * e * r + b * f * p + c * d * q - c * e * p - a * f * q - b * d * r)

LEMMA GramPolynomial ==
  \A a, b, c, d, e, f, p, q, r \in Int : GramIdentity(a, b, c, d, e, f, p, q, r)
<1>1. SUFFICES ASSUME NEW a \in Int, NEW b \in Int, NEW c \in Int, NEW d \in Int,
                      NEW e \in Int, NEW f \in Int, NEW p \in Int, NEW q \in Int,
                      NEW r \in Int
               PROVE  GramIdentity(a, b, c, d, e, f, p, q, r)
  OBVIOUS
<1>. QED  BY DEF GramIdentity

\* The cofactor determinant of F^T F is the square of the determinant of F.
LEMMA GramDeterminant ==
  ASSUME NEW F \in Mat3
  PROVE  Det3(MatMul(Transpose(F), F)) = Det(F) * Det(F)
<1>1. /\ F[0][0] \in Int /\ F[0][1] \in Int /\ F[0][2] \in Int
      /\ F[1][0] \in Int /\ F[1][1] \in Int /\ F[1][2] \in Int
      /\ F[2][0] \in Int /\ F[2][1] \in Int /\ F[2][2] \in Int
  BY EntriesInt
<1>2. GramIdentity(F[0][0], F[0][1], F[0][2], F[1][0], F[1][1], F[1][2],
                   F[2][0], F[2][1], F[2][2])
  BY <1>1, GramPolynomial, Zenon
<1>3. /\ MatMul(Transpose(F), F)[0][0] = F[0][0] * F[0][0] + F[1][0] * F[1][0] + F[2][0] * F[2][0]
      /\ MatMul(Transpose(F), F)[0][1] = F[0][0] * F[0][1] + F[1][0] * F[1][1] + F[2][0] * F[2][1]
      /\ MatMul(Transpose(F), F)[0][2] = F[0][0] * F[0][2] + F[1][0] * F[1][2] + F[2][0] * F[2][2]
      /\ MatMul(Transpose(F), F)[1][0] = F[0][1] * F[0][0] + F[1][1] * F[1][0] + F[2][1] * F[2][0]
      /\ MatMul(Transpose(F), F)[1][1] = F[0][1] * F[0][1] + F[1][1] * F[1][1] + F[2][1] * F[2][1]
      /\ MatMul(Transpose(F), F)[1][2] = F[0][1] * F[0][2] + F[1][1] * F[1][2] + F[2][1] * F[2][2]
      /\ MatMul(Transpose(F), F)[2][0] = F[0][2] * F[0][0] + F[1][2] * F[1][0] + F[2][2] * F[2][0]
      /\ MatMul(Transpose(F), F)[2][1] = F[0][2] * F[0][1] + F[1][2] * F[1][1] + F[2][2] * F[2][1]
      /\ MatMul(Transpose(F), F)[2][2] = F[0][2] * F[0][2] + F[1][2] * F[1][2] + F[2][2] * F[2][2]
  BY DEF MatMul, Transpose, Sum3, Idx3
<1>. QED  BY <1>2, <1>3 DEF GramIdentity, Det3, Det

\* Once the residual kernel has stored grad_u, commonFS's inverse is exact
\* at it: C (detC C_inv) = detC I, and the code's detC = (Jm1 + 1)^2 is
\* det(F^T F), for every integer ug, dXdx and every E, nu, logJ.
THEOREM KernelInverseIsExact ==
  Spec => []InverseIsExact
<1>1. KernelInv => InverseIsExact
  <2> SUFFICES ASSUME KernelInv, pc # "start"
               PROVE  /\ MatMul(CauchyGreen(gradu), CinvScaled(gradu))
                           = Scale(DetC(gradu), Identity3)
                      /\ DetC(gradu) = Det3(MatMul(Transpose(DeformationGradient(gradu)),
                                                   DeformationGradient(gradu)))
    BY DEF InverseIsExact, CauchyGreen
  <2>1. gradu \in Mat3
    BY DEF KernelInv
  <2>2. \A j, k \in Idx3 :
          Sum3(LAMBDA m : CauchyGreen(gradu)[j][m]
                          * VoigtUnpack(MatinvSymWork(CauchyGreen(gradu)))[m][k])
            = DetC(gradu) * Delta(j, k)
    BY <2>1, InverseIsExactEverywhere
  <2>3. MatMul(CauchyGreen(gradu), CinvScaled(gradu)) = Scale(DetC(gradu), Identity3)
    BY <2>2 DEF MatMul, Scale, Identity3, CinvScaled, CauchyGreen
  <2>4. DeformationGradient(gradu) \in Mat3
    BY <2>1 DEF DeformationGradient, Delta, Mat3, Idx3
  <2>5. Det3(MatMul(Transpose(DeformationGradient(gradu)), DeformationGradient(gradu)))
          = Det(DeformationGradient(gradu)) * Det(DeformationGradient(gradu))
    BY <2>4, GramDeterminant
  <2>6. computeJM1(gradu) + 1 = Det(DeformationGradient(gradu))
    BY <2>1, JM1IsDeterminant
  <2>. QED  BY <2>3, <2>5, <2>6 DEF DetC
<1>. QED  BY <1>1, KernelInvHolds, PTL

\* Once the residual kernel has run, the stress commonFS assembled at the
\* stored grad_u is mu detC I + (lambda logJ - mu) detC C_inv, with the
\* kernels' own lambda and mu, for every integer input.
THEOREM KernelStressIsNeoHookean ==
  Spec => []StressIsNeoHookean
<1>1. KernelInv => StressIsNeoHookean
  <2> SUFFICES ASSUME KernelInv, pc # "start"
               PROVE  StressScaled(gradu) =
                        [j \in Idx3 |-> [k \in Idx3 |->
                           Mu * DetC(gradu) * Delta(j, k) +
                           (Lambda * LogJ - Mu) * CinvScaled(gradu)[j][k]]]
    BY DEF StressIsNeoHookean
  <2>1. gradu \in Mat3 /\ Lambda \in Int /\ Mu \in Int /\ LogJ \in Int
    BY LameScaledType, ParametersAssumption DEF KernelInv
  <2>2. \A j, k \in Idx3 :
          VoigtUnpack(SworkScaled(Lambda, Mu, LogJ, gradu))[j][k]
            = Mu * DetC(gradu) * Delta(j, k)
              + (Lambda * LogJ - Mu) * VoigtUnpack(MatinvSymWork(CauchyGreen(gradu)))[j][k]
    BY <2>1, StressIsNeoHookeanEverywhere
  <2>. QED  BY <2>2 DEF StressScaled, CinvScaled, CauchyGreen, VoigtUnpack
<1>. QED  BY <1>1, KernelInvHolds, PTL

-----------------------------------------------------------------------------
\* Typing of the arrays the kernels build from integer arrays.
LEMMA DeformationGradientType ==
  ASSUME NEW g \in Mat3
  PROVE  DeformationGradient(g) \in Mat3
BY DEF DeformationGradient, Delta, Mat3, Idx3

LEMMA ProductType ==
  ASSUME NEW A \in Mat3, NEW B \in Mat3, NEW c \in Int
  PROVE  FirstPiolaKirchhoff(A, B) \in Mat3 /\ Scale(c, A) \in Mat3
BY DEF FirstPiolaKirchhoff, Scale, Sum3, Mat3, Idx3

LEMMA CinvScaledType ==
  ASSUME NEW g \in Mat3
  PROVE  CinvScaled(g) \in Mat3
BY CauchyGreenSymmetric, MatinvSymType DEF CinvScaled, CauchyGreen

LEMMA StressScaledType ==
  ASSUME NEW g \in Mat3
  PROVE  StressScaled(g) \in Mat3
<1>1. Lambda \in Int /\ Mu \in Int /\ LogJ \in Int /\ DetC(g) \in Int
  BY LameScaledType, ParametersAssumption, JM1Type
<1>2. VoigtUnpack(MatinvSymWork(CauchyGreen(g))) \in Mat3
  BY CauchyGreenSymmetric, MatinvSymType
<1>3. \A j, k \in Idx3 :
        VoigtUnpack(SworkScaled(Lambda, Mu, LogJ, g))[j][k]
          = Mu * DetC(g) * Delta(j, k)
            + (Lambda * LogJ - Mu) * VoigtUnpack(MatinvSymWork(CauchyGreen(g)))[j][k]
  BY <1>1, StressIsNeoHookeanEverywhere
<1>4. \A j, k \in Idx3 : VoigtUnpack(SworkScaled(Lambda, Mu, LogJ, g))[j][k] \in Int
  BY <1>1, <1>2, <1>3 DEF Delta, Mat3
<1>. QED  BY <1>4 DEF StressScaled, VoigtUnpack, Mat3

LEMMA DeltaEType ==
  ASSUME NEW dg \in Mat3, NEW F \in Mat3
  PROVE  VoigtUnpack(DeltaEworkTwice(dg, F)) \in Mat3
<1>1. \A m \in Voigt : indj[m] \in Idx3 /\ indk[m] \in Idx3
  BY DEF indj, indk, Voigt, Idx3
<1>2. \A a, b \in Idx3 : dg[a][b] \in Int /\ F[a][b] \in Int
  BY DEF Mat3
<1>3. \A m \in Voigt : DeltaEworkTwice(dg, F)[m] \in Int
  <2> SUFFICES ASSUME NEW m \in Voigt PROVE DeltaEworkTwice(dg, F)[m] \in Int
    OBVIOUS
  <2> DEFINE j == indj[m]
             k == indk[m]
  <2>1. j \in Idx3 /\ k \in Idx3
    BY <1>1
  <2>2. /\ dg[0][j] \in Int /\ dg[1][j] \in Int /\ dg[2][j] \in Int
        /\ dg[0][k] \in Int /\ dg[1][k] \in Int /\ dg[2][k] \in Int
        /\ F[0][j] \in Int /\ F[1][j] \in Int /\ F[2][j] \in Int
        /\ F[0][k] \in Int /\ F[1][k] \in Int /\ F[2][k] \in Int
    BY <1>2, <2>1 DEF Idx3
  <2>3. DeltaEworkTwice(dg, F)[m]
          = (dg[0][j] * F[0][k] + F[0][j] * dg[0][k])
            + (dg[1][j] * F[1][k] + F[1][j] * dg[1][k])
            + (dg[2][j] * F[2][k] + F[2][j] * dg[2][k])
    BY DEF DeltaEworkTwice, Sum3
  <2>. QED  BY <2>2, <2>3
<1>. QED  BY <1>3 DEF VoigtUnpack, Mat3, Idx3, Voigt

LEMMA DeltaSType ==
  ASSUME NEW l \in Int, NEW u \in Int, NEW x \in Int, NEW B \in Mat3, NEW dE2 \in Mat3
  PROVE  DeltaSScaled(l, u, x, B, dE2) \in Mat3
<1> DEFINE contract == Sum3(LAMBDA j : Sum3(LAMBDA k : B[j][k] * dE2[j][k]))
           deltaECinv ==
             [j \in Idx3 |-> [k \in Idx3 |-> Sum3(LAMBDA m : dE2[j][m] * B[m][k])]]
           intermediate ==
             [j \in Idx3 |-> [k \in Idx3 |-> Sum3(LAMBDA m : B[j][m] * deltaECinv[m][k])]]
<1>1. contract \in Int
  BY DEF Sum3, Mat3, Idx3
<1>2. deltaECinv \in Mat3
  BY DEF Sum3, Mat3, Idx3
<1>3. intermediate \in Mat3
  BY <1>2 DEF Sum3, Mat3, Idx3
<1>4. \A c \in Int, N \in Mat3 :
        [j \in Idx3 |-> [k \in Idx3 |-> l * c * B[j][k] - 2 * (l * x - u) * N[j][k]]]
          \in Mat3
  BY DEF Mat3
<1>. QED  BY <1>1, <1>3, <1>4, Zenon DEF DeltaSScaled

LEMMA DeltaPType ==
  ASSUME NEW dg \in Mat3, NEW S \in Mat3, NEW F \in Mat3, NEW dS \in Mat3
  PROVE  DeltaFirstPiolaKirchhoff(dg, S, F, dS) \in Mat3
BY DEF DeltaFirstPiolaKirchhoff, Sum3, Mat3, Idx3

\* dvdX : v = wdetJ P : grad v over the 28 numbers as the code indexes
\* them: dXdx (d), P (p), the test function's reference gradient (u) and
\* wdetJ (w).
AdjointIdentity(d00, d01, d02, d10, d11, d12, d20, d21, d22, p00, p01, p02, p10, p11, p12,
    p20, p21, p22, u00, u01, u02, u10, u11, u12, u20, u21, u22, w) ==
  (((d00 * p00 * w + d01 * p01 * w + d02 * p02 * w) * u00 + (d00 * p10 * w +
  d01 * p11 * w + d02 * p12 * w) * u01 + (d00 * p20 * w + d01 * p21 * w + d02
  * p22 * w) * u02) + ((d10 * p00 * w + d11 * p01 * w + d12 * p02 * w) * u10 +
  (d10 * p10 * w + d11 * p11 * w + d12 * p12 * w) * u11 + (d10 * p20 * w + d11
  * p21 * w + d12 * p22 * w) * u12) + ((d20 * p00 * w + d21 * p01 * w + d22 *
  p02 * w) * u20 + (d20 * p10 * w + d21 * p11 * w + d22 * p12 * w) * u21 +
  (d20 * p20 * w + d21 * p21 * w + d22 * p22 * w) * u22))
  = w * ((p00 * (d00 * u00 + d10 * u10 + d20 * u20) + p01 * (d01 * u00 + d11 *
    u10 + d21 * u20) + p02 * (d02 * u00 + d12 * u10 + d22 * u20)) + (p10 *
    (d00 * u01 + d10 * u11 + d20 * u21) + p11 * (d01 * u01 + d11 * u11 + d21 *
    u21) + p12 * (d02 * u01 + d12 * u11 + d22 * u21)) + (p20 * (d00 * u02 +
    d10 * u12 + d20 * u22) + p21 * (d01 * u02 + d11 * u12 + d21 * u22) + p22 *
    (d02 * u02 + d12 * u12 + d22 * u22)))

LEMMA AdjointPolynomial ==
  \A d00, d01, d02, d10, d11, d12, d20, d21, d22, p00, p01, p02, p10, p11, p12,
    p20, p21, p22, u00, u01, u02, u10, u11, u12, u20, u21, u22, w \in Int :
    AdjointIdentity(d00, d01, d02, d10, d11, d12, d20, d21, d22, p00, p01, p02, p10, p11, p12,
    p20, p21, p22, u00, u01, u02, u10, u11, u12, u20, u21, u22, w)
<1>1. SUFFICES ASSUME NEW d00 \in Int, NEW d01 \in Int, NEW d02 \in Int, NEW
                      d10 \in Int, NEW d11 \in Int, NEW d12 \in Int, NEW d20
                      \in Int, NEW d21 \in Int, NEW d22 \in Int, NEW p00 \in
                      Int, NEW p01 \in Int, NEW p02 \in Int, NEW p10 \in Int,
                      NEW p11 \in Int, NEW p12 \in Int, NEW p20 \in Int, NEW
                      p21 \in Int, NEW p22 \in Int, NEW u00 \in Int, NEW u01
                      \in Int, NEW u02 \in Int, NEW u10 \in Int, NEW u11 \in
                      Int, NEW u12 \in Int, NEW u20 \in Int, NEW u21 \in Int,
                      NEW u22 \in Int, NEW w \in Int
               PROVE  AdjointIdentity(d00, d01, d02, d10, d11, d12, d20, d21, d22, p00, p01,
                      p02, p10, p11, p12, p20, p21, p22, u00, u01, u02, u10,
                      u11, u12, u20, u21, u22, w)
  OBVIOUS
<1>. QED  BY DEF AdjointIdentity

\* A reference gradient U in the layout of the kernels' out[0], vIn[k][j].
OutLayout(U) == [k \in Idx3 |-> [j \in Idx3 |-> U[k][j]]]

\* ApplyDXdxTranspose is the adjoint of reading a gradient through dXdx:
\* the dXdx P^T wdetJ the kernels write, contracted with a test function's
\* reference gradient, is wdetJ P contracted with its physical gradient.
LEMMA WeakFormAdjoint ==
  ASSUME NEW D \in Mat3, NEW P \in Mat3, NEW U \in Mat3, NEW w \in Int
  PROVE  Contract(ApplyDXdxTranspose(D, P, w), OutLayout(U))
           = w * Contract(P, ApplyDXdx(D, ReadGradient(U)))
<1>1. /\ D[0][0] \in Int /\ D[0][1] \in Int /\ D[0][2] \in Int
      /\ D[1][0] \in Int /\ D[1][1] \in Int /\ D[1][2] \in Int
      /\ D[2][0] \in Int /\ D[2][1] \in Int /\ D[2][2] \in Int
      /\ P[0][0] \in Int /\ P[0][1] \in Int /\ P[0][2] \in Int
      /\ P[1][0] \in Int /\ P[1][1] \in Int /\ P[1][2] \in Int
      /\ P[2][0] \in Int /\ P[2][1] \in Int /\ P[2][2] \in Int
      /\ U[0][0] \in Int /\ U[0][1] \in Int /\ U[0][2] \in Int
      /\ U[1][0] \in Int /\ U[1][1] \in Int /\ U[1][2] \in Int
      /\ U[2][0] \in Int /\ U[2][1] \in Int /\ U[2][2] \in Int
  BY EntriesInt
<1>2. AdjointIdentity(D[0][0], D[0][1], D[0][2], D[1][0], D[1][1], D[1][2],
                      D[2][0], D[2][1], D[2][2], P[0][0], P[0][1], P[0][2],
                      P[1][0], P[1][1], P[1][2], P[2][0], P[2][1], P[2][2],
                      U[0][0], U[0][1], U[0][2], U[1][0], U[1][1], U[1][2],
                      U[2][0], U[2][1], U[2][2], w)
  BY <1>1, AdjointPolynomial, Zenon
<1>3. Contract(ApplyDXdxTranspose(D, P, w), OutLayout(U))
        = (((D[0][0] * P[0][0] * w + D[0][1] * P[0][1] * w + D[0][2] * P[0][2]
          * w) * U[0][0] + (D[0][0] * P[1][0] * w + D[0][1] * P[1][1] * w +
          D[0][2] * P[1][2] * w) * U[0][1] + (D[0][0] * P[2][0] * w + D[0][1]
          * P[2][1] * w + D[0][2] * P[2][2] * w) * U[0][2]) + ((D[1][0] *
          P[0][0] * w + D[1][1] * P[0][1] * w + D[1][2] * P[0][2] * w) *
          U[1][0] + (D[1][0] * P[1][0] * w + D[1][1] * P[1][1] * w + D[1][2] *
          P[1][2] * w) * U[1][1] + (D[1][0] * P[2][0] * w + D[1][1] * P[2][1]
          * w + D[1][2] * P[2][2] * w) * U[1][2]) + ((D[2][0] * P[0][0] * w +
          D[2][1] * P[0][1] * w + D[2][2] * P[0][2] * w) * U[2][0] + (D[2][0]
          * P[1][0] * w + D[2][1] * P[1][1] * w + D[2][2] * P[1][2] * w) *
          U[2][1] + (D[2][0] * P[2][0] * w + D[2][1] * P[2][1] * w + D[2][2] *
          P[2][2] * w) * U[2][2]))
  BY DEF Contract, ApplyDXdxTranspose, OutLayout, Sum3, Idx3
<1>4. w * Contract(P, ApplyDXdx(D, ReadGradient(U)))
        = w * ((P[0][0] * (D[0][0] * U[0][0] + D[1][0] * U[1][0] + D[2][0] *
          U[2][0]) + P[0][1] * (D[0][1] * U[0][0] + D[1][1] * U[1][0] +
          D[2][1] * U[2][0]) + P[0][2] * (D[0][2] * U[0][0] + D[1][2] *
          U[1][0] + D[2][2] * U[2][0])) + (P[1][0] * (D[0][0] * U[0][1] +
          D[1][0] * U[1][1] + D[2][0] * U[2][1]) + P[1][1] * (D[0][1] *
          U[0][1] + D[1][1] * U[1][1] + D[2][1] * U[2][1]) + P[1][2] *
          (D[0][2] * U[0][1] + D[1][2] * U[1][1] + D[2][2] * U[2][1])) +
          (P[2][0] * (D[0][0] * U[0][2] + D[1][0] * U[1][2] + D[2][0] *
          U[2][2]) + P[2][1] * (D[0][1] * U[0][2] + D[1][1] * U[1][2] +
          D[2][1] * U[2][2]) + P[2][2] * (D[0][2] * U[0][2] + D[1][2] *
          U[1][2] + D[2][2] * U[2][2])))
  BY DEF Contract, ApplyDXdx, ReadGradient, Sum3, Idx3
<1>. QED  BY <1>2, <1>3, <1>4 DEF AdjointIdentity

-----------------------------------------------------------------------------
\* Both kernels' outputs are weak forms at every reachable state, for every
\* integer input: the residual's dvdX and, once the Jacobian has run, its
\* deltadvdX, contracted with the test gradient deltaug, are wdetJ times P
\* and deltaP contracted with its physical gradient.
THEOREM KernelResidualIsWeakForm ==
  Spec => []ResidualIsWeakForm
<1>1. KernelInv => ResidualIsWeakForm
  <2> SUFFICES ASSUME KernelInv PROVE ResidualIsWeakForm
    OBVIOUS
  <2> DEFINE gv == ApplyDXdx(dXdx, ReadGradient(deltaug))
             P == FirstPiolaKirchhoff(DeformationGradient(gradu), StressScaled(gradu))
  <2>1. /\ gradu \in Mat3 /\ deltaug \in Mat3 /\ dXdx \in Mat3
        /\ WdetJ \in Int /\ Lambda \in Int /\ Mu \in Int /\ LogJ \in Int
    BY LameScaledType, ParametersAssumption DEF KernelInv
  <2>2. DeformationGradient(gradu) \in Mat3 /\ StressScaled(gradu) \in Mat3
        /\ CinvScaled(gradu) \in Mat3 /\ DetC(gradu) \in Int /\ gv \in Mat3
    BY <2>1, DeformationGradientType, StressScaledType, CinvScaledType, JM1Type,
       ApplyDXdxType
  <2>3. P \in Mat3
    BY <2>2, ProductType
  <2>4. DeltaP(gradu) \in Mat3
    <3>1. VoigtUnpack(DeltaEworkTwice(gv, DeformationGradient(gradu))) \in Mat3
      BY <2>2, DeltaEType
    <3>2. DeltaSScaled(Lambda, Mu, LogJ, CinvScaled(gradu),
                       VoigtUnpack(DeltaEworkTwice(gv, DeformationGradient(gradu))))
            \in Mat3
      BY <2>1, <2>2, <3>1, DeltaSType
    <3>3. Scale(2 * DetC(gradu), StressScaled(gradu)) \in Mat3
      BY <2>2, ProductType
    <3>. QED  BY <2>2, <3>2, <3>3, DeltaPType DEF DeltaP
  <2>5. pc # "start" =>
          Contract(dvdX, OutLayout(deltaug)) = WdetJ * Contract(P, gv)
    <3>1. Contract(ApplyDXdxTranspose(dXdx, P, WdetJ), OutLayout(deltaug))
            = WdetJ * Contract(P, gv)
      BY <2>1, <2>3, WeakFormAdjoint
    <3>. QED  BY <3>1 DEF KernelInv
  <2>6. pc = "jacobian" =>
          Contract(deltadvdX, OutLayout(deltaug)) = WdetJ * Contract(DeltaP(gradu), gv)
    <3>1. Contract(ApplyDXdxTranspose(dXdx, DeltaP(gradu), WdetJ), OutLayout(deltaug))
            = WdetJ * Contract(DeltaP(gradu), gv)
      BY <2>1, <2>4, WeakFormAdjoint
    <3>. QED  BY <3>1 DEF KernelInv
  <2>. QED  BY <2>5, <2>6 DEF ResidualIsWeakForm, DeltaP, OutLayout
<1>. QED  BY <1>1, KernelInvHolds, PTL

\* After the diagnostic kernel, its strain energy density times wdetJ is
\* the energy kernel's output: both kernels recompute grad_u from the same
\* ug and dXdx and evaluate the same formula.
THEOREM KernelDiagnosticMatchesEnergy ==
  Spec => []DiagnosticMatchesEnergy
<1>1. KernelInv => DiagnosticMatchesEnergy
  BY DEF KernelInv, DiagnosticMatchesEnergy, Diagnostic, EnergyTwice, Sum3
<1>. QED  BY <1>1, KernelInvHolds, PTL

\* The closed forms for a context with Young's modulus e and Poisson's
\* ratio n / d, written with the Rat operations of LameParameters.
LameClosedForm(e, nu) ==
  LET L == LameParameters(RatInt(e), nu)
      onePlus == RatAdd(RatInt(1), nu)
      oneMinus == RatSub(RatInt(1), RatMul(RatInt(2), nu))
      lhs == RatMul(RatMul(L.lambda, onePlus), oneMinus)
      rhs == RatMul(RatInt(e), nu)
      lhs2 == RatMul(RatMul(RatInt(2), L.mu), onePlus)
  IN  /\ lhs.num * rhs.den = rhs.num * lhs.den
      /\ lhs2.num = e * lhs2.den

\* For every integer E and every integer pair n / d, the Lame parameters
\* derived through TwoMu and Kbulk satisfy both closed forms.  Step <1>2
\* unfolds the Rat operations into their numerators and denominators
\* (no arithmetic, so Zenon); <1>3 and <1>4 are the resulting polynomial
\* identities over the integers (SMT).
LEMMA LamePolynomial ==
  \A e, n, d \in Int : LameClosedForm(e, [num |-> n, den |-> d])
<1>1. SUFFICES ASSUME NEW e \in Int, NEW n \in Int, NEW d \in Int
               PROVE  LameClosedForm(e, [num |-> n, den |-> d])
  OBVIOUS
<1> DEFINE nu == [num |-> n, den |-> d]
<1>2. /\ LameParameters(RatInt(e), nu).lambda = [num |-> (((3 * (e * (1 * (1 * (1 * d))))) * (1 * (1 * d + n * 1)) - (e * (1 * d)) * (1 * (1 * (3 * (1 * (1 * d) - (2 * n) * 1))))) * 1), den |-> (((1 * (1 * (3 * (1 * (1 * d) - (2 * n) * 1)))) * (1 * (1 * d + n * 1))) * 3)]
      /\ LameParameters(RatInt(e), nu).mu = [num |-> ((e * (1 * d)) * 1), den |-> ((1 * (1 * d + n * 1)) * 2)]
      /\ RatAdd(RatInt(1), nu) = [num |-> (1 * d + n * 1), den |-> (1 * d)]
      /\ RatSub(RatInt(1), RatMul(RatInt(2), nu)) = [num |-> (1 * (1 * d) - (2 * n) * 1), den |-> (1 * (1 * d))]
      /\ RatInt(e) = [num |-> e, den |-> 1]
  BY Zenon DEF LameParameters, RatAdd, RatSub, RatMul, RatDiv, RatInt, Rat
<1>3. (((((3 * (e * (1 * (1 * (1 * d))))) * (1 * (1 * d + n * 1)) - (e * (1 * d)) * (1 * (1 * (3 * (1 * (1 * d) - (2 * n) * 1))))) * 1) * (1 * d + n * 1)) * (1 * (1 * d) - (2 * n) * 1)) * d
        = (e * n) * (((((1 * (1 * (3 * (1 * (1 * d) - (2 * n) * 1)))) * (1 * (1 * d + n * 1))) * 3) * (1 * d)) * (1 * (1 * d)))
  OBVIOUS
<1>4. ((2 * ((e * (1 * d)) * 1)) * (1 * d + n * 1)) = e * ((1 * ((1 * (1 * d + n * 1)) * 2)) * (1 * d))
  OBVIOUS
<1>. QED  BY <1>2, <1>3, <1>4 DEF LameClosedForm, RatMul, RatInt, Rat

\* The Lame parameters the kernels derive through TwoMu and Kbulk satisfy
\* the closed forms lambda (1 + nu)(1 - 2 nu) = E nu and 2 mu (1 + nu) = E
\* as polynomial identities in E and the numerator and denominator of nu,
\* whatever they are (nu = 1/2 and a zero denominator included).
THEOREM KernelLameIsClosedForm ==
  Spec => []LameIsClosedForm
<1>1. PICK n, d \in Int : Nu = [num |-> n, den |-> d]
  BY ParametersAssumption
<1>2. LameClosedForm(E, [num |-> n, den |-> d])
  BY ParametersAssumption, LamePolynomial
<1>3. LameIsClosedForm
  BY <1>1, <1>2 DEF LameIsClosedForm, LameClosedForm, Lame
<1>. QED  BY <1>3, PTL

=============================================================================
