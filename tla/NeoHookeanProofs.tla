--------------------------- MODULE NeoHookeanProofs ---------------------------
(***************************************************************************)
(* The algebra the Neo-Hookean kernels rely on without computing it,      *)
(* proved for every integer gradient grad_u and every lambda, mu, logJ:    *)
(* computeJM1 is det F - 1, computeMatinvSym is the adjugate of a          *)
(* symmetric array, (Jm1 + 1)^2 is det C, so B / detC is C^-1, and the     *)
(* Voigt stress of commonFS is mu I + (lambda logJ - mu) C^-1 (times       *)
(* detC).  The kernel runs check the same facts on sample gradients.       *)
(***************************************************************************)
EXTENDS NeoHookean, TLAPS

\* An integer 3x3 array.
Mat3 == [Idx3 -> [Idx3 -> Int]]

\* The determinant by the rule of Sarrus.
Det(a) ==
  a[0][0] * a[1][1] * a[2][2] + a[0][1] * a[1][2] * a[2][0]
  + a[0][2] * a[1][0] * a[2][1] - a[0][2] * a[1][1] * a[2][0]
  - a[0][0] * a[1][2] * a[2][1] - a[0][1] * a[1][0] * a[2][2]

\* The entries of an integer 3x3 array are integers.
LEMMA EntriesInt ==
  ASSUME NEW a \in Mat3
  PROVE  /\ a[0][0] \in Int /\ a[0][1] \in Int /\ a[0][2] \in Int
         /\ a[1][0] \in Int /\ a[1][1] \in Int /\ a[1][2] \in Int
         /\ a[2][0] \in Int /\ a[2][1] \in Int /\ a[2][2] \in Int
BY DEF Mat3, Idx3

\* The entries of F = I + grad_u, one by one.
LEMMA DeformationGradientEntries ==
  ASSUME NEW g \in Mat3
  PROVE  /\ DeformationGradient(g)[0][0] = g[0][0] + 1
         /\ DeformationGradient(g)[0][1] = g[0][1]
         /\ DeformationGradient(g)[0][2] = g[0][2]
         /\ DeformationGradient(g)[1][0] = g[1][0]
         /\ DeformationGradient(g)[1][1] = g[1][1] + 1
         /\ DeformationGradient(g)[1][2] = g[1][2]
         /\ DeformationGradient(g)[2][0] = g[2][0]
         /\ DeformationGradient(g)[2][1] = g[2][1]
         /\ DeformationGradient(g)[2][2] = g[2][2] + 1
BY DEF DeformationGradient, Delta, Idx3, Mat3

\* computeJM1 as a polynomial of the nine entries of grad_u.
JM1Poly(a, b, c, d, e, f, p, q, r) ==
  a * (e * r - f * q) + b * (f * p - d * r) + c * (d * q - p * e)
  + a + e + r + a * e + a * r + e * r - b * d - c * p - f * q

LEMMA JM1PolyType ==
  \A a, b, c, d, e, f, p, q, r \in Int : JM1Poly(a, b, c, d, e, f, p, q, r) \in Int
BY DEF JM1Poly

\* The volume change and detC of an integer gradient are integers.
LEMMA JM1Type ==
  ASSUME NEW g \in Mat3
  PROVE  computeJM1(g) \in Int /\ DetC(g) \in Int
<1>1. /\ g[0][0] \in Int /\ g[0][1] \in Int /\ g[0][2] \in Int
      /\ g[1][0] \in Int /\ g[1][1] \in Int /\ g[1][2] \in Int
      /\ g[2][0] \in Int /\ g[2][1] \in Int /\ g[2][2] \in Int
  BY EntriesInt
<1>2. JM1Poly(g[0][0], g[0][1], g[0][2], g[1][0], g[1][1], g[1][2],
              g[2][0], g[2][1], g[2][2]) \in Int
  BY <1>1, JM1PolyType, Zenon
<1>3. computeJM1(g) \in Int
  BY <1>2 DEF computeJM1, JM1Poly
<1>. QED  BY <1>3 DEF DetC

\* computeJM1, the volume change the kernels take log1p of, is exactly
\* det(I + grad_u) - 1, expanded so that small gradients lose no digits.
THEOREM JM1IsDeterminant ==
  ASSUME NEW g \in Mat3
  PROVE  computeJM1(g) + 1 = Det(DeformationGradient(g))
<1>1. /\ DeformationGradient(g)[0][0] = g[0][0] + 1
      /\ DeformationGradient(g)[0][1] = g[0][1]
         /\ DeformationGradient(g)[0][2] = g[0][2]
         /\ DeformationGradient(g)[1][0] = g[1][0]
         /\ DeformationGradient(g)[1][1] = g[1][1] + 1
         /\ DeformationGradient(g)[1][2] = g[1][2]
         /\ DeformationGradient(g)[2][0] = g[2][0]
         /\ DeformationGradient(g)[2][1] = g[2][1]
         /\ DeformationGradient(g)[2][2] = g[2][2] + 1
  BY DeformationGradientEntries
<1>2. /\ g[0][0] \in Int /\ g[0][1] \in Int /\ g[0][2] \in Int
      /\ g[1][0] \in Int /\ g[1][1] \in Int /\ g[1][2] \in Int
      /\ g[2][0] \in Int /\ g[2][1] \in Int /\ g[2][2] \in Int
  BY EntriesInt
<1>3. PICK a, b, c, d, e, f, p, q, r \in Int :
        /\ a = g[0][0] /\ b = g[0][1] /\ c = g[0][2]
        /\ d = g[1][0] /\ e = g[1][1] /\ f = g[1][2]
        /\ p = g[2][0] /\ q = g[2][1] /\ r = g[2][2]
  BY <1>2
<1>4. a * (e * r - f * q) + b * (f * p - d * r) + c * (d * q - p * e)
      + a + e + r + a * e + a * r + e * r - b * d - c * p - f * q + 1
      = (a + 1) * (e + 1) * (r + 1) + b * f * p + c * d * q
        - c * (e + 1) * p - (a + 1) * f * q - b * d * (r + 1)
  BY SMT
<1>. QED  BY <1>1, <1>3, <1>4 DEF computeJM1, Det
-----------------------------------------------------------------------------
\* The unpacked numerators of an integer array are an integer array.
LEMMA MatinvSymType ==
  ASSUME NEW A \in Mat3
  PROVE  MatinvSymWork(A) \in [Voigt -> Int] /\ VoigtUnpack(MatinvSymWork(A)) \in Mat3
<1>1. /\ A[0][0] \in Int /\ A[0][1] \in Int /\ A[0][2] \in Int
      /\ A[1][0] \in Int /\ A[1][1] \in Int /\ A[1][2] \in Int
      /\ A[2][0] \in Int /\ A[2][1] \in Int /\ A[2][2] \in Int
  BY EntriesInt
<1>2. \A m \in Voigt : MatinvSymWork(A)[m] \in Int
  BY <1>1 DEF MatinvSymWork, computeMatinvSym, Voigt
<1>. QED  BY <1>2 DEF MatinvSymWork, VoigtUnpack, Mat3, Idx3, Voigt

\* A[j][k] = A[k][j]: the arrays computeMatinvSym is called on (C = I + 2E).
Symmetric(A) == \A j, k \in Idx3 : A[j][k] = A[k][j]

\* The inverse numerators B the code unpacks, entry by entry: the adjugate
\* of A, written with the symmetric entries the code reads.
LEMMA MatinvSymEntries ==
  ASSUME NEW A \in Mat3
  PROVE  LET B == VoigtUnpack(MatinvSymWork(A)) IN
         /\ B[0][0] = A[1][1] * A[2][2] - A[1][2] * A[2][1]
         /\ B[1][1] = A[0][0] * A[2][2] - A[0][2] * A[2][0]
         /\ B[2][2] = A[0][0] * A[1][1] - A[0][1] * A[1][0]
         /\ B[1][2] = A[0][2] * A[1][0] - A[0][0] * A[1][2]
         /\ B[2][1] = A[0][2] * A[1][0] - A[0][0] * A[1][2]
         /\ B[0][2] = A[0][1] * A[1][2] - A[0][2] * A[1][1]
         /\ B[2][0] = A[0][1] * A[1][2] - A[0][2] * A[1][1]
         /\ B[0][1] = A[0][2] * A[2][1] - A[0][1] * A[2][2]
         /\ B[1][0] = A[0][2] * A[2][1] - A[0][1] * A[2][2]
BY DEF VoigtUnpack, MatinvSymWork, computeMatinvSym, Voigt, Idx3, Mat3

\* A B = det(A) I for the symmetric A with entries a, b, c, e, f, r and
\* the B of computeMatinvSym, row by row.
AdjugateIdentity(a, b, c, e, f, r) ==
  /\ a * (e * r - f * f) + b * (c * f - b * r) + c * (b * f - c * e) = (a * e * r + b * f * c + c * b * f - c * e * c - a * f * f - b * b * r) * 1
  /\ a * (c * f - b * r) + b * (a * r - c * c) + c * (c * b - a * f) = (a * e * r + b * f * c + c * b * f - c * e * c - a * f * f - b * b * r) * 0
  /\ a * (b * f - c * e) + b * (c * b - a * f) + c * (a * e - b * b) = (a * e * r + b * f * c + c * b * f - c * e * c - a * f * f - b * b * r) * 0
  /\ b * (e * r - f * f) + e * (c * f - b * r) + f * (b * f - c * e) = (a * e * r + b * f * c + c * b * f - c * e * c - a * f * f - b * b * r) * 0
  /\ b * (c * f - b * r) + e * (a * r - c * c) + f * (c * b - a * f) = (a * e * r + b * f * c + c * b * f - c * e * c - a * f * f - b * b * r) * 1
  /\ b * (b * f - c * e) + e * (c * b - a * f) + f * (a * e - b * b) = (a * e * r + b * f * c + c * b * f - c * e * c - a * f * f - b * b * r) * 0
  /\ c * (e * r - f * f) + f * (c * f - b * r) + r * (b * f - c * e) = (a * e * r + b * f * c + c * b * f - c * e * c - a * f * f - b * b * r) * 0
  /\ c * (c * f - b * r) + f * (a * r - c * c) + r * (c * b - a * f) = (a * e * r + b * f * c + c * b * f - c * e * c - a * f * f - b * b * r) * 0
  /\ c * (b * f - c * e) + f * (c * b - a * f) + r * (a * e - b * b) = (a * e * r + b * f * c + c * b * f - c * e * c - a * f * f - b * b * r) * 1

LEMMA AdjugatePolynomial ==
  \A a, b, c, e, f, r \in Int : AdjugateIdentity(a, b, c, e, f, r)
<1>1. SUFFICES ASSUME NEW a \in Int, NEW b \in Int, NEW c \in Int,
                      NEW e \in Int, NEW f \in Int, NEW r \in Int
               PROVE  AdjugateIdentity(a, b, c, e, f, r)
  OBVIOUS
<1>. QED  BY DEF AdjugateIdentity

\* computeMatinvSym returns the adjugate of a symmetric A: A B = det(A) I,
\* so that the code's Ainv = B / detA is the inverse whenever detA # 0.
THEOREM MatinvSymIsAdjugate ==
  ASSUME NEW A \in Mat3, Symmetric(A)
  PROVE  \A j, k \in Idx3 :
           Sum3(LAMBDA m : A[j][m] * VoigtUnpack(MatinvSymWork(A))[m][k])
             = Det(A) * Delta(j, k)
<1>1. A[1][0] = A[0][1] /\ A[2][0] = A[0][2] /\ A[2][1] = A[1][2]
  BY DEF Symmetric, Idx3
<1>2. PICK a, b, c, e, f, r \in Int :
        /\ a = A[0][0] /\ b = A[0][1] /\ c = A[0][2]
        /\ e = A[1][1] /\ f = A[1][2] /\ r = A[2][2]
  BY EntriesInt
<1>3. LET B == VoigtUnpack(MatinvSymWork(A)) IN
         /\ B[0][0] = e * r - f * f /\ B[1][1] = a * r - c * c /\ B[2][2] = a * e - b * b
         /\ B[1][2] = c * b - a * f /\ B[2][1] = c * b - a * f
         /\ B[0][2] = b * f - c * e /\ B[2][0] = b * f - c * e
         /\ B[0][1] = c * f - b * r /\ B[1][0] = c * f - b * r
  BY <1>1, <1>2, MatinvSymEntries
<1>4. AdjugateIdentity(a, b, c, e, f, r)
  BY <1>2, AdjugatePolynomial
<1>5. /\ A[0][0] * VoigtUnpack(MatinvSymWork(A))[0][0]
           + A[0][1] * VoigtUnpack(MatinvSymWork(A))[1][0] + A[0][2] * VoigtUnpack(MatinvSymWork(A))[2][0]
           = Det(A) * Delta(0, 0)
      /\ A[0][0] * VoigtUnpack(MatinvSymWork(A))[0][1]
           + A[0][1] * VoigtUnpack(MatinvSymWork(A))[1][1] + A[0][2] * VoigtUnpack(MatinvSymWork(A))[2][1]
           = Det(A) * Delta(0, 1)
      /\ A[0][0] * VoigtUnpack(MatinvSymWork(A))[0][2]
           + A[0][1] * VoigtUnpack(MatinvSymWork(A))[1][2] + A[0][2] * VoigtUnpack(MatinvSymWork(A))[2][2]
           = Det(A) * Delta(0, 2)
      /\ A[1][0] * VoigtUnpack(MatinvSymWork(A))[0][0]
           + A[1][1] * VoigtUnpack(MatinvSymWork(A))[1][0] + A[1][2] * VoigtUnpack(MatinvSymWork(A))[2][0]
           = Det(A) * Delta(1, 0)
      /\ A[1][0] * VoigtUnpack(MatinvSymWork(A))[0][1]
           + A[1][1] * VoigtUnpack(MatinvSymWork(A))[1][1] + A[1][2] * VoigtUnpack(MatinvSymWork(A))[2][1]
           = Det(A) * Delta(1, 1)
      /\ A[1][0] * VoigtUnpack(MatinvSymWork(A))[0][2]
           + A[1][1] * VoigtUnpack(MatinvSymWork(A))[1][2] + A[1][2] * VoigtUnpack(MatinvSymWork(A))[2][2]
           = Det(A) * Delta(1, 2)
      /\ A[2][0] * VoigtUnpack(MatinvSymWork(A))[0][0]
           + A[2][1] * VoigtUnpack(MatinvSymWork(A))[1][0] + A[2][2] * VoigtUnpack(MatinvSymWork(A))[2][0]
           = Det(A) * Delta(2, 0)
      /\ A[2][0] * VoigtUnpack(MatinvSymWork(A))[0][1]
           + A[2][1] * VoigtUnpack(MatinvSymWork(A))[1][1] + A[2][2] * VoigtUnpack(MatinvSymWork(A))[2][1]
           = Det(A) * Delta(2, 1)
      /\ A[2][0] * VoigtUnpack(MatinvSymWork(A))[0][2]
           + A[2][1] * VoigtUnpack(MatinvSymWork(A))[1][2] + A[2][2] * VoigtUnpack(MatinvSymWork(A))[2][2]
           = Det(A) * Delta(2, 2)
  <2>1. A[0][0] * VoigtUnpack(MatinvSymWork(A))[0][0]
           + A[0][1] * VoigtUnpack(MatinvSymWork(A))[1][0]
           + A[0][2] * VoigtUnpack(MatinvSymWork(A))[2][0]
           = Det(A) * Delta(0, 0)
    BY <1>1, <1>2, <1>3, <1>4 DEF AdjugateIdentity, Delta, Det
  <2>2. A[0][0] * VoigtUnpack(MatinvSymWork(A))[0][1]
           + A[0][1] * VoigtUnpack(MatinvSymWork(A))[1][1]
           + A[0][2] * VoigtUnpack(MatinvSymWork(A))[2][1]
           = Det(A) * Delta(0, 1)
    BY <1>1, <1>2, <1>3, <1>4 DEF AdjugateIdentity, Delta, Det
  <2>3. A[0][0] * VoigtUnpack(MatinvSymWork(A))[0][2]
           + A[0][1] * VoigtUnpack(MatinvSymWork(A))[1][2]
           + A[0][2] * VoigtUnpack(MatinvSymWork(A))[2][2]
           = Det(A) * Delta(0, 2)
    BY <1>1, <1>2, <1>3, <1>4 DEF AdjugateIdentity, Delta, Det
  <2>4. A[1][0] * VoigtUnpack(MatinvSymWork(A))[0][0]
           + A[1][1] * VoigtUnpack(MatinvSymWork(A))[1][0]
           + A[1][2] * VoigtUnpack(MatinvSymWork(A))[2][0]
           = Det(A) * Delta(1, 0)
    BY <1>1, <1>2, <1>3, <1>4 DEF AdjugateIdentity, Delta, Det
  <2>5. A[1][0] * VoigtUnpack(MatinvSymWork(A))[0][1]
           + A[1][1] * VoigtUnpack(MatinvSymWork(A))[1][1]
           + A[1][2] * VoigtUnpack(MatinvSymWork(A))[2][1]
           = Det(A) * Delta(1, 1)
    BY <1>1, <1>2, <1>3, <1>4 DEF AdjugateIdentity, Delta, Det
  <2>6. A[1][0] * VoigtUnpack(MatinvSymWork(A))[0][2]
           + A[1][1] * VoigtUnpack(MatinvSymWork(A))[1][2]
           + A[1][2] * VoigtUnpack(MatinvSymWork(A))[2][2]
           = Det(A) * Delta(1, 2)
    BY <1>1, <1>2, <1>3, <1>4 DEF AdjugateIdentity, Delta, Det
  <2>7. A[2][0] * VoigtUnpack(MatinvSymWork(A))[0][0]
           + A[2][1] * VoigtUnpack(MatinvSymWork(A))[1][0]
           + A[2][2] * VoigtUnpack(MatinvSymWork(A))[2][0]
           = Det(A) * Delta(2, 0)
    BY <1>1, <1>2, <1>3, <1>4 DEF AdjugateIdentity, Delta, Det
  <2>8. A[2][0] * VoigtUnpack(MatinvSymWork(A))[0][1]
           + A[2][1] * VoigtUnpack(MatinvSymWork(A))[1][1]
           + A[2][2] * VoigtUnpack(MatinvSymWork(A))[2][1]
           = Det(A) * Delta(2, 1)
    BY <1>1, <1>2, <1>3, <1>4 DEF AdjugateIdentity, Delta, Det
  <2>9. A[2][0] * VoigtUnpack(MatinvSymWork(A))[0][2]
           + A[2][1] * VoigtUnpack(MatinvSymWork(A))[1][2]
           + A[2][2] * VoigtUnpack(MatinvSymWork(A))[2][2]
           = Det(A) * Delta(2, 2)
    BY <1>1, <1>2, <1>3, <1>4 DEF AdjugateIdentity, Delta, Det
  <2>. QED  BY <2>1, <2>2, <2>3, <2>4, <2>5, <2>6, <2>7, <2>8, <2>9
<1>6. SUFFICES ASSUME NEW j \in Idx3, NEW k \in Idx3
               PROVE  Sum3(LAMBDA m : A[j][m] * VoigtUnpack(MatinvSymWork(A))[m][k])
                        = Det(A) * Delta(j, k)
  OBVIOUS
<1>. QED  BY <1>5 DEF Sum3, Idx3

-----------------------------------------------------------------------------
\* The right Cauchy-Green tensor the kernels build from grad_u.
CauchyGreen(g) == RightCauchyGreen(VoigtUnpack(E2work(g)))

\* The work array E2 = 2E of commonFS, entry by entry, in Voigt order.
LEMMA E2workEntries ==
  ASSUME NEW g \in Mat3
  PROVE  /\ E2work(g)[0] = g[0][0] + g[0][0] + g[0][0] * g[0][0] + g[1][0] * g[1][0] + g[2][0] * g[2][0]
         /\ E2work(g)[1] = g[1][1] + g[1][1] + g[0][1] * g[0][1] + g[1][1] * g[1][1] + g[2][1] * g[2][1]
         /\ E2work(g)[2] = g[2][2] + g[2][2] + g[0][2] * g[0][2] + g[1][2] * g[1][2] + g[2][2] * g[2][2]
         /\ E2work(g)[3] = g[1][2] + g[2][1] + g[0][1] * g[0][2] + g[1][1] * g[1][2] + g[2][1] * g[2][2]
         /\ E2work(g)[4] = g[0][2] + g[2][0] + g[0][0] * g[0][2] + g[1][0] * g[1][2] + g[2][0] * g[2][2]
         /\ E2work(g)[5] = g[0][1] + g[1][0] + g[0][0] * g[0][1] + g[1][0] * g[1][1] + g[2][0] * g[2][1]
<1>1. /\ indj[0] = 0 /\ indj[1] = 1 /\ indj[2] = 2 /\ indj[3] = 1 /\ indj[4] = 0 /\ indj[5] = 0
      /\ indk[0] = 0 /\ indk[1] = 1 /\ indk[2] = 2 /\ indk[3] = 2 /\ indk[4] = 2 /\ indk[5] = 1
  BY DEF indj, indk, Voigt
<1>2. \A m \in Voigt :
        E2work(g)[m] = g[indj[m]][indk[m]] + g[indk[m]][indj[m]]
                       + (g[0][indj[m]] * g[0][indk[m]] + g[1][indj[m]] * g[1][indk[m]]
                          + g[2][indj[m]] * g[2][indk[m]])
  BY DEF E2work, Sum3
<1>. QED  BY <1>1, <1>2 DEF Voigt, Mat3, Idx3

\* E2 = 2E is an integer work array, and its unpacking an integer array.
LEMMA E2workType ==
  ASSUME NEW g \in Mat3
  PROVE  VoigtUnpack(E2work(g)) \in Mat3
<1>1. \A m \in Voigt : E2work(g)[m] \in Int
  <2>1. /\ g[0][0] \in Int /\ g[0][1] \in Int /\ g[0][2] \in Int
        /\ g[1][0] \in Int /\ g[1][1] \in Int /\ g[1][2] \in Int
        /\ g[2][0] \in Int /\ g[2][1] \in Int /\ g[2][2] \in Int
    BY EntriesInt
  <2>. QED  BY <2>1, E2workEntries DEF Voigt
<1>. QED  BY <1>1 DEF VoigtUnpack, Mat3, Idx3, Voigt

\* The unpacking table {{w0, w5, w4}, {w5, w1, w3}, {w4, w3, w2}}.
LEMMA VoigtUnpackEntries ==
  ASSUME NEW w
  PROVE  /\ VoigtUnpack(w)[0][0] = w[0]
         /\ VoigtUnpack(w)[0][1] = w[5]
         /\ VoigtUnpack(w)[0][2] = w[4]
         /\ VoigtUnpack(w)[1][0] = w[5]
         /\ VoigtUnpack(w)[1][1] = w[1]
         /\ VoigtUnpack(w)[1][2] = w[3]
         /\ VoigtUnpack(w)[2][0] = w[4]
         /\ VoigtUnpack(w)[2][1] = w[3]
         /\ VoigtUnpack(w)[2][2] = w[2]
BY DEF VoigtUnpack, Idx3

\* C = I + E2 read from the upper triangle of E2.
LEMMA RightCauchyGreenEntries ==
  ASSUME NEW E2 \in Mat3
  PROVE  /\ RightCauchyGreen(E2)[0][0] = 1 + E2[0][0]
         /\ RightCauchyGreen(E2)[0][1] = E2[0][1]
         /\ RightCauchyGreen(E2)[0][2] = E2[0][2]
         /\ RightCauchyGreen(E2)[1][0] = E2[0][1]
         /\ RightCauchyGreen(E2)[1][1] = 1 + E2[1][1]
         /\ RightCauchyGreen(E2)[1][2] = E2[1][2]
         /\ RightCauchyGreen(E2)[2][0] = E2[0][2]
         /\ RightCauchyGreen(E2)[2][1] = E2[1][2]
         /\ RightCauchyGreen(E2)[2][2] = 1 + E2[2][2]
BY DEF RightCauchyGreen, Delta, Idx3, Mat3

\* C = I + 2E read from the Voigt work array is I + G + G^T + G^T G in
\* every entry, the lower triangle included: indj, indk and the unpacking
\* table name the same pairs.
LEMMA CauchyGreenEntries ==
  ASSUME NEW g \in Mat3
  PROVE  /\ CauchyGreen(g)[0][0] = 1 + g[0][0] + g[0][0] + g[0][0] * g[0][0] + g[1][0] * g[1][0] + g[2][0] * g[2][0]
         /\ CauchyGreen(g)[0][1] = g[0][1] + g[1][0] + g[0][0] * g[0][1] + g[1][0] * g[1][1] + g[2][0] * g[2][1]
         /\ CauchyGreen(g)[0][2] = g[0][2] + g[2][0] + g[0][0] * g[0][2] + g[1][0] * g[1][2] + g[2][0] * g[2][2]
         /\ CauchyGreen(g)[1][0] = g[1][0] + g[0][1] + g[0][1] * g[0][0] + g[1][1] * g[1][0] + g[2][1] * g[2][0]
         /\ CauchyGreen(g)[1][1] = 1 + g[1][1] + g[1][1] + g[0][1] * g[0][1] + g[1][1] * g[1][1] + g[2][1] * g[2][1]
         /\ CauchyGreen(g)[1][2] = g[1][2] + g[2][1] + g[0][1] * g[0][2] + g[1][1] * g[1][2] + g[2][1] * g[2][2]
         /\ CauchyGreen(g)[2][0] = g[2][0] + g[0][2] + g[0][2] * g[0][0] + g[1][2] * g[1][0] + g[2][2] * g[2][0]
         /\ CauchyGreen(g)[2][1] = g[2][1] + g[1][2] + g[0][2] * g[0][1] + g[1][2] * g[1][1] + g[2][2] * g[2][1]
         /\ CauchyGreen(g)[2][2] = 1 + g[2][2] + g[2][2] + g[0][2] * g[0][2] + g[1][2] * g[1][2] + g[2][2] * g[2][2]
<1>1. /\ g[0][0] \in Int /\ g[0][1] \in Int /\ g[0][2] \in Int
      /\ g[1][0] \in Int /\ g[1][1] \in Int /\ g[1][2] \in Int
      /\ g[2][0] \in Int /\ g[2][1] \in Int /\ g[2][2] \in Int
  BY EntriesInt
<1>2. DEFINE E2 == VoigtUnpack(E2work(g))
<1>3. E2 \in Mat3
  BY E2workType
<1>4. /\ RightCauchyGreen(E2)[0][0] = 1 + E2[0][0]
      /\ RightCauchyGreen(E2)[0][1] = E2[0][1]
      /\ RightCauchyGreen(E2)[0][2] = E2[0][2]
      /\ RightCauchyGreen(E2)[1][0] = E2[0][1]
      /\ RightCauchyGreen(E2)[1][1] = 1 + E2[1][1]
      /\ RightCauchyGreen(E2)[1][2] = E2[1][2]
      /\ RightCauchyGreen(E2)[2][0] = E2[0][2]
      /\ RightCauchyGreen(E2)[2][1] = E2[1][2]
      /\ RightCauchyGreen(E2)[2][2] = 1 + E2[2][2]
  BY <1>3, RightCauchyGreenEntries
<1>5. /\ E2[0][0] = E2work(g)[0]
      /\ E2[0][1] = E2work(g)[5]
      /\ E2[0][2] = E2work(g)[4]
      /\ E2[1][0] = E2work(g)[5]
      /\ E2[1][1] = E2work(g)[1]
      /\ E2[1][2] = E2work(g)[3]
      /\ E2[2][0] = E2work(g)[4]
      /\ E2[2][1] = E2work(g)[3]
      /\ E2[2][2] = E2work(g)[2]
  BY VoigtUnpackEntries
<1>6. /\ E2work(g)[0] = g[0][0] + g[0][0] + g[0][0] * g[0][0] + g[1][0] * g[1][0] + g[2][0] * g[2][0]
      /\ E2work(g)[1] = g[1][1] + g[1][1] + g[0][1] * g[0][1] + g[1][1] * g[1][1] + g[2][1] * g[2][1]
      /\ E2work(g)[2] = g[2][2] + g[2][2] + g[0][2] * g[0][2] + g[1][2] * g[1][2] + g[2][2] * g[2][2]
      /\ E2work(g)[3] = g[1][2] + g[2][1] + g[0][1] * g[0][2] + g[1][1] * g[1][2] + g[2][1] * g[2][2]
      /\ E2work(g)[4] = g[0][2] + g[2][0] + g[0][0] * g[0][2] + g[1][0] * g[1][2] + g[2][0] * g[2][2]
      /\ E2work(g)[5] = g[0][1] + g[1][0] + g[0][0] * g[0][1] + g[1][0] * g[1][1] + g[2][0] * g[2][1]
  BY E2workEntries
<1>. QED  BY <1>1, <1>4, <1>5, <1>6 DEF CauchyGreen

\* det(F^T F) = det(F)^2 as a polynomial identity over the nine entries
\* of grad_u, with the entries of C and of det F written as the code
\* forms them.
DetCIdentity(a, b, c, d, e, f, p, q, r) ==
  (1 + a + a + a * a + d * d + p * p) * (1 + e + e + b * b + e * e + q * q) * (1 + r + r + c * c + f * f + r * r)
      + (b + d + a * b + d * e + p * q) * (f + q + b * c + e * f + q * r) * (p + c + c * a + f * d + r * p)
      + (c + p + a * c + d * f + p * r) * (d + b + b * a + e * d + q * p) * (q + f + c * b + f * e + r * q)
      - (c + p + a * c + d * f + p * r) * (1 + e + e + b * b + e * e + q * q) * (p + c + c * a + f * d + r * p)
      - (1 + a + a + a * a + d * d + p * p) * (f + q + b * c + e * f + q * r) * (q + f + c * b + f * e + r * q)
      - (b + d + a * b + d * e + p * q) * (d + b + b * a + e * d + q * p) * (1 + r + r + c * c + f * f + r * r)
    = (a * (e * r - f * q) + b * (f * p - d * r) + c * (d * q - p * e)
       + a + e + r + a * e + a * r + e * r - b * d - c * p - f * q + 1) * (a * (e * r - f * q) + b * (f * p - d * r) + c * (d * q - p * e)
       + a + e + r + a * e + a * r + e * r - b * d - c * p - f * q + 1)

LEMMA DetCPolynomial ==
  \A a, b, c, d, e, f, p, q, r \in Int : DetCIdentity(a, b, c, d, e, f, p, q, r)
<1>1. SUFFICES ASSUME NEW a \in Int, NEW b \in Int, NEW c \in Int, NEW d \in Int,
                      NEW e \in Int, NEW f \in Int, NEW p \in Int, NEW q \in Int,
                      NEW r \in Int
               PROVE  DetCIdentity(a, b, c, d, e, f, p, q, r)
  OBVIOUS
<1>. QED  BY DEF DetCIdentity

\* detC = (Jm1 + 1)^2 in the code is det C: det(F^T F) = det(F)^2, so the
\* code never computes det C and may take it from computeJM1.
THEOREM DetCIsDeterminant ==
  ASSUME NEW g \in Mat3
  PROVE  Det(CauchyGreen(g)) = DetC(g)
<1>1. CauchyGreen(g)[0][0] = 1 + g[0][0] + g[0][0] + g[0][0] * g[0][0] + g[1][0] * g[1][0] + g[2][0] * g[2][0]
        /\ CauchyGreen(g)[0][1] = g[0][1] + g[1][0] + g[0][0] * g[0][1] + g[1][0] * g[1][1] + g[2][0] * g[2][1]
        /\ CauchyGreen(g)[0][2] = g[0][2] + g[2][0] + g[0][0] * g[0][2] + g[1][0] * g[1][2] + g[2][0] * g[2][2]
        /\ CauchyGreen(g)[1][0] = g[1][0] + g[0][1] + g[0][1] * g[0][0] + g[1][1] * g[1][0] + g[2][1] * g[2][0]
        /\ CauchyGreen(g)[1][1] = 1 + g[1][1] + g[1][1] + g[0][1] * g[0][1] + g[1][1] * g[1][1] + g[2][1] * g[2][1]
        /\ CauchyGreen(g)[1][2] = g[1][2] + g[2][1] + g[0][1] * g[0][2] + g[1][1] * g[1][2] + g[2][1] * g[2][2]
        /\ CauchyGreen(g)[2][0] = g[2][0] + g[0][2] + g[0][2] * g[0][0] + g[1][2] * g[1][0] + g[2][2] * g[2][0]
        /\ CauchyGreen(g)[2][1] = g[2][1] + g[1][2] + g[0][2] * g[0][1] + g[1][2] * g[1][1] + g[2][2] * g[2][1]
        /\ CauchyGreen(g)[2][2] = 1 + g[2][2] + g[2][2] + g[0][2] * g[0][2] + g[1][2] * g[1][2] + g[2][2] * g[2][2]
  BY CauchyGreenEntries
<1>2. PICK a, b, c, d, e, f, p, q, r \in Int :
        /\ a = g[0][0] /\ b = g[0][1] /\ c = g[0][2]
        /\ d = g[1][0] /\ e = g[1][1] /\ f = g[1][2]
        /\ p = g[2][0] /\ q = g[2][1] /\ r = g[2][2]
  BY EntriesInt
<1>3. DetCIdentity(a, b, c, d, e, f, p, q, r)
  BY <1>2, DetCPolynomial
<1>. QED  BY <1>1, <1>2, <1>3 DEF DetCIdentity, Det, DetC, computeJM1

\* C = I + 2E is symmetric and integer.
LEMMA CauchyGreenSymmetric ==
  ASSUME NEW g \in Mat3
  PROVE  CauchyGreen(g) \in Mat3 /\ Symmetric(CauchyGreen(g))
<1>1. VoigtUnpack(E2work(g)) \in Mat3
  BY E2workType
<1>2. CauchyGreen(g) \in Mat3
  BY <1>1 DEF CauchyGreen, RightCauchyGreen, Delta, Mat3, Idx3
<1>3. /\ g[0][0] \in Int /\ g[0][1] \in Int /\ g[0][2] \in Int
      /\ g[1][0] \in Int /\ g[1][1] \in Int /\ g[1][2] \in Int
      /\ g[2][0] \in Int /\ g[2][1] \in Int /\ g[2][2] \in Int
  BY EntriesInt
<1>4. Symmetric(CauchyGreen(g))
  BY <1>3, CauchyGreenEntries DEF Symmetric, Idx3
<1>. QED  BY <1>2, <1>4

\* What commonFS relies on, for every gradient: C times the unpacked
\* numerators B of computeMatinvSym(C) is detC I with the code's
\* detC = (Jm1 + 1)^2, so Cinvwork = B / detC is C^-1 whenever J # 0.
THEOREM InverseIsExactEverywhere ==
  ASSUME NEW g \in Mat3
  PROVE  \A j, k \in Idx3 :
           Sum3(LAMBDA m : CauchyGreen(g)[j][m]
                           * VoigtUnpack(MatinvSymWork(CauchyGreen(g)))[m][k])
             = DetC(g) * Delta(j, k)
<1>1. CauchyGreen(g) \in Mat3 /\ Symmetric(CauchyGreen(g))
  BY CauchyGreenSymmetric
<1>2. \A j, k \in Idx3 :
        Sum3(LAMBDA m : CauchyGreen(g)[j][m]
                        * VoigtUnpack(MatinvSymWork(CauchyGreen(g)))[m][k])
          = Det(CauchyGreen(g)) * Delta(j, k)
  BY <1>1, MatinvSymIsAdjugate
<1>3. Det(CauchyGreen(g)) = DetC(g)
  BY DetCIsDeterminant
<1>. QED  BY <1>2, <1>3


\* The unpacked arrays are symmetric: the table names each pair twice.
LEMMA VoigtUnpackSymmetric ==
  ASSUME NEW w
  PROVE  \A j, k \in Idx3 : VoigtUnpack(w)[j][k] = VoigtUnpack(w)[k][j]
BY DEF VoigtUnpack, Idx3

\* E2 = C - I in every entry, the lower triangle included.
LEMMA E2IsCMinusIdentity ==
  ASSUME NEW g \in Mat3
  PROVE  \A j, k \in Idx3 :
           VoigtUnpack(E2work(g))[j][k] = CauchyGreen(g)[j][k] - Delta(j, k)
<1>1. VoigtUnpack(E2work(g)) \in Mat3
  BY E2workType
<1>2. \A j, k \in Idx3 :
        VoigtUnpack(E2work(g))[j][k] = VoigtUnpack(E2work(g))[k][j]
  BY VoigtUnpackSymmetric
<1>. QED  BY <1>1, <1>2 DEF CauchyGreen, RightCauchyGreen, Delta, Mat3, Idx3

\* The numerators multiply C from either side: B C = detC I as well.
LEMMA InverseOnTheLeft ==
  ASSUME NEW g \in Mat3
  PROVE  \A j, k \in Idx3 :
           Sum3(LAMBDA n : VoigtUnpack(MatinvSymWork(CauchyGreen(g)))[j][n]
                           * CauchyGreen(g)[n][k])
             = DetC(g) * Delta(j, k)
<1>1. SUFFICES ASSUME NEW j \in Idx3, NEW k \in Idx3
               PROVE  Sum3(LAMBDA n : VoigtUnpack(MatinvSymWork(CauchyGreen(g)))[j][n]
                                      * CauchyGreen(g)[n][k])
                        = DetC(g) * Delta(j, k)
  OBVIOUS
<1>2. CauchyGreen(g) \in Mat3 /\ Symmetric(CauchyGreen(g))
  BY CauchyGreenSymmetric
<1>3. \A a, b \in Idx3 :
        VoigtUnpack(MatinvSymWork(CauchyGreen(g)))[a][b]
          = VoigtUnpack(MatinvSymWork(CauchyGreen(g)))[b][a]
  BY VoigtUnpackSymmetric
<1>4. VoigtUnpack(MatinvSymWork(CauchyGreen(g))) \in Mat3
  BY <1>2, MatinvSymType
<1>5. Sum3(LAMBDA n : CauchyGreen(g)[k][n]
                     * VoigtUnpack(MatinvSymWork(CauchyGreen(g)))[n][j])
        = DetC(g) * Delta(k, j)
  BY InverseIsExactEverywhere
<1>. QED  BY <1>2, <1>3, <1>4, <1>5 DEF Sum3, Delta, Symmetric, Mat3, Idx3


\* Summing against the Kronecker delta picks one entry.
LEMMA SumDelta ==
  ASSUME NEW a \in Mat3, NEW j \in Idx3, NEW k \in Idx3
  PROVE  Sum3(LAMBDA n : a[j][n] * Delta(n, k)) = a[j][k]
BY DEF Sum3, Delta, Mat3, Idx3

\* The two rearrangements of the stress entry, over integers.
SumAlgebra(mu, b0, b1, b2, c0, c1, c2, d0, d1, d2) ==
  mu * b0 * (c0 - d0) + mu * b1 * (c1 - d1) + mu * b2 * (c2 - d2)
    = mu * ((b0 * c0 + b1 * c1 + b2 * c2) - (b0 * d0 + b1 * d1 + b2 * d2))

LEMMA SumAlgebraHolds ==
  \A mu, b0, b1, b2, c0, c1, c2, d0, d1, d2 \in Int :
    SumAlgebra(mu, b0, b1, b2, c0, c1, c2, d0, d1, d2)
BY DEF SumAlgebra

StressAlgebra(l, u, x, D, d, b) ==
  l * x * b + u * (D * d - b) = u * D * d + (l * x - u) * b

LEMMA StressAlgebraHolds ==
  \A l, u, x, D, d, b \in Int : StressAlgebra(l, u, x, D, d, b)
BY DEF StressAlgebra

\* One entry of the stress work array: detC Swork[m] is
\* lambda logJ B[m] + mu (detC delta - B), since C_inv E2 = I - C_inv.
LEMMA SworkEntry ==
  ASSUME NEW lambda \in Int, NEW mu \in Int, NEW logJ \in Int, NEW g \in Mat3,
         NEW m \in Voigt
  PROVE  SworkScaled(lambda, mu, logJ, g)[m]
           = lambda * logJ * MatinvSymWork(CauchyGreen(g))[m]
             + mu * (DetC(g) * Delta(indj[m], indk[m])
                     - VoigtUnpack(MatinvSymWork(CauchyGreen(g)))[indj[m]][indk[m]])
<1> DEFINE C == CauchyGreen(g)
           E2 == VoigtUnpack(E2work(g))
           B == MatinvSymWork(C)
           Binv == VoigtUnpack(B)
           j == indj[m]
           k == indk[m]
<1>1. j \in Idx3 /\ k \in Idx3
  BY DEF indj, indk, Voigt, Idx3
<1>2. SworkScaled(lambda, mu, logJ, g)[m]
        = lambda * logJ * B[m] + Sum3(LAMBDA n : mu * Binv[j][n] * E2[n][k])
  BY DEF SworkScaled, CauchyGreen
<1>3. C \in Mat3 /\ B \in [Voigt -> Int] /\ Binv \in Mat3 /\ E2 \in Mat3
  BY CauchyGreenSymmetric, MatinvSymType, E2workType
<1>4. \A n \in Idx3 : E2[n][k] = C[n][k] - Delta(n, k)
  BY <1>1, E2IsCMinusIdentity
<1>5. Sum3(LAMBDA n : Binv[j][n] * C[n][k]) = DetC(g) * Delta(j, k)
  BY <1>1, InverseOnTheLeft
<1>6. Sum3(LAMBDA n : Binv[j][n] * Delta(n, k)) = Binv[j][k]
  BY <1>1, <1>3, SumDelta
<1>7. /\ E2[0][k] = C[0][k] - Delta(0, k)
      /\ E2[1][k] = C[1][k] - Delta(1, k)
      /\ E2[2][k] = C[2][k] - Delta(2, k)
  BY <1>4 DEF Idx3
<1>8. /\ Binv[j][0] \in Int /\ Binv[j][1] \in Int /\ Binv[j][2] \in Int
      /\ C[0][k] \in Int /\ C[1][k] \in Int /\ C[2][k] \in Int
      /\ Delta(0, k) \in Int /\ Delta(1, k) \in Int /\ Delta(2, k) \in Int
  BY <1>1, <1>3 DEF Mat3, Idx3, Delta
<1>9. SumAlgebra(mu, Binv[j][0], Binv[j][1], Binv[j][2], C[0][k], C[1][k], C[2][k],
                 Delta(0, k), Delta(1, k), Delta(2, k))
  BY <1>8, SumAlgebraHolds, Zenon
<1>10. Sum3(LAMBDA n : mu * Binv[j][n] * E2[n][k])
        = mu * (Sum3(LAMBDA n : Binv[j][n] * C[n][k])
                - Sum3(LAMBDA n : Binv[j][n] * Delta(n, k)))
  BY <1>7, <1>9 DEF Sum3, SumAlgebra
<1>11. DetC(g) \in Int
  BY JM1Type
<1>. QED  BY <1>1, <1>2, <1>3, <1>5, <1>6, <1>10, <1>11 DEF Delta, Mat3, Idx3, Voigt

\* The stress commonFS assembles is the documented Neo-Hookean stress for
\* every gradient and every lambda, mu, logJ: detC S = mu detC I
\* + (lambda logJ - mu) B, i.e. S = mu I + (lambda logJ - mu) C_inv.
THEOREM StressIsNeoHookeanEverywhere ==
  ASSUME NEW lambda \in Int, NEW mu \in Int, NEW logJ \in Int, NEW g \in Mat3
  PROVE  \A j, k \in Idx3 :
           VoigtUnpack(SworkScaled(lambda, mu, logJ, g))[j][k]
             = mu * DetC(g) * Delta(j, k)
               + (lambda * logJ - mu) * VoigtUnpack(MatinvSymWork(CauchyGreen(g)))[j][k]
<1>1. SUFFICES ASSUME NEW j \in Idx3, NEW k \in Idx3
               PROVE  VoigtUnpack(SworkScaled(lambda, mu, logJ, g))[j][k]
                        = mu * DetC(g) * Delta(j, k)
                          + (lambda * logJ - mu)
                            * VoigtUnpack(MatinvSymWork(CauchyGreen(g)))[j][k]
  OBVIOUS
<1> DEFINE B == MatinvSymWork(CauchyGreen(g))
           Binv == VoigtUnpack(B)
           S == SworkScaled(lambda, mu, logJ, g)
           m == <<<<0, 5, 4>>, <<5, 1, 3>>, <<4, 3, 2>>>>[j + 1][k + 1]
<1>2. /\ m \in Voigt
      /\ Delta(indj[m], indk[m]) = Delta(j, k)
      /\ \/ indj[m] = j /\ indk[m] = k
         \/ indj[m] = k /\ indk[m] = j
  BY DEF indj, indk, Delta, Voigt, Idx3
<1>3. \A w : VoigtUnpack(w)[j][k] = w[m]
  BY DEF VoigtUnpack
<1>4. Binv[indj[m]][indk[m]] = Binv[j][k]
  <2>1. \A a, b \in Idx3 : Binv[a][b] = Binv[b][a]
    BY VoigtUnpackSymmetric
  <2>2. indj[m] \in Idx3 /\ indk[m] \in Idx3
    BY <1>2 DEF indj, indk, Voigt, Idx3
  <2>. QED  BY <1>2, <2>1, <2>2
<1>5. S[m] = lambda * logJ * B[m]
             + mu * (DetC(g) * Delta(indj[m], indk[m]) - Binv[indj[m]][indk[m]])
  BY <1>2, SworkEntry
<1>6. Binv \in Mat3 /\ B \in [Voigt -> Int] /\ DetC(g) \in Int
  BY CauchyGreenSymmetric, MatinvSymType, JM1Type
<1>7. B[m] = Binv[j][k] /\ Binv[j][k] \in Int /\ Delta(j, k) \in Int
  BY <1>3, <1>6 DEF Mat3, Delta
<1>8. StressAlgebra(lambda, mu, logJ, DetC(g), Delta(j, k), Binv[j][k])
  BY <1>6, <1>7, StressAlgebraHolds, Zenon
<1>. QED  BY <1>2, <1>3, <1>4, <1>5, <1>7, <1>8 DEF StressAlgebra
=============================================================================
