# TLA+ models of libCEED's kernels, gallery init and restriction test

This directory holds TLA+ models of the parts of this repository's code
that carry state, the TLC configurations that check them, and TLAPS
proofs: the outcome of every gallery QFunction creation, the matrix
algebra of the Neo-Hookean kernels for every gradient, and five of the
kernel run's invariants for every input.
`PROJECT.json` lists the components, runs, mutants, the source lines each
definition models (`map`), the hazards, the findings and the theorems.

## The system

The engine maps between a global L-vector and per-element E-vectors
(the element restriction) and invokes pointwise kernels (QFunctions) on the
values at quadrature points.

- **IndexMap / Restriction.** A CSR pair (`offsets`, `indices`): element
  `e` owns slots `offsets[e] .. offsets[e+1]-1`, and slot `s` reads or
  writes L-vector entry `indices[s]`. The transpose apply (Restrict^T)
  scatter-adds the E-vector into the L-vector. Indices repeat across
  elements. The library code, and with it any parallel backend, is not
  under `src/`. The only code here that uses a restriction is the test
  `src/tests/t234-elemrestriction.c`. It builds an at-points restriction,
  then zeroes x and applies one element's transpose at a time, one
  element after another.
- **KernelContract.** Gallery QFunctions are registered by name
  (`CeedQFunctionRegister_*`). Their init function checks the requested name
  and declares the fields with `CeedQFunctionAddInput/AddOutput`
  (`src/gallery/...`).
- **Kernels.** The finite-strain Neo-Hookean residual, Jacobian, energy
  and diagnostic kernels
  (`src/examples/solids/qfunctions/finite-strain-neo-hookean.h`). The
  residual stores `grad_u` in its second output, and the Jacobian reads it
  back as its third input. Each kernel computes the Lame parameters from
  E and nu, and log J with `log1p_series_shifted`. `t530-operator.h` holds two small kernels.
- **Pipeline compositor.** The sequence gather, basis, kernel,
  basis^T, scatter. It has no implementation under `src/`.

## Modules

| Module | Models | State and actions |
|---|---|---|
| `AtPointsTest` | every statement of t234, the per-element transpose apply included | loop counters, `ind` (the VLA), `rstr`, `x`, `ySize`, the errors printed; one action per loop body and loop exit |
| `NeoHookean` | `computeJM1`, `computeMatinvSym`, `commonFS`, the Lame parameters and the per-point steps of the four kernels, as operators on integer 3x3 arrays and exact rationals | none |
| `NeoHookeanKernels` | one quadrature point: `ElasFSResidual_NH`, then `ElasFSJacobian_NH` reading the stored `grad_u`, then `ElasFSEnergy_NH` and `ElasFSDiagnostic_NH` | inputs `ug`, `deltaug`, `dXdx`; outputs `gradu`, `dvdX`, `deltadvdX`, `energy`, `diagnostic`, `status` |
| `MCNeoHookeanKernels` | the input matrices, E and nu | constants only |
| `Log1pSeries` | one call of `log1p_series_shifted`: the range reduction and the series argument y | `x`, `reduced` (reduced x, multiple of log 2, y), `pc`; `Call` |
| `MCLog1pSeries` | the arguments J = n/16 and their reciprocals | constants only |
| `QFunctionInit` | the two gallery init functions, called by a program that creates QFunctions by name | `entry`, `requested`, `pc`/`k` (position in the init), `inputs`, `outputs`, `ret` per creation |
| `QFunctionInitProofs` | TLAPS proofs about `QFunctionInit` | none of its own |
| `NeoHookeanProofs` | TLAPS proofs of the identities `NeoHookean`'s operators satisfy for every integer gradient | none |
| `NeoHookeanKernelsProofs` | TLAPS proofs of the kernel run's invariants for every integer input | none of its own |

Abstractions, each chosen so that the properties can still tell right from
wrong:

- **Neo-Hookean numbers.** Real numbers become exact integers. A division
  is carried as numerator and denominator:
  - `Cinvwork = B / detC`;
  - S is kept times detC;
  - the Jacobian's output is kept times 2 detC^2.
- **log1p.** Inside the kernels, `log1p_series_shifted` is replaced by
  the parameter `logJ`. The identities hold for every value of `logJ`,
  except where the derivative of `logJ` is concerned, and that is checked
  against dJ/J. The helper itself is modelled in `Log1pSeries` over exact
  rationals. The comparisons with sqrt(2) are made on squares, and log(2)
  is kept as a symbolic coefficient. The series is an odd polynomial of
  y, so the model keeps y and not the polynomial, whose seventh powers
  would overflow TLC's integers.
- **Lame parameters.** They are computed from E and nu as rationals, as
  the kernels do. Every kernel identity is linear in (lambda, mu)
  together, so they are then scaled to coprime integers.
- **Library calls.** AddInput/AddOutput are library code and are modelled
  as append-or-fail. The library's DuplicateFieldName check never fires
  for the gallery's distinct names, so it is left out.

## Runs

| Run | Checks | Shows |
|---|---|---|
| `atpoints_test` | IndInBounds, ValidIndexMap, YFitsElement, NoErrorReported | t234 for 1..3 elements: `ind` stays inside its VLA, the map is valid, `y` is large enough, and no error is printed. |
| `neohookean_kernels` | InverseIsExact, StressIsNeoHookean, ResidualIsWeakForm, TangentIsDerivative, LameIsClosedForm, EnergyIsPotential, DiagnosticMatchesEnergy | Exact identities of the four kernels on 5 x 4 x 2 input combinations, with E = 12 and nu = 1/5. 200 states. |
| `neohookean_degenerate` | DegenerateJacobianReported (violation expected) | A point with det F = 0 is evaluated with `CEED_ERROR_SUCCESS` (see the findings below). |
| `log1p_series` | TypeOK, ReductionInAccurateRange, LogIsOdd | The range reduction on 106 arguments from J = -1/2 to 7/2. 210 states. |
| `qfunction_init` | TypeOK, InitOutcome | Two creations under right or wrong names, where any Add call may fail. 192 states. |
| `qfunction_partial_init` | NoPartiallyBuiltKernel (violation expected) | A failed second Add call leaves the first field declared. |

More on the kernel properties:

- **InverseIsExact.** `C * (detC C_inv) = detC I`, and `(Jm1+1)^2 =
  det(F^T F)`. The code never computes det C: it relies on this identity.
- **TangentIsDerivative.** The Jacobian's output `deltadvdX` is the
  derivative of the residual's output in the direction `graddeltau`,
  with d logJ = dJ / J. The expected derivative applies the product and
  quotient rules to the residual's own formula, S = lambda logJ C_inv +
  mu C_inv E2 with C_inv = B / detC. It takes the derivatives of E2, J and
  the adjugate B from the residual's operators at shifted gradients. A
  five-point stencil gives these exactly, because they are polynomials of
  degree 2, 3 and 4. The Jacobian instead builds deltaS from deltaE, the
  term lambda (C_inv : deltaE) C_inv and -2 C_inv deltaE C_inv, so a
  dropped term or a wrong sign there breaks the property.
- **LameIsClosedForm.** lambda (1+nu)(1-2nu) = E nu and 2 mu (1+nu) = E,
  for the lambda and mu the kernels compute through TwoMu and Kbulk.
  At nu = 1/2 both sides are 0, so this property says nothing about the
  division by zero there.
- **EnergyIsPotential.** The residual is the derivative of the energy
  kernel's density, with d logJ = dJ / J:
  288 (dvdX : v) = J dPhi_L dJ + 12 J^2 dPhi_v. Each derivative is taken
  with the five-point stencil:
  - dPhi_v is the derivative of twice the energy in the direction v, at
    fixed logJ;
  - dPhi_L is its derivative in logJ;
  - dJ is the derivative of J in the direction v.

  A dropped 1/2 in the energy formula breaks it.
- **DiagnosticMatchesEnergy.** The diagnostic kernel's strain energy
  (diagnostic[7]) times wdetJ equals the energy kernel's output. The two
  copies of the formula are written separately.
- **ReductionInAccurateRange.** For sqrt(2)/4 < J < 2 sqrt(2), the
  comment's claimed range, the reduced J' lies in [sqrt(2)/2, sqrt(2)],
  J = J' 2^k for the k log(2) the code adds, and |y| <= 0.172. In that
  range the series' truncation error is below 1e-7.
- **LogIsOdd.** The results at J and 1/J negate: opposite reduction
  steps and opposite y. This ties the two branches together.
- **ResidualIsWeakForm.** `dvdX : v = w P : grad v` for the test gradient
  `v`, and the same for `deltadvdX`. A transposed index in the
  derivative-major output layout breaks it.

Bounds, and why they suffice:

- **t234** is run with 1–3 elements, which is every size for which the
  test's VLA fits. The elements own n(n+1)/2 points in total, but the VLA
  leaves room for only 2n after the n+1 offsets. With 4 elements
  `IndInBounds` therefore fails (the hazard at t234:11).
- **The log1p arguments** are a 1/16 grid over both reduction branches
  and both ends of the documented range, plus J <= 0 and every reciprocal
  16/n that `LogIsOdd` pairs them with.
- **The kernel inputs** are dense matrices that are not symmetric, with
  entries in -1..1. They include the zero gradient and a singular F. Each
  property is a polynomial identity, and a wrong polynomial is nonzero at
  a generic point. The mutants show that these inputs catch a sign error,
  an off-by-one loop, a transposition and a dropped term. The stencils
  evaluate the operators at up to twice the direction, and every value
  stays within TLC's integers.

Each property of a passing run has a mutant in `PROJECT.json`: a faulty
variant of one mapped definition, which TLC finds violating the property.

## Fairness

No module has fairness: every run checks safety properties only.
`AtPointsTest`, `NeoHookeanKernels` and
`QFunctionInit` model programs that terminate, so their configurations
disable the deadlock check.

## Proofs (TLAPS)

### `QFunctionInitProofs`

These proofs hold for every number of creations (`NumCreations`, a
positive natural, the module's only ASSUME) and every set of requested
names. Any Add call may fail.

- **`TypeCorrect: Spec => []TypeOK`.** The caller's cursor `cur` stays
  among the creations, and the Add cursor `k` stays at most one past the
  entry's field list. This needs the guard `cur < NumCreations` of
  `NextCreation`; its mutant without the guard breaks `TypeOK`.
- **`InitOutcomeHolds: Spec => []InitOutcome`.** Every returned init is one
  of three outcomes:
  - a wrong name, with nothing declared;
  - a failed Add, after the name matched;
  - a success, with exactly the entry's inputs and outputs in call order.

  `InitOutcome` alone is not inductive: it says nothing about the creation
  in progress. The inductive invariant `IInv` adds:
  - creations before `cur` have succeeded and are complete;
  - creations after `cur` are untouched;
  - inside the current init, after `k - 1` successful Add calls, the
    declared inputs and outputs are the first `k - 1` calls of the entry,
    split by direction.

  TLC checked `IInv` before it was proved. The key lemma,
  `InCallOrderStep`, says one more Add call extends exactly one of the
  two lists.

"In call order" is stated as `InCallOrder`: there is a strictly
increasing numbering of the list onto the calls of that direction. TLC
checked that this is equivalent to filtering the call list with
`SelectSeq`, which the provers cannot expand. For the same reason, the
gallery is looked up with CHOOSE over the set of registered entries,
rather than built with `@@`.

### `NeoHookeanProofs`

These results hold for every integer gradient `grad_u` and every integer
lambda, mu and logJ. The code never checks these facts at run time; the
kernel runs check them only on five sample gradients.

- **`JM1IsDeterminant`.** `computeJM1(g) + 1 = det(I + g)`.
- **`MatinvSymIsAdjugate`.** For a symmetric A, A times the unpacked
  numerators of `computeMatinvSym(A)` is det(A) I. The code reads only
  the upper triangle of A, so symmetry is needed. It holds because C is
  symmetric (`CauchyGreenSymmetric`).
- **`DetCIsDeterminant`.** det C, for the C that `commonFS` builds from
  the Voigt E2 work array, equals the code's `detC = (Jm1 + 1)^2`, which
  is det(F^T F) = det(F)^2.
- **`InverseIsExactEverywhere`.** `C * B = detC I`, so `Cinvwork = B /
  detC` is C^-1 whenever J is not 0. This is the first conjunct of the
  run's `InverseIsExact`, for all gradients.
- **`StressIsNeoHookeanEverywhere`.** The unpacked `detC * Swork` is
  `mu detC I + (lambda logJ - mu) B`, which is the documented S = mu I +
  (lambda logJ - mu) C^-1. This is the run's `StressIsNeoHookean`, for all
  gradients. The argument:
  - `E2 = C - I` in every entry (`E2IsCMinusIdentity`);
  - `B C = detC I` (`InverseOnTheLeft`);
  - so `C_inv E2 = I - C_inv`.

Z3 proves polynomial identities only when they are stated over integer
variables. Each identity is therefore a lemma over `NEW` integers
(`DetCPolynomial`, `AdjugatePolynomial`, `SumAlgebraHolds`,
`StressAlgebraHolds`). Each proof then instantiates the lemma at the
array entries, with Zenon, in a step of its own.

These theorems are about operators, for all gradients. The next module
lifts them to the kernel run's properties.

### `NeoHookeanKernelsProofs`

These theorems state the kernel run's own properties, as `Spec => []P`.
They hold for every input the constants allow. `NeoHookeanKernels` names
the assumptions they rest on, and TLC evaluates them on every kernel run:

- `InputsAssumption`: `ug`, `deltaug` and `dXdx` are integer 3x3 arrays;
- `ParametersAssumption`: wdetJ, E and logJ are integers, and nu is a pair
  of integers. Its denominator may be anything, zero included, because
  the kernels never check it.

`Gcd`, which scales the Lame pair to coprime integers, is a recursive
function rather than a RECURSIVE operator, so the module can be proved
about. `LameScaled` tests `d \in Nat \ {0}` before it divides. The proofs
therefore know that the pair is an integer pair without unfolding the
recursion (`LameScaledType`).

**The inductive invariant, `KernelInv`.** No property of the run is
inductive as it stands. Each one relates an output to the inputs, and
the Jacobian, energy and diagnostic steps must not disturb outputs
written earlier. `KernelInv` says:

- the inputs are integer arrays that no kernel changes;
- once `pc` has passed a kernel, that kernel's output equals the
  expression it computes from the inputs;
- in the Jacobian's case, the output is computed from the `grad_u` the
  residual stored, and that `grad_u` is the one recomputed from `ug`.

TLC checked `KernelInv` as an invariant of the kernel run before it was
proved (`InitKernelInv`, `NextKernelInv`, `KernelInvHolds`). Each theorem
then reduces its property to an identity over integers:

- **`KernelInverseIsExact`** (`InverseIsExact`). It uses
  `InverseIsExactEverywhere`, `JM1IsDeterminant` and `GramDeterminant`,
  which says det(F^T F) = det(F)^2.
- **`KernelStressIsNeoHookean`** (`StressIsNeoHookean`). It uses
  `StressIsNeoHookeanEverywhere` at the scaled Lame pair.
- **`KernelResidualIsWeakForm`** (`ResidualIsWeakForm`). It uses
  `WeakFormAdjoint`: contracting `dXdx^T P` (times wdetJ) with a test
  gradient laid out as `ug` equals wdetJ times P contracted with the
  gradient mapped by dXdx. This is a polynomial identity in 28 integers
  (`AdjointPolynomial`), and it covers both the residual and the Jacobian
  output. The typing lemmas (`DeltaEType`, `DeltaSType`, `DeltaPType` and
  the others) show that both are integer arrays.
- **`KernelDiagnosticMatchesEnergy`** (`DiagnosticMatchesEnergy`). Both
  kernels evaluate the same formula on the same recomputed `grad_u`.
- **`KernelLameIsClosedForm`** (`LameIsClosedForm`). `LamePolynomial`
  first unfolds the rational operations to explicit numerators and
  denominators, with Zenon. It then proves the two closed forms as
  polynomial identities in E, n and d, with SMT.

Z3 could not instantiate a lemma whose statement holds a function
constructor over a bound variable. The test gradient's layout is
therefore named by an operator, `OutLayout`.

### Left to TLC

- **`TangentIsDerivative` and `EnergyIsPotential`.** Each compares a
  kernel's output with a difference stencil over several perturbed
  gradients. The result is a polynomial identity of high degree, in
  dozens of variables, through `computeMatinvSym` and the Voigt
  products, and the provers could not reach it. The kernel run checks
  both on its sample gradients.
- **`Log1pSeries`.** It normalises rationals with the RECURSIVE `GcdOf`,
  and its claims compare squares of rationals.
- **t234 (`AtPointsTest`).** It is a finite program, and its runs cover
  every execution for the sizes used.

## Findings

**Degenerate point.** `ElasFSResidual_NH` and `ElasFSJacobian_NH` return `CEED_ERROR_SUCCESS`
unconditionally (lines 247 and 392), even at a point where J = det F = 0:

- `computeMatinvSym` then divides by detC = 0;
- `log1p_series_shifted(-1)` returns a finite number.

Spec sections 4.4 and 7 say a non-zero return signals a fatal evaluation
error, such as a singular material Jacobian. The `neohookean_degenerate`
run exhibits the point.

**Partially built kernel.** In `CeedQFunctionInit_Poisson3DBuild`, if
the second `AddInput` fails, `CeedChk` returns the error with `dx`
already declared on `qf` (line 35). Spec 7 says an error leaves no
partially-built kernel behind. Whether the library later destroys `qf`
is decided outside `src/`. The `qfunction_partial_init` run exhibits the
state.

## Not modelled

- **The library's element restriction** (Restrict and Restrict^T,
  including any threaded backend with colouring or atomics). It is not
  under `src/`, and the only restriction code here, t234, applies one
  element at a time. `AtPointsTest` models that test.
- **Copy/Borrow/Take ownership.** This is memory lifetime, not behaviour
  TLC can observe.
- **The pipeline compositor.** It has no code under `src/`.
- **The diagnostic kernel's copy of u** into diagnostic[0..2]. It is a
  plain copy.
- **The series polynomial of `log1p_series_shifted`.** It is kept as its
  argument y (see the abstractions).
- **The t530 kernels.** Straight-line pointwise loops.
- **`bpssphere.h`** (an option list) and **`Cargo.toml`** (packaging).

## Plan for further work

1. A Jacobian call after a state change without a residual call, using the
   stored `grad_u`. This needs a model of the solver's evaluation order.
2. The tangent and energy-derivative identities for every gradient,
   split into per-entry polynomial lemmas small enough for Z3.
