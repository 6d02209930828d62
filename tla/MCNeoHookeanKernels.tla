------------------------- MODULE MCNeoHookeanKernels -------------------------
(***************************************************************************)
(* Model-checking instance of NeoHookeanKernels.  The properties are      *)
(* polynomial identities, so a few dense non-symmetric inputs exercise    *)
(* every term of them; entries are kept small so that the scaled values   *)
(* stay within TLC's integers.                                             *)
(***************************************************************************)
EXTENDS NeoHookeanKernels

\* The 3x3 array with rows r0, r1, r2.
Rows(r0, r1, r2) == [j \in Idx3 |-> [k \in Idx3 |-> <<r0, r1, r2>>[j + 1][k + 1]]]

\* ug: undeformed, singular (F = 0 for dXdx = I), and dense general ones.
MCUg ==
  {Zero3,
   Rows(<<-1, 0, 0>>, <<0, -1, 0>>, <<0, 0, -1>>),
   Rows(<<1, 0, -1>>, <<1, 1, 0>>, <<0, -1, 1>>),
   Rows(<<0, 1, 1>>, <<-1, 0, 1>>, <<1, -1, 0>>),
   Rows(<<1, -1, 0>>, <<0, 1, 1>>, <<-1, 0, 1>>)}
\* deltaug: a unit direction, a shear pair, and dense ones.
MCDelta ==
  {Rows(<<0, 0, 0>>, <<1, 0, 0>>, <<0, 0, 0>>),
   Rows(<<0, 1, 0>>, <<-1, 0, 0>>, <<0, 0, 1>>),
   Rows(<<1, -1, 1>>, <<0, 1, -1>>, <<1, 0, 1>>),
   Rows(<<-1, 1, 0>>, <<1, 0, 1>>, <<0, 1, -1>>)}
\* The identity and a non-symmetric unimodular element map.
MCDXdx == {Identity3, Rows(<<1, 1, 0>>, <<0, 1, 1>>, <<0, 0, 1>>)}
MCWdetJ == 2
\* E = 12, nu = 1/5: lambda = 10/3, mu = 5, scaled to Lambda = 2, Mu = 3.
MCE == 12
MCNu == Rat(1, 5)
MCLogJ == 5
=============================================================================
