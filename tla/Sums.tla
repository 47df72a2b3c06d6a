-------------------------------- MODULE Sums --------------------------------
(***************************************************************************)
(* Sums of natural numbers over a finite set, by counting: an element x    *)
(* contributes the units <<x, 1>>, ..., <<x, f[x]>>.  Facts about them     *)
(* follow from those about finite sets, without an induction.              *)
(***************************************************************************)
EXTENDS Naturals, FiniteSets

\* The units that x contributes.
Column(f, x) == {x} \X (1..f[x])

\* What all the elements of S contribute.
Units(f, S) == UNION {Column(f, x) : x \in S}

\* The sum of f[x] for the elements x of S.
SumOver(f, S) == Cardinality(Units(f, S))
=============================================================================
