------------------------------- MODULE Sorting -------------------------------
(***************************************************************************)
(* The stable sorts of the mirror's code, as a function of a finite set    *)
(* and a strict total order: the blocks and their keys are distinct.       *)
(***************************************************************************)
EXTENDS Naturals, FiniteSets

\* The members of S that R puts before x.
before(S, R, x) == {y \in S : <<y, x>> \in R}

\* The i-th of the members of S has i - 1 before it.
sorted(S, R) ==
    [i \in 1 .. Cardinality(S) |-> CHOOSE x \in S : Cardinality(before(S, R, x)) = i - 1]

=============================================================================
