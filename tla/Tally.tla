------------------------------- MODULE Tally -------------------------------
(***************************************************************************)
(* Sums of natural numbers without recursion, so that they can be proved   *)
(* about: n counts for f[n] pieces, and a sum is how many pieces there are.*)
(***************************************************************************)
EXTENDS Integers, FiniteSets

Pieces(S, f) == UNION {{n} \X (1..f[n]) : n \in S}

(* The sum of f[n] over the n in S.                                        *)
Tally(S, f) == Cardinality(Pieces(S, f))
=============================================================================
