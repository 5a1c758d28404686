---------------------------- MODULE MCTokenQuota ----------------------------
(* A small instance of TokenQuota. *)
EXTENDS TokenQuota, TLC

CONSTANTS p1, p2

TwoProc == {p1, p2}

\* Requests are interchangeable.
Symmetry == Permutations(TwoProc)

=============================================================================
