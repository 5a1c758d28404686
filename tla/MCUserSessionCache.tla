------------------------- MODULE MCUserSessionCache -------------------------
(* A small instance of UserSessionCache. *)
EXTENDS UserSessionCache, TLC

CONSTANTS p1, p2

TwoProc == {p1, p2}

\* Requests are interchangeable.
Symmetry == Permutations(TwoProc)

=============================================================================
