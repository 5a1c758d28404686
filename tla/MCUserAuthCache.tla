--------------------------- MODULE MCUserAuthCache ---------------------------
(* Small instances of UserAuthCache. *)
EXTENDS UserAuthCache, TLC

CONSTANTS p1, p2

TwoProc == {p1, p2}

=============================================================================
