--------------------------- MODULE MCAuthSession ---------------------------
(* AuthSession for TLC: tabs and session ids as model values. *)
EXTENDS AuthSession, TLC

CONSTANTS t1, t2, s1, s2

TwoTabs == {t1, t2}
OneSid == {s1}
TwoSids == {s1, s2}

Locked == {TRUE}
AnyLocks == BOOLEAN

TabSymmetry == Permutations(TwoTabs)
=============================================================================
