---------------------------- MODULE MCSystemTask ----------------------------
(* Small instances of SystemTask. *)
EXTENDS SystemTask, TLC

CONSTANTS r1, r2, chan, logs

MCRunner == {r1, r2}
OneType  == {chan}
TwoTypes == {chan, logs}

NoLegacy  == [i \in {} |-> chan]
OneLegacy == [i \in {1} |-> chan]

=============================================================================
