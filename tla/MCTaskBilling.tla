--------------------------- MODULE MCTaskBilling ---------------------------
(* Small instances of TaskBilling. *)
EXTENDS TaskBilling

CONSTANTS p1, p2

TwoPollers == {p1, p2}

=============================================================================
