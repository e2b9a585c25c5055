------------------------------ MODULE MCAudit ------------------------------
(* Instances of Audit for TLC. *)
EXTENDS Audit

CONSTANTS p1, p2

Both == {p1, p2}

=============================================================================
