----------------------------- MODULE MCInbound -----------------------------
(* Instances of Inbound for TLC: the worker and pairs of its configurations. *)
EXTENDS Inbound

CONSTANTS w1, p1, p2

=============================================================================
