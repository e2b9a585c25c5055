----------------------------- MODULE MCFileLock -----------------------------
(* Instances of FileLock for TLC: the workers of lock.cfg and lock_violation.cfg. *)
EXTENDS FileLock

CONSTANTS w1, w2

=============================================================================
