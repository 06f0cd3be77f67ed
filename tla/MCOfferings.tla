---------------------------- MODULE MCOfferings ----------------------------
(* Small instances of Offerings for TLC. *)
EXTENDS Offerings

CONSTANTS r1, r2, m1, m2

=============================================================================
