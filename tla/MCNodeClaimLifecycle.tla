------------------------ MODULE MCNodeClaimLifecycle ------------------------
(* Small instances of NodeClaimLifecycle for TLC. *)
EXTENDS NodeClaimLifecycle

CONSTANTS c1, i1, i2

=============================================================================
