------------------------- MODULE MCSearchProjection -------------------------
(* Small instances of SearchProjection. *)
EXTENDS SearchProjection, TLC

=============================================================================
