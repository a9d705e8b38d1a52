--------------------------- MODULE MCNodeCapacity ---------------------------
(***************************************************************************)
(* Model-checking instance of NodeCapacity: every row of the limits table. *)
(***************************************************************************)
EXTENDS NodeCapacity
=============================================================================
