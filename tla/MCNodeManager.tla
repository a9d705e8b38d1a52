--------------------------- MODULE MCNodeManager ---------------------------
(***************************************************************************)
(* Model-checking instances of NodeManager.                                *)
(***************************************************************************)
EXTENDS NodeManager

CONSTANTS i1, i2
=============================================================================
