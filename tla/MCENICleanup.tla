---------------------------- MODULE MCENICleanup ----------------------------
(* ENICleanup for TLC. *)
EXTENDS ENICleanup
=============================================================================
