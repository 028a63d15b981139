-------------------------- MODULE MCRetentionCycle --------------------------
(***************************************************************************)
(* A small instance of RetentionCycle for TLC.                             *)
(***************************************************************************)
EXTENDS RetentionCycle

CONSTANTS b1, s1
=============================================================================
