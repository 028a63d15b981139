----------------------------- MODULE MCRetention -----------------------------
(***************************************************************************)
(* A small instance of Retention for TLC.                                  *)
(***************************************************************************)
EXTENDS Retention

CONSTANTS b1, b2
=============================================================================
