------------------------- MODULE MCConfigLifecycle -------------------------
(***************************************************************************)
(* Small instances of ConfigLifecycle for TLC: a packaged default pkg, a   *)
(* policy op that an operator writes or mounts, a form raw of op that is   *)
(* not yet normalized, an invalid document bad and two inventories.        *)
(***************************************************************************)
EXTENDS ConfigLifecycle

CONSTANTS pkg, op, raw, bad, inv1, inv2

MCCanon == [d \in Valid |-> IF d = raw THEN op ELSE d]
=============================================================================
