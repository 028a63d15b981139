------------------------- MODULE MCConfigConsumers -------------------------
(***************************************************************************)
(* Small instances of ConfigConsumers for TLC: the packaged policy pkg, an *)
(* operator's policy op, an invalid policy bad and two inventories.        *)
(***************************************************************************)
EXTENDS ConfigConsumers

CONSTANTS pkg, op, bad, inv1, inv2, suricata, wazuh

MCCanon == [d \in Valid |-> d]
=============================================================================
