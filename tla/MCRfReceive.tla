----------------------------- MODULE MCRfReceive ------------------------------
(* A small instance of RfReceive for TLC: a device, another gateway and a    *)
(* stranger, each known address with a key of its own.                       *)
EXTENDS RfReceive, TLC

CONSTANTS d1, g1, k1, k2

MCKeyOf == (d1 :> k1) @@ (g1 :> k2)
===============================================================================
