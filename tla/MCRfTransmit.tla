----------------------------- MODULE MCRfTransmit -----------------------------
(* Small instances of RfTransmit for TLC. *)
EXTENDS RfTransmit, TLC

\* Heap cells are interchangeable.
Symmetry == Permutations(Packets)
===============================================================================
