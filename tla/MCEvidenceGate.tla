---------------------------- MODULE MCEvidenceGate ----------------------------
(* A small instance of EvidenceGate for TLC.                                 *)
EXTENDS EvidenceGate, TLC

Symmetry == Permutations(Process)

===============================================================================
