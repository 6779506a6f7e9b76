-------------------------- MODULE MCConclusionManager --------------------------
(* Small instances of ConclusionManager for TLC.  Every generation of         *)
(* positions bears the same candidate ids.                                    *)
EXTENDS ConclusionManager

\* The ids of evaluations and integrations are repeated once Deliberation was asked.
RepeatedLater(id) ==
  IF id.stage = 1 \/ (id.stage \in {2, 3} /\ id.up > 0) THEN Id(id.stage, 1, 0, 0) ELSE id

\* They are always the same: the workflows that ApprovalIsOfThisPackage fails in.
RepeatedAlways(id) == Id(id.stage, 0, 0, 0)
================================================================================
