-------------------------- MODULE MCPlaywrightManager --------------------------
(* Small instances of PlaywrightManager for TLC.  The providers name their    *)
(* artifacts as they should until Conclusion has handed over a second time;   *)
(* from then on every narrative is called the same.                           *)
EXTENDS PlaywrightManager

OneNarrative(id) == IF id.stage = 1 /\ id.up > 0 THEN Id(1, id.up, 0) ELSE id

\* An artifact refers to what it was made from.
Properly(m) ==
  IF m.id.stage = 1 THEN m.handoff ELSE Name(m.on[m.id.stage - 1])

\* The first visuals after that refer to nothing.
ProperlyAtFirst(m) ==
  IF m.id.stage = 4 /\ m.id.up > 0 /\ m.id.rev = 0 THEN NoId ELSE Properly(m)
================================================================================
