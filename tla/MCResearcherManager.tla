-------------------------- MODULE MCResearcherManager --------------------------
(* Small instances of ResearcherManager for TLC.                              *)
EXTENDS ResearcherManager

================================================================================
