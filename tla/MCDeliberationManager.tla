------------------------- MODULE MCDeliberationManager -------------------------
(* A small instance of DeliberationManager for TLC.                           *)
EXTENDS DeliberationManager

CONSTANTS a1, a2, a3

MCTargets == {{Manager}, {Counter}, {a1}}
================================================================================
