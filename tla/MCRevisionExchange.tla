--------------------------- MODULE MCRevisionExchange ---------------------------
(* Small instances of RevisionExchange for TLC.                               *)
EXTENDS RevisionExchange, TLC

Symmetry == Permutations(Process) \union Permutations(Reservations)
              \union Permutations(Stamped) \union Permutations(Request \ Stamped)

=================================================================================
