----------------------- MODULE MCRetrievalCoordinator -----------------------
(* A small instance of RetrievalCoordinator for TLC.                        *)
EXTENDS RetrievalCoordinator, TLC

Symmetry == Permutations(Worker)

=============================================================================
