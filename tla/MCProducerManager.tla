--------------------------- MODULE MCProducerManager ---------------------------
(* A small instance of ProducerManager for TLC.                               *)
EXTENDS ProducerManager

===============================================================================
