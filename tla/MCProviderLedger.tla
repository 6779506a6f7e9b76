--------------------------- MODULE MCProviderLedger ---------------------------
(* Small instances of ProviderLedger for TLC.                               *)
EXTENDS ProviderLedger, TLC

\* Both ladders: what an operator may authorize above a failed answer, and
\* above a model without an endpoint.
BothLadders == {"original", "operator_retry", "contract_repair", "output_repair",
                "runtime_model", "runtime_output"}

OriginalOnly == {"original"}

Symmetry == Permutations(Process)

=============================================================================
