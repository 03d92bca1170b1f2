----------------------------- MODULE MCPipeline -----------------------------
EXTENDS PipelineProperties, TLC

MCEmailWorkers == [w \in Workers |-> "EMAIL"]

\* Calls, workers, runs and requests are interchangeable in the safety runs.
MCSymmetry ==
    Permutations(Sends) \cup Permutations(Workers) \cup Permutations(Requests)
      \cup Permutations(RelayTicks) \cup Permutations(RetryTicks)
=============================================================================
