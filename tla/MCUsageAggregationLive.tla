----------------------- MODULE MCUsageAggregationLive -----------------------
\* The instance of UsageAggregation for TLC's liveness checks.
EXTENDS UsageAggregation

\* The worker that keeps being started.
CONSTANT Survivor

\* One window of two groups; the second event may come late.
LiveEvents == 1 .. 2
LiveStart == <<0, 1>>
LiveDims == <<0, 1>>
LiveCorrelation == [w \in Workers |-> 0]

LiveSpec == Spec /\ Fairness(Survivor)
=============================================================================
