------------------------- MODULE MCUsageAggregation -------------------------
\* Small instances of UsageAggregation for TLC.
EXTENDS UsageAggregation, TLC

\* Windows of two units.  Event 1 has a window of its own, events 2 and 3 share
\* the next one, and a watermark of 3 falls between them.
MCEvents == 1 .. 3
MCStart == <<1, 2, 3>>
MCDims == <<0, 0, 0>>
\* The two events of the window they share.
LateEvents == 2 .. 3
LateStart == [e \in LateEvents |-> MCStart[e]]
LateDims == [e \in LateEvents |-> 0]

MCCorrelation == [w \in Workers |-> 0]

\* Workers are interchangeable.
WorkerSymmetry == Permutations(Workers)
=============================================================================
