--------------------------- MODULE MCUsageBatches ---------------------------
\* Small instances of UsageBatches for TLC.
EXTENDS UsageBatches, TLC

CONSTANTS a, b,      \* event ids
          k, l,      \* batch ids
          Publisher  \* the one that keeps sending

Sent(id, value, target) ==
  [id |-> id, domain |-> 1, value |-> value, target |-> target]

Batch(id, mode, list) == [batch |-> id, mode |-> mode, events |-> list]

Plain == Sent(a, 1, NoRecord)
Other == Sent(a, 2, NoRecord)
Correction == Sent(b, 1, a)

\* One batch id for a batch with a correction, the same events in the other
\* order and an atomic batch that takes their ids for other events, and another
\* id for a batch that has one event in common with it.
MCRequests ==
  {Batch(k, "partitioned", <<Plain, Correction>>),
   Batch(k, "partitioned", <<Correction, Plain>>),
   Batch(k, "atomic", <<Other, Sent(b, 2, a)>>),
   Batch(l, "partitioned", <<Plain>>)}

\* A batch within the documented limits, and one with an event twice.
PlainRequests ==
  {Batch(k, "partitioned", <<Plain, Correction>>),
   Batch(l, "partitioned", <<Plain, Plain>>)}

\* The batch that its publisher keeps sending, and one that takes its event.
Kept == Batch(k, "partitioned", <<Plain, Correction>>)
LiveRequests == {Kept, Batch(l, "atomic", <<Other>>)}

LiveSpec == Spec /\ Fairness(Publisher, Kept)

KeptSettles == Settles(Kept)

WorkerSymmetry == Permutations(Workers)
=============================================================================
