-------------------------- MODULE MCUsageRecording --------------------------
\* Small instances of UsageRecording for TLC.
EXTENDS UsageRecording, TLC

CONSTANTS a, b,      \* event ids
          m1, m2,    \* two contents for one meter version
          x, y       \* two correlations

MCEventIds == {a, b}
MCMeters == {m1, m2}
MCTraces == {NoTrace, x, y}

Sent(id, domain, value, target, trace) ==
  [id |-> id, meter |-> 1, domain |-> domain, value |-> value,
   target |-> target, trace |-> trace]

\* The first event as it is and as a correction of the second, and the second
\* as a correction of the first and as an event of its own.  Each is sent with
\* a correlation of its own.
MCRequests ==
  {Sent(a, 1, 1, NoRecord, x), Sent(a, 1, 1, b, x),
   Sent(b, 1, 1, a, y), Sent(b, 2, 1, NoRecord, y)}

\* The second content accepts only the first of them.
MCAdmits == (m1 :> MCRequests) @@ (m2 :> {Sent(a, 1, 1, NoRecord, x)})

\* One event that its publisher leaves to be correlated by the call.
Uncorrelated == {Sent(a, 1, 1, NoRecord, NoTrace)}
UncorrelatedAdmits == [m \in MCMeters |-> Uncorrelated]

\* A meter that callers give for the events' version, which may not be the one
\* that is registered, and one of another version.
MCGiven == {[ref |-> 1, content |-> m2], [ref |-> 2, content |-> m1]}

WorkerSymmetry == Permutations(Workers)
=============================================================================
