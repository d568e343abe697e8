------------------------------ MODULE TimedLease ------------------------------
(***************************************************************************)
(* What the aggregation claim promises: a lease with one holder.  It       *)
(* passes to another worker only once it has run out; until then only the  *)
(* holder may extend it or cut it short.                                   *)
(***************************************************************************)
EXTENDS Naturals

CONSTANTS Workers, NoHolder, LeaseDuration

VARIABLES clock, holder, until

leaseVars == <<clock, holder, until>>

LeaseInit ==
  /\ clock = 0
  /\ holder = NoHolder
  /\ until = 0

\* A worker extends or ends its own lease, or takes over one that ran out.  A
\* slow taker may be granted a lease that has itself run out already.
Hold(w) ==
  /\ holder # w => until <= clock
  /\ holder' = w
  /\ until' \in 0 .. clock + LeaseDuration
  /\ UNCHANGED clock

Pass ==
  /\ clock' = clock + 1
  /\ UNCHANGED <<holder, until>>

LeaseNext == Pass \/ \E w \in Workers : Hold(w)

LeaseSpec == LeaseInit /\ [][LeaseNext]_leaseVars
=============================================================================
