-------------------------- MODULE UsageClaimsProofs --------------------------
(***************************************************************************)
(* UsageClaims for every set of workers and every lease duration: its      *)
(* types, the exclusion of two leases in force, and the refinement of      *)
(* TimedLease by the stored claim.                                         *)
(***************************************************************************)
EXTENDS UsageClaims, TLAPS

-----------------------------------------------------------------------------
(* The inductive invariant *)

\* A record read or written earlier is the stored one or an older version.
Precursor(record) ==
  /\ record # NoRecord
  /\ claim # NoRecord
  /\ record.version <= claim.version
  /\ record.version = claim.version => claim = record

\* "now" was taken in the past.
TimeInv(w) == now[w] <= clock

\* A lease that is no longer the stored claim has run out.
HolderInv(w) ==
  Holding(w) =>
    /\ Precursor(lease[w])
    /\ lease[w].owner = w
    /\ claim # lease[w] => lease[w].expires <= clock

\* What an acquiring worker read was free for it, as of its own time.
AcquireInv(w) ==
  phase[w] = "writing" /\ seen[w] # NoRecord =>
    /\ Precursor(seen[w])
    /\ seen[w].expires <= now[w] \/ seen[w].owner = w

\* What a releasing worker read was its own.
ReleaseInv(w) ==
  phase[w] = "releasing" => Precursor(seen[w]) /\ seen[w].owner = w

ClaimsInv ==
  /\ ClaimsTypeOK
  /\ \A w \in Workers :
       TimeInv(w) /\ HolderInv(w) /\ AcquireInv(w) /\ ReleaseInv(w)

\* A write that the store accepts is made by a worker that has read the very
\* record it replaces.
LEMMA AcceptedWriteIsCurrent ==
  ASSUME NEW record \in ClaimRecord \cup {NoRecord},
         Accepts(claim, record),
         record # NoRecord => Precursor(record)
  PROVE  record = claim
BY DEF Accepts, Precursor

\* The fields of a record that an accepted write leaves behind have their
\* types.
LEMMA WrittenRecordsHaveType ==
  ASSUME ClaimsTypeOK, ClaimsAssumption, NEW w \in Workers
  PROVE  /\ Granted(w) \in ClaimRecord
         /\ lease[w] # NoRecord /\ lease[w].owner = w
              => Released(w) \in ClaimRecord
<1>1. NextVersion(seen[w]) \in Nat
  BY DEF ClaimsTypeOK, NextVersion, ClaimRecord
<1>2. NextRevision(seen[w]) \in Nat \ {0}
  BY DEF ClaimsTypeOK, NextRevision, RevisionOf, ClaimRecord
<1>3. now[w] \in Nat /\ now[w] + LeaseDuration \in Nat
  BY DEF ClaimsTypeOK, ClaimsAssumption
<1>4. Granted(w) \in ClaimRecord
  BY <1>1, <1>2, <1>3 DEF Granted, ClaimRecord
<1>5. ASSUME lease[w] # NoRecord, lease[w].owner = w
      PROVE  Released(w) \in ClaimRecord
  <2>1. lease[w].revision + 1 \in Nat \ {0}
    BY <1>5 DEF ClaimsTypeOK, ClaimRecord
  <2>2. QED
    BY <2>1, <1>1, <1>3, <1>5 DEF Released, ClaimRecord
<1>6. QED
  BY <1>4, <1>5

LEMMA InitEstablishesInv == ClaimsInit => ClaimsInv
BY DEF ClaimsInit, ClaimsInv, ClaimsTypeOK, Phases, TimeInv, HolderInv,
       AcquireInv, ReleaseInv, Holding

-----------------------------------------------------------------------------
(* One lemma per action *)

LEMMA BeginAcquireKeepsInv ==
  ASSUME ClaimsInv, NEW w \in Workers, BeginAcquire(w)
  PROVE  ClaimsInv'
<1>1. ClaimsTypeOK'
  BY DEF ClaimsInv, ClaimsTypeOK, Phases, BeginAcquire
<1>2. ASSUME NEW v \in Workers
      PROVE  TimeInv(v)' /\ HolderInv(v)' /\ AcquireInv(v)' /\ ReleaseInv(v)'
  BY DEF ClaimsInv, ClaimsTypeOK, BeginAcquire, TimeInv, HolderInv,
         AcquireInv, ReleaseInv, Holding, Precursor
<1>3. QED
  BY <1>1, <1>2 DEF ClaimsInv

\* Leaving without a write, whatever the reason.
LEMMA LeaveKeepsInv ==
  ASSUME ClaimsInv, NEW w \in Workers, Leave(w), UNCHANGED <<clock, claim>>
  PROVE  ClaimsInv'
<1>1. ClaimsTypeOK'
  BY DEF ClaimsInv, ClaimsTypeOK, Phases, Leave
<1>2. ASSUME NEW v \in Workers
      PROVE  TimeInv(v)' /\ HolderInv(v)' /\ AcquireInv(v)' /\ ReleaseInv(v)'
  BY DEF ClaimsInv, ClaimsTypeOK, Leave, TimeInv, HolderInv,
         AcquireInv, ReleaseInv, Holding, Precursor
<1>3. QED
  BY <1>1, <1>2 DEF ClaimsInv

LEMMA AcquireReadKeepsInv ==
  ASSUME ClaimsInv, NEW w \in Workers, AcquireRead(w)
  PROVE  ClaimsInv'
<1>1. CASE Claimable(claim, w, now[w]) /\ phase' = [phase EXCEPT ![w] = "writing"]
           /\ seen' = [seen EXCEPT ![w] = claim]
           /\ UNCHANGED <<now, lease, clock, claim>>
  <2>1. ClaimsTypeOK'
    BY <1>1 DEF ClaimsInv, ClaimsTypeOK, Phases
  <2>2. ASSUME NEW v \in Workers
        PROVE  TimeInv(v)' /\ HolderInv(v)' /\ ReleaseInv(v)'
    BY <1>1, AcquireRead(w) DEF ClaimsInv, ClaimsTypeOK, TimeInv, HolderInv,
       ReleaseInv, Holding, Precursor, AcquireRead
  <2>3. ASSUME NEW v \in Workers
        PROVE  AcquireInv(v)'
    BY <1>1 DEF ClaimsInv, ClaimsTypeOK, AcquireInv, Precursor, Claimable,
       ClaimRecord
  <2>4. QED
    BY <2>1, <2>2, <2>3 DEF ClaimsInv
<1>2. CASE Leave(w) /\ UNCHANGED <<clock, claim>>
  BY <1>2, LeaveKeepsInv
<1>3. QED
  BY <1>1, <1>2 DEF AcquireRead

LEMMA AcquireWriteKeepsInv ==
  ASSUME ClaimsAssumption, ClaimsInv, NEW w \in Workers, AcquireWrite(w)
  PROVE  ClaimsInv'
<1>1. CASE /\ Accepts(claim, seen[w])
           /\ claim' = Granted(w)
           /\ lease' = [lease EXCEPT ![w] = Granted(w)]
           /\ phase' = [phase EXCEPT ![w] = "held"]
           /\ seen' = [seen EXCEPT ![w] = NoRecord]
           /\ UNCHANGED <<now, clock>>
  <2>1. /\ phase[w] = "writing"
        /\ seen[w] \in ClaimRecord \cup {NoRecord}
        /\ claim \in ClaimRecord \cup {NoRecord}
    BY DEF AcquireWrite, ClaimsInv, ClaimsTypeOK
  <2>2. seen[w] = claim
    BY <1>1, <2>1, AcceptedWriteIsCurrent DEF ClaimsInv, AcquireInv
  <2>3. Granted(w) \in ClaimRecord
    BY WrittenRecordsHaveType DEF ClaimsInv
  <2>4. Granted(w) # NoRecord
    BY <2>3 DEF ClaimsAssumption
  <2>5. claim # NoRecord => /\ claim.version \in Nat
                            /\ Granted(w).version = claim.version + 1
    BY <2>1, <2>2 DEF Granted, NextVersion, ClaimRecord
  <2>6. ClaimsTypeOK'
    BY <1>1, <2>3 DEF ClaimsInv, ClaimsTypeOK, Phases
  <2>7. ASSUME NEW v \in Workers PROVE TimeInv(v)'
    BY <1>1 DEF ClaimsInv, TimeInv
  <2>8. HolderInv(w)'
    BY <1>1, <2>3, <2>4 DEF HolderInv, Precursor, Granted, ClaimsInv,
       ClaimsTypeOK, ClaimRecord
  <2>9. ASSUME NEW v \in Workers, v # w PROVE HolderInv(v)'
    <3>1. SUFFICES ASSUME Holding(v)
                   PROVE  /\ Precursor(lease[v])'
                          /\ lease[v].owner = v
                          /\ lease[v].expires <= clock
      BY <1>1, <2>9 DEF HolderInv, Holding, ClaimsInv, ClaimsTypeOK
    <3>2. /\ Precursor(lease[v])
          /\ lease[v].owner = v
          /\ claim # lease[v] => lease[v].expires <= clock
      BY <3>1 DEF ClaimsInv, HolderInv
    <3>3. lease[v] \in ClaimRecord
      BY <3>2 DEF ClaimsInv, ClaimsTypeOK, Precursor
    <3>4. Precursor(lease[v])'
      BY <1>1, <2>4, <2>5, <2>9, <3>2, <3>3
      DEF Precursor, ClaimRecord, ClaimsInv, ClaimsTypeOK
    <3>5. lease[v].expires <= clock
      <4>1. CASE claim # lease[v]
        BY <4>1, <3>2
      <4>2. CASE claim = lease[v]
        <5>1. claim.expires <= now[w]
          BY <4>2, <2>1, <2>2, <2>9, <3>2 DEF ClaimsInv, AcquireInv, Precursor
        <5>2. now[w] <= clock /\ now[w] \in Nat /\ clock \in Nat
          BY DEF ClaimsInv, TimeInv, ClaimsTypeOK
        <5>3. claim.expires \in Nat
          BY <3>3, <4>2 DEF ClaimRecord
        <5>4. QED
          BY <4>2, <5>1, <5>2, <5>3
      <4>3. QED
        BY <4>1, <4>2
    <3>6. QED
      BY <3>2, <3>4, <3>5
  <2>10. ASSUME NEW v \in Workers PROVE AcquireInv(v)'
    BY <1>1, <2>4, <2>5 DEF ClaimsInv, ClaimsTypeOK, AcquireInv, Precursor,
       ClaimRecord
  <2>11. ASSUME NEW v \in Workers PROVE ReleaseInv(v)'
    BY <1>1, <2>4, <2>5 DEF ClaimsInv, ClaimsTypeOK, ReleaseInv, Precursor,
       ClaimRecord
  <2>12. QED
    BY <2>6, <2>7, <2>8, <2>9, <2>10, <2>11 DEF ClaimsInv
<1>2. CASE Leave(w) /\ UNCHANGED <<clock, claim>>
  BY <1>2, LeaveKeepsInv
<1>3. QED
  BY <1>1, <1>2 DEF AcquireWrite

LEMMA ReleaseReadKeepsInv ==
  ASSUME ClaimsInv, NEW w \in Workers, ReleaseRead(w)
  PROVE  ClaimsInv'
<1>1. CASE /\ IsOwn(claim, lease[w])
           /\ phase' = [phase EXCEPT ![w] = "releasing"]
           /\ seen' = [seen EXCEPT ![w] = claim]
           /\ UNCHANGED <<now, lease, clock, claim>>
  <2>1. ClaimsTypeOK'
    BY <1>1 DEF ClaimsInv, ClaimsTypeOK, Phases
  <2>2. ASSUME NEW v \in Workers
        PROVE  TimeInv(v)' /\ HolderInv(v)' /\ AcquireInv(v)'
    BY <1>1, ReleaseRead(w) DEF ClaimsInv, ClaimsTypeOK, TimeInv, HolderInv,
       AcquireInv, Holding, Precursor, ReleaseRead
  <2>3. claim.owner = w
    BY <1>1, ReleaseRead(w) DEF IsOwn, ClaimsInv, HolderInv, Holding,
       ReleaseRead
  <2>4. ASSUME NEW v \in Workers
        PROVE  ReleaseInv(v)'
    BY <1>1, <2>3 DEF ClaimsInv, ClaimsTypeOK, ReleaseInv, Precursor, IsOwn,
       ClaimRecord
  <2>5. QED
    BY <2>1, <2>2, <2>4 DEF ClaimsInv
<1>2. CASE Leave(w) /\ UNCHANGED <<clock, claim>>
  BY <1>2, LeaveKeepsInv
<1>3. QED
  BY <1>1, <1>2 DEF ReleaseRead

\* A release that the store accepts replaces a claim of the releasing worker.
LEMMA AcceptedReleaseIsOwn ==
  ASSUME ClaimsInv, NEW w \in Workers, phase[w] = "releasing",
         Accepts(claim, seen[w])
  PROVE  /\ seen[w] = claim
         /\ claim # NoRecord
         /\ claim.owner = w
         /\ lease[w] # NoRecord
         /\ lease[w].owner = w
<1>1. Precursor(seen[w]) /\ seen[w].owner = w
  BY DEF ClaimsInv, ReleaseInv
<1>2. seen[w] = claim
  BY <1>1, AcceptedWriteIsCurrent DEF ClaimsInv, ClaimsTypeOK
<1>3. lease[w] # NoRecord /\ lease[w].owner = w
  BY DEF ClaimsInv, HolderInv, Holding, Precursor
<1>4. QED
  BY <1>1, <1>2, <1>3 DEF Precursor

LEMMA ReleaseWriteKeepsInv ==
  ASSUME ClaimsAssumption, ClaimsInv, NEW w \in Workers, ReleaseWrite(w)
  PROVE  ClaimsInv'
<1>1. CASE Accepts(claim, seen[w])
  <2>1. /\ claim' = Released(w)
        /\ Leave(w)
        /\ clock' = clock
        /\ phase[w] = "releasing"
    BY <1>1 DEF ReleaseWrite
  <2>2. /\ seen[w] = claim
        /\ claim # NoRecord
        /\ claim.owner = w
        /\ lease[w] # NoRecord
        /\ lease[w].owner = w
    BY <1>1, <2>1, AcceptedReleaseIsOwn
  <2>3. Released(w) \in ClaimRecord
    BY <2>2, WrittenRecordsHaveType DEF ClaimsInv
  <2>4. Released(w) # NoRecord
    BY <2>3 DEF ClaimsAssumption
  <2>5. claim \in ClaimRecord /\ Released(w).version = claim.version + 1
    BY <2>2 DEF ClaimsInv, ClaimsTypeOK, Released, NextVersion
  <2>6. ClaimsTypeOK'
    BY <2>1, <2>3 DEF ClaimsInv, ClaimsTypeOK, Phases, Leave
  <2>7. ASSUME NEW v \in Workers, Precursor(lease[v]), lease[v] \in ClaimRecord
        PROVE  /\ claim' # NoRecord
               /\ lease[v].version < claim'.version
    BY <2>1, <2>4, <2>5, <2>7 DEF Precursor, ClaimRecord
  <2>8. ASSUME NEW v \in Workers PROVE HolderInv(v)'
    <3>1. CASE v = w
      BY <2>1, <3>1 DEF HolderInv, Holding, Leave, ClaimsInv, ClaimsTypeOK
    <3>2. CASE v # w
      <4>1. SUFFICES ASSUME Holding(v)
                     PROVE  /\ Precursor(lease[v])'
                            /\ lease[v].owner = v
                            /\ lease[v].expires <= clock
        BY <2>1, <3>2 DEF HolderInv, Holding, Leave, ClaimsInv, ClaimsTypeOK
      <4>2. /\ Precursor(lease[v])
            /\ lease[v].owner = v
            /\ claim # lease[v] => lease[v].expires <= clock
        BY <4>1 DEF ClaimsInv, HolderInv
      <4>3. lease[v] \in ClaimRecord
        BY <4>2 DEF ClaimsInv, ClaimsTypeOK, Precursor
      <4>4. lease'[v] = lease[v]
        BY <2>1, <3>2 DEF Leave, ClaimsInv, ClaimsTypeOK
      <4>5. Precursor(lease[v])'
        BY <2>1, <2>4, <2>5, <4>2, <4>3, <4>4
        DEF Precursor, ClaimRecord
      <4>6. claim # lease[v]
        BY <2>2, <3>2, <4>2
      <4>7. QED
        BY <4>2, <4>5, <4>6
    <3>3. QED
      BY <3>1, <3>2
  <2>9. ASSUME NEW v \in Workers PROVE TimeInv(v)' /\ AcquireInv(v)'
    <3>1. TimeInv(v)'
      BY <2>1 DEF ClaimsInv, TimeInv, Leave, ClaimsTypeOK
    <3>2. AcquireInv(v)'
      BY <2>1, <2>4, <2>5 DEF ClaimsInv, ClaimsTypeOK, AcquireInv, Precursor,
         ClaimRecord, Leave
    <3>3. QED
      BY <3>1, <3>2
  <2>10. ASSUME NEW v \in Workers PROVE ReleaseInv(v)'
    BY <2>1, <2>4, <2>5 DEF ClaimsInv, ClaimsTypeOK, ReleaseInv, Precursor,
       ClaimRecord, Leave
  <2>11. QED
    BY <2>6, <2>8, <2>9, <2>10 DEF ClaimsInv
<1>2. CASE ~Accepts(claim, seen[w])
  BY <1>2, LeaveKeepsInv DEF ReleaseWrite
<1>3. QED
  BY <1>1, <1>2

LEMMA TickKeepsInv == ClaimsInv /\ Tick => ClaimsInv'
<1>1. SUFFICES ASSUME ClaimsInv, Tick
               PROVE  ClaimsInv'
  OBVIOUS
<1>2. ClaimsTypeOK'
  BY <1>1 DEF ClaimsInv, ClaimsTypeOK, Tick
<1>3. clock \in Nat /\ clock' = clock + 1
  BY <1>1 DEF ClaimsInv, ClaimsTypeOK, Tick
<1>4. ASSUME NEW w \in Workers PROVE TimeInv(w)'
  BY <1>1, <1>3 DEF ClaimsInv, ClaimsTypeOK, TimeInv, Tick
<1>5. ASSUME NEW w \in Workers PROVE HolderInv(w)'
  <2>1. Holding(w) => lease[w] \in ClaimRecord
    BY <1>1 DEF ClaimsInv, ClaimsTypeOK, HolderInv, Precursor
  <2>2. QED
    BY <1>1, <1>3, <2>1 DEF ClaimsInv, HolderInv, Holding, Precursor, Tick,
       ClaimRecord
<1>6. ASSUME NEW w \in Workers PROVE AcquireInv(w)' /\ ReleaseInv(w)'
  BY <1>1 DEF ClaimsInv, AcquireInv, ReleaseInv, Precursor, Tick
<1>7. QED
  BY <1>2, <1>4, <1>5, <1>6 DEF ClaimsInv

LEMMA StepKeepsInv ==
  ASSUME ClaimsAssumption, ClaimsInv, [ClaimsNext]_claimVars
  PROVE  ClaimsInv'
<1>1. CASE Tick
  BY <1>1, TickKeepsInv
<1>2. ASSUME NEW w \in Workers, ClaimsStep(w)
      PROVE  ClaimsInv'
  <2>1. CASE BeginAcquire(w)
    BY <2>1, BeginAcquireKeepsInv
  <2>2. CASE AcquireRead(w)
    BY <2>2, AcquireReadKeepsInv
  <2>3. CASE AcquireWrite(w)
    BY <2>3, AcquireWriteKeepsInv
  <2>4. CASE ReleaseRead(w)
    BY <2>4, ReleaseReadKeepsInv
  <2>5. CASE ReleaseWrite(w)
    BY <2>5, ReleaseWriteKeepsInv
  <2>6. CASE AbandonRun(w)
    BY <2>6, LeaveKeepsInv DEF AbandonRun
  <2>7. QED
    BY <1>2, <2>1, <2>2, <2>3, <2>4, <2>5, <2>6 DEF ClaimsStep
<1>3. CASE UNCHANGED claimVars
  BY <1>3 DEF claimVars, ClaimsInv, ClaimsTypeOK, TimeInv, HolderInv,
     AcquireInv, ReleaseInv, Holding, Precursor
<1>4. QED
  BY <1>1, <1>2, <1>3 DEF ClaimsNext

-----------------------------------------------------------------------------
(* The theorems *)

\* The inductive invariant holds of every behavior.
THEOREM ClaimsInvariance == ClaimsSpec => []ClaimsInv
<1>1. ClaimsInit => ClaimsInv
  BY InitEstablishesInv
<1>2. ClaimsInv /\ [ClaimsNext]_claimVars => ClaimsInv'
  BY ClaimsAssumption, StepKeepsInv
<1>3. QED
  BY <1>1, <1>2, PTL DEF ClaimsSpec

\* Claims, leases and what was read of them always have their types.
THEOREM ClaimsTypeCorrect == ClaimsSpec => []ClaimsTypeOK
<1>1. ClaimsInv => ClaimsTypeOK
  BY DEF ClaimsInv
<1>2. QED
  BY <1>1, ClaimsInvariance, PTL

\* A claim in force is the stored one, for any number of workers.
THEOREM LeasesInForceAreStored == ClaimsSpec => []LeaseInForceIsStored
<1>1. ClaimsInv => LeaseInForceIsStored
  <2>1. SUFFICES ASSUME ClaimsInv, NEW w \in Workers, Holding(w),
                        lease[w].expires > clock, claim # lease[w]
                 PROVE  FALSE
    BY DEF LeaseInForceIsStored
  <2>2. lease[w] \in ClaimRecord /\ lease[w].expires <= clock
    BY <2>1 DEF ClaimsInv, ClaimsTypeOK, HolderInv, Precursor
  <2>3. QED
    BY <2>1, <2>2 DEF ClaimRecord, ClaimsInv, ClaimsTypeOK
<1>2. QED
  BY <1>1, ClaimsInvariance, PTL

\* No two workers hold claims in force at once.
THEOREM LeasesExclude == ClaimsSpec => []LeaseExclusion
<1>1. ClaimsInv /\ LeaseInForceIsStored => LeaseExclusion
  BY DEF ClaimsInv, HolderInv, LeaseInForceIsStored, LeaseExclusion
<1>2. QED
  BY <1>1, ClaimsInvariance, LeasesInForceAreStored, PTL

-----------------------------------------------------------------------------
(* Refinement of TimedLease *)

\* The abstract variables: the right sides of the mapping in UsageClaims.
Holder == IF claim = NoRecord THEN NoRecord ELSE claim.owner
Until == IF claim = NoRecord THEN 0 ELSE claim.expires

\* A write of worker w that leaves a claim of its own, where the lease was
\* free for it, is a step of the abstract lease.
LEMMA WriteIsHold ==
  ASSUME ClaimsAssumption, ClaimsInv, NEW w \in Workers,
         NEW record \in ClaimRecord,
         claim' = record, UNCHANGED clock,
         record.owner = w,
         record.expires <= clock + LeaseDuration,
         Holder # w => Until <= clock
  PROVE  Lease!Hold(w)
<1>1. record # NoRecord
  BY DEF ClaimsAssumption
<1>2. record.expires \in 0 .. clock + LeaseDuration
  BY DEF ClaimRecord, ClaimsAssumption, ClaimsInv, ClaimsTypeOK
<1>3. QED
  BY <1>1, <1>2 DEF Lease!Hold, Holder, Until

LEMMA StepRefinesLease ==
  ASSUME ClaimsAssumption, ClaimsInv, [ClaimsNext]_claimVars
  PROVE  [Lease!LeaseNext]_<<clock, Holder, Until>>
<1> USE DEF Holder, Until
<1>1. CASE Tick
  BY <1>1 DEF Tick, Lease!LeaseNext, Lease!Pass
<1>2. ASSUME NEW w \in Workers, AcquireWrite(w), Accepts(claim, seen[w])
      PROVE  Lease!Hold(w)
  <2>1. seen[w] = claim
    BY <1>2, AcceptedWriteIsCurrent
    DEF AcquireWrite, ClaimsInv, ClaimsTypeOK, AcquireInv
  <2>2. now[w] <= clock /\ now[w] \in Nat /\ clock \in Nat
    BY DEF ClaimsInv, TimeInv, ClaimsTypeOK
  <2>3. Holder # w => Until <= clock
    <3>1. CASE claim = NoRecord
      BY <2>2, <3>1
    <3>2. CASE claim # NoRecord
      <4>1. claim.expires <= now[w] \/ claim.owner = w
        BY <1>2, <2>1, <3>2 DEF AcquireWrite, ClaimsInv, AcquireInv
      <4>2. claim.expires \in Nat
        BY <3>2 DEF ClaimsInv, ClaimsTypeOK, ClaimRecord
      <4>3. QED
        BY <2>2, <3>2, <4>1, <4>2
    <3>3. QED
      BY <3>1, <3>2
  <2>4. Granted(w) \in ClaimRecord
    BY WrittenRecordsHaveType DEF ClaimsInv
  <2>5. Granted(w).owner = w /\ Granted(w).expires <= clock + LeaseDuration
    BY <2>2 DEF Granted, ClaimsAssumption
  <2>6. QED
    BY <1>2, <2>3, <2>4, <2>5, WriteIsHold DEF AcquireWrite
<1>3. ASSUME NEW w \in Workers, ReleaseWrite(w), Accepts(claim, seen[w])
      PROVE  Lease!Hold(w)
  <2>1. /\ claim # NoRecord
        /\ claim.owner = w
        /\ lease[w] # NoRecord
        /\ lease[w].owner = w
    BY <1>3, AcceptedReleaseIsOwn DEF ReleaseWrite
  <2>2. now[w] <= clock /\ now[w] \in Nat /\ clock \in Nat
    BY DEF ClaimsInv, TimeInv, ClaimsTypeOK
  <2>3. Released(w) \in ClaimRecord
    BY <2>1, WrittenRecordsHaveType DEF ClaimsInv
  <2>4. Released(w).owner = w /\ Released(w).expires <= clock + LeaseDuration
    BY <2>1, <2>2 DEF Released, ClaimsAssumption
  <2>5. QED
    BY <1>3, <2>1, <2>3, <2>4, WriteIsHold DEF ReleaseWrite
<1>4. ASSUME NEW w \in Workers, ClaimsStep(w), ~Lease!Hold(w)
      PROVE  UNCHANGED <<clock, claim>>
  BY <1>2, <1>3, <1>4 DEF ClaimsStep, BeginAcquire, AcquireRead, AcquireWrite,
     ReleaseRead, ReleaseWrite, AbandonRun, Leave
<1>5. CASE UNCHANGED claimVars
  BY <1>5 DEF claimVars
<1>6. QED
  BY <1>1, <1>4, <1>5 DEF ClaimsNext, Lease!LeaseNext

\* The stored claim implements the abstract lease: it changes hands only after
\* it has run out, whatever the workers, their delays and their crashes.
THEOREM ClaimsRefineLease == ClaimsSpec => ClaimIsLease
<1>1. ClaimsInit => Lease!LeaseInit
  BY DEF ClaimsInit, Lease!LeaseInit
<1>2. ClaimsInv /\ [ClaimsNext]_claimVars
        => [Lease!LeaseNext]_<<clock, Holder, Until>>
  BY ClaimsAssumption, StepRefinesLease
<1>3. QED
  BY <1>1, <1>2, ClaimsInvariance, PTL
  DEF ClaimsSpec, ClaimIsLease, Lease!LeaseSpec, Lease!leaseVars, Holder, Until
=============================================================================
