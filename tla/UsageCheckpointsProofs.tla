------------------------ MODULE UsageCheckpointsProofs ------------------------
(***************************************************************************)
(* UsageCheckpoints for every set of workers and every set of watermarks,  *)
(* whether or not the runtime replays requests: its types, the agreement   *)
(* of winners, their durability, and the monotonicity of the checkpoint.   *)
(***************************************************************************)
EXTENDS UsageCheckpoints, TLAPS

-----------------------------------------------------------------------------
(* The inductive invariant *)

\* The record is stored, or a later one has replaced it.
Reached(record) ==
  /\ checkpoint # NoRecord
  /\ record.watermark <= checkpoint.watermark
  /\ record = checkpoint \/ record.revision < checkpoint.revision

\* The checkpoints that callers were returned, or may be by a replay.
Returned == answered \cup {attempt[w].updated : w \in {v \in Workers : Won(v)}}

ReturnedInv ==
  /\ Returned \subseteq CheckpointRecord
  /\ \A r \in Returned : Reached(r)
  /\ \A r, s \in Returned : r.revision = s.revision => r = s

\* A writer's read is the stored record or an older version of it, and what it
\* writes is that read's successor.
WriterInv(w) ==
  LET read == attempt[w].read
      updated == attempt[w].updated
  IN
  attempt[w].status = "writing" =>
    /\ updated \in CheckpointRecord
    /\ updated.revision = NextRevision(read)
    /\ updated.version = NextVersion(read)
    /\ read # NoRecord =>
         /\ read.watermark <= updated.watermark
         /\ checkpoint # NoRecord
         /\ read.version <= checkpoint.version
         /\ read.version = checkpoint.version => read = checkpoint

CheckpointsInv ==
  /\ CheckpointsTypeOK
  /\ ReturnedInv
  /\ \A w \in Workers : WriterInv(w)

\* The record that an advance_checkpoint writes has its type.
LEMMA UpdatedHasType ==
  ASSUME CheckpointsAssumption, CheckpointsTypeOK,
         NEW watermark \in Times, NEW time \in Times
  PROVE  Updated(checkpoint, watermark, time) \in CheckpointRecord
<1>1. watermark \in Nat /\ time \in Nat
  BY DEF CheckpointsAssumption
<1>2. NextVersion(checkpoint) \in Nat
  BY DEF CheckpointsTypeOK, NextVersion, CheckpointRecord
<1>3. NextRevision(checkpoint) \in Nat \ {0}
  BY DEF CheckpointsTypeOK, NextRevision, RevisionOf, CheckpointRecord
<1>4. QED
  BY <1>1, <1>2, <1>3 DEF Updated, CheckpointRecord

LEMMA InitEstablishesInv == CheckpointsInit => CheckpointsInv
<1>1. SUFFICES ASSUME CheckpointsInit
               PROVE  CheckpointsInv
  OBVIOUS
<1>2. CheckpointsTypeOK
  BY <1>1 DEF CheckpointsInit, CheckpointsTypeOK, NoAttempt, AttemptRecord,
     Statuses
<1>3. Returned = {}
  BY <1>1 DEF CheckpointsInit, Returned, Won, NoAttempt
<1>4. ASSUME NEW w \in Workers PROVE WriterInv(w)
  BY <1>1 DEF CheckpointsInit, WriterInv, NoAttempt
<1>5. QED
  BY <1>2, <1>3, <1>4 DEF CheckpointsInv, ReturnedInv

\* While the stored checkpoint stays, forgetting results keeps the invariant.
LEMMA FewerReturned ==
  ASSUME ReturnedInv, Returned' \subseteq Returned, UNCHANGED checkpoint
  PROVE  ReturnedInv'
BY DEF ReturnedInv, Reached

-----------------------------------------------------------------------------
(* One lemma per action *)

LEMMA AdvanceReadKeepsInv ==
  ASSUME CheckpointsAssumption, CheckpointsInv, NEW w \in Workers,
         NEW watermark \in Times, NEW expected, NEW time \in Times,
         AdvanceRead(w, watermark, expected, time)
  PROVE  CheckpointsInv'
<1> DEFINE granted == [status |-> "writing", read |-> checkpoint,
                       updated |-> Updated(checkpoint, watermark, time)]
           turned == [NoAttempt EXCEPT !.status = "refused"]
<1>1. /\ UNCHANGED <<checkpoint, answered>>
      /\ \/ /\ attempt' = [attempt EXCEPT ![w] = granted]
            /\ MayFollow(checkpoint, watermark)
         \/ attempt' = [attempt EXCEPT ![w] = turned]
  BY DEF AdvanceRead
<1>2. Updated(checkpoint, watermark, time) \in CheckpointRecord
  BY UpdatedHasType DEF CheckpointsInv
<1>3. granted \in AttemptRecord /\ turned \in AttemptRecord
  BY <1>2 DEF CheckpointsInv, CheckpointsTypeOK, AttemptRecord, NoAttempt,
     Statuses
<1>4. CheckpointsTypeOK'
  BY <1>1, <1>3 DEF CheckpointsInv, CheckpointsTypeOK
<1>5. Returned' \subseteq Returned
  BY <1>1 DEF Returned, Won, CheckpointsInv, CheckpointsTypeOK, NoAttempt
<1>6. ReturnedInv'
  BY <1>1, <1>5, FewerReturned DEF CheckpointsInv
<1>7. ASSUME NEW v \in Workers PROVE WriterInv(v)'
  <2>1. CASE attempt' = [attempt EXCEPT ![w] = granted]
             /\ MayFollow(checkpoint, watermark)
    <3>1. CASE v = w
      <4>1. attempt'[v] = granted
        BY <2>1, <3>1 DEF CheckpointsInv, CheckpointsTypeOK
      <4>2. checkpoint # NoRecord =>
              /\ checkpoint \in CheckpointRecord
              /\ checkpoint.watermark <= watermark
              /\ checkpoint.version <= checkpoint.version
        BY <2>1 DEF MayFollow, CheckpointsInv, CheckpointsTypeOK,
           CheckpointRecord, CheckpointsAssumption
      <4>3. QED
        BY <1>1, <1>2, <4>1, <4>2 DEF WriterInv, Updated
    <3>2. CASE v # w
      BY <1>1, <2>1, <3>2 DEF WriterInv, CheckpointsInv, CheckpointsTypeOK
    <3>3. QED
      BY <3>1, <3>2
  <2>2. CASE attempt' = [attempt EXCEPT ![w] = turned]
    BY <1>1, <2>2 DEF WriterInv, CheckpointsInv, CheckpointsTypeOK, NoAttempt
  <2>3. QED
    BY <1>1, <2>1, <2>2
<1>8. QED
  BY <1>4, <1>6, <1>7 DEF CheckpointsInv

\* A write is executed only on the record its caller has read, and moves the
\* checkpoint to the next revision and to no earlier watermark.
LEMMA AcceptedWriteSucceeds ==
  ASSUME CheckpointsInv, NEW w \in Workers,
         attempt[w].status = "writing", Accepts(checkpoint, attempt[w].read)
  PROVE  /\ attempt[w].updated \in CheckpointRecord
         /\ attempt[w].updated.revision = RevisionOf(checkpoint) + 1
         /\ attempt[w].updated.version = NextVersion(checkpoint)
         /\ checkpoint # NoRecord =>
              checkpoint.watermark <= attempt[w].updated.watermark
<1>1. attempt[w].read = checkpoint
  BY DEF CheckpointsInv, WriterInv, Accepts
<1>2. QED
  BY <1>1 DEF CheckpointsInv, WriterInv, NextRevision

\* What was returned before an accepted write has an earlier revision.
LEMMA ReturnedIsEarlier ==
  ASSUME CheckpointsInv, NEW r \in Returned
  PROVE  /\ checkpoint \in CheckpointRecord
         /\ checkpoint # NoRecord
         /\ r \in CheckpointRecord
         /\ r.watermark <= checkpoint.watermark
         /\ r.revision < RevisionOf(checkpoint) + 1
<1>1. /\ checkpoint \in CheckpointRecord
      /\ checkpoint # NoRecord
      /\ r \in CheckpointRecord
      /\ r.watermark <= checkpoint.watermark
      /\ r = checkpoint \/ r.revision < checkpoint.revision
  BY DEF CheckpointsInv, ReturnedInv, Reached, CheckpointsTypeOK
<1>2. checkpoint.revision \in Nat /\ r.revision \in Nat
  BY <1>1 DEF CheckpointRecord
<1>3. r.revision < checkpoint.revision + 1
  BY <1>1, <1>2
<1>4. QED
  BY <1>1, <1>3 DEF RevisionOf

LEMMA AcceptedWriteKeepsInv ==
  ASSUME CheckpointsAssumption, CheckpointsInv, NEW w \in Workers,
         attempt[w].status = "writing", Accepts(checkpoint, attempt[w].read),
         checkpoint' = attempt[w].updated,
         answered' \subseteq answered \cup {attempt[w].updated},
         attempt' = [attempt EXCEPT ![w].status = "won"]
  PROVE  CheckpointsInv'
<1> DEFINE new == attempt[w].updated
<1>1. /\ new \in CheckpointRecord
      /\ new.revision = RevisionOf(checkpoint) + 1
      /\ new.version = NextVersion(checkpoint)
      /\ checkpoint # NoRecord => checkpoint.watermark <= new.watermark
  BY AcceptedWriteSucceeds
<1>2. checkpoint' = new /\ new # NoRecord
  BY <1>1 DEF CheckpointsAssumption
<1>3. CheckpointsTypeOK'
  BY <1>1 DEF CheckpointsInv, CheckpointsTypeOK, AttemptRecord, Statuses
<1>4. Returned' \subseteq Returned \cup {new}
  BY DEF Returned, Won, CheckpointsInv, CheckpointsTypeOK, AttemptRecord
<1>5. ASSUME NEW r \in Returned
      PROVE  r \in CheckpointRecord /\ Reached(r)' /\ r.revision # new.revision
  <2>1. /\ checkpoint \in CheckpointRecord
        /\ checkpoint # NoRecord
        /\ r \in CheckpointRecord
        /\ r.watermark <= checkpoint.watermark
        /\ r.revision < new.revision
    BY <1>1, ReturnedIsEarlier
  <2>2. r.watermark <= new.watermark
    BY <1>1, <2>1 DEF CheckpointRecord
  <2>3. r.revision \in Nat /\ new.revision \in Nat
    BY <1>1, <2>1 DEF CheckpointRecord
  <2>4. QED
    BY <1>2, <2>1, <2>2, <2>3 DEF Reached
<1>6. new \in CheckpointRecord /\ Reached(new)'
  <2>1. new.watermark <= new.watermark
    BY <1>1 DEF CheckpointRecord
  <2>2. QED
    BY <1>1, <1>2, <2>1 DEF Reached
<1>7. ReturnedInv'
  <2>1. Returned' \subseteq CheckpointRecord
    BY <1>4, <1>5, <1>6
  <2>2. \A r \in Returned' : Reached(r)'
    BY <1>4, <1>5, <1>6
  <2>3. \A r, s \in Returned' : r.revision = s.revision => r = s
    BY <1>4, <1>5 DEF CheckpointsInv, ReturnedInv
  <2>4. QED
    BY <2>1, <2>2, <2>3 DEF ReturnedInv, Reached
<1>8. ASSUME NEW v \in Workers PROVE WriterInv(v)'
  <2>1. CASE v = w
    BY <2>1 DEF WriterInv, CheckpointsInv, CheckpointsTypeOK
  <2>2. CASE v # w
    <3>1. attempt'[v] = attempt[v]
      BY <2>2 DEF CheckpointsInv, CheckpointsTypeOK
    <3>2. SUFFICES ASSUME attempt[v].status = "writing",
                          attempt[v].read # NoRecord
                   PROVE  /\ attempt[v].read.version <= new.version
                          /\ attempt[v].read.version # new.version
      BY <1>2, <3>1 DEF WriterInv, CheckpointsInv
    <3>3. /\ checkpoint # NoRecord
          /\ attempt[v].read.version <= checkpoint.version
      BY <3>2 DEF CheckpointsInv, WriterInv
    <3>4. /\ attempt[v].read.version \in Nat
          /\ checkpoint.version \in Nat
      BY <3>2, <3>3 DEF CheckpointsInv, CheckpointsTypeOK, AttemptRecord,
         CheckpointRecord
    <3>5. new.version = checkpoint.version + 1
      BY <1>1, <3>3 DEF NextVersion
    <3>6. QED
      BY <3>3, <3>4, <3>5
  <2>3. QED
    BY <2>1, <2>2
<1>9. QED
  BY <1>3, <1>7, <1>8 DEF CheckpointsInv

LEMMA AdvanceWriteKeepsInv ==
  ASSUME CheckpointsAssumption, CheckpointsInv, NEW w \in Workers,
         AdvanceWrite(w)
  PROVE  CheckpointsInv'
<1> USE DEF Key
<1>1. attempt[w].status = "writing"
  BY DEF AdvanceWrite
<1>2. CASE /\ attempt[w].updated \in answered
           /\ attempt' = [attempt EXCEPT ![w].status = "won"]
           /\ UNCHANGED <<checkpoint, answered>>
  <2>1. CheckpointsTypeOK'
    BY <1>2 DEF CheckpointsInv, CheckpointsTypeOK, AttemptRecord, Statuses
  <2>2. Returned' \subseteq Returned
    BY <1>2 DEF Returned, Won, CheckpointsInv, CheckpointsTypeOK, AttemptRecord
  <2>3. ReturnedInv'
    BY <1>2, <2>2, FewerReturned DEF CheckpointsInv
  <2>4. ASSUME NEW v \in Workers PROVE WriterInv(v)'
    BY <1>2 DEF WriterInv, CheckpointsInv, CheckpointsTypeOK
  <2>5. QED
    BY <2>1, <2>3, <2>4 DEF CheckpointsInv
<1>3. CASE /\ Accepts(checkpoint, attempt[w].read)
           /\ checkpoint' = attempt[w].updated
           /\ answered' \subseteq answered \cup {attempt[w].updated}
           /\ attempt' = [attempt EXCEPT ![w].status = "won"]
  BY <1>1, <1>3, AcceptedWriteKeepsInv
<1>4. CASE /\ attempt' = [attempt EXCEPT ![w].status = "refused"]
           /\ UNCHANGED <<checkpoint, answered>>
  <2>1. CheckpointsTypeOK'
    BY <1>4 DEF CheckpointsInv, CheckpointsTypeOK, AttemptRecord, Statuses
  <2>2. Returned' \subseteq Returned
    BY <1>4 DEF Returned, Won, CheckpointsInv, CheckpointsTypeOK, AttemptRecord
  <2>3. ReturnedInv'
    BY <1>4, <2>2, FewerReturned DEF CheckpointsInv
  <2>4. ASSUME NEW v \in Workers PROVE WriterInv(v)'
    BY <1>4 DEF WriterInv, CheckpointsInv, CheckpointsTypeOK
  <2>5. QED
    BY <2>1, <2>3, <2>4 DEF CheckpointsInv
<1>5. QED
  BY <1>2, <1>3, <1>4 DEF AdvanceWrite

LEMMA ForgetKeepsInv ==
  ASSUME CheckpointsInv, NEW w \in Workers, Forget(w)
  PROVE  CheckpointsInv'
<1>1. CheckpointsTypeOK'
  BY DEF CheckpointsInv, CheckpointsTypeOK, Forget, NoAttempt, AttemptRecord,
     Statuses
<1>2. Returned' \subseteq Returned
  BY DEF Returned, Won, CheckpointsInv, CheckpointsTypeOK, Forget, NoAttempt
<1>3. ReturnedInv'
  BY <1>2, FewerReturned DEF CheckpointsInv, Forget
<1>4. ASSUME NEW v \in Workers PROVE WriterInv(v)'
  BY DEF WriterInv, CheckpointsInv, CheckpointsTypeOK, Forget, NoAttempt
<1>5. QED
  BY <1>1, <1>3, <1>4 DEF CheckpointsInv

LEMMA StepKeepsInv ==
  ASSUME CheckpointsAssumption, CheckpointsInv,
         [CheckpointsNext]_checkpointVars
  PROVE  CheckpointsInv'
<1>1. ASSUME NEW w \in Workers, NEW watermark \in Times, NEW time \in Times,
             NEW expected \in 0 .. MaxCheckpoints - 1,
             AdvanceRead(w, watermark, expected, time)
      PROVE  CheckpointsInv'
  BY <1>1, AdvanceReadKeepsInv
<1>2. ASSUME NEW w \in Workers, AdvanceWrite(w)
      PROVE  CheckpointsInv'
  BY <1>2, AdvanceWriteKeepsInv
<1>3. ASSUME NEW w \in Workers, Forget(w)
      PROVE  CheckpointsInv'
  BY <1>3, ForgetKeepsInv
<1>4. CASE UNCHANGED checkpointVars
  <2>1. CheckpointsTypeOK'
    BY <1>4 DEF checkpointVars, CheckpointsInv, CheckpointsTypeOK
  <2>2. ReturnedInv'
    BY <1>4, FewerReturned DEF checkpointVars, CheckpointsInv, Returned, Won
  <2>3. ASSUME NEW w \in Workers PROVE WriterInv(w)'
    BY <1>4 DEF checkpointVars, CheckpointsInv, WriterInv
  <2>4. QED
    BY <2>1, <2>2, <2>3 DEF CheckpointsInv
<1>5. QED
  BY <1>1, <1>2, <1>3, <1>4 DEF CheckpointsNext

-----------------------------------------------------------------------------
(* The theorems *)

\* The inductive invariant holds of every behavior.
THEOREM CheckpointsInvariance == CheckpointsSpec => []CheckpointsInv
<1>1. CheckpointsInit => CheckpointsInv
  BY InitEstablishesInv
<1>2. CheckpointsInv /\ [CheckpointsNext]_checkpointVars => CheckpointsInv'
  BY CheckpointsAssumption, StepKeepsInv
<1>3. QED
  BY <1>1, <1>2, PTL DEF CheckpointsSpec

\* The checkpoint, the remembered keys and the attempts have their types.
THEOREM CheckpointsTypeCorrect == CheckpointsSpec => []CheckpointsTypeOK
<1>1. CheckpointsInv => CheckpointsTypeOK
  BY DEF CheckpointsInv
<1>2. QED
  BY <1>1, CheckpointsInvariance, PTL

\* Callers that advanced from the same revision were returned the same record.
THEOREM WinnersAlwaysAgree == CheckpointsSpec => []WinnersAgree
<1>1. CheckpointsInv => WinnersAgree
  BY DEF CheckpointsInv, ReturnedInv, Returned, WinnersAgree
<1>2. QED
  BY <1>1, CheckpointsInvariance, PTL

\* A returned checkpoint is stored, or a later one has replaced it.
THEOREM WinnersAreDurable == CheckpointsSpec => []WonIsDurable
<1>1. CheckpointsInv => WonIsDurable
  BY DEF CheckpointsInv, ReturnedInv, Returned, Reached, WonIsDurable
<1>2. QED
  BY <1>1, CheckpointsInvariance, PTL

\* The checkpoint only moves forward, one revision at a time.
THEOREM CheckpointOnlyAdvances == CheckpointsSpec => WatermarkNeverRegresses
<1> DEFINE Forward ==
      checkpoint' # checkpoint =>
        /\ checkpoint' # NoRecord
        /\ checkpoint'.revision = RevisionOf(checkpoint) + 1
        /\ checkpoint # NoRecord =>
             checkpoint'.watermark >= checkpoint.watermark
<1>1. ASSUME CheckpointsInv, [CheckpointsNext]_checkpointVars
      PROVE  [Forward]_checkpointVars
  <2>1. SUFFICES ASSUME NEW w \in Workers, AdvanceWrite(w),
                        checkpoint' # checkpoint
                 PROVE  /\ checkpoint' # NoRecord
                        /\ checkpoint'.revision = RevisionOf(checkpoint) + 1
                        /\ checkpoint # NoRecord =>
                             checkpoint'.watermark >= checkpoint.watermark
    BY <1>1 DEF CheckpointsNext, AdvanceRead, Forget, checkpointVars
  <2>2. /\ attempt[w].status = "writing"
        /\ Accepts(checkpoint, attempt[w].read)
        /\ checkpoint' = attempt[w].updated
    BY <2>1 DEF AdvanceWrite
  <2>3. /\ attempt[w].updated \in CheckpointRecord
        /\ attempt[w].updated.revision = RevisionOf(checkpoint) + 1
        /\ checkpoint # NoRecord =>
             checkpoint.watermark <= attempt[w].updated.watermark
    BY <1>1, <2>2, AcceptedWriteSucceeds
  <2>4. checkpoint # NoRecord =>
          checkpoint.watermark \in Nat /\ attempt[w].updated.watermark \in Nat
    BY <1>1, <2>3 DEF CheckpointsInv, CheckpointsTypeOK, CheckpointRecord
  <2>5. attempt[w].updated # NoRecord
    BY <2>3, CheckpointsAssumption DEF CheckpointsAssumption
  <2>6. QED
    BY <2>2, <2>3, <2>4, <2>5
<1>2. QED
  BY <1>1, CheckpointsInvariance, PTL
  DEF CheckpointsSpec, WatermarkNeverRegresses
=============================================================================
