------------------------ MODULE ImmutableRecordsProofs ------------------------
(***************************************************************************)
(* ImmutableRecords for every set of workers, identities and contents,     *)
(* with strong or eventual reads, and whether or not the runtime repeats   *)
(* its answers: what callers are told agrees with what is stored, and what *)
(* is stored is written once.                                              *)
(***************************************************************************)
EXTENDS ImmutableRecords, TLAPS

-----------------------------------------------------------------------------
(* The inductive invariant *)

\* A get that follows a refused put looks for a record that is there.
RefusedPutsFoundRecord ==
  \A w \in Workers :
    call[w].step = "reread" => records[call[w].key] # NoRecord

RecordsInv ==
  /\ RecordsTypeOK
  /\ AcceptedIsStored
  /\ RefusedPutsFoundRecord
  /\ ConflictIsReal
  /\ RecordedOnce

\* A call that is under way has an identity and a content.
LEMMA BusyCallHasType ==
  ASSUME RecordsTypeOK, NEW w \in Workers, call[w].step # "none"
  PROVE  /\ call[w] \in [step : Busy \cup Answers, key : Keys, content : Contents]
         /\ call[w].key \in Keys
         /\ call[w].content \in Contents
         /\ records[call[w].key] \in Contents \cup {NoRecord}
BY DEF RecordsTypeOK, CallRecord, NoCall

\* A step of one call that leaves the store alone keeps the invariant if what
\* the call is told is true.
LEMMA CallStepKeepsInv ==
  ASSUME RecordsAssumption, RecordsInv, NEW w \in Workers,
         NEW c \in CallRecord,
         call' = [call EXCEPT ![w] = c], UNCHANGED records,
         c.step \in {"recorded", "replayed"} => records[c.key] = c.content,
         c.step = "reread" => records[c.key] # NoRecord,
         c.step = "conflict" /\ ~EventualReads =>
           records[c.key] \notin {NoRecord, c.content},
         c.step = "recorded" => RuntimeReplays
  PROVE  RecordsInv'
<1>1. \A v \in Workers : call'[v] = IF v = w THEN c ELSE call[v]
  BY DEF RecordsInv, RecordsTypeOK
<1>2. RecordsTypeOK'
  BY DEF RecordsInv, RecordsTypeOK
<1>3. AcceptedIsStored'
  BY <1>1 DEF RecordsInv, AcceptedIsStored
<1>4. RefusedPutsFoundRecord'
  BY <1>1 DEF RecordsInv, RefusedPutsFoundRecord
<1>5. ConflictIsReal'
  BY <1>1 DEF RecordsInv, ConflictIsReal
<1>6. RecordedOnce'
  BY <1>1 DEF RecordsInv, RecordedOnce
<1>7. QED
  BY <1>2, <1>3, <1>4, <1>5, <1>6 DEF RecordsInv

\* An accepted put keeps the invariant, whether its caller learns of it (c is
\* an answer) or not (c is no call).
LEMMA WriteKeepsInv ==
  ASSUME RecordsAssumption, RecordsInv, NEW w \in Workers,
         call[w].step = "put", Writable(records[call[w].key]),
         records' = Written(w), NEW c,
         call' = [call EXCEPT ![w] = c],
         c = NoCall \/ c = [call[w] EXCEPT !.step = "recorded"]
  PROVE  RecordsInv'
<1>1. /\ call[w] \in [step : Busy \cup Answers, key : Keys, content : Contents]
      /\ call[w].key \in Keys
      /\ call[w].content \in Contents
  BY BusyCallHasType DEF RecordsInv
<1>2. c \in CallRecord /\ c.step \in {"none", "recorded"}
  BY <1>1 DEF CallRecord, NoCall, Answers
<1>3. \A v \in Workers : call'[v] = IF v = w THEN c ELSE call[v]
  BY DEF RecordsInv, RecordsTypeOK
<1>4. \A k \in Keys : records'[k] = IF k = call[w].key THEN call[w].content
                                                       ELSE records[k]
  BY <1>1 DEF Written, RecordsInv, RecordsTypeOK
<1>5. records[call[w].key] = NoRecord /\ call[w].content # NoRecord
  BY <1>1 DEF Writable, RecordsAssumption
<1>6. \A v \in Workers : call[v].step # "none" =>
        /\ call[v].key \in Keys
        /\ call[v].content \in Contents
        /\ call[v].content # NoRecord
  BY BusyCallHasType DEF RecordsInv, RecordsAssumption
<1>7. RecordsTypeOK'
  BY <1>1, <1>2 DEF RecordsInv, RecordsTypeOK, Written
<1>8. AcceptedIsStored'
  <2>1. SUFFICES ASSUME NEW v \in Workers,
                        call'[v].step \in {"recorded", "replayed"}
                 PROVE  records'[call'[v].key] = call'[v].content
    BY DEF AcceptedIsStored
  <2>2. CASE v = w
    BY <1>1, <1>2, <1>3, <1>4, <2>1, <2>2 DEF NoCall
  <2>3. CASE v # w
    BY <1>3, <1>4, <1>5, <1>6, <2>1, <2>3 DEF RecordsInv, AcceptedIsStored
  <2>4. QED
    BY <2>2, <2>3
<1>9. RefusedPutsFoundRecord'
  BY <1>2, <1>3, <1>4, <1>5, <1>6 DEF RecordsInv, RefusedPutsFoundRecord
<1>10. ConflictIsReal'
  <2>1. SUFFICES ASSUME NEW v \in Workers, ~EventualReads,
                        call'[v].step = "conflict"
                 PROVE  records'[call'[v].key] \notin {NoRecord, call'[v].content}
    BY DEF ConflictIsReal
  <2>2. v # w /\ call'[v] = call[v]
    BY <1>2, <1>3, <2>1
  <2>3. records[call[v].key] \notin {NoRecord, call[v].content}
    BY <2>1, <2>2 DEF RecordsInv, ConflictIsReal
  <2>4. QED
    BY <1>4, <1>5, <1>6, <2>1, <2>2, <2>3
<1>11. RecordedOnce'
  <2>1. SUFFICES ASSUME NEW v \in Workers, v # w,
                        call'[v].step = "recorded", call'[w].step = "recorded",
                        call'[v].key = call'[w].key
                 PROVE  FALSE
    BY <1>3 DEF RecordsInv, RecordedOnce
  <2>2. call[v].step = "recorded" /\ call[v].key = call[w].key
    BY <1>1, <1>3, <2>1 DEF NoCall
  <2>3. records[call[w].key] = call[v].content
    BY <2>2 DEF RecordsInv, AcceptedIsStored
  <2>4. QED
    BY <1>5, <1>6, <2>2, <2>3
<1>12. QED
  BY <1>7, <1>8, <1>9, <1>10, <1>11 DEF RecordsInv

-----------------------------------------------------------------------------
(* One lemma per action *)

LEMMA StartKeepsInv ==
  ASSUME RecordsAssumption, RecordsInv, NEW w \in Workers,
         NEW k \in Keys, NEW c \in Contents, Start(w, k, c)
  PROVE  RecordsInv'
<1> DEFINE started == [step |-> "get", key |-> k, content |-> c]
<1>1. started \in CallRecord /\ started.step = "get"
  BY DEF CallRecord, Busy
<1>2. QED
  BY <1>1, CallStepKeepsInv DEF Start

\* What a get finds is stored.
LEMMA VisibleIsStored ==
  ASSUME NEW k, NEW found \in Visible(k)
  PROVE  /\ found # NoRecord => found = records[k]
         /\ ~EventualReads => found = records[k]
BY DEF Visible

LEMMA GetKeepsInv ==
  ASSUME RecordsAssumption, RecordsInv, NEW w \in Workers, Get(w)
  PROVE  RecordsInv'
<1>1. PICK found \in Visible(call[w].key) :
        call' = [call EXCEPT ![w].step =
          IF found = NoRecord THEN "put" ELSE Answer(found, call[w].content)]
  BY DEF Get
<1> DEFINE step == IF found = NoRecord THEN "put"
                   ELSE Answer(found, call[w].content)
           c == [call[w] EXCEPT !.step = step]
<1>2. /\ call[w] \in [step : Busy \cup Answers, key : Keys, content : Contents]
      /\ UNCHANGED records
  BY BusyCallHasType DEF RecordsInv, Get
<1>3. step \in {"put", "replayed", "conflict"}
  BY DEF Answer
<1>4. /\ c \in CallRecord
      /\ c.step = step /\ c.key = call[w].key /\ c.content = call[w].content
  BY <1>2, <1>3 DEF CallRecord, Busy, Answers
<1>5. call' = [call EXCEPT ![w] = c]
  BY <1>1
<1>6. /\ step = "replayed" => records[call[w].key] = call[w].content
      /\ step = "conflict" /\ ~EventualReads =>
           records[call[w].key] \notin {NoRecord, call[w].content}
  BY <1>1, VisibleIsStored DEF Answer
<1> HIDE DEF c, step
<1>7. QED
  BY <1>2, <1>3, <1>4, <1>5, <1>6, CallStepKeepsInv

LEMMA PutKeepsInv ==
  ASSUME RecordsAssumption, RecordsInv, NEW w \in Workers, Put(w)
  PROVE  RecordsInv'
<1>1. /\ call[w].step = "put"
      /\ call[w] \in [step : Busy \cup Answers, key : Keys, content : Contents]
      /\ call[w].content # NoRecord
  BY BusyCallHasType DEF RecordsInv, Put, RecordsAssumption
<1> DEFINE answered == [call[w] EXCEPT !.step = "recorded"]
           refused == [call[w] EXCEPT !.step = "reread"]
<1>2. /\ answered \in CallRecord /\ refused \in CallRecord
      /\ answered.step = "recorded" /\ refused.step = "reread"
      /\ answered.key = call[w].key /\ refused.key = call[w].key
      /\ answered.content = call[w].content
  BY <1>1 DEF CallRecord, Busy, Answers
<1>3. CASE /\ Writable(records[call[w].key])
           /\ records' = Written(w)
           /\ call' = [call EXCEPT ![w].step = "recorded"]
  <2>1. call' = [call EXCEPT ![w] = answered]
    BY <1>3
  <2>2. QED
    BY <1>1, <1>3, <2>1, WriteKeepsInv
<1>4. CASE /\ ~Writable(records[call[w].key])
           /\ call' = [call EXCEPT ![w].step = "reread"]
           /\ UNCHANGED records
  <2>1. call' = [call EXCEPT ![w] = refused]
    BY <1>4
  <2>2. records[call[w].key] # NoRecord
    BY <1>4 DEF Writable
  <2> HIDE DEF refused
  <2>3. QED
    BY <1>2, <1>4, <2>1, <2>2, CallStepKeepsInv
<1>5. CASE /\ RuntimeReplays
           /\ records[call[w].key] = call[w].content
           /\ call' = [call EXCEPT ![w].step = "recorded"]
           /\ UNCHANGED records
  <2>1. call' = [call EXCEPT ![w] = answered]
    BY <1>5
  <2> HIDE DEF answered
  <2>2. QED
    BY <1>2, <1>5, <2>1, CallStepKeepsInv
<1>6. QED
  BY <1>3, <1>4, <1>5 DEF Put

LEMMA RereadKeepsInv ==
  ASSUME RecordsAssumption, RecordsInv, NEW w \in Workers, Reread(w)
  PROVE  RecordsInv'
<1>1. PICK found \in Visible(call[w].key) :
        call' = [call EXCEPT ![w].step = Answer(found, call[w].content)]
  BY DEF Reread
<1> DEFINE step == Answer(found, call[w].content)
           c == [call[w] EXCEPT !.step = step]
<1>2. /\ call[w] \in [step : Busy \cup Answers, key : Keys, content : Contents]
      /\ call[w].content # NoRecord
      /\ UNCHANGED records
      /\ records[call[w].key] # NoRecord
  BY BusyCallHasType
  DEF RecordsInv, Reread, RefusedPutsFoundRecord, RecordsAssumption
<1>3. step \in {"replayed", "conflict"}
  BY DEF Answer
<1>4. /\ c \in CallRecord
      /\ c.step = step /\ c.key = call[w].key /\ c.content = call[w].content
  BY <1>2, <1>3 DEF CallRecord, Busy, Answers
<1>5. call' = [call EXCEPT ![w] = c]
  BY <1>1
<1>6. /\ step = "replayed" => records[call[w].key] = call[w].content
      /\ step = "conflict" /\ ~EventualReads =>
           records[call[w].key] \notin {NoRecord, call[w].content}
  BY <1>1, <1>2, VisibleIsStored DEF Answer
<1> HIDE DEF c, step
<1>7. QED
  BY <1>2, <1>3, <1>4, <1>5, <1>6, CallStepKeepsInv

LEMMA AbandonKeepsInv ==
  ASSUME RecordsAssumption, RecordsInv, NEW w \in Workers, Abandon(w)
  PROVE  RecordsInv'
<1>1. NoCall \in CallRecord /\ NoCall.step = "none"
  BY DEF CallRecord, NoCall
<1>2. CASE UNCHANGED records
  BY <1>1, <1>2, CallStepKeepsInv DEF Abandon
<1>3. CASE /\ call[w].step = "put"
           /\ Writable(records[call[w].key])
           /\ records' = Written(w)
  BY <1>3, WriteKeepsInv DEF Abandon
<1>4. QED
  BY <1>2, <1>3 DEF Abandon

-----------------------------------------------------------------------------
(* The theorems *)

LEMMA InitEstablishesInv == RecordsInit => RecordsInv
<1>1. SUFFICES ASSUME RecordsInit PROVE RecordsInv
  OBVIOUS
<1>2. \A w \in Workers : call[w] = NoCall /\ call[w].step = "none"
  BY <1>1 DEF RecordsInit, NoCall
<1>3. RecordsTypeOK
  BY <1>1 DEF RecordsInit, RecordsTypeOK, CallRecord
<1>4. QED
  BY <1>2, <1>3 DEF RecordsInv, AcceptedIsStored, RefusedPutsFoundRecord,
     ConflictIsReal, RecordedOnce

LEMMA NextKeepsInv ==
  ASSUME RecordsAssumption, RecordsInv, [RecordsNext]_recordVars
  PROVE  RecordsInv'
<1>1. CASE UNCHANGED recordVars
  BY <1>1 DEF recordVars, RecordsInv, RecordsTypeOK, AcceptedIsStored,
     RefusedPutsFoundRecord, ConflictIsReal, RecordedOnce
<1>2. CASE RecordsNext
  <2>1. PICK w \in Workers :
          \/ \E k \in Keys, c \in Contents : Start(w, k, c)
          \/ Get(w)
          \/ Put(w)
          \/ Reread(w)
          \/ Abandon(w)
    BY <1>2 DEF RecordsNext
  <2>2. QED
    BY <2>1, StartKeepsInv, GetKeepsInv, PutKeepsInv, RereadKeepsInv,
       AbandonKeepsInv
<1>3. QED
  BY <1>1, <1>2

\* The invariant holds throughout.
THEOREM RecordsInvariance == RecordsSpec => []RecordsInv
<1>1. RecordsInv /\ [RecordsNext]_recordVars => RecordsInv'
  BY RecordsAssumption, NextKeepsInv
<1>2. QED
  BY <1>1, InitEstablishesInv, PTL DEF RecordsSpec

\* Every variable keeps its type.
THEOREM RecordsTypeCorrect == RecordsSpec => []RecordsTypeOK
<1>1. RecordsInv => RecordsTypeOK
  BY DEF RecordsInv
<1>2. QED
  BY <1>1, RecordsInvariance, PTL

\* A call that returned a record returned the stored one.
THEOREM AcceptedRecordsAreStored == RecordsSpec => []AcceptedIsStored
<1>1. RecordsInv => AcceptedIsStored
  BY DEF RecordsInv
<1>2. QED
  BY <1>1, RecordsInvariance, PTL

\* With strong reads, a refused call met other content.
THEOREM ConflictsAreReal == RecordsSpec => []ConflictIsReal
<1>1. RecordsInv => ConflictIsReal
  BY DEF RecordsInv
<1>2. QED
  BY <1>1, RecordsInvariance, PTL

\* One caller is told that it made the record.
THEOREM RecordsAreMadeOnce == RecordsSpec => []RecordedOnce
<1>1. RecordsInv => RecordedOnce
  BY DEF RecordsInv
<1>2. QED
  BY <1>1, RecordsInvariance, PTL

\* Every step writes one fact that was not there, or none.
LEMMA StepRefinesWriteOnce ==
  ASSUME RecordsTypeOK, [RecordsNext]_recordVars
  PROVE  [\E k \in Keys, f \in Contents : Facts!Write(k, f)]_records
<1>1. SUFFICES ASSUME records' # records
               PROVE  \E k \in Keys, f \in Contents : Facts!Write(k, f)
  OBVIOUS
<1>2. PICK w \in Workers : /\ call[w].step = "put"
                           /\ Writable(records[call[w].key])
                           /\ records' = Written(w)
  BY <1>1 DEF RecordsNext, recordVars, Start, Get, Put, Reread, Abandon
<1>3. call[w].key \in Keys /\ call[w].content \in Contents
  BY <1>2, BusyCallHasType
<1>4. Facts!Write(call[w].key, call[w].content)
  BY <1>2 DEF Facts!Write, Writable, Written
<1>5. QED
  BY <1>3, <1>4

\* The stored records implement a map that is written once.
THEOREM RecordsRefineWriteOnce == RecordsSpec => RecordsAreFacts
<1>1. RecordsInit => Facts!Init
  BY DEF RecordsInit, Facts!Init
<1>2. RecordsInv /\ [RecordsNext]_recordVars
        => [\E k \in Keys, f \in Contents : Facts!Write(k, f)]_records
  BY StepRefinesWriteOnce DEF RecordsInv
<1>3. QED
  BY <1>1, <1>2, RecordsInvariance, PTL
  DEF RecordsSpec, RecordsAreFacts, Facts!WriteOnceSpec
=============================================================================
