------------------------- MODULE UsageRecordingProofs -------------------------
(***************************************************************************)
(* UsageRecording for every set of publishers, meters and events: its      *)
(* types, the grounding of corrections, the absence of correction cycles,  *)
(* and the conversion of every stored event by the one content of its      *)
(* meter version, or by a content that callers give for that version.      *)
(* Reads of events may be strong or eventual. Meters and events behave as  *)
(* two instances of ImmutableRecords, whose theorems then hold of them:    *)
(* each is a map that is written once. What a publisher was told is there  *)
(* stays there, and a retry is not refused.                                *)
(***************************************************************************)
EXTENDS UsageRecording, TLAPS

-----------------------------------------------------------------------------
(* The inductive invariant *)

\* The event is an admitted request, normalized under a content that callers
\* give for its meter version, or under the registered one.
NormalEvent(e, given) ==
  /\ e \in Event
  /\ IF given THEN [ref |-> e.meter, content |-> e.under] \in Given
              ELSE meters[e.meter] = e.under
  /\ \E r \in Admits[e.under] : e = Normalized(r, e.trace, e.under)

\* What the event corrects, if anything, is there and fits.
GroundedEvent(e) ==
  e.target # NoRecord =>
    /\ e.target \in Stored
    /\ TargetFits(events[e.target], e)

\* A record call carries a normal event, and a grounded one once it has
\* validated the correction; only such calls use the events' store.
CallInv(w) ==
  /\ recording[w].step \in {"target", "store"} =>
       NormalEvent(recording[w].event, recording[w].meter # NoRecord)
  /\ recording[w].step = "store" =>
       /\ GroundedEvent(recording[w].event)
       /\ eventCall[w].key = recording[w].event.id
       /\ eventCall[w].content = recording[w].event
       /\ eventCall[w].step \in Events!Busy
  /\ eventCall[w].step \in Events!Busy => recording[w].step = "store"

StoredInv ==
  /\ supplied \subseteq Stored
  /\ \A i \in Stored : /\ NormalEvent(events[i], i \in supplied)
                       /\ GroundedEvent(events[i])

RecordingInv ==
  /\ TypeOK
  /\ \A w \in Workers : CallInv(w)
  /\ StoredInv
  /\ CorrectionsAcyclic

-----------------------------------------------------------------------------
(* Meters and events are only added *)

MetersGrow ==
  \A m \in MeterRefs : meters[m] # NoRecord => meters'[m] = meters[m]

EventsGrow ==
  \A i \in EventIds : events[i] # NoRecord => events'[i] = events[i]

LEMMA NormalEventStays ==
  ASSUME RecordingAssumption, MetersGrow, NEW e, NEW given \in BOOLEAN,
         NormalEvent(e, given)
  PROVE  NormalEvent(e, given)'
<1>1. e.meter \in MeterRefs /\ e.under \in MeterContents
  BY DEF NormalEvent, Event
<1>2. ~given => meters'[e.meter] = e.under
  BY <1>1 DEF MetersGrow, NormalEvent, RecordingAssumption
<1>3. QED
  BY <1>2 DEF NormalEvent, Normalized, Captured

LEMMA GroundedEventStays ==
  ASSUME EventsGrow, NEW e, GroundedEvent(e)
  PROVE  GroundedEvent(e)'
BY DEF GroundedEvent, EventsGrow, Stored, TargetFits

\* A step of a register_meter call.
LEMMA RegisterStep ==
  ASSUME RecordingAssumption, TypeOK, NEW w \in Workers,
         \/ \E ref \in MeterRefs, content \in MeterContents :
              Register(w, ref, content)
         \/ ContinueRegister(w)
  PROVE  /\ UNCHANGED <<events, eventCall, recording, published, supplied>>
         /\ Meters!RecordsTypeOK'
         /\ MetersGrow
<1>1. CASE \E ref \in MeterRefs, content \in MeterContents :
             Register(w, ref, content)
  BY <1>1 DEF Register, TypeOK, eventVars, ghosts, MetersGrow, Meters!Start,
     Meters!RecordsTypeOK, Meters!CallRecord, Meters!Busy
<1>2. CASE ContinueRegister(w)
  <2>1. /\ UNCHANGED <<events, eventCall, recording, published, supplied>>
        /\ Meters!Get(w) \/ Meters!Put(w) \/ Meters!Reread(w)
             \/ Meters!Abandon(w)
    BY <1>2 DEF ContinueRegister, eventVars, ghosts
  <2>2. meterCall[w].step \in Meters!Busy
    BY <2>1 DEF Meters!Get, Meters!Put, Meters!Reread, Meters!Abandon,
       Meters!Busy
  <2>3. /\ meterCall[w] \in [step : Meters!Busy \cup Meters!Answers,
                             key : MeterRefs, content : MeterContents]
        /\ meterCall[w].key \in MeterRefs
        /\ meterCall[w].content \in MeterContents
    BY <2>2 DEF TypeOK, Meters!RecordsTypeOK, Meters!CallRecord,
       Meters!NoCall, Meters!Busy
  <2>4. \/ UNCHANGED meters
        \/ /\ meters[meterCall[w].key] = NoRecord
           /\ meters' = [meters EXCEPT ![meterCall[w].key] =
                                         meterCall[w].content]
    BY <2>1 DEF Meters!Get, Meters!Put, Meters!Reread, Meters!Abandon,
       Meters!Writable, Meters!Written
  <2>5. \/ meterCall' = [meterCall EXCEPT ![w] = Meters!NoCall]
        \/ \E s \in Meters!Busy \cup Meters!Answers :
             meterCall' = [meterCall EXCEPT ![w].step = s]
    BY <2>1 DEF Meters!Get, Meters!Put, Meters!Reread, Meters!Abandon,
       Meters!Answer, Meters!Busy, Meters!Answers
  <2>6. meterCall' \in [Workers -> Meters!CallRecord]
    BY <2>3, <2>5 DEF TypeOK, Meters!RecordsTypeOK, Meters!CallRecord
  <2>7. /\ MetersGrow
        /\ meters' \in [MeterRefs -> MeterContents \cup {NoRecord}]
    BY <2>3, <2>4 DEF TypeOK, Meters!RecordsTypeOK, MetersGrow
  <2>8. QED
    BY <2>1, <2>6, <2>7 DEF Meters!RecordsTypeOK
<1>3. QED
  BY <1>1, <1>2

\* The calls of the events' store have the type of their events.
LEMMA EventCallStarts ==
  ASSUME TypeOK, NEW w \in Workers, NEW e \in Event, StoreNext(w, e)
  PROVE  /\ UNCHANGED events
         /\ eventCall' = [eventCall EXCEPT ![w] =
              [step |-> "get", key |-> e.id, content |-> e]]
         /\ Events!RecordsTypeOK'
<1>1. e.id \in EventIds
  BY DEF Event
<1>2. QED
  BY <1>1 DEF StoreNext, Events!Start, TypeOK, Events!RecordsTypeOK,
     Events!CallRecord, Events!Busy

\* A step of the events' store writes the event that the call carries, or
\* nothing.
LEMMA EventCallStep ==
  ASSUME TypeOK, NEW w \in Workers,
         Events!Get(w) \/ Events!Put(w) \/ Events!Reread(w) \/ Events!Abandon(w)
  PROVE  /\ eventCall[w].key \in EventIds
         /\ eventCall[w].content \in Event
         /\ \/ UNCHANGED events
            \/ /\ events[eventCall[w].key] = NoRecord
               /\ events' = [events EXCEPT ![eventCall[w].key] =
                                             eventCall[w].content]
         /\ \/ eventCall' = [eventCall EXCEPT ![w] = Events!NoCall]
            \/ \E s \in Events!Busy \cup Events!Answers :
                 eventCall' = [eventCall EXCEPT ![w].step = s]
         /\ Events!RecordsTypeOK'
<1>1. eventCall[w].step \in Events!Busy
  BY DEF Events!Get, Events!Put, Events!Reread, Events!Abandon, Events!Busy
<1>2. /\ eventCall[w] \in [step : Events!Busy \cup Events!Answers,
                           key : EventIds, content : Event]
      /\ eventCall[w].key \in EventIds
      /\ eventCall[w].content \in Event
  BY <1>1 DEF TypeOK, Events!RecordsTypeOK, Events!CallRecord, Events!NoCall,
     Events!Busy
<1>3. \/ UNCHANGED events
      \/ /\ events[eventCall[w].key] = NoRecord
         /\ events' = [events EXCEPT ![eventCall[w].key] = eventCall[w].content]
  BY DEF Events!Get, Events!Put, Events!Reread, Events!Abandon,
     Events!Writable, Events!Written
<1>4. \/ eventCall' = [eventCall EXCEPT ![w] = Events!NoCall]
      \/ \E s \in Events!Busy \cup Events!Answers :
           eventCall' = [eventCall EXCEPT ![w].step = s]
  BY DEF Events!Get, Events!Put, Events!Reread, Events!Abandon,
     Events!Answer, Events!Busy, Events!Answers
<1>5. eventCall' \in [Workers -> Events!CallRecord]
  BY <1>2, <1>4 DEF TypeOK, Events!RecordsTypeOK, Events!CallRecord
<1>6. events' \in [EventIds -> Event \cup {NoRecord}]
  BY <1>2, <1>3 DEF TypeOK, Events!RecordsTypeOK
<1>7. QED
  BY <1>2, <1>3, <1>4, <1>5, <1>6 DEF Events!RecordsTypeOK

-----------------------------------------------------------------------------
(* What one new event does to the stored ones *)

\* A normal and grounded event that is added keeps the stored ones so.
LEMMA StoredInvKept ==
  ASSUME RecordingAssumption, TypeOK, StoredInv, MetersGrow,
         NEW i \in EventIds, NEW e \in Event, NEW given \in BOOLEAN,
         events[i] = NoRecord, events' = [events EXCEPT ![i] = e],
         supplied' = IF given THEN supplied \cup {i} ELSE supplied,
         NormalEvent(e, given), GroundedEvent(e)
  PROVE  EventsGrow /\ StoredInv'
<1>1. \A j \in EventIds : events'[j] = IF j = i THEN e ELSE events[j]
  BY DEF TypeOK, Events!RecordsTypeOK
<1>2. EventsGrow
  BY <1>1 DEF EventsGrow
<1>3. Stored' = Stored \cup {i} /\ i \notin Stored
  BY <1>1 DEF Stored, RecordingAssumption
<1>4. supplied' \subseteq Stored'
  BY <1>3 DEF StoredInv
<1>5. ASSUME NEW j \in Stored', NEW f, f = events'[j],
             NEW g \in BOOLEAN, g = (j \in supplied')
      PROVE  NormalEvent(f, g)' /\ GroundedEvent(f)'
  <2>1. NormalEvent(f, g) /\ GroundedEvent(f)
    <3>1. CASE j = i
      <4>1. f = e
        BY <1>1, <1>5, <3>1
      <4>2. g = given
        BY <1>3, <1>5, <3>1 DEF StoredInv
      <4>3. QED
        BY <4>1, <4>2
    <3>2. CASE j # i
      <4>1. f = events[j] /\ j \in Stored
        BY <1>1, <1>3, <1>5, <3>2 DEF Stored
      <4>2. g = (j \in supplied)
        BY <1>5, <3>2
      <4>3. QED
        BY <4>1, <4>2 DEF StoredInv
    <3>3. QED
      BY <3>1, <3>2
  <2>2. QED
    BY <1>2, <2>1, NormalEventStays, GroundedEventStays
<1>6. ASSUME NEW j \in Stored'
      PROVE  NormalEvent(events[j], j \in supplied)' /\ GroundedEvent(events[j])'
  <2>1. PICK f : f = events'[j]
    OBVIOUS
  <2>2. CASE j \in supplied'
    <3>1. NormalEvent(f, TRUE)' /\ GroundedEvent(f)'
      BY <1>5, <2>1, <2>2
    <3>2. QED
      BY <2>1, <2>2, <3>1 DEF NormalEvent, GroundedEvent, TargetFits,
         Normalized, Captured
  <2>3. CASE j \notin supplied'
    <3>1. FALSE = (j \in supplied')
      BY <2>3
    <3>2. NormalEvent(f, FALSE)' /\ GroundedEvent(f)'
      BY <1>5, <2>1, <3>1
    <3>3. QED
      BY <2>1, <2>3, <3>2 DEF NormalEvent, GroundedEvent, TargetFits,
         Normalized, Captured
  <2>4. QED
    BY <2>2, <2>3
<1>7. StoredInv'
  BY <1>4, <1>6 DEF StoredInv
<1>8. QED
  BY <1>2, <1>7

\* The new event closes no cycle: nothing stored corrects it yet, and it
\* corrects only what is stored.
LEMMA AcyclicKept ==
  ASSUME RecordingAssumption, TypeOK, StoredInv, CorrectionsAcyclic,
         NEW i \in EventIds, NEW e \in Event,
         events[i] = NoRecord, events' = [events EXCEPT ![i] = e],
         GroundedEvent(e)
  PROVE  CorrectionsAcyclic'
<1>1. \A j \in EventIds : events'[j] = IF j = i THEN e ELSE events[j]
  BY DEF TypeOK, Events!RecordsTypeOK
<1>2. Stored' = Stored \cup {i} /\ i \notin Stored
  BY <1>1 DEF Stored, RecordingAssumption
<1>3. e.target \notin {i}
  BY <1>2 DEF GroundedEvent, RecordingAssumption
<1>4. \A j \in Stored : events'[j] = events[j] /\ events[j].target # i
  BY <1>1, <1>2 DEF StoredInv, GroundedEvent, RecordingAssumption, Stored
<1>5. SUFFICES ASSUME NEW S \in SUBSET Stored', S # {}
               PROVE  \E j \in S : events'[j].target \notin S
  BY DEF CorrectionsAcyclic
<1>6. CASE S \ {i} = {}
  <2>1. S = {i} /\ events'[i] = e
    BY <1>1, <1>5, <1>6
  <2>2. QED
    BY <1>3, <2>1
<1>7. CASE S \ {i} # {}
  <2>1. S \ {i} \in SUBSET Stored
    BY <1>2, <1>5
  <2>2. PICK j \in S \ {i} : events[j].target \notin S \ {i}
    BY <1>7, <2>1 DEF CorrectionsAcyclic
  <2>3. events'[j].target \notin S
    BY <1>4, <2>1, <2>2
  <2>4. QED
    BY <2>3
<1>8. QED
  BY <1>6, <1>7

\* A step that stores nothing keeps what is said of the stored events.
LEMMA NothingStored ==
  ASSUME RecordingAssumption, StoredInv, CorrectionsAcyclic, MetersGrow,
         UNCHANGED <<events, supplied>>
  PROVE  EventsGrow /\ StoredInv' /\ CorrectionsAcyclic'
<1>1. EventsGrow /\ Stored' = Stored
  BY DEF EventsGrow, Stored
<1>2. ASSUME NEW i \in Stored
      PROVE  NormalEvent(events[i], i \in supplied)' /\ GroundedEvent(events[i])'
  <2>1. PICK f : f = events[i] /\ f = events'[i]
    OBVIOUS
  <2>2. NormalEvent(f, i \in supplied) /\ GroundedEvent(f)
    BY <2>1 DEF StoredInv
  <2>3. GroundedEvent(f)'
    BY <1>1, <2>2, GroundedEventStays
  <2>4. NormalEvent(events[i], i \in supplied)'
    <3>1. CASE i \in supplied
      BY <2>1, <2>2, <3>1 DEF NormalEvent, Normalized, Captured
    <3>2. CASE i \notin supplied
      <4>1. NormalEvent(f, FALSE)
        BY <2>2, <3>2 DEF NormalEvent
      <4>2. NormalEvent(f, FALSE)'
        BY <4>1, NormalEventStays
      <4>3. QED
        BY <2>1, <3>2, <4>2 DEF NormalEvent, Normalized, Captured
    <3>3. QED
      BY <3>1, <3>2
  <2>5. GroundedEvent(events[i])'
    BY <2>1, <2>3 DEF GroundedEvent, TargetFits
  <2>6. QED
    BY <2>4, <2>5
<1>3. StoredInv'
  BY <1>1, <1>2 DEF StoredInv
<1>4. CorrectionsAcyclic'
  BY <1>1 DEF CorrectionsAcyclic
<1>5. QED
  BY <1>1, <1>3, <1>4

\* The calls of the workers that do not move stay as they were.
LEMMA OtherCallsStay ==
  ASSUME RecordingAssumption, MetersGrow, EventsGrow,
         NEW v \in Workers, CallInv(v),
         recording'[v] = recording[v], eventCall'[v] = eventCall[v]
  PROVE  CallInv(v)'
<1>1. PICK e, g : e = recording[v].event /\ g = (recording[v].meter # NoRecord)
  OBVIOUS
<1>2. /\ NormalEvent(e, g) => NormalEvent(e, g)'
      /\ GroundedEvent(e) => GroundedEvent(e)'
  BY <1>1, NormalEventStays, GroundedEventStays
<1>3. /\ recording[v].step \in {"target", "store"} =>
           NormalEvent(recording[v].event, recording[v].meter # NoRecord)'
      /\ recording[v].step = "store" => GroundedEvent(recording[v].event)'
  BY <1>1, <1>2 DEF CallInv, NormalEvent, GroundedEvent, TargetFits,
     Normalized, Captured
<1>4. QED
  BY <1>3 DEF CallInv, Events!Busy

\* What a step of worker w must show when it stores nothing.
LEMMA QuietStepKeepsInv ==
  ASSUME RecordingAssumption, RecordingInv, NEW w \in Workers,
         UNCHANGED <<events, supplied>>, MetersGrow, TypeOK', CallInv(w)',
         \A v \in Workers \ {w} : /\ recording'[v] = recording[v]
                                  /\ eventCall'[v] = eventCall[v]
  PROVE  RecordingInv'
<1>1. EventsGrow /\ StoredInv' /\ CorrectionsAcyclic'
  BY NothingStored DEF RecordingInv
<1>2. ASSUME NEW v \in Workers PROVE CallInv(v)'
  BY <1>1, OtherCallsStay DEF RecordingInv
<1>3. QED
  BY <1>1, <1>2 DEF RecordingInv

\* The worker's next local state, and the types it needs.
LEMMA RecordingUpdated ==
  ASSUME TypeOK, NEW w \in Workers, NEW r \in RecordingState,
         recording' = [recording EXCEPT ![w] = r]
  PROVE  /\ recording' \in [Workers -> RecordingState]
         /\ recording'[w] = r
         /\ \A v \in Workers \ {w} : recording'[v] = recording[v]
BY DEF TypeOK

-----------------------------------------------------------------------------
(* One lemma per action *)

LEMMA RegisterKeepsInv ==
  ASSUME RecordingAssumption, RecordingInv, NEW w \in Workers,
         \/ \E ref \in MeterRefs, content \in MeterContents :
              Register(w, ref, content)
         \/ ContinueRegister(w)
  PROVE  RecordingInv'
<1>1. /\ UNCHANGED <<events, eventCall, recording, published, supplied>>
      /\ Meters!RecordsTypeOK'
      /\ MetersGrow
  BY RegisterStep DEF RecordingInv
<1>2. TypeOK'
  BY <1>1 DEF RecordingInv, TypeOK, Events!RecordsTypeOK
<1>3. EventsGrow
  BY <1>1 DEF EventsGrow
<1>4. CallInv(w)'
  BY <1>1, <1>3, OtherCallsStay DEF RecordingInv
<1>5. QED
  BY <1>1, <1>2, <1>4, QuietStepKeepsInv

LEMMA RecordKeepsInv ==
  ASSUME RecordingAssumption, RecordingInv, NEW w \in Workers,
         NEW request \in Requests, NEW meter \in MeterArgument,
         Record(w, request, meter)
  PROVE  RecordingInv'
<1> DEFINE r == [step |-> "meter", request |-> request, meter |-> meter,
                 event |-> NoRecord]
<1>1. /\ recording' = [recording EXCEPT ![w] = r]
      /\ UNCHANGED <<meters, meterCall, events, eventCall, published, supplied>>
      /\ recording[w].step = "off"
  BY DEF Record, Free, meterVars, eventVars, ghosts
<1>2. r \in RecordingState /\ r.step = "meter"
  BY DEF RecordingState
<1> HIDE DEF r
<1>3. /\ recording' \in [Workers -> RecordingState]
      /\ recording'[w] = r
      /\ \A v \in Workers \ {w} : recording'[v] = recording[v]
  BY <1>1, <1>2, RecordingUpdated DEF RecordingInv
<1>4. TypeOK' /\ MetersGrow
  BY <1>1, <1>3 DEF RecordingInv, TypeOK, Events!RecordsTypeOK,
     Meters!RecordsTypeOK, MetersGrow
<1>5. CallInv(w)'
  BY <1>1, <1>2, <1>3 DEF RecordingInv, CallInv, Events!Busy
<1>6. QED
  BY <1>1, <1>3, <1>4, <1>5, QuietStepKeepsInv

\* A record call that raises before it has reached the events' store.
LEMMA RaiseKeepsInv ==
  ASSUME RecordingAssumption, RecordingInv, NEW w \in Workers,
         recording[w].step \in {"meter", "target"}, Raise(w),
         UNCHANGED <<meters, meterCall, published, supplied>>
  PROVE  RecordingInv'
<1>1. /\ recording' = [recording EXCEPT ![w] = NotRecording]
      /\ UNCHANGED <<events, eventCall>>
  BY DEF Raise, eventVars
<1>2. NotRecording \in RecordingState /\ NotRecording.step = "off"
  BY DEF RecordingState, NotRecording
<1>3. /\ recording' \in [Workers -> RecordingState]
      /\ recording'[w] = NotRecording
      /\ \A v \in Workers \ {w} : recording'[v] = recording[v]
  BY <1>1, <1>2, RecordingUpdated DEF RecordingInv
<1>4. TypeOK' /\ MetersGrow
  BY <1>1, <1>3 DEF RecordingInv, TypeOK, Events!RecordsTypeOK,
     Meters!RecordsTypeOK, MetersGrow
<1>5. CallInv(w)'
  BY <1>1, <1>2, <1>3 DEF RecordingInv, CallInv, Events!Busy
<1>6. QED
  BY <1>1, <1>3, <1>4, <1>5, QuietStepKeepsInv

\* A record call that goes on to the events' store with an event.
LEMMA StoreNextKeepsInv ==
  ASSUME RecordingAssumption, RecordingInv, NEW w \in Workers,
         NEW e \in Event, NEW request \in Requests, NEW meter \in MeterArgument,
         NormalEvent(e, meter # NoRecord), GroundedEvent(e), StoreNext(w, e),
         recording' = [recording EXCEPT ![w] =
           [step |-> "store", request |-> request, meter |-> meter,
            event |-> e]],
         UNCHANGED <<meters, meterCall, published, supplied>>
  PROVE  RecordingInv'
<1> DEFINE r == [step |-> "store", request |-> request, meter |-> meter,
                 event |-> e]
           c == [step |-> "get", key |-> e.id, content |-> e]
<1>1. /\ UNCHANGED events
      /\ eventCall' = [eventCall EXCEPT ![w] = c]
      /\ Events!RecordsTypeOK'
  BY EventCallStarts DEF RecordingInv
<1>2. /\ r \in RecordingState
      /\ r.step = "store" /\ r.event = e /\ r.meter = meter
  BY DEF RecordingState
<1>3. c.step = "get" /\ c.key = e.id /\ c.content = e
  OBVIOUS
<1> HIDE DEF r, c
<1>4. recording' = [recording EXCEPT ![w] = r]
  BY DEF r
<1>5. /\ recording' \in [Workers -> RecordingState]
      /\ recording'[w] = r
      /\ \A v \in Workers \ {w} : recording'[v] = recording[v]
  BY <1>2, <1>4, RecordingUpdated DEF RecordingInv
<1>6. /\ eventCall'[w] = c
      /\ \A v \in Workers \ {w} : eventCall'[v] = eventCall[v]
  BY <1>1 DEF RecordingInv, TypeOK, Events!RecordsTypeOK
<1>7. TypeOK' /\ MetersGrow /\ EventsGrow
  BY <1>1, <1>5 DEF RecordingInv, TypeOK, Meters!RecordsTypeOK, MetersGrow,
     EventsGrow
<1>8. NormalEvent(e, meter # NoRecord)' /\ GroundedEvent(e)'
  BY <1>7, NormalEventStays, GroundedEventStays
<1>9. CallInv(w)'
  <2>1. /\ recording'[w].step = "store" /\ recording'[w].event = e
        /\ recording'[w].meter = meter
    BY <1>2, <1>5
  <2>2. /\ eventCall'[w].step = "get" /\ eventCall'[w].content = e
        /\ eventCall'[w].key = e.id
    BY <1>3, <1>6
  <2>3. /\ NormalEvent(recording[w].event, recording[w].meter # NoRecord)'
        /\ GroundedEvent(recording[w].event)'
    BY <1>8, <2>1 DEF NormalEvent, GroundedEvent, Normalized, Captured,
       TargetFits
  <2>4. QED
    BY <2>1, <2>2, <2>3 DEF CallInv, Events!Busy
<1>10. QED
  BY <1>1, <1>5, <1>6, <1>7, <1>9, QuietStepKeepsInv

\* Normalizing an admitted request gives a normal event.
LEMMA NormalizedIsNormal ==
  ASSUME RecordingAssumption, TypeOK, NEW request \in Requests,
         NEW meter \in MeterArgument, NEW trace \in Traces,
         SuppliedFor(request, meter),
         Admitted(Selected(request, meter), request)
  PROVE  LET event == Normalized(request, trace, Selected(request, meter))
         IN  event \in Event /\ NormalEvent(event, meter # NoRecord)
<1> DEFINE content == Selected(request, meter)
           event == Normalized(request, trace, content)
<1>1. request \in Request
  BY DEF RecordingAssumption
<1>2. content \in MeterContents
  BY <1>1 DEF Admitted, TypeOK, Meters!RecordsTypeOK, Request, Selected,
     MeterArgument, RecordingAssumption
<1>3. Captured(request, trace) \in Traces
  BY <1>1 DEF Captured, Request
<1>4. /\ meter # NoRecord => [ref |-> request.meter, content |-> content] \in Given
      /\ meter = NoRecord => meters[request.meter] = content
  BY DEF SuppliedFor, Selected, MeterArgument, RecordingAssumption
<1>5. request \in Admits[content]
  BY DEF Admitted
<1> HIDE DEF content
<1>6. event \in Event
  BY <1>1, <1>2, <1>3 DEF Normalized, Event, Request
<1>7. /\ event.meter = request.meter /\ event.under = content
      /\ event.trace = Captured(request, trace)
  BY DEF Normalized
<1>8. event = Normalized(request, event.trace, event.under)
  BY <1>7 DEF Normalized, Captured
<1> HIDE DEF event
<1>9. NormalEvent(event, meter # NoRecord)
  BY <1>4, <1>5, <1>6, <1>7, <1>8 DEF NormalEvent
<1>10. QED
  BY <1>6, <1>9 DEF event, content

\* The call's next local state, spelled out.
LEMMA CarriedState ==
  ASSUME NEW w \in Workers, NEW step, NEW e, Carry(w, step, e),
         NEW request, request = recording[w].request,
         NEW meter, meter = recording[w].meter
  PROVE  recording' = [recording EXCEPT ![w] =
           [step |-> step, request |-> request, meter |-> meter, event |-> e]]
BY DEF Carry

LEMMA ReadMeterKeepsInv ==
  ASSUME RecordingAssumption, RecordingInv, NEW w \in Workers, ReadMeter(w)
  PROVE  RecordingInv'
<1> DEFINE request == recording[w].request
           meter == recording[w].meter
           content == Selected(request, meter)
           event(trace) == Normalized(request, trace, content)
<1>1. /\ recording[w].step = "meter"
      /\ UNCHANGED <<meters, meterCall, published, supplied>>
  BY DEF ReadMeter, meterVars, ghosts
<1>2. /\ recording[w] \in [step : {"meter"}, request : Requests,
                           meter : MeterArgument, event : {NoRecord}]
      /\ request \in Requests /\ meter \in MeterArgument
  BY <1>1 DEF RecordingInv, TypeOK, RecordingState, NotRecording
<1>3. CASE Raise(w)
  BY <1>1, <1>3, RaiseKeepsInv
<1>4. CASE /\ SuppliedFor(request, meter) /\ Admitted(content, request)
           /\ \E trace \in Traces :
                \/ /\ event(trace).target = NoRecord
                   /\ StoreNext(w, event(trace))
                   /\ Carry(w, "store", event(trace))
                \/ /\ event(trace).target # NoRecord
                   /\ Carry(w, "target", event(trace))
                   /\ UNCHANGED eventVars
  <2>1. PICK trace \in Traces :
          \/ /\ event(trace).target = NoRecord
             /\ StoreNext(w, event(trace))
             /\ Carry(w, "store", event(trace))
          \/ /\ event(trace).target # NoRecord
             /\ Carry(w, "target", event(trace))
             /\ UNCHANGED eventVars
    BY <1>4
  <2>2. PICK e, q, g : e = event(trace) /\ q = request /\ g = meter
    OBVIOUS
  <2>3. /\ e \in Event /\ NormalEvent(e, g # NoRecord)
        /\ q \in Requests /\ g \in MeterArgument
    BY <1>2, <1>4, <2>2, NormalizedIsNormal DEF RecordingInv
  <2>4. ASSUME NEW step, Carry(w, step, e)
        PROVE  recording' = [recording EXCEPT ![w] =
                 [step |-> step, request |-> q, meter |-> g, event |-> e]]
    BY <2>2, <2>4, CarriedState
  <2>5. CASE /\ e.target = NoRecord
             /\ StoreNext(w, e)
             /\ Carry(w, "store", e)
    <3>1. GroundedEvent(e)
      BY <2>5 DEF GroundedEvent
    <3>2. recording' = [recording EXCEPT ![w] =
            [step |-> "store", request |-> q, meter |-> g, event |-> e]]
      BY <2>4, <2>5
    <3>3. QED
      BY <1>1, <2>3, <2>5, <3>1, <3>2, StoreNextKeepsInv
  <2>6. CASE /\ Carry(w, "target", e)
             /\ UNCHANGED eventVars
    <3> DEFINE r == [step |-> "target", request |-> q, meter |-> g, event |-> e]
    <3>1. recording' = [recording EXCEPT ![w] = r]
      BY <2>4, <2>6
    <3>2. /\ r \in RecordingState
          /\ r.step = "target" /\ r.event = e /\ r.meter = g
      BY <2>3 DEF RecordingState
    <3> HIDE DEF r
    <3>3. /\ recording' \in [Workers -> RecordingState]
          /\ recording'[w] = r
          /\ \A v \in Workers \ {w} : recording'[v] = recording[v]
      BY <3>1, <3>2, RecordingUpdated DEF RecordingInv
    <3>4. UNCHANGED <<events, eventCall>> /\ TypeOK' /\ MetersGrow
      BY <1>1, <2>6, <3>3 DEF RecordingInv, TypeOK, Events!RecordsTypeOK,
         Meters!RecordsTypeOK, MetersGrow, eventVars
    <3>5. NormalEvent(e, g # NoRecord)'
      BY <2>3, <3>4, NormalEventStays
    <3>6. /\ recording'[w].step = "target" /\ recording'[w].event = e
          /\ recording'[w].meter = g
      BY <3>2, <3>3
    <3>7. NormalEvent(recording[w].event, recording[w].meter # NoRecord)'
      BY <3>5, <3>6 DEF NormalEvent, Normalized, Captured
    <3>8. eventCall'[w].step \notin Events!Busy
      BY <1>1, <3>4 DEF RecordingInv, CallInv
    <3>9. CallInv(w)'
      BY <3>6, <3>7, <3>8 DEF CallInv, Events!Busy
    <3>10. QED
      BY <1>1, <3>3, <3>4, <3>9, QuietStepKeepsInv
  <2>7. QED
    BY <2>1, <2>2, <2>5, <2>6
<1>5. QED
  BY <1>3, <1>4 DEF ReadMeter

LEMMA ReadTargetKeepsInv ==
  ASSUME RecordingAssumption, RecordingInv, NEW w \in Workers, ReadTarget(w)
  PROVE  RecordingInv'
<1>1. /\ recording[w].step = "target"
      /\ UNCHANGED <<meters, meterCall, published, supplied>>
  BY DEF ReadTarget, meterVars, ghosts
<1>2. PICK e, q, g : /\ e = recording[w].event /\ q = recording[w].request
                     /\ g = recording[w].meter
  OBVIOUS
<1>3. /\ recording[w] \in [step : {"target", "store", "off"},
                           request : Requests, meter : MeterArgument,
                           event : Event]
      /\ q \in Requests /\ g \in MeterArgument /\ e \in Event
  BY <1>1, <1>2 DEF RecordingInv, TypeOK, RecordingState, NotRecording
<1>4. NormalEvent(e, g # NoRecord)
  BY <1>1, <1>2 DEF RecordingInv, CallInv
<1>5. PICK target \in Events!Visible(e.target) :
        \/ Raise(w)
        \/ /\ TargetFits(target, e)
           /\ StoreNext(w, e)
           /\ recording' = [recording EXCEPT ![w].step = "store"]
  BY <1>2 DEF ReadTarget
<1>6. CASE Raise(w)
  BY <1>1, <1>6, RaiseKeepsInv
<1>7. CASE /\ TargetFits(target, e)
           /\ StoreNext(w, e)
           /\ recording' = [recording EXCEPT ![w].step = "store"]
  <2>1. target = events[e.target] /\ target # NoRecord
    BY <1>5, <1>7 DEF TargetFits, Events!Visible
  <2>2. GroundedEvent(e)
    BY <1>3, <1>7, <2>1 DEF GroundedEvent, Stored, Event
  <2> DEFINE next ==
        [step |-> "store", request |-> q, meter |-> g, event |-> e]
  <2>3. [recording[w] EXCEPT !.step = "store"] = next
    BY <1>2, <1>3
  <2>4. recording' = [recording EXCEPT ![w] = next]
    BY <1>7, <2>3
  <2>5. QED
    BY <1>1, <1>3, <1>4, <1>7, <2>2, <2>4, StoreNextKeepsInv
<1>8. QED
  BY <1>5, <1>6, <1>7

\* A step of a call in the events' store, whether it goes on, ends or dies.
LEMMA StoreStepKeepsInv ==
  ASSUME RecordingAssumption, RecordingInv, NEW w \in Workers,
         recording[w].step = "store",
         Events!Get(w) \/ Events!Put(w) \/ Events!Reread(w) \/ Events!Abandon(w),
         NEW r \in RecordingState,
         recording' = [recording EXCEPT ![w] = r],
         \/ r = recording[w] /\ eventCall'[w].step \in Events!Busy
         \/ r.step = "off" /\ eventCall'[w].step \notin Events!Busy,
         UNCHANGED <<meters, meterCall>>, NoteSupplied(w),
         published' \subseteq Arguments
  PROVE  RecordingInv'
<1>1. /\ eventCall[w].key \in EventIds
      /\ eventCall[w].content \in Event
      /\ \/ UNCHANGED events
         \/ /\ events[eventCall[w].key] = NoRecord
            /\ events' = [events EXCEPT ![eventCall[w].key] =
                                          eventCall[w].content]
      /\ \/ eventCall' = [eventCall EXCEPT ![w] = Events!NoCall]
         \/ \E s \in Events!Busy \cup Events!Answers :
              eventCall' = [eventCall EXCEPT ![w].step = s]
      /\ Events!RecordsTypeOK'
  BY EventCallStep DEF RecordingInv
<1>2. /\ recording' \in [Workers -> RecordingState]
      /\ recording'[w] = r
      /\ \A v \in Workers \ {w} : recording'[v] = recording[v]
  BY RecordingUpdated DEF RecordingInv
<1>3. PICK e, g : e = recording[w].event /\ g = recording[w].meter
  OBVIOUS
<1>4. /\ NormalEvent(e, g # NoRecord) /\ GroundedEvent(e)
      /\ eventCall[w].content = e /\ eventCall[w].key = e.id
  BY <1>3 DEF RecordingInv, CallInv
<1>5. TypeOK' /\ MetersGrow
  <2>1. supplied' \subseteq EventIds
    BY <1>1, <1>3, <1>4 DEF RecordingInv, TypeOK, NoteSupplied
  <2>2. QED
    BY <1>1, <1>2, <2>1 DEF RecordingInv, TypeOK, Meters!RecordsTypeOK,
       MetersGrow
<1>6. EventsGrow /\ StoredInv' /\ CorrectionsAcyclic'
  <2>1. CASE UNCHANGED events
    <3>1. UNCHANGED <<events, supplied>>
      BY <2>1 DEF NoteSupplied
    <3>2. QED
      BY <1>5, <3>1, NothingStored DEF RecordingInv
  <2>2. CASE /\ events[eventCall[w].key] = NoRecord
             /\ events' = [events EXCEPT ![eventCall[w].key] =
                                           eventCall[w].content]
    <3>1. /\ e \in Event /\ e.id \in EventIds /\ events[e.id] = NoRecord
          /\ events' = [events EXCEPT ![e.id] = e]
      BY <1>1, <1>4, <2>2
    <3>2. events' # events
      BY <3>1 DEF RecordingInv, TypeOK, Events!RecordsTypeOK,
         RecordingAssumption
    <3>3. supplied' =
            IF g # NoRecord THEN supplied \cup {e.id} ELSE supplied
      BY <1>3, <3>2 DEF NoteSupplied
    <3>4. EventsGrow /\ StoredInv'
      BY <1>4, <1>5, <3>1, <3>3, StoredInvKept DEF RecordingInv
    <3>5. CorrectionsAcyclic'
      BY <1>4, <3>1, AcyclicKept DEF RecordingInv
    <3>6. QED
      BY <3>4, <3>5
  <2>3. QED
    BY <1>1, <2>1, <2>2
<1>7. \A v \in Workers \ {w} : eventCall'[v] = eventCall[v]
  BY <1>1 DEF RecordingInv, TypeOK, Events!RecordsTypeOK
<1>8. CallInv(w)'
  <2>1. CASE r.step = "off" /\ eventCall'[w].step \notin Events!Busy
    BY <1>2, <2>1 DEF CallInv, Events!Busy
  <2>2. CASE r = recording[w] /\ eventCall'[w].step \in Events!Busy
    <3>1. NormalEvent(e, g # NoRecord)' /\ GroundedEvent(e)'
      BY <1>4, <1>5, <1>6, NormalEventStays, GroundedEventStays
    <3>2. /\ recording'[w].step = "store" /\ recording'[w].event = e
          /\ recording'[w].meter = g
      BY <1>2, <1>3, <2>2
    <3>3. eventCall'[w].content = e /\ eventCall'[w].key = e.id
      <4>1. eventCall' # [eventCall EXCEPT ![w] = Events!NoCall]
        BY <2>2 DEF RecordingInv, TypeOK, Events!RecordsTypeOK,
           Events!NoCall, Events!Busy
      <4>2. PICK s \in Events!Busy \cup Events!Answers :
              eventCall' = [eventCall EXCEPT ![w].step = s]
        BY <1>1, <4>1
      <4>3. eventCall[w] \in [step : Events!Busy \cup Events!Answers,
                              key : EventIds, content : Event]
        BY DEF RecordingInv, CallInv, TypeOK, Events!RecordsTypeOK,
           Events!CallRecord, Events!NoCall, Events!Busy
      <4>4. QED
        BY <1>4, <4>2, <4>3 DEF RecordingInv, TypeOK, Events!RecordsTypeOK
    <3>4. /\ NormalEvent(recording[w].event, recording[w].meter # NoRecord)'
          /\ GroundedEvent(recording[w].event)'
      BY <3>1, <3>2 DEF NormalEvent, GroundedEvent, Normalized, Captured,
         TargetFits
    <3>5. QED
      BY <2>2, <3>2, <3>3, <3>4 DEF CallInv
  <2>3. QED
    BY <2>1, <2>2
<1>9. ASSUME NEW v \in Workers PROVE CallInv(v)'
  BY <1>2, <1>5, <1>6, <1>7, <1>8, OtherCallsStay DEF RecordingInv
<1>10. QED
  BY <1>5, <1>6, <1>9 DEF RecordingInv

LEMMA StoreKeepsInv ==
  ASSUME RecordingAssumption, RecordingInv, NEW w \in Workers, Store(w)
  PROVE  RecordingInv'
<1>1. /\ recording[w].step = "store"
      /\ Events!Get(w) \/ Events!Put(w) \/ Events!Reread(w)
      /\ UNCHANGED <<meters, meterCall>> /\ NoteSupplied(w)
  BY DEF Store, meterVars
<1>2. /\ recording[w] \in [step : {"target", "store", "off"},
                           request : Requests, meter : MeterArgument,
                           event : Event]
      /\ recording \in [Workers -> RecordingState]
  BY <1>1 DEF RecordingInv, TypeOK, RecordingState, NotRecording
<1>3. published' \subseteq Arguments
  BY <1>2 DEF Store, RecordingInv, TypeOK, Asked, Arguments
<1>4. CASE eventCall'[w].step \in Events!Busy
  <2>1. recording' = [recording EXCEPT ![w] = recording[w]]
    BY <1>2, <1>4 DEF Store
  <2>2. recording[w] \in RecordingState
    BY <1>2
  <2>3. QED
    BY <1>1, <1>3, <1>4, <2>1, <2>2, StoreStepKeepsInv
<1>5. CASE eventCall'[w].step \notin Events!Busy
  <2> DEFINE r == [recording[w] EXCEPT !.step = "off"]
  <2>1. recording' = [recording EXCEPT ![w] = r]
    BY <1>5 DEF Store
  <2>2. r \in RecordingState /\ r.step = "off"
    BY <1>2 DEF RecordingState
  <2> HIDE DEF r
  <2>3. QED
    BY <1>1, <1>3, <1>5, <2>1, <2>2, StoreStepKeepsInv
<1>6. QED
  BY <1>4, <1>5

LEMMA FailKeepsInv ==
  ASSUME RecordingAssumption, RecordingInv, NEW w \in Workers, Fail(w)
  PROVE  RecordingInv'
<1>1. /\ recording[w].step # "off"
      /\ recording' = [recording EXCEPT ![w] = NotRecording]
      /\ UNCHANGED <<meters, meterCall, published>> /\ NoteSupplied(w)
  BY DEF Fail, meterVars
<1>2. NotRecording \in RecordingState /\ NotRecording.step = "off"
  BY DEF RecordingState, NotRecording
<1>3. CASE recording[w].step = "store"
  <2>1. Events!Abandon(w)
    BY <1>3 DEF Fail
  <2>2. eventCall'[w].step \notin Events!Busy
    BY <2>1 DEF Events!Abandon, Events!NoCall, Events!Busy, RecordingInv,
       TypeOK, Events!RecordsTypeOK
  <2>3. published' \subseteq Arguments
    BY <1>1 DEF RecordingInv, TypeOK
  <2>4. QED
    BY <1>1, <1>2, <1>3, <2>1, <2>2, <2>3, StoreStepKeepsInv
<1>4. CASE recording[w].step # "store"
  <2>1. recording[w].step \in {"meter", "target"}
    BY <1>1, <1>4 DEF RecordingInv, TypeOK, RecordingState, NotRecording
  <2>2. Raise(w)
    BY <1>1, <1>4 DEF Fail, Raise
  <2>3. UNCHANGED supplied
    BY <1>1, <2>2 DEF NoteSupplied, Raise, eventVars
  <2>4. QED
    BY <1>1, <2>1, <2>2, <2>3, RaiseKeepsInv
<1>5. QED
  BY <1>3, <1>4

-----------------------------------------------------------------------------
(* The theorems *)

LEMMA InitEstablishesInv ==
  ASSUME RecordingAssumption, Init
  PROVE  RecordingInv
<1>1. TypeOK
  BY DEF Init, TypeOK, Meters!RecordsInit, Meters!RecordsTypeOK,
     Meters!CallRecord, Events!RecordsInit, Events!RecordsTypeOK,
     Events!CallRecord, RecordingState
<1>2. \A w \in Workers : CallInv(w)
  BY DEF Init, Events!RecordsInit, CallInv, NotRecording, Events!NoCall,
     Events!Busy
<1>3. Stored = {}
  BY DEF Init, Events!RecordsInit, Stored
<1>4. QED
  BY <1>1, <1>2, <1>3 DEF Init, RecordingInv, StoredInv, CorrectionsAcyclic

LEMMA NextKeepsInv ==
  ASSUME RecordingAssumption, RecordingInv, [Next]_vars
  PROVE  RecordingInv'
<1>1. CASE UNCHANGED vars
  <2>1. /\ MetersGrow /\ EventsGrow
        /\ UNCHANGED <<meters, meterCall, events, eventCall, recording,
                       published, supplied>>
    BY <1>1 DEF vars, meterVars, eventVars, ghosts, MetersGrow, EventsGrow
  <2>2. TypeOK'
    BY <2>1 DEF RecordingInv, TypeOK, Events!RecordsTypeOK,
       Meters!RecordsTypeOK
  <2>3. StoredInv' /\ CorrectionsAcyclic'
    BY <2>1, NothingStored DEF RecordingInv
  <2>4. ASSUME NEW v \in Workers PROVE CallInv(v)'
    BY <2>1, OtherCallsStay DEF RecordingInv
  <2>5. QED
    BY <2>2, <2>3, <2>4 DEF RecordingInv
<1>2. CASE Next
  <2>1. PICK w \in Workers :
          \/ \E ref \in MeterRefs, content \in MeterContents :
               Register(w, ref, content)
          \/ ContinueRegister(w)
          \/ \E request \in Requests, meter \in MeterArgument :
               Record(w, request, meter)
          \/ ReadMeter(w)
          \/ ReadTarget(w)
          \/ Store(w)
          \/ Fail(w)
    BY <1>2 DEF Next
  <2>2. QED
    BY <2>1, RegisterKeepsInv, RecordKeepsInv, ReadMeterKeepsInv,
       ReadTargetKeepsInv, StoreKeepsInv, FailKeepsInv
<1>3. QED
  BY <1>1, <1>2

\* The invariant holds throughout.
THEOREM RecordingInvariance == Spec => []RecordingInv
<1>1. Init => RecordingInv
  BY RecordingAssumption, InitEstablishesInv
<1>2. RecordingInv /\ [Next]_vars => RecordingInv'
  BY RecordingAssumption, NextKeepsInv
<1>3. QED
  BY <1>1, <1>2, PTL DEF Spec

\* Every variable keeps its type.
THEOREM TypeCorrect == Spec => []TypeOK
<1>1. RecordingInv => TypeOK
  BY DEF RecordingInv
<1>2. QED
  BY <1>1, RecordingInvariance, PTL

\* Every stored correction's target is stored and fits.
THEOREM CorrectionsStayGrounded == Spec => []CorrectionsGrounded
<1>1. RecordingInv => CorrectionsGrounded
  BY DEF RecordingInv, StoredInv, GroundedEvent, CorrectionsGrounded
<1>2. QED
  BY <1>1, RecordingInvariance, PTL

\* No set of stored events corrects itself in a circle.
THEOREM CorrectionsNeverCycle == Spec => []CorrectionsAcyclic
<1>1. RecordingInv => CorrectionsAcyclic
  BY DEF RecordingInv
<1>2. QED
  BY <1>1, RecordingInvariance, PTL

\* Every stored event was converted by the content its meter version keeps, or,
\* if the call that stored it was given its meter, by a content that callers
\* give for that version.
THEOREM EventsStayUnderMeter == Spec => []StoredUnderMeter
<1>1. RecordingInv => StoredUnderMeter
  BY DEF RecordingInv, StoredInv, NormalEvent, StoredUnderMeter
<1>2. QED
  BY <1>1, RecordingInvariance, PTL

-----------------------------------------------------------------------------
(* Meters and events are immutable records *)

MetersP == INSTANCE ImmutableRecordsProofs WITH
  records <- meters, call <- meterCall,
  Keys <- MeterRefs, Contents <- MeterContents, EventualReads <- FALSE

EventsP == INSTANCE ImmutableRecordsProofs WITH
  records <- events, call <- eventCall, Keys <- EventIds, Contents <- Event

LEMMA MetersAssumptionHolds == MetersP!RecordsAssumption
BY RecordingAssumption DEF RecordingAssumption, MetersP!RecordsAssumption

LEMMA EventsAssumptionHolds == EventsP!RecordsAssumption
BY RecordingAssumption DEF RecordingAssumption, EventsP!RecordsAssumption

\* Only register_meter changes what its calls are about.
LEMMA StepIsMeterStep ==
  ASSUME [Next]_vars
  PROVE  [MetersP!RecordsNext]_(MetersP!recordVars)
<1> USE DEF MetersP!recordVars, MetersP!RecordsNext, meterVars
<1>1. CASE UNCHANGED vars
  BY <1>1 DEF vars
<1>2. ASSUME NEW w \in Workers, NEW ref \in MeterRefs,
             NEW content \in MeterContents, Register(w, ref, content)
      PROVE  MetersP!RecordsNext
  <2>1. MetersP!Start(w, ref, content)
    BY <1>2 DEF Register, Meters!Start, MetersP!Start, Meters!Busy, MetersP!Busy
  <2>2. QED
    BY <2>1
<1>3. ASSUME NEW w \in Workers, ContinueRegister(w)
      PROVE  MetersP!RecordsNext
  <2>1. Meters!Get(w) => MetersP!Get(w)
    BY DEF Meters!Get, MetersP!Get, Meters!Visible, MetersP!Visible,
       Meters!Answer, MetersP!Answer
  <2>2. Meters!Put(w) => MetersP!Put(w)
    BY DEF Meters!Put, MetersP!Put, Meters!Writable, MetersP!Writable,
       Meters!Written, MetersP!Written
  <2>3. Meters!Reread(w) => MetersP!Reread(w)
    BY DEF Meters!Reread, MetersP!Reread, Meters!Visible, MetersP!Visible,
       Meters!Answer, MetersP!Answer
  <2>4. Meters!Abandon(w) => MetersP!Abandon(w)
    BY DEF Meters!Abandon, MetersP!Abandon, Meters!Busy, MetersP!Busy,
       Meters!NoCall, MetersP!NoCall, Meters!Writable, MetersP!Writable,
       Meters!Written, MetersP!Written
  <2>5. QED
    BY <1>3, <2>1, <2>2, <2>3, <2>4 DEF ContinueRegister
<1>4. ASSUME NEW w \in Workers,
             \/ \E request \in Requests, meter \in MeterArgument :
                  Record(w, request, meter)
             \/ ReadMeter(w) \/ ReadTarget(w) \/ Store(w) \/ Fail(w)
      PROVE  UNCHANGED meterVars
  BY <1>4 DEF Record, ReadMeter, ReadTarget, Store, Fail
<1>5. QED
  BY <1>1, <1>2, <1>3, <1>4 DEF Next

\* register_meter is one call of ImmutableRecords after the other.
THEOREM RegisteringIsRecords == Spec => MetersP!RecordsSpec
<1>1. Init => MetersP!RecordsInit
  BY DEF Init, Meters!RecordsInit, MetersP!RecordsInit, Meters!NoCall,
     MetersP!NoCall
<1>2. [Next]_vars => [MetersP!RecordsNext]_(MetersP!recordVars)
  BY StepIsMeterStep
<1>3. QED
  BY <1>1, <1>2, PTL DEF Spec, MetersP!RecordsSpec

\* A call of record() that stores its event calls the events' store for it.
LEMMA StoreNextIsStart ==
  ASSUME NEW w \in Workers, NEW e \in Event, StoreNext(w, e)
  PROVE  EventsP!RecordsNext
<1>1. e.id \in EventIds
  BY DEF Event
<1>2. EventsP!Start(w, e.id, e)
  BY DEF StoreNext, Events!Start, EventsP!Start, Events!Busy, EventsP!Busy
<1>3. QED
  BY <1>1, <1>2 DEF EventsP!RecordsNext

\* Only record() changes what the calls of the events' store are about.
LEMMA StepIsEventStep ==
  ASSUME RecordingAssumption, RecordingInv, [Next]_vars
  PROVE  [EventsP!RecordsNext]_(EventsP!recordVars)
<1> USE DEF EventsP!recordVars, eventVars
<1>1. CASE UNCHANGED vars
  BY <1>1 DEF vars
<1>2. ASSUME NEW w \in Workers,
             \/ \E ref \in MeterRefs, content \in MeterContents :
                  Register(w, ref, content)
             \/ ContinueRegister(w)
             \/ \E request \in Requests, meter \in MeterArgument :
                  Record(w, request, meter)
      PROVE  UNCHANGED eventVars
  BY <1>2 DEF Register, ContinueRegister, Record
<1>3. ASSUME NEW w \in Workers, ReadMeter(w)
      PROVE  EventsP!RecordsNext \/ UNCHANGED eventVars
  <2> DEFINE request == recording[w].request
             meter == recording[w].meter
             content == Selected(request, meter)
  <2>1. recording[w].step = "meter"
    BY <1>3 DEF ReadMeter
  <2>2. request \in Requests /\ meter \in MeterArgument
    BY <2>1 DEF RecordingInv, TypeOK, RecordingState, NotRecording
  <2>3. \/ UNCHANGED eventVars
        \/ /\ SuppliedFor(request, meter) /\ Admitted(content, request)
           /\ \E trace \in Traces :
                StoreNext(w, Normalized(request, trace, content))
    BY <1>3 DEF ReadMeter, Raise
  <2>4. ASSUME SuppliedFor(request, meter), Admitted(content, request),
               NEW trace \in Traces,
               StoreNext(w, Normalized(request, trace, content))
        PROVE  EventsP!RecordsNext
    <3>1. Normalized(request, trace, content) \in Event
      BY <2>2, <2>4, NormalizedIsNormal DEF RecordingInv
    <3>2. QED
      BY <2>4, <3>1, StoreNextIsStart
  <2>5. QED
    BY <2>3, <2>4
<1>4. ASSUME NEW w \in Workers, ReadTarget(w)
      PROVE  EventsP!RecordsNext \/ UNCHANGED eventVars
  <2>1. recording[w].step = "target"
    BY <1>4 DEF ReadTarget
  <2>2. recording[w].event \in Event
    BY <2>1 DEF RecordingInv, TypeOK, RecordingState, NotRecording
  <2>3. StoreNext(w, recording[w].event) \/ UNCHANGED eventVars
    BY <1>4 DEF ReadTarget, Raise
  <2>4. QED
    BY <2>2, <2>3, StoreNextIsStart
<1>5. ASSUME NEW w \in Workers, Store(w) \/ Fail(w)
      PROVE  EventsP!RecordsNext \/ UNCHANGED eventVars
  <2>1. Events!Get(w) => EventsP!Get(w)
    BY DEF Events!Get, EventsP!Get, Events!Visible, EventsP!Visible,
       Events!Answer, EventsP!Answer
  <2>2. Events!Put(w) => EventsP!Put(w)
    BY DEF Events!Put, EventsP!Put, Events!Writable, EventsP!Writable,
       Events!Written, EventsP!Written
  <2>3. Events!Reread(w) => EventsP!Reread(w)
    BY DEF Events!Reread, EventsP!Reread, Events!Visible, EventsP!Visible,
       Events!Answer, EventsP!Answer
  <2>4. Events!Abandon(w) => EventsP!Abandon(w)
    BY DEF Events!Abandon, EventsP!Abandon, Events!Busy, EventsP!Busy,
       Events!NoCall, EventsP!NoCall, Events!Writable, EventsP!Writable,
       Events!Written, EventsP!Written
  <2>5. \/ Events!Get(w) \/ Events!Put(w) \/ Events!Reread(w)
        \/ Events!Abandon(w) \/ UNCHANGED eventVars
    BY <1>5 DEF Store, Fail
  <2>6. QED
    BY <2>1, <2>2, <2>3, <2>4, <2>5 DEF EventsP!RecordsNext
<1>6. QED
  BY <1>1, <1>2, <1>3, <1>4, <1>5 DEF Next

\* record() stores its event by one call of ImmutableRecords after the other.
THEOREM RecordingIsRecords == Spec => EventsP!RecordsSpec
<1>1. Init => EventsP!RecordsInit
  BY DEF Init, Events!RecordsInit, EventsP!RecordsInit, Events!NoCall,
     EventsP!NoCall
<1>2. RecordingInv /\ [Next]_vars => [EventsP!RecordsNext]_(EventsP!recordVars)
  BY RecordingAssumption, StepIsEventStep
<1>3. QED
  BY <1>1, <1>2, RecordingInvariance, PTL DEF Spec, EventsP!RecordsSpec

\* The registered meters are a map that is written once.
THEOREM MetersRefineWriteOnce == Spec => MetersP!RecordsAreFacts
BY RegisteringIsRecords, MetersAssumptionHolds, MetersP!RecordsRefineWriteOnce,
   PTL

\* The recorded events are a map that is written once.
THEOREM EventsRefineWriteOnce == Spec => EventsP!RecordsAreFacts
BY RecordingIsRecords, EventsAssumptionHolds, EventsP!RecordsRefineWriteOnce,
   PTL

\* register_meter returns the meter that is stored, refuses a content only for
\* another one, and tells one caller that it has registered the version.
THEOREM RegisteringTellsTruth ==
  Spec => [](/\ MetersP!AcceptedIsStored
             /\ MetersP!ConflictIsReal
             /\ MetersP!RecordedOnce)
BY RegisteringIsRecords, MetersAssumptionHolds, MetersP!AcceptedRecordsAreStored,
   MetersP!ConflictsAreReal, MetersP!RecordsAreMadeOnce, PTL

\* So does record() with events; its refusals are sure with strong reads only.
THEOREM RecordingTellsTruth ==
  Spec => [](/\ EventsP!AcceptedIsStored
             /\ EventsP!ConflictIsReal
             /\ EventsP!RecordedOnce)
BY RecordingIsRecords, EventsAssumptionHolds, EventsP!AcceptedRecordsAreStored,
   EventsP!ConflictsAreReal, EventsP!RecordsAreMadeOnce, PTL

-----------------------------------------------------------------------------
(* What publishers were told is there and stays there *)

\* The event is what the call's request is converted to, now and for good, by
\* the meter that the call was given or else by the registered one, with a
\* correlation that a call has captured for it.
Sent(asked, e) ==
  LET content == Selected(asked.request, asked.meter) IN
  /\ content # NoRecord
  /\ e = Normalized(asked.request, e.trace, content)

\* A record call carries the event of its request to the store under its id,
\* and its answer is about that event.
CarryCall(w) ==
  recording[w].event # NoRecord =>
    /\ Sent(Asked(w), recording[w].event)
    /\ recording[w].step \in {"store", "off"} =>
         /\ eventCall[w].key = recording[w].event.id
         /\ eventCall[w].content = recording[w].event

\* The request is stored as it was sent.
Kept(asked) ==
  LET e == events[asked.request.id] IN e # NoRecord /\ Sent(asked, e)

PublishedIsKept == \A p \in published : Kept(p)

KeptInv == PublishedIsKept /\ \A w \in Workers : CarryCall(w)

\* Whoever moves, meters and events are only added.
LEMMA StepOnlyAdds ==
  ASSUME RecordingAssumption, RecordingInv, [Next]_vars
  PROVE  MetersGrow /\ EventsGrow
<1>1. MetersP!RecordsTypeOK /\ EventsP!RecordsTypeOK
  BY DEF RecordingInv, TypeOK, Meters!RecordsTypeOK, MetersP!RecordsTypeOK,
     Events!RecordsTypeOK, EventsP!RecordsTypeOK, Meters!CallRecord,
     MetersP!CallRecord, Events!CallRecord, EventsP!CallRecord,
     Meters!Busy, MetersP!Busy, Events!Busy, EventsP!Busy, Meters!Answers,
     MetersP!Answers, Events!Answers, EventsP!Answers, Meters!NoCall,
     MetersP!NoCall, Events!NoCall, EventsP!NoCall
<1>2. /\ [\E k \in MeterRefs, f \in MeterContents :
            MetersP!Facts!Write(k, f)]_meters
      /\ [\E k \in EventIds, f \in Event : EventsP!Facts!Write(k, f)]_events
  BY <1>1, StepIsMeterStep, StepIsEventStep, MetersAssumptionHolds,
     EventsAssumptionHolds, MetersP!StepRefinesWriteOnce,
     EventsP!StepRefinesWriteOnce
<1>3. MetersGrow
  BY <1>1, <1>2 DEF MetersGrow, MetersP!Facts!Write, MetersP!RecordsTypeOK
<1>4. EventsGrow
  BY <1>1, <1>2 DEF EventsGrow, EventsP!Facts!Write, EventsP!RecordsTypeOK
<1>5. QED
  BY <1>3, <1>4

\* Normalizing an admitted request makes an event that is sent for it.
LEMMA NormalizedIsSent ==
  ASSUME NEW asked \in Arguments, NEW trace,
         Admitted(Selected(asked.request, asked.meter), asked.request)
  PROVE  Sent(asked, Normalized(asked.request, trace,
                                Selected(asked.request, asked.meter)))
BY DEF Admitted, Sent, Normalized, Captured

LEMMA SelectedStays ==
  ASSUME RecordingAssumption, MetersGrow, NEW asked \in Arguments,
         Selected(asked.request, asked.meter) # NoRecord
  PROVE  Selected(asked.request, asked.meter)' =
           Selected(asked.request, asked.meter)
<1>1. asked.request.meter \in MeterRefs
  BY DEF RecordingAssumption, Request, Arguments
<1>2. QED
  BY <1>1 DEF Selected, MetersGrow

LEMMA SentStays ==
  ASSUME RecordingAssumption, MetersGrow, NEW asked \in Arguments, NEW e,
         Sent(asked, e)
  PROVE  Sent(asked, e)'
BY SelectedStays DEF Sent, Normalized, Captured

LEMMA KeptStays ==
  ASSUME RecordingAssumption, MetersGrow, EventsGrow, NEW asked \in Arguments,
         Kept(asked)
  PROVE  Kept(asked)'
<1>1. asked.request.id \in EventIds
  BY DEF RecordingAssumption, Request, Arguments
<1>2. events'[asked.request.id] = events[asked.request.id]
  BY <1>1 DEF Kept, EventsGrow
<1>3. PICK e : e = events[asked.request.id]
  OBVIOUS
<1>4. Sent(asked, e)'
  BY <1>3, SentStays DEF Kept
<1>5. QED
  BY <1>2, <1>3, <1>4 DEF Kept, Sent, Normalized, Captured, Selected

\* A call that has an event has its arguments.
LEMMA CarriedHasType ==
  ASSUME RecordingAssumption, TypeOK, NEW w \in Workers,
         recording[w].event # NoRecord
  PROVE  Asked(w) \in Arguments /\ recording[w].event \in Event
BY DEF TypeOK, RecordingState, NotRecording, Asked, Arguments

\* A call that has an event and keeps it, with the same answer of the store.
LEMMA CarryCallStays ==
  ASSUME RecordingAssumption, TypeOK, MetersGrow, NEW v \in Workers,
         CarryCall(v),
         recording'[v].request = recording[v].request,
         recording'[v].meter = recording[v].meter,
         recording'[v].event = recording[v].event,
         recording'[v].step \in {"store", "off"} =>
           recording[v].step \in {"store", "off"},
         eventCall'[v].key = eventCall[v].key,
         eventCall'[v].content = eventCall[v].content
  PROVE  CarryCall(v)'
<1>1. SUFFICES ASSUME recording[v].event # NoRecord PROVE CarryCall(v)'
  BY DEF CarryCall
<1>2. PICK q, e : q = Asked(v) /\ e = recording[v].event
  OBVIOUS
<1>3. q \in Arguments /\ Asked(v)' = q
  BY <1>1, <1>2, CarriedHasType DEF Asked
<1>4. Sent(q, e)'
  BY <1>1, <1>2, <1>3, SentStays DEF CarryCall
<1>5. Sent(Asked(v), recording[v].event)'
  BY <1>2, <1>3, <1>4 DEF Sent, Normalized, Captured, Selected
<1>6. QED
  BY <1>1, <1>5 DEF CarryCall

\* A call that has its event and goes on to the target or to the store.
LEMMA CarryIsCarried ==
  ASSUME RecordingAssumption, TypeOK, MetersGrow, NEW w \in Workers,
         NEW r \in Requests, NEW g \in MeterArgument, NEW e \in Event,
         NEW step \in {"target", "store"},
         Sent([request |-> r, meter |-> g], e),
         recording' = [recording EXCEPT ![w] =
           [step |-> step, request |-> r, meter |-> g, event |-> e]],
         IF step = "store" THEN StoreNext(w, e) ELSE UNCHANGED eventVars
  PROVE  /\ CarryCall(w)'
         /\ \A v \in Workers \ {w} : /\ recording'[v] = recording[v]
                                     /\ eventCall'[v] = eventCall[v]
<1> DEFINE next == [step |-> step, request |-> r, meter |-> g, event |-> e]
<1>1. next \in RecordingState
  BY DEF RecordingState
<1>2. /\ recording'[w] = next
      /\ \A v \in Workers \ {w} : recording'[v] = recording[v]
  BY <1>1, RecordingUpdated
<1>3. /\ \A v \in Workers \ {w} : eventCall'[v] = eventCall[v]
      /\ step = "store" =>
           eventCall'[w].key = e.id /\ eventCall'[w].content = e
  <2>1. CASE step = "store"
    BY <2>1, EventCallStarts DEF TypeOK, Events!RecordsTypeOK
  <2>2. CASE step # "store"
    BY <2>2 DEF eventVars
  <2>3. QED
    BY <2>1, <2>2
<1>4. PICK q : q = [request |-> r, meter |-> g]
  OBVIOUS
<1>5. /\ recording'[w].step = step /\ recording'[w].event = e
      /\ Asked(w)' = q
  BY <1>2, <1>4 DEF Asked
<1>6. q \in Arguments
  BY <1>4 DEF Arguments
<1>7. Sent(q, e)'
  BY <1>4, <1>6, SentStays
<1>8. Sent(Asked(w), recording[w].event)'
  BY <1>5, <1>7 DEF Sent, Normalized, Captured, Selected
<1>9. CarryCall(w)'
  BY <1>3, <1>5, <1>8 DEF CarryCall
<1>10. QED
  BY <1>2, <1>3, <1>9

\* A call that raises has no event any more.
LEMMA RaiseCarriesNothing ==
  ASSUME TypeOK, NEW w \in Workers, Raise(w)
  PROVE  /\ CarryCall(w)'
         /\ \A v \in Workers \ {w} : /\ recording'[v] = recording[v]
                                     /\ eventCall'[v] = eventCall[v]
BY DEF TypeOK, Raise, NotRecording, eventVars, CarryCall

LEMMA ReadMeterCarries ==
  ASSUME RecordingAssumption, RecordingInv, MetersGrow, NEW w \in Workers,
         ReadMeter(w)
  PROVE  /\ CarryCall(w)'
         /\ \A v \in Workers \ {w} : /\ recording'[v] = recording[v]
                                     /\ eventCall'[v] = eventCall[v]
<1>1. recording[w].step = "meter"
  BY DEF ReadMeter
<1>2. PICK r, g : r = recording[w].request /\ g = recording[w].meter
  OBVIOUS
<1>3. r \in Requests /\ g \in MeterArgument
  BY <1>1, <1>2 DEF RecordingInv, TypeOK, RecordingState, NotRecording
<1>4. CASE Raise(w)
  BY <1>4, RaiseCarriesNothing DEF RecordingInv
<1>5. CASE ~Raise(w)
  <2>1. PICK trace \in Traces :
          LET event == Normalized(r, trace, Selected(r, g)) IN
          \/ StoreNext(w, event) /\ Carry(w, "store", event)
          \/ Carry(w, "target", event) /\ UNCHANGED eventVars
    BY <1>2, <1>5 DEF ReadMeter
  <2>2. SuppliedFor(r, g) /\ Admitted(Selected(r, g), r)
    BY <1>2, <1>5 DEF ReadMeter
  <2>3. PICK e, q : /\ e = Normalized(r, trace, Selected(r, g))
                    /\ q = [request |-> r, meter |-> g]
    OBVIOUS
  <2>4. q \in Arguments /\ q.request = r /\ q.meter = g
    BY <1>3, <2>3 DEF Arguments
  <2>5. e \in Event /\ Sent(q, e)
    BY <1>3, <2>2, <2>3, <2>4, NormalizedIsNormal, NormalizedIsSent
    DEF RecordingInv
  <2>6. ASSUME NEW step, Carry(w, step, e)
        PROVE  recording' = [recording EXCEPT ![w] =
                 [step |-> step, request |-> r, meter |-> g, event |-> e]]
    BY <1>2, <2>6, CarriedState
  <2>7. CASE StoreNext(w, e) /\ Carry(w, "store", e)
    BY <1>3, <2>3, <2>5, <2>6, <2>7, CarryIsCarried DEF RecordingInv
  <2>8. CASE Carry(w, "target", e) /\ UNCHANGED eventVars
    BY <1>3, <2>3, <2>5, <2>6, <2>8, CarryIsCarried DEF RecordingInv
  <2>9. QED
    BY <2>1, <2>3, <2>7, <2>8
<1>6. QED
  BY <1>4, <1>5

LEMMA ReadTargetCarries ==
  ASSUME RecordingAssumption, RecordingInv, MetersGrow, NEW w \in Workers,
         CarryCall(w), ReadTarget(w)
  PROVE  /\ CarryCall(w)'
         /\ \A v \in Workers \ {w} : /\ recording'[v] = recording[v]
                                     /\ eventCall'[v] = eventCall[v]
<1>1. recording[w].step = "target"
  BY DEF ReadTarget
<1>2. PICK r, g, e : /\ r = recording[w].request /\ g = recording[w].meter
                     /\ e = recording[w].event
  OBVIOUS
<1>3. /\ recording[w] \in [step : {"target", "store", "off"},
                           request : Requests, meter : MeterArgument,
                           event : Event]
      /\ r \in Requests /\ g \in MeterArgument /\ e \in Event
  BY <1>1, <1>2 DEF RecordingInv, TypeOK, RecordingState, NotRecording
<1>4. Sent([request |-> r, meter |-> g], e)
  BY <1>2, <1>3 DEF CarryCall, RecordingAssumption, Asked
<1>5. \/ Raise(w)
      \/ /\ StoreNext(w, e)
         /\ recording' = [recording EXCEPT ![w].step = "store"]
  BY <1>2 DEF ReadTarget
<1>6. CASE Raise(w)
  BY <1>6, RaiseCarriesNothing DEF RecordingInv
<1>7. CASE /\ StoreNext(w, e)
           /\ recording' = [recording EXCEPT ![w].step = "store"]
  <2>1. [recording[w] EXCEPT !.step = "store"] =
          [step |-> "store", request |-> r, meter |-> g, event |-> e]
    BY <1>2, <1>3
  <2>2. recording' = [recording EXCEPT ![w] =
          [step |-> "store", request |-> r, meter |-> g, event |-> e]]
    BY <1>7, <2>1
  <2>3. QED
    BY <1>3, <1>4, <1>7, <2>2, CarryIsCarried DEF RecordingInv
<1>8. QED
  BY <1>5, <1>6, <1>7

\* The store answers about the event it was called for.
LEMMA StoreCarries ==
  ASSUME RecordingAssumption, RecordingInv, MetersGrow, NEW w \in Workers,
         CarryCall(w), Store(w)
  PROVE  /\ CarryCall(w)'
         /\ Asked(w) \in Arguments /\ Asked(w)' = Asked(w)
         /\ recording'[w].event = recording[w].event
         /\ recording'[w].event # NoRecord
         /\ recording'[w].step \in {"store", "off"}
         /\ \A v \in Workers \ {w} : /\ recording'[v] = recording[v]
                                     /\ eventCall'[v] = eventCall[v]
<1>1. /\ recording[w].step = "store"
      /\ Events!Get(w) \/ Events!Put(w) \/ Events!Reread(w)
  BY DEF Store
<1>2. /\ recording[w] \in [step : {"target", "store", "off"},
                           request : Requests, meter : MeterArgument,
                           event : Event]
      /\ recording \in [Workers -> RecordingState]
      /\ recording[w].event # NoRecord
  BY <1>1 DEF RecordingInv, TypeOK, RecordingState, NotRecording,
     RecordingAssumption
<1>3. /\ recording'[w].request = recording[w].request
      /\ recording'[w].meter = recording[w].meter
      /\ recording'[w].event = recording[w].event
      /\ recording'[w].step \in {"store", "off"}
      /\ \A v \in Workers \ {w} : recording'[v] = recording[v]
  <2>1. \/ recording' = recording
        \/ recording' = [recording EXCEPT ![w].step = "off"]
    BY DEF Store
  <2>2. QED
    BY <1>1, <1>2, <2>1
<1>4. /\ eventCall'[w].key = eventCall[w].key
      /\ eventCall'[w].content = eventCall[w].content
      /\ \A v \in Workers \ {w} : eventCall'[v] = eventCall[v]
  <2>1. \E s : eventCall' = [eventCall EXCEPT ![w].step = s]
    BY <1>1 DEF Events!Get, Events!Put, Events!Reread
  <2>2. /\ eventCall \in [Workers -> Events!CallRecord]
        /\ eventCall[w] \in [step : Events!Busy \cup Events!Answers,
                             key : EventIds, content : Event]
    BY <1>1 DEF RecordingInv, CallInv, TypeOK, Events!RecordsTypeOK,
       Events!CallRecord, Events!NoCall, Events!Busy
  <2>3. QED
    BY <2>1, <2>2
<1>5. CarryCall(w)'
  BY <1>1, <1>3, <1>4, CarryCallStays DEF RecordingInv
<1>6. Asked(w) \in Arguments /\ Asked(w)' = Asked(w)
  BY <1>2, <1>3 DEF Asked, Arguments
<1>7. QED
  BY <1>2, <1>3, <1>4, <1>5, <1>6

\* The other steps carry no event, or leave the call as it is.
LEMMA OtherStepsCarry ==
  ASSUME RecordingAssumption, RecordingInv, MetersGrow, NEW w \in Workers,
         CarryCall(w),
         \/ \E ref \in MeterRefs, content \in MeterContents :
              Register(w, ref, content)
         \/ ContinueRegister(w)
         \/ \E request \in Requests, meter \in MeterArgument :
              Record(w, request, meter)
         \/ Fail(w)
  PROVE  /\ CarryCall(w)'
         /\ \A v \in Workers \ {w} : /\ recording'[v] = recording[v]
                                     /\ eventCall'[v] = eventCall[v]
<1>1. CASE \/ \E ref \in MeterRefs, content \in MeterContents :
                Register(w, ref, content)
           \/ ContinueRegister(w)
  <2>1. UNCHANGED <<eventCall, recording>>
    BY <1>1 DEF Register, ContinueRegister, eventVars
  <2>2. QED
    BY <2>1, CarryCallStays DEF RecordingInv
<1>2. CASE \E request \in Requests, meter \in MeterArgument :
             Record(w, request, meter)
  BY <1>2 DEF Record, eventVars, CarryCall, RecordingInv, TypeOK
<1>3. CASE Fail(w)
  <2>1. /\ recording' = [recording EXCEPT ![w] = NotRecording]
        /\ Events!Abandon(w) \/ UNCHANGED eventCall
    BY <1>3 DEF Fail, eventVars
  <2>2. \A v \in Workers \ {w} : eventCall'[v] = eventCall[v]
    BY <2>1 DEF Events!Abandon, RecordingInv, TypeOK, Events!RecordsTypeOK
  <2>3. QED
    BY <2>1, <2>2 DEF CarryCall, NotRecording, RecordingInv, TypeOK
<1>4. QED
  BY <1>1, <1>2, <1>3

\* A request is published when the store has answered that its event is there.
LEMMA NextKeepsKept ==
  ASSUME RecordingAssumption, RecordingInv, EventsP!AcceptedIsStored', KeptInv,
         [Next]_vars
  PROVE  KeptInv'
<1>1. MetersGrow /\ EventsGrow
  BY StepOnlyAdds
<1>2. \A r \in published : Kept(r)'
  BY <1>1, KeptStays DEF RecordingInv, TypeOK, KeptInv, PublishedIsKept
<1>3. CASE UNCHANGED vars
  <2>1. UNCHANGED <<recording, eventCall, published>>
    BY <1>3 DEF vars, eventVars, ghosts
  <2>2. \A w \in Workers : CarryCall(w)'
    BY <1>1, <2>1, CarryCallStays DEF RecordingInv, KeptInv
  <2>3. QED
    BY <1>2, <2>1, <2>2 DEF KeptInv, PublishedIsKept
<1>4. ASSUME NEW w \in Workers, CarryCall(w)',
             \A v \in Workers \ {w} : /\ recording'[v] = recording[v]
                                      /\ eventCall'[v] = eventCall[v]
      PROVE  \A v \in Workers : CarryCall(v)'
  BY <1>1, <1>4, CarryCallStays DEF RecordingInv, KeptInv
<1>5. ASSUME NEW w \in Workers,
             \/ \E ref \in MeterRefs, content \in MeterContents :
                  Register(w, ref, content)
             \/ ContinueRegister(w)
             \/ \E request \in Requests, meter \in MeterArgument :
                  Record(w, request, meter)
             \/ ReadMeter(w) \/ ReadTarget(w) \/ Fail(w)
      PROVE  KeptInv'
  <2>1. CarryCall(w)
    BY DEF KeptInv
  <2>2. \A v \in Workers : CarryCall(v)'
    BY <1>1, <1>4, <1>5, <2>1, ReadMeterCarries, ReadTargetCarries,
       OtherStepsCarry
  <2>3. UNCHANGED published
    BY <1>5 DEF Register, ContinueRegister, Record, ReadMeter, ReadTarget, Fail,
       ghosts
  <2>4. QED
    BY <1>2, <2>2, <2>3 DEF KeptInv, PublishedIsKept
<1>6. ASSUME NEW w \in Workers, Store(w)
      PROVE  KeptInv'
  <2>1. CarryCall(w)
    BY DEF KeptInv
  <2>2. PICK q, e : q = Asked(w)' /\ e = recording'[w].event
    OBVIOUS
  <2>3. /\ \A v \in Workers : CarryCall(v)'
        /\ q = Asked(w) /\ q \in Arguments /\ e # NoRecord
        /\ recording'[w].step \in {"store", "off"}
    BY <1>1, <1>4, <1>6, <2>1, <2>2, StoreCarries
  <2>4. /\ Sent(q, e)'
        /\ eventCall'[w].key = e.id /\ eventCall'[w].content = e
    BY <2>2, <2>3 DEF CarryCall, Sent, Normalized, Captured, Selected
  <2>5. ASSUME NEW p \in published', p \notin published PROVE Kept(p)'
    <3>1. p = q /\ eventCall'[w].step \in {"recorded", "replayed"}
      BY <1>6, <2>3, <2>5 DEF Store
    <3>2. events'[e.id] = e
      BY <2>4, <3>1 DEF EventsP!AcceptedIsStored
    <3>3. e.id = q.request.id
      BY <2>4 DEF Sent, Normalized
    <3>4. QED
      BY <2>3, <2>4, <3>1, <3>2, <3>3
      DEF Kept, Sent, Normalized, Captured, Selected
  <2>6. QED
    BY <1>2, <2>3, <2>5 DEF KeptInv, PublishedIsKept
<1>7. QED
  BY <1>3, <1>5, <1>6 DEF Next

LEMMA KeptInvariance == Spec => []KeptInv
<1>1. Init => KeptInv
  BY DEF Init, NotRecording, KeptInv, PublishedIsKept, CarryCall
<1>2. RecordingInv /\ EventsP!AcceptedIsStored' /\ KeptInv /\ [Next]_vars
        => KeptInv'
  BY RecordingAssumption, NextKeepsKept
<1>3. Spec => []EventsP!AcceptedIsStored
  BY RecordingTellsTruth, PTL
<1>4. QED
  BY <1>1, <1>2, <1>3, RecordingInvariance, PTL DEF Spec

\* Whatever a publisher was told is recorded is stored as it was sent,
\* converted by the meter that its call was given or else by the one that is
\* registered, and stays so: with strong or eventual reads, and whoever raced
\* it or died.
THEOREM PublishedEventsAreKept == Spec => []PublishedIsKept
<1>1. KeptInv => PublishedIsKept
  BY DEF KeptInv
<1>2. QED
  BY <1>1, KeptInvariance, PTL

\* Every request brings a correlation of its own, so that what a call captures
\* does not show in its event.
OwnTraces == \A r \in Requests : r.trace # NoTrace

\* With strong reads, a publisher that sends again, with the correlation it
\* sent before and to be converted by the same content, what record() has
\* recorded once is never told that it conflicts with what is stored, whoever
\* raced it or died.
THEOREM RetriesAlwaysReplay ==
  OwnTraces /\ ~EventualReads => (Spec => []RetriesReplay)
<1> SUFFICES ASSUME OwnTraces, ~EventualReads PROVE Spec => []RetriesReplay
  OBVIOUS
<1>1. ASSUME RecordingInv, KeptInv, EventsP!ConflictIsReal PROVE RetriesReplay
  <2>1. SUFFICES ASSUME NEW w \in Workers, eventCall[w].step = "conflict",
                        recording[w].step = "off", NEW p \in published,
                        ConvertAlike(p, Asked(w))
                 PROVE  FALSE
    BY DEF RetriesReplay
  <2>2. PICK q, e : q = Asked(w) /\ e = recording[w].event
    OBVIOUS
  <2>3. /\ p.request = q.request /\ p.request \in Requests
        /\ Selected(p.request, p.meter) = Selected(q.request, q.meter)
        /\ p.request # NoRecord
    BY <1>1, <2>1, <2>2, RecordingAssumption
    DEF RecordingInv, TypeOK, RecordingAssumption, ConvertAlike, Arguments
  <2>4. q.request = recording[w].request
    BY <2>2 DEF Asked
  <2>5. e # NoRecord
    BY <1>1, <2>1, <2>2, <2>3, <2>4, RecordingAssumption
    DEF RecordingInv, TypeOK, RecordingState, NotRecording, RecordingAssumption
  <2>6. /\ Sent(q, e)
        /\ eventCall[w].key = e.id /\ eventCall[w].content = e
    BY <1>1, <2>1, <2>2, <2>5 DEF KeptInv, CarryCall
  <2>7. events[e.id] # e
    BY <1>1, <2>1, <2>6 DEF EventsP!ConflictIsReal
  <2>8. Sent(p, events[p.request.id])
    BY <1>1, <2>1 DEF KeptInv, PublishedIsKept, Kept
  <2>9. \A f : Sent(p, f) \/ Sent(q, f) =>
                f = Normalized(p.request, p.request.trace,
                               Selected(p.request, p.meter))
    BY <2>3 DEF Sent, Normalized, Captured, OwnTraces
  <2>10. e.id = p.request.id
    BY <2>3, <2>6 DEF Sent, Normalized
  <2>11. QED
    BY <2>6, <2>7, <2>8, <2>9, <2>10
<1>2. Spec => []EventsP!ConflictIsReal
  BY RecordingTellsTruth, PTL
<1>3. QED
  BY <1>1, <1>2, KeptInvariance, RecordingInvariance, PTL

=============================================================================
