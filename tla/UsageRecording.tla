---------------------------- MODULE UsageRecording ----------------------------
(***************************************************************************)
(* Publishers that register meters and record usage events in one scope:   *)
(* register_meter and record of repository.py, with normalize_event,       *)
(* _validate_correction and the events' part of models.py.  Meters and     *)
(* events are ImmutableRecords; a record call reads the meter, unless its  *)
(* caller gives it one, then the target of a correction, and then stores   *)
(* the event.  A meter that is given need not be the registered one.       *)
(*                                                                         *)
(* The value of an event in the canonical unit is a function of the value  *)
(* sent and of the content of the meter, so a stored event keeps both, and *)
(* two contents are two ways to convert.  "domain" is the subject, window  *)
(* and dimensions of an event.                                             *)
(***************************************************************************)
EXTENDS Naturals

CONSTANTS Workers, NoRecord,
          MeterRefs, MeterContents,
          EventIds,
          Requests,        \* the events that publishers construct
          Admits,          \* Admits[m]: the requests that meter m accepts
          Given,           \* the meters that callers give to record()
          Traces,          \* the correlations a call may capture
          NoTrace,         \* the empty correlation
          EventualReads,   \* of events; meters are read strongly
          RuntimeReplays

Domains == {r.domain : r \in Requests}
Values == {r.value : r \in Requests}

Request ==
  [id : EventIds, meter : MeterRefs, domain : Domains, value : Values,
   target : EventIds \cup {NoRecord}, trace : Traces]

Event ==
  [id : EventIds, meter : MeterRefs, domain : Domains, value : Values,
   target : EventIds \cup {NoRecord}, trace : Traces, under : MeterContents]

ASSUME RecordingAssumption ==
  /\ Requests \subseteq Request
  /\ Admits \in [MeterContents -> SUBSET Requests]
  /\ \A g \in Given : /\ g = [ref |-> g.ref, content |-> g.content]
                     /\ g.content \in MeterContents
  /\ NoTrace \in Traces
  /\ NoRecord \notin
       MeterContents \cup EventIds \cup Event \cup Requests \cup Given
  /\ EventualReads \in BOOLEAN
  /\ RuntimeReplays \in BOOLEAN

VARIABLES meters, meterCall,   \* the stored meters, and register_meter
          events, eventCall,   \* the stored events, and record's store calls
          recording,           \* each worker's local state in record()
          published,           \* ghost: what was sent and recorded
          supplied             \* ghost: the events stored by calls that were
                               \* given their meter

meterVars == <<meters, meterCall>>
eventVars == <<events, eventCall>>
ghosts == <<published, supplied>>
vars == <<meterVars, eventVars, recording, ghosts>>

Meters == INSTANCE ImmutableRecords WITH
  records <- meters, call <- meterCall,
  Keys <- MeterRefs, Contents <- MeterContents, EventualReads <- FALSE

Events == INSTANCE ImmutableRecords WITH
  records <- events, call <- eventCall, Keys <- EventIds, Contents <- Event

\* The optional argument meter of record().
MeterArgument == Given \cup {NoRecord}

\* The arguments of a call.
Arguments == [request : Requests, meter : MeterArgument]

NotRecording == [step |-> "off", request |-> NoRecord, meter |-> NoRecord,
                 event |-> NoRecord]

RecordingState ==
  [step : {"meter"}, request : Requests, meter : MeterArgument,
   event : {NoRecord}]
    \cup [step : {"target", "store", "off"}, request : Requests,
          meter : MeterArgument, event : Event]
    \cup {NotRecording}

TypeOK ==
  /\ Meters!RecordsTypeOK
  /\ Events!RecordsTypeOK
  /\ recording \in [Workers -> RecordingState]
  /\ published \subseteq Arguments
  /\ supplied \subseteq EventIds

Init ==
  /\ Meters!RecordsInit
  /\ Events!RecordsInit
  /\ recording = [w \in Workers |-> NotRecording]
  /\ published = {}
  /\ supplied = {}

\* A worker is in one call at a time.
Free(w) == recording[w].step = "off" /\ meterCall[w].step \notin Meters!Busy

-----------------------------------------------------------------------------
(* register_meter *)

Register(w, ref, content) ==
  /\ Free(w)
  /\ Meters!Start(w, ref, content)
  /\ UNCHANGED <<eventVars, recording, ghosts>>

ContinueRegister(w) ==
  /\ Meters!Get(w) \/ Meters!Put(w) \/ Meters!Reread(w) \/ Meters!Abandon(w)
  /\ UNCHANGED <<eventVars, recording, ghosts>>

-----------------------------------------------------------------------------
(* record *)

\* An event cannot be constructed as a correction of itself.
Constructible(request) == request.target # request.id

Record(w, request, meter) ==
  /\ Free(w)
  /\ Constructible(request)
  /\ recording' = [recording EXCEPT ![w] =
       [step |-> "meter", request |-> request, meter |-> meter,
        event |-> NoRecord]]
  /\ UNCHANGED <<meterVars, eventVars, ghosts>>

\* A mutation: the meter that is given need not be of the event's version.
SuppliedForAny(request, meter) == TRUE

\* A meter that is given must be of the version that the event names.
SuppliedFor(request, meter) == meter # NoRecord => meter.ref = request.meter

\* The content of the meter that is given, or else of the registered one.
Selected(request, meter) ==
  IF meter = NoRecord THEN meters[request.meter] ELSE meter.content

\* A mutation: the ambient correlation replaces the caller's.
CapturedAlways(request, trace) == trace

\* with_captured_correlation: only an empty correlation is filled in.
Captured(request, trace) ==
  IF request.trace = NoTrace THEN trace ELSE request.trace

\* A mutation: the value stays in the unit it was sent in.
NormalizedNot(request, trace, content) ==
  [id |-> request.id, meter |-> request.meter, domain |-> request.domain,
   value |-> request.value, target |-> request.target,
   trace |-> Captured(request, trace), under |-> NoRecord]

Normalized(request, trace, content) ==
  [id |-> request.id, meter |-> request.meter, domain |-> request.domain,
   value |-> request.value, target |-> request.target,
   trace |-> Captured(request, trace), under |-> content]

\* The meter is there and accepts the event.
Admitted(content, request) ==
  content # NoRecord /\ request \in Admits[content]

\* The call goes on to look the event up and store it.
StoreNext(w, event) == Events!Start(w, event.id, event)

Raise(w) ==
  /\ recording' = [recording EXCEPT ![w] = NotRecording]
  /\ UNCHANGED eventVars

\* A call that has its normalized event.
Carry(w, step, event) ==
  recording' = [recording EXCEPT ![w] =
    [step |-> step, request |-> @.request, meter |-> @.meter, event |-> event]]

\* normalize_event; the correlation is whatever is ambient in this call.
ReadMeter(w) ==
  LET request == recording[w].request
      meter == recording[w].meter
      content == Selected(request, meter)
      accepted == SuppliedFor(request, meter) /\ Admitted(content, request)
  IN
  /\ recording[w].step = "meter"
  /\ \/ /\ ~accepted   \* UnknownMeter, InvalidUsage, InactiveMeter, ...
        /\ Raise(w)
     \/ /\ accepted
        /\ \E trace \in Traces :
             LET event == Normalized(request, trace, content) IN
             \/ /\ event.target = NoRecord
                /\ StoreNext(w, event)
                /\ Carry(w, "store", event)
             \/ /\ event.target # NoRecord
                /\ Carry(w, "target", event)
                /\ UNCHANGED eventVars
  /\ UNCHANGED <<meterVars, ghosts>>

\* A mutation: a target that is not there is not missed.
TargetFitsUnlessOther(target, event) ==
  target # NoRecord =>
    target.meter = event.meter /\ target.domain = event.domain

\* The target exists and has the subject, meter, window and dimensions of its
\* correction.
TargetFits(target, event) ==
  /\ target # NoRecord
  /\ target.meter = event.meter
  /\ target.domain = event.domain

ReadTarget(w) ==
  LET event == recording[w].event IN
  /\ recording[w].step = "target"
  /\ \E target \in Events!Visible(event.target) :
       \/ /\ ~TargetFits(target, event)          \* InvalidCorrection
          /\ Raise(w)
       \/ /\ TargetFits(target, event)
          /\ StoreNext(w, event)
          /\ recording' = [recording EXCEPT ![w].step = "store"]
  /\ UNCHANGED <<meterVars, ghosts>>

\* What the worker's call was asked to record.
Asked(w) == [request |-> recording[w].request, meter |-> recording[w].meter]

\* Which of the stored events were converted by a meter that was given.
NoteSupplied(w) ==
  supplied' = IF events' = events \/ recording[w].meter = NoRecord
              THEN supplied ELSE supplied \cup {recording[w].event.id}

\* The rest of record(); the call ends when the store has answered.
Store(w) ==
  /\ recording[w].step = "store"
  /\ Events!Get(w) \/ Events!Put(w) \/ Events!Reread(w)
  /\ recording' =
       IF eventCall'[w].step \in Events!Busy THEN recording
       ELSE [recording EXCEPT ![w].step = "off"]
  /\ published' =
       IF eventCall'[w].step \in {"recorded", "replayed"}
       THEN published \cup {Asked(w)} ELSE published
  /\ NoteSupplied(w)
  /\ UNCHANGED meterVars

\* The process dies in record(), or a store call raises.
Fail(w) ==
  /\ recording[w].step # "off"
  /\ IF recording[w].step = "store" THEN Events!Abandon(w)
                                    ELSE UNCHANGED eventVars
  /\ recording' = [recording EXCEPT ![w] = NotRecording]
  /\ NoteSupplied(w)
  /\ UNCHANGED <<meterVars, published>>

Next ==
  \E w \in Workers :
    \/ \E ref \in MeterRefs, content \in MeterContents :
         Register(w, ref, content)
    \/ ContinueRegister(w)
    \/ \E request \in Requests, meter \in MeterArgument :
         Record(w, request, meter)
    \/ ReadMeter(w)
    \/ ReadTarget(w)
    \/ Store(w)
    \/ Fail(w)

Spec == Init /\ [][Next]_vars

-----------------------------------------------------------------------------
Stored == {i \in EventIds : events[i] # NoRecord}

\* The target of every stored correction is stored, in the same domain, however
\* the two events and their retries were interleaved.
CorrectionsGrounded ==
  \A i \in Stored :
    events[i].target # NoRecord =>
      /\ events[i].target \in Stored
      /\ TargetFits(events[events[i].target], events[i])

\* "cycles are impossible": every set of stored events has one that corrects
\* none of the others.  Several publishers, each checking its own target, never
\* close a cycle together.
CorrectionsAcyclic ==
  \A S \in SUBSET Stored :
    S # {} => \E i \in S : events[i].target \notin S

\* A stored event was normalized under the content that its meter version has
\* now and for good, or, if the call that stored it was given its meter, under
\* a content that callers give for that version; and that content accepts it.
\* Two services that register different contents for one meter version and
\* leave it to record() to read it never both convert with theirs.
StoredUnderMeter ==
  \A i \in Stored :
    LET e == events[i] IN
    /\ IF i \in supplied
       THEN [ref |-> e.meter, content |-> e.under] \in Given
       ELSE meters[e.meter] = e.under
    /\ \E r \in Admits[e.under] : e = Normalized(r, e.trace, e.under)

\* Two calls convert one request by one content.
ConvertAlike(p, q) ==
  /\ p.request = q.request
  /\ Selected(p.request, p.meter) = Selected(q.request, q.meter)

\* A publisher that sends again what was recorded once, to be converted by the
\* same content, is not told that it conflicts with what is stored, whether the
\* content is given or registered.
RetriesReplay ==
  \A w \in Workers :
    eventCall[w].step = "conflict" /\ recording[w].step = "off" =>
      \A p \in published : ~ConvertAlike(p, Asked(w))
=============================================================================
