---------------------------- MODULE UsageBatches ----------------------------
(***************************************************************************)
(* Publishers that record batches of events in one scope: record_batch of  *)
(* repository.py.  A call looks for the manifest of its batch id, records  *)
(* the events, one by one (partitioned) or in one transaction (atomic),    *)
(* and then puts the manifest, the one record that says how each event     *)
(* went.  The single events are ImmutableRecords.                          *)
(*                                                                         *)
(* A batch reads its meters and normalizes its events before it reads or   *)
(* writes anything else, so requests hold normalized events that bring     *)
(* their own correlation.  A batch fingerprint stands for its mode and the *)
(* sequence of its events.  "domain" is the subject, meter version, window *)
(* and dimensions of an event.                                             *)
(***************************************************************************)
EXTENDS Naturals, SequencesExt

CONSTANTS Workers, NoRecord,
          EventIds, Domains, Values,
          BatchIds,
          Requests,       \* the batches that publishers send
          MaxBatch,       \* _MAX_BATCH, 1000 in the code
          MaxList,        \* the longest list that has a fingerprint, 256
          EventualReads,  \* of events; manifests are read strongly
          ItemFaults,     \* whether a store call of an item may raise
          MaxFaults       \* bound of calls of record_batch that die

Event == [id : EventIds, domain : Domains, value : Values,
          target : EventIds \cup {NoRecord}]

Modes == {"partitioned", "atomic"}

Request == [batch : BatchIds, mode : Modes, events : Seq(Event)]

ASSUME BatchesAssumption ==
  /\ Requests \subseteq Request
  /\ NoRecord \notin EventIds \cup Event
  /\ MaxBatch \in Nat
  /\ MaxList \in Nat
  /\ EventualReads \in BOOLEAN
  /\ ItemFaults \in BOOLEAN
  /\ MaxFaults \in Nat

VARIABLES events, eventCall,  \* the stored events, and record's store calls
          manifests,          \* the stored manifest of each batch id
          batch,              \* each worker's local state in record_batch()
          faults              \* the calls that died so far

eventVars == <<events, eventCall>>
vars == <<events, eventCall, manifests, batch, faults>>

Events == INSTANCE ImmutableRecords WITH
  records <- events, call <- eventCall, Keys <- EventIds, Contents <- Event,
  RuntimeReplays <- FALSE

\* What a batch says of one event.
Statuses == {"recorded", "replayed", "failed"}

\* The manifests of a batch: one status for each of its events.
ManifestsFor(request) ==
  [mode : {request.mode}, events : {request.events},
   items : [DOMAIN request.events -> Statuses]]

Manifest == UNION {ManifestsFor(request) : request \in Requests}

ASSUME NoManifestAssumption == NoRecord \notin Manifest

Running == {"lookup", "items", "target", "store", "transaction", "manifest"}

\* How a call ends: with a receipt, new or of the manifest found, or an error.
Outcomes == {"recorded", "replayed", "conflict", "invalid", "raised"}

NoBatch == [step |-> "off", request |-> NoRecord, items |-> <<>>]

BatchState ==
  [step : Running \cup Outcomes, request : Requests, items : Seq(Statuses)]
    \cup {NoBatch}

TypeOK ==
  /\ Events!RecordsTypeOK
  /\ manifests \in [BatchIds -> Manifest \cup {NoRecord}]
  /\ batch \in [Workers -> BatchState]
  /\ faults \in 0 .. MaxFaults

Init ==
  /\ Events!RecordsInit
  /\ manifests = [b \in BatchIds |-> NoRecord]
  /\ batch = [w \in Workers |-> NoBatch]
  /\ faults = 0

-----------------------------------------------------------------------------
(* The beginning of a call *)

\* _normalize_batch: one to a thousand events, every id once.
Legal(request) ==
  /\ Len(request.events) \in 1 .. MaxBatch
  /\ \A i, j \in DOMAIN request.events :
       request.events[i].id = request.events[j].id => i = j

\* The batch has a fingerprint: canonical content has no longer lists.
Fingerprintable(request) == Len(request.events) <= MaxList

RecordBatch(w, request) ==
  /\ batch[w].step \notin Running
  /\ batch' = [batch EXCEPT ![w] =
       [step |-> IF Legal(request) /\ Fingerprintable(request)
                 THEN "lookup" ELSE "invalid",
        request |-> request, items |-> <<>>]]
  /\ UNCHANGED <<eventVars, manifests, faults>>

\* A mutation: another batch under the same id is taken for the same batch.
SameBatchId(found, request) == TRUE

\* The batch fingerprints agree.
SameBatch(found, request) ==
  found.mode = request.mode /\ found.events = request.events

\* The end of a call that found a manifest: its receipt is the manifest's.
Replay(w) ==
  LET found == manifests[batch[w].request.batch] IN
  batch' = [batch EXCEPT ![w] =
    IF SameBatch(found, @.request)
    THEN [@ EXCEPT !.step = "replayed", !.items = found.items]
    ELSE [@ EXCEPT !.step = "conflict", !.items = <<>>]]

Lookup(w) ==
  LET request == batch[w].request IN
  /\ batch[w].step = "lookup"
  /\ \/ /\ manifests[request.batch] # NoRecord
        /\ Replay(w)
     \/ /\ manifests[request.batch] = NoRecord
        /\ batch' = [batch EXCEPT ![w].step =
             IF request.mode = "atomic" THEN "transaction" ELSE "items"]
  /\ UNCHANGED <<eventVars, manifests, faults>>

-----------------------------------------------------------------------------
(* The partitioned profile: one event after the other *)

Current(w) == batch[w].request.events[Len(batch[w].items) + 1]

\* A mutation: the first event that fails ends the call.
ItemDoneOrRaised(w, status) ==
  LET items == Append(batch[w].items, status)
      last == Len(items) = Len(batch[w].request.events)
  IN
  batch' = [batch EXCEPT ![w].items = items,
                         ![w].step = IF status = "failed" THEN "raised"
                                     ELSE IF last THEN "manifest" ELSE "items"]

\* The event is done, and the loop goes on whatever became of it.
ItemDone(w, status) ==
  LET items == Append(batch[w].items, status)
      last == Len(items) = Len(batch[w].request.events)
  IN
  batch' = [batch EXCEPT ![w].items = items,
                         ![w].step = IF last THEN "manifest" ELSE "items"]

\* A mutation: a conflicting event is reported as a replay.
StatusLenient(answer) == IF answer = "recorded" THEN answer ELSE "replayed"

\* A mutation: the status is the bare answer of the store.
StatusBare(answer) == answer

\* UsageConflict is caught like every MeridianError.
StatusOf(answer) == IF answer = "conflict" THEN "failed" ELSE answer

\* record() of the next event, to its first store call.
StartItem(w) ==
  LET event == Current(w) IN
  /\ batch[w].step = "items"
  /\ \/ /\ event.target = NoRecord
        /\ Events!Start(w, event.id, event)
        /\ batch' = [batch EXCEPT ![w].step = "store"]
     \/ /\ event.target # NoRecord
        /\ batch' = [batch EXCEPT ![w].step = "target"]
        /\ UNCHANGED eventVars
  /\ UNCHANGED <<manifests, faults>>

\* _validate_correction
Fits(target, event) == target # NoRecord /\ target.domain = event.domain

ReadTarget(w) ==
  LET event == Current(w) IN
  /\ batch[w].step = "target"
  /\ \E target \in Events!Visible(event.target) :
       \/ /\ ~Fits(target, event)
          /\ ItemDone(w, "failed")
          /\ UNCHANGED eventVars
       \/ /\ Fits(target, event)
          /\ Events!Start(w, event.id, event)
          /\ batch' = [batch EXCEPT ![w].step = "store"]
  /\ UNCHANGED <<manifests, faults>>

Store(w) ==
  /\ batch[w].step = "store"
  /\ Events!Get(w) \/ Events!Put(w) \/ Events!Reread(w)
  /\ IF eventCall'[w].step \in Events!Busy
     THEN UNCHANGED batch
     ELSE ItemDone(w, StatusOf(eventCall'[w].step))
  /\ UNCHANGED <<manifests, faults>>

\* A store call of the item raises a MeridianError; its put may have taken
\* effect all the same.
ItemFails(w) ==
  /\ ItemFaults
  /\ batch[w].step \in {"target", "store"}
  /\ IF batch[w].step = "store" THEN Events!Abandon(w) ELSE UNCHANGED eventVars
  /\ ItemDone(w, "failed")
  /\ UNCHANGED <<manifests, faults>>

-----------------------------------------------------------------------------
(* The atomic profile: all events in one transaction of the events resource *)

\* What the i-th record() of the transaction finds under an id.
Within(request, i, id) ==
  IF \E j \in 1 .. i - 1 : request.events[j].id = id
  THEN request.events[CHOOSE j \in 1 .. i - 1 : request.events[j].id = id]
  ELSE events[id]

\* No record() of the transaction raises.
Recordable(request) ==
  \A i \in DOMAIN request.events :
    LET event == request.events[i] IN
    /\ event.target # NoRecord =>
         Fits(Within(request, i, event.target), event)
    /\ events[event.id] \in {NoRecord, event}

\* A mutation: what was written before a failure stays.
WithoutRollback(request) ==
  [id \in EventIds |->
    IF id = request.events[1].id THEN request.events[1] ELSE events[id]]

\* The store after the transaction is rolled back.
RolledBack(request) == events

Committed(request) ==
  [id \in EventIds |->
    Within(request, Len(request.events) + 1, id)]

\* The transaction commits with all events, or raises and leaves nothing.
Transaction(w) ==
  LET request == batch[w].request IN
  /\ batch[w].step = "transaction"
  /\ \/ /\ Recordable(request)
        /\ events' = Committed(request)
        /\ batch' = [batch EXCEPT
             ![w].step = "manifest",
             ![w].items = [i \in DOMAIN request.events |->
               IF events[request.events[i].id] = NoRecord
               THEN "recorded" ELSE "replayed"]]
     \/ /\ ~Recordable(request)
        /\ events' = RolledBack(request)
        /\ batch' = [batch EXCEPT ![w].step = "raised"]
  /\ UNCHANGED <<eventCall, manifests, faults>>

-----------------------------------------------------------------------------
(* The manifest *)

\* A mutation: the put replaces what is stored.
ManifestWritableAlways(stored) == TRUE

\* put if_absent
ManifestWritable(stored) == stored = NoRecord

ManifestOf(w) ==
  [mode |-> batch[w].request.mode, events |-> batch[w].request.events,
   items |-> batch[w].items]

ManifestWritten(w) ==
  [manifests EXCEPT ![batch[w].request.batch] = ManifestOf(w)]

\* Manifests do not change, so that a refused put and the read after it answer
\* as one step.
PutManifest(w) ==
  LET stored == manifests[batch[w].request.batch] IN
  /\ batch[w].step = "manifest"
  /\ \/ /\ ManifestWritable(stored)
        /\ manifests' = ManifestWritten(w)
        /\ batch' = [batch EXCEPT ![w].step = "recorded"]
     \/ /\ ~ManifestWritable(stored)
        /\ Replay(w)
        /\ UNCHANGED manifests
  /\ UNCHANGED <<eventVars, faults>>

-----------------------------------------------------------------------------
\* What a call that dies has done of the store call it was in.
Effect(w) ==
  LET request == batch[w].request IN
  \/ /\ batch[w].step = "store"
     /\ Events!Abandon(w)
     /\ UNCHANGED manifests
  \/ /\ batch[w].step # "store"
     /\ UNCHANGED <<eventVars, manifests>>
  \/ /\ batch[w].step = "transaction"
     /\ Recordable(request)
     /\ events' = Committed(request)
     /\ UNCHANGED <<eventCall, manifests>>
  \/ /\ batch[w].step = "manifest"
     /\ ManifestWritable(manifests[request.batch])
     /\ manifests' = ManifestWritten(w)
     /\ UNCHANGED eventVars

\* The process dies, or a call that no item stands for raises.
Die(w) ==
  /\ batch[w].step \in Running
  /\ faults < MaxFaults
  /\ faults' = faults + 1
  /\ batch' = [batch EXCEPT ![w] = NoBatch]
  /\ Effect(w)

Proceed(w) ==
  \/ Lookup(w)
  \/ StartItem(w)
  \/ ReadTarget(w)
  \/ Store(w)
  \/ ItemFails(w)
  \/ Transaction(w)
  \/ PutManifest(w)

Next ==
  \E w \in Workers :
    \/ \E request \in Requests : RecordBatch(w, request)
    \/ Proceed(w)
    \/ Die(w)

Spec == Init /\ [][Next]_vars

\* A call that runs takes its next step, and a publisher keeps sending a batch,
\* whatever else it sends.
Fairness(publisher, request) ==
  /\ \A w \in Workers : WF_vars(Proceed(w))
  /\ SF_vars(RecordBatch(publisher, request))

-----------------------------------------------------------------------------
(* Properties *)

Made == {b \in BatchIds : manifests[b] # NoRecord}

\* The event that a manifest accounts for in its i-th item, as it is stored.
StoredOf(b, i) == events[manifests[b].events[i].id]

\* An event that a manifest calls recorded or replayed is stored as it was
\* sent, whoever raced the batch and however often it died before the manifest
\* was put.
ManifestIsTrue ==
  \A b \in Made :
    \A i \in DOMAIN manifests[b].items :
         manifests[b].items[i] # "failed" =>
           StoredOf(b, i) = manifests[b].events[i]

\* An event is credited once: one manifest, in one place, says that its batch
\* has recorded it, and the others that it was there.
CreditedOnce ==
  \A b, c \in Made :
    \A i \in DOMAIN manifests[b].items, j \in DOMAIN manifests[c].items :
      /\ manifests[b].items[i] = "recorded"
      /\ manifests[c].items[j] = "recorded"
      /\ manifests[b].events[i].id = manifests[c].events[j].id
      => b = c /\ i = j

\* A receipt tells what the manifest of the batch id tells, also to the call
\* that lost the race to put it and had counted otherwise, and only to a call
\* that sent the same events in the same order and mode.
ReceiptsAgree ==
  \A w \in Workers :
    batch[w].step \in {"recorded", "replayed"} =>
      manifests[batch[w].request.batch] = ManifestOf(w)

\* No other request sends an event of this one.
Exclusive(request) ==
  \A other \in Requests \ {request} :
    ToSet(request.events) \cap ToSet(other.events) = {}

\* A batch of the atomic profile leaves all of its events or none, wherever
\* its calls die and whoever takes one of its ids first, and has a manifest only
\* if it left them.
AllOrNone ==
  \A request \in Requests :
    LET left == {e \in ToSet(request.events) : events[e.id] = e} IN
    request.mode = "atomic" /\ Exclusive(request) =>
      \/ left = ToSet(request.events)
      \/ left = {} /\ \A b \in Made : manifests[b].events # request.events

\* docs/recording.md: "Batches contain at most 1,000 events, exactly one
\* logical scope, and no duplicate event IDs."  A batch that is within these
\* limits is not refused for its form.
LegalBatchesRun ==
  \A w \in Workers :
    batch[w].step = "invalid" => ~Legal(batch[w].request)

Facts == INSTANCE WriteOnce WITH
  facts <- manifests, Keys <- BatchIds, NoFact <- NoRecord, Facts <- Manifest

\* "A caller-provided batch ID is immutable": the manifests behave as a map of
\* facts that are written once.
ManifestsAreFacts == Facts!WriteOnceSpec

\* A partitioned batch that its publisher keeps sending ends with a manifest,
\* whatever died, raised or conflicted on the way.
Settles(request) == <>[](request.batch \in Made)
=============================================================================
