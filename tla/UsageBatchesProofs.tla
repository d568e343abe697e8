-------------------------- MODULE UsageBatchesProofs --------------------------
(***************************************************************************)
(* UsageBatches for every set of publishers, batches and events, with      *)
(* strong or eventual reads, failures of any item and any number of dead   *)
(* calls: a manifest is true of what is stored, is written once, agrees    *)
(* with every receipt, and no event is credited twice.  Only events that a *)
(* running call sends are ever added, receipts are true of what is stored, *)
(* and the corrections among all events are grounded and have no cycle,    *)
(* also when one transaction stores several of them.                       *)
(***************************************************************************)
EXTENDS UsageBatches, WellFoundedInduction, TLAPS

-----------------------------------------------------------------------------
(* The inductive invariant *)

\* The loop over the items of a partitioned batch.
Looping == {"items", "target", "store"}

\* What a call has counted of its events is stored.
ItemsTrue(b) ==
  \A i \in DOMAIN b.items :
    b.items[i] # "failed" =>
      events[b.request.events[i].id] = b.request.events[i]

\* How far a running call has come.
Progress(b) ==
  /\ Legal(b.request)
  /\ b.step \in {"lookup", "transaction"} => b.items = <<>>
  /\ b.step \in Looping => Len(b.items) < Len(b.request.events)
  /\ b.step = "manifest" => Len(b.items) = Len(b.request.events)
  /\ ItemsTrue(b)

\* A call uses the events' store for its next event only.
CallInv(w) ==
  /\ batch[w].step \in Running => Progress(batch[w])
  /\ batch[w].step = "store" =>
       /\ eventCall[w].step \in Events!Busy
       /\ eventCall[w].content = Current(w)
       /\ eventCall[w].key = Current(w).id
  /\ eventCall[w].step \in Events!Busy => batch[w].step = "store"

\* The ids of the events that a list of statuses calls recorded.
Ids(list, items) ==
  {list[i].id : i \in {j \in DOMAIN items : items[j] = "recorded"}}

Once(list, items) ==
  \A i, j \in DOMAIN items :
    /\ items[i] = "recorded" /\ items[j] = "recorded"
    /\ list[i].id = list[j].id
    => i = j

\* The credits of a running call and of a manifest.
Held(w) ==
  IF batch[w].step \in Running
  THEN Ids(batch[w].request.events, batch[w].items) ELSE {}

Kept(b) ==
  IF b \in Made THEN Ids(manifests[b].events, manifests[b].items) ELSE {}

CreditsInv ==
  /\ \A w \in Workers :
       batch[w].step \in Running =>
         Once(batch[w].request.events, batch[w].items)
  /\ \A b \in Made : Once(manifests[b].events, manifests[b].items)
  /\ \A w, v \in Workers : w # v => Held(w) \cap Held(v) = {}
  /\ \A w \in Workers, b \in BatchIds : Held(w) \cap Kept(b) = {}
  /\ \A b, c \in BatchIds : b # c => Kept(b) \cap Kept(c) = {}

\* Receipts are of manifests that are there.
ReceiptsMade ==
  \A w \in Workers :
    batch[w].step \in {"recorded", "replayed"} => batch[w].request.batch \in Made

BatchesInv ==
  /\ TypeOK
  /\ \A w \in Workers : CallInv(w)
  /\ ManifestIsTrue
  /\ ReceiptsMade
  /\ ReceiptsAgree
  /\ CreditsInv

-----------------------------------------------------------------------------
(* Types *)

\* The local state of a call that runs or has ended.
LEMMA CallHasType ==
  ASSUME BatchesAssumption, TypeOK, NEW w \in Workers,
         batch[w].step \in Running \cup Outcomes
  PROVE  /\ batch[w] \in [step : Running \cup Outcomes, request : Requests,
                          items : Seq(Statuses)]
         /\ batch[w].request \in Requests
         /\ batch[w].request.batch \in BatchIds
         /\ batch[w].request.events \in Seq(Event)
         /\ batch[w].items \in Seq(Statuses)
<1>1. batch[w] \in [step : Running \cup Outcomes, request : Requests,
                    items : Seq(Statuses)]
  BY DEF TypeOK, BatchState, NoBatch, Running, Outcomes
<1>2. batch[w].request \in Request
  BY <1>1 DEF BatchesAssumption
<1>3. QED
  BY <1>1, <1>2 DEF Request

\* Members of a list of events are events, and not the missing record.
LEMMA EventHasType ==
  ASSUME BatchesAssumption, NEW list \in Seq(Event), NEW i \in 1 .. Len(list)
  PROVE  list[i] \in Event /\ list[i].id \in EventIds /\ list[i] # NoRecord
<1>1. list[i] \in Event
  OBVIOUS
<1>2. QED
  BY <1>1 DEF Event, BatchesAssumption

\* A running call has statuses for events that it has.
LEMMA ItemsHaveEvents ==
  ASSUME BatchesAssumption, TypeOK, NEW w \in Workers, CallInv(w),
         batch[w].step \in Running
  PROVE  DOMAIN batch[w].items \subseteq 1 .. Len(batch[w].request.events)
<1>1. /\ batch[w].request.events \in Seq(Event)
      /\ batch[w].items \in Seq(Statuses)
  BY CallHasType
<1>2. /\ DOMAIN batch[w].items = 1 .. Len(batch[w].items)
      /\ Len(batch[w].items) \in Nat
      /\ Len(batch[w].request.events) \in Nat
  BY <1>1
<1>3. batch[w].items = <<>> \/ Len(batch[w].items) <= Len(batch[w].request.events)
  BY <1>2 DEF CallInv, Progress, Running, Looping
<1>4. CASE batch[w].items = <<>>
  BY <1>4
<1>5. CASE Len(batch[w].items) <= Len(batch[w].request.events)
  BY <1>2, <1>5
<1>6. QED
  BY <1>3, <1>4, <1>5

\* A function on 1 .. n is a sequence.
LEMMA FunctionIsSeq ==
  ASSUME NEW S, NEW n \in Nat, NEW f \in [1 .. n -> S]
  PROVE  f \in Seq(S)
OBVIOUS

\* A stored manifest has one status for each of its events.
LEMMA ManifestHasType ==
  ASSUME BatchesAssumption, TypeOK, NEW b \in Made
  PROVE  /\ manifests[b].events \in Seq(Event)
         /\ DOMAIN manifests[b].items = 1 .. Len(manifests[b].events)
<1>1. manifests[b] \in Manifest
  BY DEF TypeOK, Made
<1>2. PICK request \in Requests : manifests[b] \in ManifestsFor(request)
  BY <1>1 DEF Manifest
<1>3. request.events \in Seq(Event)
  BY DEF BatchesAssumption, Request
<1>4. QED
  BY <1>2, <1>3 DEF ManifestsFor

-----------------------------------------------------------------------------
(* Events are only added *)

EventsGrow ==
  \A i \in EventIds : events[i] # NoRecord => events'[i] = events[i]

\* What a call has counted stays stored.
LEMMA ItemsTrueStays ==
  ASSUME BatchesAssumption, EventsGrow, NEW b, ItemsTrue(b),
         b.request.events \in Seq(Event),
         DOMAIN b.items \subseteq 1 .. Len(b.request.events)
  PROVE  ItemsTrue(b)'
<1>1. ASSUME NEW i \in DOMAIN b.items, b.items[i] # "failed"
      PROVE  events'[b.request.events[i].id] = b.request.events[i]
  <2>1. /\ b.request.events[i].id \in EventIds
        /\ b.request.events[i] # NoRecord
    BY EventHasType
  <2>2. events[b.request.events[i].id] = b.request.events[i]
    BY <1>1 DEF ItemsTrue
  <2>3. QED
    BY <2>1, <2>2 DEF EventsGrow
<1>2. QED
  BY <1>1 DEF ItemsTrue

\* Events that others add take nothing from the progress of a call.
LEMMA ProgressStays ==
  ASSUME BatchesAssumption, EventsGrow, NEW b, Progress(b),
         b.request.events \in Seq(Event),
         DOMAIN b.items \subseteq 1 .. Len(b.request.events)
  PROVE  Progress(b)'
<1>1. ItemsTrue(b)'
  BY ItemsTrueStays DEF Progress
<1>2. QED
  BY <1>1 DEF Progress, Legal, Looping

\* The calls that do not move stay as they were.
LEMMA OtherCallsStay ==
  ASSUME BatchesAssumption, TypeOK, EventsGrow, NEW v \in Workers, CallInv(v),
         batch'[v] = batch[v], eventCall'[v] = eventCall[v]
  PROVE  CallInv(v)'
<1>1. CASE batch[v].step \in Running
  <2>1. Progress(batch[v])'
    <3>1. /\ batch[v].request.events \in Seq(Event)
          /\ DOMAIN batch[v].items \subseteq 1 .. Len(batch[v].request.events)
      BY <1>1, CallHasType, ItemsHaveEvents
    <3>2. ASSUME NEW b, b = batch[v] PROVE Progress(b)'
      BY <1>1, <3>1, <3>2, ProgressStays DEF CallInv
    <3>3. QED
      BY <3>2 DEF Progress, ItemsTrue
  <2>2. QED
    BY <1>1, <2>1 DEF CallInv, Current, Events!Busy
<1>2. CASE batch[v].step \notin Running
  BY <1>2 DEF CallInv, Current, Events!Busy, Running
<1>3. QED
  BY <1>1, <1>2

\* Manifests stay true while events are only added.
LEMMA ManifestIsTrueStays ==
  ASSUME BatchesAssumption, TypeOK, EventsGrow, ManifestIsTrue,
         UNCHANGED manifests
  PROVE  ManifestIsTrue'
<1>1. ASSUME NEW b \in Made, NEW i \in DOMAIN manifests[b].items,
             manifests[b].items[i] # "failed"
      PROVE  StoredOf(b, i)' = manifests[b].events[i]
  <2>1. /\ manifests[b].events[i].id \in EventIds
        /\ manifests[b].events[i] # NoRecord
    BY ManifestHasType, EventHasType
  <2>2. StoredOf(b, i) = manifests[b].events[i]
    BY <1>1 DEF ManifestIsTrue
  <2>3. QED
    BY <2>1, <2>2 DEF StoredOf, EventsGrow
<1>2. QED
  BY <1>1 DEF ManifestIsTrue, Made, StoredOf

-----------------------------------------------------------------------------
(* Credits *)

\* Whatever is credited is stored.
LEMMA CreditsAreStored ==
  ASSUME BatchesAssumption, BatchesInv
  PROVE  /\ \A w \in Workers : \A i \in Held(w) : events[i] # NoRecord
         /\ \A b \in BatchIds : \A i \in Kept(b) : events[i] # NoRecord
<1>1. ASSUME NEW w \in Workers, NEW i \in Held(w) PROVE events[i] # NoRecord
  <2>1. /\ batch[w].step \in Running
        /\ i \in Ids(batch[w].request.events, batch[w].items)
    BY <1>1 DEF Held
  <2>2. PICK j \in DOMAIN batch[w].items :
          batch[w].items[j] = "recorded" /\ i = batch[w].request.events[j].id
    BY <2>1 DEF Ids
  <2>3. batch[w].request.events[j] # NoRecord
    BY <2>1, CallHasType, ItemsHaveEvents, EventHasType DEF BatchesInv
  <2>4. events[batch[w].request.events[j].id] = batch[w].request.events[j]
    BY <2>1, <2>2 DEF BatchesInv, CallInv, Progress, ItemsTrue
  <2>5. QED
    BY <2>2, <2>3, <2>4
<1>2. ASSUME NEW b \in BatchIds, NEW i \in Kept(b) PROVE events[i] # NoRecord
  <2>1. b \in Made /\ i \in Ids(manifests[b].events, manifests[b].items)
    BY <1>2 DEF Kept
  <2>2. PICK j \in DOMAIN manifests[b].items :
          manifests[b].items[j] = "recorded" /\ i = manifests[b].events[j].id
    BY <2>1 DEF Ids
  <2>3. manifests[b].events[j] # NoRecord
    BY <2>1, ManifestHasType, EventHasType DEF BatchesInv
  <2>4. events[manifests[b].events[j].id] = manifests[b].events[j]
    BY <2>1, <2>2 DEF BatchesInv, ManifestIsTrue, StoredOf
  <2>5. QED
    BY <2>2, <2>3, <2>4
<1>3. QED
  BY <1>1, <1>2

\* A call may take credit for what it had, or for what nobody has stored.
LEMMA CreditsStay ==
  ASSUME BatchesAssumption, BatchesInv, UNCHANGED manifests,
         NEW w \in Workers,
         \A v \in Workers \ {w} : batch'[v] = batch[v],
         batch'[w].step \in Running =>
           Once(batch'[w].request.events, batch'[w].items),
         \A i \in Held(w)' : i \in Held(w) \/ events[i] = NoRecord
  PROVE  CreditsInv'
<1>1. Made' = Made /\ \A b \in BatchIds : Kept(b)' = Kept(b)
  BY DEF Made, Kept
<1>2. \A v \in Workers \ {w} : Held(v)' = Held(v)
  BY DEF Held
<1>3. \A v \in Workers :
        batch'[v].step \in Running =>
          Once(batch'[v].request.events, batch'[v].items)
  BY DEF BatchesInv, CreditsInv
<1>4. \A u, v \in Workers : u # v => Held(u)' \cap Held(v)' = {}
  BY <1>2, CreditsAreStored DEF BatchesInv, CreditsInv
<1>5. \A v \in Workers, b \in BatchIds : Held(v)' \cap Kept(b)' = {}
  BY <1>1, <1>2, CreditsAreStored DEF BatchesInv, CreditsInv
<1>6. QED
  BY <1>1, <1>3, <1>4, <1>5 DEF BatchesInv, CreditsInv

-----------------------------------------------------------------------------
(* What a step of one call must show when it leaves the manifests alone *)

LEMMA CallStepKeepsInv ==
  ASSUME BatchesAssumption, BatchesInv, NEW w \in Workers, NEW b \in BatchState,
         batch' = [batch EXCEPT ![w] = b],
         UNCHANGED manifests, faults' \in 0 .. MaxFaults,
         Events!RecordsTypeOK', EventsGrow,
         \A v \in Workers \ {w} : eventCall'[v] = eventCall[v],
         CallInv(w)',
         b.step \in {"recorded", "replayed"} =>
           /\ b.request.batch \in Made
           /\ manifests[b.request.batch] =
                [mode |-> b.request.mode, events |-> b.request.events,
                 items |-> b.items],
         b.step \in Running =>
           /\ Once(b.request.events, b.items)
           /\ \A i \in Ids(b.request.events, b.items) :
                i \in Held(w) \/ events[i] = NoRecord
  PROVE  BatchesInv'
<1>1. /\ batch'[w] = b
      /\ \A v \in Workers \ {w} : batch'[v] = batch[v]
  BY DEF BatchesInv, TypeOK
<1>2. TypeOK'
  BY DEF BatchesInv, TypeOK
<1>3. ASSUME NEW v \in Workers PROVE CallInv(v)'
  BY <1>1, OtherCallsStay DEF BatchesInv
<1>4. ManifestIsTrue'
  BY ManifestIsTrueStays DEF BatchesInv
<1>5. ReceiptsAgree' /\ ReceiptsMade'
  BY <1>1 DEF BatchesInv, ReceiptsAgree, ReceiptsMade, ManifestOf, Made
<1>6. \A i \in Held(w)' : i \in Held(w) \/ events[i] = NoRecord
  BY <1>1 DEF Held
<1>7. CreditsInv'
  BY <1>1, <1>6, CreditsStay
<1>8. QED
  BY <1>2, <1>3, <1>4, <1>5, <1>7 DEF BatchesInv

\* A step that changes neither the request nor the statuses of a running call.
LEMMA MoveKeepsInv ==
  ASSUME BatchesAssumption, BatchesInv, NEW w \in Workers,
         batch[w].step \in Running,
         NEW step \in Running \cup {"raised"},
         batch' = [batch EXCEPT ![w].step = step],
         UNCHANGED manifests, faults' \in 0 .. MaxFaults,
         Events!RecordsTypeOK', EventsGrow,
         \A v \in Workers \ {w} : eventCall'[v] = eventCall[v],
         CallInv(w)'
  PROVE  BatchesInv'
<1> DEFINE b == [batch[w] EXCEPT !.step = step]
<1>1. /\ batch[w] \in [step : Running \cup Outcomes, request : Requests,
                       items : Seq(Statuses)]
      /\ batch' = [batch EXCEPT ![w] = b]
  BY CallHasType DEF BatchesInv
<1>2. /\ b \in BatchState
      /\ b.step = step /\ b.request = batch[w].request /\ b.items = batch[w].items
  BY <1>1 DEF BatchState, Outcomes
<1>3. step \notin {"recorded", "replayed"}
  BY DEF Running
<1>4. Once(b.request.events, b.items)
  BY <1>2 DEF BatchesInv, CreditsInv
<1>5. \A i \in Ids(b.request.events, b.items) : i \in Held(w)
  BY <1>2 DEF Held
<1> HIDE DEF b
<1>6. QED
  BY <1>1, <1>2, <1>3, <1>4, <1>5, CallStepKeepsInv

\* The local state of a worker after a step.
LEMMA StateAfter ==
  ASSUME TypeOK, NEW w \in Workers, NEW s,
         batch' = [batch EXCEPT ![w].step = s],
         batch[w].step \in Running
  PROVE  /\ batch'[w].step = s
         /\ batch'[w].request = batch[w].request
         /\ batch'[w].items = batch[w].items
<1>1. batch[w] \in [step : Running \cup Outcomes, request : Requests,
                    items : Seq(Statuses)]
  BY DEF TypeOK, BatchState, NoBatch, Running, Outcomes
<1>2. batch'[w] = [batch[w] EXCEPT !.step = s]
  BY DEF TypeOK
<1>3. QED
  BY <1>1, <1>2

LEMMA RecordBatchKeepsInv ==
  ASSUME BatchesAssumption, BatchesInv, NEW w \in Workers,
         NEW request \in Requests, RecordBatch(w, request)
  PROVE  BatchesInv'
<1> DEFINE step == IF Legal(request) /\ Fingerprintable(request)
                   THEN "lookup" ELSE "invalid"
           b == [step |-> step, request |-> request, items |-> <<>>]
<1>1. /\ batch' = [batch EXCEPT ![w] = b]
      /\ UNCHANGED <<events, eventCall, manifests, faults>>
      /\ batch[w].step \notin Running
  BY DEF RecordBatch, eventVars
<1>2. /\ step \in {"lookup", "invalid"}
      /\ step = "lookup" => Legal(request)
  OBVIOUS
<1>3. /\ b \in BatchState
      /\ b.step = step /\ b.request = request /\ b.items = <<>>
  <2>1. <<>> \in Seq(Statuses)
    OBVIOUS
  <2>2. QED
    BY <1>2, <2>1 DEF BatchState, Running, Outcomes
<1> HIDE DEF b, step
<1>4. batch'[w] = b
  BY <1>1 DEF BatchesInv, TypeOK
<1>5. eventCall[w].step \notin Events!Busy
  BY <1>1 DEF BatchesInv, CallInv, Running
<1>6. ItemsTrue(b)'
  BY <1>3 DEF ItemsTrue
<1>7. CallInv(w)'
  <2>1. batch'[w].step \in Running => Progress(batch[w])'
    BY <1>2, <1>3, <1>4, <1>6 DEF Progress, Legal, Running, Looping, ItemsTrue
  <2>2. QED
    BY <1>1, <1>2, <1>3, <1>4, <1>5, <2>1 DEF CallInv, Events!Busy
<1>8. Events!RecordsTypeOK' /\ EventsGrow
  BY <1>1 DEF BatchesInv, TypeOK, Events!RecordsTypeOK, EventsGrow
<1>9. /\ Once(b.request.events, b.items)
      /\ Ids(b.request.events, b.items) = {}
  BY <1>3 DEF Once, Ids
<1>10. faults' \in 0 .. MaxFaults
  BY <1>1 DEF BatchesInv, TypeOK
<1>11. b.step \notin {"recorded", "replayed"}
  BY <1>2, <1>3
<1>12. QED
  BY <1>1, <1>3, <1>7, <1>8, <1>9, <1>10, <1>11, CallStepKeepsInv

\* A call that finds a manifest ends with that manifest's receipt.
LEMMA ReplayKeepsInv ==
  ASSUME BatchesAssumption, BatchesInv, NEW w \in Workers,
         batch[w].step \in {"lookup", "manifest"},
         manifests[batch[w].request.batch] # NoRecord, Replay(w),
         UNCHANGED <<events, eventCall, manifests, faults>>
  PROVE  BatchesInv'
<1> DEFINE found == manifests[batch[w].request.batch]
           b == IF SameBatch(found, batch[w].request)
                THEN [batch[w] EXCEPT !.step = "replayed", !.items = found.items]
                ELSE [batch[w] EXCEPT !.step = "conflict", !.items = <<>>]
<1>1. /\ batch[w] \in [step : Running \cup Outcomes, request : Requests,
                       items : Seq(Statuses)]
      /\ batch[w].request.batch \in BatchIds
  BY CallHasType DEF BatchesInv, Running
<1>2. batch' = [batch EXCEPT ![w] = b]
  BY DEF Replay
<1>3. PICK request \in Requests : found \in ManifestsFor(request)
  BY <1>1 DEF BatchesInv, TypeOK, Manifest
<1>4. request.events \in Seq(Event)
  BY DEF BatchesAssumption, Request
<1>5. found.items \in Seq(Statuses)
  <2>1. /\ found.items \in [1 .. Len(request.events) -> Statuses]
        /\ Len(request.events) \in Nat
    BY <1>3, <1>4 DEF ManifestsFor
  <2>2. QED
    BY <2>1, FunctionIsSeq
<1>6. found = [mode |-> found.mode, events |-> found.events,
               items |-> found.items]
  BY <1>3 DEF ManifestsFor
<1>7. b \in BatchState /\ b.step \in {"replayed", "conflict"}
  <2>1. CASE SameBatch(found, batch[w].request)
    BY <1>1, <1>5, <2>1 DEF BatchState, Outcomes
  <2>2. CASE ~SameBatch(found, batch[w].request)
    <3>1. <<>> \in Seq(Statuses)
      OBVIOUS
    <3>2. QED
      BY <1>1, <2>2, <3>1 DEF BatchState, Outcomes
  <2>3. QED
    BY <2>1, <2>2
<1>8. b.step = "replayed" =>
        /\ b.request.batch \in Made
        /\ manifests[b.request.batch] =
             [mode |-> b.request.mode, events |-> b.request.events,
              items |-> b.items]
  BY <1>1, <1>6 DEF SameBatch, Made
<1> HIDE DEF b, found
<1>9. batch'[w] = b
  BY <1>2 DEF BatchesInv, TypeOK
<1>10. eventCall[w].step \notin Events!Busy
  BY DEF BatchesInv, CallInv
<1>11. CallInv(w)'
  BY <1>7, <1>9, <1>10 DEF CallInv, Running, Events!Busy
<1>12. Events!RecordsTypeOK' /\ EventsGrow /\ faults' \in 0 .. MaxFaults
  BY DEF BatchesInv, TypeOK, Events!RecordsTypeOK, EventsGrow
<1>13. b.step \notin Running
  BY <1>7 DEF Running
<1>14. b.step \in {"recorded", "replayed"} => b.step = "replayed"
  BY <1>7
<1>15. QED
  BY <1>2, <1>7, <1>8, <1>11, <1>12, <1>13, <1>14, CallStepKeepsInv

LEMMA LookupKeepsInv ==
  ASSUME BatchesAssumption, BatchesInv, NEW w \in Workers, Lookup(w)
  PROVE  BatchesInv'
<1>1. /\ batch[w].step = "lookup"
      /\ UNCHANGED <<events, eventCall, manifests, faults>>
  BY DEF Lookup, eventVars
<1>2. CASE manifests[batch[w].request.batch] # NoRecord /\ Replay(w)
  BY <1>1, <1>2, ReplayKeepsInv
<1>3. CASE batch' = [batch EXCEPT ![w].step =
             IF batch[w].request.mode = "atomic" THEN "transaction" ELSE "items"]
  <2> DEFINE step == IF batch[w].request.mode = "atomic"
                     THEN "transaction" ELSE "items"
  <2>1. /\ step \in {"transaction", "items"}
        /\ batch' = [batch EXCEPT ![w].step = step]
    BY <1>3
  <2> HIDE DEF step
  <2>2. /\ batch'[w].step = step
        /\ batch'[w].request = batch[w].request
        /\ batch'[w].items = batch[w].items
    BY <1>1, <2>1, StateAfter DEF BatchesInv, Running
  <2>3. /\ Legal(batch[w].request) /\ batch[w].items = <<>>
        /\ batch[w].request.events \in Seq(Event)
        /\ eventCall[w].step \notin Events!Busy
    BY <1>1, CallHasType DEF BatchesInv, CallInv, Progress, Running
  <2>4. Progress(batch[w])'
    <3>1. Len(batch[w].items) = 0 /\ Len(batch[w].request.events) > 0
      BY <2>3 DEF Legal
    <3>2. ItemsTrue(batch[w])'
      BY <2>2, <2>3 DEF ItemsTrue
    <3>3. QED
      BY <2>1, <2>2, <2>3, <3>1, <3>2 DEF Progress, Legal, Looping
  <2>5. CallInv(w)'
    BY <1>1, <2>1, <2>2, <2>3, <2>4 DEF CallInv, Events!Busy
  <2>6. Events!RecordsTypeOK' /\ EventsGrow /\ faults' \in 0 .. MaxFaults
    BY <1>1 DEF BatchesInv, TypeOK, Events!RecordsTypeOK, EventsGrow
  <2>7. step \in Running \cup {"raised"} /\ batch[w].step \in Running
    BY <1>1, <2>1 DEF Running
  <2>8. QED
    BY <1>1, <2>1, <2>5, <2>6, <2>7, MoveKeepsInv
<1>4. QED
  BY <1>1, <1>2, <1>3 DEF Lookup

-----------------------------------------------------------------------------
(* The items of a partitioned batch *)

\* The event that a call is at.
LEMMA CurrentHasType ==
  ASSUME BatchesAssumption, BatchesInv, NEW w \in Workers,
         batch[w].step \in Looping
  PROVE  /\ Current(w) \in Event
         /\ Current(w).id \in EventIds
         /\ Current(w) # NoRecord
         /\ Len(batch[w].items) \in Nat
         /\ Len(batch[w].items) + 1 \in 1 .. Len(batch[w].request.events)
<1>1. batch[w].step \in Running
  BY DEF Looping, Running
<1>2. /\ batch[w].request.events \in Seq(Event)
      /\ batch[w].items \in Seq(Statuses)
      /\ Len(batch[w].items) < Len(batch[w].request.events)
  BY <1>1, CallHasType DEF BatchesInv, CallInv, Progress
<1>3. /\ Len(batch[w].items) \in Nat
      /\ Len(batch[w].items) + 1 \in 1 .. Len(batch[w].request.events)
  BY <1>2
<1>4. QED
  BY <1>2, <1>3, EventHasType DEF Current

\* Appending a status to those of a call.
LEMMA AppendedItems ==
  ASSUME NEW items \in Seq(Statuses), NEW status \in Statuses
  PROVE  /\ Append(items, status) \in Seq(Statuses)
         /\ Len(Append(items, status)) = Len(items) + 1
         /\ DOMAIN Append(items, status) = 1 .. Len(items) + 1
         /\ Append(items, status)[Len(items) + 1] = status
         /\ \A i \in DOMAIN Append(items, status) :
              i # Len(items) + 1 =>
                i \in DOMAIN items /\ Append(items, status)[i] = items[i]
OBVIOUS

\* An item is done: a status other than a failure is told of an event that is
\* stored, and "recorded" of one that was not stored before this step.
LEMMA ItemDoneKeepsInv ==
  ASSUME BatchesAssumption, BatchesInv, NEW w \in Workers,
         batch[w].step \in Looping, NEW status \in Statuses,
         ItemDone(w, status),
         status # "failed" => events'[Current(w).id] = Current(w),
         status = "recorded" => events[Current(w).id] = NoRecord,
         UNCHANGED <<manifests, faults>>,
         Events!RecordsTypeOK', EventsGrow,
         \A v \in Workers \ {w} : eventCall'[v] = eventCall[v],
         eventCall'[w].step \notin Events!Busy
  PROVE  BatchesInv'
<1> DEFINE old == batch[w].items
           list == batch[w].request.events
           n == Len(old) + 1
           items == Append(old, status)
           step == IF Len(items) = Len(list) THEN "manifest" ELSE "items"
           b == [batch[w] EXCEPT !.items = items, !.step = step]
<1>1. batch[w].step \in Running
  BY DEF Looping, Running
<1>2. /\ batch[w] \in [step : Running \cup Outcomes, request : Requests,
                       items : Seq(Statuses)]
      /\ old \in Seq(Statuses)
      /\ list \in Seq(Event)
  BY <1>1, CallHasType DEF BatchesInv
<1>3. /\ items \in Seq(Statuses)
      /\ Len(items) = n
      /\ DOMAIN items = 1 .. n
      /\ items[n] = status
      /\ \A i \in DOMAIN items : i # n => i \in DOMAIN old /\ items[i] = old[i]
  BY <1>2, AppendedItems
<1>4. /\ list[n] = Current(w)
      /\ list[n] \in Event /\ list[n].id \in EventIds
      /\ n \in 1 .. Len(list)
      /\ Len(list) \in Nat
  BY <1>2, CurrentHasType DEF Current
<1>5. /\ Legal(batch[w].request)
      /\ ItemsTrue(batch[w])
      /\ DOMAIN old \subseteq 1 .. Len(list)
      /\ Once(list, old)
  BY <1>1, ItemsHaveEvents DEF BatchesInv, CallInv, Progress, CreditsInv
<1>6. \A i \in DOMAIN old :
        old[i] # "failed" => events'[list[i].id] = list[i]
  <2>1. SUFFICES ASSUME NEW i \in DOMAIN old, old[i] # "failed"
                 PROVE  events'[list[i].id] = list[i]
    OBVIOUS
  <2>2. /\ list[i].id \in EventIds /\ list[i] # NoRecord
        /\ events[list[i].id] = list[i]
    BY <1>2, <1>5, <2>1, EventHasType DEF ItemsTrue
  <2>3. QED
    BY <2>2 DEF EventsGrow
<1>7. \A i \in DOMAIN old : old[i] = "recorded" => events[list[i].id] # NoRecord
  <2>1. SUFFICES ASSUME NEW i \in DOMAIN old, old[i] = "recorded"
                 PROVE  events[list[i].id] # NoRecord
    OBVIOUS
  <2>2. list[i] # NoRecord /\ events[list[i].id] = list[i]
    BY <1>2, <1>5, <2>1, EventHasType DEF ItemsTrue
  <2>3. QED
    BY <2>2
<1>8. /\ b \in BatchState
      /\ b.step = step /\ b.request = batch[w].request /\ b.items = items
  BY <1>2, <1>3 DEF BatchState, Running
<1>9. batch' = [batch EXCEPT ![w] = b]
  BY <1>2 DEF ItemDone, BatchesInv, TypeOK
<1>10. batch'[w] = b
  BY <1>9 DEF BatchesInv, TypeOK
<1>11. /\ step \in {"manifest", "items"}
       /\ step = "manifest" => n = Len(list)
       /\ step = "items" => n < Len(list)
  BY <1>3, <1>4
<1> HIDE DEF b, step, items, n, old
<1>12. ItemsTrue(batch[w])'
  <2>1. SUFFICES ASSUME NEW i \in DOMAIN items, items[i] # "failed"
                 PROVE  events'[list[i].id] = list[i]
    BY <1>8, <1>10 DEF ItemsTrue
  <2>2. CASE i = n
    BY <1>3, <1>4, <2>1, <2>2
  <2>3. CASE i # n
    BY <1>3, <1>6, <2>1, <2>3
  <2>4. QED
    BY <2>2, <2>3
<1>13. CallInv(w)'
  <2>1. Progress(batch[w])'
    BY <1>3, <1>5, <1>8, <1>10, <1>11, <1>12 DEF Progress, Legal, Looping
  <2>2. QED
    BY <1>8, <1>10, <1>11, <2>1 DEF CallInv, Events!Busy
<1>14. Once(list, items)
  BY <1>3, <1>4, <1>5, <1>7 DEF Once
<1>15. \A i \in Ids(list, items) : i \in Held(w) \/ events[i] = NoRecord
  <2>1. SUFFICES ASSUME NEW j \in DOMAIN items, items[j] = "recorded"
                 PROVE  list[j].id \in Held(w) \/ events[list[j].id] = NoRecord
    BY DEF Ids
  <2>2. CASE j = n
    BY <1>3, <1>4, <2>1, <2>2
  <2>3. CASE j # n
    BY <1>1, <1>3, <2>1, <2>3 DEF Held, Ids, old
  <2>4. QED
    BY <2>2, <2>3
<1>16. faults' \in 0 .. MaxFaults
  BY DEF BatchesInv, TypeOK
<1>17. b.step \notin {"recorded", "replayed"}
  BY <1>8, <1>11
<1>18. QED
  BY <1>8, <1>9, <1>13, <1>14, <1>15, <1>16, <1>17, CallStepKeepsInv

\* A call of the events' store begins.
LEMMA EventCallStarts ==
  ASSUME TypeOK, NEW w \in Workers, NEW e \in Event, Events!Start(w, e.id, e)
  PROVE  /\ UNCHANGED events
         /\ eventCall'[w] = [step |-> "get", key |-> e.id, content |-> e]
         /\ \A v \in Workers \ {w} : eventCall'[v] = eventCall[v]
         /\ Events!RecordsTypeOK'
         /\ EventsGrow
BY DEF Events!Start, TypeOK, Events!RecordsTypeOK, Events!CallRecord,
   Events!Busy, Event, EventsGrow

\* The next item goes on to the events' store.
LEMMA GoToStoreKeepsInv ==
  ASSUME BatchesAssumption, BatchesInv, NEW w \in Workers,
         batch[w].step \in Looping,
         Events!Start(w, Current(w).id, Current(w)),
         batch' = [batch EXCEPT ![w].step = "store"],
         UNCHANGED <<manifests, faults>>
  PROVE  BatchesInv'
<1>1. /\ Current(w) \in Event
      /\ batch[w].step \in Running
  BY CurrentHasType DEF Looping, Running
<1>2. /\ UNCHANGED events
      /\ eventCall'[w] = [step |-> "get", key |-> Current(w).id,
                          content |-> Current(w)]
      /\ \A v \in Workers \ {w} : eventCall'[v] = eventCall[v]
      /\ Events!RecordsTypeOK'
      /\ EventsGrow
  BY <1>1, EventCallStarts DEF BatchesInv
<1>3. /\ batch'[w].step = "store"
      /\ batch'[w].request = batch[w].request
      /\ batch'[w].items = batch[w].items
  BY <1>1, StateAfter DEF BatchesInv
<1>4. Progress(batch[w])
  BY <1>1 DEF BatchesInv, CallInv
<1>5. Progress(batch[w])'
  BY <1>2, <1>3, <1>4 DEF Progress, Legal, Looping, ItemsTrue
<1>6. CallInv(w)'
  BY <1>2, <1>3, <1>5 DEF CallInv, Current, Events!Busy
<1>7. "store" \in Running /\ faults' \in 0 .. MaxFaults
  BY DEF Running, BatchesInv, TypeOK
<1>8. QED
  BY <1>1, <1>2, <1>6, <1>7, MoveKeepsInv

LEMMA StartItemKeepsInv ==
  ASSUME BatchesAssumption, BatchesInv, NEW w \in Workers, StartItem(w)
  PROVE  BatchesInv'
<1>1. batch[w].step = "items" /\ UNCHANGED <<manifests, faults>>
  BY DEF StartItem
<1>2. CASE /\ Events!Start(w, Current(w).id, Current(w))
           /\ batch' = [batch EXCEPT ![w].step = "store"]
  BY <1>1, <1>2, GoToStoreKeepsInv DEF Looping
<1>3. CASE /\ batch' = [batch EXCEPT ![w].step = "target"]
           /\ UNCHANGED eventVars
  <2>1. /\ batch'[w].step = "target"
        /\ batch'[w].request = batch[w].request
        /\ batch'[w].items = batch[w].items
    BY <1>1, <1>3, StateAfter DEF BatchesInv, Running
  <2>2. Progress(batch[w]) /\ eventCall[w].step \notin Events!Busy
    BY <1>1 DEF BatchesInv, CallInv, Running
  <2>3. Progress(batch[w])'
    BY <1>1, <1>3, <2>1, <2>2
    DEF Progress, Legal, Looping, ItemsTrue, eventVars
  <2>4. CallInv(w)'
    BY <1>3, <2>1, <2>2, <2>3 DEF CallInv, Events!Busy, eventVars
  <2>5. Events!RecordsTypeOK' /\ EventsGrow /\ faults' \in 0 .. MaxFaults
    BY <1>1, <1>3
    DEF eventVars, BatchesInv, TypeOK, Events!RecordsTypeOK, EventsGrow
  <2>6. "target" \in Running /\ batch[w].step \in Running
    BY <1>1 DEF Running
  <2>7. \A v \in Workers \ {w} : eventCall'[v] = eventCall[v]
    BY <1>3 DEF eventVars
  <2>8. QED
    BY <1>1, <1>3, <2>4, <2>5, <2>6, <2>7, MoveKeepsInv
<1>4. QED
  BY <1>2, <1>3 DEF StartItem

\* The call of an item that fails before it has reached the store.
LEMMA FailedBeforeStoreKeepsInv ==
  ASSUME BatchesAssumption, BatchesInv, NEW w \in Workers,
         batch[w].step = "target", ItemDone(w, "failed"),
         UNCHANGED <<events, eventCall, manifests, faults>>
  PROVE  BatchesInv'
<1>1. "failed" \in Statuses /\ batch[w].step \in Looping
  BY DEF Statuses, Looping
<1>2. eventCall'[w].step \notin Events!Busy
  BY DEF BatchesInv, CallInv
<1>3. Events!RecordsTypeOK' /\ EventsGrow
  BY DEF BatchesInv, TypeOK, Events!RecordsTypeOK, EventsGrow
<1>4. QED
  BY <1>1, <1>2, <1>3, ItemDoneKeepsInv

LEMMA ReadTargetKeepsInv ==
  ASSUME BatchesAssumption, BatchesInv, NEW w \in Workers, ReadTarget(w)
  PROVE  BatchesInv'
<1>1. batch[w].step = "target" /\ UNCHANGED <<manifests, faults>>
  BY DEF ReadTarget
<1>2. CASE ItemDone(w, "failed") /\ UNCHANGED eventVars
  BY <1>1, <1>2, FailedBeforeStoreKeepsInv DEF eventVars
<1>3. CASE /\ Events!Start(w, Current(w).id, Current(w))
           /\ batch' = [batch EXCEPT ![w].step = "store"]
  BY <1>1, <1>3, GoToStoreKeepsInv DEF Looping
<1>4. QED
  BY <1>2, <1>3 DEF ReadTarget

\* What a step of the events' store does, and what it tells its caller.
LEMMA EventCallStep ==
  ASSUME BatchesAssumption, TypeOK, NEW w \in Workers,
         Events!Get(w) \/ Events!Put(w) \/ Events!Reread(w) \/ Events!Abandon(w)
  PROVE  /\ Events!RecordsTypeOK'
         /\ EventsGrow
         /\ \A v \in Workers \ {w} : eventCall'[v] = eventCall[v]
         /\ \/ eventCall'[w] = Events!NoCall
            \/ /\ eventCall'[w].step \in Events!Busy \cup Events!Answers
               /\ eventCall'[w].key = eventCall[w].key
               /\ eventCall'[w].content = eventCall[w].content
         /\ eventCall'[w].step \in {"recorded", "replayed"} =>
              events'[eventCall[w].key] = eventCall[w].content
         /\ eventCall'[w].step = "recorded" =>
              events[eventCall[w].key] = NoRecord
<1>1. eventCall[w].step \in Events!Busy
  BY DEF Events!Get, Events!Put, Events!Reread, Events!Abandon, Events!Busy
<1>2. /\ eventCall[w] \in [step : Events!Busy \cup Events!Answers,
                           key : EventIds, content : Event]
      /\ eventCall[w].key \in EventIds
      /\ eventCall[w].content \in Event
      /\ eventCall[w].content # NoRecord
  BY <1>1 DEF TypeOK, Events!RecordsTypeOK, Events!CallRecord, Events!NoCall,
     Events!Busy, BatchesAssumption
<1>3. \/ UNCHANGED events
      \/ /\ events[eventCall[w].key] = NoRecord
         /\ events' = [events EXCEPT ![eventCall[w].key] = eventCall[w].content]
  BY DEF Events!Get, Events!Put, Events!Reread, Events!Abandon,
     Events!Writable, Events!Written
<1>4. \/ eventCall' = [eventCall EXCEPT ![w] = Events!NoCall]
      \/ \E s \in Events!Busy \cup Events!Answers :
           eventCall' = [eventCall EXCEPT ![w].step = s]
  BY DEF Events!Get, Events!Put, Events!Reread, Events!Abandon,
     Events!Answer, Events!Busy, Events!Answers
<1>5. eventCall' \in [Workers -> Events!CallRecord]
  BY <1>2, <1>4 DEF TypeOK, Events!RecordsTypeOK, Events!CallRecord
<1>6. events' \in [EventIds -> Event \cup {NoRecord}] /\ EventsGrow
  BY <1>2, <1>3 DEF TypeOK, Events!RecordsTypeOK, EventsGrow
<1>7. /\ \A v \in Workers \ {w} : eventCall'[v] = eventCall[v]
      /\ \/ eventCall'[w] = Events!NoCall
         \/ /\ eventCall'[w].step \in Events!Busy \cup Events!Answers
            /\ eventCall'[w].key = eventCall[w].key
            /\ eventCall'[w].content = eventCall[w].content
  BY <1>2, <1>4 DEF TypeOK, Events!RecordsTypeOK
<1>8. /\ eventCall'[w].step = "recorded" =>
           /\ events[eventCall[w].key] = NoRecord
           /\ events' = [events EXCEPT ![eventCall[w].key] = eventCall[w].content]
      /\ eventCall'[w].step = "replayed" =>
           /\ UNCHANGED events
           /\ events[eventCall[w].key] = eventCall[w].content
  <2>1. CASE Events!Get(w)
    <3>1. PICK found \in Events!Visible(eventCall[w].key) :
            eventCall' = [eventCall EXCEPT ![w].step =
              IF found = NoRecord THEN "put"
              ELSE Events!Answer(found, eventCall[w].content)]
      BY <2>1 DEF Events!Get
    <3>2. eventCall'[w].step = IF found = NoRecord THEN "put"
                               ELSE Events!Answer(found, eventCall[w].content)
      BY <1>2, <3>1 DEF TypeOK, Events!RecordsTypeOK
    <3>3. UNCHANGED events
      BY <2>1 DEF Events!Get
    <3>4. QED
      BY <3>1, <3>2, <3>3 DEF Events!Answer, Events!Visible
  <2>2. CASE Events!Put(w)
    <3>1. \/ /\ events[eventCall[w].key] = NoRecord
             /\ events' = [events EXCEPT ![eventCall[w].key] =
                                           eventCall[w].content]
             /\ eventCall' = [eventCall EXCEPT ![w].step = "recorded"]
          \/ eventCall' = [eventCall EXCEPT ![w].step = "reread"]
      BY <2>2 DEF Events!Put, Events!Writable, Events!Written
    <3>2. \A s : eventCall' = [eventCall EXCEPT ![w].step = s]
                   => eventCall'[w].step = s
      BY <1>2 DEF TypeOK, Events!RecordsTypeOK
    <3>3. QED
      BY <3>1, <3>2
  <2>3. CASE Events!Reread(w)
    <3>1. PICK found \in Events!Visible(eventCall[w].key) :
            eventCall' = [eventCall EXCEPT ![w].step =
              Events!Answer(found, eventCall[w].content)]
      BY <2>3 DEF Events!Reread
    <3>2. eventCall'[w].step = Events!Answer(found, eventCall[w].content)
      BY <1>2, <3>1 DEF TypeOK, Events!RecordsTypeOK
    <3>3. UNCHANGED events
      BY <2>3 DEF Events!Reread
    <3>4. QED
      BY <1>2, <3>1, <3>2, <3>3 DEF Events!Answer, Events!Visible
  <2>4. CASE Events!Abandon(w)
    <3>1. eventCall'[w] = Events!NoCall
      BY <2>4 DEF Events!Abandon, TypeOK, Events!RecordsTypeOK
    <3>2. QED
      BY <3>1 DEF Events!NoCall
  <2>5. QED
    BY <2>1, <2>2, <2>3, <2>4
<1>9. eventCall'[w].step \in {"recorded", "replayed"} =>
        events'[eventCall[w].key] = eventCall[w].content
  BY <1>2, <1>8 DEF TypeOK, Events!RecordsTypeOK
<1>10. QED
  BY <1>5, <1>6, <1>7, <1>8, <1>9 DEF Events!RecordsTypeOK

LEMMA StoreKeepsInv ==
  ASSUME BatchesAssumption, BatchesInv, NEW w \in Workers, Store(w)
  PROVE  BatchesInv'
<1>1. /\ batch[w].step = "store"
      /\ batch[w].step \in Looping /\ batch[w].step \in Running
      /\ UNCHANGED <<manifests, faults>>
  BY DEF Store, Looping, Running
<1>2. /\ eventCall[w].content = Current(w)
      /\ eventCall[w].key = Current(w).id
      /\ Progress(batch[w])
  BY <1>1 DEF BatchesInv, CallInv
<1>3. Events!Get(w) \/ Events!Put(w) \/ Events!Reread(w)
  BY DEF Store
<1>4. /\ Events!RecordsTypeOK'
      /\ EventsGrow
      /\ \A v \in Workers \ {w} : eventCall'[v] = eventCall[v]
      /\ eventCall'[w].step \in {"recorded", "replayed"} =>
           events'[eventCall[w].key] = eventCall[w].content
      /\ eventCall'[w].step = "recorded" => events[eventCall[w].key] = NoRecord
  BY <1>3, EventCallStep DEF BatchesInv
<1>5. /\ eventCall'[w].step \in Events!Busy \cup Events!Answers
      /\ eventCall'[w].key = eventCall[w].key
      /\ eventCall'[w].content = eventCall[w].content
  <2>1. eventCall[w] \in [step : Events!Busy \cup Events!Answers,
                          key : EventIds, content : Event]
    BY <1>1 DEF BatchesInv, CallInv, TypeOK, Events!RecordsTypeOK,
       Events!CallRecord, Events!NoCall, Events!Busy
  <2>2. \E s \in Events!Busy \cup Events!Answers :
          eventCall' = [eventCall EXCEPT ![w].step = s]
    BY <1>3 DEF Events!Get, Events!Put, Events!Reread, Events!Answer,
       Events!Busy, Events!Answers
  <2>3. QED
    BY <2>1, <2>2 DEF BatchesInv, TypeOK, Events!RecordsTypeOK
<1>6. CASE eventCall'[w].step \in Events!Busy
  <2>1. UNCHANGED batch
    BY <1>6 DEF Store
  <2>2. Progress(batch[w])'
    <3>1. /\ batch[w].request.events \in Seq(Event)
          /\ DOMAIN batch[w].items \subseteq 1 .. Len(batch[w].request.events)
      BY <1>1, CallHasType, ItemsHaveEvents DEF BatchesInv
    <3>2. ASSUME NEW b, b = batch[w] PROVE Progress(b)'
      BY <1>2, <1>4, <3>1, <3>2, ProgressStays
    <3>3. QED
      BY <2>1, <3>2 DEF Progress, ItemsTrue
  <2>3. CallInv(w)'
    BY <1>1, <1>2, <1>5, <1>6, <2>1, <2>2 DEF CallInv, Current
  <2>4. batch' = [batch EXCEPT ![w].step = "store"]
    BY <1>1, <2>1, CallHasType DEF BatchesInv, TypeOK
  <2>5. "store" \in Running /\ faults' \in 0 .. MaxFaults
    BY <1>1 DEF Running, BatchesInv, TypeOK
  <2>6. QED
    BY <1>1, <1>4, <2>3, <2>4, <2>5, MoveKeepsInv
<1>7. CASE eventCall'[w].step \notin Events!Busy
  <2> DEFINE status == StatusOf(eventCall'[w].step)
  <2>1. ItemDone(w, status)
    BY <1>7 DEF Store
  <2>2. /\ status \in Statuses
        /\ status # "failed" => eventCall'[w].step \in {"recorded", "replayed"}
        /\ status = "recorded" => eventCall'[w].step = "recorded"
    BY <1>5, <1>7 DEF StatusOf, Statuses, Events!Answers
  <2> HIDE DEF status
  <2>3. QED
    BY <1>1, <1>2, <1>4, <1>7, <2>1, <2>2, ItemDoneKeepsInv
<1>8. QED
  BY <1>6, <1>7

LEMMA ItemFailsKeepsInv ==
  ASSUME BatchesAssumption, BatchesInv, NEW w \in Workers, ItemFails(w)
  PROVE  BatchesInv'
<1>1. /\ batch[w].step \in {"target", "store"}
      /\ ItemDone(w, "failed")
      /\ UNCHANGED <<manifests, faults>>
  BY DEF ItemFails
<1>2. CASE batch[w].step = "target"
  BY <1>1, <1>2, FailedBeforeStoreKeepsInv DEF ItemFails, eventVars
<1>3. CASE batch[w].step = "store"
  <2>1. Events!Abandon(w)
    BY <1>3 DEF ItemFails
  <2>2. eventCall'[w] = Events!NoCall
    BY <2>1 DEF Events!Abandon, BatchesInv, TypeOK, Events!RecordsTypeOK
  <2>3. eventCall'[w].step \notin Events!Busy
    BY <2>2 DEF Events!NoCall, Events!Busy
  <2>4. /\ Events!RecordsTypeOK' /\ EventsGrow
        /\ \A v \in Workers \ {w} : eventCall'[v] = eventCall[v]
    BY <2>1, EventCallStep DEF BatchesInv
  <2>5. "failed" \in Statuses /\ batch[w].step \in Looping
    BY <1>3 DEF Statuses, Looping
  <2>6. QED
    BY <1>1, <2>3, <2>4, <2>5, ItemDoneKeepsInv
<1>4. QED
  BY <1>1, <1>2, <1>3

-----------------------------------------------------------------------------
(* The transaction of an atomic batch *)

\* A transaction that commits leaves every event of the batch, and changes
\* nothing that was stored.
LEMMA CommittedEvents ==
  ASSUME BatchesAssumption, TypeOK, NEW request \in Requests,
         Legal(request), Recordable(request)
  PROVE  /\ Committed(request) \in [EventIds -> Event \cup {NoRecord}]
         /\ \A i \in 1 .. Len(request.events) :
              Committed(request)[request.events[i].id] = request.events[i]
         /\ \A id \in EventIds :
              events[id] # NoRecord => Committed(request)[id] = events[id]
<1> DEFINE list == request.events
           with(id) == CHOOSE j \in 1 .. Len(list) : list[j].id = id
<1>1. list \in Seq(Event) /\ Len(list) \in Nat
  BY DEF BatchesAssumption, Request
<1>2. \A id \in EventIds :
        Committed(request)[id] =
          IF \E j \in 1 .. Len(list) : list[j].id = id
          THEN list[with(id)] ELSE events[id]
  <2>1. 1 .. (Len(list) + 1) - 1 = 1 .. Len(list)
    BY <1>1
  <2>2. QED
    BY <2>1 DEF Committed, Within
<1>3. \A id \in EventIds :
        (\E j \in 1 .. Len(list) : list[j].id = id) =>
          with(id) \in 1 .. Len(list) /\ list[with(id)].id = id
  OBVIOUS
<1>4. DOMAIN list = 1 .. Len(list)
  BY <1>1
<1> HIDE DEF with
<1>5. \A i \in 1 .. Len(list) :
        /\ list[i] \in Event /\ list[i].id \in EventIds
        /\ events[list[i].id] \in {NoRecord, list[i]}
  BY <1>1, <1>4, EventHasType DEF Recordable
<1>6. ASSUME NEW id \in EventIds
      PROVE  /\ Committed(request)[id] \in Event \cup {NoRecord}
             /\ events[id] # NoRecord => Committed(request)[id] = events[id]
  BY <1>2, <1>3, <1>5 DEF TypeOK, Events!RecordsTypeOK
<1>7. Committed(request) \in [EventIds -> Event \cup {NoRecord}]
  <2>1. Committed(request) = [id \in EventIds |-> Committed(request)[id]]
    BY DEF Committed
  <2>2. QED
    BY <1>6, <2>1
<1>8. ASSUME NEW i \in 1 .. Len(list)
      PROVE  Committed(request)[list[i].id] = list[i]
  <2>1. with(list[i].id) = i
    BY <1>3, <1>4, <1>5 DEF Legal
  <2>2. QED
    BY <1>2, <1>5, <2>1
<1>9. QED
  BY <1>6, <1>7, <1>8

LEMMA TransactionKeepsInv ==
  ASSUME BatchesAssumption, BatchesInv, NEW w \in Workers, Transaction(w)
  PROVE  BatchesInv'
<1> DEFINE request == batch[w].request
           list == request.events
<1>1. /\ batch[w].step = "transaction" /\ batch[w].step \in Running
      /\ UNCHANGED <<eventCall, manifests, faults>>
  BY DEF Transaction, Running
<1>2. /\ batch[w] \in [step : Running \cup Outcomes, request : Requests,
                       items : Seq(Statuses)]
      /\ request \in Requests
      /\ list \in Seq(Event)
      /\ DOMAIN list = 1 .. Len(list) /\ Len(list) \in Nat
      /\ Legal(request)
      /\ eventCall[w].step \notin Events!Busy
  BY <1>1, CallHasType DEF BatchesInv, CallInv, Progress
<1>3. faults' \in 0 .. MaxFaults
  BY <1>1 DEF BatchesInv, TypeOK
<1>4. CASE /\ Recordable(request)
           /\ events' = Committed(request)
           /\ batch' = [batch EXCEPT
                ![w].step = "manifest",
                ![w].items = [i \in DOMAIN list |->
                  IF events[list[i].id] = NoRecord
                  THEN "recorded" ELSE "replayed"]]
  <2> DEFINE items == [i \in 1 .. Len(list) |->
                        IF events[list[i].id] = NoRecord
                        THEN "recorded" ELSE "replayed"]
             b == [batch[w] EXCEPT !.step = "manifest", !.items = items]
  <2>1. batch' = [batch EXCEPT ![w] = b]
    BY <1>2, <1>4
  <2>2. items \in [1 .. Len(list) -> Statuses]
    BY DEF Statuses
  <2>3. items \in Seq(Statuses)
    BY <1>2, <2>2, FunctionIsSeq
  <2>4. /\ DOMAIN items = 1 .. Len(list) /\ Len(items) = Len(list)
        /\ \A i \in DOMAIN items :
             items[i] = "recorded" => events[list[i].id] = NoRecord
    BY <1>2, <2>3
  <2> HIDE DEF items
  <2>5. /\ b \in BatchState
        /\ b.step = "manifest" /\ b.request = request /\ b.items = items
    BY <1>2, <2>3 DEF BatchState, Running
  <2>6. /\ events' \in [EventIds -> Event \cup {NoRecord}]
        /\ EventsGrow
        /\ \A i \in 1 .. Len(list) : events'[list[i].id] = list[i]
    BY <1>2, <1>4, CommittedEvents DEF BatchesInv, EventsGrow
  <2>7. Events!RecordsTypeOK'
    BY <1>1, <2>6 DEF BatchesInv, TypeOK, Events!RecordsTypeOK
  <2> HIDE DEF b
  <2>8. batch'[w] = b
    BY <2>1 DEF BatchesInv, TypeOK
  <2>9. Progress(batch[w])'
    BY <1>2, <2>4, <2>5, <2>6, <2>8 DEF Progress, Legal, Looping, ItemsTrue
  <2>10. CallInv(w)'
    BY <1>1, <1>2, <2>5, <2>8, <2>9 DEF CallInv, Events!Busy
  <2>11. Once(b.request.events, b.items)
    BY <1>2, <2>4, <2>5 DEF Once, Legal
  <2>12. \A i \in Ids(b.request.events, b.items) : events[i] = NoRecord
    BY <2>4, <2>5 DEF Ids
  <2>13. QED
    BY <1>1, <1>3, <2>1, <2>5, <2>6, <2>7, <2>10, <2>11, <2>12,
       CallStepKeepsInv
<1>5. CASE events' = RolledBack(request) /\ batch' = [batch EXCEPT ![w].step = "raised"]
  <2>1. UNCHANGED events
    BY <1>5 DEF RolledBack
  <2>2. batch'[w].step = "raised"
    BY <1>1, <1>5, StateAfter DEF BatchesInv
  <2>3. CallInv(w)'
    BY <1>1, <1>2, <2>2 DEF CallInv, Running, Events!Busy
  <2>4. Events!RecordsTypeOK' /\ EventsGrow
    BY <1>1, <2>1 DEF BatchesInv, TypeOK, Events!RecordsTypeOK, EventsGrow
  <2>5. QED
    BY <1>1, <1>3, <1>5, <2>3, <2>4, MoveKeepsInv
<1>6. QED
  BY <1>4, <1>5 DEF Transaction

-----------------------------------------------------------------------------
(* The manifest *)

\* The manifest of a call that has done all items.
LEMMA ManifestOfHasType ==
  ASSUME BatchesAssumption, BatchesInv, NEW w \in Workers,
         batch[w].step = "manifest"
  PROVE  ManifestOf(w) \in Manifest
<1>1. batch[w].step \in Running
  BY DEF Running
<1>2. /\ batch[w].request \in Requests
      /\ batch[w].request.events \in Seq(Event)
      /\ batch[w].items \in Seq(Statuses)
      /\ Len(batch[w].items) = Len(batch[w].request.events)
  BY <1>1, CallHasType DEF BatchesInv, CallInv, Progress
<1>3. batch[w].items \in [DOMAIN batch[w].request.events -> Statuses]
  BY <1>2
<1>4. ManifestOf(w) \in ManifestsFor(batch[w].request)
  BY <1>3 DEF ManifestOf, ManifestsFor
<1>5. QED
  BY <1>2, <1>4 DEF Manifest

\* An accepted put of a manifest, whether its caller learns of it or not.
LEMMA ManifestPutKeepsInv ==
  ASSUME BatchesAssumption, NoManifestAssumption, BatchesInv, NEW w \in Workers,
         batch[w].step = "manifest",
         ManifestWritable(manifests[batch[w].request.batch]),
         manifests' = ManifestWritten(w),
         NEW b, batch' = [batch EXCEPT ![w] = b],
         b = NoBatch \/ b = [batch[w] EXCEPT !.step = "recorded"],
         UNCHANGED <<events, eventCall>>, faults' \in 0 .. MaxFaults
  PROVE  BatchesInv'
<1> DEFINE id == batch[w].request.batch
<1>1. /\ batch[w].step \in Running
      /\ batch[w] \in [step : Running \cup Outcomes, request : Requests,
                       items : Seq(Statuses)]
      /\ id \in BatchIds
      /\ batch[w].request.events \in Seq(Event)
  BY CallHasType DEF BatchesInv, Running
<1>2. /\ b \in BatchState
      /\ b.step \in {"off", "recorded"}
      /\ b.step = "recorded" =>
           b.request = batch[w].request /\ b.items = batch[w].items
  BY <1>1 DEF BatchState, NoBatch, Outcomes
<1>3. ManifestOf(w) \in Manifest /\ ManifestOf(w) # NoRecord
  BY ManifestOfHasType, NoManifestAssumption
<1>4. /\ manifests[id] = NoRecord
      /\ \A c \in BatchIds :
           manifests'[c] = IF c = id THEN ManifestOf(w) ELSE manifests[c]
      /\ manifests' \in [BatchIds -> Manifest \cup {NoRecord}]
  BY <1>1, <1>3
  DEF ManifestWritable, ManifestWritten, BatchesInv, TypeOK
<1>5. Made' = Made \cup {id} /\ id \notin Made
  BY <1>1, <1>3, <1>4 DEF Made
<1> HIDE DEF id
<1>6. /\ batch'[w] = b
      /\ \A v \in Workers \ {w} : batch'[v] = batch[v]
  BY DEF BatchesInv, TypeOK
<1>7. TypeOK'
  BY <1>2, <1>4 DEF BatchesInv, TypeOK, Events!RecordsTypeOK
<1>8. ASSUME NEW v \in Workers PROVE CallInv(v)'
  <2>1. CASE v = w
    <3>1. eventCall[w].step \notin Events!Busy
      BY DEF BatchesInv, CallInv
    <3>2. QED
      BY <1>2, <1>6, <2>1, <3>1 DEF CallInv, Running, Events!Busy
  <2>2. CASE v # w
    <3>1. EventsGrow
      BY DEF EventsGrow
    <3>2. QED
      BY <1>6, <2>2, <3>1, OtherCallsStay DEF BatchesInv
  <2>3. QED
    BY <2>1, <2>2
<1>9. ManifestIsTrue'
  <2>1. SUFFICES ASSUME NEW c \in Made', NEW i \in DOMAIN manifests'[c].items,
                        manifests'[c].items[i] # "failed"
                 PROVE  StoredOf(c, i)' = manifests'[c].events[i]
    BY DEF ManifestIsTrue
  <2>2. CASE c = id
    <3>1. ItemsTrue(batch[w])
      BY <1>1 DEF BatchesInv, CallInv, Progress
    <3>2. manifests'[c] = ManifestOf(w)
      BY <1>4, <2>2, <1>1 DEF id
    <3>3. QED
      BY <2>1, <3>1, <3>2 DEF ItemsTrue, ManifestOf, StoredOf
  <2>3. CASE c # id
    <3>1. c \in Made /\ manifests'[c] = manifests[c]
      BY <1>4, <1>5, <2>3 DEF Made
    <3>2. QED
      BY <2>1, <3>1 DEF BatchesInv, ManifestIsTrue, StoredOf
  <2>4. QED
    BY <2>2, <2>3
<1>10. ReceiptsMade' /\ ReceiptsAgree'
  <2>1. SUFFICES ASSUME NEW v \in Workers,
                        batch'[v].step \in {"recorded", "replayed"}
                 PROVE  /\ batch'[v].request.batch \in Made'
                        /\ manifests'[batch'[v].request.batch] = ManifestOf(v)'
    BY DEF ReceiptsMade, ReceiptsAgree
  <2>2. CASE v = w
    <3>1. batch'[w].request = batch[w].request /\ batch'[w].items = batch[w].items
      BY <1>2, <1>6, <2>1, <2>2
    <3>2. QED
      BY <1>1, <1>4, <1>5, <2>2, <3>1 DEF ManifestOf, id
  <2>3. CASE v # w
    <3>1. /\ batch'[v] = batch[v]
          /\ batch[v].request.batch \in Made
          /\ manifests[batch[v].request.batch] = ManifestOf(v)
      BY <1>6, <2>1, <2>3 DEF BatchesInv, ReceiptsMade, ReceiptsAgree
    <3>2. batch[v].request.batch # id /\ batch[v].request.batch \in BatchIds
      BY <1>5, <3>1 DEF Made
    <3>3. QED
      BY <1>4, <1>5, <3>1, <3>2 DEF ManifestOf
  <2>4. QED
    BY <2>2, <2>3
<1>11. CreditsInv'
  <2>1. Held(w)' = {} /\ \A v \in Workers \ {w} : Held(v)' = Held(v)
    BY <1>2, <1>6 DEF Held, Running
  <2>2. \A c \in BatchIds : Kept(c)' = IF c = id THEN Held(w) ELSE Kept(c)
    BY <1>1, <1>4, <1>5 DEF Kept, Held, ManifestOf, Made, id
  <2>3. \A v \in Workers :
          batch'[v].step \in Running =>
            Once(batch'[v].request.events, batch'[v].items)
    BY <1>2, <1>6 DEF BatchesInv, CreditsInv, Running
  <2>4. \A c \in Made' : Once(manifests'[c].events, manifests'[c].items)
    <3>1. Once(ManifestOf(w).events, ManifestOf(w).items)
      BY <1>1 DEF BatchesInv, CreditsInv, ManifestOf
    <3>2. QED
      BY <1>4, <1>5, <3>1 DEF BatchesInv, CreditsInv, Made
  <2>5. \A u, v \in Workers : u # v => Held(u)' \cap Held(v)' = {}
    BY <2>1 DEF BatchesInv, CreditsInv
  <2>6. \A v \in Workers, c \in BatchIds : Held(v)' \cap Kept(c)' = {}
    BY <2>1, <2>2 DEF BatchesInv, CreditsInv
  <2>7. \A c, d \in BatchIds : c # d => Kept(c)' \cap Kept(d)' = {}
    BY <2>2 DEF BatchesInv, CreditsInv
  <2>8. QED
    BY <2>3, <2>4, <2>5, <2>6, <2>7 DEF CreditsInv
<1>12. QED
  BY <1>7, <1>8, <1>9, <1>10, <1>11 DEF BatchesInv

LEMMA PutManifestKeepsInv ==
  ASSUME BatchesAssumption, NoManifestAssumption, BatchesInv,
         NEW w \in Workers, PutManifest(w)
  PROVE  BatchesInv'
<1>1. /\ batch[w].step = "manifest"
      /\ UNCHANGED <<events, eventCall, faults>>
      /\ faults' \in 0 .. MaxFaults
  BY DEF PutManifest, eventVars, BatchesInv, TypeOK
<1>2. CASE /\ ManifestWritable(manifests[batch[w].request.batch])
           /\ manifests' = ManifestWritten(w)
           /\ batch' = [batch EXCEPT ![w].step = "recorded"]
  <2>1. batch' = [batch EXCEPT ![w] = [batch[w] EXCEPT !.step = "recorded"]]
    BY <1>2
  <2>2. QED
    BY <1>1, <1>2, <2>1, ManifestPutKeepsInv
<1>3. CASE /\ ~ManifestWritable(manifests[batch[w].request.batch])
           /\ Replay(w)
           /\ UNCHANGED manifests
  BY <1>1, <1>3, ReplayKeepsInv DEF ManifestWritable
<1>4. QED
  BY <1>2, <1>3 DEF PutManifest

LEMMA DieKeepsInv ==
  ASSUME BatchesAssumption, NoManifestAssumption, BatchesInv,
         NEW w \in Workers, Die(w)
  PROVE  BatchesInv'
<1>1. /\ batch[w].step \in Running
      /\ batch' = [batch EXCEPT ![w] = NoBatch]
      /\ faults' \in 0 .. MaxFaults
      /\ batch'[w] = NoBatch
  <2>1. faults < MaxFaults /\ faults' = faults + 1 /\ faults \in 0 .. MaxFaults
    BY DEF Die, BatchesInv, TypeOK
  <2>2. MaxFaults \in Nat
    BY DEF BatchesAssumption
  <2>3. faults' \in 0 .. MaxFaults
    BY <2>1, <2>2
  <2>4. QED
    BY <2>3 DEF Die, BatchesInv, TypeOK
<1>2. /\ NoBatch \in BatchState
      /\ NoBatch.step \notin Running /\ NoBatch.step # "store"
      /\ NoBatch.step \notin {"recorded", "replayed"}
  BY DEF BatchState, NoBatch, Running
<1>3. ASSUME UNCHANGED manifests, Events!RecordsTypeOK', EventsGrow,
             \A v \in Workers \ {w} : eventCall'[v] = eventCall[v],
             eventCall'[w].step \notin Events!Busy
      PROVE  BatchesInv'
  <2>1. CallInv(w)'
    BY <1>1, <1>2, <1>3 DEF CallInv, Events!Busy
  <2>2. QED
    BY <1>1, <1>2, <1>3, <2>1, CallStepKeepsInv
<1>4. CASE batch[w].step = "store" /\ Events!Abandon(w) /\ UNCHANGED manifests
  <2>1. eventCall'[w] = Events!NoCall
    BY <1>4 DEF Events!Abandon, BatchesInv, TypeOK, Events!RecordsTypeOK
  <2>2. eventCall'[w].step \notin Events!Busy
    BY <2>1 DEF Events!NoCall, Events!Busy
  <2>3. /\ Events!RecordsTypeOK' /\ EventsGrow
        /\ \A v \in Workers \ {w} : eventCall'[v] = eventCall[v]
    BY <1>4, EventCallStep DEF BatchesInv
  <2>4. QED
    BY <1>3, <1>4, <2>2, <2>3
<1>5. CASE batch[w].step # "store" /\ UNCHANGED <<eventVars, manifests>>
  <2>1. eventCall[w].step \notin Events!Busy
    BY <1>5 DEF BatchesInv, CallInv
  <2>2. Events!RecordsTypeOK' /\ EventsGrow
    BY <1>5 DEF eventVars, BatchesInv, TypeOK, Events!RecordsTypeOK, EventsGrow
  <2>3. QED
    BY <1>3, <1>5, <2>1, <2>2 DEF eventVars
<1>6. CASE /\ batch[w].step = "transaction"
           /\ Recordable(batch[w].request)
           /\ events' = Committed(batch[w].request)
           /\ UNCHANGED <<eventCall, manifests>>
  <2>1. /\ batch[w].request \in Requests /\ Legal(batch[w].request)
        /\ eventCall[w].step \notin Events!Busy
    BY <1>1, <1>6, CallHasType DEF BatchesInv, CallInv, Progress
  <2>2. /\ events' \in [EventIds -> Event \cup {NoRecord}]
        /\ EventsGrow
    BY <1>6, <2>1, CommittedEvents DEF BatchesInv, EventsGrow
  <2>3. Events!RecordsTypeOK'
    BY <1>6, <2>2 DEF BatchesInv, TypeOK, Events!RecordsTypeOK
  <2>4. QED
    BY <1>3, <1>6, <2>1, <2>2, <2>3
<1>7. CASE /\ batch[w].step = "manifest"
           /\ ManifestWritable(manifests[batch[w].request.batch])
           /\ manifests' = ManifestWritten(w)
           /\ UNCHANGED eventVars
  BY <1>1, <1>7, ManifestPutKeepsInv DEF eventVars
<1>8. QED
  BY <1>4, <1>5, <1>6, <1>7 DEF Die, Effect

-----------------------------------------------------------------------------
(* The theorems *)

\* Nothing is stored and nobody runs: the invariant holds.
LEMMA InitEstablishesInv ==
  ASSUME BatchesAssumption, Init
  PROVE  BatchesInv
<1>1. /\ \A w \in Workers : batch[w] = NoBatch
      /\ \A w \in Workers : eventCall[w] = Events!NoCall
      /\ Made = {}
  BY DEF Init, Events!RecordsInit, Made
<1>2. /\ NoBatch.step = "off" /\ Events!NoCall.step = "none"
      /\ "off" \notin Running \cup {"recorded", "replayed"}
      /\ "none" \notin Events!Busy
  BY DEF NoBatch, Events!NoCall, Running, Events!Busy
<1>3. TypeOK
  <2>1. Events!RecordsTypeOK
    BY DEF Init, Events!RecordsInit, Events!RecordsTypeOK, Events!CallRecord
  <2>2. batch \in [Workers -> BatchState]
    BY DEF Init, BatchState
  <2>3. faults \in 0 .. MaxFaults
    BY DEF Init, BatchesAssumption
  <2>4. QED
    BY <2>1, <2>2, <2>3 DEF Init, TypeOK
<1>4. \A w \in Workers : CallInv(w)
  BY <1>1, <1>2 DEF CallInv
<1>5. ManifestIsTrue /\ ReceiptsMade /\ ReceiptsAgree
  BY <1>1, <1>2 DEF ManifestIsTrue, ReceiptsMade, ReceiptsAgree
<1>6. CreditsInv
  <2>1. /\ \A w \in Workers : Held(w) = {}
        /\ \A b \in BatchIds : Kept(b) = {}
    BY <1>1, <1>2 DEF Held, Kept
  <2>2. QED
    BY <1>1, <1>2, <2>1 DEF CreditsInv
<1>7. QED
  BY <1>3, <1>4, <1>5, <1>6 DEF BatchesInv

\* The invariant is about the variables of the module only.
LEMMA StutterKeepsInv ==
  ASSUME BatchesInv, UNCHANGED vars
  PROVE  BatchesInv'
<1>1. UNCHANGED <<events, eventCall, manifests, batch, faults>>
  BY DEF vars
<1>2. TypeOK'
  BY <1>1 DEF BatchesInv, TypeOK, Events!RecordsTypeOK
<1>3. \A w \in Workers : CallInv(w)'
  BY <1>1 DEF BatchesInv, CallInv, Progress, ItemsTrue, Current, Legal, Looping,
              Events!Busy
<1>4. ManifestIsTrue' /\ ReceiptsMade' /\ ReceiptsAgree'
  BY <1>1 DEF BatchesInv, ManifestIsTrue, ReceiptsMade, ReceiptsAgree, Made,
              StoredOf, ManifestOf
<1>5. CreditsInv'
  BY <1>1 DEF BatchesInv, CreditsInv, Held, Kept, Made
<1>6. QED
  BY <1>2, <1>3, <1>4, <1>5 DEF BatchesInv

\* Every step of every publisher keeps the invariant.
LEMMA NextKeepsInv ==
  ASSUME BatchesAssumption, NoManifestAssumption, BatchesInv, [Next]_vars
  PROVE  BatchesInv'
<1>1. CASE UNCHANGED vars
  BY <1>1, StutterKeepsInv
<1>2. CASE Next
  <2>1. PICK w \in Workers :
          \/ \E request \in Requests : RecordBatch(w, request)
          \/ Proceed(w)
          \/ Die(w)
    BY <1>2 DEF Next
  <2>2. CASE Proceed(w)
    BY <2>2, LookupKeepsInv, StartItemKeepsInv, ReadTargetKeepsInv,
       StoreKeepsInv, ItemFailsKeepsInv, TransactionKeepsInv,
       PutManifestKeepsInv
    DEF Proceed
  <2>3. QED
    BY <2>1, <2>2, RecordBatchKeepsInv, DieKeepsInv
<1>3. QED
  BY <1>1, <1>2

\* The invariant holds throughout.
THEOREM BatchesInvariance == Spec => []BatchesInv
<1>1. Init => BatchesInv
  BY BatchesAssumption, InitEstablishesInv
<1>2. BatchesInv /\ [Next]_vars => BatchesInv'
  BY BatchesAssumption, NoManifestAssumption, NextKeepsInv
<1>3. QED
  BY <1>1, <1>2, PTL DEF Spec

\* Every variable keeps its type.
THEOREM BatchesTypeCorrect == Spec => []TypeOK
<1>1. BatchesInv => TypeOK
  BY DEF BatchesInv
<1>2. QED
  BY <1>1, BatchesInvariance, PTL

\* What record_batch's manifest calls recorded or replayed is stored as sent,
\* in both profiles, whoever raced the batch and wherever its calls died.
THEOREM ManifestsAreTrue == Spec => []ManifestIsTrue
<1>1. BatchesInv => ManifestIsTrue
  BY DEF BatchesInv
<1>2. QED
  BY <1>1, BatchesInvariance, PTL

\* A receipt of record_batch tells what the stored manifest tells, also after a
\* lost race to put it.
THEOREM ReceiptsAlwaysAgree == Spec => []ReceiptsAgree
<1>1. BatchesInv => ReceiptsAgree
  BY DEF BatchesInv
<1>2. QED
  BY <1>1, BatchesInvariance, PTL

\* One manifest, in one place, says that its batch has recorded an event.
THEOREM CreditsAreGivenOnce == Spec => []CreditedOnce
<1>1. ASSUME BatchesInv PROVE CreditedOnce
  <2>1. SUFFICES ASSUME NEW b \in Made, NEW c \in Made,
                        NEW i \in DOMAIN manifests[b].items,
                        NEW j \in DOMAIN manifests[c].items,
                        manifests[b].items[i] = "recorded",
                        manifests[c].items[j] = "recorded",
                        manifests[b].events[i].id = manifests[c].events[j].id
                 PROVE  b = c /\ i = j
    BY DEF CreditedOnce
  <2>2. /\ manifests[b].events[i].id \in Kept(b)
        /\ manifests[c].events[j].id \in Kept(c)
    BY <2>1 DEF Kept, Ids
  <2>3. b = c
    BY <1>1, <2>1, <2>2 DEF BatchesInv, CreditsInv, Made
  <2>4. i = j
    BY <1>1, <2>1, <2>3 DEF BatchesInv, CreditsInv, Once
  <2>5. QED
    BY <2>3, <2>4
<1>2. QED
  BY <1>1, BatchesInvariance, PTL

\* A manifest that changes is put by a call that has done all items, where
\* there was none.
LEMMA ManifestsChangeByPut ==
  ASSUME Next, manifests' # manifests
  PROVE  \E w \in Workers :
           /\ batch[w].step = "manifest"
           /\ ManifestWritable(manifests[batch[w].request.batch])
           /\ manifests' = ManifestWritten(w)
<1>1. PICK w \in Workers : PutManifest(w) \/ Effect(w)
  <2>1. PICK w \in Workers :
          \/ \E request \in Requests : RecordBatch(w, request)
          \/ Proceed(w)
          \/ Die(w)
    BY DEF Next
  <2>2. /\ ~Lookup(w) /\ ~StartItem(w) /\ ~ReadTarget(w) /\ ~Store(w)
        /\ ~ItemFails(w) /\ ~Transaction(w)
        /\ \A request \in Requests : ~RecordBatch(w, request)
    BY DEF Lookup, StartItem, ReadTarget, Store, ItemFails, Transaction,
           RecordBatch
  <2>3. QED
    BY <2>1, <2>2, Zenon DEF Proceed, Die
<1>2. CASE PutManifest(w)
  BY <1>2 DEF PutManifest
<1>3. CASE Effect(w)
  BY <1>3 DEF Effect
<1>4. QED
  BY <1>1, <1>2, <1>3

\* Every step writes one manifest that was not there, or none.
LEMMA StepRefinesWriteOnce ==
  ASSUME BatchesAssumption, BatchesInv, [Next]_vars
  PROVE  [\E k \in BatchIds, f \in Manifest : Facts!Write(k, f)]_manifests
<1>1. SUFFICES ASSUME manifests' # manifests
               PROVE  \E k \in BatchIds, f \in Manifest : Facts!Write(k, f)
  OBVIOUS
<1>2. PICK w \in Workers : /\ batch[w].step = "manifest"
                           /\ ManifestWritable(manifests[batch[w].request.batch])
                           /\ manifests' = ManifestWritten(w)
  BY <1>1, ManifestsChangeByPut DEF vars
<1>3. batch[w].request.batch \in BatchIds /\ ManifestOf(w) \in Manifest
  BY <1>2, CallHasType, ManifestOfHasType DEF BatchesInv, Running
<1>4. Facts!Write(batch[w].request.batch, ManifestOf(w))
  BY <1>2 DEF Facts!Write, ManifestWritable, ManifestWritten
<1>5. QED
  BY <1>3, <1>4

\* "A caller-provided batch ID is immutable": the stored manifests implement a
\* map that is written once.
THEOREM ManifestsRefineWriteOnce == Spec => ManifestsAreFacts
<1>1. Init => Facts!Init
  BY DEF Init, Facts!Init
<1>2. BatchesInv /\ [Next]_vars
        => [\E k \in BatchIds, f \in Manifest : Facts!Write(k, f)]_manifests
  BY BatchesAssumption, StepRefinesWriteOnce
<1>3. Spec => [][\E k \in BatchIds, f \in Manifest : Facts!Write(k, f)]_manifests
  BY <1>2, BatchesInvariance, PTL DEF Spec
<1>4. Spec => Facts!Init
  BY <1>1, PTL DEF Spec
<1>5. QED
  BY <1>3, <1>4, PTL DEF ManifestsAreFacts, Facts!WriteOnceSpec

-----------------------------------------------------------------------------
(* The atomic profile *)

\* All events of a request are stored as they were sent, or none of them is.
Whole(request) ==
  \A i \in DOMAIN request.events :
    events[request.events[i].id] = request.events[i]

Absent(request) ==
  \A i \in DOMAIN request.events :
    events[request.events[i].id] # request.events[i]

\* A call of the atomic profile never takes its events one by one, and has
\* stored them all when it puts its manifest.
AtomicCall(w) ==
  batch[w].step \in Running /\ batch[w].request.mode = "atomic" =>
    /\ batch[w].step \notin Looping
    /\ batch[w].step = "manifest" => Whole(batch[w].request)

AtomicStored(request) ==
  /\ Whole(request) \/ Absent(request)
  /\ \A c \in Made : manifests[c].events = request.events => Whole(request)

AtomicInv ==
  /\ \A w \in Workers : AtomicCall(w)
  /\ \A request \in Requests :
       request.mode = "atomic" /\ Exclusive(request) => AtomicStored(request)

\* What a call goes through before it takes its events one by one or puts its
\* manifest.
LEMMA CallMoves ==
  ASSUME BatchesAssumption, BatchesInv, NEW w \in Workers,
         \/ \E request \in Requests : RecordBatch(w, request)
         \/ Proceed(w)
         \/ Die(w)
  PROVE  /\ \A v \in Workers \ {w} : batch'[v] = batch[v]
         /\ batch'[w].step \in Looping \cup {"manifest"} =>
              /\ batch[w].step \in Running
              /\ batch'[w].request = batch[w].request
              /\ \/ batch[w].step \in Looping
                 \/ batch[w].request.mode # "atomic"
                 \/ /\ batch'[w].step = "manifest"
                    /\ batch[w].step = "transaction"
                    /\ Recordable(batch[w].request)
                    /\ events' = Committed(batch[w].request)
<1>1. CASE \E request \in Requests : RecordBatch(w, request)
  BY <1>1 DEF RecordBatch, BatchesInv, TypeOK, Looping
<1>2. CASE Die(w)
  BY <1>2 DEF Die, NoBatch, BatchesInv, TypeOK, Looping
<1>3. CASE Proceed(w)
  <2>1. /\ batch[w].step \in Running
        /\ batch[w] \in [step : Running \cup Outcomes, request : Requests,
                         items : Seq(Statuses)]
        /\ \A r : batch' = [batch EXCEPT ![w] = r] => batch'[w] = r
    <3>1. batch[w].step \in Running
      BY <1>3 DEF Proceed, Lookup, StartItem, ReadTarget, Store, ItemFails,
         Transaction, PutManifest, Running
    <3>2. QED
      BY <3>1, CallHasType DEF BatchesInv, TypeOK
  <2>2. ASSUME Replay(w) PROVE batch'[w].step \in {"replayed", "conflict"}
    BY <2>1, <2>2 DEF Replay
  <2>3. CASE Lookup(w)
    <3>1. \/ Replay(w)
          \/ batch' = [batch EXCEPT ![w].step =
               IF batch[w].request.mode = "atomic" THEN "transaction" ELSE "items"]
      BY <2>3 DEF Lookup
    <3>2. CASE Replay(w)
      BY <2>2, <3>2 DEF Looping, BatchesInv, TypeOK, Replay
    <3>3. CASE batch' = [batch EXCEPT ![w].step =
                 IF batch[w].request.mode = "atomic" THEN "transaction" ELSE "items"]
      BY <2>1, <3>3, StateAfter DEF Looping, BatchesInv, TypeOK
    <3>4. QED
      BY <3>1, <3>2, <3>3
  <2>4. CASE StartItem(w) \/ ReadTarget(w) \/ Store(w) \/ ItemFails(w)
    <3>1. batch[w].step \in Looping
      BY <2>4 DEF StartItem, ReadTarget, Store, ItemFails, Looping
    <3>2. \/ UNCHANGED batch
          \/ \E s : batch' = [batch EXCEPT ![w].step = s]
          \/ \E s, items : batch' = [batch EXCEPT ![w].items = items,
                                                  ![w].step = s]
      <4>1. \A status : ItemDone(w, status) =>
              \E s, items : batch' = [batch EXCEPT ![w].items = items,
                                                   ![w].step = s]
        BY DEF ItemDone
      <4>2. QED
        BY <2>4, <4>1 DEF StartItem, ReadTarget, Store, ItemFails
    <3>3. /\ batch'[w].request = batch[w].request
          /\ \A v \in Workers \ {w} : batch'[v] = batch[v]
      BY <2>1, <3>2 DEF BatchesInv, TypeOK
    <3>4. QED
      BY <2>1, <3>1, <3>3
  <2>5. CASE Transaction(w)
    <3>1. CASE /\ Recordable(batch[w].request)
               /\ events' = Committed(batch[w].request)
               /\ \E items : batch' = [batch EXCEPT ![w].step = "manifest",
                                                    ![w].items = items]
      BY <2>1, <2>5, <3>1 DEF Transaction, Looping, BatchesInv, TypeOK
    <3>2. CASE batch' = [batch EXCEPT ![w].step = "raised"]
      BY <2>1, <3>2, StateAfter DEF Looping, BatchesInv, TypeOK
    <3>3. QED
      BY <2>5, <3>1, <3>2 DEF Transaction
  <2>6. CASE PutManifest(w)
    <3>1. \/ Replay(w)
          \/ batch' = [batch EXCEPT ![w].step = "recorded"]
      BY <2>6 DEF PutManifest
    <3>2. CASE Replay(w)
      BY <2>2, <3>2 DEF Looping, BatchesInv, TypeOK, Replay
    <3>3. CASE batch' = [batch EXCEPT ![w].step = "recorded"]
      BY <2>1, <3>3, StateAfter DEF Looping, BatchesInv, TypeOK
    <3>4. QED
      BY <3>1, <3>2, <3>3
  <2>7. QED
    BY <1>3, <2>3, <2>4, <2>5, <2>6 DEF Proceed
<1>4. QED
  BY <1>1, <1>2, <1>3

\* What a step of a call does to the stored events: it adds the event that the
\* call is at, or all events of its transaction, or none.
LEMMA EventsAdded ==
  ASSUME BatchesAssumption, BatchesInv, NEW w \in Workers,
         \/ \E request \in Requests : RecordBatch(w, request)
         \/ Proceed(w)
         \/ Die(w)
  PROVE  /\ EventsGrow
         /\ \/ UNCHANGED events
            \/ /\ batch[w].step = "store"
               /\ \A id \in EventIds :
                    \/ events'[id] = events[id]
                    \/ id = Current(w).id /\ events'[id] = Current(w)
            \/ /\ batch[w].step = "transaction"
               /\ Recordable(batch[w].request)
               /\ events' = Committed(batch[w].request)
<1>1. \/ UNCHANGED events
      \/ /\ batch[w].step = "store"
         /\ Events!Get(w) \/ Events!Put(w) \/ Events!Reread(w) \/ Events!Abandon(w)
      \/ /\ batch[w].step = "transaction"
         /\ Recordable(batch[w].request)
         /\ events' = Committed(batch[w].request)
  BY DEF RecordBatch, Proceed, Lookup, StartItem, ReadTarget, Store, ItemFails,
     Transaction, RolledBack, PutManifest, Die, Effect, eventVars, Events!Start
<1>2. CASE UNCHANGED events
  BY <1>2 DEF EventsGrow
<1>3. CASE /\ batch[w].step = "store"
           /\ Events!Get(w) \/ Events!Put(w) \/ Events!Reread(w) \/ Events!Abandon(w)
  <2>1. EventsGrow
    BY <1>3, EventCallStep DEF BatchesInv
  <2>2. \/ UNCHANGED events
        \/ events' = [events EXCEPT ![eventCall[w].key] = eventCall[w].content]
    BY <1>3 DEF Events!Get, Events!Put, Events!Reread, Events!Abandon,
       Events!Written
  <2>3. eventCall[w].content = Current(w) /\ eventCall[w].key = Current(w).id
    BY <1>3 DEF BatchesInv, CallInv
  <2>4. QED
    BY <1>3, <2>1, <2>2, <2>3 DEF BatchesInv, TypeOK, Events!RecordsTypeOK
<1>4. CASE /\ batch[w].step = "transaction"
           /\ Recordable(batch[w].request)
           /\ events' = Committed(batch[w].request)
  <2>1. batch[w].request \in Requests /\ Legal(batch[w].request)
    BY <1>4, CallHasType DEF BatchesInv, CallInv, Progress, Running
  <2>2. QED
    BY <1>4, <2>1, CommittedEvents DEF BatchesInv, EventsGrow
<1>5. QED
  BY <1>1, <1>2, <1>3, <1>4

\* What is stored stays stored: a request that left all events keeps them.
LEMMA WholeStays ==
  ASSUME BatchesAssumption, EventsGrow, NEW request \in Requests, Whole(request)
  PROVE  Whole(request)'
<1>1. request.events \in Seq(Event)
  BY DEF BatchesAssumption, Request
<1>2. \A i \in DOMAIN request.events :
        request.events[i].id \in EventIds /\ request.events[i] # NoRecord
  BY <1>1, EventHasType
<1>3. QED
  BY <1>2 DEF Whole, EventsGrow

\* Events of others do not make a part of an exclusive request.
LEMMA AbsentStays ==
  ASSUME BatchesAssumption, NEW request \in Requests, Absent(request),
         \A id \in EventIds :
           events'[id] = events[id] \/ events'[id] \notin ToSet(request.events)
  PROVE  Absent(request)'
<1>1. request.events \in Seq(Event)
  BY DEF BatchesAssumption, Request
<1>2. \A i \in DOMAIN request.events :
        /\ request.events[i].id \in EventIds
        /\ request.events[i] \in ToSet(request.events)
  BY <1>1, EventHasType DEF ToSet
<1>3. QED
  BY <1>2 DEF Absent

\* The next event of a call is one of its request's.
LEMMA CurrentIsSent ==
  ASSUME BatchesAssumption, BatchesInv, NEW w \in Workers,
         batch[w].step = "store"
  PROVE  /\ batch[w].request \in Requests
         /\ Current(w) \in ToSet(batch[w].request.events)
<1>1. /\ batch[w].request \in Requests
      /\ batch[w].request.events \in Seq(Event)
      /\ batch[w].items \in Seq(Statuses)
      /\ Len(batch[w].items) < Len(batch[w].request.events)
  BY CallHasType DEF BatchesInv, CallInv, Progress, Running, Looping
<1>2. Len(batch[w].items) + 1 \in DOMAIN batch[w].request.events
  BY <1>1
<1>3. QED
  BY <1>1, <1>2 DEF Current, ToSet

\* A commit stores events of its request only.
LEMMA CommitIsSent ==
  ASSUME BatchesAssumption, NEW request \in Requests
  PROVE  \A id \in EventIds :
           \/ Committed(request)[id] = events[id]
           \/ /\ Committed(request)[id] \in ToSet(request.events)
              /\ Committed(request)[id].id = id
<1> DEFINE list == request.events
           n == Len(list)
<1>1. list \in Seq(Event) /\ n \in Nat /\ DOMAIN list = 1 .. n
  BY DEF BatchesAssumption, Request
<1>2. (n + 1) - 1 = n
  BY <1>1
<1>3. ASSUME NEW id \in EventIds
      PROVE  \/ Committed(request)[id] = events[id]
             \/ /\ Committed(request)[id] \in ToSet(list)
                /\ Committed(request)[id].id = id
  <2> DEFINE at == CHOOSE j \in 1 .. n : list[j].id = id
  <2>1. Committed(request)[id] =
          IF \E j \in 1 .. n : list[j].id = id THEN list[at] ELSE events[id]
    BY <1>2 DEF Committed, Within
  <2>2. (\E j \in 1 .. n : list[j].id = id) =>
          at \in 1 .. n /\ list[at].id = id
    OBVIOUS
  <2> HIDE DEF at
  <2>3. QED
    BY <1>1, <2>1, <2>2 DEF ToSet
<1>4. QED
  BY <1>3

\* No other request makes a part of an exclusive atomic one.
LEMMA StepIsWhole ==
  ASSUME BatchesAssumption, BatchesInv, AtomicInv, NEW w \in Workers,
         \/ \E request \in Requests : RecordBatch(w, request)
         \/ Proceed(w)
         \/ Die(w),
         NEW request \in Requests, request.mode = "atomic", Exclusive(request)
  PROVE  Whole(request)' \/ Absent(request)'
<1>1. Whole(request) \/ Absent(request)
  BY DEF AtomicInv, AtomicStored
<1>2. EventsGrow
  BY EventsAdded
<1>3. CASE Whole(request)
  BY <1>2, <1>3, WholeStays
<1>4. CASE Absent(request)
  <2>1. CASE UNCHANGED events
    BY <1>4, <2>1, AbsentStays
  <2>2. CASE /\ batch[w].step = "store"
             /\ \A id \in EventIds :
                  \/ events'[id] = events[id]
                  \/ id = Current(w).id /\ events'[id] = Current(w)
    <3>1. /\ batch[w].request \in Requests
          /\ Current(w) \in ToSet(batch[w].request.events)
      BY <2>2, CurrentIsSent
    <3>2. batch[w].request # request
      BY <2>2 DEF AtomicInv, AtomicCall, Running, Looping
    <3>3. Current(w) \notin ToSet(request.events)
      BY <3>1, <3>2 DEF Exclusive
    <3>4. QED
      BY <1>4, <2>2, <3>3, AbsentStays
  <2>3. CASE /\ batch[w].step = "transaction"
             /\ Recordable(batch[w].request)
             /\ events' = Committed(batch[w].request)
    <3>1. batch[w].request \in Requests /\ Legal(batch[w].request)
      BY <2>3, CallHasType DEF BatchesInv, CallInv, Progress, Running
    <3>2. CASE batch[w].request = request
      <4>1. DOMAIN request.events = 1 .. Len(request.events)
        BY DEF BatchesAssumption, Request
      <4>2. QED
        BY <2>3, <3>1, <3>2, <4>1, CommittedEvents DEF BatchesInv, Whole
    <3>3. CASE batch[w].request # request
      <4>1. ToSet(request.events) \cap ToSet(batch[w].request.events) = {}
        BY <3>1, <3>3 DEF Exclusive
      <4>2. \A id \in EventIds :
              events'[id] = events[id] \/ events'[id] \in ToSet(batch[w].request.events)
        BY <2>3, <3>1, CommitIsSent
      <4>3. QED
        BY <1>4, <4>1, <4>2, AbsentStays
    <3>4. QED
      BY <3>2, <3>3
  <2>4. QED
    BY <2>1, <2>2, <2>3, EventsAdded
<1>5. QED
  BY <1>1, <1>3, <1>4

\* Only the atomic call that stored all events of its request puts a manifest
\* of them.
LEMMA StepMakesTrueManifests ==
  ASSUME BatchesAssumption, NoManifestAssumption, BatchesInv, AtomicInv, Next,
         NEW request \in Requests, request.mode = "atomic", Exclusive(request),
         EventsGrow,
         NEW b \in Made', manifests'[b].events = request.events
  PROVE  Whole(request)'
<1>1. CASE b \in Made /\ manifests'[b] = manifests[b]
  <2>1. Whole(request)
    BY <1>1 DEF AtomicInv, AtomicStored
  <2>2. QED
    BY <2>1, WholeStays
<1>2. CASE ~(b \in Made /\ manifests'[b] = manifests[b])
  <2>1. manifests' # manifests
    BY <1>2 DEF Made
  <2>2. PICK w \in Workers :
          /\ batch[w].step = "manifest"
          /\ ManifestWritable(manifests[batch[w].request.batch])
          /\ manifests' = ManifestWritten(w)
    BY <2>1, ManifestsChangeByPut
  <2>3. /\ batch[w].request \in Requests
        /\ Len(batch[w].request.events) >= 1
        /\ batch[w].request.events \in Seq(Event)
    BY <2>2, CallHasType DEF BatchesInv, CallInv, Progress, Running, Legal
  <2>4. b \in BatchIds /\ manifests'[b] = ManifestOf(w)
    BY <1>2, <2>2 DEF ManifestWritten, BatchesInv, TypeOK, Made
  <2>5. batch[w].request.events = request.events
    BY <2>4 DEF ManifestOf
  <2>6. batch[w].request.events[1] \in ToSet(request.events)
    BY <2>3, <2>5 DEF ToSet
  <2>7. batch[w].request = request
    BY <2>3, <2>5, <2>6 DEF Exclusive
  <2>8. Whole(request)
    BY <2>2, <2>7 DEF AtomicInv, AtomicCall, Running
  <2>9. QED
    BY <2>8, WholeStays
<1>3. QED
  BY <1>1, <1>2

\* An atomic call comes to its manifest through its transaction.
LEMMA StepKeepsAtomicCalls ==
  ASSUME BatchesAssumption, BatchesInv, AtomicInv, NEW w \in Workers,
         \/ \E request \in Requests : RecordBatch(w, request)
         \/ Proceed(w)
         \/ Die(w),
         NEW v \in Workers, BatchesInv'
  PROVE  AtomicCall(v)'
<1>1. SUFFICES ASSUME batch'[v].step \in Looping \cup {"manifest"},
                      batch'[v].request.mode = "atomic"
               PROVE  /\ batch'[v].step \notin Looping
                      /\ \A i \in DOMAIN batch'[v].request.events :
                           events'[batch'[v].request.events[i].id] =
                             batch'[v].request.events[i]
  BY DEF AtomicCall, Whole
<1>2. EventsGrow
  BY EventsAdded
<1>3. CASE v # w
  <2>1. batch'[v] = batch[v]
    BY <1>3, CallMoves
  <2>2. batch[v].step = "manifest" /\ batch[v].request \in Requests
        /\ Whole(batch[v].request)
    BY <1>1, <2>1, CallHasType DEF AtomicInv, AtomicCall, Running, Looping, BatchesInv
  <2>3. PICK request \in Requests : request = batch[v].request
    BY <2>2
  <2>4. Whole(request)'
    BY <1>2, <2>2, <2>3, WholeStays
  <2>5. QED
    BY <2>1, <2>2, <2>3, <2>4 DEF Looping, Whole
<1>4. CASE v = w
  <2>1. /\ batch[w].step \in Running
        /\ batch'[w].request = batch[w].request
        /\ batch[w].request.mode = "atomic"
        /\ batch[w].request \in Requests
    BY <1>1, <1>4, CallMoves, CallHasType DEF BatchesInv
  <2>2. /\ batch'[w].step = "manifest"
        /\ batch[w].step = "transaction"
        /\ Recordable(batch[w].request)
        /\ events' = Committed(batch[w].request)
    BY <1>1, <1>4, <2>1, CallMoves DEF AtomicInv, AtomicCall
  <2>3. PICK request \in Requests : request = batch[w].request
    BY <2>1
  <2>4. Legal(request) /\ DOMAIN request.events = 1 .. Len(request.events)
    BY <2>1, <2>3 DEF BatchesInv, CallInv, Progress, BatchesAssumption, Request
  <2>5. Whole(request)'
    BY <2>2, <2>3, <2>4, CommittedEvents DEF BatchesInv, Whole
  <2>6. QED
    BY <1>4, <2>1, <2>2, <2>3, <2>5 DEF Looping, Whole
<1>5. QED
  BY <1>3, <1>4

LEMMA AtomicInvariance == Spec => []AtomicInv
<1>1. Init => AtomicInv
  <2>1. SUFFICES ASSUME Init PROVE AtomicInv
    OBVIOUS
  <2>2. /\ \A w \in Workers : batch[w].step \notin Running
        /\ Made = {}
        /\ \A id \in EventIds : events[id] = NoRecord
    BY <2>1 DEF Init, Events!RecordsInit, Made, NoBatch, Running
  <2>3. ASSUME NEW request \in Requests PROVE Absent(request)
    <3>1. request.events \in Seq(Event)
      BY BatchesAssumption DEF BatchesAssumption, Request
    <3>2. QED
      BY <2>2, <3>1, BatchesAssumption, EventHasType DEF Absent
  <2>4. QED
    BY <2>2, <2>3 DEF AtomicInv, AtomicCall, AtomicStored
<1>2. BatchesInv /\ BatchesInv' /\ AtomicInv /\ [Next]_vars => AtomicInv'
  <2>1. SUFFICES ASSUME BatchesInv, BatchesInv', AtomicInv, [Next]_vars
                 PROVE  AtomicInv'
    OBVIOUS
  <2>2. CASE UNCHANGED vars
    BY <2>1, <2>2 DEF vars, eventVars, AtomicInv, AtomicCall, AtomicStored, Whole, Absent,
       Made
  <2>3. CASE Next
    <3>1. PICK w \in Workers :
            \/ \E request \in Requests : RecordBatch(w, request)
            \/ Proceed(w)
            \/ Die(w)
      BY <2>3 DEF Next
    <3>2. EventsGrow
      BY <2>1, <3>1, BatchesAssumption, EventsAdded
    <3>3. \A v \in Workers : AtomicCall(v)'
      BY <2>1, <3>1, BatchesAssumption, StepKeepsAtomicCalls
    <3>4. ASSUME NEW request \in Requests, request.mode = "atomic",
                 Exclusive(request)
          PROVE  AtomicStored(request)'
      <4>1. Whole(request)' \/ Absent(request)'
        BY <2>1, <3>1, <3>4, BatchesAssumption, StepIsWhole
      <4>2. \A b \in Made' :
              manifests'[b].events = request.events => Whole(request)'
        BY <2>1, <2>3, <3>2, <3>4, BatchesAssumption, NoManifestAssumption,
           StepMakesTrueManifests
      <4>3. QED
        BY <4>1, <4>2 DEF AtomicStored
    <3>5. QED
      BY <3>3, <3>4 DEF AtomicInv, Exclusive
  <2>4. QED
    BY <2>1, <2>2, <2>3
<1>3. QED
  BY <1>1, <1>2, BatchesInvariance, PTL DEF Spec

\* A batch of the atomic profile leaves all of its events or none, wherever its
\* calls die, and a manifest only with them: record_batch's transaction, whose
\* events no other batch sends.
THEOREM AtomicBatchesAreWhole == Spec => []AllOrNone
<1>1. ASSUME AtomicInv PROVE AllOrNone
  <2>1. SUFFICES ASSUME NEW request \in Requests,
                        request.mode = "atomic", Exclusive(request)
                 PROVE  LET left == {e \in ToSet(request.events) :
                                       events[e.id] = e}
                        IN  \/ left = ToSet(request.events)
                            \/ left = {} /\ \A b \in Made :
                                 manifests[b].events # request.events
    BY DEF AllOrNone
  <2>2. AtomicStored(request)
    BY <1>1, <2>1 DEF AtomicInv
  <2>3. CASE Whole(request)
    BY <2>3 DEF Whole, ToSet
  <2>4. CASE ~Whole(request)
    BY <2>2, <2>4 DEF AtomicStored, Absent, ToSet
  <2>5. QED
    BY <2>3, <2>4
<1>2. QED
  BY <1>1, AtomicInvariance, PTL

-----------------------------------------------------------------------------
(* Where the events come from *)

\* The steps of one call.
CallStep(w) ==
  \/ \E request \in Requests : RecordBatch(w, request)
  \/ Proceed(w)
  \/ Die(w)

\* Every event that appears is one that a running call sends, under its own id,
\* and what is stored does not change.
OnlySentAppear ==
  [][\A i \in EventIds :
       \/ events'[i] = events[i]
       \/ /\ events[i] = NoRecord
          /\ events'[i].id = i
          /\ \E w \in Workers :
               /\ batch[w].step \in Running
               /\ events'[i] \in ToSet(batch[w].request.events)]_events

LEMMA AddedAreSent ==
  ASSUME BatchesAssumption, BatchesInv, NEW w \in Workers, CallStep(w),
         NEW i \in EventIds, events'[i] # events[i]
  PROVE  /\ events[i] = NoRecord
         /\ events'[i].id = i
         /\ batch[w].step \in Running
         /\ events'[i] \in ToSet(batch[w].request.events)
<1>1. /\ EventsGrow
      /\ \/ UNCHANGED events
         \/ /\ batch[w].step = "store"
            /\ \A id \in EventIds :
                 \/ events'[id] = events[id]
                 \/ id = Current(w).id /\ events'[id] = Current(w)
         \/ /\ batch[w].step = "transaction"
            /\ Recordable(batch[w].request)
            /\ events' = Committed(batch[w].request)
  BY EventsAdded DEF CallStep
<1>2. events[i] = NoRecord
  BY <1>1 DEF EventsGrow
<1>3. CASE /\ batch[w].step = "store"
           /\ i = Current(w).id
           /\ events'[i] = Current(w)
  BY <1>2, <1>3, CurrentIsSent DEF Running
<1>4. CASE /\ batch[w].step = "transaction"
           /\ events' = Committed(batch[w].request)
  <2>1. batch[w].request \in Requests
    BY <1>4, CallHasType DEF BatchesInv, Running
  <2>2. QED
    BY <1>2, <1>4, <2>1, CommitIsSent DEF Running
<1>5. QED
  BY <1>1, <1>3, <1>4

\* record_batch stores the events of its batches only, each under its own id,
\* and overwrites none, in either profile and wherever a call dies.
THEOREM OnlySentEventsAppear == Spec => OnlySentAppear
<1>1. BatchesInv /\ [Next]_vars =>
        [\A i \in EventIds :
           \/ events'[i] = events[i]
           \/ /\ events[i] = NoRecord
              /\ events'[i].id = i
              /\ \E w \in Workers :
                   /\ batch[w].step \in Running
                   /\ events'[i] \in ToSet(batch[w].request.events)]_events
  <2>1. SUFFICES ASSUME BatchesInv, Next, NEW i \in EventIds,
                        events'[i] # events[i]
                 PROVE  /\ events[i] = NoRecord
                        /\ events'[i].id = i
                        /\ \E w \in Workers :
                             /\ batch[w].step \in Running
                             /\ events'[i] \in ToSet(batch[w].request.events)
    BY DEF vars, eventVars
  <2>2. PICK w \in Workers : CallStep(w)
    BY <2>1 DEF Next, CallStep
  <2>3. QED
    BY <2>1, <2>2, BatchesAssumption, AddedAreSent
<1>2. QED
  BY <1>1, BatchesInvariance, PTL DEF Spec, OnlySentAppear

\* A receipt is true of what is stored.
ReceiptsTrue ==
  \A w \in Workers :
    batch[w].step \in {"recorded", "replayed"} =>
      \A i \in DOMAIN batch[w].items :
        batch[w].items[i] # "failed" =>
          events[batch[w].request.events[i].id] = batch[w].request.events[i]

\* What the receipt of record_batch calls recorded or replayed is stored as the
\* caller sent it, also when the receipt is that of another call.
THEOREM ReceiptsAreTrue == Spec => []ReceiptsTrue
<1>1. ASSUME BatchesInv PROVE ReceiptsTrue
  <2>1. SUFFICES ASSUME NEW w \in Workers,
                        batch[w].step \in {"recorded", "replayed"}
                 PROVE  \A i \in DOMAIN batch[w].items :
                          batch[w].items[i] # "failed" =>
                            events[batch[w].request.events[i].id] =
                              batch[w].request.events[i]
    BY DEF ReceiptsTrue
  <2>2. PICK b : b = batch[w].request.batch
    OBVIOUS
  <2>3. b \in Made /\ manifests[b] = ManifestOf(w)
    BY <1>1, <2>1, <2>2 DEF BatchesInv, ReceiptsMade, ReceiptsAgree
  <2>4. /\ manifests[b].events = batch[w].request.events
        /\ manifests[b].items = batch[w].items
    BY <2>3 DEF ManifestOf
  <2>5. QED
    BY <1>1, <2>3, <2>4 DEF BatchesInv, ManifestIsTrue, StoredOf
<1>2. QED
  BY <1>1, BatchesInvariance, PTL

-----------------------------------------------------------------------------
(* Corrections *)

StoredIds == {i \in EventIds : events[i] # NoRecord}

\* The target of every stored correction is stored, in the same domain.
CorrectionsGrounded ==
  \A i \in StoredIds :
    events[i].target # NoRecord =>
      Fits(events[events[i].target], events[i])

\* Every set of stored events has one that corrects none of the others.
CorrectionsAcyclic ==
  \A S \in SUBSET StoredIds :
    S # {} => \E i \in S : events[i].target \notin S

\* What the event corrects, if anything, is there and fits.
Grounded(e) == e.target # NoRecord => Fits(events[e.target], e)

\* A call that is to store an event has validated it.
GroundedInv ==
  /\ CorrectionsGrounded
  /\ CorrectionsAcyclic
  /\ \A w \in Workers : batch[w].step = "store" => Grounded(Current(w))

LEMMA GroundedStays ==
  ASSUME BatchesAssumption, EventsGrow, NEW e \in Event, Grounded(e)
  PROVE  Grounded(e)'
<1>1. e.target \in EventIds \cup {NoRecord}
  BY DEF Event
<1>2. QED
  BY <1>1 DEF Grounded, Fits, EventsGrow

\* A call that leaves its event for the next, or its loop, is not at the store.
LEMMA ItemDoneLeavesStore ==
  ASSUME BatchesAssumption, BatchesInv, NEW w \in Workers,
         batch[w].step \in Running, NEW status, ItemDone(w, status)
  PROVE  batch'[w].step # "store"
<1>1. batch[w] \in [step : Running \cup Outcomes, request : Requests,
                    items : Seq(Statuses)]
  BY CallHasType DEF BatchesInv
<1>2. \E items, s : /\ s # "store"
                    /\ batch' = [batch EXCEPT ![w].items = items,
                                              ![w].step = s]
  BY DEF ItemDone
<1>3. QED
  BY <1>1, <1>2 DEF BatchesInv, TypeOK

\* How a call comes to the store, or stays there.
LEMMA StoreIsReached ==
  ASSUME BatchesAssumption, BatchesInv, NEW w \in Workers, CallStep(w),
         batch'[w].step = "store"
  PROVE  /\ batch[w].step \in Looping
         /\ batch'[w].request = batch[w].request
         /\ batch'[w].items = batch[w].items
         /\ batch[w].step = "store" \/ Grounded(Current(w))
<1>1. CASE \E request \in Requests : RecordBatch(w, request)
  BY <1>1 DEF RecordBatch, BatchesInv, TypeOK
<1>2. CASE Die(w)
  BY <1>2 DEF Die, NoBatch, BatchesInv, TypeOK
<1>3. CASE Proceed(w)
  <2>1. /\ batch[w].step \in Running
        /\ batch[w] \in [step : Running \cup Outcomes, request : Requests,
                         items : Seq(Statuses)]
    <3>1. batch[w].step \in Running
      BY <1>3 DEF Proceed, Lookup, StartItem, ReadTarget, Store, ItemFails,
         Transaction, PutManifest, Running
    <3>2. QED
      BY <3>1, CallHasType DEF BatchesInv
  <2>2. ~Replay(w)
    BY <2>1 DEF Replay, BatchesInv, TypeOK
  <2>3. \A status : ~ItemDone(w, status)
    BY <2>1, ItemDoneLeavesStore
  <2>4. \A s : batch' = [batch EXCEPT ![w].step = s] => s = "store"
    BY <2>1, StateAfter DEF BatchesInv
  <2>5. ~Lookup(w) /\ ~PutManifest(w) /\ ~ItemFails(w)
    BY <2>2, <2>3, <2>4 DEF Lookup, PutManifest, ItemFails
  <2>6. ~Transaction(w)
    <3>1. SUFFICES ASSUME Transaction(w) PROVE FALSE
      OBVIOUS
    <3>2. \E items : batch' = [batch EXCEPT ![w].step = "manifest",
                                            ![w].items = items]
      BY <2>4, <3>1 DEF Transaction
    <3>3. QED
      BY <2>1, <3>2 DEF BatchesInv, TypeOK
  <2>7. CASE StartItem(w)
    <3>1. /\ batch[w].step = "items"
          /\ Current(w).target = NoRecord
          /\ batch' = [batch EXCEPT ![w].step = "store"]
      BY <2>4, <2>7 DEF StartItem
    <3>2. QED
      BY <2>1, <3>1, StateAfter DEF BatchesInv, Looping, Grounded
  <2>8. CASE ReadTarget(w)
    <3>1. /\ batch[w].step = "target"
          /\ batch' = [batch EXCEPT ![w].step = "store"]
      BY <2>3, <2>8 DEF ReadTarget
    <3>2. PICK target \in Events!Visible(Current(w).target) :
            Fits(target, Current(w))
      BY <2>3, <2>8 DEF ReadTarget
    <3>3. target = events[Current(w).target]
      BY <3>2 DEF Events!Visible, Fits
    <3>4. QED
      BY <2>1, <3>1, <3>2, <3>3, StateAfter DEF BatchesInv, Looping, Grounded
  <2>9. CASE Store(w)
    <3>1. batch[w].step = "store" /\ UNCHANGED batch
      BY <2>3, <2>9 DEF Store
    <3>2. QED
      BY <3>1 DEF Looping
  <2>10. QED
    BY <1>3, <2>5, <2>6, <2>7, <2>8, <2>9 DEF Proceed
<1>4. QED
  BY <1>1, <1>2, <1>3 DEF CallStep

\* A set of numbers has a least one.
LEMMA LeastNumber ==
  ASSUME NEW T \in SUBSET Nat, T # {}
  PROVE  \E n \in T : \A m \in T : ~ (m < n)
<1>1. \E n \in T : \A m \in T : ~ (<<m, n>> \in OpToRel(<, Nat))
  BY WFMin, NatLessThanWellFounded
<1>2. \A m, n \in Nat : <<m, n>> \in OpToRel(<, Nat) <=> m < n
  BY Zenon DEF OpToRel
<1>3. QED
  BY <1>1, <1>2

\* New events close no cycle when they can be put in an order in which each
\* corrects only what was stored or comes before it.
LEMMA OrderedEventsKeepAcyclic ==
  ASSUME BatchesAssumption, CorrectionsGrounded, CorrectionsAcyclic, EventsGrow,
         NEW place \in [EventIds -> Nat],
         \A i \in StoredIds' \ StoredIds :
           events'[i].target # NoRecord =>
             \/ events'[i].target \in StoredIds
             \/ place[events'[i].target] < place[i]
  PROVE  CorrectionsAcyclic'
<1>1. SUFFICES ASSUME NEW S \in SUBSET StoredIds', S # {}
               PROVE  \E i \in S : events'[i].target \notin S
  BY DEF CorrectionsAcyclic
<1>2. S \subseteq EventIds /\ NoRecord \notin S
  BY DEF StoredIds, BatchesAssumption
<1>3. CASE S \cap StoredIds # {}
  <2>1. S \cap StoredIds \in SUBSET StoredIds
    OBVIOUS
  <2>2. PICK i \in S \cap StoredIds : events[i].target \notin S \cap StoredIds
    BY <1>3, <2>1 DEF CorrectionsAcyclic
  <2>3. events'[i] = events[i]
    BY <2>2 DEF StoredIds, EventsGrow
  <2>4. ASSUME events[i].target \in S PROVE FALSE
    <3>1. Fits(events[events[i].target], events[i])
      BY <1>2, <2>2, <2>4 DEF CorrectionsGrounded
    <3>2. events[i].target \in StoredIds
      BY <1>2, <2>4, <3>1 DEF Fits, StoredIds
    <3>3. QED
      BY <2>2, <2>4, <3>2
  <2>5. QED
    BY <2>2, <2>3, <2>4
<1>4. CASE S \cap StoredIds = {}
  <2> DEFINE T == {place[i] : i \in S}
  <2>1. T \in SUBSET Nat /\ T # {}
    BY <1>1, <1>2
  <2>2. PICK n \in T : \A m \in T : ~ (m < n)
    <3> HIDE DEF T
    <3>1. QED
      BY <2>1, LeastNumber
  <2>3. PICK i \in S : n = place[i]
    BY <2>2
  <2>4. \A j \in S : ~ (place[j] < place[i])
    BY <2>2, <2>3
  <2>5. i \in StoredIds' \ StoredIds
    BY <1>4, <2>3
  <2>6. events'[i].target \notin S
    BY <1>2, <1>4, <2>4, <2>5
  <2>7. QED
    BY <2>3, <2>6
<1>5. QED
  BY <1>3, <1>4

\* A transaction that commits leaves corrections of what was stored or of
\* earlier events of its batch.
LEMMA CommitGrounded ==
  ASSUME BatchesAssumption, BatchesInv, NEW request \in Requests,
         Legal(request), Recordable(request), events' = Committed(request),
         EventsGrow, CorrectionsGrounded, CorrectionsAcyclic
  PROVE  CorrectionsGrounded' /\ CorrectionsAcyclic'
<1> DEFINE list == request.events
           n == Len(list)
<1>1. list \in Seq(Event) /\ n \in Nat /\ DOMAIN list = 1 .. n
  BY DEF BatchesAssumption, Request
<1>2. \A k \in 1 .. n :
        /\ list[k] \in Event /\ list[k].id \in EventIds /\ list[k] # NoRecord
        /\ events'[list[k].id] = list[k]
  BY <1>1, EventHasType, CommittedEvents DEF BatchesInv
<1>3. ASSUME NEW i \in StoredIds' \ StoredIds
      PROVE  \E k \in 1 .. n : list[k].id = i /\ events'[i] = list[k]
  <2>1. i \in EventIds /\ events'[i] # events[i]
    BY <1>3 DEF StoredIds
  <2>2. events'[i] \in ToSet(list) /\ events'[i].id = i
    BY <2>1, CommitIsSent
  <2>3. QED
    BY <1>1, <2>2 DEF ToSet
<1>4. \A j, k \in 1 .. n : list[j].id = list[k].id => j = k
  BY <1>1 DEF Legal
\* The target of the k-th event is there, or comes before it.
<1>5. ASSUME NEW k \in 1 .. n, list[k].target # NoRecord
      PROVE  /\ list[k].target \in EventIds
             /\ \/ /\ list[k].target \in StoredIds
                   /\ Fits(events[list[k].target], list[k])
                \/ \E j \in 1 .. n : /\ j < k
                                     /\ list[j].id = list[k].target
                                     /\ Fits(list[j], list[k])
  <2>1. list[k].target \in EventIds
    BY <1>2, <1>5 DEF Event
  <2>2. Fits(Within(request, k, list[k].target), list[k])
    BY <1>1, <1>5 DEF Recordable
  <2>3. CASE \E j \in 1 .. k - 1 : list[j].id = list[k].target
    <3> DEFINE j == CHOOSE j \in 1 .. k - 1 : list[j].id = list[k].target
    <3>1. j \in 1 .. k - 1 /\ list[j].id = list[k].target
      BY <2>3
    <3>2. Fits(list[j], list[k])
      BY <2>2, <2>3 DEF Within
    <3> HIDE DEF j
    <3>3. j \in 1 .. n /\ j < k
      BY <1>1, <3>1
    <3>4. QED
      BY <2>1, <3>1, <3>2, <3>3
  <2>4. CASE ~ \E j \in 1 .. k - 1 : list[j].id = list[k].target
    <3>1. Fits(events[list[k].target], list[k])
      BY <2>2, <2>4 DEF Within
    <3>2. QED
      BY <2>1, <3>1 DEF Fits, StoredIds
  <2>5. QED
    BY <2>3, <2>4
<1>6. CorrectionsGrounded'
  <2>1. SUFFICES ASSUME NEW i \in StoredIds', events'[i].target # NoRecord
                 PROVE  Fits(events'[events'[i].target], events'[i])
    BY DEF CorrectionsGrounded
  <2>2. CASE i \in StoredIds
    <3>1. events'[i] = events[i] /\ events[i] \in Event
      BY <2>2 DEF StoredIds, EventsGrow, BatchesInv, TypeOK,
         Events!RecordsTypeOK
    <3>2. Grounded(events[i])
      BY <2>2 DEF CorrectionsGrounded, Grounded
    <3>3. PICK e \in Event : e = events[i]
      BY <3>1
    <3>4. Grounded(e)'
      BY <3>2, <3>3, GroundedStays
    <3>5. QED
      BY <2>1, <3>1, <3>3, <3>4 DEF Grounded
  <2>3. CASE i \notin StoredIds
    <3>1. PICK k \in 1 .. n : list[k].id = i /\ events'[i] = list[k]
      BY <1>3, <2>3
    <3>2. list[k].target # NoRecord
      BY <2>1, <3>1
    <3>3. CASE /\ list[k].target \in StoredIds
               /\ Fits(events[list[k].target], list[k])
      BY <3>1, <3>3 DEF StoredIds, EventsGrow
    <3>4. CASE \E j \in 1 .. n : /\ list[j].id = list[k].target
                                 /\ Fits(list[j], list[k])
      BY <1>2, <3>1, <3>4
    <3>5. QED
      BY <1>5, <3>2, <3>3, <3>4
  <2>4. QED
    BY <2>2, <2>3
<1>7. CorrectionsAcyclic'
  <2> DEFINE of(i) == CHOOSE k \in 1 .. n : list[k].id = i
             place == [i \in EventIds |->
                         IF \E k \in 1 .. n : list[k].id = i THEN of(i) ELSE 0]
  <2>1. \A i : (\E k \in 1 .. n : list[k].id = i) =>
                 of(i) \in 1 .. n /\ list[of(i)].id = i
    OBVIOUS
  <2>2. \A k \in 1 .. n : of(list[k].id) = k
    <3> HIDE DEF of
    <3>1. QED
      BY <1>4, <2>1
  <2> HIDE DEF of
  <2>3. place \in [EventIds -> Nat]
    BY <1>1, <2>1
  <2>4. \A k \in 1 .. n : place[list[k].id] = k
    BY <1>2, <2>2
  <2> HIDE DEF place
  <2>5. ASSUME NEW i \in StoredIds' \ StoredIds, events'[i].target # NoRecord
        PROVE  \/ events'[i].target \in StoredIds
               \/ place[events'[i].target] < place[i]
    <3>1. PICK k \in 1 .. n : list[k].id = i /\ events'[i] = list[k]
      BY <1>3, <2>5
    <3>2. CASE list[k].target \in StoredIds
      BY <3>1, <3>2
    <3>3. CASE \E j \in 1 .. n : j < k /\ list[j].id = list[k].target
      BY <2>4, <3>1, <3>3
    <3>4. QED
      BY <1>5, <2>5, <3>1, <3>2, <3>3
  <2>6. QED
    BY <2>3, <2>5, OrderedEventsKeepAcyclic
<1>8. QED
  BY <1>6, <1>7

\* An event that is stored after it was validated corrects what was stored.
LEMMA AddedIsGrounded ==
  ASSUME BatchesAssumption, BatchesInv, EventsGrow, CorrectionsGrounded,
         CorrectionsAcyclic, NEW e \in Event, Grounded(e),
         \A i \in EventIds : \/ events'[i] = events[i]
                             \/ i = e.id /\ events'[i] = e
  PROVE  CorrectionsGrounded' /\ CorrectionsAcyclic'
<1>1. CorrectionsGrounded'
  <2>1. SUFFICES ASSUME NEW i \in StoredIds' PROVE Grounded(events[i])'
    BY DEF CorrectionsGrounded, Grounded
  <2>2. PICK f : f = events'[i]
    OBVIOUS
  <2>3. f \in Event /\ Grounded(f)
    <3>1. CASE f = events[i]
      <4>1. i \in StoredIds
        BY <2>1, <2>2, <3>1 DEF StoredIds
      <4>2. QED
        BY <3>1, <4>1 DEF StoredIds, CorrectionsGrounded, Grounded, BatchesInv,
           TypeOK, Events!RecordsTypeOK
    <3>2. CASE f = e
      BY <3>2
    <3>3. QED
      BY <2>1, <2>2, <3>1, <3>2 DEF StoredIds
  <2>4. Grounded(f)'
    BY <2>3, GroundedStays
  <2>5. QED
    BY <2>2, <2>4 DEF Grounded
<1>2. CorrectionsAcyclic'
  <2> DEFINE place == [i \in EventIds |-> 0]
  <2>1. ASSUME NEW i \in StoredIds' \ StoredIds, events'[i].target # NoRecord
        PROVE  events'[i].target \in StoredIds
    <3>1. events'[i] = e
      BY <2>1 DEF StoredIds
    <3>2. Fits(events[e.target], e) /\ e.target \in EventIds
      BY <2>1, <3>1 DEF Grounded, Event
    <3>3. QED
      BY <3>1, <3>2 DEF Fits, StoredIds
  <2>2. place \in [EventIds -> Nat]
    OBVIOUS
  <2> HIDE DEF place
  <2>3. QED
    BY <2>1, <2>2, OrderedEventsKeepAcyclic
<1>3. QED
  BY <1>1, <1>2

\* Every step of a call keeps corrections grounded.
LEMMA CallStepKeepsGrounded ==
  ASSUME BatchesAssumption, BatchesInv, BatchesInv', GroundedInv,
         NEW w \in Workers, CallStep(w)
  PROVE  GroundedInv'
<1>1. /\ EventsGrow
      /\ \/ UNCHANGED events
         \/ /\ batch[w].step = "store"
            /\ \A id \in EventIds :
                 \/ events'[id] = events[id]
                 \/ id = Current(w).id /\ events'[id] = Current(w)
         \/ /\ batch[w].step = "transaction"
            /\ Recordable(batch[w].request)
            /\ events' = Committed(batch[w].request)
  BY EventsAdded DEF CallStep
<1>2. \A v \in Workers \ {w} : batch'[v] = batch[v]
  BY CallMoves DEF CallStep
<1>3. ASSUME NEW v \in Workers, batch'[v].step = "store"
      PROVE  Grounded(Current(v))'
  <2>1. /\ batch[v].step \in Looping
        /\ batch'[v].request = batch[v].request
        /\ batch'[v].items = batch[v].items
        /\ batch[v].step = "store" \/ Grounded(Current(v))
    <3>1. CASE v = w
      BY <1>3, <3>1, StoreIsReached
    <3>2. CASE v # w
      BY <1>2, <1>3, <3>2 DEF Looping
    <3>3. QED
      BY <3>1, <3>2
  <2>2. Grounded(Current(v))
    BY <2>1 DEF GroundedInv
  <2>3. PICK e \in Event : e = Current(v)
    BY <2>1, CurrentHasType
  <2>4. Grounded(e)'
    BY <1>1, <2>2, <2>3, GroundedStays
  <2>5. Current(v)' = e
    BY <2>1, <2>3 DEF Current
  <2>6. QED
    BY <2>4, <2>5 DEF Grounded
<1>4. CorrectionsGrounded' /\ CorrectionsAcyclic'
  <2>1. CASE UNCHANGED events
    BY <2>1 DEF GroundedInv, CorrectionsGrounded, CorrectionsAcyclic, StoredIds
  <2>2. CASE /\ batch[w].step = "store"
             /\ \A id \in EventIds :
                  \/ events'[id] = events[id]
                  \/ id = Current(w).id /\ events'[id] = Current(w)
    <3>1. Current(w) \in Event
      BY <2>2, CurrentHasType DEF Looping
    <3>2. Grounded(Current(w))
      BY <2>2 DEF GroundedInv
    <3>3. QED
      BY <1>1, <2>2, <3>1, <3>2, AddedIsGrounded DEF GroundedInv
  <2>3. CASE /\ batch[w].step = "transaction"
             /\ Recordable(batch[w].request)
             /\ events' = Committed(batch[w].request)
    <3>1. batch[w].request \in Requests /\ Legal(batch[w].request)
      BY <2>3, CallHasType DEF BatchesInv, CallInv, Progress, Running
    <3>2. QED
      BY <1>1, <2>3, <3>1, CommitGrounded DEF GroundedInv
  <2>4. QED
    BY <1>1, <2>1, <2>2, <2>3
<1>5. QED
  BY <1>3, <1>4 DEF GroundedInv

LEMMA GroundedInvariance == Spec => []GroundedInv
<1>1. Init => GroundedInv
  <2>1. SUFFICES ASSUME Init PROVE GroundedInv
    OBVIOUS
  <2>2. StoredIds = {} /\ \A w \in Workers : batch[w].step # "store"
    BY <2>1 DEF Init, Events!RecordsInit, StoredIds, NoBatch
  <2>3. QED
    BY <2>2 DEF GroundedInv, CorrectionsGrounded, CorrectionsAcyclic
<1>2. BatchesInv /\ BatchesInv' /\ GroundedInv /\ [Next]_vars => GroundedInv'
  <2>1. SUFFICES ASSUME BatchesInv, BatchesInv', GroundedInv, [Next]_vars
                 PROVE  GroundedInv'
    OBVIOUS
  <2>2. CASE UNCHANGED vars
    BY <2>1, <2>2 DEF vars, eventVars, GroundedInv, CorrectionsGrounded,
       CorrectionsAcyclic, StoredIds, Grounded, Current
  <2>3. CASE Next
    <3>1. PICK w \in Workers : CallStep(w)
      BY <2>3 DEF Next, CallStep
    <3>2. QED
      BY <2>1, <3>1, BatchesAssumption, CallStepKeepsGrounded
  <2>4. QED
    BY <2>1, <2>2, <2>3
<1>3. QED
  BY <1>1, <1>2, BatchesInvariance, PTL DEF Spec

\* A batch leaves no correction without its target, stored in the same subject,
\* meter version, window and dimensions: in either profile, also when the
\* target is an earlier event of the same transaction, whatever failed or died.
THEOREM BatchCorrectionsStayGrounded == Spec => []CorrectionsGrounded
<1>1. GroundedInv => CorrectionsGrounded
  BY DEF GroundedInv
<1>2. QED
  BY <1>1, GroundedInvariance, PTL

\* "cycles are impossible" for batches too: though a transaction stores many
\* events at once, and requests may hold corrections of one another, no set of
\* stored events corrects itself in a circle.
THEOREM BatchCorrectionsNeverCycle == Spec => []CorrectionsAcyclic
<1>1. GroundedInv => CorrectionsAcyclic
  BY DEF GroundedInv
<1>2. QED
  BY <1>1, GroundedInvariance, PTL
=============================================================================
