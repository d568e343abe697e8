# Meridian usage plugin: verification project

TLA+ models of `meridian_storage.plugins.usage`, the TLC configurations that
check them, and TLAPS proofs about them. Source paths below are relative to the
repository root; `repository.py`, `aggregation.py`, `models.py`, `query.py` and
the like are the files of `src/meridian_storage/plugins/usage/`.

The plugin records immutable usage events, aggregates them into immutable,
versioned window totals, and coordinates the aggregating workers through two
small mutable records: a claim (a lease) and a checkpoint (a watermark). It runs
no thread of its own. Its concurrency is that of several processes calling one
Meridian store, where every store call is a point at which the other processes,
the clock and a crash can come in between. Nearly every hazard below comes from
there.

## 1. The system

| Component | State | Operations | Hard because | Correct when |
|---|---|---|---|---|
| Conditional state writes (`repository.py` `_write_state`) | the storage version of a state record | put if absent, patch at a version | the read and the write are separate calls; a request may be replayed by its idempotency key | a write is accepted only over the record that was read |
| Aggregation claims (`repository.py` `acquire_claim`, `release_claim`) | owner, expiry, revision | acquire, renew, take over, release | `now` is taken by the caller before the read; a holder may be slow or dead | two workers never hold a claim in force; a stale worker neither renews nor releases a newer claim; a dead holder does not block the rest |
| Watermark checkpoints (`get_checkpoint`, `advance_checkpoint`) | watermark, revision | read, advance with an expected revision | racing initializers and advancers, replayed requests | the watermark never goes back, of two different advances from one revision only one succeeds |
| Aggregation runner (`aggregation.py`) and aggregate versions (`latest_aggregate`, `put_aggregate`) | stored aggregate versions; the run's local progress | `AggregationRunner.run`, `aggregate_events` | late data, paging without a snapshot, crashes between writes, runs that outlive their lease, eventually consistent queries | versions form one chain, retries replay, no event the checkpoint answers for is lost from the latest version |
| Recording and corrections (`record`, `get_event`, `models.py` `UsageEventV1`) | stored events | record, correct, read | get/put race, retries, corrections of corrections | one event per id, retries replay, a correction's target was there before it |
| Batches (`record_batch`, manifests) | stored manifests | partitioned and atomic recording | partial failure, a crash between the events and the manifest, two calls with one batch id | one manifest per batch id that agrees with the stored events and with every receipt |
| Meters (`register_meter`, `get_meter`; `MeterV1`) | stored meter versions | register, look up | two services register different content | a meter version has one content |
| Metering arithmetic (`models.py`) | none | transforms, fitting to precision and scale, totals | rounding, precision of intermediate results, boundaries of the domain, normalizing twice | no digit is lost and no number that fits is refused |
| Windows and meter versions (`models.py`) | none | buckets, activity, event-time tolerance | instants before the epoch, half-open boundaries, handing over from one version to the next | usage is counted in one window and under one version |
| Queries (`query.py`, `scan_events`) | none | predicates in two forms, plans, pages, scans | events recorded between two pages, repeated answers, budgets | a scan that returns has what was there when it began, and nothing that its plan does not ask for |
| Decimal replay (`_decimal.py`) | none | candidates of a stored decimal, authentication | scale lost in storage, records changed in storage | the texts that were written are recovered, and nothing else is returned |
| Correlation (`correlation.py`) | ambient context | capture | captured values enter fingerprints | a retry is still a replay |
| Canonical encoding (`_canonical.py`), retention (`retention.py`), schemas (`schema.py`), plugin and errors (`plugin.py`, `errors.py`), scripts | none | | | |

How they interact: the runner calls, in this order, `acquire_claim`,
`get_checkpoint`, `scan_events` page by page, `latest_aggregate` for every group
of events, `put_aggregate` for every group, `advance_checkpoint`, and in its
`finally` clause `release_claim`. `record` runs in other processes at any time
and takes no claim. `record_batch` looks for the manifest of its batch id,
records its events (one `record` after the other, or all in one transaction) and
puts the manifest. All of these meet only in the store. Metering, windows, query
plans and decimal replay are functions that these calls evaluate between two
store calls.

## 2. Modules

| Module | What it is |
|---|---|
| `UsageStore` | The contract of conditional writes (`Accepts`, `NextVersion`, `NextRevision`) and the constants that all users of the store share: `Workers`, `NoRecord`, `RuntimeReplays`. |
| `TimedLease` | Abstract specification: a holder and a time; nobody takes the lease over before it has run out. |
| `UsageClaims` | The claim record and each worker's `acquire_claim` and `release_claim`. |
| `UsageCheckpoints` | The checkpoint record and each caller's `advance_checkpoint`, with the idempotency keys the runtime remembers. |
| `UsageAggregation` | The runner. It INSTANCEs `UsageClaims` and `UsageCheckpoints` over its own variables and uses their actions as its claim and checkpoint steps. |
| `WriteOnce` | Abstract specification: a map in which a key is given a fact once and keeps it. |
| `ImmutableRecords` | The get, put if absent, get again protocol that `register_meter` and `record` share. |
| `UsageRecording` | Publishers that register meters and record events and corrections. It INSTANCEs `ImmutableRecords` twice, for meters and for events. |
| `UsageBatches` | `record_batch`. It INSTANCEs `ImmutableRecords` for the events and `WriteOnce` for the manifests. |
| `UsageDecimals` | Decimal numbers as a coefficient and an exponent: canonical form, product, sum, quantization, what the store's column holds. |
| `UsageMetering` | A meter, a unit, and the history of an event and its corrections: conversion, fit, refusal, total. |
| `UsageWindows` | Versions of one meter and the windows of the events that they accept. |
| `UsageQueries` | A query in its executed and its planned form, its pages, and `scan_events`. |
| `DecimalReplay` | `from_mapping` over a store that drops scales or changes records, one candidate of `_decimal.py` per step. |
| `UsageClaimsProofs`, `UsageCheckpointsProofs`, `UsageAggregationProofs`, `ImmutableRecordsProofs`, `UsageRecordingProofs`, `UsageBatchesProofs`, `UsageQueriesProofs`, `SequentialProofs` | Theorems and proofs; the last of `UsageWindows`, `UsageMetering` and `DecimalReplay`, with the laws of `UsageDecimals`. `UsageAggregationProofs` INSTANCEs the two of claims and checkpoints, and `UsageRecordingProofs` that of immutable records twice, and use their theorems. |
| `MCUsageAggregation`, `MCUsageAggregationLive`, `MCUsageRecording`, `MCUsageBatches` | Sets, symmetry and requests for TLC. |
| `MCCoordination` | Claims, checkpoints and immutable records for TLC. They share no state here, so a behaviour chooses one of them (`part`) and the others keep their initial state: every interleaving within a part is explored. |
| `MCSequential` | Metering, windows, queries and decimal replay for TLC, in the same way. |

### From code to model

- **One step per store call.** A worker's local variables between two calls are
  fields of `seen`, `lease`, `attempt` and `run`. Other workers, `Record`,
  `Tick`, `Fail` and `Crash` can come between any two.
- **State writes.** The caller read nothing: `put` with `if_absent`. It read a
  record: `patch` with that record's storage version. `Accepts` is the answer of
  the store. The domain `revision` and the storage `version` are counted apart,
  as in the code (the first stored record has revision 1 and version 0).
- **Claims.** `BeginAcquire` takes `now`; `AcquireRead` and `AcquireWrite` are
  the get and the write of `acquire_claim`; `ReleaseRead` and `ReleaseWrite` are
  those of `release_claim`. Where the code raises `ClaimUnavailable`, or loses a
  conditional write, the worker `Leave`s. The release of a claim keeps the record
  and sets its expiry to the run's own `now`.
- **Checkpoints.** `AdvanceRead` compares the stored revision with the expected
  one and the watermark with the stored watermark; `AdvanceWrite` sends the
  write. The idempotency key of a state write is the fingerprint of its
  expression. Two such writes have one key exactly when they would leave the
  same record behind, so the key is that record. With `RuntimeReplays` the
  runtime answers a key it remembers with the earlier success.
- **Aggregates.** A version is its group (window and dimension values), its
  revision, the set of events it stands for, its watermark, its creation time and
  correlation. `source_fingerprint` is the fingerprint of the sorted events, so it
  is equal for equal sets; the totals are a function of the set and are left
  out. `put_aggregate` is get, put if absent, and get after a conflict; because
  versions are never changed or removed, its answer depends only on what is
  stored when the put arrives, and it is one step (`PutAggregate`).
- **Scans.** `ScanPage` is one page in the order `windowStart, eventId`. The
  keyset cursor is the last event read, so what is left is what comes after
  every event scanned so far. Each page sees the store as it is then.
- **Recording.** A `record` call is `ReadMeter` (`normalize_event`), `ReadTarget`
  for a correction (`_validate_correction`), and then the `Get`, `Put` and
  `Reread` of the events' `ImmutableRecords`, taken through `Store`. A
  `register_meter` call is the same three steps over the meters.
  Where the code raises before it has looked the event up, the call goes back to
  `NotRecording`; otherwise the answer stays in `eventCall`. The caller may give
  `record` and `normalize_event` a meter (`meter=`): then the registered one is
  not read, and need not exist, and all that is checked of the meter is that it
  is of the version that the event names (`SuppliedFor`; `Selected` is the code's
  `meter or self.get_meter(...)`). `Given` are the meters that callers give: a
  version and a content, which may be another one than is registered. The
  publishers' facade `UsageRecorder.record` gives none, and `record_batch` gives
  those that it has read itself.
- **Events** keep what later steps compare. `domain` stands for the subject,
  window and dimensions, which a correction must share with its target. The
  value in the canonical unit is a function of the value sent and of the content
  of the meter, so a stored event has both (`value`, `under`); two contents that
  convert alike count as one. `Admits` says which requests a
  meter accepts: activity, time tolerance, dimensions and units in one relation.
  Fingerprints of events cover all fields, `trace` included.
- **Correlation.** `with_captured_correlation` fills in an empty correlation
  with whatever is ambient in that call, so each attempt may find another one.
- **Time** is one integer clock that all workers read. Windows are
  `WindowSize` long and aligned at zero. `UsageWindows` counts microseconds from
  the epoch and has instants before it.
- **Batches.** `_normalize_batch` reads the meters and normalizes all events
  before anything else is read or written, and gives `record` the meters it has
  read, so a request of `UsageBatches` holds
  normalized events. That the second normalization, inside `record`, changes
  nothing is `NormalizedOnce` of `UsageMetering`. `RecordBatch` is the call up to
  its first read of the manifest, `Lookup` that read. `StartItem`, `ReadTarget`
  and `Store` are the `record` call of the next event of a partitioned batch;
  `ItemFails` is a store call in it that raises, with or without its effect.
  `Transaction` is the whole atomic profile, which the runtime isolates.
  `PutManifest` is the put of the manifest and the read after a refused put:
  manifests never change, so both can be one step. `Die` ends the call at any
  point, with or without the effect of the store call under way. A batch
  fingerprint is the mode and the sequence of the events; scope and atomicity of
  transactions over several resources are the runtime's.
- **Decimals** are records of a coefficient `c` and an exponent `e`, so that 2.0
  and 2.00 differ. Python's arithmetic rounds to the precision of its context and
  the code traps `Inexact`; the model computes exactly and `NeverRounds` says
  that no context is too small. `Storable` is what the column `Decimal(76, 18)`
  holds. `Send` is one event or one correction, from the input
  to the total.
- **Queries.** `Predicates` are the caller's, the scope's and the window's.
  `ExpressionPredicates` is the form the runtime executes and `LogicalPredicate`
  the one of the public plan; `Satisfies` and `Holds` are what the two forms mean
  for an event, each written from its own syntax. `ReadPage` is one page of
  `scan_events`, answered from what is recorded at that time. `ReadBadPage` is an
  answer that repeats an earlier one or ignores the limit. Cursors are opaque to
  the code, so a run takes both kinds: one that stands on a record and one that
  counts records. `Matches` is the list that is in the order of the query; it
  exists and is unique because an id names one event of a scope.
- **Decimal replay.** A stored record has lost its scales: each number is padded
  to the scale of its column or stripped of its zeros. `ReadRecord` is
  `from_mapping` up to its comparison of the digests, `TryCandidate` one round of
  the nested loops of `restore_event_decimals` and `restore_aggregate_total` (an
  aggregate is a record without a `value`). `Corrupt` changes the record or
  drops its fingerprint. `ScanRecord` is a read that selects columns without the
  fingerprint.
- **Ghost variables.** `published` (requests that `record` has answered),
  `crashed` (watermarks of runs that died), `promised`
  (events that were recorded, within the lookback, before a run read the
  checkpoint that it then advanced) and `faults` (the count of failures) are
  read by properties and bounds only. So are `published` (the arguments of the
  `record` calls that were answered) and `supplied` (the ids of the events that
  were stored by calls that were given their meter) in `UsageRecording`.

### Assumptions

1. Workers have distinct owner names and an honest, shared clock.
2. Reads of claims, checkpoints, meters and manifests are strong, as `schema.py`
   declares. Events and aggregates are declared eventual. In the recording and
   batch modules `EventualReads = TRUE` lets every get of an event miss it. In the
   aggregation module it lets queries miss anything written earlier (each page
   sees a subset of the events; `latest_aggregate` any version or none); a get by
   identity in `put_aggregate` that misses can only turn a replay into an
   exception, which `Fail` covers. The runs `coordination`, `recording` and
   `aggregation_in_time` have strong reads. `ConflictIsReal`, `RetriesReplay`,
   `RevisionsOnlyAdd` and `PromisedEventsCounted` need them; the rest of the
   properties of these runs are proved for both.
3. `Overrun = FALSE` says that a run ends before its lease does (what
   `lease_duration` is for). Nothing in the code enforces it; the runs with
   `Overrun = TRUE` show what remains true without.
4. Fingerprints are injective.
5. A runtime that remembers an idempotency key repeats its answer only to an
   equal request. The key of an event write is the event's identity alone; what
   a runtime does with the same key and another content is not in the
   repository, and is listed as a hazard.
6. A transaction of the runtime is isolated, and its reads see its own writes.
7. The store answers a query with the records that satisfy it, in its order, but
   for the bad answers that `BadAnswers` names.

## 3. What TLC checks

All state counts are of complete explorations.

| Run | Bounds | Shows |
|---|---|---|
| `coordination` | 3 workers (symmetric). Claims: leases of 2, clock to 4, 5 revisions. Checkpoints: watermarks and times {1, 2}, 3 revisions, replaying runtime. Records: 2 identities, 2 contents (symmetric), strong reads. 307 thousand states | Claims: `LeaseExclusion`, no two leases in force; `LeaseInForceIsStored`, nobody writes over a claim in force; `ClaimIsLease`, the claim refines `TimedLease`. Checkpoints: `WinnersAgree`, `WonIsDurable`, `WatermarkNeverRegresses`. Records: `AcceptedIsStored`, a caller that was answered sent what is kept; `ConflictIsReal`, losing the race to an equal record is no conflict; `RecordsAreFacts`, the store refines `WriteOnce`. |
| `aggregation_in_time` | 2 workers, 3 events in 2 windows, watermarks {3, 4}, lateness 1, pages of 2, 4 claim revisions, one fault; 1.4 million states | `RevisionsOnlyAdd`, `PromisedEventsCounted`, `RetriesAreRun` when runs end within their lease. |
| `aggregation_overrun` | 2 workers whose runs interleave freely, 2 events of one window, pages of 1, at most 1 event under a fingerprint, eventual queries, one fault; 486 thousand states | `VersionChain`, `NoRedundantRevision` hold without any help from the claim, also when a window becomes too full to be aggregated. |
| `aggregation_live` | 2 workers, 2 events, leases of 2, one surviving worker; 197 thousand states | `OneRunAtATime`; under fairness `RunsEnd` and `CatchesUp`. |
| `aggregation_stale_run` | `Overrun = TRUE` with strong reads | violation: see finding 2. |
| `aggregation_retry` | lateness 0, one watermark | violation: see finding 1. |
| `recording` | 2 publishers, 2 contents of one meter version, 2 meters that callers may give (one of this version, one of another), 4 requests for 2 events that may correct each other, each with a correlation of its own, strong reads; 1.8 million states | Types; `CorrectionsGrounded`, `CorrectionsAcyclic`; `StoredUnderMeter`: an event is converted by the registered content, or, if its call was given a meter (finding 7), by one that callers give for its version; `RetriesReplay`: what was recorded once never conflicts when it is sent again under the same content. |
| `recording_trace` | one request without a correlation, two ambient ones | violation: see finding 3. |
| `batches` | 2 publishers (symmetric), 4 requests over 2 batch ids and 2 event ids: a correction behind and in front of its target, an atomic batch that takes their ids for other events, a batch with an event in common; stale reads, store calls that raise, one death; 461 thousand states | `ManifestIsTrue`, `CreditedOnce`, `ReceiptsAgree`, `AllOrNone`; `ManifestsAreFacts`, the manifests refine `WriteOnce`. |
| `batches_live` | a partitioned batch that its publisher keeps sending and an atomic one that takes its event; two deaths; 87 thousand states | Under fairness `KeptSettles`: the batch ends with a manifest. |
| `batches_limit` | lists of 1, batches of 2 | violation: see finding 4. |
| `sequential` | Metering: 4 meters, 5 units, 33 inputs, 3 records, a store of 2 + 2 digits. Windows: instants -2..2, 2 versions, 2 events. Queries: 6 events, every operator, pages of 1, 3 pages, one bad answer, both kinds of cursor. Replay: 4 digits, 2 digits of scale. 450 thousand states | Metering: `ArithmeticIsExact`, `OverflowIsReal`, `NormalizedOnce`. Windows: `CountedOnce`. Queries: `ScanIsComplete`, `ScanIsSound`. Replay: `ReturnsWhatWasWritten`, `SearchSucceeds`. |

Every run that has a `TypeOK` checks it as well.

Why the bounds are enough. Three workers give a holder, the worker that takes
over and a third that read before either. A clock to 4 with leases of 2 lets a
lease be granted, run out, be taken over, and the second one run out too; five
revisions are more than the claims such a history needs. Three checkpoint
revisions let a replayed request be two transitions old. In
`aggregation_in_time` each of two events of one window may be late, a second
window shows that alignment matters, a page is shorter than the number of events,
and the two watermarks differ in the windows they reach. Four claim revisions let
either worker run, be relieved and run again. `aggregation_overrun` needs only
versions of one group, and pages of one let an event be recorded in the middle
of a scan; a limit of one lets the same window be aggregated first and be refused
later. One fault is enough for a crash followed by a retry; a second fault
repeats the first. Two events are the smallest cycle of corrections and two
publishers the fewest that could close it together, each having seen only one
half; the two contents of one meter version differ in what they accept, so that
the loser of the race to register matters, and the one that callers give is now
the registered one, now the other one, and now of a version that is not there.
Longer cycles and more publishers are
covered by the proofs. A batch of two events has a first and a last and can have
one stored and the other not; two batches under one id differ in order, content
and mode, which is all that a batch fingerprint covers.

The numbers of `sequential` are small because their shape decides: a store of
two and two digits has numbers that fit, that have one digit too many on either
side, that have zeros to lose, and that are halves of the last digit; the meters
are as wide as the store, narrower, and all behind the point; the units grow,
shrink and shift. Five instants on both sides of the epoch hold two windows of
two and every position of a boundary in them. Six events have two with one start,
one with an empty column, one outside of the window and one of another scope;
pages of one put a page boundary between any two.

Bounds are the constants `MaxClock`, `MaxRevision`, `MaxCheckpoints`,
`MaxFaults`, `MaxRecords`, `MaxAccepted`, the finite sets `Events`, `Watermarks`,
`Requests`, `Inputs`, `Instants` and `Numbers`, and in `Crash` the guard
`clock + LeaseDuration <= MaxClock`, without which the bound on the clock would
keep a dead worker's lease in force forever. `MaxSources`, `MaxList`, `MaxBatch`,
`MaxDigits`, `StoreInteger`, `StoreScale`, `MinPrecision`, `Slack`,
`SumPrecision` and `MaxPages` are limits of the code, with small values. The
deadlock check is off in `coordination`, `sequential` and the aggregation runs,
because a system that has reached these bounds, or a record that has been read,
stops; the recording and batch runs have it on.

### Fairness

`Fairness(survivor)` asks for three things. Time passes (`WF(Tick)`). A worker
that is in the middle of `run()` takes its next step (`WF(Proceed(w))`): run()
is straight-line code and a store call returns or raises. One worker, the
survivor, is started again whenever it is not running: deployments run the
aggregation on a schedule. Nothing is asked of the other workers: they may crash
or never be started. `RunsEnd` needs the scan to end although events are
recorded all the while; `CatchesUp` needs the claim of a dead worker to run out.

`UsageBatches!Fairness(publisher, request)` asks that a call takes its next step
(`WF(Proceed(w))` for all workers: `record_batch` is straight-line code and each
of its store calls returns or raises) and that one publisher sends one batch
again and again, although it may send others in between (`SF(RecordBatch)`, since
the action is disabled while a call of that publisher runs). Deaths are bounded
by `MaxFaults`; store calls of an item may raise as often as they like.

### Findings

1. **A retry after a crash may be refused** (`aggregation_retry`,
   `RetriesAreRun`). `README.md:97` says that retrying after a crash replays
   identical outputs. A run that has advanced the checkpoint to W and dies before
   it returns is retried with W. With the default `allowed_lateness` of zero and
   W at a window boundary, the scan window is [W, W), which `UsageWindow` rejects:
   the retry raises `InvalidUsage`. With a positive lateness
   (`aggregation_in_time`) every such retry is run.
2. **A run that outlives its lease can supersede newer data**
   (`aggregation_stale_run`, `RevisionsOnlyAdd`). Nothing ties the writes of
   aggregates to the claim. A run that scanned, lost its lease, and then reads
   the latest version after the run that took over has written it, supersedes
   that version with one that lacks a late event, before its own checkpoint
   write is refused. `README.md:97` and `docs/aggregation.md:19` describe a
   superseding version as the effect of late data. The next successful run over the same
   window repairs it only if the window is still within the lookback.
3. **A retry under another trace conflicts with itself** (`recording_trace`,
   `RetriesReplay`). `README.md:78` says that an identical replay returns
   `REPLAYED`. An event without a correlation of its own is given the ambient one
   by each call, before fingerprints are compared, and the trace and span are part
   of the fingerprint. A publisher that sends the event again under another span,
   which is what an instrumented retry does, gets `UsageConflict`. With a
   correlation of its own (`recording`) the event is replayed.
4. **Batches and windows of more than 256 events are refused** (`batches_limit`,
   `LegalBatchesRun`). A batch fingerprint is the fingerprint of a list with one
   member for each event, and `_canonical.py:144` refuses lists of more than 256.
   `docs/recording.md:36` and `_MAX_BATCH` allow a thousand events: batches of 257
   to 1000 raise `InvalidUsage` before anything is recorded. `event_set_fingerprint`
   makes the same kind of list, so a run over a window and group with more than
   256 events raises after its scan, writes nothing, and leaves the checkpoint
   where it is, every time (`MaxSources` in `aggregation_overrun`).
5. **Corrections are shifted by the offset of their unit** (`sequential`,
   `ArithmeticIsExact`). `UnitTransform.apply` adds the offset of an affine unit
   to a signed delta as it does to an event. The property states the total that
   results: the exact one and one more offset for each correction.
6. **A meter with precision equal to scale keeps nothing** (`sequential`,
   `OverflowIsReal`). `_fit` counts at least one digit before the point, so such
   a meter, which `MeterV1` accepts, raises `DecimalOverflow` for every value,
   zero included. The property excepts these meters and says that they keep
   nothing.
7. **A meter that is given is not compared with the registered one** (`recording`,
   `StoredUnderMeter`). `docs/recording.md:17` says that recording resolves the
   exact meter version. `record(event, meter=m)` resolves nothing: it converts by
   m after comparing its identity and version with the event's, so events of one
   version may be stored under several contents, or under a version that nobody
   has registered (as `tests/test_decimal_replay.py:147` does), and a correction
   may be converted otherwise than its target. The property excepts the events
   stored by such calls and says which contents they can have.

Three remarks on what the code does not promise. A scan that misses an event
although it was recorded long before, which an eventually consistent store may
serve, makes a run that is well within its lease supersede a version by a smaller
one: `RevisionsOnlyAdd` fails with `EventualReads = TRUE`. With cursors that count
records, an event recorded in front of the cursor makes the next page repeat an
event, and `aggregate_events` counts it twice; with cursors that stand on a record
a scan reads nothing twice (`ScanIsSound`). Records that are read without their
fingerprint (a query that selects other columns, and aggregates without one) are
not authenticated and keep the scale of the store, though `docs/decimal-replay.md:24`
says that repository reads require a fingerprint; `ReturnsWhatWasWritten` is about
the reads that have one.

## 4. What is proved

For any set of workers, any lease duration, any set of watermarks and times and
any bounds:

- `ClaimsTypeCorrect`, `LeasesInForceAreStored`, `LeasesExclude` and
  `ClaimsRefineLease` (`UsageClaimsProofs`);
- `CheckpointsTypeCorrect`, `WinnersAlwaysAgree`, `WinnersAreDurable`,
  `CheckpointOnlyAdvances` (`UsageCheckpointsProofs`).

For any workers, events, groups, watermarks and page sizes, any lateness and
number of failures (`UsageAggregationProofs`):

| Theorem | Of | Condition |
|---|---|---|
| `TypeCorrect`, `VersionsFormChain`, `RecountsAddNothing` | `TypeOK`, `VersionChain`, `NoRedundantRevision` | none: runs may outlive their leases and queries may miss what is stored |
| `VersionsRefineWriteOnce` | the versions, by aggregate and revision, refine `WriteOnce` | none |
| `VersionsCountRecordedEvents`, `EventsCountInOneGroup` | a version stands for recorded events of its own group before its watermark; no event is in versions of two groups | none |
| `RunnerClaims`, `RunnerClaimIsLease`, `RunnerLeasesExclude` | the runner's claim is a behaviour of `UsageClaims`, refines `TimedLease`, and keeps `LeaseExclusion` and `LeaseInForceIsStored` | none |
| `RunnerCheckpointAdvances`, `RunnerCheckpointsAgree` | the runner's checkpoint never goes back, and keeps `WinnersAgree` and `WonIsDurable` | none |
| `RetriesGoAhead` | `RetriesAreRun` | a positive lateness; finding 1 is about a lateness of zero |
| `RunsExclude` | `OneRunAtATime` | no run outlives its lease |
| `LateDataOnlyAdds`, `PromisesAreKept` | `RevisionsOnlyAdd`, `PromisedEventsCounted` | no run outlives its lease and queries are strong; finding 2 and the remark below it are what happens otherwise |

And for any publishers, identities, contents, requests and correlations, with
strong or eventual reads, and with a runtime that remembers or not:

- `RecordsTypeCorrect`, `AcceptedRecordsAreStored`, `ConflictsAreReal`,
  `RecordsAreMadeOnce`, `RecordsRefineWriteOnce` (`ImmutableRecordsProofs`);
- `TypeCorrect`, `CorrectionsStayGrounded`, `CorrectionsNeverCycle`,
  `EventsStayUnderMeter` (`UsageRecordingProofs`);
- `RegisteringIsRecords` and `RecordingIsRecords`: both kinds of calls are
  behaviours of `ImmutableRecords`. From its theorems follow
  `MetersRefineWriteOnce` and `EventsRefineWriteOnce`, that both stores refine
  `WriteOnce`, and `RegisteringTellsTruth` and `RecordingTellsTruth`, that the
  answers of racing callers are true of what is stored;
- `EventsStayUnderMeter` is about both ways to record: an event is under the
  registered content if the call that stored it was given no meter, and under a
  content that callers give for its version if it was;
- `PublishedEventsAreKept`: what a publisher was told is recorded stays stored as
  its conversion by the meter that its call was given, or else by the registered
  one; and for strong reads and requests that carry their own
  correlation `RetriesAlwaysReplay`;
- `BatchesTypeCorrect`, `ManifestsAreTrue`, `ReceiptsAlwaysAgree`,
  `ReceiptsAreTrue`, `CreditsAreGivenOnce`, `AtomicBatchesAreWhole`,
  `ManifestsRefineWriteOnce`, `OnlySentEventsAppear` (batches add only events that
  a running call sends, under their own ids, and change none),
  `BatchCorrectionsStayGrounded` and `BatchCorrectionsNeverCycle`
  (`UsageBatchesProofs`), with items that fail and any number of dead calls.

And for any instants before and after the epoch, any versions and tolerances and
any width of windows: `WindowsTypeCorrect`, `UsageIsCountedOnce`; for any meters,
units, quantities and number of corrections: `MeteringTypeCorrect`,
`MeteringIsExact`, `OverflowsAreReal`, `EventsAreNormalizedOnce`; for any numbers,
contents, columns and store: `ReplayTypeCorrect`, `ReturnedIsWritten`,
`IntactRecordsAreFound` (`SequentialProofs`).

And for any events, predicates and windows, with cursors of both kinds, any page
size and budget and any number of bad answers: `TypeCorrect`, `ScansAreComplete`,
`ScansAreSound` (`UsageQueriesProofs`).

The proofs use the named assumptions on the constants only: numbers are natural,
a lease lasts at least one tick, `NoRecord` is not a record, a version, a
manifest, or anything that a request is made of, every request is well formed, a
meter accepts requests only, an id names one event of a scope, and a predicate
has finitely many operands. Metering and replay assume that meters are legal and
inputs bounded, as the constructors check; that the context of a sum has room for
all the records of a window (`SumAssumption`: 10^24 of them under the widest meter,
which no code checks); that the store keeps no more digits before the point than an
input may have (`DomainAssumption`, 58 and 1000); and that a missing number is not
a number and a missing digest not a digest. What `UsageAggregation` asks of the components that
it instantiates is their own assumptions (`ComponentsAssumption`).

**Claims.** `LeaseExclusion` is not inductive: nothing in it relates what a
worker has read to what is stored, so it says nothing about a write that is about
to happen. `ClaimsInv` adds that. Every record a worker has read or holds is the
stored one or a *precursor* of it (a lower version, so that `Accepts` refuses
it). A worker's `now` is never ahead of the clock. A record read by a worker
about to write had, at its `now`, run out or was its own. And a lease held that
is not the stored one has run out. From the last fact `LeaseInForceIsStored`
follows, and from it `LeaseExclusion`: two leases in force are both the stored
record, which has one owner. The refinement follows from the step that changes
`claim`: the accepted write was guarded by a read of the very record it replaces.

**Checkpoints.** `CheckpointsInv` adds that what a caller has read is the stored
record or older, that every key the runtime remembers belongs to a checkpoint
that was stored, that the checkpoints returned or remembered agree whenever their
revisions do, and that none of them has a later watermark than the stored one of
at least its revision. Without the remembered keys the invariant is not
inductive: a replayed success must be traced back to the write it stands for.

**Aggregation.** The runner takes the claim's and the checkpoint's steps from
their modules, so its behaviours are theirs (`RunnerClaims`), and the invariants
and theorems proved there hold of it: `RunnerClaimIsLease` and
`RunnerLeasesExclude` are those of claims, `RunnerCheckpointsAgree` follows from
`CheckpointsInv`. Three invariants build on them, one for each of the conditions
above.

`AggregationInv` needs no condition. `put_aggregate` writes where nothing is
stored, and only a version that was computed from the one it supersedes; so the
versions that a run has read matter only in that they are stored
(`run.previous`). `HasLatest`, that every stored group has a version no other is
ahead of, is what makes "the latest version" mean anything; it is in the invariant,
where a step that adds one version keeps it, because that every finite set of
versions has a latest one would need an induction. `SourcesKnown` and `RunInv` say
which events a version and a run can stand for. A put is accepted only where its
aggregate and revision are free, or finds the very version it sends, so that seen
as a map (`VersionMap`) the versions are written once, and never changed by a late
or stale run (`VersionsRefineWriteOnce`): finding 2 supersedes a version, it does
not overwrite one. `RetriesGoAhead` follows as well: the
watermark of a run is beyond `InitialStart` and a scan starts no later than the
lookback of the checkpoint, so that with a positive lateness only a checkpoint
that has passed the watermark leaves the run an empty window.

`InTimeInv` adds that from its claim to its checkpoint a run holds a lease that
was granted at its own `now`, and that the clock has not reached its end. Two
such runs would hold two leases in force, which `LeaseExclusion` forbids.

`CountingInv` is about the one run that is left. Its base is the stored
checkpoint. `Due` are the events in its scan window that it must not lose: those
that a checkpoint answers for, those recorded before it read the checkpoint, and
those that any version stands for. While it scans, each of them is read or
comes after everything read (the keyset cursor); when it reads the latest
versions, all are read; a version it has put, or found equal, stands for exactly
the events it read. A window that its scan reaches is scanned whole, because the
start of the scan is aligned and an event in front of it is not in any group of the
scan. So a version never loses an event of the one it supersedes, and when the
checkpoint moves, what it newly answers for is in the latest versions already.
Without exclusion `base` is stale, which is finding 2.

**Immutable records.** `RecordsInv` adds one fact, `RefusedPutsFoundRecord`: a
call that goes back to read again was refused by a record that is still there.
Without it a conflict after the second read could be about nothing. The
refinement holds because a put, whether its caller lives to see the answer or
not, is the only thing that changes `records`, and it writes only where nothing
is stored.

**Recording.** `RecordingInv` follows the event through the call that makes it.
Once its meter is selected, the call carries an event that is *normal*: if it was
given no meter, the meter version has the content the event was converted under,
and still will, because a registered meter never changes; if it was given one,
that meter has the content and is of the event's version. From the read of the
target on, the event is also *grounded*: its target is stored and fits. These two
facts about calls become facts about stored events when the put is accepted:
`supplied` notes in the same step which of the two was the case, and holds stored
events only, so an event that is new is not in it. `CorrectionsAcyclic` needs one
more thought. The event being put is not stored yet and every stored event is
grounded, so nothing stored corrects the new event. Take any set that contains it.
If it is alone in the set, it does not correct itself, for its target was stored
before it; otherwise the rest has an event that corrects none of the rest, and
that one does not correct the new event either.

Every step of `register_meter`, and every step of `record` on its event, is a
step of `ImmutableRecords` or leaves its variables alone (`StepIsMeterStep`,
`StepIsEventStep`), so `UsageRecording` implements it twice over. For events this
needs `CallInv`: a call that begins to store has an id and an event of that id.

`KeptInv` follows what a publisher was told. A call that stores carries a
conversion of its request by the meter it was given or else by the registered one
(`CarryCall`), so that when it returns, what is stored under its id is such a
conversion, and remains one: meters and events are only added (`StepOnlyAdds`).
This is `PublishedEventsAreKept`. `RetriesReplay` needs two conditions besides.
With its own correlation a request has one conversion by one content, whatever is
ambient, so a call that sends it again to be converted by the same content, given
or registered, carries the very event that is stored; and with strong reads a call
is refused only where other content is there. Where an ambient correlation enters
the conversion the first fails, which is finding 3.

**Batches.** `BatchesInv` follows a call through its events. A running call has
a legal batch, has counted fewer events than the batch has while it loops and all
of them when it comes to the manifest, and what it has counted is stored as it was
sent; it uses the events' store for its next event only. From this
`ManifestIsTrue` follows when the manifest is put, and stays because events are
only added: `CommittedEvents` shows that of a transaction, which writes no id that
is stored with other content. `CreditedOnce` needs the credits that are not yet in
a manifest: those of two running calls, of a running call and a manifest, and of
two manifests are disjoint (`CreditsInv`). A call takes a new credit only for an
event that nobody has stored, and all credits held or kept are of stored events
(`CreditsAreStored`). The credits of a dead call are lost, never given twice.

`AllOrNone` is about atomic batches whose events no other request has
(`Exclusive`). `AtomicInv` says that their calls never go through the loop over the
items, that a call about to put its manifest has stored all of its events, and
that all of them are stored or none is. Only a call of that batch writes one of its
events, and it writes them in one transaction, so that the events which a
transaction finds stored are, with one of them, all. A manifest over these events
is put by such a call.

`GroundedInv` is about corrections. A partitioned batch validates an event
against what is stored and carries it, grounded, to its put. A transaction stores
several events at once, among them corrections and their targets, and there no
single event is the new one; but each was validated against what was stored and
the events in front of it in the batch. So take any set of stored events after it.
If all of them are new, the first of them in the batch corrects none of the others
(there is a first by `WFMin` on numbers). If not, the older ones have an event that
corrects none of the older, and its target was stored before it, so it corrects
none of the new (`OrderedEventsKeepAcyclic`).

**Windows.** `AcceptedInv` says that the version of an accepted event is still
registered with an activity that accepts the window of the event. Two windows
that overlap share an instant, at which both versions would be active. The
aggregation window of an instant starts at the multiple of the width at or below
it, which is unique on both sides of the epoch.

**Queries.** Each predicate means the same in its two forms (`PredicateForms`), so
what is executed is what is planned. The matches of a scope are a chain in the
order of the query, and a finite chain has a sorted list: the place of an event is
the number of matches in front of it, which is one-to-one and therefore, between
finite sets of one size, onto (`SortedListExists`; no induction). `QueriesInv`
then says of a scan under way that each match it began with has been read or is
still `Behind` the cursor. For a cursor that stands on a record that is the order
itself; for one that counts records it is that at least so many matches are in
front of the event, a number that grows when events are recorded (`BehindGrows`).
A right answer keeps this, and so does one with the whole rest. A repeated answer
never does harm because every answer so far has a cursor that was seen: the answer
that has none ends the scan. With cursors that stand on records, what was read is
sorted and nothing in it is behind the cursor, so each page can be appended.

**Decimals.** The provers know no laws of `^`, so a power of ten is the recursive
function `TenTo`. That the function exists is itself proved: every set of numbers
that has zero, and with each number the next, has all (`Successors`, from the least
number that it would miss), and so every power is in some finite list of powers
(`TenToDefined`). `TenToSum`, `TenToGrows` and `TenToExceeds` follow in the same
way, and from them what the number of digits of a coefficient says (`DigitsBound`,
`DigitsShift`). Numbers with different exponents are then compared, added and
multiplied as so many units of a power of ten below all of their exponents (`At`,
`EqualsAt`, `PlusAt`, `TimesAt`). A number is integral at a scale exactly if a
decimal of that scale equals it (`IntegralExact`, `IntegralWhere`), so that equal
numbers have the same scales, coefficients and digits before the point, whatever
their exponents.

**Metering.** `MeteringInv` says of the last event that it passed the checks with
its outcome, of the total that its coefficient is no larger than the count times
what the meter can hold, and, as it stands, `TotalIsExact`: one event more adds its
conversion and one more offset (`SumStaysExact`). Normalizing again converts by the
identity, and the quantized number has the digits before the point of the
unquantized one, so that it fits again. The refusal of an overflow is real because
the digits before the point that `_fit` counts are those of the coefficient at the
scale of the meter, except that it counts one where there is none. `ConversionFits`
adds up the digits of a product and a sum: the sum of the digits and exponents of
the three numbers is enough without `Slack`.

**Decimal replay.** `ReplayInv` says that a digest is compared only where the
store has kept it, that it is then the one of the record written, and that what
was found authentic is what is returned: the stored record does not change under
its reader. That a search succeeds needs `SearchInv`. A stored number equals the
written one if the store has kept it (`ColumnKeeps`); the text that was written has
a scale, and the stored number at that scale has that text (`TextIsFound`). This
scale is not below the least scale of the number and not beyond the end of the
loop (`OriginalInRange`, `ValueInRange`). While the search goes on, the pair of
written scales is at or after the pair it tries next (`TargetInv`), and it cannot
pass it, because there the digest agrees (`TargetIsAuthentic`). What it has tried
is no more than the pairs it has passed (`CursorInv`), and the places of a number
leave at most `MaxDigits` scales of an original (`OriginalRange`), corrupted or not.

## 5. What is model-checked only

- The `TypeOK` of the two modules for TLC that put several components next to each
  other; the types of each of the components are proved.
- Liveness under fairness (`RunsEnd`, `CatchesUp`, `KeptSettles`): proofs of it are
  outside what the prover supports.

## 6. What is not modelled, and why

- Formatting, canonical JSON, validation of names and identifiers, schema tables,
  retention inputs, the plugin facade, error classes and build scripts: no state
  and no interleaving; the models take their results as given. Of `_canonical.py`
  the domain and text of decimals and the longest list are modelled, because
  properties depend on them.
- Orderings and projections of queries that a caller chooses, apart from the one
  that leaves the fingerprint out.
- Totals of aggregates are a function of the event set in `UsageAggregation` and
  of the corrections in `UsageMetering`. A total that exceeds `Decimal(76, 18)`
  though every event fits makes the run raise, as a window with too many events
  does; it is listed as a hazard.
- Two aggregation specs that share a checkpoint, two processes that share an
  owner name, the validation and the field policy of captured correlations: listed
  as hazards where they bite. No document says what should hold for the first two.

## 7. Plan

Every safety property that a passing run checks of a component is also proved for
all values of the constants; §5 says what is not. What may follow:

- the composition of `UsageRecording`, `UsageBatches` and `UsageAggregation` over
  one set of events, of which `OnlySentEventsAppear` and `EventsRefineWriteOnce`
  are what the runner assumes (`Record` adds an event and changes none);
- the hazards that no property covers yet, where a document comes to say what
  should hold: two specs with one checkpoint, two processes with one owner name, a
  total that no column holds.
