--------------------------- MODULE UsageAggregation ---------------------------
(***************************************************************************)
(* AggregationRunner.run (aggregation.py) for one AggregationSpec, run by  *)
(* several workers against one store while events keep being recorded: the *)
(* claim, the checkpoint, the paged event scan, the revisions of the       *)
(* immutable aggregates, and the failures and crashes between any two of   *)
(* them.  The claim and the checkpoint are the modules UsageClaims and     *)
(* UsageCheckpoints, sharing their variables with this one.                *)
(*                                                                         *)
(* An event is a number with a window start and a dimension value; the     *)
(* source fingerprint of an aggregate is the set of events it stands for,  *)
(* and its total is a function of that set.                                *)
(***************************************************************************)
EXTENDS UsageStore, FiniteSets

CONSTANTS LeaseDuration, MaxClock, MaxRevision,
          Events,         \* every event of the meter that may be recorded
          Start,          \* [Events -> Nat]: event.window.start
          Dims,           \* [Events -> Nat]: the selected dimension values
          WindowSize, InitialStart, Lateness, PageSize,   \* the spec
          MaxSources,     \* the longest list that has a fingerprint, 256
          Watermarks,     \* the watermarks runs are called with
          Correlation,    \* [Workers -> Nat]: what each process captures
          Overrun,        \* whether a run may outlive its lease
          EventualReads,  \* whether queries may miss what was written
          MaxFaults       \* bound of failures and crashes

ASSUME AggregationAssumption ==
  /\ Events \subseteq Nat
  /\ Start \in [Events -> Nat]
  /\ Dims \in [Events -> Nat]
  /\ WindowSize \in Nat \ {0}
  /\ InitialStart \in Nat
  /\ Lateness \in Nat
  /\ PageSize \in Nat \ {0}
  /\ MaxSources \in Nat
  /\ Watermarks \subseteq Nat
  /\ Correlation \in [Workers -> Nat]
  /\ Overrun \in BOOLEAN
  /\ EventualReads \in BOOLEAN
  /\ MaxFaults \in Nat

VARIABLES clock, claim, phase, now, seen, lease,   \* UsageClaims
          checkpoint, answered, attempt,           \* UsageCheckpoints
          events,      \* the recorded events
          aggregates,  \* the stored aggregate versions
          run,         \* each worker's local state in run()
          faults,      \* failures and crashes so far
          crashed,     \* ghost: the watermarks of runs that died
          promised     \* ghost: the events the checkpoint answers for

claimVars == <<clock, claim, phase, now, seen, lease>>
checkpointVars == <<checkpoint, answered, attempt>>
vars == <<clock, claim, phase, now, seen, lease, checkpoint, answered,
          attempt, events, aggregates, run, faults, crashed, promised>>
ghostVars == <<faults, crashed, promised>>

Claims == INSTANCE UsageClaims

\* The runner passes its watermark and its own "now" to advance_checkpoint.
Checkpoints == INSTANCE UsageCheckpoints WITH
  Times <- Watermarks \cup 0 .. MaxClock,
  MaxCheckpoints <- MaxRevision

ASSUME ComponentsAssumption ==
  Claims!ClaimsAssumption /\ Checkpoints!CheckpointsAssumption

-----------------------------------------------------------------------------
(* Windows, groups and aggregate versions *)

\* UsageWindow.bucket: the start of the aligned window a time falls in.
Bucket(time) == time - (time % WindowSize)

Group(e) == [window |-> Bucket(Start[e]), dims |-> Dims[e]]

Groups(S) == {Group(e) : e \in S}

Members(S, g) == {e \in S : Group(e) = g}

\* sorted(groups.items()): by window, then by dimension values.
FirstGroup(G) ==
  CHOOSE g \in G : \A h \in G :
    \/ g.window < h.window
    \/ g.window = h.window /\ g.dims <= h.dims

Versions(g) == {a \in aggregates : a.group = g}

\* The stored version of the highest revision, if any.
Latest(g) ==
  IF Versions(g) = {} THEN NoRecord
  ELSE CHOOSE a \in Versions(g) :
         \A b \in Versions(g) : a.revision >= b.revision

\* What latest_aggregate may return.
LatestAnswers(g) ==
  IF EventualReads THEN Versions(g) \cup {NoRecord} ELSE {Latest(g)}

AggregateVersion ==
  [group : [window : Nat, dims : Nat], revision : Nat \ {0},
   sources : SUBSET Events, watermark : Nat, created : Nat,
   correlation : Nat]

ASSUME NoVersionAssumption == NoRecord \notin AggregateVersion

\* A mutation: every run writes a new version.
VersionAnew(w, g, current) ==
  [group |-> g, revision |-> NextRevision(current),
   sources |-> Members(run[w].scanned, g), watermark |-> run[w].watermark,
   created |-> now[w], correlation |-> Correlation[w]]

\* The result of aggregate_events for one group: the current version again if
\* its sources are the same, otherwise a new one that supersedes it.
VersionFor(w, g, current) ==
  LET sources == Members(run[w].scanned, g) IN
  IF current # NoRecord /\ current.sources = sources
  THEN current
  ELSE [group |-> g, revision |-> NextRevision(current),
        sources |-> sources, watermark |-> run[w].watermark,
        created |-> now[w], correlation |-> Correlation[w]]

-----------------------------------------------------------------------------
(* The run *)

Body == {"checkpoint", "scan", "latest", "put", "advance", "commit"}

Steps == {"off", "claim", "release"} \cup Body

Idle == [step |-> "off", watermark |-> 0, base |-> NoRecord, scanned |-> {},
         pending |-> {}, previous |-> {}, covers |-> {}]

RunRecord ==
  [step      : Steps,
   watermark : Nat,
   base      : Checkpoints!CheckpointRecord \cup {NoRecord},
   scanned   : SUBSET Events,            \* the events of the pages read
   pending   : SUBSET [window : Nat, dims : Nat],  \* groups left in the loop
   previous  : SUBSET AggregateVersion,  \* what latest_aggregate returned
   covers    : SUBSET Events]            \* ghost: what its commit promises

TypeOK ==
  /\ Claims!ClaimsTypeOK
  /\ Checkpoints!CheckpointsTypeOK
  /\ events \subseteq Events
  /\ aggregates \subseteq AggregateVersion
  /\ run \in [Workers -> RunRecord]
  /\ faults \in Nat
  /\ crashed \subseteq Watermarks
  /\ promised \subseteq Events

Init ==
  /\ Claims!ClaimsInit
  /\ Checkpoints!CheckpointsInit
  /\ events = {}
  /\ aggregates = {}
  /\ run = [w \in Workers |-> Idle]
  /\ faults = 0
  /\ crashed = {}
  /\ promised = {}

\* The body of run() returns or raises: its finally clause releases the claim.
Finish(w) ==
  run' = [run EXCEPT ![w] = [Idle EXCEPT !.step = "release",
                                         !.watermark = run[w].watermark]]

Begin(w, watermark) ==
  /\ run[w].step = "off"
  /\ watermark > InitialStart
  /\ Claims!BeginAcquire(w)
  /\ run' = [run EXCEPT ![w].step = "claim", ![w].watermark = watermark]
  /\ UNCHANGED <<checkpointVars, events, aggregates, ghostVars>>

AcquireClaim(w) ==
  /\ run[w].step = "claim"
  /\ Claims!AcquireRead(w) \/ Claims!AcquireWrite(w)
  /\ run' = [run EXCEPT ![w] =
       IF phase'[w] = "idle" THEN Idle
       ELSE IF phase'[w] = "held" THEN [@ EXCEPT !.step = "checkpoint"]
       ELSE @]
  /\ UNCHANGED <<checkpointVars, events, aggregates, ghostVars>>

\* A mutation: nothing behind the checkpoint is looked at again.
LookbackExact(base) == IF base = NoRecord THEN InitialStart ELSE base.watermark

\* max(initial_start, checkpoint.watermark - allowed_lateness)
Lookback(base) ==
  IF base = NoRecord \/ base.watermark < InitialStart + Lateness
  THEN InitialStart
  ELSE base.watermark - Lateness

\* A mutation: the scan starts inside a window.
ScanStartUnaligned(base) == Lookback(base)

\* The scan starts where the window of the lookback starts.
ScanStart(base) == Bucket(Lookback(base))

\* The query window [scan_start, watermark) must not be empty.
ReadCheckpoint(w) ==
  LET watermark == run[w].watermark
      behind == checkpoint # NoRecord /\ watermark < checkpoint.watermark
      empty == ScanStart(checkpoint) >= watermark
  IN
  /\ run[w].step = "checkpoint"
  /\ \/ /\ behind \/ empty                    \* InvalidUsage
        /\ Finish(w)
     \/ /\ ~behind /\ ~empty
        /\ run' = [run EXCEPT
             ![w].step = "scan",
             ![w].base = checkpoint,
             ![w].covers = {e \in events : /\ Lookback(checkpoint) <= Start[e]
                                           /\ Start[e] < watermark}]
  /\ UNCHANGED <<claimVars, checkpointVars, events, aggregates, ghostVars>>

\* A mutation: the cursor comes back to the event it stands on.
PrecedesOrEquals(e, f) == Start[e] < Start[f] \/ (Start[e] = Start[f] /\ e <= f)

\* order_by windowStart, eventId
Precedes(e, f) == Start[e] < Start[f] \/ (Start[e] = Start[f] /\ e < f)

\* The matches of the query after the cursor, which is the last event read.
Rest(w, visible) ==
  {e \in visible : /\ ScanStart(run[w].base) <= Start[e]
                   /\ Start[e] < run[w].watermark
                   /\ \A f \in run[w].scanned : Precedes(f, e)}

\* The first PageSize of them.
Page(rest) ==
  {e \in rest : Cardinality({f \in rest : Precedes(f, e)}) < PageSize}

\* A mutation: the cursor of the first page is ignored.
LastPageAlways(rest) == TRUE

\* The page comes without a cursor to a next one.
LastPage(rest) == Page(rest) = rest

\* aggregate_events does not raise: every group has a source fingerprint.
Aggregable(S) ==
  \A g \in Groups(S) : Cardinality(Members(S, g)) <= MaxSources

\* One page of scan_events; events may be recorded between two pages.  The
\* filter of aggregate_events repeats the upper bound of the query.
ScanPage(w) ==
  \E visible \in IF EventualReads THEN SUBSET events ELSE {events} :
    LET rest == Rest(w, visible)
        scanned == run[w].scanned \cup Page(rest)
        last == LastPage(rest)
    IN
    /\ run[w].step = "scan"
    /\ \/ /\ last => Aggregable(scanned)
          /\ run' = [run EXCEPT
               ![w].scanned = scanned,
               ![w].step = IF ~last THEN "scan"
                           ELSE IF scanned = {} THEN "advance" ELSE "latest",
               ![w].pending = IF last THEN Groups(scanned) ELSE {}]
       \/ /\ last /\ ~Aggregable(scanned)     \* InvalidUsage
          /\ Finish(w)
    /\ UNCHANGED <<claimVars, checkpointVars, events, aggregates, ghostVars>>

\* One latest_aggregate; after the last, aggregate_events decides the versions.
ReadLatest(w) ==
  LET g == FirstGroup(run[w].pending)
      last == run[w].pending = {g}
  IN
  /\ run[w].step = "latest"
  /\ \E answer \in LatestAnswers(g) : run' = [run EXCEPT
       ![w].previous = @ \cup ({answer} \ {NoRecord}),
       ![w].step = IF last THEN "put" ELSE "latest",
       ![w].pending = IF last THEN Groups(run[w].scanned) ELSE @ \ {g}]
  /\ UNCHANGED <<claimVars, checkpointVars, events, aggregates, ghostVars>>

Previous(w, g) ==
  LET read == {a \in run[w].previous : a.group = g} IN
  IF read = {} THEN NoRecord ELSE CHOOSE a \in read : TRUE

\* A mutation: the put replaces what is stored.
StorableAlways(version) == TRUE

\* Nothing else is stored under this aggregate and revision.
Storable(version) ==
  \A a \in aggregates :
    a.group = version.group /\ a.revision = version.revision => a = version

\* One put_aggregate.  Versions are immutable and its put is if_absent, so its
\* read, put and read after a conflict answer as one step: a version already
\* stored is returned if it is the same and otherwise raises UsageConflict.
PutAggregate(w) ==
  LET g == FirstGroup(run[w].pending)
      version == VersionFor(w, g, Previous(w, g))
  IN
  /\ run[w].step = "put"
  /\ \/ /\ Storable(version)
        /\ aggregates' = aggregates \cup {version}
        /\ run' = [run EXCEPT
             ![w].pending = @ \ {g},
             ![w].step = IF run[w].pending = {g} THEN "advance" ELSE "put"]
     \/ /\ ~Storable(version)                 \* UsageConflict
        /\ Finish(w)
        /\ UNCHANGED aggregates
  /\ UNCHANGED <<claimVars, checkpointVars, events, ghostVars>>

Advance(w) ==
  /\ run[w].step = "advance"
  /\ Checkpoints!AdvanceRead(w, run[w].watermark, RevisionOf(run[w].base),
                             now[w])
  /\ \/ /\ attempt'[w].status = "writing"
        /\ run' = [run EXCEPT ![w] =
             [Idle EXCEPT !.step = "commit", !.watermark = run[w].watermark,
                          !.covers = run[w].covers]]
     \/ /\ attempt'[w].status = "refused"
        /\ Finish(w)
  /\ UNCHANGED <<claimVars, events, aggregates, ghostVars>>

Commit(w) ==
  /\ run[w].step = "commit"
  /\ Checkpoints!AdvanceWrite(w)
  /\ Finish(w)
  /\ promised' = IF attempt'[w].status = "won"
                 THEN promised \cup run[w].covers ELSE promised
  /\ UNCHANGED <<claimVars, events, aggregates, faults, crashed>>

\* The run ends when release_claim has returned or raised.
Release(w) ==
  /\ run[w].step = "release"
  /\ Claims!ReleaseRead(w) \/ Claims!ReleaseWrite(w)
  /\ \/ /\ phase'[w] = "idle"
        /\ run' = [run EXCEPT ![w] = Idle]
        /\ Checkpoints!Forget(w)
     \/ /\ phase'[w] # "idle"
        /\ UNCHANGED <<run, checkpointVars>>
  /\ UNCHANGED <<events, aggregates, ghostVars>>

-----------------------------------------------------------------------------
(* The environment *)

\* A call in the body raises, before or after it took effect.
Fail(w) ==
  /\ run[w].step \in Body
  /\ faults < MaxFaults
  /\ faults' = faults + 1
  /\ Finish(w)
  /\ UNCHANGED <<claimVars, checkpointVars, events, aggregates, crashed,
                 promised>>

\* The process dies.  Bound: early enough for its claim to run out.
Crash(w) ==
  /\ run[w].step # "off"
  /\ faults < MaxFaults
  /\ clock + LeaseDuration <= MaxClock
  /\ faults' = faults + 1
  /\ crashed' = crashed \cup {run[w].watermark}
  /\ Claims!AbandonRun(w)
  /\ Checkpoints!Forget(w)
  /\ run' = [run EXCEPT ![w] = Idle]
  /\ UNCHANGED <<events, aggregates, promised>>

\* UsageRepository.record makes a new event durable, however late it is.
Record(e) ==
  /\ e \notin events
  /\ events' = events \cup {e}
  /\ UNCHANGED <<claimVars, checkpointVars, aggregates, run, ghostVars>>

\* Whether one more tick leaves a run the time its claim was taken for.
Fits(w) ==
  run[w].step \in {"claim"} \cup Body => clock + 1 < now[w] + LeaseDuration

Tick ==
  /\ Overrun \/ \A w \in Workers : Fits(w)
  /\ Claims!Tick
  /\ UNCHANGED <<checkpointVars, events, aggregates, run, ghostVars>>

\* The steps of a run that has begun and is not disturbed.
Proceed(w) ==
  \/ AcquireClaim(w)
  \/ ReadCheckpoint(w)
  \/ ScanPage(w)
  \/ ReadLatest(w)
  \/ PutAggregate(w)
  \/ Advance(w)
  \/ Commit(w)
  \/ Release(w)

Next ==
  \/ \E w \in Workers :
       \/ \E watermark \in Watermarks : Begin(w, watermark)
       \/ Proceed(w)
       \/ Fail(w)
       \/ Crash(w)
  \/ \E e \in Events : Record(e)
  \/ Tick

Spec == Init /\ [][Next]_vars

\* Time passes, a worker that runs takes its next step, and one worker is
\* started again whenever it is not running.  Nothing is asked of the others:
\* they may die, or never be started.
Fairness(survivor) ==
  /\ WF_vars(Tick)
  /\ \A w \in Workers : WF_vars(Proceed(w))
  /\ WF_vars(\E watermark \in Watermarks : Begin(survivor, watermark))

-----------------------------------------------------------------------------
(* Properties *)

\* The versions of an aggregate form one gap-free chain: every revision but
\* the first follows a stored one and no revision was given to two versions,
\* whatever crashed, was retried or ran concurrently.
VersionChain ==
  \A a \in aggregates :
    /\ a.revision > 1 => \E b \in aggregates : /\ b.group = a.group
                                               /\ b.revision = a.revision - 1
    /\ \A b \in aggregates :
         a.group = b.group /\ a.revision = b.revision => a = b

\* A retry replays: a version is superseded only by one that stands for other
\* events, never by a recount of the same ones.
NoRedundantRevision ==
  \A a, b \in aggregates :
    a.group = b.group /\ b.revision = a.revision + 1 => a.sources # b.sources

\* A version that supersedes another, at no earlier watermark, keeps all its
\* events: only late data makes new versions, and they only add.
RevisionsOnlyAdd ==
  \A a, b \in aggregates :
    /\ a.group = b.group
    /\ a.revision < b.revision
    /\ a.watermark <= b.watermark
    => a.sources \subseteq b.sources

\* An event that was recorded, within the lookback, before a run read its
\* checkpoint is counted by the latest version of its window once that run has
\* advanced the checkpoint, and by every version that is the latest later on.
PromisedEventsCounted ==
  \A e \in promised :
    /\ Latest(Group(e)) # NoRecord
    /\ e \in Latest(Group(e)).sources

\* The bodies of two runs never overlap.
OneRunAtATime ==
  \A w, v \in Workers : run[w].step \in Body /\ run[v].step \in Body => w = v

\* A run that repeats one that died is turned away after taking the claim only
\* if the checkpoint has passed its watermark.
RetriesAreRun ==
  [][\A w \in Workers :
       /\ run[w].step = "checkpoint" /\ run'[w].step = "release"
       /\ run[w].watermark \in crashed
       /\ faults' = faults
       => checkpoint # NoRecord /\ checkpoint.watermark > run[w].watermark]_vars

\* Every run comes to an end, whoever holds the claim and whatever is recorded
\* while it pages through the events.
RunsEnd ==
  \A w \in Workers : run[w].step # "off" ~> run[w].step = "off"

\* A worker that dies in the middle of a run does not stop aggregation: its
\* claim runs out and another worker completes the work.
CatchesUp == <>[](checkpoint # NoRecord)
=============================================================================
