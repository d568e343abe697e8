------------------------ MODULE UsageAggregationProofs ------------------------
(***************************************************************************)
(* UsageAggregation for every set of workers, events and watermarks, every *)
(* page size and lateness, and any number of failures and crashes.  The    *)
(* versions of an aggregate form one chain even when runs outlive their    *)
(* leases and queries miss what was written, are never rewritten, and      *)
(* count recorded events, each in one aggregate.  When runs end within     *)
(* their leases, no two of them overlap; when queries are strong besides,  *)
(* later versions only add events, and no event that a checkpoint answers  *)
(* for is lost.  What is known of claims and checkpoints is taken from     *)
(* UsageClaimsProofs and UsageCheckpointsProofs, and holds of the runner's *)
(* claim and checkpoint.                                                   *)
(***************************************************************************)
EXTENDS UsageAggregation, FiniteSetTheorems, WellFoundedInduction, TLAPS

ClaimsP == INSTANCE UsageClaimsProofs

CheckpointsP == INSTANCE UsageCheckpointsProofs WITH
  Times <- Watermarks \cup 0 .. MaxClock,
  MaxCheckpoints <- MaxRevision

-----------------------------------------------------------------------------
(* The invariants *)

\* Every stored group has a version that no other is ahead of.
HasLatest ==
  \A c \in aggregates :
    \E a \in Versions(c.group) :
      \A b \in Versions(c.group) : b.revision <= a.revision

\* A version stands for recorded events of its own group.
SourcesKnown ==
  \A a \in aggregates : \A e \in a.sources :
    /\ e \in events
    /\ Group(e) = a.group
    /\ Start[e] < a.watermark

VersionsInv ==
  /\ aggregates \subseteq AggregateVersion
  /\ VersionChain
  /\ NoRedundantRevision
  /\ HasLatest
  /\ SourcesKnown

\* The checkpoint has passed what it answers for.
PromisedInv ==
  \A e \in promised :
    /\ e \in events
    /\ checkpoint # NoRecord
    /\ Start[e] < checkpoint.watermark

\* The steps at which a run knows the checkpoint it started from.
Based == {"scan", "latest", "put", "advance"}

RunInv(w) ==
  /\ run[w].step \in {"off", "claim", "checkpoint"} =>
       run[w].scanned = {} /\ run[w].previous = {} /\ run[w].covers = {}
  /\ run[w].step # "off" =>
       run[w].watermark \in Watermarks /\ InitialStart < run[w].watermark
  /\ \A e \in run[w].scanned :
       /\ e \in events
       /\ ScanStart(run[w].base) <= Start[e]
       /\ Start[e] < run[w].watermark
  /\ \A e \in run[w].covers :
       /\ e \in events
       /\ run[w].step \in Based => ScanStart(run[w].base) <= Start[e]
       /\ Start[e] < run[w].watermark
  /\ run[w].step \in {"latest", "put"} =>
       /\ run[w].scanned # {}
       /\ run[w].pending # {}
       /\ run[w].pending \subseteq Groups(run[w].scanned)
  /\ run[w].previous \subseteq aggregates
  /\ run[w].step = "commit" =>
       /\ attempt[w].status = "writing"
       /\ attempt[w].updated.watermark = run[w].watermark

\* What holds of every runner, whatever it outlives and its queries miss.
AggregationInv ==
  /\ clock \in 0 .. MaxClock
  /\ events \subseteq Events /\ IsFiniteSet(events)
  /\ run \in [Workers -> RunRecord]
  /\ faults \in Nat
  /\ crashed \subseteq Watermarks
  /\ CheckpointsP!CheckpointsInv
  /\ VersionsInv
  /\ PromisedInv
  /\ \A w \in Workers : RunInv(w)

\* Where a run is in its calls on the claim, and what it holds of it.
HoldInv(w) ==
  /\ run[w].step = "off" => phase[w] = "idle"
  /\ run[w].step = "claim" => phase[w] \in {"reading", "writing"}
  /\ run[w].step \in Body =>
       /\ phase[w] = "held"
       /\ lease[w].expires = now[w] + LeaseDuration
  /\ run[w].step = "release" => phase[w] \in {"held", "releasing"}

\* A run ends before its lease does.
InTime(w) ==
  run[w].step \in {"claim"} \cup Body => clock < now[w] + LeaseDuration

InTimeInv == \A w \in Workers : HoldInv(w) /\ InTime(w)

-----------------------------------------------------------------------------
(* The invariant of runs that do not overlap, with strong queries *)

InRange(w, e) ==
  ScanStart(run[w].base) <= Start[e] /\ Start[e] < run[w].watermark

\* The events of the scan window that a new version must not lose.
Due(w) ==
  {e \in events :
     /\ InRange(w, e)
     /\ \/ e \in promised \cup run[w].covers
        \/ \E a \in aggregates : e \in a.sources}

\* The latest version of a group stands for what the run has scanned.
Stored(w, g) ==
  /\ Latest(g) # NoRecord
  /\ Latest(g).sources = Members(run[w].scanned, g)

CountInv(w) ==
  /\ run[w].step \in Based =>
       /\ run[w].base = checkpoint
       /\ checkpoint # NoRecord => checkpoint.watermark <= run[w].watermark
  /\ run[w].step = "scan" =>
       \A e \in Due(w) :
         e \in run[w].scanned \/ \A f \in run[w].scanned : Precedes(f, e)
  /\ run[w].step \in {"latest", "put", "advance"} => Due(w) \subseteq run[w].scanned
  /\ run[w].step = "latest" =>
       \A g \in Groups(run[w].scanned) \ run[w].pending :
         Versions(g) # {} => Latest(g) \in run[w].previous
  /\ run[w].step \in {"scan", "latest"} =>
       \A a \in run[w].previous : a = Latest(a.group)
  /\ run[w].step = "put" =>
       /\ \A g \in run[w].pending : Previous(w, g) = Latest(g)
       /\ \A g \in Groups(run[w].scanned) \ run[w].pending : Stored(w, g)
  /\ run[w].step = "advance" =>
       \A g \in Groups(run[w].scanned) : Stored(w, g)
  /\ run[w].step = "commit" =>
       \A e \in run[w].covers :
         Latest(Group(e)) # NoRecord /\ e \in Latest(Group(e)).sources

CountingInv ==
  /\ RevisionsOnlyAdd
  /\ PromisedEventsCounted
  /\ \A w \in Workers : CountInv(w)

-----------------------------------------------------------------------------
(* The claim of the runner is a claim of UsageClaims *)

LEMMA ClaimsAssumptionHolds == ClaimsP!ClaimsAssumption
BY ComponentsAssumption
DEF Claims!ClaimsAssumption, Claims!ClaimRecord,
    ClaimsP!ClaimsAssumption, ClaimsP!ClaimRecord

\* Only acquire_claim, release_claim, the clock and a crash change what
\* UsageClaims is about, each as one of its actions.
LEMMA StepIsClaimsStep ==
  ASSUME [Next]_vars
  PROVE  [ClaimsP!ClaimsNext]_(ClaimsP!claimVars)
<1> USE DEF ClaimsP!claimVars, ClaimsP!ClaimsNext
<1>1. CASE UNCHANGED vars
  BY <1>1 DEF vars
<1>2. ASSUME NEW w \in Workers, NEW watermark \in Watermarks, Begin(w, watermark)
      PROVE  ClaimsP!ClaimsStep(w)
  <2>1. Claims!BeginAcquire(w)
    BY <1>2 DEF Begin
  <2>2. QED
    BY <2>1 DEF Claims!BeginAcquire, ClaimsP!BeginAcquire, ClaimsP!ClaimsStep,
       Claims!RevisionOf, ClaimsP!RevisionOf
<1>3. ASSUME NEW w \in Workers, AcquireClaim(w)
      PROVE  ClaimsP!ClaimsStep(w)
  <2>1. Claims!AcquireRead(w) \/ Claims!AcquireWrite(w)
    BY <1>3 DEF AcquireClaim
  <2>2. CASE Claims!AcquireRead(w)
    BY <2>2 DEF Claims!AcquireRead, ClaimsP!AcquireRead, ClaimsP!ClaimsStep,
       Claims!Claimable, ClaimsP!Claimable, Claims!Leave, ClaimsP!Leave
  <2>3. CASE Claims!AcquireWrite(w)
    BY <2>3 DEF Claims!AcquireWrite, ClaimsP!AcquireWrite, ClaimsP!ClaimsStep,
       Claims!Granted, ClaimsP!Granted, Claims!Leave, ClaimsP!Leave,
       Claims!Accepts, ClaimsP!Accepts, Claims!NextVersion, ClaimsP!NextVersion,
       Claims!NextRevision, ClaimsP!NextRevision,
       Claims!RevisionOf, ClaimsP!RevisionOf
  <2>4. QED
    BY <2>1, <2>2, <2>3
<1>4. ASSUME NEW w \in Workers, Release(w)
      PROVE  ClaimsP!ClaimsStep(w)
  <2>1. Claims!ReleaseRead(w) \/ Claims!ReleaseWrite(w)
    BY <1>4 DEF Release
  <2>2. CASE Claims!ReleaseRead(w)
    BY <2>2 DEF Claims!ReleaseRead, ClaimsP!ReleaseRead, ClaimsP!ClaimsStep,
       Claims!IsOwn, ClaimsP!IsOwn, Claims!Leave, ClaimsP!Leave
  <2>3. CASE Claims!ReleaseWrite(w)
    BY <2>3 DEF Claims!ReleaseWrite, ClaimsP!ReleaseWrite, ClaimsP!ClaimsStep,
       Claims!Released, ClaimsP!Released, Claims!Leave, ClaimsP!Leave,
       Claims!Accepts, ClaimsP!Accepts, Claims!NextVersion, ClaimsP!NextVersion
  <2>4. QED
    BY <2>1, <2>2, <2>3
<1>5. ASSUME NEW w \in Workers, Crash(w)
      PROVE  ClaimsP!ClaimsStep(w)
  <2>1. Claims!AbandonRun(w)
    BY <1>5 DEF Crash
  <2>2. QED
    BY <2>1 DEF Claims!AbandonRun, ClaimsP!AbandonRun, Claims!Leave,
       ClaimsP!Leave, ClaimsP!ClaimsStep
<1>6. ASSUME NEW w \in Workers,
             \/ ReadCheckpoint(w) \/ ScanPage(w) \/ ReadLatest(w)
             \/ PutAggregate(w) \/ Advance(w) \/ Commit(w) \/ Fail(w)
      PROVE  UNCHANGED claimVars
  BY <1>6 DEF ReadCheckpoint, ScanPage, ReadLatest, PutAggregate, Advance,
     Commit, Fail
<1>7. CASE Tick
  <2>1. Claims!Tick
    BY <1>7 DEF Tick
  <2>2. QED
    BY <2>1 DEF Claims!Tick, ClaimsP!Tick
<1>8. ASSUME NEW e \in Events, Record(e)
      PROVE  UNCHANGED claimVars
  BY <1>8 DEF Record
<1>9. QED
  BY <1>1, <1>2, <1>3, <1>4, <1>5, <1>6, <1>7, <1>8 DEF Next, Proceed, claimVars

\* AggregationRunner.run uses the claim as UsageClaims says.
THEOREM RunnerClaims == Spec => ClaimsP!ClaimsSpec
<1>1. Init => ClaimsP!ClaimsInit
  BY DEF Init, Claims!ClaimsInit, ClaimsP!ClaimsInit
<1>2. [Next]_vars => [ClaimsP!ClaimsNext]_(ClaimsP!claimVars)
  BY StepIsClaimsStep
<1>3. QED
  BY <1>1, <1>2, PTL DEF Spec, ClaimsP!ClaimsSpec

\* So that what is proved of claims holds of the runner's.
LEMMA RunnerClaimsInv == Spec => [](ClaimsP!ClaimsInv /\ ClaimsP!LeaseExclusion)
BY RunnerClaims, ClaimsAssumptionHolds, ClaimsP!ClaimsInvariance,
   ClaimsP!LeasesExclude, PTL

-----------------------------------------------------------------------------
(* Windows, groups and pages *)

Groupings == [window : Nat, dims : Nat]

LEMMA RestOfDivision ==
  ASSUME NEW t \in Nat
  PROVE  /\ t % WindowSize \in Nat /\ t % WindowSize < WindowSize
         /\ t % WindowSize <= t
         /\ t \div WindowSize \in Nat
         /\ t = WindowSize * (t \div WindowSize) + (t % WindowSize)
BY AggregationAssumption

\* UsageWindow.bucket: the aligned window of a time begins at or before it.
LEMMA BucketHasType ==
  ASSUME NEW t \in Nat
  PROVE  Bucket(t) \in Nat /\ Bucket(t) <= t
BY RestOfDivision DEF Bucket

\* What lies behind an aligned start lies in a window behind it.
LEMMA BucketIsAligned ==
  ASSUME NEW s \in Nat, NEW t \in Nat, Bucket(t) <= s
  PROVE  Bucket(t) <= Bucket(s)
<1> DEFINE q == s \div WindowSize
           r == t \div WindowSize
<1>1. /\ WindowSize \in Nat /\ WindowSize > 0
      /\ q \in Nat /\ r \in Nat
      /\ s % WindowSize \in Nat /\ s % WindowSize < WindowSize
      /\ t % WindowSize \in Nat
      /\ s = WindowSize * q + (s % WindowSize)
      /\ t = WindowSize * r + (t % WindowSize)
  BY RestOfDivision, AggregationAssumption
<1> HIDE DEF q, r
<1>2. WindowSize * q \in Nat /\ WindowSize * r \in Nat
  BY <1>1
<1>3. Bucket(s) = WindowSize * q /\ Bucket(t) = WindowSize * r
  BY <1>1, <1>2 DEF Bucket
<1>4. r <= q
  <2>1. SUFFICES ASSUME q + 1 <= r PROVE FALSE
    BY <1>1
  <2>2. WindowSize * (q + 1) <= WindowSize * r
    BY <1>1, <2>1
  <2>3. WindowSize * (q + 1) = WindowSize * q + WindowSize
    BY <1>1
  <2>4. WindowSize * r <= s
    BY <1>3
  <2>5. QED
    BY <1>1, <1>2, <2>2, <2>3, <2>4
<1>5. WindowSize * r <= WindowSize * q
  BY <1>1, <1>4
<1>6. QED
  BY <1>3, <1>5

LEMMA GroupHasType ==
  ASSUME NEW e \in Events
  PROVE  /\ Start[e] \in Nat
         /\ Group(e) \in Groupings
         /\ Group(e).window = Bucket(Start[e])
         /\ Group(e).window <= Start[e]
<1>1. Start[e] \in Nat /\ Dims[e] \in Nat
  BY AggregationAssumption
<1>2. QED
  BY <1>1, BucketHasType DEF Group, Groupings

\* A set of numbers has a least member.
LEMMA LeastNumber ==
  ASSUME NEW S \in SUBSET Nat, S # {}
  PROVE  \E n \in S : \A m \in S : n <= m
<1>1. \E n \in S : \A m \in S : ~ (<<m, n>> \in OpToRel(<, Nat))
  BY WFMin, NatLessThanWellFounded
<1>2. \A m, n \in Nat : <<m, n>> \in OpToRel(<, Nat) <=> m < n
  BY Zenon DEF OpToRel
<1>3. \A m, n \in Nat : ~ (m < n) => n <= m
  OBVIOUS
<1>4. QED
  BY <1>1, <1>2, <1>3

\* sorted(groups.items()) has a first group.
LEMMA FirstGroupIsIn ==
  ASSUME NEW G \in SUBSET Groupings, G # {}
  PROVE  FirstGroup(G) \in G
<1> DEFINE W == {g.window : g \in G}
<1>1. W \in SUBSET Nat /\ W # {}
  BY DEF Groupings
<1>2. PICK n \in W : \A m \in W : n <= m
  BY <1>1, LeastNumber
<1> DEFINE D == {g.dims : g \in {h \in G : h.window = n}}
<1>3. D \in SUBSET Nat /\ D # {}
  BY DEF Groupings
<1>4. PICK d \in D : \A m \in D : d <= m
  <2> HIDE DEF D
  <2>1. QED
    BY <1>3, LeastNumber
<1>5. PICK g \in G : g.window = n /\ g.dims = d
  OBVIOUS
<1>6. ASSUME NEW h \in G
      PROVE  \/ g.window < h.window
             \/ g.window = h.window /\ g.dims <= h.dims
  <2>1. g.window \in Nat /\ h.window \in Nat /\ n <= h.window
    BY <1>2 DEF Groupings
  <2>2. h.window = n => h.dims \in D
    OBVIOUS
  <2>3. QED
    BY <1>4, <1>5, <2>1, <2>2
<1>7. QED
  BY <1>6 DEF FirstGroup

\* The scan starts no later than the lookback, and a run whose watermark is
\* behind neither starts at a natural number.
LEMMA ScanStartHasType ==
  ASSUME NEW base \in CheckpointsP!CheckpointRecord \cup {NoRecord}
  PROVE  /\ Lookback(base) \in Nat
         /\ ScanStart(base) \in Nat
         /\ ScanStart(base) <= Lookback(base)
<1>1. Lookback(base) \in Nat
  <2>1. base # NoRecord => base.watermark \in Nat
    BY DEF CheckpointsP!CheckpointRecord
  <2>2. InitialStart \in Nat /\ Lateness \in Nat
    BY AggregationAssumption
  <2>3. QED
    BY <2>1, <2>2 DEF Lookback
<1>2. QED
  BY <1>1, BucketHasType DEF ScanStart

\* The keyset order of the scan is total.
LEMMA OrderIsTotal ==
  ASSUME NEW e \in Events, NEW f \in Events
  PROVE  /\ Precedes(e, f) \/ e = f \/ Precedes(f, e)
         /\ \A d \in Events : Precedes(d, e) /\ Precedes(e, f) => Precedes(d, f)
<1>1. \A d \in Events : d \in Nat /\ Start[d] \in Nat
  BY AggregationAssumption
<1>2. QED
  BY <1>1 DEF Precedes

\* A page is the beginning of what is left: what does not fit on it comes after
\* everything that does.
LEMMA PageIsFirst ==
  ASSUME NEW rest \in SUBSET Events, IsFiniteSet(rest),
         NEW e \in rest, e \notin Page(rest), NEW f \in Page(rest)
  PROVE  Precedes(f, e)
<1> DEFINE Before(x) == {y \in rest : Precedes(y, x)}
<1>1. f \in rest /\ Cardinality(Before(f)) < PageSize
  BY DEF Page
<1>2. ~ Cardinality(Before(e)) < PageSize
  BY DEF Page
<1>3. CASE Precedes(e, f)
  <2>1. Before(e) \subseteq Before(f)
    BY <1>1, <1>3, OrderIsTotal
  <2>2. Before(f) \subseteq rest
    OBVIOUS
  <2> HIDE DEF Before
  <2>3. IsFiniteSet(Before(f))
    BY <2>2, FS_Subset
  <2>4. /\ Cardinality(Before(e)) <= Cardinality(Before(f))
        /\ Cardinality(Before(e)) \in Nat /\ Cardinality(Before(f)) \in Nat
    BY <2>1, <2>3, FS_Subset, FS_CardinalityType
  <2>5. QED
    BY <1>1, <1>2, <2>4, AggregationAssumption
<1>4. QED
  BY <1>1, <1>3, OrderIsTotal

\* The latest version is stored, the only one of its revision, and ahead of the
\* others of its group.
LEMMA LatestIsLast ==
  ASSUME VersionsInv, NEW g, Versions(g) # {}
  PROVE  /\ Latest(g) \in Versions(g)
         /\ \A b \in Versions(g) : b.revision <= Latest(g).revision
<1>1. PICK c \in aggregates : c.group = g
  BY DEF Versions
<1>2. \E a \in Versions(g) : \A b \in Versions(g) : b.revision <= a.revision
  BY <1>1 DEF VersionsInv, HasLatest
<1>3. \A a \in Versions(g) : a.revision \in Nat
  BY DEF VersionsInv, AggregateVersion, Versions
<1>4. \E a \in Versions(g) : \A b \in Versions(g) : a.revision >= b.revision
  BY <1>2, <1>3
<1>5. QED
  BY <1>3, <1>4 DEF Latest

LEMMA LatestIsUnique ==
  ASSUME VersionsInv, NEW a \in aggregates,
         \A b \in Versions(a.group) : b.revision <= a.revision
  PROVE  Latest(a.group) = a
<1>1. a \in Versions(a.group)
  BY DEF Versions
<1>2. /\ Latest(a.group) \in Versions(a.group)
      /\ a.revision <= Latest(a.group).revision
      /\ Latest(a.group).revision <= a.revision
  BY <1>1, LatestIsLast
<1>3. Latest(a.group).revision \in Nat /\ a.revision \in Nat
  BY <1>2 DEF VersionsInv, AggregateVersion, Versions
<1>4. QED
  BY <1>2, <1>3 DEF VersionsInv, VersionChain, Versions

\* What latest_aggregate returns is a stored version of its group, or none.
LEMMA AnswersAreStored ==
  ASSUME VersionsInv, NEW g, NEW answer \in LatestAnswers(g), answer # NoRecord
  PROVE  answer \in Versions(g)
<1>1. CASE EventualReads
  BY <1>1 DEF LatestAnswers
<1>2. CASE ~EventualReads
  <2>1. answer = Latest(g) /\ Versions(g) # {}
    BY <1>2 DEF LatestAnswers, Latest
  <2>2. QED
    BY <2>1, LatestIsLast
<1>3. QED
  BY <1>1, <1>2

-----------------------------------------------------------------------------
(* Steps of one run leave the others as they are *)

LEMMA CheckpointsAssumptionHolds == CheckpointsP!CheckpointsAssumption
BY ComponentsAssumption
DEF Checkpoints!CheckpointsAssumption, Checkpoints!CheckpointRecord,
    CheckpointsP!CheckpointsAssumption, CheckpointsP!CheckpointRecord

LEMMA OthersStay ==
  ASSUME NEW v \in Workers, RunInv(v),
         run'[v] = run[v], attempt'[v] = attempt[v],
         aggregates \subseteq aggregates', events \subseteq events'
  PROVE  RunInv(v)'
BY DEF RunInv, Based, ScanStart, Lookback, Groups, Group

\* A step of worker w that does what is right for its own run.
LEMMA RunStep ==
  ASSUME AggregationInv, NEW w \in Workers,
         run' \in [Workers -> RunRecord],
         \A v \in Workers \ {w} : run'[v] = run[v] /\ attempt'[v] = attempt[v],
         UNCHANGED <<clock, events>>,
         aggregates \subseteq aggregates',
         faults' \in Nat, crashed' \subseteq Watermarks,
         CheckpointsP!CheckpointsInv', VersionsInv', PromisedInv', RunInv(w)'
  PROVE  AggregationInv'
<1>1. ASSUME NEW v \in Workers \ {w} PROVE RunInv(v)'
  BY OthersStay DEF AggregationInv
<1>2. \A v \in Workers : RunInv(v)'
  BY <1>1
<1>3. QED
  BY <1>2 DEF AggregationInv

\* Versions stay as they are while events are recorded.
LEMMA VersionsStay ==
  ASSUME VersionsInv, UNCHANGED aggregates, events \subseteq events'
  PROVE  VersionsInv'
BY DEF VersionsInv, VersionChain, NoRedundantRevision, HasLatest, Versions,
   SourcesKnown, Group

\* What is stored keeps its invariants when it stays.
LEMMA StoredStays ==
  ASSUME AggregationInv, UNCHANGED <<events, aggregates, checkpoint, answered,
                                     attempt, promised>>
  PROVE  CheckpointsP!CheckpointsInv' /\ VersionsInv' /\ PromisedInv'
<1>1. CheckpointsP!CheckpointsInv'
  BY CheckpointsAssumptionHolds, CheckpointsP!StepKeepsInv
  DEF AggregationInv, CheckpointsP!checkpointVars
<1>2. VersionsInv' /\ PromisedInv'
  BY VersionsStay DEF AggregationInv, PromisedInv
<1>3. QED
  BY <1>1, <1>2

\* A step that changes nothing but the state of one run.
LEMMA LocalStep ==
  ASSUME AggregationInv, NEW w \in Workers,
         run' \in [Workers -> RunRecord],
         \A v \in Workers \ {w} : run'[v] = run[v],
         UNCHANGED <<clock, checkpointVars, events, aggregates, crashed,
                     promised>>,
         faults' \in Nat, RunInv(w)'
  PROVE  AggregationInv'
<1>1. CheckpointsP!CheckpointsInv' /\ VersionsInv' /\ PromisedInv'
  BY StoredStays DEF checkpointVars
<1>2. QED
  BY <1>1, RunStep DEF AggregationInv, checkpointVars

-----------------------------------------------------------------------------
(* The steps that end a run *)

LEMMA FinishEndsRun ==
  ASSUME AggregationInv, NEW w \in Workers, run[w].step \in Body, Finish(w)
  PROVE  /\ run' \in [Workers -> RunRecord]
         /\ \A v \in Workers \ {w} : run'[v] = run[v]
         /\ run'[w].step = "release"
         /\ run'[w].watermark = run[w].watermark
         /\ RunInv(w)'
<1> DEFINE r == [Idle EXCEPT !.step = "release", !.watermark = run[w].watermark]
<1>1. run[w] \in RunRecord /\ run[w].step # "off"
  BY DEF AggregationInv, Body
<1>2. r \in RunRecord
  BY <1>1 DEF RunRecord, Idle, Steps
<1>3. /\ r.step = "release" /\ r.watermark = run[w].watermark
      /\ r.scanned = {} /\ r.previous = {} /\ r.covers = {}
  BY DEF Idle
<1>4. run[w].watermark \in Watermarks /\ InitialStart < run[w].watermark
  BY <1>1 DEF AggregationInv, RunInv
<1> HIDE DEF r
<1>5. run' = [run EXCEPT ![w] = r]
  BY DEF Finish, r
<1>6. run'[w] = r
  BY <1>5 DEF AggregationInv
<1>7. RunInv(w)'
  BY <1>3, <1>4, <1>6 DEF RunInv
<1>8. QED
  BY <1>2, <1>3, <1>5, <1>6, <1>7 DEF AggregationInv

LEMMA IdleEndsRun ==
  ASSUME AggregationInv, NEW w \in Workers, run' = [run EXCEPT ![w] = Idle]
  PROVE  /\ run' \in [Workers -> RunRecord]
         /\ \A v \in Workers \ {w} : run'[v] = run[v]
         /\ run'[w] = Idle
         /\ RunInv(w)'
<1>1. /\ Idle.step = "off"
      /\ Idle.scanned = {} /\ Idle.previous = {} /\ Idle.covers = {}
  BY DEF Idle
<1>2. Idle \in RunRecord
  BY DEF RunRecord, Idle, Steps
<1>3. run'[w] = Idle
  BY DEF AggregationInv
<1>4. RunInv(w)'
  BY <1>1, <1>3 DEF RunInv
<1>5. QED
  BY <1>2, <1>3, <1>4 DEF AggregationInv

-----------------------------------------------------------------------------
(* One lemma per action: what holds of every runner *)

LEMMA InitEstablishesInv == Init => AggregationInv
<1>1. SUFFICES ASSUME Init PROVE AggregationInv
  OBVIOUS
<1>2. CheckpointsP!CheckpointsInv
  <2>1. CheckpointsP!CheckpointsInit
    BY <1>1 DEF Init, Checkpoints!CheckpointsInit, CheckpointsP!CheckpointsInit,
       Checkpoints!NoAttempt, CheckpointsP!NoAttempt
  <2>2. QED
    BY <2>1, CheckpointsAssumptionHolds, CheckpointsP!InitEstablishesInv
<1>3. VersionsInv /\ PromisedInv
  BY <1>1 DEF Init, VersionsInv, VersionChain, NoRedundantRevision, HasLatest,
     SourcesKnown, PromisedInv
<1>4. Idle \in RunRecord
  BY DEF RunRecord, Idle, Steps
<1>5. ASSUME NEW w \in Workers PROVE RunInv(w)
  BY <1>1 DEF Init, RunInv, Idle
<1>6. 0 \in 0 .. MaxClock
  BY ComponentsAssumption DEF Claims!ClaimsAssumption
<1>7. QED
  BY <1>1, <1>2, <1>3, <1>4, <1>5, <1>6, FS_EmptySet
  DEF Init, AggregationInv, Claims!ClaimsInit

LEMMA BeginKeepsInv ==
  ASSUME AggregationInv, NEW w \in Workers, NEW watermark \in Watermarks,
         Begin(w, watermark)
  PROVE  AggregationInv'
<1> DEFINE r == [run[w] EXCEPT !.step = "claim", !.watermark = watermark]
<1>1. /\ run[w] \in RunRecord
      /\ run[w].scanned = {} /\ run[w].previous = {} /\ run[w].covers = {}
  BY DEF AggregationInv, RunInv, Begin
<1>2. r \in RunRecord
  BY <1>1, AggregationAssumption DEF RunRecord, Steps
<1>3. /\ r.step = "claim" /\ r.watermark = watermark
      /\ r.scanned = {} /\ r.previous = {} /\ r.covers = {}
  BY <1>1 DEF RunRecord
<1>4. run' = [run EXCEPT ![w] = r]
  BY <1>1 DEF Begin, AggregationInv
<1>5. InitialStart < watermark
  BY AggregationAssumption DEF Begin
<1> HIDE DEF r
<1>6. run'[w] = r
  BY <1>4 DEF AggregationInv
<1>7. RunInv(w)'
  BY <1>3, <1>5, <1>6 DEF RunInv
<1>8. UNCHANGED <<clock, checkpointVars, events, aggregates, ghostVars>>
  BY DEF Begin, Claims!BeginAcquire
<1>9. QED
  BY <1>2, <1>4, <1>7, <1>8, LocalStep DEF AggregationInv, ghostVars

LEMMA AcquireClaimKeepsInv ==
  ASSUME AggregationInv, NEW w \in Workers, AcquireClaim(w)
  PROVE  AggregationInv'
<1> DEFINE r == [run[w] EXCEPT !.step = "checkpoint"]
<1>1. UNCHANGED <<clock, checkpointVars, events, aggregates, ghostVars>>
  BY DEF AcquireClaim, Claims!AcquireRead, Claims!AcquireWrite
<1>2. CASE run' = [run EXCEPT ![w] = Idle]
  BY <1>1, <1>2, IdleEndsRun, LocalStep DEF AggregationInv, ghostVars
<1>3. CASE run' = [run EXCEPT ![w] = r]
  <2>1. r \in RunRecord
    BY DEF AggregationInv, RunRecord, Steps, Body
  <2>2. run[w].step = "claim"
    BY DEF AcquireClaim
  <2>3. /\ r.step = "checkpoint" /\ r.watermark = run[w].watermark
        /\ r.base = run[w].base /\ r.scanned = run[w].scanned
        /\ r.covers = run[w].covers /\ r.previous = run[w].previous
    BY DEF AggregationInv, RunRecord
  <2> HIDE DEF r
  <2>4. run'[w] = r
    BY <1>3 DEF AggregationInv
  <2>5. RunInv(w)'
    BY <1>1, <2>2, <2>3, <2>4
    DEF AggregationInv, RunInv, Based, ScanStart, Lookback
  <2>6. QED
    BY <1>1, <1>3, <2>1, <2>5, LocalStep DEF AggregationInv, ghostVars
<1>4. CASE run' = run
  <2>1. RunInv(w)'
    BY <1>1, <1>4, OthersStay DEF AggregationInv, checkpointVars
  <2>2. QED
    BY <1>1, <1>4, <2>1, LocalStep DEF AggregationInv, ghostVars
<1>5. QED
  BY <1>2, <1>3, <1>4 DEF AcquireClaim, AggregationInv

LEMMA ReadCheckpointKeepsInv ==
  ASSUME AggregationInv, NEW w \in Workers, ReadCheckpoint(w)
  PROVE  AggregationInv'
<1> DEFINE covered == {e \in events : /\ Lookback(checkpoint) <= Start[e]
                                      /\ Start[e] < run[w].watermark}
           r == [run[w] EXCEPT !.step = "scan", !.base = checkpoint,
                               !.covers = covered]
<1>1. UNCHANGED <<clock, checkpointVars, events, aggregates, ghostVars>>
  BY DEF ReadCheckpoint, claimVars
<1>2. CASE Finish(w)
  BY <1>1, <1>2, FinishEndsRun, LocalStep
  DEF AggregationInv, ghostVars, ReadCheckpoint, Body
<1>3. CASE run' = [run EXCEPT ![w].step = "scan", ![w].base = checkpoint,
                              ![w].covers = covered]
  <2>1. /\ run[w] \in RunRecord /\ run[w].step = "checkpoint"
        /\ run[w].scanned = {} /\ run[w].previous = {}
        /\ run[w].watermark \in Watermarks /\ InitialStart < run[w].watermark
    BY DEF AggregationInv, RunInv, ReadCheckpoint
  <2>2. checkpoint \in CheckpointsP!CheckpointRecord \cup {NoRecord}
    BY DEF AggregationInv, CheckpointsP!CheckpointsInv,
       CheckpointsP!CheckpointsTypeOK
  <2>3. run' = [run EXCEPT ![w] = r]
    BY <1>3, <2>1 DEF AggregationInv
  <2>4. /\ r.step = "scan" /\ r.watermark = run[w].watermark
        /\ r.base = checkpoint /\ r.scanned = {} /\ r.previous = {}
        /\ r.covers = covered
    BY <2>1 DEF RunRecord
  <2>5. covered \in SUBSET Events
    BY DEF AggregationInv
  <2>6. r \in RunRecord
    BY <2>1, <2>2, <2>5
    DEF RunRecord, Steps, Body, CheckpointsP!CheckpointRecord,
        Checkpoints!CheckpointRecord
  <2>7. \A e \in covered : /\ e \in events
                           /\ ScanStart(checkpoint) <= Start[e]
                           /\ Start[e] < run[w].watermark
    <3>1. SUFFICES ASSUME NEW e \in covered PROVE ScanStart(checkpoint) <= Start[e]
      OBVIOUS
    <3>2. /\ Lookback(checkpoint) \in Nat /\ ScanStart(checkpoint) \in Nat
          /\ ScanStart(checkpoint) <= Lookback(checkpoint)
      BY <2>2, ScanStartHasType
    <3>3. Start[e] \in Nat
      BY <2>5, GroupHasType
    <3>4. QED
      BY <3>2, <3>3
  <2> HIDE DEF r, covered
  <2>8. run'[w] = r
    BY <2>3 DEF AggregationInv
  <2>9. RunInv(w)'
    BY <1>1, <2>1, <2>4, <2>7, <2>8 DEF RunInv, ScanStart, Lookback
  <2>10. QED
    BY <1>1, <2>3, <2>6, <2>9, LocalStep DEF AggregationInv, ghostVars
<1>4. QED
  BY <1>2, <1>3 DEF ReadCheckpoint

\* What one page adds to the run.
LEMMA PageIsInRange ==
  ASSUME AggregationInv, NEW w \in Workers, NEW visible \in SUBSET events,
         NEW e \in Page(Rest(w, visible))
  PROVE  /\ e \in events
         /\ ScanStart(run[w].base) <= Start[e]
         /\ Start[e] < run[w].watermark
BY DEF Page, Rest

LEMMA GroupsHaveType ==
  ASSUME NEW S \in SUBSET Events
  PROVE  Groups(S) \in SUBSET Groupings
BY GroupHasType DEF Groups

\* A run after a page of its scan.
PageRead(w, visible) ==
  LET rest == Rest(w, visible)
      scanned == run[w].scanned \cup Page(rest)
      last == LastPage(rest)
  IN
  [run[w] EXCEPT !.scanned = scanned,
                 !.step = IF ~last THEN "scan"
                          ELSE IF scanned = {} THEN "advance" ELSE "latest",
                 !.pending = IF last THEN Groups(scanned) ELSE {}]

LEMMA ScanPageReads ==
  ASSUME AggregationInv, NEW w \in Workers, ScanPage(w), ~Finish(w)
  PROVE  \E visible \in IF EventualReads THEN SUBSET events ELSE {events} :
           /\ run' = [run EXCEPT ![w] = PageRead(w, visible)]
           /\ run'[w] = PageRead(w, visible)
<1>1. PICK visible \in IF EventualReads THEN SUBSET events ELSE {events} :
        LET rest == Rest(w, visible)
            scanned == run[w].scanned \cup Page(rest)
            last == LastPage(rest)
        IN run' = [run EXCEPT
             ![w].scanned = scanned,
             ![w].step = IF ~last THEN "scan"
                         ELSE IF scanned = {} THEN "advance" ELSE "latest",
             ![w].pending = IF last THEN Groups(scanned) ELSE {}]
  BY DEF ScanPage
<1>2. run \in [Workers -> RunRecord] /\ run[w] \in RunRecord
  BY DEF AggregationInv
<1>3. run' = [run EXCEPT ![w] = PageRead(w, visible)]
  BY <1>1, <1>2 DEF PageRead
<1>4. QED
  BY <1>2, <1>3

LEMMA PageReadFields ==
  ASSUME NEW w \in Workers, run[w] \in RunRecord, NEW visible
  PROVE  LET r == PageRead(w, visible)
             last == LastPage(Rest(w, visible))
         IN
         /\ r.scanned = run[w].scanned \cup Page(Rest(w, visible))
         /\ ~last => r.step = "scan" /\ r.pending = {}
         /\ last => /\ r.pending = Groups(r.scanned)
                    /\ r.step = IF r.scanned = {} THEN "advance" ELSE "latest"
         /\ r.watermark = run[w].watermark /\ r.base = run[w].base
         /\ r.previous = run[w].previous /\ r.covers = run[w].covers
BY DEF PageRead, RunRecord

LEMMA ScanPageKeepsInv ==
  ASSUME AggregationInv, NEW w \in Workers, ScanPage(w)
  PROVE  AggregationInv'
<1>1. UNCHANGED <<clock, checkpointVars, events, aggregates, ghostVars>>
  BY DEF ScanPage, claimVars
<1>2. CASE Finish(w)
  BY <1>1, <1>2, FinishEndsRun, LocalStep
  DEF AggregationInv, ghostVars, ScanPage, Body
<1>3. CASE ~Finish(w)
  <2>1. PICK visible \in SUBSET events :
          run' = [run EXCEPT ![w] = PageRead(w, visible)]
    BY <1>3, ScanPageReads
  <2> DEFINE last == LastPage(Rest(w, visible))
             r == PageRead(w, visible)
  <2>2. run[w] \in RunRecord /\ run[w].step = "scan" /\ RunInv(w)
    BY DEF AggregationInv, ScanPage
  <2>3. /\ r.scanned = run[w].scanned \cup Page(Rest(w, visible))
        /\ ~last => r.step = "scan" /\ r.pending = {}
        /\ last => /\ r.pending = Groups(r.scanned)
                   /\ r.step = IF r.scanned = {} THEN "advance" ELSE "latest"
        /\ r.watermark = run[w].watermark /\ r.base = run[w].base
        /\ r.previous = run[w].previous /\ r.covers = run[w].covers
    BY <2>2, PageReadFields
  <2>4. \A e \in r.scanned : /\ e \in events
                             /\ ScanStart(run[w].base) <= Start[e]
                             /\ Start[e] < run[w].watermark
    BY <2>2, <2>3, PageIsInRange DEF RunInv
  <2>5. r.scanned \in SUBSET Events
    BY <2>4 DEF AggregationInv
  <2>6. r.pending \in SUBSET Groupings
    BY <2>3, <2>5, GroupsHaveType
  <2>7. r.step \in {"scan", "advance", "latest"}
    BY <2>3
  <2>8. r.step = "latest" => r.scanned # {} /\ r.pending = Groups(r.scanned)
    BY <2>3
  <2>9. r.scanned # {} => Groups(r.scanned) # {}
    BY DEF Groups
  <2>10. r \in RunRecord
    BY <2>2, <2>5, <2>6, <2>7
    DEF RunRecord, Steps, Body, Groupings, PageRead
  <2> HIDE DEF r, last
  <2>11. run'[w] = r
    BY <2>1 DEF AggregationInv, r
  <2>12. RunInv(w)'
    <3>1. /\ r.watermark \in Watermarks /\ InitialStart < r.watermark
          /\ r.previous \subseteq aggregates
          /\ \A e \in r.covers : /\ e \in events
                                 /\ ScanStart(r.base) <= Start[e]
                                 /\ Start[e] < r.watermark
      BY <2>2, <2>3 DEF RunInv, Based
    <3>2. r.step \in {"latest", "put"} =>
            /\ r.scanned # {} /\ r.pending # {}
            /\ r.pending \subseteq Groups(r.scanned)
      BY <2>7, <2>8, <2>9
    <3>3. QED
      BY <1>1, <2>3, <2>4, <2>7, <2>11, <3>1, <3>2
      DEF RunInv, ScanStart, Lookback, Groups, Group
  <2>13. QED
    BY <1>1, <2>1, <2>10, <2>12, LocalStep DEF AggregationInv, ghostVars, r
<1>4. QED
  BY <1>2, <1>3

\* A run in its loops works on a group of the events it has scanned.
LEMMA LoopHasGroup ==
  ASSUME AggregationInv, NEW w \in Workers, run[w].step \in {"latest", "put"}
  PROVE  /\ FirstGroup(run[w].pending) \in run[w].pending
         /\ FirstGroup(run[w].pending) \in Groups(run[w].scanned)
         /\ FirstGroup(run[w].pending) \in Groupings
         /\ run[w].pending # {FirstGroup(run[w].pending)} =>
              run[w].pending \ {FirstGroup(run[w].pending)} # {}
         /\ Groups(run[w].scanned) # {}
<1>1. /\ run[w].pending # {}
      /\ run[w].pending \subseteq Groups(run[w].scanned)
      /\ run[w].pending \in SUBSET Groupings
  BY DEF AggregationInv, RunInv, RunRecord, Groupings
<1>2. FirstGroup(run[w].pending) \in run[w].pending
  BY <1>1, FirstGroupIsIn
<1>3. QED
  BY <1>1, <1>2

\* A run after one answer of latest_aggregate.
LatestRead(w, answer) ==
  LET g == FirstGroup(run[w].pending)
      last == run[w].pending = {g}
  IN
  [run[w] EXCEPT !.previous = @ \cup ({answer} \ {NoRecord}),
                 !.step = IF last THEN "put" ELSE "latest",
                 !.pending = IF last THEN Groups(run[w].scanned) ELSE @ \ {g}]

LEMMA ReadLatestReads ==
  ASSUME AggregationInv, NEW w \in Workers, ReadLatest(w)
  PROVE  \E answer \in LatestAnswers(FirstGroup(run[w].pending)) :
           /\ run' = [run EXCEPT ![w] = LatestRead(w, answer)]
           /\ run'[w] = LatestRead(w, answer)
<1> DEFINE g == FirstGroup(run[w].pending)
           last == run[w].pending = {g}
<1>1. PICK answer \in LatestAnswers(g) : run' = [run EXCEPT
        ![w].previous = @ \cup ({answer} \ {NoRecord}),
        ![w].step = IF last THEN "put" ELSE "latest",
        ![w].pending = IF last THEN Groups(run[w].scanned) ELSE @ \ {g}]
  BY DEF ReadLatest
<1>2. run \in [Workers -> RunRecord] /\ run[w] \in RunRecord
  BY DEF AggregationInv
<1>3. run' = [run EXCEPT ![w] = LatestRead(w, answer)]
  BY <1>1, <1>2 DEF LatestRead
<1>4. QED
  BY <1>2, <1>3

LEMMA LatestReadFields ==
  ASSUME NEW w \in Workers, run[w] \in RunRecord, NEW answer
  PROVE  LET r == LatestRead(w, answer)
             g == FirstGroup(run[w].pending)
         IN
         /\ r.previous = run[w].previous \cup ({answer} \ {NoRecord})
         /\ run[w].pending = {g} =>
              r.step = "put" /\ r.pending = Groups(run[w].scanned)
         /\ run[w].pending # {g} =>
              r.step = "latest" /\ r.pending = run[w].pending \ {g}
         /\ r.watermark = run[w].watermark /\ r.base = run[w].base
         /\ r.scanned = run[w].scanned /\ r.covers = run[w].covers
BY DEF LatestRead, RunRecord

LEMMA ReadLatestKeepsInv ==
  ASSUME AggregationInv, NEW w \in Workers, ReadLatest(w)
  PROVE  AggregationInv'
<1> DEFINE g == FirstGroup(run[w].pending)
<1>1. UNCHANGED <<clock, checkpointVars, events, aggregates, ghostVars>>
  BY DEF ReadLatest, claimVars
<1>2. run[w] \in RunRecord /\ RunInv(w) /\ run[w].step = "latest"
  BY DEF AggregationInv, ReadLatest
<1>3. PICK answer \in LatestAnswers(g) :
        /\ run' = [run EXCEPT ![w] = LatestRead(w, answer)]
        /\ run'[w] = LatestRead(w, answer)
  BY ReadLatestReads
<1> DEFINE r == LatestRead(w, answer)
<1>4. /\ r.previous = run[w].previous \cup ({answer} \ {NoRecord})
      /\ run[w].pending = {g} =>
              r.step = "put" /\ r.pending = Groups(run[w].scanned)
      /\ run[w].pending # {g} =>
              r.step = "latest" /\ r.pending = run[w].pending \ {g}
      /\ r.watermark = run[w].watermark /\ r.base = run[w].base
      /\ r.scanned = run[w].scanned /\ r.covers = run[w].covers
  BY <1>2, LatestReadFields
<1>5. r.previous \subseteq aggregates
  BY <1>2, <1>4, AnswersAreStored DEF RunInv, AggregationInv, Versions
<1>6. /\ r.pending # {}
      /\ r.pending \subseteq Groups(run[w].scanned)
      /\ r.pending \in SUBSET Groupings
  BY <1>2, <1>4, LoopHasGroup, GroupsHaveType DEF RunInv, RunRecord
<1>7. r.step \in {"latest", "put"}
  BY <1>4
<1>8. r \in RunRecord
  BY <1>2, <1>5, <1>6, <1>7
  DEF RunRecord, Steps, Body, Groupings, AggregationInv, VersionsInv, LatestRead
<1> HIDE DEF r
<1>9. RunInv(w)'
  BY <1>1, <1>2, <1>3, <1>4, <1>5, <1>6, <1>7
  DEF r, RunInv, Based, ScanStart, Lookback, Groups, Group
<1>10. QED
  BY <1>1, <1>3, <1>8, <1>9, LocalStep DEF AggregationInv, ghostVars, r

\* A stored version whose predecessor is stored and stands for other events.
LEMMA NewVersionKeepsInv ==
  ASSUME VersionsInv, NEW version \in AggregateVersion, Storable(version),
         version.revision > 1 =>
           \E b \in aggregates : /\ b.group = version.group
                                 /\ b.revision = version.revision - 1,
         \A a \in aggregates :
           a.group = version.group /\ version.revision = a.revision + 1
             => a.sources # version.sources,
         \A e \in version.sources : /\ e \in events
                                    /\ Group(e) = version.group
                                    /\ Start[e] < version.watermark,
         aggregates' = aggregates \cup {version}, UNCHANGED events
  PROVE  VersionsInv'
<1>1. /\ aggregates' \subseteq AggregateVersion
      /\ \A a \in aggregates' : a.revision \in Nat /\ a.revision > 0
  BY DEF VersionsInv, AggregateVersion
<1>2. VersionChain'
  BY DEF VersionsInv, VersionChain, Storable
<1>3. NoRedundantRevision'
  <2>1. SUFFICES ASSUME NEW a \in aggregates', NEW b \in aggregates',
                        a.group = b.group, b.revision = a.revision + 1
                 PROVE  a.sources # b.sources
    BY DEF NoRedundantRevision
  <2>2. a.revision \in Nat /\ b.revision \in Nat
    BY <1>1
  <2>3. CASE a \in aggregates /\ b \in aggregates
    BY <2>1, <2>3 DEF VersionsInv, NoRedundantRevision
  <2>4. CASE a \in aggregates /\ b = version
    BY <2>1, <2>4
  <2>5. CASE a = version /\ b \in aggregates
    <3>1. b.revision > 1
      BY <1>1, <2>1, <2>2
    <3>2. PICK c \in aggregates : c.group = b.group /\ c.revision = b.revision - 1
      BY <2>5, <3>1 DEF VersionsInv, VersionChain
    <3>3. c = version
      BY <2>1, <2>2, <2>5, <3>2 DEF Storable
    <3>4. QED
      BY <2>1, <2>5, <3>2, <3>3 DEF VersionsInv, NoRedundantRevision
  <2>6. CASE a = version /\ b = version
    BY <2>1, <2>2, <2>6
  <2>7. QED
    BY <2>3, <2>4, <2>5, <2>6
<1>4. HasLatest'
  <2>1. SUFFICES ASSUME NEW c \in aggregates'
                 PROVE  \E a \in aggregates' :
                          /\ a.group = c.group
                          /\ \A b \in aggregates' :
                               b.group = c.group => b.revision <= a.revision
    BY DEF HasLatest, Versions
  <2>2. version.revision <= version.revision
    BY <1>1
  <2>3. CASE \E d \in aggregates : d.group = c.group
    <3>1. PICK a \in aggregates :
            /\ a.group = c.group
            /\ \A b \in aggregates :
                 b.group = c.group => b.revision <= a.revision
      BY <2>3 DEF VersionsInv, HasLatest, Versions
    <3>2. CASE version.group = c.group /\ a.revision < version.revision
      <4>1. \A b \in aggregates :
              b.group = c.group => b.revision <= version.revision
        BY <1>1, <3>1, <3>2
      <4>2. QED
        BY <2>2, <3>2, <4>1
    <3>3. CASE version.group = c.group => version.revision <= a.revision
      BY <3>1, <3>3
    <3>4. QED
      BY <1>1, <3>2, <3>3
  <2>4. CASE ~ \E d \in aggregates : d.group = c.group
    BY <2>2, <2>4
  <2>5. QED
    BY <2>3, <2>4
<1>5. SourcesKnown'
  BY DEF VersionsInv, SourcesKnown, Group
<1>6. QED
  BY <1>1, <1>2, <1>3, <1>4, <1>5 DEF VersionsInv

\* The version that a run decided on is stored by a put, or was before it.
LEMMA DecidedVersion ==
  ASSUME AggregationInv, ClaimsP!ClaimsTypeOK,
         NEW w \in Workers, NEW g \in Groupings,
         NEW current \in aggregates \cup {NoRecord},
         current # NoRecord => current.group = g
  PROVE  LET version == VersionFor(w, g, current) IN
         /\ version \in AggregateVersion
         /\ version.group = g
         /\ version.sources = Members(run[w].scanned, g)
         /\ version # current =>
              /\ version.revision = NextRevision(current)
              /\ version.watermark = run[w].watermark
              /\ current # NoRecord => current.sources # version.sources
<1> DEFINE version == VersionFor(w, g, current)
           sources == Members(run[w].scanned, g)
<1>1. CASE current # NoRecord /\ current.sources = sources
  BY <1>1 DEF VersionFor, AggregationInv, VersionsInv
<1>2. CASE ~ (current # NoRecord /\ current.sources = sources)
  <2>1. run[w] \in RunRecord /\ now[w] \in Nat /\ Correlation[w] \in Nat
    BY AggregationAssumption DEF AggregationInv, ClaimsP!ClaimsTypeOK
  <2>2. NextRevision(current) \in Nat \ {0}
    BY DEF NextRevision, RevisionOf, AggregationInv, VersionsInv,
       AggregateVersion
  <2>3. sources \in SUBSET Events
    BY <2>1 DEF Members, RunRecord
  <2>4. version = [group |-> g, revision |-> NextRevision(current),
                   sources |-> sources, watermark |-> run[w].watermark,
                   created |-> now[w], correlation |-> Correlation[w]]
    BY <1>2 DEF VersionFor
  <2> HIDE DEF sources, version
  <2>5. version \in AggregateVersion
    BY <2>1, <2>2, <2>3, <2>4 DEF AggregateVersion, RunRecord, Groupings
  <2>6. QED
    BY <1>2, <2>4, <2>5 DEF version, sources
<1>3. QED
  BY <1>1, <1>2

\* What latest_aggregate returned for a group, as the run keeps it.
LEMMA PreviousIsStored ==
  ASSUME AggregationInv, NEW w \in Workers, NEW g
  PROVE  /\ Previous(w, g) \in aggregates \cup {NoRecord}
         /\ Previous(w, g) # NoRecord => Previous(w, g).group = g
BY DEF AggregationInv, RunInv, Previous

LEMMA PutAggregateKeepsInv ==
  ASSUME AggregationInv, ClaimsP!ClaimsTypeOK, NEW w \in Workers,
         PutAggregate(w)
  PROVE  AggregationInv'
<1> DEFINE g == FirstGroup(run[w].pending)
           current == Previous(w, g)
           version == VersionFor(w, g, current)
           step == IF run[w].pending = {g} THEN "advance" ELSE "put"
           pending == run[w].pending \ {g}
           r == [run[w] EXCEPT !.pending = pending, !.step = step]
<1>1. UNCHANGED <<clock, checkpointVars, events, ghostVars>>
  BY DEF PutAggregate, claimVars
<1>2. run[w] \in RunRecord /\ RunInv(w) /\ run[w].step = "put"
  BY DEF AggregationInv, PutAggregate
<1>3. CASE Finish(w) /\ aggregates' = aggregates
  BY <1>1, <1>2, <1>3, FinishEndsRun, LocalStep
  DEF AggregationInv, ghostVars, Body
<1>4. CASE /\ Storable(version)
           /\ aggregates' = aggregates \cup {version}
           /\ run' = [run EXCEPT
                ![w].pending = @ \ {g},
                ![w].step = IF run[w].pending = {g} THEN "advance" ELSE "put"]
  <2>1. g \in Groupings
    BY <1>2, LoopHasGroup
  <2>2. /\ current \in aggregates \cup {NoRecord}
        /\ current # NoRecord => current.group = g
    BY PreviousIsStored
  <2> HIDE DEF g, current
  <2>3. /\ version \in AggregateVersion
        /\ version.group = g
        /\ version.sources = Members(run[w].scanned, g)
        /\ version # current =>
              /\ version.revision = NextRevision(current)
              /\ version.watermark = run[w].watermark
              /\ current # NoRecord => current.sources # version.sources
    BY <2>1, <2>2, DecidedVersion
  <2> HIDE DEF version
  <2>4. VersionsInv'
    <3>1. CASE version = current
      <4>1. aggregates' = aggregates
        BY <1>4, <2>2, <2>3, <3>1, NoVersionAssumption
      <4>2. QED
        BY <1>1, <4>1, VersionsStay DEF AggregationInv
    <3>2. CASE version # current
      <4>1. /\ VersionsInv
            /\ current # NoRecord => current.revision \in Nat \ {0}
        BY <2>2 DEF AggregationInv, VersionsInv, AggregateVersion
      <4>2. version.revision > 1 =>
              \E b \in aggregates : /\ b.group = version.group
                                    /\ b.revision = version.revision - 1
        <5>1. CASE current = NoRecord
          BY <2>3, <3>2, <5>1 DEF NextRevision, RevisionOf
        <5>2. CASE current # NoRecord
          BY <2>2, <2>3, <3>2, <4>1, <5>2 DEF NextRevision, RevisionOf
        <5>3. QED
          BY <5>1, <5>2
      <4>3. ASSUME NEW a \in aggregates, a.group = version.group,
                   version.revision = a.revision + 1
            PROVE  a.sources # version.sources
        <5>1. a.revision \in Nat /\ a.revision > 0
          BY <4>1 DEF VersionsInv, AggregateVersion
        <5>2. current # NoRecord
          BY <2>3, <3>2, <4>3, <5>1 DEF NextRevision, RevisionOf
        <5>3. current.revision = a.revision
          BY <2>3, <3>2, <4>1, <4>3, <5>1, <5>2 DEF NextRevision, RevisionOf
        <5>4. a = current
          BY <2>2, <2>3, <4>1, <4>3, <5>2, <5>3 DEF VersionsInv, VersionChain
        <5>5. QED
          BY <2>3, <3>2, <5>2, <5>4
      <4>4. \A e \in version.sources : /\ e \in events
                                       /\ Group(e) = version.group
                                       /\ Start[e] < version.watermark
        BY <1>2, <2>3, <3>2 DEF RunInv, Members
      <4>5. QED
        BY <1>1, <1>4, <2>3, <4>1, <4>2, <4>3, <4>4, NewVersionKeepsInv
    <3>3. QED
      BY <3>1, <3>2
  <2>5. CheckpointsP!CheckpointsInv' /\ PromisedInv'
    <3>1. CheckpointsP!CheckpointsInv'
      BY <1>1, CheckpointsAssumptionHolds, CheckpointsP!StepKeepsInv
      DEF AggregationInv, CheckpointsP!checkpointVars, checkpointVars
    <3>2. PromisedInv'
      BY <1>1 DEF AggregationInv, PromisedInv, checkpointVars, ghostVars
    <3>3. QED
      BY <3>1, <3>2
  <2>6. /\ pending \in SUBSET Groupings /\ step \in {"advance", "put"}
        /\ pending \subseteq Groups(run[w].scanned)
        /\ step = "put" => pending # {}
        /\ run[w].scanned # {}
    BY <1>2, LoopHasGroup DEF g, RunInv, RunRecord, Groupings
  <2>7. run' = [run EXCEPT ![w] = r]
    BY <1>2, <1>4 DEF AggregationInv
  <2> HIDE DEF step, pending
  <2>8. /\ r.step = step /\ r.watermark = run[w].watermark
        /\ r.base = run[w].base /\ r.scanned = run[w].scanned
        /\ r.pending = pending /\ r.previous = run[w].previous
        /\ r.covers = run[w].covers
    BY <1>2 DEF RunRecord
  <2>9. r \in RunRecord
    BY <1>2, <2>6 DEF RunRecord, Steps, Body, Groupings
  <2> HIDE DEF r
  <2>10. run'[w] = r
    BY <2>7 DEF AggregationInv
  <2>11. RunInv(w)'
    BY <1>1, <1>2, <1>4, <2>6, <2>8, <2>10
    DEF RunInv, Based, ScanStart, Lookback, Groups, Group
  <2>12. QED
    BY <1>1, <1>4, <2>4, <2>5, <2>7, <2>9, <2>11, RunStep
    DEF AggregationInv, ghostVars, checkpointVars
<1>5. QED
  BY <1>3, <1>4 DEF PutAggregate

LEMMA AdvanceKeepsInv ==
  ASSUME AggregationInv, NEW w \in Workers, now[w] \in 0 .. MaxClock, Advance(w)
  PROVE  AggregationInv'
<1> DEFINE watermark == run[w].watermark
           r == [Idle EXCEPT !.step = "commit", !.watermark = watermark,
                             !.covers = run[w].covers]
<1>1. UNCHANGED <<clock, checkpoint, events, aggregates, ghostVars>>
  BY DEF Advance, claimVars, Checkpoints!AdvanceRead
<1>2. /\ run[w] \in RunRecord /\ RunInv(w) /\ run[w].step = "advance"
      /\ watermark \in Watermarks /\ InitialStart < watermark
  BY DEF AggregationInv, RunInv, Advance
<1>3. CheckpointsP!AdvanceRead(w, watermark, RevisionOf(run[w].base), now[w])
  BY DEF Advance, Checkpoints!AdvanceRead, CheckpointsP!AdvanceRead,
     Checkpoints!RevisionOf, CheckpointsP!RevisionOf,
     Checkpoints!MayFollow, CheckpointsP!MayFollow,
     Checkpoints!Updated, CheckpointsP!Updated,
     Checkpoints!NextRevision, CheckpointsP!NextRevision,
     Checkpoints!NextVersion, CheckpointsP!NextVersion,
     Checkpoints!NoAttempt, CheckpointsP!NoAttempt
<1>4. CheckpointsP!CheckpointsInv'
  BY <1>2, <1>3, CheckpointsAssumptionHolds, CheckpointsP!AdvanceReadKeepsInv
  DEF AggregationInv
<1>5. VersionsInv' /\ PromisedInv'
  BY <1>1, VersionsStay DEF AggregationInv, PromisedInv, ghostVars
<1>6. \A v \in Workers \ {w} : attempt'[v] = attempt[v]
  BY <1>3 DEF CheckpointsP!AdvanceRead, AggregationInv,
     CheckpointsP!CheckpointsInv, CheckpointsP!CheckpointsTypeOK
<1>7. CASE Finish(w)
  BY <1>1, <1>2, <1>4, <1>5, <1>6, <1>7, FinishEndsRun, RunStep
  DEF AggregationInv, ghostVars, Body
<1>8. CASE attempt'[w].status = "writing" /\ run' = [run EXCEPT ![w] = r]
  <2>1. attempt'[w].updated.watermark = watermark
    BY <1>3, <1>8 DEF CheckpointsP!AdvanceRead, CheckpointsP!NoAttempt,
       CheckpointsP!Updated, AggregationInv, CheckpointsP!CheckpointsInv,
       CheckpointsP!CheckpointsTypeOK
  <2>2. r \in RunRecord
    BY <1>2 DEF RunRecord, Idle, Steps, Body
  <2>3. /\ r.step = "commit" /\ r.watermark = watermark
        /\ r.scanned = {} /\ r.previous = {} /\ r.covers = run[w].covers
    BY DEF Idle
  <2>4. \A e \in run[w].covers : e \in events /\ Start[e] < watermark
    BY <1>2 DEF RunInv
  <2> HIDE DEF r
  <2>5. run'[w] = r
    BY <1>8 DEF AggregationInv
  <2>6. RunInv(w)'
    BY <1>1, <1>2, <1>8, <2>1, <2>3, <2>4, <2>5 DEF RunInv, Based
  <2>7. QED
    BY <1>1, <1>4, <1>5, <1>6, <1>8, <2>2, <2>6, RunStep
    DEF AggregationInv, ghostVars
<1>9. QED
  BY <1>7, <1>8 DEF Advance

\* What the write of a commit does to the checkpoint.
LEMMA CommitAdvances ==
  ASSUME CheckpointsP!CheckpointsInv, NEW w \in Workers,
         CheckpointsP!AdvanceWrite(w)
  PROVE  /\ checkpoint' \in {checkpoint, attempt[w].updated}
         /\ checkpoint # NoRecord =>
              checkpoint' # NoRecord /\ checkpoint.watermark <= checkpoint'.watermark
         /\ attempt'[w].status = "won" =>
              /\ checkpoint' # NoRecord
              /\ attempt[w].updated.watermark <= checkpoint'.watermark
         /\ \A v \in Workers \ {w} : attempt'[v] = attempt[v]
<1>1. /\ checkpoint \in CheckpointsP!CheckpointRecord \cup {NoRecord}
      /\ attempt \in [Workers -> CheckpointsP!AttemptRecord]
      /\ attempt[w].status = "writing"
      /\ attempt[w].updated \in CheckpointsP!CheckpointRecord
      /\ NoRecord \notin CheckpointsP!CheckpointRecord
  BY CheckpointsAssumptionHolds
  DEF CheckpointsP!CheckpointsInv, CheckpointsP!CheckpointsTypeOK,
      CheckpointsP!WriterInv, CheckpointsP!AdvanceWrite,
      CheckpointsP!CheckpointsAssumption
<1>2. \A record \in CheckpointsP!CheckpointRecord :
        record # NoRecord /\ record.watermark \in Nat
  BY <1>1 DEF CheckpointsP!CheckpointRecord
<1>3. CASE attempt[w].updated \in answered /\ checkpoint' = checkpoint
  <2>1. CheckpointsP!Reached(attempt[w].updated)
    BY <1>3 DEF CheckpointsP!CheckpointsInv, CheckpointsP!ReturnedInv,
       CheckpointsP!Returned
  <2>2. QED
    BY <1>1, <1>2, <1>3, <2>1
    DEF CheckpointsP!Reached, CheckpointsP!AdvanceWrite
<1>4. CASE /\ CheckpointsP!Accepts(checkpoint, attempt[w].read)
           /\ checkpoint' = attempt[w].updated
  <2>1. checkpoint # NoRecord =>
          checkpoint.watermark <= attempt[w].updated.watermark
    BY <1>1, <1>4, CheckpointsAssumptionHolds, CheckpointsP!AcceptedWriteSucceeds
  <2>2. attempt[w].updated # NoRecord /\ attempt[w].updated.watermark \in Nat
    BY <1>1, <1>2
  <2>3. QED
    BY <1>1, <1>4, <2>1, <2>2 DEF CheckpointsP!AdvanceWrite
<1>5. CASE /\ checkpoint' = checkpoint
           /\ attempt' = [attempt EXCEPT ![w].status = "refused"]
  <2>1. attempt'[w].status = "refused"
    BY <1>1, <1>5 DEF CheckpointsP!AttemptRecord
  <2>2. QED
    BY <1>1, <1>2, <1>5, <2>1 DEF CheckpointsP!AdvanceWrite
<1>6. \/ attempt[w].updated \in answered /\ checkpoint' = checkpoint
      \/ /\ CheckpointsP!Accepts(checkpoint, attempt[w].read)
         /\ checkpoint' = attempt[w].updated
      \/ /\ checkpoint' = checkpoint
         /\ attempt' = [attempt EXCEPT ![w].status = "refused"]
  BY DEF CheckpointsP!AdvanceWrite, CheckpointsP!Key
<1>7. QED
  BY <1>3, <1>4, <1>5, <1>6

LEMMA CommitIsWrite ==
  ASSUME NEW w \in Workers, Commit(w)
  PROVE  CheckpointsP!AdvanceWrite(w)
BY DEF Commit, Checkpoints!AdvanceWrite, CheckpointsP!AdvanceWrite,
   Checkpoints!Accepts, CheckpointsP!Accepts, Checkpoints!Key, CheckpointsP!Key

LEMMA CommitKeepsInv ==
  ASSUME AggregationInv, NEW w \in Workers, Commit(w)
  PROVE  AggregationInv'
<1>1. /\ UNCHANGED <<clock, events, aggregates, faults, crashed>>
      /\ Finish(w)
  BY DEF Commit, claimVars
<1>2. CheckpointsP!CheckpointsInv'
  BY CommitIsWrite, CheckpointsAssumptionHolds, CheckpointsP!AdvanceWriteKeepsInv
  DEF AggregationInv
<1>3. /\ checkpoint # NoRecord =>
           checkpoint' # NoRecord /\ checkpoint.watermark <= checkpoint'.watermark
      /\ attempt'[w].status = "won" =>
           /\ checkpoint' # NoRecord
           /\ attempt[w].updated.watermark <= checkpoint'.watermark
      /\ \A v \in Workers \ {w} : attempt'[v] = attempt[v]
  BY CommitIsWrite, CommitAdvances DEF AggregationInv
<1>4. \A record \in CheckpointsP!CheckpointRecord : record.watermark \in Nat
  BY DEF CheckpointsP!CheckpointRecord
<1>5. checkpoint # NoRecord => checkpoint.watermark \in Nat
  BY <1>4 DEF AggregationInv, CheckpointsP!CheckpointsInv,
     CheckpointsP!CheckpointsTypeOK
<1>6. checkpoint' # NoRecord => checkpoint'.watermark \in Nat
  BY <1>2, <1>4 DEF CheckpointsP!CheckpointsInv, CheckpointsP!CheckpointsTypeOK
<1>7. PromisedInv'
  <2>1. SUFFICES ASSUME NEW e \in promised'
                 PROVE  /\ e \in events
                        /\ checkpoint' # NoRecord
                        /\ Start[e] < checkpoint'.watermark
    BY <1>1 DEF PromisedInv
  <2>2. CASE e \in promised
    <3>1. /\ e \in events
          /\ checkpoint # NoRecord
          /\ Start[e] < checkpoint.watermark
      BY <2>2 DEF AggregationInv, PromisedInv
    <3>2. Start[e] \in Nat
      BY <3>1, GroupHasType DEF AggregationInv
    <3>3. QED
      BY <1>3, <1>5, <1>6, <3>1, <3>2
  <2>3. CASE e \in run[w].covers /\ attempt'[w].status = "won"
    <3>1. /\ e \in events
          /\ Start[e] < run[w].watermark
          /\ attempt[w].updated.watermark = run[w].watermark
      BY <2>3 DEF AggregationInv, RunInv, Commit
    <3>2. Start[e] \in Nat /\ run[w].watermark \in Nat
      BY <3>1, GroupHasType DEF AggregationInv, RunRecord
    <3>3. QED
      BY <1>3, <1>6, <2>3, <3>1, <3>2
  <2>4. QED
    BY <2>1, <2>2, <2>3 DEF Commit
<1>8. VersionsInv'
  BY <1>1, VersionsStay DEF AggregationInv
<1>9. run[w].step \in Body
  BY DEF Commit, Body
<1>10. QED
  BY <1>1, <1>2, <1>3, <1>7, <1>8, <1>9, FinishEndsRun, RunStep
  DEF AggregationInv

\* The process is done with its run, or died in it.
LEMMA ForgottenRun ==
  ASSUME AggregationInv, NEW w \in Workers, Checkpoints!Forget(w),
         run' = [run EXCEPT ![w] = Idle],
         UNCHANGED <<clock, events, aggregates, promised>>,
         faults' \in Nat, crashed' \subseteq Watermarks
  PROVE  AggregationInv'
<1>1. CheckpointsP!Forget(w)
  BY DEF Checkpoints!Forget, CheckpointsP!Forget, Checkpoints!NoAttempt,
     CheckpointsP!NoAttempt
<1>2. CheckpointsP!CheckpointsInv'
  BY <1>1, CheckpointsAssumptionHolds, CheckpointsP!ForgetKeepsInv
  DEF AggregationInv
<1>3. \A v \in Workers \ {w} : attempt'[v] = attempt[v]
  BY <1>1 DEF CheckpointsP!Forget, AggregationInv, CheckpointsP!CheckpointsInv,
     CheckpointsP!CheckpointsTypeOK
<1>4. VersionsInv' /\ PromisedInv'
  BY <1>1, VersionsStay DEF AggregationInv, PromisedInv, CheckpointsP!Forget
<1>5. QED
  BY <1>2, <1>3, <1>4, IdleEndsRun, RunStep DEF AggregationInv

LEMMA ReleaseKeepsInv ==
  ASSUME AggregationInv, NEW w \in Workers, Release(w)
  PROVE  AggregationInv'
<1>1. UNCHANGED <<clock, events, aggregates, ghostVars>>
  BY DEF Release, Claims!ReleaseRead, Claims!ReleaseWrite
<1>2. CASE run' = [run EXCEPT ![w] = Idle] /\ Checkpoints!Forget(w)
  BY <1>1, <1>2, ForgottenRun DEF AggregationInv, ghostVars
<1>3. CASE UNCHANGED <<run, checkpointVars>>
  <2>1. RunInv(w)'
    BY <1>1, <1>3, OthersStay DEF AggregationInv, checkpointVars
  <2>2. QED
    BY <1>1, <1>3, <2>1, LocalStep DEF AggregationInv, ghostVars
<1>4. QED
  BY <1>2, <1>3 DEF Release

LEMMA FailKeepsInv ==
  ASSUME AggregationInv, NEW w \in Workers, Fail(w)
  PROVE  AggregationInv'
<1>1. /\ UNCHANGED <<clock, checkpointVars, events, aggregates, crashed, promised>>
      /\ Finish(w) /\ run[w].step \in Body
      /\ faults' \in Nat
  BY DEF Fail, claimVars, AggregationInv
<1>2. QED
  BY <1>1, FinishEndsRun, LocalStep

LEMMA CrashKeepsInv ==
  ASSUME AggregationInv, NEW w \in Workers, Crash(w)
  PROVE  AggregationInv'
<1>1. run[w].watermark \in Watermarks
  BY DEF AggregationInv, RunInv, Crash
<1>2. faults' \in Nat /\ crashed' \subseteq Watermarks
  BY <1>1 DEF AggregationInv, Crash
<1>3. QED
  BY <1>2, ForgottenRun DEF Crash, Claims!AbandonRun

LEMMA RecordKeepsInv ==
  ASSUME AggregationInv, NEW e \in Events, Record(e)
  PROVE  AggregationInv'
<1>1. /\ UNCHANGED <<clock, checkpoint, answered, attempt, aggregates, run,
                     faults, crashed, promised>>
      /\ events' = events \cup {e}
  BY DEF Record, claimVars, checkpointVars, ghostVars
<1>2. IsFiniteSet(events')
  BY <1>1, FS_AddElement DEF AggregationInv
<1>3. VersionsInv' /\ PromisedInv'
  BY <1>1, VersionsStay DEF AggregationInv, PromisedInv
<1>4. CheckpointsP!CheckpointsInv'
  BY <1>1, CheckpointsAssumptionHolds, CheckpointsP!StepKeepsInv
  DEF AggregationInv, CheckpointsP!checkpointVars
<1>5. \A w \in Workers : RunInv(w)'
  BY <1>1, OthersStay DEF AggregationInv
<1>6. QED
  BY <1>1, <1>2, <1>3, <1>4, <1>5 DEF AggregationInv

LEMMA TickKeepsInv ==
  ASSUME AggregationInv, Tick
  PROVE  AggregationInv'
<1>1. /\ UNCHANGED <<checkpoint, answered, attempt, events, aggregates, run,
                     faults, crashed, promised>>
      /\ clock < MaxClock /\ clock' = clock + 1
  BY DEF Tick, Claims!Tick, checkpointVars, ghostVars
<1>2. clock' \in 0 .. MaxClock
  BY <1>1, ComponentsAssumption DEF AggregationInv, Claims!ClaimsAssumption
<1>3. CheckpointsP!CheckpointsInv' /\ VersionsInv' /\ PromisedInv'
  BY <1>1, StoredStays
<1>4. \A w \in Workers : RunInv(w)'
  BY <1>1, OthersStay DEF AggregationInv
<1>5. QED
  BY <1>1, <1>2, <1>3, <1>4 DEF AggregationInv

\* A run takes its time from a clock that does not go back.
LEMMA TimesAreBounded ==
  ASSUME AggregationInv, ClaimsP!ClaimsInv, NEW w \in Workers
  PROVE  now[w] \in 0 .. MaxClock
<1>1. now[w] \in Nat /\ now[w] <= clock /\ clock \in 0 .. MaxClock
  BY DEF AggregationInv, ClaimsP!ClaimsInv, ClaimsP!ClaimsTypeOK,
     ClaimsP!TimeInv
<1>2. MaxClock \in Nat
  BY ComponentsAssumption DEF Claims!ClaimsAssumption
<1>3. QED
  BY <1>1, <1>2

LEMMA StepKeepsInv ==
  ASSUME AggregationInv, ClaimsP!ClaimsInv, [Next]_vars
  PROVE  AggregationInv'
<1>1. CASE UNCHANGED vars
  <2>1. CheckpointsP!CheckpointsInv' /\ VersionsInv' /\ PromisedInv'
    BY <1>1, StoredStays DEF vars
  <2>2. \A w \in Workers : RunInv(w)'
    BY <1>1, OthersStay DEF AggregationInv, vars
  <2>3. QED
    BY <1>1, <2>1, <2>2 DEF AggregationInv, vars
<1>2. ASSUME NEW w \in Workers, NEW watermark \in Watermarks, Begin(w, watermark)
      PROVE  AggregationInv'
  BY <1>2, BeginKeepsInv
<1>3. ASSUME NEW w \in Workers, Proceed(w)
      PROVE  AggregationInv'
  <2>1. now[w] \in 0 .. MaxClock /\ ClaimsP!ClaimsTypeOK
    BY TimesAreBounded DEF ClaimsP!ClaimsInv
  <2>2. QED
    BY <1>3, <2>1, AcquireClaimKeepsInv, ReadCheckpointKeepsInv,
       ScanPageKeepsInv, ReadLatestKeepsInv, PutAggregateKeepsInv,
       AdvanceKeepsInv, CommitKeepsInv, ReleaseKeepsInv DEF Proceed
<1>4. ASSUME NEW w \in Workers, Fail(w) \/ Crash(w)
      PROVE  AggregationInv'
  BY <1>4, FailKeepsInv, CrashKeepsInv
<1>5. ASSUME NEW e \in Events, Record(e)
      PROVE  AggregationInv'
  BY <1>5, RecordKeepsInv
<1>6. CASE Tick
  BY <1>6, TickKeepsInv
<1>7. QED
  BY <1>1, <1>2, <1>3, <1>4, <1>5, <1>6 DEF Next

-----------------------------------------------------------------------------
(* What holds of every runner *)

\* The inductive invariant holds of every behavior.
THEOREM AggregationInvariance == Spec => [](AggregationInv /\ ClaimsP!ClaimsInv)
<1>1. Init => AggregationInv
  BY InitEstablishesInv
<1>2. AggregationInv /\ ClaimsP!ClaimsInv /\ [Next]_vars => AggregationInv'
  BY StepKeepsInv
<1>3. QED
  BY <1>1, <1>2, RunnerClaimsInv, PTL DEF Spec

\* The state of runs, versions, claim and checkpoint always has its types.
THEOREM TypeCorrect == Spec => []TypeOK
<1>1. AggregationInv /\ ClaimsP!ClaimsInv => TypeOK
  <2>1. ClaimsP!ClaimsTypeOK => Claims!ClaimsTypeOK
    BY DEF ClaimsP!ClaimsTypeOK, ClaimsP!ClaimRecord, ClaimsP!Phases,
       Claims!ClaimsTypeOK, Claims!ClaimRecord, Claims!Phases
  <2>2. CheckpointsP!CheckpointsTypeOK => Checkpoints!CheckpointsTypeOK
    BY DEF CheckpointsP!CheckpointsTypeOK, CheckpointsP!CheckpointRecord,
       CheckpointsP!AttemptRecord, CheckpointsP!Statuses,
       Checkpoints!CheckpointsTypeOK, Checkpoints!CheckpointRecord,
       Checkpoints!AttemptRecord, Checkpoints!Statuses
  <2>3. AggregationInv => promised \subseteq Events
    BY DEF AggregationInv, PromisedInv
  <2>4. QED
    BY <2>1, <2>2, <2>3 DEF TypeOK, AggregationInv, VersionsInv,
       ClaimsP!ClaimsInv, CheckpointsP!CheckpointsInv
<1>2. QED
  BY <1>1, AggregationInvariance, PTL

\* The versions of an aggregate form one gap-free chain, whatever overlaps,
\* crashes or is read late.
THEOREM VersionsFormChain == Spec => []VersionChain
<1>1. AggregationInv => VersionChain
  BY DEF AggregationInv, VersionsInv
<1>2. QED
  BY <1>1, AggregationInvariance, PTL

\* No version recounts the events of the one it supersedes.
THEOREM RecountsAddNothing == Spec => []NoRedundantRevision
<1>1. AggregationInv => NoRedundantRevision
  BY DEF AggregationInv, VersionsInv
<1>2. QED
  BY <1>1, AggregationInvariance, PTL

-----------------------------------------------------------------------------
(* Which run a step moves, and how far *)

LEMMA BeginMovesOne ==
  ASSUME AggregationInv, NEW w \in Workers, NEW watermark \in Watermarks,
         Begin(w, watermark)
  PROVE  /\ run[w].step = "off" /\ run'[w].step = "claim"
         /\ \A v \in Workers \ {w} : run'[v] = run[v]
<1>1. run \in [Workers -> RunRecord]
  BY DEF AggregationInv
<1>2. QED
  BY <1>1 DEF Begin, RunRecord

LEMMA ClaimMovesOne ==
  ASSUME AggregationInv, NEW w \in Workers, AcquireClaim(w)
  PROVE  /\ run[w].step = "claim"
         /\ phase'[w] = "idle" => run'[w] = Idle
         /\ phase'[w] = "held" => run'[w].step = "checkpoint"
         /\ phase'[w] \notin {"idle", "held"} => run'[w] = run[w]
         /\ \A v \in Workers \ {w} : run'[v] = run[v]
<1>1. run \in [Workers -> RunRecord]
  BY DEF AggregationInv
<1>2. QED
  BY <1>1 DEF AcquireClaim, RunRecord

\* The body of run(), which ends in the release of the claim.
BodyStep(w) ==
  \/ ReadCheckpoint(w)
  \/ ScanPage(w)
  \/ ReadLatest(w)
  \/ PutAggregate(w)
  \/ Advance(w)
  \/ Commit(w)
  \/ Fail(w)

LEMMA BodyMovesOne ==
  ASSUME AggregationInv, NEW w \in Workers, BodyStep(w)
  PROVE  /\ run[w].step \in Body
         /\ run'[w].step \in Body \cup {"release"}
         /\ \A v \in Workers \ {w} : run'[v] = run[v]
         /\ UNCHANGED claimVars
<1> DEFINE moved == /\ run[w].step \in Body
                    /\ run'[w].step \in Body \cup {"release"}
                    /\ \A v \in Workers \ {w} : run'[v] = run[v]
<1>1. run \in [Workers -> RunRecord] /\ run[w] \in RunRecord
  BY DEF AggregationInv
<1>2. ASSUME Finish(w), run[w].step \in Body PROVE moved
  BY <1>2, FinishEndsRun
<1>3. CASE ReadCheckpoint(w)
  BY <1>1, <1>2, <1>3 DEF ReadCheckpoint, Body, RunRecord
<1>4. CASE ScanPage(w)
  <2>1. CASE Finish(w)
    BY <1>2, <1>4, <2>1 DEF ScanPage, Body
  <2>2. CASE ~Finish(w)
    <3>1. PICK visible : run' = [run EXCEPT ![w] = PageRead(w, visible)]
      BY <1>4, <2>2, ScanPageReads
    <3>2. PageRead(w, visible).step \in {"scan", "advance", "latest"}
      BY <1>1, PageReadFields
    <3>3. QED
      BY <1>1, <1>4, <3>1, <3>2 DEF ScanPage, Body
  <2>3. QED
    BY <2>1, <2>2
<1>5. CASE ReadLatest(w)
  <2>1. PICK answer : run' = [run EXCEPT ![w] = LatestRead(w, answer)]
    BY <1>5, ReadLatestReads
  <2>2. LatestRead(w, answer).step \in {"latest", "put"}
    BY <1>1, LatestReadFields
  <2>3. QED
    BY <1>1, <1>5, <2>1, <2>2 DEF ReadLatest, Body
<1>6. CASE PutAggregate(w)
  BY <1>1, <1>2, <1>6 DEF PutAggregate, Body, RunRecord
<1>7. CASE Advance(w)
  BY <1>1, <1>2, <1>7 DEF Advance, Body, Idle
<1>8. CASE Commit(w)
  BY <1>2, <1>8 DEF Commit, Body
<1>9. CASE Fail(w)
  BY <1>2, <1>9 DEF Fail
<1>10. UNCHANGED claimVars
  BY DEF BodyStep, ReadCheckpoint, ScanPage, ReadLatest, PutAggregate,
     Advance, Commit, Fail
<1>11. QED
  BY <1>3, <1>4, <1>5, <1>6, <1>7, <1>8, <1>9, <1>10 DEF BodyStep

LEMMA ReleaseMovesOne ==
  ASSUME AggregationInv, NEW w \in Workers, Release(w)
  PROVE  /\ run[w].step = "release"
         /\ IF phase'[w] = "idle" THEN run'[w] = Idle ELSE run'[w] = run[w]
         /\ \A v \in Workers \ {w} : run'[v] = run[v]
BY DEF Release, AggregationInv

LEMMA CrashMovesOne ==
  ASSUME AggregationInv, NEW w \in Workers, Crash(w)
  PROVE  /\ run'[w] = Idle
         /\ \A v \in Workers \ {w} : run'[v] = run[v]
BY DEF Crash, AggregationInv

\* A retry that scans at least one tick behind its checkpoint is not turned
\* away for an empty window: only a checkpoint ahead of it stops it.
LEMMA WindowIsNotEmpty ==
  ASSUME AggregationInv, Lateness > 0, NEW w \in Workers,
         run[w].step = "checkpoint",
         ScanStart(checkpoint) >= run[w].watermark
  PROVE  checkpoint # NoRecord /\ checkpoint.watermark > run[w].watermark
<1>1. checkpoint \in CheckpointsP!CheckpointRecord \cup {NoRecord}
  BY DEF AggregationInv, CheckpointsP!CheckpointsInv,
     CheckpointsP!CheckpointsTypeOK
<1>2. /\ Lookback(checkpoint) \in Nat /\ ScanStart(checkpoint) \in Nat
      /\ ScanStart(checkpoint) <= Lookback(checkpoint)
  BY <1>1, ScanStartHasType
<1>3. /\ InitialStart \in Nat /\ Lateness \in Nat
      /\ run[w].watermark \in Nat /\ InitialStart < run[w].watermark
  BY AggregationAssumption DEF AggregationInv, RunInv, RunRecord
<1>4. checkpoint # NoRecord => checkpoint.watermark \in Nat
  BY <1>1 DEF CheckpointsP!CheckpointRecord
<1>5. Lookback(checkpoint) >= run[w].watermark
  BY <1>2, <1>3
<1>6. QED
  BY <1>3, <1>4, <1>5 DEF Lookback

\* With an allowed lateness, a run that repeats one that died is turned away
\* only by a checkpoint that has passed it.
THEOREM RetriesGoAhead == Lateness > 0 => (Spec => RetriesAreRun)
<1> DEFINE Taken ==
      \A w \in Workers :
         /\ run[w].step = "checkpoint" /\ run'[w].step = "release"
         /\ run[w].watermark \in crashed
         /\ faults' = faults
         => checkpoint # NoRecord /\ checkpoint.watermark > run[w].watermark
<1> SUFFICES ASSUME Lateness > 0 PROVE Spec => RetriesAreRun
  OBVIOUS
<1>1. ASSUME AggregationInv, [Next]_vars
      PROVE  [Taken]_vars
  <2>1. SUFFICES ASSUME Next, NEW w \in Workers, run[w].step = "checkpoint",
                        run'[w].step = "release", faults' = faults
                 PROVE  checkpoint # NoRecord /\ checkpoint.watermark > run[w].watermark
    BY <1>1
  <2>2. Idle.step = "off"
    BY DEF Idle
  <2>3. ASSUME NEW v \in Workers, BodyStep(v)
        PROVE  ReadCheckpoint(w) /\ Finish(w)
    <3>1. v = w
      BY <1>1, <2>1, <2>3, BodyMovesOne
    <3>2. ReadCheckpoint(w)
      <4>1. ~ (ScanPage(w) \/ ReadLatest(w) \/ PutAggregate(w))
        BY <2>1 DEF ScanPage, ReadLatest, PutAggregate
      <4>2. ~ (Advance(w) \/ Commit(w) \/ Fail(w))
        BY <1>1, <2>1 DEF Advance, Commit, Fail, AggregationInv
      <4>3. QED
        BY <2>3, <3>1, <4>1, <4>2 DEF BodyStep
    <3>3. Finish(w)
      BY <1>1, <2>1, <3>2 DEF ReadCheckpoint, AggregationInv, RunRecord
    <3>4. QED
      BY <3>2, <3>3
  <2>4. ReadCheckpoint(w) /\ Finish(w)
    <3>1. ASSUME NEW v \in Workers,
                 \/ \E watermark \in Watermarks : Begin(v, watermark)
                 \/ AcquireClaim(v) \/ Release(v) \/ Crash(v)
          PROVE  FALSE
      BY <1>1, <2>1, <2>2, <3>1, BeginMovesOne, ClaimMovesOne, ReleaseMovesOne,
         CrashMovesOne
    <3>2. ASSUME Tick \/ \E e \in Events : Record(e) PROVE FALSE
      BY <2>1, <3>2 DEF Tick, Record
    <3>3. QED
      BY <2>1, <2>3, <3>1, <3>2 DEF Next, Proceed, BodyStep
  <2>5. ~ (run' = [run EXCEPT ![w].step = "scan", ![w].base = checkpoint,
                    ![w].covers = {e \in events :
                                     /\ Lookback(checkpoint) <= Start[e]
                                     /\ Start[e] < run[w].watermark}])
    BY <1>1, <2>1 DEF AggregationInv, RunRecord
  <2>6. \/ checkpoint # NoRecord /\ run[w].watermark < checkpoint.watermark
        \/ ScanStart(checkpoint) >= run[w].watermark
    BY <2>4, <2>5 DEF ReadCheckpoint
  <2>7. CASE ScanStart(checkpoint) >= run[w].watermark
    BY <1>1, <2>1, <2>7, WindowIsNotEmpty
  <2>8. CASE checkpoint # NoRecord /\ run[w].watermark < checkpoint.watermark
    <3>1. run[w].watermark \in Nat /\ checkpoint.watermark \in Nat
      BY <1>1, <2>8 DEF AggregationInv, RunRecord, CheckpointsP!CheckpointsInv,
         CheckpointsP!CheckpointsTypeOK, CheckpointsP!CheckpointRecord
    <3>2. QED
      BY <2>8, <3>1
  <2>9. QED
    BY <2>6, <2>7, <2>8
<1>2. QED
  BY <1>1, AggregationInvariance, PTL DEF Spec, RetriesAreRun

-----------------------------------------------------------------------------
(* Runs that end within their leases exclude each other *)

LEMMA HoldStays ==
  ASSUME NEW w \in Workers, HoldInv(w), InTime(w),
         run'[w] = run[w], phase'[w] = phase[w], lease'[w] = lease[w],
         now'[w] = now[w], UNCHANGED clock
  PROVE  HoldInv(w)' /\ InTime(w)'
BY DEF HoldInv, InTime

\* The steps of one worker in its calls on the claim leave the others where
\* they are.
LEMMA ClaimCallsMoveOne ==
  ASSUME ClaimsP!ClaimsInv, NEW w \in Workers,
         \/ Claims!BeginAcquire(w) \/ Claims!AcquireRead(w)
         \/ Claims!AcquireWrite(w) \/ Claims!ReleaseRead(w)
         \/ Claims!ReleaseWrite(w) \/ Claims!AbandonRun(w)
  PROVE  /\ UNCHANGED clock
         /\ \A v \in Workers \ {w} :
              phase'[v] = phase[v] /\ lease'[v] = lease[v] /\ now'[v] = now[v]
<1> USE DEF ClaimsP!ClaimsInv, ClaimsP!ClaimsTypeOK, Claims!Leave
<1>1. CASE Claims!BeginAcquire(w)
  BY <1>1 DEF Claims!BeginAcquire
<1>2. CASE Claims!AcquireRead(w)
  BY <1>2 DEF Claims!AcquireRead
<1>3. CASE Claims!AcquireWrite(w)
  BY <1>3 DEF Claims!AcquireWrite
<1>4. CASE Claims!ReleaseRead(w)
  BY <1>4 DEF Claims!ReleaseRead
<1>5. CASE Claims!ReleaseWrite(w)
  BY <1>5 DEF Claims!ReleaseWrite
<1>6. CASE Claims!AbandonRun(w)
  BY <1>6 DEF Claims!AbandonRun
<1>7. QED
  BY <1>1, <1>2, <1>3, <1>4, <1>5, <1>6

\* What the calls do to the worker that makes them.
LEMMA OwnClaimCall ==
  ASSUME ClaimsP!ClaimsInv, NEW w \in Workers
  PROVE  /\ Claims!BeginAcquire(w) =>
              phase'[w] = "reading" /\ now'[w] = clock
         /\ Claims!AcquireRead(w) \/ Claims!AcquireWrite(w) =>
              \/ phase'[w] = "idle"
              \/ phase'[w] = "writing" /\ now'[w] = now[w]
              \/ /\ phase'[w] = "held" /\ now'[w] = now[w]
                 /\ lease'[w].expires = now[w] + LeaseDuration
         /\ Claims!ReleaseRead(w) \/ Claims!ReleaseWrite(w) =>
              phase'[w] \in {"idle", "releasing"}
         /\ Claims!AbandonRun(w) => phase'[w] = "idle"
<1> USE DEF ClaimsP!ClaimsInv, ClaimsP!ClaimsTypeOK, Claims!Leave
<1>1. Claims!BeginAcquire(w) => phase'[w] = "reading" /\ now'[w] = clock
  BY DEF Claims!BeginAcquire
<1>2. Claims!AcquireRead(w) =>
        \/ phase'[w] = "idle"
        \/ phase'[w] = "writing" /\ now'[w] = now[w]
  BY DEF Claims!AcquireRead
<1>3. Claims!AcquireWrite(w) =>
        \/ phase'[w] = "idle"
        \/ /\ phase'[w] = "held" /\ now'[w] = now[w]
           /\ lease'[w].expires = now[w] + LeaseDuration
  BY DEF Claims!AcquireWrite, Claims!Granted
<1>4. Claims!ReleaseRead(w) \/ Claims!ReleaseWrite(w) =>
        phase'[w] \in {"idle", "releasing"}
  BY DEF Claims!ReleaseRead, Claims!ReleaseWrite
<1>5. Claims!AbandonRun(w) => phase'[w] = "idle"
  BY DEF Claims!AbandonRun
<1>6. QED
  BY <1>1, <1>2, <1>3, <1>4, <1>5

LEMMA StepStaysInTime ==
  ASSUME AggregationInv, ClaimsP!ClaimsInv, ~Overrun, InTimeInv, [Next]_vars
  PROVE  InTimeInv'
<1>1. CASE UNCHANGED vars
  BY <1>1, HoldStays DEF InTimeInv, vars
<1>2. /\ clock \in Nat /\ LeaseDuration \in Nat /\ LeaseDuration > 0
      /\ \A w \in Workers : now[w] \in Nat
      /\ Idle.step = "off"
  BY ComponentsAssumption
  DEF ClaimsP!ClaimsInv, ClaimsP!ClaimsTypeOK, Claims!ClaimsAssumption, Idle
<1>3. ASSUME NEW w \in Workers, HoldInv(w)' /\ InTime(w)', UNCHANGED clock,
             \A v \in Workers \ {w} : /\ run'[v] = run[v]
                                      /\ phase'[v] = phase[v]
                                      /\ lease'[v] = lease[v]
                                      /\ now'[v] = now[v]
      PROVE  InTimeInv'
  <2>1. ASSUME NEW v \in Workers \ {w} PROVE HoldInv(v)' /\ InTime(v)'
    BY <1>3, HoldStays DEF InTimeInv
  <2>2. QED
    BY <1>3, <2>1 DEF InTimeInv
<1>4. ASSUME NEW w \in Workers, NEW watermark \in Watermarks, Begin(w, watermark)
      PROVE  InTimeInv'
  <2>1. Claims!BeginAcquire(w)
    BY <1>4 DEF Begin
  <2>2. run'[w].step = "claim" /\ phase'[w] = "reading" /\ now'[w] = clock
        /\ clock' = clock
    BY <1>4, <2>1, BeginMovesOne, OwnClaimCall, ClaimCallsMoveOne
  <2>3. HoldInv(w)' /\ InTime(w)'
    BY <1>2, <2>2 DEF HoldInv, InTime, Body
  <2>4. QED
    BY <1>3, <1>4, <2>1, <2>3, BeginMovesOne, ClaimCallsMoveOne
<1>5. ASSUME NEW w \in Workers, AcquireClaim(w)
      PROVE  InTimeInv'
  <2>1. Claims!AcquireRead(w) \/ Claims!AcquireWrite(w)
    BY <1>5 DEF AcquireClaim
  <2>2. /\ run[w].step = "claim" /\ InTime(w)
        /\ UNCHANGED clock
    BY <1>5, <2>1, ClaimCallsMoveOne, ClaimMovesOne DEF InTimeInv
  <2>3. HoldInv(w)' /\ InTime(w)'
    <3>1. CASE phase'[w] = "idle"
      BY <1>2, <1>5, <3>1, ClaimMovesOne DEF HoldInv, InTime, Body
    <3>2. CASE phase'[w] = "writing" /\ now'[w] = now[w]
      BY <1>5, <2>2, <3>2, ClaimMovesOne DEF HoldInv, InTime, Body
    <3>3. CASE /\ phase'[w] = "held" /\ now'[w] = now[w]
               /\ lease'[w].expires = now[w] + LeaseDuration
      BY <1>5, <2>2, <3>3, ClaimMovesOne DEF HoldInv, InTime, Body
    <3>4. QED
      BY <2>1, <3>1, <3>2, <3>3, OwnClaimCall
  <2>4. QED
    BY <1>3, <1>5, <2>1, <2>3, ClaimMovesOne, ClaimCallsMoveOne
<1>6. ASSUME NEW w \in Workers, BodyStep(w)
      PROVE  InTimeInv'
  <2>1. HoldInv(w) /\ InTime(w)
    BY DEF InTimeInv
  <2>2. HoldInv(w)' /\ InTime(w)'
    BY <1>6, <2>1, BodyMovesOne DEF HoldInv, InTime, Body, claimVars
  <2>3. QED
    BY <1>3, <1>6, <2>2, BodyMovesOne DEF claimVars
<1>7. ASSUME NEW w \in Workers, Release(w)
      PROVE  InTimeInv'
  <2>1. Claims!ReleaseRead(w) \/ Claims!ReleaseWrite(w)
    BY <1>7 DEF Release
  <2>2. phase'[w] \in {"idle", "releasing"}
    BY <2>1, OwnClaimCall
  <2>3. HoldInv(w)' /\ InTime(w)'
    BY <1>2, <1>7, <2>2, ReleaseMovesOne DEF HoldInv, InTime, Body
  <2>4. QED
    BY <1>3, <1>7, <2>1, <2>3, ReleaseMovesOne, ClaimCallsMoveOne
<1>8. ASSUME NEW w \in Workers, Crash(w)
      PROVE  InTimeInv'
  <2>1. Claims!AbandonRun(w)
    BY <1>8 DEF Crash
  <2>2. HoldInv(w)' /\ InTime(w)'
    BY <1>2, <1>8, <2>1, OwnClaimCall, CrashMovesOne DEF HoldInv, InTime, Body
  <2>3. QED
    BY <1>3, <1>8, <2>1, <2>2, CrashMovesOne, ClaimCallsMoveOne
<1>9. ASSUME NEW e \in Events, Record(e)
      PROVE  InTimeInv'
  BY <1>9, HoldStays DEF InTimeInv, Record, claimVars
<1>10. CASE Tick
  <2>1. /\ clock' = clock + 1
        /\ UNCHANGED <<run, phase, now, lease>>
        /\ \A w \in Workers : Fits(w)
    BY <1>10 DEF Tick, Claims!Tick
  <2>2. QED
    BY <2>1 DEF InTimeInv, HoldInv, InTime, Fits
<1>11. QED
  BY <1>1, <1>4, <1>5, <1>6, <1>7, <1>8, <1>9, <1>10
  DEF Next, Proceed, BodyStep

\* While every run ends within its lease, no two are in their bodies at once.
LEMMA InTimeExcludes ==
  ASSUME AggregationInv, ClaimsP!ClaimsInv, ClaimsP!LeaseExclusion, InTimeInv
  PROVE  OneRunAtATime
<1>1. ASSUME NEW w \in Workers, run[w].step \in Body
      PROVE  ClaimsP!Holding(w) /\ lease[w].expires > clock
  <2>1. /\ phase[w] = "held" /\ lease[w].expires = now[w] + LeaseDuration
        /\ clock < now[w] + LeaseDuration
    BY <1>1 DEF InTimeInv, HoldInv, InTime
  <2>2. clock \in Nat /\ now[w] \in Nat /\ LeaseDuration \in Nat
    BY ComponentsAssumption
    DEF ClaimsP!ClaimsInv, ClaimsP!ClaimsTypeOK, Claims!ClaimsAssumption
  <2>3. QED
    BY <2>1, <2>2 DEF ClaimsP!Holding
<1>2. QED
  BY <1>1 DEF OneRunAtATime, ClaimsP!LeaseExclusion

LEMMA InTimeInvariance == ~Overrun => (Spec => []InTimeInv)
<1> SUFFICES ASSUME ~Overrun PROVE Spec => []InTimeInv
  OBVIOUS
<1>1. Init => InTimeInv
  <2>1. SUFFICES ASSUME Init, NEW w \in Workers PROVE HoldInv(w) /\ InTime(w)
    BY DEF InTimeInv
  <2>2. run[w].step = "off" /\ phase[w] = "idle"
    BY <2>1 DEF Init, Claims!ClaimsInit, Idle
  <2>3. QED
    BY <2>2 DEF HoldInv, InTime, Body
<1>2. AggregationInv /\ ClaimsP!ClaimsInv /\ InTimeInv /\ [Next]_vars => InTimeInv'
  BY StepStaysInTime
<1>3. QED
  BY <1>1, <1>2, AggregationInvariance, PTL DEF Spec

\* Runs that end within their leases do not overlap, whoever crashes, retries
\* or restarts.
THEOREM RunsExclude == ~Overrun => (Spec => []OneRunAtATime)
<1> SUFFICES ASSUME ~Overrun PROVE Spec => []OneRunAtATime
  OBVIOUS
<1>1. AggregationInv /\ ClaimsP!ClaimsInv /\ ClaimsP!LeaseExclusion /\ InTimeInv
        => OneRunAtATime
  BY InTimeExcludes
<1>2. Spec => []InTimeInv
  BY InTimeInvariance
<1>3. QED
  BY <1>1, <1>2, AggregationInvariance, RunnerClaimsInv, PTL

-----------------------------------------------------------------------------
(* Lemmas on counting: what a run must scan, and what it stores *)

\* The next state of Latest, for a set of versions that stays.
LEMMA LatestStays ==
  ASSUME NEW g, Versions(g)' = Versions(g)
  PROVE  Latest(g)' = Latest(g)
BY DEF Latest

\* A group without a latest version has none at all.
LEMMA NoLatestNoVersion ==
  ASSUME AggregationInv, NEW g
  PROVE  /\ Latest(g) = NoRecord <=> Versions(g) = {}
         /\ Latest(g) # NoRecord => Latest(g) \in aggregates /\ Latest(g).group = g
<1>1. CASE Versions(g) = {}
  BY <1>1 DEF Latest
<1>2. CASE Versions(g) # {}
  <2>1. Latest(g) \in Versions(g)
    BY <1>2, LatestIsLast DEF AggregationInv
  <2>2. Latest(g) \in AggregateVersion
    BY <2>1 DEF Versions, AggregationInv, VersionsInv
  <2>3. QED
    BY <1>2, <2>1, <2>2, NoVersionAssumption DEF Versions
<1>3. QED
  BY <1>1, <1>2

\* A version added with the next revision is the latest of its group.
LEMMA NewVersionIsLatest ==
  ASSUME AggregationInv, NEW version \in AggregateVersion,
         NEW g, version.group = g,
         version.revision = NextRevision(Latest(g)),
         aggregates' = aggregates \cup {version}
  PROVE  /\ Latest(g)' = version
         /\ \A a \in Versions(g) : a.revision < version.revision
<1>1. version.revision \in Nat /\ \A a \in aggregates : a.revision \in Nat
  BY DEF AggregateVersion, AggregationInv, VersionsInv
<1>2. ASSUME NEW a \in Versions(g) PROVE a.revision < version.revision
  <2>1. /\ Latest(g) # NoRecord /\ Latest(g) \in aggregates
        /\ a.revision <= Latest(g).revision
    BY NoLatestNoVersion, LatestIsLast DEF AggregationInv
  <2>2. version.revision = Latest(g).revision + 1
    BY <2>1 DEF NextRevision, RevisionOf
  <2>3. QED
    BY <1>1, <2>1, <2>2 DEF Versions
<1>3. Versions(g)' = Versions(g) \cup {version}
  BY DEF Versions
<1>4. \A a \in Versions(g)' :
        (\A b \in Versions(g)' : a.revision >= b.revision) <=> a = version
  <2>1. \A a \in Versions(g) : a.revision \in Nat
    BY <1>1 DEF Versions
  <2>2. QED
    BY <1>1, <1>2, <1>3, <2>1
<1>5. Latest(g)' = version
  BY <1>3, <1>4 DEF Latest
<1>6. QED
  BY <1>2, <1>5

\* Whatever shares a window with a scanned event is not behind the scan.
LEMMA GroupIsInRange ==
  ASSUME AggregationInv, NEW w \in Workers, NEW e \in Events,
         Group(e) \in Groups(run[w].scanned)
  PROVE  ScanStart(run[w].base) <= Start[e]
<1>1. PICK f \in run[w].scanned : Group(f) = Group(e)
  BY DEF Groups
<1>2. /\ f \in Events /\ ScanStart(run[w].base) <= Start[f]
      /\ run[w].base \in CheckpointsP!CheckpointRecord \cup {NoRecord}
  BY DEF AggregationInv, RunInv, RunRecord, CheckpointsP!CheckpointRecord,
     Checkpoints!CheckpointRecord
<1>3. Lookback(run[w].base) \in Nat /\ ScanStart(run[w].base) \in Nat
  BY <1>2, ScanStartHasType
<1>4. /\ Start[e] \in Nat /\ Start[f] \in Nat
      /\ Bucket(Start[f]) = Bucket(Start[e])
      /\ Bucket(Start[e]) \in Nat /\ Bucket(Start[e]) <= Start[e]
  BY <1>1, <1>2, GroupHasType, BucketHasType
<1>5. ScanStart(run[w].base) <= Bucket(Start[f])
  BY <1>2, <1>3, <1>4, BucketIsAligned DEF ScanStart
<1>6. QED
  BY <1>3, <1>4, <1>5

\* A version of a scanned group, at no later watermark, has no event that the
\* run has not scanned.
LEMMA StoredEventsAreScanned ==
  ASSUME AggregationInv, NEW w \in Workers, Due(w) \subseteq run[w].scanned,
         NEW a \in aggregates, a.group \in Groups(run[w].scanned),
         a.watermark <= run[w].watermark
  PROVE  a.sources \subseteq Members(run[w].scanned, a.group)
<1>1. SUFFICES ASSUME NEW e \in a.sources
               PROVE  e \in run[w].scanned /\ Group(e) = a.group
  BY DEF Members
<1>2. /\ e \in events /\ e \in Events /\ Group(e) = a.group
      /\ Start[e] < a.watermark
  BY DEF AggregationInv, VersionsInv, SourcesKnown
<1>3. Start[e] < run[w].watermark
  <2>1. Start[e] \in Nat /\ a.watermark \in Nat /\ run[w].watermark \in Nat
    BY <1>2, GroupHasType
    DEF AggregationInv, RunRecord, VersionsInv, AggregateVersion
  <2>2. QED
    BY <1>2, <2>1
<1>4. e \in Due(w)
  BY <1>2, <1>3, GroupIsInRange DEF Due, InRange
<1>5. QED
  BY <1>2, <1>4

\* Neither has a checkpoint that the run is not behind promised any.
LEMMA PromisedEventsAreScanned ==
  ASSUME AggregationInv, NEW w \in Workers, Due(w) \subseteq run[w].scanned,
         checkpoint # NoRecord => checkpoint.watermark <= run[w].watermark,
         NEW e \in promised, Group(e) \in Groups(run[w].scanned)
  PROVE  e \in Members(run[w].scanned, Group(e))
<1>1. /\ e \in events /\ e \in Events /\ checkpoint # NoRecord
      /\ Start[e] < checkpoint.watermark
  BY DEF AggregationInv, PromisedInv
<1>2. Start[e] < run[w].watermark
  <2>1. Start[e] \in Nat /\ checkpoint.watermark \in Nat /\ run[w].watermark \in Nat
    BY <1>1, GroupHasType
    DEF AggregationInv, RunRecord, CheckpointsP!CheckpointsInv,
        CheckpointsP!CheckpointsTypeOK, CheckpointsP!CheckpointRecord
  <2>2. QED
    BY <1>1, <2>1
<1>3. e \in Due(w)
  BY <1>1, <1>2, GroupIsInRange DEF Due, InRange
<1>4. QED
  BY <1>3 DEF Members

\* The events of the scan window that one more page leaves unread come after it.
LEMMA PageKeepsDue ==
  ASSUME AggregationInv, NEW w \in Workers, NEW e \in events, InRange(w, e),
         e \in run[w].scanned \/ \A f \in run[w].scanned : Precedes(f, e)
  PROVE  LET scanned == run[w].scanned \cup Page(Rest(w, events)) IN
         /\ e \in scanned \/ \A f \in scanned : Precedes(f, e)
         /\ LastPage(Rest(w, events)) => e \in scanned
<1> DEFINE rest == Rest(w, events)
<1>1. CASE e \in run[w].scanned
  BY <1>1
<1>2. CASE \A f \in run[w].scanned : Precedes(f, e)
  <2>1. e \in rest
    BY <1>2 DEF Rest, InRange
  <2>2. rest \in SUBSET Events /\ IsFiniteSet(rest)
    BY FS_Subset DEF Rest, AggregationInv
  <2> HIDE DEF rest
  <2>3. e \notin Page(rest) => \A f \in Page(rest) : Precedes(f, e)
    BY <2>1, <2>2, PageIsFirst
  <2>4. QED
    BY <1>2, <2>1, <2>3 DEF LastPage, rest
<1>3. QED
  BY <1>1, <1>2

-----------------------------------------------------------------------------
(* One lemma per action: counting by runs that do not overlap *)

LEMMA NoCountOutside ==
  ASSUME NEW w \in Workers, run'[w].step \notin Body
  PROVE  CountInv(w)'
BY DEF CountInv, Body, Based

LEMMA CountStays ==
  ASSUME NEW w \in Workers, CountInv(w), run'[w] = run[w],
         UNCHANGED <<checkpoint, aggregates>>, Due(w)' \subseteq Due(w)
  PROVE  CountInv(w)'
<1>1. \A g : Versions(g)' = Versions(g)
  BY DEF Versions
<1>2. \A g : Latest(g)' = Latest(g)
  BY <1>1, LatestStays
<1>3. QED
  BY <1>1, <1>2
  DEF CountInv, Based, Previous, Stored, Members, Groups, Group

\* A step of worker w that stores no version and promises nothing.
LEMMA CountStep ==
  ASSUME CountingInv, NEW w \in Workers, UNCHANGED <<aggregates, promised>>,
         \A v \in Workers \ {w} : CountInv(v)', CountInv(w)'
  PROVE  CountingInv'
<1>1. \A g : Latest(g)' = Latest(g)
  BY DEF Latest, Versions
<1>2. RevisionsOnlyAdd' /\ PromisedEventsCounted'
  BY <1>1 DEF CountingInv, RevisionsOnlyAdd, PromisedEventsCounted, Group
<1>3. \A v \in Workers : CountInv(v)'
  OBVIOUS
<1>4. QED
  BY <1>2, <1>3 DEF CountingInv

\* While a run is in its body, no other is.
LEMMA OthersDoNotCount ==
  ASSUME AggregationInv, OneRunAtATime, NEW w \in Workers, BodyStep(w)
  PROVE  \A v \in Workers \ {w} : CountInv(v)'
<1>1. SUFFICES ASSUME NEW v \in Workers \ {w} PROVE run'[v].step \notin Body
  BY NoCountOutside
<1>2. run'[v] = run[v] /\ run[w].step \in Body
  BY BodyMovesOne
<1>3. QED
  BY <1>2 DEF OneRunAtATime

LEMMA ReadCheckpointCounts ==
  ASSUME AggregationInv, OneRunAtATime, CountingInv,
         NEW w \in Workers, ReadCheckpoint(w)
  PROVE  CountingInv'
<1>1. /\ UNCHANGED <<checkpoint, events, aggregates, promised>>
      /\ run[w] \in RunRecord /\ run \in [Workers -> RunRecord]
  BY DEF ReadCheckpoint, checkpointVars, ghostVars, AggregationInv
<1>2. CASE Finish(w)
  <2>1. run'[w].step \notin Body
    BY <1>2, FinishEndsRun DEF ReadCheckpoint, Body
  <2>2. QED
    BY <1>1, <2>1, NoCountOutside, OthersDoNotCount, CountStep DEF BodyStep
<1>3. CASE ~Finish(w)
  <2>1. /\ run[w].step = "checkpoint"
        /\ run' = [run EXCEPT
             ![w].step = "scan",
             ![w].base = checkpoint,
             ![w].covers = {e \in events : /\ Lookback(checkpoint) <= Start[e]
                                           /\ Start[e] < run[w].watermark}]
        /\ ~ (checkpoint # NoRecord /\ run[w].watermark < checkpoint.watermark)
    BY <1>3 DEF ReadCheckpoint
  <2>2. run[w].scanned = {} /\ run[w].previous = {}
    BY <2>1 DEF AggregationInv, RunInv
  <2>3. /\ run'[w].step = "scan" /\ run'[w].base = checkpoint
        /\ run'[w].scanned = {} /\ run'[w].previous = {}
        /\ run'[w].watermark = run[w].watermark
    BY <1>1, <2>1, <2>2 DEF RunRecord
  <2>4. checkpoint # NoRecord => checkpoint.watermark <= run[w].watermark
    BY <1>1, <2>1 DEF RunRecord, AggregationInv, CheckpointsP!CheckpointsInv,
       CheckpointsP!CheckpointsTypeOK, CheckpointsP!CheckpointRecord
  <2>5. CountInv(w)'
    BY <1>1, <2>3, <2>4 DEF CountInv, Based
  <2>6. QED
    BY <1>1, <2>5, OthersDoNotCount, CountStep DEF BodyStep
<1>4. QED
  BY <1>2, <1>3

LEMMA ScanPageCounts ==
  ASSUME AggregationInv, OneRunAtATime, CountingInv, ~EventualReads,
         NEW w \in Workers, ScanPage(w)
  PROVE  CountingInv'
<1>1. /\ UNCHANGED <<checkpoint, events, aggregates, promised>>
      /\ run[w] \in RunRecord /\ run[w].step = "scan"
  BY DEF ScanPage, checkpointVars, ghostVars, AggregationInv
<1>2. CASE Finish(w)
  <2>1. run'[w].step \notin Body
    BY <1>1, <1>2, FinishEndsRun DEF Body
  <2>2. QED
    BY <1>1, <2>1, NoCountOutside, OthersDoNotCount, CountStep DEF BodyStep
<1>3. CASE ~Finish(w)
  <2> DEFINE scanned == run[w].scanned \cup Page(Rest(w, events))
             last == LastPage(Rest(w, events))
             r == PageRead(w, events)
  <2>1. run'[w] = r
    BY <1>3, ScanPageReads
  <2>2. /\ r.scanned = scanned
        /\ ~last => r.step = "scan" /\ r.pending = {}
        /\ last => /\ r.pending = Groups(scanned)
                   /\ r.step = IF scanned = {} THEN "advance" ELSE "latest"
        /\ r.watermark = run[w].watermark /\ r.base = run[w].base
        /\ r.previous = run[w].previous /\ r.covers = run[w].covers
    BY <1>1, PageReadFields
  <2>3. /\ CountInv(w)
        /\ \A e \in Due(w) : e \in events /\ InRange(w, e)
    BY DEF CountingInv, Due
  <2>4. \A e \in Due(w) :
          /\ e \in scanned \/ \A f \in scanned : Precedes(f, e)
          /\ last => e \in scanned
    BY <1>1, <2>3, PageKeepsDue DEF CountInv
  <2> HIDE DEF r, scanned, last
  <2>5. Due(w)' = Due(w)
    BY <1>1, <2>1, <2>2 DEF Due, InRange, ScanStart, Lookback
  <2>6. r.step = "scan" => ~last
    BY <2>2
  <2>7. r.step # "scan" => last
    BY <2>2
  <2>8. \A g : Latest(g)' = Latest(g)
    BY <1>1 DEF Latest, Versions
  <2>9. r.step = "advance" => Groups(scanned) = {}
    BY <2>2 DEF Groups
  <2>10. CountInv(w)'
    <3>1. r.step \in {"scan", "latest", "advance"}
      BY <2>2
    <3>2. /\ r.base = checkpoint
          /\ checkpoint # NoRecord => checkpoint.watermark <= r.watermark
          /\ \A a \in r.previous : a = Latest(a.group)
      BY <1>1, <2>2, <2>3 DEF CountInv, Based
    <3>3. r.step # "scan" => Due(w) \subseteq r.scanned
      BY <2>2, <2>4, <2>7
    <3>4. r.step = "latest" => Groups(r.scanned) \ r.pending = {}
      BY <2>2, <2>7
    <3>5. r.step = "advance" => Groups(r.scanned) = {}
      BY <2>2, <2>9
    <3>6. \A e \in Due(w) :
            e \in r.scanned \/ \A f \in r.scanned : Precedes(f, e)
      BY <2>2, <2>4
    <3>7. QED
      BY <1>1, <2>1, <2>5, <2>8, <3>1, <3>2, <3>3, <3>4, <3>5, <3>6
      DEF CountInv, Based, Precedes, Groups, Group
  <2>11. QED
    BY <1>1, <2>10, OthersDoNotCount, CountStep DEF BodyStep
<1>4. QED
  BY <1>2, <1>3

LEMMA ReadLatestCounts ==
  ASSUME AggregationInv, OneRunAtATime, CountingInv, ~EventualReads,
         NEW w \in Workers, ReadLatest(w)
  PROVE  CountingInv'
<1> DEFINE g == FirstGroup(run[w].pending)
           r == LatestRead(w, Latest(g))
           all == Groups(run[w].scanned)
<1>1. /\ UNCHANGED <<checkpoint, events, aggregates, promised>>
      /\ run[w] \in RunRecord /\ run[w].step = "latest" /\ CountInv(w)
      /\ run[w].previous \subseteq aggregates
  BY DEF ReadLatest, checkpointVars, ghostVars, AggregationInv, CountingInv,
     RunInv
<1>2. run'[w] = r
  BY ReadLatestReads DEF LatestAnswers
<1>3. /\ r.previous = run[w].previous \cup ({Latest(g)} \ {NoRecord})
      /\ run[w].pending = {g} => r.step = "put" /\ r.pending = all
      /\ run[w].pending # {g} =>
              r.step = "latest" /\ r.pending = run[w].pending \ {g}
      /\ r.watermark = run[w].watermark /\ r.base = run[w].base
      /\ r.scanned = run[w].scanned /\ r.covers = run[w].covers
  BY <1>1, LatestReadFields
<1>4. /\ \A a \in run[w].previous : a = Latest(a.group)
      /\ \A h \in all \ run[w].pending :
           Versions(h) # {} => Latest(h) \in run[w].previous
      /\ Due(w) \subseteq run[w].scanned
      /\ run[w].base = checkpoint
      /\ checkpoint # NoRecord => checkpoint.watermark <= run[w].watermark
  BY <1>1 DEF CountInv, Based
<1> HIDE DEF r, g, all
<1>5. Latest(g) # NoRecord => Latest(g).group = g
  BY NoLatestNoVersion
<1>6. \A a \in r.previous : a = Latest(a.group)
  BY <1>3, <1>4, <1>5
<1>7. ASSUME NEW h \in all, h = g \/ h \notin run[w].pending, Versions(h) # {}
      PROVE  Latest(h) \in r.previous
  BY <1>3, <1>4, <1>7, NoLatestNoVersion
<1>8. r.step = "put" =>
        \A h \in all :
          LET read == {a \in r.previous : a.group = h} IN
          (IF read = {} THEN NoRecord ELSE CHOOSE a \in read : TRUE) = Latest(h)
  <2>1. SUFFICES ASSUME r.step = "put", NEW h \in all
                 PROVE  LET read == {a \in r.previous : a.group = h} IN
                        (IF read = {} THEN NoRecord
                         ELSE CHOOSE a \in read : TRUE) = Latest(h)
    OBVIOUS
  <2> DEFINE read == {a \in r.previous : a.group = h}
  <2>2. h = g \/ h \notin run[w].pending
    BY <1>3, <2>1
  <2>3. \A a \in read : a = Latest(h)
    BY <1>6
  <2>4. CASE Versions(h) = {}
    <3>1. read = {}
      <4>1. r.previous \subseteq aggregates
        BY <1>1, <1>3, NoLatestNoVersion
      <4>2. QED
        BY <2>4, <4>1 DEF Versions
    <3>2. QED
      BY <2>4, <3>1, NoLatestNoVersion
  <2>5. CASE Versions(h) # {}
    <3>1. Latest(h) \in r.previous /\ Latest(h).group = h
      BY <1>7, <2>2, <2>5, NoLatestNoVersion
    <3>2. Latest(h) \in read
      BY <3>1
    <3>3. QED
      BY <2>3, <3>2
  <2>6. QED
    BY <2>4, <2>5
<1>9. Due(w)' = Due(w)
  BY <1>1, <1>2, <1>3 DEF Due, InRange, ScanStart, Lookback
<1>10. \A h : Latest(h)' = Latest(h) /\ Versions(h)' = Versions(h)
  BY <1>1 DEF Latest, Versions
<1>11. CountInv(w)'
  <2>1. r.step \in {"latest", "put"}
    BY <1>3
  <2>2. r.step = "latest" =>
          \A h \in all \ r.pending : h = g \/ h \notin run[w].pending
    BY <1>3
  <2>3. r.step = "put" => all \ r.pending = {} /\ r.pending \subseteq all
    BY <1>3
  <2>4. \A h \in r.pending : r.step = "put" => Previous(w, h)' = Latest(h)
    BY <1>2, <1>8, <2>3 DEF Previous
  <2>5. /\ r.base = checkpoint
        /\ checkpoint # NoRecord => checkpoint.watermark <= r.watermark
        /\ Due(w) \subseteq r.scanned
    BY <1>3, <1>4
  <2>6. \A h \in all \ r.pending :
          r.step = "latest" /\ Versions(h) # {} => Latest(h) \in r.previous
    BY <1>7, <2>2
  <2>7. Groups(r.scanned) = all
    BY <1>3 DEF all
  <2>8. QED
    BY <1>1, <1>2, <1>6, <1>9, <1>10, <2>1, <2>3, <2>4, <2>5, <2>6, <2>7
    DEF CountInv, Based, Groups, Group
<1>12. QED
  BY <1>1, <1>11, OthersDoNotCount, CountStep DEF BodyStep

\* What a put that is not refused leaves behind: a latest version that stands
\* for what the run has scanned, under the groups it was not about.
LEMMA PutStoresLatest ==
  ASSUME AggregationInv, ClaimsP!ClaimsTypeOK, NEW w \in Workers,
         NEW g \in Groupings, Previous(w, g) = Latest(g),
         aggregates' = aggregates \cup {VersionFor(w, g, Previous(w, g))}
  PROVE  /\ Latest(g)' # NoRecord
         /\ (Latest(g)').sources = Members(run[w].scanned, g)
         /\ \A h : h # g => Latest(h)' = Latest(h)
         /\ \/ aggregates' = aggregates /\ Latest(g)' = Latest(g)
            \/ /\ aggregates' = aggregates \cup {Latest(g)'}
               /\ (Latest(g)').group = g
               /\ (Latest(g)').watermark = run[w].watermark
               /\ \A a \in Versions(g) : a.revision < (Latest(g)').revision
<1> DEFINE current == Latest(g)
<1>0. PICK version : version = VersionFor(w, g, current)
  OBVIOUS
<1>1. /\ current \in aggregates \cup {NoRecord}
      /\ current # NoRecord => current.group = g
  BY NoLatestNoVersion
<1>2. /\ version \in AggregateVersion
      /\ version.group = g
      /\ version.sources = Members(run[w].scanned, g)
      /\ version # current =>
           /\ version.revision = NextRevision(current)
           /\ version.watermark = run[w].watermark
  BY <1>0, <1>1, DecidedVersion
<1>3. aggregates' = aggregates \cup {version}
  BY <1>0
<1>4. version # NoRecord
  BY <1>2, NoVersionAssumption
<1>5. \A h : h # g => Latest(h)' = Latest(h)
  <2>1. \A h : h # g => Versions(h)' = Versions(h)
    BY <1>2, <1>3 DEF Versions
  <2>2. QED
    BY <2>1, LatestStays
<1>6. CASE version = current
  <2>1. aggregates' = aggregates
    BY <1>1, <1>3, <1>4, <1>6
  <2>2. Latest(g)' = Latest(g)
    <3>1. Versions(g)' = Versions(g)
      BY <2>1 DEF Versions
    <3>2. QED
      BY <3>1, LatestStays
  <2>3. QED
    BY <1>2, <1>4, <1>5, <1>6, <2>1, <2>2
<1>7. CASE version # current
  <2>1. /\ Latest(g)' = version
        /\ \A a \in Versions(g) : a.revision < version.revision
    BY <1>2, <1>3, <1>7, NewVersionIsLatest
  <2>2. QED
    BY <1>2, <1>3, <1>4, <1>5, <1>7, <2>1
<1>8. QED
  BY <1>6, <1>7

\* A run in its loop of puts, after one that is not refused.
LEMMA PutAggregateMoves ==
  ASSUME AggregationInv, NEW w \in Workers, PutAggregate(w),
         ~ (Finish(w) /\ UNCHANGED aggregates)
  PROVE  LET g == FirstGroup(run[w].pending)
             r == run'[w]
         IN
         /\ aggregates' = aggregates \cup {VersionFor(w, g, Previous(w, g))}
         /\ r.pending = run[w].pending \ {g}
         /\ r.step = IF run[w].pending = {g} THEN "advance" ELSE "put"
         /\ r.watermark = run[w].watermark /\ r.base = run[w].base
         /\ r.scanned = run[w].scanned /\ r.covers = run[w].covers
         /\ r.previous = run[w].previous
<1> DEFINE g == FirstGroup(run[w].pending)
<1>1. /\ aggregates' = aggregates \cup {VersionFor(w, g, Previous(w, g))}
      /\ run' = [run EXCEPT
           ![w].pending = @ \ {g},
           ![w].step = IF run[w].pending = {g} THEN "advance" ELSE "put"]
  BY DEF PutAggregate
<1>2. run \in [Workers -> RunRecord] /\ run[w] \in RunRecord
  BY DEF AggregationInv
<1> HIDE DEF g
<1>3. run'[w] = [run[w] EXCEPT
           !.pending = @ \ {g},
           !.step = IF run[w].pending = {g} THEN "advance" ELSE "put"]
  BY <1>1, <1>2
<1>4. QED
  BY <1>1, <1>2, <1>3 DEF RunRecord, g

LEMMA PutAggregateCounts ==
  ASSUME AggregationInv, ClaimsP!ClaimsTypeOK, OneRunAtATime, CountingInv,
         NEW w \in Workers, PutAggregate(w)
  PROVE  CountingInv'
<1> DEFINE all == Groups(run[w].scanned)
<1>1. /\ UNCHANGED <<checkpoint, events, promised>>
      /\ run[w] \in RunRecord /\ run[w].step = "put" /\ CountInv(w)
  BY DEF PutAggregate, checkpointVars, ghostVars, AggregationInv, CountingInv
<1>2. CASE Finish(w) /\ UNCHANGED aggregates
  <2>1. run'[w].step = "release"
    BY <1>1, <1>2, FinishEndsRun DEF Body
  <2>2. QED
    BY <1>1, <1>2, <2>1, NoCountOutside, OthersDoNotCount, CountStep
    DEF BodyStep, Body
<1>3. CASE ~ (Finish(w) /\ UNCHANGED aggregates)
  <2> DEFINE r == run'[w]
  <2>0. PICK g \in Groupings : g = FirstGroup(run[w].pending)
    BY <1>1, LoopHasGroup
  <2>1. /\ aggregates' = aggregates \cup {VersionFor(w, g, Previous(w, g))}
        /\ r.pending = run[w].pending \ {g}
        /\ r.step = IF run[w].pending = {g} THEN "advance" ELSE "put"
        /\ r.watermark = run[w].watermark /\ r.base = run[w].base
        /\ r.scanned = run[w].scanned /\ r.covers = run[w].covers
        /\ r.previous = run[w].previous
    BY <1>3, <2>0, PutAggregateMoves
  <2>2. /\ g \in run[w].pending /\ g \in all
        /\ run[w].pending \subseteq all
    BY <1>1, <2>0, LoopHasGroup DEF AggregationInv, RunInv
  <2>3. /\ Due(w) \subseteq run[w].scanned
        /\ run[w].base = checkpoint
        /\ checkpoint # NoRecord => checkpoint.watermark <= run[w].watermark
        /\ \A h \in run[w].pending : Previous(w, h) = Latest(h)
        /\ \A h \in all \ run[w].pending : Stored(w, h)
    BY <1>1 DEF CountInv, Based
  <2> HIDE DEF all
  <2>4. PICK new :
        /\ new = Latest(g)'
        /\ new # NoRecord
        /\ new.sources = Members(run[w].scanned, g)
        /\ \A h : h # g => Latest(h)' = Latest(h)
        /\ \/ aggregates' = aggregates /\ new = Latest(g)
           \/ /\ aggregates' = aggregates \cup {new}
              /\ new.group = g
              /\ new.watermark = run[w].watermark
              /\ \A a \in Versions(g) : a.revision < new.revision
    BY <2>1, <2>2, <2>3, PutStoresLatest
  <2>5. RevisionsOnlyAdd'
    <3>1. CASE aggregates' = aggregates
      BY <3>1 DEF CountingInv, RevisionsOnlyAdd
    <3>2. CASE /\ aggregates' = aggregates \cup {new}
               /\ new.group = g
               /\ new.watermark = run[w].watermark
               /\ \A a \in Versions(g) : a.revision < new.revision
      <4>1. SUFFICES ASSUME NEW a \in aggregates', NEW b \in aggregates',
                            a.group = b.group, a.revision < b.revision,
                            a.watermark <= b.watermark
                     PROVE  a.sources \subseteq b.sources
        BY DEF RevisionsOnlyAdd
      <4>2. CASE a \in aggregates /\ b \in aggregates
        BY <4>1, <4>2 DEF CountingInv, RevisionsOnlyAdd
      <4>3. CASE a \in aggregates /\ b = new
        BY <2>2, <2>3, <2>4, <3>2, <4>1, <4>3, StoredEventsAreScanned DEF all
      <4>4. CASE a = new /\ b \in aggregates
        <5>1. b.revision < a.revision
          BY <3>2, <4>1, <4>4 DEF Versions
        <5>2. b.revision \in Nat /\ a.revision \in Nat
          <6>1. VersionsInv'
            BY PutAggregateKeepsInv DEF AggregationInv
          <6>2. QED
            BY <6>1 DEF VersionsInv, AggregateVersion
        <5>3. QED
          BY <4>1, <5>1, <5>2
      <4>5. CASE a = b
        BY <4>5
      <4>6. QED
        BY <3>2, <4>2, <4>3, <4>4, <4>5
    <3>3. QED
      BY <2>4, <3>1, <3>2
  <2>6. PromisedEventsCounted'
    <3>1. SUFFICES ASSUME NEW e \in promised
                   PROVE  /\ Latest(Group(e))' # NoRecord
                          /\ e \in (Latest(Group(e))').sources
      BY <1>1 DEF PromisedEventsCounted, Group
    <3>2. CASE Group(e) = g
      BY <2>2, <2>3, <2>4, <3>2, PromisedEventsAreScanned DEF all
    <3>3. CASE Group(e) # g
      BY <2>4, <3>3 DEF CountingInv, PromisedEventsCounted
    <3>4. QED
      BY <3>2, <3>3
  <2>7. Due(w)' \subseteq Due(w) \cup run[w].scanned
    BY <1>1, <2>1, <2>4 DEF Due, InRange, ScanStart, Lookback, Members
  <2>8. \A h \in all : h = g \/ h \notin run[w].pending =>
          /\ Latest(h)' # NoRecord
          /\ (Latest(h)').sources = Members(run[w].scanned, h)
    BY <2>3, <2>4 DEF Stored
  <2>9. CountInv(w)'
    <3>1. r.step \in {"put", "advance"}
      BY <2>1
    <3>2. /\ r.base = checkpoint
          /\ checkpoint # NoRecord => checkpoint.watermark <= r.watermark
          /\ Due(w)' \subseteq r.scanned
      BY <2>1, <2>3, <2>7
    <3>3. r.step = "put" =>
            \A h \in r.pending : Previous(w, h)' = Latest(h)'
      BY <2>1, <2>3, <2>4 DEF Previous
    <3>4. r.step = "advance" => run[w].pending = {g}
      BY <2>1
    <3>5. \A h \in all : h \notin r.pending => h = g \/ h \notin run[w].pending
      BY <2>1
    <3>6. r.step = "advance" => r.pending = {}
      BY <2>1
    <3>7. \A h \in all : h \notin r.pending => Stored(w, h)'
      BY <2>1, <2>8, <3>5 DEF Stored, Members, Group
    <3>8. Groups(r.scanned) = all
      BY <2>1 DEF all
    <3>9. QED
      BY <1>1, <3>1, <3>2, <3>3, <3>6, <3>7, <3>8
      DEF CountInv, Based, Groups, Group
  <2>10. \A v \in Workers : CountInv(v)'
    BY <2>9, OthersDoNotCount DEF BodyStep
  <2>11. QED
    BY <2>5, <2>6, <2>10 DEF CountingInv
<1>4. QED
  BY <1>2, <1>3

LEMMA AdvanceCounts ==
  ASSUME AggregationInv, OneRunAtATime, CountingInv,
         NEW w \in Workers, Advance(w)
  PROVE  CountingInv'
<1>1. /\ UNCHANGED <<checkpoint, events, aggregates, promised>>
      /\ run[w] \in RunRecord /\ run[w].step = "advance" /\ CountInv(w)
      /\ RunInv(w)
  BY DEF Advance, Checkpoints!AdvanceRead, ghostVars, AggregationInv,
     CountingInv
<1>2. CASE Finish(w)
  <2>1. run'[w].step \notin Body
    BY <1>1, <1>2, FinishEndsRun DEF Body
  <2>2. QED
    BY <1>1, <2>1, NoCountOutside, OthersDoNotCount, CountStep DEF BodyStep
<1>3. CASE ~Finish(w)
  <2>1. run'[w].step = "commit" /\ run'[w].covers = run[w].covers
    BY <1>1, <1>3 DEF Advance, AggregationInv, Idle
  <2>2. ASSUME NEW e \in run[w].covers
        PROVE  Latest(Group(e)) # NoRecord /\ e \in Latest(Group(e)).sources
    <3>1. /\ e \in events
          /\ ScanStart(run[w].base) <= Start[e]
          /\ Start[e] < run[w].watermark
      BY <1>1 DEF RunInv, Based
    <3>2. e \in run[w].scanned
      BY <1>1, <3>1 DEF CountInv, Due, InRange
    <3>3. Stored(w, Group(e))
      BY <1>1, <3>2 DEF CountInv, Groups
    <3>4. QED
      BY <3>2, <3>3 DEF Stored, Members
  <2>3. \A e : Latest(Group(e))' = Latest(Group(e))
    BY <1>1 DEF Latest, Versions, Group
  <2>4. CountInv(w)'
    BY <2>1, <2>2, <2>3 DEF CountInv, Based, Group
  <2>5. QED
    BY <1>1, <2>4, OthersDoNotCount, CountStep DEF BodyStep
<1>4. QED
  BY <1>2, <1>3

LEMMA CommitCounts ==
  ASSUME AggregationInv, OneRunAtATime, CountingInv,
         NEW w \in Workers, Commit(w)
  PROVE  CountingInv'
<1>1. /\ UNCHANGED aggregates /\ Finish(w)
      /\ promised' \subseteq promised \cup run[w].covers
      /\ run[w].step = "commit" /\ CountInv(w)
  BY DEF Commit, CountingInv
<1>2. \A g : Latest(g)' = Latest(g)
  BY <1>1 DEF Latest, Versions
<1>3. PromisedEventsCounted'
  <2>1. \A e \in promised \cup run[w].covers :
          Latest(Group(e)) # NoRecord /\ e \in Latest(Group(e)).sources
    BY <1>1 DEF CountInv, CountingInv, PromisedEventsCounted
  <2>2. QED
    BY <1>1, <1>2, <2>1 DEF PromisedEventsCounted, Group
<1>4. RevisionsOnlyAdd'
  BY <1>1 DEF CountingInv, RevisionsOnlyAdd
<1>5. run'[w].step \notin Body
  BY <1>1, FinishEndsRun DEF Body
<1>6. \A v \in Workers : CountInv(v)'
  BY <1>5, NoCountOutside, OthersDoNotCount DEF BodyStep
<1>7. QED
  BY <1>3, <1>4, <1>6 DEF CountingInv

LEMMA FailCounts ==
  ASSUME AggregationInv, OneRunAtATime, CountingInv, NEW w \in Workers, Fail(w)
  PROVE  CountingInv'
<1>1. /\ UNCHANGED <<aggregates, promised>>
      /\ Finish(w) /\ run[w].step \in Body
  BY DEF Fail
<1>2. run'[w].step \notin Body
  BY <1>1, FinishEndsRun DEF Body
<1>3. QED
  BY <1>1, <1>2, NoCountOutside, OthersDoNotCount, CountStep DEF BodyStep

\* Beginning, claiming, releasing and dying store and promise nothing.
LEMMA OtherStepsCount ==
  ASSUME AggregationInv, CountingInv, NEW w \in Workers,
         \/ \E watermark \in Watermarks : Begin(w, watermark)
         \/ AcquireClaim(w) \/ Release(w) \/ Crash(w)
  PROVE  CountingInv'
<1>1. /\ UNCHANGED <<checkpoint, events, aggregates, promised>>
      /\ \A v \in Workers \ {w} : run'[v] = run[v]
  <2>1. UNCHANGED <<checkpoint, events, aggregates, promised>>
    BY DEF Begin, AcquireClaim, Release, Crash, Checkpoints!Forget,
       checkpointVars, ghostVars
  <2>2. QED
    BY <2>1, BeginMovesOne, ClaimMovesOne, ReleaseMovesOne, CrashMovesOne
<1>2. ASSUME NEW v \in Workers, run'[v] = run[v] PROVE CountInv(v)'
  <2>1. Due(v)' \subseteq Due(v)
    BY <1>1, <1>2 DEF Due, InRange, ScanStart, Lookback
  <2>2. QED
    BY <1>1, <1>2, <2>1, CountStays DEF CountingInv
<1>3. CountInv(w)'
  <2>1. CASE run'[w] = run[w]
    BY <1>2, <2>1
  <2>2. CASE run'[w] # run[w]
    <3>1. Idle.step = "off" /\ "off" \notin Body /\ "claim" \notin Body
      BY DEF Idle, Body
    <3>2. CASE run'[w].step = "checkpoint"
      BY <3>2 DEF CountInv, Based
    <3>3. CASE run'[w].step # "checkpoint"
      <4>1. run'[w].step \notin Body
        BY <2>2, <3>1, <3>3, BeginMovesOne, ClaimMovesOne, ReleaseMovesOne,
           CrashMovesOne
      <4>2. QED
        BY <4>1, NoCountOutside
    <3>4. QED
      BY <3>2, <3>3
  <2>3. QED
    BY <2>1, <2>2
<1>4. QED
  BY <1>1, <1>2, <1>3, CountStep

\* An event recorded late is due to no run until one has scanned it.
LEMMA RecordCounts ==
  ASSUME AggregationInv, CountingInv, NEW e \in Events, Record(e)
  PROVE  CountingInv'
<1>1. /\ UNCHANGED <<checkpoint, aggregates, promised, run>>
      /\ events' = events \cup {e} /\ e \notin events
  BY DEF Record, checkpointVars, ghostVars
<1>2. ASSUME NEW w \in Workers PROVE CountInv(w)'
  <2>1. \A d \in promised \cup run[w].covers : d \in events
    BY DEF AggregationInv, PromisedInv, RunInv
  <2>2. \A a \in aggregates : \A d \in a.sources : d \in events
    BY DEF AggregationInv, VersionsInv, SourcesKnown
  <2>3. Due(w)' \subseteq Due(w)
    BY <1>1, <2>1, <2>2 DEF Due, InRange, ScanStart, Lookback
  <2>4. QED
    BY <1>1, <2>3, CountStays DEF CountingInv
<1>3. \A g : Latest(g)' = Latest(g)
  BY <1>1 DEF Latest, Versions
<1>4. QED
  BY <1>1, <1>2, <1>3
  DEF CountingInv, RevisionsOnlyAdd, PromisedEventsCounted, Group

LEMMA StepCounts ==
  ASSUME AggregationInv, ClaimsP!ClaimsInv, OneRunAtATime, ~EventualReads,
         CountingInv, [Next]_vars
  PROVE  CountingInv'
<1>1. ASSUME UNCHANGED <<checkpoint, events, aggregates, promised, run>>
      PROVE  CountingInv'
  <2>1. ASSUME NEW w \in Workers PROVE CountInv(w)'
    <3>1. Due(w)' \subseteq Due(w)
      BY <1>1 DEF Due, InRange, ScanStart, Lookback
    <3>2. QED
      BY <1>1, <3>1, CountStays DEF CountingInv
  <2>2. \A g : Latest(g)' = Latest(g)
    BY <1>1 DEF Latest, Versions
  <2>3. QED
    BY <1>1, <2>1, <2>2
    DEF CountingInv, RevisionsOnlyAdd, PromisedEventsCounted, Group
<1>2. CASE UNCHANGED vars \/ Tick
  BY <1>1, <1>2 DEF vars, Tick, checkpointVars, ghostVars
<1>3. ASSUME NEW w \in Workers,
             \/ \E watermark \in Watermarks : Begin(w, watermark)
             \/ Proceed(w) \/ Fail(w) \/ Crash(w)
      PROVE  CountingInv'
  BY <1>3, OtherStepsCount, ReadCheckpointCounts, ScanPageCounts,
     ReadLatestCounts, PutAggregateCounts, AdvanceCounts, CommitCounts,
     FailCounts DEF Proceed, ClaimsP!ClaimsInv
<1>4. ASSUME NEW e \in Events, Record(e)
      PROVE  CountingInv'
  BY <1>4, RecordCounts
<1>5. QED
  BY <1>2, <1>3, <1>4 DEF Next

LEMMA CountingInvariance ==
  ~Overrun /\ ~EventualReads => (Spec => []CountingInv)
<1> SUFFICES ASSUME ~Overrun, ~EventualReads PROVE Spec => []CountingInv
  OBVIOUS
<1>1. Init => CountingInv
  <2>1. SUFFICES ASSUME Init PROVE CountingInv
    OBVIOUS
  <2>2. \A w \in Workers : run[w].step = "off"
    BY <2>1 DEF Init, Idle
  <2>3. \A w \in Workers : CountInv(w)
    BY <2>2 DEF CountInv, Based
  <2>4. QED
    BY <2>1, <2>3
    DEF Init, CountingInv, RevisionsOnlyAdd, PromisedEventsCounted
<1>2. /\ AggregationInv /\ ClaimsP!ClaimsInv /\ OneRunAtATime
      /\ CountingInv /\ [Next]_vars
      => CountingInv'
  BY StepCounts
<1>3. Spec => []OneRunAtATime
  BY RunsExclude
<1>4. QED
  BY <1>1, <1>2, <1>3, AggregationInvariance, PTL DEF Spec

\* With strong queries, and runs that end within their leases, a version that
\* supersedes another at no earlier watermark keeps all its events.
THEOREM LateDataOnlyAdds ==
  ~Overrun /\ ~EventualReads => (Spec => []RevisionsOnlyAdd)
<1> SUFFICES ASSUME ~Overrun, ~EventualReads PROVE Spec => []RevisionsOnlyAdd
  OBVIOUS
<1>1. CountingInv => RevisionsOnlyAdd
  BY DEF CountingInv
<1>2. Spec => []CountingInv
  BY CountingInvariance
<1>3. QED
  BY <1>1, <1>2, PTL

\* Under the same conditions no event within the lookback of a run that has
\* advanced the checkpoint is ever missing from the latest version of its group.
THEOREM PromisesAreKept ==
  ~Overrun /\ ~EventualReads => (Spec => []PromisedEventsCounted)
<1> SUFFICES ASSUME ~Overrun, ~EventualReads
             PROVE  Spec => []PromisedEventsCounted
  OBVIOUS
<1>1. CountingInv => PromisedEventsCounted
  BY DEF CountingInv
<1>2. Spec => []CountingInv
  BY CountingInvariance
<1>3. QED
  BY <1>1, <1>2, PTL

\* The watermark of a runner's checkpoint never moves back, whatever runs
\* overlap, and its revision counts every change.
THEOREM RunnerCheckpointAdvances == Spec => CheckpointsP!WatermarkNeverRegresses
<1> DEFINE Forward ==
      checkpoint' # checkpoint =>
        /\ checkpoint' # NoRecord
        /\ checkpoint'.revision = CheckpointsP!RevisionOf(checkpoint) + 1
        /\ checkpoint # NoRecord =>
             checkpoint'.watermark >= checkpoint.watermark
<1>1. ASSUME AggregationInv, [Next]_vars, checkpoint' # checkpoint
      PROVE  /\ checkpoint' # NoRecord
             /\ checkpoint'.revision = CheckpointsP!RevisionOf(checkpoint) + 1
             /\ checkpoint # NoRecord =>
                  checkpoint'.watermark >= checkpoint.watermark
  <2>1. PICK w \in Workers : Commit(w)
    BY <1>1 DEF Next, Proceed, Begin, AcquireClaim, ReadCheckpoint, ScanPage,
       ReadLatest, PutAggregate, Advance, Release, Fail, Crash, Record, Tick,
       vars, checkpointVars, Checkpoints!AdvanceRead, Checkpoints!Forget
  <2>2. /\ CheckpointsP!AdvanceWrite(w)
        /\ CheckpointsP!CheckpointsInv
        /\ CheckpointsP!CheckpointsAssumption
    BY <1>1, <2>1, CommitIsWrite, CheckpointsAssumptionHolds DEF AggregationInv
  <2>3. /\ attempt[w].status = "writing"
        /\ CheckpointsP!Accepts(checkpoint, attempt[w].read)
        /\ checkpoint' = attempt[w].updated
    BY <1>1, <2>2 DEF CheckpointsP!AdvanceWrite
  <2>4. /\ attempt[w].updated \in CheckpointsP!CheckpointRecord
        /\ attempt[w].updated.revision = CheckpointsP!RevisionOf(checkpoint) + 1
        /\ checkpoint # NoRecord =>
             checkpoint.watermark <= attempt[w].updated.watermark
    BY <2>2, <2>3, CheckpointsP!AcceptedWriteSucceeds
  <2>5. /\ attempt[w].updated # NoRecord
        /\ checkpoint # NoRecord =>
             checkpoint.watermark \in Nat /\ attempt[w].updated.watermark \in Nat
    BY <2>2, <2>4 DEF CheckpointsP!CheckpointsAssumption,
       CheckpointsP!CheckpointsInv, CheckpointsP!CheckpointsTypeOK,
       CheckpointsP!CheckpointRecord
  <2>6. QED
    BY <2>3, <2>4, <2>5
<1>2. AggregationInv /\ [Next]_vars => [Forward]_(CheckpointsP!checkpointVars)
  BY <1>1
<1>3. QED
  BY <1>2, AggregationInvariance, PTL
  DEF Spec, CheckpointsP!WatermarkNeverRegresses

-----------------------------------------------------------------------------
(* What is promised of claims and checkpoints holds of the runner's *)

\* The runner's claim behaves as a lease with a deadline: it is granted only
\* when it is free or has run out, and ends early only by its holder.
THEOREM RunnerClaimIsLease == Spec => ClaimsP!ClaimIsLease
BY RunnerClaims, ClaimsAssumptionHolds, ClaimsP!ClaimsRefineLease, PTL

\* Two workers never hold leases in force at once, and a lease in force is the
\* stored claim, whatever a run outlives and wherever a process died.
THEOREM RunnerLeasesExclude ==
  Spec => [](ClaimsP!LeaseExclusion /\ ClaimsP!LeaseInForceIsStored)
BY RunnerClaims, ClaimsAssumptionHolds, ClaimsP!LeasesExclude,
   ClaimsP!LeasesInForceAreStored, PTL

\* Runs that advanced the checkpoint from the same revision were returned the
\* same record, and what a run was returned is stored or has been replaced by
\* a later checkpoint with no earlier watermark.
THEOREM RunnerCheckpointsAgree ==
  Spec => [](CheckpointsP!WinnersAgree /\ CheckpointsP!WonIsDurable)
<1>1. CheckpointsP!CheckpointsInv
        => CheckpointsP!WinnersAgree /\ CheckpointsP!WonIsDurable
  BY DEF CheckpointsP!CheckpointsInv, CheckpointsP!ReturnedInv,
     CheckpointsP!Returned, CheckpointsP!Reached, CheckpointsP!Won,
     CheckpointsP!WinnersAgree, CheckpointsP!WonIsDurable
<1>2. AggregationInv
        => CheckpointsP!WinnersAgree /\ CheckpointsP!WonIsDurable
  BY <1>1 DEF AggregationInv
<1>3. QED
  BY <1>2, AggregationInvariance, PTL

-----------------------------------------------------------------------------
(* Aggregate versions are immutable *)

\* A version stands only for recorded events of its own window and dimensions
\* that start before the watermark of the run that made it.
THEOREM VersionsCountRecordedEvents == Spec => []SourcesKnown
<1>1. AggregationInv => SourcesKnown
  BY DEF AggregationInv, VersionsInv
<1>2. QED
  BY <1>1, AggregationInvariance, PTL

\* The identity of a version: its aggregate and its revision.
VersionKeys == [group : Groupings, revision : Nat \ {0}]

StoredAt(k) ==
  {a \in aggregates : a.group = k.group /\ a.revision = k.revision}

VersionAt(k) ==
  IF StoredAt(k) = {} THEN NoRecord ELSE CHOOSE a \in StoredAt(k) : TRUE

VersionMap == [k \in VersionKeys |-> VersionAt(k)]

VersionFacts == INSTANCE WriteOnce WITH
  Keys <- VersionKeys, Facts <- AggregateVersion, NoFact <- NoRecord,
  facts <- VersionMap

\* A step stores nothing, or one version under a revision that was free.
LEMMA StepStoresVersion ==
  ASSUME AggregationInv, ClaimsP!ClaimsInv, [Next]_vars,
         aggregates' # aggregates
  PROVE  \E version \in AggregateVersion :
           /\ Storable(version)
           /\ version \notin aggregates
           /\ aggregates' = aggregates \cup {version}
<1>1. PICK w \in Workers : PutAggregate(w)
  <2>1. ASSUME NEW w \in Workers,
               \/ AcquireClaim(w) \/ ReadCheckpoint(w) \/ ScanPage(w)
               \/ ReadLatest(w) \/ Advance(w) \/ Commit(w) \/ Release(w)
               \/ Fail(w) \/ Crash(w)
               \/ \E watermark \in Watermarks : Begin(w, watermark)
        PROVE  UNCHANGED aggregates
    BY <2>1, Zenon DEF Begin, AcquireClaim, ReadCheckpoint, ScanPage,
       ReadLatest, Advance, Commit, Release, Fail, Crash
  <2>2. (\E e \in Events : Record(e)) \/ Tick \/ UNCHANGED vars
          => UNCHANGED aggregates
    BY DEF Record, Tick, vars
  <2>3. QED
    BY <2>1, <2>2 DEF Next, Proceed
<1> DEFINE g == FirstGroup(run[w].pending)
           version == VersionFor(w, g, Previous(w, g))
<1>2. Storable(version) /\ aggregates' = aggregates \cup {version}
  BY <1>1 DEF PutAggregate
<1>3. run[w] \in RunRecord /\ RunInv(w) /\ run[w].step = "put"
  BY <1>1 DEF AggregationInv, PutAggregate
<1>4. g \in Groupings
  BY <1>3, LoopHasGroup
<1>5. /\ Previous(w, g) \in aggregates \cup {NoRecord}
      /\ Previous(w, g) # NoRecord => Previous(w, g).group = g
  BY PreviousIsStored
<1>6. version \in AggregateVersion
  BY <1>4, <1>5, DecidedVersion DEF ClaimsP!ClaimsInv
<1> HIDE DEF version
<1>7. QED
  BY <1>2, <1>6

\* Such a step gives one identity its version and leaves all others alone.
LEMMA NewVersionIsWritten ==
  ASSUME NEW version \in AggregateVersion, Storable(version),
         version \notin aggregates, aggregates' = aggregates \cup {version}
  PROVE  \E k \in VersionKeys : VersionFacts!Write(k, version)
<1> DEFINE key == [group |-> version.group, revision |-> version.revision]
<1>1. /\ key \in VersionKeys
      /\ key.group = version.group /\ key.revision = version.revision
  BY DEF AggregateVersion, VersionKeys, Groupings
<1> HIDE DEF key
<1>2. StoredAt(key) = {}
  BY <1>1 DEF StoredAt, Storable
<1>3. StoredAt(key)' = {version}
  BY <1>1, <1>2 DEF StoredAt
<1>4. VersionAt(key) = NoRecord /\ VersionAt(key)' = version
  BY <1>2, <1>3 DEF VersionAt
<1>5. ASSUME NEW k \in VersionKeys, k # key
      PROVE  VersionAt(k)' = VersionAt(k)
  <2>1. k.group # version.group \/ k.revision # version.revision
    BY <1>1, <1>5 DEF VersionKeys
  <2>2. StoredAt(k)' = StoredAt(k)
    BY <2>1 DEF StoredAt
  <2>3. QED
    BY <2>2 DEF VersionAt
<1>6. VersionMap[key] = NoRecord
  BY <1>1, <1>4 DEF VersionMap
<1>7. VersionMap' = [VersionMap EXCEPT ![key] = version]
  BY <1>4, <1>5 DEF VersionMap
<1>8. QED
  BY <1>1, <1>6, <1>7 DEF VersionFacts!Write

\* The aggregate versions implement a map that is written once: no version is
\* changed, replaced or removed, whatever runs at the same time, dies between
\* two puts or has read an old version as the latest.
THEOREM VersionsRefineWriteOnce == Spec => VersionFacts!WriteOnceSpec
<1>1. Init => VersionFacts!Init
  <2>1. Init => \A k \in VersionKeys : VersionAt(k) = NoRecord
    BY DEF Init, VersionAt, StoredAt
  <2>2. QED
    BY <2>1 DEF VersionFacts!Init, VersionMap
<1>2. AggregationInv /\ ClaimsP!ClaimsInv /\ [Next]_vars
        => [\E k \in VersionKeys, f \in AggregateVersion :
              VersionFacts!Write(k, f)]_VersionMap
  <2>1. SUFFICES ASSUME AggregationInv, ClaimsP!ClaimsInv, [Next]_vars
                 PROVE  \/ VersionMap' = VersionMap
                        \/ \E k \in VersionKeys, f \in AggregateVersion :
                             VersionFacts!Write(k, f)
    OBVIOUS
  <2>2. CASE aggregates' = aggregates
    BY <2>2 DEF VersionMap, VersionAt, StoredAt
  <2>3. CASE aggregates' # aggregates
    BY <2>1, <2>3, StepStoresVersion, NewVersionIsWritten
  <2>4. QED
    BY <2>2, <2>3
<1>3. QED
  BY <1>1, <1>2, AggregationInvariance, PTL
  DEF Spec, VersionFacts!WriteOnceSpec

\* No event is counted in two windows or under two sets of dimensions.
EventsCountOnce ==
  \A a, b \in aggregates : \A e \in a.sources :
    e \in b.sources => a.group = b.group

\* An event that two versions stand for is in one aggregate, whose later version
\* supersedes the other: no total of another window or other dimensions has it.
THEOREM EventsCountInOneGroup == Spec => []EventsCountOnce
<1>1. SourcesKnown => EventsCountOnce
  BY DEF SourcesKnown, EventsCountOnce
<1>2. QED
  BY <1>1, VersionsCountRecordedEvents, PTL
=============================================================================
