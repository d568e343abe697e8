---------------------------- MODULE UsageWindows ----------------------------
(***************************************************************************)
(* The time of metering: half-open windows (UsageWindow of models.py), the *)
(* activity of the versions of one meter (MeterV1), the windows of events  *)
(* that they accept, and the aligned windows that events are counted in.   *)
(* An instant is a number of microseconds since the epoch, before which it *)
(* is negative.                                                            *)
(***************************************************************************)
EXTENDS Integers, FiniteSets

CONSTANTS Instants,
          Versions,    \* of the meter
          NoVersion,   \* a version that is not registered
          Never,       \* the retirement of a version that is not retired
          Tolerance,   \* event_time_tolerance, a whole number of seconds
          Size,        \* the width of an aggregation window
          MaxAccepted  \* bound of the events accepted

ASSUME WindowsAssumption ==
  /\ Instants \subseteq Int
  /\ Never \notin Int
  /\ Tolerance \in Nat
  /\ Size \in Nat \ {0}

\* UsageWindow.__post_init__
Window == {w \in [start : Instants, end : Instants] : w.start < w.end}

\* retired_at must follow active_from.
Activity ==
  {a \in [from : Instants, retired : Instants \cup {Never}] :
     a.retired \in Int => a.from < a.retired}

ASSUME NoVersionAssumption == NoVersion \notin Activity

VARIABLES versions,  \* the activity of each registered version
          accepted   \* the events accepted: version, window and recording time

windowVars == <<versions, accepted>>

Accepted == [version : Versions, at : Instants,
             window : [start : Instants, end : Instants]]

WindowsTypeOK ==
  /\ versions \in [Versions -> Activity \cup {NoVersion}]
  /\ accepted \subseteq Accepted
  /\ \A e \in accepted :
       versions[e.version] # NoVersion /\ e.window.start < e.window.end

WindowsInit ==
  /\ versions = [v \in Versions |-> NoVersion]
  /\ accepted = {}

-----------------------------------------------------------------------------
WindowContains(w, t) == w.start <= t /\ t < w.end

Overlaps(w, x) == w.start < x.end /\ x.start < w.end

\* UsageWindow.bucket: floor division, on both sides of the epoch.
Bucket(t) == [start |-> t - (t % Size), end |-> t - (t % Size) + Size]

IsActive(a, t) == a.from <= t /\ (a.retired \in Int => t < a.retired)

\* A mutation: only the start of the window is looked at.
AcceptsWindowStart(a, w) == IsActive(a, w.start)

AcceptsWindow(a, w) ==
  /\ IsActive(a, w.start)
  /\ a.retired \in Int => w.end <= a.retired

\* validate_event_time: the window may end after the event was recorded by no
\* more than the tolerance.
EventTimeValid(w, at) == w.end - at <= Tolerance

Register(v, activity) ==
  /\ versions[v] = NoVersion
  /\ versions' = [versions EXCEPT ![v] = activity]
  /\ UNCHANGED accepted

\* normalized() raises InactiveMeter or InvalidUsage for all other events.
Accept(v, w, at) ==
  /\ Cardinality(accepted) < MaxAccepted
  /\ versions[v] # NoVersion
  /\ AcceptsWindow(versions[v], w)
  /\ EventTimeValid(w, at)
  /\ accepted' = accepted \cup {[version |-> v, window |-> w, at |-> at]}
  /\ UNCHANGED versions

WindowsNext ==
  \E v \in Versions :
    \/ \E activity \in Activity : Register(v, activity)
    \/ \E w \in Window, at \in Instants : Accept(v, w, at)

WindowsSpec == WindowsInit /\ [][WindowsNext]_windowVars

-----------------------------------------------------------------------------
\* Whatever was used in the window of an accepted event was used while the
\* version was active, from its first instant to its last.
ActiveThroughout ==
  \A e \in accepted : \A t \in Instants :
    WindowContains(e.window, t) => IsActive(versions[e.version], t)

\* No instant is active in both.
Disjoint(a, b) == \A t \in Instants : ~(IsActive(a, t) /\ IsActive(b, t))

\* A meter is handed over from one version to the next without a gap or an
\* overlap in between: what happened at one time is never counted under both.
NeverCountedTwice ==
  \A e, f \in accepted :
    Disjoint(versions[e.version], versions[f.version]) =>
      ~Overlaps(e.window, f.window)

\* Every event is counted in one aggregation window and in no other, on both
\* sides of the epoch.
CountedInOneWindow ==
  \A e \in accepted : \A t \in Instants :
    /\ WindowContains(Bucket(e.window.start), e.window.start)
    /\ WindowContains(Bucket(t), e.window.start) =>
         Bucket(t) = Bucket(e.window.start)

\* Metering is a partition of what is used, by version and by window.
CountedOnce ==
  /\ ActiveThroughout
  /\ NeverCountedTwice
  /\ CountedInOneWindow
=============================================================================
