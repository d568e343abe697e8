----------------------------- MODULE UsageClaims -----------------------------
(***************************************************************************)
(* The aggregation claim of one scope and claim_id: acquire_claim and      *)
(* release_claim of repository.py, called by concurrent workers.  Each     *)
(* call reads the stored claim and then writes it conditionally, and other *)
(* workers, the clock and crashes may come between the two.  Workers have  *)
(* distinct owner names; a worker that restarts keeps its name.            *)
(***************************************************************************)
EXTENDS UsageStore

CONSTANTS LeaseDuration,  \* expires_at - now in every acquire_claim
          MaxClock,       \* bound of the clock
          MaxRevision     \* bound: no acquire starts once the claim is there

ClaimRecord ==
  [owner : Workers, expires : Nat, revision : Nat \ {0}, version : Nat]

ASSUME ClaimsAssumption ==
  /\ LeaseDuration \in Nat \ {0}
  /\ MaxClock \in Nat
  /\ MaxRevision \in Nat
  /\ NoRecord \notin ClaimRecord
  /\ NoRecord \notin Workers

VARIABLES clock,   \* the time every caller's "now" is taken from
          claim,   \* the stored record
          phase,   \* where each worker is in its calls
          now,     \* the "now" argument of each worker's current run
          seen,    \* the record the current call has read
          lease    \* what acquire_claim returned

claimVars == <<clock, claim, phase, now, seen, lease>>

Phases == {"idle", "reading", "writing", "held", "releasing"}

ClaimsTypeOK ==
  /\ clock \in Nat
  /\ claim \in ClaimRecord \cup {NoRecord}
  /\ phase \in [Workers -> Phases]
  /\ now \in [Workers -> Nat]
  /\ seen \in [Workers -> ClaimRecord \cup {NoRecord}]
  /\ lease \in [Workers -> ClaimRecord \cup {NoRecord}]

ClaimsInit ==
  /\ clock = 0
  /\ claim = NoRecord
  /\ phase = [w \in Workers |-> "idle"]
  /\ now = [w \in Workers |-> 0]
  /\ seen = [w \in Workers |-> NoRecord]
  /\ lease = [w \in Workers |-> NoRecord]

\* The call returns or raises, or the process dies: nothing local survives.
Leave(w) ==
  /\ phase' = [phase EXCEPT ![w] = "idle"]
  /\ now' = [now EXCEPT ![w] = 0]
  /\ seen' = [seen EXCEPT ![w] = NoRecord]
  /\ lease' = [lease EXCEPT ![w] = NoRecord]

\* The caller takes the time before anything is read.
BeginAcquire(w) ==
  /\ phase[w] = "idle"
  /\ RevisionOf(claim) < MaxRevision
  /\ phase' = [phase EXCEPT ![w] = "reading"]
  /\ now' = [now EXCEPT ![w] = clock]
  /\ UNCHANGED <<clock, claim, seen, lease>>

\* A mutation: a claim is taken over one tick early.
ClaimableEarly(record, w, time) ==
  record # NoRecord => record.expires <= time + 1 \/ record.owner = w

\* A mutation: a claim is never taken over.
ClaimableByOwner(record, w, time) == record # NoRecord => record.owner = w

\* Whether worker w may claim over the record it has read.
Claimable(record, w, time) ==
  record # NoRecord => record.expires <= time \/ record.owner = w

AcquireRead(w) ==
  /\ phase[w] = "reading"
  /\ \/ /\ Claimable(claim, w, now[w])
        /\ phase' = [phase EXCEPT ![w] = "writing"]
        /\ seen' = [seen EXCEPT ![w] = claim]
        /\ UNCHANGED <<now, lease>>
     \/ /\ ~Claimable(claim, w, now[w])      \* ClaimUnavailable
        /\ Leave(w)
  /\ UNCHANGED <<clock, claim>>

Granted(w) ==
  [owner    |-> w,
   expires  |-> now[w] + LeaseDuration,
   revision |-> NextRevision(seen[w]),
   version  |-> NextVersion(seen[w])]

AcquireWrite(w) ==
  /\ phase[w] = "writing"
  /\ \/ /\ Accepts(claim, seen[w])
        /\ claim' = Granted(w)
        /\ lease' = [lease EXCEPT ![w] = Granted(w)]
        /\ phase' = [phase EXCEPT ![w] = "held"]
        /\ seen' = [seen EXCEPT ![w] = NoRecord]
        /\ UNCHANGED now
     \/ /\ ~Accepts(claim, seen[w])          \* ClaimUnavailable
        /\ Leave(w)
        /\ UNCHANGED claim
  /\ UNCHANGED clock

\* A mutation: release trusts the lease it holds and not the stored claim.
IsOwnUnchecked(record, held) == record # NoRecord

\* Whether the stored claim is still the one acquire_claim returned.
IsOwn(record, held) ==
  /\ record # NoRecord
  /\ record.revision = held.revision
  /\ record.owner = held.owner

ReleaseRead(w) ==
  /\ phase[w] = "held"
  /\ \/ /\ IsOwn(claim, lease[w])
        /\ phase' = [phase EXCEPT ![w] = "releasing"]
        /\ seen' = [seen EXCEPT ![w] = claim]
        /\ UNCHANGED <<now, lease>>
     \/ /\ ~IsOwn(claim, lease[w])           \* ClaimUnavailable
        /\ Leave(w)
  /\ UNCHANGED <<clock, claim>>

\* The released claim stays stored under its owner and expires at once.
Released(w) ==
  [owner    |-> lease[w].owner,
   expires  |-> now[w],
   revision |-> lease[w].revision + 1,
   version  |-> NextVersion(seen[w])]

ReleaseWrite(w) ==
  /\ phase[w] = "releasing"
  /\ claim' = IF Accepts(claim, seen[w]) THEN Released(w) ELSE claim
  /\ Leave(w)
  /\ UNCHANGED clock

\* The process dies, or a store call raises, anywhere between two steps.
AbandonRun(w) ==
  /\ phase[w] # "idle"
  /\ Leave(w)
  /\ UNCHANGED <<clock, claim>>

Tick ==
  /\ clock < MaxClock
  /\ clock' = clock + 1
  /\ UNCHANGED <<claim, phase, now, seen, lease>>

ClaimsStep(w) ==
  \/ BeginAcquire(w)
  \/ AcquireRead(w)
  \/ AcquireWrite(w)
  \/ ReleaseRead(w)
  \/ ReleaseWrite(w)
  \/ AbandonRun(w)

ClaimsNext == Tick \/ \E w \in Workers : ClaimsStep(w)

ClaimsSpec == ClaimsInit /\ [][ClaimsNext]_claimVars

-----------------------------------------------------------------------------
Holding(w) == phase[w] \in {"held", "releasing"}

\* No two workers hold a claim that has not run out yet: the "one aggregation
\* run at a time" that the runner relies on.  Each of the holders took its
\* time, read and wrote in separate steps.
LeaseExclusion ==
  \A w, v \in Workers :
    /\ Holding(w) /\ lease[w].expires > clock
    /\ Holding(v) /\ lease[v].expires > clock
    => w = v

\* A claim in force is the stored one: nobody has overwritten, renewed or
\* released it behind its holder's back, so that its own release will be
\* accepted.
LeaseInForceIsStored ==
  \A w \in Workers :
    Holding(w) /\ lease[w].expires > clock => claim = lease[w]

\* The stored claim, read as an abstract lease.
Lease == INSTANCE TimedLease WITH
  NoHolder <- NoRecord,
  holder <- IF claim = NoRecord THEN NoRecord ELSE claim.owner,
  until <- IF claim = NoRecord THEN 0 ELSE claim.expires

\* The stored claim behaves as a lease: it changes hands only after it has
\* run out, and a stale owner neither renews nor releases a newer claim.
ClaimIsLease == Lease!LeaseSpec
=============================================================================
