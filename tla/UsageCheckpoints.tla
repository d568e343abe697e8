--------------------------- MODULE UsageCheckpoints ---------------------------
(***************************************************************************)
(* The watermark checkpoint of one scope and checkpoint_id:                *)
(* get_checkpoint and advance_checkpoint of repository.py, called          *)
(* concurrently.  advance_checkpoint reads the stored checkpoint, compares *)
(* it with the revision its caller expects and writes it conditionally.    *)
(*                                                                         *)
(* The write carries an idempotency key, and the Meridian runtime may      *)
(* answer a request whose key it remembers with the earlier success        *)
(* instead of executing it.  The key of a state write is the fingerprint   *)
(* of the whole expression: its data and the version it expects, that is,  *)
(* the record the write would leave behind.                                *)
(***************************************************************************)
EXTENDS UsageStore

CONSTANTS Times,          \* the watermarks and update times callers pass
          MaxCheckpoints  \* bound: no advance starts beyond this revision

CheckpointRecord ==
  [watermark : Nat, revision : Nat \ {0}, updated : Nat, version : Nat]

ASSUME CheckpointsAssumption ==
  /\ Times \subseteq Nat
  /\ MaxCheckpoints \in Nat
  /\ RuntimeReplays \in BOOLEAN
  /\ NoRecord \notin CheckpointRecord

VARIABLES checkpoint,  \* the stored record
          answered,    \* the keys of accepted writes that the runtime remembers
          attempt      \* each worker's current or last advance_checkpoint

checkpointVars == <<checkpoint, answered, attempt>>

\* "won" is a call that returned, "refused" one that raised.
Statuses == {"none", "writing", "won", "refused"}

NoAttempt == [status |-> "none", read |-> NoRecord, updated |-> NoRecord]

AttemptRecord ==
  [status  : Statuses,
   read    : CheckpointRecord \cup {NoRecord},  \* what the call has read
   updated : CheckpointRecord \cup {NoRecord}]  \* what it writes or returned

CheckpointsTypeOK ==
  /\ checkpoint \in CheckpointRecord \cup {NoRecord}
  /\ answered \subseteq CheckpointRecord
  /\ attempt \in [Workers -> AttemptRecord]

CheckpointsInit ==
  /\ checkpoint = NoRecord
  /\ answered = {}
  /\ attempt = [w \in Workers |-> NoAttempt]

\* A mutation: the key names the record and not the transition.
KeyOfIdentity(record) == [record EXCEPT !.watermark = 0, !.revision = 1,
                                        !.updated = 0, !.version = 0]

\* The idempotency key of the write that leaves this record behind.
Key(record) == record

Updated(read, watermark, time) ==
  [watermark |-> watermark,
   revision  |-> NextRevision(read),
   updated   |-> time,
   version   |-> NextVersion(read)]

\* A mutation: any watermark may follow any other.
MayFollowAlways(record, watermark) == TRUE

\* Watermarks do not move backward.
MayFollow(record, watermark) ==
  record # NoRecord => watermark >= record.watermark

AdvanceRead(w, watermark, expected, time) ==
  /\ attempt[w].status # "writing"
  /\ attempt' = [attempt EXCEPT ![w] =
       IF RevisionOf(checkpoint) = expected /\ MayFollow(checkpoint, watermark)
       THEN [status |-> "writing", read |-> checkpoint,
             updated |-> Updated(checkpoint, watermark, time)]
       ELSE [NoAttempt EXCEPT !.status = "refused"]]
  /\ UNCHANGED <<checkpoint, answered>>

\* The runtime executes the write, or answers it from memory.
AdvanceWrite(w) ==
  LET updated == attempt[w].updated IN
  /\ attempt[w].status = "writing"
  /\ \/ /\ RuntimeReplays
        /\ Key(updated) \in answered
        /\ attempt' = [attempt EXCEPT ![w].status = "won"]
        /\ UNCHANGED <<checkpoint, answered>>
     \/ /\ Accepts(checkpoint, attempt[w].read)
        /\ Key(updated) \notin answered
        /\ checkpoint' = updated
        /\ answered' = IF RuntimeReplays THEN answered \cup {Key(updated)}
                                        ELSE answered
        /\ attempt' = [attempt EXCEPT ![w].status = "won"]
     \/ /\ ~Accepts(checkpoint, attempt[w].read)     \* CheckpointConflict
        /\ attempt' = [attempt EXCEPT ![w].status = "refused"]
        /\ UNCHANGED <<checkpoint, answered>>

\* The caller is done with the result, failed, or died with its process.
Forget(w) ==
  /\ attempt' = [attempt EXCEPT ![w] = NoAttempt]
  /\ UNCHANGED <<checkpoint, answered>>

CheckpointsNext ==
  \E w \in Workers :
    \/ \E watermark, time \in Times, expected \in 0 .. MaxCheckpoints - 1 :
         AdvanceRead(w, watermark, expected, time)
    \/ AdvanceWrite(w)
    \/ Forget(w)

CheckpointsSpec == CheckpointsInit /\ [][CheckpointsNext]_checkpointVars

-----------------------------------------------------------------------------
Won(w) == attempt[w].status = "won"

\* Callers that advanced the checkpoint from the same revision returned the
\* same checkpoint: the second of two writers is refused, or it sent exactly
\* the request of the first and was answered with its success.
WinnersAgree ==
  \A w, v \in Workers :
    /\ Won(w) /\ Won(v)
    /\ attempt[w].updated.revision = attempt[v].updated.revision
    => attempt[w].updated = attempt[v].updated

\* What a caller was told is durable: the checkpoint it was returned is the
\* stored one, or a later one with no earlier watermark has replaced it.
WonIsDurable ==
  \A w \in Workers :
    Won(w) =>
      /\ checkpoint # NoRecord
      /\ attempt[w].updated.watermark <= checkpoint.watermark
      /\ \/ attempt[w].updated = checkpoint
         \/ attempt[w].updated.revision < checkpoint.revision

\* Whoever wrote in between, a checkpoint is never removed or reset, its
\* watermark never moves back, and its revision counts every change.
WatermarkNeverRegresses ==
  [][checkpoint' # checkpoint =>
       /\ checkpoint' # NoRecord
       /\ checkpoint'.revision = RevisionOf(checkpoint) + 1
       /\ checkpoint # NoRecord =>
            checkpoint'.watermark >= checkpoint.watermark]_checkpointVars
=============================================================================
