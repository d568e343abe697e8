--------------------------- MODULE ImmutableRecords ---------------------------
(***************************************************************************)
(* The immutable records of the usage plugin and the calls that make them. *)
(* register_meter and record of repository.py follow one protocol: get the *)
(* record by its identity, put it if_absent when there is none, and get it *)
(* again when the put is refused.  Other callers may come between any two  *)
(* of these, and a call may end anywhere.                                  *)
(*                                                                         *)
(* Two contents are the same when their fingerprints are.  A read of an    *)
(* eventually consistent resource may miss the record, and a runtime that  *)
(* remembers a request may answer its repetition with the first success.   *)
(***************************************************************************)
EXTENDS UsageStore

CONSTANTS Keys, Contents,
          EventualReads  \* whether a get may miss a stored record

ASSUME RecordsAssumption ==
  /\ NoRecord \notin Contents
  /\ EventualReads \in BOOLEAN
  /\ RuntimeReplays \in BOOLEAN

VARIABLES records,  \* what is stored under each identity
          call      \* each worker's current or last call

recordVars == <<records, call>>

Busy == {"get", "put", "reread"}

\* The answers: written by this call, found, or found with another content.
Answers == {"recorded", "replayed", "conflict"}

NoCall == [step |-> "none", key |-> NoRecord, content |-> NoRecord]

CallRecord ==
  [step : Busy \cup Answers, key : Keys, content : Contents] \cup {NoCall}

RecordsTypeOK ==
  /\ records \in [Keys -> Contents \cup {NoRecord}]
  /\ call \in [Workers -> CallRecord]

RecordsInit ==
  /\ records = [k \in Keys |-> NoRecord]
  /\ call = [w \in Workers |-> NoCall]

\* What a get may find.
Visible(k) == IF EventualReads THEN {records[k], NoRecord} ELSE {records[k]}

\* A mutation: a record under the same identity is taken for the same record.
AnswerOfKey(found, content) == "replayed"

\* A mutation: the existing record is not compared.
AnswerConflict(found, content) == "conflict"

\* The outcome of a call that did not write, from what it has found.
Answer(found, content) == IF found = content THEN "replayed" ELSE "conflict"

Start(w, k, c) ==
  /\ call[w].step \notin Busy
  /\ call' = [call EXCEPT ![w] = [step |-> "get", key |-> k, content |-> c]]
  /\ UNCHANGED records

Get(w) ==
  /\ call[w].step = "get"
  /\ \E found \in Visible(call[w].key) :
       call' = [call EXCEPT ![w].step =
         IF found = NoRecord THEN "put" ELSE Answer(found, call[w].content)]
  /\ UNCHANGED records

\* A mutation: the put replaces what is stored.
WritableAlways(stored) == TRUE

\* put if_absent.
Writable(stored) == stored = NoRecord

Written(w) == [records EXCEPT ![call[w].key] = call[w].content]

Put(w) ==
  LET stored == records[call[w].key] IN
  /\ call[w].step = "put"
  /\ \/ /\ Writable(stored)
        /\ records' = Written(w)
        /\ call' = [call EXCEPT ![w].step = "recorded"]
     \/ /\ ~Writable(stored)
        /\ call' = [call EXCEPT ![w].step = "reread"]
        /\ UNCHANGED records
     \/ /\ RuntimeReplays
        /\ stored = call[w].content
        /\ call' = [call EXCEPT ![w].step = "recorded"]
        /\ UNCHANGED records

\* A get that misses the record that refused the put is a conflict too.
Reread(w) ==
  /\ call[w].step = "reread"
  /\ \E found \in Visible(call[w].key) :
       call' = [call EXCEPT ![w].step = Answer(found, call[w].content)]
  /\ UNCHANGED records

\* The process dies, or a store call raises; a put may have taken effect.
Abandon(w) ==
  /\ call[w].step \in Busy
  /\ call' = [call EXCEPT ![w] = NoCall]
  /\ \/ UNCHANGED records
     \/ /\ call[w].step = "put"
        /\ Writable(records[call[w].key])
        /\ records' = Written(w)

RecordsNext ==
  \E w \in Workers :
    \/ \E k \in Keys, c \in Contents : Start(w, k, c)
    \/ Get(w)
    \/ Put(w)
    \/ Reread(w)
    \/ Abandon(w)

RecordsSpec == RecordsInit /\ [][RecordsNext]_recordVars

-----------------------------------------------------------------------------
\* A call that returned a record, new or replayed, returned the stored one:
\* whoever raced it, the content its caller sent is the content that is kept.
AcceptedIsStored ==
  \A w \in Workers :
    call[w].step \in {"recorded", "replayed"} =>
      records[call[w].key] = call[w].content

\* With strong reads a call is refused only because other content is stored:
\* losing the race for the put to an equal record is no conflict.
ConflictIsReal ==
  ~EventualReads =>
    \A w \in Workers :
      call[w].step = "conflict" =>
        records[call[w].key] \notin {NoRecord, call[w].content}

\* Unless the runtime repeats its answers, one call for an identity is told
\* that it has made the record.
RecordedOnce ==
  ~RuntimeReplays =>
    \A w, v \in Workers :
      /\ call[w].step = "recorded" /\ call[v].step = "recorded"
      /\ call[w].key = call[v].key
      => w = v

Facts == INSTANCE WriteOnce WITH
  facts <- records, NoFact <- NoRecord, Facts <- Contents

\* The stored records behave as a map of facts that are written once.
RecordsAreFacts == Facts!WriteOnceSpec
=============================================================================
