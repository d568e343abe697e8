------------------------------ MODULE UsageStore ------------------------------
(***************************************************************************)
(* The conditional state writes of the usage plugin (_write_state and      *)
(* _storage_version of repository.py) and the contract of the Meridian     *)
(* store they are sent to.  A stored state record is a TLA+ record whose   *)
(* field "version" is the storage version the store assigns and whose      *)
(* field "revision" is the domain revision the plugin writes; NoRecord is  *)
(* the answer to a read of a record that was never written.                *)
(***************************************************************************)
EXTENDS Naturals

CONSTANTS Workers,        \* the processes and threads that call the store
          NoRecord,
          RuntimeReplays  \* whether the runtime remembers idempotency keys

\* A mutation: the write replaces whatever is stored now.
AcceptsBlindly(stored, read) == TRUE

\* The store's answer to a state write: put if_absent when the caller read no
\* record, otherwise a patch whose expected version is the one it read.
Accepts(stored, read) ==
  IF read = NoRecord
  THEN stored = NoRecord
  ELSE /\ stored # NoRecord
       /\ stored.version = read.version

\* The storage version of the record that an accepted write leaves behind.
NextVersion(read) == IF read = NoRecord THEN 0 ELSE read.version + 1

\* The domain revision the plugin counts itself, from one.
RevisionOf(record) == IF record = NoRecord THEN 0 ELSE record.revision

\* A mutation: revisions start from zero.
NextRevisionFromZero(record) ==
  IF record = NoRecord THEN 0 ELSE record.revision + 1

NextRevision(record) == RevisionOf(record) + 1
=============================================================================
