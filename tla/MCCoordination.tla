---------------------------- MODULE MCCoordination ----------------------------
(***************************************************************************)
(* Small instances of UsageClaims, UsageCheckpoints and ImmutableRecords   *)
(* for TLC.  They share no state here, so that a behaviour takes the steps *)
(* of one of them, "part", and leaves the other two in their initial       *)
(* states: every interleaving within a part is explored, and none between  *)
(* parts that do not meet.  UsageAggregation, UsageRecording and           *)
(* UsageBatches compose them.                                              *)
(***************************************************************************)
EXTENDS UsageClaims, UsageCheckpoints, ImmutableRecords, TLC

VARIABLE part

vars == <<claimVars, checkpointVars, recordVars, part>>

Init ==
  /\ part \in {"claims", "checkpoints", "records"}
  /\ ClaimsInit
  /\ CheckpointsInit
  /\ RecordsInit

Next ==
  /\ UNCHANGED part
  /\ \/ /\ part = "claims"
        /\ ClaimsNext
        /\ UNCHANGED <<checkpointVars, recordVars>>
     \/ /\ part = "checkpoints"
        /\ CheckpointsNext
        /\ UNCHANGED <<claimVars, recordVars>>
     \/ /\ part = "records"
        /\ RecordsNext
        /\ UNCHANGED <<claimVars, checkpointVars>>

Spec == Init /\ [][Next]_vars

TypeOK ==
  /\ ClaimsTypeOK
  /\ CheckpointsTypeOK
  /\ RecordsTypeOK

\* Workers and contents are interchangeable.
CoordinationSymmetry == Permutations(Workers) \cup Permutations(Contents)
=============================================================================
