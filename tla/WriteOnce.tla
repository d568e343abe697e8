------------------------------ MODULE WriteOnce ------------------------------
(***************************************************************************)
(* A map of immutable facts: what docs/recording.md promises of meters,    *)
(* events and batch manifests, and docs/aggregation.md of the versions of  *)
(* aggregates.  A key without a fact may be given one, and a fact never    *)
(* changes and never goes away.                                            *)
(***************************************************************************)
CONSTANTS Keys, Facts, NoFact

VARIABLE facts

Init == facts = [k \in Keys |-> NoFact]

Write(k, f) ==
  /\ facts[k] = NoFact
  /\ facts' = [facts EXCEPT ![k] = f]

WriteOnceSpec == Init /\ [][\E k \in Keys, f \in Facts : Write(k, f)]_facts
=============================================================================
