----------------------------- MODULE MCSequential -----------------------------
(***************************************************************************)
(* Small instances of UsageMetering, UsageWindows, UsageQueries and        *)
(* DecimalReplay for TLC.  They share no state, so that a behaviour takes  *)
(* the steps of one of them, "part", and the others keep one initial       *)
(* state.                                                                  *)
(***************************************************************************)
EXTENDS UsageMetering, UsageWindows, UsageQueries, DecimalReplay, TLC

VARIABLE part

vars == <<meteringVars, windowVars, queryVars, replayVars, part>>

-----------------------------------------------------------------------------
(* Metering *)

Number(c, e) == [c |-> c, e |-> e]

Unit(scale, offset) == [scale |-> scale, offset |-> offset]

\* Meters with and without digits behind the point, one as wide as the store
\* and one whose digits are all behind the point.
MCMeters == {[precision |-> 1, scale |-> 0], [precision |-> 2, scale |-> 1],
             [precision |-> 3, scale |-> 1], [precision |-> 1, scale |-> 1]}

\* The canonical unit, a larger, a smaller and two affine ones.
MCTransforms ==
  {Identity, Unit(Number(3, 1), Zero), Unit(Number(5, -1), Zero),
   Unit(Number(2, 0), Number(-3, 0)), Unit(Number(1, 0), Number(1, 1))}

\* Zero, halves, tens and padded numbers, and numbers that do not fit.
MCInputs ==
  {Number(c, e) : c \in {-5, -1, 0, 1, 2, 9, 10, 95}, e \in -2 .. 1}
    \cup {Number(1, -3)}

-----------------------------------------------------------------------------
(* Windows *)

\* Instants before and after the epoch.
MCInstants == -2 .. 2

-----------------------------------------------------------------------------
(* Queries *)

\* Four events of the scope and window that is asked for, two of them with the
\* same start and one with an empty column; one behind the window and one of
\* another scope.
MCEvents ==
  {[id |-> 1, scope |-> 11, start |-> 1, column |-> 1],
   [id |-> 4, scope |-> 11, start |-> 1, column |-> 2],
   [id |-> 2, scope |-> 11, start |-> 2, column |-> Empty],
   [id |-> 3, scope |-> 11, start |-> 2, column |-> 2],
   [id |-> 5, scope |-> 11, start |-> 3, column |-> 1],
   [id |-> 1, scope |-> 12, start |-> 1, column |-> 1]}

Asks(op, operands) == [op |-> op, operands |-> operands]

\* Every operator, and two at once.
MCWheres ==
  {{}} \cup
  {{Asks(op, {2})} : op \in {"literal", "eq", "ne", "lt", "lte", "gt", "gte"}} \cup
  {{Asks(op, values)} : op \in {"in", "notIn"}, values \in SUBSET {1, 2}} \cup
  {{Asks("isNull", {b})} : b \in {0, 1}} \cup
  {{Asks("gte", {1}), Asks("notIn", {2})}}

MCWindows == {[start |-> 1, end |-> 3], [start |-> 2, end |-> 2]}

-----------------------------------------------------------------------------
(* Replay *)

\* Numbers with and without digits before and behind the point, each with all
\* the zeros that the input domain allows, a negative one and zero.
MCNumbers ==
  {Number(c, e) : c \in {0, 1, 10, 100, 1000, 12, 120, -5, -50}, e \in -5 .. 1}

MCQuantities == {Zero, Number(1, -2), Number(3, 0), Number(21, -1)}

-----------------------------------------------------------------------------
\* The initial state of the parts that do not run.
MeteringRests ==
  /\ MeteringInit
  /\ meter = CHOOSE m \in Meters : TRUE
  /\ unit = Identity

QueriesRest ==
  /\ QueriesInit
  /\ query = CHOOSE q \in Queries : TRUE
  /\ cursors = "keyset"

ReplayRests ==
  /\ ReplayInit
  /\ written = CHOOSE r \in WrittenRecord : TRUE
  /\ stored = CHOOSE r \in [value : FromColumn(written.value),
                            original : FromColumn(written.original),
                            content : {written.content}] : TRUE

Init ==
  /\ part \in {"metering", "windows", "queries", "replay"}
  /\ IF part = "metering" THEN MeteringInit ELSE MeteringRests
  /\ WindowsInit
  /\ IF part = "queries" THEN QueriesInit ELSE QueriesRest
  /\ IF part = "replay" THEN ReplayInit ELSE ReplayRests

Next ==
  /\ UNCHANGED part
  /\ \/ /\ part = "metering"
        /\ MeteringNext
        /\ UNCHANGED <<windowVars, queryVars, replayVars>>
     \/ /\ part = "windows"
        /\ WindowsNext
        /\ UNCHANGED <<meteringVars, queryVars, replayVars>>
     \/ /\ part = "queries"
        /\ QueriesNext
        /\ UNCHANGED <<meteringVars, windowVars, replayVars>>
     \/ /\ part = "replay"
        /\ ReplayNext
        /\ UNCHANGED <<meteringVars, windowVars, queryVars>>

Spec == Init /\ [][Next]_vars

TypeOK ==
  /\ MeteringTypeOK
  /\ WindowsTypeOK
  /\ QueriesTypeOK
  /\ ReplayTypeOK

VersionSymmetry == Permutations(Versions)
=============================================================================
