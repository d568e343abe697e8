----------------------------- MODULE UsageQueries -----------------------------
(***************************************************************************)
(* A bounded query (query.py): what it asks for in each of its two forms,  *)
(* its pages, and UsageRepository.scan_events, which reads all of them     *)
(* while events keep being recorded.                                       *)
(*                                                                         *)
(* An event has a scope, a window start and one more column, "column",     *)
(* that may be empty.  The store answers a query with a page in the order  *)
(* of the query, by window start and event id.                             *)
(***************************************************************************)
EXTENDS Naturals, FiniteSets, SequencesExt

CONSTANTS Events,     \* every event that may be recorded
          Scopes, Starts, Values,
          Empty,      \* no value in a column, no cursor
          Wheres,     \* what callers ask of the column
          Windows,    \* the windows callers ask for
          Limit,      \* records of a page
          MaxPages,   \* of a scan
          MaxFaults   \* bound of bad answers

Operators == {"eq", "ne", "lt", "lte", "gt", "gte", "in", "notIn", "isNull"}

\* An operator and its operands: one or several values, or 1 or 0 for the truth
\* value of isNull; "literal" is a value without an operator.
Predicate == [op : Operators \cup {"literal"},
              operands : SUBSET (Values \cup {0, 1})]

ASSUME QueriesAssumption ==
  /\ Events \subseteq [id : Nat, scope : Scopes, start : Starts,
                       column : Values \cup {Empty}]
  /\ \A e, f \in Events : e.scope = f.scope /\ e.id = f.id => e = f
  /\ Scopes \subseteq Nat
  /\ Starts \subseteq Nat
  /\ Values \subseteq Nat
  /\ Empty \notin Nat \cup Events
  /\ Wheres \subseteq SUBSET Predicate
  /\ \A where \in Wheres : \A p \in where : IsFiniteSet(p.operands)
  /\ Windows \subseteq [start : Starts, end : Starts]
  /\ Limit \in Nat \ {0}
  /\ MaxPages \in Nat \ {0}
  /\ MaxFaults \in Nat

-----------------------------------------------------------------------------
(* The query *)

\* _validate_where: membership needs values, the others take one.
ValidWhere(where) ==
  \A p \in where :
    /\ p.operands # {}
    /\ p.op \notin {"in", "notIn"} => Cardinality(p.operands) = 1

Queries ==
  [scope : Scopes, window : {w \in Windows : w.start < w.end},
   where : {w \in Wheres : ValidWhere(w)}]

On(name, where) == {[field |-> name, op |-> p.op, operands |-> p.operands] :
                      p \in where}

\* The caller's predicates, to which the scope and the window are added.
Predicates(q) ==
  On("column", q.where) \cup
  On("scopeFingerprint", {[op |-> "literal", operands |-> {q.scope}]}) \cup
  On("windowStart", {[op |-> "gte", operands |-> {q.window.start}],
                     [op |-> "lt", operands |-> {q.window.end}]})

Column(e, name) ==
  CASE name = "scopeFingerprint" -> e.scope
    [] name = "windowStart" -> e.start
    [] OTHER -> e.column

\* The form that is executed: literals as they are, every operator by its name.
ExpressionPredicates(predicates) ==
  {[field |-> p.field,
    key |-> IF p.op = "literal" THEN "" ELSE p.op,
    operands |-> p.operands] : p \in predicates}

Compares(op, value, operands) ==
  \A operand \in operands :
    CASE op = "eq" -> value = operand
      [] op = "ne" -> value # operand
      [] op = "lt" -> value < operand
      [] op = "lte" -> value <= operand
      [] op = "gt" -> value > operand
      [] OTHER -> value >= operand

IsEmpty(value, operands) == (value = Empty) <=> operands = {1}

\* How the runtime reads the executed form.  An empty column compares with
\* nothing.
Satisfies(e, p) ==
  LET value == Column(e, p.field) IN
  IF p.key = "isNull" THEN IsEmpty(value, p.operands)
  ELSE /\ value # Empty
       /\ CASE p.key \in {"", "in"} -> value \in p.operands
            [] p.key = "notIn" -> value \notin p.operands
            [] OTHER -> Compares(p.key, value, p.operands)

\* The form of the public plan: a conjunction of comparisons, memberships that
\* may be negated, and tests for empty columns.
LogicalPredicate(predicates) ==
  {[field |-> p.field, operands |-> p.operands, negated |-> p.op = "notIn",
    kind |-> CASE p.op \in {"in", "notIn"} -> "in"
               [] p.op = "literal" -> "eq"
               [] OTHER -> p.op] : p \in predicates}

\* What a node of the plan means.
Holds(e, node) ==
  LET value == Column(e, node.field) IN
  IF node.kind = "isNull" THEN IsEmpty(value, node.operands)
  ELSE /\ value # Empty
       /\ IF node.kind = "in" THEN (value \in node.operands) # node.negated
          ELSE Compares(node.kind, value, node.operands)

Executed(q, e) == \A p \in ExpressionPredicates(Predicates(q)) : Satisfies(e, p)

Planned(q, e) == \A node \in LogicalPredicate(Predicates(q)) : Holds(e, node)

-----------------------------------------------------------------------------
(* The scan *)

VARIABLES recorded,   \* the recorded events
          query,
          cursors,  \* what cursors the store hands out
          scan,     \* scan_events
          replies,  \* the answers of this scan
          faults,
          before    \* ghost: the events recorded when the scan began

queryVars == <<recorded, query, cursors, scan, replies, faults, before>>

\* A cursor stands on the last record of its page, or it counts the records
\* before the next page.
CursorKinds == {"keyset", "offset"}

Cursor == IF cursors = "offset" THEN Nat ELSE Events

Page == [items : Seq(Events), cursor : Cursor \cup {Empty}]

Scan ==
  [step : {"idle", "paging", "returned", "raised"},
   cursor : Cursor \cup {Empty}, pages : 0 .. MaxPages,
   seen : SUBSET Cursor, events : Seq(Events)]

QueriesTypeOK ==
  /\ recorded \subseteq Events
  /\ query \in Queries
  /\ cursors \in CursorKinds
  /\ scan \in Scan
  /\ replies \subseteq Page
  /\ faults \in 0 .. MaxFaults
  /\ before \subseteq recorded

Idle == [step |-> "idle", cursor |-> Empty, pages |-> 0, seen |-> {},
         events |-> <<>>]

QueriesInit ==
  /\ recorded = {}
  /\ query \in Queries
  /\ cursors \in CursorKinds
  /\ scan = Idle
  /\ replies = {}
  /\ faults = 0
  /\ before = {}

RecordEvent(e) ==
  /\ e \notin recorded
  /\ recorded' = recorded \cup {e}
  /\ UNCHANGED <<query, cursors, scan, replies, faults, before>>

BeginScan ==
  /\ scan.step = "idle"
  /\ scan' = [scan EXCEPT !.step = "paging"]
  /\ before' = recorded
  /\ UNCHANGED <<recorded, query, cursors, replies, faults>>

\* order_by windowStart, eventId
Precedes(e, f) == e.start < f.start \/ (e.start = f.start /\ e.id < f.id)

\* Every match of the query in its order.
Matches(S) ==
  LET found == {e \in S : Executed(query, e)} IN
  CHOOSE list \in [1 .. Cardinality(found) -> found] : IsSorted(list, Precedes)

\* The matches behind a cursor: behind the event it stands on, or behind so many.
Rest(cursor) ==
  IF cursors = "offset" /\ cursor # Empty
  THEN LET matches == Matches(recorded)
       IN  SubSeq(matches, cursor + 1, Len(matches))
  ELSE Matches({e \in recorded : cursor # Empty => Precedes(cursor, e)})

\* The answer to a page, with a cursor if there are more.
Answer(cursor) ==
  LET rest == Rest(cursor)
      items == IF Len(rest) <= Limit THEN rest ELSE SubSeq(rest, 1, Limit)
      skipped == IF cursor = Empty THEN 0 ELSE cursor
  IN [items |-> items,
      cursor |-> IF Len(rest) <= Limit THEN Empty
                 ELSE IF cursors = "offset" THEN skipped + Limit
                 ELSE Last(items)]

\* Bad answers: an earlier one again, or one that ignores the limit.
BadAnswers(cursor) ==
  replies \cup {[items |-> Rest(cursor), cursor |-> Empty]}

\* A mutation: a cursor that was seen is followed again.
RepeatedNever(cursor) == FALSE

Repeated(cursor) == cursor \in scan.seen

\* A mutation: what was read so far is returned.
WithinBudgetOrReturned(scanned) ==
  [scanned EXCEPT !.step = IF scanned.pages = MaxPages THEN "returned" ELSE @]

\* A mutation: pages are read as long as there are any.
WithinBudgetNever(scanned) == scanned

\* The loop ends after the last page of the budget.
WithinBudget(scanned) ==
  [scanned EXCEPT !.step = IF scanned.pages = MaxPages THEN "raised" ELSE @]

\* _records: the answer has more records than the page may have.
TooMany(page) == Len(page.items) > Limit

\* The scan after one more page.
After(page) ==
  LET scanned == [scan EXCEPT !.events = @ \o page.items, !.pages = @ + 1] IN
  IF TooMany(page) THEN [scan EXCEPT !.step = "raised"]
  ELSE IF page.cursor = Empty THEN [scanned EXCEPT !.step = "returned"]
  ELSE IF Repeated(page.cursor) THEN [scanned EXCEPT !.step = "raised"]
  ELSE WithinBudget([scanned EXCEPT !.cursor = page.cursor,
                                    !.seen = @ \cup {page.cursor}])

Take(page) ==
  /\ scan.step = "paging"
  /\ scan' = After(page)
  /\ replies' = replies \cup {page}
  /\ UNCHANGED <<recorded, query, cursors, before>>

ReadPage == Take(Answer(scan.cursor)) /\ UNCHANGED faults

ReadBadPage ==
  /\ faults < MaxFaults
  /\ faults' = faults + 1
  /\ \E page \in BadAnswers(scan.cursor) : Take(page)

QueriesNext == (\E e \in Events : RecordEvent(e)) \/ BeginScan \/ ReadPage \/ ReadBadPage

QueriesSpec == QueriesInit /\ [][QueriesNext]_queryVars

-----------------------------------------------------------------------------
(* Properties *)

ScanReturned == scan.step = "returned"

\* A scan that returns has every event that matched and was recorded when it
\* began: nothing is lost between two pages, and a scan that its budget cuts off
\* is not taken for a complete one.  aggregate_events relies on it.
ScanIsComplete ==
  ScanReturned => \A e \in before : Planned(query, e) => Contains(scan.events, e)

\* README.md: every query is scope-bound and time-bounded.  What a scan reads is
\* what its public plan asks for, of the scope and the closed-open window alone.
\* With keyset cursors a scan that returns has each event once and in the order
\* of the query, though an answer may have come again or an event may have been
\* recorded in front of its cursor: events are counted as they come.
ScanIsSound ==
  /\ \A e \in ToSet(scan.events) :
       /\ Planned(query, e)
       /\ e.scope = query.scope
       /\ query.window.start <= e.start
       /\ e.start < query.window.end
  /\ ScanReturned /\ cursors = "keyset" =>
       \A i \in 1 .. Len(scan.events) - 1 :
         Precedes(scan.events[i], scan.events[i + 1])
=============================================================================
