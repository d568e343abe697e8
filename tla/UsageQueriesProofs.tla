-------------------------- MODULE UsageQueriesProofs --------------------------
(***************************************************************************)
(* UsageQueries for every set of events and predicates, both kinds of      *)
(* cursors and any number of pages and bad answers: a scan that returns    *)
(* has every event that matched when it began, and only such as the        *)
(* public plan of its query asks for.                                      *)
(***************************************************************************)
EXTENDS UsageQueries, TLAPS, FiniteSetTheorems, FunctionTheorems,
        SequenceTheorems

-----------------------------------------------------------------------------
(* The two forms of a query *)

LEMMA SingletonLemma ==
  ASSUME NEW S, IsFiniteSet(S), Cardinality(S) = 1
  PROVE  \E x : S = {x}
BY FS_Singleton

\* A predicate of a query and what it asks of its column.
LEMMA QueryPredicates ==
  ASSUME NEW q \in Queries, NEW p \in Predicates(q)
  PROVE  /\ p.op \in Operators \cup {"literal"}
         /\ p.op \notin {"in", "notIn"} => \E x : p.operands = {x}
<1>1. CASE p \in On("column", q.where)
  <2>1. PICK w \in q.where :
          p = [field |-> "column", op |-> w.op, operands |-> w.operands]
    BY <1>1 DEF On
  <2>2. /\ w \in Predicate
        /\ IsFiniteSet(w.operands)
        /\ w.op \notin {"in", "notIn"} => Cardinality(w.operands) = 1
    BY QueriesAssumption DEF QueriesAssumption, Queries, ValidWhere
  <2> QED BY <2>1, <2>2, SingletonLemma DEF Predicate
<1>2. CASE p \in On("scopeFingerprint", {[op |-> "literal", operands |-> {q.scope}]})
  BY <1>2 DEF On
<1>3. CASE p \in On("windowStart", {[op |-> "gte", operands |-> {q.window.start}],
                                    [op |-> "lt", operands |-> {q.window.end}]})
  <2>1. /\ p.op \in {"gte", "lt"}
        /\ p.operands \in {{q.window.start}, {q.window.end}}
    BY <1>3 DEF On
  <2>2. \E x : p.operands = {x}
    BY <2>1
  <2> QED BY <2>1, <2>2 DEF Operators
<1> QED BY <1>1, <1>2, <1>3 DEF Predicates

\* An event satisfies a predicate in the executed form exactly when the node of
\* the public plan holds of it.
LEMMA PredicateForms ==
  ASSUME NEW q \in Queries, NEW e, NEW p \in Predicates(q)
  PROVE  Satisfies(e, [field |-> p.field,
                       key |-> IF p.op = "literal" THEN "" ELSE p.op,
                       operands |-> p.operands])
         <=> Holds(e, [field |-> p.field, operands |-> p.operands,
                       negated |-> p.op = "notIn",
                       kind |-> CASE p.op \in {"in", "notIn"} -> "in"
                                  [] p.op = "literal" -> "eq"
                                  [] OTHER -> p.op])
<1>1. CASE p.op = "isNull"
  BY <1>1 DEF Satisfies, Holds
<1>2. CASE p.op = "in"
  BY <1>2 DEF Satisfies, Holds
<1>3. CASE p.op = "notIn"
  BY <1>3 DEF Satisfies, Holds
<1>4. CASE p.op = "literal"
  <2>1. PICK x : p.operands = {x}
    BY <1>4, QueryPredicates
  <2> QED BY <1>4, <2>1 DEF Satisfies, Holds, Compares
<1>5. CASE p.op \in Operators \ {"isNull", "in", "notIn"}
  <2>1. p.op \notin {"", "in", "notIn", "isNull", "literal"}
    BY <1>5 DEF Operators
  <2> QED BY <2>1 DEF Satisfies, Holds
<1> QED BY <1>1, <1>2, <1>3, <1>4, <1>5, QueryPredicates

\* What is executed is what the public plan asks for.
LEMMA FormsAgree ==
  ASSUME NEW q \in Queries, NEW e
  PROVE  Executed(q, e) <=> Planned(q, e)
<1> DEFINE Asked(p) == [field |-> p.field,
                        key |-> IF p.op = "literal" THEN "" ELSE p.op,
                        operands |-> p.operands]
           Node(p) == [field |-> p.field, operands |-> p.operands,
                       negated |-> p.op = "notIn",
                       kind |-> CASE p.op \in {"in", "notIn"} -> "in"
                                  [] p.op = "literal" -> "eq"
                                  [] OTHER -> p.op]
<1>1. Executed(q, e) <=> \A p \in Predicates(q) : Satisfies(e, Asked(p))
  BY DEF Executed, ExpressionPredicates
<1>2. Planned(q, e) <=> \A p \in Predicates(q) : Holds(e, Node(p))
  BY DEF Planned, LogicalPredicate
<1>3. \A p \in Predicates(q) : Satisfies(e, Asked(p)) <=> Holds(e, Node(p))
  BY PredicateForms
<1> QED BY <1>1, <1>2, <1>3

\* Every query is bound to its scope and to a window that is closed in front and
\* open at its end.
LEMMA QueryIsBound ==
  ASSUME NEW q \in Queries, NEW e \in Events, Executed(q, e)
  PROVE  /\ e.scope = q.scope
         /\ q.window.start <= e.start
         /\ e.start < q.window.end
<1> DEFINE scope == [field |-> "scopeFingerprint", op |-> "literal",
                     operands |-> {q.scope}]
           start == [field |-> "windowStart", op |-> "gte",
                     operands |-> {q.window.start}]
           end == [field |-> "windowStart", op |-> "lt",
                   operands |-> {q.window.end}]
<1>1. /\ scope \in Predicates(q)
      /\ start \in Predicates(q)
      /\ end \in Predicates(q)
  BY DEF Predicates, On
<1>2. \A p \in Predicates(q) :
        Satisfies(e, [field |-> p.field,
                      key |-> IF p.op = "literal" THEN "" ELSE p.op,
                      operands |-> p.operands])
  BY DEF Executed, ExpressionPredicates
<1>3. /\ Satisfies(e, [field |-> "scopeFingerprint", key |-> "",
                       operands |-> {q.scope}])
      /\ Satisfies(e, [field |-> "windowStart", key |-> "gte",
                       operands |-> {q.window.start}])
      /\ Satisfies(e, [field |-> "windowStart", key |-> "lt",
                       operands |-> {q.window.end}])
  <2> USE <1>1, <1>2
  <2>1. Satisfies(e, [field |-> "scopeFingerprint", key |-> "",
                      operands |-> {q.scope}])
    OBVIOUS
  <2>2. Satisfies(e, [field |-> "windowStart", key |-> "gte",
                      operands |-> {q.window.start}])
    OBVIOUS
  <2>3. Satisfies(e, [field |-> "windowStart", key |-> "lt",
                      operands |-> {q.window.end}])
    OBVIOUS
  <2> QED BY <2>1, <2>2, <2>3
<1>4. e.scope \in {q.scope}
  BY <1>3 DEF Satisfies, Column
<1>5. Compares("gte", e.start, {q.window.start})
  BY <1>3 DEF Satisfies, Column
<1>6. Compares("lt", e.start, {q.window.end})
  BY <1>3 DEF Satisfies, Column
<1> QED BY <1>4, <1>5, <1>6 DEF Compares

-----------------------------------------------------------------------------
(* The order of a query *)

Sorted(list) == IsSorted(list, Precedes)

\* The elements of F in front of e.
InFront(e, F) == {f \in F : Precedes(f, e)}

\* The order relates any two events of F.
Chain(F) ==
  \A e, f \in F : e = f \/ Precedes(e, f) \/ Precedes(f, e)

LEMMA EventTypes ==
  ASSUME NEW e \in Events
  PROVE  e.id \in Nat /\ e.start \in Nat
BY QueriesAssumption DEF QueriesAssumption

LEMMA OrderIsStrict ==
  ASSUME NEW e \in Events, NEW f \in Events, NEW g \in Events
  PROVE  /\ ~Precedes(e, e)
         /\ Precedes(e, f) => ~Precedes(f, e)
         /\ Precedes(e, f) /\ Precedes(f, g) => Precedes(e, g)
BY EventTypes DEF Precedes

\* Events of one scope have different ids, so that a query orders what it finds.
LEMMA FoundIsChain ==
  ASSUME NEW q \in Queries, NEW S \in SUBSET Events
  PROVE  Chain({e \in S : Executed(q, e)})
<1> SUFFICES ASSUME NEW e \in Events, NEW f \in Events,
                    Executed(q, e), Executed(q, f), e # f
             PROVE  Precedes(e, f) \/ Precedes(f, e)
  BY DEF Chain
<1>1. e.scope = f.scope
  BY QueryIsBound
<1>2. e.id # f.id
  BY <1>1, QueriesAssumption DEF QueriesAssumption
<1> QED BY <1>2, EventTypes DEF Precedes

\* In a finite set more elements are in front of a later one.
LEMMA InFrontGrows ==
  ASSUME NEW F \in SUBSET Events, IsFiniteSet(F), NEW e \in F, NEW f \in F,
         Precedes(e, f)
  PROVE  Cardinality(InFront(e, F)) < Cardinality(InFront(f, F))
<1>1. /\ InFront(e, F) \in SUBSET InFront(f, F)
      /\ InFront(e, F) # InFront(f, F)
  BY OrderIsStrict DEF InFront
<1>2. InFront(f, F) \in SUBSET F
  BY DEF InFront
<1>3. IsFiniteSet(InFront(f, F)) /\ IsFiniteSet(InFront(e, F))
  BY <1>1, <1>2, FS_Subset
<1>4. /\ Cardinality(InFront(e, F)) <= Cardinality(InFront(f, F))
      /\ Cardinality(InFront(e, F)) # Cardinality(InFront(f, F))
  BY <1>1, <1>3, FS_Subset
<1> QED BY <1>3, <1>4, FS_CardinalityType

LEMMA InFrontBounded ==
  ASSUME NEW F \in SUBSET Events, IsFiniteSet(F), NEW e \in F
  PROVE  Cardinality(InFront(e, F)) \in 0 .. Cardinality(F) - 1
<1>1. /\ InFront(e, F) \in SUBSET F
      /\ InFront(e, F) # F
  BY OrderIsStrict DEF InFront
<1>2. /\ IsFiniteSet(InFront(e, F))
      /\ Cardinality(InFront(e, F)) <= Cardinality(F)
      /\ Cardinality(InFront(e, F)) # Cardinality(F)
  BY <1>1, FS_Subset
<1> QED BY <1>2, FS_CardinalityType

\* A finite set in which the order relates any two has a list in this order:
\* the place of each is given by how many are in front of it.
LEMMA SortedListExists ==
  ASSUME NEW F \in SUBSET Events, IsFiniteSet(F), Chain(F)
  PROVE  \E list \in [1 .. Cardinality(F) -> F] : Sorted(list)
<1> DEFINE n == Cardinality(F)
           place == [e \in F |-> Cardinality(InFront(e, F)) + 1]
           list == [i \in 1 .. n |-> CHOOSE e \in F : place[e] = i]
<1>1. n \in Nat
  BY FS_CardinalityType
<1>2. place \in [F -> 1 .. n]
  <2>1. \A e \in F : Cardinality(InFront(e, F)) \in 0 .. n - 1
    BY InFrontBounded
  <2> QED BY <1>1, <2>1
<1>3. \A e, f \in F : Precedes(e, f) => place[e] < place[f]
  BY InFrontGrows, InFrontBounded, <1>1
<1>4. place \in Injection(F, 1 .. n)
  <2>1. \A e, f \in F : place[e] = place[f] => e = f
    BY <1>2, <1>3 DEF Chain
  <2> QED BY <1>2, <2>1, Fun_IsInj
<1>5. IsFiniteSet(1 .. n) /\ Cardinality(1 .. n) = n
  BY <1>1, FS_Interval
<1>6. place \in Surjection(F, 1 .. n)
  BY <1>4, <1>5, FS_Injection
<1>7. \A i \in 1 .. n : \E e \in F : place[e] = i
  <2> HIDE DEF place, n
  <2> QED BY <1>6, Fun_SurjectionProperties
<1>8. \A i \in 1 .. n : list[i] \in F /\ place[list[i]] = i
  <2> HIDE DEF place
  <2> QED BY <1>7
<1>9. list \in [1 .. n -> F]
  BY <1>8
<1>10. Len(list) = n
  <2> HIDE DEF list
  <2> QED BY <1>1, <1>9
<1>11. \A i, j \in 1 .. n : i < j => Precedes(list[i], list[j])
  <2> HIDE DEF list, place
  <2> QED BY <1>1, <1>3, <1>8 DEF Chain
<1> QED
  <2> HIDE DEF list
  <2> QED BY <1>9, <1>10, <1>11 DEF Sorted, IsSorted

-----------------------------------------------------------------------------
(* What a page is cut from *)

Found(S) == {e \in S : Executed(query, e)}

\* A list of all elements of F in the order of the query.
Lists(list, F) ==
  /\ list \in Seq(F)
  /\ Sorted(list)
  /\ \A e \in F : \E i \in 1 .. Len(list) : list[i] = e

LEMMA SortedIsInjective ==
  ASSUME NEW F \in SUBSET Events, NEW list \in Seq(F), Sorted(list)
  PROVE  \A i, j \in 1 .. Len(list) : list[i] = list[j] => i = j
<1> SUFFICES ASSUME NEW i \in 1 .. Len(list), NEW j \in 1 .. Len(list),
                    list[i] = list[j], i # j
             PROVE  FALSE
  OBVIOUS
<1>1. Len(list) \in Nat /\ list[i] \in Events /\ list[j] \in Events
  OBVIOUS
<1>2. CASE i < j
  BY <1>1, <1>2, OrderIsStrict DEF Sorted, IsSorted
<1>3. CASE j < i
  BY <1>1, <1>3, OrderIsStrict DEF Sorted, IsSorted
<1> QED BY <1>1, <1>2, <1>3

\* The matches of a query are all that it finds, in its order.
LEMMA MatchesAreFound ==
  ASSUME query \in Queries, NEW S \in SUBSET Events, IsFiniteSet(S)
  PROVE  Lists(Matches(S), Found(S))
<1> DEFINE F == Found(S)
           n == Cardinality(F)
           list == Matches(S)
<1>1. /\ F \in SUBSET Events
      /\ IsFiniteSet(F)
      /\ Chain(F)
  BY FS_Subset, FoundIsChain DEF Found
<1>2. n \in Nat
  BY <1>1, FS_CardinalityType
<1>3. list \in [1 .. n -> F] /\ Sorted(list)
  <2>1. list = CHOOSE l \in [1 .. n -> F] : Sorted(l)
    BY DEF Matches, Found, Sorted
  <2>2. \E l \in [1 .. n -> F] : Sorted(l)
    BY <1>1, SortedListExists
  <2> HIDE DEF list, n, F
  <2> QED BY <2>1, <2>2
<1>4. list \in Seq(F) /\ Len(list) = n
  <2> HIDE DEF list, n, F
  <2> QED BY <1>2, <1>3
<1>5. \A i, j \in 1 .. n : list[i] = list[j] => i = j
  <2> HIDE DEF list, n, F
  <2> QED BY <1>1, <1>3, <1>4, SortedIsInjective
<1>6. list \in Surjection(1 .. n, F)
  <2>1. list \in Injection(1 .. n, F)
    <3> HIDE DEF list, n, F
    <3> QED BY <1>3, <1>5, Fun_IsInj
  <2>2. IsFiniteSet(1 .. n) /\ Cardinality(1 .. n) = n
    BY <1>2, FS_Interval
  <2> QED BY <1>1, <2>1, <2>2, FS_Injection
<1>7. \A e \in F : \E i \in 1 .. n : list[i] = e
  <2> HIDE DEF list, n, F
  <2> QED BY <1>6 DEF Surjection
<1> QED BY <1>3, <1>4, <1>7 DEF Lists

\* The number of elements in front of one is its index, less one.
LEMMA IndexLemma ==
  ASSUME NEW F \in SUBSET Events, NEW list, Lists(list, F),
         NEW i \in 1 .. Len(list)
  PROVE  Cardinality(InFront(list[i], F)) = i - 1
<1>1. list \in Seq(F) /\ Sorted(list)
  BY DEF Lists
<1>2. Len(list) \in Nat /\ i - 1 \in Nat
  BY <1>1
<1> DEFINE front == InFront(list[i], F)
           f == [j \in 1 .. i - 1 |-> list[j]]
<1>3. f \in [1 .. i - 1 -> front]
  <2>1. \A j \in 1 .. i - 1 : list[j] \in F /\ Precedes(list[j], list[i])
    BY <1>1, <1>2 DEF Sorted, IsSorted
  <2> QED BY <2>1 DEF InFront
<1>4. \A j, k \in 1 .. i - 1 : f[j] = f[k] => j = k
  BY <1>1, <1>2, SortedIsInjective
<1>5. \A e \in front : \E j \in 1 .. i - 1 : f[j] = e
  <2> SUFFICES ASSUME NEW e \in front
               PROVE  \E j \in 1 .. i - 1 : f[j] = e
    OBVIOUS
  <2>1. e \in F /\ Precedes(e, list[i])
    BY DEF InFront
  <2>2. PICK j \in 1 .. Len(list) : list[j] = e
    BY <2>1 DEF Lists
  <2>3. j # i
    BY <1>1, <2>1, <2>2, OrderIsStrict
  <2>4. ~ i < j
    <3> SUFFICES ASSUME i < j PROVE FALSE
      OBVIOUS
    <3>1. Precedes(list[i], list[j])
      BY <1>1, <1>2 DEF Sorted, IsSorted
    <3>2. list[i] \in Events /\ e \in Events
      BY <1>1, <2>1
    <3> QED BY <3>1, <3>2, <2>1, <2>2, OrderIsStrict
  <2>5. j \in 1 .. i - 1
    BY <1>2, <2>3, <2>4
  <2> QED BY <2>2, <2>5
<1>6. ExistsBijection(1 .. i - 1, front)
  <2> HIDE DEF f, front
  <2>1. f \in Bijection(1 .. i - 1, front)
    BY <1>3, <1>4, <1>5, Fun_IsBij
  <2> QED BY <2>1, Fun_ExistsBij
<1> QED
  <2> HIDE DEF front
  <2>1. Cardinality(front) = i - 1
    BY <1>2, <1>6, FS_CountingElements
  <2> QED BY <2>1 DEF front

\* e comes behind a cursor among the matches that are recorded.
Behind(e, cursor) ==
  cursor # Empty =>
    IF cursors = "offset"
    THEN cursor <= Cardinality(InFront(e, Found(recorded)))
    ELSE Precedes(cursor, e)

ScanContext ==
  /\ query \in Queries
  /\ cursors \in CursorKinds
  /\ recorded \in SUBSET Events
  /\ IsFiniteSet(recorded)

LEMMA CursorTypes ==
  ASSUME ScanContext, NEW c \in Cursor \cup {Empty}, c # Empty
  PROVE  IF cursors = "offset" THEN c \in Nat ELSE c \in Events
BY DEF ScanContext, Cursor

\* The matches behind a cursor are all of them, in order, and nothing else.
LEMMA RestProperties ==
  ASSUME ScanContext, NEW cursor \in Cursor \cup {Empty}
  PROVE  /\ Rest(cursor) \in Seq(Found(recorded))
         /\ Sorted(Rest(cursor))
         /\ \A e \in Found(recorded) :
              Behind(e, cursor) => Contains(Rest(cursor), e)
         /\ \A i \in 1 .. Len(Rest(cursor)) :
              /\ cursors = "keyset" /\ cursor # Empty =>
                   Precedes(cursor, Rest(cursor)[i])
              /\ cursors = "offset" =>
                   Cardinality(InFront(Rest(cursor)[i], Found(recorded))) =
                     (IF cursor = Empty THEN 0 ELSE cursor) + i - 1
<1> DEFINE rest == Rest(cursor)
           F == Found(recorded)
<1>1. F \in SUBSET Events
  BY DEF ScanContext, Found
<1>2. CASE cursor = Empty
  <2>1. rest = Matches(recorded)
    <3>1. {e \in recorded : cursor # Empty => Precedes(cursor, e)} = recorded
      BY <1>2
    <3> QED BY <1>2, <3>1 DEF Rest
  <2>2. Lists(rest, F)
    BY <2>1, MatchesAreFound DEF ScanContext
  <2>3. \A i \in 1 .. Len(rest) : Cardinality(InFront(rest[i], F)) = i - 1
    BY <1>1, <2>2, IndexLemma
  <2>4. Len(rest) \in Nat
    BY <2>2 DEF Lists
  <2> HIDE DEF rest, F
  <2>5. \A i \in 1 .. Len(rest) : Cardinality(InFront(rest[i], F)) = 0 + i - 1
    BY <2>3, <2>4
  <2> QED BY <1>2, <2>2, <2>5 DEF rest, F, Lists, Contains
<1>3. CASE cursor # Empty /\ cursors = "keyset"
  <2> DEFINE S == {e \in recorded : Precedes(cursor, e)}
  <2>1. rest = Matches(S)
    <3>1. {e \in recorded : cursor # Empty => Precedes(cursor, e)} = S
      BY <1>3
    <3> QED BY <1>3, <3>1 DEF Rest
  <2>2. S \in SUBSET Events /\ IsFiniteSet(S)
    BY FS_Subset DEF ScanContext
  <2>3. Lists(rest, Found(S))
    BY <2>1, <2>2, MatchesAreFound DEF ScanContext
  <2>4. \A e : e \in Found(S) <=> e \in F /\ Precedes(cursor, e)
    BY DEF Found
  <2>5. \A e \in F : Behind(e, cursor) => e \in Found(S)
    BY <1>3, <2>4 DEF Behind
  <2>6. rest \in Seq(F)
    <3>1. Found(S) \subseteq F
      BY <2>4
    <3> HIDE DEF rest, F, S
    <3> QED BY <2>3, <3>1, SeqMonotonic DEF Lists
  <2> HIDE DEF rest, F, S
  <2>7. \A i \in 1 .. Len(rest) : Precedes(cursor, rest[i])
    BY <2>3, <2>4 DEF Lists
  <2> QED BY <1>3, <2>3, <2>5, <2>6, <2>7 DEF rest, F, Lists, Contains
<1>4. CASE cursor # Empty /\ cursors = "offset"
  <2> DEFINE all == Matches(recorded)
  <2>1. cursor \in Nat
    BY <1>4, CursorTypes
  <2>2. rest = SubSeq(all, cursor + 1, Len(all))
    BY <1>4 DEF Rest
  <2>3. Lists(all, F)
    BY MatchesAreFound DEF ScanContext
  <2>4. \A i \in 1 .. Len(all) : Cardinality(InFront(all[i], F)) = i - 1
    BY <1>1, <2>3, IndexLemma
  <2> HIDE DEF rest, F, all
  <2>5. all \in Seq(F) /\ Len(all) \in Nat /\ Sorted(all)
    BY <2>3 DEF Lists
  <2>6. /\ rest \in Seq(F)
        /\ Len(rest) = IF cursor + 1 <= Len(all) THEN Len(all) - cursor ELSE 0
        /\ \A i \in 1 .. Len(rest) : rest[i] = all[cursor + i]
    BY <2>1, <2>2, <2>5
  <2>7. \A i \in 1 .. Len(rest) : cursor + i \in 1 .. Len(all)
    BY <2>1, <2>5, <2>6
  <2>8. Sorted(rest)
    BY <2>1, <2>5, <2>6, <2>7 DEF Sorted, IsSorted
  <2>9. ASSUME NEW e \in F, Behind(e, cursor)
        PROVE  Contains(rest, e)
    <3>1. PICK i \in 1 .. Len(all) : all[i] = e
      BY <2>3 DEF Lists
    <3>2. cursor <= i - 1
      BY <1>4, <2>4, <2>9, <3>1 DEF Behind, F
    <3>3. i - cursor \in 1 .. Len(rest) /\ rest[i - cursor] = e
      BY <2>1, <2>5, <2>6, <3>1, <3>2
    <3> QED BY <3>3 DEF Contains
  <2>10. \A i \in 1 .. Len(rest) :
           Cardinality(InFront(rest[i], F)) = cursor + i - 1
    BY <2>1, <2>4, <2>5, <2>6, <2>7
  <2> QED BY <1>4, <2>6, <2>8, <2>9, <2>10 DEF rest, F
<1> QED BY <1>2, <1>3, <1>4 DEF ScanContext, CursorKinds

\* Whether a scan that goes on after a page has read, or has still behind its
\* cursor, all that it had to read.
Continues(page) ==
  /\ Sorted(page.items)
  /\ cursors = "keyset" =>
       /\ scan.cursor # Empty =>
            \A e \in Events :
              Contains(page.items, e) => Precedes(scan.cursor, e)
       /\ page.cursor # Empty =>
            /\ Contains(page.items, page.cursor)
            /\ \A e \in Events :
                 Contains(page.items, e) =>
                   e = page.cursor \/ Precedes(e, page.cursor)
  /\ \A e \in Found(recorded) :
       Behind(e, scan.cursor) =>
         \/ Contains(page.items, e)
         \/ page.cursor # Empty /\ Behind(e, page.cursor)

\* Every page has matches alone.
Matching(page) ==
  \A e \in Events : Contains(page.items, e) => Executed(query, e)

\* A right answer continues the scan.
LEMMA AnswerContinues ==
  ASSUME ScanContext, scan.cursor \in Cursor \cup {Empty}
  PROVE  /\ Answer(scan.cursor) \in Page
         /\ Matching(Answer(scan.cursor))
         /\ Continues(Answer(scan.cursor))
<1> DEFINE rest == Rest(scan.cursor)
           page == Answer(scan.cursor)
           F == Found(recorded)
           skipped == IF scan.cursor = Empty THEN 0 ELSE scan.cursor
<1>1. /\ rest \in Seq(F)
      /\ Sorted(rest)
      /\ \A e \in F : Behind(e, scan.cursor) => Contains(rest, e)
      /\ \A i \in 1 .. Len(rest) :
           /\ cursors = "keyset" /\ scan.cursor # Empty =>
                Precedes(scan.cursor, rest[i])
           /\ cursors = "offset" =>
                Cardinality(InFront(rest[i], F)) = skipped + i - 1
  BY RestProperties
<1>2. F \subseteq Events /\ \A e \in F : Executed(query, e)
  BY DEF ScanContext, Found
<1>3. Limit \in Nat \ {0}
  BY QueriesAssumption DEF QueriesAssumption
<1>4. CASE Len(rest) <= Limit
  <2>1. page.items = rest /\ page.cursor = Empty
    BY <1>4 DEF Answer
  <2>2. page = [items |-> rest, cursor |-> Empty]
    BY <1>4 DEF Answer
  <2> HIDE DEF rest, page, F
  <2>3. page \in Page
    BY <1>1, <1>2, <2>2 DEF Page
  <2>4. Matching(page)
    BY <1>1, <1>2, <2>1 DEF Matching, Contains
  <2>5. Continues(page)
    BY <1>1, <1>2, <2>1 DEF Continues, Contains, F
  <2> QED BY <2>3, <2>4, <2>5 DEF page
<1>5. CASE ~ Len(rest) <= Limit
  <2> DEFINE items == SubSeq(rest, 1, Limit)
             next == IF cursors = "offset" THEN skipped + Limit ELSE Last(items)
  <2>1. page = [items |-> items, cursor |-> next]
    BY <1>5 DEF Answer
  <2> HIDE DEF rest, page, F
  <2>2. /\ items \in Seq(F)
        /\ Len(items) = Limit
        /\ \A i \in 1 .. Limit : items[i] = rest[i] /\ i \in 1 .. Len(rest)
    BY <1>1, <1>3, <1>5
  <2> HIDE DEF items
  <2>3. Sorted(items)
    BY <1>1, <1>3, <2>2 DEF Sorted, IsSorted
  <2>4. items \in Seq(Events)
    BY <1>2, <2>2
  <2>5. page.items = items /\ page.cursor = next
    BY <2>1
  <2>6. Matching(page)
    BY <1>2, <2>2, <2>5 DEF Matching, Contains
  <2>7. CASE cursors = "keyset"
    <3>1. next = items[Limit]
      BY <2>2, <2>7 DEF Last
    <3>2. next \in Events
      BY <1>3, <2>2, <2>4, <3>1
    <3>3. page \in Page
      BY <2>1, <2>4, <2>7, <3>2 DEF Page, Cursor
    <3>4. next # Empty
      BY <3>2, QueriesAssumption DEF QueriesAssumption
    <3> HIDE DEF next
    <3>5. Contains(items, next)
      BY <1>3, <2>2, <3>1 DEF Contains
    <3>6. \A e \in Events :
            Contains(items, e) => e = next \/ Precedes(e, next)
      <4> SUFFICES ASSUME NEW i \in 1 .. Limit
                   PROVE  items[i] = next \/ Precedes(items[i], next)
        BY <2>2 DEF Contains
      <4> QED BY <1>3, <2>2, <2>3, <3>1 DEF Sorted, IsSorted
    <3>7. \A e \in Events :
            scan.cursor # Empty /\ Contains(items, e) => Precedes(scan.cursor, e)
      BY <1>1, <2>2, <2>7 DEF Contains
    <3>8. ASSUME NEW e \in F, Behind(e, scan.cursor)
          PROVE  Contains(items, e) \/ Behind(e, next)
      <4>1. PICK i \in 1 .. Len(rest) : rest[i] = e
        BY <1>1, <3>8 DEF Contains
      <4>2. CASE i <= Limit
        BY <1>3, <2>2, <4>1, <4>2 DEF Contains
      <4>3. CASE ~ i <= Limit
        <5>1. Precedes(rest[Limit], rest[i])
          BY <1>1, <1>3, <1>5, <4>3 DEF Sorted, IsSorted
        <5>2. next = rest[Limit]
          BY <1>3, <2>2, <3>1
        <5> QED BY <2>7, <4>1, <5>1, <5>2 DEF Behind
      <4> QED BY <4>2, <4>3
    <3>9. Continues(page)
      BY <2>3, <2>5, <3>4, <3>5, <3>6, <3>7, <3>8 DEF Continues, F
    <3> QED BY <2>6, <3>3, <3>9 DEF page
  <2>8. CASE cursors = "offset"
    <3>1. skipped \in Nat /\ next = skipped + Limit
      BY <2>8, CursorTypes
    <3> HIDE DEF skipped, next
    <3>2. next \in Nat
      BY <1>3, <3>1
    <3>3. page \in Page
      BY <2>1, <2>4, <2>8, <3>2 DEF Page, Cursor
    <3>4. next # Empty
      BY <3>2, QueriesAssumption DEF QueriesAssumption
    <3>5. ASSUME NEW e \in F, Behind(e, scan.cursor)
          PROVE  Contains(items, e) \/ Behind(e, next)
      <4>1. PICK i \in 1 .. Len(rest) : rest[i] = e
        BY <1>1, <3>5 DEF Contains
      <4>2. CASE i <= Limit
        BY <1>3, <2>2, <4>1, <4>2 DEF Contains
      <4>3. CASE ~ i <= Limit
        <5>1. Cardinality(InFront(e, F)) = skipped + i - 1
          BY <1>1, <2>8, <4>1
        <5>2. next <= Cardinality(InFront(e, F))
          <6>1. Len(rest) \in Nat
            BY <1>1
          <6> QED BY <1>3, <3>1, <4>3, <5>1, <6>1
        <5> QED BY <2>8, <5>2 DEF Behind, F
      <4> QED BY <4>2, <4>3
    <3>6. Continues(page)
      BY <2>3, <2>5, <2>8, <3>4, <3>5 DEF Continues, F
    <3> QED BY <2>6, <3>3, <3>6 DEF page
  <2> QED BY <2>7, <2>8 DEF ScanContext, CursorKinds
<1> QED BY <1>4, <1>5

\* So does a page with the whole rest.
LEMMA RestContinues ==
  ASSUME ScanContext, scan.cursor \in Cursor \cup {Empty}
  PROVE  LET page == [items |-> Rest(scan.cursor), cursor |-> Empty]
         IN  page \in Page /\ Matching(page) /\ Continues(page)
<1> DEFINE rest == Rest(scan.cursor)
           page == [items |-> rest, cursor |-> Empty]
           F == Found(recorded)
<1>1. /\ rest \in Seq(F)
      /\ Sorted(rest)
      /\ \A e \in F : Behind(e, scan.cursor) => Contains(rest, e)
      /\ \A i \in 1 .. Len(rest) :
           cursors = "keyset" /\ scan.cursor # Empty =>
             Precedes(scan.cursor, rest[i])
  BY RestProperties
<1>2. F \subseteq Events /\ \A e \in F : Executed(query, e)
  BY DEF ScanContext, Found
<1> HIDE DEF rest, F
<1>3. page \in Page
  BY <1>1, <1>2 DEF Page
<1>4. Matching(page)
  BY <1>1, <1>2 DEF Matching, Contains
<1>5. Continues(page)
  BY <1>1, <1>2 DEF Continues, Contains, F
<1> QED BY <1>3, <1>4, <1>5 DEF rest

-----------------------------------------------------------------------------
(* The inductive invariant *)

\* What a scan has read and what it has still to read.
Reading ==
  /\ scan.step = "idle" => scan = Idle /\ replies = {}
  /\ scan.step = "paging" =>
       /\ scan.pages < MaxPages
       /\ scan.cursor = Empty => scan.events = <<>>
       /\ \A page \in replies :
            page.cursor # Empty /\ page.cursor \in scan.seen
       /\ \A e \in before :
            Executed(query, e) =>
              Contains(scan.events, e) \/ Behind(e, scan.cursor)
  /\ scan.step = "returned" =>
       \A e \in before : Executed(query, e) => Contains(scan.events, e)

\* What it has read comes in order, up to its cursor.
InOrder ==
  cursors = "keyset" =>
    /\ scan.step # "raised" => Sorted(scan.events)
    /\ scan.step = "paging" =>
         \A e \in Events :
           Contains(scan.events, e) =>
             e = scan.cursor \/ Precedes(e, scan.cursor)

ScanInv ==
  /\ IsFiniteSet(recorded)
  /\ Reading
  /\ InOrder
  /\ \A e \in Events : Contains(scan.events, e) => Executed(query, e)
  /\ \A page \in replies : Matching(page)

QueriesInv == QueriesTypeOK /\ ScanInv

LEMMA InvContext ==
  ASSUME QueriesInv
  PROVE  ScanContext /\ scan.cursor \in Cursor \cup {Empty}
BY DEF QueriesInv, QueriesTypeOK, ScanInv, ScanContext, Scan

LEMMA ConcatContains ==
  ASSUME NEW s \in Seq(Events), NEW t \in Seq(Events), NEW e
  PROVE  Contains(s \o t, e) <=> Contains(s, e) \/ Contains(t, e)
<1>1. /\ Len(s) \in Nat /\ Len(t) \in Nat
      /\ Len(s \o t) = Len(s) + Len(t)
      /\ \A i \in 1 .. Len(s) + Len(t) :
           (s \o t)[i] = IF i <= Len(s) THEN s[i] ELSE t[i - Len(s)]
  BY ConcatProperties
<1>2. ASSUME Contains(s \o t, e)
      PROVE  Contains(s, e) \/ Contains(t, e)
  <2>1. PICK i \in 1 .. Len(s) + Len(t) : (s \o t)[i] = e
    BY <1>1, <1>2 DEF Contains
  <2>2. CASE i <= Len(s)
    BY <1>1, <2>1, <2>2 DEF Contains
  <2>3. CASE ~ i <= Len(s)
    <3>1. i - Len(s) \in 1 .. Len(t) /\ t[i - Len(s)] = e
      BY <1>1, <2>1, <2>3
    <3> QED BY <3>1 DEF Contains
  <2> QED BY <2>2, <2>3
<1>3. ASSUME Contains(s, e)
      PROVE  Contains(s \o t, e)
  <2>1. PICK i \in 1 .. Len(s) : s[i] = e
    BY <1>3 DEF Contains
  <2>2. i \in 1 .. Len(s) + Len(t) /\ (s \o t)[i] = e
    BY <1>1, <2>1
  <2> QED BY <1>1, <2>2 DEF Contains
<1>4. ASSUME Contains(t, e)
      PROVE  Contains(s \o t, e)
  <2>1. PICK i \in 1 .. Len(t) : t[i] = e
    BY <1>4 DEF Contains
  <2>2. /\ Len(s) + i \in 1 .. Len(s) + Len(t)
        /\ ~ Len(s) + i <= Len(s)
        /\ Len(s) + i - Len(s) = i
    BY <1>1
  <2>3. (s \o t)[Len(s) + i] = e
    BY <1>1, <2>1, <2>2
  <2> QED BY <1>1, <2>2, <2>3 DEF Contains
<1> QED BY <1>2, <1>3, <1>4

LEMMA ConcatSorted ==
  ASSUME NEW s \in Seq(Events), NEW t \in Seq(Events), Sorted(s), Sorted(t),
         \A e, f \in Events :
           Contains(s, e) /\ Contains(t, f) => Precedes(e, f)
  PROVE  Sorted(s \o t)
<1>1. /\ Len(s) \in Nat /\ Len(t) \in Nat
      /\ Len(s \o t) = Len(s) + Len(t)
      /\ \A i \in 1 .. Len(s) + Len(t) :
           (s \o t)[i] = IF i <= Len(s) THEN s[i] ELSE t[i - Len(s)]
  BY ConcatProperties
<1> SUFFICES ASSUME NEW i \in 1 .. Len(s) + Len(t),
                    NEW j \in 1 .. Len(s) + Len(t), i < j
             PROVE  Precedes((s \o t)[i], (s \o t)[j])
  BY <1>1 DEF Sorted, IsSorted
<1>2. CASE j <= Len(s)
  BY <1>1, <1>2 DEF Sorted, IsSorted
<1>3. CASE ~ j <= Len(s) /\ ~ i <= Len(s)
  <2>1. i - Len(s) \in 1 .. Len(t) /\ j - Len(s) \in 1 .. Len(t)
    BY <1>1, <1>3
  <2>2. Precedes(t[i - Len(s)], t[j - Len(s)])
    BY <1>1, <2>1 DEF Sorted, IsSorted
  <2> QED BY <1>1, <1>3, <2>2
<1>4. CASE i <= Len(s) /\ ~ j <= Len(s)
  <2>1. i \in 1 .. Len(s) /\ j - Len(s) \in 1 .. Len(t)
    BY <1>1, <1>4
  <2>2. Contains(s, s[i]) /\ Contains(t, t[j - Len(s)])
    BY <2>1 DEF Contains
  <2>3. s[i] \in Events /\ t[j - Len(s)] \in Events
    BY <2>1
  <2>4. Precedes(s[i], t[j - Len(s)])
    BY <2>2, <2>3
  <2> QED BY <1>1, <1>4, <2>4
<1> QED BY <1>1, <1>2, <1>3, <1>4

LEMMA InitScan == QueriesInit => QueriesInv
<1> SUFFICES ASSUME QueriesInit PROVE QueriesInv
  OBVIOUS
<1>1. MaxPages \in Nat \ {0} /\ MaxFaults \in Nat
  BY QueriesAssumption DEF QueriesAssumption
<1>2. scan = Idle /\ Idle \in Scan
  BY <1>1 DEF QueriesInit, Idle, Scan
<1>3. QueriesTypeOK
  BY <1>1, <1>2 DEF QueriesInit, QueriesTypeOK
<1>4. Len(scan.events) = 0 /\ scan.step = "idle"
  BY <1>2 DEF Idle
<1>5. \A e : ~ Contains(scan.events, e)
  BY <1>4 DEF Contains
<1>6. Sorted(scan.events)
  BY <1>4 DEF Sorted, IsSorted
<1>7. ScanInv
  BY <1>2, <1>4, <1>5, <1>6, FS_EmptySet
     DEF ScanInv, Reading, InOrder, QueriesInit
<1> QED BY <1>3, <1>7 DEF QueriesInv

\* When an event is recorded what was behind the cursor is so still: the count
\* of the matches in front of it does not fall.
LEMMA BehindGrows ==
  ASSUME ScanContext, NEW x \in Events, NEW e, NEW c \in Cursor \cup {Empty},
         recorded' = recorded \cup {x}, UNCHANGED <<query, cursors>>,
         Behind(e, c)
  PROVE  Behind(e, c)'
<1>1. CASE cursors = "offset" /\ c # Empty
  <2> DEFINE S == InFront(e, Found(recorded))
             T == {f \in {g \in recorded \cup {x} : Executed(query, g)} :
                     Precedes(f, e)}
  <2>1. IsFiniteSet(recorded \cup {x})
    BY FS_AddElement DEF ScanContext
  <2>2. IsFiniteSet(T)
    BY <2>1, FS_Subset
  <2>3. S \in SUBSET T
    BY DEF InFront, Found
  <2>4. IsFiniteSet(S) /\ Cardinality(S) <= Cardinality(T)
    BY <2>2, <2>3, FS_Subset
  <2>5. Cardinality(S) \in Nat /\ Cardinality(T) \in Nat
    BY <2>2, <2>4, FS_CardinalityType
  <2>6. c <= Cardinality(S) /\ c \in Nat
    BY <1>1, CursorTypes DEF Behind
  <2>7. c <= Cardinality(T)
    BY <2>4, <2>5, <2>6
  <2>8. Behind(e, c)' <=> c <= Cardinality(T)
    BY <1>1 DEF Behind, InFront, Found, Executed
  <2> QED BY <2>7, <2>8
<1>2. CASE ~ (cursors = "offset" /\ c # Empty)
  BY <1>2 DEF Behind
<1> QED BY <1>1, <1>2

LEMMA RecordKeeps ==
  ASSUME QueriesInv, NEW x \in Events, RecordEvent(x)
  PROVE  QueriesInv'
<1>1. /\ recorded' = recorded \cup {x}
      /\ UNCHANGED <<query, cursors, scan, replies, faults, before>>
  BY DEF RecordEvent
<1>2. QueriesTypeOK'
  BY <1>1 DEF QueriesInv, QueriesTypeOK, Cursor, Scan, Page
<1>3. IsFiniteSet(recorded)'
  BY <1>1, FS_AddElement DEF QueriesInv, ScanInv
<1>4. Reading'
  <2>1. ASSUME scan.step = "paging", NEW e \in before, Executed(query, e)
        PROVE  Contains(scan.events, e) \/ Behind(e, scan.cursor)'
    <3>1. Contains(scan.events, e) \/ Behind(e, scan.cursor)
      BY <2>1 DEF QueriesInv, ScanInv, Reading
    <3>2. Behind(e, scan.cursor) => Behind(e, scan.cursor)'
      <4> DEFINE c == scan.cursor
      <4>1. PICK d : d = scan.cursor /\ d = scan.cursor'
        BY <1>1
      <4>2. d \in Cursor \cup {Empty}
        BY <4>1, InvContext
      <4>3. Behind(e, d) => Behind(e, d)'
        BY <1>1, <4>2, InvContext, BehindGrows
      <4> QED BY <4>1, <4>3
    <3> QED BY <3>1, <3>2
  <2> QED BY <1>1, <2>1 DEF QueriesInv, ScanInv, Reading, Executed
<1>5. InOrder'
  BY <1>1 DEF QueriesInv, ScanInv, InOrder
<1>6. (\A e \in Events : Contains(scan.events, e) => Executed(query, e))'
  BY <1>1 DEF QueriesInv, ScanInv, Executed
<1>7. (\A page \in replies : Matching(page))'
  BY <1>1 DEF QueriesInv, ScanInv, Matching, Executed
<1> QED BY <1>2, <1>3, <1>4, <1>5, <1>6, <1>7 DEF QueriesInv, ScanInv

LEMMA BeginKeeps ==
  ASSUME QueriesInv, BeginScan
  PROVE  QueriesInv'
<1>1. /\ scan = Idle /\ replies = {}
      /\ scan' = [Idle EXCEPT !.step = "paging"]
      /\ before' = recorded
      /\ UNCHANGED <<recorded, query, cursors, replies, faults>>
  BY DEF BeginScan, QueriesInv, ScanInv, Reading
<1>2. MaxPages \in Nat \ {0}
  BY QueriesAssumption DEF QueriesAssumption
<1>3. /\ scan'.step = "paging" /\ scan'.cursor = Empty
      /\ scan'.pages = 0 /\ scan'.seen = {} /\ scan'.events = <<>>
      /\ scan' \in Scan
  <2>1. scan' = [step |-> "paging", cursor |-> Empty, pages |-> 0, seen |-> {},
                 events |-> <<>>]
    BY <1>1 DEF Idle
  <2>2. 0 \in 0 .. MaxPages /\ <<>> \in Seq(Events)
    BY <1>2
  <2> QED BY <2>1, <2>2 DEF Scan
<1>4. QueriesTypeOK'
  BY <1>1, <1>3 DEF QueriesInv, QueriesTypeOK, Cursor, Scan, Page
<1>5. Len(scan'.events) = 0
  BY <1>3
<1>6. \A e : ~ Contains(scan'.events, e)
  BY <1>5 DEF Contains
<1>7. Reading'
  BY <1>1, <1>2, <1>3 DEF Reading, Behind
<1>8. InOrder'
  BY <1>5, <1>6 DEF InOrder, Sorted, IsSorted
<1>9. IsFiniteSet(recorded)'
  BY <1>1 DEF QueriesInv, ScanInv
<1>10. (\A e \in Events : Contains(scan.events, e) => Executed(query, e))'
  BY <1>6
<1>11. (\A page \in replies : Matching(page))'
  BY <1>1
<1> QED BY <1>4, <1>7, <1>8, <1>9, <1>10, <1>11 DEF QueriesInv, ScanInv

\* A page that repeats an answer ends the scan, any other continues it.
LEMMA TakeKeeps ==
  ASSUME QueriesInv, NEW page \in Page, Matching(page), Take(page),
         faults' \in 0 .. MaxFaults,
         \/ page.cursor # Empty /\ page.cursor \in scan.seen
         \/ Continues(page)
  PROVE  QueriesInv'
<1>1. /\ scan.step = "paging"
      /\ scan' = After(page)
      /\ replies' = replies \cup {page}
      /\ UNCHANGED <<recorded, query, cursors, before>>
  BY DEF Take
<1>2. /\ scan \in Scan
      /\ scan.events \in Seq(Events) /\ page.items \in Seq(Events)
      /\ page.cursor \in Cursor \cup {Empty}
      /\ scan.cursor \in Cursor \cup {Empty}
      /\ scan.pages \in 0 .. MaxPages /\ scan.pages < MaxPages
      /\ scan.seen \subseteq Cursor
      /\ MaxPages \in Nat
      /\ ScanContext
  BY <1>1, InvContext, QueriesAssumption
     DEF QueriesInv, QueriesTypeOK, ScanInv, Reading, Scan, Page,
         QueriesAssumption
<1> DEFINE events == scan.events \o page.items
<1>3. /\ events \in Seq(Events)
      /\ \A e : Contains(events, e) <=>
                  Contains(scan.events, e) \/ Contains(page.items, e)
  BY <1>2, ConcatContains, ConcatProperties
\* The four ways the loop goes on.
<1>4. \/ scan' = [scan EXCEPT !.step = "raised"]
      \/ /\ page.cursor = Empty
         /\ scan' = [scan EXCEPT !.events = events, !.pages = @ + 1,
                                 !.step = "returned"]
      \/ /\ page.cursor # Empty
         /\ scan' = [scan EXCEPT !.events = events, !.pages = @ + 1,
                                 !.step = "raised"]
      \/ /\ page.cursor # Empty /\ page.cursor \notin scan.seen
         /\ scan' \in
              {[scan EXCEPT !.events = events, !.pages = @ + 1,
                            !.cursor = page.cursor,
                            !.seen = @ \cup {page.cursor}, !.step = step] :
                 step \in {"raised", "paging"}}
         /\ scan'.step = "paging" => scan.pages + 1 # MaxPages
  BY <1>1, <1>2 DEF After, Repeated, WithinBudget, Scan
<1>5. /\ scan' \in Scan
      /\ scan'.events \in {scan.events, events}
      /\ scan'.step # "raised" => scan'.events = events
      /\ scan'.step \in {"raised", "returned", "paging"}
      /\ scan'.step = "returned" => page.cursor = Empty
      /\ scan'.step = "paging" =>
           /\ page.cursor # Empty /\ page.cursor \notin scan.seen
           /\ scan'.cursor = page.cursor
           /\ scan'.seen = scan.seen \cup {page.cursor}
           /\ scan'.pages < MaxPages
  <2> HIDE DEF events
  <2>1. CASE scan' = [scan EXCEPT !.step = "raised"]
    BY <1>2, <2>1 DEF Scan
  <2>2. CASE /\ page.cursor = Empty
             /\ scan' = [scan EXCEPT !.events = events, !.pages = @ + 1,
                                     !.step = "returned"]
    <3>1. scan.pages + 1 \in 0 .. MaxPages
      BY <1>2
    <3>2. /\ scan' \in Scan
          /\ scan'.events = events /\ scan'.step = "returned"
      BY <1>2, <1>3, <2>2, <3>1 DEF Scan
    <3> QED BY <2>2, <3>2
  <2>3. CASE scan' = [scan EXCEPT !.events = events, !.pages = @ + 1,
                                  !.step = "raised"]
    <3>1. scan.pages + 1 \in 0 .. MaxPages
      BY <1>2
    <3>2. /\ scan' \in Scan
          /\ scan'.events = events /\ scan'.step = "raised"
      BY <1>2, <1>3, <2>3, <3>1 DEF Scan
    <3> QED BY <3>2
  <2>4. CASE /\ page.cursor # Empty /\ page.cursor \notin scan.seen
             /\ scan' \in
                  {[scan EXCEPT !.events = events, !.pages = @ + 1,
                                !.cursor = page.cursor,
                                !.seen = @ \cup {page.cursor}, !.step = step] :
                     step \in {"raised", "paging"}}
             /\ scan'.step = "paging" => scan.pages + 1 # MaxPages
    <3>1. PICK step \in {"raised", "paging"} :
            scan' = [scan EXCEPT !.events = events, !.pages = @ + 1,
                                 !.cursor = page.cursor,
                                 !.seen = @ \cup {page.cursor},
                                 !.step = step]
      BY <2>4
    <3>2. /\ scan.pages + 1 \in 0 .. MaxPages
          /\ scan.seen \cup {page.cursor} \in SUBSET Cursor
      BY <1>2, <2>4
    <3>3. /\ scan' \in Scan
          /\ scan'.events = events /\ scan'.step = step
          /\ scan'.cursor = page.cursor
          /\ scan'.seen = scan.seen \cup {page.cursor}
          /\ scan'.pages = scan.pages + 1
      BY <1>2, <1>3, <3>1, <3>2 DEF Scan
    <3> QED BY <1>2, <2>4, <3>2, <3>3
  <2> QED BY <1>4, <2>1, <2>2, <2>3, <2>4
<1>6. scan'.step # "raised" => Continues(page)
  BY <1>5
<1> HIDE DEF events
<1>7. \A e \in Events : Contains(scan'.events, e) => Executed(query, e)
  BY <1>3, <1>5 DEF QueriesInv, ScanInv, Matching
<1>8. QueriesTypeOK'
  BY <1>1, <1>2, <1>5 DEF QueriesInv, QueriesTypeOK, Cursor, Scan, Page
<1>9. \A e \in before :
        Executed(query, e) =>
          Contains(scan.events, e) \/ Behind(e, scan.cursor)
  BY <1>1 DEF QueriesInv, ScanInv, Reading
<1>10. ASSUME scan'.step # "raised", NEW e \in before, Executed(query, e)
       PROVE  \/ Contains(scan'.events, e)
              \/ page.cursor # Empty /\ Behind(e, page.cursor)
  <2>1. e \in Found(recorded)
    BY <1>10 DEF QueriesInv, QueriesTypeOK, Found
  <2> QED BY <1>3, <1>5, <1>6, <1>9, <1>10, <2>1 DEF Continues
<1>11. \A e : Behind(e, page.cursor) <=> Behind(e, page.cursor)'
  BY <1>1 DEF Behind, Found, InFront, Executed
<1>12. Reading'
  <2>1. scan'.step # "idle"
    BY <1>5
  <2>2. ASSUME scan'.step = "paging"
        PROVE  /\ scan'.pages < MaxPages
               /\ scan'.cursor # Empty
               /\ \A p \in replies' : p.cursor # Empty /\ p.cursor \in scan'.seen
               /\ \A e \in before :
                    Executed(query, e) =>
                      Contains(scan'.events, e) \/ Behind(e, page.cursor)
    <3>1. \A p \in replies : p.cursor # Empty /\ p.cursor \in scan.seen
      BY <1>1 DEF QueriesInv, ScanInv, Reading
    <3>2. \A p \in replies' : p.cursor # Empty /\ p.cursor \in scan'.seen
      BY <1>1, <1>5, <2>2, <3>1
    <3> QED BY <1>5, <1>10, <2>2, <3>2
  <2>3. ASSUME scan'.step = "paging"
        PROVE  \A e : Behind(e, page.cursor) => Behind(e, scan.cursor)'
    BY <1>5, <1>11, <2>3 DEF Behind
  <2>4. ASSUME scan'.step = "returned", NEW e \in before, Executed(query, e)
        PROVE  Contains(scan'.events, e)
    BY <1>5, <1>10, <2>4
  <2> QED BY <1>1, <2>1, <2>2, <2>3, <2>4 DEF Reading, Executed
<1>13. InOrder'
  <2> SUFFICES ASSUME cursors = "keyset", scan'.step # "raised"
               PROVE  /\ Sorted(scan'.events)
                      /\ scan'.step = "paging" =>
                           \A e \in Events :
                             Contains(scan'.events, e) =>
                               e = scan'.cursor \/ Precedes(e, scan'.cursor)
    BY <1>1 DEF InOrder
  <2>1. /\ Sorted(scan.events)
        /\ \A e \in Events :
             Contains(scan.events, e) =>
               e = scan.cursor \/ Precedes(e, scan.cursor)
        /\ scan.cursor = Empty => scan.events = <<>>
    BY <1>1 DEF QueriesInv, ScanInv, Reading, InOrder
  <2>2. /\ Sorted(page.items)
        /\ scan.cursor # Empty =>
             \A e \in Events :
               Contains(page.items, e) => Precedes(scan.cursor, e)
        /\ page.cursor # Empty =>
             /\ Contains(page.items, page.cursor)
             /\ \A e \in Events :
                  Contains(page.items, e) =>
                    e = page.cursor \/ Precedes(e, page.cursor)
    BY <1>6 DEF Continues
  <2>3. scan.cursor # Empty => scan.cursor \in Events
    BY <1>2, CursorTypes
  <2>4. ASSUME NEW e \in Events, NEW f \in Events,
               Contains(scan.events, e), Contains(page.items, f)
        PROVE  Precedes(e, f)
    <3>1. scan.cursor # Empty
      <4> SUFFICES ASSUME scan.cursor = Empty PROVE FALSE
        OBVIOUS
      <4>1. Len(scan.events) = 0
        BY <2>1
      <4> QED BY <2>4, <4>1 DEF Contains
    <3> QED BY <2>1, <2>2, <2>3, <2>4, <3>1, OrderIsStrict
  <2>5. Sorted(scan'.events)
    BY <1>2, <1>5, <2>1, <2>2, <2>4, ConcatSorted DEF events
  <2>6. ASSUME scan'.step = "paging", NEW e \in Events, Contains(scan'.events, e)
        PROVE  e = page.cursor \/ Precedes(e, page.cursor)
    <3>1. page.cursor # Empty /\ page.cursor \in Events
      BY <1>2, <1>5, <2>6, CursorTypes
    <3>2. CASE Contains(page.items, e)
      BY <2>2, <3>1, <3>2
    <3>3. CASE Contains(scan.events, e)
      BY <2>2, <2>4, <3>1, <3>3
    <3> QED BY <1>3, <1>5, <2>6, <3>2, <3>3
  <2> QED BY <1>5, <2>5, <2>6
<1>14. IsFiniteSet(recorded)'
  BY <1>1 DEF QueriesInv, ScanInv
<1>15. (\A e \in Events : Contains(scan.events, e) => Executed(query, e))'
  BY <1>1, <1>7 DEF Executed
<1>16. (\A p \in replies : Matching(p))'
  BY <1>1 DEF QueriesInv, ScanInv, Matching, Executed
<1> QED BY <1>8, <1>12, <1>13, <1>14, <1>15, <1>16 DEF QueriesInv, ScanInv

LEMMA NextKeeps ==
  ASSUME QueriesInv, [QueriesNext]_queryVars
  PROVE  QueriesInv'
<1>1. ASSUME NEW x \in Events, RecordEvent(x)
      PROVE  QueriesInv'
  BY <1>1, RecordKeeps
<1>2. CASE BeginScan
  BY <1>2, BeginKeeps
<1>3. CASE ReadPage
  <2>1. faults' \in 0 .. MaxFaults
    BY <1>3 DEF ReadPage, QueriesInv, QueriesTypeOK
  <2>2. Take(Answer(scan.cursor))
    BY <1>3 DEF ReadPage
  <2> HIDE DEF Answer
  <2> QED BY <2>1, <2>2, InvContext, AnswerContinues, TakeKeeps
<1>4. CASE ReadBadPage
  <2>1. PICK page \in BadAnswers(scan.cursor) : Take(page)
    BY <1>4 DEF ReadBadPage
  <2>2. faults' \in 0 .. MaxFaults
    BY <1>4, QueriesAssumption
       DEF ReadBadPage, QueriesInv, QueriesTypeOK, QueriesAssumption
  <2>3. CASE page \in replies
    <3>1. page \in Page /\ Matching(page)
      BY <2>3 DEF QueriesInv, QueriesTypeOK, ScanInv
    <3>2. page.cursor # Empty /\ page.cursor \in scan.seen
      BY <2>1, <2>3 DEF Take, QueriesInv, ScanInv, Reading
    <3> QED BY <2>1, <2>2, <3>1, <3>2, TakeKeeps
  <2>4. CASE page = [items |-> Rest(scan.cursor), cursor |-> Empty]
    <3>1. page \in Page /\ Matching(page) /\ Continues(page)
      BY <2>4, InvContext, RestContinues
    <3> QED BY <2>1, <2>2, <3>1, TakeKeeps
  <2> QED BY <2>1, <2>3, <2>4 DEF BadAnswers
<1>5. CASE UNCHANGED queryVars
  BY <1>5 DEF queryVars, QueriesInv, QueriesTypeOK, Cursor, Scan, Page, ScanInv,
              Reading, InOrder, Matching, Behind, InFront, Found, Executed
<1> QED BY <1>1, <1>2, <1>3, <1>4, <1>5 DEF QueriesNext

-----------------------------------------------------------------------------
(* The theorems *)

LEMMA InvAlways == QueriesSpec => []QueriesInv
<1>1. QueriesInv /\ [QueriesNext]_queryVars => QueriesInv'
  BY NextKeeps
<1> QED BY InitScan, <1>1, PTL DEF QueriesSpec

\* A scan, its cursor and the answers of the store have the types that the code
\* gives them, and a scan never reads more pages than its budget.
THEOREM TypeCorrect == QueriesSpec => []QueriesTypeOK
<1>1. QueriesInv => QueriesTypeOK
  BY DEF QueriesInv
<1> QED BY InvAlways, <1>1, PTL

\* scan_events: a scan that returns has every event that its public plan asks for
\* and that was recorded when it began, whatever is recorded between its pages,
\* with both kinds of cursors, and though answers come again or ignore the limit.
THEOREM ScansAreComplete == QueriesSpec => []ScanIsComplete
<1>1. QueriesInv => ScanIsComplete
  <2> SUFFICES ASSUME QueriesInv, ScanReturned,
                      NEW e \in before, Planned(query, e)
               PROVE  Contains(scan.events, e)
    BY DEF ScanIsComplete
  <2>1. Executed(query, e)
    BY FormsAgree DEF QueriesInv, QueriesTypeOK
  <2> QED BY <2>1 DEF QueriesInv, ScanInv, Reading, ScanReturned
<1> QED BY InvAlways, <1>1, PTL

\* scan_events: what it reads is what the public plan asks for, of the scope and
\* the closed-open window of the query alone; with keyset cursors each event comes
\* once and in the order of the query.
THEOREM ScansAreSound == QueriesSpec => []ScanIsSound
<1>1. QueriesInv => ScanIsSound
  <2> SUFFICES ASSUME QueriesInv PROVE ScanIsSound
    OBVIOUS
  <2>1. scan.events \in Seq(Events) /\ query \in Queries
    BY DEF QueriesInv, QueriesTypeOK, Scan
  <2>2. ASSUME NEW e \in ToSet(scan.events)
        PROVE  /\ Planned(query, e)
               /\ e.scope = query.scope
               /\ query.window.start <= e.start
               /\ e.start < query.window.end
    <3>1. e \in Events /\ Contains(scan.events, e)
      BY <2>1 DEF ToSet, Contains
    <3>2. Executed(query, e)
      BY <3>1 DEF QueriesInv, ScanInv
    <3> QED BY <2>1, <3>1, <3>2, FormsAgree, QueryIsBound
  <2>3. ASSUME ScanReturned, cursors = "keyset",
               NEW i \in 1 .. Len(scan.events) - 1
        PROVE  Precedes(scan.events[i], scan.events[i + 1])
    <3>1. Sorted(scan.events)
      BY <2>3 DEF QueriesInv, ScanInv, InOrder, ScanReturned
    <3>2. /\ i \in 1 .. Len(scan.events) /\ i + 1 \in 1 .. Len(scan.events)
          /\ i < i + 1
      BY <2>1
    <3> QED BY <3>1, <3>2 DEF Sorted, IsSorted
  <2> QED BY <2>2, <2>3 DEF ScanIsSound
<1> QED BY InvAlways, <1>1, PTL

===============================================================================
