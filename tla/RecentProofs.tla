---------------------------- MODULE RecentProofs ----------------------------
(***************************************************************************)
(* The table of recent locations, for every number of tasks, locations and *)
(* every limit: it stays bounded, lists the newest location and, without   *)
(* faults, holds what the reference says.                                  *)
(***************************************************************************)
EXTENDS RecentLocations, FiniteSetTheorems, WellFoundedInduction, TLAPS

\* The rows of S with fewer than n newer ones: what a prune keeps.
TopOf(S, n) == {i \in S : Cardinality({j \in S : j > i}) < n}

\* A finite set of numbers that is not empty has a least element ...
LEMMA LeastOf ==
  ASSUME NEW S \in SUBSET Nat, S # {}
  PROVE  \E m \in S : \A i \in S : m <= i
<1>1. PICK m \in S : \A y \in S : ~(<<y, m>> \in OpToRel(<, Nat))
  BY NatLessThanWellFounded, WFMin
<1>2. \A y \in S : ~(y < m)
  BY <1>1 DEF OpToRel
<1> QED
  BY <1>2

\* ... and a greatest one.
LEMMA GreatestOf ==
  ASSUME NEW S \in SUBSET Nat, S # {}, NEW n \in Nat, \A i \in S : i <= n
  PROVE  \E m \in S : \A i \in S : i <= m
<1> DEFINE D == {n - i : i \in S}
<1>1. \A i \in S : n - i \in Nat
  OBVIOUS
<1>a. D \in SUBSET Nat /\ D # {}
  BY <1>1
<1>2. PICK d \in D : \A e \in D : d <= e
  BY <1>a, LeastOf
<1>3. PICK m \in S : d = n - m
  BY <1>2
<1>4. \A i \in S : d <= n - i
  BY <1>2
<1> QED
  BY <1>3, <1>4

\* A prune keeps at most n rows ...
LEMMA TopAtMost ==
  ASSUME NEW S \in SUBSET Nat, IsFiniteSet(S), NEW n \in Nat
  PROVE  /\ IsFiniteSet(TopOf(S, n)) /\ Cardinality(TopOf(S, n)) <= n
<1> DEFINE K == TopOf(S, n)
           Above(i) == {j \in S : j > i}
<1>1. K \in SUBSET S /\ IsFiniteSet(K)
  BY FS_Subset DEF TopOf
<1>2. CASE K = {}
  BY <1>2, FS_EmptySet
<1>3. CASE K # {}
  <2>1. PICK m \in K : \A i \in K : m <= i
    BY <1>1, <1>3, LeastOf
  <2>2. IsFiniteSet(Above(m)) /\ Cardinality(Above(m)) \in Nat
    BY FS_Subset, FS_CardinalityType
  <2>3. Cardinality(Above(m)) < n
    BY <2>1 DEF TopOf
  <2>4. K \in SUBSET (Above(m) \cup {m})
    <3> HIDE DEF K
    <3>1. \A i \in K : i \in S /\ i \in Nat /\ m \in Nat /\ (i > m \/ i = m)
      BY <1>1, <2>1
    <3> QED
      BY <3>1
  <2>5. /\ IsFiniteSet(Above(m) \cup {m})
        /\ Cardinality(Above(m) \cup {m}) = Cardinality(Above(m)) + 1
    <3> HIDE DEF K
    <3>1. m \in Nat /\ m \notin Above(m)
      BY <1>1, <2>1
    <3> HIDE DEF Above
    <3> QED
      BY <2>2, <3>1, FS_AddElement
  <2>6. Cardinality(K) <= Cardinality(Above(m)) + 1 /\ Cardinality(K) \in Nat
    BY <1>1, <2>4, <2>5, FS_Subset, FS_CardinalityType
  <2> HIDE DEF Above, K
  <2>7. Cardinality(K) <= n
    BY <2>2, <2>3, <2>6
  <2> QED
    BY <1>1, <2>7 DEF K
<1> QED
  BY <1>2, <1>3

\* ... and that many if there are.
LEMMA TopAtLeast ==
  ASSUME NEW S \in SUBSET Nat, IsFiniteSet(S), NEW b \in Nat, \A i \in S : i <= b,
         NEW n \in Nat, Cardinality(S) >= n
  PROVE  Cardinality(TopOf(S, n)) >= n
<1> DEFINE K == TopOf(S, n)
           Above(i) == {j \in S : j > i}
<1>1. K \in SUBSET S /\ IsFiniteSet(K) /\ Cardinality(K) \in Nat
  BY FS_Subset, FS_CardinalityType DEF TopOf
<1>2. CASE S \ K = {}
  <2>1. K = S
    BY <1>1, <1>2
  <2> QED
    BY <2>1
<1>3. CASE S \ K # {}
  <2>1. PICK m \in S \ K : \A i \in S \ K : i <= m
    BY <1>3, GreatestOf
  <2>2. Above(m) \in SUBSET K
    <3> HIDE DEF K
    <3>1. \A j \in S : j \in Nat /\ m \in Nat /\ (j > m => j \in K)
      BY <2>1
    <3> QED
      BY <3>1
  <2>3. Cardinality(Above(m)) \in Nat /\ ~(Cardinality(Above(m)) < n)
    BY <2>1, FS_Subset, FS_CardinalityType DEF TopOf
  <2>4. Cardinality(Above(m)) <= Cardinality(K)
    BY <1>1, <2>2, FS_Subset
  <2> HIDE DEF Above, K
  <2>5. Cardinality(K) >= n
    BY <1>1, <2>3, <2>4
  <2> QED
    BY <2>5 DEF K
<1> QED
  BY <1>2, <1>3
-----------------------------------------------------------------------------
\* The row inserted last is never pruned, only deleted with all rows of its
\* location.
NewestKept ==
  code # <<>> =>
    Len(code) \in rows \/ code[Len(code)] \in CodesAt("insert") \cup lost

\* Without doubled inserts a row is the last of its location.
RowsAreLast == ~doubled => rows \subseteq LastRows

NoneSkipped == faults = 0 => skipped = 0

\* Rows the reference does not list.
NewerLast(i) == {j \in LastRows : j > i}
Deep(i) == Cardinality(NewerLast(i)) >= RecentLimit

\* A last row that is not in the table is about to be inserted again, or
\* has been pruned, and then enough locations are newer and stay so.
MissingExplained ==
  faults = 0 /\ ~doubled =>
    \A i \in LastRows \ rows : code[i] \in CodesAt("insert") \/ Deep(i)

RecentInv ==
  /\ TypeOK /\ BoundedRows /\ NewestKept
  /\ RowsAreLast /\ NoneSkipped /\ MissingExplained

\* The invariant holds initially.
LEMMA InitRecent == Init => RecentInv
<1> SUFFICES ASSUME Init PROVE RecentInv
  OBVIOUS
<1> USE RecentAssumption DEF Init
<1>1. TypeOK
  <2>1. code \in Seq(Code) /\ Len(code) = 0
    OBVIOUS
  <2>2. task \in [Task -> {Idle} \cup [next : Statement, loc : Code]]
    OBVIOUS
  <2>3. faults \in 0..MaxFaults /\ skipped \in Nat /\ Len(code) <= MaxRows
    BY <2>1
  <2>4. rows \subseteq 1..Len(code) /\ lost \subseteq Code /\ doubled \in BOOLEAN
    OBVIOUS
  <2> HIDE DEF Init
  <2> QED
    BY <2>1, <2>2, <2>3, <2>4 DEF TypeOK
<1>2. BoundedRows
  <2>1. IsFiniteSet(At("prune")) /\ Cardinality(At("prune")) \in Nat
    BY FS_Subset, FS_CardinalityType DEF At
  <2>2. Cardinality(rows) = 0
    BY FS_EmptySet
  <2> QED
    BY <2>1, <2>2 DEF BoundedRows
<1>3. LastRows = {}
  BY DEF LastRows
<1> QED
  BY <1>1, <1>2, <1>3
     DEF RecentInv, NewestKept, RowsAreLast, NoneSkipped, MissingExplained

\* Tasks under way have a location.
LEMMA AtType ==
  ASSUME TypeOK, NEW s \in Statement, NEW t \in At(s)
  PROVE  t \in Task /\ task[t].loc \in Code
         /\ task[t] \in [next : Statement, loc : Code]
BY DEF TypeOK, At, Idle, Statement

\* The table is finite.
LEMMA RowsFinite ==
  ASSUME TypeOK
  PROVE  /\ rows \in SUBSET Nat /\ IsFiniteSet(rows) /\ Cardinality(rows) \in Nat
         /\ Len(code) \in Nat /\ \A i \in rows : i <= Len(code)
<1>1. Len(code) \in Nat /\ rows \in SUBSET (1..Len(code))
  BY DEF TypeOK
<1>2. IsFiniteSet(rows)
  <2>1. IsFiniteSet(1..Len(code))
    BY <1>1, FS_Interval
  <2> QED
    BY <1>1, <2>1, FS_Subset
<1> QED
  BY <1>1, <1>2, FS_CardinalityType

\* Every step keeps the types.
LEMMA TypeStep ==
  ASSUME TypeOK, [Next]_vars
  PROVE  TypeOK'
<1> USE RecentAssumption DEF TypeOK
<1>1. ASSUME NEW t \in Task, NEW l \in Code, OnConnect(t, l)
      PROVE  TypeOK'
  BY <1>1 DEF OnConnect, Statement
<1>2. ASSUME NEW t \in Task, Delete(t)
      PROVE  TypeOK'
  BY <1>2, AtType DEF Delete, Statement
<1>3. ASSUME NEW t \in Task, Insert(t)
      PROVE  TypeOK'
  <2>1. task[t].loc \in Code /\ task[t] \in [next : Statement, loc : Code]
    BY <1>3, AtType DEF Insert, Statement
  <2>2. code' \in Seq(Code) /\ Len(code') = Len(code) + 1 /\ Len(code') <= MaxRows
    BY <1>3, <2>1 DEF Insert
  <2>3. rows' \subseteq 1..Len(code')
    BY <1>3, <2>2 DEF Insert
  <2>4. task' \in [Task -> {Idle} \cup [next : Statement, loc : Code]]
    BY <1>3, <2>1 DEF Insert, Statement
  <2>5. doubled' \in BOOLEAN
    BY <1>3, Zenon DEF Insert
  <2> QED
    BY <1>3, <2>2, <2>3, <2>4, <2>5 DEF Insert
<1>4. ASSUME NEW t \in Task, Prune(t)
      PROVE  TypeOK'
  BY <1>4 DEF Prune
<1>5. ASSUME NEW ts \in SUBSET Task, End(ts)
      PROVE  TypeOK'
  <2>1. Cardinality(At("prune") \cap ts) \in Nat
    BY FS_Subset, FS_CardinalityType DEF At
  <2>2. {task[t].loc : t \in At("insert") \cap ts} \subseteq Code
    BY AtType DEF Statement
  <2> QED
    BY <1>5, <2>1, <2>2 DEF End
<1>6. CASE UNCHANGED vars
  BY <1>6 DEF vars
<1> QED
  BY <1>1, <1>2, <1>3, <1>4, <1>5, <1>6 DEF Next, StatementFails, Restart

\* A location's rows are deleted and the newest ones kept: what is left of
\* the table and of the tasks that will prune it.
LEMMA BoundedStep ==
  ASSUME TypeOK, BoundedRows, [Next]_vars
  PROVE  BoundedRows'
<1> USE RecentAssumption
<1>0. /\ IsFiniteSet(At("prune")) /\ Cardinality(At("prune")) \in Nat
      /\ IsFiniteSet(rows) /\ Cardinality(rows) \in Nat /\ skipped \in Nat
  BY RowsFinite, FS_Subset, FS_CardinalityType DEF At, TypeOK
<1>1. ASSUME NEW t \in Task, NEW l \in Code, OnConnect(t, l)
      PROVE  BoundedRows'
  <2>1. At("prune")' = At("prune")
    BY <1>1 DEF OnConnect, At, TypeOK, Idle
  <2> QED
    BY <1>1, <2>1 DEF OnConnect, BoundedRows
<1>2. ASSUME NEW t \in Task, Delete(t)
      PROVE  BoundedRows'
  <2>1. At("prune")' = At("prune")
    BY <1>2 DEF Delete, At, TypeOK, Idle, Statement
  <2>2. rows' \in SUBSET rows /\ skipped' = skipped
    BY <1>2 DEF Delete
  <2>3. Cardinality(rows') <= Cardinality(rows) /\ Cardinality(rows') \in Nat
    BY <1>0, <2>2, FS_Subset, FS_CardinalityType
  <2> QED
    BY <1>0, <2>1, <2>2, <2>3 DEF BoundedRows
<1>3. ASSUME NEW t \in Task, Insert(t)
      PROVE  BoundedRows'
  <2>1. At("prune")' = At("prune") \cup {t} /\ t \notin At("prune")
    BY <1>3 DEF Insert, At, TypeOK, Idle, Statement
  <2>2. Cardinality(At("prune")') = Cardinality(At("prune")) + 1
    BY <1>0, <2>1, FS_AddElement
  <2>3. rows' = rows \cup {Len(code) + 1} /\ skipped' = skipped
    BY <1>3 DEF Insert
  <2>4. Cardinality(rows') <= Cardinality(rows) + 1 /\ Cardinality(rows') \in Nat
    <3>1. /\ IsFiniteSet(rows')
          /\ Cardinality(rows') = IF Len(code) + 1 \in rows THEN Cardinality(rows)
                                  ELSE Cardinality(rows) + 1
      BY <1>0, <2>3, FS_AddElement
    <3> QED
      BY <1>0, <3>1
  <2> QED
    BY <1>0, <2>2, <2>3, <2>4 DEF BoundedRows
<1>4. ASSUME NEW t \in Task, Prune(t)
      PROVE  BoundedRows'
  <2>1. rows' = TopOf(rows, RecentLimit) /\ skipped' = 0
    BY <1>4 DEF Prune, TopOf, Newer
  <2>2. Cardinality(rows') <= RecentLimit /\ Cardinality(rows') \in Nat
    BY <2>1, RowsFinite, TopAtMost, FS_CardinalityType
  <2>3. Cardinality(At("prune")') \in Nat
    BY FS_Subset, FS_CardinalityType DEF At
  <2> QED
    BY <2>1, <2>2, <2>3 DEF BoundedRows
<1>5. ASSUME NEW ts \in SUBSET Task, End(ts)
      PROVE  BoundedRows'
  <2>1. At("prune")' = At("prune") \ ts
    BY <1>5 DEF End, At, TypeOK, Idle
  <2>2. /\ Cardinality(At("prune") \ ts)
             = Cardinality(At("prune")) - Cardinality(At("prune") \cap ts)
        /\ Cardinality(At("prune") \cap ts) \in Nat
    BY <1>0, FS_Difference, FS_Intersection, FS_CardinalityType
  <2>3. rows' = rows /\ skipped' = skipped + Cardinality(At("prune") \cap ts)
    BY <1>5 DEF End
  <2>4. Cardinality(At("prune")') + skipped' = Cardinality(At("prune")) + skipped
    BY <1>0, <2>1, <2>2, <2>3
  <2>5. Cardinality(rows) <= RecentLimit + (Cardinality(At("prune")) + skipped)
    BY <1>0 DEF BoundedRows
  <2>6. Cardinality(At("prune")') \in Nat /\ skipped' \in Nat
    BY <1>0, <2>1, <2>2, <2>3, FS_Subset, FS_CardinalityType
  <2> QED
    BY <1>0, <2>3, <2>4, <2>5, <2>6 DEF BoundedRows
<1>6. CASE UNCHANGED vars
  BY <1>6 DEF vars, BoundedRows, At
<1> QED
  BY <1>1, <1>2, <1>3, <1>4, <1>5, <1>6 DEF Next, StatementFails, Restart

\* Every step keeps the newest row.
LEMMA NewestStep ==
  ASSUME TypeOK, NewestKept, [Next]_vars
  PROVE  NewestKept'
<1> USE RecentAssumption
<1>1. ASSUME NEW t \in Task, NEW l \in Code, OnConnect(t, l)
      PROVE  NewestKept'
  <2>1. \A u \in At("insert") : u \in At("insert")' /\ task'[u].loc = task[u].loc
    BY <1>1 DEF OnConnect, At, TypeOK, Idle
  <2> QED
    BY <1>1, <2>1 DEF OnConnect, NewestKept, CodesAt
<1>2. ASSUME NEW t \in Task, Delete(t)
      PROVE  NewestKept'
  <2>1. \A u \in At("insert") \cup {t} :
           u \in At("insert")' /\ task'[u].loc = task[u].loc
    BY <1>2 DEF Delete, At, TypeOK, Idle, Statement
  <2>2. /\ code' = code /\ lost' = lost
        /\ rows' = {i \in rows : code[i] # task[t].loc}
    BY <1>2 DEF Delete
  <2> QED
    BY <2>1, <2>2 DEF NewestKept, CodesAt
<1>3. ASSUME NEW t \in Task, Insert(t)
      PROVE  NewestKept'
  <2>1. Len(code') = Len(code) + 1
    BY <1>3, AtType DEF Insert, Statement, TypeOK
  <2> QED
    BY <1>3, <2>1 DEF Insert, NewestKept
<1>4. ASSUME NEW t \in Task, Prune(t)
      PROVE  NewestKept'
  <2>1. \A u \in At("insert") : u \in At("insert")' /\ task'[u].loc = task[u].loc
    BY <1>4 DEF Prune, At, TypeOK, Idle
  <2>2. Newer(Len(code)) = {}
    BY RowsFinite DEF Newer
  <2>3. Len(code) \in rows => Len(code) \in rows'
    <3>1. Cardinality(Newer(Len(code))) < RecentLimit
      BY <2>2, FS_EmptySet
    <3> QED
      BY <1>4, <3>1 DEF Prune
  <2> QED
    BY <1>4, <2>1, <2>3 DEF Prune, NewestKept, CodesAt
<1>5. ASSUME NEW ts \in SUBSET Task, End(ts)
      PROVE  NewestKept'
  <2>1. \A u \in At("insert") :
          \/ u \in At("insert")' /\ task'[u].loc = task[u].loc
          \/ task[u].loc \in lost'
    BY <1>5 DEF End, At, TypeOK
  <2> QED
    BY <1>5, <2>1 DEF End, NewestKept, CodesAt
<1>6. CASE UNCHANGED vars
  BY <1>6 DEF vars, NewestKept, CodesAt, At
<1> QED
  BY <1>1, <1>2, <1>3, <1>4, <1>5, <1>6 DEF Next, StatementFails, Restart
-----------------------------------------------------------------------------
\* The last rows are ids of rows.
LEMMA LastRowsFinite ==
  ASSUME TypeOK
  PROVE  /\ LastRows \in SUBSET Nat /\ IsFiniteSet(LastRows)
         /\ \A i \in LastRows : i <= Len(code)
         /\ \A i : /\ IsFiniteSet(NewerLast(i)) /\ Cardinality(NewerLast(i)) \in Nat
                   /\ NewerLast(i) \in SUBSET Nat
<1>1. Len(code) \in Nat /\ LastRows \in SUBSET (1..Len(code))
  BY DEF LastRows, TypeOK
<1>2. IsFiniteSet(LastRows)
  <2>1. IsFiniteSet(1..Len(code))
    BY <1>1, FS_Interval
  <2> QED
    BY <1>1, <2>1, FS_Subset
<1>3. \A i : NewerLast(i) \in SUBSET LastRows
  BY DEF NewerLast
<1>4. ASSUME NEW i
      PROVE  IsFiniteSet(NewerLast(i)) /\ Cardinality(NewerLast(i)) \in Nat
  BY <1>2, <1>3, FS_Subset, FS_CardinalityType
<1>5. LastRows \in SUBSET Nat /\ \A i \in LastRows : i <= Len(code)
  BY <1>1
<1> QED
  BY <1>2, <1>3, <1>4, <1>5

\* An insert makes its row the last of its location.
LEMMA LastRowsInsert ==
  ASSUME TypeOK, NEW t \in Task, Insert(t)
  PROVE  /\ Len(code) + 1 \in LastRows' /\ code'[Len(code) + 1] = task[t].loc
         /\ \A i \in LastRows' \ {Len(code) + 1} :
               i \in LastRows /\ code'[i] = code[i] /\ code[i] # task[t].loc
         /\ \A i \in LastRows :
               code[i] # task[t].loc => i \in LastRows'
<1>1. /\ code \in Seq(Code) /\ Len(code) \in Nat /\ task[t].loc \in Code
      /\ code' = Append(code, task[t].loc)
  BY AtType DEF TypeOK, Insert, Statement
<1>2. /\ DOMAIN code' = 1..(Len(code) + 1) /\ DOMAIN code = 1..Len(code)
      /\ code'[Len(code) + 1] = task[t].loc
      /\ \A i \in DOMAIN code : code'[i] = code[i]
  BY <1>1
<1> QED
  BY <1>1, <1>2 DEF LastRows

\* Two different last rows are of different locations.
LEMMA LastRowsDiffer ==
  ASSUME TypeOK, NEW i \in LastRows, NEW j \in LastRows, code[i] = code[j]
  PROVE  i = j
<1>1. i \in Nat /\ j \in Nat /\ i \in DOMAIN code /\ j \in DOMAIN code
  BY LastRowsFinite DEF LastRows
<1>2. ~(i > j) /\ ~(j > i)
  BY <1>1 DEF LastRows
<1> QED
  BY <1>1, <1>2

\* The locations newer than a last row only grow.
LEMMA DeepStaysDeep ==
  ASSUME TypeOK, TypeOK', NEW t \in Task, Insert(t), NEW i \in LastRows, Deep(i)
  PROVE  Deep(i)'
<1> DEFINE A == NewerLast(i)
           n == Len(code) + 1
           Same == {j \in A : code[j] = task[t].loc}
<1>1. /\ n \in Nat /\ i \in Nat /\ n > i /\ IsFiniteSet(A) /\ A \in SUBSET Nat
      /\ \A j \in A : j # n
  <2>1. Len(code) \in Nat /\ i \in Nat /\ i <= Len(code)
    BY LastRowsFinite DEF TypeOK
  <2>2. \A j \in A : j \in Nat /\ j <= Len(code)
    BY LastRowsFinite DEF NewerLast
  <2>3. IsFiniteSet(A)
    BY LastRowsFinite
  <2> HIDE DEF A
  <2> QED
    BY <2>1, <2>2, <2>3
<1>2. n \in NewerLast(i)'
  BY <1>1, LastRowsInsert DEF NewerLast
<1>3. A \ Same \in SUBSET NewerLast(i)'
  BY LastRowsInsert DEF NewerLast
<1>4. /\ IsFiniteSet(A \ Same) /\ n \notin A \ Same
      /\ Cardinality(A) - 1 <= Cardinality(A \ Same)
      /\ Cardinality(A) \in Nat /\ Cardinality(A \ Same) \in Nat
  <2>1. CASE Same = {}
    <3>1. A \ Same = A
      BY <2>1
    <3>2. Cardinality(A) \in Nat
      BY <1>1, FS_CardinalityType
    <3> HIDE DEF A, Same, n
    <3> QED
      BY <1>1, <3>1, <3>2
  <2>2. CASE Same # {}
    <3>1. PICK j \in Same : TRUE
      BY <2>2
    <3>2. Same = {j}
      BY <3>1, LastRowsDiffer DEF NewerLast
    <3>3. /\ IsFiniteSet(A \ {j}) /\ Cardinality(A \ {j}) = Cardinality(A) - 1
          /\ Cardinality(A) \in Nat /\ Cardinality(A \ {j}) \in Nat
      BY <1>1, <3>1, FS_RemoveElement, FS_CardinalityType
    <3> HIDE DEF A, Same, n
    <3> QED
      BY <1>1, <3>2, <3>3
  <2> QED
    BY <2>1, <2>2
<1>5. /\ IsFiniteSet((A \ Same) \cup {n})
      /\ Cardinality((A \ Same) \cup {n}) = Cardinality(A \ Same) + 1
  BY <1>4, FS_AddElement
<1>6. (A \ Same) \cup {n} \in SUBSET NewerLast(i)'
  BY <1>2, <1>3
<1>7. IsFiniteSet(NewerLast(i)')
  <2>1. Len(code') \in Nat /\ NewerLast(i)' \in SUBSET (1..Len(code'))
    BY DEF NewerLast, LastRows, TypeOK
  <2>2. IsFiniteSet(1..Len(code'))
    BY <2>1, FS_Interval
  <2> QED
    BY <2>1, <2>2, FS_Subset
<1>8. /\ Cardinality((A \ Same) \cup {n}) <= Cardinality(NewerLast(i)')
      /\ Cardinality(NewerLast(i)') \in Nat
  BY <1>6, <1>7, FS_Subset, FS_CardinalityType
<1> HIDE DEF A, Same, n
<1>9. Cardinality(NewerLast(i)') >= Cardinality(A)
  BY <1>4, <1>5, <1>8
<1> QED
  BY <1>4, <1>8, <1>9, RecentAssumption DEF Deep, A

\* Every step keeps RowsAreLast.
LEMMA LastStep ==
  ASSUME TypeOK, RowsAreLast, [Next]_vars
  PROVE  RowsAreLast'
<1>1. ASSUME NEW t \in Task, Insert(t)
      PROVE  RowsAreLast'
  <2> SUFFICES ASSUME ~doubled', NEW i \in rows' PROVE i \in LastRows'
    BY DEF RowsAreLast
  <2>1. ~doubled /\ ~(\E k \in rows : code[k] = task[t].loc)
    BY <1>1, Zenon DEF Insert
  <2>2. rows' = rows \cup {Len(code) + 1}
    BY <1>1 DEF Insert
  <2> QED
    BY <1>1, <2>1, <2>2, LastRowsInsert DEF RowsAreLast
<1>2. ASSUME code' = code, doubled' = doubled, rows' \subseteq rows
      PROVE  RowsAreLast'
  BY <1>2 DEF RowsAreLast, LastRows
<1>3. ASSUME NEW t \in Task, Delete(t) \/ Prune(t)
      PROVE  RowsAreLast'
  BY <1>2, <1>3 DEF Delete, Prune
<1> QED
  BY <1>1, <1>2, <1>3
     DEF Next, OnConnect, StatementFails, Restart, End, vars

\* Every step keeps MissingExplained.
LEMMA MissingStep ==
  ASSUME TypeOK, TypeOK', RowsAreLast, MissingExplained, [Next]_vars
  PROVE  MissingExplained'
<1> USE RecentAssumption
<1> SUFFICES ASSUME faults' = 0, ~doubled', NEW i \in LastRows', i \notin rows'
             PROVE  code'[i] \in CodesAt("insert")' \/ Deep(i)'
  BY DEF MissingExplained
<1>1. ASSUME NEW t \in Task, Insert(t)
      PROVE  code'[i] \in CodesAt("insert")' \/ Deep(i)'
  <2>1. /\ i \in LastRows /\ i \notin rows /\ code'[i] = code[i]
        /\ code[i] # task[t].loc
    BY <1>1, LastRowsInsert DEF Insert
  <2>2. faults = 0 /\ ~doubled
    BY <1>1, Zenon DEF Insert
  <2>3. CASE Deep(i)
    BY <1>1, <2>1, <2>3, DeepStaysDeep
  <2>4. CASE code[i] \in CodesAt("insert")
    <3>1. PICK u \in At("insert") : task[u].loc = code[i]
      BY <2>4 DEF CodesAt
    <3>2. u # t /\ u \in Task
      BY <2>1, <3>1 DEF At
    <3>3. u \in At("insert")' /\ task'[u] = task[u]
      BY <1>1, <3>1, <3>2 DEF Insert, At, TypeOK
    <3> QED
      BY <2>1, <3>1, <3>3 DEF CodesAt
  <2> QED
    BY <2>1, <2>2, <2>3, <2>4 DEF MissingExplained
<1>2. ASSUME code' = code, faults = 0, doubled' = doubled, rows \subseteq rows',
             \A u \in At("insert") : u \in At("insert")' /\ task'[u] = task[u]
      PROVE  code'[i] \in CodesAt("insert")' \/ Deep(i)'
  <2>1. i \in LastRows /\ i \notin rows /\ (Deep(i) => Deep(i)')
    BY <1>2 DEF LastRows, Deep, NewerLast
  <2>2. CodesAt("insert") \subseteq CodesAt("insert")'
    BY <1>2 DEF CodesAt
  <2> QED
    BY <1>2, <2>1, <2>2 DEF MissingExplained
<1>3. ASSUME NEW t \in Task, NEW l \in Code, OnConnect(t, l)
      PROVE  code'[i] \in CodesAt("insert")' \/ Deep(i)'
  <2>1. \A u \in At("insert") : u \in At("insert")' /\ task'[u] = task[u]
    BY <1>3 DEF OnConnect, At, TypeOK, Idle
  <2> QED
    BY <1>2, <1>3, <2>1 DEF OnConnect
<1>4. ASSUME NEW t \in Task, Delete(t)
      PROVE  code'[i] \in CodesAt("insert")' \/ Deep(i)'
  <2>1. \A u \in At("insert") \cup {t} :
           u \in At("insert")' /\ task'[u].loc = task[u].loc
    BY <1>4 DEF Delete, At, TypeOK, Idle, Statement
  <2>2. i \in LastRows /\ code' = code /\ (Deep(i) => Deep(i)')
    BY <1>4 DEF Delete, LastRows, Deep, NewerLast
  <2>3. CASE i \in rows
    <3>1. code[i] = task[t].loc
      BY <1>4, <2>3 DEF Delete
    <3> QED
      BY <2>1, <2>2, <3>1 DEF CodesAt
  <2>4. CASE i \notin rows
    <3>1. code[i] \in CodesAt("insert") \/ Deep(i)
      BY <1>4, <2>2, <2>4 DEF Delete, MissingExplained
    <3>2. CodesAt("insert") \subseteq CodesAt("insert")'
      BY <2>1 DEF CodesAt
    <3> QED
      BY <2>2, <3>1, <3>2
  <2> QED
    BY <2>3, <2>4
<1>5. ASSUME NEW t \in Task, Prune(t)
      PROVE  code'[i] \in CodesAt("insert")' \/ Deep(i)'
  <2>1. \A u \in At("insert") : u \in At("insert")' /\ task'[u] = task[u]
    BY <1>5 DEF Prune, At, TypeOK, Idle
  <2>2. /\ i \in LastRows /\ code' = code /\ NewerLast(i)' = NewerLast(i)
        /\ ~doubled /\ faults = 0
    BY <1>5 DEF Prune, LastRows, NewerLast
  <2>3. CASE i \in rows
    <3>1. ~(Cardinality(Newer(i)) < RecentLimit)
      BY <1>5, <2>3 DEF Prune
    <3>2. Newer(i) \in SUBSET NewerLast(i)
      BY <2>2 DEF RowsAreLast, Newer, NewerLast
    <3>3. /\ Cardinality(Newer(i)) <= Cardinality(NewerLast(i))
          /\ Cardinality(Newer(i)) \in Nat /\ Cardinality(NewerLast(i)) \in Nat
      BY <3>2, LastRowsFinite, FS_Subset, FS_CardinalityType
    <3> QED
      BY <2>2, <3>1, <3>3 DEF Deep
  <2>4. CASE i \notin rows
    <3>1. code[i] \in CodesAt("insert") \/ Deep(i)
      BY <2>2, <2>4 DEF MissingExplained
    <3>2. CodesAt("insert") \subseteq CodesAt("insert")'
      BY <2>1 DEF CodesAt
    <3> QED
      BY <2>2, <3>1, <3>2 DEF Deep
  <2> QED
    BY <2>3, <2>4
<1>6. ASSUME NEW ts \in SUBSET Task, End(ts)
      PROVE  FALSE
  BY <1>6 DEF End, TypeOK
<1>7. CASE UNCHANGED vars
  BY <1>2, <1>7 DEF vars, At
<1> QED
  BY <1>1, <1>3, <1>4, <1>5, <1>6, <1>7 DEF Next, StatementFails, Restart

\* Every step keeps NoneSkipped.
LEMMA SkippedStep ==
  ASSUME TypeOK, NoneSkipped, [Next]_vars
  PROVE  NoneSkipped'
<1>1. ASSUME NEW ts, End(ts)
      PROVE  faults' # 0
  BY <1>1 DEF End, TypeOK
<1> QED
  BY <1>1 DEF NoneSkipped, Next, OnConnect, Delete, Insert, Prune,
              StatementFails, Restart, vars

\* The invariant of the table of recent locations.
THEOREM RecentInvHolds == Spec => []RecentInv
<1>1. RecentInv /\ [Next]_vars => RecentInv'
  BY TypeStep, BoundedStep, NewestStep, LastStep, MissingStep, SkippedStep
     DEF RecentInv
<1> QED
  BY InitRecent, <1>1, PTL DEF Spec

-----------------------------------------------------------------------------
\* The table and the tasks of add_recent keep their types.
THEOREM RecentTypeCorrect == Spec => []TypeOK
<1>1. RecentInv => TypeOK
  BY DEF RecentInv
<1> QED
  BY RecentInvHolds, <1>1, PTL

\* The table of recent locations stays within RECENT_LIMIT, but for inserts
\* whose prune is to come or was lost.
THEOREM RecentBounded == Spec => []BoundedRows
<1>1. RecentInv => BoundedRows
  BY DEF RecentInv
<1> QED
  BY RecentInvHolds, <1>1, PTL

\* The location inserted last is listed or about to be inserted again,
\* whatever other tasks prune.
THEOREM RecentNewest == Spec => []NewestListed
<1>1. RecentInv => NewestListed
  BY DEF RecentInv, NewestKept, NewestListed, Recent
<1> QED
  BY RecentInvHolds, <1>1, PTL

\* When the tasks are done, and without faults and doubled inserts, the
\* three statements of add_recent leave the newest locations.
THEOREM RecentIsReference == Spec => []LatestListed
<1> USE RecentAssumption
<1>1. ASSUME RecentInv, At("none") = Task, faults = 0, ~doubled
      PROVE  rows = TopOf(LastRows, RecentLimit)
  <2> DEFINE K == TopOf(LastRows, RecentLimit)
  <2>1. At("insert") = {} /\ At("prune") = {}
    BY <1>1 DEF At
  <2>2. /\ rows \in SUBSET LastRows /\ skipped = 0
        /\ \A i \in LastRows \ rows : Deep(i)
    BY <1>1, <2>1
       DEF RecentInv, RowsAreLast, NoneSkipped, MissingExplained, CodesAt
  <2>3. \A i \in LastRows : i \in K <=> ~Deep(i)
    <3>1. \A i : Cardinality(NewerLast(i)) \in Nat
      BY <1>1, LastRowsFinite DEF RecentInv
    <3>2. \A i \in LastRows : i \in K <=> Cardinality(NewerLast(i)) < RecentLimit
      BY DEF TopOf, NewerLast
    <3> QED
      BY <3>1, <3>2 DEF Deep
  <2>4. K \in SUBSET LastRows
    BY DEF TopOf
  <2>5. K \in SUBSET rows
    BY <2>2, <2>3, <2>4
  <2>6. ASSUME NEW i \in rows, i \notin K
        PROVE  FALSE
    <3>1. Deep(i) /\ TypeOK
      BY <1>1, <2>2, <2>3, <2>6 DEF RecentInv
    <3>2. /\ Cardinality(NewerLast(i)) <= Cardinality(LastRows)
          /\ Cardinality(NewerLast(i)) \in Nat /\ Cardinality(LastRows) \in Nat
      BY <3>1, LastRowsFinite, FS_Subset, FS_CardinalityType DEF NewerLast
    <3>3. Cardinality(LastRows) >= RecentLimit
      BY <3>1, <3>2 DEF Deep
    <3>4. Len(code) \in Nat
      BY <3>1 DEF TypeOK
    <3>5. Cardinality(K) >= RecentLimit
      BY <3>1, <3>3, <3>4, LastRowsFinite, TopAtLeast
    <3>6. IsFiniteSet(rows) /\ Cardinality(rows) \in Nat
      BY <3>1, RowsFinite
    <3>7. K \cup {i} \in SUBSET rows
      BY <2>5, <2>6
    <3>8. IsFiniteSet(K) /\ Cardinality(K) \in Nat
      BY <2>5, <3>6, FS_Subset, FS_CardinalityType
    <3> HIDE DEF K
    <3>9. Cardinality(K \cup {i}) = Cardinality(K) + 1
      BY <2>6, <3>8, FS_AddElement
    <3>10. Cardinality(K \cup {i}) <= Cardinality(rows)
      BY <3>6, <3>7, FS_Subset
    <3>11. Cardinality(rows) <= RecentLimit
      <4>1. Cardinality(At("prune")) = 0
        BY <2>1, FS_EmptySet
      <4>2. Cardinality(rows) <= RecentLimit + Cardinality(At("prune")) + skipped
        BY <1>1 DEF RecentInv, BoundedRows
      <4> QED
        BY <2>2, <4>1, <4>2
    <3> QED
      BY <3>5, <3>6, <3>8, <3>9, <3>10, <3>11
  <2> QED
    BY <2>5, <2>6
<1>2. RecentInv => LatestListed
  BY <1>1 DEF LatestListed, TopOf
<1> QED
  BY RecentInvHolds, <1>2, PTL
=============================================================================
