--------------------------- MODULE RecentLocations ---------------------------
(***************************************************************************)
(* The list of recent locations (location_storage.rs).  Each Connect, the  *)
(* refused ones too, spawns a task that adds its location to the table     *)
(* with three statements and no transaction, so tasks interleave between   *)
(* statements, and a failed statement or the end of the process leaves the *)
(* rest undone.                                                            *)
(***************************************************************************)
EXTENDS Naturals, Sequences, FiniteSets

CONSTANTS Code,         \* codes of locations
          Task,         \* tasks under way at once
          RecentLimit,  \* RECENT_LIMIT
          MaxRows,      \* bound on the rows ever inserted
          MaxFaults     \* bound on failed statements and ends of the process

ASSUME RecentAssumption ==
  /\ RecentLimit \in Nat \ {0} /\ MaxRows \in Nat /\ MaxFaults \in Nat
  /\ IsFiniteSet(Task)

VARIABLES
  code,      \* the code of every row ever inserted, by its id (autoincrement)
  rows,      \* the ids that are in the table
  task,      \* per task, its next statement and its location
  faults,
  skipped,   \* history: inserts since the last prune that no prune will follow
  lost,      \* history: codes deleted by tasks that then ended
  doubled    \* history: a code has been in two rows

vars == <<code, rows, task, faults, skipped, lost, doubled>>

Statement == {"delete", "insert", "prune"}
Idle == [next |-> "none"]

Init ==
  /\ code = <<>> /\ rows = {}
  /\ task = [t \in Task |-> Idle]
  /\ faults = 0 /\ skipped = 0 /\ lost = {} /\ doubled = FALSE

At(s) == {t \in Task : task[t].next = s}
CodesAt(s) == {task[t].loc : t \in At(s)}

-----------------------------------------------------------------------------
\* on_connect spawns add_recent.
OnConnect(t, l) ==
  /\ task[t] = Idle
  /\ task' = [task EXCEPT ![t] = [next |-> "delete", loc |-> l]]
  /\ UNCHANGED <<code, rows, faults, skipped, lost, doubled>>

\* Mutant: the filter is missing.
DeleteAll(t) ==
  /\ t \in At("delete")
  /\ task' = [task EXCEPT ![t].next = "insert"]
  /\ rows' = {}
  /\ UNCHANGED <<code, faults, skipped, lost, doubled>>

Delete(t) ==
  /\ t \in At("delete")
  /\ task' = [task EXCEPT ![t].next = "insert"]
  /\ rows' = {i \in rows : code[i] # task[t].loc}
  /\ UNCHANGED <<code, faults, skipped, lost, doubled>>

\* Mutant: an id is taken for a row that is not written.
InsertUnwritten(t) ==
  /\ t \in At("insert") /\ Len(code) < MaxRows
  /\ task' = [task EXCEPT ![t].next = "prune"]
  /\ rows' = rows \cup {Len(code) + 1}
  /\ UNCHANGED <<code, faults, skipped, lost, doubled>>

Insert(t) ==
  /\ t \in At("insert") /\ Len(code) < MaxRows
  /\ task' = [task EXCEPT ![t].next = "prune"]
  /\ code' = Append(code, task[t].loc)
  /\ rows' = rows \cup {Len(code) + 1}
  /\ lost' = lost \ {task[t].loc}
  /\ doubled' = (doubled \/ \E i \in rows : code[i] = task[t].loc)
  /\ UNCHANGED <<faults, skipped>>

Newer(i) == {j \in rows : j > i}
Older(i) == {j \in rows : j < i}

\* Mutants: one row too many is kept; the oldest are.
PruneOffByOne(t) ==
  /\ t \in At("prune")
  /\ task' = [task EXCEPT ![t] = Idle]
  /\ rows' = {i \in rows : Cardinality(Newer(i)) <= RecentLimit}
  /\ skipped' = 0
  /\ UNCHANGED <<code, faults, lost, doubled>>
PruneKeepsOldest(t) ==
  /\ t \in At("prune")
  /\ task' = [task EXCEPT ![t] = Idle]
  /\ rows' = {i \in rows : Cardinality(Older(i)) < RecentLimit}
  /\ skipped' = 0
  /\ UNCHANGED <<code, faults, lost, doubled>>

\* All but the newest RecentLimit rows are deleted.
Prune(t) ==
  /\ t \in At("prune")
  /\ task' = [task EXCEPT ![t] = Idle]
  /\ rows' = {i \in rows : Cardinality(Newer(i)) < RecentLimit}
  /\ skipped' = 0
  /\ UNCHANGED <<code, faults, lost, doubled>>

\* The tasks in ts end before their next statement.
End(ts) ==
  /\ faults < MaxFaults /\ faults' = faults + 1
  /\ task' = [t \in Task |-> IF t \in ts THEN Idle ELSE task[t]]
  /\ skipped' = skipped + Cardinality(At("prune") \cap ts)
  /\ lost' = lost \cup {task[t].loc : t \in At("insert") \cap ts}
  /\ UNCHANGED <<code, rows, doubled>>

\* The error is logged.
StatementFails(t) == task[t] # Idle /\ End({t})

\* The daemon stops, which waits for no such task, or crashes.
Restart == (\E t \in Task : task[t] # Idle) /\ End(Task)

Next ==
  \/ \E t \in Task :
       \/ \E l \in Code : OnConnect(t, l)
       \/ Delete(t) \/ Insert(t) \/ Prune(t) \/ StatementFails(t)
  \/ Restart

Spec == Init /\ [][Next]_vars

\* recent: each code once.
Recent == {code[i] : i \in rows}

-----------------------------------------------------------------------------
TypeOK ==
  /\ code \in Seq(Code) /\ Len(code) <= MaxRows
  /\ rows \subseteq 1..Len(code)
  /\ task \in [Task -> {Idle} \cup [next : Statement, loc : Code]]
  /\ faults \in 0..MaxFaults /\ skipped \in Nat
  /\ lost \subseteq Code /\ doubled \in BOOLEAN

\* The table stays small although tasks insert and prune in any order: it
\* holds RecentLimit rows, and one more for each insert whose prune is still
\* to come or was lost since the last prune.
BoundedRows ==
  Cardinality(rows) <= RecentLimit + Cardinality(At("prune")) + skipped

\* The location inserted last is listed, whatever the tasks that prune,
\* unless a task for the same location is between its delete and its insert
\* or ended there.
NewestListed ==
  code # <<>> => code[Len(code)] \in Recent \cup CodesAt("insert") \cup lost

\* Ids of the last row of each code.
LastRows == {i \in DOMAIN code : \A j \in DOMAIN code : j > i => code[j] # code[i]}

\* The reference: when no task is under way, the table holds exactly the
\* newest RecentLimit of the different locations inserted, unless a
\* statement has failed or two tasks of one location have both inserted it.
LatestListed ==
  (At("none") = Task /\ faults = 0 /\ ~doubled) =>
    rows = {i \in LastRows : Cardinality({j \in LastRows : j > i}) < RecentLimit}
=============================================================================
