----------------------------- MODULE AgentMemory -----------------------------
(***************************************************************************)
(* The agents' long-term memory: the table observation_record and the      *)
(* passes that consolidate it (runtime/memory.py,                          *)
(* runtime/consolidation_daemon.py).  A pass runs three strategies, each    *)
(* on a connection of its own.  Each SELECTs what it is going to change    *)
(* before it takes SQLite's write lock, so the nightly daemon, a pass      *)
(* started with --once and a client's consolidate() may overlap between    *)
(* the two.  A strategy that raises prints a warning and counts as 0.      *)
(*                                                                         *)
(* The record type is one; the entity is kept.  The ConflictEvent rows of  *)
(* the third strategy are left out, for no strategy reads them back; what  *)
(* it does for the other two, adding the column they write, is kept.       *)
(***************************************************************************)
EXTENDS Integers, Sequences, FiniteSets

CONSTANTS
  Entities,     \* the entity_iri of the observations
  Passes,       \* the processes that consolidate
  Scheduled,    \* those of them that run run_scheduled's loop
  SupersedeAge, \* per pass, the age in months that supersession asks for
  CompressAge,  \* the age in months that compression asks for
  MaxTime,      \* bound: the last month
  MaxPoints,    \* bound: the observations the agents record
  MaxFaults     \* bound: lock timeouts and deaths of a pass

ASSUME MemoryAssumption ==
  /\ IsFiniteSet(Entities)
  /\ Scheduled \subseteq Passes
  /\ SupersedeAge \in [Passes -> Nat] /\ CompressAge \in Nat
  /\ MaxTime \in Nat /\ MaxPoints \in Nat /\ MaxFaults \in Nat

VARIABLES
  rows,       \* observation_record, in the order of insertion
  updated,    \* whether the column updated_at exists; no code creates the table
  time,       \* the month
  pc,         \* where each pass is
  cutoff,     \* the cutoff of the strategy it is in
  found,      \* what the strategy's SELECT returned
  faults      \* how many faults there were

vars == <<rows, updated, time, pc, cutoff, found, faults>>

Methods == {"INFERRED", "MEASURED", "SYNTHESIZED"}

\* A row: invalidated_by is the place of a row, or 0; a summary's point_count.
Row(entity, method, at, n) ==
  [entity |-> entity, method |-> method, at |-> at,
   by |-> 0, count |-> n]

Active(r) == rows[r].by = 0

Is(r, method) == rows[r].method = method

Points == {r \in DOMAIN rows : ~ Is(r, "SYNTHESIZED")}

Steps == {"idle", "supersede", "mark", "compress", "fold", "alter"}

Init ==
  /\ rows = <<>> /\ updated \in BOOLEAN /\ time = 0
  /\ pc = [p \in Passes |-> "idle"]
  /\ cutoff = [p \in Passes |-> 0]
  /\ found = [p \in Passes |-> {}]
  /\ faults = 0

-----------------------------------------------------------------------------
(* Outside the passes.                                                      *)

\* An agent, a probe or an importer records an observation.
Observe(entity, method) ==
  /\ Cardinality(Points) < MaxPoints
  /\ rows' = Append(rows, Row(entity, method, time, 0))
  /\ UNCHANGED <<updated, time, pc, cutoff, found, faults>>

Month ==
  /\ time < MaxTime
  /\ time' = time + 1
  /\ UNCHANGED <<rows, updated, pc, cutoff, found, faults>>

-----------------------------------------------------------------------------
(* A pass: run_once, and the same three strategies of consolidate().        *)

Goto(p, step, what) ==
  /\ pc' = [pc EXCEPT ![p] = step]
  /\ found' = [found EXCEPT ![p] = what]

\* The cutoff is computed as the strategy is called.
Begin(p) ==
  /\ pc[p] = "idle"
  /\ Goto(p, "supersede", {})
  /\ cutoff' = [cutoff EXCEPT ![p] = time - SupersedeAge[p]]
  /\ UNCHANGED <<rows, updated, time, faults>>

\* The pairs of an old active inferred row and a newer measured row, invalidated
\* or not, of its entity.
Superseding(limit) ==
  {pair \in (DOMAIN rows) \X (DOMAIN rows) :
     LET i == pair[1]
         m == pair[2]
     IN /\ rows[i].entity = rows[m].entity
        /\ Is(i, "INFERRED") /\ Is(m, "MEASURED")
        /\ rows[m].at > rows[i].at
        /\ Active(i)
        /\ rows[i].at < limit}

SelectInferred(p) ==
  /\ pc[p] = "supersede"
  /\ Goto(p, "mark", Superseding(cutoff[p]))
  /\ UNCHANGED <<rows, updated, time, cutoff, faults>>

\* The updates go over the pairs in the SELECT's order: the last one stays.
\* Without the column the first UPDATE raises.
MarkInferred(p) ==
  /\ pc[p] = "mark"
  /\ LET inferred == {pair[1] : pair \in found[p]}
     IN IF ~ updated
        THEN UNCHANGED rows
        ELSE \E last \in [inferred -> DOMAIN rows] :
               /\ \A i \in inferred : <<i, last[i]>> \in found[p]
               /\ rows' = [r \in DOMAIN rows |->
                             IF r \in inferred
                             THEN [rows[r] EXCEPT !.by = last[r]]
                             ELSE rows[r]]
  /\ Goto(p, "compress", {})
  /\ cutoff' = [cutoff EXCEPT ![p] = time - CompressAge]
  /\ UNCHANGED <<updated, time, faults>>

OldPoints(entity, limit) ==
  {r \in DOMAIN rows : /\ rows[r].entity = entity
                       /\ rows[r].at < limit
                       /\ Is(r, "MEASURED")
                       /\ Active(r)}

\* The groups of more than one row, with their sizes.
Groups(limit) ==
  LET size(e) == Cardinality(OldPoints(e, limit))
  IN {<<e, size(e)>> : e \in {x \in Entities : size(x) > 1}}

SelectGroups(p) ==
  /\ pc[p] = "compress"
  /\ Goto(p, "fold", Groups(cutoff[p]))
  /\ UNCHANGED <<rows, updated, time, cutoff, faults>>

\* The rows the UPDATE of a group's summary changes.
FoldedAnyAge(entity, limit) ==
  {r \in DOMAIN rows : rows[r].entity = entity /\ Is(r, "MEASURED") /\ Active(r)}

Folded(entity, limit) == OldPoints(entity, limit)

\* The summary rows of the groups, in the order the SELECT returned them.
SummariesIgnored(order) == <<>>

Summaries(order) ==
  [i \in DOMAIN order |-> Row(order[i][1], "SYNTHESIZED", time, order[i][2])]

\* One transaction for all groups: a summary row each, and its number in the
\* rows that are old and active by now.
FoldGroups(p) ==
  /\ pc[p] = "fold"
  /\ IF ~ updated
     THEN UNCHANGED rows
     ELSE \E order \in [1..Cardinality(found[p]) -> found[p]] :
            /\ \A g \in found[p] : \E i \in DOMAIN order : order[i] = g
            /\ LET Takes(i, r) == r \in Folded(order[i][1], cutoff[p])
                   Kept(r) ==
                     IF \E i \in DOMAIN order : Takes(i, r)
                     THEN LET i == CHOOSE i \in DOMAIN order : Takes(i, r)
                          IN [rows[r] EXCEPT !.by = Len(rows) + i]
                     ELSE rows[r]
               IN rows' = [r \in DOMAIN rows |-> Kept(r)] \o Summaries(order)
  /\ Goto(p, "alter", {})
  /\ cutoff' = [cutoff EXCEPT ![p] = 0]
  /\ UNCHANGED <<updated, time, faults>>

\* Mutant: the strategy raises before it adds the column.
AddColumnLate(p) ==
  /\ pc[p] = "alter"
  /\ Goto(p, "idle", {})
  /\ UNCHANGED <<rows, updated, time, cutoff, faults>>

\* _escalate_conflicts begins with adding the column, in a dry run too.
AddColumn(p) ==
  /\ pc[p] = "alter"
  /\ updated' = TRUE
  /\ Goto(p, "idle", {})
  /\ UNCHANGED <<rows, time, cutoff, faults>>

\* Of a dry run the reads have no effect; the column it adds stays.
DryRun ==
  /\ updated' = TRUE
  /\ UNCHANGED <<rows, time, pc, cutoff, found, faults>>

-----------------------------------------------------------------------------
(* Faults.                                                                  *)

\* The lock is not had within SQLite's timeout: the strategy is given up, its
\* transaction with it, and the pass goes on to the next.
Locked(p) ==
  /\ faults < MaxFaults
  /\ faults' = faults + 1
  /\ \/ pc[p] = "mark"  /\ Goto(p, "compress", {})
                        /\ cutoff' = [cutoff EXCEPT ![p] = time - CompressAge]
     \/ pc[p] = "fold"  /\ Goto(p, "alter", {})
                        /\ cutoff' = [cutoff EXCEPT ![p] = 0]
     \/ pc[p] = "alter" /\ Goto(p, "idle", {})  /\ UNCHANGED cutoff
  /\ UNCHANGED <<rows, updated, time>>

\* The process dies: what it had not committed is rolled back.
Die(p) ==
  /\ faults < MaxFaults
  /\ pc[p] # "idle"
  /\ faults' = faults + 1
  /\ Goto(p, "idle", {})
  /\ cutoff' = [cutoff EXCEPT ![p] = 0]
  /\ UNCHANGED <<rows, updated, time>>

-----------------------------------------------------------------------------

Work(p) ==
  \/ SelectInferred(p) \/ MarkInferred(p)
  \/ SelectGroups(p) \/ FoldGroups(p)
  \/ AddColumn(p)

Next ==
  \/ \E e \in Entities : Observe(e, "MEASURED") \/ Observe(e, "INFERRED")
  \/ Month \/ DryRun
  \/ \E p \in Passes : Begin(p)
  \/ \E p \in Passes : Work(p) \/ Locked(p) \/ Die(p)

\* The scheduled daemon begins a pass for ever and a pass that runs goes on.
GoesOn(p) == WF_vars(Begin(p)) /\ WF_vars(Work(p))

Fairness == \A p \in Scheduled : GoesOn(p)

Spec == Init /\ [][Next]_vars /\ Fairness

-----------------------------------------------------------------------------
(* Properties.                                                              *)

\* Types: a row is invalidated by a row of the table, and what a pass has in its
\* hands names rows or groups that there are.
TypeOK ==
  /\ \A r \in DOMAIN rows :
       /\ rows[r].entity \in Entities /\ rows[r].method \in Methods
       /\ rows[r].at \in 0..time /\ rows[r].by \in 0..Len(rows)
       /\ rows[r].count \in 0..MaxPoints
  /\ updated \in BOOLEAN /\ time \in 0..MaxTime /\ faults \in 0..MaxFaults
  /\ pc \in [Passes -> Steps]
  /\ \A p \in Passes :
       /\ pc[p] = "mark" =>
            found[p] \subseteq (DOMAIN rows) \X (DOMAIN rows)
       /\ pc[p] = "fold" => found[p] \subseteq Entities \X (2..MaxPoints)

\* Nothing is lost: from a row that is invalidated the links lead, in at most two
\* steps, to an active row about the same entity, whatever passes overlapped.
\* What recall() leaves out is told by something it returns.
NothingLost ==
  \A r \in DOMAIN rows : ~ Active(r) =>
    LET s == rows[r].by IN
    /\ s \in DOMAIN rows /\ rows[s].entity = rows[r].entity
    /\ \/ Active(s)
       \/ LET u == rows[s].by IN
          u \in DOMAIN rows /\ Active(u) /\ rows[u].entity = rows[r].entity

\* A summary never stands for more rows than it says it does (point_count): what
\* was recorded between the SELECT of the groups and the UPDATE is not folded in
\* uncounted.
NothingUncounted ==
  \A s \in DOMAIN rows : Is(s, "SYNTHESIZED") =>
    Cardinality({r \in DOMAIN rows : rows[r].by = s}) <= rows[s].count

\* A measured row that was folded into a summary stays in that summary, though
\* another pass had its group in hand: its entry is not given to a second one.
FoldedOnce ==
  [][\A r \in DOMAIN rows :
       Is(r, "MEASURED") /\ ~ Active(r) => rows'[r].by = rows[r].by]_vars

\* What _supersede_inferred is to bring about, with the cutoff of this month.
AllSuperseded(p) ==
  \A i, m \in DOMAIN rows :
    (/\ Is(i, "INFERRED") /\ Is(m, "MEASURED")
     /\ rows[m].entity = rows[i].entity
     /\ rows[m].at > rows[i].at
     /\ rows[i].at < time - SupersedeAge[p]) => ~ Active(i)

\* The inferred rows that are old enough and have a newer measured row of their
\* entity are all superseded, again and again, even if the measured row is folded
\* first and early passes find no column updated_at or a locked database.
SupersededInTheEnd == \A p \in Scheduled : []<>AllSuperseded(p)
=============================================================================
