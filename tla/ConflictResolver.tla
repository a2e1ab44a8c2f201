-------------------------- MODULE ConflictResolver --------------------------
(***************************************************************************)
(* The three-tier conflict resolution (src/src/conflict_resolver.py) over  *)
(* tmf_performance_indicator, tmf_conflict_event and                       *)
(* prov_invalidation_log.  A pass is one call of run_conflict_resolution:  *)
(* it selects, then inserts row by row, and commits after every insert, so *)
(* two passes, new measurements and a crash may come between any two rows. *)
(*                                                                         *)
(* The IRI of an event is the second it is inserted in; a measurement is   *)
(* its row id.  The resource and the type of all measurements are the      *)
(* same: rows that differ in them never meet.  The JSON report, a copy of  *)
(* the tables, is left out.                                                *)
(***************************************************************************)
EXTENDS Integers, FiniteSets

CONSTANTS Size,        \* bound of the model: measurements ever inserted
          Rows,        \* the rows that may be inserted
          Subjects,    \* resources, alarms, bills and tickets of Tier 1
          Unknown,     \* the name of a Tier-1 row that has no IRI column
          Resolvers,   \* calls of run_conflict_resolution, each made once
          MaxClock,    \* bound of the model: seconds that pass
          None         \* NULL, or no row

\* DERIVATION_PRIORITY; NULL counts as DEFAULT.
Priority == [MEASURED |-> 1, INFERRED |-> 2, IMPORTED |-> 3, SYNTHESIZED |-> 4]

Default == 5

Method == DOMAIN Priority

Measurement == [method : Method \cup {None},
        value : Int \cup {None},          \* numeric_value
        at : Int,                         \* observed_at, in seconds
        named : BOOLEAN]                  \* kpi_iri IS NOT NULL

ASSUME BoundsNat == Size \in Nat /\ MaxClock \in Nat
ASSUME RowsTyped == Rows \subseteq Measurement
ASSUME NoneIsNothing == /\ None \notin Rows /\ None \notin Method
                        /\ None \notin Int /\ None \notin Subjects
ASSUME UnknownApart == Unknown # None

Kpis == 1 .. Size
Seconds == 0 .. MaxClock

VARIABLES
    clock,     \* the current second
    kpi,       \* tmf_performance_indicator
    broken,    \* the entities that violate a Tier-1 rule
    event,     \* tmf_conflict_event, by conflict_iri
    log,       \* prov_invalidation_log
    job        \* each pass: where it stands, and its locals

resolverVars == <<clock, kpi, broken, event, log, job>>
tables == <<event, log>>
world == <<clock, kpi, broken>>

Present == {k \in Kpis : kpi[k] # None}

-----------------------------------------------------------------------------
(* The queries *)

Abs(n) == IF n < 0 THEN -n ELSE n

\* Less than five minutes apart, and more than 10% of the first one's value:
\* a negative value disagrees with everything.
Disagree(a, b) ==
    /\ kpi[a].value # None /\ kpi[b].value # None
    /\ Abs(kpi[a].at - kpi[b].at) < 300
    /\ 10 * Abs(kpi[a].value - kpi[b].value) > kpi[a].value

\* Mutant: a.id != b.id, as in the rule of Tier 1.
ConflictsBothWays ==
    {pair \in Present \X Present : pair[1] # pair[2] /\ Disagree(pair[1], pair[2])}

\* The SELECT of Tier 2.
Conflicts ==
    {pair \in Present \X Present : pair[1] < pair[2] /\ Disagree(pair[1], pair[2])}

\* The rules of Tier 1; the fifth is about measurements, and names none.
Clash ==
    Cardinality({pair \in Present \X Present :
                   pair[1] # pair[2] /\ Disagree(pair[1], pair[2])}) >= 2

Violations == broken \cup (IF Clash THEN {Unknown} ELSE {})

PriorityOf(k) == IF kpi[k].method = None THEN Default ELSE Priority[kpi[k].method]

\* resolve_tier2: the first one wins a tie.
Winner(pair) == IF PriorityOf(pair[1]) <= PriorityOf(pair[2]) THEN pair[1] ELSE pair[2]

Loser(pair) == IF PriorityOf(pair[1]) <= PriorityOf(pair[2]) THEN pair[2] ELSE pair[1]

\* lower() of a NULL raises, whichever wins.
Resolvable(pair) == kpi[pair[1]].method # None /\ kpi[pair[2]].method # None

Named(pair) == kpi[pair[1]].named /\ kpi[pair[2]].named

-----------------------------------------------------------------------------
(* The tables *)

Names == Kpis \cup Subjects \cup {Unknown}

Event == [a : Names, b : Kpis \cup {None}, winner : Kpis \cup {None},
          status : {"Escalated", "Resolved"}]

ASSUME NoneApart == None \notin Kpis \X Kpis /\ None \notin Event

\* INSERT OR IGNORE: the IRI is taken by any event of the same second.
Inserted(e) ==
    event' = IF event[clock] = None THEN [event EXCEPT ![clock] = e] ELSE event

Violation(x) == [a |-> x, b |-> None, winner |-> None, status |-> "Escalated"]

Resolution(pair) == [a |-> pair[1], b |-> pair[2], winner |-> Winner(pair),
                     status |-> "Resolved"]

-----------------------------------------------------------------------------
(* A pass *)

Job == [at : {"new", "tier1", "tier2", "invalidate", "reported", "failed"},
        rows : SUBSET Names,                  \* tier1_violations still to insert
        pairs : SUBSET (Kpis \X Kpis),        \* conflict_pairs still to resolve
        found : SUBSET (Kpis \X Kpis),        \* conflict_pairs
        pair : (Kpis \X Kpis) \cup {None},    \* the pair being resolved
        iri : Seconds]                        \* and its c_iri

ResolverInit ==
    /\ clock = 0
    /\ kpi = [k \in Kpis |-> None]
    /\ broken = {}
    /\ event = [t \in Seconds |-> None]
    /\ log = {}
    /\ job = [p \in Resolvers |-> [at |-> "new", rows |-> {}, pairs |-> {},
                                found |-> {}, pair |-> None, iri |-> 0]]

\* Tier 1 selects; its five queries count as one.
Start(p) ==
    /\ job[p].at = "new"
    /\ job' = [job EXCEPT ![p].at = "tier1", ![p].rows = Violations]
    /\ UNCHANGED <<tables, world>>

\* Tier 1 inserts an event for one violation.
Escalate(p) ==
    /\ job[p].at = "tier1"
    /\ \E x \in job[p].rows :
          /\ Inserted(Violation(x))
          /\ job' = [job EXCEPT ![p].rows = @ \ {x}]
    /\ UNCHANGED <<log, world>>

\* Tier 2 selects.
Select(p) ==
    /\ job[p].at = "tier1"
    /\ job[p].rows = {}
    /\ job' = [job EXCEPT ![p].at = "tier2", ![p].pairs = Conflicts,
                          ![p].found = Conflicts]
    /\ UNCHANGED <<tables, world>>

\* Tier 2 resolves a pair and inserts its event: none if a name is NULL, which
\* OR IGNORE lets pass.
Resolve(p) ==
    /\ job[p].at = "tier2"
    /\ \E pair \in job[p].pairs :
          /\ Resolvable(pair)
          /\ IF Named(pair) THEN Inserted(Resolution(pair)) ELSE UNCHANGED event
          /\ job' = [job EXCEPT ![p].at = "invalidate", ![p].pair = pair,
                                ![p].pairs = @ \ {pair}, ![p].iri = clock]
    /\ UNCHANGED <<log, world>>

\* Mutant: the log is given a new IRI, not the event's.
RecordedNow(p) ==
    LET pair == job[p].pair
    IN  {[loser |-> Loser(pair), winner |-> Winner(pair), iri |-> clock]}

Recorded(p) ==
    LET pair == job[p].pair
    IN  {[loser |-> Loser(pair), winner |-> Winner(pair), iri |-> job[p].iri]}

\* record_invalidation.
Invalidate(p) ==
    /\ job[p].at = "invalidate"
    /\ Named(job[p].pair)
    /\ log' = log \cup Recorded(p)
    /\ job' = [job EXCEPT ![p].at = "tier2", ![p].pair = None]
    /\ UNCHANGED <<event, world>>

\* The pass raises: at a NULL derivation method, before anything is inserted for
\* the pair, or at a NULL name, after the event was ignored.
Raise(p) ==
    /\ \/ job[p].at = "tier2" /\ \E pair \in job[p].pairs : ~ Resolvable(pair)
       \/ job[p].at = "invalidate" /\ ~ Named(job[p].pair)
    /\ job' = [job EXCEPT ![p].at = "failed", ![p].pair = None]
    /\ UNCHANGED <<tables, world>>

\* Tier 3 lists what is escalated, and the report is written.
Report(p) ==
    /\ job[p].at = "tier2"
    /\ job[p].pairs = {}
    /\ job' = [job EXCEPT ![p].at = "reported"]
    /\ UNCHANGED <<tables, world>>

\* The process ends, or finds the database locked; what it inserted is committed.
Crash(p) ==
    /\ job[p].at \in {"tier1", "tier2", "invalidate"}
    /\ job' = [job EXCEPT ![p].at = "failed", ![p].pair = None]
    /\ UNCHANGED <<tables, world>>

-----------------------------------------------------------------------------
(* Around the passes *)

\* escalate_to_human.
EscalateToHuman(t) ==
    /\ event[t] # None
    /\ event' = [event EXCEPT ![t].status = "Escalated"]
    /\ UNCHANGED <<log, job, world>>

\* Somebody inserts a measurement.
Measure ==
    \E k \in Kpis, row \in Rows :
        /\ kpi[k] = None
        /\ \A j \in 1 .. k - 1 : kpi[j] # None
        /\ kpi' = [kpi EXCEPT ![k] = row]
        /\ UNCHANGED <<clock, broken, tables, job>>

\* An entity comes to violate a rule of Tier 1, or is put right.
Change(x) ==
    /\ broken' = IF x \in broken THEN broken \ {x} ELSE broken \cup {x}
    /\ UNCHANGED <<clock, kpi, tables, job>>

Tick ==
    /\ clock < MaxClock
    /\ clock' = clock + 1
    /\ UNCHANGED <<kpi, broken, tables, job>>

Pass(p) == Start(p) \/ Escalate(p) \/ Select(p) \/ Resolve(p) \/ Invalidate(p)
              \/ Raise(p) \/ Report(p) \/ Crash(p)

ResolverNext ==
    \/ \E p \in Resolvers : Pass(p)
    \/ \E t \in Seconds : EscalateToHuman(t)
    \/ Measure
    \/ \E x \in Subjects : Change(x)
    \/ Tick

ResolverSpec == ResolverInit /\ [][ResolverNext]_resolverVars

-----------------------------------------------------------------------------
(* Properties *)

\* The type invariant; a pass holds a pair only between the two inserts.
ResolverTypeOK ==
    /\ clock \in Seconds
    /\ kpi \in [Kpis -> Rows \cup {None}]
    /\ broken \subseteq Subjects
    /\ event \in [Seconds -> Event \cup {None}]
    /\ log \subseteq [loser : Kpis, winner : Kpis, iri : Seconds]
    /\ job \in [Resolvers -> Job]
    /\ \A p \in Resolvers : job[p].at = "invalidate" <=> job[p].pair # None

\* Resolution never eats itself: whatever passes overlap, and whatever was
\* measured meanwhile, among any measurements one is left that none of the
\* others invalidated.
SurvivorLeft ==
    \A S \in SUBSET Kpis :
        S # {} => \E k \in S : \A r \in log : r.loser = k => r.winner \notin S

\* Every invalidation names an event of the table, also if a pass ended
\* between the two inserts or two passes were given the same IRI.
InvalidationHasEvent == \A r \in log : event[r.iri] # None

\* A pair that a pass has selected and is through with was invalidated, even if
\* its event was ignored: a pass that reports has invalidated every loser.
NothingSkipped ==
    \A p \in Resolvers :
        job[p].at \in {"tier2", "invalidate", "reported"}
        => \A pair \in job[p].found \ (job[p].pairs \cup {job[p].pair}) :
              \E r \in log : r.loser = Loser(pair) /\ r.winner = Winner(pair)

\* An event stays what it was, whoever is given its IRI again.
EventsKept ==
    [][\A t \in Seconds :
          event[t] # None
          => /\ event'[t] # None
             /\ event'[t].a = event[t].a /\ event'[t].b = event[t].b
             /\ event'[t].winner = event[t].winner]_resolverVars
=============================================================================
