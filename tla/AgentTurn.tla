----------------------------- MODULE AgentTurn -----------------------------
(***************************************************************************)
(* RuntimeClient.ask and ask_async (src/runtime/client.py): a question is  *)
(* grounded in the rows of a flavor, screened, extended by rows the        *)
(* embedding index finds, by remembered answers and by drift alerts, put   *)
(* to a language model, and its answer is checked and remembered.  Rows    *)
(* change, indexers run and other questions are asked between the steps.   *)
(*                                                                         *)
(* A node of the payload is a row with the text it was read with, an       *)
(* earlier answer, or an alert.  Which rows match a question, and how hits *)
(* are ranked, is left open.                                               *)
(***************************************************************************)
EXTENDS EmbeddingIndex

CONSTANTS Askers,         \* threads that ask, each one question at a time
          MaxAsks,        \* bound of the model: questions asked
          Incomplete,     \* rows InputGate refuses
          Keyed,          \* rows of tables with a column id
          Classes,
          Below,          \* rdfs:subClassOf in enterprise.ttl: direct subclasses
          FlavorClasses,  \* owl_classes of the flavor
          ClassOf,        \* the class each row has, by what it says
          Expressions,    \* class expressions a caller may pass
          Alerts,         \* alerts the drift monitor may raise
          AlertBuffer,    \* alert_buffer
          Dependents,     \* entities related to that of each alert
          MaxK,           \* retrieval_k
          Options,        \* parameters asks are made with
          Casts           \* bound of the model: those who act at all

VARIABLES
    cast,        \* who acts
    turn,        \* the question of each asker, None between questions
    asked,       \* questions asked so far
    remembered,  \* their answers in observation_record that are not invalidated
    losses,      \* rows of semantic_loss_log
    raised,      \* the ring buffer of the drift monitor, newest last
    escalated    \* escalations of the propagator: how many for each alert

turnVars == <<cast, turn, asked, remembered, losses, raised, escalated>>
vars == <<indexVars, turnVars>>

Node == [kind : {"grounded", "found"}, of : Row, text : Texts \cup {None}]
          \cup [kind : {"memory"}, of : 1 .. MaxAsks]
          \cup [kind : {"alert"}, of : Alerts]

\* ask's parameters.  The client keeps the flavors it read at its start and
\* those registered since; a retriever reads the directory anew.
Option == [flavor : {"unknown", "memory", "disk"},
           retrieval : {"structured", "hybrid", "vector-only"},
           expression : Expressions \cup {None},
           recall : BOOLEAN, alerts : 0 .. AlertBuffer]

ASSUME TurnAssumption ==
    /\ Incomplete \subseteq Row /\ Keyed \subseteq Row
    /\ Below \in [Classes -> SUBSET Classes]
    /\ FlavorClasses \subseteq Classes
    /\ ClassOf \in [Row -> [Texts -> Classes]]
    /\ Expressions \subseteq [any : SUBSET Classes, all : SUBSET Classes]
    /\ Dependents \in [Alerts -> SUBSET STRING]
    /\ \A l \in Alerts : IsFiniteSet(Dependents[l])
    /\ Options \subseteq Option
    /\ Casts \subseteq SUBSET (Askers \cup Indexers)
    /\ MaxAsks \in Nat /\ AlertBuffer \in Nat /\ MaxK \in Nat

\* What a row says, or is indexed with.
Says == Row \X (Texts \cup {None})
All(f) == {<<r, f[r]>> : r \in Row}

Turn == [at : {"ground", "search", "enrich", "recall", "drift", "assemble", "model"},
         id : 1 .. MaxAsks, option : Option,
         todo : Seq(Table),
         graph : SUBSET Node, hits : SUBSET Row, found : SUBSET Node,
         count : Nat, held : SUBSET Says, listed : SUBSET Says]

TurnInit ==
    /\ IndexInit
    /\ cast \in Casts
    /\ turn = [a \in Askers |-> None]
    /\ asked = 0
    /\ remembered = {}
    /\ losses = 0
    /\ raised = << >>
    /\ escalated = [l \in Alerts |-> 0]

At(a, at) == turn[a] # None /\ turn[a].at = at

Goto(a, t) == turn' = [turn EXCEPT ![a] = t]

-----------------------------------------------------------------------------
(* Ground and screen *)

\* FlavorRegistry.load.
Loads(a) == turn[a].option.flavor # "unknown"

\* "held" and "listed" are history: what each row has said, and what it was
\* indexed with, since the question was asked.
Ask(a, option) ==
    /\ a \in cast
    /\ turn[a] = None
    /\ asked < MaxAsks
    /\ asked' = asked + 1
    /\ Goto(a, [at |-> "ground", id |-> asked + 1, option |-> option,
                todo |-> Tables, graph |-> {}, hits |-> {}, found |-> {},
                count |-> 0, held |-> All(rows), listed |-> All(records)])
    /\ UNCHANGED <<indexVars, cast, remembered, losses, raised, escalated>>

\* An exception leaves ask: an unknown flavor, a model that fails, a disk or a
\* database error.  What earlier steps have written stays.
Raise(a) ==
    /\ turn[a] # None
    /\ Goto(a, None)
    /\ UNCHANGED <<indexVars, cast, asked, remembered, losses, raised, escalated>>

\* _to_jsonld_node: columns in camel case, without those that are NULL.
Grounded(r) == [kind |-> "grounded", of |-> r, text |-> rows[r]]

InTable(tbl) == {r \in Row : TableOf[r] = tbl /\ rows[r] # None}

\* _query_single_table: those that match, up to a limit; none if the table is
\* missing or the query fails.
GroundTable(a) ==
    /\ At(a, "ground")
    /\ Loads(a)
    /\ turn[a].todo # << >>
    /\ \E matching \in SUBSET InTable(Head(turn[a].todo)) :
         Goto(a, [turn[a] EXCEPT !.todo = Tail(@),
                                 !.graph = @ \cup {Grounded(r) : r \in matching}])
    /\ UNCHANGED <<indexVars, cast, asked, remembered, losses, raised, escalated>>

\* _check_record sees the names _to_jsonld_node gives: mandatory fields of two
\* words are missing always, so whether a row is refused rests on its table.
Refused(t) == {n \in t.graph : n.of \in Incomplete}

\* _log_rejections: a row of semantic_loss_log each, if that can be written.
Logged(refused) == {losses, losses + Cardinality(refused)}

Screen(a) ==
    /\ At(a, "ground")
    /\ Loads(a)
    /\ turn[a].todo = << >>
    /\ LET refused == Refused(turn[a])
       IN  /\ Goto(a, [turn[a] EXCEPT
                         !.at = IF turn[a].option.retrieval = "structured"
                                THEN "recall" ELSE "search",
                         !.graph = @ \ refused,
                         !.count = Cardinality(turn[a].graph \ refused)])
           /\ losses' \in Logged(refused)
    /\ UNCHANGED <<indexVars, cast, asked, remembered, raised, escalated>>

-----------------------------------------------------------------------------
(* Hybrid retrieval *)

\* resolve_class_hierarchy, for each of a set of classes.
Closure(cs) ==
    LET reach[n \in 0 .. Cardinality(Classes)] ==
          IF n = 0 THEN cs
          ELSE reach[n - 1] \cup UNION {Below[c] : c \in reach[n - 1]}
    IN  reach[Cardinality(Classes)]

\* build_metadata_filter: a flavor without classes narrows nothing.
Narrowed(cs) == IF FlavorClasses = {} THEN Closure(cs)
                ELSE Closure(cs) \cap Closure(FlavorClasses)

AnyOf(e) == IF e = None THEN Closure(FlavorClasses) ELSE Narrowed(e.any)
AllOf(e) == IF e = None THEN {} ELSE Narrowed(e.all)

\* _filter_sql: an empty list of classes restricts nothing.
Passes(c, e) == /\ AnyOf(e) # {} => c \in AnyOf(e)
                /\ AllOf(e) # {} => c \in AllOf(e)

\* The class a row is indexed under is that of the text it is indexed with: the
\* row may have another one by now.
IndexedAs(r) == ClassOf[r][records[r]]

\* HybridRetriever has a registry of its own.
OnDisk(a) == turn[a].option.flavor = "disk"

\* The filter needs the flavor from the directory; the store ranks what passes.
Search(a) ==
    /\ At(a, "search")
    /\ OnDisk(a)
    /\ \E hits \in SUBSET {r \in Row : records[r] # None
                                       /\ Passes(IndexedAs(r), turn[a].option.expression)} :
         /\ Cardinality(hits) <= MaxK
         /\ Goto(a, [turn[a] EXCEPT !.at = "enrich", !.hits = hits])
    /\ UNCHANGED <<indexVars, cast, asked, remembered, losses, raised, escalated>>

\* Mutant: a hit is shown as it was indexed.
Indexed(r) == records[r]

\* _enrich_from_graph reads the row itself; one that is gone, or is not found
\* by an id, becomes a node without columns.
Enriched(r) == IF r \in Keyed THEN rows[r] ELSE None

Enrich(a, r) ==
    /\ At(a, "enrich")
    /\ r \in turn[a].hits
    /\ Goto(a, [turn[a] EXCEPT
                  !.hits = @ \ {r},
                  !.found = @ \cup {[kind |-> "found", of |-> r, text |-> Enriched(r)]}])
    /\ UNCHANGED <<indexVars, cast, asked, remembered, losses, raised, escalated>>

\* With vector-only, grounded records stay if the index has found nothing.
WithFound(t) == IF t.found = {} THEN t.graph
                ELSE IF t.option.retrieval = "vector-only" THEN t.found
                ELSE t.graph \cup t.found

\* The result is logged in vector_query_log, best effort.
Merge(a) ==
    /\ At(a, "enrich")
    /\ turn[a].hits = {}
    /\ Goto(a, [turn[a] EXCEPT !.at = "recall",
                               !.graph = WithFound(turn[a]),
                               !.count = Cardinality(WithFound(turn[a])),
                               !.found = {}])
    /\ UNCHANGED <<indexVars, cast, asked, remembered, losses, raised, escalated>>

-----------------------------------------------------------------------------
(* Memory, alerts, payload, model and gate *)

\* _query_observations: what matches, up to a limit; nothing if it fails.
Observations == SUBSET remembered

\* _row_to_jsonld.
Memory(i) == [kind |-> "memory", of |-> i]

Recall(a) ==
    /\ At(a, "recall")
    /\ \E prior \in IF turn[a].option.recall THEN Observations ELSE {{}} :
         Goto(a, [turn[a] EXCEPT !.at = "drift",
                                 !.graph = @ \cup {Memory(i) : i \in prior},
                                 !.count = @ + Cardinality(prior)])
    /\ UNCHANGED <<indexVars, cast, asked, remembered, losses, raised, escalated>>

Recent(n) == {raised[i] : i \in {j \in DOMAIN raised : j > Len(raised) - n}}

\* _alert_to_jsonld.
Told(l) == [kind |-> "alert", of |-> l]

\* propagate appends one escalation to each dependent entity.
Propagated(alerts) ==
    [l \in Alerts |-> IF l \in alerts THEN escalated[l] + Cardinality(Dependents[l])
                      ELSE escalated[l]]

\* _inject_drift_context: every injected alert is propagated, each time.
InjectAlerts(a) ==
    /\ At(a, "drift")
    /\ LET alerts == Recent(turn[a].option.alerts)
       IN  /\ Goto(a, [turn[a] EXCEPT
                         !.at = "assemble",
                         !.graph = @ \cup {Told(l) : l \in alerts},
                         !.count = @ + Cardinality(alerts)])
           /\ escalated' = Propagated(alerts)
    /\ UNCHANGED <<indexVars, cast, asked, remembered, losses, raised>>

\* A file the payload may be saved to has a fresh name and no reader.
Assemble(a) ==
    /\ At(a, "assemble")
    /\ Goto(a, [turn[a] EXCEPT !.at = "model"])
    /\ UNCHANGED <<indexVars, cast, asked, remembered, losses, raised, escalated>>

\* _build_user_message renders the whole graph, whatever token_budget says.
Shown(t) == t.graph

\* _build_provenance_section takes the number from the grounding's meta.
Reported(t) == t.count

\* _store_observation warns if it could not, and returns the IRI all the same.
Remembered(t) == {remembered, remembered \cup {t.id}}

\* The gate checks the answer, and stores it whatever the check has found.
Answer(a) ==
    /\ At(a, "model")
    /\ remembered' \in Remembered(turn[a])
    /\ Goto(a, None)
    /\ UNCHANGED <<indexVars, cast, asked, losses, raised, escalated>>

-----------------------------------------------------------------------------
(* The surroundings *)

\* A ring buffer drops its oldest.
Buffered(s) == IF Len(s) > AlertBuffer THEN Tail(s) ELSE s

\* OntologyDriftMonitor.run.
RaiseAlert(l) ==
    /\ \A i \in DOMAIN raised : raised[i] # l
    /\ raised' = Buffered(Append(raised, l))
    /\ UNCHANGED <<indexVars, cast, turn, asked, remembered, losses, escalated>>

\* The consolidation of AgentMemory invalidates a row.
Forget(i) ==
    /\ i \in remembered
    /\ remembered' = remembered \ {i}
    /\ UNCHANGED <<indexVars, cast, turn, asked, losses, raised, escalated>>

\* What an indexer or a writer of rows does, as the questions see it.
Elsewhere ==
    /\ IndexNext
    /\ \A x \in Indexers : indexing'[x] # None => x \in cast
    /\ turn' = [a \in Askers |->
                  IF turn[a] = None THEN None
                  ELSE [turn[a] EXCEPT !.held = @ \cup All(rows'),
                                       !.listed = @ \cup All(records')]]
    /\ UNCHANGED <<cast, asked, remembered, losses, raised, escalated>>
Next ==
    \/ \E a \in Askers :
         \/ \E option \in Options : Ask(a, option)
         \/ GroundTable(a) \/ Screen(a) \/ Search(a) \/ Merge(a)
         \/ \E r \in Row : Enrich(a, r)
         \/ Recall(a) \/ InjectAlerts(a) \/ Assemble(a) \/ Answer(a) \/ Raise(a)
    \/ \E l \in Alerts : RaiseAlert(l)
    \/ \E i \in remembered : Forget(i)
    \/ Elsewhere

Spec == TurnInit /\ [][Next]_vars

-----------------------------------------------------------------------------
\* The state is well formed.
TypeOK ==
    /\ IndexTypeOK
    /\ turn \in [Askers -> Turn \cup {None}]
    /\ \A a \in Askers : turn[a] # None => turn[a].id <= asked
    /\ cast \in Casts
    /\ asked \in 0 .. MaxAsks
    /\ remembered \subseteq 1 .. asked
    /\ losses \in Nat
    /\ raised \in Seq(Alerts) /\ Len(raised) <= AlertBuffer
    /\ escalated \in [Alerts -> Nat]

OfKind(a, kind) == {n \in Shown(turn[a]) : n.kind = kind}

\* What the model is shown: every row with columns says what it has said at
\* some moment of this very question, however old the index is; no grounded
\* row is one the gate refuses; what the index has found was indexed, at some
\* moment of the question, under a class of the class expression, unless that
\* and the flavor have no class in common (what the row says now may be of
\* another class); memories are of questions that have ended; and the record
\* count the payload reports is the number of its nodes (ask, ground, screen,
\* retrieve, recall, assemble).
PayloadTruthful ==
    \A a \in Askers :
      At(a, "model") =>
        /\ \A n \in OfKind(a, "grounded") \cup OfKind(a, "found") :
             n.text # None => <<n.of, n.text>> \in turn[a].held
        /\ \A n \in OfKind(a, "grounded") : n.of \notin Incomplete
        /\ \A n \in OfKind(a, "found") :
             LET e == turn[a].option.expression
             IN  e # None /\ AnyOf(e) # {} =>
                   \E t \in Texts : /\ <<n.of, t>> \in turn[a].listed
                                    /\ ClassOf[n.of][t] \in Closure(e.any)
        /\ \A n \in OfKind(a, "memory") : \A b \in Askers :
             turn[b] # None => n.of # turn[b].id
        /\ Reported(turn[a]) = Cardinality(Shown(turn[a]))
=============================================================================
