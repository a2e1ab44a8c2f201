---------------------------- MODULE MCConsumers ----------------------------
(* The readers of the output directory, each beside the pipeline: only those *)
(* of a cast act, and only the files they read are there, for they share     *)
(* nothing but the directory.                                                *)
EXTENDS Consumers

CONSTANTS x0, x1, x2

VARIABLE cast

Row(n, s, k) == [name |-> n, status |-> s, number |-> k]

MCContents ==
    [f \in Files |->
        CASE f = "sparql_cq_test_results.csv" ->
                {{Row("CQ-004", "PASS", 2), Row("CQ-005", "PASS", 1)},
                 {Row("CQ-004", "PASS", 1), Row("CQ-005", "FAIL", 0)}}
          [] f = "governance_scorecard.csv" ->
                {{Row("Boundary validation", "Managed", 4)},
                 {Row("Boundary validation", "Initial", 2)}}
          [] f = "ontology_quality.csv" ->
                {{Row("P04", "MINOR", 0)}, {Row("P04", "MINOR", 3)}}
          [] f = "enterprise-shapes.ttl" ->
                {{Row("AlarmShape", "declared", 0)},
                 {Row("AlarmShape", "named", 0)}}
          [] f = "agent-gate.ttl" ->
                {{Row("ObservationAcceptanceGate", "named", 0)}}
          [] f = "enterprise.ttl" ->
                {{Row("a", "asset", 0), Row("b", "debt", 0)},
                 {Row("a", "asset", 0), Row("c", "asset", 0)}}
          [] f = "alignment.ttl" -> {{Row("d", "debt", 0)}}
          [] f = "enterprise-inferred.ttl" -> {{Row("e", "debt", 0)}}]

Ask(k, s, p) == [kind |-> k, selector |-> s, pass |-> p]
AtLeastN(field, n) == [form |-> "compares", field |-> field, op |-> ">=", number |-> n]
Exists == [form |-> "exists"]
StatusIn(form) == [form |-> form, field |-> "status", values |-> {"PASS"}]

MCRegulations ==
    [basel |-> <<Ask("GOVERNANCE_SCORECARD_CRITERION", "Boundary validation", AtLeastN("score", 3)),
                 Ask("SHACL_SHAPE", "ObservationAcceptanceGate", Exists),
                 Ask("SPARQL_CQ", "CQ-004", StatusIn("equals")),
                 Ask("PROV_O_CHAIN", "decision_iri", AtLeastN("chain_depth", 2))>>,
     house |-> <<Ask("SPARQL_CQ", "CQ-005", StatusIn("in")),
                 Ask("SHACL_SHAPE", "AlarmShape", Exists),
                 Ask("OBSERVATION_RECORD", "", Exists)>>,
     named |-> <<Ask("SHACL_SHAPE", "AlarmShape", Exists),
                 Ask("OBSERVATION_RECORD", "o2", Exists)>>]

\* A chain of two with an external source, and one that comes back.
MCSourceRef == [o1 |-> "o2", o2 |-> "sap", o3 |-> "o3"]

MCTier == [f \in Files |-> IF f = "alignment.ttl" THEN "Public" ELSE "Internal"]
MCSending == <<"alignment.ttl", "enterprise.ttl", "enterprise-shapes.ttl">>
MCQuoting == {Row("d", "debt", 0)}
MCTurtle == <<"alignment.ttl", "enterprise.ttl", "enterprise-inferred.ttl">>

Casts ==
    {[who |-> {"gate"}, rewrites |-> 1, asks |-> {},
      files |-> {"enterprise.ttl", "sparql_cq_test_results.csv",
                 "ontology_quality.csv", "enterprise-inferred.ttl"}],
     [who |-> {"publish"}, rewrites |-> 1, asks |-> {},
      files |-> {"alignment.ttl", "enterprise.ttl", "enterprise-shapes.ttl"}],
     [who |-> {x0}, rewrites |-> 1,
      asks |-> ({"basel"} \X Decisions \X {TRUE})
                  \cup ({"house", "named", "torn"} \X {None, "o1"} \X {TRUE})
                  \cup {<<"basel", None, FALSE>>},
      files |-> {"sparql_cq_test_results.csv", "governance_scorecard.csv",
                 "enterprise-shapes.ttl", "agent-gate.ttl"}],
     [who |-> {x1, x2}, rewrites |-> 0, asks |-> {<<"named", None, TRUE>>},
      files |-> {}]}

MCInit ==
    /\ cast \in Casts
    /\ DirInit(cast.files)
    /\ ComplyInit /\ PublishInit /\ GateInit

\* Each step is one of Next.
MCNext ==
    /\ UNCHANGED cast
    /\ \/ rewrites < cast.rewrites /\ \E f \in cast.files : Write(f)
       \/ EndWrite
       \/ \E e \in cast.who \cap Exports :
             Comply(e) /\ <<job'[e].reg, job'[e].decision, job'[e].home>>
                             \in cast.asks \cup {<<None, None, TRUE>>}
       \/ "publish" \in cast.who /\ Upload
       \/ "gate" \in cast.who /\ Ratchet

MCSpec == MCInit /\ [][MCNext]_<<consumerVars, cast>>
=============================================================================
