---------------------------- MODULE PipelineFiles ----------------------------
(***************************************************************************)
(* What each generator of the pipeline writes (src/src/*.py, called by the *)
(* phases of src/toolkit.py), as a function of the files it finds in the   *)
(* output directory and of the inputs it reads: the database, the wizard's *)
(* session, and whether the external reasoner ROBOT works.                 *)
(*                                                                         *)
(* A file is the set of atoms its contents derive from: the tables, session*)
(* classes, rules and published blocks it mentions, and a mark <<"from",   *)
(* f>> of each file f whose own text it depends on.  A generator that      *)
(* loads files yields the union of their atoms, so an atom found in a      *)
(* report says which inputs that report was computed from.  An empty set is*)
(* a file cut short: its readers skip it, or find nothing in it.           *)
(*                                                                         *)
(* Files written by one function from the same inputs and read by the same *)
(* functions share an entry.  Time stamps and counters of runs are left    *)
(* out, and so is the version of the ontology, a constant of the code.     *)
(* Phases use the default output directory, which cq_tester reads whatever *)
(* --out says.  owlrl, pyshacl and rdflib are installed.                   *)
(***************************************************************************)
EXTENDS Naturals, Sequences

CONSTANTS BaseTables,   \* tables setup_db creates
          UserTables,   \* tables of the user's own
          TaskTables,   \* tables the tmf630 phase creates
          LogClasses,   \* log-discovery classes a session may hold
          ShaclRules,   \* rules of kind shacl a session may hold
          SparqlRules,  \* rules of kind sparql
          CausalRules,  \* approved causal edges
          Blocks,       \* axioms apply_approved may append to enterprise.ttl
          ClassBlocks   \* those that declare a class; others declare a property

ASSUME BlocksTyped == ClassBlocks \subseteq Blocks

\* Stands for a file that does not exist.  It is no file's contents, since an
\* atom is never the empty tuple.
Missing == {<<>>}

Tables == BaseTables \cup UserTables \cup TaskTables

\* ROBOT is not installed, refuses the ontology, classifies but fails to
\* export, or works.
Robots == {"absent", "fails", "noexport", "ok"}

Inputs == [tables : SUBSET Tables, classes : SUBSET LogClasses,
           rules : SUBSET (ShaclRules \cup SparqlRules),
           causal : SUBSET CausalRules, robot : Robots]

(* What each generator writes, in order.                                   *)

GenerateOntology == <<"enterprise.ttl", "profile_recommendation.md",
                      "events.ttl", "provenance.ttl", "dimensions.ttl">>

\* Mutant: the snapshot is taken before the classification.
SnapshotFirst == <<"hierarchy-snapshot-prev.tsv", "hierarchy-snapshot.tsv",
                   "enterprise-classified.ttl">>
\* Mutant: the old snapshot is put aside after the new one is taken.
RolledLast == <<"enterprise-classified.ttl", "hierarchy-snapshot.tsv",
                "hierarchy-snapshot-prev.tsv">>

RunAndReport == <<"hierarchy-snapshot-prev.tsv", "enterprise-classified.ttl",
                  "hierarchy-snapshot.tsv">>
GenerateShacl == <<"enterprise-shapes.ttl", "agent-gate.ttl">>
ExportRules == <<"rules.ttl", "sparql_rules">>
CombineShapes == <<"_combined.ttl">>
Materialize == <<"enterprise-inferred.ttl", "inferred-shacl.ttl",
                 "inferred-sparql.ttl", "materialised.ttl",
                 "materialised-lineage.ttl", "materialisation_report.md">>
GenerateMapping == <<"logical_physical_map.csv", "semantic_loss_report.csv",
                     "orphan_candidates.csv">>
GenerateJsonld == <<"enterprise-context.json", "mcp-tool-definitions.json",
                    "enterprise-skos.ttl">>
SidHierarchy == <<"tmf-sid-hierarchy.ttl">>
\* Also tmf-mcp-tools.json, which the scorecard alone reads, as it does this.
TmfJsonld == <<"tmf-context.json">>
TmfCoverage == <<"tmf_api_coverage.csv">>
TmfQuestions == <<"tmf_cq_test_results.csv">>
ConflictReport == <<"conflict_report.json">>
ConflictShacl == <<"conflict-resolution-shapes.ttl">>
ConflictTools == <<"conflict-mcp-tools.json">>
AlignmentOntology == <<"alignment.ttl">>
FederationConfig == <<"federation-config.ttl">>
RuntimeTools == <<"runtime-mcp-tools.json">>
RunDriftDetection == <<"drift.ttl", "drift-shapes.ttl", "drift-skos.ttl">>
RunTemplates == <<"template.ttl", "cq_template.csv">>
RunModularOwl == <<"master.ttl", "modules.json">>
Tmf630TaskPhase == <<"tmf630-task-bulk.ttl", "tmf630-task-mcp-tools.json",
                     "tmf630_task_cq_results.csv">>
GenerateAbox == <<"instances.ttl">>
RunQualityReport == <<"ontology_quality.csv">>
RunSparqlTests == <<"sparql_cq_test_results.csv">>
RunCqTests == <<"cq_test_results.csv", "governance_scorecard.csv">>
GenerateReport == <<"toolkit_report.html">>
WriteSummary == <<"compliance_summary.html">>
GenerateRbac == <<"rbac">>

Listed(w) == {w[i] : i \in DOMAIN w}

(* Files whose text is a constant of the code, by what writes the text.     *)

\* Time, quantity and participation patterns; the provenance profile.
DimensionPatterns == {"dimensions.ttl"}
ProvPatterns == {"provenance.ttl"}
McpToolDefinitions == {"mcp-tool-definitions.json"}
DriftShapes == {"drift-shapes.ttl"}
DriftVocabulary == {"drift-skos.ttl"}
\* The templates come with the code, one module and one catalogue each.
TemplateModules == {"template.ttl"}
TemplateQuestions == {"cq_template.csv"}
\* The bulk classes and the tools of the TMF630 task pattern.
TaskPattern == {"tmf630-task-bulk.ttl", "tmf630-task-mcp-tools.json"}

FromConstants ==
    {"drift.ttl", "agent-gate.ttl"}
        \cup DimensionPatterns \cup ProvPatterns \cup McpToolDefinitions
        \cup DriftShapes \cup DriftVocabulary
        \cup TemplateModules \cup TemplateQuestions \cup TaskPattern
        \cup Listed(SidHierarchy) \cup Listed(TmfJsonld)
        \cup Listed(ConflictShacl) \cup Listed(ConflictTools)
        \cup Listed(FederationConfig) \cup Listed(RuntimeTools)

(* Files generated from the introspected database alone.                    *)

\* A class per distinct event type, disjoint from its siblings.
EventSubclasses == {"events.ttl"}
ContextTerms == {"enterprise-context.json"}
SkosConcepts == {"enterprise-skos.ttl"}
\* The findings also replace the unresolved rows of semantic_loss_log.
SemanticLosses == {"semantic_loss_report.csv"}
Orphans == {"orphan_candidates.csv"}
AccessPolicies == {"rbac"}

FromTables ==
    {"enterprise-shapes.ttl", "tmf630_task_cq_results.csv",
     "logical_physical_map.csv"}
        \cup EventSubclasses \cup ContextTerms \cup SkosConcepts
        \cup SemanticLosses \cup Orphans \cup AccessPolicies
        \cup Listed(TmfCoverage) \cup Listed(TmfQuestions)
        \cup Listed(ConflictReport)

\* Files computed from other files of the directory.
Derived ==
    {"enterprise.ttl", "profile_recommendation.md"}
        \cup UNION {Listed(w) : w \in
                 {RunAndReport, ExportRules, CombineShapes, Materialize,
                  AlignmentOntology, RunModularOwl, GenerateAbox,
                  RunQualityReport, RunSparqlTests, RunCqTests,
                  GenerateReport, WriteSummary}}

Files == FromConstants \cup FromTables \cup Derived

\* The Turtle files of ontology/ that modular_owl scans: all but its own.
OntologyTurtle ==
    {"enterprise.ttl", "events.ttl", "provenance.ttl", "dimensions.ttl",
     "enterprise-classified.ttl", "enterprise-inferred.ttl",
     "inferred-shacl.ttl", "inferred-sparql.ttl", "materialised.ttl",
     "materialised-lineage.ttl", "tmf-sid-hierarchy.ttl", "alignment.ttl",
     "federation-config.ttl", "drift.ttl", "template.ttl",
     "tmf630-task-bulk.ttl", "instances.ttl"}
\* The Turtle files of shapes/, of which _combined.ttl is the union.
Shapes == {"enterprise-shapes.ttl", "agent-gate.ttl", "rules.ttl",
           "conflict-resolution-shapes.ttl", "drift-shapes.ttl"}
Authored == {"enterprise.ttl", "events.ttl", "provenance.ttl",
             "dimensions.ttl", "alignment.ttl"}

\* The kinds of atoms that are entities, of which a Turtle file has typed
\* declarations; "base" stands for the classes every generated file declares.
Base == <<"base", "DomainEntity">>
TableAtoms(ts) == {<<"table", t>> : t \in ts}
RuleAtoms(rs) == {<<"rule", r>> : r \in rs}
Own(f) == {<<"from", f>>}
Entities(c) == {a \in c : a[1] \in {"base", "table", "class", "block"}}
ClassesIn(c) == {a \in Entities(c) : a[1] = "block" => a[2] \in ClassBlocks}
Deprecated(c) == {a[2] : a \in {b \in c : b[1] = "gone"}}
RulesIn(c) == {a \in c : a[1] = "rule"}

Present(d, fs) == {f \in fs : d[f] # Missing}
Reads(d, fs) == UNION {d[f] : f \in Present(d, fs)}

-----------------------------------------------------------------------------
(* Phase 2, the ontology and its classification.                           *)

\* The profile is chosen from the constructs of the file just written.
ProfileRecommendation(d) == Reads(d, {"enterprise.ttl"})

\* Entities of the previous file whose names are not those of a table or one
\* of its properties, and that it does not already mark as deprecated.  The
\* classes the generator declares whatever the tables are, and those of the
\* session, are not in current_names.
Tombstones(prior, tables) ==
    {<<"gone", a>> :
        a \in (Entities(prior) \ TableAtoms(tables)) \ Deprecated(prior)}

Ontology(d, in) ==
    Own("enterprise.ttl") \cup {Base} \cup TableAtoms(in.tables)
        \cup {<<"class", c>> : c \in in.classes}
        \cup Tombstones(Reads(d, {"enterprise.ttl"}), in.tables)

\* run_reasoner writes the classified file only if ROBOT succeeds.
Classifies(d, in) ==
    in.robot \in {"ok", "noexport"} /\ d["enterprise.ttl"] # Missing

\* snapshot_hierarchy has ROBOT export the class tree, or takes the lines of
\* the file that declare classes: two notations of the same classes.  Neither
\* lists a property.
Snapshot(d, in) ==
    {<<IF in.robot \in {"ok", "fails"} THEN "export" ELSE "grep", a>> :
        a \in ClassesIn(d["enterprise-classified.ttl"])}

\* run_and_report's overall status.
Overall(d, in) ==
    LET old == Reads(d, {"hierarchy-snapshot-prev.tsv"})
        new == Reads(d, {"hierarchy-snapshot.tsv"})
    IN  IF \/ in.robot # "absent" /\ ~Classifies(d, in)
           \/ old \ new # {}
        THEN "FAIL"
        ELSE IF in.robot = "absent" THEN "SKIPPED" ELSE "PASS"

-----------------------------------------------------------------------------
(* Phase "reason".                                                         *)

\* export_rules runs only if the session has rules, and then makes rules.ttl
\* and sparql_rules/ hold exactly those; export_causal_rules adds to the
\* latter.
ShaclFile(d, in) ==
    IF in.rules = {} THEN d["rules.ttl"]
    ELSE IF in.rules \cap ShaclRules = {} THEN Missing
    ELSE RuleAtoms(in.rules \cap ShaclRules)

SparqlFolder(d, in) ==
    LET kept == IF in.rules = {} THEN d["sparql_rules"]
                                 ELSE RuleAtoms(in.rules \cap SparqlRules)
    IN  IF in.causal = {} THEN kept
        ELSE RuleAtoms(in.causal) \cup (IF kept = Missing THEN {} ELSE kept)

\* _run_sparql_constructs is skipped, and leaves its last output where it is,
\* if there are no queries.
ConstructsRun(d) == RulesIn(Reads(d, {"sparql_rules"})) # {}
ShaclRuns(d) == d["_combined.ttl"] # Missing

Ground == {"enterprise.ttl", "events.ttl", "provenance.ttl"}

\* Mutant: merges the outputs that lie there, an earlier run's among them.
EveryOutput(d) ==
    {"enterprise-inferred.ttl", "inferred-shacl.ttl", "inferred-sparql.ttl"}

\* _write_materialised merges the outputs of the engines that ran.
EngineOutputs(d) ==
    {"enterprise-inferred.ttl"}
        \cup (IF ShaclRuns(d) THEN {"inferred-shacl.ttl"} ELSE {})
        \cup (IF ConstructsRun(d) THEN {"inferred-sparql.ttl"} ELSE {})
Materialised(d) == Reads(d, Ground \cup EngineOutputs(d))

\* The reified statements of what each engine derived, with their premises,
\* and the report on the engines' triples and on tiers they weaken.
Lineage(d) == Reads(d, EngineOutputs(d))
MaterialisationReport(d) == Materialised(d)

-----------------------------------------------------------------------------
(* The measuring phases.                                                   *)

\* generate_abox makes individuals of the classes the mapping names, as far
\* as their tables can be read.
Instances(d, in) ==
    Own("instances.ttl") \cup Reads(d, Ground)
        \cup (Reads(d, {"logical_physical_map.csv"}) \cap TableAtoms(in.tables))

SparqlTested == Ground \cup {"dimensions.ttl", "instances.ttl"}

(* What the criteria of _score_governance are scored on, beside rows of the *)
(* database: a file that is missing or does not parse scores as none.       *)

\* Criteria 1 to 14 count classes, shapes, concepts, terms and bound tools.
ScoredAsParsed ==
    {"enterprise.ttl", "enterprise-shapes.ttl", "agent-gate.ttl",
     "enterprise-skos.ttl", "logical_physical_map.csv",
     "enterprise-context.json", "mcp-tool-definitions.json"}
\* Criteria 15 to 23 look for words in a file, or for the file.
ScoredAsText ==
    {"enterprise.ttl", "profile_recommendation.md", "tmf-context.json",
     "enterprise-shapes.ttl"}
\* Criteria 24 to 28, pitfalls and depth take the authored modules together.
ScoredAsOntology == Authored \cup {"enterprise-skos.ttl"}
\* Criteria 29 to 31 ask whether agents have their tools, gate and context.
ScoredAsReady ==
    {"tmf-context.json", "mcp-tool-definitions.json", "agent-gate.ttl",
     "enterprise-context.json"}
\* "Regulatory coverage" asks the compliance assembler, which reads the
\* scorecard of the run before.
ScoredAsEvidence == {"sparql_cq_test_results.csv"}

Scorecard(d) ==
    LET own == Reads(d, ScoredAsParsed \cup ScoredAsText
                          \cup ScoredAsOntology \cup ScoredAsReady
                          \cup ScoredAsEvidence)
        before == Reads(d, {"governance_scorecard.csv"})
    IN  own \cup {<<"before", a>> : a \in {b \in before : b[1] # "before"}}

Reported == {"cq_test_results.csv", "governance_scorecard.csv",
             "semantic_loss_report.csv", "orphan_candidates.csv",
             "logical_physical_map.csv", "tmf_cq_test_results.csv",
             "tmf_api_coverage.csv"}

\* modular_owl lists the modules it finds and what they declare.
Modules(d) == {<<"module", f>> : f \in Present(d, OntologyTurtle)}
                  \cup Reads(d, OntologyTurtle)

-----------------------------------------------------------------------------
\* The cases in which a phase returns or goes on without opening the file.
Skips(f, d, in) ==
    \/ /\ f = "hierarchy-snapshot-prev.tsv"
       /\ d["hierarchy-snapshot.tsv"] = Missing
    \/ f = "enterprise-classified.ttl" /\ ~Classifies(d, in)
    \/ f = "hierarchy-snapshot.tsv" /\ d["enterprise-classified.ttl"] = Missing
    \/ /\ f \in {"rules.ttl", "sparql_rules", "_combined.ttl",
                 "enterprise-inferred.ttl", "inferred-shacl.ttl",
                 "inferred-sparql.ttl", "materialised.ttl",
                 "materialised-lineage.ttl", "materialisation_report.md"}
       /\ d["enterprise.ttl"] = Missing
    \/ f = "rules.ttl" /\ in.rules = {}
    \/ f = "sparql_rules" /\ in.rules = {} /\ in.causal = {}
    \/ f = "_combined.ttl" /\ Present(d, Shapes \cup {"_combined.ttl"}) = {}
    \/ f = "inferred-shacl.ttl" /\ ~ShaclRuns(d)
    \/ f = "inferred-sparql.ttl" /\ ~ConstructsRun(d)
    \/ f \in {"master.ttl", "modules.json"} /\ Present(d, OntologyTurtle) = {}
    \/ f = "instances.ttl" /\ Reads(d, {"logical_physical_map.csv"}) = {}
    \/ f = "ontology_quality.csv" /\ Present(d, Authored) = {}
    \/ /\ f = "sparql_cq_test_results.csv"
       /\ Present(d, SparqlTested) = {}

\* What the file holds once its generator is through, Missing if it is
\* removed.
Made(f, d, in) ==
    IF Skips(f, d, in) THEN d[f]
    ELSE IF f \in FromConstants THEN Own(f)
    ELSE IF f \in FromTables THEN Own(f) \cup TableAtoms(in.tables)
    ELSE CASE f = "enterprise.ttl" -> Ontology(d, in)
           [] f = "profile_recommendation.md" -> ProfileRecommendation(d)
           [] f = "hierarchy-snapshot-prev.tsv" -> d["hierarchy-snapshot.tsv"]
           [] f = "enterprise-classified.ttl" -> d["enterprise.ttl"]
           [] f = "hierarchy-snapshot.tsv" -> Snapshot(d, in)
           [] f = "rules.ttl" -> ShaclFile(d, in)
           [] f = "sparql_rules" -> SparqlFolder(d, in)
           [] f = "_combined.ttl" -> Reads(d, Shapes)
           [] f = "enterprise-inferred.ttl" -> Own(f) \cup Reads(d, Ground)
           [] f = "inferred-shacl.ttl" ->
                  Own(f) \cup RulesIn(d["_combined.ttl"])
           [] f = "inferred-sparql.ttl" ->
                  Own(f) \cup RulesIn(d["sparql_rules"])
           [] f = "materialised.ttl" -> Materialised(d)
           [] f = "materialised-lineage.ttl" -> Lineage(d)
           [] f = "materialisation_report.md" -> MaterialisationReport(d)
           [] f = "alignment.ttl" ->
                  Own(f) \cup Reads(d, Ground \cup {"drift.ttl",
                                                    "tmf-sid-hierarchy.ttl"})
           [] f \in {"master.ttl", "modules.json"} -> Modules(d)
           [] f = "instances.ttl" -> Instances(d, in)
           [] f = "ontology_quality.csv" -> Reads(d, Authored)
           [] f = "sparql_cq_test_results.csv" -> Reads(d, SparqlTested)
           [] f = "cq_test_results.csv" ->
                  TableAtoms(in.tables) \cup Reads(d, Ground)
           [] f = "governance_scorecard.csv" -> Scorecard(d)
           [] f = "toolkit_report.html" -> Reads(d, Reported)
           [] f = "compliance_summary.html" ->
                  Reads(d, Shapes \cup
                             {"_combined.ttl", "sparql_cq_test_results.csv",
                              "governance_scorecard.csv"})
=============================================================================
