------------------------------- MODULE Pipeline -------------------------------
(***************************************************************************)
(* Runs of the pipeline (src/toolkit.py): main takes the phases of one     *)
(* invocation in order and runs each; a phase writes its files one after   *)
(* the other.  An exception, or the wizard's 300 seconds, ends the run     *)
(* between any two of them or within one.  The next run starts from        *)
(* whatever is in the output directory, which nothing clears.              *)
(*                                                                         *)
(* Between two phases people may change the database and the session,      *)
(* install or lose ROBOT, and apply a proposal, which appends a block to   *)
(* enterprise.ttl.  A phase reads its inputs when it starts, so that a     *)
(* change in the middle of one is one before or after it.                  *)
(***************************************************************************)
EXTENDS PipelineFiles

CONSTANTS Singles,   \* phases a run may consist of, besides "all"
          MaxUpsets, \* bound: edits, deaths and single phases in a behaviour
          Rounds     \* bound: how far undisturbed runs are counted

ASSUME Bounds == MaxUpsets \in Nat /\ Rounds \in Nat \ {0}

VARIABLES
    dir,      \* the output directory
    tables,   \* tables of the database
    session,  \* log-discovery classes and rules of .wizard_session.json
    robot,    \* the state of ROBOT
    running,  \* "no", "all" or "single"
    todo,     \* phases the run still has to begin
    clean,    \* whether nothing interfered since the run began
    verdict,  \* what the last classification printed
    known,    \* classes the last classification that ROBOT passed was of
    cut,      \* whether a classifying phase died since ROBOT last passed one
    quiet,    \* full runs since something last interfered, up to Rounds
    upsets    \* interferences so far

pipelineVars == <<dir, tables, session, robot, running, todo, clean, verdict,
                  known, cut, quiet, upsets>>
run == <<running, todo>>
world == <<tables, session, robot>>
judged == <<verdict, known, cut>>

(* The phases, each the generators it calls, in order.                     *)

Phase2 == GenerateOntology \o RunAndReport
PhaseReason == ExportRules \o CombineShapes \o Materialize
PhaseTmf == SidHierarchy \o TmfJsonld \o TmfCoverage \o TmfQuestions
PhaseConflict == ConflictReport \o ConflictShacl \o ConflictTools
PhaseAlignment == AlignmentOntology \o FederationConfig
\* The competency questions are run once more as SPARQL.
PhaseTest == RunCqTests \o RunSparqlTests
PhaseReport == GenerateReport \o WriteSummary

Writes ==
    [p1 |-> <<>>, p2 |-> Phase2, p3 |-> GenerateShacl,
     reason |-> PhaseReason, p4 |-> GenerateMapping, p5 |-> GenerateJsonld,
     tmf |-> PhaseTmf, conflict |-> PhaseConflict,
     alignment |-> PhaseAlignment, runtime |-> RuntimeTools,
     drift |-> RunDriftDetection, templates |-> RunTemplates,
     modular |-> RunModularOwl, tmf630 |-> Tmf630TaskPhase,
     abox |-> GenerateAbox, quality |-> RunQualityReport,
     sparql |-> RunSparqlTests, test |-> PhaseTest, report |-> PhaseReport,
     reasoner |-> RunAndReport, security |-> GenerateRbac]

\* Mutant: the instances are made after the phases that measure them.
AboxLast == <<"p1", "p2", "p3", "reason", "p4", "p5", "tmf", "conflict",
              "alignment", "runtime", "drift", "templates", "modular",
              "tmf630", "quality", "sparql", "test", "abox", "report">>

\* Phase "all".
All == <<"p1", "p2", "p3", "reason", "p4", "p5", "tmf", "conflict",
         "alignment", "runtime", "drift", "templates", "modular", "tmf630",
         "abox", "quality", "sparql", "test", "report">>
Classifying == {"p2", "reasoner"}

ASSUME SinglesArePhases == Singles \subseteq DOMAIN Writes

\* setup_db and provision_tmf630_task_tables create what is not there.
Provisioned(p, ts) ==
    ts \cup (IF p = "p1" THEN BaseTables
             ELSE IF p = "tmf630" THEN TaskTables ELSE {})

\* The directory after each number of files of a phase.
Stages(p, d, in) ==
    LET s[k \in 0..Len(Writes[p])] ==
            IF k = 0 THEN d
            ELSE LET f == Writes[p][k]
                     e == s[k - 1]
                 IN  [e EXCEPT ![f] = Made(f, e, in)]
    IN  s
After(p, d, in) == Stages(p, d, in)[Len(Writes[p])]

NoFiles == [f \in Files |-> Missing]

\* What phase p reads if it starts now.
Input(p) == [tables |-> Provisioned(p, tables), classes |-> session.classes,
             rules |-> session.rules, causal |-> session.causal,
             robot |-> robot]

-----------------------------------------------------------------------------
PipelineInit ==
    /\ dir = NoFiles
    /\ tables = BaseTables
    /\ session = [classes |-> {}, rules |-> {}, causal |-> {}]
    /\ robot \in {"absent", "ok"}   \* any other state is an EditRobot away
    /\ running = "no"
    /\ todo = <<>>
    /\ clean = TRUE
    /\ verdict = "none"
    /\ known = {}
    /\ cut = FALSE
    /\ quiet = 0
    /\ upsets = 0

\* Something interferes: it is counted, and full runs are counted anew.
Upset ==
    /\ upsets < MaxUpsets
    /\ upsets' = upsets + 1
    /\ clean' = FALSE
    /\ quiet' = 0

StartAll ==
    /\ running = "no"
    /\ running' = "all"
    /\ todo' = All
    /\ clean' = TRUE
    /\ UNCHANGED <<dir, world, judged, quiet, upsets>>

\* --phase p.
StartSingle(p) ==
    /\ running = "no"
    /\ Upset
    /\ running' = "single"
    /\ todo' = <<p>>
    /\ UNCHANGED <<dir, world, judged>>

\* One phase of the run.  A phase that classifies ends with its verdict.
RunPhase ==
    /\ todo # <<>>
    /\ LET p == Head(todo)
           in == Input(p)
       IN  /\ tables' = in.tables
           /\ dir' = After(p, dir, in)
           /\ IF p \in Classifying
              THEN /\ verdict' = Overall(dir', in)
                   /\ known' = IF Classifies(dir', in)
                               THEN ClassesIn(dir'["enterprise.ttl"])
                               ELSE known
                   /\ cut' = (cut /\ ~Classifies(dir', in))
              ELSE UNCHANGED judged
    /\ todo' = Tail(todo)
    /\ UNCHANGED <<session, robot, running, clean, quiet, upsets>>

Finish ==
    /\ running # "no"
    /\ todo = <<>>
    /\ running' = "no"
    /\ quiet' = IF running = "all" /\ clean /\ quiet < Rounds
                THEN quiet + 1 ELSE quiet
    /\ UNCHANGED <<dir, world, judged, todo, clean, upsets>>

\* The run ends after k files of a phase, perhaps within the next.
Die ==
    /\ todo # <<>>
    /\ Upset
    /\ LET p == Head(todo)
           in == Input(p)
           s == Stages(p, dir, in)
       IN  /\ tables' = in.tables
           /\ \E k \in 0..Len(Writes[p]) :
                 \/ dir' = s[k]
                 \/ /\ k < Len(Writes[p])
                    /\ ~Skips(Writes[p][k + 1], s[k], in)
                    /\ dir' = [s[k] EXCEPT ![Writes[p][k + 1]] = {}]
    /\ running' = "no"
    /\ todo' = <<>>
    /\ cut' = (cut \/ Head(todo) \in Classifying)
    /\ UNCHANGED <<session, robot, verdict, known>>

EditDatabase ==
    /\ Upset
    /\ \E t \in UserTables \cup BaseTables :
          tables' = (tables \ {t}) \cup ({t} \ tables)
    /\ UNCHANGED <<dir, session, robot, run, judged>>

EditSession ==
    /\ Upset
    /\ \/ \E c \in LogClasses :
             session' = [session EXCEPT !.classes =
                            (@ \ {c}) \cup ({c} \ @)]
       \/ \E rs \in SUBSET (ShaclRules \cup SparqlRules) \ {session.rules} :
             session' = [session EXCEPT !.rules = rs]
       \/ \E r \in CausalRules :
             session' = [session EXCEPT !.causal =
                            (@ \ {r}) \cup ({r} \ @)]
    /\ UNCHANGED <<dir, tables, robot, run, judged>>

EditRobot ==
    /\ Upset
    /\ robot' \in Robots \ {robot}
    /\ UNCHANGED <<dir, tables, session, run, judged>>

\* apply_approved: see VersionedApply.
ApplyProposal ==
    /\ dir["enterprise.ttl"] # Missing
    /\ Upset
    /\ \E b \in Blocks :
          dir' = [dir EXCEPT !["enterprise.ttl"] = @ \cup {<<"block", b>>}]
    /\ UNCHANGED <<world, run, judged>>

PipelineNext ==
    \/ StartAll
    \/ \E p \in Singles : StartSingle(p)
    \/ RunPhase
    \/ Finish
    \/ Die
    \/ EditDatabase
    \/ EditSession
    \/ EditRobot
    \/ ApplyProposal

PipelineSpec == PipelineInit /\ [][PipelineNext]_pipelineVars

-----------------------------------------------------------------------------
(* Properties.                                                             *)

\* Types; of the files, the ontology's.
PipelineTypeOK ==
    /\ DOMAIN dir = Files
    /\ dir["enterprise.ttl"] # Missing =>
          \A a \in dir["enterprise.ttl"] :
              a \in Entities({a}) \cup Own("enterprise.ttl") \/ a[1] = "gone"
    /\ tables \subseteq Tables
    /\ session \in [classes : SUBSET LogClasses,
                    rules : SUBSET (ShaclRules \cup SparqlRules),
                    causal : SUBSET CausalRules]
    /\ robot \in Robots
    /\ running \in {"no", "all", "single"}
    /\ todo \in Seq(DOMAIN Writes)
    /\ clean \in BOOLEAN
    /\ verdict \in {"none", "PASS", "FAIL", "SKIPPED"}
    /\ known \subseteq ClassesIn(known)
    /\ cut \in BOOLEAN
    /\ quiet \in 0..Rounds
    /\ upsets \in 0..MaxUpsets

\* Phase p alone on unchanging inputs, from a directory and a database.
PhaseOn(p, was, in) ==
    LET ts == Provisioned(p, was.tables)
    IN  [dir |-> After(p, was.dir, [in EXCEPT !.tables = ts]), tables |-> ts]

\* The directory of a new checkout after Rounds full runs.  (Binding "was" to
\* the one element of a set makes TLC evaluate it once, and first.)
Fresh ==
    [in \in {i \in Inputs : BaseTables \cup TaskTables \subseteq i.tables} |->
        LET s[n \in 0..Rounds * Len(All)] ==
                IF n = 0
                THEN [dir |-> NoFiles, tables |-> in.tables \ TaskTables]
                ELSE CHOOSE new \in
                        {PhaseOn(All[((n - 1) % Len(All)) + 1], was, in) :
                            was \in {s[n - 1]}} : TRUE
        IN  s[Rounds * Len(All)].dir]

WrittenByAll == UNION {{Writes[All[i]][k] : k \in DOMAIN Writes[All[i]]} :
                           i \in DOMAIN All}

\* Files that may hold what an earlier run left there.  Classification needs
\* ROBOT; a rule list that becomes empty is not exported any more; the output
\* of an engine that is skipped stays; and modular_owl lists whatever it finds.
Lingering ==
    {"master.ttl", "modules.json"}
        \cup (IF robot \in {"absent", "fails"} THEN Listed(RunAndReport)
              ELSE {"hierarchy-snapshot-prev.tsv"})
        \cup (IF session.rules = {} THEN {"rules.ttl", "sparql_rules"} ELSE {})
        \cup (IF session.rules \cap SparqlRules = {} /\ session.causal = {}
              THEN {"inferred-sparql.ttl"} ELSE {})

\* Contents but for tombstones, which come and go,
\* and, when the session has no rules, but for what retired rules leave.
Gone(a) == a[1] = "gone" \/ (a[1] = "before" /\ a[2][1] = "gone")
Plain(c) ==
    IF c = Missing THEN Missing
    ELSE {a \in c : /\ ~Gone(a)
                    /\ session.rules = {} =>
                          a[1] # "rule" /\ a \notin Own("inferred-sparql.ttl")}

\* History does not show: whatever runs, edits, deaths in the middle of a file
\* and applied blocks came before, Rounds full runs that nothing disturbs
\* leave every file outside Lingering as they would in a new checkout.
SettledLikeFresh ==
    running = "no" /\ quiet = Rounds =>
        \A f \in WrittenByAll \ Lingering :
            Plain(dir[f]) = Plain(Fresh[Input("p1")][f])

\* After one undisturbed full run each measurement and report is of the very
\* files that lie beside it: taking it again would change nothing.  This is
\* what toolkit.py puts the abox, quality, sparql, test and report phases at
\* the end of "all" for, in this order.
Measured == {"instances.ttl", "ontology_quality.csv",
             "sparql_cq_test_results.csv", "cq_test_results.csv",
             "toolkit_report.html", "compliance_summary.html"}
MeasuredThisRun ==
    running = "no" /\ quiet > 0 =>
        \A f \in Measured : dir[f] = Made(f, dir, Input("p1"))

\* A classification is printed as PASS only if the snapshot it compared shows
\* the classes of the ontology that lies there now, whatever classified file
\* and snapshots earlier runs have left.  Its properties are not compared.
Judges == todo # <<>> /\ Head(todo) \in Classifying /\ todo' = Tail(todo)
             /\ running' # "no"
PassIsOfThisOntology ==
    [][Judges /\ verdict' = "PASS" =>
          {a[2] : a \in Reads(dir', {"hierarchy-snapshot.tsv"})}
              = ClassesIn(dir'["enterprise.ttl"])]_pipelineVars

\* Unless a classifying phase died since, a class that the last ontology ROBOT
\* classified had and this one has not keeps the verdict from being PASS,
\* through any number of runs that ROBOT was absent from or refused.  A property
\* that is gone, as an applied one is with the next run, does not.
RemovalNotPassed ==
    [][Judges /\ verdict' = "PASS" /\ ~cut => known \subseteq known']_pipelineVars
=============================================================================
