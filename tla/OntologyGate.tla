---------------------------- MODULE OntologyGate ----------------------------
(***************************************************************************)
(* The ratchet over the artifacts (src/scripts/ontology_gate.py).  A run   *)
(* lists the Turtle files, parses them one after another, reads the two    *)
(* reports, and either compares what it counted with ontology_baseline.json*)
(* or writes it there.  A statement counts against the ontology (several   *)
(* domains, a malformed IRI, an unbound alignment, a range of owl:Thing) or*)
(* for it (a restriction, a provenance chain, an extent, a quantity, a     *)
(* participation); one metric stands for each of the two kinds.            *)
(***************************************************************************)
EXTENDS OutputDirectory

CONSTANTS Turtle,      \* the Turtle files, in the order they are parsed
          DerivedFiles,\* those that a reasoner wrote
          Garbled,     \* a baseline that is no JSON
          MaxGates     \* bound of the model: runs of the gate

VARIABLES gate,        \* the run: what it is for, what it has still to read
          held,        \* what each file it has read held, None if there was none
          baseline,    \* ontology_baseline.json: None, Garbled or metrics
          basis,       \* what was read to record it, for an observer
          exit,        \* how the last run ended
          gates        \* runs begun, for MaxGates

gateVars == <<gate, held, baseline, basis, exit, gates>>

Questions == "sparql_cq_test_results.csv"
Pitfalls == "ontology_quality.csv"
Measured == Turtle \o <<Questions, Pitfalls>>

ASSUME GateAssumption == Turtle \in Seq(Files) /\ {Questions, Pitfalls} \subseteq Files

\* DIRECTIONS
Directions ==
    [turtle_parse_failures |-> "lower", debt |-> "lower", assets |-> "higher",
     cq_tests_returning_rows |-> "higher", cq_tests_failing |-> "lower",
     pitfalls_firing |-> "lower"]

-----------------------------------------------------------------------------
\* What was found in the files: h[f] is None or a file as in dir.
TurtleRead(h) == {f \in {Turtle[i] : i \in DOMAIN Turtle} : h[f] # None}
\* _parse_all: a file that is torn does not parse, one that ends between two
\* statements does.
Failures(h) == {f \in TurtleRead(h) : h[f].torn}
\* _authored_graph merges the files that parse and are no reasoner's.
AuthoredGraph(h) ==
    UNION {h[f].has : f \in TurtleRead(h) \ (Failures(h) \cup DerivedFiles)}

\* _cq_rows, _pitfall_counts: a report that is not there, and in the first case
\* one without rows, is not measured.
CqRows(h) == IF h[Questions] = None THEN {} ELSE h[Questions].has
Returning(h) == {r \in CqRows(h) : r.number > 0}
Failing(h) == {r \in CqRows(h) : r.status \in {"FAIL", "ERROR"}}
Firing(h) == {r \in h[Pitfalls].has : r.number > 0}

Metrics(h) ==
    [turtle_parse_failures |-> Cardinality(Failures(h)),
     debt |-> Cardinality({r \in AuthoredGraph(h) : r.status = "debt"}),
     assets |-> Cardinality({r \in AuthoredGraph(h) : r.status = "asset"}),
     cq_tests_returning_rows |->
        IF CqRows(h) = {} THEN None ELSE Cardinality(Returning(h)),
     cq_tests_failing |->
        IF CqRows(h) = {} THEN None ELSE Cardinality(Failing(h)),
     pitfalls_firing |->
        IF h[Pitfalls] = None THEN None ELSE Cardinality(Firing(h))]

\* Mutant: what is lost is not looked at.
RegressedUp(name, value, prior) == value > prior

Regressed(name, value, prior) ==
    \/ Directions[name] = "lower" /\ value > prior
    \/ Directions[name] = "higher" /\ value < prior

\* compare
Problems(current, base) ==
    {name \in DOMAIN current \cap DOMAIN base :
        /\ current[name] # None
        /\ base[name] # None
        /\ Regressed(name, current[name], base[name])}

-----------------------------------------------------------------------------
NoGate == [at |-> "idle", update |-> FALSE, next |-> 1]

StartGate(update) ==
    /\ gate.at = "idle"
    /\ gates < MaxGates
    /\ gate' = [at |-> "reading", update |-> update, next |-> 1]
    /\ held' = <<>>
    /\ exit' = "running"
    /\ gates' = gates + 1
    /\ UNCHANGED <<baseline, basis>>

\* collect, file by file.
Measure ==
    /\ gate.at = "reading"
    /\ gate.next <= Len(Measured)
    /\ LET f == Measured[gate.next]
       IN  held' = [g \in DOMAIN held \cup {f} |-> IF g = f THEN dir[f] ELSE held[g]]
    /\ gate' = [gate EXCEPT !.next = @ + 1]
    /\ UNCHANGED <<baseline, basis, exit, gates>>

AllRead == gate.at = "reading" /\ gate.next > Len(Measured)

Ends(how) == gate' = NoGate /\ exit' = how

\* --update-baseline opens the baseline, which cuts it, and fills it.
OpenBaseline ==
    /\ AllRead
    /\ gate.update
    /\ baseline' = Garbled
    /\ gate' = [gate EXCEPT !.at = "updating"]
    /\ UNCHANGED <<held, basis, exit, gates>>

FillBaseline ==
    /\ gate.at = "updating"
    /\ baseline' = Metrics(held)
    /\ basis' = held
    /\ Ends("recorded")
    /\ UNCHANGED <<held, gates>>

\* A baseline that is no JSON raises; without one the gate passes.
Check ==
    /\ AllRead
    /\ ~gate.update
    /\ Ends(IF baseline = Garbled THEN "error"
            ELSE IF baseline = None THEN "no_baseline"
            ELSE IF Problems(Metrics(held), baseline) # {} THEN "failed"
            ELSE "passed")
    /\ UNCHANGED <<held, baseline, basis, gates>>

GateDies ==
    /\ gate.at # "idle"
    /\ Ends("killed")
    /\ UNCHANGED <<held, baseline, basis, gates>>

GateInit ==
    /\ gate = NoGate
    /\ held = <<>>
    /\ baseline = None
    /\ basis = <<>>
    /\ exit = "none"
    /\ gates = 0

Gate == \/ \E u \in BOOLEAN : StartGate(u)
        \/ Measure \/ OpenBaseline \/ FillBaseline \/ Check \/ GateDies

-----------------------------------------------------------------------------
\* Statements of a kind in the files that no reasoner wrote, parsed or not.
Stated(h, kind) ==
    {r \in UNION {h[f].has : f \in TurtleRead(h) \ DerivedFiles} :
        r.status = kind}

\* A run that passes against a baseline for which everything parsed was of files
\* that all parse, in which no more speaks against the ontology and no less for
\* it; and whatever report was there both times has not become worse, although
\* a count that is missing on either side is passed over.
PassedGateNoWorse ==
    exit = "passed" =>
        /\ Failures(basis) = {} =>
              /\ Failures(held) = {}
              /\ Cardinality(Stated(held, "debt"))
                    <= Cardinality(Stated(basis, "debt"))
              /\ Cardinality(Stated(held, "asset"))
                    >= Cardinality(Stated(basis, "asset"))
        /\ CqRows(held) # {} /\ CqRows(basis) # {} =>
              /\ Cardinality(Returning(held)) >= Cardinality(Returning(basis))
              /\ Cardinality(Failing(held)) <= Cardinality(Failing(basis))
        /\ held[Pitfalls] # None /\ basis[Pitfalls] # None =>
              Cardinality(Firing(held)) <= Cardinality(Firing(basis))
=============================================================================
