----------------------------- MODULE Compliance -----------------------------
(***************************************************************************)
(* The compliance evidence engine (src/compliance/): the assembler walks   *)
(* the requirements of a regulation and reads the reports of the output    *)
(* directory and the observations, the exporter signs what it found, packs *)
(* it into a ZIP and records that in the database, and the gap analysis,   *)
(* the coverage score and the traffic lights are computed from the same    *)
(* reports.                                                                *)
(*                                                                         *)
(* An export is one POST of /api/comply/assemble or one toolkit.py --phase *)
(* comply.  Exports overlap with each other and with the pipeline that     *)
(* rewrites the reports; each opens every report anew for every            *)
(* requirement.  A Ed25519 pair is the export that generated it, and its   *)
(* signature verifies under the public key of the same pair (_crypto).     *)
(* The staging directory has a name of its own and is left out.  A row of  *)
(* observations is its IRI and its source_ref; they do not change.  A      *)
(* regulation file does not change either: write_regulation has no caller. *)
(* The directory modelled is the one the export reads (--out, or the one of*)
(* the wizard), which need not be the output directory of the repository.  *)
(***************************************************************************)
EXTENDS OutputDirectory

CONSTANTS Exports,     \* the exports there may be, each one call
          Regulations, \* the requirements of each regulation that loads
          Malformed,   \* files list_regulations lists and load_regulation refuses
          SourceRef,   \* the source_ref of each observation
          Decisions,   \* the decision IRIs a request may name, None among them
          MaxHops      \* bound of _walk_prov_chain

VARIABLES job,         \* each export: where it stands, and its locals
          key,         \* compliance.sk and compliance.pub
          makers,      \* the exports that generated a pair
          zip,         \* compliance/bundles
          recorded     \* compliance_bundles: the bundle of each row
\* job[e].since and .until count the files opened before the export started
\* and before it staged its files, for an observer.

complyVars == <<job, key, makers, zip, recorded>>

Reports == [SPARQL_CQ |-> "sparql_cq_test_results.csv",
            GOVERNANCE_SCORECARD_CRITERION |-> "governance_scorecard.csv"]
ShapeFiles == {"enterprise-shapes.ttl", "agent-gate.ttl"} \cap Files
Scorecard == Reports["GOVERNANCE_SCORECARD_CRITERION"]
\* The scorecard of the repository when the export reads another directory.
Elsewhere == {{}} \cup Contents[Scorecard]
Empty == ""

ASSUME NamesAssumption == None \notin Exports \cup {Empty}
ASSUME RegulationsAssumption ==
    \A r \in DOMAIN Regulations :
        Len(Regulations[r]) \in Nat /\ DOMAIN Regulations[r] = 1..Len(Regulations[r])

-----------------------------------------------------------------------------
(* The evidence resolvers.                                                 *)

Compares(op, v, n) ==
    \/ op = ">=" /\ v >= n
    \/ op = "<=" /\ v <= n
    \/ op = "==" /\ v = n
    \/ op = ">" /\ v > n
    \/ op = "<" /\ v < n

\* _eval_pass_expression: "exists", "<field> in (<literals>)" and
\* "<field> <op> <number>" are understood, of the fields that the resolver puts
\* into the context; status is no number.  An equation with a literal that is no
\* number matches none of the patterns.
PassExpression(expr, ctx) ==
    \/ expr.form = "exists" /\ "exists" \in DOMAIN ctx /\ ctx["exists"]
    \/ /\ expr.form = "in"
       /\ (IF expr.field \in DOMAIN ctx THEN ctx[expr.field] ELSE Empty)
             \in expr.values
    \/ /\ expr.form = "compares"
       /\ expr.field \in DOMAIN ctx \ {"status"}
       /\ Compares(expr.op, ctx[expr.field], expr.number)

\* The lines of a CSV with that name in the column that names them.
Rows(f, selector) == {r \in Records(f) : r.name = selector}

Found(status, found) == [status |-> status, found |-> found]
Nothing == [exists |-> FALSE, status |-> Empty, number |-> 0]
Judged(req, ctx, found) ==
    Found(IF PassExpression(req.pass, ctx)
            THEN "SATISFIED" ELSE "INSUFFICIENT", found)

\* _resolve_sparql_cq and _resolve_scorecard_criterion.
ResolveRow(req) ==
    LET rows == Rows(Reports[req.kind], req.selector)
    IN  IF rows = {} THEN Found("MISSING", Nothing)
        ELSE LET r == CHOOSE x \in rows : TRUE
                 found == [exists |-> TRUE, status |-> r.status,
                           number |-> r.number]
             IN  IF req.kind = "SPARQL_CQ"
                 THEN Judged(req, [status |-> r.status, row_count |-> r.number],
                             found)
                 ELSE Judged(req, [score |-> r.number], found)

\* A shape counts as present in every file whose text has its name.
Mentioned(selector) == {f \in ShapeFiles : Rows(f, selector) # {}}

ResolveShape(req) ==
    LET exists == Mentioned(req.selector) # {}
    IN  Judged(req, [exists |-> exists], [Nothing EXCEPT !.exists = exists])

\* _walk_prov_chain: from the decision along source_ref, as long as that is an
\* observation not seen yet.
Chain(record) ==
    LET Step(c, i) ==
            LET last == c[Len(c)]
                next == SourceRef[last]
            IN  IF \/ next \notin DOMAIN SourceRef
                   \/ \E k \in DOMAIN c : c[k] = next
                THEN c ELSE Append(c, next)
        walk[n \in 1..MaxHops] ==
            IF n = 1 THEN <<record>> ELSE Step(walk[n - 1], n)
    IN  IF record \in DOMAIN SourceRef THEN walk[MaxHops] ELSE <<>>

ResolveChain(req, decision) ==
    IF decision = None THEN Found("NOT_APPLICABLE", Nothing)
    ELSE LET depth == Len(Chain(decision))
         IN  Judged(req, [chain_depth |-> depth], [Nothing EXCEPT !.number = depth])

\* _resolve_observation_record does not look at the pass_expression.
ResolveObservation(req, decision) ==
    LET iri == IF req.selector = Empty THEN decision ELSE req.selector
    IN  Found(IF iri = None THEN "NOT_APPLICABLE"
              ELSE IF iri \in DOMAIN SourceRef THEN "SATISFIED" ELSE "MISSING",
              Nothing)

Resolve(req, decision) ==
    CASE req.kind \in DOMAIN Reports -> ResolveRow(req)
      [] req.kind = "SHACL_SHAPE" -> ResolveShape(req)
      [] req.kind = "PROV_O_CHAIN" -> ResolveChain(req, decision)
      [] req.kind = "OBSERVATION_RECORD" -> ResolveObservation(req, decision)

-----------------------------------------------------------------------------
(* The reports over all regulations, each computed from the directory as it  *)
(* is.  list_regulations lists the malformed ones as well; load_regulation   *)
(* raises ValueError on them, and everybody goes on with the next.           *)

Applicable(evidence) ==
    {i \in DOMAIN evidence : evidence[i].status # "NOT_APPLICABLE"}
Satisfied(evidence) ==
    {i \in DOMAIN evidence : evidence[i].status = "SATISFIED"}

Assembled(r, decision) ==
    [i \in DOMAIN Regulations[r] |-> Resolve(Regulations[r][i], decision)]

\* n of so many, in whole percent: round takes a half to the even number, which
\* 80 and 50 are.
AtLeast(n, percent, of) == 200 * n >= (2 * percent - 1) * of

\* Mutant: leaves out what is missing too, not only what does not apply.
JudgedOnly(evidence) ==
    {i \in DOMAIN evidence :
        evidence[i].status \notin {"NOT_APPLICABLE", "MISSING"}}

\* coverage_score: PROV_O_CHAIN requirements do not apply without a decision
\* and do not count; a regulation of which nothing applies is not covered.
CoveredWell(r) ==
    LET evidence == Assembled(r, None)
        of == Cardinality(Applicable(evidence))
    IN  of > 0 /\ AtLeast(Cardinality(Satisfied(evidence)), 80, of)

\* Mutant: the light counts only what applies and is not missing.
LightOfJudged(r) ==
    LET evidence == Assembled(r, None)
        good == Cardinality(Satisfied(evidence))
        of == Cardinality(JudgedOnly(evidence))
    IN  IF of > 0 /\ AtLeast(good, 80, of) THEN "green"
        ELSE IF of > 0 /\ AtLeast(good, 50, of) THEN "amber" ELSE "red"

\* write_summary counts every requirement; _light.
Light(r) ==
    LET evidence == Assembled(r, None)
        good == Cardinality(Satisfied(evidence))
        of == Cardinality(DOMAIN evidence)
    IN  IF of > 0 /\ AtLeast(good, 80, of) THEN "green"
        ELSE IF of > 0 /\ AtLeast(good, 50, of) THEN "amber" ELSE "red"

\* _collect_available_artefacts: the rows of the two reports, and the subjects
\* that are declared as node shapes.
Available(kind) ==
    IF kind = "SHACL_SHAPE"
    THEN {x.name : x \in {y \in UNION {Records(f) : f \in ShapeFiles} :
                              y.status = "declared"}}
    ELSE {x.name : x \in Records(Reports[kind])}

Collected == {"SPARQL_CQ", "SHACL_SHAPE", "GOVERNANCE_SCORECARD_CRITERION"}

\* build_mapping_index: requirement by requirement, what it asks for.
Asked(r) == {[kind |-> Regulations[r][i].kind, selector |-> Regulations[r][i].selector] :
                i \in DOMAIN Regulations[r]}

\* gap_analysis: requirements without an artefact, artefacts without one.
Uncovered(r) ==
    {a \in Asked(r) : a.kind \in Collected /\ a.selector \notin Available(a.kind)}
-----------------------------------------------------------------------------
(* One export: load the regulation, assemble, then export_bundle.          *)

NoJob == [at |-> "idle", reg |-> None, decision |-> None, home |-> TRUE, evidence |-> <<>>,
          sk |-> None, pk |-> None, card |-> {}, since |-> 0, until |-> 0]

Signed(sk) == sk
\* _crypto.verify
Verifies(signature, pk) == pk # Empty /\ signature = pk

\* verify_bundle: the ZIP opens and has a manifest, the manifest has a public
\* key, under which its signature verifies; the digests are those of the files
\* that were packed.
VerifyBundle(b) == b.whole /\ Verifies(b.signature, b.pk)

To(e, at) == job' = [job EXCEPT ![e].at = at]

\* A regulation that load_regulation refuses answers 400.  home: the export
\* reads the output directory of the repository.
Start(e, r, decision, home) ==
    /\ job[e].at = "idle"
    /\ job' = [job EXCEPT ![e] =
                  [NoJob EXCEPT !.at = IF r \in Malformed THEN "refused"
                                                          ELSE "assembling",
                                !.reg = r, !.decision = decision, !.home = home,
                                !.since = IF writing = None THEN rewrites
                                                            ELSE -2]]
    /\ UNCHANGED <<key, makers, zip, recorded>>

\* One turn of the loop of assemble_evidence.
AssembleNext(e) ==
    /\ job[e].at = "assembling"
    /\ LET reqs == Regulations[job[e].reg]
           i == Len(job[e].evidence) + 1
       IN  IF i <= Len(reqs)
           THEN job' = [job EXCEPT ![e].evidence =
                           Append(@, Resolve(reqs[i], job[e].decision))]
           ELSE To(e, "keys")
    /\ UNCHANGED <<key, makers, zip, recorded>>

\* _ensure_keypair reads the two files if both are there.
FindKeys(e) ==
    /\ job[e].at = "keys"
    /\ IF key.sk # None /\ key.pk # None
       THEN /\ job' = [job EXCEPT ![e].at = "readpk", ![e].sk = key.sk]
            /\ UNCHANGED makers
       ELSE /\ job' = [job EXCEPT ![e].at = "opensk", ![e].sk = e, ![e].pk = e]
            /\ makers' = makers \cup {e}
    /\ UNCHANGED <<key, zip, recorded>>

ReadPublicKey(e) ==
    /\ job[e].at = "readpk"
    /\ job' = [job EXCEPT ![e].at = "staging", ![e].pk = key.pk]
    /\ UNCHANGED <<key, makers, zip, recorded>>

\* A step of the creation of a pair.
Writes(e, at, file, text, next) ==
    /\ job[e].at = at
    /\ key' = [key EXCEPT ![file] = text]
    /\ To(e, next)

\* open(path, "w") empties the file, leaving the with statement fills it.
CreateKeys(e) ==
    /\ \/ Writes(e, "opensk", "sk", Empty, "fillsk")
       \/ Writes(e, "fillsk", "sk", job[e].sk, "openpk")
       \/ Writes(e, "openpk", "pk", Empty, "fillpk")
       \/ Writes(e, "fillpk", "pk", job[e].pk, "staging")
    /\ UNCHANGED <<makers, zip, recorded>>

\* _write_scorecard_snapshot copies the scorecard of the repository into the
\* staging directory, as it is now and whatever directory the items were judged
\* by, and the manifest is built and signed.
Stage(e) ==
    /\ job[e].at = "staging"
    /\ \E card \in IF job[e].home THEN {Records(Scorecard)} ELSE Elsewhere :
          job' = [job EXCEPT ![e].at = "zipping",
                             ![e].card = card,
                             ![e].until = IF writing = None THEN rewrites ELSE -1]
    /\ UNCHANGED <<key, makers, zip, recorded>>

Bundle(e, whole) ==
    [whole |-> whole, reg |-> job[e].reg, evidence |-> job[e].evidence,
     card |-> job[e].card,
     calm |-> job[e].home /\ job[e].since = job[e].until,
     signature |-> Signed(job[e].sk), pk |-> job[e].pk]

OpenZip(e) ==
    /\ job[e].at = "zipping"
    /\ zip' = [b \in DOMAIN zip \cup {e} |->
                  IF b = e THEN Bundle(e, FALSE) ELSE zip[b]]
    /\ To(e, "packing")
    /\ UNCHANGED <<key, makers, recorded>>

\* Mutant: the row is inserted as soon as the archive is opened.
RecordedEarly == {"packing", "recording"}
Recordable == {"recording"}

CloseZip(e) ==
    /\ job[e].at = "packing"
    /\ zip' = [zip EXCEPT ![e] = Bundle(e, TRUE)]
    /\ To(e, "recording")
    /\ UNCHANGED <<key, makers, recorded>>

\* _record_bundle; whatever goes wrong in it is swallowed.
RecordBundle(e) ==
    /\ job[e].at \in Recordable
    /\ recorded' \in {recorded, recorded \cup {e}}
    /\ To(e, "verifying")
    /\ UNCHANGED <<key, makers, zip>>

\* verify_bundle; the answer is ok whether or not it verifies.
Answer(e) ==
    /\ job[e].at = "verifying"
    /\ job' = [job EXCEPT ![e] =
                  [NoJob EXCEPT !.at = IF VerifyBundle(zip[e])
                                       THEN "verified" ELSE "unverified"]]
    /\ UNCHANGED <<key, makers, zip, recorded>>

\* The process is killed; staging directories and half a ZIP stay.
ExportDies(e) ==
    /\ job[e].at \notin {"idle", "refused", "verified", "unverified", "dead"}
    /\ job' = [job EXCEPT ![e] = [NoJob EXCEPT !.at = "dead"]]
    /\ UNCHANGED <<key, makers, zip, recorded>>

ComplyInit ==
    /\ job = [e \in Exports |-> NoJob]
    /\ key = [sk |-> None, pk |-> None]
    /\ makers = {}
    /\ zip = <<>>
    /\ recorded = {}

Export(e) ==
    \/ \E r \in DOMAIN Regulations \cup Malformed,
          d \in Decisions, home \in BOOLEAN : Start(e, r, d, home)
    \/ AssembleNext(e) \/ FindKeys(e) \/ ReadPublicKey(e) \/ CreateKeys(e)
    \/ Stage(e) \/ OpenZip(e) \/ CloseZip(e) \/ RecordBundle(e) \/ Answer(e)
    \/ ExportDies(e)

-----------------------------------------------------------------------------
(* Properties.                                                             *)

\* "pass_expression is a tiny declarative DSL (status == 'PASS', score >= 3, ...)"
\* (docs/advanced.md:626): a question that was found with the status the
\* requirement asks for satisfies it, in every bundle that was recorded.
PassedQuestionSatisfies ==
    \A e \in recorded : \A i \in DOMAIN zip[e].evidence :
        LET req == Regulations[zip[e].reg][i]
            item == zip[e].evidence[i]
        IN  /\ req.kind = "SPARQL_CQ" /\ req.pass.form = "equals"
            /\ item.found.status \in req.pass.values
            => item.status = "SATISFIED"

\* A row of compliance_bundles names a ZIP that is complete.  It verifies,
\* unless its public key was read as empty or several exports generated keys;
\* and unless a report was written meanwhile or the items were judged by another
\* directory than the repository's, the scorecard packed into it is the one its
\* scorecard items were judged by.
RecordedBundlesVerify ==
    \A e \in recorded :
        /\ e \in DOMAIN zip
        /\ zip[e].whole
        /\ Cardinality(makers) <= 1 /\ zip[e].pk # Empty => VerifyBundle(zip[e])
        /\ zip[e].calm =>
              \A i \in DOMAIN zip[e].evidence :
                 LET req == Regulations[zip[e].reg][i]
                     scores == {x \in zip[e].card : x.name = req.selector}
                 IN  req.kind = "GOVERNANCE_SCORECARD_CRITERION" =>
                        zip[e].evidence[i].found =
                            IF scores = {} THEN Nothing
                            ELSE LET x == CHOOSE y \in scores : TRUE
                                 IN  [exists |-> TRUE, status |-> x.status,
                                      number |-> x.number]

\* The reports agree on the directory as an export finds it, half written or not:
\* what the gap analysis does not list, the assembler finds, and if the light of
\* its regulation is green, the coverage score counts that regulation.
ReportsAgree ==
    \A e \in Exports :
        job[e].at = "assembling" /\ job[e].evidence = <<>> /\ job[e].decision = None =>
        /\ Light(job[e].reg) = "green" => CoveredWell(job[e].reg)
        /\ \A i \in DOMAIN Regulations[job[e].reg] :
              LET req == Regulations[job[e].reg][i]
                  answer == Resolve(req, None)
              IN  req.kind \in Collected
                  /\ [kind |-> req.kind, selector |-> req.selector]
                        \notin Uncovered(job[e].reg)
                  => answer.status # "MISSING" /\ answer.found.exists
=============================================================================
