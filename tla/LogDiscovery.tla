---------------------------- MODULE LogDiscovery ----------------------------
(***************************************************************************)
(* Log discovery: the phases mine, sequence and drift-templates of the     *)
(* command line (toolkit.py), the wizard's requests that seed, score and   *)
(* rank (wizard/app.py), and the reviewers, over one database              *)
(* (db/enterprise.db) and one pickle (db/review_ranker.pkl).                *)
(*                                                                         *)
(* A process works through a plan.  Each of its steps is one transaction,  *)
(* or one SELECT where the code reads first and writes from what it read.  *)
(* The migrations that every opening of the database runs are not          *)
(* modelled, nor is what the session gets from an approval (WizardSession).*)
(***************************************************************************)
EXTENDS LogMining

CONSTANTS
  Corpora,       \* what --log-path and log_path may name
  LinesIn,       \* the lines of each corpus
  Processes,     \* the command line and the wizard's requests
  Plans,         \* per process, what it may be asked to do
  MinEventHits,  \* the hits a template needs to be proposed (3)
  MinDriftHits,  \* min_hits_to_propose (3)
  MinDecisions,  \* MIN_DECISIONS (20)
  MaxStarts,     \* bound: how many plans each process starts
  Reviewable     \* bound: the kinds of proposals that get decided

\* What a process may be asked to do: the three phases of the command line, and
\* the wizard's routes seed, with a log path and without, rate-anomalies and rerank.
Mine == <<"flush", "read", "merge", "profile", "link", "flush", "gate", "seed">>
Sequences == <<"flush", "read", "merge", "model", "flag">>
Drift == <<"scan", "propose">>
SeedGated == <<"flush", "gate", "seed">>
Seed == <<"seed">>
Rates == <<"flush", "rate">>
Rerank == <<"decisions", "save", "record">>

AllPlans == {Mine, Sequences, Drift, SeedGated, Seed, Rates, Rerank}

ASSUME DiscoveryAssumption ==
  /\ IsFiniteSet(Processes)
  /\ Plans \in [Processes -> SUBSET AllPlans]
  \* bound: two command lines do not refine at the same time
  /\ \A p, q \in Processes :
       Plans[p] \cap {Mine, Sequences} # {} /\ Plans[q] \cap {Mine, Sequences} # {} => p = q
  /\ MinEventHits \in Nat /\ MinDriftHits \in Nat /\ MinDecisions \in Nat
  /\ MaxStarts \in [Processes -> Nat]

\* What the operators of LogMining give for each corpus.
CountsOf == [c \in Corpora |-> Counts(LinesIn[c])]
ProfilesOf == [c \in Corpora |-> Profiles(LinesIn[c])]
EdgesOf == [c \in Corpora |-> PmiEdges(LinesIn[c])]
FittableOf == [c \in Corpora |-> Fittable(LinesIn[c])]
TrajectoriesOf == [c \in Corpora |-> Trajectories(LinesIn[c])]
ChangePointsOf ==
  [c \in Corpora |-> [g \in Trajectories(LinesIn[c]) |-> ChangePoints(LinesIn[c], g)]]
RatedOf == [c \in Corpora |-> Rated(LinesIn[c])]

Texts == UNION {{line.text : line \in ToSet(LinesIn[c])} : c \in Corpora}

ASSUME CountsAssumption ==
  \A c \in Corpora : CountsOf[c] \in Seq([text : Texts, hits : Nat])

VARIABLES
  rows,    \* log_templates
  slots,   \* log_template_slots
  edges,   \* log_entity_edges
  models,  \* the services in log_hmm_models
  props,   \* ontology_evolution_proposals, by proposal_id
  ranker,  \* the pickle: whether it is fitted, and on how many decisions
  latest,  \* n_decisions of the last row of log_ranker_meta, 0 without one
  saved,   \* history: the counts the pickle was ever saved with
  judged,  \* history: the proposals that were ever approved or rejected
  todo,    \* what is left of each process's plan
  corpus,  \* the corpus it works on
  read,    \* the templates its refine has read
  found,   \* what it has computed and not yet written
  starts   \* how many plans each has started

vars == <<rows, slots, edges, models, props, ranker, latest, saved, judged,
          todo, corpus, read, found, starts>>

store == <<rows, slots, edges, models, props>>

ranked == <<ranker, latest, saved, judged>>

\* What load makes of a pickle that is missing or cannot be read.
Unfitted == [fitted |-> FALSE, n |-> 0]

Init ==
  /\ rows = <<>> /\ slots = {} /\ edges = {} /\ models = {}
  /\ props = <<>>
  /\ ranker = Unfitted /\ latest = 0 /\ saved = {0} /\ judged = {}
  /\ todo = [p \in Processes |-> <<>>]
  /\ corpus = [p \in Processes |-> "none"]
  /\ read = [p \in Processes |-> <<>>]
  /\ found = [p \in Processes |-> {}]
  /\ starts = [p \in Processes |-> 0]

-----------------------------------------------------------------------------
(* Proposals.  A proposal_id is derived from what the proposal is about: it *)
(* is the kind of the candidate and its key.  The title and the Turtle are  *)
(* what the proposal shows: a template, or how an edge is drawn.            *)

Candidate(id, shows) == [id |-> id, shows |-> shows]

Proposal(shows) == [shows |-> shows, status |-> "PENDING"]

\* _upsert_proposal: what a proposal shows is replaced, its status is kept.
Upserted(new) ==
  LET ids == {c.id : c \in new}
      shown(id) == (CHOOSE c \in new : c.id = id).shows
  IN [id \in DOMAIN props \cup ids |->
        IF id \notin ids THEN props[id]
        ELSE IF id \in DOMAIN props THEN [props[id] EXCEPT !.shows = shown(id)]
        ELSE Proposal(shown(id))]

\* The anomaly writers: a proposal that is there keeps its title and its Turtle.
Inserted(new) ==
  Upserted({c \in new : c.id \notin DOMAIN props})

\* The sample of a cluster, empty when its row is merged or missing.
Sample(c) == IF c \in Live(rows) THEN rows[c].text ELSE ""

EventCandidates ==
  {Candidate(<<"event", r>>, rows[r].text) :
     r \in {t \in Live(rows) : rows[t].hits >= MinEventHits}}

\* One per slot with identifiers; its name is made of the template and the type.
EntityCandidates ==
  {Candidate(<<"entity", s.row, s.slot, rows[s.row].text, s.type>>, s.type) :
     s \in {x \in slots : x.row \in Live(rows) /\ x.type \in {"IRI", "UUID", "ENUM"}}}

\* Mutant: what has passed the gate is believed to be directed still.
EdgeCandidatesGated(causal) ==
  {Candidate(<<IF <<e.src, e.dst>> \in causal THEN "causal" ELSE "relationship",
               e.src, e.dst>>, IF e.directed THEN "->" ELSE "--") :
     e \in {x \in edges : x.strong}}

\* A strong edge is causal if it is directed and passed the gate.
EdgeCandidates(causal) ==
  {Candidate(<<IF e.directed /\ <<e.src, e.dst>> \in causal
               THEN "causal" ELSE "relationship", e.src, e.dst>>,
             IF e.directed THEN "->" ELSE "--") :
     e \in {x \in edges : x.strong}}

-----------------------------------------------------------------------------
(* The steps of a plan.                                                     *)

At(p, step) == todo[p] # <<>> /\ Head(todo[p]) = step

\* The process goes on with the steps that are left and with what it has found; it
\* forgets its corpus with the last step.
GoOn(p, steps, what) ==
  /\ todo' = [todo EXCEPT ![p] = steps]
  /\ found' = [found EXCEPT ![p] = what]
  /\ corpus' = [corpus EXCEPT ![p] = IF steps = <<>> THEN "none" ELSE @]

Goto(p, what) == GoOn(p, Tail(todo[p]), what)

Start(p) ==
  /\ todo[p] = <<>> /\ starts[p] < MaxStarts[p]
  /\ \E plan \in Plans[p], c \in Corpora :
       /\ todo' = [todo EXCEPT ![p] = plan]
       /\ corpus' = [corpus EXCEPT ![p] = c]
  /\ found' = [found EXCEPT ![p] = {}]
  /\ starts' = [starts EXCEPT ![p] = @ + 1]
  /\ UNCHANGED <<store, ranked, read>>

\* consume the whole corpus, then flush.
Flush(p) ==
  /\ At(p, "flush")
  /\ rows' = Flushed(rows, CountsOf[corpus[p]])
  /\ Goto(p, {})
  /\ UNCHANGED <<slots, edges, models, props, ranked, read, starts>>

ReadTemplates(p) ==
  /\ At(p, "read")
  /\ read' = [read EXCEPT ![p] = rows]
  /\ Goto(p, {})
  /\ UNCHANGED <<store, ranked, starts>>

MergeTemplates(p) ==
  /\ At(p, "merge")
  /\ \E kept \in SUBSET Selected(read[p]) :
       /\ Kept(read[p], kept)
       /\ \E absorbed \in [Selected(read[p]) \ kept -> kept] :
            /\ AbsorbedBy(read[p], kept, absorbed)
            /\ rows' = Merged(rows, read[p], absorbed)
  /\ read' = [read EXCEPT ![p] = <<>>]
  /\ Goto(p, {})
  /\ UNCHANGED <<slots, edges, models, props, ranked, starts>>

ProfileSlots(p) ==
  /\ At(p, "profile")
  /\ slots' = Profiled(slots, rows, ProfilesOf[corpus[p]])
  /\ Goto(p, {})
  /\ UNCHANGED <<rows, edges, models, props, ranked, read, starts>>

LinkEntities(p) ==
  /\ At(p, "link")
  /\ edges' = Persisted(edges, EdgesOf[corpus[p]])
  /\ Goto(p, {})
  /\ UNCHANGED <<rows, slots, models, props, ranked, read, starts>>

\* find_causality_candidates: any of the edges it can test may pass; none does
\* when it raises.
PassGate(p) ==
  /\ At(p, "gate")
  /\ \E passed \in SUBSET Testable(edges, LinesIn[corpus[p]]) :
       Goto(p, {<<e.src, e.dst>> : e \in passed})
  /\ UNCHANGED <<store, ranked, read, starts>>

\* seed_from_mining.  Without extractions nothing has passed a gate.
SeedProposals(p) ==
  /\ At(p, "seed")
  /\ props' = Upserted(EventCandidates \cup EntityCandidates \cup EdgeCandidates(found[p]))
  /\ Goto(p, {})
  /\ UNCHANGED <<rows, slots, edges, models, ranked, read, starts>>

\* fit_hmms and persist_hmm_models: a fit may fail.
FitModels(p) ==
  /\ At(p, "model")
  /\ \E fitted \in SUBSET FittableOf[corpus[p]] : models' = models \cup fitted
  /\ Goto(p, {})
  /\ UNCHANGED <<rows, slots, edges, props, ranked, read, starts>>

\* score_anomalies and persist_anomaly_proposals: which trajectories score lowest
\* is up to the models.
FlagTrajectories(p) ==
  /\ At(p, "flag")
  /\ \E flagged \in SUBSET TrajectoriesOf[corpus[p]] :
       /\ Cardinality(flagged) = FlaggedCount(LinesIn[corpus[p]])
       /\ \E point \in [flagged -> DOMAIN CountsOf[corpus[p]]] :
            /\ \A g \in flagged : point[g] \in ChangePointsOf[corpus[p]][g]
            /\ props' = Inserted({Candidate(<<"sequence", g[1], g[2], point[g]>>,
                                            Sample(point[g])) : g \in flagged})
  /\ Goto(p, {})
  /\ UNCHANGED <<rows, slots, edges, models, ranked, read, starts>>

\* detect_template_drift reads the catalogue and the corpus: a template close to
\* none that is live is new, one close to some of them may be.
ScanForDrift(p) ==
  /\ At(p, "scan")
  /\ LET known == {rows[r].text : r \in Live(rows)}
         often == {count.text : count \in
                     {c \in ToSet(CountsOf[corpus[p]]) : c.hits >= MinDriftHits}}
     IN \E new \in SUBSET (often \ known) :
          /\ \A t \in often : (\A k \in known : ~ Close(t, k)) => t \in new
          /\ Goto(p, new)
  /\ UNCHANGED <<store, ranked, read, starts>>

ProposeDrift(p) ==
  /\ At(p, "propose")
  /\ props' = Upserted({Candidate(<<"drift", t>>, t) : t \in found[p]})
  /\ Goto(p, {})
  /\ UNCHANGED <<rows, slots, edges, models, ranked, read, starts>>

\* mine_rate_anomalies: any template with enough hours may have had an odd one.
ProposeRates(p) ==
  /\ At(p, "rate")
  /\ \E odd \in SUBSET RatedOf[corpus[p]] :
       props' = Inserted({Candidate(<<"rate", c>>, Sample(c)) : c \in odd})
  /\ Goto(p, {})
  /\ UNCHANGED <<rows, slots, edges, models, ranked, read, starts>>

Having(s) == {id \in DOMAIN props : props[id].status = s}

Decided == Having("APPROVED") \cup Having("REJECTED")

ReadAllDecisions(p) ==
  /\ At(p, "decisions")
  /\ Goto(p, {[fitted |-> /\ Cardinality(Decided) >= MinDecisions
                          /\ Having("APPROVED") # {} /\ Having("REJECTED") # {},
               n |-> Cardinality(DOMAIN props)]})
  /\ UNCHANGED <<store, ranked, read, starts>>

\* fit_from_conn in three steps: load_decisions and fit, save, _record_meta.
ReadDecisions(p) ==
  /\ At(p, "decisions")
  /\ Goto(p, {[fitted |-> /\ Cardinality(Decided) >= MinDecisions
                          /\ Having("APPROVED") # {} /\ Having("REJECTED") # {},
               n |-> Cardinality(Decided)]})
  /\ UNCHANGED <<store, ranked, read, starts>>

SaveRanker(p) ==
  /\ At(p, "save")
  /\ ranker' \in found[p]
  /\ saved' = saved \cup {ranker'.n}
  /\ Goto(p, found[p])
  /\ UNCHANGED <<store, latest, judged, read, starts>>

RecordMeta(p) ==
  /\ At(p, "record")
  /\ \E fit \in found[p] : latest' = fit.n
  /\ Goto(p, {})
  /\ UNCHANGED <<store, ranker, saved, judged, read, starts>>

\* The process is killed, or its step raises; in the middle of save it leaves a
\* pickle that cannot be read.
Die(p) ==
  /\ todo[p] # <<>>
  /\ \/ UNCHANGED ranker
     \/ At(p, "save") /\ ranker' = Unfitted
  /\ GoOn(p, <<>>, {})
  /\ read' = [read EXCEPT ![p] = <<>>]
  /\ UNCHANGED <<store, latest, saved, judged, starts>>

\* The seed route goes on without extractions when mining the log path raised.
FallBack(p) ==
  /\ todo[p] = SeedGated
  /\ GoOn(p, Seed, {})
  /\ UNCHANGED <<store, ranked, read, starts>>

-----------------------------------------------------------------------------
(* The reviewers: approve, merge, reject and record_decision look at no     *)
(* status.  The policies' approvals are among them (ProposalReview).        *)

Review(id, status) ==
  /\ props' = [props EXCEPT ![id].status = status]
  /\ judged' = judged \cup {id}
  /\ UNCHANGED <<rows, slots, edges, models, ranker, latest, saved,
                 todo, corpus, read, found, starts>>

Approve(id) == Review(id, "APPROVED")

Reject(id) == Review(id, "REJECTED")

\* record_decision with DEFER, and revoke_auto_approval of what a policy has
\* approved: both take a decision out of what the ranker learns from.  Who has
\* approved is not kept here.
TakeBack(id, status) ==
  /\ props' = [props EXCEPT ![id].status = status]
  /\ UNCHANGED <<rows, slots, edges, models, ranked, todo, corpus, read, found, starts>>

Defer(id) == TakeBack(id, "DEFERRED")

Revoke(id) == props[id].status = "APPROVED" /\ TakeBack(id, "PENDING")

Reviewed ==
  \E id \in DOMAIN props :
    /\ id[1] \in Reviewable
    /\ Approve(id) \/ Reject(id) \/ Defer(id) \/ Revoke(id)

Step(p) ==
  \/ Start(p) \/ Flush(p) \/ ReadTemplates(p) \/ MergeTemplates(p)
  \/ ProfileSlots(p) \/ LinkEntities(p) \/ PassGate(p) \/ SeedProposals(p)
  \/ FitModels(p) \/ FlagTrajectories(p) \/ ScanForDrift(p) \/ ProposeDrift(p)
  \/ ProposeRates(p) \/ ReadDecisions(p) \/ SaveRanker(p) \/ RecordMeta(p)
  \/ Die(p) \/ FallBack(p)

Next == Reviewed \/ \E p \in Processes : Step(p)

Spec == Init /\ [][Next]_vars

-----------------------------------------------------------------------------
(* Properties.                                                              *)

\* Every table, file and process is in a state the code can read.
TypeOK ==
  /\ rows \in Seq([text : Texts, hits : Nat, into : Nat])
  /\ models \subseteq UNION {{line.service : line \in ToSet(LinesIn[c])} : c \in Corpora}
  /\ \A id \in DOMAIN props : props[id].status \in {"PENDING", "APPROVED", "REJECTED", "DEFERRED"}
  /\ ranker \in [fitted : BOOLEAN, n : Nat] /\ latest \in Nat
  /\ saved \subseteq Nat /\ judged \subseteq DOMAIN props
  /\ corpus \in [Processes -> Corpora \cup {"none"}]
  /\ read \in [Processes -> Seq([text : Texts, hits : Nat, into : Nat])]
  /\ starts \in [Processes -> Nat] /\ \A p \in Processes : starts[p] <= MaxStarts[p]

\* Following merged_into ends in a live template: no set of merged rows points
\* only into itself, although a refine marks rows from a list it read before other
\* processes changed their hits and templates.
MergesEnd ==
  \A S \in SUBSET (DOMAIN rows) :
    S # {} /\ (\A r \in S : rows[r].into # 0)
      => \E r \in S : rows[r].into \notin S

\* A causal proposal is new only if the edge is directed in the graph at that
\* moment, whatever passed the gate when it was read: a mining of other logs may
\* have turned the edge since (seed_from_mining).
CausalWhileDirected ==
  [][\A id \in (DOMAIN props') \ (DOMAIN props) :
       id[1] = "causal" =>
         \E e \in edges : <<e.src, e.dst>> = <<id[2], id[3]>> /\ e.directed]_vars

\* No transaction covers the decisions, the pickle and the audit row.  Decisions
\* are made, deferred and revoked while a fit is under way, and it may die between
\* or in the writes: the ranker in use counts decisions that were made, none of
\* them twice, one that is fitted has enough of them, and the audit row never
\* speaks of a pickle that was not saved (fit_from_conn).
RankerOnDecisions ==
  /\ ranker.n <= Cardinality(judged)
  /\ ranker.fitted => ranker.n >= MinDecisions
  /\ latest \in saved

=============================================================================
