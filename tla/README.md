# OntoMesh in TLA+

Models of OntoMesh's own logic: the pipeline that applies evolution proposals,
the store those proposals live in and everything that writes it, federation,
the wizard's session and event streams, log discovery, the agents' memory, index
and question answering, the file pipeline and the readers of what it leaves.
TLC checks them on small instances; TLAPS proves most of what TLC checks for
every instance. Paths are relative to the repository's root.

## The system

OntoMesh turns a relational schema into an OWL ontology and keeps it evolving.
It is a set of Python programs around one SQLite database and a directory of
generated files; a Flask application (the wizard) runs under gunicorn with two
workers of eight threads each, and `toolkit.py` runs the same functions as
phases of a pipeline, by hand, from CI, or as a subprocess of the wizard.
Nothing but SQLite's transactions and one lock in the event bus orders them.

| Component | State | Operations | Called by |
|---|---|---|---|
| Apply pipeline (`src/evolution_reviewer.py`) | `enterprise.ttl`, `ontology_version_ledger` | `record_decision`, `apply_approved`, `_rollback_version` | `/api/evolve/...`, `--phase evolve` |
| Proposal store (`wizard/log_review.py`, `proposal_namer.py`, `policy_engine.py`; `src/evolution_monitor.py`) | rows of `ontology_evolution_proposals` | seed, insert, approve, reject, merge; rename; run policies, revoke | Flask routes, log mining, the toolkit |
| Federation (`federation/`) | `federation_partners`, the trust ledger, a JSON registry, the query log | register, handshake, countersign, activate, test, expire, revoke; route a query, gate its answers | operators, agents |
| Conflict resolver (`src/conflict_resolver.py`) | `tmf_conflict_event`, `prov_invalidation_log` | a pass of two tiers, escalate | `--phase conflict` |
| Agent memory (`runtime/memory.py`, `consolidation_daemon.py`) | `observation_record` | recall, consolidate | a nightly daemon, agents |
| Agent runtime (`runtime/`) | embedding index, alerts, memories | ask, index a flavor, raise an alert | agents |
| Reasoning search (`runtime/reasoning_search/`) | a cache of answers | search, stream, replan | `/api/search`, agents |
| Event bus and streams (`src/events_bus.py`, `wizard/app.py`) | subscribers and bounded queues | subscribe, unsubscribe, publish, get | whatever publishes; one request per browser |
| Wizard session (`wizard/`) | one JSON file, saved copies of it | load, change, save, post, store, restore | Flask routes |
| Log discovery (`src/log_*.py`, `causality_miner.py`, `sequence_learner.py`, `wizard/review_ranker.py`) | templates, edges, proposals, a pickle | mine, refine, sequence, compare, seed, score, rank | `--phase mine` ..., the wizard |
| Pipeline and generators (`toolkit.py`, `src/*_generator.py`, `reasoner.py`, `materializer.py`, ...) | the output directory | phases, each a list of files | by hand, CI, the wizard |
| Readers of the output (`compliance/`, `src/graph_publisher.py`, `scripts/ontology_gate.py`) | bundles, keys, a graph store, a baseline | assemble and export, publish, compare | toolkit, the wizard, CI |

They meet in three places. The proposal table: the monitor and the miners
insert rows, the namer and the policies rewrite them, reviewers decide them,
and the apply pipeline reads them. The output directory: the apply pipeline and
the generators rewrite it, the readers read it meanwhile. And the database next
to a file (the ontology and its ledger; the partner table and its JSON mirror;
the ranker's audit row and its pickle), which no transaction covers together.

What is hard, everywhere: a row or a file is read, something slow happens (a
language model, a reasoner, a person), and it is written without a second look;
`open(path, "w")` empties a file before the new text is in it; a process may die
in between; and a call may be repeated. What makes the components correct:

- apply: nothing gets into the ontology without approval, no release shows a gate's
  FAIL, a refused change leaves no trace, a repeated one does no harm;
- store: a person's decision survives mining, naming and whatever starts after it, a
  revocation outlasts the policies; a candidate waits once;
- federation: only a partner whose manifest was verified is queried, a revoked
  one no longer, the ledger tells no lies, and an answer holds agreed rows only;
- resolver and memory: no measurement is invalidated that nothing replaces, and
  summaries count what they stand for;
- runtime and search: what the model is shown was true while it was asked, the
  index and the cache catch up, streams end;
- bus: each client gets what was published, in order, or the loss is counted;
- session: only approved entries, and an approval is not lost unless requests
  overlapped or the file was replaced;
- log discovery: merges lead to a live template, causal proposals are of directed
  edges, and the ranker counts only decisions that were made;
- pipeline: verdicts and measurements are about the files beside them, and
  history does not show in the files once runs are undisturbed;
- readers: bundles are whole and verify, reports agree on one state of the files,
  a file reported as published is in the store or replaced by a later one of its
  tier, and a passed gate let nothing get worse.

## Modules

| Module | Models | Instance for TLC |
|---|---|---|
| `VersionedApply` | `record_decision`, `apply_approved`, `_rollback_version`; the generator as a second writer | `MCVersionedApply` |
| `AtomicApply`, `SerialApply` | the abstract specification: an apply is one step; and the mapping to it | `MCVersionedApply` |
| `ProposalReview`, `Evolution` | all writers of a proposal's row; the monitor beside them | `MCProposalReview` |
| `FederationTrust`, `FederatedQuery` | `trust.py`, `partner_registry.py`; the router and the boundary gate beside them | `MCFederationTrust` |
| `ConflictResolver`, `AgentMemory` | passes over measurements, passes over observations | `MCDatabasePasses` |
| `EventBus` | the in-memory bus and `/api/events/stream` | `MCEventBus` |
| `WizardSession` | every route that loads, changes and saves the session | `MCWizardSession` |
| `LogMining`, `LogDiscovery` | what is computed from a corpus; who stores it, seeds, scores, ranks and decides | `MCLogDiscovery` |
| `EmbeddingIndex`, `AgentTurn` | indexers of a flavor; questions beside them | `MCAgentTurn` |
| `ReasoningSearch` | a search with its cache and its stream | `MCReasoningSearch` |
| `PipelineFiles`, `Pipeline` | what each generator makes of what it finds; runs of the phases | `MCPipeline` |
| `OutputDirectory`, `Compliance`, `GraphPublisher`, `OntologyGate`, `Consumers` | files while they are rewritten; each reader; all together | `MCConsumers` |
| `OntologyProofs`, `ProposalReviewProofs`, `FederationTrustProofs`, `DatabasePassesProofs`, `WizardProofs`, `LogDiscoveryProofs`, `ConsumersProofs`, `RuntimeProofs` | proofs | |

### Apply

The file is a version header (the MINOR number, `None` while there is none)
and the sequence of evolution blocks. A caller has a `pc` and its locals, `job`:
`Start` is `get_proposal` and the status test; `ReadVersion`, `ReadContent`,
`Truncate` and `Fill` are the reads and writes of the file in the order of the code;
`Reason` and `CompetencyQuestions` are the gates with any verdict (an exception
is `SKIPPED`, as in the code); `WriteLedger` is the `INSERT OR IGNORE`;
`RollbackRead`, `RollbackTruncate`, `RollbackFill` are `_rollback_version`,
`RollbackOSError` its swallowed exception, and `RollbackRaises` any other one (a
file cut in the middle of a character does not decode): it ends in the `except` of
the gate, which counts as `SKIPPED`, and the call goes on to the next gate or to
the ledger with the refused change. `Gates`, `refused` and `raised` are history. A
version target that is no number is one more value: `_rollback_version` does not
find it in the file again. `GenTruncate` and `GenFill` are the
generator. `Crash` and `GenCrash` end a call between any two steps.

Two writers that both opened the file write over each other from its first byte.
`Overwritten(f, g)` is every text this can leave: all of `g`, and some suffix of
the blocks of `f`, since how long the texts are is not modelled. A block whose
end only survives counts as gone: it has lost its marker line. `approvedEver` is
history: a proposal rejected while it is being applied is still published,
because the status is documented to be read at the start only.

`AtomicApply` is what the documentation promises: an apply publishes, reaffirms,
withdraws, or leaves no trace, in one step. `SerialApply` has both kinds of
behaviours, `serial` says which: those of callers that never overlap, without
faults and with targets that are numbers, and all others, of which the mapping
shows nothing.

### Proposals

A row has a status, a reviewer (nobody, a person, a policy), the `REVOKED:`
marker, a text and `name_source`. A decision of a reviewer may name nobody: the
route takes a null and an empty id as they come. `held` is history: the engines and
revocations that had read a row when a person last decided it. `Seed` is one mining transaction. The namer
reads (`NamerRead`) and writes at its commit (`NamerWrite`): its first UPDATE takes
SQLite's write lock. The engine selects once and commits row by row.
`revoke_auto_approval` is two steps. Scores and predicates are not modelled: a
policy may match any row but one read with the marker. A monitor run takes one
strategy after the other; until a strategy's first INSERT its check for a twin
and its insert are two statements that others may come between. The scorer only
writes score columns, which the arbitrary verdicts stand for.

### Federation

A call commits the partner's row (`MoveTo`), loads the JSON file (`Load`),
empties it (`Open`), fills it (`Fill`) and commits a ledger row (`Append`), each a
step, and another operator may come in between any two. `Fill` over a file that
another call has filled since may leave a text that does not parse; `Load` of
such a file raises and ends the call, after its commit and before its ledger row.
`reached`, `barred` (revoked, and no manifest verified for it since) and, beside
routers, `inForce` are history. A router takes the SERVICE clauses of a
query in order; for each it reads the partner's row, decides, sends, gates the
answer by the agreement of the row it has read, escalates, and logs, each a
transaction. Of a query the model keeps its endpoints and whether it has a WHERE
block; of an answer, the class, tier and agents of its rows.

### Database passes

A pass of the resolver selects, inserts an event and an invalidation for each
pair, and commits each insert on its own; the other pass, new measurements, the
next second and a crash come in anywhere. An event's IRI is the second it is
inserted in. A pass of the consolidation runs three strategies, each a SELECT and
then a transaction; the nightly daemon and a client's pass overlap, time out on
the lock, and die. No statement of the repository creates `observation_record`,
and its code inserts SYNTHESIZED rows only, so the other rows are external.

### Bus and session

`publish`, `subscribe` and `unsubscribe` hold the lock and are one step each. A
client that leaves is noticed where the server writes: at the hello packet
(`Abandon`; that yield is outside the `try`) or later (`HangUp`). `received`,
`joined` and `present` belong to the observer.

A request on the session loads, changes and saves; the save empties the file
(`Truncate`) and fills it, and another request may load in between and find
nothing, for which it takes the default session. A browser posts its whole copy,
and the library stores and restores copies. `approved`, `kept` and `fresh` are
history: the approvals that no overlap, death in a save, replacement or stale
copy can have lost.

### Log discovery

`LogMining` has operators only: merging of templates, slot types, the PMI graph
and its direction, what may pass the causal gate, trajectories, change points,
hourly rates. A fit or a statistical test may come out either way. In
`LogDiscovery` a process works through a plan, each step one transaction, or the
SELECT whose rows a later transaction uses; the command line and a request of the
wizard overlap, either may die, and reviewers decide, defer and revoke. `judged`
and `saved` are history.

### Index, questions, search

An indexer reads a table, takes the rows whose hash differs from the indexed one,
and upserts them in batches, up to a limit if it has one; a table it cannot read it
passes over. The order of a SELECT without ORDER BY is open, so the buffer is a
set. `alone` and `skipped` are history: nothing changed and nobody else indexed
since this run began; the tables passed over. A question is grounded, screened,
extended by hits of the index, memories and alerts, assembled and answered, each a
step while rows change. A row's class follows from what it says, and the filter of
the hits sees the class it was indexed under, so `held` and `listed` keep what
rows have said, and were indexed with, since the question.
A search asks the model for a plan, checks and compiles it, reads, plans once
more, follows foreign keys, derives and answers; each answer of the model and each
read is a step. A flavor that lists no table may read all (`Permitted`), and a
direct call may bring facts of its own for its rules (`ExtraFacts`).

### Pipeline and readers

In `PipelineFiles` a file is the set of atoms its contents derive from: tables,
classes, rules, applied blocks (of a class or of a property), and a mark for each
file whose own text it depends on. `Made` says what each generator makes of the
directory it finds, and `Skips` when it leaves a file alone. `Pipeline` runs the
phases in the order of `main`, a file at a time, and may die within one;
database, session and reasoner change between phases.

For the readers a file is a set of records, and any file may be the next that is
emptied and refilled. `Compliance` exports bundles (evidence, keys, signature, ZIP,
row) and computes the reports; `GraphPublisher` sends files to a store that may
apply a request after the client gave it up; `OntologyGate` counts and compares
with the baseline, or writes it.

## Checks

| Run | Instance | Properties | States |
|---|---|---|---|
| `apply` | 2 proposals, 2 callers; 2 calls that overlap with generator and crashes, or 3 serial ones | `ReviewGate`, `LedgerGated`, `ImplementsAtomicApply` | 2.2 M |
| `review_one_engine` | 3 rows of which 2 exist, 3 texts, 1 engine, 1 revoker, 1 monitor | `OneWaitingCopy`, `DecisionStands`, `NoResurface`, `RevocationStands` | 0.7 M |
| `federation_trust` | 2 partners and 2 operators and 1 offer, or one each with a router and 2 offers; 4 calls, crashes | `QueriedOnceVerified`, `LedgerTruthful`, `RevocationFinal`, `AnswersAgreed` | 0.9 M |
| `event_bus` | 2 streams, queues of 2, 4 events | `NoSilentLoss`, `Delivered`, `Released` | 0.06 M |
| `database_passes` | 3 measurements of 4 kinds and 2 passes over 2 seconds, or 1 entity with 3 observations, 2 passes and 3 months | `NothingLost`, `NothingUncounted`, `SurvivorLeft`, `InvalidationHasEvent`, `SupersededInTheEnd` | 1.1 M |
| `pipeline` | one table, class, rule and block of each kind, 3 rounds, 2 upsets | `SettledLikeFresh`, `MeasuredThisRun`, `PassIsOfThisOntology`, `RemovalNotPassed` | 1.5 M |
| `wizard_session` | 2 proposals, one of them causal, 2 requests, 3 saves | `EntriesApproved`, `ApprovalsKept` | 0.3 M |
| `log_discovery` | 2 corpora of 4 lines, the command line and one request | `MergesEnd`, `RankerOnDecisions`, `CausalWhileDirected` | 0.4 M |
| `reasoning_search` | 2 cached threads, or a stream, or a direct call; 4 flavors, 3 names | `SearchGrounded`, `CacheConverges`, `StreamEnds` | 0.5 M |
| `agent_turn` | 2 indexers, or 2 questions; 2 rows, 1 change or lock | `PayloadTruthful`, `IndexCatchesUp` | 2.9 M |
| `consumers` | the gate, or the publisher, or one export, or two that share keys, beside the pipeline | `RecordedBundlesVerify`, `ReportsAgree`, `PublishedOrReplaced`, `PassedGateNoWorse` | 1.5 M |
| `pass_expression` | as `consumers` | `PassedQuestionSatisfies` is violated | |

Why these bounds: two callers are enough for every overlap of two sequences
of file operations, and the properties speak of one proposal, or of one and the
others; the third serial call is the re-apply that follows an apply of each.
Four operator calls take a partner from registration to ACTIVE, or overlap with a
revocation, while the other operator works on the same file. A queue of two
overflows with the third of four events. Three measurements are enough for a
circle through more than one pair, and the kinds hold equal and unequal
priorities, a NULL method, a NULL name, a negative value and both sides of the
five-minute window. Three observations give a group to fold with one that comes
too late. The lines of the corpora make a template near two others that are not
near each other, and edges of both directions and of none. Two rows are a full
batch and less than one; two saves overlap and a third reads what they left.
Three rounds are a run that is upset, one that repairs, and one that shows it.

Where components share nothing, one behaviour has only one of them (`kind` in
`MCDatabasePasses`, `cast` in `MCConsumers`, `Casts` in `MCFederationTrust` and
`AgentTurn`, `Meetings` and `Asking` in `ReasoningSearch`): this loses no behaviour the properties could
tell apart, since what is left out changes no variable the rest reads. The one
exception is an index rewritten during a question: TLC sees any index, but a fixed
one, and `PayloadTruthfulHolds` is proved for both at once.
All bounds are named (`MaxApplies`, `MaxShared`, `MaxRows`, `MaxCalls`,
`MaxQueries`, `MaxEvents`, `MaxTime`, `MaxPoints`, `MaxFaults`, `Size`, `MaxClock`,
`MaxUpsets`, `Rounds`, `MaxSaves`, `MaxStarts`, `MaxReplans`, `MaxChanges`, `MaxVersions`,
`MaxAsks`, `MaxRewrites`, `MaxPublishes`, `MaxGates`); the proofs do without their
values. `MaxReplans` and `Capacity`, `TTL`, `Batch`, `MaxHops` are the code's own, made
small. Symmetry is used for sets whose members the specification only compares,
and only in runs without liveness properties.

Deadlock is not checked where the system stops when its bounds are used up:
`event_bus`, `federation_trust`, `database_passes`, `log_discovery`,
`reasoning_search`, `agent_turn` and `consumers`. The others always go on.

Fairness, and why the code justifies it:

- `EventBus`: weak fairness of each stream's `Serve` (`Served`). A stream has a
  thread of its own as long as there are no more streams than threads, `get` returns
  after 20 seconds at the latest, and a yield is written or fails. With more than
  eight streams in a worker the assumption is wrong, and so is `Delivered`.
- `AgentMemory`: weak fairness of the scheduled daemon's `Begin` and `Work` (`GoesOn`).
  It sleeps until its hour, and every statement ends, by a lock timeout at worst.
- `ReasoningSearch`: weak fairness of the clock (`TimePasses`), of a stream's worker
  thread and of its delivery (`StreamRuns`). Every call of a model has a time limit
  (120 seconds for Ollama, the SDK's defaults elsewhere). Nothing is assumed of the
  client.

### The violated property

`PassedQuestionSatisfies`: `_eval_pass_expression` understands `exists`, `in`, and
comparisons with numbers, so `status == 'PASS'`, which the regulations that come
with the code use, is false of a question that passed. No shipped regulation
reaches 80 %, and the scorecard's criterion on regulatory evidence stays at 2.

### What else was found

The code does these things; no property forbids them, or the property allows for
them by name. They were met while modelling or proving.

Apply and proposals

- Apply p1, apply p2, apply p1 again: its block is there, nothing is appended, but
  the gates run, and if one refuses `_rollback_version` cuts the file at p1's marker.
  p2's block is gone too, APPROVED and in the ledger (`evolution_reviewer.py:367`;
  `docs/advanced.md:438` speaks of the change being rolled back).
- Apply p1 (1.1.0), regenerate (the header says 1.0.0), apply p2: it is 1.1.0 as
  well, and its ledger row is ignored by INSERT OR IGNORE and reported as written.
- `shacl_status` is always recorded as PASS although no SHACL check runs, and
  without ROBOT the reasoner's gate passes. An OSError of the rollback is swallowed,
  and any other error of it turns the gate's FAIL into SKIPPED: the change a gate
  refused is then released, with a ledger row (`evolution_reviewer.py:286`, `:311`).
- A version the reviewer types is not checked (`wizard/app.py:1926`). After one that
  is no semantic version a rollback leaves the version lines of the refused change
  in the file, which is why `ImplementsAtomicApply` is about numbers.
- A reviewer's id may be null or empty, so that a decided row names nobody
  (`wizard/app.py:1924`). An engine or a revocation that had read a row overwrites
  what a person decides meanwhile, as `DecisionStands` allows.
- Mining replaces the Turtle of an approved proposal (`log_review.py:100` says that
  decided rows are left untouched). `defer_until` is never read.
- Two overlapping monitors insert a candidate twice; a rejected or approved
  candidate is proposed again; a renamed title escapes the test for a twin; the
  seeded confidence is visible to policies before the scorer has run, and the
  scorer rewrites the scores of rows decided meanwhile.
- Two policy engines can together undo a revocation, which is why
  `RevocationStands` is stated for one.

Federation

- `activate` reads COUNTERSIGNED, the partner is revoked, `activate` writes ACTIVE.
  `RevocationFinal` speaks of revocations that no activate overlaps; with a single
  operator no exception is needed (proved). A new handshake does not end a
  revocation, `countersign` does, and it verifies a manifest with the key that
  comes in the manifest (`federation/manifest.py`), never with a registered one.
- `federation_query_log.query_id` is UNIQUE and one query logs one row per
  endpoint: at the second endpoint the insert raises, after the first partner
  was asked (`db/schema.sql:317`; `docs/advanced.md:515` promises a row for each).
- Bindings of an online answer are dictionaries, which the gate cannot put into a
  set: an online row is never accepted. The whole query goes to every partner, and
  the class filter into its outermost WHERE; without a WHERE there is none. `ok` is
  true although rows were rejected. Of two partners on an endpoint the last
  registered is asked. `revoke_partner` leaves no ledger row; `valid_until` counts
  only once `expire_overdue` has run, which nothing calls.

Passes over the database

- Of the conflicts of one second all events but the first are dropped and still
  counted. A measurement without `derivation_method` ends every pass, and so does
  a conflict with a NULL `kpi_iri`. A negative measurement conflicts with any other.
- `updated_at` is added by the third strategy only; until then the first two
  fail silently. A snapshot of the past changes with later passes.

Wizard and log discovery

- A client gone before the hello packet stays subscribed (`wizard/app.py:363`).
- A reload during another request's save reads the default session, and posting it
  wipes the entries. An import drops the rules. An ontology saved during a save is
  the default session. The flag of a running pipeline is one per worker.
- Cluster ids start again at 1 in every mining run, so that rows and proposals are
  reused for other templates. Two overlapping refinements can make merging go
  round in a circle, which is why the model has one process that refines. A
  request that seeds without extractions demotes all causal edges.

Runtime and search

- An earlier form of `PayloadTruthful` said a memory is of an *earlier* question; the
  proof failed, for the answer of a later question that ends first is remembered
  too. It now says of a question that has ended.
- An indexing run that finds a table locked passes over it and registers the index
  all the same, as if it were not there (`embeddings/pipeline.py:276`); so does one
  with a limit. `IndexCatchesUp` excepts both. A hit is filtered by the class its
  row had when it was indexed, which may not be the one it is shown with.
- The indexer never deletes, and its hash is of the text alone. The hits of the
  index bypass the input gate. A filter whose classes are none of the flavor's is
  no filter. Invalid answers are remembered and recalled.
- In a search the ceiling is compared with the classes of the first plan only, not
  with those of a new plan. If that one does not compile, the answer names it
  beside the query of the old one. Blocked answers are cached.
- A flavor whose `db_tables` is empty or missing allows every table to a search
  (`query_compiler.py:62`), though the validation of flavors asks for one. What is
  derived may rest on `extra_facts` alone, with nothing of the database in it.

Pipeline and readers

- Deleting the last rule keeps `rules.ttl`, its queries and what was derived; a skipped
  engine leaves its output where others pick it up (`Lingering`). A FAIL of the
  reasoner is ignored by the phases. Without ROBOT the snapshot has another format,
  and everything counts as removed. Tombstones are made for every class of the old
  file that is not a table's, so also for classes of the base and of the session that
  are still there (`ontology_generator.py:953`; `output/ontology/enterprise.ttl:3557`).
- The snapshots list classes only (`reasoner.py:137`, `:173`): an applied proposal
  that declares a property, as most of the monitor's do, is gone after the next run
  of the generator, and the comparison says PASS.
- `RemovalNotPassed` first made an exception only for the run after a death. That is
  too little: a phase dies while it classifies, a run without ROBOT follows, and the
  next one passes although a class is gone. The exception (`cut`) lasts until ROBOT
  has classified again.
- Two exports that both find no key can leave the secret key of one and the public
  key of the other, and no later bundle verifies, though recorded as verified.
- `graph_publisher.py:4` and `:264` promise an upload of all Turtle artifacts, and
  the run reports ok for each. For the three stores that take a PUT this leaves the
  last file of each tier only: `PublishedOrReplaced` says which files may be relied
  on. INSERT DATA with `@prefix` is not SPARQL, so that a store that keeps to it
  refuses every upload; one that does not gets the text with its backslashes
  doubled (`graph_publisher.py:71`).
- `toolkit.py --phase comply --out D` judges the items by D, but packs the scorecard
  of the repository's own output directory (`bundle.py:195`).
  `RecordedBundlesVerify` excepts it (`home`).
- The gate only compares what its documentation calls unconditional failures; a
  metric that is null in the baseline is not compared.

## Proofs

All in TLAPS, for any constants that satisfy the `ASSUME`s: bounds are naturals,
flags Booleans, `None` none of the values beside it, the sets of rows of a table,
of an alert's dependents and of a file's records finite, queues and batches of
positive capacity; the names of the files a publisher sends are distinct (its
results are keyed by them); and of the log processes only one refines. Where an
invariant is not inductive, what is added is said here.

`OntologyProofs`. Lemmas on the file operations say what `Overwritten`,
`Truncated` and `WithBlock` return and which blocks it can hold.

- `ReviewGateHolds`: a text computed before is written later, so `GateInv` adds that
  the proposal of each running call, and every block in its buffer, was approved.
- `LedgerGatedHolds`, from `VerdictInv`: a call at the ledger carries no FAIL, and
  was refused only where its rollback raised.
- `OneBlockHolds`, for one caller: the buffer about to be written repeats nothing,
  and while the file is cut it holds no block. `DryRunHolds`: a dry run never stands
  at a step that writes.
- `AtomicApplyHolds`: `SerialSpec` implements `AtomicApply`; in its serial part the
  targets are numbers, any of them. `SerialInv` says that
  at most one call is under way, what that call knows of the file at each of its
  eleven places, and that there is no header only while it is writing. One lemma
  for each abstract step, stated in terms of the mapped expressions; all other
  steps stutter.
- `PipelineTypes`. What a phase leaves is a recursive function over its list of
  files; that it exists, and what it yields file by file, is got from well-founded
  order of the naturals (`StagesExist`, `UpTo`), and from it what a classifying
  phase as a whole leaves (`Classified`).
- `PassOfThisOntologyHolds`: a phase whose verdict is PASS has classified, and its
  snapshot is of what it classified (`PassSnapshot`).
- `RemovalNotPassedHolds`, from `KnownInv`: until a classifying phase dies, the
  classified file and the snapshot both hold the classes of the last ontology that
  ROBOT classified.
- `MeasuredThisRunHolds`, from `MeasureInv`: what an undisturbed full run has left is
  the rest of `All`, and what the phases behind it have measured still fits
  (`FitsSoFar`), since no phase to come writes what they read.
- `SettledLikeFreshHolds`, for `Rounds >= 3`, from `SettleInv`. `Settled` says of each
  file what the inputs alone make its contents, but for tombstones and for what rules
  leave behind in a session that has none. What a generator makes from settled files
  is settled (`MadeSettled`), and `All` puts each generator after those of the files
  it reads (`PhaseReady`). `Progress` counts: the first undisturbed run settles the
  files the code is the only source of, some of which `reason` and `alignment` read
  before the phase that writes them; the second all other files but the scorecard,
  which takes over what the last one said; the third that and the two reports. The
  same holds along the runs of a new checkout (`FreshSettles`), so both are alike.
  Two runs are not enough: with `Rounds = 2` TLC finds a scorecard that differs.

`ProposalReviewProofs`

- `TypeInvariant`, `LabelledHolds` and `NoResurfaceHolds`; `DecisionStandsHolds`, for
  any number of engines and revocations, from `HeldInv`: whoever holds a row a person
  has decided had read it before, since engines select what waits and revocations
  what a policy approved; `RevocationHolds` for one engine, from `EngineInv`: a row the engine has selected
  and still has to decide was not decided by a policy since, does not wait
  after a revocation and is not being revoked.
- `EvolutionRefines`: every step of `Evolution` is one of `ProposalReview` or a
  stutter, so that the above hold beside the monitor.
- `OneWaitingCopyHolds`, while monitor runs do not overlap, from `MonInv`: a monitor
  under the write lock has seen every row that could be a twin.

`FederationTrustProofs`

- `QueriedHolds`, `LedgerHolds` and `MirrorHolds`, from one invariant, `Committed`:
  table, ledger, file and each call's locals name only states the partner was in.
  `RevocationHolds`, for one operator; `RevocationFinalHolds`, for any number, of
  revocations that no activate overlaps.
- `FederatedRefines`: routers add nothing that `FederationTrust` does not allow.
  `AnswersAgreedHolds`, from `FInv`: a router past its decision holds a row whose
  agreement was in force while the partner was ACTIVE, and what it has accepted
  conforms to that.

`DatabasePassesProofs`

- `MemoryIsKept`, from `MInv`: an inferred row is invalidated by a measured one, a
  measured one by a summary, a summary by nothing, and what a pass holds since its
  SELECT still has the methods and entity it was selected for.
- `NothingUncountedHolds`, from `CInv`: a group in hand never has more rows than it
  was counted with, because rows recorded since are younger than the cutoff and none
  that was invalidated becomes active again. Types and `FoldedOnceHolds` beside.
- `SurvivorHolds`: a winner comes before its loser by priority and then by row, and
  a set of measurements has a first one in that order (the library's `WFMin`).
  `HasEventHolds`, `NothingSkippedHolds` and `EventsKeptHolds`, from `ResolverInv`.
- `SupersededHolds`, a liveness property (see below): from any place a pass comes round
  with the column there (`PlaceLeads`), and the next round marks. That its SELECT
  covers what is stale still holds at its UPDATE, whatever other passes do between
  the two (`CoveredStays`). The hypothesis `<>[][Quiet]_vars` says that from some time
  on no month passes, nothing is recorded and no pass fails. `MaxTime`, `MaxPoints`
  and `MaxFaults` make every behaviour of the specification like that, but that a
  bounded counter comes to rest is an induction.

`WizardProofs`

- The session: `EntriesHold` and `ApprovalsHold`, from `SInv`, whose parts `Clean`
  (whatever holds a session, file, request, tab or copy, holds approved entries only)
  and `Safe` (what is kept is in the file, or a request that will write it holds it).
- The bus: `InOrderHolds` and `NoSilentLossHolds`, from `BusInv` and the
  observation that a step leaves all a stream carries as it was, or appends the newest
  event to it, or counts a drop. `LeakHolds`: only a client gone before the hello
  packet leaves a subscriber behind.
- Its liveness (see below): `ReleasedHolds`, by the two steps of a stream without a
  client, out of `get` and into the write that fails. `DeliveryAdvances`: an event at
  the k-th place of a queue comes to the place before it, or to the client if it was
  the first, unless the client leaves. `Delivered` is k of these steps.

`LogDiscoveryProofs`

- `MergesEndHolds`: what the one process that refines has read as live stays
  live, and its plan of merges never leads back. `CausalWhileDirectedHolds`, an
  action property, by actions. `RankerOnDecisionsHolds`, from `RInv`: a process that
  is to save or to record holds one fit, what it counted had been decided, and what
  it is to record was saved. Decisions that stand may be fewer by then: they are
  deferred and revoked, so the history `judged` is what is compared with.

`ConsumersProofs`

- `PassedGateNoWorseHolds`, from `GInv`: a baseline that can be read is the metrics
  of what was read to record it, and a run that passed had no problem against it.
- `PublishedOrReplacedHolds`, from `PInv`: every file reported comes before those still
  to be sent, and a late request of an earlier run disturbs its tier.
- `RecordedBundlesVerifyHolds`, from `XInv`: while at most one export has made keys,
  both key files are its own, and what is signed and packed is what was assembled.
- `ReportsAgreeHolds`, from `DirInv` and the lemmas about what the reports count.

`RuntimeProofs`

- `IndexCatchesUpHolds`, from `IInv`: while a run is undisturbed nobody else is
  indexing; a row whose table is still to come is indexed as the hash read at the
  start says, or correctly; any other the run is to look at and could read is
  indexed, or in the buffer, with the text it has.
- `PayloadTruthfulHolds`, from `TInv`: at each place of a question, what it holds was
  seen during it (`Watched`, `Staged`), was filtered by the class it was indexed
  under (`LetThrough`, `Filtered`) and counted
  (`Tallied`); questions under way have different numbers (`Numbered`); and what is
  remembered is of questions that have ended (`Recalled`). `TypeInvariant` with it.
- `SearchTypes` and `SearchGroundedHolds`, from `SearchInv`: what a search knows at
  each of its places (`Prepared`), and that what is cached is grounded in the flavor
  it is kept for; `SupportedMore`: more base facts support no less.
  `ReasonedSupported`: what is known after n rounds of chaining is
  reached by ways of length n along the final lineages, because no round replaces
  the lineage of a fact.
- `StreamWholeHolds`, from `WholeInv`, the life of a stream: while its worker is at
  work there are only stages in its queue and nothing was heard; then the queue and
  what was heard make one answer or error and one end. `StreamAdvances` (see below):
  each step of a worker lowers `Rank`, the plans that are left and the place in the
  present one (`WorkMoves`), and once it is done each delivery shortens the queue.
  Together they are `StreamEnds` but for the induction over ranks and lengths.

Liveness is proved where a fixed number of steps leads to the goal. Each leads-to is
an invariant, a step lemma and weak fairness, put together by LS4. The provers know
nothing of ENABLED, so that a process has a step to take is a hypothesis of these
theorems: `[]NeverStuck`, `[]PassGoesOn`, `[]SearchGoesOn`. They say no more than
that `Serve` and `Work` have a disjunct for every place a process can be at, one
that needs no event, no other pass and no neighbour.

Only model-checked:

- `Delivered` and `StreamEnds` as a whole, which need an induction over places and
  ranks in a temporal formula, and `CacheConverges`, which counts threads and ticks;
- `TypeOK` of `LogDiscovery`, whose corpora are folded line by line.

A type invariant that is proved is not checked as well.

## Not modelled

The text of the ontology, of SPARQL and of Turtle; the verdicts of the
reasoner and of the competency questions; language models; signatures as
mathematics; scores and statistics of log mining, drift and causality; what
database connectors introspect; the Redis back-end of the bus, with which two
workers share one (without it each has its own); SHACL and prompts of the agent
runtime; onboarding, deployment and the command line. Of the hazards met,
`PROJECT.json` lists those a property covers, and, with the reason, those in
which the code goes wrong. Left out of it are: the rollback of a second apply
(`evolution_reviewer.py:367`); the stale list of `expire_overdue`
(`trust.py:257`); the flag of a running pipeline (`wizard/app.py:977`); the leak
before the hello packet (`:363`); the JSON mirror's form (`partner_registry.py:289`).

## Plan

1. More of the wizard: the importer's mapping of a file to entities, and
   `onboard.py` as a driver of the phases.
