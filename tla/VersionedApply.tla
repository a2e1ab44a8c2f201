--------------------------- MODULE VersionedApply ---------------------------
(***************************************************************************)
(* apply_approved and _rollback_version of src/src/evolution_reviewer.py:  *)
(* an APPROVED evolution proposal is appended to                           *)
(* output/ontology/enterprise.ttl in a marked block, the version header is *)
(* bumped, the reasoner and the competency-question suite are run as       *)
(* gates, and the release is recorded in ontology_version_ledger.          *)
(*                                                                         *)
(* Nothing serialises the callers: the Flask route                         *)
(* /api/evolve/proposals/<id>/apply and `toolkit.py --phase evolve         *)
(* --apply` run the same function in different threads and processes, and  *)
(* the pipeline thread may regenerate the file meanwhile.  So every read   *)
(* and every write of the file is a step of its own; open(path, "w")       *)
(* empties the file before the new text is there, and two writers that     *)
(* have both emptied it write over each other from its first byte.         *)
(*                                                                         *)
(* Abstractions: the file is its version header and the order of its       *)
(* evolution blocks; versions are the MINOR number of 1.MINOR.0; the       *)
(* verdict of an external gate is any verdict.  A --version-target is not  *)
(* checked anywhere: one that is no number stands for any other text.      *)
(***************************************************************************)
EXTENDS Naturals, Sequences

CONSTANTS Proposals,    \* proposal ids of ontology_evolution_proposals
          Appliers,     \* threads and processes that call apply_approved
          Targets,      \* explicit --version-target values a reviewer may give
          MaxApplies,   \* bound: calls of apply_approved in a behaviour
          Regenerates,  \* TRUE iff generate_ontology may rewrite the file
          Faults,       \* TRUE iff a process may die, or a rollback may fail
          None          \* NULL

ASSUME ConstantsOK ==
    /\ MaxApplies \in Nat
    /\ Regenerates \in BOOLEAN
    /\ Faults \in BOOLEAN
    /\ None \notin Nat \cup Targets

VARIABLES
    status,        \* the status column
    target,        \* the version_target column
    approvedEver,  \* history: proposals that were APPROVED at some time
    file,          \* enterprise.ttl
    ledger,        \* rows of ontology_version_ledger
    pc,            \* where each applier is in apply_approved
    job,           \* the local variables of each running apply_approved
    gen,           \* where generate_ontology is
    applies        \* calls made so far

vars == <<status, target, approvedEver, file, ledger, pc, job, gen, applies>>
rows == <<status, target, approvedEver>>

Status == {"PENDING", "APPROVED", "REJECTED", "DEFERRED"}
Verdict == {"PASS", "FAIL", "SKIPPED"}
Gates == {"reasoner", "sparql"}

Version == Nat \cup Targets

-----------------------------------------------------------------------------
(* The ontology file *)

File == [header : Nat \cup {None}, blocks : Seq(Proposals)]

\* What a reader finds between open(path, "w") and the first flush.
EmptyFile == [header |-> None, blocks |-> << >>]

\* What generate_ontology writes: VERSION = "1.0.0" and no evolution block.
GeneratedFile == [header |-> 0, blocks |-> << >>]

\* _current_ontology_version: a file without a version line reads as 1.0.0.
VersionOf(f) == IF f.header = None THEN 0 ELSE f.header

\* re.sub on the version lines: nothing to substitute when there is none, and
\* after a version that is no number there is none any more: neither
\* _current_ontology_version nor a later substitution, that of a rollback
\* included, finds the line.
Restamped(f, v) == IF f.header = None \/ v \notin Nat THEN None ELSE v

\* What a file that holds f may hold once g is written from its first byte on:
\* g, then the end of what was there.  The lengths of the two texts, which are
\* not modelled, decide how much of f that is.  A file that nobody filled since
\* it was emptied just holds g.
Tails(s) == {SubSeq(s, k, Len(s)) : k \in 1 .. Len(s) + 1}

HeadersOver(f, g) == IF g.header = None THEN {None, f.header} ELSE {g.header}

Overwritten(f, g) ==
    UNION {{[header |-> h, blocks |-> g.blocks \o t] : t \in Tails(f.blocks)} :
              h \in HeadersOver(f, g)}

Marked(f, p) == \E i \in DOMAIN f.blocks : f.blocks[i] = p

WithBlock(f, p, v) == [header |-> Restamped(f, v),
                       blocks |-> Append(f.blocks, p)]

MarkerIndex(f, p) ==
    CHOOSE i \in DOMAIN f.blocks :
        f.blocks[i] = p /\ \A k \in DOMAIN f.blocks : f.blocks[k] = p => i <= k

\* content[:content.find(marker)]: the block of p and all that follows it go.
Truncated(f, p) == IF Marked(f, p)
                   THEN SubSeq(f.blocks, 1, MarkerIndex(f, p) - 1)
                   ELSE f.blocks

\* Mutant: the block goes and the version stays.
WithoutBlockOnly(f, p, v) == [header |-> f.header,
                              blocks |-> Truncated(f, p)]

WithoutBlock(f, p, v) == [header |-> Restamped(f, v),
                          blocks |-> Truncated(f, p)]

-----------------------------------------------------------------------------
(* A running apply_approved *)

PC == {"idle", "version", "content", "truncate", "fill", "reason", "cq",
       "rbread", "rbtruncate", "rbfill", "ledger"}

\* refused and raised are history: the gates that refused the change, and those
\* whose rollback ended in an error that _rollback_version does not catch.
Job == [prop : Proposals, dry : BOOLEAN, want : Targets \cup {None},
        old : Nat, new : Version, buf : File,
        reasoner : Verdict, sparql : Verdict,
        refused : SUBSET Gates, raised : SUBSET Gates]

LedgerRow == [version : Version, parent : Nat, proposal : Proposals,
              reasoner : Verdict, sparql : Verdict]

Init ==
    /\ status = [p \in Proposals |-> "PENDING"]
    /\ target = [p \in Proposals |-> None]
    /\ approvedEver = {}
    /\ file = GeneratedFile
    /\ ledger = {}
    /\ pc = [a \in Appliers |-> "idle"]
    /\ job = [a \in Appliers |-> None]
    /\ gen = "idle"
    /\ applies = 0

\* record_decision: no look at the status the row has now; COALESCE keeps an
\* earlier version_target when none is given.
RecordDecision(p, s, t) ==
    /\ status' = [status EXCEPT ![p] = s]
    /\ target' = [target EXCEPT ![p] = IF t = None THEN @ ELSE t]
    /\ approvedEver' = IF s = "APPROVED" THEN approvedEver \cup {p}
                                         ELSE approvedEver
    /\ UNCHANGED <<file, ledger, pc, job, gen, applies>>

Goto(a, l) == pc' = [pc EXCEPT ![a] = l]

Return(a) == /\ pc' = [pc EXCEPT ![a] = "idle"]
             /\ job' = [job EXCEPT ![a] = None]

\* Mutant: only a rejected proposal is turned away.
NotRejected(p) == status[p] # "REJECTED"

Applicable(p) == status[p] = "APPROVED"

DryRun(a) == job[a].dry

\* Mutant: compares with a verdict the gates do not give.
RefusedOnError(v) == v = "ERROR"

Refused(v) == v = "FAIL"

\* get_proposal: the row is read once and never looked at again.
Start(a, p, d) ==
    /\ pc[a] = "idle"
    /\ applies < MaxApplies
    /\ Applicable(p)
    /\ job' = [job EXCEPT ![a] =
                  [prop |-> p, dry |-> d, want |-> target[p],
                   old |-> 0, new |-> 0, buf |-> EmptyFile,
                   reasoner |-> "SKIPPED", sparql |-> "SKIPPED",
                   refused |-> {}, raised |-> {}]]
    /\ Goto(a, "version")
    /\ applies' = applies + 1
    /\ UNCHANGED <<rows, file, ledger, gen>>

ReadVersion(a) ==
    /\ pc[a] = "version"
    /\ LET v == VersionOf(file)
           w == job[a].want
       IN  job' = [job EXCEPT ![a].old = v,
                              ![a].new = IF w = None THEN v + 1 ELSE w]
    /\ Goto(a, "content")
    /\ UNCHANGED <<rows, file, ledger, gen, applies>>

\* The marker test, and the new text computed from this one read.
ReadContent(a) ==
    /\ pc[a] = "content"
    /\ \/ /\ Marked(file, job[a].prop)      \* "axiom already applied"
          /\ Goto(a, "reason")
          /\ UNCHANGED job
       \/ /\ ~ Marked(file, job[a].prop)
          /\ job' = [job EXCEPT ![a].buf =
                        WithBlock(file, job[a].prop, job[a].new)]
          /\ Goto(a, IF DryRun(a) THEN "reason" ELSE "truncate")
    /\ UNCHANGED <<rows, file, ledger, gen, applies>>

Truncate(a) ==
    /\ pc[a] = "truncate"
    /\ file' = EmptyFile
    /\ Goto(a, "fill")
    /\ UNCHANGED <<rows, ledger, job, gen, applies>>

Fill(a) ==
    /\ pc[a] = "fill"
    /\ file' \in Overwritten(file, job[a].buf)
    /\ Goto(a, "reason")
    /\ UNCHANGED <<rows, ledger, job, gen, applies>>

\* find_unsatisfiable, or the except clause around it.
Reason(a, v) ==
    /\ pc[a] = "reason"
    /\ \/ /\ Refused(v)
          /\ DryRun(a)
          /\ Return(a)
       \/ /\ Refused(v)
          /\ ~ DryRun(a)
          /\ Goto(a, "rbread")
          /\ job' = [job EXCEPT ![a].refused = @ \cup {"reasoner"}]
       \/ /\ ~ Refused(v)
          /\ job' = [job EXCEPT ![a].reasoner = v]
          /\ Goto(a, "cq")
    /\ UNCHANGED <<rows, file, ledger, gen, applies>>

\* run_sparql_cq_tests, or the except clause around it: a failing suite is
\* only rolled back when this is no dry run, and a dry run ends here.
CompetencyQuestions(a, v) ==
    /\ pc[a] = "cq"
    /\ \/ /\ DryRun(a)
          /\ Return(a)
       \/ /\ ~ DryRun(a)
          /\ job' = [job EXCEPT ![a].sparql = v,
                                ![a].refused = IF Refused(v)
                                               THEN @ \cup {"sparql"} ELSE @]
          /\ Goto(a, IF Refused(v) THEN "rbread" ELSE "ledger")
    /\ UNCHANGED <<rows, file, ledger, gen, applies>>

Row(a) == [version |-> job[a].new, parent |-> job[a].old,
           proposal |-> job[a].prop,
           reasoner |-> job[a].reasoner, sparql |-> job[a].sparql]

\* INSERT OR IGNORE, and the version column is UNIQUE.
WriteLedger(a) ==
    /\ pc[a] = "ledger"
    /\ ledger' = IF \E r \in ledger : r.version = job[a].new
                 THEN ledger
                 ELSE ledger \cup {Row(a)}
    /\ Return(a)
    /\ UNCHANGED <<rows, file, gen, applies>>

-----------------------------------------------------------------------------
(* _rollback_version: reads the file again, whatever has become of it *)

RollbackRead(a) ==
    /\ pc[a] = "rbread"
    /\ job' = [job EXCEPT ![a].buf =
                  WithoutBlock(file, job[a].prop, job[a].old)]
    /\ Goto(a, "rbtruncate")
    /\ UNCHANGED <<rows, file, ledger, gen, applies>>

RollbackTruncate(a) ==
    /\ pc[a] = "rbtruncate"
    /\ file' = EmptyFile
    /\ Goto(a, "rbfill")
    /\ UNCHANGED <<rows, ledger, job, gen, applies>>

RollbackFill(a) ==
    /\ pc[a] = "rbfill"
    /\ file' \in Overwritten(file, job[a].buf)
    /\ Return(a)
    /\ UNCHANGED <<rows, ledger, gen, applies>>

\* `except OSError: pass`: the caller still reports "rolled back".
RollbackOSError(a) ==
    /\ Faults
    /\ pc[a] \in {"rbread", "rbtruncate", "rbfill"}
    /\ Return(a)
    /\ UNCHANGED <<rows, file, ledger, gen, applies>>

\* Any other error, that is the UnicodeDecodeError of a file cut in the middle
\* of a character (what was decoded can be written), is caught around the gate
\* that asked for the rollback: the gate counts as SKIPPED and the call goes on
\* with the refused change.
RollbackRaises(a) ==
    /\ Faults
    /\ pc[a] = "rbread"
    /\ \/ /\ job[a].sparql = "FAIL"
          /\ job' = [job EXCEPT ![a].sparql = "SKIPPED",
                                ![a].raised = @ \cup {"sparql"}]
          /\ Goto(a, "ledger")
       \/ /\ job[a].sparql # "FAIL"
          /\ job' = [job EXCEPT ![a].raised = @ \cup {"reasoner"}]
          /\ Goto(a, "cq")
    /\ UNCHANGED <<rows, file, ledger, gen, applies>>

-----------------------------------------------------------------------------
(* The environment *)

\* generate_ontology rewrites the file from the schema (--phase generate, the
\* wizard's pipeline thread).
GenTruncate ==
    /\ Regenerates
    /\ gen = "idle"
    /\ gen' = "fill"
    /\ file' = EmptyFile
    /\ UNCHANGED <<rows, ledger, pc, job, applies>>

GenFill ==
    /\ gen = "fill"
    /\ gen' = "idle"
    /\ file' \in Overwritten(file, GeneratedFile)
    /\ UNCHANGED <<rows, ledger, pc, job, applies>>

\* The generator dies with the file emptied.
GenCrash ==
    /\ Faults
    /\ gen = "fill"
    /\ gen' = "idle"
    /\ UNCHANGED <<rows, file, ledger, pc, job, applies>>

\* The process running a apply_approved dies, or an exception it does not
\* catch ends the call: its locals are lost, file and database stay.
Crash(a) ==
    /\ Faults
    /\ pc[a] # "idle"
    /\ Return(a)
    /\ UNCHANGED <<rows, file, ledger, gen, applies>>

Work(a) ==
    \/ \E p \in Proposals, d \in BOOLEAN : Start(a, p, d)
    \/ ReadVersion(a)
    \/ ReadContent(a)
    \/ Truncate(a)
    \/ Fill(a)
    \/ \E v \in Verdict : Reason(a, v)
    \/ \E v \in Verdict : CompetencyQuestions(a, v)
    \/ WriteLedger(a)
    \/ RollbackRead(a)
    \/ RollbackTruncate(a)
    \/ RollbackFill(a)

Step(a) == Work(a) \/ RollbackOSError(a) \/ RollbackRaises(a) \/ Crash(a)

Decide == \E p \in Proposals, s \in Status \ {"PENDING"},
             t \in Targets \cup {None} : RecordDecision(p, s, t)

Next ==
    \/ Decide
    \/ \E a \in Appliers : Step(a)
    \/ GenTruncate
    \/ GenFill
    \/ GenCrash

Spec == Init /\ [][Next]_vars

-----------------------------------------------------------------------------
(* Properties *)

\* The type invariant: the columns, the file, the ledger and the locals of
\* apply_approved; an applier has locals exactly while it is in the function.
TypeOK ==
    /\ status \in [Proposals -> Status]
    /\ target \in [Proposals -> Targets \cup {None}]
    /\ approvedEver \subseteq Proposals
    /\ file \in File
    /\ ledger \subseteq LedgerRow
    /\ pc \in [Appliers -> PC]
    /\ job \in [Appliers -> Job \cup {None}]
    /\ \A a \in Appliers : pc[a] # "idle" => job[a] \in Job
    /\ gen \in {"idle", "fill"}
    /\ applies \in Nat

Held(f) == {f.blocks[i] : i \in DOMAIN f.blocks}

Distinct(s) == \A i, k \in DOMAIN s : s[i] = s[k] => i = k

\* "Every proposed change passes through a human review gate": whatever the
\* appliers, the generator and the crashes do to the file, a block in it is
\* that of a proposal somebody approved (apply_approved reads the status once,
\* at its start, and writes the text it computed much later).
ReviewGate == Held(file) \subseteq approvedEver

\* An axiom is in the file at most once, although one caller retries applies
\* after crashes and half-written files and races with the generator: the
\* marker test and the text appended come from the same read.  (Two callers
\* that write over each other can leave it there twice.)
OneBlockPerProposal == Distinct(file.blocks)

\* What holds of a call that is about to write its row.
Gated(j) == /\ j.refused \subseteq j.raised
            /\ "reasoner" \in j.raised => j.reasoner = "SKIPPED"
            /\ "sparql" \in j.raised => j.sparql = "SKIPPED"

\* A ledger row is the record of a release whose proposal was approved, and it
\* never shows a FAIL.  A change that a gate refused gets a row only where the
\* rollback raised something else than an OSError; the gate then shows SKIPPED,
\* so a row with PASS twice is of a change that no gate refused.
LedgerGated ==
    /\ \A r \in ledger : /\ r.proposal \in approvedEver
                         /\ r.reasoner # "FAIL"
                         /\ r.sparql # "FAIL"
    /\ \A a \in Appliers : pc[a] = "ledger" => Gated(job[a])

\* "dry_run: compute what would change without mutating the ontology": while
\* the only calls in progress are dry runs, no step changes file or ledger.
DryRunInert ==
    [][(/\ gen = "idle" /\ gen' = "idle"
        /\ \A a \in Appliers : pc[a] = "idle" \/ job[a].dry)
        => UNCHANGED <<file, ledger>>]_vars
=============================================================================
