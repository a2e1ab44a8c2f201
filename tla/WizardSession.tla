----------------------------- MODULE WizardSession -----------------------------
(***************************************************************************)
(* The wizard's session (src/wizard/app.py, log_review.py, importer.py and *)
(* ontologies_store.py): one JSON file that requests load, change and save.*)
(* _save_session opens the file for writing, which empties it, and then    *)
(* dumps into it; no lock is taken, requests run in the threads of several *)
(* workers, and a worker may be killed at any point.  A browser holds a    *)
(* copy of the whole session, edits it and posts it back; saved ontologies *)
(* hold further copies.                                                    *)
(*                                                                         *)
(* Of the session's keys the model keeps the ones concurrent requests fill:*)
(* "entities" stands for itself, "events" and "relationships", which are   *)
(* treated alike; "causal_rules" is not there before its first entry; and  *)
(* "rules".  A list is the set of what is in it.  An entry that comes from *)
(* log discovery carries its proposal's id, and is that id here; entities  *)
(* the user types are left out, rules are not.  The rows of the proposals  *)
(* are those of ProposalReview: no request on the session reads a status.  *)
(***************************************************************************)
EXTENDS Naturals

CONSTANTS Proposals,  \* rows of ontology_evolution_proposals
          Causal,     \* those of kind LOG_CAUSAL_EDGE
          Rule,       \* a rule of the user's
          Summarised, \* the same with an nl_summary
          Requests,   \* requests under way at the same time, at most
          MaxSaves,   \* bound of the model: requests on the session ever made
          None,       \* a file, a row or a request that is not there
          Empty,      \* the file between open and dump
          Garbled     \* the file after two dumps that got mixed up

\* Sessions, by the keys they have.
Session ==
    UNION {[{"entities"} \cup ks -> SUBSET (Proposals \cup {Rule, Summarised})] :
              ks \in SUBSET {"causal_rules", "rules"}}

ASSUME MaxSavesNat == MaxSaves \in Nat
ASSUME CausalProposals == Causal \subseteq Proposals
ASSUME RulesAreNoProposals == {Rule, Summarised} \cap Proposals = {}
ASSUME NoneIsNothing == None \notin Proposals
ASSUME FilesApart ==
    /\ None \notin Session /\ Empty \notin Session /\ Garbled \notin Session
    /\ None # Empty /\ None # Garbled /\ Empty # Garbled

VARIABLES
    file,     \* .wizard_session.json: a session, None, Empty or Garbled
    request,  \* what each request under way holds
    tab,      \* the browser's copy
    saved,    \* the session column of a saved ontology
    approved, \* proposals approved at some time
    kept,     \* approved entries nothing has endangered since, for an observer
    fresh,    \* the copy was taken, or sent, after the last approval, idem
    saves     \* requests made, for MaxSaves

vars == <<file, request, tab, saved, approved, kept, fresh,
          saves>>
observed == <<kept, fresh>>

Default == [entities |-> {}, rules |-> {}]

\* A starter template, from onboard.py or templates/: a session of its own.
Template == [entities |-> {}]

Kind == {"approve", "merge", "post", "rules", "summarise", "replace"}
Request == [kind : Kind, proposal : Proposals \cup {None},
            at : {"ask", "commit", "open", "dump"},
            doc : Session \cup {None}]

ASSUME RequestsAreThere == None \notin Request

Parses(f) == f \notin {None, Empty, Garbled}
List(s, k) == IF k \in DOMAIN s THEN s[k] ELSE {}
Entries(s) == Proposals \cap (List(s, "entities") \cup List(s, "causal_rules"))

KeyOf(p) == IF p \in Causal THEN "causal_rules" ELSE "entities"

\* _load_session: a file that is missing or does not parse is a new session.
Loaded == IF Parses(file) THEN file ELSE Default

\* existing.update(data): keys the data does not have keep their values.
Updated(s, data) ==
    [k \in DOMAIN s \cup DOMAIN data |->
        IF k \in DOMAIN data THEN data[k] ELSE s[k]]
With(s, k, list) == Updated(s, [x \in {k} |-> list])

\* _norm_wizard, of which parse_and_validate makes the session it returns.
Imported(copy) == [entities |-> copy["entities"]]

\* nl_summary, if the rule is still there.
WithSummary(s) ==
    IF List(s, "rules") = {} THEN s ELSE With(s, "rules", {Summarised})

\* _build_session_entry, appended to the list of its kind.
WithEntry(s, p) == With(s, KeyOf(p), List(s, KeyOf(p)) \cup {p})

-----------------------------------------------------------------------------
Init ==
    /\ file = None
    /\ request = [r \in Requests |-> None]
    /\ tab = Default
    /\ saved = None
    /\ approved = {}
    /\ kept = {}
    /\ fresh = TRUE
    /\ saves = 0

\* Another request comes in.
Begin(r) ==
    /\ request[r] = None
    /\ saves < MaxSaves
    /\ saves' = saves + 1

\* Requests that have loaded what they will save.
Holding == {r \in Requests : request[r] # None /\ request[r].at # "ask"}

Holds(r, k, p, at, doc) ==
    request' = [request EXCEPT
                   ![r] = [kind |-> k, proposal |-> p, at |-> at, doc |-> doc]]

\* For the observer: of two requests that hold a session, one may undo the
\* other; and entries not in safe are about to be overwritten.
Endanger(r, safe) ==
    kept' = IF Holding \ {r} = {} THEN kept \cap safe ELSE {}

\* approve and merge of log discovery load the session first.
StartReview(r, p) ==
    /\ Begin(r)
    /\ \E k \in {"approve", "merge"} : Holds(r, k, p, "commit", Loaded)
    /\ Endanger(r, Proposals)
    /\ UNCHANGED <<file, tab, saved, approved, fresh>>

\* Mutant: the row's update is not committed.
CommitForgotten(r) ==
    /\ request[r] # None
    /\ request[r].at = "commit"
    /\ Holds(r, "approve", request[r].proposal, "open",
             WithEntry(request[r].doc, request[r].proposal))
    /\ UNCHANGED <<file, tab, saved, approved, observed, saves>>

\* The row is updated and committed, and the entry is in the session the
\* request holds.  A merge whose target is there changes that entry instead.
CommitReview(r) ==
    /\ request[r] # None
    /\ request[r].at = "commit"
    /\ LET q == request[r]
       IN  /\ approved' = approved \cup {q.proposal}
           /\ \/ Holds(r, "approve", q.proposal, "open",
                       WithEntry(q.doc, q.proposal))
              \/ /\ q.kind = "merge"
                 /\ List(q.doc, KeyOf(q.proposal)) # {}
                 /\ Holds(r, "merge", q.proposal, "open", q.doc)
    /\ UNCHANGED <<file, tab, saved, observed, saves>>

\* Mutant: the copy that is posted takes the place of the session.
PostWhole(r) ==
    /\ Begin(r)
    /\ Holds(r, "post", None, "open", tab)
    /\ Endanger(r, IF fresh THEN Proposals
                   ELSE {p \in Proposals : KeyOf(p) \notin DOMAIN tab})
    /\ UNCHANGED <<file, tab, saved, approved, fresh>>

\* POST /api/session, with the browser's copy.
StartPost(r) ==
    /\ Begin(r)
    /\ Holds(r, "post", None, "open", Updated(Loaded, tab))
    /\ Endanger(r, IF fresh THEN Proposals
                   ELSE {p \in Proposals : KeyOf(p) \notin DOMAIN tab})
    /\ UNCHANGED <<file, tab, saved, approved, fresh>>

\* POST /api/rules, with the rules of the browser's copy.
StartRules(r) ==
    /\ Begin(r)
    /\ Holds(r, "rules", None, "open",
             With(Loaded, "rules", List(tab, "rules")))
    /\ Endanger(r, Proposals)
    /\ UNCHANGED <<file, tab, saved, approved, fresh>>

\* POST /api/rules/summarise asks the language model ...
Ask(r) ==
    /\ Begin(r)
    /\ Holds(r, "summarise", None, "ask", None)
    /\ UNCHANGED <<file, tab, saved, approved, observed>>

\* ... and loads the session when it has the answer.
Answer(r) ==
    /\ request[r] # None
    /\ request[r].at = "ask"
    /\ Holds(r, "summarise", None, "open", WithSummary(Loaded))
    /\ Endanger(r, Proposals)
    /\ UNCHANGED <<file, tab, saved, approved, fresh, saves>>

\* A template, a saved ontology or an import takes the place of the session.
StartReplace(r) ==
    /\ Begin(r)
    /\ \E s \in {Template, Imported(tab), saved} \ {None} :
          Holds(r, "replace", None, "open", s)
    /\ Endanger(r, {})
    /\ UNCHANGED <<file, tab, saved, approved, fresh>>

\* open(SESSION_FILE, "w").
Open(r) ==
    /\ request[r] # None
    /\ request[r].at = "open"
    /\ file' = Empty
    /\ request' = [request EXCEPT ![r].at = "dump"]
    /\ UNCHANGED <<tab, saved, approved, observed, saves>>

\* json.dump, and the response.  Over what another request has dumped since
\* the open, the result need not parse.  A request that replaces the session
\* answers with it, and the browser takes it.
Dump(r) ==
    /\ request[r] # None
    /\ request[r].at = "dump"
    /\ LET q == request[r]
       IN  /\ file' \in {q.doc} \cup (IF file = Empty THEN {} ELSE {Garbled})
           /\ tab' = IF q.kind = "replace" THEN q.doc ELSE tab
           /\ fresh' = (q.kind = "replace" \/ (fresh /\ q.kind # "approve"))
           /\ kept' = IF q.kind = "approve" /\ Holding = {r} /\ file = Empty
                      THEN kept \cup {q.proposal} ELSE kept
    /\ request' = [request EXCEPT ![r] = None]
    /\ UNCHANGED <<saved, approved, saves>>

\* The worker is killed, or the language model refuses.
Die(r) ==
    /\ request[r] # None
    /\ request' = [request EXCEPT ![r] = None]
    /\ kept' = IF request[r].at = "dump" THEN {} ELSE kept
    /\ UNCHANGED <<file, tab, saved, approved, fresh, saves>>

-----------------------------------------------------------------------------
(* The browser, and the library of saved ontologies.                       *)

\* GET /api/session: on load, and after an approval has been answered.
Reload ==
    /\ tab' = Loaded
    /\ fresh' = (file \notin {Empty, Garbled})
    /\ UNCHANGED <<file, request, saved, approved, kept, saves>>

\* The user adds a rule, or removes one, or an entry.
Edit ==
    /\ \/ /\ \E rs \in {{}, {Rule}} : tab' = With(tab, "rules", rs)
          /\ UNCHANGED kept
       \/ \E p \in Entries(tab) :
             /\ tab' = [k \in DOMAIN tab |-> tab[k] \ {p}]
             /\ kept' = kept \ {p}
    /\ UNCHANGED <<file, request, saved, approved, fresh, saves>>

\* POST /api/ontologies, with the browser's copy or without one.
SaveOntology ==
    /\ saved' \in {tab, Loaded}
    /\ UNCHANGED <<file, request, tab, approved, observed, saves>>

DeleteOntology ==
    /\ saved' = None
    /\ UNCHANGED <<file, request, tab, approved, observed, saves>>

Next ==
    \/ \E r \in Requests :
          \/ \E p \in Proposals : StartReview(r, p)
          \/ CommitReview(r) \/ StartPost(r) \/ StartRules(r) \/ Ask(r)
          \/ Answer(r) \/ StartReplace(r) \/ Open(r) \/ Dump(r) \/ Die(r)
    \/ Reload \/ Edit \/ SaveOntology \/ DeleteOntology

Spec == Init /\ [][Next]_vars

-----------------------------------------------------------------------------
(* Properties.                                                             *)

\* The type invariant: what a request holds, the browser has and the library
\* stores is always a session, whatever became of the file.
TypeOK ==
    /\ file \in Session \cup {None, Empty, Garbled}
    /\ request \in [Requests -> Request \cup {None}]
    /\ \A r \in Holding : request[r].doc \in Session
    /\ tab \in Session
    /\ saved \in Session \cup {None}
    /\ approved \subseteq Proposals
    /\ kept \subseteq Proposals
    /\ fresh \in BOOLEAN
    /\ saves \in 0 .. MaxSaves

\* Whatever requests overlap, die or overwrite each other: an entry from log
\* discovery that is in the session, in a copy of it, or about to be saved, is
\* of a proposal that has been approved.  From there the generator declares it.
EntriesApproved ==
    \A s \in {file, tab, saved}
                \cup {request[r].doc : r \in {q \in Holding :
                                               request[q].at # "commit"}} :
        Parses(s) => Entries(s) \subseteq approved

\* An approval that was answered is in the session, or in the hands of the
\* request that is saving it, until the user removes it, as long as no two
\* requests held the session at once, none died in a save, nothing replaced
\* the session, and no browser posted a copy, with that list in it, that is
\* older than the approval.  In particular the minutes a request waits for the
\* language model endanger nothing.
ApprovalsKept ==
    \/ Parses(file) /\ kept \subseteq Entries(file)
    \/ \E r \in Holding :
          request[r].at = "dump" /\ kept \subseteq Entries(request[r].doc)
    \/ kept = {}
=============================================================================
