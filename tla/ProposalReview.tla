--------------------------- MODULE ProposalReview ---------------------------
(***************************************************************************)
(* The table ontology_evolution_proposals and everything that writes its   *)
(* rows between their insertion and their application:                     *)
(*   - seed_from_mining re-inserts what a mining run finds                 *)
(*     (src/wizard/log_review.py), in one transaction;                     *)
(*   - rename_pending_proposals asks a language model for better names     *)
(*     (src/wizard/proposal_namer.py): it selects rows, and its updates    *)
(*     become visible together, when it commits;                           *)
(*   - PolicyEngine.run decides rows by policy                             *)
(*     (src/wizard/policy_engine.py): it selects the PENDING rows once,    *)
(*     then updates and commits them one at a time;                        *)
(*   - revoke_auto_approval takes such a decision back: it reads the row,  *)
(*     then updates it;                                                    *)
(*   - reviewers decide through record_decision                            *)
(*     (src/src/evolution_reviewer.py) and through approve, merge and      *)
(*     reject of log_review.                                               *)
(* All of them open connections of their own: a row may change between a   *)
(* writer's SELECT and its UPDATE, and no UPDATE looks at the status.      *)
(*                                                                         *)
(* Abstractions: title, candidate_turtle and the evidence columns are one  *)
(* text; whether a policy matches a row, and so the scores, is any verdict *)
(* except for the REVOKED: prefix of the review note.  The reviewer_id of  *)
(* a request is unchecked: null and the empty text name nobody; a person   *)
(* who calls itself policy:... or begins a note with REVOKED: is left out. *)
(***************************************************************************)
EXTENDS Naturals

CONSTANTS Proposals,  \* stable proposal ids
          Texts,      \* texts a mining run may produce for a proposal
          Engines,    \* PolicyEngines that may be running at the same time
          Revokers,   \* callers of revoke_auto_approval
          None        \* NULL

ASSUME NoneIsNoProposal == None \notin Proposals

VARIABLES
    status,       \* the status column, or "ABSENT" when there is no row
    reviewer,     \* who reviewer_id names: nobody, a person or a policy
    revoked,      \* review_note starts with "REVOKED:"
    text,         \* title and candidate_turtle
    source,       \* name_source
    todo,         \* rows each running PolicyEngine has selected and not seen
    renaming,     \* rows the namer has selected, with the text it read
    revoking,     \* the row each revoke_auto_approval found eligible
    held          \* engines and revokers that had read a row when a person
                  \* last decided it, for an observer

vars == <<status, reviewer, revoked, held, text, source, todo, renaming, revoking>>
decision == <<status, reviewer, revoked, held>>
naming == <<text, source>>

Decided == {"APPROVED", "REJECTED", "DEFERRED"}
Status == {"ABSENT", "PENDING"} \cup Decided
Text == [base : Texts, named : BOOLEAN]

\* What the model's name makes of a text: a block put in front of it.
Named(x) == [x EXCEPT !.named = TRUE]

Init ==
    /\ status = [p \in Proposals |-> "ABSENT"]
    /\ reviewer = [p \in Proposals |-> "nobody"]
    /\ revoked = [p \in Proposals |-> FALSE]
    /\ text = [p \in Proposals |-> None]
    /\ source = [p \in Proposals |-> "auto"]
    /\ todo = [e \in Engines |-> {}]
    /\ renaming = None
    /\ revoking = [r \in Revokers |-> None]
    /\ held = [p \in Proposals |-> {}]

-----------------------------------------------------------------------------
(* Mining and naming *)

\* Mutant: the upsert also writes the status a new row has.
StatusReset(p) == "PENDING"

\* INSERT ... ON CONFLICT DO UPDATE: the status of a row that exists is not
\* among the columns updated.
StatusUpserted(p) == IF status[p] = "ABSENT" THEN "PENDING" ELSE status[p]

Seed(new) ==
    /\ status' = [p \in Proposals |-> IF p \in DOMAIN new THEN StatusUpserted(p)
                                                          ELSE status[p]]
    /\ text' = [p \in Proposals |-> IF p \in DOMAIN new
                                    THEN [base |-> new[p], named |-> FALSE]
                                    ELSE text[p]]
    /\ UNCHANGED <<reviewer, revoked, held, source, todo, renaming, revoking>>

NamerRead(force) ==
    /\ renaming = None
    /\ LET found == {p \in Proposals :
                        /\ status[p] \notin {"ABSENT", "APPROVED", "REJECTED"}
                        /\ force \/ source[p] = "auto"}
       IN  renaming' = [p \in found |-> text[p]]
    /\ UNCHANGED <<decision, naming, todo, revoking>>

SourceOf(done) == [p \in Proposals |-> IF p \in done THEN "llm" ELSE source[p]]

\* The rows in done are those the model answered for.
NamerWrite(done) ==
    /\ renaming # None
    /\ done \subseteq DOMAIN renaming
    /\ text' = [p \in Proposals |-> IF p \in done THEN Named(renaming[p])
                                                  ELSE text[p]]
    /\ source' = SourceOf(done)
    /\ renaming' = None
    /\ UNCHANGED <<decision, todo, revoking>>

-----------------------------------------------------------------------------
(* Policies *)

\* Mutant: the marker a reviewer left is not looked at.
EveryPending(p) == status[p] = "PENDING"

Selectable(p) == status[p] = "PENDING" /\ ~ revoked[p]

\* _pending_proposals; a row marked REVOKED is skipped on what was read here.
EngineStart(e) ==
    /\ todo[e] = {}
    /\ todo' = [todo EXCEPT ![e] = {p \in Proposals : Selectable(p)}]
    /\ UNCHANGED <<decision, naming, renaming, revoking>>

EngineSkip(e, p) ==
    /\ p \in todo[e]
    /\ todo' = [todo EXCEPT ![e] = @ \ {p}]
    /\ UNCHANGED <<decision, naming, renaming, revoking>>

Decide(p, s, by, rev) ==
    /\ status' = [status EXCEPT ![p] = s]
    /\ reviewer' = [reviewer EXCEPT ![p] = by]
    /\ revoked' = [revoked EXCEPT ![p] = rev]

\* _apply_action: UPDATE ... WHERE proposal_id = ?, whatever the row is now.
EngineAct(e, p, s) ==
    /\ p \in todo[e]
    /\ Decide(p, s, "policy", FALSE)
    /\ todo' = [todo EXCEPT ![e] = @ \ {p}]
    /\ UNCHANGED <<naming, renaming, revoking, held>>

\* Mutant: whoever approved the row is not looked at.
AnyApproved(p) == status[p] = "APPROVED"

Revocable(p) == status[p] = "APPROVED" /\ reviewer[p] = "policy"

RevokeRead(r, p) ==
    /\ revoking[r] = None
    /\ Revocable(p)
    /\ revoking' = [revoking EXCEPT ![r] = p]
    /\ UNCHANGED <<decision, naming, todo, renaming>>

RevokeWrite(r) ==
    /\ revoking[r] # None
    /\ Decide(revoking[r], "PENDING", "person", TRUE)
    /\ revoking' = [revoking EXCEPT ![r] = None]
    /\ UNCHANGED <<naming, todo, renaming, held>>

-----------------------------------------------------------------------------
(* Reviewers *)

Holding(p) == {e \in Engines : p \in todo[e]} \cup {r \in Revokers : revoking[r] = p}
Observed(p) == held' = [held EXCEPT ![p] = Holding(p)]

\* record_decision, and reject and merge of log_review: the note is replaced.
\* The caller says who decided, and may say nobody.
RecordDecision(p, s, by) ==
    /\ status[p] # "ABSENT"
    /\ Decide(p, s, by, FALSE)
    /\ Observed(p)
    /\ UNCHANGED <<naming, todo, renaming, revoking>>

\* approve of log_review leaves the review note as it is.
LogApprove(p) ==
    /\ status[p] # "ABSENT"
    /\ Decide(p, "APPROVED", "person", revoked[p])
    /\ Observed(p)
    /\ UNCHANGED <<naming, todo, renaming, revoking>>

Review ==
    \/ \E force \in BOOLEAN : NamerRead(force)
    \/ \E done \in SUBSET Proposals : NamerWrite(done)
    \/ \E e \in Engines, p \in Proposals, s \in Decided : EngineAct(e, p, s)
    \/ \E e \in Engines, p \in Proposals : EngineSkip(e, p)
    \/ \E e \in Engines : EngineStart(e)
    \/ \E r \in Revokers, p \in Proposals : RevokeRead(r, p)
    \/ \E r \in Revokers : RevokeWrite(r)
    \/ \E p \in Proposals, s \in Decided, by \in {"nobody", "person"} :
          RecordDecision(p, s, by)
    \/ \E p \in Proposals : LogApprove(p)

Next ==
    \/ \E m \in SUBSET Proposals : \E new \in [m -> Texts] : Seed(new)
    \/ Review

Spec == Init /\ [][Next]_vars

-----------------------------------------------------------------------------
(* Properties *)

\* The type invariant: the row's columns and what each writer holds
\* of it; a writer only holds rows that exist.
TypeOK ==
    /\ status \in [Proposals -> Status]
    /\ reviewer \in [Proposals -> {"nobody", "person", "policy"}]
    /\ revoked \in [Proposals -> BOOLEAN]
    /\ \A p \in Proposals : IF status[p] = "ABSENT" THEN text[p] = None
                                                    ELSE text[p] \in Text
    /\ source \in [Proposals -> {"auto", "llm"}]
    /\ todo \in [Engines -> SUBSET Proposals]
    /\ renaming = None \/ /\ DOMAIN renaming \subseteq Proposals
                          /\ \A p \in DOMAIN renaming : renaming[p] \in Text
    /\ revoking \in [Revokers -> Proposals \cup {None}]
    /\ held \in [Proposals -> SUBSET (Engines \cup Revokers)]
    /\ \A p \in Proposals :
          \/ \E e \in Engines : p \in todo[e]
          \/ \E r \in Revokers : revoking[r] = p
          \/ renaming # None /\ p \in DOMAIN renaming
          => status[p] # "ABSENT"

\* A title the language model composed is labelled as such, although mining
\* and naming overwrite each other's texts.
LabelledLLM ==
    \A p \in Proposals :
        status[p] # "ABSENT" /\ text[p].named => source[p] = "llm"

\* "re-seeds don't clobber the decision": a decided row returns to PENDING only
\* as a revocation, with its marker, never by a mining run.
NoResurface ==
    [][\A p \in Proposals :
          status[p] \in Decided /\ status'[p] = "PENDING" => revoked'[p]]_vars

\* What a person decided is changed by another person only, or by a policy or a
\* revocation that had read the row before that decision was made: no UPDATE looks
\* at the status again, so these overwrite it, and nothing that starts later does.
DecisionStands ==
    [][\A p \in Proposals :
          /\ status[p] \in Decided /\ reviewer[p] # "policy"
          /\ reviewer'[p] = "policy" \/ status'[p] \notin Decided
          => \/ \E e \in Engines \cap held[p] : p \in todo[e] \ todo'[e]
             \/ \E r \in Revokers \cap held[p] :
                   revoking[r] = p /\ revoking'[r] = None]_vars

\* "once a reviewer revokes, the same policy cannot fire on that proposal
\* again": a row waiting with the REVOKED: marker is next decided by no policy.
\* It needs that one PolicyEngine runs at a time: a second one still holds the
\* row as it was before the revocation.
RevocationStands ==
    [][\A p \in Proposals :
          /\ status[p] = "PENDING" /\ revoked[p]
          /\ status'[p] # status[p] \/ reviewer'[p] # reviewer[p]
          => reviewer'[p] # "policy"]_vars
=============================================================================
