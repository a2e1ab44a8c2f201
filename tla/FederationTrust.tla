-------------------------- MODULE FederationTrust --------------------------
(***************************************************************************)
(* Trust between federated enterprises: the partner registry with its two  *)
(* back-ends (src/federation/partner_registry.py), the steps that move a   *)
(* partner along the trust ladder and the ledger they append to            *)
(* (src/federation/trust.py), and the router's decision to query a partner *)
(* (src/federation/router.py).                                             *)
(*                                                                         *)
(* Operators are processes, or threads, that call these functions on one   *)
(* database and one JSON file.  A call is a sequence of transactions and   *)
(* file operations, and nothing holds a lock across them: it commits the   *)
(* partner's row, loads the JSON file, opens it for writing, which         *)
(* truncates it, fills it, and then commits a row of the ledger.           *)
(*                                                                         *)
(* Abstractions: of a partner only its state and its valid_until are kept, *)
(* and of valid_until only whether it has passed; signing and verifying a  *)
(* manifest succeed or fail; of the ledger, the kinds of rows a partner    *)
(* has.  The JSON file holds a trust_state per partner.                    *)
(* Entries of the committed JSON file for partners that no row names are   *)
(* carried along unchanged by every save, and left out: the model starts   *)
(* with an empty file.                                                     *)
(***************************************************************************)
EXTENDS Naturals

CONSTANTS Partners,   \* partner ids; partner_iri is as good a key
          Operators,  \* concurrent callers
          None,       \* NULL
          MayCrash,   \* whether a call may be cut short
          MaxCalls    \* bound of the model: calls ever made

State == {"PROPOSED", "HANDSHAKE_SENT", "COUNTERSIGNED", "ACTIVE", "EXPIRED",
          "REVOKED"}
Event == {"MANIFEST_SENT", "MANIFEST_RECEIVED", "COUNTERSIGNED", "ACTIVATED",
          "TEST_QUERY", "EXPIRED"}
Until == {None, "ahead", "passed"}

ASSUME NoneIsNothing ==
    /\ None \notin Partners
    /\ None \notin State
    /\ None \notin Event
    /\ None \notin {"ahead", "passed"}
ASSUME MaxCallsNat == MaxCalls \in Nat

VARIABLES
    state,    \* trust_state of a partner's row, "ABSENT" if there is no row
    until,    \* valid_until
    mirror,   \* trust_state of a partner's entry in the JSON registry
    form,     \* of the JSON file: "whole", "truncated", or "garbled"
    ledger,   \* kinds of rows each partner has in federation_trust_ledger
    job,      \* where each operator's call stands
    asked,    \* partners the router has a query under way to
    reached,  \* every state a partner has been in, for an observer
    barred,   \* partners of which no manifest has verified since they were
              \* revoked, idem
    calls     \* calls made, for MaxCalls

vars == <<state, until, mirror, form, ledger, job, asked, reached, barred, calls>>
row == <<state, until, reached, barred>>
file == <<mirror, form>>

\* A call between two of its steps: the partner and the state it moves to, the
\* row it will append to the ledger, the contents it loaded from the file, and
\* the partners expire_overdue still has to look at.
Job == [at : {"idle", "activate", "expire", "load", "open", "fill", "append"},
        partner : Partners \cup {None}, to : State \cup {None},
        event : Event \cup {None},
        doc : [Partners -> State \cup {"ABSENT"}], rest : SUBSET Partners]

Empty == [p \in Partners |-> "ABSENT"]
Idle == [at |-> "idle", partner |-> None, to |-> None, event |-> None,
         doc |-> Empty, rest |-> {}]

Init ==
    /\ state = Empty
    /\ until = [p \in Partners |-> None]
    /\ mirror = Empty
    /\ form = "whole"
    /\ ledger = [p \in Partners |-> {}]
    /\ job = [o \in Operators |-> Idle]
    /\ asked = {}
    /\ reached = [p \in Partners |-> {}]
    /\ barred = {}
    /\ calls = 0

-----------------------------------------------------------------------------
(* Steps that calls share *)

\* An operator that is between two calls makes another one.
Call(o) ==
    /\ job[o] = Idle
    /\ calls < MaxCalls
    /\ calls' = calls + 1

\* The UPDATE of update_trust_state, committed, and what follows it.
MoveTo(o, p, s, u, e, rest) ==
    /\ state' = [state EXCEPT ![p] = s]
    /\ until' = [until EXCEPT ![p] = IF u = None THEN @ ELSE u]
    /\ reached' = [reached EXCEPT ![p] = @ \cup {s}]
    /\ barred' = IF s = "REVOKED" THEN barred \cup {p}
                 ELSE IF s = "COUNTERSIGNED" THEN barred \ {p} ELSE barred
    /\ job' = [job EXCEPT ![o] = [at |-> "load", partner |-> p, to |-> s,
                                  event |-> e, doc |-> Empty, rest |-> rest]]

\* _load_json_registry; json.load raises when the file cannot be parsed, and
\* the call ends there.
Load(o) ==
    /\ job[o].at = "load"
    /\ job' = [job EXCEPT ![o] = IF form = "whole"
                                 THEN [@ EXCEPT !.at = "open", !.doc = mirror]
                                 ELSE Idle]
    /\ UNCHANGED <<row, file, ledger, asked, calls>>

\* open(path, "w") of _save_json_registry.
Open(o) ==
    /\ job[o].at = "open"
    /\ mirror' = Empty
    /\ form' = "truncated"
    /\ job' = [job EXCEPT ![o].at = "fill"]
    /\ UNCHANGED <<row, ledger, asked, calls>>

\* register_partner adds the entry, update_trust_state only changes one that
\* is there.
Updated(d, p, s, new) ==
    IF new \/ d[p] # "ABSENT" THEN [d EXCEPT ![p] = s] ELSE d

\* What a call has left to do once the file is saved: its ledger row, if it
\* appends one, and for expire_overdue the rest of its list.
Later(j) ==
    IF j.event # None THEN [j EXCEPT !.at = "append", !.doc = Empty] ELSE Idle

\* json.dump into the opened file.  Over a file that another call has filled
\* in the meantime the result need not parse.
Fill(o) ==
    /\ job[o].at = "fill"
    /\ \/ /\ mirror' = Updated(job[o].doc, job[o].partner, job[o].to,
                               job[o].to = "PROPOSED")
          /\ form' = "whole"
       \/ /\ form # "truncated"
          /\ mirror' = Empty
          /\ form' = "garbled"
    /\ job' = [job EXCEPT ![o] = Later(@)]
    /\ UNCHANGED <<row, ledger, asked, calls>>

\* _ledger_append, in a transaction of its own.
AppendLedger(o) ==
    /\ job[o].at = "append"
    /\ ledger' = [ledger EXCEPT ![job[o].partner] = @ \cup {job[o].event}]
    /\ job' = [job EXCEPT ![o] = IF job[o].rest = {} THEN Idle
                                 ELSE [Idle EXCEPT !.at = "expire",
                                                   !.rest = job[o].rest]]
    /\ UNCHANGED <<row, file, asked, calls>>

\* The process ends, or an exception leaves the call, between two steps.
Crash(o) ==
    /\ MayCrash
    /\ job[o] # Idle
    /\ job' = [job EXCEPT ![o] = Idle]
    /\ UNCHANGED <<row, file, ledger, asked, calls>>

-----------------------------------------------------------------------------
(* The calls *)

\* register_partner: an existing row is updated, all but its trust_state; the
\* JSON entry is replaced by one that says PROPOSED.
RegisterPartner(o, p, u) ==
    /\ Call(o)
    /\ state' = [state EXCEPT ![p] = IF @ = "ABSENT" THEN "PROPOSED" ELSE @]
    /\ until' = [until EXCEPT ![p] = u]
    /\ reached' = [reached EXCEPT ![p] = @ \cup {state'[p]}]
    /\ job' = [job EXCEPT ![o] = [Idle EXCEPT !.at = "load", !.partner = p,
                                              !.to = "PROPOSED"]]
    /\ UNCHANGED <<barred, file, ledger, asked>>

Handshake(o, p) ==
    /\ Call(o)
    /\ state[p] # "ABSENT"
    /\ MoveTo(o, p, "HANDSHAKE_SENT", None, "MANIFEST_SENT", {})
    /\ UNCHANGED <<file, ledger, asked>>

\* Mutant: the row is written before the manifest has been verified.
Countersigned == "COUNTERSIGNED"

Received == "MANIFEST_RECEIVED"

\* The manifest did not verify: nothing but a ledger row.
Refuse(o, p) ==
    /\ job' = [job EXCEPT ![o] = [Idle EXCEPT !.at = "append", !.partner = p,
                                              !.event = Received]]
    /\ UNCHANGED row

\* countersign; verify_manifest refuses a manifest whose validUntil has passed.
Countersign(o, p, u) ==
    /\ Call(o)
    /\ state[p] # "ABSENT"
    /\ \/ Refuse(o, p)
       \/ /\ u # "passed"
          /\ MoveTo(o, p, "COUNTERSIGNED", u, "COUNTERSIGNED", {})
    /\ UNCHANGED <<file, ledger, asked>>

\* Mutant: activates whatever the partner's state.
Known(p) == state[p] # "ABSENT"

\* Mutant: looks for a countersignature among the partner's ledger rows instead
\* of at its state.
OnceCountersigned(p) == "COUNTERSIGNED" \in ledger[p]

Activatable(p) == state[p] \in {"COUNTERSIGNED", "ACTIVE"}

\* activate reads the partner's row, and looks at its state, in one connection
ActivateRead(o, p) ==
    /\ Call(o)
    /\ Activatable(p)
    /\ job' = [job EXCEPT ![o] = [Idle EXCEPT !.at = "activate",
                                              !.partner = p]]
    /\ UNCHANGED <<row, file, ledger, asked>>

\* ... and updates it in another.
ActivateWrite(o) ==
    /\ job[o].at = "activate"
    /\ MoveTo(o, job[o].partner, "ACTIVE", None, "ACTIVATED", {})
    /\ UNCHANGED <<file, ledger, asked, calls>>

\* run_test_query renders a query and leaves a ledger row.
RunTestQuery(o, p) ==
    /\ Call(o)
    /\ state[p] # "ABSENT"
    /\ job' = [job EXCEPT ![o] = [Idle EXCEPT !.at = "append", !.partner = p,
                                              !.event = "TEST_QUERY"]]
    /\ UNCHANGED <<row, file, ledger, asked>>

\* expire_overdue lists the ACTIVE partners once ...
ExpireRead(o) ==
    /\ Call(o)
    /\ LET overdue == {p \in Partners : state[p] = "ACTIVE"
                                        /\ until[p] = "passed"}
       IN  /\ overdue # {}
           /\ job' = [job EXCEPT ![o] = [Idle EXCEPT !.at = "expire",
                                                     !.rest = overdue]]
    /\ UNCHANGED <<row, file, ledger, asked>>

\* ... and moves them one after the other.
ExpireWrite(o, p) ==
    /\ job[o].at = "expire"
    /\ p \in job[o].rest
    /\ MoveTo(o, p, "EXPIRED", None, "EXPIRED", job[o].rest \ {p})
    /\ UNCHANGED <<file, ledger, asked, calls>>

\* revoke_partner: no ledger row.  (A partner_id no row has changes nothing.)
RevokePartner(o, p) ==
    /\ Call(o)
    /\ state[p] # "ABSENT"
    /\ MoveTo(o, p, "REVOKED", None, None, {})
    /\ UNCHANGED <<file, ledger, asked>>

-----------------------------------------------------------------------------
(* The router, and time *)

\* route_federated_query resolves the endpoint to a row, reads its state and
\* sends the query; any other state is a rejection.
Query(p) ==
    /\ p \notin asked
    /\ state[p] = "ACTIVE"
    /\ asked' = asked \cup {p}
    /\ UNCHANGED <<row, file, ledger, job, calls>>

Answer(p) ==
    /\ p \in asked
    /\ asked' = asked \ {p}
    /\ UNCHANGED <<row, file, ledger, job, calls>>

\* A partner's valid_until goes by.
Elapse(p) ==
    /\ until[p] = "ahead"
    /\ until' = [until EXCEPT ![p] = "passed"]
    /\ UNCHANGED <<state, reached, barred, file, ledger, job, asked, calls>>

Next ==
    \/ \E o \in Operators :
          \/ Load(o) \/ Open(o) \/ Fill(o) \/ AppendLedger(o) \/ Crash(o)
          \/ ActivateWrite(o) \/ ExpireRead(o)
          \/ \E p \in Partners :
                \/ Handshake(o, p) \/ ActivateRead(o, p) \/ RunTestQuery(o, p)
                \/ ExpireWrite(o, p) \/ RevokePartner(o, p)
          \/ \E p \in Partners, u \in Until :
                RegisterPartner(o, p, u) \/ Countersign(o, p, u)
    \/ \E p \in Partners : Query(p) \/ Answer(p) \/ Elapse(p)

Spec == Init /\ [][Next]_vars

-----------------------------------------------------------------------------
(* Properties *)

\* The type invariant.
TypeOK ==
    /\ state \in [Partners -> State \cup {"ABSENT"}]
    /\ until \in [Partners -> Until]
    /\ mirror \in [Partners -> State \cup {"ABSENT"}]
    /\ form \in {"whole", "truncated", "garbled"}
    /\ ledger \in [Partners -> SUBSET Event]
    /\ job \in [Operators -> Job]
    /\ asked \subseteq Partners
    /\ reached \in [Partners -> SUBSET State]
    /\ barred \subseteq Partners
    /\ calls \in Nat

\* "promote COUNTERSIGNED -> ACTIVE": no partner is queried unless a manifest
\* given to countersign for it has verified before, whatever calls overlapped
\* or were cut short.  (verify_manifest takes the key from the manifest itself:
\* that it is the key the partner registered, nothing in the code says.)
QueriedOnceVerified ==
    \A p \in asked : "COUNTERSIGNED" \in reached[p]

\* A row of the ledger is never ahead of the registry: the transition it
\* records has been committed, even if calls overlap or are cut short.
LedgerTruthful ==
    \A p \in Partners :
        /\ "MANIFEST_SENT" \in ledger[p] => "HANDSHAKE_SENT" \in reached[p]
        /\ "COUNTERSIGNED" \in ledger[p] => "COUNTERSIGNED" \in reached[p]
        /\ "ACTIVATED" \in ledger[p] => "ACTIVE" \in reached[p]
        /\ "EXPIRED" \in ledger[p] => "EXPIRED" \in reached[p]

\* The JSON registry may lag behind the table, lose an entry or be spoilt, but
\* it never gives a partner a state the partner has not been in.
MirrorReached ==
    \A p \in Partners :
        mirror[p] \in reached[p] \cup {"PROPOSED", "ABSENT"}

\* No activate of the partner stands between its two connections, and the
\* partner is not ACTIVE.
Quiescent(p) ==
    /\ state[p] # "ACTIVE"
    /\ \A o \in Operators : ~ (job[o].at = "activate" /\ job[o].partner = p)

\* A revocation that no activate overlaps is final: however many operators
\* call whatever they like, new handshakes included, and die where they may,
\* the partner does not become ACTIVE, nor about to be, before countersign has
\* verified another manifest for it (revoke_partner, handshake, activate).
RevocationFinal ==
    [][\A p \in Partners :
          p \in barred /\ p \in barred' /\ Quiescent(p) => Quiescent(p)']_vars

\* "Immediately revoke trust with a partner.  All future queries are denied.":
\* a revoked partner is not queried again before it is countersigned anew.  A
\* call of activate that has read the row before the revocation sets the
\* partner ACTIVE after it, so this takes a single operator.
RevocationDenies ==
    [][\A p \in Partners : p \in asked' \ asked => p \notin barred]_vars
=============================================================================
