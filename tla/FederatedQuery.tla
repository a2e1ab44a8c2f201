---------------------------- MODULE FederatedQuery ----------------------------
(***************************************************************************)
(* Queries across enterprises: route_federated_query                       *)
(* (src/federation/router.py) and the gate every answer passes             *)
(* (src/federation/boundary.py), while operators go on registering,        *)
(* activating and revoking the partners it asks.                           *)
(*                                                                         *)
(* For each SERVICE clause the router reads the partner's row, decides,    *)
(* sends the query, checks the answer against the agreement of the row it  *)
(* has read, proposes a tightening if rows were rejected, and logs.  These *)
(* are transactions of their own, and an answer may take ten seconds.      *)
(*                                                                         *)
(* Abstractions: of a result row, what the gate looks at; of a query, its  *)
(* SERVICE clauses and whether it has a WHERE block to put the filter in.  *)
(* Every step of this module is one of FederationTrust or leaves its       *)
(* variables alone, which the proofs show.                                 *)
(***************************************************************************)
EXTENDS FederationTrust, Sequences, FiniteSets

CONSTANTS Routers,     \* threads that route a query
          Endpoints,
          EndpointOf,  \* sparql_endpoint of each partner
          Classes,
          Offers,      \* agreements a registration may declare
          Queries,     \* queries that may be routed
          Replies,     \* sets of rows a partner, or a fixture, may answer with
          MaxQueries,  \* bound of the model: queries ever routed
          Casts        \* bound of the model: those who act at all, the partners
                       \* they deal with, and the offers these may make

VARIABLES
    agreement,  \* exposed_classes and max_shareable_tier of a partner's row
    request,    \* the query of each router, None between queries
    queries,    \* queries routed so far
    querylog,   \* federation_query_log
    losses,     \* rows of semantic_loss_log
    proposals,  \* proposals escalate_to_governance has made
    inForce,    \* history: agreements of partners while they were ACTIVE
    cast        \* who acts

routerVars == <<request, queries, querylog, losses, proposals>>
fvars == <<vars, agreement, routerVars, inForce, cast>>

Tier == {"Public", "Internal", "Confidential", "Restricted"}
Agreement == [classes : SUBSET Classes, max : Tier]

\* "unlabelled" is any tier the gate does not know; "binding" is a value as
\* SPARQL JSON gives it, a dictionary.  "agent" are the partners whose IRI
\* occurs in the row's attribution.
ResultRow == [class : Classes \cup {None, "binding"},
              tier : Tier \cup {"unlabelled", "binding"},
              agent : SUBSET Partners]

\* "flavor" is the tier of the requesting flavor, "unknown" if it has no file.
Routed == [services : Seq(Endpoints), where : BOOLEAN,
           flavor : Tier \cup {None, "unknown"}]

ASSUME FederatedAssumption ==
    /\ EndpointOf \in [Partners -> Endpoints]
    /\ Offers \subseteq Agreement
    /\ Queries \subseteq Routed
    /\ Replies \subseteq SUBSET ResultRow
    /\ MaxQueries \in Nat
    /\ Casts \subseteq SUBSET (Operators \cup Routers \cup Partners \cup Offers)

Request == [at : {"resolve", "dispatch", "escalate", "log"},
            id : Nat, query : Routed, rest : Seq(Endpoints),
            partner : Partners \cup {None}, agreed : Agreement,
            filter : SUBSET Tier, accepted : SUBSET ResultRow, violations : Nat,
            results : SUBSET (Endpoints \X Partners \X ResultRow),
            rejections : SUBSET Endpoints]

NoAgreement == [classes |-> {}, max |-> "Internal"]

FInit ==
    /\ Init
    /\ agreement = [p \in Partners |-> NoAgreement]
    /\ request = [r \in Routers |-> None]
    /\ queries = 0
    /\ querylog = {}
    /\ losses = 0
    /\ proposals = 0
    /\ inForce = {}
    /\ cast \in Casts

At(r, at) == request[r] # None /\ request[r].at = at

\* Partners the routers have a query under way to.
Asking(req) == {req[r].partner : r \in {s \in Routers : req[s] # None
                                                        /\ req[s].at = "dispatch"}}

Goto(r, next) ==
    /\ request' = [request EXCEPT ![r] = next]
    /\ asked' = Asking(request')

\* What a router's step leaves alone.
OfOthers == UNCHANGED <<row, file, ledger, job, calls, agreement, cast>>

-----------------------------------------------------------------------------
(* The gates *)

\* _TIER_RANK.get(tier, 1).
Rank(tier) ==
    CASE tier = "Public" -> 0
      [] tier = "Confidential" -> 2
      [] tier = "Restricted" -> 3
      [] OTHER -> 1

\* _check_flavor_access.
MayAsk(flavor, agreed) ==
    \/ flavor = None
    \/ flavor \in Tier /\ Rank(flavor) <= Rank(agreed.max)

\* rewrite_with_sensitivity_filter: the tiers the query asks for, all of them
\* if it has no WHERE block.
Filter(query, agreed) ==
    IF query.where THEN {t \in Tier : t # "Restricted" /\ Rank(t) <= Rank(agreed.max)}
                   ELSE Tier

\* Mutant: a partner that declares no classes exposes all of them.
WhitelistedOrOpen(class, classes) ==
    class # None /\ (classes = {} \/ class \in classes)

\* _class_in_whitelist.
Whitelisted(class, classes) == class \in classes

\* The rules a row breaks.
Broken(x, p, agreed) ==
    {rule \in {"RESTRICTED_TIER_BLOCKED", "TIER_EXCEEDS_AGREEMENT",
               "CLASS_NOT_WHITELISTED", "PROV_MISMATCH"} :
       CASE rule = "RESTRICTED_TIER_BLOCKED" -> x.tier = "Restricted"
         [] rule = "TIER_EXCEEDS_AGREEMENT" ->
              x.tier # "Restricted" /\ Rank(x.tier) > Rank(agreed.max)
         [] rule = "CLASS_NOT_WHITELISTED" -> ~ Whitelisted(x.class, agreed.classes)
         [] OTHER -> p \notin x.agent}

\* A dictionary is not hashable: it has no rank, nor is it looked up in a set,
\* unless that is empty.
Unhashable(x, agreed) ==
    \/ x.tier = "binding"
    \/ x.class = "binding" /\ agreed.classes # {}

-----------------------------------------------------------------------------
(* The router *)

\* _log_query: one row for each endpoint, all under the query's id, which is
\* UNIQUE; a database that is locked is ignored, a row that is there raises.
Loggable(id) == \A l \in querylog : l.id # id

LogRow(id, partner, accepted, violations) ==
    [id |-> id, partner |-> partner, accepted |-> accepted, violations |-> violations]

Route(r, query) ==
    /\ r \in cast
    /\ request[r] = None
    /\ queries < MaxQueries
    /\ queries' = queries + 1
    /\ IF query.services = << >>
       THEN /\ querylog' \in {querylog, querylog \cup {LogRow(queries, None, 0, 0)}}
            /\ UNCHANGED <<request, asked>>
       ELSE /\ Goto(r, [at |-> "resolve", id |-> queries, query |-> query,
                        rest |-> query.services, partner |-> None,
                        agreed |-> NoAgreement, filter |-> {}, accepted |-> {},
                        violations |-> 0, results |-> {}, rejections |-> {}])
            /\ UNCHANGED querylog
    /\ UNCHANGED <<losses, proposals>>
    /\ OfOthers

\* The rows _resolve_partner finds for an endpoint; it takes the one that was
\* registered last, which the model leaves open.
Resolved(endpoint) == {p \in Partners : state[p] # "ABSENT" /\ EndpointOf[p] = endpoint}

Refusal(t, p) == [t EXCEPT !.at = "log", !.partner = p, !.accepted = {},
                           !.violations = 0, !.rejections = @ \cup {Head(t.rest)}]

Unregistered(r) ==
    /\ At(r, "resolve")
    /\ Resolved(Head(request[r].rest)) = {}
    /\ Goto(r, Refusal(request[r], None))
    /\ UNCHANGED <<queries, querylog, losses, proposals>>
    /\ OfOthers

Active(p) == state[p] = "ACTIVE"

Resolve(r) ==
    /\ At(r, "resolve")
    /\ \E p \in Resolved(Head(request[r].rest)) :
         Goto(r, IF Active(p) /\ MayAsk(request[r].query.flavor, agreement[p])
                 THEN [request[r] EXCEPT
                         !.at = "dispatch", !.partner = p, !.agreed = agreement[p],
                         !.filter = Filter(request[r].query, agreement[p])]
                 ELSE Refusal(request[r], p))
    /\ UNCHANGED <<queries, querylog, losses, proposals>>
    /\ OfOthers

\* The violations validate_federated_results finds.
Violations(rows, p, agreed) ==
    UNION {{x} \X Broken(x, p, agreed) : x \in rows}

\* _http_dispatch gives no rows when anything fails.  The gate checks them
\* against the agreement of the row that was read before, and writes a row of
\* semantic_loss_log for each violation, if it can.
Dispatch(r, rows) ==
    /\ At(r, "dispatch")
    /\ LET t == request[r]
           violations == Violations(rows, t.partner, t.agreed)
       IN  /\ \A x \in rows : ~ Unhashable(x, t.agreed)
           /\ Goto(r, [t EXCEPT
                         !.at = IF violations = {} THEN "log" ELSE "escalate",
                         !.accepted = {x \in rows : Broken(x, t.partner, t.agreed) = {}},
                         !.violations = Cardinality(violations)])
           /\ losses' \in losses .. losses + Cardinality(violations)
    /\ UNCHANGED <<queries, querylog, proposals>>
    /\ OfOthers

\* escalate_to_governance: the violations of one call are of one partner.
Escalate(r) ==
    /\ At(r, "escalate")
    /\ proposals' \in {proposals, proposals + 1}
    /\ Goto(r, [request[r] EXCEPT !.at = "log"])
    /\ UNCHANGED <<queries, querylog, losses>>
    /\ OfOthers

\* The rows of an endpoint's answer that the caller gets.
Returned(t) ==
    {<<Head(t.rest), t.partner, x>> : x \in t.accepted}

\* The log row, if the database is not locked, and on to the next endpoint or
\* back to the caller.
LogQuery(r) ==
    /\ At(r, "log")
    /\ LET t == request[r]
           entry == LogRow(t.id, t.partner, Cardinality(t.accepted), t.violations)
           results == t.results \cup Returned(t)
       IN  /\ \/ UNCHANGED querylog
              \/ Loggable(t.id) /\ querylog' = querylog \cup {entry}
           /\ Goto(r, IF Len(t.rest) = 1 THEN None
                      ELSE [t EXCEPT !.at = "resolve", !.rest = Tail(@),
                                     !.results = results])
    /\ UNCHANGED <<queries, losses, proposals>>
    /\ OfOthers

\* An exception or the end of the process: of a row that is in the log, of a
\* value that is not hashable, of a commit that fails.
Raise(r) ==
    /\ request[r] # None
    /\ Goto(r, None)
    /\ UNCHANGED <<queries, querylog, losses, proposals>>
    /\ OfOthers

-----------------------------------------------------------------------------
(* Operators beside the routers *)

\* register_partner writes the agreement too, whatever the partner's state.
Register(o, p, u, a) ==
    /\ RegisterPartner(o, p, u)
    /\ agreement' = [agreement EXCEPT ![p] = a]

Operate(o) ==
    \/ Load(o) \/ Open(o) \/ Fill(o) \/ AppendLedger(o) \/ Crash(o)
    \/ ActivateWrite(o) \/ ExpireRead(o)
    \/ \E p \in cast \cap Partners :
          \/ Handshake(o, p) \/ ActivateRead(o, p) \/ RunTestQuery(o, p)
          \/ ExpireWrite(o, p) \/ RevokePartner(o, p)
          \/ \E u \in Until : Countersign(o, p, u)

Trust ==
    /\ \/ /\ \/ \E o \in cast \cap Operators : Operate(o)
             \/ \E p \in Partners : Elapse(p)
          /\ UNCHANGED agreement
       \/ \E o \in cast \cap Operators, p \in cast \cap Partners, u \in Until,
             a \in cast \cap Offers :
            Register(o, p, u, a)
    /\ UNCHANGED <<routerVars, cast>>

Federate ==
    \E r \in cast \cap Routers :
       \/ \E query \in Queries : Route(r, query)
       \/ Unregistered(r) \/ Resolve(r) \/ Escalate(r) \/ LogQuery(r) \/ Raise(r)
       \/ \E rows \in Replies : Dispatch(r, rows)

\* inForce is history: what a partner's row says while it is ACTIVE.
FNext ==
    /\ Trust \/ Federate
    /\ inForce' = inForce \cup {<<p, agreement'[p]>> :
                                   p \in {q \in Partners : state'[q] = "ACTIVE"}}

FSpec == FInit /\ [][FNext]_fvars

-----------------------------------------------------------------------------
(* Properties *)

Conforms(x, p, a) ==
    /\ x.class \in a.classes
    /\ x.tier \in {"Public", "Internal", "Confidential", "unlabelled"}
    /\ Rank(x.tier) <= Rank(a.max)
    /\ p \in x.agent

\* Whatever operators do between the decision to ask a partner and the check
\* of its answer: every row a query hands back is one its partner had agreed
\* to share, in an agreement that stood while the partner was ACTIVE
\* (route_federated_query, validate_federated_results).
AnswersAgreed ==
    \A r \in Routers : request[r] # None =>
      \A found \in request[r].results \cup
                     (IF request[r].at = "log" THEN Returned(request[r]) ELSE {}) :
         \E a \in Agreement : <<found[2], a>> \in inForce /\ Conforms(found[3], found[2], a)
=============================================================================
