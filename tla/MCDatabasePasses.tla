-------------------------- MODULE MCDatabasePasses --------------------------
(* The passes that clean the database up, each kind beside its own writers:  *)
(* they share no table, so one behaviour has passes of one kind.             *)
(*                                                                           *)
(* Memory: the nightly daemon and one client that calls consolidate() with   *)
(* its 90 days for both ages; one entity, months for days: 30 days are 0, 90 *)
(* days are 1.  Resolver: two rows that disagree under one priority, one      *)
(* without a method, and a negative value without a name under a lower       *)
(* priority, not all in one window.  Once a pass has started only the last   *)
(* row that fits is still measured, and only while it runs alone may         *)
(* entities change.                                                          *)
EXTENDS AgentMemory, ConflictResolver

CONSTANTS daemon, client, c1, c2

VARIABLE kind

MCAges == [p \in {daemon, client} |-> IF p = daemon THEN 0 ELSE 1]

MCRows == {[method |-> "MEASURED", value |-> 20, at |-> 0, named |-> TRUE],
           [method |-> "MEASURED", value |-> 23, at |-> 299, named |-> TRUE],
           [method |-> None, value |-> 40, at |-> 299, named |-> TRUE],
           [method |-> "SYNTHESIZED", value |-> -5, at |-> 300, named |-> FALSE]}

MCInit ==
  /\ kind \in {"memory", "resolver"}
  /\ Init /\ ResolverInit
  /\ kind = "resolver" => updated

\* Passes that resolve are alike: the first to start may be called c1.
InOrder == job'[c2].at # "new" => job'[c1].at # "new"

Calm ==
  (\E p \in Resolvers : job[p].at # "new") =>
    /\ kpi' # kpi => kpi[Size - 1] # None
    /\ broken' # broken => job[c2].at = "new"

MCNext ==
  /\ UNCHANGED kind
  /\ \/ kind = "memory" /\ Next /\ UNCHANGED resolverVars
     \/ kind = "resolver" /\ ResolverNext /\ InOrder /\ Calm /\ UNCHANGED vars

MCSpec ==
  /\ MCInit
  /\ [][MCNext]_<<vars, resolverVars, kind>>
  /\ \A p \in Scheduled : /\ WF_vars(kind = "memory" /\ Begin(p))
                          /\ WF_vars(kind = "memory" /\ Work(p))
=============================================================================
