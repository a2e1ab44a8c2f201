----------------------------- MODULE Evolution ------------------------------
(***************************************************************************)
(* The evolution monitor (src/src/evolution_monitor.py) beside everything  *)
(* else that writes the table of proposals.  A run, from the command line or from               *)
(* /api/evolve/run, takes one strategy after the other: it selects the     *)
(* candidates with enough evidence, looks for a waiting row with the same  *)
(* title, and inserts a row where there is none.  The strategy's first     *)
(* INSERT takes the write lock, which it keeps until it has handled all    *)
(* its candidates; up to there every check is a statement of its own.      *)
(* Then the scorer (src/src/evolution_scorer.py) writes scores.            *)
(*                                                                         *)
(* A row the monitor inserts is to the rest of the table what a row a      *)
(* mining run inserts is (ProposalReview!Seed), with a fresh id: every     *)
(* step here is one of ProposalReview or leaves its variables alone.       *)
(*                                                                         *)
(* Abstractions: a candidate is its title, which the strategies never      *)
(* share; its evidence (rejected records, observations, the CSV of log     *)
(* discovery) is any at all; the scores are left out.                      *)
(***************************************************************************)
EXTENDS ProposalReview

CONSTANTS Mined,       \* ids that mining runs use; the others are uuids
          Candidates,  \* titles the monitor composes; the others are mining's
          Strategies,  \* the four detection strategies
          Monitors,    \* monitor runs that may overlap
          StrategyOf(_)

ASSUME MinedAssumption == Mined \subseteq Proposals
ASSUME CandidatesAssumption == Candidates \subseteq Texts

VARIABLE
    mon  \* what each run has to do, or None

evars == <<vars, mon>>

NewRun(ss) == [left |-> ss, found |-> {}, chosen |-> None]

EInit ==
    /\ Init
    /\ mon = [m \in Monitors |-> None]

-----------------------------------------------------------------------------
(* The monitor *)

\* run_all, or one strategy; a name that is none of the four finds nothing.
MonitorStart(m, ss) ==
    /\ mon[m] = None
    /\ ss \in {Strategies, {}} \cup {{s} : s \in Strategies}
    /\ mon' = [mon EXCEPT ![m] = NewRun(ss)]
    /\ UNCHANGED vars

Between(m) == mon[m] # None /\ mon[m].found = {} /\ mon[m].chosen = None

\* The GROUP BY ... HAVING COUNT(*) >= ? of a strategy; nothing when the table
\* or the file it reads is missing.
Detect(m, s, found) ==
    /\ Between(m)
    /\ s \in mon[m].left
    /\ \A c \in found : StrategyOf(c) = s
    /\ mon' = [mon EXCEPT ![m].left = @ \ {s}, ![m].found = found]
    /\ UNCHANGED vars

\* Mutant: a candidate is taken for known only when it was approved.
ApprovedTwin(c) ==
    \E p \in Proposals : status[p] = "APPROVED" /\ text[p].base = c

\* _insert_proposal looks for the title: a row the namer retitled, or one that
\* was decided, is no twin.
Twin(c) ==
    \E p \in Proposals :
        status[p] = "PENDING" /\ text[p] = [base |-> c, named |-> FALSE]

Check(m, c) ==
    /\ mon[m] # None
    /\ mon[m].chosen = None
    /\ c \in mon[m].found
    /\ mon' = [mon EXCEPT ![m].found = @ \ {c},
                          ![m].chosen = IF Twin(c) THEN None ELSE c]
    /\ UNCHANGED vars

\* The first INSERT, which looks at nothing any more, and with the lock it
\* takes the checks and INSERTs of all that is left, up to the commit.
Insert(m, new) ==
    /\ mon[m] # None
    /\ mon[m].chosen # None
    /\ \A p \in DOMAIN new : p \notin Mined /\ status[p] = "ABSENT"
    /\ \A p, q \in DOMAIN new : new[p] = new[q] => p = q
    /\ {new[p] : p \in DOMAIN new}
          = {mon[m].chosen} \cup {c \in mon[m].found : ~ Twin(c)}
    /\ Seed(new)
    /\ mon' = [mon EXCEPT ![m].found = {}, ![m].chosen = None]

\* "database is locked": the strategy warns and the run goes on without it.
InsertFails(m) ==
    /\ mon[m] # None
    /\ mon[m].chosen # None
    /\ mon' = [mon EXCEPT ![m].found = {}, ![m].chosen = None]
    /\ UNCHANGED vars

\* score_pending: it rewrites the score columns of the waiting rows, which the
\* verdicts of the policies stand for, and the run is over; also when it fails.
MonitorEnd(m) ==
    /\ Between(m)
    /\ mon[m].left = {}
    /\ mon' = [mon EXCEPT ![m] = None]
    /\ UNCHANGED vars

MonitorNext(m) ==
    \/ \E ss \in SUBSET Strategies : MonitorStart(m, ss)
    \/ \E s \in Strategies, found \in SUBSET Candidates : Detect(m, s, found)
    \/ \E c \in Candidates : Check(m, c)
    \/ \E rows \in SUBSET (Proposals \ Mined) :
          \E new \in [rows -> Candidates] : Insert(m, new)
    \/ InsertFails(m)
    \/ MonitorEnd(m)

ENext ==
    \/ \E rows \in SUBSET Mined : \E new \in [rows -> Texts \ Candidates] :
          Seed(new) /\ UNCHANGED mon
    \/ Review /\ UNCHANGED mon
    \/ \E m \in Monitors : MonitorNext(m)

ESpec == EInit /\ [][ENext]_evars

-----------------------------------------------------------------------------
(* Properties *)

\* "Insert a proposal if no identical one already exists": of two rows that
\* wait under the title of one candidate, a reviewer sent one back by revoking
\* a policy's approval.  It needs that one monitor runs at a time: a second one
\* inserts between the check and the INSERT of the first.
OneWaitingCopy ==
    \A p, q \in Proposals :
        /\ p # q
        /\ status[p] = "PENDING" /\ status[q] = "PENDING"
        /\ text[p] = text[q]
        /\ text[p].base \in Candidates /\ ~ text[p].named
        => revoked[p] \/ revoked[q]
=============================================================================
