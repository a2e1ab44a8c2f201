----------------------------- MODULE AtomicApply -----------------------------
(***************************************************************************)
(* What docs/advanced.md section 11.5 and the docstring of apply_approved  *)
(* promise of the evolution pipeline when one caller uses it: applying a   *)
(* proposal is one atomic step.  Either the axiom is published, with its   *)
(* version and its ledger row, or nothing is visible of the attempt.       *)
(* Applying a proposal that is published already runs the gates again: it  *)
(* is recorded once more, or it is withdrawn with what was built on it.    *)
(***************************************************************************)
EXTENDS Naturals, Sequences

CONSTANTS Proposals, Targets, None

VARIABLES approvedEver,  \* proposals approved at some time
          live,          \* published proposals, oldest first
          version,       \* MINOR number of the published ontology
          ledger         \* recorded releases

vars == <<approvedEver, live, version, ledger>>

Init == /\ approvedEver = {}
        /\ live = << >>
        /\ version = 0
        /\ ledger = {}

Published(p) == \E i \in DOMAIN live : live[i] = p

\* The version a release gets: the reviewer's, or the next MINOR.
Release(w) == IF w = None THEN version + 1 ELSE w

\* A release is recorded under its version, unless that version is recorded.
Record(p, w) ==
    \E r, s \in {"PASS", "SKIPPED"} :
        ledger' = IF \E x \in ledger : x.version = Release(w)
                  THEN ledger
                  ELSE ledger \cup {[version |-> Release(w), parent |-> version,
                                     proposal |-> p, reasoner |-> r,
                                     sparql |-> s]}

Approve(p) == /\ approvedEver' = approvedEver \cup {p}
              /\ UNCHANGED <<live, version, ledger>>

Publish(p, w) ==
    /\ p \in approvedEver
    /\ ~ Published(p)
    /\ live' = Append(live, p)
    /\ version' = Release(w)
    /\ Record(p, w)
    /\ UNCHANGED approvedEver

Reaffirm(p, w) ==
    /\ Published(p)
    /\ Record(p, w)
    /\ UNCHANGED <<approvedEver, live, version>>

Withdraw(p) ==
    /\ \E i \in DOMAIN live : live[i] = p /\ live' = SubSeq(live, 1, i - 1)
    /\ UNCHANGED <<approvedEver, version, ledger>>

Next == \E p \in Proposals :
            \/ Approve(p)
            \/ Withdraw(p)
            \/ \E w \in Targets \cup {None} : Publish(p, w) \/ Reaffirm(p, w)

Spec == Init /\ [][Next]_vars
=============================================================================
