----------------------------- MODULE SerialApply -----------------------------
(***************************************************************************)
(* VersionedApply, once in general and once as used by one caller at a     *)
(* time, with no regeneration, no fault and version targets that are       *)
(* numbers: then it implements AtomicApply.  (After a target that is no    *)
(* number a rollback does not find the version lines again, and a refused  *)
(* change leaves them behind.)                                             *)
(*                                                                         *)
(* While the caller is between the write of a new block and the verdict on *)
(* it, what is published is what the file held before: its text without    *)
(* the last block, under the version the caller read.                      *)
(***************************************************************************)
EXTENDS VersionedApply

CONSTANT MaxShared  \* bound: calls of apply_approved when they may overlap

ASSUME SharedOK == MaxShared \in Nat

VARIABLE serial     \* whether this behaviour is one of a serial caller

svars == <<vars, serial>>

SerialInit == Init /\ serial \in BOOLEAN

Alone(a) == \A b \in Appliers \ {a} : pc[b] = "idle"

Numbers == Targets \cap Nat

NumericTargets == \A p \in Proposals : target[p] \in Numbers \cup {None}

\* Other behaviours have two callers, or one to whom a reviewer gave a target
\* that is no number.
Shared ==
    /\ applies <= MaxShared
    /\ \A p \in Proposals : target[p] \notin Numbers
    /\ (\E p \in Proposals : target[p] # None)
       => gen = "idle" /\ \A a \in Appliers : pc[a] # "idle" => Alone(a)

SerialNext ==
    /\ UNCHANGED serial
    /\ \/ /\ serial
          /\ Decide \/ \E a \in Appliers : Alone(a) /\ Work(a)
          /\ NumericTargets'
       \/ /\ ~ serial
          /\ Next
          /\ Shared'

SerialSpec == SerialInit /\ [][SerialNext]_svars

-----------------------------------------------------------------------------

Writing(a) == pc[a] \in {"fill", "reason", "cq", "ledger", "rbread"}

RollingBack(a) == pc[a] \in {"rbtruncate", "rbfill"}

\* a wrote, or is writing, a block that was not in the file before.
Tentative(a) == Writing(a) /\ ~ job[a].dry /\ job[a].buf.blocks # << >>

Front(s) == SubSeq(s, 1, Len(s) - 1)

livePublished ==
    IF \E a \in Appliers : Tentative(a)
    THEN Front(job[CHOOSE a \in Appliers : Tentative(a)].buf.blocks)
    ELSE IF \E a \in Appliers : RollingBack(a)
    THEN job[CHOOSE a \in Appliers : RollingBack(a)].buf.blocks
    ELSE file.blocks

versionPublished ==
    IF \E a \in Appliers : Tentative(a) \/ RollingBack(a)
    THEN job[CHOOSE a \in Appliers : Tentative(a) \/ RollingBack(a)].old
    ELSE VersionOf(file)

\* Of the other behaviours AtomicApply sees nothing.
Atomic == INSTANCE AtomicApply WITH
              Targets <- Numbers,
              live <- IF serial THEN livePublished ELSE << >>,
              version <- IF serial THEN versionPublished ELSE 0,
              approvedEver <- IF serial THEN approvedEver ELSE {},
              ledger <- IF serial THEN ledger ELSE {}

\* A serial caller's apply is all or nothing as long as the reviewers' version
\* targets are numbers: every such behaviour of the code is a behaviour of the
\* atomic specification.
ImplementsAtomicApply == Atomic!Spec
=============================================================================
