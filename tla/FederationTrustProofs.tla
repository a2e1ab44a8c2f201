----------------------- MODULE FederationTrustProofs -----------------------
(***************************************************************************)
(* Proofs about FederationTrust, for any partners, operators and bound:    *)
(* the type invariant; that only a partner whose manifest was verified is  *)
(* queried; that the ledger and the JSON registry are never ahead of the   *)
(* partner table; and that, with a single operator, a revocation stands.   *)
(***************************************************************************)
EXTENDS FederatedQuery, TLAPS

\* A call in progress knows its partner, and once it has committed a state it
\* knows that one too; only expire_overdue has a list.
Busy ==
    \A o \in Operators :
        /\ job[o].at \in {"activate", "load", "open", "fill", "append"}
           => job[o].partner \in Partners
        /\ job[o].at \in {"load", "open", "fill"} => job[o].to \in State
        /\ job[o].at = "append" => job[o].event \in Event

LEMMA IdleIsJob == Idle \in Job /\ Empty \in [Partners -> State \cup {"ABSENT"}]
  BY DEF Idle, Empty, Job

LEMMA TypeInit == Init => TypeOK /\ Busy
<1> SUFFICES ASSUME Init PROVE TypeOK /\ Busy
  OBVIOUS
<1>1. job \in [Operators -> Job] /\ \A o \in Operators : job[o] = Idle
  BY IdleIsJob DEF Init
<1>2. Busy
  BY <1>1 DEF Busy, Idle
<1>3. TypeOK
  BY <1>1 DEF Init, TypeOK, Empty, Until
<1> QED BY <1>2, <1>3

\* What MoveTo leaves, for any of the calls that use it.
LEMMA MoveToType ==
    ASSUME TypeOK, Busy, NEW o \in Operators, NEW p \in Partners,
           NEW s \in State, NEW u \in Until, NEW e \in Event \cup {None},
           NEW rest \in SUBSET Partners, MoveTo(o, p, s, u, e, rest)
    PROVE  /\ state' \in [Partners -> State \cup {"ABSENT"}]
           /\ until' \in [Partners -> Until]
           /\ reached' \in [Partners -> SUBSET State]
           /\ barred' \subseteq Partners
           /\ job' \in [Operators -> Job]
           /\ Busy'
<1>1. [at |-> "load", partner |-> p, to |-> s, event |-> e, doc |-> Empty,
       rest |-> rest] \in Job
  BY IdleIsJob DEF Job
<1>2. job' \in [Operators -> Job]
  BY <1>1 DEF MoveTo, TypeOK
<1>3. Busy'
  BY <1>1 DEF MoveTo, TypeOK, Busy
<1>4. /\ state' \in [Partners -> State \cup {"ABSENT"}]
      /\ until' \in [Partners -> Until]
      /\ reached' \in [Partners -> SUBSET State]
      /\ barred' \subseteq Partners
  BY DEF MoveTo, TypeOK
<1> QED BY <1>2, <1>3, <1>4

\* A call that only puts a new job down, one that Busy admits.
LEMMA JobType ==
    ASSUME TypeOK, Busy, NEW o \in Operators, NEW j \in Job,
           job' = [job EXCEPT ![o] = j],
           j.at \in {"activate", "load", "open", "fill", "append"}
           => j.partner \in Partners,
           j.at \in {"load", "open", "fill"} => j.to \in State,
           j.at = "append" => j.event \in Event
    PROVE  job' \in [Operators -> Job] /\ Busy'
  BY DEF TypeOK, Busy

LEMMA TypeStep == TypeOK /\ Busy /\ [Next]_vars => TypeOK' /\ Busy'
<1> SUFFICES ASSUME TypeOK, Busy, [Next]_vars PROVE TypeOK' /\ Busy'
  OBVIOUS
<1> USE NoneIsNothing, MaxCallsNat DEF row, file
<1>1. ASSUME NEW o \in Operators, Load(o) PROVE TypeOK' /\ Busy'
  <2> DEFINE j == IF form = "whole"
                  THEN [job[o] EXCEPT !.at = "open", !.doc = mirror] ELSE Idle
  <2>1. j \in Job /\ job' = [job EXCEPT ![o] = j]
    BY <1>1, IdleIsJob DEF Load, TypeOK, Job
  <2>2. /\ j.at \in {"idle", "open"}
        /\ j.at # "idle" => j.partner \in Partners /\ j.to \in State
    <3>1. job[o].partner \in Partners /\ job[o].to \in State
      BY <1>1 DEF Load, Busy
    <3>2. job[o] \in Job
      BY DEF TypeOK
    <3> QED BY <3>1, <3>2 DEF Idle, Job
  <2> HIDE DEF j
  <2>3. job' \in [Operators -> Job] /\ Busy'
    BY <2>1, <2>2, JobType
  <2> QED BY <1>1, <2>3 DEF Load, TypeOK
<1>2. ASSUME NEW o \in Operators, Open(o) PROVE TypeOK' /\ Busy'
  <2>1. /\ job' \in [Operators -> Job]
        /\ Busy'
    BY <1>2 DEF Open, TypeOK, Busy, Job
  <2> QED BY <1>2, <2>1 DEF Open, TypeOK, Empty
<1>3. ASSUME NEW o \in Operators, Fill(o) PROVE TypeOK' /\ Busy'
  <2>1. job[o] \in Job /\ job[o].partner \in Partners /\ job[o].to \in State
    BY <1>3 DEF Fill, TypeOK, Busy
  <2>2. mirror' \in [Partners -> State \cup {"ABSENT"}]
    BY <1>3, <2>1, IdleIsJob DEF Fill, Updated, Job
  <2>3. /\ Later(job[o]) \in Job
        /\ Later(job[o]).at \in {"idle", "append"}
        /\ Later(job[o]).at = "append"
           => /\ Later(job[o]).partner \in Partners
              /\ Later(job[o]).event \in Event
    BY <2>1, IdleIsJob DEF Later, Job, Idle
  <2>4. job' = [job EXCEPT ![o] = Later(job[o])]
    BY <1>3 DEF Fill
  <2>5. job' \in [Operators -> Job] /\ Busy'
    BY <2>3, <2>4, JobType
  <2> QED BY <1>3, <2>2, <2>5 DEF Fill, TypeOK
<1>4. ASSUME NEW o \in Operators, AppendLedger(o) PROVE TypeOK' /\ Busy'
  <2> DEFINE j == IF job[o].rest = {} THEN Idle
                  ELSE [Idle EXCEPT !.at = "expire", !.rest = job[o].rest]
  <2>1. job[o] \in Job /\ job[o].partner \in Partners /\ job[o].event \in Event
    BY <1>4 DEF AppendLedger, TypeOK, Busy
  <2>2. j \in Job /\ j.at \in {"idle", "expire"}
    BY <2>1, IdleIsJob DEF Job, Idle
  <2>3. job' = [job EXCEPT ![o] = j]
    BY <1>4 DEF AppendLedger
  <2> HIDE DEF j
  <2>4. job' \in [Operators -> Job] /\ Busy'
    BY <2>2, <2>3, JobType
  <2> QED BY <1>4, <2>1, <2>4 DEF AppendLedger, TypeOK
<1>5. ASSUME NEW o \in Operators, Crash(o) PROVE TypeOK' /\ Busy'
  <2>1. job' \in [Operators -> Job] /\ Busy'
    BY <1>5, IdleIsJob, JobType DEF Crash, Idle
  <2> QED BY <1>5, <2>1 DEF Crash, TypeOK
<1>6. ASSUME NEW o \in Operators, NEW p \in Partners, NEW s \in State,
             NEW u \in Until, NEW e \in Event \cup {None},
             NEW rest \in SUBSET Partners, MoveTo(o, p, s, u, e, rest),
             UNCHANGED <<file, ledger, asked>>, calls' \in Nat
      PROVE  TypeOK' /\ Busy'
  BY <1>6, MoveToType DEF TypeOK
<1>7. ASSUME NEW o \in Operators, NEW j \in Job, job' = [job EXCEPT ![o] = j],
             j.at \in {"activate", "append", "expire"},
             j.at # "expire" => j.partner \in Partners,
             j.at = "append" => j.event \in Event,
             UNCHANGED <<row, file, ledger, asked>>, calls' \in Nat
      PROVE  TypeOK' /\ Busy'
  <2>1. job' \in [Operators -> Job] /\ Busy'
    BY <1>7, JobType
  <2> QED BY <1>7, <2>1 DEF TypeOK
<1>8. ASSUME NEW o \in Operators, Call(o) PROVE calls' \in Nat
  BY <1>8 DEF Call, TypeOK
<1>9. ASSUME NEW o \in Operators, NEW p \in Partners, NEW u \in Until,
             RegisterPartner(o, p, u)
      PROVE  TypeOK' /\ Busy'
  <2> DEFINE j == [Idle EXCEPT !.at = "load", !.partner = p, !.to = "PROPOSED"]
  <2>1. j \in Job /\ j.at = "load" /\ j.partner = p /\ j.to \in State
    BY IdleIsJob DEF Job, Idle, State
  <2>2. job' = [job EXCEPT ![o] = j]
    BY <1>9 DEF RegisterPartner
  <2> HIDE DEF j
  <2>3. job' \in [Operators -> Job] /\ Busy'
    BY <2>1, <2>2, JobType
  <2>4. state' \in [Partners -> State \cup {"ABSENT"}] /\ state'[p] \in State
    BY <1>9 DEF RegisterPartner, TypeOK, State
  <2> QED BY <1>8, <1>9, <2>3, <2>4 DEF RegisterPartner, TypeOK
<1>10. ASSUME NEW o \in Operators, NEW p \in Partners, Handshake(o, p)
       PROVE  TypeOK' /\ Busy'
  BY <1>6, <1>8, <1>10 DEF Handshake, State, Event, Until
<1>11. ASSUME NEW o \in Operators, NEW p \in Partners, NEW u \in Until,
              Countersign(o, p, u)
       PROVE  TypeOK' /\ Busy'
  <2>1. CASE Refuse(o, p)
    <3> DEFINE j == [Idle EXCEPT !.at = "append", !.partner = p,
                                 !.event = Received]
    <3>1. j \in Job /\ j.at = "append" /\ j.partner = p /\ j.event \in Event
      BY IdleIsJob DEF Job, Idle, Received, Event
    <3>2. job' = [job EXCEPT ![o] = j] /\ UNCHANGED row
      BY <2>1 DEF Refuse
    <3> HIDE DEF j
    <3> QED BY <1>7, <1>8, <1>11, <3>1, <3>2 DEF Countersign
  <2>2. CASE MoveTo(o, p, "COUNTERSIGNED", u, "COUNTERSIGNED", {})
    BY <1>6, <1>8, <1>11, <2>2 DEF Countersign, State, Event
  <2> QED BY <1>11, <2>1, <2>2 DEF Countersign
<1>12. ASSUME NEW o \in Operators, NEW p \in Partners, ActivateRead(o, p)
       PROVE  TypeOK' /\ Busy'
  <2> DEFINE j == [Idle EXCEPT !.at = "activate", !.partner = p]
  <2>1. j \in Job /\ j.at = "activate" /\ j.partner = p
    BY IdleIsJob DEF Job, Idle
  <2>2. job' = [job EXCEPT ![o] = j]
    BY <1>12 DEF ActivateRead
  <2> HIDE DEF j
  <2> QED BY <1>7, <1>8, <1>12, <2>1, <2>2 DEF ActivateRead
<1>13. ASSUME NEW o \in Operators, ActivateWrite(o) PROVE TypeOK' /\ Busy'
  <2>1. job[o].partner \in Partners
    BY <1>13 DEF ActivateWrite, Busy
  <2>2. calls' \in Nat
    BY <1>13 DEF ActivateWrite, TypeOK
  <2> QED BY <1>6, <1>13, <2>1, <2>2 DEF ActivateWrite, State, Event, Until
<1>14. ASSUME NEW o \in Operators, NEW p \in Partners, RunTestQuery(o, p)
       PROVE  TypeOK' /\ Busy'
  <2> DEFINE j == [Idle EXCEPT !.at = "append", !.partner = p,
                               !.event = "TEST_QUERY"]
  <2>1. j \in Job /\ j.at = "append" /\ j.partner = p /\ j.event \in Event
    BY IdleIsJob DEF Job, Idle, Event
  <2>2. job' = [job EXCEPT ![o] = j]
    BY <1>14 DEF RunTestQuery
  <2> HIDE DEF j
  <2> QED BY <1>7, <1>8, <1>14, <2>1, <2>2 DEF RunTestQuery
<1>15. ASSUME NEW o \in Operators, ExpireRead(o) PROVE TypeOK' /\ Busy'
  <2> DEFINE overdue == {p \in Partners : state[p] = "ACTIVE"
                                          /\ until[p] = "passed"}
             j == [Idle EXCEPT !.at = "expire", !.rest = overdue]
  <2>1. j \in Job /\ j.at = "expire"
    BY IdleIsJob DEF Job, Idle
  <2>2. job' = [job EXCEPT ![o] = j]
    BY <1>15 DEF ExpireRead
  <2> HIDE DEF j
  <2> QED BY <1>7, <1>8, <1>15, <2>1, <2>2 DEF ExpireRead
<1>16. ASSUME NEW o \in Operators, NEW p \in Partners, ExpireWrite(o, p)
       PROVE  TypeOK' /\ Busy'
  <2>1. job[o].rest \ {p} \in SUBSET Partners
    BY DEF TypeOK, Job
  <2>2. calls' \in Nat
    BY <1>16 DEF ExpireWrite, TypeOK
  <2> QED BY <1>6, <1>16, <2>1, <2>2 DEF ExpireWrite, State, Event, Until
<1>17. ASSUME NEW o \in Operators, NEW p \in Partners, RevokePartner(o, p)
       PROVE  TypeOK' /\ Busy'
  BY <1>6, <1>8, <1>17 DEF RevokePartner, State, Until
<1>18. ASSUME NEW p \in Partners, Query(p) \/ Answer(p) \/ Elapse(p)
       PROVE  TypeOK' /\ Busy'
  BY <1>18 DEF Query, Answer, Elapse, TypeOK, Busy, Until
<1>19. CASE UNCHANGED vars
  BY <1>19 DEF vars, TypeOK, Busy
<1> QED BY <1>1, <1>2, <1>3, <1>4, <1>5, <1>9, <1>10, <1>11, <1>12, <1>13,
           <1>14, <1>15, <1>16, <1>17, <1>18, <1>19 DEF Next

\* The registry, the file, the ledger and the calls in progress keep to their
\* types, however calls overlap and wherever they are cut short.
THEOREM TypeInvariant == Spec => []TypeOK
<1>1. Spec => [](TypeOK /\ Busy)
  BY TypeInit, TypeStep, PTL DEF Spec
<1> QED BY <1>1, PTL

-----------------------------------------------------------------------------
(* What a partner has been, and what is recorded of it *)

\* Only register_partner and MoveTo write the partner table.
LEMMA RowStep ==
    TypeOK /\ Busy /\ [Next]_vars
    => \A p \in Partners :
          /\ reached[p] \subseteq reached'[p]
          /\ \/ state'[p] = state[p]
             \/ state'[p] \in reached'[p]
          /\ state'[p] = "ACTIVE" /\ state[p] # "ACTIVE"
             => \E o \in Operators : job[o].at = "activate"
                                    /\ job[o].partner = p
<1> SUFFICES ASSUME TypeOK, Busy, [Next]_vars, NEW p \in Partners
             PROVE  /\ reached[p] \subseteq reached'[p]
                    /\ state'[p] = state[p] \/ state'[p] \in reached'[p]
                    /\ state'[p] = "ACTIVE" /\ state[p] # "ACTIVE"
                       => \E o \in Operators : job[o].at = "activate"
                                              /\ job[o].partner = p
  OBVIOUS
<1> USE DEF row, file
<1>1. ASSUME NEW o \in Operators, NEW q \in Partners, NEW s, NEW u, NEW e,
             NEW rest, MoveTo(o, q, s, u, e, rest)
      PROVE  /\ reached[p] \subseteq reached'[p]
             /\ state'[p] = state[p] \/ (state'[p] = s /\ p = q)
             /\ state'[p] = state[p] \/ state'[p] \in reached'[p]
  BY <1>1 DEF MoveTo, TypeOK
<1>2. CASE UNCHANGED <<state, reached>>
  BY <1>2
<1>3. ASSUME NEW o \in Operators, NEW q \in Partners, NEW u \in Until,
             RegisterPartner(o, q, u)
      PROVE  /\ reached[p] \subseteq reached'[p]
             /\ state'[p] = state[p]
                \/ (state'[p] = "PROPOSED" /\ state'[p] \in reached'[p])
  BY <1>3 DEF RegisterPartner, TypeOK
<1>4. ASSUME NEW o \in Operators, ActivateWrite(o)
      PROVE  /\ reached[p] \subseteq reached'[p]
             /\ state'[p] = state[p] \/ state'[p] \in reached'[p]
             /\ state'[p] = state[p]
                \/ (job[o].at = "activate" /\ job[o].partner = p)
  <2>1. job[o].partner \in Partners
    BY <1>4 DEF ActivateWrite, Busy
  <2> QED BY <1>1, <1>4, <2>1 DEF ActivateWrite
<1>5. ASSUME NEW o \in Operators, NEW q \in Partners,
             NEW s \in {"HANDSHAKE_SENT", "COUNTERSIGNED", "EXPIRED",
                        "REVOKED"},
             NEW u, NEW e, NEW rest, MoveTo(o, q, s, u, e, rest)
      PROVE  /\ reached[p] \subseteq reached'[p]
             /\ state'[p] = state[p] \/ state'[p] \in reached'[p]
             /\ state'[p] = state[p] \/ state'[p] # "ACTIVE"
  BY <1>1, <1>5
<1>6. ASSUME NEW o \in Operators, NEW q \in Partners,
             \/ Handshake(o, q) \/ ExpireWrite(o, q) \/ RevokePartner(o, q)
             \/ \E u \in Until : Countersign(o, q, u) /\ ~ Refuse(o, q)
      PROVE  /\ reached[p] \subseteq reached'[p]
             /\ state'[p] = state[p] \/ state'[p] \in reached'[p]
             /\ state'[p] = state[p] \/ state'[p] # "ACTIVE"
  BY <1>5, <1>6 DEF Handshake, ExpireWrite, RevokePartner, Countersign
<1>7. ASSUME NEW o \in Operators, NEW q \in Partners,
             NEW u \in Until, Countersign(o, q, u), Refuse(o, q)
      PROVE  UNCHANGED <<state, reached>>
  BY <1>7 DEF Refuse
<1>8. ASSUME NEW o \in Operators,
             \/ Load(o) \/ Open(o) \/ Fill(o) \/ AppendLedger(o) \/ Crash(o)
             \/ ExpireRead(o)
             \/ \E q \in Partners : ActivateRead(o, q) \/ RunTestQuery(o, q)
      PROVE  UNCHANGED <<state, reached>>
  BY <1>8 DEF Load, Open, Fill, AppendLedger, Crash, ExpireRead, ActivateRead,
              RunTestQuery
<1>9. ASSUME NEW q \in Partners, Query(q) \/ Answer(q) \/ Elapse(q)
      PROVE  UNCHANGED <<state, reached>>
  BY <1>9 DEF Query, Answer, Elapse
<1>10. CASE UNCHANGED vars
  BY <1>10 DEF vars
<1> QED BY <1>2, <1>3, <1>4, <1>6, <1>7, <1>8, <1>9, <1>10 DEF Next

\* What a ledger row of kind e claims of a partner that has been in states r.
Recorded(e, r) ==
    /\ e = "MANIFEST_SENT" => "HANDSHAKE_SENT" \in r
    /\ e = "COUNTERSIGNED" => "COUNTERSIGNED" \in r
    /\ e = "ACTIVATED" => "ACTIVE" \in r
    /\ e = "EXPIRED" => "EXPIRED" \in r

\* What a call in progress may rely on, when partners have been in states r:
\* an activation has read a verified partner, and what a call will write to the
\* file or the ledger has been committed to the table.
Sound(j, r) ==
    /\ j.at = "activate" => "COUNTERSIGNED" \in r[j.partner]
    /\ j.at \in {"load", "open", "fill"} => j.to \in r[j.partner] \cup {"PROPOSED"}
    /\ j.at \in {"load", "open", "fill", "append"}
       => Recorded(j.event, r[j.partner])
    /\ \A p \in Partners : j.doc[p] \in r[p] \cup {"PROPOSED", "ABSENT"}

Committed ==
    /\ \A o \in Operators : Sound(job[o], reached)
    /\ \A p \in Partners : mirror[p] \in reached[p] \cup {"PROPOSED", "ABSENT"}
    /\ \A p \in Partners : \A e \in ledger[p] : Recorded(e, reached[p])
    /\ \A p \in Partners : state[p] \in {"COUNTERSIGNED", "ACTIVE"}
                           => "COUNTERSIGNED" \in reached[p]
    /\ \A p \in asked : "COUNTERSIGNED" \in reached[p]

LEMMA IdleSound == \A r : Sound(Idle, r)
  BY DEF Sound, Idle, Empty

LEMMA CommittedInit == Init => Committed
  BY IdleSound DEF Init, Committed, Empty

\* What is committed stays so while partners only gain states.
LEMMA SoundGrows ==
    ASSUME NEW r \in [Partners -> SUBSET State],
           NEW t \in [Partners -> SUBSET State],
           \A p \in Partners : r[p] \subseteq t[p],
           NEW j \in Job, Sound(j, r),
           j.at \in {"activate", "load", "open", "fill", "append"}
           => j.partner \in Partners
    PROVE  Sound(j, t)
  BY DEF Sound, Recorded, Job

\* A step in which one call moves on to a sound job.
LEMMA JobsSound ==
    ASSUME TypeOK, Busy, Committed, TypeOK',
           \A p \in Partners : reached[p] \subseteq reached'[p],
           NEW o \in Operators, NEW j, job' = [job EXCEPT ![o] = j],
           Sound(j, reached')
    PROVE  \A x \in Operators : Sound(job'[x], reached')
<1> SUFFICES ASSUME NEW x \in Operators PROVE Sound(job'[x], reached')
  OBVIOUS
<1>1. CASE x = o
  BY <1>1 DEF TypeOK
<1>2. CASE x # o
  <2>1. job'[x] = job[x] /\ job[x] \in Job
    BY <1>2 DEF TypeOK
  <2>2. /\ Sound(job[x], reached)
        /\ job[x].at \in {"activate", "load", "open", "fill", "append"}
           => job[x].partner \in Partners
    BY DEF Committed, Busy
  <2>3. /\ reached \in [Partners -> SUBSET State]
        /\ reached' \in [Partners -> SUBSET State]
    BY DEF TypeOK
  <2> QED BY <2>1, <2>2, <2>3, SoundGrows
<1> QED BY <1>1, <1>2

LEMMA CommittedStep ==
    TypeOK /\ Busy /\ TypeOK' /\ Committed /\ [Next]_vars => Committed'
<1> SUFFICES ASSUME TypeOK, Busy, TypeOK', Committed, [Next]_vars
             PROVE  Committed'
  OBVIOUS
<1> USE NoneIsNothing DEF row, file
<1>1. /\ \A p \in Partners : reached[p] \subseteq reached'[p]
      /\ \A p \in Partners : state'[p] \in {"COUNTERSIGNED", "ACTIVE"}
                             => "COUNTERSIGNED" \in reached'[p]
  <2> SUFFICES ASSUME NEW p \in Partners
               PROVE  /\ reached[p] \subseteq reached'[p]
                      /\ state'[p] \in {"COUNTERSIGNED", "ACTIVE"}
                         => "COUNTERSIGNED" \in reached'[p]
    OBVIOUS
  <2>1. /\ reached[p] \subseteq reached'[p]
        /\ state'[p] = state[p] \/ state'[p] \in reached'[p]
        /\ state'[p] = "ACTIVE" /\ state[p] # "ACTIVE"
           => \E o \in Operators : job[o].at = "activate"
                                  /\ job[o].partner = p
    BY RowStep
  <2>2. \A o \in Operators : job[o].at = "activate" /\ job[o].partner = p
                             => "COUNTERSIGNED" \in reached[p]
    BY DEF Committed, Sound
  <2> QED BY <2>1, <2>2 DEF Committed
<1>2. ASSUME UNCHANGED <<mirror, ledger, asked>>,
             \A x \in Operators : Sound(job'[x], reached')
      PROVE  Committed'
  BY <1>1, <1>2 DEF Committed, Recorded, TypeOK
<1>3. ASSUME NEW o \in Operators, NEW j, job' = [job EXCEPT ![o] = j],
             Sound(j, reached'), UNCHANGED <<mirror, ledger, asked>>
      PROVE  Committed'
  BY <1>1, <1>2, <1>3, JobsSound
<1>4. ASSUME NEW o \in Operators, Load(o) PROVE Committed'
  <2> DEFINE j == IF form = "whole"
                  THEN [job[o] EXCEPT !.at = "open", !.doc = mirror] ELSE Idle
  <2>1. job' = [job EXCEPT ![o] = j] /\ UNCHANGED <<reached, mirror, ledger, asked>>
    BY <1>4 DEF Load
  <2>2. Sound(job[o], reached) /\ job[o] \in Job /\ job[o].at = "load"
    BY <1>4 DEF Load, Committed, TypeOK
  <2>3. Sound([job[o] EXCEPT !.at = "open", !.doc = mirror], reached)
    BY <2>2 DEF Sound, Job, Committed
  <2>4. Sound(j, reached')
    BY <2>1, <2>3, IdleSound
  <2> HIDE DEF j
  <2> QED BY <1>3, <2>1, <2>4
<1>5. ASSUME NEW o \in Operators, Open(o) PROVE Committed'
  <2> DEFINE j == [job[o] EXCEPT !.at = "fill"]
  <2>1. /\ job' = [job EXCEPT ![o] = j]
        /\ UNCHANGED <<reached, ledger, asked>>
        /\ \A p \in Partners : mirror'[p] = "ABSENT"
    BY <1>5 DEF Open, Empty
  <2>2. Sound(j, reached')
    BY <1>5, <2>1 DEF Open, Sound, Job, Committed, TypeOK
  <2> HIDE DEF j
  <2>3. \A x \in Operators : Sound(job'[x], reached')
    BY <1>1, <2>1, <2>2, JobsSound
  <2> QED BY <1>1, <2>1, <2>3 DEF Committed
<1>6. ASSUME NEW o \in Operators, Fill(o) PROVE Committed'
  <2>1. /\ job[o] \in Job /\ job[o].at = "fill" /\ Sound(job[o], reached)
        /\ job[o].partner \in Partners
    BY <1>6 DEF Fill, Committed, TypeOK, Busy
  <2>2. job' = [job EXCEPT ![o] = Later(job[o])]
        /\ UNCHANGED <<reached, ledger, asked>>
    BY <1>6 DEF Fill
  <2>3. Sound(Later(job[o]), reached')
    BY <2>1, <2>2, IdleSound DEF Later, Sound, Job, Empty
  <2>4. \A p \in Partners :
           mirror'[p] \in reached[p] \cup {"PROPOSED", "ABSENT"}
    BY <1>6, <2>1 DEF Fill, Updated, Empty, Sound, Job
  <2>5. \A x \in Operators : Sound(job'[x], reached')
    BY <1>1, <2>2, <2>3, JobsSound
  <2> QED BY <1>1, <2>2, <2>4, <2>5 DEF Committed
<1>7. ASSUME NEW o \in Operators, AppendLedger(o) PROVE Committed'
  <2> DEFINE j == IF job[o].rest = {} THEN Idle
                  ELSE [Idle EXCEPT !.at = "expire", !.rest = job[o].rest]
  <2>1. Recorded(job[o].event, reached[job[o].partner])
    BY <1>7 DEF AppendLedger, Committed, Sound
  <2>2. job' = [job EXCEPT ![o] = j] /\ UNCHANGED <<reached, mirror, asked>>
    BY <1>7 DEF AppendLedger
  <2>3. Sound(j, reached')
    BY IdleSound DEF Sound, Idle, Empty
  <2> HIDE DEF j
  <2>4. \A x \in Operators : Sound(job'[x], reached')
    BY <1>1, <2>2, <2>3, JobsSound
  <2>5. \A p \in Partners : \A e \in ledger'[p] : Recorded(e, reached[p])
    BY <1>7, <2>1 DEF AppendLedger, Committed, TypeOK
  <2> QED BY <1>1, <2>2, <2>4, <2>5 DEF Committed
<1>8. ASSUME NEW o \in Operators, Crash(o) PROVE Committed'
  BY <1>3, <1>8, IdleSound DEF Crash
<1>9. ASSUME NEW o \in Operators, NEW p \in Partners, NEW s \in State,
             NEW u \in Until, NEW e \in Event \cup {None}, NEW rest,
             MoveTo(o, p, s, u, e, rest), Recorded(e, {s}),
             UNCHANGED <<mirror, ledger, asked>>
      PROVE  Committed'
  <2> DEFINE j == [at |-> "load", partner |-> p, to |-> s, event |-> e,
                   doc |-> Empty, rest |-> rest]
  <2>1. job' = [job EXCEPT ![o] = j] /\ s \in reached'[p]
    BY <1>9 DEF MoveTo, TypeOK
  <2>2. Sound(j, reached')
    BY <1>9, <2>1 DEF Sound, Empty, Recorded
  <2> HIDE DEF j
  <2> QED BY <1>3, <1>9, <2>1, <2>2
<1>10. ASSUME NEW o \in Operators, NEW p \in Partners, NEW e,
              e \notin {"MANIFEST_SENT", "COUNTERSIGNED", "ACTIVATED", "EXPIRED"},
              job' = [job EXCEPT ![o] = [Idle EXCEPT !.at = "append",
                                            !.partner = p, !.event = e]],
              UNCHANGED <<mirror, ledger, asked>>
       PROVE  Committed'
  <2> DEFINE j == [Idle EXCEPT !.at = "append", !.partner = p, !.event = e]
  <2>1. Sound(j, reached')
    BY <1>10 DEF Sound, Recorded, Idle, Empty
  <2> HIDE DEF j
  <2>2. job' = [job EXCEPT ![o] = j]
    BY <1>10 DEF j
  <2> QED BY <1>3, <1>10, <2>1, <2>2
<1>11. ASSUME NEW o \in Operators, NEW p \in Partners, NEW u \in Until,
              RegisterPartner(o, p, u)
       PROVE  Committed'
  <2> DEFINE j == [Idle EXCEPT !.at = "load", !.partner = p, !.to = "PROPOSED"]
  <2>1. job' = [job EXCEPT ![o] = j] /\ UNCHANGED <<mirror, ledger, asked>>
    BY <1>11 DEF RegisterPartner
  <2>2. Sound(j, reached')
    BY DEF Sound, Recorded, Idle, Empty, Event
  <2> HIDE DEF j
  <2> QED BY <1>3, <2>1, <2>2
<1>12. ASSUME NEW o \in Operators, NEW p \in Partners, Handshake(o, p)
       PROVE  Committed'
  BY <1>9, <1>12 DEF Handshake, State, Event, Until, Recorded
<1>13. ASSUME NEW o \in Operators, NEW p \in Partners, NEW u \in Until,
              Countersign(o, p, u)
       PROVE  Committed'
  <2>1. CASE Refuse(o, p)
    BY <1>10, <1>13, <2>1 DEF Countersign, Refuse, Received
  <2>2. CASE MoveTo(o, p, "COUNTERSIGNED", u, "COUNTERSIGNED", {})
    BY <1>9, <1>13, <2>2 DEF Countersign, State, Event, Recorded
  <2> QED BY <1>13, <2>1, <2>2 DEF Countersign
<1>14. ASSUME NEW o \in Operators, NEW p \in Partners, ActivateRead(o, p)
       PROVE  Committed'
  <2> DEFINE j == [Idle EXCEPT !.at = "activate", !.partner = p]
  <2>1. /\ job' = [job EXCEPT ![o] = j]
        /\ UNCHANGED <<reached, mirror, ledger, asked>>
        /\ "COUNTERSIGNED" \in reached[p]
    BY <1>14 DEF ActivateRead, Activatable, Committed
  <2>2. Sound(j, reached')
    BY <2>1 DEF Sound, Idle, Empty
  <2> HIDE DEF j
  <2> QED BY <1>3, <2>1, <2>2
<1>15. ASSUME NEW o \in Operators, ActivateWrite(o) PROVE Committed'
  <2>1. job[o].partner \in Partners
    BY <1>15 DEF ActivateWrite, Busy
  <2> QED BY <1>9, <1>15, <2>1 DEF ActivateWrite, State, Event, Until, Recorded
<1>16. ASSUME NEW o \in Operators, NEW p \in Partners, RunTestQuery(o, p)
       PROVE  Committed'
  BY <1>10, <1>16 DEF RunTestQuery
<1>17. ASSUME NEW o \in Operators, ExpireRead(o) PROVE Committed'
  <2> DEFINE overdue == {p \in Partners : state[p] = "ACTIVE"
                                          /\ until[p] = "passed"}
             j == [Idle EXCEPT !.at = "expire", !.rest = overdue]
  <2>1. job' = [job EXCEPT ![o] = j] /\ UNCHANGED <<mirror, ledger, asked>>
    BY <1>17 DEF ExpireRead
  <2>2. Sound(j, reached')
    BY DEF Sound, Idle, Empty
  <2> HIDE DEF j
  <2> QED BY <1>3, <2>1, <2>2
<1>18. ASSUME NEW o \in Operators, NEW p \in Partners, ExpireWrite(o, p)
       PROVE  Committed'
  BY <1>9, <1>18 DEF ExpireWrite, State, Event, Until, Recorded
<1>19. ASSUME NEW o \in Operators, NEW p \in Partners, RevokePartner(o, p)
       PROVE  Committed'
  <2>1. Recorded(None, {"REVOKED"})
    BY DEF Recorded, Event
  <2> QED BY <1>9, <1>19, <2>1 DEF RevokePartner, State, Until
<1>20. ASSUME NEW p \in Partners, Query(p) \/ Answer(p) \/ Elapse(p)
       PROVE  Committed'
  BY <1>20 DEF Query, Answer, Elapse, Committed
<1>21. CASE UNCHANGED vars
  BY <1>21 DEF vars, Committed
<1> QED BY <1>4, <1>5, <1>6, <1>7, <1>8, <1>11, <1>12, <1>13, <1>14, <1>15,
           <1>16, <1>17, <1>18, <1>19, <1>20, <1>21 DEF Next

LEMMA CommittedAlways == Spec => [](TypeOK /\ Busy /\ Committed)
<1>1. Init => TypeOK /\ Busy /\ Committed
  BY TypeInit, CommittedInit
<1>2. TypeOK /\ Busy /\ Committed /\ [Next]_vars
      => TypeOK' /\ Busy' /\ Committed'
  BY TypeStep, CommittedStep
<1> QED BY <1>1, <1>2, PTL DEF Spec

\* No partner is queried whose manifest was never verified, although activate
\* reads and writes in different transactions and a partner can be registered,
\* revoked and countersigned in between.
THEOREM QueriedHolds == Spec => []QueriedOnceVerified
<1>1. Committed => QueriedOnceVerified
  BY DEF Committed, QueriedOnceVerified
<1> QED BY <1>1, CommittedAlways, PTL

\* The ledger records only transitions that were committed.
THEOREM LedgerHolds == Spec => []LedgerTruthful
<1>1. Committed => LedgerTruthful
  BY DEF Committed, LedgerTruthful, Recorded
<1> QED BY <1>1, CommittedAlways, PTL

\* The JSON registry gives no partner a state it has not been in.
THEOREM MirrorHolds == Spec => []MirrorReached
<1>1. Committed => MirrorReached
  BY DEF Committed, MirrorReached
<1> QED BY <1>1, CommittedAlways, PTL

-----------------------------------------------------------------------------
(* Revocation *)

\* With one operator at a time, nobody activates a partner that is barred.
NoBarred ==
    \A p \in barred : /\ state[p] \notin {"COUNTERSIGNED", "ACTIVE"}
                      /\ \A o \in Operators : job[o].at = "activate"
                                              => job[o].partner # p

LEMMA NoBarredStep ==
    ASSUME \A a, b \in Operators : a = b,
           TypeOK, Busy, NoBarred, [Next]_vars
    PROVE  NoBarred'
<1> USE NoneIsNothing DEF row, file
<1>1. ASSUME NEW o \in Operators, NEW p \in Partners, NEW s \in State,
             NEW u \in Until, NEW e \in Event \cup {None}, NEW rest,
             MoveTo(o, p, s, u, e, rest), s = "ACTIVE" => p \notin barred
      PROVE  NoBarred'
  <2>1. /\ state' = [state EXCEPT ![p] = s]
        /\ job'[o].at = "load"
        /\ \A x \in Operators : x = o
    BY <1>1 DEF MoveTo, TypeOK
  <2>2. barred' \subseteq barred \cup {p}
    BY <1>1 DEF MoveTo
  <2>3. p \in barred' => s \notin {"COUNTERSIGNED", "ACTIVE"}
    BY <1>1 DEF MoveTo
  <2> QED BY <2>1, <2>2, <2>3 DEF NoBarred, TypeOK
<1>2. ASSUME NEW o \in Operators, NEW j, job' = [job EXCEPT ![o] = j],
             j.at # "activate", UNCHANGED <<state, barred>>
      PROVE  NoBarred'
  BY <1>2 DEF NoBarred, TypeOK
<1>3. ASSUME NEW o \in Operators, Load(o) PROVE NoBarred'
  <2> DEFINE j == IF form = "whole"
                  THEN [job[o] EXCEPT !.at = "open", !.doc = mirror] ELSE Idle
  <2>1. job' = [job EXCEPT ![o] = j] /\ UNCHANGED <<state, barred>>
    BY <1>3 DEF Load
  <2>2. j.at # "activate"
    BY DEF TypeOK, Job, Idle
  <2> HIDE DEF j
  <2> QED BY <1>2, <2>1, <2>2
<1>4. ASSUME NEW o \in Operators, Open(o) \/ Fill(o) \/ AppendLedger(o) \/ Crash(o)
      PROVE  NoBarred'
  <2>1. UNCHANGED <<state, barred>> /\ \A x \in Operators : x = o
    BY <1>4 DEF Open, Fill, AppendLedger, Crash
  <2>2. job'[o].at # "activate"
    <3>1. CASE Open(o)
      BY <3>1 DEF Open, TypeOK, Job
    <3>2. CASE Fill(o)
      BY <3>2 DEF Fill, Later, Idle, TypeOK, Job
    <3>3. CASE AppendLedger(o)
      BY <3>3 DEF AppendLedger, Idle, TypeOK, Job
    <3>4. CASE Crash(o)
      BY <3>4 DEF Crash, Idle, TypeOK, Job
    <3> QED BY <1>4, <3>1, <3>2, <3>3, <3>4
  <2> QED BY <2>1, <2>2 DEF NoBarred
<1>5. ASSUME NEW o \in Operators, NEW p \in Partners, NEW u \in Until,
             RegisterPartner(o, p, u)
      PROVE  NoBarred'
  <2>1. /\ barred' = barred
        /\ \A q \in Partners : state'[q] = state[q] \/ state'[q] = "PROPOSED"
        /\ job'[o].at # "activate"
        /\ \A x \in Operators : x = o
    BY <1>5 DEF RegisterPartner, Idle, TypeOK
  <2> QED BY <2>1 DEF NoBarred, TypeOK
<1>6. ASSUME NEW o \in Operators, NEW p \in Partners,
             Handshake(o, p) \/ ExpireWrite(o, p) \/ RevokePartner(o, p)
      PROVE  NoBarred'
  BY <1>1, <1>6 DEF Handshake, ExpireWrite, RevokePartner, State, Event, Until
<1>7. ASSUME NEW o \in Operators, NEW p \in Partners, NEW u \in Until,
             Countersign(o, p, u)
      PROVE  NoBarred'
  <2>1. CASE Refuse(o, p)
    <3>1. UNCHANGED <<state, barred>> /\ \A x \in Operators : x = o
      BY <2>1 DEF Refuse
    <3>2. job'[o].at # "activate"
      BY <2>1 DEF Refuse, Idle, TypeOK
    <3> QED BY <3>1, <3>2 DEF NoBarred
  <2>2. CASE MoveTo(o, p, "COUNTERSIGNED", u, "COUNTERSIGNED", {})
    BY <1>1, <2>2 DEF State, Event
  <2> QED BY <1>7, <2>1, <2>2 DEF Countersign
<1>8. ASSUME NEW o \in Operators, NEW p \in Partners, ActivateRead(o, p)
      PROVE  NoBarred'
  <2>1. /\ UNCHANGED <<state, barred>> /\ \A x \in Operators : x = o
        /\ p \notin barred
    BY <1>8 DEF ActivateRead, Activatable, NoBarred
  <2>2. job'[o].partner = p
    BY <1>8 DEF ActivateRead, Idle, TypeOK
  <2> QED BY <2>1, <2>2 DEF NoBarred
<1>9. ASSUME NEW o \in Operators, ActivateWrite(o) PROVE NoBarred'
  <2>1. job[o].partner \in Partners /\ job[o].partner \notin barred
    BY <1>9 DEF ActivateWrite, Busy, NoBarred
  <2> QED BY <1>1, <1>9, <2>1 DEF ActivateWrite, State, Event, Until
<1>10. ASSUME NEW o \in Operators, ExpireRead(o) PROVE NoBarred'
  <2>1. PICK r : job' = [job EXCEPT ![o] = [Idle EXCEPT !.at = "expire",
                                                        !.rest = r]]
    BY <1>10 DEF ExpireRead
  <2>2. UNCHANGED <<state, barred>>
    BY <1>10 DEF ExpireRead
  <2> DEFINE j == [Idle EXCEPT !.at = "expire", !.rest = r]
  <2>3. j.at # "activate"
    BY DEF Idle
  <2> HIDE DEF j
  <2> QED BY <1>2, <2>1, <2>2, <2>3 DEF j
<1>11. ASSUME NEW o \in Operators, NEW p \in Partners, RunTestQuery(o, p)
       PROVE  NoBarred'
  <2>1. UNCHANGED <<state, barred>> /\ \A x \in Operators : x = o
    BY <1>11 DEF RunTestQuery
  <2>2. job'[o].at # "activate"
    BY <1>11 DEF RunTestQuery, Idle, TypeOK
  <2> QED BY <2>1, <2>2 DEF NoBarred
<1>12. ASSUME NEW p \in Partners, Query(p) \/ Answer(p) \/ Elapse(p)
       PROVE  NoBarred'
  BY <1>12 DEF Query, Answer, Elapse, NoBarred
<1>13. CASE UNCHANGED vars
  BY <1>13 DEF vars, NoBarred
<1> QED BY <1>3, <1>4, <1>5, <1>6, <1>7, <1>8, <1>9, <1>10, <1>11,
           <1>12, <1>13 DEF Next

LEMMA DeniedStep ==
    ASSUME NoBarred, [Next]_vars
    PROVE  [\A p \in Partners : p \in asked' \ asked => p \notin barred]_vars
<1> USE DEF row, file
<1> DEFINE Denied == \A p \in Partners : p \in asked' \ asked => p \notin barred
<1>1. ASSUME NEW p \in Partners, Query(p) PROVE Denied
  BY <1>1 DEF Query, NoBarred
<1>2. CASE asked' \subseteq asked
  BY <1>2
<1>3. ASSUME NEW p \in Partners, Answer(p) \/ Elapse(p)
      PROVE  asked' \subseteq asked
  BY <1>3 DEF Answer, Elapse
<1>4. ASSUME NEW o \in Operators,
             \/ Load(o) \/ Open(o) \/ Fill(o) \/ AppendLedger(o) \/ Crash(o)
             \/ ActivateWrite(o) \/ ExpireRead(o)
             \/ \E p \in Partners :
                   \/ Handshake(o, p) \/ ActivateRead(o, p)
                   \/ RunTestQuery(o, p) \/ ExpireWrite(o, p)
                   \/ RevokePartner(o, p)
             \/ \E p \in Partners, u \in Until :
                   RegisterPartner(o, p, u) \/ Countersign(o, p, u)
      PROVE  asked' \subseteq asked
  BY <1>4 DEF Load, Open, Fill, AppendLedger, Crash, ActivateWrite, ExpireRead,
              Handshake, ActivateRead, RunTestQuery, ExpireWrite,
              RevokePartner, RegisterPartner, Countersign
<1>5. CASE UNCHANGED vars
  BY <1>5 DEF vars
<1> QED BY <1>1, <1>2, <1>3, <1>4, <1>5 DEF Next

\* With a single operator, a revoked partner is not queried again before it is
\* countersigned anew; a new handshake does not let it back in.
THEOREM RevocationHolds ==
    ASSUME \A a, b \in Operators : a = b
    PROVE  Spec => RevocationDenies
<1> DEFINE Denied == \A p \in Partners : p \in asked' \ asked => p \notin barred
<1>1. Init => NoBarred
  BY DEF Init, NoBarred
<1>2. TypeOK /\ Busy /\ NoBarred /\ [Next]_vars => NoBarred'
  BY NoBarredStep
<1>3. NoBarred /\ [Next]_vars => [Denied]_vars
  BY DeniedStep
<1>4. Spec => [](TypeOK /\ Busy)
  BY TypeInit, TypeStep, PTL DEF Spec
<1> QED BY <1>1, <1>2, <1>3, <1>4, PTL DEF Spec, RevocationDenies

-----------------------------------------------------------------------------
(* Revocation, with any number of operators *)

\* A barred partner has no manifest that an activate could rest on.
NoneCountersigned == \A p \in barred : state[p] # "COUNTERSIGNED"

\* What a step may not do to a barred partner.
Keeps(p) == p \in barred /\ p \in barred' /\ Quiescent(p) => Quiescent(p)'

Final == NoneCountersigned' /\ \A p \in Partners : Keeps(p)

LEMMA FinalStep ==
    ASSUME TypeOK, Busy, NoneCountersigned, [Next]_vars
    PROVE  Final
<1> USE NoneIsNothing DEF row, file
<1>1. ASSUME NEW o \in Operators, NEW p \in Partners, NEW s \in State,
             NEW u \in Until, NEW e \in Event \cup {None}, NEW rest,
             MoveTo(o, p, s, u, e, rest),
             s = "ACTIVE" => p \notin barred \/ ~ Quiescent(p)
      PROVE  Final
  <2>1. /\ state' = [state EXCEPT ![p] = s]
        /\ job'[o].at = "load"
        /\ \A x \in Operators : x # o => job'[x] = job[x]
    BY <1>1 DEF MoveTo, TypeOK
  <2>2. barred' \subseteq barred \cup {p}
    BY <1>1 DEF MoveTo
  <2>3. p \in barred' => s # "COUNTERSIGNED"
    BY <1>1 DEF MoveTo
  <2>4. NoneCountersigned'
    BY <2>1, <2>2, <2>3 DEF NoneCountersigned, TypeOK
  <2>5. \A q \in Partners : Keeps(q)
    BY <1>1, <2>1, <2>2 DEF Keeps, Quiescent, TypeOK
  <2> QED BY <2>4, <2>5 DEF Final
<1>2. ASSUME NEW o \in Operators, UNCHANGED barred,
             \A q \in Partners : \/ state'[q] = state[q]
                                 \/ state'[q] \notin {"COUNTERSIGNED", "ACTIVE"},
             \/ job'[o].at # "activate"
             \/ job'[o].partner \notin barred
             \/ ~ Quiescent(job'[o].partner),
             \A x \in Operators : x # o => job'[x] = job[x]
      PROVE  Final
  <2>1. NoneCountersigned'
    BY <1>2 DEF NoneCountersigned, TypeOK
  <2>2. \A q \in Partners : Keeps(q)
    BY <1>2 DEF Keeps, Quiescent, TypeOK
  <2> QED BY <2>1, <2>2 DEF Final
<1>3. ASSUME NEW o \in Operators,
             \/ Load(o) \/ Open(o) \/ Fill(o) \/ AppendLedger(o) \/ Crash(o)
             \/ ExpireRead(o) \/ \E p \in Partners : RunTestQuery(o, p)
      PROVE  Final
  <2>1. UNCHANGED <<state, barred>> /\ \A x \in Operators : x # o => job'[x] = job[x]
    BY <1>3 DEF Load, Open, Fill, AppendLedger, Crash, ExpireRead, RunTestQuery, TypeOK
  <2>2. job'[o].at # "activate"
    <3>1. CASE Load(o)
      <4> DEFINE j == IF form = "whole"
                      THEN [job[o] EXCEPT !.at = "open", !.doc = mirror] ELSE Idle
      <4>1. job'[o] = j
        BY <3>1 DEF Load, TypeOK
      <4>2. j.at # "activate"
        BY DEF TypeOK, Job, Idle
      <4> QED BY <4>1, <4>2
    <3>2. CASE Open(o)
      BY <3>2 DEF Open, TypeOK, Job
    <3>3. CASE Fill(o)
      BY <3>3 DEF Fill, Later, Idle, TypeOK, Job
    <3>4. CASE AppendLedger(o)
      BY <3>4 DEF AppendLedger, Idle, TypeOK, Job
    <3>5. CASE Crash(o)
      BY <3>5 DEF Crash, Idle, TypeOK, Job
    <3>6. CASE ExpireRead(o)
      BY <3>6 DEF ExpireRead, Idle, TypeOK
    <3>7. CASE \E p \in Partners : RunTestQuery(o, p)
      BY <3>7 DEF RunTestQuery, Idle, TypeOK
    <3> QED BY <1>3, <3>1, <3>2, <3>3, <3>4, <3>5, <3>6, <3>7
  <2> QED BY <1>2, <2>1, <2>2
<1>4. ASSUME NEW o \in Operators, NEW p \in Partners, NEW u \in Until,
             RegisterPartner(o, p, u)
      PROVE  Final
  <2>1. /\ barred' = barred
        /\ \A q \in Partners : state'[q] = state[q] \/ state'[q] = "PROPOSED"
        /\ job'[o].at # "activate"
        /\ \A x \in Operators : x # o => job'[x] = job[x]
    BY <1>4 DEF RegisterPartner, Idle, TypeOK
  <2> QED BY <1>2, <2>1
<1>5. ASSUME NEW o \in Operators, NEW p \in Partners,
             Handshake(o, p) \/ ExpireWrite(o, p) \/ RevokePartner(o, p)
      PROVE  Final
  BY <1>1, <1>5 DEF Handshake, ExpireWrite, RevokePartner, State, Event, Until
<1>6. ASSUME NEW o \in Operators, NEW p \in Partners, NEW u \in Until,
             Countersign(o, p, u)
      PROVE  Final
  <2>1. CASE Refuse(o, p)
    <3>1. /\ UNCHANGED <<state, barred>>
          /\ \A x \in Operators : x # o => job'[x] = job[x]
      BY <2>1 DEF Refuse, TypeOK
    <3>2. job'[o].at # "activate"
      BY <2>1 DEF Refuse, Idle, TypeOK
    <3> QED BY <1>2, <3>1, <3>2
  <2>2. CASE MoveTo(o, p, "COUNTERSIGNED", u, "COUNTERSIGNED", {})
    BY <1>1, <2>2 DEF State, Event
  <2> QED BY <1>6, <2>1, <2>2 DEF Countersign
<1>7. ASSUME NEW o \in Operators, NEW p \in Partners, ActivateRead(o, p)
      PROVE  Final
  <2>1. /\ UNCHANGED <<state, barred>>
        /\ \A x \in Operators : x # o => job'[x] = job[x]
        /\ job'[o].partner = p
    BY <1>7 DEF ActivateRead, Idle, TypeOK
  <2>2. p \notin barred \/ ~ Quiescent(p)
    BY <1>7 DEF ActivateRead, Activatable, NoneCountersigned, Quiescent
  <2> QED BY <1>2, <2>1, <2>2
<1>8. ASSUME NEW o \in Operators, ActivateWrite(o) PROVE Final
  <2>1. job[o].partner \in Partners /\ ~ Quiescent(job[o].partner)
    BY <1>8 DEF ActivateWrite, Busy, Quiescent
  <2> QED BY <1>1, <1>8, <2>1 DEF ActivateWrite, State, Event, Until
<1>9. ASSUME NEW p \in Partners, Query(p) \/ Answer(p) \/ Elapse(p)
      PROVE  Final
  BY <1>9 DEF Query, Answer, Elapse, Final, NoneCountersigned, Keeps, Quiescent
<1>10. CASE UNCHANGED vars
  BY <1>10 DEF vars, Final, NoneCountersigned, Keeps, Quiescent
<1> QED BY <1>3, <1>4, <1>5, <1>6, <1>7, <1>8, <1>9, <1>10 DEF Next

\* With any number of operators and crashes, a revocation that no activate
\* overlaps is final until countersign has verified another manifest for the
\* partner.
THEOREM RevocationFinalHolds == Spec => RevocationFinal
<1> DEFINE Step == \A p \in Partners :
             p \in barred /\ p \in barred' /\ Quiescent(p) => Quiescent(p)'
<1>1. Init => NoneCountersigned
  BY DEF Init, NoneCountersigned
<1>2. TypeOK /\ Busy /\ NoneCountersigned /\ [Next]_vars
      => NoneCountersigned' /\ Step
  BY FinalStep DEF Final, Keeps
<1>3. Spec => [](TypeOK /\ Busy)
  BY TypeInit, TypeStep, PTL DEF Spec
<1> QED BY <1>1, <1>2, <1>3, PTL DEF Spec, RevocationFinal

-----------------------------------------------------------------------------
(* The routers *)

Fields == {"at", "id", "query", "rest", "partner", "agreed", "filter",
           "accepted", "violations", "results", "rejections"}

Shape(t) == t = [f \in Fields |-> t[f]]

\* The partner agreed to share the row, while it was ACTIVE.
Agreed(p, x) ==
    \E a \in Agreement : <<p, a>> \in inForce /\ Conforms(x, p, a)

\* What a router holds of a query under way.
Holds(t) ==
    /\ Shape(t)
    /\ t.at = "dispatch" => /\ t.partner \in Partners
                            /\ t.agreed \in Agreement
                            /\ <<t.partner, t.agreed>> \in inForce
    /\ t.at \in {"escalate", "log"} => \A x \in t.accepted : Agreed(t.partner, x)
    /\ \A found \in t.results : Agreed(found[2], found[3])

FInv ==
    /\ DOMAIN request = Routers
    /\ request = [r \in Routers |-> request[r]]
    /\ asked = Asking(request)
    /\ agreement \in [Partners -> Agreement]
    /\ \A p \in Partners : state[p] = "ACTIVE" => <<p, agreement[p]>> \in inForce
    /\ \A r \in Routers : request[r] # None => Holds(request[r])

LEMMA FInvInit == FInit => FInv
<1> SUFFICES ASSUME FInit PROVE FInv
  OBVIOUS
<1>1. \A r \in Routers : request[r] = None
  BY DEF FInit
<1>2. asked = Asking(request)
  BY <1>1 DEF FInit, Init, Asking
<1>3. NoAgreement \in Agreement
  BY DEF NoAgreement, Agreement, Tier
<1>4. \A p \in Partners : state[p] # "ACTIVE"
  BY DEF FInit, Init, Empty
<1> QED BY <1>1, <1>2, <1>3, <1>4 DEF FInit, FInv

\* A router's step changes its own query, and so only its own partner's place
\* among those that are asked.
LEMMA GotoAsks ==
    ASSUME FInv, NEW r \in Routers, NEW t, Goto(r, t)
    PROVE  /\ DOMAIN request' = Routers
           /\ request' = [s \in Routers |-> request'[s]]
           /\ request'[r] = t
           /\ \A s \in Routers : s # r => request'[s] = request[s]
           /\ asked' \subseteq asked \cup (IF t # None /\ t.at = "dispatch"
                                           THEN {t.partner} ELSE {})
           /\ asked \subseteq asked' \cup (IF At(r, "dispatch")
                                           THEN {request[r].partner} ELSE {})
           /\ t # None /\ t.at = "dispatch" => t.partner \in asked'
<1>1. /\ DOMAIN request' = Routers
      /\ request' = [s \in Routers |-> request'[s]]
      /\ request'[r] = t
      /\ \A s \in Routers : s # r => request'[s] = request[s]
  BY DEF Goto, FInv
<1>2. \A p : p \in asked <=> \E s \in Routers : /\ request[s] # None
                                               /\ request[s].at = "dispatch"
                                               /\ p = request[s].partner
  BY DEF FInv, Asking
<1>3. \A p : p \in asked' <=> \E s \in Routers : /\ request'[s] # None
                                                /\ request'[s].at = "dispatch"
                                                /\ p = request'[s].partner
  BY DEF Goto, Asking
<1>4. ASSUME NEW p, p \in asked'
      PROVE  p \in asked \/ (t # None /\ t.at = "dispatch" /\ p = t.partner)
  <2>1. PICK s \in Routers : /\ request'[s] # None
                             /\ request'[s].at = "dispatch"
                             /\ p = request'[s].partner
    BY <1>3, <1>4
  <2>2. CASE s = r
    BY <1>1, <2>1, <2>2
  <2>3. CASE s # r
    BY <1>1, <1>2, <2>1, <2>3
  <2> QED BY <2>2, <2>3
<1>5. ASSUME NEW p, p \in asked
      PROVE  p \in asked' \/ (At(r, "dispatch") /\ p = request[r].partner)
  <2>1. PICK s \in Routers : /\ request[s] # None
                             /\ request[s].at = "dispatch"
                             /\ p = request[s].partner
    BY <1>2, <1>5
  <2>2. CASE s = r
    BY <2>1, <2>2 DEF At
  <2>3. CASE s # r
    BY <1>1, <1>3, <2>1, <2>3
  <2> QED BY <2>2, <2>3
<1>6. t # None /\ t.at = "dispatch" => t.partner \in asked'
  BY <1>1, <1>3
<1> QED BY <1>1, <1>4, <1>5, <1>6

LEMMA HoldsGrows ==
    ASSUME NEW t, Holds(t), inForce \subseteq inForce'
    PROVE  Holds(t)'
<1>1. \A p, x : Agreed(p, x) => Agreed(p, x)'
  BY DEF Agreed, Conforms, Rank
<1>2. \A p, a : <<p, a>> \in inForce => <<p, a>> \in inForce'
  OBVIOUS
<1> QED BY <1>1, <1>2 DEF Holds, Shape, Fields

LEMMA AskedAre ==
    ASSUME FInv PROVE asked \subseteq Partners
<1> SUFFICES ASSUME NEW p \in asked PROVE p \in Partners
  OBVIOUS
<1>1. PICK r \in Routers : /\ request[r] # None /\ request[r].at = "dispatch"
                           /\ p = request[r].partner
  BY DEF FInv, Asking
<1>2. Holds(request[r])
  BY <1>1 DEF FInv
<1> QED BY <1>1, <1>2 DEF Holds

\* Routers do to the trust ladder what Query and Answer do, or nothing.
LEMMA RouterStep ==
    ASSUME FInv, NEW r \in Routers, NEW t, Goto(r, t), OfOthers,
           t # None /\ t.at = "dispatch" =>
              t.partner \in Partners /\ state[t.partner] = "ACTIVE" /\ ~ At(r, "dispatch")
    PROVE  Next \/ UNCHANGED vars
<1> DEFINE new == IF t # None /\ t.at = "dispatch" THEN {t.partner} ELSE {}
           old == IF At(r, "dispatch") THEN {request[r].partner} ELSE {}
<1>1. asked' \subseteq asked \cup new /\ asked \subseteq asked' \cup old
  BY GotoAsks
<1>2. CASE asked' = asked
  BY <1>2 DEF OfOthers, vars, row, file
<1>3. ASSUME NEW p, p \in asked', p \notin asked PROVE Next
  <2>1. new = {p} /\ t # None /\ t.at = "dispatch" /\ p = t.partner
    BY <1>1, <1>3
  <2>2. old = {}
    BY <2>1
  <2>3. asked' = asked \cup {p}
    BY <1>1, <1>3, <2>1, <2>2
  <2>4. Query(p)
    BY <1>3, <2>1, <2>3 DEF Query, OfOthers
  <2> QED BY <2>1, <2>4 DEF Next
<1>4. ASSUME NEW p, p \in asked, p \notin asked' PROVE Next
  <2>1. old = {p} /\ At(r, "dispatch")
    BY <1>1, <1>4
  <2>2. new = {}
    BY <2>1
  <2>3. asked' = asked \ {p}
    BY <1>1, <1>4, <2>1, <2>2
  <2>4. Answer(p)
    BY <1>4, <2>3 DEF Answer, OfOthers
  <2> QED BY <2>4, <1>4, AskedAre DEF Next
<1> QED BY <1>2, <1>3, <1>4

\* What a router makes of its query keeps what it may rely on.
LEMMA GotoHolds ==
    ASSUME FInv, NEW r \in Routers, NEW t, Goto(r, t), OfOthers,
           inForce \subseteq inForce', t # None => Holds(t)
    PROVE  \A s \in Routers : request'[s] # None => Holds(request[s])'
<1>1. t # None => Holds(t)'
  BY HoldsGrows
<1>2. ASSUME NEW s \in Routers, request'[s] # None PROVE Holds(request[s])'
  <2>1. CASE s = r
    BY <1>1, <1>2, <2>1, GotoAsks DEF Holds, Shape, Agreed
  <2>2. CASE s # r
    <3>1. request'[s] = request[s]
      BY <2>2, GotoAsks
    <3>2. Holds(request[s])
      BY <1>2, <3>1 DEF FInv
    <3> QED BY <3>1, <3>2 DEF Holds, Shape, Agreed
  <2> QED BY <2>1, <2>2
<1> QED BY <1>2

\* A row that breaks no rule conforms to the agreement it was checked against.
LEMMA CheckedConforms ==
    ASSUME NEW x \in ResultRow, NEW p \in Partners, NEW a \in Agreement,
           Broken(x, p, a) = {}, ~ Unhashable(x, a)
    PROVE  Conforms(x, p, a)
<1> DEFINE Rule == {"RESTRICTED_TIER_BLOCKED", "TIER_EXCEEDS_AGREEMENT",
                    "CLASS_NOT_WHITELISTED", "PROV_MISMATCH"}
<1>1. x.tier # "Restricted"
  BY DEF Broken
<1>2. ~ (Rank(x.tier) > Rank(a.max))
  BY <1>1 DEF Broken
<1>3. Whitelisted(x.class, a.classes)
  BY DEF Broken
<1>4. p \in x.agent
  BY DEF Broken
<1>5. x.tier \in Tier \cup {"unlabelled"}
  BY DEF Unhashable, ResultRow
<1>6. Rank(x.tier) \in Nat /\ Rank(a.max) \in Nat
  BY DEF Rank
<1>7. Rank(x.tier) <= Rank(a.max)
  BY <1>2, <1>6
<1> QED BY <1>1, <1>3, <1>4, <1>5, <1>7 DEF Conforms, Whitelisted, Tier

\* Every step of a router, with what it keeps and what it is to FederationTrust.
LEMMA FederateStep ==
    ASSUME FInv, Federate, inForce \subseteq inForce'
    PROVE  FInv' /\ (Next \/ UNCHANGED vars)
<1> DEFINE Kept(r, t) ==
      /\ Goto(r, t) /\ OfOthers
      /\ t # None => Holds(t)
      /\ t # None /\ t.at = "dispatch"
           => /\ t.partner \in Partners /\ state[t.partner] = "ACTIVE"
              /\ ~ At(r, "dispatch")
<1>1. ASSUME NEW r \in Routers, NEW t, Kept(r, t)
      PROVE  FInv' /\ (Next \/ UNCHANGED vars)
  <2>1. DOMAIN request' = Routers /\ request' = [s \in Routers |-> request'[s]]
    BY <1>1, GotoAsks
  <2>2. \A s \in Routers : request'[s] # None => Holds(request[s])'
    BY <1>1, GotoHolds
  <2>3. asked' = Asking(request')
    BY <1>1 DEF Goto
  <2>4. UNCHANGED <<state, agreement>>
    BY <1>1 DEF OfOthers, row
  <2>5. FInv'
    BY <2>1, <2>2, <2>3, <2>4 DEF FInv, Asking
  <2>6. Next \/ UNCHANGED vars
    BY <1>1, RouterStep
  <2> QED BY <2>5, <2>6
<1>2. ASSUME OfOthers, UNCHANGED <<request, asked>>
      PROVE  FInv' /\ (Next \/ UNCHANGED vars)
  <2>1. FInv'
    <3>1. ASSUME NEW r \in Routers, request[r] # None PROVE Holds(request[r])'
      <4>1. Holds(request[r]) /\ request'[r] = request[r]
        BY <1>2, <3>1 DEF FInv
      <4> QED BY <4>1 DEF Holds, Shape, Agreed
    <3> QED BY <1>2, <3>1 DEF FInv, Asking, OfOthers, row
  <2>2. UNCHANGED vars
    BY <1>2 DEF OfOthers, vars, row, file
  <2> QED BY <2>1, <2>2
<1>3. PICK r \in Routers : \/ \E query \in Queries : Route(r, query)
                           \/ Unregistered(r) \/ Resolve(r) \/ Escalate(r)
                           \/ LogQuery(r) \/ Raise(r)
                           \/ \E rows \in Replies : Dispatch(r, rows)
  BY DEF Federate
<1>4. request[r] # None => Holds(request[r])
  BY DEF FInv
<1> DEFINE T == request[r]
<1>5. ASSUME NEW p, At(r, "resolve"), Goto(r, Refusal(T, p)), OfOthers
      PROVE  FInv' /\ (Next \/ UNCHANGED vars)
  <2>1. Holds(T) /\ T # None
    BY <1>4, <1>5 DEF At
  <2> DEFINE U == Refusal(T, p)
  <2>2. Shape(U) /\ U.at = "log" /\ U.accepted = {} /\ U.results = T.results
    BY <2>1 DEF Holds, Shape, Fields, Refusal
  <2>3. Holds(U)
    BY <2>1, <2>2 DEF Holds
  <2>4. Kept(r, U)
    BY <1>5, <2>2, <2>3
  <2> HIDE DEF U
  <2> QED BY <1>1, <2>4
<1>6. ASSUME NEW query \in Queries, Route(r, query)
      PROVE  FInv' /\ (Next \/ UNCHANGED vars)
  <2>1. CASE query.services = << >>
    BY <1>2, <1>6, <2>1 DEF Route
  <2>2. CASE query.services # << >>
    <3> DEFINE U == [at |-> "resolve", id |-> queries, query |-> query,
                     rest |-> query.services, partner |-> None,
                     agreed |-> NoAgreement, filter |-> {}, accepted |-> {},
                     violations |-> 0, results |-> {}, rejections |-> {}]
    <3>1. Holds(U) /\ U.at = "resolve"
      BY DEF Holds, Shape, Fields
    <3>2. Goto(r, U) /\ OfOthers
      BY <1>6, <2>2 DEF Route
    <3> HIDE DEF U
    <3>3. Kept(r, U)
      BY <3>1, <3>2
    <3> QED BY <1>1, <3>3
  <2> QED BY <2>1, <2>2
<1>7. CASE Unregistered(r)
  BY <1>5, <1>7 DEF Unregistered
<1>8. CASE Resolve(r)
  <2>1. PICK p \in Resolved(Head(T.rest)) :
          Goto(r, IF Active(p) /\ MayAsk(T.query.flavor, agreement[p])
                  THEN [T EXCEPT !.at = "dispatch", !.partner = p,
                                 !.agreed = agreement[p],
                                 !.filter = Filter(T.query, agreement[p])]
                  ELSE Refusal(T, p))
    BY <1>8 DEF Resolve
  <2>2. p \in Partners /\ At(r, "resolve") /\ OfOthers
    BY <1>8 DEF Resolve, Resolved
  <2>3. CASE ~ (Active(p) /\ MayAsk(T.query.flavor, agreement[p]))
    BY <1>5, <2>1, <2>2, <2>3
  <2>4. CASE Active(p) /\ MayAsk(T.query.flavor, agreement[p])
    <3> DEFINE F == Filter(T.query, agreement[p])
               U == [T EXCEPT !.at = "dispatch", !.partner = p,
                              !.agreed = agreement[p], !.filter = F]
    <3>1. Goto(r, U)
      BY <2>1, <2>4
    <3>2. Holds(T) /\ T # None /\ T.at = "resolve"
      BY <1>4, <2>2 DEF At
    <3> HIDE DEF F
    <3>3. /\ Shape(U) /\ U.at = "dispatch" /\ U.partner = p
          /\ U.agreed = agreement[p] /\ U.results = T.results
      BY <3>2 DEF Holds, Shape, Fields
    <3>4. <<p, agreement[p]>> \in inForce /\ agreement[p] \in Agreement
      BY <2>2, <2>4 DEF FInv, Active
    <3>5. Holds(U)
      BY <2>2, <3>2, <3>3, <3>4 DEF Holds
    <3>6. Kept(r, U)
      BY <2>2, <2>4, <3>1, <3>2, <3>3, <3>5 DEF Active, At
    <3> HIDE DEF U
    <3> QED BY <1>1, <3>6
  <2> QED BY <2>3, <2>4
<1>9. CASE Escalate(r)
  <2> DEFINE U == [T EXCEPT !.at = "log"]
  <2>1. Holds(T) /\ T.at = "escalate"
    BY <1>4, <1>9 DEF Escalate, At
  <2>2. /\ Shape(U) /\ U.at = "log" /\ U.partner = T.partner
        /\ U.accepted = T.accepted /\ U.results = T.results
    BY <2>1 DEF Holds, Shape, Fields
  <2>3. Holds(U)
    BY <2>1, <2>2 DEF Holds
  <2>4. Goto(r, U) /\ OfOthers
    BY <1>9 DEF Escalate
  <2>5. Kept(r, U)
    BY <2>2, <2>3, <2>4
  <2> HIDE DEF U
  <2> QED BY <1>1, <2>5
<1>10. CASE Raise(r)
  <2>1. Kept(r, None)
    BY <1>10 DEF Raise
  <2> QED BY <1>1, <2>1
<1>11. CASE LogQuery(r)
  <2> DEFINE R == T.results \cup Returned(T)
             U == [T EXCEPT !.at = "resolve", !.rest = Tail(@), !.results = R]
  <2>1. Holds(T) /\ T.at = "log" /\ OfOthers
    BY <1>4, <1>11 DEF LogQuery, At
  <2>2. Goto(r, IF Len(T.rest) = 1 THEN None ELSE U)
    BY <1>11 DEF LogQuery
  <2>3. CASE Len(T.rest) = 1
    <3>1. Kept(r, None)
      BY <2>1, <2>2, <2>3
    <3> QED BY <1>1, <3>1
  <2>4. CASE Len(T.rest) # 1
    <3>1. \A found \in R : Agreed(found[2], found[3])
      BY <2>1 DEF Holds, Returned
    <3> HIDE DEF R
    <3>2. Shape(U) /\ U.at = "resolve" /\ U.results = R
      BY <2>1 DEF Holds, Shape, Fields
    <3>3. Holds(U)
      BY <3>1, <3>2 DEF Holds
    <3>4. Kept(r, U)
      BY <2>1, <2>2, <2>4, <3>2, <3>3
    <3> HIDE DEF U
    <3> QED BY <1>1, <3>4
  <2> QED BY <2>3, <2>4
<1>12. ASSUME NEW rows \in Replies, Dispatch(r, rows)
       PROVE  FInv' /\ (Next \/ UNCHANGED vars)
  <2> DEFINE V == Violations(rows, T.partner, T.agreed)
             A == {x \in rows : Broken(x, T.partner, T.agreed) = {}}
             L == IF V = {} THEN "log" ELSE "escalate"
             C == Cardinality(V)
             U == [T EXCEPT !.at = L, !.accepted = A, !.violations = C]
  <2>1. Holds(T) /\ T.at = "dispatch" /\ OfOthers /\ Goto(r, U)
    BY <1>4, <1>12 DEF Dispatch, At
  <2>2. /\ T.partner \in Partners /\ T.agreed \in Agreement
        /\ <<T.partner, T.agreed>> \in inForce
    BY <2>1 DEF Holds
  <2>3. \A x \in A : Agreed(T.partner, x)
    <3>1. SUFFICES ASSUME NEW x \in A PROVE Agreed(T.partner, x)
      OBVIOUS
    <3>2. x \in ResultRow
      BY FederatedAssumption
    <3>3. ~ Unhashable(x, T.agreed)
      BY <1>12 DEF Dispatch
    <3>4. Conforms(x, T.partner, T.agreed)
      BY <2>2, <3>2, <3>3, CheckedConforms
    <3> QED BY <2>2, <3>4 DEF Agreed
  <2>4. L \in {"log", "escalate"}
    OBVIOUS
  <2> HIDE DEF A, L, C
  <2>5. /\ Shape(U) /\ U.at = L /\ U.accepted = A
        /\ U.partner = T.partner /\ U.results = T.results
    BY <2>1 DEF Holds, Shape, Fields
  <2>6. Holds(U)
    BY <2>1, <2>3, <2>4, <2>5 DEF Holds
  <2>7. Kept(r, U)
    BY <2>1, <2>4, <2>5, <2>6
  <2> HIDE DEF U
  <2> QED BY <1>1, <2>7
<1> QED BY <1>3, <1>6, <1>7, <1>8, <1>9, <1>10, <1>11, <1>12

\* Every step of an operator, or of time, is one of FederationTrust.
LEMMA TrustStep ==
    ASSUME FInv, Trust,
           inForce' = inForce \cup {<<p, agreement'[p]>> :
                                      p \in {q \in Partners : state'[q] = "ACTIVE"}}
    PROVE  FInv' /\ Next
<1>1. Next /\ UNCHANGED asked
  <2>1. ASSUME NEW o \in Operators, Operate(o) PROVE Next /\ UNCHANGED asked
    <3>1. Next
      BY <2>1 DEF Operate, Next
    <3>2. UNCHANGED asked
      BY <2>1 DEF Operate, Load, Open, Fill, AppendLedger, Crash, ActivateWrite,
                  ExpireRead, Handshake, ActivateRead, RunTestQuery, ExpireWrite,
                  RevokePartner, Countersign
    <3> QED BY <3>1, <3>2
  <2>2. ASSUME NEW p \in Partners, Elapse(p) PROVE Next /\ UNCHANGED asked
    BY <2>2 DEF Next, Elapse
  <2>3. ASSUME NEW o \in Operators, NEW p \in Partners, NEW u \in Until, NEW a,
               Register(o, p, u, a)
        PROVE  Next /\ UNCHANGED asked
    BY <2>3 DEF Next, Register, RegisterPartner
  <2> QED BY <2>1, <2>2, <2>3 DEF Trust
<1>2. UNCHANGED request
  BY DEF Trust, routerVars
<1>3. agreement' \in [Partners -> Agreement]
  BY FederatedAssumption DEF Trust, Register, FInv
<1>4. \A p \in Partners : state'[p] = "ACTIVE" => <<p, agreement'[p]>> \in inForce'
  OBVIOUS
<1>5. ASSUME NEW r \in Routers, request[r] # None PROVE Holds(request[r])'
  <2>1. Holds(request[r]) /\ request'[r] = request[r] /\ inForce \subseteq inForce'
    BY <1>2, <1>5 DEF FInv
  <2> QED BY <2>1 DEF Holds, Shape, Agreed
<1>6. FInv'
  BY <1>1, <1>2, <1>3, <1>4, <1>5 DEF FInv, Asking
<1> QED BY <1>1, <1>6

LEMMA FederatedStep ==
    ASSUME FInv, [FNext]_fvars
    PROVE  FInv' /\ [Next]_vars
<1>1. CASE FNext
  <2>1. inForce \subseteq inForce'
    BY <1>1 DEF FNext
  <2>2. CASE Trust
    BY <1>1, <2>2, TrustStep DEF FNext
  <2>3. CASE Federate
    BY <2>1, <2>3, FederateStep
  <2> QED BY <1>1, <2>2, <2>3 DEF FNext
<1>2. CASE UNCHANGED fvars
  <2>1. UNCHANGED <<vars, request, agreement, inForce, state, asked>>
    BY <1>2 DEF fvars, routerVars, vars
  <2>2. ASSUME NEW r \in Routers, request[r] # None PROVE Holds(request[r])'
    <3>1. Holds(request[r]) /\ request'[r] = request[r]
      BY <2>1, <2>2 DEF FInv
    <3> QED BY <2>1, <3>1 DEF Holds, Shape, Agreed
  <2>3. FInv'
    BY <2>1, <2>2 DEF FInv, Asking
  <2> QED BY <2>1, <2>3
<1> QED BY <1>1, <1>2

\* Beside routers that query and operators that declare agreements, partners
\* move as FederationTrust says: what is proved of it holds for them too.
THEOREM FederatedRefines == FSpec => Spec
<1>1. FInit => Init
  BY DEF FInit
<1>2. FInv /\ [FNext]_fvars => FInv' /\ [Next]_vars
  BY FederatedStep
<1> QED BY <1>1, <1>2, FInvInit, PTL DEF FSpec, Spec

\* Every row a query hands back conforms to an agreement that stood while its
\* partner was ACTIVE, for any routers, operators, agreements and answers.
THEOREM AnswersAgreedHolds == FSpec => []AnswersAgreed
<1>1. FInv => AnswersAgreed
  <2> SUFFICES ASSUME FInv, NEW r \in Routers, request[r] # None,
                      NEW found \in request[r].results \cup
                        (IF request[r].at = "log" THEN Returned(request[r]) ELSE {})
               PROVE  Agreed(found[2], found[3])
    BY DEF AnswersAgreed, Agreed
  <2>1. Holds(request[r])
    BY DEF FInv
  <2> QED BY <2>1 DEF Holds, Returned
<1>2. FInv /\ [FNext]_fvars => FInv'
  BY FederatedStep
<1> QED BY <1>1, <1>2, FInvInit, PTL DEF FSpec
=============================================================================
