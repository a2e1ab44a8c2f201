------------------------ MODULE ProposalReviewProofs ------------------------
(***************************************************************************)
(* Proofs about ProposalReview and Evolution, for any proposals, texts,    *)
(* candidates and writers.                                                 *)
(***************************************************************************)
EXTENDS Evolution, TLAPS

LEMMA TypeInit == Init => TypeOK
  BY NoneIsNoProposal DEF Init, TypeOK, Status, Decided

LEMMA TypeStep == TypeOK /\ [Next]_vars => TypeOK'
<1> SUFFICES ASSUME TypeOK, [Next]_vars PROVE TypeOK'
  OBVIOUS
<1> USE NoneIsNoProposal DEF decision, naming
<1>1. ASSUME NEW m \in SUBSET Proposals, NEW new \in [m -> Texts],
             Seed(new)
      PROVE  TypeOK'
  <2>1. \A p \in Proposals :
           /\ status'[p] \in Status
           /\ p \in m \/ status[p] # "ABSENT" => status'[p] # "ABSENT"
    BY <1>1 DEF Seed, StatusUpserted, TypeOK, Status
  <2>2. \A p \in Proposals : IF status'[p] = "ABSENT" THEN text'[p] = None
                                                      ELSE text'[p] \in Text
    <3>1. \A p \in m : [base |-> new[p], named |-> FALSE] \in Text
      BY DEF Text
    <3> QED BY <1>1, <2>1, <3>1 DEF Seed, TypeOK
  <2>3. status' \in [Proposals -> Status]
    BY <1>1, <2>1 DEF Seed
  <2> QED BY <1>1, <2>1, <2>2, <2>3 DEF Seed, TypeOK
<1>2. ASSUME NEW force \in BOOLEAN, NamerRead(force) PROVE TypeOK'
  <2>1. /\ DOMAIN renaming' \subseteq Proposals
        /\ \A p \in DOMAIN renaming' :
              renaming'[p] \in Text /\ status[p] # "ABSENT"
    BY <1>2 DEF NamerRead, TypeOK
  <2> QED BY <1>2, <2>1 DEF NamerRead, TypeOK
<1>3. ASSUME NEW done \in SUBSET Proposals, NamerWrite(done) PROVE TypeOK'
  <2>1. \A p \in done : Named(renaming[p]) \in Text /\ status[p] # "ABSENT"
    BY <1>3 DEF NamerWrite, TypeOK, Named, Text
  <2>2. \A p \in Proposals : IF status'[p] = "ABSENT" THEN text'[p] = None
                                                      ELSE text'[p] \in Text
    BY <1>3, <2>1 DEF NamerWrite, TypeOK
  <2>3. source' \in [Proposals -> {"auto", "llm"}]
    BY <1>3 DEF NamerWrite, SourceOf, TypeOK
  <2> QED BY <1>3, <2>2, <2>3 DEF NamerWrite, TypeOK
<1>4. ASSUME NEW p \in Proposals, NEW s \in Decided \cup {"PENDING"},
             NEW by \in {"nobody", "person", "policy"}, NEW rev \in BOOLEAN,
             status[p] # "ABSENT", Decide(p, s, by, rev),
             UNCHANGED <<naming, renaming>>, held' = held \/ Observed(p),
             todo' \in [Engines -> SUBSET Proposals],
             \A e \in Engines : todo'[e] \subseteq todo[e],
             revoking' \in [Revokers -> Proposals \cup {None}],
             \A r \in Revokers : revoking'[r] \in {revoking[r], None}
      PROVE  TypeOK'
  <2>1. s # "ABSENT" /\ s \in Status
    BY DEF Decided, Status
  <2>2. \A q \in Proposals : status'[q] = "ABSENT" <=> status[q] = "ABSENT"
    BY <1>4, <2>1 DEF Decide, TypeOK
  <2>3. /\ status' \in [Proposals -> Status]
        /\ reviewer' \in [Proposals -> {"nobody", "person", "policy"}]
        /\ revoked' \in [Proposals -> BOOLEAN]
    BY <1>4, <2>1 DEF Decide, TypeOK
  <2>4. \A q \in Proposals :
           \/ \E e \in Engines : q \in todo'[e]
           \/ \E r \in Revokers : revoking'[r] = q
           \/ renaming' # None /\ q \in DOMAIN renaming'
           => status[q] # "ABSENT"
    BY <1>4 DEF TypeOK
  <2>5. held' \in [Proposals -> SUBSET (Engines \cup Revokers)]
    BY <1>4 DEF Observed, Holding, TypeOK
  <2> QED BY <1>4, <2>2, <2>3, <2>4, <2>5 DEF TypeOK
<1>5. ASSUME NEW e \in Engines, NEW p \in Proposals, EngineSkip(e, p)
      PROVE  TypeOK'
  BY <1>5 DEF EngineSkip, TypeOK
<1>6. ASSUME NEW e \in Engines, EngineStart(e) PROVE TypeOK'
  BY <1>6 DEF EngineStart, Selectable, TypeOK
<1>7. ASSUME NEW e \in Engines, NEW p \in Proposals, NEW s \in Decided,
             EngineAct(e, p, s)
      PROVE  TypeOK'
  <2>1. /\ todo' \in [Engines -> SUBSET Proposals]
        /\ \A f \in Engines : todo'[f] \subseteq todo[f]
        /\ status[p] # "ABSENT"
    BY <1>7 DEF EngineAct, TypeOK
  <2> QED BY <1>4, <1>7, <2>1 DEF EngineAct, TypeOK
<1>8. ASSUME NEW r \in Revokers, NEW p \in Proposals, RevokeRead(r, p)
      PROVE  TypeOK'
  BY <1>8 DEF RevokeRead, Revocable, TypeOK
<1>9. ASSUME NEW r \in Revokers, RevokeWrite(r) PROVE TypeOK'
  <2>1. /\ revoking' \in [Revokers -> Proposals \cup {None}]
        /\ \A q \in Revokers : revoking'[q] \in {revoking[q], None}
        /\ revoking[r] \in Proposals
        /\ status[revoking[r]] # "ABSENT"
    BY <1>9 DEF RevokeWrite, TypeOK
  <2> QED BY <1>4, <1>9, <2>1 DEF RevokeWrite, TypeOK
<1>10. ASSUME NEW p \in Proposals, NEW s \in Decided,
              NEW by \in {"nobody", "person"}, RecordDecision(p, s, by)
       PROVE  TypeOK'
  <2>1. status[p] # "ABSENT" /\ Decide(p, s, by, FALSE) /\ Observed(p)
    BY <1>10 DEF RecordDecision
  <2>2. UNCHANGED <<naming, renaming, todo, revoking>>
    BY <1>10 DEF RecordDecision
  <2>3. UNCHANGED <<naming, renaming>>
    BY <2>2
  <2>4. /\ todo' \in [Engines -> SUBSET Proposals]
        /\ \A e \in Engines : todo'[e] \subseteq todo[e]
        /\ revoking' \in [Revokers -> Proposals \cup {None}]
        /\ \A r \in Revokers : revoking'[r] \in {revoking[r], None}
    BY <2>2 DEF TypeOK
  <2> QED BY <1>4, <2>1, <2>3, <2>4
<1>11. ASSUME NEW p \in Proposals, LogApprove(p) PROVE TypeOK'
  BY <1>4, <1>11 DEF LogApprove, TypeOK, Decided
<1>12. ASSUME UNCHANGED vars PROVE TypeOK'
  BY <1>12 DEF vars, TypeOK
<1> QED BY <1>1, <1>2, <1>3, <1>5, <1>6, <1>7, <1>8, <1>9, <1>10, <1>11,
           <1>12
        DEF Next, Review

\* The rows keep their types, and no writer holds a row that does not exist.
THEOREM TypeInvariant == Spec => []TypeOK
<1>1. Init => TypeOK
  BY TypeInit
<1>2. TypeOK /\ [Next]_vars => TypeOK'
  BY TypeStep
<1> QED BY <1>1, <1>2, PTL DEF Spec

-----------------------------------------------------------------------------
(* Names *)

\* A title composed by the language model always says so, however mining and
\* naming overwrite each other.
THEOREM LabelledHolds == Spec => []LabelledLLM
<1>1. Init => LabelledLLM
  BY DEF Init, LabelledLLM
<1>2. TypeOK /\ LabelledLLM /\ [Next]_vars => LabelledLLM'
  <2> SUFFICES ASSUME TypeOK, LabelledLLM, [Next]_vars PROVE LabelledLLM'
    OBVIOUS
  <2>1. ASSUME NEW m \in SUBSET Proposals, NEW new \in [m -> Texts],
             Seed(new)
        PROVE  LabelledLLM'
    <3>1. \A p \in m : text'[p].named = FALSE
      BY <2>1 DEF Seed
    <3>2. \A p \in Proposals \ m : text'[p] = text[p] /\ status'[p] = status[p]
      BY <2>1 DEF Seed
    <3> QED BY <2>1, <3>1, <3>2 DEF LabelledLLM, Seed
  <2>2. ASSUME NEW done \in SUBSET Proposals, NamerWrite(done)
        PROVE  LabelledLLM'
    BY <2>2 DEF NamerWrite, SourceOf, LabelledLLM, decision
  <2>3. CASE UNCHANGED naming /\ \A p \in Proposals :
                                    status'[p] # "ABSENT" => status[p] # "ABSENT"
    BY <2>3 DEF naming, LabelledLLM
  <2>4. ASSUME NEW p \in Proposals, NEW s, NEW by, NEW rev, UNCHANGED naming,
               Decide(p, s, by, rev), status[p] # "ABSENT"
        PROVE  LabelledLLM'
    BY <2>3, <2>4 DEF Decide, TypeOK
  <2>5. CASE UNCHANGED <<status, naming>>
    BY <2>3, <2>5
  <2>6. ASSUME NEW e \in Engines, NEW p \in Proposals, NEW s \in Decided,
               EngineAct(e, p, s)
        PROVE  LabelledLLM'
    <3>1. status[p] # "ABSENT"
      BY <2>6 DEF EngineAct, TypeOK
    <3> QED BY <2>4, <2>6, <3>1 DEF EngineAct, naming
  <2>7. ASSUME NEW r \in Revokers, RevokeWrite(r) PROVE LabelledLLM'
    <3>1. revoking[r] \in Proposals /\ status[revoking[r]] # "ABSENT"
      BY <2>7 DEF RevokeWrite, TypeOK
    <3> QED BY <2>4, <2>7, <3>1 DEF RevokeWrite, naming
  <2>8. ASSUME NEW p \in Proposals, NEW s, NEW by,
               RecordDecision(p, s, by) \/ LogApprove(p)
        PROVE  LabelledLLM'
    BY <2>4, <2>8 DEF RecordDecision, LogApprove, naming
  <2> QED BY <2>1, <2>2, <2>5, <2>6, <2>7, <2>8
          DEF Next, Review, NamerRead, EngineSkip, EngineStart, RevokeRead, vars,
              decision, naming
<1> QED BY <1>1, <1>2, TypeInvariant, PTL DEF Spec

-----------------------------------------------------------------------------
(* Decisions *)

\* Whoever holds a row a person has decided had read it before: an engine selects
\* waiting rows only, and a revocation finds those a policy approved.
HeldInv ==
    \A p \in Proposals : status[p] \in Decided /\ reviewer[p] # "policy" =>
        /\ \A e \in Engines : p \in todo[e] => e \in held[p]
        /\ \A r \in Revokers : revoking[r] = p => r \in held[p]

LEMMA HeldStep == TypeOK /\ HeldInv /\ [Next]_vars => HeldInv'
<1> SUFFICES ASSUME TypeOK, HeldInv, [Next]_vars PROVE HeldInv'
  OBVIOUS
<1> USE NoneIsNoProposal
<1>1. ASSUME NEW m \in SUBSET Proposals, NEW new \in [m -> Texts], Seed(new)
      PROVE  HeldInv'
  <2>1. \A p \in Proposals : status'[p] \in Decided => status'[p] = status[p]
    <3>1. TAKE p \in Proposals
    <3>2. status'[p] = IF p \in m THEN StatusUpserted(p) ELSE status[p]
      BY <1>1 DEF Seed
    <3> QED BY <3>2 DEF StatusUpserted, Decided
  <2> QED BY <1>1, <2>1 DEF Seed, HeldInv
<1>2. ASSUME UNCHANGED <<decision, todo, revoking>> PROVE HeldInv'
  BY <1>2 DEF HeldInv, decision
<1>3. ASSUME NEW e \in Engines, NEW p \in Proposals, EngineSkip(e, p)
      PROVE  HeldInv'
  BY <1>3 DEF EngineSkip, HeldInv, TypeOK, decision
<1>4. ASSUME NEW e \in Engines, EngineStart(e) PROVE HeldInv'
  <2>1. \A p \in todo'[e] : status[p] \notin Decided
    BY <1>4 DEF EngineStart, Selectable, TypeOK, Decided
  <2>2. \A f \in Engines \ {e} : todo'[f] = todo[f]
    BY <1>4 DEF EngineStart, TypeOK
  <2> QED BY <1>4, <2>1, <2>2 DEF EngineStart, HeldInv, decision
<1>5. ASSUME NEW p \in Proposals, NEW s, NEW by, NEW rev, Decide(p, s, by, rev),
             UNCHANGED held, by = "policy" \/ s \notin Decided,
             \A e \in Engines : todo'[e] \subseteq todo[e],
             \A r \in Revokers : revoking'[r] \in {revoking[r], None}
      PROVE  HeldInv'
  <2>1. status'[p] \in Decided => reviewer'[p] = "policy"
    BY <1>5 DEF Decide, TypeOK
  <2>2. \A q \in Proposals \ {p} :
           status'[q] = status[q] /\ reviewer'[q] = reviewer[q]
    BY <1>5 DEF Decide, TypeOK
  <2> QED BY <1>5, <2>1, <2>2 DEF HeldInv
<1>6. ASSUME NEW e \in Engines, NEW p \in Proposals, NEW s \in Decided,
             EngineAct(e, p, s)
      PROVE  HeldInv'
  <2>1. \A f \in Engines : todo'[f] \subseteq todo[f]
    BY <1>6 DEF EngineAct, TypeOK
  <2> QED BY <1>5, <1>6, <2>1 DEF EngineAct
<1>7. ASSUME NEW r \in Revokers, NEW p \in Proposals, RevokeRead(r, p)
      PROVE  HeldInv'
  <2>1. reviewer[p] = "policy"
    BY <1>7 DEF RevokeRead, Revocable
  <2>2. \A q \in Revokers : revoking'[q] \in {revoking[q], p}
    BY <1>7 DEF RevokeRead, TypeOK
  <2> QED BY <1>7, <2>1, <2>2 DEF RevokeRead, HeldInv, decision
<1>8. ASSUME NEW r \in Revokers, RevokeWrite(r) PROVE HeldInv'
  <2>1. /\ revoking[r] \in Proposals
        /\ \A q \in Revokers : revoking'[q] \in {revoking[q], None}
        /\ "PENDING" \notin Decided
    BY <1>8 DEF RevokeWrite, TypeOK, Decided
  <2> QED BY <1>5, <1>8, <2>1 DEF RevokeWrite
<1>9. ASSUME NEW p \in Proposals, NEW s, NEW by, NEW rev, Decide(p, s, by, rev),
             Observed(p), UNCHANGED <<todo, revoking>>
      PROVE  HeldInv'
  <2>1. held'[p] = Holding(p)
    BY <1>9 DEF Observed, TypeOK
  <2>2. \A q \in Proposals \ {p} : /\ status'[q] = status[q]
                                    /\ reviewer'[q] = reviewer[q]
                                    /\ held'[q] = held[q]
    BY <1>9 DEF Decide, Observed, TypeOK
  <2> QED BY <1>9, <2>1, <2>2 DEF HeldInv, Holding
<1>10. ASSUME NEW p \in Proposals, NEW s, NEW by,
              RecordDecision(p, s, by) \/ LogApprove(p)
       PROVE  HeldInv'
  BY <1>9, <1>10 DEF RecordDecision, LogApprove
<1>11. CASE UNCHANGED vars
  BY <1>2, <1>11 DEF vars, decision
<1>12. CASE \/ \E force \in BOOLEAN : NamerRead(force)
            \/ \E done \in SUBSET Proposals : NamerWrite(done)
  BY <1>2, <1>12 DEF NamerRead, NamerWrite
<1> QED BY <1>1, <1>3, <1>4, <1>6, <1>7, <1>8, <1>10, <1>11, <1>12
        DEF Next, Review

\* A person's decision is overwritten by a policy or a revocation only if that
\* one had read the row before the decision; it holds of any number of either.
THEOREM DecisionStandsHolds == Spec => DecisionStands
<1> DEFINE Changed(p) == /\ status[p] \in Decided /\ reviewer[p] # "policy"
                         /\ reviewer'[p] = "policy" \/ status'[p] \notin Decided
           Excused(p) == \/ \E e \in Engines \cap held[p] :
                               p \in todo[e] \ todo'[e]
                         \/ \E r \in Revokers \cap held[p] :
                               revoking[r] = p /\ revoking'[r] = None
           Stands == \A p \in Proposals : Changed(p) => Excused(p)
<1>1. Init => HeldInv
  BY DEF Init, HeldInv, Decided
<1>2. ASSUME TypeOK, HeldInv, [Next]_vars PROVE [Stands]_vars
  <2>1. SUFFICES ASSUME Next, NEW p \in Proposals, Changed(p) PROVE Excused(p)
    BY <1>2
  <2>2. ASSUME NEW m \in SUBSET Proposals, NEW new \in [m -> Texts], Seed(new)
        PROVE  FALSE
    BY <1>2, <2>1, <2>2 DEF Seed, StatusUpserted, Decided
  <2>3. ASSUME NEW q \in Proposals, NEW s, NEW by, NEW rev, Decide(q, s, by, rev)
        PROVE  p = q /\ (by = "policy" \/ s \notin Decided)
    BY <1>2, <2>1, <2>3 DEF Decide, TypeOK
  <2>4. ASSUME NEW e \in Engines, NEW q \in Proposals, NEW s \in Decided,
               EngineAct(e, q, s)
        PROVE  Excused(p)
    <3>1. p = q
      BY <2>3, <2>4 DEF EngineAct
    <3>2. p \in todo[e] /\ p \notin todo'[e]
      BY <1>2, <2>4, <3>1 DEF EngineAct, TypeOK
    <3>3. e \in held[p]
      BY <1>2, <2>1, <3>2 DEF HeldInv
    <3> QED BY <3>2, <3>3
  <2>5. ASSUME NEW r \in Revokers, RevokeWrite(r) PROVE Excused(p)
    <3>1. revoking[r] \in Proposals /\ revoking'[r] = None
      BY <1>2, <2>5 DEF RevokeWrite, TypeOK
    <3>2. p = revoking[r]
      BY <2>3, <2>5, <3>1 DEF RevokeWrite
    <3>3. r \in held[p]
      BY <1>2, <2>1, <3>2 DEF HeldInv
    <3> QED BY <3>1, <3>2, <3>3
  <2>6. ASSUME NEW q \in Proposals, NEW s \in Decided,
               NEW by \in {"nobody", "person"}, RecordDecision(q, s, by)
        PROVE  FALSE
    BY <2>3, <2>6 DEF RecordDecision
  <2>7. ASSUME NEW q \in Proposals, LogApprove(q) PROVE FALSE
    BY <2>3, <2>7 DEF LogApprove, Decided
  <2>8. ASSUME \/ \E force \in BOOLEAN : NamerRead(force)
               \/ \E done \in SUBSET Proposals : NamerWrite(done)
               \/ \E e \in Engines, q \in Proposals : EngineSkip(e, q)
               \/ \E e \in Engines : EngineStart(e)
               \/ \E r \in Revokers, q \in Proposals : RevokeRead(r, q)
        PROVE  FALSE
    <3>1. UNCHANGED decision
      BY <2>8 DEF NamerRead, NamerWrite, EngineSkip, EngineStart, RevokeRead
    <3> QED BY <2>1, <3>1 DEF decision
  <2> QED BY <2>1, <2>2, <2>4, <2>5, <2>6, <2>7, <2>8 DEF Next, Review
<1> QED BY <1>1, <1>2, HeldStep, TypeInvariant, PTL DEF Spec, DecisionStands

\* A decided row waits again only because somebody revoked the decision; no
\* mining run, naming, policy or second reviewer brings it back.
THEOREM NoResurfaceHolds == Spec => NoResurface
<1> DEFINE Stays == \A p \in Proposals :
                       status[p] \in Decided /\ status'[p] = "PENDING"
                       => revoked'[p]
<1>1. ASSUME TypeOK, [Next]_vars PROVE [Stays]_vars
  <2>1. SUFFICES ASSUME Next, NEW p \in Proposals,
                        status[p] \in Decided, status'[p] = "PENDING"
                 PROVE  revoked'[p]
    BY <1>1
  <2>2. status[p] # "PENDING" /\ status[p] # "ABSENT"
    BY <2>1 DEF Decided
  <2>3. ASSUME NEW q \in Proposals, NEW s \in Decided, NEW by, NEW rev,
               Decide(q, s, by, rev)
        PROVE  FALSE
    <3>1. status' = [status EXCEPT ![q] = s] /\ s # "PENDING"
      BY <2>3 DEF Decide, Decided
    <3> QED BY <1>1, <2>1, <2>2, <3>1 DEF TypeOK
  <2>4. ASSUME NEW m \in SUBSET Proposals, NEW new \in [m -> Texts],
             Seed(new)
        PROVE  FALSE
    BY <2>1, <2>2, <2>4 DEF Seed, StatusUpserted
  <2>5. ASSUME NEW e \in Engines, NEW q \in Proposals, NEW s \in Decided,
               EngineAct(e, q, s)
        PROVE  FALSE
    BY <2>3, <2>5 DEF EngineAct
  <2>6. ASSUME NEW r \in Revokers, RevokeWrite(r) PROVE revoked'[p]
    <3>1. revoking[r] \in Proposals
      BY <1>1, <2>6 DEF RevokeWrite, TypeOK
    <3>2. p = revoking[r]
      BY <1>1, <2>1, <2>2, <2>6 DEF RevokeWrite, Decide, TypeOK
    <3> QED BY <1>1, <2>6, <3>1, <3>2 DEF RevokeWrite, Decide, TypeOK
  <2>7. ASSUME NEW q \in Proposals, NEW s \in Decided, NEW by,
               RecordDecision(q, s, by)
        PROVE  FALSE
    BY <2>3, <2>7 DEF RecordDecision
  <2>8. ASSUME NEW q \in Proposals, LogApprove(q) PROVE FALSE
    <3>1. "APPROVED" \in Decided
      BY DEF Decided
    <3> QED BY <2>3, <2>8, <3>1 DEF LogApprove
  <2> QED BY <2>1, <2>2, <2>4, <2>5, <2>6, <2>7, <2>8
          DEF Next, Review, NamerRead, NamerWrite, EngineSkip, EngineStart, RevokeRead,
              decision
<1> QED BY <1>1, TypeInvariant, PTL DEF Spec, NoResurface

-----------------------------------------------------------------------------
(* Revocations *)

\* What one engine may rely on: a row it still has to look at was never
\* decided by a policy since it selected it, and is not being revoked.
EngineInv ==
    /\ \A p \in Proposals : status[p] \in {"ABSENT", "PENDING"} /\ ~ revoked[p]
                            => reviewer[p] = "nobody"
    /\ \A p \in Proposals : status[p] = "ABSENT" => ~ revoked[p]
    /\ \A r \in Revokers : revoking[r] # None
                           => \/ status[revoking[r]] \in Decided
                              \/ revoked[revoking[r]]
    /\ \A e \in Engines : \A p \in todo[e] :
          /\ reviewer[p] # "policy"
          /\ ~ (status[p] = "PENDING" /\ revoked[p])
          /\ \A r \in Revokers : revoking[r] # p

LEMMA EngineInit == Init => EngineInv
  BY DEF Init, EngineInv

LEMMA EngineInvStep ==
    ASSUME \A d, e \in Engines : d = e
    PROVE  TypeOK /\ EngineInv /\ [Next]_vars => EngineInv'
<1> SUFFICES ASSUME TypeOK, EngineInv, [Next]_vars PROVE EngineInv'
  OBVIOUS
<1> USE NoneIsNoProposal DEF decision
<1>1. ASSUME NEW m \in SUBSET Proposals, NEW new \in [m -> Texts],
             Seed(new)
      PROVE  EngineInv'
  <2>1. \A p \in Proposals :
            \/ status'[p] = status[p]
            \/ (status[p] = "ABSENT" /\ status'[p] = "PENDING")
    <3>1. TAKE p \in Proposals
    <3>2. status'[p] = IF p \in m THEN StatusUpserted(p) ELSE status[p]
      BY <1>1 DEF Seed
    <3> QED BY <3>2 DEF StatusUpserted
  <2>2. \A e \in Engines : \A p \in todo[e] : status'[p] = status[p]
    BY <2>1 DEF TypeOK
  <2>3. \A r \in Revokers : revoking[r] # None
                            => status'[revoking[r]] = status[revoking[r]]
    BY <2>1 DEF TypeOK
  <2>4. \A r \in Revokers : revoking'[r] # None
                            => \/ status'[revoking'[r]] \in Decided
                               \/ revoked'[revoking'[r]]
    BY <1>1, <2>3 DEF Seed, EngineInv
  <2> QED BY <1>1, <2>1, <2>2, <2>4 DEF Seed, EngineInv
<1>2. ASSUME UNCHANGED <<decision, todo, revoking>> PROVE EngineInv'
  BY <1>2 DEF EngineInv
<1>3. ASSUME NEW e \in Engines, NEW p \in Proposals, EngineSkip(e, p)
      PROVE  EngineInv'
  BY <1>3 DEF EngineSkip, EngineInv, TypeOK
<1>4. ASSUME NEW e \in Engines, EngineStart(e) PROVE EngineInv'
  <2>1. todo'[e] = {p \in Proposals : Selectable(p)}
    BY <1>4 DEF EngineStart, TypeOK
  <2>2. \A p \in todo'[e] : reviewer[p] = "nobody" /\ ~ revoked[p]
    BY <2>1 DEF Selectable, EngineInv
  <2>3. \A p \in todo'[e] : \A r \in Revokers : revoking[r] # p
    BY <2>1, <2>2 DEF EngineInv, Selectable, Decided
  <2> QED BY <1>4, <2>2, <2>3 DEF EngineStart, EngineInv
<1>5. ASSUME NEW e \in Engines, NEW p \in Proposals, NEW s \in Decided,
             EngineAct(e, p, s)
      PROVE  EngineInv'
  <2>1. /\ reviewer' = [reviewer EXCEPT ![p] = "policy"]
        /\ status' = [status EXCEPT ![p] = s]
        /\ revoked' = [revoked EXCEPT ![p] = FALSE]
        /\ todo'[e] = todo[e] \ {p}
        /\ UNCHANGED revoking
    BY <1>5 DEF EngineAct, Decide, TypeOK
  <2>2. \A d \in Engines : d = e
    OBVIOUS
  <2> QED BY <2>1, <2>2 DEF EngineInv, TypeOK, Decided
<1>6. ASSUME NEW r \in Revokers, NEW p \in Proposals, RevokeRead(r, p)
      PROVE  EngineInv'
  BY <1>6 DEF RevokeRead, Revocable, EngineInv, TypeOK, Decided
<1>7. ASSUME NEW r \in Revokers, RevokeWrite(r) PROVE EngineInv'
  <2> DEFINE p == revoking[r]
  <2>1. p \in Proposals /\ p # None /\ \A e \in Engines : p \notin todo[e]
    BY <1>7 DEF RevokeWrite, EngineInv, TypeOK
  <2>2. /\ reviewer' = [reviewer EXCEPT ![p] = "person"]
        /\ status' = [status EXCEPT ![p] = "PENDING"]
        /\ revoked' = [revoked EXCEPT ![p] = TRUE]
        /\ revoking' = [revoking EXCEPT ![r] = None]
        /\ UNCHANGED todo
    BY <1>7 DEF RevokeWrite, Decide
  <2> HIDE DEF p
  <2> QED BY <2>1, <2>2 DEF EngineInv, TypeOK
<1>8. ASSUME NEW p \in Proposals, NEW s \in Decided, NEW rev \in BOOLEAN,
             NEW by \in {"nobody", "person"}, Decide(p, s, by, rev),
             UNCHANGED <<todo, revoking>>
      PROVE  EngineInv'
  BY <1>8 DEF Decide, EngineInv, TypeOK, Decided
<1>9. ASSUME NEW p \in Proposals, NEW s \in Decided,
             NEW by \in {"nobody", "person"}, RecordDecision(p, s, by)
      PROVE  EngineInv'
  BY <1>8, <1>9 DEF RecordDecision
<1>10. ASSUME NEW p \in Proposals, LogApprove(p) PROVE EngineInv'
  <2>1. "APPROVED" \in Decided /\ revoked[p] \in BOOLEAN
    BY DEF Decided, TypeOK
  <2> QED BY <1>8, <1>10, <2>1 DEF LogApprove
<1>11. CASE UNCHANGED vars
  BY <1>2, <1>11 DEF vars
<1>12. CASE \/ \E force \in BOOLEAN : NamerRead(force)
            \/ \E done \in SUBSET Proposals : NamerWrite(done)
  BY <1>2, <1>12 DEF NamerRead, NamerWrite
<1> QED BY <1>1, <1>3, <1>4, <1>5, <1>6, <1>7, <1>9, <1>10, <1>11,
           <1>12 DEF Next, Review

\* With one PolicyEngine at a time, a row a reviewer took back from a policy is
\* next decided by no policy, whatever revocations, seeds and decisions come
\* between the engine's SELECT and its UPDATEs.
THEOREM RevocationHolds ==
    ASSUME \A d, e \in Engines : d = e
    PROVE  Spec => RevocationStands
<1>1. Init => TypeOK /\ EngineInv
  BY TypeInit, EngineInit
<1>2. TypeOK /\ EngineInv /\ [Next]_vars => TypeOK' /\ EngineInv'
  BY TypeStep, EngineInvStep
<1> DEFINE Stands == \A p \in Proposals :
                        /\ status[p] = "PENDING" /\ revoked[p]
                        /\ status'[p] # status[p] \/ reviewer'[p] # reviewer[p]
                        => reviewer'[p] # "policy"
<1>3. ASSUME TypeOK, EngineInv, [Next]_vars PROVE [Stands]_vars
  <2>1. SUFFICES ASSUME Next, NEW p \in Proposals,
                        status[p] = "PENDING", revoked[p],
                        status'[p] # status[p] \/ reviewer'[p] # reviewer[p]
                 PROVE  reviewer'[p] # "policy"
    BY <1>3
  <2>2. ASSUME NEW q \in Proposals, NEW s, NEW by \in {"nobody", "person"},
               NEW rev, Decide(q, s, by, rev)
        PROVE  reviewer'[p] # "policy"
    BY <1>3, <2>1, <2>2 DEF Decide, TypeOK
  <2>3. ASSUME NEW e \in Engines, NEW q \in Proposals, NEW s \in Decided,
               EngineAct(e, q, s)
        PROVE  FALSE
    <3>1. p # q
      BY <1>3, <2>1, <2>3 DEF EngineAct, EngineInv
    <3> QED BY <2>1, <2>3, <3>1 DEF EngineAct, Decide
  <2>4. ASSUME NEW m \in SUBSET Proposals, NEW new \in [m -> Texts],
             Seed(new)
        PROVE  FALSE
    BY <2>1, <2>4 DEF Seed, StatusUpserted
  <2>5. ASSUME NEW r \in Revokers, RevokeWrite(r) PROVE reviewer'[p] # "policy"
    <3>1. revoking[r] \in Proposals
      BY <1>3, <2>5 DEF RevokeWrite, TypeOK
    <3> QED BY <2>2, <2>5, <3>1 DEF RevokeWrite
  <2>6. ASSUME NEW q \in Proposals, NEW s, NEW by \in {"nobody", "person"},
               RecordDecision(q, s, by)
        PROVE  reviewer'[p] # "policy"
    BY <2>2, <2>6 DEF RecordDecision
  <2>7. ASSUME NEW q \in Proposals, LogApprove(q) PROVE reviewer'[p] # "policy"
    BY <2>2, <2>7 DEF LogApprove
  <2>8. ASSUME \/ \E force \in BOOLEAN : NamerRead(force)
               \/ \E done \in SUBSET Proposals : NamerWrite(done)
               \/ \E e \in Engines, q \in Proposals : EngineSkip(e, q)
               \/ \E e \in Engines : EngineStart(e)
               \/ \E r \in Revokers, q \in Proposals : RevokeRead(r, q)
        PROVE  FALSE
    <3>1. UNCHANGED decision
      BY <2>8 DEF NamerRead, NamerWrite, EngineSkip, EngineStart, RevokeRead
    <3> QED BY <2>1, <3>1 DEF decision
  <2> QED BY <2>1, <2>3, <2>4, <2>5, <2>6, <2>7, <2>8 DEF Next, Review
<1> QED BY <1>1, <1>2, <1>3, PTL DEF Spec, RevocationStands

-----------------------------------------------------------------------------
(* The monitor *)

\* What the monitor does to a row, mining could do to it: all that holds of
\* ProposalReview, the theorems above too, holds beside the monitor.
LEMMA MonitorStep == [ENext]_evars => [Next]_vars
<1> SUFFICES ASSUME [ENext]_evars PROVE [Next]_vars
  OBVIOUS
<1>1. ASSUME NEW rows \in SUBSET Mined, NEW new \in [rows -> Texts \ Candidates],
             Seed(new)
      PROVE  Next
  <2>1. rows \in SUBSET Proposals /\ new \in [rows -> Texts]
    BY MinedAssumption
  <2> QED BY <1>1, <2>1 DEF Next
<1>2. ASSUME NEW m \in Monitors, NEW rows \in SUBSET (Proposals \ Mined),
             NEW new \in [rows -> Candidates], Insert(m, new)
      PROVE  Next
  <2>1. rows \in SUBSET Proposals /\ new \in [rows -> Texts]
    BY CandidatesAssumption
  <2> QED BY <1>2, <2>1 DEF Next, Insert
<1>3. ASSUME NEW m \in Monitors, MonitorNext(m) PROVE Next \/ UNCHANGED vars
  BY <1>2, <1>3 DEF MonitorNext, MonitorStart, Detect, Check, InsertFails,
                    MonitorEnd
<1> QED BY <1>1, <1>3 DEF ENext, Next, evars

THEOREM EvolutionRefines == ESpec => Spec
<1>1. EInit => Init
  BY DEF EInit
<1> QED BY <1>1, MonitorStep, PTL DEF ESpec, Spec

\* A row that waits under its mechanical title and that nobody sent back.
Bare(p, c) == /\ status[p] = "PENDING" /\ ~ revoked[p]
              /\ text[p] = [base |-> c, named |-> FALSE]

Runs == [left : SUBSET Strategies, found : SUBSET Candidates,
         chosen : Candidates \cup {None}]

\* A candidate has one such row, and none while a monitor is about to insert it.
MonInv ==
    /\ mon \in [Monitors -> Runs \cup {None}]
    /\ \A c \in Candidates : \A p, q \in Proposals :
          Bare(p, c) /\ Bare(q, c) => p = q
    /\ \A m \in Monitors : mon[m] # None /\ mon[m].chosen # None
          => \A p \in Proposals : ~ Bare(p, mon[m].chosen)

\* No decision, name or mining run makes such a row of one that was none.
LEMMA BareStep ==
    ASSUME TypeOK, NEW p \in Proposals, NEW c \in Candidates, Bare(p, c)',
           \/ Review
           \/ \E rows \in SUBSET Mined : \E new \in [rows -> Texts \ Candidates] :
                 Seed(new)
           \/ UNCHANGED vars
    PROVE  Bare(p, c)
<1> USE DEF Bare, decision, naming
<1>1. ASSUME NEW q \in Proposals, NEW s, NEW by, NEW rev, UNCHANGED naming,
             Decide(q, s, by, rev), s \in Decided \/ rev
      PROVE  Bare(p, c)
  <2>1. CASE p = q
    BY <1>1, <2>1 DEF Decide, Decided, TypeOK
  <2>2. CASE p # q
    BY <1>1, <2>2 DEF Decide, TypeOK
  <2> QED BY <2>1, <2>2
<1>2. ASSUME NEW done \in SUBSET Proposals, NamerWrite(done) PROVE Bare(p, c)
  <2>1. p \in done => text'[p].named = TRUE
    <3>1. SUFFICES ASSUME p \in done PROVE Named(renaming[p]).named = TRUE
      BY <1>2 DEF NamerWrite
    <3>2. renaming[p] \in Text
      BY <1>2, <3>1 DEF NamerWrite, TypeOK
    <3> QED BY <3>2 DEF Named, Text
  <2>2. text'[p].named = FALSE
    OBVIOUS
  <2> QED BY <1>2, <2>1, <2>2 DEF NamerWrite
<1>3. ASSUME NEW rows \in SUBSET Mined, NEW new \in [rows -> Texts \ Candidates],
             Seed(new)
      PROVE  Bare(p, c)
  <2>1. text'[p].base = c
    OBVIOUS
  <2>2. p \notin rows
    BY <1>3, <2>1 DEF Seed
  <2> QED BY <1>3, <2>2 DEF Seed
<1>4. ASSUME NEW e \in Engines, NEW q \in Proposals, NEW s \in Decided,
             EngineAct(e, q, s)
      PROVE  Bare(p, c)
  BY <1>1, <1>4 DEF EngineAct
<1>5. ASSUME NEW r \in Revokers, RevokeWrite(r) PROVE Bare(p, c)
  <2>1. revoking[r] \in Proposals
    BY <1>5 DEF RevokeWrite, TypeOK
  <2> QED BY <1>1, <1>5, <2>1 DEF RevokeWrite
<1>6. ASSUME NEW q \in Proposals, NEW s \in Decided, NEW by,
             RecordDecision(q, s, by)
      PROVE  Bare(p, c)
  BY <1>1, <1>6 DEF RecordDecision
<1>7. ASSUME NEW q \in Proposals, LogApprove(q) PROVE Bare(p, c)
  <2>1. "APPROVED" \in Decided
    BY DEF Decided
  <2> QED BY <1>1, <1>7, <2>1 DEF LogApprove
<1>8. ASSUME UNCHANGED <<decision, naming>> PROVE Bare(p, c)
  BY <1>8
<1> QED BY <1>2, <1>3, <1>4, <1>5, <1>6, <1>7, <1>8
        DEF Review, NamerRead, EngineSkip, EngineStart, RevokeRead, vars

LEMMA MonInvStep ==
    ASSUME \A m, n \in Monitors : m = n
    PROVE  TypeOK /\ MonInv /\ [ENext]_evars => MonInv'
<1> SUFFICES ASSUME TypeOK, MonInv, [ENext]_evars PROVE MonInv'
  OBVIOUS
<1>1. ASSUME UNCHANGED mon,
             \A p \in Proposals, c \in Candidates : Bare(p, c)' => Bare(p, c)
      PROVE  MonInv'
  BY <1>1 DEF MonInv, Runs
<1>2. ASSUME UNCHANGED vars, NEW m \in Monitors,
             NEW x \in Runs \cup {None},
             mon' = [mon EXCEPT ![m] = x],
             x # None /\ x.chosen # None
             => \A p \in Proposals : ~ Bare(p, x.chosen)
      PROVE  MonInv'
  <2>1. \A p, c : Bare(p, c)' <=> Bare(p, c)
    BY <1>2 DEF Bare, vars
  <2>2. mon' \in [Monitors -> Runs \cup {None}]
    BY <1>2 DEF MonInv
  <2>3. \A n \in Monitors : mon'[n] = x
    BY <1>2 DEF MonInv
  <2>4. \A c \in Candidates : \A p, q \in Proposals :
           Bare(p, c)' /\ Bare(q, c)' => p = q
    BY <2>1 DEF MonInv
  <2>5. ASSUME NEW n \in Monitors, mon'[n] # None, mon'[n].chosen # None,
               NEW p \in Proposals
        PROVE  ~ Bare(p, mon[n].chosen)'
    <3>1. ~ Bare(p, x.chosen)
      BY <1>2, <2>3, <2>5
    <3>2. mon'[n].chosen = x.chosen
      BY <2>3
    <3> QED BY <1>2, <3>1, <3>2 DEF Bare, vars
  <2> QED BY <2>2, <2>4, <2>5 DEF MonInv
<1>3. ASSUME NEW m \in Monitors, NEW ss \in SUBSET Strategies, MonitorStart(m, ss)
      PROVE  MonInv'
  <2>1. NewRun(ss) \in Runs /\ NewRun(ss).chosen = None
    BY DEF NewRun, Runs
  <2> QED BY <1>2, <1>3, <2>1 DEF MonitorStart
<1>4. ASSUME NEW m \in Monitors, mon[m] # None,
             \/ \E s \in Strategies, found \in SUBSET Candidates :
                   Detect(m, s, found)
             \/ \E c \in Candidates : Check(m, c)
             \/ InsertFails(m)
      PROVE  MonInv'
  <2>1. mon[m] \in Runs
    BY <1>4 DEF MonInv
  <2>2. ASSUME NEW s \in Strategies, NEW found \in SUBSET Candidates,
               Detect(m, s, found)
        PROVE  MonInv'
    <3> DEFINE x == [mon[m] EXCEPT !.left = @ \ {s}, !.found = found]
    <3>1. x \in Runs /\ x.chosen = None /\ mon' = [mon EXCEPT ![m] = x]
      BY <2>1, <2>2 DEF Detect, Between, Runs
    <3> HIDE DEF x
    <3> QED BY <1>2, <2>2, <3>1 DEF Detect
  <2>3. ASSUME NEW c \in Candidates, Check(m, c) PROVE MonInv'
    <3> DEFINE x == [mon[m] EXCEPT !.found = @ \ {c},
                                   !.chosen = IF Twin(c) THEN None ELSE c]
    <3>1. x \in Runs /\ mon' = [mon EXCEPT ![m] = x]
      BY <2>1, <2>3 DEF Check, Runs
    <3>2. x.chosen # None => x.chosen = c /\ ~ Twin(c)
      BY <2>1 DEF Runs
    <3>3. ~ Twin(c) => \A p \in Proposals : ~ Bare(p, c)
      BY DEF Twin, Bare
    <3> HIDE DEF x
    <3>4. x.chosen # None => \A p \in Proposals : ~ Bare(p, x.chosen)
      BY <3>2, <3>3
    <3> QED BY <1>2, <2>3, <3>1, <3>4 DEF Check
  <2>4. ASSUME InsertFails(m) PROVE MonInv'
    <3> DEFINE x == [mon[m] EXCEPT !.found = {}, !.chosen = None]
    <3>1. x \in Runs /\ x.chosen = None /\ mon' = [mon EXCEPT ![m] = x]
      BY <2>1, <2>4 DEF InsertFails, Runs
    <3> HIDE DEF x
    <3> QED BY <1>2, <2>4, <3>1 DEF InsertFails
  <2> QED BY <1>4, <2>2, <2>3, <2>4
<1>5. ASSUME NEW m \in Monitors, MonitorEnd(m) PROVE MonInv'
  BY <1>2, <1>5 DEF MonitorEnd
<1>6. ASSUME NEW m \in Monitors, NEW rows \in SUBSET (Proposals \ Mined),
             NEW new \in [rows -> Candidates], Insert(m, new)
      PROVE  MonInv'
  <2> DEFINE x == [mon[m] EXCEPT !.found = {}, !.chosen = None]
  <2>1. /\ mon[m] # None /\ mon[m].chosen # None
        /\ mon[m] \in Runs
    BY <1>6 DEF Insert, MonInv
  <2>2. x \in Runs /\ x.chosen = None /\ mon' = [mon EXCEPT ![m] = x]
    <3>1. mon' = [mon EXCEPT ![m].found = {}, ![m].chosen = None]
      BY <1>6 DEF Insert
    <3> QED BY <2>1, <3>1 DEF Runs
  <2> HIDE DEF x
  <2>3. \A p \in Proposals, c \in Candidates :
           Bare(p, c)' => Bare(p, c) \/ (p \in rows /\ new[p] = c)
    <3>1. TAKE p \in Proposals, c \in Candidates
    <3>2. CASE p \notin rows
      BY <1>6, <3>2 DEF Insert, Seed, Bare
    <3>3. CASE p \in rows
      <4>1. text'[p] = [base |-> new[p], named |-> FALSE]
        BY <1>6, <3>3 DEF Insert, Seed
      <4> QED BY <3>3, <4>1 DEF Bare
    <3> QED BY <3>2, <3>3
  <2>4. \A p \in rows : \A q \in Proposals : ~ Bare(q, new[p])
    <3>1. TAKE p \in rows
    <3>2. new[p] \in {mon[m].chosen} \cup {c \in mon[m].found : ~ Twin(c)}
      BY <1>6 DEF Insert
    <3>3. CASE new[p] = mon[m].chosen
      BY <2>1, <3>3 DEF MonInv
    <3>4. CASE ~ Twin(new[p])
      BY <3>4 DEF Twin, Bare
    <3> QED BY <3>2, <3>3, <3>4
  <2>5. \A p, q \in rows : new[p] = new[q] => p = q
    BY <1>6 DEF Insert
  <2>6. \A c \in Candidates : \A p, q \in Proposals :
           Bare(p, c)' /\ Bare(q, c)' => p = q
    <3>1. TAKE c \in Candidates
    <3>2. TAKE p, q \in Proposals
    <3>3. CASE p \in rows /\ new[p] = c
      BY <2>3, <2>4, <2>5, <3>3
    <3>4. CASE q \in rows /\ new[q] = c
      BY <2>3, <2>4, <2>5, <3>4
    <3>5. CASE Bare(p, c) /\ Bare(q, c)
      BY <3>5 DEF MonInv
    <3> QED BY <2>3, <3>3, <3>4, <3>5
  <2>7. \A n \in Monitors : n = m
    OBVIOUS
  <2>8. \A n \in Monitors : mon'[n] = x
    BY <2>1, <2>2, <2>7 DEF MonInv
  <2> QED BY <2>2, <2>6, <2>8 DEF MonInv
<1>7. ASSUME NEW rows \in SUBSET Mined, NEW new \in [rows -> Texts \ Candidates],
             Seed(new), UNCHANGED mon
      PROVE  MonInv'
  BY <1>1, <1>7, BareStep
<1>8. ASSUME Review, UNCHANGED mon PROVE MonInv'
  BY <1>1, <1>8, BareStep
<1>9. ASSUME UNCHANGED evars PROVE MonInv'
  BY <1>1, <1>9, BareStep DEF evars
<1>10. ASSUME NEW m \in Monitors, MonitorNext(m) PROVE MonInv'
  BY <1>3, <1>4, <1>5, <1>6, <1>10
     DEF MonitorNext, Detect, Between, Check, InsertFails
<1> QED BY <1>7, <1>8, <1>9, <1>10 DEF ENext

\* While no two monitor runs overlap, no candidate waits twice, whatever miners,
\* the namer, policies and reviewers do between the check and the INSERT; the
\* copies that do come about are revocations.
THEOREM OneWaitingCopyHolds ==
    ASSUME \A m, n \in Monitors : m = n
    PROVE  ESpec => []OneWaitingCopy
<1>1. EInit => TypeOK /\ MonInv
  BY TypeInit DEF EInit, Init, MonInv, Bare
<1>2. TypeOK /\ MonInv /\ [ENext]_evars => TypeOK' /\ MonInv'
  BY MonitorStep, TypeStep, MonInvStep
<1>3. TypeOK /\ MonInv => OneWaitingCopy
  <2>1. SUFFICES ASSUME TypeOK, MonInv, NEW p \in Proposals, NEW q \in Proposals,
                        p # q, status[p] = "PENDING", status[q] = "PENDING",
                        text[p] = text[q], text[p].base \in Candidates,
                        ~ text[p].named, ~ revoked[p], ~ revoked[q]
                 PROVE  FALSE
    BY DEF OneWaitingCopy
  <2>2. text[p] = [base |-> text[p].base, named |-> FALSE]
    <3>1. text[p] \in Text
      BY <2>1 DEF TypeOK
    <3> QED BY <2>1, <3>1 DEF Text
  <2>3. Bare(p, text[p].base) /\ Bare(q, text[p].base)
    BY <2>1, <2>2 DEF Bare
  <2> QED BY <2>1, <2>3 DEF MonInv
<1> QED BY <1>1, <1>2, <1>3, PTL DEF ESpec

=============================================================================
