---------------------------- MODULE OntologyProofs ----------------------------
(***************************************************************************)
(* Proofs about what writes the ontology.  VersionedApply, for any         *)
(* proposals, appliers and bounds: the type invariant, the safety of the   *)
(* review gate, of the release ledger and of the marker test, and, for one *)
(* caller at a time, that the code implements AtomicApply.  Pipeline, for  *)
(* any tables, classes, rules and bounds: types, that PASS is of the       *)
(* ontology that lies there and overlooks no removal, that the             *)
(* measurements of a full run fit one another, and that three undisturbed  *)
(* runs leave of what was there before no trace but those listed.          *)
(***************************************************************************)
EXTENDS SerialApply, Pipeline, SequenceTheorems, WellFoundedInduction, TLAPS

-----------------------------------------------------------------------------
(* The text operations of the file *)

\* The blocks that survive when a file is written over are a suffix.
LEMMA TailsOf ==
    ASSUME NEW S, NEW s \in Seq(S), NEW t \in Tails(s)
    PROVE  /\ t \in Seq(S)
           /\ \E k \in 1 .. Len(s) + 1 :
                 /\ Len(t) = Len(s) - k + 1
                 /\ \A i \in 1 .. Len(t) : t[i] = s[k + i - 1]
<1>1. PICK k \in 1 .. Len(s) + 1 : t = SubSeq(s, k, Len(s))
  BY DEF Tails
<1>2. \A i \in k .. Len(s) : s[i] \in S
  OBVIOUS
<1>3. /\ t \in Seq(S)
      /\ Len(t) = IF k <= Len(s) THEN Len(s) - k + 1 ELSE 0
      /\ \A i \in 1 .. Len(s) - k + 1 : t[i] = s[k + i - 1]
  BY <1>1, <1>2, SubSeqProperties
<1> QED BY <1>3

\* Where the elements of a joined sequence come from.
LEMMA JoinedOf ==
    ASSUME NEW S, NEW r \in Seq(S), NEW t \in Seq(S)
    PROVE  /\ r \o t \in Seq(S)
           /\ \A i \in DOMAIN (r \o t) :
                 \/ \E j \in DOMAIN r : (r \o t)[i] = r[j]
                 \/ \E j \in DOMAIN t : (r \o t)[i] = t[j]
           /\ r = << >> => r \o t = t
           /\ t = << >> => r \o t = r
<1>1. /\ r \o t \in Seq(S)
      /\ Len(r \o t) = Len(r) + Len(t)
      /\ \A i \in 1 .. Len(r) + Len(t) :
            (r \o t)[i] = IF i <= Len(r) THEN r[i] ELSE t[i - Len(r)]
  BY ConcatProperties
<1>2. ASSUME NEW i \in 1 .. Len(r) + Len(t)
      PROVE  \/ \E j \in DOMAIN r : (r \o t)[i] = r[j]
             \/ \E j \in DOMAIN t : (r \o t)[i] = t[j]
  <2>1. CASE i <= Len(r)
    BY <1>1, <2>1
  <2>2. CASE i > Len(r)
    <3>1. i - Len(r) \in DOMAIN t /\ (r \o t)[i] = t[i - Len(r)]
      BY <1>1, <2>2
    <3> QED BY <3>1
  <2> QED BY <2>1, <2>2
<1>3. DOMAIN (r \o t) = 1 .. Len(r) + Len(t)
  BY <1>1
<1> QED BY <1>1, <1>2, <1>3, ConcatEmptySeq

\* A suffix repeats nothing, and holds nothing, that the whole does not.
LEMMA SuffixOf ==
    ASSUME NEW S, NEW s \in Seq(S), NEW t \in Tails(s)
    PROVE  /\ t \in Seq(S)
           /\ \A i \in DOMAIN t : \E j \in DOMAIN s : t[i] = s[j]
           /\ Distinct(s) => Distinct(t)
           /\ s = << >> => t = << >>
<1>1. t \in Seq(S)
  BY TailsOf
<1>2. PICK k \in 1 .. Len(s) + 1 :
         /\ Len(t) = Len(s) - k + 1
         /\ \A i \in 1 .. Len(t) : t[i] = s[k + i - 1]
  BY TailsOf
<1>3. \A i \in 1 .. Len(t) : k + i - 1 \in 1 .. Len(s)
  BY <1>1, <1>2
<1>4. \A i \in DOMAIN t : \E j \in DOMAIN s : t[i] = s[j]
  BY <1>1, <1>2, <1>3
<1>5. Distinct(s) => Distinct(t)
  <2>1. SUFFICES ASSUME Distinct(s), NEW i \in DOMAIN t, NEW j \in DOMAIN t,
                        t[i] = t[j]
                 PROVE  i = j
    BY DEF Distinct
  <2>2. DOMAIN t = 1 .. Len(t) /\ DOMAIN s = 1 .. Len(s)
    BY <1>1
  <2>3. s[k + i - 1] = s[k + j - 1]
    BY <1>2, <2>1, <2>2
  <2>4. k + i - 1 = k + j - 1
    BY <1>3, <2>1, <2>2, <2>3 DEF Distinct
  <2> QED BY <2>2, <2>4
<1>6. s = << >> => t = << >>
  <2>1. SUFFICES ASSUME s = << >> PROVE t = << >>
    OBVIOUS
  <2>2. Len(t) = 0
    BY <1>1, <1>2, <2>1
  <2> QED BY <1>1, <2>2, EmptySeq
<1> QED BY <1>1, <1>4, <1>5, <1>6

\* Writing over a file adds no block that is not in one of the two texts, and
\* a file that held no block then holds just the new text's.
LEMMA OverwrittenFile ==
    ASSUME NEW f \in File, NEW g \in File, NEW w \in Overwritten(f, g)
    PROVE  /\ w \in File
           /\ Held(w) \subseteq Held(f) \cup Held(g)
           /\ f.blocks = << >> => w.blocks = g.blocks
           /\ g.blocks = << >> /\ Distinct(f.blocks) => Distinct(w.blocks)
<1>1. PICK r \in Seq(Proposals), s \in Seq(Proposals) :
         g.blocks = r /\ f.blocks = s
  BY DEF File
<1>2. PICK v \in {f.header, g.header, None}, t \in Tails(s) :
         w = [header |-> v, blocks |-> r \o t]
  <2>1. \E v \in HeadersOver(f, g), t \in Tails(s) :
           w = [header |-> v, blocks |-> r \o t]
    BY <1>1 DEF Overwritten
  <2>2. HeadersOver(f, g) \subseteq {f.header, g.header, None}
    BY DEF HeadersOver
  <2> HIDE DEF Tails
  <2> QED BY <2>1, <2>2
<1>3. /\ t \in Seq(Proposals)
      /\ \A i \in DOMAIN t : \E j \in DOMAIN s : t[i] = s[j]
      /\ Distinct(s) => Distinct(t)
      /\ s = << >> => t = << >>
  BY SuffixOf
<1>4. /\ r \o t \in Seq(Proposals)
      /\ \A i \in DOMAIN (r \o t) : \/ \E j \in DOMAIN r : (r \o t)[i] = r[j]
                                    \/ \E j \in DOMAIN t : (r \o t)[i] = t[j]
      /\ r = << >> => r \o t = t
      /\ t = << >> => r \o t = r
  BY <1>3, JoinedOf
<1> DEFINE u == r \o t
<1>5. w.blocks = u /\ w.header = v
  BY <1>2
<1>6. w \in File
  <2>1. v \in Nat \cup {None}
    BY DEF File
  <2> QED BY <1>2, <1>4, <2>1 DEF File
<1>7. Held(w) \subseteq Held(f) \cup Held(g)
  <2> HIDE DEF u
  <2>1. Held(w) = {u[i] : i \in DOMAIN u} /\ Held(f) = {s[i] : i \in DOMAIN s}
        /\ Held(g) = {r[i] : i \in DOMAIN r}
    BY <1>1, <1>5 DEF Held
  <2>2. \A i \in DOMAIN u : \/ \E j \in DOMAIN r : u[i] = r[j]
                            \/ \E j \in DOMAIN s : u[i] = s[j]
    BY <1>3, <1>4 DEF u
  <2> QED BY <2>1, <2>2
<1> QED BY <1>1, <1>3, <1>4, <1>5, <1>6, <1>7

\* The marker that is found first.
LEMMA MarkerFound ==
    ASSUME NEW f \in File, NEW p \in Proposals, Marked(f, p)
    PROVE  MarkerIndex(f, p) \in DOMAIN f.blocks /\ f.blocks[MarkerIndex(f, p)] = p
<1> DEFINE F == {i \in DOMAIN f.blocks : f.blocks[i] = p}
<1>1. f.blocks \in Seq(Proposals)
  BY DEF File
<1>2. PICK j \in DOMAIN f.blocks : f.blocks[j] = p
  BY DEF Marked
<1>3. \E i \in F : \A k \in F : i <= k
  <2>1. F \subseteq Nat /\ F # {}
    BY <1>1, <1>2
  <2> HIDE DEF F
  <2>2. PICK i \in F : \A k \in F : <<k, i>> \notin OpToRel(<, Nat)
    BY <2>1, NatLessThanWellFounded, WFMin
  <2>3. OpToRel(<, Nat) = {ss \in Nat \X Nat : ss[1] < ss[2]}
    BY DEF OpToRel
  <2>4. \A k \in F : i <= k
    <3>1. TAKE k \in F
    <3>2. i \in Nat /\ k \in Nat
      BY <2>1
    <3>3. ~ (<<k, i>>[1] < <<k, i>>[2])
      BY <2>2, <2>3, <3>2
    <3> QED BY <3>2, <3>3
  <2> QED BY <2>4
<1> QED BY <1>3 DEF MarkerIndex

\* What a rollback leaves of the blocks is a prefix.
LEMMA TruncatedFile ==
    ASSUME NEW f \in File, NEW p \in Proposals
    PROVE  /\ Truncated(f, p) \in Seq(Proposals)
           /\ \A i \in DOMAIN Truncated(f, p) :
                 i \in DOMAIN f.blocks /\ Truncated(f, p)[i] = f.blocks[i]
<1>1. f.blocks \in Seq(Proposals)
  BY DEF File
<1>2. CASE ~ Marked(f, p)
  BY <1>1, <1>2 DEF Truncated
<1>3. CASE Marked(f, p)
  <2> DEFINE m == MarkerIndex(f, p)
  <2>1. m \in DOMAIN f.blocks
    BY <1>3, MarkerFound
  <2>2. Truncated(f, p) = SubSeq(f.blocks, 1, m - 1)
    BY <1>3 DEF Truncated
  <2>3. m \in 1 .. Len(f.blocks)
    BY <1>1, <2>1
  <2> HIDE DEF m
  <2>4. \A i \in 1 .. m - 1 : f.blocks[i] \in Proposals
    BY <1>1, <2>3
  <2>5. /\ Truncated(f, p) \in Seq(Proposals)
        /\ Len(Truncated(f, p)) = IF 1 <= m - 1 THEN m - 1 - 1 + 1 ELSE 0
        /\ \A i \in 1 .. m - 1 - 1 + 1 :
              Truncated(f, p)[i] = f.blocks[1 + i - 1]
    BY <2>2, <2>3, <2>4, SubSeqProperties
  <2> QED BY <1>1, <2>3, <2>5
<1> QED BY <1>2, <1>3

LEMMA WithoutBlockFile ==
    ASSUME NEW f \in File, NEW p \in Proposals, NEW v \in Nat
    PROVE  /\ WithoutBlock(f, p, v) \in File
           /\ Held(WithoutBlock(f, p, v)) \subseteq Held(f)
           /\ Distinct(f.blocks) => Distinct(WithoutBlock(f, p, v).blocks)
<1> DEFINE u == Truncated(f, p)
<1>1. /\ u \in Seq(Proposals)
      /\ \A i \in DOMAIN u : i \in DOMAIN f.blocks /\ u[i] = f.blocks[i]
  BY TruncatedFile
<1>2. Restamped(f, v) \in Nat \cup {None}
  BY DEF Restamped
<1>3. WithoutBlock(f, p, v) = [header |-> Restamped(f, v), blocks |-> u]
  BY DEF WithoutBlock
<1> HIDE DEF u
<1>4. WithoutBlock(f, p, v) \in File
  BY <1>1, <1>2, <1>3 DEF File
<1>5. WithoutBlock(f, p, v).blocks = u
  BY <1>3
<1>6. Held(WithoutBlock(f, p, v)) \subseteq Held(f)
  BY <1>1, <1>5 DEF Held
<1>7. Distinct(f.blocks) => Distinct(u)
  BY <1>1 DEF Distinct
<1> QED BY <1>4, <1>5, <1>6, <1>7

LEMMA WithBlockFile ==
    ASSUME NEW f \in File, NEW p \in Proposals, NEW v
    PROVE  /\ WithBlock(f, p, v) \in File
           /\ Held(WithBlock(f, p, v)) \subseteq Held(f) \cup {p}
           /\ Distinct(f.blocks) /\ ~ Marked(f, p)
              => Distinct(WithBlock(f, p, v).blocks)
<1>1. PICK s \in Seq(Proposals) : f.blocks = s
  BY DEF File
<1> DEFINE u == Append(s, p)
<1>2. /\ u \in Seq(Proposals)
      /\ Len(u) = Len(s) + 1
      /\ \A i \in 1 .. Len(s) : u[i] = s[i]
      /\ u[Len(s) + 1] = p
  BY AppendProperties
<1>3. DOMAIN u = 1 .. Len(s) + 1 /\ DOMAIN s = 1 .. Len(s)
  BY <1>2
<1>4. WithBlock(f, p, v) = [header |-> Restamped(f, v), blocks |-> u]
  BY <1>1 DEF WithBlock
<1>5. Restamped(f, v) \in Nat \cup {None}
  BY DEF Restamped
<1> HIDE DEF u
<1>6. WithBlock(f, p, v) \in File
  BY <1>2, <1>4, <1>5 DEF File
<1>7. WithBlock(f, p, v).blocks = u
  BY <1>4
<1>8. Held(WithBlock(f, p, v)) \subseteq Held(f) \cup {p}
  <2>1. \A i \in DOMAIN u : u[i] = p \/ \E j \in DOMAIN s : u[i] = s[j]
    BY <1>2, <1>3
  <2> QED BY <1>1, <1>7, <2>1 DEF Held
<1>9. ASSUME Distinct(s), ~ Marked(f, p) PROVE Distinct(u)
  <2>1. \A i \in 1 .. Len(s) : s[i] # p
    BY <1>1, <1>3, <1>9 DEF Marked
  <2>2. SUFFICES ASSUME NEW i \in DOMAIN u, NEW k \in DOMAIN u, u[i] = u[k]
                 PROVE  i = k
    BY DEF Distinct
  <2>3. CASE i \in 1 .. Len(s) /\ k \in 1 .. Len(s)
    BY <1>2, <1>3, <1>9, <2>2, <2>3 DEF Distinct
  <2>4. CASE i = Len(s) + 1 \/ k = Len(s) + 1
    BY <1>2, <1>3, <2>1, <2>2, <2>4
  <2> QED BY <1>3, <2>3, <2>4
<1> QED BY <1>1, <1>6, <1>7, <1>8, <1>9

LEMMA ConstantFiles ==
    /\ EmptyFile \in File /\ Held(EmptyFile) = {} /\ EmptyFile.blocks = << >>
    /\ GeneratedFile \in File /\ Held(GeneratedFile) = {}
    /\ GeneratedFile.blocks = << >>
  BY DEF EmptyFile, GeneratedFile, File, Held

-----------------------------------------------------------------------------
(* The type invariant *)

LEMMA TypeInit == Init => TypeOK
  BY ConstantsOK, ConstantFiles DEF Init, TypeOK, Status, PC

\* The locals of a running applier.
LEMMA JobType ==
    ASSUME TypeOK, NEW a \in Appliers, pc[a] # "idle"
    PROVE  /\ job[a] \in Job
           /\ job[a].prop \in Proposals
           /\ job[a].dry \in BOOLEAN
           /\ job[a].old \in Nat
           /\ job[a].new \in Version
           /\ job[a].buf \in File
           /\ job[a].reasoner \in Verdict
           /\ job[a].sparql \in Verdict
           /\ job[a].refused \subseteq Gates /\ job[a].raised \subseteq Gates
  BY DEF TypeOK, Job

LEMMA JobOf ==
    ASSUME NEW p \in Proposals, NEW d \in BOOLEAN, NEW w \in Targets \cup {None},
           NEW old \in Nat, NEW new \in Version, NEW f \in File,
           NEW r \in Verdict, NEW s \in Verdict,
           NEW x \in SUBSET Gates, NEW y \in SUBSET Gates
    PROVE  [prop |-> p, dry |-> d, want |-> w, old |-> old, new |-> new,
            buf |-> f, reasoner |-> r, sparql |-> s,
            refused |-> x, raised |-> y] \in Job
  BY DEF Job

LEMMA ReturnType ==
    ASSUME TypeOK, NEW a \in Appliers, Return(a)
    PROVE  /\ pc' \in [Appliers -> PC]
           /\ job' \in [Appliers -> Job \cup {None}]
           /\ \A b \in Appliers : pc'[b] # "idle" => job'[b] \in Job
  BY DEF TypeOK, Return, PC

LEMMA TypeStep == TypeOK /\ [Next]_vars => TypeOK'
<1> SUFFICES ASSUME TypeOK, [Next]_vars PROVE TypeOK'
  OBVIOUS
<1> USE ConstantsOK
<1>1. ASSUME NEW p \in Proposals, NEW s \in Status \ {"PENDING"},
             NEW t \in Targets \cup {None}, RecordDecision(p, s, t)
      PROVE  TypeOK'
  BY <1>1 DEF TypeOK, RecordDecision
<1>2. ASSUME NEW a \in Appliers, NEW p \in Proposals, NEW d \in BOOLEAN,
             Start(a, p, d)
      PROVE  TypeOK'
  <2> DEFINE j == [prop |-> p, dry |-> d, want |-> target[p],
                   old |-> 0, new |-> 0, buf |-> EmptyFile,
                   reasoner |-> "SKIPPED", sparql |-> "SKIPPED",
                   refused |-> {}, raised |-> {}]
  <2>1. j \in Job
    <3>1. target[p] \in Targets \cup {None} /\ 0 \in Nat /\ 0 \in Version
      BY DEF TypeOK, Version
    <3>2. {} \in SUBSET Gates /\ "SKIPPED" \in Verdict
      BY DEF Verdict
    <3>3. EmptyFile \in File
      BY ConstantFiles
    <3> QED BY <1>2, <3>1, <3>2, <3>3, JobOf
  <2>2. /\ job' = [job EXCEPT ![a] = j] /\ pc' = [pc EXCEPT ![a] = "version"]
        /\ applies' = applies + 1
        /\ UNCHANGED <<status, target, approvedEver, file, ledger, gen>>
    BY <1>2 DEF Start, Goto, rows
  <2> HIDE DEF j
  <2> QED BY <2>1, <2>2 DEF TypeOK, PC
<1>3. ASSUME NEW a \in Appliers, ReadVersion(a) PROVE TypeOK'
  <2> DEFINE v == VersionOf(file)
             n == IF job[a].want = None THEN v + 1 ELSE job[a].want
             j == [job[a] EXCEPT !.old = v, !.new = n]
  <2>1. job[a] \in Job
    BY <1>3, JobType DEF ReadVersion
  <2>2. v \in Nat /\ n \in Version
    <3>1. job[a].want \in Targets \cup {None}
      BY <2>1 DEF Job
    <3>2. file.header \in Nat \cup {None}
      BY DEF TypeOK, File
    <3>3. v \in Nat
      BY <3>2 DEF VersionOf
    <3>4. CASE job[a].want = None
      BY <3>3, <3>4 DEF Version
    <3>5. CASE job[a].want \in Targets
      BY <3>3, <3>5 DEF ConstantsOK, Version
    <3> QED BY <3>1, <3>3, <3>4, <3>5
  <2>3. j \in Job
    BY <2>1, <2>2 DEF Job
  <2>4. job' = [job EXCEPT ![a] = j] /\ pc' = [pc EXCEPT ![a] = "content"]
    BY <1>3 DEF ReadVersion, Goto
  <2> HIDE DEF j
  <2> QED BY <1>3, <2>3, <2>4 DEF TypeOK, ReadVersion, PC, rows
<1>4. ASSUME NEW a \in Appliers, ReadContent(a) PROVE TypeOK'
  <2> DEFINE b == WithBlock(file, job[a].prop, job[a].new)
             j == [job[a] EXCEPT !.buf = b]
  <2>1. /\ job[a] \in Job
        /\ b \in File
    BY <1>4, JobType, WithBlockFile DEF ReadContent, TypeOK
  <2>2. j \in Job
    BY <2>1 DEF Job
  <2>3. /\ job' = job \/ job' = [job EXCEPT ![a] = j]
        /\ \E l \in {"reason", "truncate"} : pc' = [pc EXCEPT ![a] = l]
    BY <1>4 DEF ReadContent, Goto
  <2> HIDE DEF j
  <2> QED BY <1>4, <2>1, <2>2, <2>3 DEF TypeOK, ReadContent, PC, rows
<1>5. ASSUME NEW a \in Appliers, Truncate(a) PROVE TypeOK'
  BY <1>5, ConstantFiles DEF TypeOK, Truncate, Goto, PC, rows
<1>6. ASSUME NEW a \in Appliers, Fill(a) PROVE TypeOK'
  <2>1. file' \in File
    BY <1>6, JobType, OverwrittenFile DEF Fill, TypeOK
  <2> QED BY <1>6, <2>1 DEF TypeOK, Fill, Goto, PC, rows
<1>7. ASSUME NEW a \in Appliers, NEW v \in Verdict, Reason(a, v)
      PROVE  TypeOK'
  <2>1. CASE Return(a)
    BY <1>7, <2>1, ReturnType DEF TypeOK, Reason, rows
  <2>2. CASE /\ Goto(a, "rbread")
             /\ job' = [job EXCEPT ![a].refused = @ \cup {"reasoner"}]
    <3>1. [job[a] EXCEPT !.refused = @ \cup {"reasoner"}] \in Job
      BY <1>7, JobType DEF Job, Reason, Gates
    <3> QED BY <1>7, <2>2, <3>1 DEF TypeOK, Reason, Goto, PC, rows
  <2>3. CASE job' = [job EXCEPT ![a].reasoner = v] /\ Goto(a, "cq")
    <3>1. [job[a] EXCEPT !.reasoner = v] \in Job
      BY <1>7, JobType DEF Job, Reason
    <3> QED BY <1>7, <2>3, <3>1 DEF TypeOK, Reason, Goto, PC, rows
  <2> QED BY <1>7, <2>1, <2>2, <2>3 DEF Reason
<1>8. ASSUME NEW a \in Appliers, NEW v \in Verdict, CompetencyQuestions(a, v)
      PROVE  TypeOK'
  <2>1. CASE Return(a)
    BY <1>8, <2>1, ReturnType DEF TypeOK, CompetencyQuestions, rows
  <2>2. CASE ~ DryRun(a)
    <3> DEFINE j == [job[a] EXCEPT !.sparql = v,
                                   !.refused = IF Refused(v)
                                               THEN @ \cup {"sparql"} ELSE @]
    <3>1. j \in Job
      BY <1>8, JobType DEF Job, CompetencyQuestions, Gates
    <3>2. job' = [job EXCEPT ![a] = j]
      BY <1>8, <2>2 DEF CompetencyQuestions
    <3>3. \E l \in {"rbread", "ledger"} : Goto(a, l)
      BY <1>8, <2>2 DEF CompetencyQuestions
    <3> HIDE DEF j
    <3> QED BY <1>8, <3>1, <3>2, <3>3
              DEF TypeOK, CompetencyQuestions, Goto, PC, rows
  <2> QED BY <1>8, <2>1, <2>2 DEF CompetencyQuestions
<1>9. ASSUME NEW a \in Appliers, WriteLedger(a) PROVE TypeOK'
  <2>1. Row(a) \in LedgerRow
    BY <1>9, JobType DEF WriteLedger, Row, LedgerRow
  <2> QED BY <1>9, <2>1, ReturnType DEF TypeOK, WriteLedger, rows
<1>10. ASSUME NEW a \in Appliers, RollbackRead(a) PROVE TypeOK'
  <2> DEFINE j == [job[a] EXCEPT
                     !.buf = WithoutBlock(file, job[a].prop, job[a].old)]
  <2>1. j \in Job
    BY <1>10, JobType, WithoutBlockFile DEF RollbackRead, TypeOK, Job
  <2>2. job' = [job EXCEPT ![a] = j]
    BY <1>10 DEF RollbackRead
  <2> HIDE DEF j
  <2> QED BY <1>10, <2>1, <2>2 DEF TypeOK, RollbackRead, Goto, PC, rows
<1>11. ASSUME NEW a \in Appliers, RollbackTruncate(a) PROVE TypeOK'
  BY <1>11, ConstantFiles DEF TypeOK, RollbackTruncate, Goto, PC, rows
<1>12. ASSUME NEW a \in Appliers, RollbackFill(a) PROVE TypeOK'
  <2>1. file' \in File
    BY <1>12, JobType, OverwrittenFile DEF RollbackFill, TypeOK
  <2> QED BY <1>12, <2>1, ReturnType DEF TypeOK, RollbackFill, rows
<1>13. ASSUME NEW a \in Appliers, RollbackOSError(a) \/ Crash(a) PROVE TypeOK'
  BY <1>13, ReturnType DEF TypeOK, RollbackOSError, Crash, rows
<1>18. ASSUME NEW a \in Appliers, RollbackRaises(a) PROVE TypeOK'
  <2> DEFINE A == [job[a] EXCEPT !.sparql = "SKIPPED",
                                 !.raised = @ \cup {"sparql"}]
             B == [job[a] EXCEPT !.raised = @ \cup {"reasoner"}]
  <2>4. /\ job[a] \in Job
        /\ job[a].raised \cup {"sparql"} \in SUBSET Gates
        /\ job[a].raised \cup {"reasoner"} \in SUBSET Gates
    BY <1>18, JobType DEF RollbackRaises, Gates
  <2>1. A \in Job /\ B \in Job
    BY <2>4 DEF Job, Verdict
  <2>2. job' = [job EXCEPT ![a] = A] \/ job' = [job EXCEPT ![a] = B]
    BY <1>18 DEF RollbackRaises
  <2>3. \E l \in {"ledger", "cq"} : Goto(a, l)
    BY <1>18 DEF RollbackRaises
  <2> HIDE DEF A, B
  <2> QED BY <1>18, <2>1, <2>2, <2>3 DEF TypeOK, RollbackRaises, Goto, PC, rows
<1>14. ASSUME GenTruncate PROVE TypeOK'
  BY <1>14, ConstantFiles DEF TypeOK, GenTruncate, rows
<1>15. ASSUME GenFill PROVE TypeOK'
  <2>1. file' \in File
    BY <1>15, ConstantFiles, OverwrittenFile DEF GenFill, TypeOK
  <2> QED BY <1>15, <2>1 DEF TypeOK, GenFill, rows
<1>16. ASSUME GenCrash PROVE TypeOK'
  BY <1>16 DEF TypeOK, GenCrash, rows
<1>17. ASSUME UNCHANGED vars PROVE TypeOK'
  BY <1>17 DEF TypeOK, vars
<1> QED BY <1>1, <1>2, <1>3, <1>4, <1>5, <1>6, <1>7, <1>8, <1>9, <1>10,
           <1>11, <1>12, <1>13, <1>14, <1>15, <1>16, <1>17, <1>18
        DEF Next, Decide, Step, Work

\* The columns, the file, the ledger and the locals of apply_approved always
\* have their types, and a call in progress has its locals.
THEOREM TypeInvariant == Spec => []TypeOK
<1>1. Init => TypeOK
  BY TypeInit
<1>2. TypeOK /\ [Next]_vars => TypeOK'
  BY TypeStep
<1> QED BY <1>1, <1>2, PTL DEF Spec

-----------------------------------------------------------------------------
(* The review gate *)

\* An applier carries, from the one look it takes at the status, a proposal
\* that was approved and a text made of approved blocks; whoever writes last,
\* the file is one or two such texts.
GateInv ==
    /\ \A p \in Proposals : status[p] = "APPROVED" => p \in approvedEver
    /\ \A a \in Appliers : pc[a] # "idle" =>
          job[a].prop \in approvedEver /\ Held(job[a].buf) \subseteq approvedEver
    /\ ReviewGate

LEMMA GateInit == Init => GateInv
  BY ConstantFiles DEF Init, GateInv, ReviewGate

\* A call that ends, or only moves on, disturbs nobody's locals.
LEMMA GateUntouched ==
    ASSUME TypeOK, GateInv, UNCHANGED rows, UNCHANGED file,
           \A b \in Appliers : pc'[b] # "idle" =>
              /\ pc[b] # "idle"
              /\ job'[b].prop = job[b].prop
              /\ job'[b].buf = job[b].buf
    PROVE  GateInv'
  BY DEF GateInv, ReviewGate, rows, Held

\* So does a step that writes over the file a text of approved blocks.
LEMMA GateWritten ==
    ASSUME TypeOK, GateInv, UNCHANGED rows, NEW g \in File,
           Held(g) \subseteq approvedEver, file' \in Overwritten(file, g),
           \A b \in Appliers : pc'[b] # "idle" =>
              pc[b] # "idle" /\ job'[b] = job[b]
    PROVE  GateInv'
<1>1. Held(file') \subseteq Held(file) \cup Held(g)
  BY OverwrittenFile DEF TypeOK
<1> QED BY <1>1 DEF GateInv, ReviewGate, rows, Held

LEMMA GateStep == TypeOK /\ GateInv /\ [Next]_vars => GateInv'
<1> SUFFICES ASSUME TypeOK, GateInv, [Next]_vars PROVE GateInv'
  OBVIOUS
<1>1. ASSUME NEW p \in Proposals, NEW s \in Status \ {"PENDING"},
             NEW t \in Targets \cup {None}, RecordDecision(p, s, t)
      PROVE  GateInv'
  <2>1. approvedEver \subseteq approvedEver'
    BY <1>1 DEF RecordDecision
  <2>2. \A q \in Proposals : status'[q] = "APPROVED" => q \in approvedEver'
    BY <1>1 DEF RecordDecision, GateInv, TypeOK
  <2> QED BY <1>1, <2>1, <2>2 DEF RecordDecision, GateInv, ReviewGate, Held
<1>2. ASSUME NEW a \in Appliers, NEW p \in Proposals, NEW d \in BOOLEAN,
             Start(a, p, d)
      PROVE  GateInv'
  <2>1. p \in approvedEver
    BY <1>2 DEF Start, Applicable, GateInv
  <2>2. job'[a].prop = p /\ job'[a].buf = EmptyFile
    BY <1>2 DEF Start, TypeOK
  <2>3. \A b \in Appliers \ {a} : pc'[b] = pc[b] /\ job'[b] = job[b]
    BY <1>2 DEF Start, Goto, TypeOK
  <2>4. Held(job'[a].buf) \subseteq approvedEver
    BY <2>2, ConstantFiles
  <2>5. UNCHANGED <<rows, file>>
    BY <1>2 DEF Start
  <2> QED BY <2>1, <2>2, <2>3, <2>4, <2>5 DEF GateInv, ReviewGate, rows
<1>3. ASSUME NEW a \in Appliers, ReadVersion(a) PROVE GateInv'
  <2>1. \A b \in Appliers : pc'[b] # "idle" =>
           pc[b] # "idle" /\ job'[b].prop = job[b].prop
                          /\ job'[b].buf = job[b].buf
    BY <1>3, JobType DEF ReadVersion, Goto, TypeOK, Job
  <2> QED BY <1>3, <2>1, GateUntouched DEF ReadVersion
<1>4. ASSUME NEW a \in Appliers, ReadContent(a) PROVE GateInv'
  <2> DEFINE b == WithBlock(file, job[a].prop, job[a].new)
  <2>1. Held(b) \subseteq approvedEver
    <3>1. Held(b) \subseteq Held(file) \cup {job[a].prop}
      BY <1>4, JobType, WithBlockFile DEF ReadContent, TypeOK
    <3> QED BY <1>4, <3>1 DEF ReadContent, GateInv, ReviewGate
  <2> HIDE DEF b
  <2>2. CASE UNCHANGED job
    <3>1. \A c \in Appliers : pc'[c] # "idle" => pc[c] # "idle"
      BY <1>4 DEF ReadContent, Goto, TypeOK
    <3> QED BY <1>4, <2>2, <3>1, GateUntouched DEF ReadContent
  <2>3. CASE job' = [job EXCEPT ![a].buf = b]
    <3>1. pc[a] # "idle" /\ job[a] \in Job
      BY <1>4, JobType DEF ReadContent
    <3>2. job'[a].prop = job[a].prop /\ job'[a].buf = b
      BY <2>3, <3>1 DEF TypeOK, Job
    <3>3. \A c \in Appliers \ {a} : pc'[c] = pc[c] /\ job'[c] = job[c]
      BY <1>4, <2>3 DEF ReadContent, Goto, TypeOK
    <3>4. UNCHANGED <<rows, file>>
      BY <1>4 DEF ReadContent
    <3> QED BY <2>1, <3>1, <3>2, <3>3, <3>4 DEF GateInv, ReviewGate, rows
  <2> QED BY <1>4, <2>2, <2>3 DEF ReadContent, b
<1>5. ASSUME NEW a \in Appliers, Truncate(a) \/ RollbackTruncate(a)
      PROVE  GateInv'
  <2>1. \A b \in Appliers : pc'[b] # "idle" => pc[b] # "idle"
    BY <1>5 DEF Truncate, RollbackTruncate, Goto, TypeOK
  <2>2. file' = EmptyFile /\ UNCHANGED <<rows, job>>
    BY <1>5 DEF Truncate, RollbackTruncate
  <2> QED BY <2>1, <2>2, ConstantFiles DEF GateInv, ReviewGate, rows
<1>6. ASSUME NEW a \in Appliers, Fill(a) \/ RollbackFill(a) PROVE GateInv'
  <2>1. pc[a] # "idle" /\ file' \in Overwritten(file, job[a].buf)
    BY <1>6 DEF Fill, RollbackFill
  <2>2. job[a].buf \in File /\ Held(job[a].buf) \subseteq approvedEver
    BY <2>1, JobType DEF GateInv
  <2>3. \A b \in Appliers : pc'[b] # "idle" =>
           pc[b] # "idle" /\ job'[b] = job[b]
    BY <1>6 DEF Fill, RollbackFill, Goto, Return, TypeOK
  <2>4. UNCHANGED rows
    BY <1>6 DEF Fill, RollbackFill
  <2> QED BY <2>1, <2>2, <2>3, <2>4, GateWritten
<1>7. ASSUME NEW a \in Appliers, NEW v \in Verdict,
             Reason(a, v) \/ CompetencyQuestions(a, v) \/ RollbackRaises(a)
      PROVE  GateInv'
  <2>1. \A b \in Appliers : pc'[b] # "idle" =>
           pc[b] # "idle" /\ job'[b].prop = job[b].prop
                          /\ job'[b].buf = job[b].buf
    BY <1>7, JobType
       DEF Reason, CompetencyQuestions, RollbackRaises, Goto, Return, TypeOK, Job
  <2> QED BY <1>7, <2>1, GateUntouched
          DEF Reason, CompetencyQuestions, RollbackRaises
<1>8. ASSUME NEW a \in Appliers,
             WriteLedger(a) \/ RollbackOSError(a) \/ Crash(a)
      PROVE  GateInv'
  <2>1. \A b \in Appliers : pc'[b] # "idle" =>
           pc[b] # "idle" /\ job'[b] = job[b]
    BY <1>8 DEF WriteLedger, RollbackOSError, Crash, Return, TypeOK
  <2> QED BY <1>8, <2>1, GateUntouched DEF WriteLedger, RollbackOSError, Crash
<1>9. ASSUME NEW a \in Appliers, RollbackRead(a) PROVE GateInv'
  <2> DEFINE b == WithoutBlock(file, job[a].prop, job[a].old)
  <2>1. pc[a] # "idle" /\ job[a] \in Job
    BY <1>9, JobType DEF RollbackRead
  <2>2. Held(b) \subseteq approvedEver
    BY <2>1, JobType, WithoutBlockFile DEF TypeOK, GateInv, ReviewGate
  <2>3. job' = [job EXCEPT ![a].buf = b]
    BY <1>9 DEF RollbackRead
  <2> HIDE DEF b
  <2>4. job'[a].prop = job[a].prop /\ job'[a].buf = b
    BY <2>1, <2>3 DEF TypeOK, Job
  <2>5. \A c \in Appliers \ {a} : pc'[c] = pc[c] /\ job'[c] = job[c]
    BY <1>9, <2>3 DEF RollbackRead, Goto, TypeOK
  <2>6. UNCHANGED <<rows, file>>
    BY <1>9 DEF RollbackRead
  <2> QED BY <2>1, <2>2, <2>4, <2>5, <2>6 DEF GateInv, ReviewGate, rows
<1>10. ASSUME GenTruncate PROVE GateInv'
  BY <1>10, ConstantFiles DEF GenTruncate, GateInv, ReviewGate, rows
<1>11. ASSUME GenFill PROVE GateInv'
  <2>1. Held(GeneratedFile) \subseteq approvedEver
    BY ConstantFiles
  <2>2. \A b \in Appliers : pc'[b] # "idle" =>
           pc[b] # "idle" /\ job'[b] = job[b]
    BY <1>11 DEF GenFill
  <2> QED BY <1>11, <2>1, <2>2, ConstantFiles, GateWritten DEF GenFill
<1>13. ASSUME NEW a \in Appliers, RollbackRaises(a) PROVE GateInv'
  <2>1. "PASS" \in Verdict
    BY DEF Verdict
  <2> QED BY <1>7, <1>13, <2>1
<1>12. ASSUME GenCrash \/ UNCHANGED vars PROVE GateInv'
  BY <1>12 DEF GenCrash, vars, rows, GateInv, ReviewGate, Held
<1> QED BY <1>1, <1>2, <1>3, <1>4, <1>5, <1>6, <1>7, <1>8, <1>9, <1>10,
           <1>11, <1>12, <1>13
        DEF Next, Decide, Step, Work

\* Whatever appliers, generator and crashes do to the ontology file, and
\* however their writes interleave, each block in it was approved.
THEOREM ReviewGateHolds == Spec => []ReviewGate
<1>1. Init => TypeOK /\ GateInv
  BY TypeInit, GateInit
<1>2. TypeOK /\ GateInv /\ [Next]_vars => TypeOK' /\ GateInv'
  BY TypeStep, GateStep
<1>3. GateInv => ReviewGate
  BY DEF GateInv
<1> QED BY <1>1, <1>2, <1>3, PTL DEF Spec

-----------------------------------------------------------------------------
(* The release ledger *)

\* A verdict of a gate is kept only when the gate did not refuse; a refusal is
\* passed over only where the rollback raised, and the gate then shows SKIPPED.
CallInv(l, j) ==
    /\ l \in {"version", "content", "truncate", "fill", "reason"} =>
          /\ j.refused = {} /\ j.raised = {}
          /\ j.reasoner = "SKIPPED" /\ j.sparql = "SKIPPED"
    /\ l \in {"cq", "ledger", "rbread"} => j.reasoner # "FAIL"
    /\ l \in {"cq", "ledger", "rbread"} /\ "reasoner" \in j.raised
       => j.reasoner = "SKIPPED"
    /\ l \in {"cq", "ledger"} => j.refused \subseteq j.raised
    /\ l = "cq" => "sparql" \notin j.raised
    /\ l = "rbread" =>
          /\ "sparql" \notin j.raised
          /\ j.sparql = "FAIL" => j.refused \subseteq j.raised \cup {"sparql"}
          /\ j.sparql # "FAIL" =>
                 j.reasoner = "SKIPPED" /\ j.refused \subseteq {"reasoner"}
    /\ l = "ledger" => /\ j.sparql # "FAIL"
                       /\ "sparql" \in j.raised => j.sparql = "SKIPPED"

VerdictInv ==
    /\ \A a \in Appliers : CallInv(pc[a], job[a])
    /\ LedgerGated

RowsGated ==
    \A r \in ledger : /\ r.proposal \in approvedEver
                      /\ r.reasoner # "FAIL"
                      /\ r.sparql # "FAIL"

LEMMA LedgerGatedFrom ==
    (\A a \in Appliers : CallInv(pc[a], job[a])) /\ RowsGated => LedgerGated
  BY DEF CallInv, LedgerGated, Gated, RowsGated

LEMMA VerdictInit == Init => VerdictInv
  BY LedgerGatedFrom DEF Init, VerdictInv, CallInv, RowsGated

\* A step of one call that writes no row.
LEMMA VerdictMoved ==
    ASSUME TypeOK, VerdictInv, UNCHANGED ledger,
           approvedEver \subseteq approvedEver', NEW a \in Appliers,
           \A b \in Appliers \ {a} : pc'[b] = pc[b] /\ job'[b] = job[b],
           CallInv(pc'[a], job'[a])
    PROVE  VerdictInv'
<1>1. \A b \in Appliers : CallInv(pc'[b], job'[b])
  BY DEF VerdictInv
<1>2. RowsGated'
  BY DEF VerdictInv, LedgerGated, RowsGated
<1>3. LedgerGated'
  BY <1>1, <1>2 DEF LedgerGated, Gated, RowsGated, CallInv
<1> QED BY <1>1, <1>3 DEF VerdictInv

\* A call that ends is past every place the invariant speaks of.
LEMMA CallEnded == \A j : CallInv("idle", j)
  BY DEF CallInv

LEMMA VerdictStep == TypeOK /\ GateInv /\ VerdictInv /\ [Next]_vars
                     => VerdictInv'
<1> SUFFICES ASSUME TypeOK, GateInv, VerdictInv, [Next]_vars
             PROVE  VerdictInv'
  OBVIOUS
<1>1. ASSUME UNCHANGED <<pc, job, ledger>>, approvedEver \subseteq approvedEver'
      PROVE  VerdictInv'
  BY <1>1 DEF VerdictInv, LedgerGated
<1>2. ASSUME NEW p \in Proposals, NEW s \in Status \ {"PENDING"},
             NEW t \in Targets \cup {None}, RecordDecision(p, s, t)
      PROVE  VerdictInv'
  BY <1>1, <1>2 DEF RecordDecision
<1>3. ASSUME GenTruncate \/ GenFill \/ GenCrash \/ UNCHANGED vars
      PROVE  VerdictInv'
  BY <1>1, <1>3 DEF GenTruncate, GenFill, GenCrash, vars, rows
<1>4. ASSUME NEW a \in Appliers, Step(a) PROVE VerdictInv'
  <2>1. \A b \in Appliers \ {a} : pc'[b] = pc[b] /\ job'[b] = job[b]
    BY <1>4 DEF Step, Work, Start, ReadVersion, ReadContent, Truncate, Fill,
                Reason, CompetencyQuestions, WriteLedger, RollbackRead,
                RollbackTruncate, RollbackFill, RollbackOSError,
                RollbackRaises, Crash, Goto, Return, TypeOK
  <2>2. UNCHANGED approvedEver
    BY <1>4 DEF Step, Work, Start, ReadVersion, ReadContent, Truncate, Fill,
                Reason, CompetencyQuestions, WriteLedger, RollbackRead,
                RollbackTruncate, RollbackFill, RollbackOSError,
                RollbackRaises, Crash, rows
  <2>3. ASSUME UNCHANGED ledger, CallInv(pc'[a], job'[a]) PROVE VerdictInv'
    BY <2>1, <2>2, <2>3, VerdictMoved
  <2>4. CallInv(pc[a], job[a])
    BY DEF VerdictInv
  <2>5. ASSUME NEW p \in Proposals, NEW d \in BOOLEAN, Start(a, p, d)
        PROVE  VerdictInv'
    <3>1. /\ pc'[a] = "version" /\ job'[a].refused = {} /\ job'[a].raised = {}
          /\ job'[a].reasoner = "SKIPPED" /\ job'[a].sparql = "SKIPPED"
      BY <2>5 DEF Start, Goto, TypeOK
    <3> QED BY <2>3, <2>5, <3>1 DEF Start, CallInv
  <2>6. ASSUME ReadVersion(a) \/ ReadContent(a) \/ Truncate(a) \/ Fill(a)
        PROVE  VerdictInv'
    <3>1. /\ pc[a] \in {"version", "content", "truncate", "fill"}
          /\ pc'[a] \in {"content", "truncate", "fill", "reason"}
          /\ UNCHANGED ledger
      BY <2>6 DEF ReadVersion, ReadContent, Truncate, Fill, Goto, TypeOK
    <3>2. job[a] \in Job
      BY <3>1, JobType
    <3>3. /\ job'[a].refused = job[a].refused /\ job'[a].raised = job[a].raised
          /\ job'[a].reasoner = job[a].reasoner /\ job'[a].sparql = job[a].sparql
      BY <2>6, <3>2 DEF ReadVersion, ReadContent, Truncate, Fill, TypeOK, Job
    <3>4. CallInv(pc'[a], job'[a])
      BY <2>4, <3>1, <3>3 DEF CallInv
    <3> QED BY <2>3, <3>1, <3>4
  <2>7. ASSUME RollbackRead(a) \/ RollbackTruncate(a) PROVE VerdictInv'
    <3>1. pc'[a] \in {"rbtruncate", "rbfill"} /\ UNCHANGED ledger
      BY <2>7 DEF RollbackRead, RollbackTruncate, Goto, TypeOK
    <3> QED BY <2>3, <3>1 DEF CallInv
  <2>8. ASSUME RollbackFill(a) \/ RollbackOSError(a) \/ Crash(a)
        PROVE  VerdictInv'
    <3>1. pc'[a] = "idle" /\ UNCHANGED ledger
      BY <2>8 DEF RollbackFill, RollbackOSError, Crash, Return, TypeOK
    <3> QED BY <2>3, <3>1, CallEnded
  <2>9. ASSUME NEW v \in Verdict, Reason(a, v) PROVE VerdictInv'
    <3>1. pc[a] = "reason" /\ job[a] \in Job /\ UNCHANGED ledger
      BY <2>9, JobType DEF Reason
    <3>2. CASE Return(a)
      BY <2>3, <3>1, <3>2, CallEnded DEF Return, TypeOK
    <3>3. CASE /\ Goto(a, "rbread")
               /\ job' = [job EXCEPT ![a].refused = @ \cup {"reasoner"}]
      <4>1. /\ pc'[a] = "rbread"
            /\ job'[a].refused = job[a].refused \cup {"reasoner"}
            /\ job'[a].raised = job[a].raised
            /\ job'[a].reasoner = job[a].reasoner
            /\ job'[a].sparql = job[a].sparql
        BY <3>1, <3>3 DEF Goto, TypeOK, Job
      <4>2. CallInv(pc'[a], job'[a])
        BY <2>4, <3>1, <4>1 DEF CallInv
      <4> QED BY <2>3, <3>1, <4>2
    <3>4. CASE /\ ~ Refused(v)
               /\ job' = [job EXCEPT ![a].reasoner = v]
               /\ Goto(a, "cq")
      <4>1. /\ pc'[a] = "cq" /\ v # "FAIL"
            /\ job'[a].refused = job[a].refused
            /\ job'[a].raised = job[a].raised
            /\ job'[a].reasoner = v
        BY <3>1, <3>4 DEF Goto, TypeOK, Job, Refused
      <4>2. CallInv(pc'[a], job'[a])
        BY <2>4, <3>1, <4>1 DEF CallInv
      <4> QED BY <2>3, <3>1, <4>2
    <3> QED BY <2>9, <3>2, <3>3, <3>4 DEF Reason
  <2>10. ASSUME NEW v \in Verdict, CompetencyQuestions(a, v) PROVE VerdictInv'
    <3>1. pc[a] = "cq" /\ job[a] \in Job /\ UNCHANGED ledger
      BY <2>10, JobType DEF CompetencyQuestions
    <3>2. CASE Return(a)
      BY <2>3, <3>1, <3>2, CallEnded DEF Return, TypeOK
    <3>3. CASE ~ DryRun(a)
      <4> DEFINE r == IF v = "FAIL" THEN job[a].refused \cup {"sparql"}
                      ELSE job[a].refused
                 j == [job[a] EXCEPT !.sparql = v, !.refused = r]
      <4>3. /\ pc' = [pc EXCEPT ![a] = IF v = "FAIL" THEN "rbread" ELSE "ledger"]
            /\ job' = [job EXCEPT ![a] = j]
        BY <2>10, <3>3 DEF CompetencyQuestions, Goto, Refused
      <4>4. /\ j.refused = r /\ j.raised = job[a].raised
            /\ j.reasoner = job[a].reasoner /\ j.sparql = v
        BY <3>1 DEF Job
      <4> HIDE DEF j
      <4>5. /\ pc'[a] = IF v = "FAIL" THEN "rbread" ELSE "ledger"
            /\ job'[a] = j
        BY <4>3 DEF TypeOK
      <4>1. /\ pc'[a] = IF v = "FAIL" THEN "rbread" ELSE "ledger"
            /\ job'[a].refused = r
            /\ job'[a].raised = job[a].raised
            /\ job'[a].reasoner = job[a].reasoner
            /\ job'[a].sparql = v
        BY <4>4, <4>5
      <4>2. CallInv(pc'[a], job'[a])
        BY <2>4, <3>1, <4>1 DEF CallInv
      <4> QED BY <2>3, <3>1, <4>2
    <3> QED BY <2>10, <3>2, <3>3 DEF CompetencyQuestions
  <2>11. ASSUME RollbackRaises(a) PROVE VerdictInv'
    <3>1. pc[a] = "rbread" /\ job[a] \in Job /\ UNCHANGED ledger
      BY <2>11, JobType DEF RollbackRaises
    <3>2. job[a].refused \subseteq Gates
      BY <3>1 DEF Job
    <3>3. CASE /\ job[a].sparql = "FAIL"
               /\ job' = [job EXCEPT ![a].sparql = "SKIPPED",
                                     ![a].raised = @ \cup {"sparql"}]
               /\ Goto(a, "ledger")
      <4>1. /\ pc'[a] = "ledger"
            /\ job'[a].refused = job[a].refused
            /\ job'[a].raised = job[a].raised \cup {"sparql"}
            /\ job'[a].reasoner = job[a].reasoner
            /\ job'[a].sparql = "SKIPPED"
        BY <3>1, <3>3 DEF Goto, TypeOK, Job
      <4>2. CallInv(pc'[a], job'[a])
        BY <2>4, <3>1, <3>3, <4>1 DEF CallInv
      <4> QED BY <2>3, <3>1, <4>2
    <3>4. CASE /\ job[a].sparql # "FAIL"
               /\ job' = [job EXCEPT ![a].raised = @ \cup {"reasoner"}]
               /\ Goto(a, "cq")
      <4>1. /\ pc'[a] = "cq"
            /\ job'[a].refused = job[a].refused
            /\ job'[a].raised = job[a].raised \cup {"reasoner"}
            /\ job'[a].reasoner = job[a].reasoner
        BY <3>1, <3>4 DEF Goto, TypeOK, Job
      <4>2. CallInv(pc'[a], job'[a])
        BY <2>4, <3>1, <3>2, <3>4, <4>1 DEF CallInv
      <4> QED BY <2>3, <3>1, <4>2
    <3> QED BY <2>11, <3>3, <3>4 DEF RollbackRaises
  <2>12. ASSUME WriteLedger(a) PROVE VerdictInv'
    <3>1. /\ Row(a).proposal \in approvedEver
          /\ Row(a).reasoner # "FAIL"
          /\ Row(a).sparql # "FAIL"
      BY <2>4, <2>12 DEF WriteLedger, Row, GateInv, CallInv
    <3>2. ledger' \subseteq ledger \cup {Row(a)}
      BY <2>12 DEF WriteLedger
    <3>3. RowsGated'
      BY <2>2, <3>1, <3>2 DEF VerdictInv, LedgerGated, RowsGated
    <3>4. pc'[a] = "idle"
      BY <2>12 DEF WriteLedger, Return, TypeOK
    <3>5. \A b \in Appliers : CallInv(pc'[b], job'[b])
      BY <2>1, <3>4, CallEnded DEF VerdictInv
    <3>6. LedgerGated'
      BY <3>3, <3>5 DEF LedgerGated, Gated, RowsGated, CallInv
    <3> QED BY <3>5, <3>6 DEF VerdictInv
  <2> QED BY <1>4, <2>5, <2>6, <2>7, <2>8, <2>9, <2>10, <2>11, <2>12
          DEF Step, Work
<1> QED BY <1>2, <1>3, <1>4 DEF Next, Decide

\* A row of ontology_version_ledger is always the record of a release that was
\* approved and shows no FAIL; a change that a gate refused gets a row only
\* where its rollback raised, and the row then shows that gate as SKIPPED.
THEOREM LedgerGatedHolds == Spec => []LedgerGated
<1>1. Init => TypeOK /\ GateInv /\ VerdictInv
  BY TypeInit, GateInit, VerdictInit
<1>2. TypeOK /\ GateInv /\ VerdictInv /\ [Next]_vars
      => TypeOK' /\ GateInv' /\ VerdictInv'
  BY TypeStep, GateStep, VerdictStep
<1>3. VerdictInv => LedgerGated
  BY DEF VerdictInv
<1> QED BY <1>1, <1>2, <1>3, PTL DEF Spec

-----------------------------------------------------------------------------
(* One caller never writes an axiom twice *)

\* The text a caller computed repeats nothing, and while it is the one that
\* emptied the file nobody has put a block in it.
CopyInv ==
    /\ OneBlockPerProposal
    /\ \A a \in Appliers : pc[a] # "idle" => Distinct(job[a].buf.blocks)
    /\ \A a \in Appliers : pc[a] \in {"fill", "rbfill"} => file.blocks = << >>

LEMMA DistinctEmpty == Distinct(<< >>)
  BY DEF Distinct

LEMMA CopyInit == Init => CopyInv
  BY ConstantFiles, DistinctEmpty DEF Init, CopyInv, OneBlockPerProposal

\* A step of the only caller that leaves the file alone.
LEMMA CopyQuiet ==
    ASSUME \A b, c \in Appliers : b = c, TypeOK, CopyInv, UNCHANGED file,
           NEW a \in Appliers, pc'[a] \notin {"fill", "rbfill"},
           pc'[a] # "idle" => Distinct(job'[a].buf.blocks)
    PROVE  CopyInv'
<1>1. \A b \in Appliers : b = a
  OBVIOUS
<1> QED BY <1>1 DEF CopyInv, OneBlockPerProposal, Distinct

LEMMA CopyStep ==
    ASSUME \A b, c \in Appliers : b = c
    PROVE  TypeOK /\ CopyInv /\ [Next]_vars => CopyInv'
<1> SUFFICES ASSUME TypeOK, CopyInv, [Next]_vars PROVE CopyInv'
  OBVIOUS
<1>1. ASSUME NEW p \in Proposals, NEW s \in Status \ {"PENDING"},
             NEW t \in Targets \cup {None}, RecordDecision(p, s, t)
      PROVE  CopyInv'
  BY <1>1 DEF RecordDecision, CopyInv, OneBlockPerProposal, Distinct
<1>2. ASSUME NEW a \in Appliers, NEW p \in Proposals, NEW d \in BOOLEAN,
             Start(a, p, d)
      PROVE  CopyInv'
  <2>1. job'[a].buf = EmptyFile /\ pc'[a] = "version"
    BY <1>2 DEF Start, Goto, TypeOK
  <2> QED BY <1>2, <2>1, ConstantFiles, DistinctEmpty, CopyQuiet DEF Start
<1>3. ASSUME NEW a \in Appliers, ReadVersion(a) PROVE CopyInv'
  <2>1. job'[a].buf = job[a].buf /\ pc'[a] = "content"
    BY <1>3, JobType DEF ReadVersion, Goto, TypeOK, Job
  <2> QED BY <1>3, <2>1, CopyQuiet DEF ReadVersion, CopyInv
<1>4. ASSUME NEW a \in Appliers, ReadContent(a) PROVE CopyInv'
  <2> DEFINE b == WithBlock(file, job[a].prop, job[a].new)
  <2>1. /\ pc[a] # "idle" /\ job[a] \in Job
        /\ pc'[a] \in {"reason", "truncate"}
    BY <1>4, JobType DEF ReadContent, Goto, TypeOK
  <2>2. CASE UNCHANGED job
    <3>1. Distinct(job'[a].buf.blocks)
      BY <2>1, <2>2 DEF CopyInv, Distinct
    <3> QED BY <1>4, <2>1, <3>1, CopyQuiet DEF ReadContent
  <2>3. CASE ~ Marked(file, job[a].prop) /\ job' = [job EXCEPT ![a].buf = b]
    <3>1. Distinct(b.blocks)
      BY <2>1, <2>3, JobType, WithBlockFile
         DEF TypeOK, CopyInv, OneBlockPerProposal
    <3> HIDE DEF b
    <3>2. job'[a].buf = b
      BY <2>1, <2>3 DEF TypeOK, Job
    <3> QED BY <1>4, <2>1, <3>1, <3>2, CopyQuiet DEF ReadContent
  <2> QED BY <1>4, <2>2, <2>3 DEF ReadContent
<1>5. ASSUME NEW a \in Appliers, Truncate(a) \/ RollbackTruncate(a)
      PROVE  CopyInv'
  <2>1. file'.blocks = << >> /\ UNCHANGED job
    BY <1>5, ConstantFiles DEF Truncate, RollbackTruncate
  <2>2. \A b \in Appliers : pc'[b] # "idle" => pc[b] # "idle"
    BY <1>5 DEF Truncate, RollbackTruncate, Goto, TypeOK
  <2> QED BY <2>1, <2>2, DistinctEmpty
          DEF CopyInv, OneBlockPerProposal, Distinct
<1>6. ASSUME NEW a \in Appliers, Fill(a) \/ RollbackFill(a) PROVE CopyInv'
  <2>1. /\ pc[a] \in {"fill", "rbfill"}
        /\ pc'[a] \in {"reason", "idle"}
        /\ pc'[a] # "idle" => job'[a] = job[a]
        /\ file' \in Overwritten(file, job[a].buf)
    BY <1>6 DEF Fill, RollbackFill, Goto, Return, TypeOK
  <2>2. job[a].buf \in File /\ file.blocks = << >>
    BY <2>1, JobType DEF CopyInv
  <2>3. file'.blocks = job[a].buf.blocks
    BY <2>1, <2>2, OverwrittenFile DEF TypeOK
  <2>4. Distinct(job[a].buf.blocks)
    BY <2>1 DEF CopyInv
  <2>5. \A b \in Appliers : b = a
    OBVIOUS
  <2> QED BY <2>1, <2>3, <2>4, <2>5 DEF CopyInv, OneBlockPerProposal, Distinct
<1>7. ASSUME NEW a \in Appliers, NEW v \in Verdict,
             Reason(a, v) \/ CompetencyQuestions(a, v) \/ RollbackRaises(a)
      PROVE  CopyInv'
  <2>1. /\ pc[a] # "idle"
        /\ pc'[a] \notin {"fill", "rbfill"}
        /\ pc'[a] # "idle" => job'[a].buf = job[a].buf
    BY <1>7, JobType
       DEF Reason, CompetencyQuestions, RollbackRaises, Goto, Return, TypeOK, Job
  <2>2. UNCHANGED file
    BY <1>7 DEF Reason, CompetencyQuestions, RollbackRaises
  <2> QED BY <2>1, <2>2, CopyQuiet DEF CopyInv, Distinct
<1>8. ASSUME NEW a \in Appliers,
             WriteLedger(a) \/ RollbackOSError(a) \/ Crash(a)
      PROVE  CopyInv'
  <2>1. pc'[a] = "idle" /\ UNCHANGED file
    BY <1>8 DEF WriteLedger, RollbackOSError, Crash, Return, TypeOK
  <2> QED BY <2>1, CopyQuiet
<1>9. ASSUME NEW a \in Appliers, RollbackRead(a) PROVE CopyInv'
  <2> DEFINE b == WithoutBlock(file, job[a].prop, job[a].old)
  <2>1. pc[a] # "idle" /\ job[a] \in Job /\ pc'[a] = "rbtruncate"
    BY <1>9, JobType DEF RollbackRead, Goto, TypeOK
  <2>2. Distinct(b.blocks)
    BY <2>1, JobType, WithoutBlockFile
       DEF TypeOK, CopyInv, OneBlockPerProposal
  <2> HIDE DEF b
  <2>3. job'[a].buf = b
    BY <1>9, <2>1 DEF RollbackRead, TypeOK, Job, b
  <2> QED BY <1>9, <2>1, <2>2, <2>3, CopyQuiet DEF RollbackRead
<1>10. ASSUME GenTruncate PROVE CopyInv'
  BY <1>10, ConstantFiles, DistinctEmpty
     DEF GenTruncate, CopyInv, OneBlockPerProposal, Distinct
<1>11. ASSUME GenFill PROVE CopyInv'
  <2>1. /\ Distinct(file.blocks) => Distinct(file'.blocks)
        /\ file.blocks = << >> => file'.blocks = << >>
    BY <1>11, ConstantFiles, OverwrittenFile DEF GenFill, TypeOK
  <2> QED BY <1>11, <2>1 DEF GenFill, CopyInv, OneBlockPerProposal, Distinct
<1>13. ASSUME NEW a \in Appliers, RollbackRaises(a) PROVE CopyInv'
  <2>1. "PASS" \in Verdict
    BY DEF Verdict
  <2> QED BY <1>7, <1>13, <2>1
<1>12. ASSUME GenCrash \/ UNCHANGED vars PROVE CopyInv'
  BY <1>12 DEF GenCrash, vars, CopyInv, OneBlockPerProposal, Distinct
<1> QED BY <1>1, <1>2, <1>3, <1>4, <1>5, <1>6, <1>7, <1>8, <1>9, <1>10,
           <1>11, <1>12, <1>13
        DEF Next, Decide, Step, Work

\* With a single caller of apply_approved, a proposal's axiom is in the file at
\* most once, whatever dies half-way, whatever is retried and whenever the
\* generator rewrites the file.
THEOREM OneBlockHolds ==
    ASSUME \A b, c \in Appliers : b = c
    PROVE  Spec => []OneBlockPerProposal
<1>1. Init => TypeOK /\ CopyInv
  BY TypeInit, CopyInit
<1>2. TypeOK /\ CopyInv /\ [Next]_vars => TypeOK' /\ CopyInv'
  BY TypeStep, CopyStep
<1>3. CopyInv => OneBlockPerProposal
  BY DEF CopyInv
<1> QED BY <1>1, <1>2, <1>3, PTL DEF Spec

-----------------------------------------------------------------------------
(* A dry run mutates nothing *)

OnlyDryRuns == /\ gen = "idle" /\ gen' = "idle"
               /\ \A a \in Appliers : pc[a] = "idle" \/ job[a].dry

\* What a dry run must never reach to change file or ledger.
DryInv == \A a \in Appliers :
             pc[a] \in {"truncate", "fill", "rbread", "rbtruncate", "rbfill",
                        "ledger"} => ~ job[a].dry

LEMMA DryInit == Init => DryInv
  BY DEF Init, DryInv

LEMMA DryStep == TypeOK /\ DryInv /\ [Next]_vars => DryInv'
<1> SUFFICES ASSUME TypeOK, DryInv, [Next]_vars PROVE DryInv'
  OBVIOUS
<1>1. ASSUME NEW a \in Appliers, Step(a) PROVE DryInv'
  <2> DEFINE W == {"truncate", "fill", "rbread", "rbtruncate", "rbfill",
                   "ledger"}
  <2>1. SUFFICES pc'[a] \in W => ~ job'[a].dry
    <3>1. \A b \in Appliers \ {a} : pc'[b] = pc[b] /\ job'[b] = job[b]
      BY <1>1 DEF Step, Work, Start, ReadVersion, ReadContent, Truncate, Fill,
                  Reason, CompetencyQuestions, WriteLedger, RollbackRead,
                  RollbackTruncate, RollbackFill, RollbackOSError,
                  RollbackRaises, Crash, Goto, Return, TypeOK
    <3> QED BY <3>1 DEF DryInv
  <2>2. CASE \E p \in Proposals, d \in BOOLEAN : Start(a, p, d)
    BY <2>2 DEF Start, Goto, TypeOK
  <2>3. CASE ReadVersion(a)
    BY <2>3 DEF ReadVersion, Goto, TypeOK
  <2>4. CASE ReadContent(a)
    <3>1. job'[a].dry = job[a].dry
      BY <2>4, JobType DEF ReadContent, TypeOK, Job
    <3>2. pc'[a] = "truncate" => ~ job[a].dry
      BY <2>4 DEF ReadContent, DryRun, Goto, TypeOK
    <3>3. pc'[a] \in {"reason", "truncate"}
      BY <2>4 DEF ReadContent, Goto, TypeOK
    <3> QED BY <3>1, <3>2, <3>3
  <2>5. CASE Truncate(a) \/ Fill(a) \/ RollbackTruncate(a)
    BY <2>5 DEF Truncate, Fill, RollbackTruncate, Goto, TypeOK, DryInv
  <2>6. CASE \E v \in Verdict : Reason(a, v) \/ CompetencyQuestions(a, v)
    <3>1. pc'[a] \in W => ~ job[a].dry
      BY <2>6 DEF Reason, CompetencyQuestions, DryRun, Goto, Return, TypeOK
    <3>2. pc'[a] # "idle" => job'[a].dry = job[a].dry
      BY <2>6, JobType
         DEF Reason, CompetencyQuestions, Goto, Return, TypeOK, Job
    <3> QED BY <3>1, <3>2
  <2>7. CASE \/ WriteLedger(a) \/ RollbackFill(a)
             \/ RollbackOSError(a) \/ Crash(a)
    BY <2>7 DEF WriteLedger, RollbackFill, RollbackOSError, Crash, Return,
                TypeOK
  <2>8. CASE RollbackRead(a)
    BY <2>8, JobType DEF RollbackRead, Goto, TypeOK, DryInv, Job
  <2>9. CASE RollbackRaises(a)
    BY <2>9, JobType DEF RollbackRaises, Goto, TypeOK, DryInv, Job
  <2> QED BY <1>1, <2>2, <2>3, <2>4, <2>5, <2>6, <2>7, <2>8, <2>9
          DEF Step, Work
<1>2. CASE Decide \/ GenTruncate \/ GenFill \/ GenCrash \/ UNCHANGED vars
  BY <1>2 DEF Decide, RecordDecision, GenTruncate, GenFill, GenCrash, vars,
              DryInv
<1> QED BY <1>1, <1>2 DEF Next

\* While the only calls of apply_approved in progress are dry runs, nothing
\* they do changes the ontology file or the ledger.
THEOREM DryRunHolds == Spec => DryRunInert
<1>1. Init => TypeOK /\ DryInv
  BY TypeInit, DryInit
<1>2. TypeOK /\ DryInv /\ [Next]_vars => TypeOK' /\ DryInv'
  BY TypeStep, DryStep
<1>3. ASSUME TypeOK, DryInv, [Next]_vars
      PROVE  [OnlyDryRuns => UNCHANGED <<file, ledger>>]_vars
  <2>1. SUFFICES ASSUME OnlyDryRuns, Next PROVE UNCHANGED <<file, ledger>>
    BY <1>3
  <2>2. ASSUME NEW a \in Appliers, Step(a) PROVE UNCHANGED <<file, ledger>>
    <3>1. pc[a] \notin {"truncate", "fill", "rbread", "rbtruncate", "rbfill",
                        "ledger"}
      BY <1>3, <2>1 DEF DryInv, OnlyDryRuns
    <3> QED BY <2>2, <3>1
        DEF Step, Work, Start, ReadVersion, ReadContent, Truncate, Fill, Reason,
            CompetencyQuestions, WriteLedger, RollbackRead, RollbackTruncate,
            RollbackFill, RollbackOSError, RollbackRaises, Crash
  <2>3. CASE Decide
    BY <2>3 DEF Decide, RecordDecision
  <2>4. CASE GenTruncate \/ GenFill \/ GenCrash
    BY <2>1, <2>4 DEF GenTruncate, GenFill, GenCrash, OnlyDryRuns
  <2> QED BY <2>1, <2>2, <2>3, <2>4 DEF Next
<1> QED BY <1>1, <1>2, <1>3, PTL DEF Spec, DryRunInert, OnlyDryRuns


-----------------------------------------------------------------------------
(* One caller at a time: the code implements AtomicApply *)

NextVersion(j) == IF j.want = None THEN j.old + 1 ELSE j.want

\* The text of j has, under the new version, the block of its proposal last
\* and nowhere else.
Added(j) ==
    /\ j.buf.header = j.new
    /\ j.buf.blocks # << >>
    /\ j.buf.blocks = Append(Front(j.buf.blocks), j.prop)
    /\ \A i \in DOMAIN Front(j.buf.blocks) : Front(j.buf.blocks)[i] # j.prop

\* What the gates judge: nothing that is to stay, a block that was there
\* before, or the text this call wrote.
Judged(a) ==
    \/ job[a].dry
    \/ /\ Marked(file, job[a].prop)
       /\ job[a].buf.blocks = << >>
       /\ job[a].old = VersionOf(file)
    \/ file = job[a].buf /\ Added(job[a])

\* What the caller a knows of the file at each place.
Place(a) ==
    /\ job[a].want \in Numbers \cup {None} /\ job[a].new \in Nat
    /\ pc[a] \in {"version", "content"} => job[a].buf.blocks = << >>
    /\ pc[a] # "version" => job[a].new = NextVersion(job[a])
    /\ pc[a] \in {"content", "truncate"} => job[a].old = VersionOf(file)
    /\ pc[a] = "truncate" =>
          Added(job[a]) /\ Front(job[a].buf.blocks) = file.blocks
    /\ pc[a] = "fill" => file = EmptyFile /\ Added(job[a])
    /\ pc[a] \in {"reason", "cq", "ledger", "rbread"} => Judged(a)
    /\ pc[a] \in {"rbtruncate", "rbfill"} => job[a].buf.header = job[a].old
    /\ pc[a] = "rbfill" => file = EmptyFile
    /\ job[a].dry => pc[a] \in {"version", "content", "reason", "cq"}

Emptied == \E a \in Appliers : pc[a] \in {"fill", "rbfill"}

SerialInv ==
    serial => /\ \A a \in Appliers : pc[a] # "idle" => Alone(a) /\ Place(a)
              /\ file.header = None => Emptied

NumericInv == serial => NumericTargets

LEMMA FrontOf ==
    ASSUME NEW S, NEW s \in Seq(S)
    PROVE  /\ s # << >> => Front(s) \in Seq(S) /\ Len(Front(s)) = Len(s) - 1
           /\ \A e \in S : Front(Append(s, e)) = s /\ Append(s, e) # << >>
<1>1. ASSUME s # << >> PROVE Front(s) \in Seq(S) /\ Len(Front(s)) = Len(s) - 1
  <2>1. Len(s) \in Nat /\ Len(s) # 0
    BY <1>1, EmptySeq, LenProperties
  <2>2. PICK n \in Nat : Len(s) = n + 1
    <3>1. \A m \in Nat : m # 0 => m - 1 \in Nat /\ m = (m - 1) + 1
      OBVIOUS
    <3> QED BY <2>1, <3>1
  <2>3. Len(s) - 1 = n
    BY <2>2
  <2>4. \A i \in 1 .. n : s[i] \in S
    BY <2>2, ElementOfSeq
  <2> DEFINE v == SubSeq(s, 1, n)
  <2>5. v \in Seq(S) /\ Len(v) = IF 1 <= n THEN n - 1 + 1 ELSE 0
    BY <2>4, SubSeqProperties
  <2>6. Front(s) = v
    BY <2>3 DEF Front
  <2> HIDE DEF v
  <2>7. Len(v) = n
    BY <2>5
  <2> QED BY <2>3, <2>5, <2>6, <2>7
<1>2. ASSUME NEW e \in S PROVE Front(Append(s, e)) = s /\ Append(s, e) # << >>
  <2> DEFINE u == Append(s, e)
  <2>1. /\ u \in Seq(S)
        /\ Len(u) = Len(s) + 1
        /\ \A i \in 1 .. Len(s) : u[i] = s[i]
    BY AppendProperties
  <2>2. Len(s) \in Nat
    BY LenProperties
  <2> HIDE DEF u
  <2>3. \A i \in 1 .. Len(s) : u[i] \in S
    BY <2>1, ElementOfSeq
  <2>4. /\ SubSeq(u, 1, Len(s)) \in Seq(S)
        /\ Len(SubSeq(u, 1, Len(s))) = IF 1 <= Len(s) THEN Len(s) - 1 + 1 ELSE 0
        /\ \A i \in 1 .. Len(s) - 1 + 1 : SubSeq(u, 1, Len(s))[i] = u[1 + i - 1]
    BY <2>2, <2>3, SubSeqProperties
  <2>5. SubSeq(u, 1, Len(s)) = s
    <3> DEFINE v == SubSeq(u, 1, Len(s))
    <3>1. v \in Seq(S) /\ Len(v) = Len(s)
      BY <2>2, <2>4
    <3>2. \A i \in 1 .. Len(v) : v[i] = s[i]
      BY <2>1, <2>2, <2>4, <3>1
    <3> HIDE DEF v
    <3>3. v = s
      BY <3>1, <3>2, SeqEqual
    <3> QED BY <3>3 DEF v
  <2>6. Front(u) = s
    BY <2>1, <2>2, <2>5 DEF Front
  <2>7. u # << >>
    BY <2>1, <2>2, EmptySeq
  <2> QED BY <2>6, <2>7 DEF u
<1> QED BY <1>1, <1>2

\* A text computed from a file that can be read and has not the block.
LEMMA AddedToFile ==
    ASSUME NEW f \in File, f.header # None, NEW p \in Proposals, ~ Marked(f, p),
           NEW v \in Nat, NEW j, j.buf = WithBlock(f, p, v), j.prop = p, j.new = v
    PROVE  Added(j) /\ Front(j.buf.blocks) = f.blocks
<1>1. j.buf.header = v /\ j.buf.blocks = Append(f.blocks, p)
  BY DEF WithBlock, Restamped
<1>2. f.blocks \in Seq(Proposals)
  BY DEF File
<1>3. Front(j.buf.blocks) = f.blocks /\ j.buf.blocks # << >>
  BY <1>1, <1>2, FrontOf
<1>4. j.buf.blocks = Append(Front(j.buf.blocks), j.prop)
  BY <1>1, <1>3
<1>5. \A i \in DOMAIN f.blocks : f.blocks[i] # j.prop
  BY DEF Marked
<1>6. \A i \in DOMAIN Front(j.buf.blocks) : Front(j.buf.blocks)[i] # j.prop
  BY <1>3, <1>5
<1>7. j.buf.header = j.new
  BY <1>1
<1> QED BY <1>3, <1>4, <1>6, <1>7 DEF Added

\* What is taken out is the block that was added, and all of it.
LEMMA TakenBack ==
    ASSUME NEW f \in File, NEW j, f = j.buf, Added(j), j.prop \in Proposals
    PROVE  Truncated(f, j.prop) = Front(f.blocks)
<1> DEFINE b == f.blocks
           s == Front(b)
           p == j.prop
<1>1. b \in Seq(Proposals) /\ b # << >> /\ b = Append(s, p)
  BY DEF File, Added
<1>2. s \in Seq(Proposals) /\ Len(s) = Len(b) - 1
  BY <1>1, FrontOf
<1>3. \A i \in DOMAIN s : s[i] # p
  BY DEF Added
<1>4. s = SubSeq(b, 1, Len(b) - 1)
  BY DEF Front
<1>5. j.prop = p /\ f.blocks = b /\ Front(f.blocks) = s
  OBVIOUS
<1> HIDE DEF b, s, p
<1>6. /\ Len(b) = Len(s) + 1 /\ Len(s) \in Nat
      /\ \A i \in 1 .. Len(s) : b[i] = s[i]
      /\ b[Len(s) + 1] = p
  BY <1>1, <1>2, AppendProperties, LenProperties
<1>7. DOMAIN b = 1 .. Len(s) + 1 /\ DOMAIN s = 1 .. Len(s)
  BY <1>1, <1>2, <1>6, LenProperties
<1>8. \A i \in DOMAIN b : b[i] = p => i = Len(s) + 1
  BY <1>3, <1>6, <1>7
<1>9. Len(s) + 1 \in DOMAIN b
  BY <1>6, <1>7
<1>10. Marked(f, p)
  BY <1>5, <1>6, <1>9 DEF Marked
<1>11. MarkerIndex(f, p) = Len(s) + 1
  <2>1. \A k \in DOMAIN b : b[k] = p => Len(s) + 1 <= k
    BY <1>6, <1>8
  <2>2. \A i : i \in DOMAIN b /\ b[i] = p
               /\ (\A k \in DOMAIN b : b[k] = p => i <= k) => i = Len(s) + 1
    BY <1>8
  <2> QED BY <1>5, <1>6, <1>9, <2>1, <2>2 DEF MarkerIndex
<1>12. Truncated(f, p) = SubSeq(b, 1, Len(s))
  BY <1>5, <1>6, <1>10, <1>11 DEF Truncated
<1> QED BY <1>2, <1>4, <1>5, <1>6, <1>12

\* An emptied file that one caller fills holds what that caller writes.
LEMMA FilledAlone ==
    ASSUME NEW g \in File, NEW f \in Overwritten(EmptyFile, g)
    PROVE  f = g
<1>1. PICK h \in HeadersOver(EmptyFile, g), t \in Tails(<< >>) :
        f = [header |-> h, blocks |-> g.blocks \o t]
  <2>1. EmptyFile.blocks = << >>
    BY ConstantFiles
  <2>2. \E h \in HeadersOver(EmptyFile, g), t \in Tails(EmptyFile.blocks) :
          f = [header |-> h, blocks |-> g.blocks \o t]
    BY DEF Overwritten
  <2> HIDE DEF Tails, EmptyFile
  <2> QED BY <2>1, <2>2
<1>2. h = g.header
  BY DEF HeadersOver, EmptyFile
<1>3. << >> \in Seq(Proposals)
  OBVIOUS
<1>4. t = << >>
  BY <1>3, SuffixOf
<1>5. g.blocks \o t = g.blocks
  BY <1>4, ConcatEmptySeq DEF File
<1>6. g = [header |-> g.header, blocks |-> g.blocks]
  BY DEF File
<1> QED BY <1>1, <1>2, <1>5, <1>6

\* Others are idle while a serial caller works.
LEMMA SerialFrom ==
    ASSUME NEW a \in Appliers, Alone(a),
           \A b \in Appliers \ {a} : pc'[b] = pc[b],
           pc'[a] # "idle" => Place(a)',
           file'.header = None => pc'[a] \in {"fill", "rbfill"}
    PROVE  SerialInv'
<1>1. \A b \in Appliers \ {a} : pc'[b] = "idle"
  BY DEF Alone
<1>2. Alone(a)'
  BY <1>1 DEF Alone
<1>3. (file.header = None => Emptied)'
  BY DEF Emptied
<1>4. ASSUME NEW b \in Appliers, pc'[b] # "idle" PROVE Alone(b)' /\ Place(b)'
  BY <1>1, <1>2, <1>4
<1> QED BY <1>3, <1>4 DEF SerialInv

\* Nobody has emptied the file but a.
LEMMA HasHeader ==
    ASSUME SerialInv, serial, NEW a \in Appliers, Alone(a),
           pc[a] \notin {"fill", "rbfill"}
    PROVE  file.header # None
  BY DEF SerialInv, Emptied, Alone

LEMMA SerialStart ==
    ASSUME TypeOK, SerialInv, NumericInv, serial, NEW a \in Appliers, Alone(a),
           NEW p \in Proposals, NEW d \in BOOLEAN, Start(a, p, d)
    PROVE  SerialInv'
<1> DEFINE j == [prop |-> p, dry |-> d, want |-> target[p],
                 old |-> 0, new |-> 0, buf |-> EmptyFile,
                 reasoner |-> "SKIPPED", sparql |-> "SKIPPED",
                 refused |-> {}, raised |-> {}]
<1>1. job' = [job EXCEPT ![a] = j] /\ pc' = [pc EXCEPT ![a] = "version"]
      /\ file' = file /\ pc[a] = "idle"
  BY DEF Start, Goto
<1>2. j.buf.blocks = << >> /\ j.new \in Nat /\ j.want \in Numbers \cup {None}
  BY ConstantFiles DEF NumericInv, NumericTargets
<1> HIDE DEF j
<1>3. pc'[a] = "version" /\ job'[a] = j
  BY <1>1 DEF TypeOK
<1>4. \A b \in Appliers \ {a} : pc'[b] = pc[b]
  BY <1>1 DEF TypeOK
<1>5. Place(a)'
  BY <1>2, <1>3 DEF Place
<1>6. file'.header # None
  BY <1>1, HasHeader
<1> QED BY <1>4, <1>5, <1>6, SerialFrom

LEMMA SerialReadVersion ==
    ASSUME TypeOK, SerialInv, serial, NEW a \in Appliers, Alone(a), ReadVersion(a)
    PROVE  SerialInv'
<1> DEFINE v == VersionOf(file)
           n == IF job[a].want = None THEN v + 1 ELSE job[a].want
           j == [job[a] EXCEPT !.old = v, !.new = n]
<1>1. job' = [job EXCEPT ![a] = j] /\ pc' = [pc EXCEPT ![a] = "content"]
      /\ file' = file /\ pc[a] = "version"
  BY DEF ReadVersion, Goto
<1>2. job[a] \in Job /\ Place(a)
  BY <1>1, JobType DEF SerialInv
<1>3. j.buf = job[a].buf /\ j.old = v /\ j.new = n /\ j.want = job[a].want
  BY <1>2 DEF Job
<1>4. j.new = NextVersion(j)
  BY <1>3 DEF NextVersion
<1>5. /\ j.buf.blocks = << >>
      /\ j.want \in Numbers \cup {None} /\ j.new \in Nat
  <2>1. job[a].buf.blocks = << >> /\ job[a].want \in Numbers \cup {None}
    BY <1>1, <1>2 DEF Place
  <2>2. v \in Nat
    BY DEF VersionOf, TypeOK, File
  <2>3. n \in Nat
    BY <2>1, <2>2 DEF Numbers
  <2> QED BY <1>3, <2>1, <2>3
<1> HIDE DEF j, n
<1>6. pc'[a] = "content" /\ job'[a] = j
  BY <1>1 DEF TypeOK
<1>7. \A b \in Appliers \ {a} : pc'[b] = pc[b]
  BY <1>1 DEF TypeOK
<1>8. j.old = VersionOf(file')
  BY <1>1, <1>3
<1>9. Place(a)'
  BY <1>4, <1>5, <1>6, <1>8 DEF Place
<1>10. file'.header # None
  BY <1>1, HasHeader
<1> QED BY <1>7, <1>9, <1>10, SerialFrom

LEMMA SerialReadContent ==
    ASSUME TypeOK, SerialInv, serial, NEW a \in Appliers, Alone(a), ReadContent(a)
    PROVE  SerialInv'
<1>1. pc[a] = "content" /\ file' = file
  BY DEF ReadContent
<1>2. job[a] \in Job /\ Place(a)
  BY <1>1, JobType DEF SerialInv
<1>3. file.header # None /\ file \in File
  BY <1>1, HasHeader DEF TypeOK
<1>4. CASE Marked(file, job[a].prop) /\ Goto(a, "reason") /\ UNCHANGED job
  <2>1. pc'[a] = "reason" /\ job'[a] = job[a]
        /\ \A b \in Appliers \ {a} : pc'[b] = pc[b]
    BY <1>4 DEF Goto, TypeOK
  <2>2. Judged(a)'
    BY <1>1, <1>2, <1>4, <2>1 DEF Judged, Place
  <2>3. job'[a].new = NextVersion(job'[a])
    BY <1>1, <1>2, <2>1 DEF Place
  <2>4. Place(a)'
    BY <1>2, <2>1, <2>2, <2>3 DEF Place
  <2> QED BY <1>1, <1>3, <2>1, <2>4, SerialFrom
<1>5. ASSUME ~ Marked(file, job[a].prop),
             job' = [job EXCEPT ![a].buf = WithBlock(file, job[a].prop, job[a].new)],
             Goto(a, IF DryRun(a) THEN "reason" ELSE "truncate")
      PROVE  SerialInv'
  <2> DEFINE w == WithBlock(file, job[a].prop, job[a].new)
             j == [job[a] EXCEPT !.buf = w]
  <2>1. job' = [job EXCEPT ![a] = j]
        /\ pc' = [pc EXCEPT ![a] = IF job[a].dry THEN "reason" ELSE "truncate"]
    BY <1>5 DEF Goto, DryRun
  <2>2. /\ j.buf = w /\ j.prop = job[a].prop /\ j.new = job[a].new
        /\ j.old = job[a].old /\ j.want = job[a].want /\ j.dry = job[a].dry
    BY <1>2 DEF Job
  <2> HIDE DEF w, j
  <2>3. job'[a] = j /\ pc'[a] = (IF job[a].dry THEN "reason" ELSE "truncate")
        /\ \A b \in Appliers \ {a} : pc'[b] = pc[b]
    BY <2>1 DEF TypeOK
  <2>4. Added(j) /\ Front(j.buf.blocks) = file.blocks
    <3>1. job[a].prop \in Proposals /\ job[a].new \in Nat
      BY <1>2 DEF Job, Place
    <3> QED BY <1>3, <1>5, <2>2, <3>1, AddedToFile DEF w
  <2>5. /\ j.new = NextVersion(j) /\ j.old = VersionOf(file)
        /\ j.want \in Numbers \cup {None} /\ j.new \in Nat
    BY <1>1, <1>2, <2>2 DEF Place, NextVersion
  <2>6. CASE job[a].dry
    <3>1. pc'[a] = "reason" /\ Judged(a)'
      BY <2>2, <2>3, <2>6 DEF Judged
    <3>2. Place(a)'
      BY <2>3, <2>5, <3>1 DEF Place
    <3> QED BY <1>1, <1>3, <2>3, <3>2, SerialFrom
  <2>7. CASE ~ job[a].dry
    <3>1. pc'[a] = "truncate" /\ ~ job'[a].dry
      BY <2>2, <2>3, <2>7
    <3>2. Place(a)'
      BY <1>1, <2>3, <2>4, <2>5, <3>1 DEF Place
    <3> QED BY <1>1, <1>3, <2>3, <3>2, SerialFrom
  <2> QED BY <2>6, <2>7
<1> QED BY <1>4, <1>5 DEF ReadContent

LEMMA SerialWrite ==
    ASSUME TypeOK, SerialInv, serial, NEW a \in Appliers, Alone(a),
           Truncate(a) \/ RollbackTruncate(a) \/ Fill(a) \/ RollbackFill(a)
    PROVE  SerialInv'
<1>1. pc[a] \in {"truncate", "fill", "rbtruncate", "rbfill"}
  BY DEF Truncate, RollbackTruncate, Fill, RollbackFill
<1>2. job[a] \in Job /\ Place(a) /\ job[a].old \in Nat /\ job[a].new \in Nat
      /\ job[a].buf \in File
  BY <1>1, JobType DEF SerialInv, Place
<1>3. CASE Truncate(a)
  <2>1. pc'[a] = "fill" /\ job'[a] = job[a] /\ file' = EmptyFile
        /\ \A b \in Appliers \ {a} : pc'[b] = pc[b]
    BY <1>3 DEF Truncate, Goto, TypeOK
  <2>2. Place(a)'
    BY <1>2, <1>3, <2>1 DEF Place, Truncate
  <2> QED BY <2>1, <2>2, SerialFrom
<1>4. CASE RollbackTruncate(a)
  <2>1. pc'[a] = "rbfill" /\ job'[a] = job[a] /\ file' = EmptyFile
        /\ \A b \in Appliers \ {a} : pc'[b] = pc[b]
    BY <1>4 DEF RollbackTruncate, Goto, TypeOK
  <2>2. Place(a)'
    BY <1>2, <1>4, <2>1 DEF Place, RollbackTruncate
  <2> QED BY <2>1, <2>2, SerialFrom
<1>5. CASE Fill(a)
  <2>1. pc'[a] = "reason" /\ job'[a] = job[a] /\ pc[a] = "fill"
        /\ \A b \in Appliers \ {a} : pc'[b] = pc[b]
    BY <1>5 DEF Fill, Goto, TypeOK
  <2>2. file = EmptyFile /\ Added(job[a])
    BY <1>2, <2>1 DEF Place
  <2>3. file' = job[a].buf
    BY <1>2, <1>5, <2>2, FilledAlone DEF Fill
  <2>4. file'.header # None
    BY <1>2, <2>2, <2>3, ConstantsOK DEF Added
  <2>5. Judged(a)'
    BY <2>1, <2>2, <2>3 DEF Judged
  <2>6. Place(a)'
    BY <1>2, <2>1, <2>5 DEF Place
  <2> QED BY <2>1, <2>4, <2>6, SerialFrom
<1>6. CASE RollbackFill(a)
  <2>1. pc'[a] = "idle" /\ pc[a] = "rbfill"
        /\ \A b \in Appliers \ {a} : pc'[b] = pc[b]
    BY <1>6 DEF RollbackFill, Return, TypeOK
  <2>2. file = EmptyFile /\ job[a].buf.header = job[a].old
    BY <1>2, <2>1 DEF Place
  <2>3. file' = job[a].buf
    BY <1>2, <1>6, <2>2, FilledAlone DEF RollbackFill
  <2>4. file'.header # None
    BY <1>2, <2>2, <2>3, ConstantsOK
  <2> QED BY <2>1, <2>4, SerialFrom
<1> QED BY <1>3, <1>4, <1>5, <1>6

\* A call that keeps its text and the file, and only goes on or ends.
LEMMA SerialMoves ==
    ASSUME TypeOK, SerialInv, serial, NEW a \in Appliers, Alone(a),
           pc[a] \in {"reason", "cq", "ledger"}, file' = file,
           \A b \in Appliers \ {a} : pc'[b] = pc[b],
           pc'[a] # "idle" =>
              /\ pc'[a] = "cq" \/ (pc'[a] \in {"ledger", "rbread"} /\ ~ job[a].dry)
              /\ job'[a].prop = job[a].prop /\ job'[a].dry = job[a].dry
              /\ job'[a].want = job[a].want /\ job'[a].buf = job[a].buf
              /\ job'[a].old = job[a].old /\ job'[a].new = job[a].new
    PROVE  SerialInv'
<1>1. Place(a) /\ file'.header # None
  BY HasHeader DEF SerialInv
<1>2. ASSUME pc'[a] # "idle" PROVE Place(a)'
  <2>1. Judged(a)'
    BY <1>1, <1>2 DEF Place, Judged, Added
  <2>2. job'[a].new = NextVersion(job'[a])
    BY <1>1, <1>2 DEF Place, NextVersion
  <2> QED BY <1>1, <1>2, <2>1, <2>2 DEF Place
<1> QED BY <1>1, <1>2, SerialFrom

LEMMA SerialGates ==
    ASSUME TypeOK, SerialInv, serial, NEW a \in Appliers, Alone(a),
           \/ \E v \in Verdict : Reason(a, v) \/ CompetencyQuestions(a, v)
           \/ WriteLedger(a)
    PROVE  SerialInv'
<1>1. CASE WriteLedger(a)
  <2>1. pc'[a] = "idle" /\ pc[a] = "ledger" /\ file' = file
        /\ \A b \in Appliers \ {a} : pc'[b] = pc[b]
    BY <1>1 DEF WriteLedger, Return, TypeOK
  <2> QED BY <2>1, SerialMoves
<1>2. ASSUME NEW v \in Verdict, Reason(a, v) PROVE SerialInv'
  <2>1. pc[a] = "reason" /\ file' = file /\ job[a] \in Job
    BY <1>2, JobType DEF Reason
  <2>2. CASE Return(a)
    BY <2>1, <2>2, SerialMoves DEF Return, TypeOK
  <2>3. CASE /\ ~ DryRun(a) /\ Goto(a, "rbread")
             /\ job' = [job EXCEPT ![a].refused = @ \cup {"reasoner"}]
    BY <2>1, <2>3, SerialMoves DEF Goto, TypeOK, DryRun, Job
  <2>4. CASE job' = [job EXCEPT ![a].reasoner = v] /\ Goto(a, "cq")
    BY <2>1, <2>4, SerialMoves DEF Goto, TypeOK, Job
  <2> QED BY <1>2, <2>2, <2>3, <2>4 DEF Reason
<1>3. ASSUME NEW v \in Verdict, CompetencyQuestions(a, v) PROVE SerialInv'
  <2>1. pc[a] = "cq" /\ file' = file /\ job[a] \in Job
    BY <1>3, JobType DEF CompetencyQuestions
  <2>2. CASE Return(a)
    BY <2>1, <2>2, SerialMoves DEF Return, TypeOK
  <2>3. CASE /\ ~ DryRun(a)
             /\ job' = [job EXCEPT ![a].sparql = v,
                                   ![a].refused = IF Refused(v)
                                                  THEN @ \cup {"sparql"} ELSE @]
             /\ Goto(a, IF Refused(v) THEN "rbread" ELSE "ledger")
    <3>1. /\ job'[a].prop = job[a].prop /\ job'[a].dry = job[a].dry
          /\ job'[a].want = job[a].want /\ job'[a].buf = job[a].buf
          /\ job'[a].old = job[a].old /\ job'[a].new = job[a].new
      BY <2>1, <2>3 DEF TypeOK, Job
    <3> QED BY <2>1, <2>3, <3>1, SerialMoves DEF Goto, TypeOK, DryRun
  <2> QED BY <1>3, <2>2, <2>3 DEF CompetencyQuestions
<1> QED BY <1>1, <1>2, <1>3

LEMMA SerialRollbackRead ==
    ASSUME TypeOK, SerialInv, serial, NEW a \in Appliers, Alone(a), RollbackRead(a)
    PROVE  SerialInv'
<1> DEFINE w == WithoutBlock(file, job[a].prop, job[a].old)
           j == [job[a] EXCEPT !.buf = w]
<1>1. job' = [job EXCEPT ![a] = j] /\ pc' = [pc EXCEPT ![a] = "rbtruncate"]
      /\ file' = file /\ pc[a] = "rbread"
  BY DEF RollbackRead, Goto
<1>2. job[a] \in Job /\ Place(a) /\ file.header # None
  BY <1>1, JobType, HasHeader DEF SerialInv
<1>3. /\ j.buf = w /\ j.new = job[a].new
      /\ j.old = job[a].old /\ j.want = job[a].want /\ j.dry = job[a].dry
  BY <1>2 DEF Job
<1>4. w.header = job[a].old
  BY <1>2 DEF WithoutBlock, Restamped, Job
<1> HIDE DEF w, j
<1>5. pc'[a] = "rbtruncate" /\ job'[a] = j
      /\ \A b \in Appliers \ {a} : pc'[b] = pc[b]
  BY <1>1 DEF TypeOK
<1>6. /\ j.new = NextVersion(j) /\ ~ j.dry
      /\ j.want \in Numbers \cup {None} /\ j.new \in Nat
  BY <1>1, <1>2, <1>3 DEF Place, NextVersion
<1>7. Place(a)'
  BY <1>3, <1>4, <1>5, <1>6 DEF Place
<1> QED BY <1>1, <1>2, <1>5, <1>7, SerialFrom

LEMMA SerialInvStep ==
    TypeOK /\ SerialInv /\ NumericInv /\ [SerialNext]_svars
    => SerialInv' /\ NumericInv'
<1> SUFFICES ASSUME TypeOK, SerialInv, NumericInv, [SerialNext]_svars
             PROVE  SerialInv' /\ NumericInv'
  OBVIOUS
<1>5. NumericInv'
  <2>1. CASE SerialNext
    BY <2>1 DEF SerialNext, NumericInv
  <2>2. CASE UNCHANGED svars
    BY <2>2 DEF svars, vars, NumericInv, NumericTargets
  <2> QED BY <2>1, <2>2
<1>1. serial' = serial
  BY DEF SerialNext, svars
<1>2. CASE ~ serial
  BY <1>1, <1>2, <1>5 DEF SerialInv
<1>3. ASSUME Decide \/ UNCHANGED vars PROVE SerialInv'
  <2>1. UNCHANGED <<pc, job, file>>
    BY <1>3 DEF Decide, RecordDecision, vars
  <2>2. \A a \in Appliers : Place(a) => Place(a)'
    BY <2>1 DEF Place, Judged
  <2>3. \A a \in Appliers : Alone(a) => Alone(a)'
    BY <2>1 DEF Alone
  <2>4. Emptied => Emptied'
    BY <2>1 DEF Emptied
  <2> QED BY <1>1, <2>1, <2>2, <2>3, <2>4 DEF SerialInv
<1>4. ASSUME serial, NEW a \in Appliers, Alone(a), Work(a) PROVE SerialInv'
  BY <1>4, SerialStart, SerialReadVersion, SerialReadContent, SerialWrite,
     SerialGates, SerialRollbackRead DEF Work
<1> QED BY <1>2, <1>3, <1>4, <1>5 DEF SerialNext, svars

\* What is published while a alone may be at work.
Live(a) == IF Tentative(a) THEN Front(job[a].buf.blocks)
           ELSE IF RollingBack(a) THEN job[a].buf.blocks
           ELSE file.blocks

Vers(a) == IF Tentative(a) \/ RollingBack(a) THEN job[a].old ELSE VersionOf(file)

LEMMA Seen ==
    ASSUME NEW a \in Appliers, Alone(a)
    PROVE  livePublished = Live(a) /\ versionPublished = Vers(a)
<1>1. \A b \in Appliers : (Tentative(b) \/ RollingBack(b)) => b = a
  BY DEF Alone, Tentative, Writing, RollingBack
<1>2. /\ Tentative(a) => (CHOOSE b \in Appliers : Tentative(b)) = a
      /\ RollingBack(a) => (CHOOSE b \in Appliers : RollingBack(b)) = a
      /\ Tentative(a) \/ RollingBack(a)
         => (CHOOSE b \in Appliers : Tentative(b) \/ RollingBack(b)) = a
  BY <1>1
<1> QED BY <1>1, <1>2 DEF Live, Vers, livePublished, versionPublished

LEMMA SeenNext ==
    ASSUME NEW a \in Appliers, Alone(a)'
    PROVE  livePublished' = Live(a)' /\ versionPublished' = Vers(a)'
<1>1. \A b \in Appliers : (Tentative(b)' \/ RollingBack(b)') => b = a
  BY DEF Alone, Tentative, Writing, RollingBack
<1>2. /\ Tentative(a)' => (CHOOSE b \in Appliers : Tentative(b)') = a
      /\ RollingBack(a)' => (CHOOSE b \in Appliers : RollingBack(b)') = a
      /\ Tentative(a)' \/ RollingBack(a)'
         => (CHOOSE b \in Appliers : Tentative(b)' \/ RollingBack(b)') = a
  BY <1>1
<1> QED BY <1>1, <1>2 DEF Live, Vers, livePublished, versionPublished

\* The steps of AtomicApply, in the terms of the mapping.
LEMMA Stutters ==
    ASSUME serial, serial', livePublished' = livePublished,
           versionPublished' = versionPublished,
           UNCHANGED <<approvedEver, ledger>>
    PROVE  UNCHANGED Atomic!vars
  BY DEF Atomic!vars

Recorded(p, v, old) ==
    \E r, s \in {"PASS", "SKIPPED"} :
        ledger' = IF \E x \in ledger : x.version = v
                  THEN ledger
                  ELSE ledger \cup {[version |-> v, parent |-> old,
                                     proposal |-> p, reasoner |-> r, sparql |-> s]}

LEMMA Publishes ==
    ASSUME serial, serial', NEW p \in Proposals, NEW w \in Numbers \cup {None}, NEW v,
           v = (IF w = None THEN versionPublished + 1 ELSE w), p \in approvedEver,
           \A i \in DOMAIN livePublished : livePublished[i] # p,
           livePublished' = Append(livePublished, p), versionPublished' = v,
           Recorded(p, v, versionPublished), UNCHANGED approvedEver
    PROVE  Atomic!Next
<1>1. Atomic!Publish(p, w)
  BY DEF Atomic!Publish, Atomic!Published, Atomic!Record, Atomic!Release, Recorded
<1> QED BY <1>1 DEF Atomic!Next

LEMMA Reaffirms ==
    ASSUME serial, serial', NEW p \in Proposals, NEW w \in Numbers \cup {None}, NEW v,
           v = (IF w = None THEN versionPublished + 1 ELSE w),
           \E i \in DOMAIN livePublished : livePublished[i] = p,
           livePublished' = livePublished, versionPublished' = versionPublished,
           Recorded(p, v, versionPublished), UNCHANGED approvedEver
    PROVE  Atomic!Next
<1>1. Atomic!Reaffirm(p, w)
  BY DEF Atomic!Reaffirm, Atomic!Published, Atomic!Record, Atomic!Release, Recorded
<1> QED BY <1>1 DEF Atomic!Next

LEMMA Withdraws ==
    ASSUME serial, serial', NEW p \in Proposals, NEW i \in DOMAIN livePublished,
           livePublished[i] = p, livePublished' = SubSeq(livePublished, 1, i - 1),
           versionPublished' = versionPublished, UNCHANGED <<approvedEver, ledger>>
    PROVE  Atomic!Next
<1>1. Atomic!Withdraw(p)
  BY DEF Atomic!Withdraw
<1> QED BY <1>1 DEF Atomic!Next

LEMMA Approves ==
    ASSUME serial, serial', NEW p \in Proposals,
           approvedEver' = approvedEver \cup {p}, livePublished' = livePublished,
           versionPublished' = versionPublished, UNCHANGED ledger
    PROVE  Atomic!Next
<1>1. Atomic!Approve(p)
  BY DEF Atomic!Approve
<1> QED BY <1>1 DEF Atomic!Next

\* A step after which a sees the same.
LEMMA Quiet ==
    ASSUME serial, serial', NEW a \in Appliers, Alone(a),
           \A b \in Appliers \ {a} : pc'[b] = pc[b],
           UNCHANGED <<approvedEver, ledger>>,
           Live(a)' = Live(a), Vers(a)' = Vers(a)
    PROVE  UNCHANGED Atomic!vars
<1>1. Alone(a)'
  BY DEF Alone
<1> QED BY <1>1, Seen, SeenNext, Stutters

\* Until the block is written, and after it is taken out, the file is published.
LEMMA QuietBefore ==
    ASSUME TypeOK, SerialInv, serial, serial', NEW a \in Appliers, Alone(a),
           \/ \E p \in Proposals, d \in BOOLEAN : Start(a, p, d)
           \/ ReadVersion(a)
           \/ ReadContent(a)
    PROVE  UNCHANGED Atomic!vars
<1>1. pc[a] \in {"idle", "version", "content"} /\ UNCHANGED <<file, approvedEver, ledger>>
      /\ \A b \in Appliers \ {a} : pc'[b] = pc[b]
  BY DEF Start, ReadVersion, ReadContent, Goto, TypeOK, rows
<1>2. Live(a) = file.blocks /\ Vers(a) = VersionOf(file)
  BY <1>1 DEF Live, Vers, Tentative, Writing, RollingBack
<1>3. ~ Tentative(a)' /\ ~ RollingBack(a)'
  <2>1. CASE \E p \in Proposals, d \in BOOLEAN : Start(a, p, d)
    BY <2>1 DEF Start, Goto, TypeOK, Tentative, Writing, RollingBack
  <2>2. CASE ReadVersion(a)
    BY <2>2 DEF ReadVersion, Goto, TypeOK, Tentative, Writing, RollingBack
  <2>3. CASE ReadContent(a)
    <3>1. pc[a] = "content" /\ job[a] \in Job /\ job[a].buf.blocks = << >>
      BY <2>3, JobType DEF ReadContent, SerialInv, Place
    <3>2. CASE Goto(a, "reason") /\ UNCHANGED job
      BY <3>1, <3>2 DEF Goto, TypeOK, Tentative, Writing, RollingBack
    <3>3. ASSUME job' = [job EXCEPT ![a].buf = WithBlock(file, job[a].prop, job[a].new)],
                 Goto(a, IF DryRun(a) THEN "reason" ELSE "truncate")
          PROVE  ~ Tentative(a)' /\ ~ RollingBack(a)'
      <4>1. job'[a].dry = job[a].dry
        BY <3>1, <3>3 DEF TypeOK, Job
      <4>2. pc'[a] = IF job[a].dry THEN "reason" ELSE "truncate"
        BY <3>3 DEF Goto, TypeOK, DryRun
      <4> QED BY <4>1, <4>2 DEF Tentative, Writing, RollingBack
    <3> QED BY <2>3, <3>2, <3>3 DEF ReadContent
  <2> QED BY <2>1, <2>2, <2>3
<1>4. Live(a)' = file.blocks /\ Vers(a)' = VersionOf(file)
  BY <1>1, <1>3 DEF Live, Vers
<1> QED BY <1>1, <1>2, <1>4, Quiet

LEMMA QuietWrites ==
    ASSUME TypeOK, SerialInv, serial, serial', NEW a \in Appliers, Alone(a),
           Truncate(a) \/ RollbackTruncate(a) \/ Fill(a) \/ RollbackFill(a)
    PROVE  UNCHANGED Atomic!vars
<1>1. pc[a] # "idle" /\ UNCHANGED <<approvedEver, ledger>>
      /\ \A b \in Appliers \ {a} : pc'[b] = pc[b]
  BY DEF Truncate, RollbackTruncate, Fill, RollbackFill, Goto, Return, TypeOK, rows
<1>2. job[a] \in Job /\ job[a].buf \in File /\ Place(a)
  BY <1>1, JobType DEF SerialInv
<1>3. CASE Truncate(a)
  <2>1. pc[a] = "truncate" /\ pc'[a] = "fill" /\ job'[a] = job[a]
    BY <1>3 DEF Truncate, Goto, TypeOK
  <2>2. /\ ~ job[a].dry /\ job[a].buf.blocks # << >>
        /\ Front(job[a].buf.blocks) = file.blocks /\ job[a].old = VersionOf(file)
    BY <1>2, <2>1 DEF Place, Added
  <2>3. Live(a) = file.blocks /\ Vers(a) = VersionOf(file)
    BY <2>1 DEF Live, Vers, Tentative, Writing, RollingBack
  <2>4. Live(a)' = file.blocks /\ Vers(a)' = VersionOf(file)
    BY <2>1, <2>2 DEF Live, Vers, Tentative, Writing
  <2> QED BY <1>1, <2>3, <2>4, Quiet
<1>4. CASE Fill(a)
  <2>1. pc[a] = "fill" /\ pc'[a] = "reason" /\ job'[a] = job[a]
    BY <1>4 DEF Fill, Goto, TypeOK
  <2>2. Tentative(a) /\ Tentative(a)'
    BY <1>2, <2>1 DEF Place, Added, Tentative, Writing
  <2>3. Live(a)' = Live(a) /\ Vers(a)' = Vers(a)
    BY <2>1, <2>2 DEF Live, Vers
  <2> QED BY <1>1, <2>3, Quiet
<1>5. CASE RollbackTruncate(a)
  <2>1. pc[a] = "rbtruncate" /\ pc'[a] = "rbfill" /\ job'[a] = job[a]
    BY <1>5 DEF RollbackTruncate, Goto, TypeOK
  <2>2. Live(a)' = Live(a) /\ Vers(a)' = Vers(a)
    BY <2>1 DEF Live, Vers, Tentative, Writing, RollingBack
  <2> QED BY <1>1, <2>2, Quiet
<1>6. CASE RollbackFill(a)
  <2>1. pc[a] = "rbfill" /\ pc'[a] = "idle"
    BY <1>6 DEF RollbackFill, Return, TypeOK
  <2>2. file = EmptyFile /\ job[a].buf.header = job[a].old
    BY <1>2, <2>1 DEF Place
  <2>3. file' = job[a].buf
    BY <1>2, <1>6, <2>2, FilledAlone DEF RollbackFill
  <2>4. VersionOf(file') = job[a].old
    BY <1>2, <2>2, <2>3, ConstantsOK DEF VersionOf, Job
  <2>5. Live(a) = job[a].buf.blocks /\ Vers(a) = job[a].old
    BY <2>1 DEF Live, Vers, Tentative, Writing, RollingBack
  <2>6. Live(a)' = file'.blocks /\ Vers(a)' = VersionOf(file')
    BY <2>1 DEF Live, Vers, Tentative, Writing, RollingBack
  <2> QED BY <1>1, <2>3, <2>4, <2>5, <2>6, Quiet
<1> QED BY <1>3, <1>4, <1>5, <1>6

LEMMA QuietGates ==
    ASSUME TypeOK, SerialInv, serial, serial', NEW a \in Appliers, Alone(a),
           \E v \in Verdict : Reason(a, v) \/ CompetencyQuestions(a, v)
    PROVE  UNCHANGED Atomic!vars
<1>1. /\ pc[a] \in {"reason", "cq"} /\ UNCHANGED <<file, approvedEver, ledger>>
      /\ \A b \in Appliers \ {a} : pc'[b] = pc[b]
  BY DEF Reason, CompetencyQuestions, Goto, Return, TypeOK, rows
<1>2. job[a] \in Job
  BY <1>1, JobType
<1>3. \/ pc'[a] = "idle" /\ job[a].dry
      \/ /\ pc'[a] \in {"cq", "rbread", "ledger"}
         /\ job'[a].buf = job[a].buf /\ job'[a].old = job[a].old
         /\ job'[a].dry = job[a].dry
  BY <1>2 DEF Reason, CompetencyQuestions, Goto, Return, DryRun, TypeOK, Job
<1>4. CASE pc'[a] = "idle" /\ job[a].dry
  BY <1>1, <1>4, Quiet DEF Live, Vers, Tentative, Writing, RollingBack
<1>5. CASE /\ pc'[a] \in {"cq", "rbread", "ledger"}
           /\ job'[a].buf = job[a].buf /\ job'[a].old = job[a].old
           /\ job'[a].dry = job[a].dry
  <2>1. Tentative(a)' = Tentative(a) /\ ~ RollingBack(a) /\ ~ RollingBack(a)'
    BY <1>1, <1>5 DEF Tentative, Writing, RollingBack
  <2>2. Live(a)' = Live(a) /\ Vers(a)' = Vers(a)
    BY <1>1, <1>5, <2>1 DEF Live, Vers
  <2> QED BY <1>1, <2>2, Quiet
<1> QED BY <1>3, <1>4, <1>5

\* The row of a release: the axiom is published, or was and stays.
LEMMA LedgerStep ==
    ASSUME TypeOK, GateInv, VerdictInv, SerialInv, serial, serial',
           NEW a \in Appliers, Alone(a), WriteLedger(a)
    PROVE  Atomic!Next
<1>1. /\ pc[a] = "ledger" /\ pc'[a] = "idle" /\ UNCHANGED <<file, approvedEver>>
      /\ \A b \in Appliers \ {a} : pc'[b] = pc[b]
      /\ ledger' = IF \E x \in ledger : x.version = job[a].new
                   THEN ledger ELSE ledger \cup {Row(a)}
  BY DEF WriteLedger, Return, TypeOK, rows
<1> DEFINE p == job[a].prop
           w == job[a].want
           v == job[a].new
           old == job[a].old
<1>2. job[a] \in Job /\ Place(a) /\ p \in approvedEver /\ p \in Proposals
      /\ w \in Numbers \cup {None} /\ v \in Nat
  BY <1>1, JobType DEF SerialInv, GateInv, Job, Place
<1>3. v = (IF w = None THEN old + 1 ELSE w) /\ Judged(a) /\ ~ job[a].dry
  BY <1>1, <1>2 DEF Place, NextVersion
<1>4. job[a].reasoner \in {"PASS", "SKIPPED"} /\ job[a].sparql \in {"PASS", "SKIPPED"}
  BY <1>1, <1>2 DEF VerdictInv, CallInv, Job, Verdict
<1>5. Recorded(p, v, old)
  BY <1>1, <1>4 DEF Recorded, Row
<1>6. Alone(a)'
  BY <1>1 DEF Alone
<1>7. livePublished = Live(a) /\ versionPublished = Vers(a)
  BY Seen
<1>8. livePublished' = file.blocks /\ versionPublished' = VersionOf(file)
  BY <1>1, <1>6, SeenNext DEF Live, Vers, Tentative, Writing, RollingBack
<1>9. ASSUME Marked(file, p), job[a].buf.blocks = << >>, old = VersionOf(file)
      PROVE  Atomic!Next
  <2>1. Live(a) = file.blocks /\ Vers(a) = old
    BY <1>1, <1>9 DEF Live, Vers, Tentative, Writing, RollingBack
  <2>2. \E i \in DOMAIN livePublished : livePublished[i] = p
    BY <1>7, <1>9, <2>1 DEF Marked
  <2> HIDE DEF p, w, v, old
  <2> QED BY <1>1, <1>2, <1>3, <1>5, <1>7, <1>8, <1>9, <2>1, <2>2, Reaffirms
<1>10. ASSUME file = job[a].buf, Added(job[a]) PROVE Atomic!Next
  <2>1. Tentative(a)
    BY <1>1, <1>3, <1>10 DEF Tentative, Writing, Added
  <2>2. Live(a) = Front(file.blocks) /\ Vers(a) = old
    BY <1>10, <2>1 DEF Live, Vers
  <2>3. /\ \A i \in DOMAIN Front(file.blocks) : Front(file.blocks)[i] # p
        /\ file.blocks = Append(Front(file.blocks), p)
        /\ file.header = v
    BY <1>10 DEF Added
  <2>4. v \in Nat
    BY <1>2
  <2>5. VersionOf(file) = v
    BY <2>3, <2>4, ConstantsOK DEF VersionOf
  <2> HIDE DEF p, w, v, old
  <2> QED BY <1>1, <1>2, <1>3, <1>5, <1>7, <1>8, <2>2, <2>3, <2>5, Publishes
<1> QED BY <1>3, <1>9, <1>10 DEF Judged

\* A rollback takes back the block it tried, or with a block that was there
\* before all that follows it.
LEMMA RollbackStep ==
    ASSUME TypeOK, SerialInv, serial, serial',
           NEW a \in Appliers, Alone(a), RollbackRead(a)
    PROVE  Atomic!Next \/ UNCHANGED Atomic!vars
<1> DEFINE p == job[a].prop
           b == WithoutBlock(file, p, job[a].old)
           j == [job[a] EXCEPT !.buf = b]
<1>1. /\ pc[a] = "rbread" /\ UNCHANGED <<file, approvedEver, ledger>>
      /\ pc' = [pc EXCEPT ![a] = "rbtruncate"] /\ job' = [job EXCEPT ![a] = j]
  BY DEF RollbackRead, Goto, rows
<1>2. job[a] \in Job /\ Place(a) /\ p \in Proposals /\ file \in File
  BY <1>1, JobType DEF SerialInv, TypeOK
<1>3. j.buf.blocks = Truncated(file, p) /\ j.old = job[a].old
  BY <1>2 DEF WithoutBlock, Job
<1> HIDE DEF j
<1>4. /\ pc'[a] = "rbtruncate" /\ job'[a] = j
      /\ \A c \in Appliers \ {a} : pc'[c] = pc[c]
  BY <1>1 DEF TypeOK
<1>5. Live(a)' = Truncated(file, p) /\ Vers(a)' = job[a].old
  BY <1>3, <1>4 DEF Live, Vers, Tentative, Writing, RollingBack
<1>6. Judged(a) /\ ~ job[a].dry
  BY <1>1, <1>2 DEF Place
<1>7. ASSUME Marked(file, p), job[a].buf.blocks = << >>, job[a].old = VersionOf(file)
      PROVE  Atomic!Next
  <2>1. Live(a) = file.blocks /\ Vers(a) = job[a].old
    BY <1>1, <1>7 DEF Live, Vers, Tentative, Writing, RollingBack
  <2>2. Alone(a)'
    BY <1>4 DEF Alone
  <2> DEFINE m == MarkerIndex(file, p)
  <2>3. Truncated(file, p) = SubSeq(file.blocks, 1, m - 1)
    BY <1>7 DEF Truncated
  <2>4. m \in DOMAIN file.blocks /\ file.blocks[m] = p
    BY <1>2, <1>7, MarkerFound
  <2> HIDE DEF p, m
  <2>5. livePublished = file.blocks /\ versionPublished = job[a].old
    BY <2>1, Seen
  <2>6. livePublished' = SubSeq(livePublished, 1, m - 1)
        /\ versionPublished' = versionPublished
    BY <1>5, <2>2, <2>3, <2>5, SeenNext
  <2> QED BY <1>1, <1>2, <2>4, <2>5, <2>6, Withdraws
<1>8. ASSUME file = job[a].buf, Added(job[a]) PROVE UNCHANGED Atomic!vars
  <2>1. Tentative(a)
    BY <1>1, <1>6, <1>8 DEF Tentative, Writing, Added
  <2>2. Live(a) = Front(file.blocks) /\ Vers(a) = job[a].old
    BY <1>8, <2>1 DEF Live, Vers
  <2>3. Truncated(file, p) = Front(file.blocks)
    BY <1>2, <1>8, TakenBack
  <2> QED BY <1>1, <1>4, <1>5, <2>2, <2>3, Quiet
<1> QED BY <1>6, <1>7, <1>8 DEF Judged

LEMMA DecideStep ==
    ASSUME TypeOK, serial, serial', Decide
    PROVE  Atomic!Next \/ UNCHANGED Atomic!vars
<1>1. PICK p \in Proposals, s \in Status \ {"PENDING"}, t \in Targets \cup {None} :
        RecordDecision(p, s, t)
  BY DEF Decide
<1>2. UNCHANGED <<pc, job, file, ledger>>
  BY <1>1 DEF RecordDecision
<1>3. livePublished' = livePublished /\ versionPublished' = versionPublished
  BY <1>2 DEF livePublished, versionPublished, Tentative, Writing, RollingBack
<1>4. CASE approvedEver' = approvedEver
  BY <1>2, <1>3, <1>4, Stutters
<1>5. CASE approvedEver' = approvedEver \cup {p}
  BY <1>2, <1>3, <1>5, Approves
<1> QED BY <1>1, <1>4, <1>5 DEF RecordDecision

LEMMA AtomicInit == SerialInit => Atomic!Init
<1> SUFFICES ASSUME SerialInit PROVE Atomic!Init
  OBVIOUS
<1>1. \A a \in Appliers : ~ Tentative(a) /\ ~ RollingBack(a)
  BY DEF SerialInit, Init, Tentative, Writing, RollingBack
<1>2. livePublished = << >> /\ versionPublished = 0
  BY <1>1, ConstantsOK
     DEF livePublished, versionPublished, SerialInit, Init, GeneratedFile, VersionOf
<1> QED BY <1>2 DEF SerialInit, Init, Atomic!Init

LEMMA AtomicStep ==
    TypeOK /\ GateInv /\ VerdictInv /\ SerialInv /\ [SerialNext]_svars
    => [Atomic!Next]_(Atomic!vars)
<1> SUFFICES ASSUME TypeOK, GateInv, VerdictInv, SerialInv, [SerialNext]_svars
             PROVE  Atomic!Next \/ UNCHANGED Atomic!vars
  OBVIOUS
<1>1. serial' = serial
  BY DEF SerialNext, svars
<1>2. CASE ~ serial
  BY <1>1, <1>2 DEF Atomic!vars
<1>3. CASE serial /\ UNCHANGED vars
  <2>1. livePublished' = livePublished /\ versionPublished' = versionPublished
    BY <1>3 DEF vars, livePublished, versionPublished, Tentative, Writing, RollingBack
  <2> QED BY <1>1, <1>3, <2>1, Stutters DEF vars
<1>4. CASE serial /\ Decide
  BY <1>1, <1>4, DecideStep
<1>5. ASSUME serial, NEW a \in Appliers, Alone(a), Work(a)
      PROVE  Atomic!Next \/ UNCHANGED Atomic!vars
  <2> HIDE DEF Atomic!vars, Atomic!Next
  <2> QED BY <1>1, <1>5, QuietBefore, QuietWrites, QuietGates, LedgerStep,
             RollbackStep DEF Work
<1> QED BY <1>1, <1>2, <1>3, <1>4, <1>5 DEF SerialNext, svars

\* A single caller's applies are all or nothing: every behaviour of the code in
\* which calls do not overlap, the version targets reviewers give are numbers
\* and nothing fails or regenerates the file is one of the atomic specification,
\* for any proposals, callers and numbers.
THEOREM AtomicApplyHolds == SerialSpec => ImplementsAtomicApply
<1>1. SerialInit => TypeOK /\ GateInv /\ VerdictInv /\ SerialInv /\ NumericInv
  <2>1. SerialInit => SerialInv /\ NumericInv
    BY ConstantsOK DEF SerialInit, Init, SerialInv, NumericInv, NumericTargets,
                       GeneratedFile
  <2> QED BY <2>1, TypeInit, GateInit, VerdictInit DEF SerialInit
<1>2. [SerialNext]_svars => [Next]_vars
  BY DEF SerialNext, svars, Next, Step
<1>3. TypeOK /\ GateInv /\ VerdictInv /\ SerialInv /\ NumericInv
      /\ [SerialNext]_svars
      => TypeOK' /\ GateInv' /\ VerdictInv' /\ SerialInv' /\ NumericInv'
  BY <1>2, TypeStep, GateStep, VerdictStep, SerialInvStep
<1> QED BY <1>1, <1>3, AtomicInit, AtomicStep, PTL
        DEF SerialSpec, ImplementsAtomicApply, Atomic!Spec

-----------------------------------------------------------------------------
(* Phases and the files they write *)

\* What holds of 0 and is passed on up to n holds of every number up to n.
LEMMA UpTo ==
    ASSUME NEW n \in Nat, NEW S, 0 \in S,
           \A k \in 0 .. n : k < n /\ k \in S => k + 1 \in S
    PROVE  0 .. n \subseteq S
<1>1. SUFFICES ASSUME (0 .. n) \ S # {} PROVE FALSE
  OBVIOUS
<1>2. (0 .. n) \ S \subseteq Nat
  OBVIOUS
<1> DEFINE T == (0 .. n) \ S
<1>3. \E k \in T : \A j \in T : <<j, k>> \notin OpToRel(<, Nat)
  <2> HIDE DEF T
  <2>1. T \subseteq Nat /\ T # {}
    BY <1>1, <1>2 DEF T
  <2> QED BY <2>1, WFMin, NatLessThanWellFounded
<1>4. PICK k \in T : \A j \in T : ~(j < k)
  BY <1>2, <1>3 DEF OpToRel
<1>5. k \in 0 .. n /\ k \notin S
  BY <1>4
<1>6. k # 0 /\ k - 1 \in 0 .. n /\ k - 1 < k /\ k - 1 < n
  BY <1>5
<1>7. k - 1 \in S
  BY <1>4, <1>6
<1>8. (k - 1) + 1 \in S
  BY <1>6, <1>7
<1>9. (k - 1) + 1 = k
  BY <1>5
<1> QED BY <1>5, <1>8, <1>9

\* The directory once file k of phase p is written too.
Written(p, k, e, in) ==
    [e EXCEPT ![Writes[p][k]] = Made(Writes[p][k], e, in)]

LEMMA WrittenOnly ==
    ASSUME NEW p, NEW k, NEW e, NEW in, DOMAIN e = Files
    PROVE  /\ DOMAIN Written(p, k, e, in) = Files
           /\ \A g \in Files :
                 Written(p, k, e, in)[g] =
                    IF g = Writes[p][k] THEN Made(g, e, in) ELSE e[g]
<1> DEFINE f == Writes[p][k]
           v == Made(f, e, in)
<1> HIDE DEF f, v
<1>1. Written(p, k, e, in) = [e EXCEPT ![f] = v]
  BY DEF Written, f, v
<1>2. \A g \in Files : [e EXCEPT ![f] = v][g] = IF g = f THEN v ELSE e[g]
  OBVIOUS
<1>3. DOMAIN [e EXCEPT ![f] = v] = Files
  OBVIOUS
<1> QED BY <1>1, <1>2, <1>3 DEF f, v

\* A phase's directories exist: from each file the one after it.
LEMMA StagesExist ==
    ASSUME NEW p, NEW d, NEW in, Len(Writes[p]) \in Nat
    PROVE  /\ Stages(p, d, in)[0] = d
           /\ \A k \in 1 .. Len(Writes[p]) :
                 Stages(p, d, in)[k] = Written(p, k, Stages(p, d, in)[k - 1], in)
<1> DEFINE n == Len(Writes[p])
           Is(s, m) == s = [k \in 0 .. m |-> IF k = 0 THEN d
                                              ELSE Written(p, k, s[k - 1], in)]
           S == {m \in 0 .. n : \E s : Is(s, m)}
<1>1. 0 \in S
  <2> DEFINE s == [k \in 0 .. 0 |-> d]
  <2>1. Is(s, 0)
    OBVIOUS
  <2>2. 0 \in 0 .. n
    OBVIOUS
  <2>3. \E r : Is(r, 0)
    BY <2>1
  <2> HIDE DEF Is
  <2> QED BY <2>2, <2>3
<1>2. ASSUME NEW m \in 0 .. n, m < n, m \in S PROVE m + 1 \in S
  <2>1. PICK s : Is(s, m)
    BY <1>2
  <2> DEFINE t == [k \in 0 .. m + 1 |->
                      IF k = m + 1 THEN Written(p, m + 1, s[m], in) ELSE s[k]]
  <2>2. \A k \in 0 .. m : t[k] = s[k]
    OBVIOUS
  <2>3. \A k \in 0 .. m + 1 : t[k] = IF k = 0 THEN d ELSE Written(p, k, t[k - 1], in)
    <3>1. TAKE k \in 0 .. m + 1
    <3>2. CASE k = m + 1
      BY <2>2, <3>2
    <3>3. CASE k # m + 1
      <4>1. k \in 0 .. m /\ (k # 0 => k - 1 \in 0 .. m)
        BY <3>3
      <4> QED BY <2>1, <2>2, <4>1
    <3> QED BY <3>2, <3>3
  <2>4. Is(t, m + 1)
    <3> HIDE DEF t
    <3> QED BY <2>3 DEF t
  <2>5. m + 1 \in 0 .. n
    BY <1>2
  <2> HIDE DEF Is
  <2>6. \E r : Is(r, m + 1)
    BY <2>4
  <2> QED BY <2>5, <2>6
<1>3. n \in S
  <2>1. n \in Nat /\ n \in 0 .. n
    OBVIOUS
  <2> HIDE DEF n, S
  <2>2. 0 .. n \subseteq S
    BY <1>1, <1>2, <2>1, UpTo
  <2> QED BY <2>1, <2>2
<1>4. \E s : Is(s, n)
  BY <1>3
<1>5. Stages(p, d, in) = CHOOSE s : Is(s, n)
  BY DEF Stages, Written
<1>6. Is(Stages(p, d, in), n)
  BY <1>4, <1>5
<1>7. Stages(p, d, in) = [k \in 0 .. n |-> IF k = 0 THEN d
                                  ELSE Written(p, k, Stages(p, d, in)[k - 1], in)]
  BY <1>6
<1> DEFINE r == Stages(p, d, in)
<1> HIDE DEF r
<1>8. n \in Nat /\ r = [k \in 0 .. n |-> IF k = 0 THEN d ELSE Written(p, k, r[k - 1], in)]
  BY <1>7 DEF r
<1> HIDE DEF n
<1>9. 0 \in 0 .. n /\ \A k \in 1 .. n : k \in 0 .. n /\ k # 0
  BY <1>8
<1>10. r[0] = d /\ \A k \in 1 .. n : r[k] = Written(p, k, r[k - 1], in)
  BY <1>8, <1>9
<1> QED BY <1>10 DEF r, n

\* A file keeps its contents up to where the phase writes it first.
LEMMA NotYetWritten ==
    ASSUME NEW p, NEW d, NEW in, Len(Writes[p]) \in Nat, DOMAIN d = Files,
           NEW m \in 0 .. Len(Writes[p]), NEW g \in Files,
           \A i \in 1 .. m : Writes[p][i] # g
    PROVE  DOMAIN Stages(p, d, in)[m] = Files /\ Stages(p, d, in)[m][g] = d[g]
<1> DEFINE n == Len(Writes[p])
           s == Stages(p, d, in)
<1>1. /\ s[0] = d
      /\ \A k \in 1 .. n : s[k] = Written(p, k, s[k - 1], in)
  BY StagesExist
<1> DEFINE S == {k \in 0 .. m : DOMAIN s[k] = Files /\ s[k][g] = d[g]}
<1>2. n \in Nat /\ m \in 0 .. n
  OBVIOUS
<1> HIDE DEF s, n
<1>3. 0 \in S
  <2>1. 0 \in 0 .. m
    BY <1>2
  <2>2. DOMAIN s[0] = Files /\ s[0][g] = d[g]
    BY <1>1
  <2> QED BY <2>1, <2>2
<1>4. ASSUME NEW k \in 0 .. m, k < m, k \in S PROVE k + 1 \in S
  <2>1. k + 1 \in 0 .. m /\ k + 1 \in 1 .. m /\ (k + 1) - 1 = k /\ k + 1 \in 1 .. n
    BY <1>2, <1>4
  <2>2. s[k + 1] = Written(p, k + 1, s[k], in)
    BY <1>1, <2>1
  <2>3. Writes[p][k + 1] # g
    BY <2>1
  <2>4. DOMAIN s[k] = Files /\ s[k][g] = d[g]
    BY <1>4
  <2>5. DOMAIN s[k + 1] = Files /\ s[k + 1][g] = d[g]
    BY <2>2, <2>3, <2>4, WrittenOnly
  <2> QED BY <2>1, <2>5
<1>5. m \in S
  <2>1. m \in Nat /\ m \in 0 .. m
    BY <1>2
  <2> HIDE DEF S
  <2>2. 0 .. m \subseteq S
    BY <1>3, <1>4, <2>1, UpTo
  <2> QED BY <2>1, <2>2
<1> QED BY <1>5 DEF s

\* The files of one generator after those of another.
LEMMA Joined ==
    ASSUME NEW S, NEW r \in Seq(S), NEW t \in Seq(S), NEW q \in Seq(S),
           Len(q) = Len(r) + Len(t),
           \A i \in 1 .. Len(r) : q[i] = r[i],
           \A i \in 1 .. Len(t) : q[Len(r) + i] = t[i]
    PROVE  r \o t = q
<1>1. /\ r \o t \in Seq(S)
      /\ Len(r \o t) = Len(r) + Len(t)
      /\ \A i \in 1 .. Len(r) + Len(t) :
            (r \o t)[i] = IF i <= Len(r) THEN r[i] ELSE t[i - Len(r)]
  BY ConcatProperties
<1>2. ASSUME NEW i \in 1 .. Len(q) PROVE (r \o t)[i] = q[i]
  <2>1. CASE i <= Len(r)
    BY <1>1, <2>1
  <2>2. CASE i > Len(r)
    <3>1. i - Len(r) \in 1 .. Len(t) /\ Len(r) + (i - Len(r)) = i
      BY <2>2
    <3>2. q[i] = t[i - Len(r)]
      BY <3>1
    <3> QED BY <1>1, <2>2, <3>2
  <2> QED BY <2>1, <2>2
<1> QED BY <1>1, <1>2, SeqEqual

\* The phases and the number of files of each.
LEMMA Phase2Files ==
    Phase2 = <<"enterprise.ttl", "profile_recommendation.md", "events.ttl",
               "provenance.ttl", "dimensions.ttl",
               "hierarchy-snapshot-prev.tsv", "enterprise-classified.ttl",
               "hierarchy-snapshot.tsv">>
<1> DEFINE r == GenerateOntology
           t == RunAndReport
           q == <<"enterprise.ttl", "profile_recommendation.md", "events.ttl",
                  "provenance.ttl", "dimensions.ttl",
                  "hierarchy-snapshot-prev.tsv", "enterprise-classified.ttl",
                  "hierarchy-snapshot.tsv">>
           S == {"enterprise.ttl", "profile_recommendation.md", "events.ttl",
                  "provenance.ttl", "dimensions.ttl",
                  "hierarchy-snapshot-prev.tsv", "enterprise-classified.ttl",
                  "hierarchy-snapshot.tsv"}
<1>1. r \in Seq(S) /\ Len(r) = 5
  BY DEF GenerateOntology
<1>2. t \in Seq(S) /\ Len(t) = 3
  BY DEF RunAndReport
<1>3. q \in Seq(S) /\ Len(q) = 8
  OBVIOUS
<1>4. /\ q[1] = r[1]
      /\ q[2] = r[2]
      /\ q[3] = r[3]
      /\ q[4] = r[4]
      /\ q[5] = r[5]
  BY DEF GenerateOntology
<1>5. /\ q[6] = t[1]
      /\ q[7] = t[2]
      /\ q[8] = t[3]
  BY DEF RunAndReport
<1> HIDE DEF S, r, t, q
<1>6. ASSUME NEW i \in 1 .. 5 PROVE q[i] = r[i]
  BY <1>4
<1>7. ASSUME NEW i \in 1 .. 3 PROVE q[5 + i] = t[i]
  BY <1>5
<1>8. /\ Len(q) = Len(r) + Len(t)
      /\ \A i \in 1 .. Len(r) : q[i] = r[i]
      /\ \A i \in 1 .. Len(t) : q[Len(r) + i] = t[i]
  BY <1>1, <1>2, <1>3, <1>6, <1>7
<1>9. r \o t = q
  BY <1>1, <1>2, <1>3, <1>8, Joined
<1> QED BY <1>9 DEF Phase2, r, t, q

LEMMA PhaseTestFiles ==
    PhaseTest = <<"cq_test_results.csv", "governance_scorecard.csv",
                  "sparql_cq_test_results.csv">>
<1> DEFINE r == RunCqTests
           t == RunSparqlTests
           q == <<"cq_test_results.csv", "governance_scorecard.csv",
                  "sparql_cq_test_results.csv">>
           S == {"cq_test_results.csv", "governance_scorecard.csv",
                  "sparql_cq_test_results.csv"}
<1>1. r \in Seq(S) /\ Len(r) = 2
  BY DEF RunCqTests
<1>2. t \in Seq(S) /\ Len(t) = 1
  BY DEF RunSparqlTests
<1>3. q \in Seq(S) /\ Len(q) = 3
  OBVIOUS
<1>4. q[1] = r[1] /\ q[2] = r[2]
  BY DEF RunCqTests
<1>5. q[3] = t[1]
  BY DEF RunSparqlTests
<1> HIDE DEF S, r, t, q
<1>6. ASSUME NEW i \in 1 .. 2 PROVE q[i] = r[i]
  BY <1>4
<1>7. ASSUME NEW i \in 1 .. 1 PROVE q[2 + i] = t[i]
  BY <1>5
<1>8. /\ Len(q) = Len(r) + Len(t)
      /\ \A i \in 1 .. Len(r) : q[i] = r[i]
      /\ \A i \in 1 .. Len(t) : q[Len(r) + i] = t[i]
  BY <1>1, <1>2, <1>3, <1>6, <1>7
<1>9. r \o t = q
  BY <1>1, <1>2, <1>3, <1>8, Joined
<1> QED BY <1>9 DEF PhaseTest, r, t, q

LEMMA PhaseReportFiles ==
    PhaseReport = <<"toolkit_report.html", "compliance_summary.html">>
<1> DEFINE r == GenerateReport
           t == WriteSummary
           q == <<"toolkit_report.html", "compliance_summary.html">>
           S == {"toolkit_report.html", "compliance_summary.html"}
<1>1. r \in Seq(S) /\ Len(r) = 1
  BY DEF GenerateReport
<1>2. t \in Seq(S) /\ Len(t) = 1
  BY DEF WriteSummary
<1>3. q \in Seq(S) /\ Len(q) = 2
  OBVIOUS
<1>4. q[1] = r[1]
  BY DEF GenerateReport
<1>5. q[2] = t[1]
  BY DEF WriteSummary
<1> HIDE DEF S, r, t, q
<1>6. ASSUME NEW i \in 1 .. 1 PROVE q[i] = r[i]
  BY <1>4
<1>7. ASSUME NEW i \in 1 .. 1 PROVE q[1 + i] = t[i]
  BY <1>5
<1>8. /\ Len(q) = Len(r) + Len(t)
      /\ \A i \in 1 .. Len(r) : q[i] = r[i]
      /\ \A i \in 1 .. Len(t) : q[Len(r) + i] = t[i]
  BY <1>1, <1>2, <1>3, <1>6, <1>7
<1>9. r \o t = q
  BY <1>1, <1>2, <1>3, <1>8, Joined
<1> QED BY <1>9 DEF PhaseReport, r, t, q

\* Which parts of the directory the classification depends on.
LEMMA ClassifiesSame ==
    ASSUME NEW d, NEW e, NEW in, d["enterprise.ttl"] = e["enterprise.ttl"]
    PROVE  Classifies(d, in) <=> Classifies(e, in)
BY DEF Classifies

LEMMA SnapshotSame ==
    ASSUME NEW d, NEW e, NEW in,
           d["enterprise-classified.ttl"] = e["enterprise-classified.ttl"]
    PROVE  Snapshot(d, in) = Snapshot(e, in)
BY DEF Snapshot

\* The files, by what they are made from.
LEMMA ConstantFileNames ==
    FromConstants =
        {"drift.ttl", "agent-gate.ttl", "dimensions.ttl", "provenance.ttl",
         "mcp-tool-definitions.json", "drift-shapes.ttl", "drift-skos.ttl",
         "template.ttl", "cq_template.csv", "tmf630-task-bulk.ttl",
         "tmf630-task-mcp-tools.json", "tmf-sid-hierarchy.ttl",
         "tmf-context.json", "conflict-resolution-shapes.ttl",
         "conflict-mcp-tools.json", "federation-config.ttl",
         "runtime-mcp-tools.json"}
<1>1. /\ Listed(SidHierarchy) = {"tmf-sid-hierarchy.ttl"}
      /\ Listed(TmfJsonld) = {"tmf-context.json"}
      /\ Listed(ConflictShacl) = {"conflict-resolution-shapes.ttl"}
      /\ Listed(ConflictTools) = {"conflict-mcp-tools.json"}
      /\ Listed(FederationConfig) = {"federation-config.ttl"}
      /\ Listed(RuntimeTools) = {"runtime-mcp-tools.json"}
  BY DEF Listed, SidHierarchy, TmfJsonld, ConflictShacl, ConflictTools,
         FederationConfig, RuntimeTools
<1> QED BY <1>1 DEF FromConstants, DimensionPatterns, ProvPatterns,
              McpToolDefinitions, DriftShapes, DriftVocabulary,
              TemplateModules, TemplateQuestions, TaskPattern

LEMMA TableFileNames ==
    FromTables =
        {"enterprise-shapes.ttl", "tmf630_task_cq_results.csv",
         "logical_physical_map.csv", "events.ttl", "enterprise-context.json",
         "enterprise-skos.ttl", "semantic_loss_report.csv",
         "orphan_candidates.csv", "rbac", "tmf_api_coverage.csv",
         "tmf_cq_test_results.csv", "conflict_report.json"}
<1>1. /\ Listed(TmfCoverage) = {"tmf_api_coverage.csv"}
      /\ Listed(TmfQuestions) = {"tmf_cq_test_results.csv"}
      /\ Listed(ConflictReport) = {"conflict_report.json"}
  BY DEF Listed, TmfCoverage, TmfQuestions, ConflictReport
<1> QED BY <1>1 DEF FromTables, EventSubclasses, ContextTerms, SkosConcepts,
              SemanticLosses, Orphans, AccessPolicies

LEMMA DerivedFileNames ==
    {"enterprise.ttl", "profile_recommendation.md",
     "hierarchy-snapshot-prev.tsv", "enterprise-classified.ttl",
     "hierarchy-snapshot.tsv", "rules.ttl", "sparql_rules", "_combined.ttl",
     "instances.ttl", "ontology_quality.csv", "sparql_cq_test_results.csv",
     "cq_test_results.csv", "governance_scorecard.csv", "toolkit_report.html",
     "compliance_summary.html", "enterprise-inferred.ttl",
     "inferred-shacl.ttl", "inferred-sparql.ttl", "materialised.ttl",
     "materialised-lineage.ttl", "materialisation_report.md", "alignment.ttl",
     "master.ttl", "modules.json"} \subseteq Derived
<1>1. /\ Listed(RunAndReport) = {"hierarchy-snapshot-prev.tsv",
                   "enterprise-classified.ttl", "hierarchy-snapshot.tsv"}
      /\ Listed(ExportRules) = {"rules.ttl", "sparql_rules"}
      /\ Listed(CombineShapes) = {"_combined.ttl"}
      /\ Listed(AlignmentOntology) = {"alignment.ttl"}
      /\ Listed(RunModularOwl) = {"master.ttl", "modules.json"}
      /\ Listed(Materialize) =
            {"enterprise-inferred.ttl", "inferred-shacl.ttl",
             "inferred-sparql.ttl", "materialised.ttl",
             "materialised-lineage.ttl", "materialisation_report.md"}
  BY DEF Listed, RunAndReport, ExportRules, CombineShapes, AlignmentOntology,
         RunModularOwl, Materialize
<1>2. /\ Listed(GenerateAbox) = {"instances.ttl"}
      /\ Listed(RunQualityReport) = {"ontology_quality.csv"}
      /\ Listed(RunSparqlTests) = {"sparql_cq_test_results.csv"}
      /\ Listed(RunCqTests) = {"cq_test_results.csv", "governance_scorecard.csv"}
      /\ Listed(GenerateReport) = {"toolkit_report.html"}
      /\ Listed(WriteSummary) = {"compliance_summary.html"}
  BY DEF Listed, GenerateAbox, RunQualityReport, RunSparqlTests, RunCqTests,
         GenerateReport, WriteSummary
<1>3. {"enterprise.ttl", "profile_recommendation.md"} \cup Listed(RunAndReport)
        \cup Listed(ExportRules) \cup Listed(CombineShapes)
        \cup Listed(AlignmentOntology) \cup Listed(RunModularOwl)
        \cup Listed(Materialize) \cup Listed(GenerateAbox) \cup Listed(RunQualityReport)
        \cup Listed(RunSparqlTests) \cup Listed(RunCqTests)
        \cup Listed(GenerateReport) \cup Listed(WriteSummary) \subseteq Derived
  BY DEF Derived
<1> QED BY <1>1, <1>2, <1>3

\* What is made of the files of the classification.
LEMMA MadePrevious ==
    ASSUME NEW d, NEW in
    PROVE  Made("hierarchy-snapshot-prev.tsv", d, in) =
              IF d["hierarchy-snapshot.tsv"] = Missing
              THEN d["hierarchy-snapshot-prev.tsv"]
              ELSE d["hierarchy-snapshot.tsv"]
<1> DEFINE f == "hierarchy-snapshot-prev.tsv"
<1>1. Skips(f, d, in) <=> d["hierarchy-snapshot.tsv"] = Missing
  BY DEF Skips
<1>2. f \notin FromConstants /\ f \notin FromTables
  BY ConstantFileNames, TableFileNames
<1> QED BY <1>1, <1>2 DEF Made

LEMMA MadeClassified ==
    ASSUME NEW d, NEW in
    PROVE  Made("enterprise-classified.ttl", d, in) =
              IF Classifies(d, in) THEN d["enterprise.ttl"]
              ELSE d["enterprise-classified.ttl"]
<1> DEFINE f == "enterprise-classified.ttl"
<1>1. Skips(f, d, in) <=> ~Classifies(d, in)
  BY DEF Skips
<1>2. f \notin FromConstants /\ f \notin FromTables
  BY ConstantFileNames, TableFileNames
<1> QED BY <1>1, <1>2 DEF Made

LEMMA MadeSnapshot ==
    ASSUME NEW d, NEW in
    PROVE  Made("hierarchy-snapshot.tsv", d, in) =
              IF d["enterprise-classified.ttl"] = Missing
              THEN d["hierarchy-snapshot.tsv"] ELSE Snapshot(d, in)
<1> DEFINE f == "hierarchy-snapshot.tsv"
<1>1. Skips(f, d, in) <=> d["enterprise-classified.ttl"] = Missing
  BY DEF Skips
<1>2. f \notin FromConstants /\ f \notin FromTables
  BY ConstantFileNames, TableFileNames
<1> QED BY <1>1, <1>2 DEF Made

\* The three files of the classification, from a directory e whose ontology
\* is what the phase leaves.
LEMMA ThreeWritten ==
    ASSUME NEW p, NEW i, NEW e, NEW in, DOMAIN e = Files, i \in Nat,
           Writes[p][i] = "hierarchy-snapshot-prev.tsv",
           Writes[p][i + 1] = "enterprise-classified.ttl",
           Writes[p][i + 2] = "hierarchy-snapshot.tsv",
           NEW d1, d1 = Written(p, i, e, in),
           NEW d2, d2 = Written(p, i + 1, d1, in),
           NEW d3, d3 = Written(p, i + 2, d2, in)
    PROVE  /\ DOMAIN d3 = Files
           /\ d3["enterprise.ttl"] = e["enterprise.ttl"]
           /\ d3["hierarchy-snapshot-prev.tsv"] =
                 IF e["hierarchy-snapshot.tsv"] = Missing
                 THEN e["hierarchy-snapshot-prev.tsv"]
                 ELSE e["hierarchy-snapshot.tsv"]
           /\ d3["enterprise-classified.ttl"] =
                 IF Classifies(d3, in) THEN d3["enterprise.ttl"]
                 ELSE e["enterprise-classified.ttl"]
           /\ d3["hierarchy-snapshot.tsv"] =
                 IF d3["enterprise-classified.ttl"] = Missing
                 THEN e["hierarchy-snapshot.tsv"] ELSE Snapshot(d3, in)
<1> DEFINE prev == "hierarchy-snapshot-prev.tsv"
           cl == "enterprise-classified.ttl"
           sn == "hierarchy-snapshot.tsv"
           ent == "enterprise.ttl"
<1>1. {prev, cl, sn, ent} \subseteq Files
  BY DerivedFileNames DEF Files
<1>2. DOMAIN d1 = Files /\ DOMAIN d2 = Files /\ DOMAIN d3 = Files
  BY WrittenOnly
<1>3. /\ d1[prev] = Made(prev, e, in)
      /\ d1[cl] = e[cl]
      /\ d1[sn] = e[sn]
      /\ d1[ent] = e[ent]
  BY <1>1, WrittenOnly
<1>4. /\ d2[prev] = d1[prev]
      /\ d2[cl] = Made(cl, d1, in)
      /\ d2[sn] = d1[sn]
      /\ d2[ent] = d1[ent]
  BY <1>1, <1>2, WrittenOnly
<1>5. /\ d3[prev] = d2[prev]
      /\ d3[cl] = d2[cl]
      /\ d3[sn] = Made(sn, d2, in)
      /\ d3[ent] = d2[ent]
  BY <1>1, <1>2, WrittenOnly
<1>6. (Classifies(d1, in) <=> Classifies(d3, in)) /\ Snapshot(d2, in) = Snapshot(d3, in)
  BY <1>4, <1>5, ClassifiesSame, SnapshotSame
<1> QED BY <1>2, <1>3, <1>4, <1>5, <1>6, MadePrevious, MadeClassified, MadeSnapshot

\* What a whole phase that classifies leaves.
Classified(d, e, in) ==
    /\ DOMAIN e = Files
    /\ e["hierarchy-snapshot-prev.tsv"] =
          IF d["hierarchy-snapshot.tsv"] = Missing
          THEN d["hierarchy-snapshot-prev.tsv"] ELSE d["hierarchy-snapshot.tsv"]
    /\ e["enterprise-classified.ttl"] =
          IF Classifies(e, in) THEN e["enterprise.ttl"]
          ELSE d["enterprise-classified.ttl"]
    /\ e["hierarchy-snapshot.tsv"] =
          IF e["enterprise-classified.ttl"] = Missing
          THEN d["hierarchy-snapshot.tsv"] ELSE Snapshot(e, in)

LEMMA ClassifyingPhase ==
    ASSUME NEW p \in Classifying, NEW d, NEW in, DOMAIN d = Files
    PROVE  Classified(d, After(p, d, in), in)
<1> DEFINE w == Writes[p]
           n == Len(w)
           s == Stages(p, d, in)
           three == {"hierarchy-snapshot-prev.tsv", "enterprise-classified.ttl",
                     "hierarchy-snapshot.tsv"}
<1>1. PICK m \in {0, 5} :
         /\ n = m + 3
         /\ w[m + 1] = "hierarchy-snapshot-prev.tsv"
         /\ w[m + 2] = "enterprise-classified.ttl"
         /\ w[m + 3] = "hierarchy-snapshot.tsv"
         /\ \A i \in 1 .. m : w[i] \notin three
  <2>1. CASE p = "p2"
    <3>1. w = <<"enterprise.ttl", "profile_recommendation.md", "events.ttl",
               "provenance.ttl", "dimensions.ttl",
               "hierarchy-snapshot-prev.tsv", "enterprise-classified.ttl",
               "hierarchy-snapshot.tsv">>
      BY <2>1, Phase2Files DEF Writes
    <3> HIDE DEF w
    <3>2. n = 8 /\ w[6] = "hierarchy-snapshot-prev.tsv"
          /\ w[7] = "enterprise-classified.ttl" /\ w[8] = "hierarchy-snapshot.tsv"
      BY <3>1
    <3>3. w[1] \notin three /\ w[2] \notin three /\ w[3] \notin three
          /\ w[4] \notin three /\ w[5] \notin three
      BY <3>1
    <3>4. \A i \in 1 .. 5 : w[i] \notin three
      BY <3>3
    <3> WITNESS 5 \in {0, 5}
    <3> QED BY <3>2, <3>4
  <2>2. CASE p = "reasoner"
    <3>1. w = <<"hierarchy-snapshot-prev.tsv", "enterprise-classified.ttl",
                "hierarchy-snapshot.tsv">>
      BY <2>2 DEF Writes, RunAndReport
    <3> HIDE DEF w
    <3>2. n = 3 /\ w[1] = "hierarchy-snapshot-prev.tsv"
          /\ w[2] = "enterprise-classified.ttl" /\ w[3] = "hierarchy-snapshot.tsv"
      BY <3>1
    <3> WITNESS 0 \in {0, 5}
    <3> QED BY <3>2
  <2> QED BY <2>1, <2>2 DEF Classifying
<1>2. /\ s[0] = d
      /\ \A k \in 1 .. n : s[k] = Written(p, k, s[k - 1], in)
  BY <1>1, StagesExist
<1>3. /\ DOMAIN s[m] = Files
      /\ \A g \in three : s[m][g] = d[g]
  <2>1. three \subseteq Files
    BY DerivedFileNames DEF Files
  <2>2. m \in 0 .. n
    BY <1>1
  <2>3. ASSUME NEW g \in three
        PROVE  DOMAIN s[m] = Files /\ s[m][g] = d[g]
    BY <1>1, <2>1, <2>2, NotYetWritten
  <2> QED BY <2>3
<1> HIDE DEF s, w, n
<1>4. /\ s[m + 1] = Written(p, m + 1, s[m], in)
      /\ s[m + 2] = Written(p, m + 2, s[m + 1], in)
      /\ s[m + 3] = Written(p, m + 3, s[m + 2], in)
  BY <1>1, <1>2
<1>5. After(p, d, in) = s[m + 3]
  BY <1>1 DEF After, n, s, w
<1> DEFINE e == s[m + 3]
<1>6. /\ DOMAIN e = Files
      /\ e["hierarchy-snapshot-prev.tsv"] =
            IF s[m]["hierarchy-snapshot.tsv"] = Missing
            THEN s[m]["hierarchy-snapshot-prev.tsv"]
            ELSE s[m]["hierarchy-snapshot.tsv"]
      /\ e["enterprise-classified.ttl"] =
            IF Classifies(e, in) THEN e["enterprise.ttl"]
            ELSE s[m]["enterprise-classified.ttl"]
      /\ e["hierarchy-snapshot.tsv"] =
            IF e["enterprise-classified.ttl"] = Missing
            THEN s[m]["hierarchy-snapshot.tsv"] ELSE Snapshot(e, in)
  <2>1. m + 1 \in Nat /\ (m + 1) + 1 = m + 2 /\ (m + 1) + 2 = m + 3
    BY <1>1
  <2>2. w[m + 1] = "hierarchy-snapshot-prev.tsv"
        /\ w[(m + 1) + 1] = "enterprise-classified.ttl"
        /\ w[(m + 1) + 2] = "hierarchy-snapshot.tsv"
    BY <1>1, <2>1
  <2>3. s[m + 2] = Written(p, (m + 1) + 1, s[m + 1], in)
        /\ s[m + 3] = Written(p, (m + 1) + 2, s[m + 2], in)
    BY <1>4, <2>1
  <2> QED BY <1>3, <1>4, <2>1, <2>2, <2>3, ThreeWritten DEF w
<1> HIDE DEF e
<1>7. Classified(d, e, in)
  BY <1>3, <1>6 DEF Classified
<1> QED BY <1>5, <1>7 DEF e

LEMMA PhaseNames ==
    DOMAIN Writes =
        {"p1", "p2", "p3", "reason", "p4", "p5", "tmf", "conflict",
         "alignment", "runtime", "drift", "templates", "modular", "tmf630",
         "abox", "quality", "sparql", "test", "report", "reasoner",
         "security"}
BY DEF Writes

\* The files of the phases that do not classify are from any set that has
\* the files of their generators.
LEMMA PhasesOver ==
    ASSUME NEW S, FromConstants \subseteq S, FromTables \subseteq S,
           {"rules.ttl", "sparql_rules", "_combined.ttl",
            "instances.ttl", "ontology_quality.csv", "sparql_cq_test_results.csv",
            "cq_test_results.csv", "governance_scorecard.csv",
            "toolkit_report.html", "compliance_summary.html",
            "enterprise-inferred.ttl", "inferred-shacl.ttl",
            "inferred-sparql.ttl", "materialised.ttl",
            "materialised-lineage.ttl", "materialisation_report.md",
            "alignment.ttl", "master.ttl", "modules.json"} \subseteq S
    PROVE  \A p \in DOMAIN Writes \ Classifying : Writes[p] \in Seq(S)
<1>1. /\ GenerateShacl \in Seq(S)
      /\ ExportRules \in Seq(S)
      /\ CombineShapes \in Seq(S)
  BY ConstantFileNames, TableFileNames
     DEF GenerateShacl, ExportRules, CombineShapes
<1>2. /\ Materialize \in Seq(S)
      /\ GenerateMapping \in Seq(S)
      /\ GenerateJsonld \in Seq(S)
      /\ RunDriftDetection \in Seq(S)
      /\ RunTemplates \in Seq(S)
  BY ConstantFileNames, TableFileNames
     DEF Materialize, GenerateMapping, GenerateJsonld, RunDriftDetection,
         RunTemplates
<1>3. /\ SidHierarchy \in Seq(S)
      /\ TmfJsonld \in Seq(S)
      /\ TmfCoverage \in Seq(S)
      /\ TmfQuestions \in Seq(S)
      /\ ConflictReport \in Seq(S)
      /\ ConflictShacl \in Seq(S)
      /\ ConflictTools \in Seq(S)
  BY ConstantFileNames, TableFileNames
     DEF SidHierarchy, TmfJsonld, TmfCoverage, TmfQuestions,
         ConflictReport, ConflictShacl, ConflictTools
<1>4. /\ AlignmentOntology \in Seq(S)
      /\ FederationConfig \in Seq(S)
      /\ RuntimeTools \in Seq(S)
      /\ RunModularOwl \in Seq(S)
      /\ Tmf630TaskPhase \in Seq(S)
  BY ConstantFileNames, TableFileNames
     DEF AlignmentOntology, FederationConfig, RuntimeTools, RunModularOwl,
         Tmf630TaskPhase
<1>5. /\ GenerateAbox \in Seq(S)
      /\ RunQualityReport \in Seq(S)
      /\ RunSparqlTests \in Seq(S)
      /\ RunCqTests \in Seq(S)
      /\ GenerateReport \in Seq(S)
      /\ WriteSummary \in Seq(S)
      /\ GenerateRbac \in Seq(S)
      /\ <<>> \in Seq(S)
  BY TableFileNames
     DEF GenerateAbox, RunQualityReport, RunSparqlTests, RunCqTests,
         GenerateReport, WriteSummary, GenerateRbac
<1>6. \A r, t \in Seq(S) : r \o t \in Seq(S)
  BY ConcatProperties
<1>7. PhaseTest \in Seq(S) /\ PhaseReport \in Seq(S)
  BY <1>5, <1>6 DEF PhaseTest, PhaseReport
<1>8. PhaseReason \in Seq(S)
  BY <1>1, <1>2, <1>6 DEF PhaseReason
<1>9. PhaseTmf \in Seq(S)
  BY <1>3, <1>6 DEF PhaseTmf
<1>10. PhaseConflict \in Seq(S) /\ PhaseAlignment \in Seq(S)
  BY <1>3, <1>4, <1>6 DEF PhaseConflict, PhaseAlignment
<1>11. /\ Writes["p1"] \in Seq(S)
       /\ Writes["p3"] \in Seq(S)
       /\ Writes["reason"] \in Seq(S)
       /\ Writes["p4"] \in Seq(S)
       /\ Writes["p5"] \in Seq(S)
       /\ Writes["tmf"] \in Seq(S)
  BY <1>1, <1>2, <1>5, <1>8, <1>9 DEF Writes
<1>12. /\ Writes["conflict"] \in Seq(S)
       /\ Writes["alignment"] \in Seq(S)
       /\ Writes["runtime"] \in Seq(S)
       /\ Writes["drift"] \in Seq(S)
       /\ Writes["templates"] \in Seq(S)
       /\ Writes["modular"] \in Seq(S)
       /\ Writes["tmf630"] \in Seq(S)
  BY <1>2, <1>4, <1>10 DEF Writes
<1>13. /\ Writes["abox"] \in Seq(S)
       /\ Writes["quality"] \in Seq(S)
       /\ Writes["sparql"] \in Seq(S)
       /\ Writes["test"] \in Seq(S)
       /\ Writes["report"] \in Seq(S)
       /\ Writes["security"] \in Seq(S)
  BY <1>5, <1>7 DEF Writes
<1> QED BY <1>11, <1>12, <1>13, PhaseNames DEF Classifying

\* Every phase is a sequence of files, so none writes outside the directory.
LEMMA PhasesOfFiles == \A p \in DOMAIN Writes : Writes[p] \in Seq(Files)
<1>1. \A p \in DOMAIN Writes \ Classifying : Writes[p] \in Seq(Files)
  BY PhasesOver, DerivedFileNames DEF Files
<1>2. GenerateOntology \in Seq(Files) /\ RunAndReport \in Seq(Files)
  BY ConstantFileNames, TableFileNames, DerivedFileNames
     DEF Files, GenerateOntology, RunAndReport
<1>3. Phase2 \in Seq(Files)
  BY <1>2, ConcatProperties DEF Phase2
<1>4. Writes["p2"] = Phase2 /\ Writes["reasoner"] = RunAndReport
  BY DEF Writes
<1> QED BY <1>1, <1>2, <1>3, <1>4 DEF Classifying

\* All of a phase's directories have the same files.
LEMMA SameFiles ==
    ASSUME NEW p \in DOMAIN Writes, NEW d, NEW in, DOMAIN d = Files
    PROVE  /\ Len(Writes[p]) \in Nat
           /\ \A k \in 0 .. Len(Writes[p]) : DOMAIN Stages(p, d, in)[k] = Files
           /\ DOMAIN After(p, d, in) = Files
<1> DEFINE n == Len(Writes[p])
           s == Stages(p, d, in)
<1>1. n \in Nat
  BY PhasesOfFiles
<1>2. /\ s[0] = d
      /\ \A k \in 1 .. n : s[k] = Written(p, k, s[k - 1], in)
  BY <1>1, StagesExist
<1> DEFINE S == {k \in 0 .. n : DOMAIN s[k] = Files}
<1> HIDE DEF s, n
<1>3. 0 \in S
  BY <1>1, <1>2
<1>4. ASSUME NEW k \in 0 .. n, k < n, k \in S PROVE k + 1 \in S
  <2>1. k + 1 \in 1 .. n /\ (k + 1) - 1 = k /\ k + 1 \in 0 .. n
    BY <1>1, <1>4
  <2>2. s[k + 1] = Written(p, k + 1, s[k], in)
    BY <1>2, <2>1
  <2>3. DOMAIN s[k + 1] = Files
    BY <1>4, <2>2, WrittenOnly
  <2> QED BY <2>1, <2>3
<1>5. 0 .. n \subseteq S
  <2> HIDE DEF S
  <2> QED BY <1>1, <1>3, <1>4, UpTo
<1>6. After(p, d, in) = s[n] /\ n \in 0 .. n
  BY <1>1 DEF After, s, n
<1> QED BY <1>1, <1>5, <1>6 DEF s, n

-----------------------------------------------------------------------------
(* Types *)

\* Contents of the ontology: entities, the header and tombstones.
OfOntology(c) ==
    \A a \in c : a \in Entities({a}) \cup Own("enterprise.ttl") \/ a[1] = "gone"

LEMMA OntologyAtoms ==
    ASSUME NEW d, NEW in
    PROVE  OfOntology(Ontology(d, in))
<1>1. OfOntology(Own("enterprise.ttl"))
  BY DEF OfOntology
<1>2. OfOntology({Base})
  BY DEF OfOntology, Entities, Base
<1>3. OfOntology(TableAtoms(in.tables))
  BY DEF OfOntology, Entities, TableAtoms
<1>4. OfOntology({<<"class", c>> : c \in in.classes})
  BY DEF OfOntology, Entities
<1>5. OfOntology(Tombstones(Reads(d, {"enterprise.ttl"}), in.tables))
  BY DEF OfOntology, Tombstones
<1> QED BY <1>1, <1>2, <1>3, <1>4, <1>5 DEF OfOntology, Ontology

LEMMA MadeOntology ==
    ASSUME NEW d, NEW in
    PROVE  Made("enterprise.ttl", d, in) = Ontology(d, in)
<1> DEFINE f == "enterprise.ttl"
<1>1. ~Skips(f, d, in)
  BY DEF Skips
<1>2. f \notin FromConstants /\ f \notin FromTables
  BY ConstantFileNames, TableFileNames
<1> QED BY <1>1, <1>2 DEF Made

\* Whatever a phase has written, the ontology is one.
LEMMA StagesOfOntology ==
    ASSUME NEW p \in DOMAIN Writes, NEW d, NEW in, DOMAIN d = Files,
           d["enterprise.ttl"] # Missing => OfOntology(d["enterprise.ttl"])
    PROVE  \A k \in 0 .. Len(Writes[p]) :
              LET c == Stages(p, d, in)[k]["enterprise.ttl"]
              IN  c # Missing => OfOntology(c)
<1> DEFINE n == Len(Writes[p])
           s == Stages(p, d, in)
           ent == "enterprise.ttl"
<1>1. n \in Nat
  BY SameFiles
<1>2. /\ s[0] = d
      /\ \A k \in 1 .. n : s[k] = Written(p, k, s[k - 1], in)
  BY <1>1, StagesExist
<1>3. \A k \in 0 .. n : DOMAIN s[k] = Files
  BY SameFiles
<1>4. ent \in Files
  BY DerivedFileNames DEF Files
<1> DEFINE S == {k \in 0 .. n : s[k][ent] # Missing => OfOntology(s[k][ent])}
<1> HIDE DEF s, n
<1>5. 0 \in S
  BY <1>1, <1>2
<1>6. ASSUME NEW k \in 0 .. n, k < n, k \in S PROVE k + 1 \in S
  <2>1. k + 1 \in 1 .. n /\ (k + 1) - 1 = k /\ k + 1 \in 0 .. n
    BY <1>1, <1>6
  <2>2. s[k + 1] = Written(p, k + 1, s[k], in)
    BY <1>2, <2>1
  <2>3. s[k + 1][ent] = IF ent = Writes[p][k + 1] THEN Made(ent, s[k], in)
                        ELSE s[k][ent]
    BY <1>3, <1>4, <2>2, WrittenOnly
  <2>4. s[k + 1][ent] \in {Ontology(s[k], in), s[k][ent]}
    BY <2>3, MadeOntology
  <2>5. s[k + 1][ent] # Missing => OfOntology(s[k + 1][ent])
    BY <1>6, <2>4, OntologyAtoms
  <2> QED BY <2>1, <2>5
<1>7. 0 .. n \subseteq S
  <2> HIDE DEF S
  <2> QED BY <1>1, <1>5, <1>6, UpTo
<1> QED BY <1>7 DEF s, n

LEMMA AllArePhases == All \in Seq(DOMAIN Writes) /\ Len(All) = 19
<1>1. All \in Seq({"p1", "p2", "p3", "reason", "p4", "p5", "tmf", "conflict",
         "alignment", "runtime", "drift", "templates", "modular", "tmf630",
         "abox", "quality", "sparql", "test", "report", "reasoner",
         "security"})
  BY DEF All
<1> QED BY <1>1, PhaseNames DEF All

\* What holds of the state between any two steps.
PipeInv == PipelineTypeOK /\ (running = "no" => todo = <<>>)

LEMMA PipeInit == PipelineInit => PipeInv
<1> SUFFICES ASSUME PipelineInit PROVE PipeInv
  OBVIOUS
<1>1. DOMAIN dir = Files /\ dir["enterprise.ttl"] = Missing
  BY DerivedFileNames DEF PipelineInit, NoFiles, Files
<1>2. /\ tables \subseteq Tables
      /\ session \in [classes : SUBSET LogClasses,
                      rules : SUBSET (ShaclRules \cup SparqlRules),
                      causal : SUBSET CausalRules]
      /\ robot \in Robots
  BY DEF PipelineInit, Tables, Robots
<1>3. todo \in Seq(DOMAIN Writes) /\ known \subseteq ClassesIn(known)
  BY DEF PipelineInit
<1>4. quiet \in 0 .. Rounds /\ upsets \in 0 .. MaxUpsets
  BY Bounds DEF PipelineInit
<1> QED BY <1>1, <1>2, <1>3, <1>4 DEF PipelineInit, PipeInv, PipelineTypeOK

LEMMA ProvisionedTables ==
    ASSUME NEW p, NEW ts, ts \subseteq Tables
    PROVE  Provisioned(p, ts) \subseteq Tables
BY DEF Provisioned, Tables

LEMMA UpsetTyped ==
    ASSUME PipeInv, Upset
    PROVE  upsets' \in 0 .. MaxUpsets /\ quiet' \in 0 .. Rounds /\ clean' \in BOOLEAN
<1>1. upsets \in 0 .. MaxUpsets /\ upsets < MaxUpsets /\ upsets' = upsets + 1
  BY DEF PipeInv, PipelineTypeOK, Upset
<1>2. MaxUpsets \in Nat /\ Rounds \in Nat
  BY Bounds
<1>3. upsets' \in 0 .. MaxUpsets
  BY <1>1, <1>2
<1>4. quiet' = 0
  BY DEF Upset
<1>5. clean' = FALSE
  BY DEF Upset
<1>6. quiet' \in 0 .. Rounds
  BY <1>2, <1>4
<1> QED BY <1>3, <1>5, <1>6

LEMMA TypedEdits ==
    ASSUME PipeInv,
           EditDatabase \/ EditSession \/ EditRobot \/ ApplyProposal
    PROVE  PipeInv'
<1> USE DEF PipeInv, PipelineTypeOK
<1>1. CASE EditDatabase
  <2>1. tables' \subseteq Tables
    BY <1>1 DEF EditDatabase, Tables
  <2> QED BY <1>1, <2>1, UpsetTyped DEF EditDatabase, run, judged, Upset
<1>2. CASE EditSession
  <2>1. session' \in [classes : SUBSET LogClasses,
                      rules : SUBSET (ShaclRules \cup SparqlRules),
                      causal : SUBSET CausalRules]
    BY <1>2 DEF EditSession
  <2> QED BY <1>2, <2>1, UpsetTyped DEF EditSession, run, judged, Upset
<1>3. CASE EditRobot
  BY <1>3, UpsetTyped DEF EditRobot, run, judged, Upset
<1>4. CASE ApplyProposal
  <2> DEFINE ent == "enterprise.ttl"
  <2>1. PICK b \in Blocks : dir' = [dir EXCEPT ![ent] = @ \cup {<<"block", b>>}]
    BY <1>4 DEF ApplyProposal
  <2>2. ent \in Files
    BY DerivedFileNames DEF Files
  <2>3. DOMAIN dir' = Files /\ dir'[ent] = dir[ent] \cup {<<"block", b>>}
    BY <2>1, <2>2
  <2>4. OfOntology(dir[ent]) /\ OfOntology({<<"block", b>>})
    BY <1>4 DEF ApplyProposal, OfOntology, Entities
  <2>5. OfOntology(dir'[ent])
    BY <2>3, <2>4 DEF OfOntology
  <2>6. dir'[ent] # Missing => \A a \in dir'[ent] :
              a \in Entities({a}) \cup Own(ent) \/ a[1] = "gone"
    BY <2>5 DEF OfOntology
  <2> QED BY <1>4, <2>3, <2>6, UpsetTyped DEF ApplyProposal, run, judged, world, Upset
<1> QED BY <1>1, <1>2, <1>3, <1>4

LEMMA TypedStarts ==
    ASSUME PipeInv, StartAll \/ (\E p \in Singles : StartSingle(p)) \/ Finish
    PROVE  PipeInv'
<1> USE DEF PipeInv, PipelineTypeOK
<1>1. CASE StartAll
  BY <1>1, AllArePhases DEF StartAll, world, judged
<1>2. CASE \E p \in Singles : StartSingle(p)
  <2>1. PICK p \in Singles : StartSingle(p)
    BY <1>2
  <2>2. <<p>> \in Seq(DOMAIN Writes)
    BY SinglesArePhases
  <2> QED BY <2>1, <2>2, UpsetTyped DEF StartSingle, world, judged, Upset
<1>3. CASE Finish
  <2>1. quiet' \in 0 .. Rounds
    BY <1>3, Bounds DEF Finish
  <2> QED BY <1>3, <2>1 DEF Finish, world, judged
<1> QED BY <1>1, <1>2, <1>3

LEMMA TypedRun ==
    ASSUME PipeInv, RunPhase PROVE PipeInv'
<1> DEFINE p == Head(todo)
           in == Input(p)
           ent == "enterprise.ttl"
<1>1. p \in DOMAIN Writes
  BY DEF RunPhase, PipeInv, PipelineTypeOK
<1>2. Tail(todo) \in Seq(DOMAIN Writes)
  BY DEF RunPhase, PipeInv, PipelineTypeOK
<1>3. DOMAIN dir = Files /\ (dir[ent] # Missing => OfOntology(dir[ent]))
  BY DEF PipeInv, PipelineTypeOK, OfOntology
<1>4. DOMAIN After(p, dir, in) = Files
  BY <1>1, <1>3, SameFiles
<1>5. After(p, dir, in)[ent] # Missing => OfOntology(After(p, dir, in)[ent])
  <2>1. Len(Writes[p]) \in 0 .. Len(Writes[p])
    BY <1>1, <1>3, SameFiles
  <2>2. \A k \in 0 .. Len(Writes[p]) :
           LET c == Stages(p, dir, in)[k][ent]
           IN  c # Missing => OfOntology(c)
    BY <1>1, <1>3, StagesOfOntology
  <2> QED BY <2>1, <2>2 DEF After
<1> HIDE DEF p
<1>6. Provisioned(p, tables) \subseteq Tables
  BY ProvisionedTables DEF PipeInv, PipelineTypeOK
<1>7. dir' = After(p, dir, in) /\ tables' = Provisioned(p, tables)
      /\ todo' = Tail(todo)
  BY DEF RunPhase, p, Input
<1>8. /\ verdict' \in {"none", "PASS", "FAIL", "SKIPPED"}
      /\ known' \subseteq ClassesIn(known')
      /\ cut' \in BOOLEAN
  <2>1. CASE p \in Classifying
    <3>1. verdict' = Overall(dir', in) /\ cut' = (cut /\ ~Classifies(dir', in))
          /\ known' \in {known, ClassesIn(dir'[ent])}
      BY <2>1 DEF RunPhase, p
    <3>2. Overall(dir', in) \in {"PASS", "FAIL", "SKIPPED"}
      BY DEF Overall
    <3>3. ClassesIn(dir'[ent]) \subseteq ClassesIn(ClassesIn(dir'[ent]))
      BY DEF ClassesIn, Entities
    <3> QED BY <3>1, <3>2, <3>3 DEF PipeInv, PipelineTypeOK
  <2>2. CASE p \notin Classifying
    BY <2>2 DEF RunPhase, p, judged, PipeInv, PipelineTypeOK
  <2> QED BY <2>1, <2>2
<1>9. dir'[ent] # Missing => \A a \in dir'[ent] :
              a \in Entities({a}) \cup Own(ent) \/ a[1] = "gone"
  BY <1>5, <1>7 DEF OfOntology
<1>10. running # "no"
  BY DEF RunPhase, PipeInv
<1> QED BY <1>2, <1>4, <1>6, <1>7, <1>8, <1>9, <1>10
        DEF PipeInv, PipelineTypeOK, RunPhase

LEMMA TypedDeath ==
    ASSUME PipeInv, Die PROVE PipeInv'
<1> DEFINE p == Head(todo)
           in == Input(p)
           s == Stages(p, dir, in)
           ent == "enterprise.ttl"
<1>1. p \in DOMAIN Writes
  BY DEF Die, PipeInv, PipelineTypeOK
<1>2. DOMAIN dir = Files /\ (dir[ent] # Missing => OfOntology(dir[ent]))
  BY DEF PipeInv, PipelineTypeOK, OfOntology
<1>3. \A k \in 0 .. Len(Writes[p]) : DOMAIN s[k] = Files
  BY <1>1, <1>2, SameFiles
<1>4. \A k \in 0 .. Len(Writes[p]) : s[k][ent] # Missing => OfOntology(s[k][ent])
  BY <1>1, <1>2, StagesOfOntology
<1>5. \E k \in 0 .. Len(Writes[p]) :
         \/ dir' = s[k]
         \/ dir' = [s[k] EXCEPT ![Writes[p][k + 1]] = {}]
  BY DEF Die
<1>6. tables' = Provisioned(p, tables)
  BY DEF Die, Input
<1> HIDE DEF s, p
<1>7. PICK k \in 0 .. Len(Writes[p]) :
         \/ dir' = s[k]
         \/ dir' = [s[k] EXCEPT ![Writes[p][k + 1]] = {}]
  BY <1>5
<1>8. DOMAIN dir' = Files /\ (dir'[ent] = s[k][ent] \/ dir'[ent] = {})
  <2>1. ent \in Files
    BY DerivedFileNames DEF Files
  <2> QED BY <1>3, <1>7, <2>1
<1>9. dir'[ent] # Missing => \A a \in dir'[ent] :
              a \in Entities({a}) \cup Own(ent) \/ a[1] = "gone"
  BY <1>4, <1>8 DEF OfOntology
<1>10. tables' \subseteq Tables
  BY <1>6, ProvisionedTables DEF PipeInv, PipelineTypeOK
<1>11. todo' = <<>> /\ <<>> \in Seq(DOMAIN Writes)
  BY DEF Die
<1>12. cut' \in BOOLEAN
  BY DEF Die, PipeInv, PipelineTypeOK
<1>13. running' = "no" /\ UNCHANGED <<session, robot, verdict, known>> /\ Upset
  BY DEF Die
<1> QED BY <1>8, <1>9, <1>10, <1>11, <1>12, <1>13, UpsetTyped
        DEF PipeInv, PipelineTypeOK

LEMMA PipeStep == PipeInv /\ [PipelineNext]_pipelineVars => PipeInv'
<1> SUFFICES ASSUME PipeInv, [PipelineNext]_pipelineVars PROVE PipeInv'
  OBVIOUS
<1>1. CASE EditDatabase \/ EditSession \/ EditRobot \/ ApplyProposal
  BY <1>1, TypedEdits
<1>2. CASE StartAll \/ (\E p \in Singles : StartSingle(p)) \/ Finish
  BY <1>2, TypedStarts
<1>3. CASE RunPhase
  BY <1>3, TypedRun
<1>4. CASE Die
  BY <1>4, TypedDeath
<1>5. CASE UNCHANGED pipelineVars
  BY <1>5 DEF PipeInv, PipelineTypeOK, pipelineVars
<1> QED BY <1>1, <1>2, <1>3, <1>4, <1>5 DEF PipelineNext

\* The types of the state hold: whatever runs, deaths and edits came before,
\* the ontology file holds an ontology, and a run only what is left of it.
THEOREM PipelineTypes == PipelineSpec => []PipelineTypeOK
<1>1. PipeInv => PipelineTypeOK
  BY DEF PipeInv
<1> QED BY <1>1, PipeInit, PipeStep, PTL DEF PipelineSpec

-----------------------------------------------------------------------------
(* The classification *)

LEMMA JudgesRuns ==
    ASSUME PipeInv, [PipelineNext]_pipelineVars, Judges
    PROVE  RunPhase
<1>1. todo \in Seq(DOMAIN Writes) /\ todo # <<>> /\ todo' = Tail(todo)
      /\ running # "no" /\ running' # "no"
  BY DEF Judges, PipeInv, PipelineTypeOK
<1>2. todo' # todo
  <2>1. Len(Tail(todo)) = Len(todo) - 1 /\ Len(todo) \in Nat
    BY <1>1
  <2>2. Len(Tail(todo)) # Len(todo)
    BY <2>1
  <2> QED BY <1>1, <2>2
<1>3. ~(EditDatabase \/ EditSession \/ EditRobot \/ ApplyProposal)
  BY <1>2 DEF EditDatabase, EditSession, EditRobot, ApplyProposal, run
<1>4. ~(StartAll \/ (\E p \in Singles : StartSingle(p)) \/ Finish \/ Die)
  BY <1>1 DEF StartAll, StartSingle, Finish, Die
<1>5. ~UNCHANGED pipelineVars
  BY <1>2 DEF pipelineVars
<1> QED BY <1>3, <1>4, <1>5 DEF PipelineNext

LEMMA JudgedPhase ==
    ASSUME PipeInv, RunPhase, Head(todo) \in Classifying
    PROVE  LET in == Input(Head(todo))
           IN  /\ Classified(dir, dir', in)
               /\ verdict' = Overall(dir', in)
               /\ known' = IF Classifies(dir', in)
                           THEN ClassesIn(dir'["enterprise.ttl"]) ELSE known
               /\ cut' = (cut /\ ~Classifies(dir', in))
<1> DEFINE p == Head(todo)
           in == Input(p)
<1>1. DOMAIN dir = Files
  BY DEF PipeInv, PipelineTypeOK
<1>2. dir' = After(p, dir, in)
  BY DEF RunPhase
<1>3. Classified(dir, dir', in)
  BY <1>1, <1>2, ClassifyingPhase
<1>4. /\ verdict' = Overall(dir', in)
      /\ known' = IF Classifies(dir', in)
                           THEN ClassesIn(dir'["enterprise.ttl"]) ELSE known
      /\ cut' = (cut /\ ~Classifies(dir', in))
  BY DEF RunPhase
<1> QED BY <1>3, <1>4

\* Lines of a snapshot in notation nt.
Lines(nt, es) == {<<nt, a>> : a \in es}

LEMMA LinesOf ==
    ASSUME NEW nt, NEW es
    PROVE  /\ Lines(nt, es) # Missing
           /\ {a[2] : a \in Lines(nt, es)} = es
<1>1. \A a : <<nt, a>> # <<>>
  OBVIOUS
<1>2. <<>> \notin Lines(nt, es)
  BY <1>1 DEF Lines
<1>3. Lines(nt, es) # Missing
  BY <1>2 DEF Missing
<1> DEFINE back == {a[2] : a \in Lines(nt, es)}
<1>4. ASSUME NEW b \in es PROVE b \in back
  <2>1. <<nt, b>> \in Lines(nt, es) /\ <<nt, b>>[2] = b
    BY DEF Lines
  <2> QED BY <2>1
<1>5. ASSUME NEW b \in back PROVE b \in es
  <2>1. PICK a \in Lines(nt, es) : b = a[2]
    OBVIOUS
  <2>2. PICK c \in es : a = <<nt, c>>
    BY DEF Lines
  <2> QED BY <2>1, <2>2
<1>6. back = es
  <2> HIDE DEF back
  <2> QED BY <1>4, <1>5
<1> QED BY <1>3, <1>6

LEMMA SnapshotLines ==
    ASSUME NEW d, NEW in
    PROVE  \E nt : Snapshot(d, in) = Lines(nt, ClassesIn(d["enterprise-classified.ttl"]))
BY DEF Snapshot, Lines

LEMMA ReadOne ==
    ASSUME NEW d, NEW f
    PROVE  Reads(d, {f}) = IF d[f] = Missing THEN {} ELSE d[f]
BY DEF Reads, Present

LEMMA PassClassifies ==
    ASSUME NEW d, NEW in, Overall(d, in) = "PASS"
    PROVE  /\ Classifies(d, in)
           /\ Reads(d, {"hierarchy-snapshot-prev.tsv"})
                 \subseteq Reads(d, {"hierarchy-snapshot.tsv"})
BY DEF Overall

\* A classification that passes has taken the snapshot of this ontology.
LEMMA PassSnapshot ==
    ASSUME NEW d, NEW e, NEW in, Classified(d, e, in), Classifies(e, in)
    PROVE  \E nt : /\ e["hierarchy-snapshot.tsv"] =
                         Lines(nt, ClassesIn(e["enterprise.ttl"]))
                   /\ Reads(e, {"hierarchy-snapshot.tsv"}) =
                         Lines(nt, ClassesIn(e["enterprise.ttl"]))
<1>1. e["enterprise-classified.ttl"] = e["enterprise.ttl"]
      /\ e["enterprise.ttl"] # Missing
  BY DEF Classified, Classifies
<1>2. e["hierarchy-snapshot.tsv"] = Snapshot(e, in)
  BY <1>1 DEF Classified
<1>3. PICK nt : Snapshot(e, in) = Lines(nt, ClassesIn(e["enterprise.ttl"]))
  BY <1>1, SnapshotLines
<1>4. e["hierarchy-snapshot.tsv"] # Missing
  BY <1>2, <1>3, LinesOf
<1> QED BY <1>2, <1>3, <1>4, ReadOne

\* PASS is printed only over a snapshot of the ontology that lies there.
THEOREM PassOfThisOntologyHolds == PipelineSpec => PassIsOfThisOntology
<1>1. ASSUME PipeInv, [PipelineNext]_pipelineVars, Judges, verdict' = "PASS"
      PROVE  {a[2] : a \in Reads(dir', {"hierarchy-snapshot.tsv"})}
                = ClassesIn(dir'["enterprise.ttl"])
  <2> DEFINE in == Input(Head(todo))
  <2>1. RunPhase /\ Head(todo) \in Classifying
    BY <1>1, JudgesRuns DEF Judges
  <2>2. Classified(dir, dir', in) /\ Overall(dir', in) = "PASS"
    BY <1>1, <2>1, JudgedPhase
  <2> HIDE DEF in
  <2>3. Classifies(dir', in)
    BY <2>2, PassClassifies
  <2>4. PICK nt : Reads(dir', {"hierarchy-snapshot.tsv"}) =
                     Lines(nt, ClassesIn(dir'["enterprise.ttl"]))
    BY <2>2, <2>3, PassSnapshot
  <2> QED BY <2>4, LinesOf
<1>2. PipeInv /\ [PipelineNext]_pipelineVars
         => [Judges /\ verdict' = "PASS" =>
                {a[2] : a \in Reads(dir', {"hierarchy-snapshot.tsv"})}
                    = ClassesIn(dir'["enterprise.ttl"])]_pipelineVars
  BY <1>1
<1> QED BY <1>2, PipeInit, PipeStep, PTL DEF PipelineSpec, PassIsOfThisOntology

\* Until a classifying phase dies, the classified file is of the classes the
\* last classification that ROBOT passed was of, and so is the snapshot.
KnownInv ==
    ~cut =>
      /\ dir["enterprise-classified.ttl"] = Missing => known = {}
      /\ dir["enterprise-classified.ttl"] # Missing =>
            ClassesIn(dir["enterprise-classified.ttl"]) = known
      /\ dir["hierarchy-snapshot.tsv"] = Missing => known = {}
      /\ dir["hierarchy-snapshot.tsv"] # Missing =>
            \E nt : dir["hierarchy-snapshot.tsv"] = Lines(nt, known)

LEMMA KnownInit == PipelineInit => KnownInv
<1>1. {"enterprise-classified.ttl", "hierarchy-snapshot.tsv"} \subseteq Files
  BY DerivedFileNames DEF Files
<1> QED BY <1>1 DEF PipelineInit, KnownInv, NoFiles

\* No other phase writes these files.
LEMMA OthersKeep ==
    ASSUME NEW p \in DOMAIN Writes, p \notin Classifying
    PROVE  \A i \in 1 .. Len(Writes[p]) :
              Writes[p][i] \notin {"enterprise-classified.ttl",
                                   "hierarchy-snapshot.tsv"}
<1> DEFINE S == Files \ {"enterprise-classified.ttl", "hierarchy-snapshot.tsv"}
<1>1. FromConstants \subseteq S /\ FromTables \subseteq S
  BY ConstantFileNames, TableFileNames DEF Files
<1>2. {"rules.ttl", "sparql_rules", "_combined.ttl",
            "instances.ttl", "ontology_quality.csv", "sparql_cq_test_results.csv",
            "cq_test_results.csv", "governance_scorecard.csv",
            "toolkit_report.html", "compliance_summary.html",
            "enterprise-inferred.ttl", "inferred-shacl.ttl",
            "inferred-sparql.ttl", "materialised.ttl",
            "materialised-lineage.ttl", "materialisation_report.md",
            "alignment.ttl", "master.ttl", "modules.json"} \subseteq S
  BY DerivedFileNames DEF Files
<1> HIDE DEF S
<1>3. Writes[p] \in Seq(S)
  BY <1>1, <1>2, PhasesOver
<1>4. \A i \in 1 .. Len(Writes[p]) : Writes[p][i] \in S
  BY <1>3
<1> QED BY <1>4 DEF S

LEMMA KnownSame ==
    ASSUME KnownInv, known' = known, cut' = cut,
           dir'["enterprise-classified.ttl"] = dir["enterprise-classified.ttl"],
           dir'["hierarchy-snapshot.tsv"] = dir["hierarchy-snapshot.tsv"]
    PROVE  KnownInv'
BY DEF KnownInv

LEMMA KnownJudged ==
    ASSUME PipeInv, KnownInv, RunPhase, Head(todo) \in Classifying
    PROVE  KnownInv'
<1> DEFINE in == Input(Head(todo))
           ent == "enterprise.ttl"
           cl == "enterprise-classified.ttl"
           sn == "hierarchy-snapshot.tsv"
<1>1. /\ Classified(dir, dir', in)
      /\ known' = IF Classifies(dir', in) THEN ClassesIn(dir'[ent]) ELSE known
      /\ cut' = (cut /\ ~Classifies(dir', in))
  BY JudgedPhase
<1> HIDE DEF in
<1>2. CASE Classifies(dir', in)
  <2>1. dir'[cl] = dir'[ent] /\ dir'[ent] # Missing /\ known' = ClassesIn(dir'[ent])
    BY <1>1, <1>2 DEF Classified, Classifies
  <2>2. PICK nt : dir'[sn] = Lines(nt, ClassesIn(dir'[ent]))
    BY <1>1, <1>2, PassSnapshot
  <2>3. dir'[sn] # Missing /\ dir'[sn] = Lines(nt, known')
    BY <2>1, <2>2, LinesOf
  <2>4. dir'[cl] # Missing /\ ClassesIn(dir'[cl]) = known'
    BY <2>1
  <2> QED BY <2>3, <2>4 DEF KnownInv
<1>3. CASE ~Classifies(dir', in)
  <2>1. dir'[cl] = dir[cl] /\ known' = known
        /\ dir'[sn] = IF dir'[cl] = Missing THEN dir[sn] ELSE Snapshot(dir', in)
    BY <1>1, <1>3 DEF Classified
  <2>2. cut' => cut
    BY <1>1
  <2>3. cut' <=> cut
    BY <1>1, <1>3
  <2> SUFFICES ASSUME ~cut PROVE KnownInv'
    BY <2>3 DEF KnownInv
  <2>4. /\ dir[cl] = Missing => known = {}
        /\ dir[cl] # Missing => ClassesIn(dir[cl]) = known
        /\ dir[sn] = Missing => known = {}
        /\ dir[sn] # Missing => \E nt : dir[sn] = Lines(nt, known)
    BY DEF KnownInv
  <2>5. CASE dir[cl] = Missing
    BY <2>1, <2>4, <2>5 DEF KnownInv
  <2>6. CASE dir[cl] # Missing
    <3>1. PICK nt : Snapshot(dir', in) = Lines(nt, ClassesIn(dir'[cl]))
      BY SnapshotLines
    <3>2. dir'[sn] = Lines(nt, known') /\ dir'[sn] # Missing
      BY <2>1, <2>4, <2>6, <3>1, LinesOf
    <3> QED BY <2>1, <2>4, <2>6, <3>2 DEF KnownInv
  <2> QED BY <2>5, <2>6
<1> QED BY <1>2, <1>3

LEMMA KnownOtherPhase ==
    ASSUME PipeInv, KnownInv, RunPhase, Head(todo) \notin Classifying
    PROVE  KnownInv'
<1> DEFINE p == Head(todo)
           in == Input(p)
           n == Len(Writes[p])
<1>1. p \in DOMAIN Writes /\ DOMAIN dir = Files
  BY DEF RunPhase, PipeInv, PipelineTypeOK
<1>2. dir' = Stages(p, dir, in)[n] /\ known' = known /\ cut' = cut
  BY DEF RunPhase, After, judged
<1>3. n \in Nat /\ n \in 0 .. n
  BY <1>1, SameFiles
<1> HIDE DEF p, in
<1>4. ASSUME NEW g \in {"enterprise-classified.ttl", "hierarchy-snapshot.tsv"}
      PROVE  dir'[g] = dir[g]
  <2>1. g \in Files
    BY DerivedFileNames DEF Files
  <2>2. \A i \in 1 .. n : Writes[p][i] # g
    BY <1>1, OthersKeep DEF p
  <2> QED BY <1>1, <1>2, <1>3, <2>1, <2>2, NotYetWritten
<1> QED BY <1>2, <1>4, KnownSame

LEMMA KnownDeath ==
    ASSUME PipeInv, KnownInv, Die
    PROVE  KnownInv'
<1> DEFINE p == Head(todo)
           in == Input(p)
           n == Len(Writes[p])
           s == Stages(p, dir, in)
<1>1. CASE p \in Classifying
  BY <1>1 DEF Die, KnownInv
<1>2. CASE p \notin Classifying
  <2>1. p \in DOMAIN Writes /\ DOMAIN dir = Files
    BY DEF Die, PipeInv, PipelineTypeOK
  <2>2. known' = known /\ cut' = (cut \/ p \in Classifying)
    BY DEF Die
  <2>3. cut' = cut
    BY <1>2, <2>2 DEF PipeInv, PipelineTypeOK
  <2>4. \E k \in 0 .. n :
           \/ dir' = s[k]
           \/ k < n /\ dir' = [s[k] EXCEPT ![Writes[p][k + 1]] = {}]
    BY DEF Die
  <2>5. n \in Nat /\ \A k \in 0 .. n : DOMAIN s[k] = Files
    BY <2>1, SameFiles
  <2>6. \A i \in 1 .. n : Writes[p][i] \notin
              {"enterprise-classified.ttl", "hierarchy-snapshot.tsv"}
    BY <1>2, <2>1, OthersKeep
  <2>7. ASSUME NEW k \in 0 .. n,
               NEW g \in {"enterprise-classified.ttl", "hierarchy-snapshot.tsv"}
        PROVE  s[k][g] = dir[g]
    <3>1. g \in Files
      BY DerivedFileNames DEF Files
    <3>2. \A i \in 1 .. k : i \in 1 .. n
      BY <2>5
    <3>3. \A i \in 1 .. k : Writes[p][i] # g
      BY <2>6, <3>2
    <3> QED BY <2>1, <2>5, <3>1, <3>3, NotYetWritten
  <2> HIDE DEF p, in, n, s
  <2>8. PICK k \in 0 .. n :
           \/ dir' = s[k]
           \/ k < n /\ dir' = [s[k] EXCEPT ![Writes[p][k + 1]] = {}]
    BY <2>4
  <2>9. ASSUME NEW g \in {"enterprise-classified.ttl", "hierarchy-snapshot.tsv"}
        PROVE  dir'[g] = dir[g]
    <3>1. g \in Files
      BY DerivedFileNames DEF Files
    <3>2. k < n => k + 1 \in 1 .. n
      BY <2>5
    <3>3. k < n => Writes[p][k + 1] # g
      BY <2>6, <3>2
    <3>4. dir'[g] = s[k][g]
      BY <2>5, <2>8, <3>1, <3>3
    <3> QED BY <2>7, <3>4
  <2> QED BY <2>2, <2>3, <2>9, KnownSame
<1> QED BY <1>1, <1>2

LEMMA KnownStep ==
    PipeInv /\ KnownInv /\ [PipelineNext]_pipelineVars => KnownInv'
<1> SUFFICES ASSUME PipeInv, KnownInv, [PipelineNext]_pipelineVars
             PROVE  KnownInv'
  OBVIOUS
<1>1. CASE RunPhase
  BY <1>1, KnownJudged, KnownOtherPhase
<1>2. CASE Die
  BY <1>2, KnownDeath
<1>3. CASE ApplyProposal
  <2>1. DOMAIN dir = Files
    BY DEF PipeInv, PipelineTypeOK
  <2>2. {"enterprise-classified.ttl", "hierarchy-snapshot.tsv"} \subseteq Files
    BY DerivedFileNames DEF Files
  <2>3. PICK b \in Blocks :
           dir' = [dir EXCEPT !["enterprise.ttl"] = @ \cup {<<"block", b>>}]
    BY <1>3 DEF ApplyProposal
  <2>4. dir'["enterprise-classified.ttl"] = dir["enterprise-classified.ttl"]
        /\ dir'["hierarchy-snapshot.tsv"] = dir["hierarchy-snapshot.tsv"]
    BY <2>1, <2>2, <2>3
  <2>5. known' = known /\ cut' = cut
    BY <1>3 DEF ApplyProposal, judged
  <2> QED BY <2>4, <2>5, KnownSame
<1>4. CASE \/ StartAll \/ (\E p \in Singles : StartSingle(p)) \/ Finish
           \/ EditDatabase \/ EditSession \/ EditRobot \/ UNCHANGED pipelineVars
  <2>1. dir' = dir /\ known' = known /\ cut' = cut
    BY <1>4 DEF StartAll, StartSingle, Finish, EditDatabase, EditSession,
                EditRobot, judged, pipelineVars
  <2> QED BY <2>1, KnownSame
<1> QED BY <1>1, <1>2, <1>3, <1>4 DEF PipelineNext

LEMMA NotPassedStep ==
    ASSUME PipeInv, KnownInv, [PipelineNext]_pipelineVars, Judges,
           verdict' = "PASS", ~cut
    PROVE  known \subseteq known'
<1> DEFINE in == Input(Head(todo))
           sn == "hierarchy-snapshot.tsv"
           prev == "hierarchy-snapshot-prev.tsv"
<1>1. RunPhase /\ Head(todo) \in Classifying
  BY JudgesRuns DEF Judges
<1>2. /\ Classified(dir, dir', in)
      /\ Overall(dir', in) = "PASS"
      /\ known' = IF Classifies(dir', in)
                  THEN ClassesIn(dir'["enterprise.ttl"]) ELSE known
  BY <1>1, JudgedPhase
<1> HIDE DEF in
<1>3. Classifies(dir', in) /\ Reads(dir', {prev}) \subseteq Reads(dir', {sn})
  BY <1>2, PassClassifies
<1>4. known' = ClassesIn(dir'["enterprise.ttl"])
  BY <1>2, <1>3
<1>5. PICK nt : Reads(dir', {sn}) = Lines(nt, known')
  BY <1>2, <1>3, <1>4, PassSnapshot
<1>6. CASE dir[sn] = Missing
  BY <1>6 DEF KnownInv
<1>7. CASE dir[sn] # Missing
  <2>1. PICK old : dir[sn] = Lines(old, known)
    BY <1>7 DEF KnownInv
  <2>2. dir'[prev] = Lines(old, known)
    BY <1>2, <1>7, <2>1 DEF Classified
  <2>3. Lines(old, known) \subseteq Lines(nt, known')
    BY <1>3, <1>5, <2>2, LinesOf, ReadOne
  <2>4. ASSUME NEW a \in known PROVE a \in known'
    <3>1. <<old, a>> \in Lines(nt, known')
      BY <2>3 DEF Lines
    <3>2. PICK b \in known' : <<old, a>> = <<nt, b>>
      BY <3>1 DEF Lines
    <3> QED BY <3>2
  <2> QED BY <2>4
<1> QED BY <1>6, <1>7

\* No run passes an ontology that has lost a class since ROBOT last passed
\* one, but where a classification died in between.
THEOREM RemovalNotPassedHolds == PipelineSpec => RemovalNotPassed
<1>1. PipeInv /\ KnownInv /\ [PipelineNext]_pipelineVars
         => [Judges /\ verdict' = "PASS" /\ ~cut => known \subseteq known']_pipelineVars
  BY NotPassedStep
<1> QED BY <1>1, PipeInit, PipeStep, KnownInit, KnownStep, PTL
        DEF PipelineSpec, RemovalNotPassed

-----------------------------------------------------------------------------
(* Measurements *)

\* The files a measurement is computed from.
Sources(f) ==
    CASE f = "instances.ttl" -> Ground \cup {"logical_physical_map.csv"}
      [] f = "ontology_quality.csv" -> Authored
      [] f = "sparql_cq_test_results.csv" -> SparqlTested
      [] f = "cq_test_results.csv" -> Ground
      [] f = "toolkit_report.html" -> Reported
      [] f = "compliance_summary.html" ->
             Shapes \cup {"_combined.ttl", "sparql_cq_test_results.csv",
                          "governance_scorecard.csv"}

LEMMA ReadsSame ==
    ASSUME NEW d, NEW e, NEW fs, \A f \in fs : d[f] = e[f]
    PROVE  Reads(d, fs) = Reads(e, fs) /\ Present(d, fs) = Present(e, fs)
<1>1. Present(d, fs) = Present(e, fs)
  BY DEF Present
<1>2. \A f \in Present(d, fs) : d[f] = e[f]
  BY DEF Present
<1> QED BY <1>1, <1>2 DEF Reads

LEMMA MeasureReads ==
    ASSUME NEW f \in Measured, NEW d, NEW e, NEW in,
           \A g \in Sources(f) : d[g] = e[g]
    PROVE  /\ Skips(f, d, in) <=> Skips(f, e, in)
           /\ ~Skips(f, d, in) => Made(f, d, in) = Made(f, e, in)
<1>1. f \notin FromConstants /\ f \notin FromTables
  BY ConstantFileNames, TableFileNames DEF Measured
<1>2. CASE f = "instances.ttl"
  <2>1. Sources(f) = Ground \cup {"logical_physical_map.csv"}
    BY <1>2 DEF Sources
  <2>2. Reads(d, Ground) = Reads(e, Ground)
        /\ Reads(d, {"logical_physical_map.csv"}) = Reads(e, {"logical_physical_map.csv"})
    BY <2>1, ReadsSame
  <2>3. Instances(d, in) = Instances(e, in)
    BY <2>2 DEF Instances
  <2>4. (Skips(f, d, in) <=> Reads(d, {"logical_physical_map.csv"}) = {})
        /\ (Skips(f, e, in) <=> Reads(e, {"logical_physical_map.csv"}) = {})
    BY <1>2 DEF Skips
  <2>5. (~Skips(f, d, in) => Made(f, d, in) = Instances(d, in))
        /\ (~Skips(f, e, in) => Made(f, e, in) = Instances(e, in))
    BY <1>1, <1>2 DEF Made
  <2> QED BY <2>2, <2>3, <2>4, <2>5
<1>3. CASE f = "ontology_quality.csv"
  <2>1. Reads(d, Authored) = Reads(e, Authored)
        /\ Present(d, Authored) = Present(e, Authored)
    BY <1>3, ReadsSame DEF Sources
  <2>2. (Skips(f, d, in) <=> Present(d, Authored) = {})
        /\ (Skips(f, e, in) <=> Present(e, Authored) = {})
    BY <1>3 DEF Skips
  <2>3. (~Skips(f, d, in) => Made(f, d, in) = Reads(d, Authored))
        /\ (~Skips(f, e, in) => Made(f, e, in) = Reads(e, Authored))
    BY <1>1, <1>3 DEF Made
  <2> QED BY <2>1, <2>2, <2>3
<1>4. CASE f = "sparql_cq_test_results.csv"
  <2>1. Reads(d, SparqlTested) = Reads(e, SparqlTested)
        /\ Present(d, SparqlTested) = Present(e, SparqlTested)
    BY <1>4, ReadsSame DEF Sources
  <2>2. (Skips(f, d, in) <=> Present(d, SparqlTested) = {})
        /\ (Skips(f, e, in) <=> Present(e, SparqlTested) = {})
    BY <1>4 DEF Skips
  <2>3. (~Skips(f, d, in) => Made(f, d, in) = Reads(d, SparqlTested))
        /\ (~Skips(f, e, in) => Made(f, e, in) = Reads(e, SparqlTested))
    BY <1>1, <1>4 DEF Made
  <2> QED BY <2>1, <2>2, <2>3
<1>5. CASE f = "cq_test_results.csv"
  <2>1. Reads(d, Ground) = Reads(e, Ground)
    BY <1>5, ReadsSame DEF Sources
  <2>2. ~Skips(f, d, in) /\ ~Skips(f, e, in)
    BY <1>5 DEF Skips
  <2>3. /\ Made(f, d, in) = TableAtoms(in.tables) \cup Reads(d, Ground)
        /\ Made(f, e, in) = TableAtoms(in.tables) \cup Reads(e, Ground)
    BY <1>1, <1>5, <2>2 DEF Made
  <2> QED BY <2>1, <2>2, <2>3
<1>6. CASE f = "toolkit_report.html"
  <2>1. Reads(d, Reported) = Reads(e, Reported)
    BY <1>6, ReadsSame DEF Sources
  <2>2. ~Skips(f, d, in) /\ ~Skips(f, e, in)
    BY <1>6 DEF Skips
  <2>3. Made(f, d, in) = Reads(d, Reported) /\ Made(f, e, in) = Reads(e, Reported)
    BY <1>1, <1>6, <2>2 DEF Made
  <2> QED BY <2>1, <2>2, <2>3
<1>7. CASE f = "compliance_summary.html"
  <2> DEFINE fs == Shapes \cup {"_combined.ttl", "sparql_cq_test_results.csv",
                                "governance_scorecard.csv"}
  <2>1. Sources(f) = fs
    BY <1>7 DEF Sources
  <2>2. ~Skips(f, d, in) /\ ~Skips(f, e, in)
    BY <1>7 DEF Skips
  <2>3. Made(f, d, in) = Reads(d, fs) /\ Made(f, e, in) = Reads(e, fs)
    BY <1>1, <1>7, <2>2 DEF Made
  <2> HIDE DEF fs
  <2>4. Reads(d, fs) = Reads(e, fs)
    BY <2>1, ReadsSame
  <2> QED BY <2>2, <2>3, <2>4
<1> QED BY <1>2, <1>3, <1>4, <1>5, <1>6, <1>7 DEF Measured

\* Which measurements read what the measuring phases write.
LEMMA SourcesApart ==
    LET late == Measured \cup {"governance_scorecard.csv"}
    IN  /\ Sources("instances.ttl") \cap late = {}
        /\ Sources("ontology_quality.csv") \cap late = {}
        /\ Sources("cq_test_results.csv") \cap late = {}
        /\ Sources("sparql_cq_test_results.csv") \cap late = {"instances.ttl"}
        /\ Sources("toolkit_report.html") \cap late =
              {"cq_test_results.csv", "governance_scorecard.csv"}
        /\ Sources("compliance_summary.html") \cap late =
              {"sparql_cq_test_results.csv", "governance_scorecard.csv"}
BY DEF Sources, Measured, Ground, Authored, SparqlTested, Reported, Shapes

LEMMA SourcesAreFiles == \A f \in Measured : Sources(f) \subseteq Files
<1>1. Ground \cup Authored \cup SparqlTested \cup Reported \cup Shapes
        \cup {"_combined.ttl", "sparql_cq_test_results.csv",
              "governance_scorecard.csv", "logical_physical_map.csv"}
           \subseteq Files
  BY ConstantFileNames, TableFileNames, DerivedFileNames
     DEF Files, Ground, Authored, SparqlTested, Reported, Shapes
<1> QED BY <1>1 DEF Sources, Measured

\* File f is as taking it again would leave it.
Fits(f, d, in) == d[f] = Made(f, d, in)

LEMMA FitsOnceWritten ==
    ASSUME NEW p, NEW k, NEW d, NEW in, DOMAIN d = Files,
           Writes[p][k] \in Measured, NEW e, e = Written(p, k, d, in)
    PROVE  DOMAIN e = Files /\ Fits(Writes[p][k], e, in)
<1> DEFINE f == Writes[p][k]
<1>1. f \in Files
  BY DerivedFileNames DEF Files, Measured
<1>2. DOMAIN e = Files /\ e[f] = Made(f, d, in)
      /\ \A g \in Files : g # f => e[g] = d[g]
  BY <1>1, WrittenOnly
<1>3. Sources(f) \subseteq Files /\ f \notin Sources(f)
  <2>1. f \notin Sources(f)
    BY SourcesApart DEF Measured
  <2> QED BY <2>1, SourcesAreFiles
<1> HIDE DEF f
<1>4. \A g \in Sources(f) : d[g] = e[g]
  BY <1>2, <1>3
<1>5. (Skips(f, d, in) <=> Skips(f, e, in))
      /\ (~Skips(f, d, in) => Made(f, d, in) = Made(f, e, in))
  BY <1>4, MeasureReads DEF f
<1>6. CASE Skips(f, d, in)
  <2>1. Made(f, e, in) = e[f]
    BY <1>5, <1>6 DEF Made
  <2> QED BY <1>2, <2>1 DEF Fits, f
<1>7. CASE ~Skips(f, d, in)
  BY <1>2, <1>5, <1>7 DEF Fits, f
<1> QED BY <1>6, <1>7

LEMMA FitsStill ==
    ASSUME NEW p, NEW k, NEW d, NEW in, DOMAIN d = Files,
           NEW e, e = Written(p, k, d, in),
           NEW f \in Measured, Fits(f, d, in),
           Writes[p][k] # f, Writes[p][k] \notin Sources(f)
    PROVE  Fits(f, e, in)
<1>1. f \in Files
  BY DerivedFileNames DEF Files, Measured
<1>2. e[f] = d[f] /\ \A g \in Sources(f) : d[g] = e[g]
  BY <1>1, SourcesAreFiles, WrittenOnly
<1>3. (Skips(f, d, in) <=> Skips(f, e, in))
      /\ (~Skips(f, d, in) => Made(f, d, in) = Made(f, e, in))
  BY <1>2, MeasureReads
<1>4. CASE Skips(f, d, in)
  <2>1. Made(f, e, in) = e[f]
    BY <1>3, <1>4 DEF Made
  <2> QED BY <2>1 DEF Fits
<1>5. CASE ~Skips(f, d, in)
  BY <1>2, <1>3, <1>5 DEF Fits
<1> QED BY <1>4, <1>5

\* What fits once n phases of a full run are left to begin.
FitsSoFar(n, d, in) ==
    /\ n < 5 => Fits("instances.ttl", d, in)
    /\ n < 4 => Fits("ontology_quality.csv", d, in)
    /\ n < 3 => Fits("sparql_cq_test_results.csv", d, in)
    /\ n < 2 => Fits("cq_test_results.csv", d, in)
    /\ n < 1 => Fits("toolkit_report.html", d, in)
                /\ Fits("compliance_summary.html", d, in)

\* The phases that measure, one by one.
LEMMA AboxFits ==
    ASSUME NEW d, NEW in, DOMAIN d = Files
    PROVE  FitsSoFar(4, After("abox", d, in), in)
<1> DEFINE e == After("abox", d, in)
<1>1. Writes["abox"] = <<"instances.ttl">>
  BY DEF Writes, GenerateAbox
<1>2. Len(Writes["abox"]) = 1 /\ Writes["abox"][1] = "instances.ttl"
  BY <1>1
<1>3. e = Written("abox", 1, d, in)
  <2>1. \A k \in 1 .. 1 : Stages("abox", d, in)[k] =
                             Written("abox", k, Stages("abox", d, in)[k - 1], in)
        /\ Stages("abox", d, in)[0] = d
    BY <1>2, StagesExist
  <2>2. 1 \in 1 .. 1 /\ 1 - 1 = 0
    OBVIOUS
  <2> QED BY <1>2, <2>1, <2>2 DEF After
<1> HIDE DEF e
<1>4. Fits("instances.ttl", e, in)
  BY <1>2, <1>3, FitsOnceWritten DEF Measured
<1> QED BY <1>4 DEF FitsSoFar, e

LEMMA QualityFits ==
    ASSUME NEW d, NEW in, DOMAIN d = Files, FitsSoFar(4, d, in)
    PROVE  FitsSoFar(3, After("quality", d, in), in)
<1> DEFINE e == After("quality", d, in)
<1>1. Writes["quality"] = <<"ontology_quality.csv">>
  BY DEF Writes, RunQualityReport
<1>2. Len(Writes["quality"]) = 1 /\ Writes["quality"][1] = "ontology_quality.csv"
  BY <1>1
<1>3. e = Written("quality", 1, d, in)
  <2>1. \A k \in 1 .. 1 : Stages("quality", d, in)[k] =
                             Written("quality", k, Stages("quality", d, in)[k - 1], in)
        /\ Stages("quality", d, in)[0] = d
    BY <1>2, StagesExist
  <2>2. 1 \in 1 .. 1 /\ 1 - 1 = 0
    OBVIOUS
  <2> QED BY <1>2, <2>1, <2>2 DEF After
<1> HIDE DEF e
<1>4. Fits("ontology_quality.csv", e, in)
  BY <1>2, <1>3, FitsOnceWritten DEF Measured
<1>5. Fits("instances.ttl", d, in)
  BY DEF FitsSoFar
<1>6. Fits("instances.ttl", e, in)
  BY <1>2, <1>3, <1>5, SourcesApart, FitsStill DEF Measured
<1> QED BY <1>4, <1>6 DEF FitsSoFar, e

LEMMA SparqlFits ==
    ASSUME NEW d, NEW in, DOMAIN d = Files, FitsSoFar(3, d, in)
    PROVE  FitsSoFar(2, After("sparql", d, in), in)
<1> DEFINE e == After("sparql", d, in)
<1>1. Writes["sparql"] = <<"sparql_cq_test_results.csv">>
  BY DEF Writes, RunSparqlTests
<1>2. Len(Writes["sparql"]) = 1 /\ Writes["sparql"][1] = "sparql_cq_test_results.csv"
  BY <1>1
<1>3. e = Written("sparql", 1, d, in)
  <2>1. \A k \in 1 .. 1 : Stages("sparql", d, in)[k] =
                             Written("sparql", k, Stages("sparql", d, in)[k - 1], in)
        /\ Stages("sparql", d, in)[0] = d
    BY <1>2, StagesExist
  <2>2. 1 \in 1 .. 1 /\ 1 - 1 = 0
    OBVIOUS
  <2> QED BY <1>2, <2>1, <2>2 DEF After
<1> HIDE DEF e
<1>4. Fits("sparql_cq_test_results.csv", e, in)
  BY <1>2, <1>3, FitsOnceWritten DEF Measured
<1>5. Fits("instances.ttl", d, in) /\ Fits("ontology_quality.csv", d, in)
  BY DEF FitsSoFar
<1>6. Fits("instances.ttl", e, in)
  BY <1>2, <1>3, <1>5, SourcesApart, FitsStill DEF Measured
<1>7. Fits("ontology_quality.csv", e, in)
  BY <1>2, <1>3, <1>5, SourcesApart, FitsStill DEF Measured
<1> QED BY <1>4, <1>6, <1>7 DEF FitsSoFar, e

LEMMA TestFits ==
    ASSUME NEW d, NEW in, DOMAIN d = Files, FitsSoFar(2, d, in)
    PROVE  FitsSoFar(1, After("test", d, in), in)
<1> DEFINE w == Writes["test"]
           s == Stages("test", d, in)
<1>1. w = <<"cq_test_results.csv", "governance_scorecard.csv",
            "sparql_cq_test_results.csv">>
  BY PhaseTestFiles DEF Writes
<1>2. Len(w) = 3 /\ w[1] = "cq_test_results.csv"
      /\ w[2] = "governance_scorecard.csv" /\ w[3] = "sparql_cq_test_results.csv"
  <2> HIDE DEF w
  <2> QED BY <1>1
<1>3. s[0] = d /\ \A k \in 1 .. 3 : s[k] = Written("test", k, s[k - 1], in)
  BY <1>2, StagesExist
<1>4. After("test", d, in) = s[3]
  BY <1>2 DEF After
<1> HIDE DEF s
<1>5. /\ s[1] = Written("test", 1, d, in)
      /\ s[2] = Written("test", 2, s[1], in)
      /\ s[3] = Written("test", 3, s[2], in)
  BY <1>3
<1>6. /\ Fits("instances.ttl", d, in)
      /\ Fits("ontology_quality.csv", d, in)
  BY DEF FitsSoFar
<1>7. DOMAIN s[1] = Files /\ DOMAIN s[2] = Files /\ DOMAIN s[3] = Files
  BY <1>5, WrittenOnly
<1>8. /\ Fits("cq_test_results.csv", s[1], in)
      /\ Fits("instances.ttl", s[1], in)
      /\ Fits("ontology_quality.csv", s[1], in)
  <2>1. Fits("cq_test_results.csv", s[1], in)
    BY <1>2, <1>5, FitsOnceWritten DEF Measured
  <2>2. Fits("instances.ttl", s[1], in)
    BY <1>2, <1>5, <1>6, SourcesApart, FitsStill DEF Measured
  <2>3. Fits("ontology_quality.csv", s[1], in)
    BY <1>2, <1>5, <1>6, SourcesApart, FitsStill DEF Measured
  <2> QED BY <2>1, <2>2, <2>3
<1>9. /\ Fits("cq_test_results.csv", s[2], in)
      /\ Fits("instances.ttl", s[2], in)
      /\ Fits("ontology_quality.csv", s[2], in)
  <2>1. Fits("cq_test_results.csv", s[2], in)
    BY <1>2, <1>5, <1>7, <1>8, SourcesApart, FitsStill DEF Measured
  <2>2. Fits("instances.ttl", s[2], in)
    BY <1>2, <1>5, <1>7, <1>8, SourcesApart, FitsStill DEF Measured
  <2>3. Fits("ontology_quality.csv", s[2], in)
    BY <1>2, <1>5, <1>7, <1>8, SourcesApart, FitsStill DEF Measured
  <2> QED BY <2>1, <2>2, <2>3
<1>10. /\ Fits("cq_test_results.csv", s[3], in)
       /\ Fits("instances.ttl", s[3], in)
       /\ Fits("ontology_quality.csv", s[3], in)
       /\ Fits("sparql_cq_test_results.csv", s[3], in)
  <2>1. Fits("cq_test_results.csv", s[3], in)
    BY <1>2, <1>5, <1>7, <1>9, SourcesApart, FitsStill DEF Measured
  <2>2. Fits("instances.ttl", s[3], in)
    BY <1>2, <1>5, <1>7, <1>9, SourcesApart, FitsStill DEF Measured
  <2>3. Fits("ontology_quality.csv", s[3], in)
    BY <1>2, <1>5, <1>7, <1>9, SourcesApart, FitsStill DEF Measured
  <2>4. Fits("sparql_cq_test_results.csv", s[3], in)
    BY <1>2, <1>5, <1>7, FitsOnceWritten DEF Measured
  <2> QED BY <2>1, <2>2, <2>3, <2>4
<1> QED BY <1>4, <1>10 DEF FitsSoFar

LEMMA ReportFits ==
    ASSUME NEW d, NEW in, DOMAIN d = Files, FitsSoFar(1, d, in)
    PROVE  FitsSoFar(0, After("report", d, in), in)
<1> DEFINE w == Writes["report"]
           s == Stages("report", d, in)
           old == Measured \ {"toolkit_report.html", "compliance_summary.html"}
<1>1. w = <<"toolkit_report.html", "compliance_summary.html">>
  BY PhaseReportFiles DEF Writes
<1>2. Len(w) = 2 /\ w[1] = "toolkit_report.html"
      /\ w[2] = "compliance_summary.html"
  <2> HIDE DEF w
  <2> QED BY <1>1
<1>3. s[0] = d /\ \A k \in 1 .. 2 : s[k] = Written("report", k, s[k - 1], in)
  BY <1>2, StagesExist
<1>4. After("report", d, in) = s[2]
  BY <1>2 DEF After
<1> HIDE DEF s
<1>5. /\ s[1] = Written("report", 1, d, in)
      /\ s[2] = Written("report", 2, s[1], in)
  BY <1>3
<1>6. \A f \in old : Fits(f, d, in)
  BY DEF FitsSoFar, Measured
<1>7. DOMAIN s[1] = Files /\ DOMAIN s[2] = Files
  BY <1>5, WrittenOnly
<1>8. ASSUME NEW f \in Measured
      PROVE  /\ f # "toolkit_report.html" => "toolkit_report.html" \notin Sources(f)
             /\ "compliance_summary.html" \notin Sources(f)
  BY SourcesApart DEF Measured
<1>9. \A f \in old \cup {"toolkit_report.html"} : Fits(f, s[1], in)
  <2>1. Fits("toolkit_report.html", s[1], in)
    BY <1>2, <1>5, FitsOnceWritten DEF Measured
  <2>2. ASSUME NEW f \in old PROVE Fits(f, s[1], in)
    BY <1>2, <1>5, <1>6, <1>8, FitsStill
  <2> QED BY <2>1, <2>2
<1>10. \A f \in Measured : Fits(f, s[2], in)
  <2>1. Fits("compliance_summary.html", s[2], in)
    BY <1>2, <1>5, <1>7, FitsOnceWritten DEF Measured
  <2>2. ASSUME NEW f \in old \cup {"toolkit_report.html"}
        PROVE  Fits(f, s[2], in)
    <3>1. f \in Measured /\ f # "compliance_summary.html"
      BY DEF Measured
    <3> QED BY <1>2, <1>5, <1>7, <1>8, <1>9, <3>1, FitsStill
  <2> QED BY <2>1, <2>2
<1> QED BY <1>4, <1>10 DEF FitsSoFar, Measured

\* In an undisturbed full run, what is left of All and what fits already.
OnSchedule ==
    /\ Len(todo) <= 19
    /\ \A k \in 1 .. Len(todo) : todo[k] = All[k + (19 - Len(todo))]
    /\ Len(todo) < 19 => BaseTables \subseteq tables
    /\ FitsSoFar(Len(todo), dir, Input("p1"))

MeasureInv ==
    /\ ~clean => quiet = 0
    /\ running = "single" => ~clean
    /\ running = "all" /\ clean => OnSchedule
    /\ MeasuredThisRun

LEMMA MeasureInit == PipelineInit => MeasureInv
BY DEF PipelineInit, MeasureInv, MeasuredThisRun

LEMMA InputSame ==
    ASSUME tables' = tables, session' = session, robot' = robot
    PROVE  Input("p1")' = Input("p1")
BY DEF Input

LEMMA AllMeasured ==
    ASSUME FitsSoFar(0, dir, Input("p1"))
    PROVE  \A f \in Measured : dir[f] = Made(f, dir, Input("p1"))
BY DEF FitsSoFar, Fits, Measured

\* From the fifteenth phase on, a phase reads what one begun later would.
LEMMA MeasuringInput ==
    ASSUME BaseTables \subseteq tables,
           NEW p \in {"abox", "quality", "sparql", "test", "report"}
    PROVE  Input(p) = Input("p1") /\ Provisioned(p, tables) = tables
<1>1. Provisioned(p, tables) = tables
  BY DEF Provisioned
<1>2. Provisioned("p1", tables) = tables
  BY DEF Provisioned
<1> QED BY <1>1, <1>2 DEF Input

LEMMA ScheduleRun ==
    ASSUME PipeInv, OnSchedule, RunPhase
    PROVE  OnSchedule'
<1> DEFINE p == Head(todo)
           n == Len(todo)
           in == Input("p1")
<1>1. todo \in Seq(DOMAIN Writes) /\ todo # <<>> /\ DOMAIN dir = Files
  BY DEF RunPhase, PipeInv, PipelineTypeOK
<1>2. /\ n \in 1 .. 19
      /\ p = todo[1]
      /\ Len(Tail(todo)) = n - 1
      /\ \A k \in 1 .. n - 1 : Tail(todo)[k] = todo[k + 1]
  <2>1. n \in Nat /\ n # 0
    BY <1>1, EmptySeq
  <2>2. n <= 19
    BY DEF OnSchedule
  <2>3. p = todo[1] /\ Tail(todo) \in Seq(DOMAIN Writes) /\ Len(Tail(todo)) = n - 1
        /\ \A k \in 1 .. Len(Tail(todo)) : Tail(todo)[k] = todo[k + 1]
    BY <1>1, HeadTailProperties
  <2> HIDE DEF n, p
  <2> QED BY <2>1, <2>2, <2>3
<1>3. /\ todo' = Tail(todo)
      /\ tables' = Provisioned(p, tables)
      /\ dir' = After(p, dir, Input(p))
      /\ session' = session /\ robot' = robot
  BY DEF RunPhase, Input
<1>4. p = All[20 - n]
  BY <1>2 DEF OnSchedule
<1>5. Len(todo') = n - 1
  BY <1>2, <1>3
<1>6. \A k \in 1 .. Len(todo') : todo'[k] = All[k + (19 - Len(todo'))]
  <2>1. TAKE k \in 1 .. Len(todo')
  <2>2. k \in 1 .. n - 1 /\ k + 1 \in 1 .. n
        /\ (k + 1) + (19 - n) = k + (19 - Len(todo'))
    BY <1>2, <1>5
  <2>3. todo'[k] = todo[k + 1]
    BY <1>2, <1>3, <2>2
  <2>4. todo[k + 1] = All[(k + 1) + (19 - n)]
    BY <2>2 DEF OnSchedule
  <2> QED BY <2>2, <2>3, <2>4
<1>7. BaseTables \subseteq tables'
  <2>1. CASE n = 19
    <3>1. p = "p1"
      BY <1>4, <2>1 DEF All
    <3>2. tables' = Provisioned("p1", tables)
      BY <1>3, <3>1
    <3> QED BY <3>2 DEF Provisioned
  <2>2. CASE n # 19
    <3>1. n < 19 => BaseTables \subseteq tables
      BY DEF OnSchedule
    <3>2. BaseTables \subseteq tables
      <4> HIDE DEF n
      <4> QED BY <1>2, <2>2, <3>1
    <3>3. tables \subseteq tables'
      BY <1>3 DEF Provisioned
    <3> QED BY <3>2, <3>3
  <2> QED BY <2>1, <2>2
<1>8. FitsSoFar(Len(todo'), dir', Input("p1")')
  <2>1. CASE n > 5
    BY <1>2, <1>5, <2>1 DEF FitsSoFar
  <2>2. CASE n <= 5
    <3>1. BaseTables \subseteq tables /\ FitsSoFar(n, dir, in)
      BY <1>2, <2>2 DEF OnSchedule
    <3>2. /\ n = 5 => p = "abox"
          /\ n = 4 => p = "quality"
          /\ n = 3 => p = "sparql"
          /\ n = 2 => p = "test"
          /\ n = 1 => p = "report"
      <4>1. All[15] = "abox" /\ All[16] = "quality" /\ All[17] = "sparql"
            /\ All[18] = "test" /\ All[19] = "report"
        BY DEF All
      <4> HIDE DEF p, n
      <4> QED BY <1>4, <4>1
    <3>a. n = 1 \/ n = 2 \/ n = 3 \/ n = 4 \/ n = 5
      <4> HIDE DEF n
      <4> QED BY <1>2, <2>2
    <3>3. p \in {"abox", "quality", "sparql", "test", "report"}
      <4> HIDE DEF p, n
      <4> QED BY <3>2, <3>a
    <3>4. Input(p) = in /\ tables' = tables
      BY <1>3, <3>1, <3>3, MeasuringInput
    <3>5. Input("p1")' = in /\ dir' = After(p, dir, in)
      BY <1>3, <3>4, InputSame
    <3> HIDE DEF p, n, in
    <3>6. FitsSoFar(n - 1, After(p, dir, in), in)
      <4>1. CASE n = 5
        BY <1>1, <3>2, <4>1, AboxFits
      <4>2. CASE n = 4
        BY <1>1, <3>1, <3>2, <4>2, QualityFits
      <4>3. CASE n = 3
        BY <1>1, <3>1, <3>2, <4>3, SparqlFits
      <4>4. CASE n = 2
        BY <1>1, <3>1, <3>2, <4>4, TestFits
      <4>5. CASE n = 1
        BY <1>1, <3>1, <3>2, <4>5, ReportFits
      <4> QED BY <3>a, <4>1, <4>2, <4>3, <4>4, <4>5
    <3> QED BY <1>5, <3>5, <3>6 DEF n
  <2>3. n > 5 \/ n <= 5
    <3> HIDE DEF n
    <3> QED BY <1>2
  <2> HIDE DEF n, p, in
  <2> QED BY <2>1, <2>2, <2>3
<1>9. Len(todo') <= 19
  <2> HIDE DEF n
  <2> QED BY <1>2, <1>5
<1> QED BY <1>6, <1>7, <1>8, <1>9 DEF OnSchedule

LEMMA MeasureStep ==
    PipeInv /\ MeasureInv /\ [PipelineNext]_pipelineVars => MeasureInv'
<1> SUFFICES ASSUME PipeInv, MeasureInv, [PipelineNext]_pipelineVars
             PROVE  MeasureInv'
  OBVIOUS
<1>1. CASE Upset
  <2>1. quiet' = 0
    BY <1>1 DEF Upset
  <2>2. ~clean'
    BY <1>1 DEF Upset
  <2>3. ~(quiet' > 0)
    BY <2>1
  <2> QED BY <2>1, <2>2, <2>3 DEF MeasureInv, MeasuredThisRun
<1>2. CASE StartAll
  <2>1. /\ running' = "all" /\ clean' /\ todo' = All
        /\ Len(All) = 19
    BY <1>2, AllArePhases DEF StartAll
  <2>2. OnSchedule'
    <3>1. Len(todo') = 19
      BY <2>1
    <3>2. \A k \in 1 .. Len(todo') : todo'[k] = All[k + (19 - Len(todo'))]
      BY <2>1
    <3>3. FitsSoFar(Len(todo'), dir', Input("p1")')
      BY <3>1 DEF FitsSoFar
    <3> QED BY <3>1, <3>2, <3>3 DEF OnSchedule
  <2> QED BY <2>1, <2>2 DEF MeasureInv, MeasuredThisRun
<1>3. CASE RunPhase
  <2>1. running' = running /\ clean' = clean /\ quiet' = quiet /\ running # "no"
    BY <1>3 DEF RunPhase, PipeInv
  <2>2. OnSchedule => OnSchedule'
    BY <1>3, ScheduleRun
  <2> QED BY <2>1, <2>2 DEF MeasureInv, MeasuredThisRun
<1>4. CASE Finish
  <2>1. /\ running' = "no" /\ clean' = clean /\ dir' = dir
        /\ tables' = tables /\ session' = session /\ robot' = robot
        /\ todo = <<>>
    BY <1>4 DEF Finish, world
  <2>2. Input("p1")' = Input("p1")
    BY <2>1, InputSame
  <2>3. CASE running = "all" /\ clean
    <3>1. Len(todo) = 0 /\ OnSchedule
      BY <2>1, <2>3 DEF MeasureInv
    <3>2. \A f \in Measured : dir[f] = Made(f, dir, Input("p1"))
      BY <3>1, AllMeasured DEF OnSchedule
    <3> QED BY <2>1, <2>2, <2>3, <3>2 DEF MeasureInv, MeasuredThisRun
  <2>4. CASE ~(running = "all" /\ clean)
    <3>1. ~clean
      BY <1>4, <2>4 DEF Finish, PipeInv, PipelineTypeOK, MeasureInv
    <3>2. quiet = 0 /\ quiet' = quiet
      BY <1>4, <2>4, <3>1 DEF Finish, MeasureInv
    <3> QED BY <2>1, <3>1, <3>2 DEF MeasureInv, MeasuredThisRun
  <2> QED BY <2>3, <2>4
<1>5. CASE UNCHANGED pipelineVars
  <2>1. Input("p1")' = Input("p1")
    BY <1>5, InputSame DEF pipelineVars
  <2> QED BY <1>5, <2>1 DEF pipelineVars, MeasureInv, MeasuredThisRun, OnSchedule
<1>6. PipelineNext => Upset \/ StartAll \/ RunPhase \/ Finish
  BY DEF PipelineNext, StartSingle, Die, EditDatabase, EditSession, EditRobot,
         ApplyProposal
<1> QED BY <1>1, <1>2, <1>3, <1>4, <1>5, <1>6

\* Between two runs, with a full one behind that nothing disturbed, every
\* measurement and report is of the files that lie beside it.
THEOREM MeasuredThisRunHolds == PipelineSpec => []MeasuredThisRun
<1>1. MeasureInv => MeasuredThisRun
  BY DEF MeasureInv
<1> QED BY <1>1, PipeInit, PipeStep, MeasureInit, MeasureStep, PTL
        DEF PipelineSpec

-----------------------------------------------------------------------------
(***************************************************************************)
(* That history does not show.  A settled file holds what the inputs alone *)
(* say it does, but for tombstones, which come and go; what is made from   *)
(* settled files is settled.  In the order of All the first run settles    *)
(* the files the code is the only source of, the second all that is made   *)
(* from files, and the third the scorecard, which takes over what the last *)
(* one said, with the two reports on it.                                   *)
(***************************************************************************)

\* Contents but for tombstones, and what a reader without rules sees of them.
Lasting(c) == {a \in c : ~Gone(a)}
Shown(c, in) ==
    {a \in Lasting(c) :
        in.rules = {} => a[1] # "rule" /\ a \notin Own("inferred-sparql.ttl")}

\* A file is there, and holds x but for tombstones, or as shown.
Keeps(c, x) == c # Missing /\ Lasting(c) = x
Shows(c, in, x) == c # Missing /\ Shown(c, in) = x

\* Contents that are shown whole.
Steady(x) ==
    \A a \in x : ~Gone(a) /\ a[1] # "rule" /\ a \notin Own("inferred-sparql.ttl")

(* What the files hold once inputs no longer change.                       *)
Terms(in) ==
    {Base} \cup TableAtoms(in.tables) \cup {<<"class", c>> : c \in in.classes}
OntologyText(in) == Own("enterprise.ttl") \cup Terms(in)
GroundText(in) == OntologyText(in) \cup Own("events.ttl") \cup Own("provenance.ttl")
ClassTree(in) ==
    {<<IF in.robot \in {"ok", "fails"} THEN "export" ELSE "grep", a>> :
        a \in Terms(in)}
ShaclText(in) == RuleAtoms(in.rules \cap ShaclRules)
SparqlText(in) == RuleAtoms(in.rules \cap SparqlRules) \cup RuleAtoms(in.causal)
CombinedText(in) ==
    Own("enterprise-shapes.ttl") \cup TableAtoms(in.tables)
        \cup Own("agent-gate.ttl") \cup Own("conflict-resolution-shapes.ttl")
        \cup Own("drift-shapes.ttl") \cup ShaclText(in)
ClosureText(in) == Own("enterprise-inferred.ttl") \cup GroundText(in)
ShaclDerived(in) == Own("inferred-shacl.ttl") \cup ShaclText(in)
SparqlDerived(in) ==
    IF in.rules = {} \/ SparqlText(in) = {} THEN {}
    ELSE Own("inferred-sparql.ttl") \cup SparqlText(in)
DerivedText(in) == ClosureText(in) \cup ShaclDerived(in) \cup SparqlDerived(in)
AlignmentText(in) ==
    Own("alignment.ttl") \cup GroundText(in)
        \cup Own("drift.ttl") \cup Own("tmf-sid-hierarchy.ttl")
InstancesText(in) == Own("instances.ttl") \cup GroundText(in)
AuthoredText(in) == GroundText(in) \cup Own("dimensions.ttl") \cup AlignmentText(in)
TestedText(in) == GroundText(in) \cup Own("dimensions.ttl") \cup InstancesText(in)
ScoredText(in) ==
    AuthoredText(in) \cup TestedText(in)
        \cup Own("enterprise-shapes.ttl") \cup Own("agent-gate.ttl")
        \cup Own("enterprise-skos.ttl") \cup Own("logical_physical_map.csv")
        \cup Own("enterprise-context.json") \cup Own("mcp-tool-definitions.json")
        \cup Own("tmf-context.json")
ScoreText(in) == ScoredText(in) \cup {<<"before", a>> : a \in ScoredText(in)}
ReportText(in) ==
    ScoreText(in) \cup Own("semantic_loss_report.csv")
        \cup Own("orphan_candidates.csv") \cup Own("tmf_cq_test_results.csv")
        \cup Own("tmf_api_coverage.csv")
SummaryText(in) == CombinedText(in) \cup TestedText(in) \cup ScoreText(in)

\* What classifies.
Reasons(in) == in.robot \in {"ok", "noexport"}

\* File f with contents c has settled: nothing but inputs shows in it.
Settled(f, c, in) ==
    IF f \in FromConstants THEN c = Own(f)
    ELSE IF f \in FromTables THEN c = Own(f) \cup TableAtoms(in.tables)
    ELSE CASE f = "enterprise.ttl" -> Keeps(c, OntologyText(in))
           [] f = "profile_recommendation.md" -> Keeps(c, OntologyText(in))
           [] f = "enterprise-classified.ttl" ->
                  Reasons(in) => Keeps(c, OntologyText(in))
           [] f = "hierarchy-snapshot.tsv" -> Reasons(in) => c = ClassTree(in)
           [] f = "rules.ttl" ->
                  in.rules # {} =>
                      c = IF in.rules \cap ShaclRules = {} THEN Missing
                          ELSE ShaclText(in)
           [] f = "sparql_rules" ->
                  /\ in.rules # {} => c = SparqlText(in)
                  /\ in.causal # {} => c # Missing /\ RuleAtoms(in.causal) \subseteq c
           [] f = "_combined.ttl" -> Shows(c, in, CombinedText(in))
           [] f = "enterprise-inferred.ttl" -> Keeps(c, ClosureText(in))
           [] f = "inferred-shacl.ttl" -> Shows(c, in, ShaclDerived(in))
           [] f = "inferred-sparql.ttl" ->
                  SparqlText(in) # {} => Shows(c, in, SparqlDerived(in))
           [] f = "materialised.ttl" -> Shows(c, in, DerivedText(in))
           [] f = "materialised-lineage.ttl" -> Shows(c, in, DerivedText(in))
           [] f = "materialisation_report.md" -> Shows(c, in, DerivedText(in))
           [] f = "alignment.ttl" -> Keeps(c, AlignmentText(in))
           [] f = "instances.ttl" -> Keeps(c, InstancesText(in))
           [] f = "ontology_quality.csv" -> Keeps(c, AuthoredText(in))
           [] f = "sparql_cq_test_results.csv" -> Keeps(c, TestedText(in))
           [] f = "cq_test_results.csv" -> Keeps(c, GroundText(in))
           [] f = "governance_scorecard.csv" -> Keeps(c, ScoreText(in))
           [] f = "toolkit_report.html" -> Keeps(c, ReportText(in))
           [] f = "compliance_summary.html" -> Shows(c, in, SummaryText(in))
           [] OTHER -> TRUE

\* The scorecard, but for what it takes over from the one before.
Scored(c, in) ==
    c # Missing /\ {a \in Lasting(c) : a[1] # "before"} = ScoredText(in)

\* Folders of rules hold rules, and what constructs derive is of rules.
RuleFiles(d) ==
    /\ \A f \in {"rules.ttl", "sparql_rules"} :
          d[f] # Missing => \A a \in d[f] : a[1] = "rule"
    /\ d["inferred-sparql.ttl"] # Missing =>
          \A a \in d["inferred-sparql.ttl"] :
              a[1] = "rule" \/ a \in Own("inferred-sparql.ttl")


(* What lasts and what is shown of contents. *)

LEMMA LastingJoin ==
    ASSUME NEW x, NEW y
    PROVE  Lasting(x \cup y) = Lasting(x) \cup Lasting(y)
BY DEF Lasting

LEMMA ShownJoin ==
    ASSUME NEW x, NEW y, NEW in
    PROVE  Shown(x \cup y, in) = Shown(x, in) \cup Shown(y, in)
BY LastingJoin DEF Shown

LEMMA SteadyWhole ==
    ASSUME NEW x, NEW in, Steady(x)
    PROVE  Lasting(x) = x /\ Shown(x, in) = x
BY DEF Steady, Lasting, Shown

LEMMA SteadyJoin ==
    ASSUME NEW x, NEW y, Steady(x), Steady(y)
    PROVE  Steady(x \cup y)
BY DEF Steady

\* What lasts whole is shown whole.
LEMMA KeptShown ==
    ASSUME NEW c, NEW x, NEW in, Lasting(c) = x, Steady(x)
    PROVE  Shown(c, in) = x
BY DEF Steady, Shown

LEMMA SteadyOwn ==
    ASSUME NEW f \in Files, f # "inferred-sparql.ttl"
    PROVE  Steady(Own(f))
<1>1. ASSUME NEW a \in Own(f) PROVE ~Gone(a) /\ a[1] # "rule"
  <2>1. a = <<"from", f>>
    BY DEF Own
  <2>2. a[1] = "from"
    BY <2>1
  <2> QED BY <2>2 DEF Gone
<1>2. Own(f) \cap Own("inferred-sparql.ttl") = {}
  BY DEF Own
<1> QED BY <1>1, <1>2 DEF Steady

LEMMA SteadyTables ==
    ASSUME NEW ts
    PROVE  Steady(TableAtoms(ts))
<1>1. ASSUME NEW a \in TableAtoms(ts) PROVE a[1] = "table"
  BY DEF TableAtoms
<1>2. \A a \in Own("inferred-sparql.ttl") : a[1] = "from"
  BY DEF Own
<1> QED BY <1>1, <1>2 DEF Steady, Gone

LEMMA SteadyTerms ==
    ASSUME NEW in
    PROVE  Steady(Terms(in))
<1>1. \A a \in Own("inferred-sparql.ttl") : a[1] = "from"
  BY DEF Own
<1>2. \A a \in {<<"class", c>> : c \in in.classes} : a[1] = "class"
  OBVIOUS
<1>3. Base[1] = "base"
  BY DEF Base
<1>4. Steady({Base})
  BY <1>1, <1>3 DEF Steady, Gone
<1>5. Steady({<<"class", c>> : c \in in.classes})
  BY <1>1, <1>2 DEF Steady, Gone
<1> DEFINE x == {<<"class", c>> : c \in in.classes}
           y == {Base}
<1> HIDE DEF x, y
<1>6. Steady(x) /\ Steady(y) /\ Terms(in) = y \cup TableAtoms(in.tables) \cup x
  BY <1>4, <1>5 DEF x, y, Terms
<1> QED BY <1>6, SteadyTables, SteadyJoin

LEMMA SteadyTexts ==
    ASSUME NEW in
    PROVE  /\ Steady(OntologyText(in))
           /\ Steady(GroundText(in))
           /\ Steady(ClosureText(in))
           /\ Steady(AlignmentText(in))
           /\ Steady(InstancesText(in))
           /\ Steady(AuthoredText(in))
           /\ Steady(TestedText(in))
           /\ Steady(ScoredText(in))
<1> DEFINE S == {"enterprise.ttl", "events.ttl", "provenance.ttl",
                 "enterprise-inferred.ttl", "alignment.ttl", "drift.ttl",
                 "tmf-sid-hierarchy.ttl", "instances.ttl", "dimensions.ttl",
                 "enterprise-shapes.ttl", "agent-gate.ttl",
                 "enterprise-skos.ttl", "logical_physical_map.csv",
                 "enterprise-context.json", "mcp-tool-definitions.json",
                 "tmf-context.json"}
<1>1. S \subseteq Files /\ "inferred-sparql.ttl" \notin S
  BY ConstantFileNames, TableFileNames, DerivedFileNames DEF Files
<1>2. \A f \in S : Steady(Own(f))
  BY <1>1, SteadyOwn
<1>3. Steady(OntologyText(in))
  BY <1>2, SteadyTerms, SteadyJoin DEF OntologyText
<1>4. Steady(GroundText(in))
  BY <1>2, <1>3, SteadyJoin DEF GroundText
<1>5. Steady(ClosureText(in)) /\ Steady(InstancesText(in))
  BY <1>2, <1>4, SteadyJoin DEF ClosureText, InstancesText
<1>6. Steady(AlignmentText(in))
  BY <1>2, <1>4, SteadyJoin DEF AlignmentText
<1>7. Steady(AuthoredText(in)) /\ Steady(TestedText(in))
  BY <1>2, <1>4, <1>5, <1>6, SteadyJoin DEF AuthoredText, TestedText
<1>8. Steady(ScoredText(in))
  BY <1>2, <1>7, SteadyJoin DEF ScoredText
<1> QED BY <1>3, <1>4, <1>5, <1>6, <1>7, <1>8

\* Contents have no mark of an earlier scorecard but a scorecard's.
LEMMA ScoredNotBefore ==
    ASSUME NEW in
    PROVE  \A a \in ScoredText(in) : a[1] # "before"
<1>1. \A f : \A a \in Own(f) : a[1] # "before"
  BY DEF Own
<1>2. \A a \in TableAtoms(in.tables) : a[1] # "before"
  BY DEF TableAtoms
<1>3. \A a \in Terms(in) : a[1] # "before"
  BY <1>2 DEF Terms, Base
<1>4. \A a \in GroundText(in) : a[1] # "before"
  BY <1>1, <1>3 DEF GroundText, OntologyText
<1>5. \A a \in AuthoredText(in) \cup TestedText(in) : a[1] # "before"
  BY <1>1, <1>4 DEF AuthoredText, TestedText, AlignmentText, InstancesText
<1> QED BY <1>1, <1>5 DEF ScoredText

LEMMA SteadyScore ==
    ASSUME NEW in
    PROVE  Steady(ScoreText(in)) /\ Steady(ReportText(in))
<1> DEFINE x == {<<"before", a>> : a \in ScoredText(in)}
<1>1. \A a \in ScoredText(in) : a[1] # "gone"
  BY SteadyTexts DEF Steady, Gone
<1>2. ASSUME NEW b \in x PROVE b[1] = "before" /\ b[2][1] # "gone"
  BY <1>1
<1>3. \A a \in Own("inferred-sparql.ttl") : a[1] = "from"
  BY DEF Own
<1>4. Steady(x)
  <2> HIDE DEF x
  <2> QED BY <1>2, <1>3 DEF Steady, Gone
<1>5. Steady(ScoreText(in))
  <2>1. ScoreText(in) = ScoredText(in) \cup x
    BY DEF ScoreText
  <2> HIDE DEF x
  <2> QED BY <1>4, <2>1, SteadyTexts, SteadyJoin
<1>6. \A f \in {"semantic_loss_report.csv", "orphan_candidates.csv",
               "tmf_cq_test_results.csv", "tmf_api_coverage.csv"} : Steady(Own(f))
  BY TableFileNames, SteadyOwn DEF Files
<1>7. Steady(ReportText(in))
  BY <1>5, <1>6, SteadyJoin DEF ReportText
<1> QED BY <1>5, <1>7

(* What is read from several files. *)

LEMMA ReadsJoin ==
    ASSUME NEW d, NEW fs, NEW gs
    PROVE  Reads(d, fs \cup gs) = Reads(d, fs) \cup Reads(d, gs)
BY DEF Reads, Present

\* Nothing read together looks like a file that does not exist.
LEMMA ReadsThere ==
    ASSUME NEW d, NEW fs
    PROVE  Reads(d, fs) # Missing
<1> SUFFICES ASSUME Reads(d, fs) = Missing PROVE FALSE
  OBVIOUS
<1>1. \A f \in Present(d, fs) : d[f] \subseteq Missing /\ d[f] # Missing
  BY DEF Reads, Present
<1>2. \A f \in Present(d, fs) : d[f] = {}
  BY <1>1 DEF Missing
<1>3. Reads(d, fs) = {}
  BY <1>2 DEF Reads
<1> QED BY <1>3 DEF Missing

\* A file with its own mark is there.
LEMMA MarkedThere ==
    ASSUME NEW f, NEW x
    PROVE  Own(f) \cup x # Missing /\ Own(f) # Missing
<1>1. <<"from", f>> # <<>>
  OBVIOUS
<1>2. <<"from", f>> \notin Missing
  BY <1>1 DEF Missing
<1>3. <<"from", f>> \in Own(f)
  BY DEF Own
<1> QED BY <1>2, <1>3

(* What each generator makes of settled files. *)

DerivedFiles ==
    {"enterprise.ttl", "profile_recommendation.md",
     "hierarchy-snapshot-prev.tsv", "enterprise-classified.ttl",
     "hierarchy-snapshot.tsv", "rules.ttl", "sparql_rules", "_combined.ttl",
     "instances.ttl", "ontology_quality.csv", "sparql_cq_test_results.csv",
     "cq_test_results.csv", "governance_scorecard.csv", "toolkit_report.html",
     "compliance_summary.html", "enterprise-inferred.ttl",
     "inferred-shacl.ttl", "inferred-sparql.ttl", "materialised.ttl",
     "materialised-lineage.ttl", "materialisation_report.md", "alignment.ttl",
     "master.ttl", "modules.json"}

LEMMA DerivedApart ==
    \A f \in DerivedFiles : f \notin FromConstants /\ f \notin FromTables
BY ConstantFileNames, TableFileNames DEF DerivedFiles

LEMMA SettledConstants ==
    ASSUME NEW f \in FromConstants, NEW c, NEW in
    PROVE  /\ Settled(f, c, in) <=> c = Own(f)
           /\ Settled(f, c, in) => Keeps(c, Own(f))
<1>1. Settled(f, c, in) <=> c = Own(f)
  BY DEF Settled
<1>2. f \in Files /\ f # "inferred-sparql.ttl"
  BY DerivedApart DEF Files, DerivedFiles
<1>3. Keeps(Own(f), Own(f))
  BY <1>2, SteadyOwn, SteadyWhole, MarkedThere DEF Keeps
<1> QED BY <1>1, <1>3

LEMMA SettledTables ==
    ASSUME NEW f \in FromTables, NEW c, NEW in
    PROVE  /\ Settled(f, c, in) <=> c = Own(f) \cup TableAtoms(in.tables)
           /\ Settled(f, c, in) => Keeps(c, Own(f) \cup TableAtoms(in.tables))
<1>a. f \notin FromConstants
  BY ConstantFileNames, TableFileNames
<1>1. Settled(f, c, in) <=> c = Own(f) \cup TableAtoms(in.tables)
  BY <1>a DEF Settled
<1>2. f \in Files /\ f # "inferred-sparql.ttl"
  BY DerivedApart DEF Files, DerivedFiles
<1>3. Keeps(Own(f) \cup TableAtoms(in.tables), Own(f) \cup TableAtoms(in.tables))
  <2>1. Steady(Own(f) \cup TableAtoms(in.tables))
    BY <1>2, SteadyOwn, SteadyTables, SteadyJoin
  <2>2. Own(f) \cup TableAtoms(in.tables) # Missing
    BY MarkedThere
  <2> DEFINE x == Own(f) \cup TableAtoms(in.tables)
  <2> HIDE DEF x
  <2>3. Steady(x) /\ x # Missing
    BY <2>1, <2>2 DEF x
  <2>4. Keeps(x, x)
    BY <2>3, SteadyWhole DEF Keeps
  <2> QED BY <2>4 DEF x
<1>4. ASSUME Settled(f, c, in) PROVE Keeps(c, Own(f) \cup TableAtoms(in.tables))
  <2>1. c = Own(f) \cup TableAtoms(in.tables)
    BY <1>1, <1>4
  <2> QED BY <1>3, <2>1
<1> QED BY <1>1, <1>4

LEMMA SettledDerived ==
    ASSUME NEW c, NEW in
    PROVE  /\ Settled("enterprise.ttl", c, in) <=> Keeps(c, OntologyText(in))
           /\ Settled("profile_recommendation.md", c, in) <=> Keeps(c, OntologyText(in))
           /\ Settled("enterprise-classified.ttl", c, in)
                 <=> (Reasons(in) => Keeps(c, OntologyText(in)))
           /\ Settled("hierarchy-snapshot.tsv", c, in)
                 <=> (Reasons(in) => c = ClassTree(in))
           /\ Settled("rules.ttl", c, in)
                 <=> (in.rules # {} =>
                        c = IF in.rules \cap ShaclRules = {} THEN Missing
                            ELSE ShaclText(in))
           /\ Settled("sparql_rules", c, in)
                 <=> /\ in.rules # {} => c = SparqlText(in)
                     /\ in.causal # {} => c # Missing /\ RuleAtoms(in.causal) \subseteq c
           /\ Settled("_combined.ttl", c, in) <=> Shows(c, in, CombinedText(in))
           /\ Settled("enterprise-inferred.ttl", c, in) <=> Keeps(c, ClosureText(in))
           /\ Settled("inferred-shacl.ttl", c, in) <=> Shows(c, in, ShaclDerived(in))
           /\ Settled("inferred-sparql.ttl", c, in)
                 <=> (SparqlText(in) # {} => Shows(c, in, SparqlDerived(in)))
           /\ Settled("materialised.ttl", c, in) <=> Shows(c, in, DerivedText(in))
           /\ Settled("materialised-lineage.ttl", c, in) <=> Shows(c, in, DerivedText(in))
           /\ Settled("materialisation_report.md", c, in)
                 <=> Shows(c, in, DerivedText(in))
           /\ Settled("alignment.ttl", c, in) <=> Keeps(c, AlignmentText(in))
           /\ Settled("instances.ttl", c, in) <=> Keeps(c, InstancesText(in))
           /\ Settled("ontology_quality.csv", c, in) <=> Keeps(c, AuthoredText(in))
           /\ Settled("sparql_cq_test_results.csv", c, in) <=> Keeps(c, TestedText(in))
           /\ Settled("cq_test_results.csv", c, in) <=> Keeps(c, GroundText(in))
           /\ Settled("governance_scorecard.csv", c, in) <=> Keeps(c, ScoreText(in))
           /\ Settled("toolkit_report.html", c, in) <=> Keeps(c, ReportText(in))
           /\ Settled("compliance_summary.html", c, in) <=> Shows(c, in, SummaryText(in))
           /\ \A f \in {"hierarchy-snapshot-prev.tsv", "master.ttl", "modules.json"} :
                 Settled(f, c, in)
<1>1. \A f \in DerivedFiles : f \notin FromConstants /\ f \notin FromTables
  BY DerivedApart
<1> HIDE DEF Keeps, Shows
<1> QED BY <1>1 DEF Settled, DerivedFiles

LEMMA KeepsRead ==
    ASSUME NEW d, NEW f, NEW x, Keeps(d[f], x)
    PROVE  Lasting(Reads(d, {f})) = x
BY ReadOne DEF Keeps

LEMMA ShowsRead ==
    ASSUME NEW d, NEW f, NEW in, NEW x, Shows(d[f], in, x)
    PROVE  Shown(Reads(d, {f}), in) = x
BY ReadOne DEF Shows

LEMMA ReadsKept ==
    ASSUME NEW d, NEW fs, NEW gs, NEW x, NEW y,
           Lasting(Reads(d, fs)) = x, Lasting(Reads(d, gs)) = y
    PROVE  Lasting(Reads(d, fs \cup gs)) = x \cup y
BY ReadsJoin, LastingJoin

LEMMA ReadsShown ==
    ASSUME NEW d, NEW fs, NEW gs, NEW in, NEW x, NEW y,
           Shown(Reads(d, fs), in) = x, Shown(Reads(d, gs), in) = y
    PROVE  Shown(Reads(d, fs \cup gs), in) = x \cup y
BY ReadsJoin, ShownJoin

LEMMA GroundRead ==
    ASSUME NEW d, NEW in, \A g \in Ground : Settled(g, d[g], in)
    PROVE  /\ Lasting(Reads(d, Ground)) = GroundText(in)
           /\ d["enterprise.ttl"] # Missing
<1> DEFINE e == "enterprise.ttl"
           v == "events.ttl"
           p == "provenance.ttl"
<1>1. Keeps(d[e], OntologyText(in))
  BY SettledDerived DEF Ground
<1>2. Keeps(d[v], Own(v) \cup TableAtoms(in.tables))
  <2>1. v \in FromTables /\ v \in Ground
    BY TableFileNames DEF Ground
  <2> QED BY <2>1, SettledTables
<1>3. Keeps(d[p], Own(p))
  <2>1. p \in FromConstants /\ p \in Ground
    BY ConstantFileNames DEF Ground
  <2> QED BY <2>1, SettledConstants
<1>4. Ground = {e} \cup ({v} \cup {p})
  BY DEF Ground
<1> HIDE DEF e, v, p
<1>5. Lasting(Reads(d, {v} \cup {p})) = (Own(v) \cup TableAtoms(in.tables)) \cup Own(p)
  <2>1. Lasting(Reads(d, {v})) = Own(v) \cup TableAtoms(in.tables)
    BY <1>2, KeepsRead
  <2>2. Lasting(Reads(d, {p})) = Own(p)
    BY <1>3, KeepsRead
  <2> QED BY <2>1, <2>2, ReadsKept
<1>a. Lasting(Reads(d, {e})) = OntologyText(in)
  BY <1>1, KeepsRead
<1>b. Lasting(Reads(d, {e} \cup ({v} \cup {p}))) =
        OntologyText(in) \cup ((Own(v) \cup TableAtoms(in.tables)) \cup Own(p))
  BY <1>5, <1>a, ReadsKept
<1>6. Lasting(Reads(d, Ground)) =
        OntologyText(in) \cup ((Own(v) \cup TableAtoms(in.tables)) \cup Own(p))
  BY <1>4, <1>b
<1>7. TableAtoms(in.tables) \subseteq OntologyText(in)
  BY DEF OntologyText, Terms
<1>8. OntologyText(in) \cup ((Own(v) \cup TableAtoms(in.tables)) \cup Own(p))
        = GroundText(in)
  BY <1>7 DEF GroundText, v, p
<1>9. d[e] # Missing
  BY <1>1 DEF Keeps
<1> QED BY <1>6, <1>8, <1>9 DEF e

LEMMA MadeApart ==
    ASSUME NEW f \in FromConstants \cup FromTables, NEW d, NEW in
    PROVE  /\ Settled(f, Made(f, d, in), in)
           /\ f \in FromConstants => Made(f, d, in) = Own(f)
<1>1. ~Skips(f, d, in)
  BY DerivedApart DEF Skips, DerivedFiles
<1>2. CASE f \in FromConstants
  BY <1>1, <1>2, SettledConstants DEF Made
<1>3. CASE f \in FromTables
  <2>1. f \notin FromConstants
    BY <1>3, ConstantFileNames, TableFileNames
  <2> QED BY <1>1, <1>3, <2>1, SettledTables DEF Made
<1> QED BY <1>2, <1>3

LEMMA MadeOntologySettled ==
    ASSUME NEW d, NEW in
    PROVE  Settled("enterprise.ttl", Made("enterprise.ttl", d, in), in)
<1> DEFINE e == "enterprise.ttl"
           cs == {<<"class", c>> : c \in in.classes}
           ts == Tombstones(Reads(d, {e}), in.tables)
<1>1. Ontology(d, in) = OntologyText(in) \cup ts
  BY DEF Ontology, OntologyText, Terms
<1>2. Lasting(ts) = {}
  <2>1. \A a \in ts : a[1] = "gone"
    BY DEF Tombstones
  <2> HIDE DEF ts
  <2> QED BY <2>1 DEF Lasting, Gone
<1>3. Lasting(OntologyText(in)) = OntologyText(in)
  BY SteadyTexts, SteadyWhole
<1> HIDE DEF ts
<1>4. Lasting(Ontology(d, in)) = OntologyText(in)
  BY <1>1, <1>2, <1>3, LastingJoin
<1>5. Ontology(d, in) # Missing
  <2>1. Ontology(d, in) = Own(e) \cup (Terms(in) \cup ts)
    BY <1>1 DEF OntologyText
  <2> QED BY <2>1, MarkedThere
<1> QED BY <1>4, <1>5, MadeOntology, SettledDerived DEF Keeps

LEMMA MadeProfileSettled ==
    ASSUME NEW d, NEW in, Settled("enterprise.ttl", d["enterprise.ttl"], in)
    PROVE  Settled("profile_recommendation.md",
                   Made("profile_recommendation.md", d, in), in)
<1> DEFINE f == "profile_recommendation.md"
<1>1. ~Skips(f, d, in) /\ f \notin FromConstants /\ f \notin FromTables
  BY DerivedApart DEF Skips, DerivedFiles
<1>2. Made(f, d, in) = Reads(d, {"enterprise.ttl"})
  BY <1>1 DEF Made, ProfileRecommendation
<1>3. Keeps(d["enterprise.ttl"], OntologyText(in))
  BY SettledDerived
<1>4. Keeps(Reads(d, {"enterprise.ttl"}), OntologyText(in))
  BY <1>3, KeepsRead, ReadsThere DEF Keeps
<1> QED BY <1>2, <1>4, SettledDerived

LEMMA MadeClassifiedSettled ==
    ASSUME NEW d, NEW in, Settled("enterprise.ttl", d["enterprise.ttl"], in)
    PROVE  Settled("enterprise-classified.ttl",
                   Made("enterprise-classified.ttl", d, in), in)
<1>1. Keeps(d["enterprise.ttl"], OntologyText(in))
  BY SettledDerived
<1>2. Reasons(in) => Classifies(d, in)
  BY <1>1 DEF Reasons, Classifies, Keeps
<1>3. Reasons(in) => Keeps(Made("enterprise-classified.ttl", d, in), OntologyText(in))
  BY <1>1, <1>2, MadeClassified
<1> QED BY <1>3, SettledDerived

\* Tombstones and marks are no classes.
LEMMA ClassesKept ==
    ASSUME NEW c, NEW in, Keeps(c, OntologyText(in))
    PROVE  ClassesIn(c) = Terms(in)
<1>1. ClassesIn(c) = ClassesIn(Lasting(c))
  BY DEF ClassesIn, Entities, Lasting, Gone
<1>2. ClassesIn(Own("enterprise.ttl")) = {}
  BY DEF ClassesIn, Entities, Own
<1>3. \A a \in Terms(in) : a[1] \in {"base", "table", "class"}
  BY DEF Terms, Base, TableAtoms
<1>4. ClassesIn(OntologyText(in)) = Terms(in)
  BY <1>2, <1>3 DEF ClassesIn, Entities, OntologyText
<1> QED BY <1>1, <1>4 DEF Keeps

LEMMA MadeSnapshotSettled ==
    ASSUME NEW d, NEW in,
           Settled("enterprise-classified.ttl", d["enterprise-classified.ttl"], in)
    PROVE  Settled("hierarchy-snapshot.tsv",
                   Made("hierarchy-snapshot.tsv", d, in), in)
<1> SUFFICES ASSUME Reasons(in)
             PROVE  Made("hierarchy-snapshot.tsv", d, in) = ClassTree(in)
  BY SettledDerived
<1>1. Keeps(d["enterprise-classified.ttl"], OntologyText(in))
  BY SettledDerived
<1>2. Made("hierarchy-snapshot.tsv", d, in) = Snapshot(d, in)
  BY <1>1, MadeSnapshot DEF Keeps
<1>3. ClassesIn(d["enterprise-classified.ttl"]) = Terms(in)
  BY <1>1, ClassesKept
<1> QED BY <1>2, <1>3 DEF Snapshot, ClassTree

(* The files of rules. *)

LEMMA RuleMarks ==
    ASSUME NEW rs, NEW in
    PROVE  /\ RuleAtoms(rs) # Missing
           /\ Lasting(RuleAtoms(rs)) = RuleAtoms(rs)
           /\ RulesIn(RuleAtoms(rs)) = RuleAtoms(rs)
           /\ in.rules # {} => Shown(RuleAtoms(rs), in) = RuleAtoms(rs)
<1>1. \A r \in rs : <<"rule", r>> # <<>>
  OBVIOUS
<1>2. <<>> \notin RuleAtoms(rs)
  BY <1>1 DEF RuleAtoms
<1>3. RuleAtoms(rs) # Missing
  BY <1>2 DEF Missing
<1>4. \A a \in RuleAtoms(rs) : a[1] = "rule"
  BY DEF RuleAtoms
<1>5. Lasting(RuleAtoms(rs)) = RuleAtoms(rs)
  BY <1>4 DEF Lasting, Gone
<1>6. RulesIn(RuleAtoms(rs)) = RuleAtoms(rs)
  BY <1>4 DEF RulesIn
<1> QED BY <1>3, <1>5, <1>6 DEF Shown

\* Without rules nothing of rules is shown.
LEMMA RulesHidden ==
    ASSUME NEW x, NEW in, in.rules = {},
           \A a \in x : a[1] = "rule" \/ a \in Own("inferred-sparql.ttl")
    PROVE  Shown(x, in) = {}
BY DEF Shown, Lasting

LEMMA NoRules ==
    ASSUME NEW in, in.rules = {}
    PROVE  ShaclText(in) = {} /\ SparqlDerived(in) = {}
BY DEF ShaclText, SparqlDerived, RuleAtoms

LEMMA SparqlMarks ==
    ASSUME NEW in
    PROVE  SparqlText(in) = RuleAtoms((in.rules \cap SparqlRules) \cup in.causal)
BY DEF SparqlText, RuleAtoms

LEMMA RulesRead ==
    ASSUME NEW d, NEW in, RuleFiles(d), Settled("rules.ttl", d["rules.ttl"], in)
    PROVE  Shown(Reads(d, {"rules.ttl"}), in) = ShaclText(in)
<1> DEFINE c == d["rules.ttl"]
<1>1. Reads(d, {"rules.ttl"}) = IF c = Missing THEN {} ELSE c
  BY ReadOne
<1>2. CASE in.rules = {}
  <2>1. \A a \in Reads(d, {"rules.ttl"}) : a[1] = "rule"
    BY <1>1 DEF RuleFiles
  <2> QED BY <1>2, <2>1, RulesHidden, NoRules
<1>3. CASE in.rules # {}
  <2>1. c = IF in.rules \cap ShaclRules = {} THEN Missing ELSE ShaclText(in)
    BY <1>3, SettledDerived
  <2>2. in.rules \cap ShaclRules = {} => ShaclText(in) = {}
    BY DEF ShaclText, RuleAtoms
  <2>3. Reads(d, {"rules.ttl"}) = ShaclText(in)
    BY <1>1, <2>1, <2>2, RuleMarks DEF ShaclText
  <2> QED BY <1>3, <2>3, RuleMarks DEF ShaclText
<1> QED BY <1>2, <1>3

LEMMA MadeRulesSettled ==
    ASSUME NEW d, NEW in, d["enterprise.ttl"] # Missing
    PROVE  /\ Settled("rules.ttl", Made("rules.ttl", d, in), in)
           /\ Settled("sparql_rules", Made("sparql_rules", d, in), in)
<1>1. ASSUME in.rules # {}
      PROVE  Made("rules.ttl", d, in) = IF in.rules \cap ShaclRules = {}
                                        THEN Missing ELSE ShaclText(in)
  <2> DEFINE f == "rules.ttl"
  <2>1. ~Skips(f, d, in)
    BY <1>1 DEF Skips
  <2>2. f \notin FromConstants /\ f \notin FromTables
    BY DerivedApart DEF DerivedFiles
  <2>3. Made(f, d, in) = ShaclFile(d, in)
    BY <2>1, <2>2 DEF Made
  <2> QED BY <1>1, <2>3 DEF ShaclFile, ShaclText
<1>2. Settled("rules.ttl", Made("rules.ttl", d, in), in)
  BY <1>1, SettledDerived
<1>3. ASSUME in.rules # {} \/ in.causal # {}
      PROVE  Made("sparql_rules", d, in) = SparqlFolder(d, in)
  <2> DEFINE f == "sparql_rules"
  <2>1. ~Skips(f, d, in)
    BY <1>3 DEF Skips
  <2>2. f \notin FromConstants /\ f \notin FromTables
    BY DerivedApart DEF DerivedFiles
  <2> QED BY <2>1, <2>2 DEF Made
<1>4. ASSUME in.rules # {}
      PROVE  SparqlFolder(d, in) = SparqlText(in)
  <2>1. CASE in.causal = {}
    <3>1. RuleAtoms(in.causal) = {}
      BY <2>1 DEF RuleAtoms
    <3> QED BY <1>4, <2>1, <3>1 DEF SparqlFolder, SparqlText
  <2>2. CASE in.causal # {}
    <3>1. SparqlFolder(d, in) =
            RuleAtoms(in.causal) \cup RuleAtoms(in.rules \cap SparqlRules)
      BY <1>4, <2>2, RuleMarks DEF SparqlFolder
    <3> QED BY <3>1 DEF SparqlText
  <2> QED BY <2>1, <2>2
<1>5. ASSUME in.causal # {}
      PROVE  /\ SparqlFolder(d, in) # Missing
             /\ RuleAtoms(in.causal) \subseteq SparqlFolder(d, in)
  <2>1. RuleAtoms(in.causal) \subseteq SparqlFolder(d, in)
    BY <1>5 DEF SparqlFolder
  <2>2. PICK r \in in.causal : TRUE
    BY <1>5
  <2>3. <<"rule", r>> \in RuleAtoms(in.causal) /\ <<"rule", r>> # <<>>
    BY DEF RuleAtoms
  <2>4. <<"rule", r>> \notin Missing
    BY <2>3 DEF Missing
  <2> QED BY <2>1, <2>3, <2>4
<1>6. Settled("sparql_rules", Made("sparql_rules", d, in), in)
  BY <1>3, <1>4, <1>5, SettledDerived
<1> QED BY <1>2, <1>6

LEMMA KeptSteady ==
    ASSUME NEW d, NEW in, NEW f \in FromConstants \cup FromTables,
           Settled(f, d[f], in)
    PROVE  /\ d[f] # Missing
           /\ Shown(Reads(d, {f}), in) =
                 IF f \in FromConstants THEN Own(f)
                 ELSE Own(f) \cup TableAtoms(in.tables)
           /\ Lasting(Reads(d, {f})) =
                 IF f \in FromConstants THEN Own(f)
                 ELSE Own(f) \cup TableAtoms(in.tables)
<1> DEFINE x == IF f \in FromConstants THEN Own(f)
                ELSE Own(f) \cup TableAtoms(in.tables)
<1>1. Keeps(d[f], x)
  BY SettledConstants, SettledTables
<1>2. Steady(x)
  <2>1. f \in Files /\ f # "inferred-sparql.ttl"
    BY DerivedApart DEF Files, DerivedFiles
  <2> QED BY <2>1, SteadyOwn, SteadyTables, SteadyJoin
<1> HIDE DEF x
<1>3. Lasting(Reads(d, {f})) = x
  BY <1>1, KeepsRead
<1>4. Shown(Reads(d, {f}), in) = x
  BY <1>2, <1>3, KeptShown
<1>5. d[f] # Missing
  BY <1>1 DEF Keeps
<1> QED BY <1>3, <1>4, <1>5 DEF x

LEMMA MadeCombinedSettled ==
    ASSUME NEW d, NEW in, RuleFiles(d), d["enterprise.ttl"] # Missing,
           \A g \in Shapes : Settled(g, d[g], in)
    PROVE  Settled("_combined.ttl", Made("_combined.ttl", d, in), in)
           /\ Shown(Reads(d, Shapes), in) = CombinedText(in)
<1> DEFINE f == "_combined.ttl"
           e == "enterprise-shapes.ttl"
           a == "agent-gate.ttl"
           r == "rules.ttl"
           c == "conflict-resolution-shapes.ttl"
           v == "drift-shapes.ttl"
           t == Own(e) \cup TableAtoms(in.tables)
<1>1. {e, a, r, c, v} \subseteq Shapes
  BY DEF Shapes
<1>2. {a, c, v} \subseteq FromConstants /\ e \in FromTables /\ e \notin FromConstants
  BY ConstantFileNames, TableFileNames
<1>3. /\ Shown(Reads(d, {e}), in) = t
      /\ Shown(Reads(d, {a}), in) = Own(a)
      /\ Shown(Reads(d, {c}), in) = Own(c)
      /\ Shown(Reads(d, {v}), in) = Own(v)
      /\ d[a] # Missing
  BY <1>1, <1>2, KeptSteady
<1>4. Shown(Reads(d, {r}), in) = ShaclText(in)
  BY <1>1, RulesRead
<1>5. ~Skips(f, d, in)
  <2>1. a \in Present(d, Shapes \cup {f})
    BY <1>1, <1>3 DEF Present
  <2>2. Present(d, Shapes \cup {f}) # {}
    BY <2>1
  <2> QED BY <2>2 DEF Skips
<1>6. Made(f, d, in) = Reads(d, Shapes)
  <2>1. f \notin FromConstants /\ f \notin FromTables
    BY DerivedApart DEF DerivedFiles
  <2> QED BY <1>5, <2>1 DEF Made
<1>7. Shapes = {e} \cup ({a} \cup ({r} \cup ({c} \cup {v})))
  BY DEF Shapes
<1>8. CombinedText(in) = t \cup (Own(a) \cup (ShaclText(in) \cup (Own(c) \cup Own(v))))
  BY DEF CombinedText
<1> HIDE DEF e, a, r, c, v, t
<1>9. Shown(Reads(d, {c} \cup {v}), in) = Own(c) \cup Own(v)
  BY <1>3, ReadsShown
<1>10. Shown(Reads(d, {r} \cup ({c} \cup {v})), in) =
          ShaclText(in) \cup (Own(c) \cup Own(v))
  BY <1>4, <1>9, ReadsShown
<1>11. Shown(Reads(d, {a} \cup ({r} \cup ({c} \cup {v}))), in) =
          Own(a) \cup (ShaclText(in) \cup (Own(c) \cup Own(v)))
  BY <1>3, <1>10, ReadsShown
<1>12. Shown(Reads(d, Shapes), in) = CombinedText(in)
  BY <1>3, <1>7, <1>8, <1>11, ReadsShown
<1> HIDE DEF f
<1>13. Shows(Made(f, d, in), in, CombinedText(in))
  BY <1>6, <1>12, ReadsThere DEF Shows
<1> QED BY <1>12, <1>13, SettledDerived DEF f

LEMMA MadeClosureSettled ==
    ASSUME NEW d, NEW in, \A g \in Ground : Settled(g, d[g], in)
    PROVE  Settled("enterprise-inferred.ttl",
                   Made("enterprise-inferred.ttl", d, in), in)
<1> DEFINE f == "enterprise-inferred.ttl"
<1>1. ~Skips(f, d, in)
  BY GroundRead DEF Skips
<1>2. Made(f, d, in) = Own(f) \cup Reads(d, Ground)
  <2>1. f \notin FromConstants /\ f \notin FromTables
    BY DerivedApart DEF DerivedFiles
  <2> QED BY <1>1, <2>1 DEF Made
<1>3. Lasting(Own(f)) = Own(f)
  <2>1. f \in Files
    BY DerivedFileNames DEF Files
  <2> QED BY <2>1, SteadyOwn, SteadyWhole
<1>4. Lasting(Own(f) \cup Reads(d, Ground)) = ClosureText(in)
  BY <1>3, GroundRead, LastingJoin DEF ClosureText
<1>5. Own(f) \cup Reads(d, Ground) # Missing
  BY MarkedThere
<1>6. Keeps(Made(f, d, in), ClosureText(in))
  BY <1>2, <1>4, <1>5 DEF Keeps
<1> QED BY <1>6, SettledDerived

LEMMA RulesShown ==
    ASSUME NEW c, NEW in
    PROVE  Shown(RulesIn(c), in) = RulesIn(Shown(c, in))
BY DEF Shown, Lasting, RulesIn

LEMMA RulesOfCombined ==
    ASSUME NEW in
    PROVE  RulesIn(CombinedText(in)) = ShaclText(in)
<1>1. \A f : \A a \in Own(f) : a[1] # "rule"
  BY DEF Own
<1>2. \A a \in TableAtoms(in.tables) : a[1] # "rule"
  BY DEF TableAtoms
<1>3. RulesIn(ShaclText(in)) = ShaclText(in)
  BY RuleMarks DEF ShaclText
<1> QED BY <1>1, <1>2, <1>3 DEF CombinedText, RulesIn

LEMMA MadeShaclSettled ==
    ASSUME NEW d, NEW in, d["enterprise.ttl"] # Missing,
           Settled("_combined.ttl", d["_combined.ttl"], in)
    PROVE  Settled("inferred-shacl.ttl", Made("inferred-shacl.ttl", d, in), in)
<1> DEFINE f == "inferred-shacl.ttl"
           c == d["_combined.ttl"]
<1>1. Shows(c, in, CombinedText(in))
  BY SettledDerived
<1>2. ~Skips(f, d, in)
  BY <1>1 DEF Skips, ShaclRuns, Shows
<1>3. Made(f, d, in) = Own(f) \cup RulesIn(c)
  <2>1. f \notin FromConstants /\ f \notin FromTables
    BY DerivedApart DEF DerivedFiles
  <2> QED BY <1>2, <2>1 DEF Made
<1>4. Shown(Own(f), in) = Own(f)
  <2>1. f \in Files
    BY DerivedFileNames DEF Files
  <2> QED BY <2>1, SteadyOwn, SteadyWhole
<1>5. Shown(RulesIn(c), in) = ShaclText(in)
  BY <1>1, RulesShown, RulesOfCombined DEF Shows
<1>6. Shown(Own(f) \cup RulesIn(c), in) = ShaclDerived(in)
  BY <1>4, <1>5, ShownJoin DEF ShaclDerived
<1>7. Own(f) \cup RulesIn(c) # Missing
  BY MarkedThere
<1>8. Shows(Made(f, d, in), in, ShaclDerived(in))
  BY <1>3, <1>6, <1>7 DEF Shows
<1> QED BY <1>8, SettledDerived

\* Whether there are queries to run.
LEMMA ConstructsSettled ==
    ASSUME NEW d, NEW in, Settled("sparql_rules", d["sparql_rules"], in)
    PROVE  /\ SparqlText(in) # {} => ConstructsRun(d)
           /\ in.rules # {} => /\ d["sparql_rules"] = SparqlText(in)
                               /\ ConstructsRun(d) <=> SparqlText(in) # {}
<1> DEFINE c == d["sparql_rules"]
<1>1. Reads(d, {"sparql_rules"}) = IF c = Missing THEN {} ELSE c
  BY ReadOne
<1>2. ASSUME in.rules # {}
      PROVE  c = SparqlText(in) /\ RulesIn(Reads(d, {"sparql_rules"})) = SparqlText(in)
  <2>1. c = SparqlText(in)
    BY <1>2, SettledDerived
  <2>2. c # Missing /\ RulesIn(c) = SparqlText(in)
    BY <2>1, SparqlMarks, RuleMarks
  <2> QED BY <1>1, <2>1, <2>2
<1>3. ASSUME in.rules = {}, SparqlText(in) # {}
      PROVE  ConstructsRun(d)
  <2>1. in.causal # {}
    BY <1>3 DEF SparqlText, RuleAtoms
  <2>2. c # Missing /\ RuleAtoms(in.causal) \subseteq c
    BY <2>1, SettledDerived
  <2>3. RuleAtoms(in.causal) \subseteq RulesIn(c)
    BY <2>2 DEF RulesIn, RuleAtoms
  <2>4. RuleAtoms(in.causal) # {}
    BY <2>1 DEF RuleAtoms
  <2>5. RulesIn(Reads(d, {"sparql_rules"})) # {}
    BY <1>1, <2>2, <2>3, <2>4
  <2> QED BY <2>5 DEF ConstructsRun
<1> QED BY <1>2, <1>3 DEF ConstructsRun

LEMMA MadeConstructsSettled ==
    ASSUME NEW d, NEW in, RuleFiles(d), d["enterprise.ttl"] # Missing,
           Settled("sparql_rules", d["sparql_rules"], in)
    PROVE  Settled("inferred-sparql.ttl", Made("inferred-sparql.ttl", d, in), in)
<1> DEFINE f == "inferred-sparql.ttl"
           c == d["sparql_rules"]
<1> SUFFICES ASSUME SparqlText(in) # {}
             PROVE  Shows(Made(f, d, in), in, SparqlDerived(in))
  BY SettledDerived
<1>1. ConstructsRun(d)
  BY ConstructsSettled
<1>2. ~Skips(f, d, in)
  BY <1>1 DEF Skips
<1>3. Made(f, d, in) = Own(f) \cup RulesIn(c)
  <2>1. f \notin FromConstants /\ f \notin FromTables
    BY DerivedApart DEF DerivedFiles
  <2> QED BY <1>2, <2>1 DEF Made
<1>4. Own(f) \cup RulesIn(c) # Missing
  BY MarkedThere
<1>5. CASE in.rules = {}
  <2>1. \A a \in Own(f) \cup RulesIn(c) : a[1] = "rule" \/ a \in Own(f)
    BY DEF RulesIn
  <2>2. Shown(Own(f) \cup RulesIn(c), in) = {}
    BY <1>5, <2>1, RulesHidden
  <2> QED BY <1>3, <1>4, <1>5, <2>2, NoRules DEF Shows
<1>6. CASE in.rules # {}
  <2>1. RulesIn(c) = SparqlText(in)
    BY <1>6, ConstructsSettled, SparqlMarks, RuleMarks
  <2>2. Shown(RulesIn(c), in) = SparqlText(in)
    BY <1>6, <2>1, SparqlMarks, RuleMarks
  <2>3. Shown(Own(f), in) = Own(f)
    <3>1. \A a \in Own(f) : ~Gone(a)
      BY DEF Own, Gone
    <3> QED BY <1>6, <3>1 DEF Shown, Lasting
  <2>4. SparqlDerived(in) = Own(f) \cup SparqlText(in)
    BY <1>6 DEF SparqlDerived
  <2>5. Shown(Own(f) \cup RulesIn(c), in) = SparqlDerived(in)
    BY <2>2, <2>3, <2>4, ShownJoin
  <2> QED BY <1>3, <1>4, <2>5 DEF Shows
<1> QED BY <1>5, <1>6

\* The files of the phase "reason" that its last three are merged from.
Engines == {"_combined.ttl", "sparql_rules", "enterprise-inferred.ttl",
            "inferred-shacl.ttl", "inferred-sparql.ttl"}

LEMMA EnginesRead ==
    ASSUME NEW d, NEW in, RuleFiles(d),
           \A g \in Engines : Settled(g, d[g], in)
    PROVE  Shown(Reads(d, EngineOutputs(d)), in) = DerivedText(in)
<1> DEFINE i == "enterprise-inferred.ttl"
           s == "inferred-shacl.ttl"
           q == "inferred-sparql.ttl"
           some == IF ConstructsRun(d) THEN {q} ELSE {}
<1>1. {i, s, q, "_combined.ttl", "sparql_rules"} \subseteq Engines
  BY DEF Engines
<1>2. Keeps(d[i], ClosureText(in)) /\ Shows(d[s], in, ShaclDerived(in))
      /\ Shows(d["_combined.ttl"], in, CombinedText(in))
  BY <1>1, SettledDerived
<1>3. ShaclRuns(d)
  BY <1>2 DEF ShaclRuns, Shows
<1>4. EngineOutputs(d) = {i} \cup ({s} \cup some)
  BY <1>3 DEF EngineOutputs
<1>5. Shown(Reads(d, {i}), in) = ClosureText(in)
  <2>1. Lasting(Reads(d, {i})) = ClosureText(in)
    BY <1>2, KeepsRead
  <2> QED BY <2>1, KeptShown, SteadyTexts
<1>6. Shown(Reads(d, {s}), in) = ShaclDerived(in)
  BY <1>2, ShowsRead
<1>7. Shown({}, in) = {} /\ Reads(d, {}) = {}
  BY DEF Shown, Lasting, Reads, Present
<1>8. Shown(Reads(d, some), in) = SparqlDerived(in)
  <2>1. CASE in.rules = {}
    <3>1. \A a \in Reads(d, {q}) : a[1] = "rule" \/ a \in Own(q)
      <4>1. Reads(d, {q}) = IF d[q] = Missing THEN {} ELSE d[q]
        BY ReadOne
      <4>2. d[q] # Missing => \A a \in d[q] : a[1] = "rule" \/ a \in Own(q)
        BY DEF RuleFiles
      <4> QED BY <4>1, <4>2
    <3>2. Shown(Reads(d, {q}), in) = {}
      BY <2>1, <3>1, RulesHidden
    <3> QED BY <1>7, <2>1, <3>2, NoRules
  <2>2. CASE in.rules # {} /\ SparqlText(in) # {}
    <3>1. ConstructsRun(d)
      BY <1>1, ConstructsSettled, <2>2
    <3>2. Shows(d[q], in, SparqlDerived(in))
      BY <1>1, <2>2, SettledDerived
    <3> QED BY <3>1, <3>2, ShowsRead
  <2>3. CASE in.rules # {} /\ SparqlText(in) = {}
    <3>1. ~ConstructsRun(d)
      BY <1>1, <2>3, ConstructsSettled
    <3>2. SparqlDerived(in) = {}
      BY <2>3 DEF SparqlDerived
    <3> QED BY <1>7, <3>1, <3>2
  <2> QED BY <2>1, <2>2, <2>3
<1> HIDE DEF i, s, q, some
<1>9. Shown(Reads(d, {s} \cup some), in) = ShaclDerived(in) \cup SparqlDerived(in)
  BY <1>6, <1>8, ReadsShown
<1>10. Shown(Reads(d, {i} \cup ({s} \cup some)), in)
          = ClosureText(in) \cup (ShaclDerived(in) \cup SparqlDerived(in))
  BY <1>5, <1>9, ReadsShown
<1>11. DerivedText(in) = ClosureText(in) \cup (ShaclDerived(in) \cup SparqlDerived(in))
  BY DEF DerivedText
<1> QED BY <1>4, <1>10, <1>11

LEMMA MadeMergedSettled ==
    ASSUME NEW d, NEW in, RuleFiles(d),
           \A g \in Ground \cup Engines : Settled(g, d[g], in),
           NEW f \in {"materialised.ttl", "materialised-lineage.ttl",
                      "materialisation_report.md"}
    PROVE  Settled(f, Made(f, d, in), in)
<1>1. Shown(Reads(d, EngineOutputs(d)), in) = DerivedText(in)
  BY EnginesRead
<1>2. Shown(Reads(d, Ground), in) = GroundText(in)
  BY GroundRead, KeptShown, SteadyTexts
<1>3. Shown(Reads(d, Ground \cup EngineOutputs(d)), in)
        = GroundText(in) \cup DerivedText(in)
  BY <1>1, <1>2, ReadsShown
<1>4. GroundText(in) \cup DerivedText(in) = DerivedText(in)
  BY DEF DerivedText, ClosureText
<1>5. ~Skips(f, d, in)
  BY GroundRead DEF Skips
<1>6. f \notin FromConstants /\ f \notin FromTables
  BY DerivedApart DEF DerivedFiles
<1>7. Made(f, d, in) \in {Materialised(d), Lineage(d)}
  BY <1>5, <1>6 DEF Made, MaterialisationReport
<1>8. Shows(Materialised(d), in, DerivedText(in))
      /\ Shows(Lineage(d), in, DerivedText(in))
  BY <1>1, <1>3, <1>4, ReadsThere DEF Shows, Materialised, Lineage
<1>9. Shows(Made(f, d, in), in, DerivedText(in))
  BY <1>7, <1>8
<1> QED BY <1>9, SettledDerived

(* The alignment and what measures. *)

LEMMA MadeAlignmentSettled ==
    ASSUME NEW d, NEW in,
           \A g \in Ground \cup {"drift.ttl", "tmf-sid-hierarchy.ttl"} :
              Settled(g, d[g], in)
    PROVE  Settled("alignment.ttl", Made("alignment.ttl", d, in), in)
<1> DEFINE f == "alignment.ttl"
           v == "drift.ttl"
           h == "tmf-sid-hierarchy.ttl"
<1>1. v \in FromConstants /\ h \in FromConstants /\ f \in Files
  BY ConstantFileNames, DerivedFileNames DEF Files
<1>2. Lasting(Reads(d, {v})) = Own(v) /\ Lasting(Reads(d, {h})) = Own(h)
  BY <1>1, KeptSteady
<1>3. Lasting(Own(f)) = Own(f)
  BY <1>1, SteadyOwn, SteadyWhole
<1>4. Made(f, d, in) = Own(f) \cup Reads(d, Ground \cup {v, h})
  <2>1. f \notin FromConstants /\ f \notin FromTables
    BY DerivedApart DEF DerivedFiles
  <2>2. ~Skips(f, d, in)
    BY DEF Skips
  <2> QED BY <2>1, <2>2 DEF Made
<1>5. {v, h} = {v} \cup {h}
  OBVIOUS
<1>6. AlignmentText(in) = Own(f) \cup (GroundText(in) \cup (Own(v) \cup Own(h)))
  BY DEF AlignmentText
<1>7. Own(f) \cup Reads(d, Ground \cup {v, h}) # Missing
  BY MarkedThere
<1> HIDE DEF f, v, h
<1>8. Lasting(Reads(d, {v} \cup {h})) = Own(v) \cup Own(h)
  BY <1>2, ReadsKept
<1>9. Lasting(Reads(d, Ground)) = GroundText(in)
  BY GroundRead
<1>10. Lasting(Reads(d, Ground \cup ({v} \cup {h}))) = GroundText(in) \cup (Own(v) \cup Own(h))
  BY <1>8, <1>9, ReadsKept
<1>11. Lasting(Own(f) \cup Reads(d, Ground \cup {v, h})) = AlignmentText(in)
  <2> DEFINE r == Reads(d, Ground \cup ({v} \cup {h}))
  <2>1. Reads(d, Ground \cup {v, h}) = r
    BY <1>5
  <2>2. Lasting(r) = GroundText(in) \cup (Own(v) \cup Own(h))
    BY <1>10
  <2> HIDE DEF r
  <2>3. Lasting(Own(f) \cup r) = Lasting(Own(f)) \cup Lasting(r)
    BY LastingJoin
  <2> QED BY <1>3, <1>6, <2>1, <2>2, <2>3
<1>12. Keeps(Made(f, d, in), AlignmentText(in))
  BY <1>4, <1>7, <1>11 DEF Keeps
<1> QED BY <1>12, SettledDerived DEF f

LEMMA MadeInstancesSettled ==
    ASSUME NEW d, NEW in,
           \A g \in Ground \cup {"logical_physical_map.csv"} : Settled(g, d[g], in)
    PROVE  Settled("instances.ttl", Made("instances.ttl", d, in), in)
<1> DEFINE f == "instances.ttl"
           m == "logical_physical_map.csv"
           ts == Reads(d, {m}) \cap TableAtoms(in.tables)
<1>1. m \in FromTables /\ m \notin FromConstants /\ f \in Files
  BY ConstantFileNames, TableFileNames, DerivedFileNames DEF Files
<1>2. Lasting(Reads(d, {m})) = Own(m) \cup TableAtoms(in.tables)
  BY <1>1, KeptSteady
<1>3. Reads(d, {m}) # {}
  <2>1. Lasting(Reads(d, {m})) # {}
    BY <1>2 DEF Own
  <2> QED BY <2>1 DEF Lasting
<1>4. Made(f, d, in) = Own(f) \cup (Reads(d, Ground) \cup ts)
  <2>1. f \notin FromConstants /\ f \notin FromTables
    BY DerivedApart DEF DerivedFiles
  <2>2. ~Skips(f, d, in)
    BY <1>3 DEF Skips
  <2>3. Made(f, d, in) = Instances(d, in)
    BY <2>1, <2>2 DEF Made
  <2> QED BY <2>3 DEF Instances
<1>5. Own(f) \cup (Reads(d, Ground) \cup ts) # Missing
  BY MarkedThere
<1>6. Lasting(Own(f)) = Own(f)
  BY <1>1, SteadyOwn, SteadyWhole
<1>7. Lasting(ts) \subseteq GroundText(in)
  BY DEF Lasting, GroundText, OntologyText, Terms
<1>8. InstancesText(in) = Own(f) \cup GroundText(in)
  BY DEF InstancesText
<1>9. Lasting(Reads(d, Ground)) = GroundText(in)
  BY GroundRead
<1> HIDE DEF f, ts
<1>10. Lasting(Own(f) \cup (Reads(d, Ground) \cup ts)) = InstancesText(in)
  <2>1. Lasting(Reads(d, Ground) \cup ts) = GroundText(in) \cup Lasting(ts)
    BY <1>9, LastingJoin
  <2>2. Lasting(Own(f) \cup (Reads(d, Ground) \cup ts))
          = Own(f) \cup (GroundText(in) \cup Lasting(ts))
    BY <1>6, <2>1, LastingJoin
  <2> QED BY <1>7, <1>8, <2>2
<1>11. Keeps(Made(f, d, in), InstancesText(in))
  BY <1>4, <1>5, <1>10 DEF Keeps
<1> QED BY <1>11, SettledDerived DEF f

\* The modules people write, and those the questions are asked of.
LEMMA AuthoredRead ==
    ASSUME NEW d, NEW in, \A g \in Authored : Settled(g, d[g], in)
    PROVE  Lasting(Reads(d, Authored)) = AuthoredText(in)
           /\ d["enterprise.ttl"] # Missing
<1> DEFINE m == "dimensions.ttl"
           l == "alignment.ttl"
<1>1. m \in FromConstants
  BY ConstantFileNames
<1>2. Authored = Ground \cup ({m} \cup {l})
  BY DEF Authored, Ground
<1>3. Lasting(Reads(d, {m})) = Own(m)
  BY <1>1, <1>2, KeptSteady
<1>4. Lasting(Reads(d, {l})) = AlignmentText(in)
  <2>1. Settled(l, d[l], in)
    BY <1>2
  <2>2. Keeps(d[l], AlignmentText(in))
    BY <2>1, SettledDerived
  <2> QED BY <2>2, KeepsRead
<1>5. Lasting(Reads(d, Ground)) = GroundText(in) /\ d["enterprise.ttl"] # Missing
  BY <1>2, GroundRead
<1>6. AuthoredText(in) = GroundText(in) \cup (Own(m) \cup AlignmentText(in))
  BY DEF AuthoredText
<1> HIDE DEF m, l
<1>7. Lasting(Reads(d, {m} \cup {l})) = Own(m) \cup AlignmentText(in)
  BY <1>3, <1>4, ReadsKept
<1>8. Lasting(Reads(d, Authored)) = AuthoredText(in)
  BY <1>2, <1>5, <1>6, <1>7, ReadsKept
<1> QED BY <1>5, <1>8

LEMMA TestedRead ==
    ASSUME NEW d, NEW in, \A g \in SparqlTested : Settled(g, d[g], in)
    PROVE  Lasting(Reads(d, SparqlTested)) = TestedText(in)
           /\ d["enterprise.ttl"] # Missing
<1> DEFINE m == "dimensions.ttl"
           l == "instances.ttl"
<1>1. m \in FromConstants
  BY ConstantFileNames
<1>2. SparqlTested = Ground \cup ({m} \cup {l})
  BY DEF SparqlTested
<1>3. Lasting(Reads(d, {m})) = Own(m)
  BY <1>1, <1>2, KeptSteady
<1>4. Lasting(Reads(d, {l})) = InstancesText(in)
  <2>1. Settled(l, d[l], in)
    BY <1>2
  <2>2. Keeps(d[l], InstancesText(in))
    BY <2>1, SettledDerived
  <2> QED BY <2>2, KeepsRead
<1>5. Lasting(Reads(d, Ground)) = GroundText(in) /\ d["enterprise.ttl"] # Missing
  BY <1>2, GroundRead
<1>6. TestedText(in) = GroundText(in) \cup (Own(m) \cup InstancesText(in))
  BY DEF TestedText
<1> HIDE DEF m, l
<1>7. Lasting(Reads(d, {m} \cup {l})) = Own(m) \cup InstancesText(in)
  BY <1>3, <1>4, ReadsKept
<1>8. Lasting(Reads(d, SparqlTested)) = TestedText(in)
  BY <1>2, <1>5, <1>6, <1>7, ReadsKept
<1> QED BY <1>5, <1>8

LEMMA MadeQualitySettled ==
    ASSUME NEW d, NEW in, \A g \in Authored : Settled(g, d[g], in)
    PROVE  Settled("ontology_quality.csv", Made("ontology_quality.csv", d, in), in)
<1> DEFINE f == "ontology_quality.csv"
<1>1. "enterprise.ttl" \in Present(d, Authored)
  BY AuthoredRead DEF Present, Authored
<1>2. ~Skips(f, d, in)
  BY <1>1 DEF Skips
<1>3. f \notin FromConstants /\ f \notin FromTables
  BY DerivedApart DEF DerivedFiles
<1>4. Made(f, d, in) = Reads(d, Authored)
  BY <1>2, <1>3 DEF Made
<1>5. Keeps(Made(f, d, in), AuthoredText(in))
  BY <1>4, AuthoredRead, ReadsThere DEF Keeps
<1> QED BY <1>5, SettledDerived

LEMMA MadeTestedSettled ==
    ASSUME NEW d, NEW in, \A g \in SparqlTested : Settled(g, d[g], in)
    PROVE  Settled("sparql_cq_test_results.csv",
                   Made("sparql_cq_test_results.csv", d, in), in)
<1> DEFINE f == "sparql_cq_test_results.csv"
<1>1. "enterprise.ttl" \in Present(d, SparqlTested)
  BY TestedRead DEF Present, SparqlTested, Ground
<1>2. ~Skips(f, d, in)
  BY <1>1 DEF Skips
<1>3. f \notin FromConstants /\ f \notin FromTables
  BY DerivedApart DEF DerivedFiles
<1>4. Made(f, d, in) = Reads(d, SparqlTested)
  BY <1>2, <1>3 DEF Made
<1>5. Keeps(Made(f, d, in), TestedText(in))
  BY <1>4, TestedRead, ReadsThere DEF Keeps
<1> QED BY <1>5, SettledDerived

LEMMA MadeAnswersSettled ==
    ASSUME NEW d, NEW in, \A g \in Ground : Settled(g, d[g], in)
    PROVE  Settled("cq_test_results.csv", Made("cq_test_results.csv", d, in), in)
<1> DEFINE f == "cq_test_results.csv"
           ts == TableAtoms(in.tables)
           r == Reads(d, Ground)
<1>1. ~Skips(f, d, in)
  BY DEF Skips
<1>2. f \notin FromConstants /\ f \notin FromTables
  BY DerivedApart DEF DerivedFiles
<1>3. Made(f, d, in) = ts \cup r
  BY <1>1, <1>2 DEF Made
<1>4. Lasting(ts) = ts
  BY SteadyTables, SteadyWhole
<1>5. ts \subseteq GroundText(in)
  BY DEF GroundText, OntologyText, Terms
<1>6. Lasting(ts \cup r) = GroundText(in)
  <2>1. Lasting(r) = GroundText(in)
    BY GroundRead
  <2> HIDE DEF ts, r
  <2> QED BY <1>4, <1>5, <2>1, LastingJoin
<1>7. ts \cup r # Missing
  <2>1. Own("enterprise.ttl") \subseteq r
    <3>1. Own("enterprise.ttl") \subseteq Lasting(r)
      BY GroundRead DEF GroundText, OntologyText
    <3> QED BY <3>1 DEF Lasting
  <2>2. ts \cup r = Own("enterprise.ttl") \cup (ts \cup r)
    BY <2>1
  <2> QED BY <2>2, MarkedThere
<1>8. Keeps(Made(f, d, in), GroundText(in))
  BY <1>3, <1>6, <1>7 DEF Keeps
<1> QED BY <1>8, SettledDerived

(* The scorecard and the reports. *)

ScoredFrom ==
    ScoredAsParsed \cup ScoredAsText \cup ScoredAsOntology \cup ScoredAsReady
        \cup ScoredAsEvidence

Marks(fs) == {<<"from", f>> : f \in fs}

\* Files from constants and tables, read together.
LEMMA ApartRead ==
    ASSUME NEW d, NEW in, NEW fs, fs \subseteq FromConstants \cup FromTables,
           \A f \in fs : Settled(f, d[f], in)
    PROVE  /\ Marks(fs) \subseteq Lasting(Reads(d, fs))
           /\ Reads(d, fs) \subseteq Marks(fs) \cup TableAtoms(in.tables)
<1>1. ASSUME NEW f \in fs
      PROVE  /\ d[f] # Missing
             /\ <<"from", f>> \in d[f]
             /\ d[f] \subseteq {<<"from", f>>} \cup TableAtoms(in.tables)
  BY SettledConstants, SettledTables DEF Keeps, Own
<1>2. Reads(d, fs) \subseteq Marks(fs) \cup TableAtoms(in.tables)
  BY <1>1 DEF Reads, Present, Marks
<1>3. Marks(fs) \subseteq Reads(d, fs)
  BY <1>1 DEF Reads, Present, Marks
<1>4. ASSUME NEW a \in Marks(fs) PROVE ~Gone(a)
  <2>1. a[1] = "from"
    BY DEF Marks
  <2> QED BY <2>1 DEF Gone
<1> QED BY <1>2, <1>3, <1>4 DEF Lasting

LEMMA ScoredRead ==
    ASSUME NEW d, NEW in, \A g \in ScoredFrom : Settled(g, d[g], in)
    PROVE  Lasting(Reads(d, ScoredFrom)) = ScoredText(in)
<1> DEFINE q == "sparql_cq_test_results.csv"
           p == "profile_recommendation.md"
           fs == {"enterprise-shapes.ttl", "enterprise-skos.ttl",
                  "logical_physical_map.csv", "enterprise-context.json",
                  "agent-gate.ttl", "mcp-tool-definitions.json",
                  "tmf-context.json"}
           ts == TableAtoms(in.tables)
<1>1. ScoredFrom = Authored \cup ({q} \cup ({p} \cup fs))
  BY DEF ScoredFrom, ScoredAsParsed, ScoredAsText, ScoredAsOntology, ScoredAsReady,
         ScoredAsEvidence, Authored
<1>2. fs \subseteq FromConstants \cup FromTables
  BY ConstantFileNames, TableFileNames
<1>3. Settled(q, d[q], in) /\ Settled(p, d[p], in)
      /\ \A g \in fs : Settled(g, d[g], in)
  BY <1>1
<1>4. Lasting(Reads(d, {q})) = TestedText(in)
  <2>1. Keeps(d[q], TestedText(in))
    BY <1>3, SettledDerived
  <2> QED BY <2>1, KeepsRead
<1>5. Lasting(Reads(d, {p})) = OntologyText(in)
  <2>1. Keeps(d[p], OntologyText(in))
    BY <1>3, SettledDerived
  <2> QED BY <2>1, KeepsRead
<1>6. Lasting(Reads(d, Authored)) = AuthoredText(in)
  BY <1>1, AuthoredRead
<1>7. ts \subseteq AuthoredText(in) /\ OntologyText(in) \subseteq AuthoredText(in)
  BY DEF GroundText, OntologyText, Terms, AuthoredText
<1>8. Marks(fs) \subseteq Lasting(Reads(d, fs))
      /\ Lasting(Reads(d, fs)) \subseteq Marks(fs) \cup ts
  BY <1>2, <1>3, ApartRead DEF Lasting
<1>9. ScoredText(in) = AuthoredText(in) \cup TestedText(in) \cup Marks(fs)
  <2>1. Marks(fs) = Own("enterprise-shapes.ttl") \cup Own("agent-gate.ttl")
          \cup Own("enterprise-skos.ttl") \cup Own("logical_physical_map.csv")
          \cup Own("enterprise-context.json") \cup Own("mcp-tool-definitions.json")
          \cup Own("tmf-context.json")
    BY DEF Marks, Own
  <2> QED BY <2>1 DEF ScoredText
<1> HIDE DEF q, p, fs, ts
<1> DEFINE z == Lasting(Reads(d, fs))
<1>10. Lasting(Reads(d, {p} \cup fs)) = OntologyText(in) \cup z
  BY <1>5, ReadsKept
<1>11. Lasting(Reads(d, {q} \cup ({p} \cup fs))) = TestedText(in) \cup (OntologyText(in) \cup z)
  BY <1>4, <1>10, ReadsKept
<1>12. Lasting(Reads(d, ScoredFrom))
          = AuthoredText(in) \cup (TestedText(in) \cup (OntologyText(in) \cup z))
  BY <1>1, <1>6, <1>11, ReadsKept
<1> HIDE DEF z
<1>13. Marks(fs) \subseteq z /\ z \subseteq Marks(fs) \cup ts
  BY <1>8 DEF z
<1> QED BY <1>7, <1>9, <1>12, <1>13

\* A file whose lasting contents have a mark is there.
LEMMA KeptThere ==
    ASSUME NEW c, NEW f, Own(f) \subseteq Lasting(c)
    PROVE  c # Missing
<1>1. Own(f) \subseteq c
  BY DEF Lasting
<1>2. c = Own(f) \cup c
  BY <1>1
<1> QED BY <1>2, MarkedThere

\* What a scorecard takes over of the one before.
Carried(c) == {<<"before", a>> : a \in {b \in c : b[1] # "before"}}

LEMMA CarriedLasting ==
    ASSUME NEW c, NEW x, {a \in Lasting(c) : a[1] # "before"} = x
    PROVE  Lasting(Carried(c)) = {<<"before", a>> : a \in x}
<1>1. ASSUME NEW b \in Lasting(Carried(c)) PROVE b \in {<<"before", a>> : a \in x}
  <2>1. b \in Carried(c) /\ ~Gone(b)
    BY DEF Lasting
  <2>2. PICK a \in c : a[1] # "before" /\ b = <<"before", a>>
    BY <2>1 DEF Carried
  <2>3. b[1] = "before" /\ b[2] = a
    BY <2>2
  <2>4. a[1] # "gone"
    BY <2>1, <2>3 DEF Gone
  <2>5. ~Gone(a)
    BY <2>2, <2>4 DEF Gone
  <2>6. a \in x
    BY <2>2, <2>5 DEF Lasting
  <2> QED BY <2>2, <2>6
<1>2. ASSUME NEW a \in x PROVE <<"before", a>> \in Lasting(Carried(c))
  <2>1. a \in c /\ ~Gone(a) /\ a[1] # "before"
    BY DEF Lasting
  <2> DEFINE b == <<"before", a>>
  <2>2. b \in Carried(c)
    BY <2>1 DEF Carried
  <2>3. b[1] = "before" /\ b[2] = a
    OBVIOUS
  <2> HIDE DEF b
  <2>4. ~Gone(b)
    BY <2>1, <2>3 DEF Gone
  <2>5. b \in Lasting(Carried(c))
    BY <2>2, <2>4 DEF Lasting
  <2> QED BY <2>5 DEF b
<1> QED BY <1>1, <1>2

LEMMA MadeScorecard ==
    ASSUME NEW d, NEW in, \A g \in ScoredFrom : Settled(g, d[g], in)
    PROVE  /\ Scored(Made("governance_scorecard.csv", d, in), in)
           /\ Scored(d["governance_scorecard.csv"], in) =>
                 Settled("governance_scorecard.csv",
                         Made("governance_scorecard.csv", d, in), in)
<1> DEFINE f == "governance_scorecard.csv"
           own == Reads(d, ScoredFrom)
           b == Carried(Reads(d, {f}))
<1>1. Made(f, d, in) = own \cup b
  <2>1. f \notin FromConstants /\ f \notin FromTables
    BY DerivedApart DEF DerivedFiles
  <2>2. ~Skips(f, d, in)
    BY DEF Skips
  <2>3. Made(f, d, in) = Scorecard(d)
    BY <2>1, <2>2 DEF Made
  <2> QED BY <2>3 DEF Scorecard, ScoredFrom, Carried
<1>2. Lasting(own) = ScoredText(in)
  BY ScoredRead
<1>3. \A a \in b : a[1] = "before"
  BY DEF Carried
<1>4. own \cup b # Missing
  <2>1. Own("enterprise.ttl") \subseteq ScoredText(in)
    BY DEF ScoredText, AuthoredText, GroundText, OntologyText
  <2>2. Own("enterprise.ttl") \subseteq Lasting(own \cup b)
    BY <1>2, <2>1 DEF Lasting
  <2> QED BY <2>2, KeptThere
<1>5. Scored(own \cup b, in)
  <2> HIDE DEF own, b
  <2>1. {a \in Lasting(own \cup b) : a[1] # "before"}
          = {a \in Lasting(own) : a[1] # "before"}
    BY <1>3 DEF Lasting
  <2>2. {a \in ScoredText(in) : a[1] # "before"} = ScoredText(in)
    BY ScoredNotBefore
  <2> QED BY <1>2, <1>4, <2>1, <2>2 DEF Scored
<1>6. ASSUME Scored(d[f], in) PROVE Keeps(own \cup b, ScoreText(in))
  <2>1. Reads(d, {f}) = d[f]
    BY <1>6, ReadOne DEF Scored
  <2>2. Lasting(b) = {<<"before", a>> : a \in ScoredText(in)}
    BY <1>6, <2>1, CarriedLasting DEF Scored
  <2> HIDE DEF own, b
  <2>3. Lasting(own \cup b) = ScoreText(in)
    BY <1>2, <2>2, LastingJoin DEF ScoreText
  <2> QED BY <1>4, <2>3 DEF Keeps
<1>7. Scored(Made(f, d, in), in)
  BY <1>1, <1>5
<1>8. ASSUME Scored(d[f], in) PROVE Settled(f, Made(f, d, in), in)
  <2>1. Keeps(own \cup b, ScoreText(in))
    BY <1>6, <1>8
  <2>2. Keeps(Made(f, d, in), ScoreText(in))
    BY <1>1, <2>1
  <2> QED BY <2>2, SettledDerived
<1> QED BY <1>7, <1>8

LEMMA MadeReportSettled ==
    ASSUME NEW d, NEW in, \A g \in Reported : Settled(g, d[g], in)
    PROVE  Settled("toolkit_report.html", Made("toolkit_report.html", d, in), in)
<1> DEFINE f == "toolkit_report.html"
           q == "cq_test_results.csv"
           g == "governance_scorecard.csv"
           fs == {"semantic_loss_report.csv", "orphan_candidates.csv",
                  "logical_physical_map.csv", "tmf_cq_test_results.csv",
                  "tmf_api_coverage.csv"}
           ts == TableAtoms(in.tables)
<1>1. Reported = {g} \cup ({q} \cup fs)
  BY DEF Reported
<1>2. fs \subseteq FromConstants \cup FromTables
  BY TableFileNames
<1>3. Settled(q, d[q], in) /\ Settled(g, d[g], in)
      /\ \A h \in fs : Settled(h, d[h], in)
  BY <1>1
<1>4. Lasting(Reads(d, {g})) = ScoreText(in)
  <2>1. Keeps(d[g], ScoreText(in))
    BY <1>3, SettledDerived
  <2> QED BY <2>1, KeepsRead
<1>5. Lasting(Reads(d, {q})) = GroundText(in)
  <2>1. Keeps(d[q], GroundText(in))
    BY <1>3, SettledDerived
  <2> QED BY <2>1, KeepsRead
<1>6. Marks(fs) \subseteq Lasting(Reads(d, fs))
      /\ Lasting(Reads(d, fs)) \subseteq Marks(fs) \cup ts
  BY <1>2, <1>3, ApartRead DEF Lasting
<1>7. ts \subseteq ScoreText(in) /\ GroundText(in) \subseteq ScoreText(in)
  BY DEF GroundText, OntologyText, Terms, AuthoredText, ScoredText, ScoreText
<1>8. ReportText(in) = ScoreText(in) \cup Marks(fs)
  <2>1. Own("logical_physical_map.csv") \subseteq ScoreText(in)
    BY DEF ScoredText, ScoreText
  <2>2. Marks(fs) = Own("semantic_loss_report.csv") \cup Own("orphan_candidates.csv")
          \cup Own("tmf_cq_test_results.csv") \cup Own("tmf_api_coverage.csv")
          \cup Own("logical_physical_map.csv")
    BY DEF Marks, Own
  <2> QED BY <2>1, <2>2 DEF ReportText
<1>9. Made(f, d, in) = Reads(d, Reported)
  <2>1. f \notin FromConstants /\ f \notin FromTables
    BY DerivedApart DEF DerivedFiles
  <2>2. ~Skips(f, d, in)
    BY DEF Skips
  <2> QED BY <2>1, <2>2 DEF Made
<1> HIDE DEF f, q, g, fs, ts
<1> DEFINE z == Lasting(Reads(d, fs))
<1>10. Lasting(Reads(d, {q} \cup fs)) = GroundText(in) \cup z
  BY <1>5, ReadsKept
<1>11. Lasting(Reads(d, Reported)) = ScoreText(in) \cup (GroundText(in) \cup z)
  BY <1>1, <1>4, <1>10, ReadsKept
<1>12. Marks(fs) \subseteq z /\ z \subseteq Marks(fs) \cup ts
  BY <1>6
<1> HIDE DEF z
<1>13. Lasting(Reads(d, Reported)) = ReportText(in)
  BY <1>7, <1>8, <1>11, <1>12
<1>14. Keeps(Made(f, d, in), ReportText(in))
  BY <1>9, <1>13, ReadsThere DEF Keeps
<1> QED BY <1>14, SettledDerived DEF f

LEMMA MadeSummarySettled ==
    ASSUME NEW d, NEW in, RuleFiles(d),
           \A g \in Sources("compliance_summary.html") \cup {"enterprise.ttl"} :
              Settled(g, d[g], in)
    PROVE  Settled("compliance_summary.html",
                   Made("compliance_summary.html", d, in), in)
<1> DEFINE f == "compliance_summary.html"
           m == "_combined.ttl"
           q == "sparql_cq_test_results.csv"
           g == "governance_scorecard.csv"
<1>1. Sources(f) = Shapes \cup {m, q, g}
  BY DEF Sources
<1>2. Shapes \cup {m, q, g} = Shapes \cup ({m} \cup ({q} \cup {g}))
  OBVIOUS
<1>3. Settled(q, d[q], in) /\ Settled(g, d[g], in) /\ Settled(m, d[m], in)
      /\ \A h \in Shapes : Settled(h, d[h], in)
      /\ Settled("enterprise.ttl", d["enterprise.ttl"], in)
  BY <1>1
<1>4. Shown(Reads(d, {g}), in) = ScoreText(in)
  <2>1. Keeps(d[g], ScoreText(in))
    BY <1>3, SettledDerived
  <2>2. Lasting(Reads(d, {g})) = ScoreText(in)
    BY <2>1, KeepsRead
  <2> QED BY <2>2, KeptShown, SteadyScore
<1>5. Shown(Reads(d, {q}), in) = TestedText(in)
  <2>1. Keeps(d[q], TestedText(in))
    BY <1>3, SettledDerived
  <2>2. Lasting(Reads(d, {q})) = TestedText(in)
    BY <2>1, KeepsRead
  <2> QED BY <2>2, KeptShown, SteadyTexts
<1>6. Shown(Reads(d, {m}), in) = CombinedText(in)
  <2>1. Shows(d[m], in, CombinedText(in))
    BY <1>3, SettledDerived
  <2> QED BY <2>1, ShowsRead
<1>7. Shown(Reads(d, Shapes), in) = CombinedText(in)
  <2>1. d["enterprise.ttl"] # Missing
    BY <1>3, SettledDerived DEF Keeps
  <2> QED BY <1>3, <2>1, MadeCombinedSettled
<1>8. Made(f, d, in) = Reads(d, Shapes \cup {m, q, g})
  <2>1. f \notin FromConstants /\ f \notin FromTables
    BY DerivedApart DEF DerivedFiles
  <2>2. ~Skips(f, d, in)
    BY DEF Skips
  <2> QED BY <2>1, <2>2 DEF Made
<1> HIDE DEF f, m, q, g
<1>9. Shown(Reads(d, {q} \cup {g}), in) = TestedText(in) \cup ScoreText(in)
  BY <1>4, <1>5, ReadsShown
<1>10. Shown(Reads(d, {m} \cup ({q} \cup {g})), in)
          = CombinedText(in) \cup (TestedText(in) \cup ScoreText(in))
  BY <1>6, <1>9, ReadsShown
<1>11. Shown(Reads(d, Shapes \cup ({m} \cup ({q} \cup {g}))), in)
          = CombinedText(in) \cup (CombinedText(in) \cup (TestedText(in) \cup ScoreText(in)))
  BY <1>7, <1>10, ReadsShown
<1>12. Shown(Reads(d, Shapes \cup {m, q, g}), in) = SummaryText(in)
  BY <1>2, <1>11 DEF SummaryText
<1>13. Shows(Made(f, d, in), in, SummaryText(in))
  BY <1>8, <1>12, ReadsThere DEF Shows
<1> QED BY <1>13, SettledDerived DEF f

\* What the folders of rules and the file of constructs are made of.
LEMMA MadeRuleFiles ==
    ASSUME NEW d, NEW in, RuleFiles(d)
    PROVE  /\ \A f \in {"rules.ttl", "sparql_rules"} :
                 Made(f, d, in) # Missing => \A a \in Made(f, d, in) : a[1] = "rule"
           /\ Made("inferred-sparql.ttl", d, in) # Missing =>
                 \A a \in Made("inferred-sparql.ttl", d, in) :
                    a[1] = "rule" \/ a \in Own("inferred-sparql.ttl")
<1>1. \A f \in DerivedFiles : f \notin FromConstants /\ f \notin FromTables
  BY DerivedApart
<1>2. \A rs : \A a \in RuleAtoms(rs) : a[1] = "rule"
  BY DEF RuleAtoms
<1>3. Made("rules.ttl", d, in) \in {d["rules.ttl"], ShaclFile(d, in)}
  BY <1>1 DEF Made, DerivedFiles
<1>4. ShaclFile(d, in) \in
        {d["rules.ttl"], Missing, RuleAtoms(in.rules \cap ShaclRules)}
  BY DEF ShaclFile
<1>5. Made("sparql_rules", d, in) \in {d["sparql_rules"], SparqlFolder(d, in)}
  BY <1>1 DEF Made, DerivedFiles
<1>6. SparqlFolder(d, in) # Missing => \A a \in SparqlFolder(d, in) : a[1] = "rule"
  <2>1. d["sparql_rules"] # Missing => \A a \in d["sparql_rules"] : a[1] = "rule"
    BY DEF RuleFiles
  <2> QED BY <1>2, <2>1 DEF SparqlFolder
<1>7. Made("inferred-sparql.ttl", d, in) \in
        {d["inferred-sparql.ttl"],
         Own("inferred-sparql.ttl") \cup RulesIn(d["sparql_rules"])}
  BY <1>1 DEF Made, DerivedFiles
<1>8. \A a \in RulesIn(d["sparql_rules"]) : a[1] = "rule"
  BY DEF RulesIn
<1>9. Made("rules.ttl", d, in) # Missing =>
        \A a \in Made("rules.ttl", d, in) : a[1] = "rule"
  BY <1>2, <1>3, <1>4 DEF RuleFiles
<1>10. Made("sparql_rules", d, in) # Missing =>
        \A a \in Made("sparql_rules", d, in) : a[1] = "rule"
  BY <1>5, <1>6 DEF RuleFiles
<1>11. Made("inferred-sparql.ttl", d, in) # Missing =>
         \A a \in Made("inferred-sparql.ttl", d, in) :
            a[1] = "rule" \/ a \in Own("inferred-sparql.ttl")
  BY <1>7, <1>8 DEF RuleFiles
<1> QED BY <1>9, <1>10, <1>11

LEMMA RuleFilesWritten ==
    ASSUME NEW p, NEW k, NEW d, NEW in, DOMAIN d = Files, RuleFiles(d)
    PROVE  RuleFiles(Written(p, k, d, in))
<1> DEFINE e == Written(p, k, d, in)
<1>1. \A g \in {"rules.ttl", "sparql_rules", "inferred-sparql.ttl"} :
         e[g] \in {Made(g, d, in), d[g]}
  <2>1. {"rules.ttl", "sparql_rules", "inferred-sparql.ttl"} \subseteq Files
    BY DerivedFileNames DEF Files
  <2> QED BY <2>1, WrittenOnly
<1> HIDE DEF e
<1>2. \A f \in {"rules.ttl", "sparql_rules"} :
         e[f] # Missing => \A a \in e[f] : a[1] = "rule"
  <2>1. TAKE f \in {"rules.ttl", "sparql_rules"}
  <2>2. CASE e[f] = d[f]
    BY <2>2 DEF RuleFiles
  <2>3. CASE e[f] = Made(f, d, in)
    BY <2>3, MadeRuleFiles
  <2> QED BY <1>1, <2>2, <2>3
<1>3. e["inferred-sparql.ttl"] # Missing =>
         \A a \in e["inferred-sparql.ttl"] :
            a[1] = "rule" \/ a \in Own("inferred-sparql.ttl")
  <2> DEFINE f == "inferred-sparql.ttl"
  <2>2. CASE e[f] = d[f]
    BY <2>2 DEF RuleFiles
  <2>3. CASE e[f] = Made(f, d, in)
    BY <2>3, MadeRuleFiles
  <2> QED BY <1>1, <2>2, <2>3
<1> QED BY <1>2, <1>3 DEF RuleFiles, e

LEMMA RuleFilesStages ==
    ASSUME NEW p \in DOMAIN Writes, NEW d, NEW in, DOMAIN d = Files, RuleFiles(d)
    PROVE  /\ \A k \in 0 .. Len(Writes[p]) : RuleFiles(Stages(p, d, in)[k])
           /\ RuleFiles(After(p, d, in))
<1> DEFINE n == Len(Writes[p])
           s == Stages(p, d, in)
<1>1. n \in Nat /\ \A k \in 0 .. n : DOMAIN s[k] = Files
  BY SameFiles
<1>2. /\ s[0] = d
      /\ \A k \in 1 .. n : s[k] = Written(p, k, s[k - 1], in)
  BY <1>1, StagesExist
<1> DEFINE S == {k \in 0 .. n : RuleFiles(s[k])}
<1>7. After(p, d, in) = s[n]
  BY DEF After
<1> HIDE DEF s, n
<1>3. 0 \in S
  BY <1>1, <1>2
<1>4. ASSUME NEW k \in 0 .. n, k < n, k \in S PROVE k + 1 \in S
  <2>1. k + 1 \in 1 .. n /\ (k + 1) - 1 = k /\ k + 1 \in 0 .. n
    BY <1>1, <1>4
  <2>2. s[k + 1] = Written(p, k + 1, s[k], in)
    BY <1>2, <2>1
  <2>3. RuleFiles(s[k + 1])
    BY <1>1, <1>4, <2>2, RuleFilesWritten
  <2> QED BY <2>1, <2>3
<1>5. 0 .. n \subseteq S
  <2> HIDE DEF S
  <2> QED BY <1>1, <1>3, <1>4, UpTo
<1>6. RuleFiles(s[n])
  BY <1>1, <1>5
<1> QED BY <1>5, <1>6, <1>7 DEF s, n

(* What each file is made from. *)

Late == {"governance_scorecard.csv", "toolkit_report.html",
         "compliance_summary.html"}

\* The files that settle file f when they have settled themselves.
Origins(f) ==
    IF f = "compliance_summary.html" THEN Sources(f) \cup {"enterprise.ttl"}
    ELSE IF f \in Measured THEN Sources(f)
    ELSE CASE f \in {"profile_recommendation.md", "enterprise-classified.ttl",
                     "rules.ttl", "sparql_rules"} -> {"enterprise.ttl"}
           [] f = "hierarchy-snapshot.tsv" -> {"enterprise-classified.ttl"}
           [] f = "_combined.ttl" -> Shapes \cup {"enterprise.ttl"}
           [] f = "enterprise-inferred.ttl" -> Ground
           [] f = "inferred-shacl.ttl" -> {"enterprise.ttl", "_combined.ttl"}
           [] f = "inferred-sparql.ttl" -> {"enterprise.ttl", "sparql_rules"}
           [] f \in {"materialised.ttl", "materialised-lineage.ttl",
                     "materialisation_report.md"} -> Ground \cup Engines
           [] f = "alignment.ttl" ->
                  Ground \cup {"drift.ttl", "tmf-sid-hierarchy.ttl"}
           [] OTHER -> {}

LEMMA FilesAre == Files = FromConstants \cup FromTables \cup DerivedFiles
<1>1. DerivedFiles \subseteq Files
  BY DerivedFileNames DEF Files, DerivedFiles
<1>2. /\ Listed(RunAndReport) = {"hierarchy-snapshot-prev.tsv",
                   "enterprise-classified.ttl", "hierarchy-snapshot.tsv"}
      /\ Listed(ExportRules) = {"rules.ttl", "sparql_rules"}
      /\ Listed(CombineShapes) = {"_combined.ttl"}
      /\ Listed(AlignmentOntology) = {"alignment.ttl"}
      /\ Listed(RunModularOwl) = {"master.ttl", "modules.json"}
      /\ Listed(Materialize) =
            {"enterprise-inferred.ttl", "inferred-shacl.ttl",
             "inferred-sparql.ttl", "materialised.ttl",
             "materialised-lineage.ttl", "materialisation_report.md"}
  BY DEF Listed, RunAndReport, ExportRules, CombineShapes, AlignmentOntology,
         RunModularOwl, Materialize
<1>3. /\ Listed(GenerateAbox) = {"instances.ttl"}
      /\ Listed(RunQualityReport) = {"ontology_quality.csv"}
      /\ Listed(RunSparqlTests) = {"sparql_cq_test_results.csv"}
      /\ Listed(RunCqTests) = {"cq_test_results.csv", "governance_scorecard.csv"}
      /\ Listed(GenerateReport) = {"toolkit_report.html"}
      /\ Listed(WriteSummary) = {"compliance_summary.html"}
  BY DEF Listed, GenerateAbox, RunQualityReport, RunSparqlTests, RunCqTests,
         GenerateReport, WriteSummary
<1>4. Derived = {"enterprise.ttl", "profile_recommendation.md"}
        \cup Listed(RunAndReport) \cup Listed(ExportRules)
        \cup Listed(CombineShapes) \cup Listed(Materialize)
        \cup Listed(AlignmentOntology) \cup Listed(RunModularOwl)
        \cup Listed(GenerateAbox) \cup Listed(RunQualityReport)
        \cup Listed(RunSparqlTests) \cup Listed(RunCqTests)
        \cup Listed(GenerateReport) \cup Listed(WriteSummary)
  BY DEF Derived
<1>5. Derived \subseteq DerivedFiles
  BY <1>2, <1>3, <1>4 DEF DerivedFiles
<1> QED BY <1>1, <1>5 DEF Files

\* A file made from settled files is settled.
LEMMA MadeSettled ==
    ASSUME NEW f \in Files, f # "governance_scorecard.csv", NEW d, NEW in,
           RuleFiles(d), \A g \in Origins(f) : Settled(g, d[g], in)
    PROVE  Settled(f, Made(f, d, in), in)
<1>1. CASE f \in FromConstants \cup FromTables
  BY <1>1, MadeApart
<1>2. CASE f \in {"enterprise.ttl", "hierarchy-snapshot-prev.tsv", "master.ttl",
                 "modules.json"}
  BY <1>2, MadeOntologySettled, SettledDerived
<1>3. CASE f \in {"profile_recommendation.md", "enterprise-classified.ttl",
                 "rules.ttl", "sparql_rules"}
  <2>1. Origins(f) = {"enterprise.ttl"}
    BY <1>3 DEF Origins, Measured
  <2>2. Settled("enterprise.ttl", d["enterprise.ttl"], in)
    BY <2>1
  <2>3. d["enterprise.ttl"] # Missing
    BY <2>2, SettledDerived DEF Keeps
  <2> QED BY <1>3, <2>2, <2>3, MadeProfileSettled, MadeClassifiedSettled,
             MadeRulesSettled
<1>4. CASE f = "hierarchy-snapshot.tsv"
  <2>1. Origins(f) = {"enterprise-classified.ttl"}
    BY <1>4 DEF Origins, Measured
  <2> QED BY <1>4, <2>1, MadeSnapshotSettled
<1>5. CASE f = "_combined.ttl"
  <2>1. Origins(f) = Shapes \cup {"enterprise.ttl"}
    BY <1>5 DEF Origins, Measured
  <2>2. d["enterprise.ttl"] # Missing
    BY <2>1, SettledDerived DEF Keeps
  <2> QED BY <1>5, <2>1, <2>2, MadeCombinedSettled
<1>6. CASE f = "enterprise-inferred.ttl"
  <2>1. Origins(f) = Ground
    BY <1>6 DEF Origins, Measured
  <2> QED BY <1>6, <2>1, MadeClosureSettled
<1>7. CASE f = "inferred-shacl.ttl"
  <2>1. Origins(f) = {"enterprise.ttl", "_combined.ttl"}
    BY <1>7 DEF Origins, Measured
  <2>2. d["enterprise.ttl"] # Missing
    BY <2>1, SettledDerived DEF Keeps
  <2> QED BY <1>7, <2>1, <2>2, MadeShaclSettled
<1>8. CASE f = "inferred-sparql.ttl"
  <2>1. Origins(f) = {"enterprise.ttl", "sparql_rules"}
    BY <1>8 DEF Origins, Measured
  <2>2. d["enterprise.ttl"] # Missing
    BY <2>1, SettledDerived DEF Keeps
  <2> QED BY <1>8, <2>1, <2>2, MadeConstructsSettled
<1>9. CASE f \in {"materialised.ttl", "materialised-lineage.ttl",
                 "materialisation_report.md"}
  <2>1. Origins(f) = Ground \cup Engines
    BY <1>9 DEF Origins, Measured
  <2> QED BY <1>9, <2>1, MadeMergedSettled
<1>10. CASE f = "alignment.ttl"
  <2>1. Origins(f) = Ground \cup {"drift.ttl", "tmf-sid-hierarchy.ttl"}
    BY <1>10 DEF Origins, Measured
  <2> QED BY <1>10, <2>1, MadeAlignmentSettled
<1>11. CASE f \in Measured
  <2>1. f # "compliance_summary.html" => Origins(f) = Sources(f)
    BY <1>11 DEF Origins
  <2>2. CASE f = "instances.ttl"
    BY <2>1, <2>2, MadeInstancesSettled DEF Sources
  <2>3. CASE f = "ontology_quality.csv"
    BY <2>1, <2>3, MadeQualitySettled DEF Sources
  <2>4. CASE f = "sparql_cq_test_results.csv"
    BY <2>1, <2>4, MadeTestedSettled DEF Sources
  <2>5. CASE f = "cq_test_results.csv"
    BY <2>1, <2>5, MadeAnswersSettled DEF Sources
  <2>6. CASE f = "toolkit_report.html"
    BY <2>1, <2>6, MadeReportSettled DEF Sources
  <2>7. CASE f = "compliance_summary.html"
    BY <2>7, MadeSummarySettled DEF Origins
  <2> QED BY <1>11, <2>2, <2>3, <2>4, <2>5, <2>6, <2>7 DEF Measured
<1>12. f \in FromConstants \cup FromTables \cup DerivedFiles
  BY FilesAre
<1>13. DerivedFiles =
         {"enterprise.ttl", "hierarchy-snapshot-prev.tsv", "master.ttl",
          "modules.json"}
         \cup {"profile_recommendation.md", "enterprise-classified.ttl",
               "rules.ttl", "sparql_rules"}
         \cup {"hierarchy-snapshot.tsv", "_combined.ttl",
               "enterprise-inferred.ttl", "inferred-shacl.ttl",
               "inferred-sparql.ttl", "alignment.ttl"}
         \cup {"materialised.ttl", "materialised-lineage.ttl",
               "materialisation_report.md"}
         \cup Measured \cup {"governance_scorecard.csv"}
  BY DEF DerivedFiles, Measured
<1> QED BY <1>1, <1>2, <1>3, <1>4, <1>5, <1>6, <1>7, <1>8, <1>9, <1>10, <1>11,
           <1>12, <1>13

(* What each phase writes. *)

LEMMA ListedJoin ==
    ASSUME NEW S, NEW r \in Seq(S), NEW t \in Seq(S)
    PROVE  Listed(r \o t) = Listed(r) \cup Listed(t)
<1>1. /\ r \o t \in Seq(S)
      /\ Len(r \o t) = Len(r) + Len(t)
      /\ \A i \in 1 .. Len(r) + Len(t) :
            (r \o t)[i] = IF i <= Len(r) THEN r[i] ELSE t[i - Len(r)]
  BY ConcatProperties
<1> DEFINE q == r \o t
           m == Len(r)
           n == Len(t)
<1>2. /\ m \in Nat /\ n \in Nat
      /\ DOMAIN r = 1 .. m /\ DOMAIN t = 1 .. n /\ DOMAIN q = 1 .. m + n
  BY <1>1, LenProperties
<1>3. \A i \in 1 .. m + n : q[i] = IF i <= m THEN r[i] ELSE t[i - m]
  BY <1>1
<1> HIDE DEF q, m, n
<1>4. ASSUME NEW i \in 1 .. m + n PROVE q[i] \in Listed(r) \cup Listed(t)
  <2>1. CASE i <= m
    BY <1>2, <1>3, <2>1 DEF Listed
  <2>2. CASE ~(i <= m)
    <3>1. i - m \in 1 .. n
      BY <1>2, <2>2
    <3> QED BY <1>2, <1>3, <2>2, <3>1 DEF Listed
  <2> QED BY <2>1, <2>2
<1>5. ASSUME NEW i \in 1 .. m PROVE r[i] \in Listed(q)
  <2>1. i \in 1 .. m + n /\ i <= m
    BY <1>2
  <2> QED BY <1>2, <1>3, <2>1 DEF Listed
<1>6. ASSUME NEW i \in 1 .. n PROVE t[i] \in Listed(q)
  <2>1. m + i \in 1 .. m + n /\ ~(m + i <= m) /\ (m + i) - m = i
    BY <1>2
  <2>2. q[m + i] = t[i]
    BY <1>3, <2>1
  <2> QED BY <1>2, <2>1, <2>2 DEF Listed
<1>7. Listed(q) \subseteq Listed(r) \cup Listed(t)
  BY <1>2, <1>4 DEF Listed
<1>8. Listed(r) \subseteq Listed(q) /\ Listed(t) \subseteq Listed(q)
  BY <1>2, <1>5, <1>6 DEF Listed
<1> QED BY <1>7, <1>8 DEF q

LEMMA ListedThree ==
    ASSUME NEW S, NEW r \in Seq(S), NEW t \in Seq(S), NEW u \in Seq(S)
    PROVE  Listed((r \o t) \o u) = (Listed(r) \cup Listed(t)) \cup Listed(u)
<1> DEFINE q == r \o t
<1>1. q \in Seq(S) /\ Listed(q) = Listed(r) \cup Listed(t)
  BY ListedJoin, ConcatProperties
<1> HIDE DEF q
<1>2. Listed(q \o u) = Listed(q) \cup Listed(u)
  BY <1>1, ListedJoin
<1> QED BY <1>1, <1>2 DEF q

LEMMA GeneratorsOfFiles ==
    /\ GenerateOntology \in Seq(Files) /\ RunAndReport \in Seq(Files)
    /\ ExportRules \in Seq(Files) /\ CombineShapes \in Seq(Files)
    /\ Materialize \in Seq(Files) /\ SidHierarchy \in Seq(Files)
    /\ TmfJsonld \in Seq(Files) /\ TmfCoverage \in Seq(Files)
    /\ TmfQuestions \in Seq(Files) /\ ConflictReport \in Seq(Files)
    /\ ConflictShacl \in Seq(Files) /\ ConflictTools \in Seq(Files)
    /\ AlignmentOntology \in Seq(Files) /\ FederationConfig \in Seq(Files)
    /\ RunCqTests \in Seq(Files) /\ RunSparqlTests \in Seq(Files)
    /\ GenerateReport \in Seq(Files) /\ WriteSummary \in Seq(Files)
<1>1. GenerateOntology \in Seq(Files) /\ RunAndReport \in Seq(Files)
  BY ConstantFileNames, TableFileNames, DerivedFileNames
     DEF Files, GenerateOntology, RunAndReport
<1>2. /\ ExportRules \in Seq(Files) /\ CombineShapes \in Seq(Files)
      /\ Materialize \in Seq(Files) /\ AlignmentOntology \in Seq(Files)
  BY DerivedFileNames
     DEF Files, ExportRules, CombineShapes, Materialize, AlignmentOntology
<1>3. /\ SidHierarchy \in Seq(Files) /\ TmfJsonld \in Seq(Files)
      /\ TmfCoverage \in Seq(Files) /\ TmfQuestions \in Seq(Files)
      /\ ConflictReport \in Seq(Files) /\ ConflictShacl \in Seq(Files)
      /\ ConflictTools \in Seq(Files) /\ FederationConfig \in Seq(Files)
  BY ConstantFileNames, TableFileNames
     DEF Files, SidHierarchy, TmfJsonld, TmfCoverage, TmfQuestions,
         ConflictReport, ConflictShacl, ConflictTools, FederationConfig
<1>4. /\ RunCqTests \in Seq(Files) /\ RunSparqlTests \in Seq(Files)
      /\ GenerateReport \in Seq(Files) /\ WriteSummary \in Seq(Files)
  BY DerivedFileNames
     DEF Files, RunCqTests, RunSparqlTests, GenerateReport, WriteSummary
<1> QED BY <1>1, <1>2, <1>3, <1>4

LEMMA PhasesList ==
    /\ Listed(Writes["p1"]) = {}
    /\ Listed(Writes["p2"]) =
          {"enterprise.ttl", "profile_recommendation.md", "events.ttl",
           "provenance.ttl", "dimensions.ttl", "hierarchy-snapshot-prev.tsv",
           "enterprise-classified.ttl", "hierarchy-snapshot.tsv"}
    /\ Listed(Writes["p3"]) = {"enterprise-shapes.ttl", "agent-gate.ttl"}
    /\ Listed(Writes["reason"]) =
          {"rules.ttl", "sparql_rules", "_combined.ttl",
           "enterprise-inferred.ttl", "inferred-shacl.ttl",
           "inferred-sparql.ttl", "materialised.ttl",
           "materialised-lineage.ttl", "materialisation_report.md"}
    /\ Listed(Writes["p4"]) =
          {"logical_physical_map.csv", "semantic_loss_report.csv",
           "orphan_candidates.csv"}
    /\ Listed(Writes["p5"]) =
          {"enterprise-context.json", "mcp-tool-definitions.json",
           "enterprise-skos.ttl"}
    /\ Listed(Writes["tmf"]) =
          {"tmf-sid-hierarchy.ttl", "tmf-context.json",
           "tmf_api_coverage.csv", "tmf_cq_test_results.csv"}
    /\ Listed(Writes["conflict"]) =
          {"conflict_report.json", "conflict-resolution-shapes.ttl",
           "conflict-mcp-tools.json"}
    /\ Listed(Writes["alignment"]) = {"alignment.ttl", "federation-config.ttl"}
    /\ Listed(Writes["runtime"]) = {"runtime-mcp-tools.json"}
    /\ Listed(Writes["drift"]) =
          {"drift.ttl", "drift-shapes.ttl", "drift-skos.ttl"}
    /\ Listed(Writes["templates"]) = {"template.ttl", "cq_template.csv"}
    /\ Listed(Writes["modular"]) = {"master.ttl", "modules.json"}
    /\ Listed(Writes["tmf630"]) =
          {"tmf630-task-bulk.ttl", "tmf630-task-mcp-tools.json",
           "tmf630_task_cq_results.csv"}
    /\ Listed(Writes["abox"]) = {"instances.ttl"}
    /\ Listed(Writes["quality"]) = {"ontology_quality.csv"}
    /\ Listed(Writes["sparql"]) = {"sparql_cq_test_results.csv"}
    /\ Listed(Writes["test"]) =
          {"cq_test_results.csv", "governance_scorecard.csv",
           "sparql_cq_test_results.csv"}
    /\ Listed(Writes["report"]) =
          {"toolkit_report.html", "compliance_summary.html"}
<1>1. Listed(<<>>) = {}
  BY DEF Listed
<1>2. /\ Listed(GenerateOntology) =
            {"enterprise.ttl", "profile_recommendation.md", "events.ttl",
             "provenance.ttl", "dimensions.ttl"}
      /\ Listed(RunAndReport) =
            {"hierarchy-snapshot-prev.tsv", "enterprise-classified.ttl",
             "hierarchy-snapshot.tsv"}
      /\ Listed(GenerateShacl) = {"enterprise-shapes.ttl", "agent-gate.ttl"}
      /\ Listed(ExportRules) = {"rules.ttl", "sparql_rules"}
      /\ Listed(CombineShapes) = {"_combined.ttl"}
      /\ Listed(Materialize) =
            {"enterprise-inferred.ttl", "inferred-shacl.ttl",
             "inferred-sparql.ttl", "materialised.ttl",
             "materialised-lineage.ttl", "materialisation_report.md"}
  BY DEF Listed, GenerateOntology, RunAndReport, GenerateShacl, ExportRules,
         CombineShapes, Materialize
<1>3. /\ Listed(GenerateMapping) =
            {"logical_physical_map.csv", "semantic_loss_report.csv",
             "orphan_candidates.csv"}
      /\ Listed(GenerateJsonld) =
            {"enterprise-context.json", "mcp-tool-definitions.json",
             "enterprise-skos.ttl"}
      /\ Listed(SidHierarchy) = {"tmf-sid-hierarchy.ttl"}
      /\ Listed(TmfJsonld) = {"tmf-context.json"}
      /\ Listed(TmfCoverage) = {"tmf_api_coverage.csv"}
      /\ Listed(TmfQuestions) = {"tmf_cq_test_results.csv"}
      /\ Listed(ConflictReport) = {"conflict_report.json"}
      /\ Listed(ConflictShacl) = {"conflict-resolution-shapes.ttl"}
      /\ Listed(ConflictTools) = {"conflict-mcp-tools.json"}
  BY DEF Listed, GenerateMapping, GenerateJsonld, SidHierarchy, TmfJsonld,
         TmfCoverage, TmfQuestions, ConflictReport, ConflictShacl,
         ConflictTools
<1>4. /\ Listed(AlignmentOntology) = {"alignment.ttl"}
      /\ Listed(FederationConfig) = {"federation-config.ttl"}
      /\ Listed(RuntimeTools) = {"runtime-mcp-tools.json"}
      /\ Listed(RunDriftDetection) =
            {"drift.ttl", "drift-shapes.ttl", "drift-skos.ttl"}
      /\ Listed(RunTemplates) = {"template.ttl", "cq_template.csv"}
      /\ Listed(RunModularOwl) = {"master.ttl", "modules.json"}
      /\ Listed(Tmf630TaskPhase) =
            {"tmf630-task-bulk.ttl", "tmf630-task-mcp-tools.json",
             "tmf630_task_cq_results.csv"}
  BY DEF Listed, AlignmentOntology, FederationConfig, RuntimeTools,
         RunDriftDetection, RunTemplates, RunModularOwl, Tmf630TaskPhase
<1>5. /\ Listed(GenerateAbox) = {"instances.ttl"}
      /\ Listed(RunQualityReport) = {"ontology_quality.csv"}
      /\ Listed(RunSparqlTests) = {"sparql_cq_test_results.csv"}
      /\ Listed(RunCqTests) = {"cq_test_results.csv", "governance_scorecard.csv"}
      /\ Listed(GenerateReport) = {"toolkit_report.html"}
      /\ Listed(WriteSummary) = {"compliance_summary.html"}
  BY DEF Listed, GenerateAbox, RunQualityReport, RunSparqlTests, RunCqTests,
         GenerateReport, WriteSummary
<1>6. \A r, t \in Seq(Files) : Listed(r \o t) = Listed(r) \cup Listed(t)
  BY ListedJoin
<1>7. \A r, t \in Seq(Files) : r \o t \in Seq(Files)
  BY ConcatProperties
<1>8. Listed(Phase2) = Listed(GenerateOntology) \cup Listed(RunAndReport)
  BY <1>6, GeneratorsOfFiles DEF Phase2
<1>9. Listed(PhaseReason)
        = (Listed(ExportRules) \cup Listed(CombineShapes)) \cup Listed(Materialize)
  BY GeneratorsOfFiles, ListedThree DEF PhaseReason
<1>10. Listed(PhaseTmf)
        = ((Listed(SidHierarchy) \cup Listed(TmfJsonld)) \cup Listed(TmfCoverage))
             \cup Listed(TmfQuestions)
  <2> DEFINE q == (SidHierarchy \o TmfJsonld) \o TmfCoverage
  <2>1. q \in Seq(Files)
    BY <1>7, GeneratorsOfFiles
  <2>2. Listed(q) = (Listed(SidHierarchy) \cup Listed(TmfJsonld)) \cup Listed(TmfCoverage)
    BY GeneratorsOfFiles, ListedThree
  <2>3. PhaseTmf = q \o TmfQuestions
    BY DEF PhaseTmf
  <2> HIDE DEF q
  <2>4. Listed(q \o TmfQuestions) = Listed(q) \cup Listed(TmfQuestions)
    BY <1>6, <2>1, GeneratorsOfFiles
  <2> QED BY <2>2, <2>3, <2>4
<1>11. Listed(PhaseConflict)
        = (Listed(ConflictReport) \cup Listed(ConflictShacl)) \cup Listed(ConflictTools)
  BY GeneratorsOfFiles, ListedThree DEF PhaseConflict
<1>12. /\ Listed(PhaseAlignment)
            = Listed(AlignmentOntology) \cup Listed(FederationConfig)
       /\ Listed(PhaseTest) = Listed(RunCqTests) \cup Listed(RunSparqlTests)
       /\ Listed(PhaseReport) = Listed(GenerateReport) \cup Listed(WriteSummary)
  BY <1>6, GeneratorsOfFiles DEF PhaseAlignment, PhaseTest, PhaseReport
<1>13. /\ Listed(Writes["p1"]) = {}
       /\ Listed(Writes["p2"]) = Listed(Phase2)
       /\ Listed(Writes["p3"]) = Listed(GenerateShacl)
       /\ Listed(Writes["reason"]) = Listed(PhaseReason)
       /\ Listed(Writes["p4"]) = Listed(GenerateMapping)
       /\ Listed(Writes["p5"]) = Listed(GenerateJsonld)
       /\ Listed(Writes["tmf"]) = Listed(PhaseTmf)
  BY <1>1 DEF Writes
<1>14. /\ Listed(Writes["conflict"]) = Listed(PhaseConflict)
       /\ Listed(Writes["alignment"]) = Listed(PhaseAlignment)
       /\ Listed(Writes["runtime"]) = Listed(RuntimeTools)
       /\ Listed(Writes["drift"]) = Listed(RunDriftDetection)
       /\ Listed(Writes["templates"]) = Listed(RunTemplates)
       /\ Listed(Writes["modular"]) = Listed(RunModularOwl)
       /\ Listed(Writes["tmf630"]) = Listed(Tmf630TaskPhase)
  BY DEF Writes
<1>15. /\ Listed(Writes["abox"]) = Listed(GenerateAbox)
       /\ Listed(Writes["quality"]) = Listed(RunQualityReport)
       /\ Listed(Writes["sparql"]) = Listed(RunSparqlTests)
       /\ Listed(Writes["test"]) = Listed(PhaseTest)
       /\ Listed(Writes["report"]) = Listed(PhaseReport)
  BY DEF Writes
<1>21. /\ Listed(Writes["p1"]) = {}
       /\ Listed(Writes["p2"]) =
          {"enterprise.ttl", "profile_recommendation.md", "events.ttl",
           "provenance.ttl", "dimensions.ttl", "hierarchy-snapshot-prev.tsv",
           "enterprise-classified.ttl", "hierarchy-snapshot.tsv"}
       /\ Listed(Writes["p3"]) = {"enterprise-shapes.ttl", "agent-gate.ttl"}
       /\ Listed(Writes["p4"]) =
          {"logical_physical_map.csv", "semantic_loss_report.csv",
           "orphan_candidates.csv"}
       /\ Listed(Writes["p5"]) =
          {"enterprise-context.json", "mcp-tool-definitions.json",
           "enterprise-skos.ttl"}
  BY <1>2, <1>3, <1>8, <1>13
<1>22. /\ Listed(Writes["reason"]) =
          {"rules.ttl", "sparql_rules", "_combined.ttl",
           "enterprise-inferred.ttl", "inferred-shacl.ttl",
           "inferred-sparql.ttl", "materialised.ttl",
           "materialised-lineage.ttl", "materialisation_report.md"}
       /\ Listed(Writes["tmf"]) =
          {"tmf-sid-hierarchy.ttl", "tmf-context.json",
           "tmf_api_coverage.csv", "tmf_cq_test_results.csv"}
  BY <1>2, <1>3, <1>9, <1>10, <1>13
<1>23. /\ Listed(Writes["conflict"]) =
          {"conflict_report.json", "conflict-resolution-shapes.ttl",
           "conflict-mcp-tools.json"}
       /\ Listed(Writes["alignment"]) = {"alignment.ttl", "federation-config.ttl"}
  BY <1>3, <1>4, <1>11, <1>12, <1>14
<1>24. /\ Listed(Writes["test"]) =
          {"cq_test_results.csv", "governance_scorecard.csv",
           "sparql_cq_test_results.csv"}
       /\ Listed(Writes["report"]) =
          {"toolkit_report.html", "compliance_summary.html"}
  BY <1>5, <1>12, <1>15
<1> QED BY <1>4, <1>5, <1>14, <1>15, <1>21, <1>22, <1>23, <1>24

(* From settled files to settled files, along a phase. *)

Before(w, k) == {w[i] : i \in 1 .. k - 1}

\* Of the files w makes, those of T are made from files of B
\* and from files of T that w has made before them.
Ready(w, B, T) ==
    \A k \in 1 .. Len(w) : w[k] \in T =>
        /\ w[k] # "governance_scorecard.csv"
        /\ Origins(w[k]) \subseteq B \cup (Before(w, k) \cap T)

LEMMA ReadyMore ==
    ASSUME NEW w, NEW B, NEW C, NEW T, B \subseteq C, Ready(w, B, T)
    PROVE  Ready(w, C, T)
BY DEF Ready

LEMMA ReadyJoin ==
    ASSUME NEW S, NEW r \in Seq(S), NEW t \in Seq(S), NEW B, NEW T,
           Ready(r, B, T), Ready(t, B \cup (Listed(r) \cap T), T)
    PROVE  Ready(r \o t, B, T)
<1>1. /\ Len(r \o t) = Len(r) + Len(t)
      /\ \A i \in 1 .. Len(r) + Len(t) :
            (r \o t)[i] = IF i <= Len(r) THEN r[i] ELSE t[i - Len(r)]
  BY ConcatProperties
<1> DEFINE q == r \o t
           m == Len(r)
           n == Len(t)
<1>2. m \in Nat /\ n \in Nat /\ DOMAIN r = 1 .. m
  BY LenProperties
<1>3. Len(q) = m + n /\ \A i \in 1 .. m + n : q[i] = IF i <= m THEN r[i] ELSE t[i - m]
  BY <1>1
<1>4. /\ \A k \in 1 .. m : r[k] \in T =>
            /\ r[k] # "governance_scorecard.csv"
            /\ Origins(r[k]) \subseteq B \cup (Before(r, k) \cap T)
      /\ \A k \in 1 .. n : t[k] \in T =>
            /\ t[k] # "governance_scorecard.csv"
            /\ Origins(t[k]) \subseteq
                  (B \cup (Listed(r) \cap T)) \cup (Before(t, k) \cap T)
  BY DEF Ready
<1> HIDE DEF q, m, n
<1>5. ASSUME NEW k \in 1 .. m + n, q[k] \in T
      PROVE  /\ q[k] # "governance_scorecard.csv"
             /\ Origins(q[k]) \subseteq B \cup (Before(q, k) \cap T)
  <2>1. CASE k <= m
    <3>1. q[k] = r[k] /\ k \in 1 .. m
      BY <1>2, <1>3, <2>1
    <3>2. Before(r, k) = Before(q, k)
      <4>1. \A i \in 1 .. k - 1 : i \in 1 .. m + n /\ i <= m
        BY <1>2, <2>1
      <4>2. \A i \in 1 .. k - 1 : q[i] = r[i]
        BY <1>3, <4>1
      <4> QED BY <4>2 DEF Before
    <3> QED BY <1>4, <1>5, <3>1, <3>2
  <2>2. CASE ~(k <= m)
    <3> DEFINE j == k - m
    <3>1. j \in 1 .. n /\ q[k] = t[j]
      BY <1>2, <1>3, <2>2
    <3>2. Listed(r) \subseteq Before(q, k)
      <4>1. ASSUME NEW i \in 1 .. m PROVE r[i] \in Before(q, k)
        <5>1. i \in 1 .. m + n /\ i <= m /\ i \in 1 .. k - 1
          BY <1>2, <2>2
        <5>2. q[i] = r[i]
          BY <1>3, <5>1
        <5> QED BY <5>1, <5>2 DEF Before
      <4> QED BY <1>2, <4>1 DEF Listed
    <3>3. Before(t, j) \subseteq Before(q, k)
      <4>1. ASSUME NEW i \in 1 .. j - 1 PROVE t[i] \in Before(q, k)
        <5>1. m + i \in 1 .. m + n /\ ~(m + i <= m) /\ m + i \in 1 .. k - 1
              /\ (m + i) - m = i
          BY <1>2, <2>2
        <5>2. q[m + i] = t[i]
          BY <1>3, <5>1
        <5> QED BY <5>1, <5>2 DEF Before
      <4> QED BY <4>1 DEF Before
    <3> HIDE DEF j
    <3>4. /\ t[j] # "governance_scorecard.csv"
          /\ Origins(t[j]) \subseteq
                (B \cup (Listed(r) \cap T)) \cup (Before(t, j) \cap T)
      BY <1>4, <1>5, <3>1
    <3> QED BY <3>1, <3>2, <3>3, <3>4
  <2> QED BY <2>1, <2>2
<1>6. Ready(q, B, T)
  BY <1>3, <1>5 DEF Ready
<1> QED BY <1>6 DEF q

\* Files that settle whatever the others hold.
Free == FromConstants \cup FromTables \cup
            {"enterprise.ttl", "hierarchy-snapshot-prev.tsv", "master.ttl",
             "modules.json"}

LEMMA FreeOrigins ==
    \A f \in Free : Origins(f) = {} /\ f # "governance_scorecard.csv"
<1>1. \A f \in DerivedFiles : f \notin FromConstants /\ f \notin FromTables
  BY DerivedApart
<1>2. TAKE f \in Free
<1>3. CASE f \in FromConstants \cup FromTables
  <2>1. f \notin DerivedFiles
    BY <1>1, <1>3
  <2>2. f \notin Measured /\ f # "compliance_summary.html"
    BY <2>1 DEF Measured, DerivedFiles
  <2> QED BY <2>1, <2>2 DEF Origins, DerivedFiles
<1>4. CASE f \in {"enterprise.ttl", "hierarchy-snapshot-prev.tsv", "master.ttl",
                  "modules.json"}
  BY <1>4 DEF Origins, Measured
<1> QED BY <1>3, <1>4 DEF Free

LEMMA ReadyFree ==
    ASSUME NEW w, NEW B, NEW T, Len(w) \in Nat, DOMAIN w = 1 .. Len(w),
           Listed(w) \cap T \subseteq Free
    PROVE  Ready(w, B, T)
<1>1. ASSUME NEW k \in 1 .. Len(w), w[k] \in T PROVE w[k] \in Free
  BY <1>1 DEF Listed
<1> QED BY <1>1, FreeOrigins DEF Ready

\* A phase settles the files it is ready to make.
LEMMA PhaseSettles ==
    ASSUME NEW p \in DOMAIN Writes, NEW d, NEW in, NEW B, NEW T,
           DOMAIN d = Files, RuleFiles(d), B \subseteq T, T \subseteq Files,
           \A f \in B : Settled(f, d[f], in), Ready(Writes[p], B, T)
    PROVE  /\ \A k \in 0 .. Len(Writes[p]) : \A f \in B :
                 Settled(f, Stages(p, d, in)[k][f], in)
           /\ \A f \in B \cup (Listed(Writes[p]) \cap T) :
                 Settled(f, After(p, d, in)[f], in)
<1> DEFINE w == Writes[p]
           n == Len(w)
           s == Stages(p, d, in)
           Fine(k) == \A f \in B \cup (Before(w, k + 1) \cap T) :
                         Settled(f, s[k][f], in)
           S == {k \in 0 .. n : Fine(k)}
<1>1. n \in Nat /\ \A k \in 0 .. n : DOMAIN s[k] = Files
  BY SameFiles
<1>2. /\ s[0] = d
      /\ \A k \in 1 .. n : s[k] = Written(p, k, s[k - 1], in)
  BY <1>1, StagesExist
<1>3. \A k \in 0 .. n : RuleFiles(s[k])
  BY RuleFilesStages
<1>4. After(p, d, in) = s[n]
  BY DEF After
<1>5. w \in Seq(Files) /\ DOMAIN w = 1 .. n
  BY PhasesOfFiles
<1>6. \A k \in 1 .. n : w[k] \in T =>
            /\ w[k] # "governance_scorecard.csv"
            /\ Origins(w[k]) \subseteq B \cup (Before(w, k) \cap T)
  BY DEF Ready
<1> HIDE DEF s, n
<1>7. 0 \in S
  <2>1. Before(w, 0 + 1) = {}
    BY DEF Before
  <2> QED BY <1>1, <1>2, <2>1
<1>8. ASSUME NEW k \in 0 .. n, k < n, k \in S PROVE k + 1 \in S
  <2> DEFINE f == w[k + 1]
  <2>1. k + 1 \in 1 .. n /\ (k + 1) - 1 = k /\ k + 1 \in 0 .. n
    BY <1>1, <1>8
  <2>2. s[k + 1] = Written(p, k + 1, s[k], in)
    BY <1>2, <2>1
  <2>3. \A g \in Files : s[k + 1][g] = IF g = f THEN Made(f, s[k], in) ELSE s[k][g]
    BY <1>1, <2>2, WrittenOnly
  <2>4. Fine(k)
    BY <1>8
  <2>5. f \in T => Settled(f, Made(f, s[k], in), in)
    <3>1. SUFFICES ASSUME f \in T PROVE Settled(f, Made(f, s[k], in), in)
      OBVIOUS
    <3>2. f \in Files /\ f # "governance_scorecard.csv"
          /\ Origins(f) \subseteq B \cup (Before(w, k + 1) \cap T)
      BY <1>6, <2>1, <3>1
    <3>3. \A g \in Origins(f) : Settled(g, s[k][g], in)
      BY <2>4, <3>2
    <3> HIDE DEF f
    <3> QED BY <1>3, <3>2, <3>3, MadeSettled
  <2>6. Before(w, (k + 1) + 1) \subseteq Before(w, k + 1) \cup {f}
    <3>1. \A i \in 1 .. ((k + 1) + 1) - 1 : i \in 1 .. (k + 1) - 1 \/ i = k + 1
      BY <2>1
    <3> QED BY <3>1 DEF Before
  <2>7. Fine(k + 1)
    <3>1. TAKE g \in B \cup (Before(w, (k + 1) + 1) \cap T)
    <3>2. g \in T /\ g \in Files
      OBVIOUS
    <3>3. CASE g = f
      BY <2>3, <2>5, <3>2, <3>3
    <3>4. CASE g # f
      <4>1. g \in B \cup (Before(w, k + 1) \cap T)
        BY <2>6, <3>4
      <4>2. Settled(g, s[k][g], in)
        BY <2>4, <4>1
      <4> QED BY <2>3, <3>2, <3>4, <4>2
    <3> QED BY <3>3, <3>4
  <2> QED BY <2>1, <2>7
<1>9. 0 .. n \subseteq S
  <2> HIDE DEF S
  <2> QED BY <1>1, <1>7, <1>8, UpTo
<1>10. \A k \in 0 .. n : Fine(k)
  BY <1>9
<1>11. \A k \in 0 .. n : \A f \in B : Settled(f, s[k][f], in)
  BY <1>10
<1>12. Before(w, n + 1) = Listed(w)
  <2>1. (n + 1) - 1 = n
    BY <1>1
  <2> QED BY <1>5, <2>1 DEF Before, Listed
<1>13. n \in 0 .. n
  BY <1>1
<1>14. \A f \in B \cup (Listed(w) \cap T) : Settled(f, s[n][f], in)
  <2> HIDE DEF w
  <2> QED BY <1>10, <1>12, <1>13
<1> QED BY <1>4, <1>11, <1>14 DEF s, n

\* All files but those that take a second or a third round.
Early == Files \ Late

LEMMA EarlyAre ==
    /\ FromConstants \subseteq Early
    /\ FromTables \subseteq Early
    /\ DerivedFiles \ Late \subseteq Early
BY FilesAre, DerivedApart DEF Early, Late, DerivedFiles

LEMMA OriginsAre ==
    /\ \A f \in {"profile_recommendation.md", "enterprise-classified.ttl",
                 "rules.ttl", "sparql_rules"} : Origins(f) = {"enterprise.ttl"}
    /\ Origins("hierarchy-snapshot.tsv") = {"enterprise-classified.ttl"}
    /\ Origins("_combined.ttl") = Shapes \cup {"enterprise.ttl"}
    /\ Origins("enterprise-inferred.ttl") = Ground
    /\ Origins("inferred-shacl.ttl") = {"enterprise.ttl", "_combined.ttl"}
    /\ Origins("inferred-sparql.ttl") = {"enterprise.ttl", "sparql_rules"}
    /\ \A f \in {"materialised.ttl", "materialised-lineage.ttl",
                 "materialisation_report.md"} : Origins(f) = Ground \cup Engines
    /\ Origins("alignment.ttl") =
          Ground \cup {"drift.ttl", "tmf-sid-hierarchy.ttl"}
    /\ Origins("instances.ttl") = Ground \cup {"logical_physical_map.csv"}
    /\ Origins("ontology_quality.csv") = Authored
    /\ Origins("sparql_cq_test_results.csv") = SparqlTested
    /\ Origins("cq_test_results.csv") = Ground
    /\ Origins("toolkit_report.html") = Reported
    /\ Origins("compliance_summary.html") =
          Shapes \cup {"_combined.ttl", "sparql_cq_test_results.csv",
                       "governance_scorecard.csv"} \cup {"enterprise.ttl"}
BY DEF Origins, Sources, Measured

LEMMA ReadyOntology == Ready(Phase2, {}, Early)
<1> DEFINE w == <<"enterprise.ttl", "profile_recommendation.md", "events.ttl",
                  "provenance.ttl", "dimensions.ttl",
                  "hierarchy-snapshot-prev.tsv", "enterprise-classified.ttl",
                  "hierarchy-snapshot.tsv">>
<1>1. Phase2 = w
  BY Phase2Files
<1>2. Len(w) = 8 /\ w[1] = "enterprise.ttl" /\ w[2] = "profile_recommendation.md"
      /\ w[3] = "events.ttl" /\ w[4] = "provenance.ttl"
      /\ w[5] = "dimensions.ttl" /\ w[6] = "hierarchy-snapshot-prev.tsv"
      /\ w[7] = "enterprise-classified.ttl" /\ w[8] = "hierarchy-snapshot.tsv"
  OBVIOUS
<1> HIDE DEF w
<1>3. {"enterprise.ttl", "enterprise-classified.ttl"} \subseteq Early
  BY EarlyAre DEF DerivedFiles, Late
<1>4. "enterprise.ttl" \in Before(w, 2) \cap Early
      /\ "enterprise.ttl" \in Before(w, 7) \cap Early
      /\ "enterprise-classified.ttl" \in Before(w, 8) \cap Early
  <2>1. 1 \in 1 .. 2 - 1 /\ 1 \in 1 .. 7 - 1 /\ 7 \in 1 .. 8 - 1
    OBVIOUS
  <2> QED BY <1>2, <1>3, <2>1 DEF Before
<1>5. {w[1], w[3], w[4], w[5], w[6]} \subseteq Free
  BY <1>2, ConstantFileNames, TableFileNames DEF Free
<1>6. {w[2], w[7], w[8]} \cap {"governance_scorecard.csv"} = {}
  BY <1>2
<1>7. ASSUME NEW k \in 1 .. 8
      PROVE  /\ w[k] # "governance_scorecard.csv"
             /\ Origins(w[k]) \subseteq Before(w, k) \cap Early
  <2>1. CASE k \in {1, 3, 4, 5, 6}
    BY <1>5, <2>1, FreeOrigins
  <2>2. CASE k = 2
    BY <1>2, <1>4, <1>6, <2>2, OriginsAre
  <2>3. CASE k = 7
    BY <1>2, <1>4, <1>6, <2>3, OriginsAre
  <2>4. CASE k = 8
    BY <1>2, <1>4, <1>6, <2>4, OriginsAre
  <2> QED BY <2>1, <2>2, <2>3, <2>4
<1>8. Ready(w, {}, Early)
  BY <1>2, <1>7 DEF Ready
<1> QED BY <1>1, <1>8

LEMMA ReadyRules ==
    ASSUME NEW B, "enterprise.ttl" \in B
    PROVE  Ready(ExportRules, B, Early)
BY OriginsAre DEF ExportRules, Ready

LEMMA ReadyCombined ==
    ASSUME NEW B, Shapes \cup {"enterprise.ttl"} \subseteq B
    PROVE  Ready(CombineShapes, B, Early)
BY OriginsAre DEF CombineShapes, Ready

LEMMA ReadyMaterialize ==
    ASSUME NEW B, Ground \cup {"_combined.ttl", "sparql_rules"} \subseteq B
    PROVE  Ready(Materialize, B, Early)
<1> DEFINE w == Materialize
<1>1. Len(w) = 6 /\ w[1] = "enterprise-inferred.ttl" /\ w[2] = "inferred-shacl.ttl"
      /\ w[3] = "inferred-sparql.ttl" /\ w[4] = "materialised.ttl"
      /\ w[5] = "materialised-lineage.ttl" /\ w[6] = "materialisation_report.md"
  BY DEF Materialize
<1> HIDE DEF w
<1>2. Engines = {"_combined.ttl", "sparql_rules"} \cup {w[1], w[2], w[3]}
  BY <1>1 DEF Engines
<1>3. {w[1], w[2], w[3]} \subseteq Early
  BY <1>1, EarlyAre DEF DerivedFiles, Late
<1>4. ASSUME NEW k \in {4, 5, 6}
      PROVE  Engines \subseteq B \cup (Before(w, k) \cap Early)
  <2>1. 1 \in 1 .. k - 1 /\ 2 \in 1 .. k - 1 /\ 3 \in 1 .. k - 1
    OBVIOUS
  <2>2. {w[1], w[2], w[3]} \subseteq Before(w, k) \cap Early
    BY <1>3, <2>1 DEF Before
  <2> QED BY <1>2, <2>2
<1>5. "enterprise.ttl" \in Ground
  BY DEF Ground
<1>6. ASSUME NEW k \in 1 .. 6
      PROVE  /\ w[k] # "governance_scorecard.csv"
             /\ Origins(w[k]) \subseteq B \cup (Before(w, k) \cap Early)
  <2>1. CASE k = 1
    BY <1>1, <2>1, OriginsAre
  <2>2. CASE k = 2
    BY <1>1, <1>5, <2>2, OriginsAre
  <2>3. CASE k = 3
    BY <1>1, <1>5, <2>3, OriginsAre
  <2>4. CASE k \in {4, 5, 6}
    <3>1. w[k] \in {"materialised.ttl", "materialised-lineage.ttl",
                    "materialisation_report.md"}
      BY <1>1, <2>4
    <3>2. Origins(w[k]) = Ground \cup Engines
      BY <3>1, OriginsAre
    <3> QED BY <1>4, <2>4, <3>1, <3>2
  <2> QED BY <2>1, <2>2, <2>3, <2>4
<1>7. Ready(w, B, Early)
  BY <1>1, <1>6 DEF Ready
<1> QED BY <1>7 DEF w

LEMMA ReadyReason ==
    ASSUME NEW B, Ground \cup (Shapes \ {"rules.ttl"}) \subseteq B
    PROVE  Ready(PhaseReason, B, Early)
<1> DEFINE r == ExportRules
           t == CombineShapes
           u == Materialize
           C == B \cup (Listed(r) \cap Early)
           D == B \cup (Listed(r \o t) \cap Early)
<1>1. r \in Seq(Files) /\ t \in Seq(Files) /\ u \in Seq(Files) /\ r \o t \in Seq(Files)
  BY GeneratorsOfFiles, ConcatProperties
<1>2. Listed(r) = {"rules.ttl", "sparql_rules"} /\ Listed(t) = {"_combined.ttl"}
  BY DEF Listed, ExportRules, CombineShapes
<1>3. {"rules.ttl", "sparql_rules", "_combined.ttl"} \subseteq Early
  BY EarlyAre DEF DerivedFiles, Late
<1>4. Listed(r \o t) = Listed(r) \cup Listed(t)
  BY <1>1, ListedJoin
<1>5. "enterprise.ttl" \in B
  BY DEF Ground
<1>6. Shapes \subseteq (Shapes \ {"rules.ttl"}) \cup {"rules.ttl"}
  OBVIOUS
<1>7. Shapes \cup {"enterprise.ttl"} \subseteq C
  BY <1>2, <1>3, <1>5, <1>6
<1>8. Ground \cup {"_combined.ttl", "sparql_rules"} \subseteq D
  BY <1>2, <1>3, <1>4
<1> HIDE DEF C, D
<1>9. Ready(r, B, Early) /\ Ready(t, C, Early) /\ Ready(u, D, Early)
  BY <1>5, <1>7, <1>8, ReadyRules, ReadyCombined, ReadyMaterialize
<1> HIDE DEF r, t, u
<1>10. Ready(r \o t, B, Early)
  BY <1>1, <1>9, ReadyJoin DEF C
<1>11. Ready((r \o t) \o u, B, Early)
  <2> DEFINE q == r \o t
  <2>1. /\ q \in Seq(Files) /\ Ready(q, B, Early)
        /\ Ready(u, B \cup (Listed(q) \cap Early), Early)
    BY <1>1, <1>9, <1>10 DEF D
  <2> HIDE DEF q
  <2>2. Ready(q \o u, B, Early)
    BY <1>1, <2>1, ReadyJoin
  <2> QED BY <2>2 DEF q
<1> QED BY <1>11 DEF PhaseReason, r, t, u

LEMMA ReadyAlignment ==
    ASSUME NEW B, Ground \cup {"drift.ttl", "tmf-sid-hierarchy.ttl"} \subseteq B
    PROVE  Ready(PhaseAlignment, B, Early)
<1>1. AlignmentOntology \in Seq(Files) /\ FederationConfig \in Seq(Files)
  BY GeneratorsOfFiles
<1>2. Ready(AlignmentOntology, B, Early)
  BY OriginsAre DEF AlignmentOntology, Ready
<1>3. \A C : Ready(FederationConfig, C, Early)
  <2>1. FederationConfig = <<"federation-config.ttl">>
    BY DEF FederationConfig
  <2>2. Origins("federation-config.ttl") = {}
    BY FreeOrigins, ConstantFileNames DEF Free
  <2> QED BY <2>1, <2>2 DEF Ready
<1> QED BY <1>1, <1>2, <1>3, ReadyJoin DEF PhaseAlignment

LEMMA ReadyMeasures ==
    ASSUME NEW B, Ground \cup {"logical_physical_map.csv"} \subseteq B
    PROVE  /\ Ready(GenerateAbox, B, Early)
           /\ Authored \subseteq B => Ready(RunQualityReport, B, Early)
           /\ SparqlTested \subseteq B => Ready(RunSparqlTests, B, Early)
           /\ SparqlTested \subseteq B => Ready(PhaseTest, B, Early)
           /\ \A C : Ready(PhaseReport, C, Early)
<1>1. Ready(GenerateAbox, B, Early)
  BY OriginsAre DEF GenerateAbox, Ready
<1>2. Authored \subseteq B => Ready(RunQualityReport, B, Early)
  BY OriginsAre DEF RunQualityReport, Ready
<1>3. \A C : SparqlTested \subseteq C => Ready(RunSparqlTests, C, Early)
  BY OriginsAre DEF RunSparqlTests, Ready
<1>4. Ready(RunCqTests, B, Early)
  <2>1. "governance_scorecard.csv" \notin Early
    BY DEF Early, Late
  <2> QED BY <2>1, OriginsAre DEF RunCqTests, Ready
<1>5. SparqlTested \subseteq B => Ready(PhaseTest, B, Early)
  <2>1. RunCqTests \in Seq(Files) /\ RunSparqlTests \in Seq(Files)
    BY GeneratorsOfFiles
  <2>2. SparqlTested \subseteq B =>
           Ready(RunSparqlTests, B \cup (Listed(RunCqTests) \cap Early), Early)
    BY <1>3
  <2> QED BY <1>4, <2>1, <2>2, ReadyJoin DEF PhaseTest
<1>6. \A C : Ready(PhaseReport, C, Early)
  <2>1. "toolkit_report.html" \notin Early /\ "compliance_summary.html" \notin Early
    BY DEF Early, Late
  <2> QED BY <2>1, PhaseReportFiles DEF Ready
<1> QED BY <1>1, <1>2, <1>3, <1>5, <1>6

LEMMA ReadyReports ==
    ASSUME NEW B, Reported \subseteq B, Origins("compliance_summary.html") \subseteq B
    PROVE  Ready(PhaseReport, B, Files)
BY PhaseReportFiles, OriginsAre DEF Ready

(* What the phases before have written. *)

Passed(m) == UNION {Listed(Writes[All[i]]) : i \in 1 .. m}

LEMMA PassedMore ==
    ASSUME NEW m \in 0 .. 18
    PROVE  /\ Passed(0) = {}
           /\ Passed(m + 1) = Passed(m) \cup Listed(Writes[All[m + 1]])
<1>1. 1 .. m + 1 = (1 .. m) \cup {m + 1} /\ 1 .. 0 = {}
  OBVIOUS
<1> QED BY <1>1 DEF Passed

LEMMA PassedThese ==
    ASSUME NEW m \in 0 .. 19
    PROVE  /\ m >= 2 => Listed(Writes["p2"]) \subseteq Passed(m)
           /\ m >= 3 => Listed(Writes["p3"]) \subseteq Passed(m)
           /\ m >= 4 => Listed(Writes["reason"]) \subseteq Passed(m)
           /\ m >= 5 => Listed(Writes["p4"]) \subseteq Passed(m)
           /\ m >= 6 => Listed(Writes["p5"]) \subseteq Passed(m)
           /\ m >= 7 => Listed(Writes["tmf"]) \subseteq Passed(m)
           /\ m >= 8 => Listed(Writes["conflict"]) \subseteq Passed(m)
           /\ m >= 9 => Listed(Writes["alignment"]) \subseteq Passed(m)
           /\ m >= 10 => Listed(Writes["runtime"]) \subseteq Passed(m)
           /\ m >= 11 => Listed(Writes["drift"]) \subseteq Passed(m)
           /\ m >= 12 => Listed(Writes["templates"]) \subseteq Passed(m)
           /\ m >= 13 => Listed(Writes["modular"]) \subseteq Passed(m)
           /\ m >= 14 => Listed(Writes["tmf630"]) \subseteq Passed(m)
           /\ m >= 15 => Listed(Writes["abox"]) \subseteq Passed(m)
           /\ m >= 16 => Listed(Writes["quality"]) \subseteq Passed(m)
           /\ m >= 17 => Listed(Writes["sparql"]) \subseteq Passed(m)
           /\ m >= 18 => Listed(Writes["test"]) \subseteq Passed(m)
           /\ m >= 19 => Listed(Writes["report"]) \subseteq Passed(m)
<1>1. \A i \in 1 .. 19 : m >= i => Listed(Writes[All[i]]) \subseteq Passed(m)
  BY DEF Passed
<1>2. /\ All[2] = "p2" /\ All[3] = "p3" /\ All[4] = "reason" /\ All[5] = "p4"
      /\ All[6] = "p5" /\ All[7] = "tmf" /\ All[8] = "conflict"
      /\ All[9] = "alignment" /\ All[10] = "runtime" /\ All[11] = "drift"
      /\ All[12] = "templates" /\ All[13] = "modular" /\ All[14] = "tmf630"
      /\ All[15] = "abox" /\ All[16] = "quality" /\ All[17] = "sparql"
      /\ All[18] = "test" /\ All[19] = "report"
  BY DEF All
<1> QED BY <1>1, <1>2

LEMMA PhaseOfAll ==
    ASSUME NEW m \in 1 .. 19
    PROVE  All[m] \in DOMAIN Writes
BY AllArePhases, ElementOfSeq

LEMMA AllWritten ==
    /\ WrittenByAll = Passed(19)
    /\ WrittenByAll \subseteq Files
    /\ FromConstants \subseteq WrittenByAll
<1>1. DOMAIN All = 1 .. 19
  BY AllArePhases
<1>2. WrittenByAll = Passed(19)
  BY <1>1 DEF WrittenByAll, Passed, Listed
<1>3. WrittenByAll \subseteq Files
  <2>1. \A i \in 1 .. 19 : All[i] \in DOMAIN Writes
    BY PhaseOfAll
  <2>2. \A i \in 1 .. 19 : Writes[All[i]] \in Seq(Files)
    BY <2>1, PhasesOfFiles
  <2>3. \A i \in 1 .. 19 : Listed(Writes[All[i]]) \subseteq Files
    <3>1. \A w \in Seq(Files) : Listed(w) \subseteq Files
      BY DEF Listed
    <3> QED BY <2>2, <3>1
  <2> QED BY <1>2, <2>3 DEF Passed
<1>4. FromConstants \subseteq Passed(19)
  <2>1. /\ Listed(Writes["p2"]) \subseteq Passed(19)
        /\ Listed(Writes["p3"]) \subseteq Passed(19)
        /\ Listed(Writes["p5"]) \subseteq Passed(19)
        /\ Listed(Writes["tmf"]) \subseteq Passed(19)
        /\ Listed(Writes["conflict"]) \subseteq Passed(19)
        /\ Listed(Writes["alignment"]) \subseteq Passed(19)
        /\ Listed(Writes["runtime"]) \subseteq Passed(19)
        /\ Listed(Writes["drift"]) \subseteq Passed(19)
        /\ Listed(Writes["templates"]) \subseteq Passed(19)
        /\ Listed(Writes["tmf630"]) \subseteq Passed(19)
    BY PassedThese
  <2> QED BY <2>1, PhasesList, ConstantFileNames
<1> QED BY <1>2, <1>3, <1>4

\* In the second full run, and those after it, every phase finds settled what
\* it makes its files from, but for the late ones.
LEMMA PhaseReady ==
    ASSUME NEW m \in 1 .. 19
    PROVE  Ready(Writes[All[m]], FromConstants \cup (Passed(m - 1) \ Late), Early)
<1> DEFINE B == FromConstants \cup (Passed(m - 1) \ Late)
<1>1. All[m] \in DOMAIN Writes
  BY PhaseOfAll
<1>2. Len(Writes[All[m]]) \in Nat /\ DOMAIN Writes[All[m]] = 1 .. Len(Writes[All[m]])
  BY <1>1, PhasesOfFiles
<1>3. All[m] \in {"p1", "p3", "p4", "p5", "tmf", "conflict", "runtime", "drift",
                  "templates", "modular", "tmf630"}
         => Ready(Writes[All[m]], B, Early)
  <2>1. SUFFICES ASSUME All[m] \in {"p1", "p3", "p4", "p5", "tmf", "conflict",
                          "runtime", "drift", "templates", "modular", "tmf630"}
                 PROVE  Listed(Writes[All[m]]) \subseteq Free
    BY <1>2, ReadyFree
  <2> QED BY <2>1, PhasesList, ConstantFileNames, TableFileNames DEF Free
<1>4. /\ All[2] = "p2" /\ All[4] = "reason" /\ All[9] = "alignment"
      /\ All[15] = "abox" /\ All[16] = "quality" /\ All[17] = "sparql"
      /\ All[18] = "test" /\ All[19] = "report"
  BY DEF All
<1>5. \/ All[m] \in {"p1", "p3", "p4", "p5", "tmf", "conflict", "runtime", "drift",
                     "templates", "modular", "tmf630"}
      \/ m \in {2, 4, 9, 15, 16, 17, 18, 19}
  BY DEF All
<1>6. m - 1 \in 0 .. 19
  OBVIOUS
<1>7. /\ m - 1 >= 2 => Listed(Writes["p2"]) \subseteq Passed(m - 1)
      /\ m - 1 >= 3 => Listed(Writes["p3"]) \subseteq Passed(m - 1)
      /\ m - 1 >= 5 => Listed(Writes["p4"]) \subseteq Passed(m - 1)
      /\ m - 1 >= 9 => Listed(Writes["alignment"]) \subseteq Passed(m - 1)
      /\ m - 1 >= 15 => Listed(Writes["abox"]) \subseteq Passed(m - 1)
  BY <1>6, PassedThese
<1>8. m >= 4 => Ground \subseteq B
  <2>1. m >= 4 => Listed(Writes["p2"]) \subseteq Passed(m - 1)
    BY <1>7
  <2> QED BY <2>1, PhasesList DEF Ground, Late
<1>9. m >= 4 => Shapes \ {"rules.ttl"} \subseteq B
  <2>1. m >= 4 => Listed(Writes["p3"]) \subseteq Passed(m - 1)
    BY <1>7
  <2> QED BY <2>1, PhasesList, ConstantFileNames DEF Shapes, Late
<1>10. m >= 15 => "logical_physical_map.csv" \in B
  <2>1. m >= 15 => Listed(Writes["p4"]) \subseteq Passed(m - 1)
    BY <1>7
  <2> QED BY <2>1, PhasesList DEF Late
<1>11. m >= 16 => Authored \subseteq B
  <2>1. m >= 16 => Listed(Writes["alignment"]) \subseteq Passed(m - 1)
    BY <1>7
  <2>2. m >= 16 => "alignment.ttl" \in B
    BY <2>1, PhasesList DEF Late
  <2>3. "dimensions.ttl" \in B
    BY ConstantFileNames
  <2> HIDE DEF B
  <2> QED BY <1>8, <2>2, <2>3 DEF Authored, Ground
<1>12. m >= 17 => SparqlTested \subseteq B
  <2>1. m >= 17 => Listed(Writes["abox"]) \subseteq Passed(m - 1)
    BY <1>7
  <2>2. m >= 17 => "instances.ttl" \in B
    BY <2>1, PhasesList DEF Late
  <2>3. "dimensions.ttl" \in B
    BY ConstantFileNames
  <2> HIDE DEF B
  <2> QED BY <1>8, <2>2, <2>3 DEF SparqlTested
<1>13. {"drift.ttl", "tmf-sid-hierarchy.ttl"} \subseteq B
  BY ConstantFileNames
<1> HIDE DEF B
<1>14. CASE m = 2
  <2>1. Ready(Phase2, B, Early)
    BY ReadyOntology, ReadyMore
  <2>2. Writes["p2"] = Phase2
    BY DEF Writes
  <2> QED BY <1>4, <1>14, <2>1, <2>2 DEF B
<1>15. CASE m = 4
  <2>1. Ready(PhaseReason, B, Early)
    BY <1>8, <1>9, <1>15, ReadyReason
  <2>2. Writes["reason"] = PhaseReason
    BY DEF Writes
  <2> QED BY <1>4, <1>15, <2>1, <2>2 DEF B
<1>16. CASE m = 9
  <2>1. Ready(PhaseAlignment, B, Early)
    BY <1>8, <1>13, <1>16, ReadyAlignment
  <2>2. Writes["alignment"] = PhaseAlignment
    BY DEF Writes
  <2> QED BY <1>4, <1>16, <2>1, <2>2 DEF B
<1>17. CASE m \in {15, 16, 17, 18, 19}
  <2>1. Ground \cup {"logical_physical_map.csv"} \subseteq B
    BY <1>8, <1>10, <1>17
  <2>2. /\ Ready(GenerateAbox, B, Early)
        /\ m >= 16 => Ready(RunQualityReport, B, Early)
        /\ m >= 17 => Ready(RunSparqlTests, B, Early)
        /\ m >= 18 => Ready(PhaseTest, B, Early)
        /\ Ready(PhaseReport, B, Early)
    BY <1>11, <1>12, <2>1, ReadyMeasures
  <2>3. /\ Writes["abox"] = GenerateAbox /\ Writes["quality"] = RunQualityReport
        /\ Writes["sparql"] = RunSparqlTests /\ Writes["test"] = PhaseTest
        /\ Writes["report"] = PhaseReport
    BY DEF Writes
  <2>4. Ready(Writes[All[m]], B, Early)
    BY <1>4, <1>17, <2>2, <2>3
  <2> QED BY <2>4 DEF B
<1>18. Ready(Writes[All[m]], B, Early)
         => Ready(Writes[All[m]], FromConstants \cup (Passed(m - 1) \ Late), Early)
  BY DEF B
<1> QED BY <1>3, <1>5, <1>14, <1>15, <1>16, <1>17, <1>18

\* Late files are written at the end of the run alone.
LEMMA LateLast ==
    ASSUME NEW m \in 1 .. 17
    PROVE  Listed(Writes[All[m]]) \cap Late = {}
<1>1. All[m] \in {"p1", "p2", "p3", "reason", "p4", "p5", "tmf", "conflict",
         "alignment", "runtime", "drift", "templates", "modular", "tmf630",
         "abox", "quality", "sparql"}
  BY DEF All
<1>2. \A f \in FromConstants \cup FromTables : f \notin Late
  BY DerivedApart DEF Late, DerivedFiles
<1>3. CASE All[m] \in {"p1", "p2", "p3", "reason", "p4", "p5"}
  BY <1>3, PhasesList DEF Late
<1>4. CASE All[m] \in {"tmf", "conflict", "alignment", "runtime", "drift"}
  BY <1>4, PhasesList DEF Late
<1>5. CASE All[m] \in {"templates", "modular", "tmf630", "abox", "quality", "sparql"}
  BY <1>5, PhasesList DEF Late
<1> QED BY <1>1, <1>3, <1>4, <1>5

(* How far undisturbed runs have settled the directory. *)

\* The files that have been written j full times when a run, the one after q
\* full ones, has m phases behind it.
Reach(q, j, m) ==
    IF q >= j THEN WrittenByAll ELSE IF q = j - 1 THEN Passed(m) ELSE {}

Progress(q, m, d, in) ==
    /\ DOMAIN d = Files
    /\ RuleFiles(d)
    /\ q >= 1 \/ m >= 1 => BaseTables \subseteq in.tables
    /\ q >= 1 \/ m >= 14 => TaskTables \subseteq in.tables
    /\ \A f \in Reach(q, 1, m) \cap FromConstants : Settled(f, d[f], in)
    /\ \A f \in Reach(q, 2, m) \ Late : Settled(f, d[f], in)
    /\ "governance_scorecard.csv" \in Reach(q, 2, m) =>
          Scored(d["governance_scorecard.csv"], in)
    /\ \A f \in Reach(q, 3, m) \cap Late : Settled(f, d[f], in)

LEMMA ReachMore ==
    ASSUME NEW q \in Nat, NEW j \in 1 .. 3, NEW m \in 0 .. 18
    PROVE  /\ Reach(q, j, m + 1) \subseteq
                 Reach(q, j, m) \cup Listed(Writes[All[m + 1]])
           /\ Reach(q, j, m) \subseteq Files
           /\ Reach(q, j, m + 1) \subseteq Files
           /\ q >= j - 1 => Passed(m) \subseteq Reach(q, j, m)
           /\ q >= j => Reach(q, j, m) = WrittenByAll
           /\ q < j - 1 => Reach(q, j, m + 1) = {}
<1>1. \A k \in 0 .. 19 : Passed(k) \subseteq Passed(19)
  <2>1. \A k \in 0 .. 19 : 1 .. k \subseteq 1 .. 19
    OBVIOUS
  <2> QED BY <2>1 DEF Passed
<1>2. Passed(m) \subseteq Files /\ Passed(m + 1) \subseteq Files
      /\ Passed(m) \subseteq WrittenByAll
  <2>1. m \in 0 .. 19 /\ m + 1 \in 0 .. 19
    OBVIOUS
  <2> QED BY <1>1, <2>1, AllWritten
<1>3. Passed(m + 1) = Passed(m) \cup Listed(Writes[All[m + 1]])
  BY PassedMore
<1>4. q >= j \/ q = j - 1 \/ q < j - 1
  OBVIOUS
<1>5. CASE q >= j
  <2>1. q # j - 1 /\ ~(q < j - 1)
    BY <1>5
  <2> QED BY <1>2, <1>5, <2>1, AllWritten DEF Reach
<1>6. CASE q = j - 1
  <2>1. ~(q >= j) /\ ~(q < j - 1)
    BY <1>6
  <2> QED BY <1>2, <1>3, <1>6, <2>1 DEF Reach
<1>7. CASE q < j - 1
  <2>1. ~(q >= j) /\ ~(q = j - 1) /\ ~(q >= j - 1)
    BY <1>7
  <2> QED BY <2>1 DEF Reach
<1> QED BY <1>4, <1>5, <1>6, <1>7

\* A phase keeps the files it does not write.
LEMMA Unwritten ==
    ASSUME NEW p \in DOMAIN Writes, NEW d, NEW in, DOMAIN d = Files,
           NEW f \in Files \ Listed(Writes[p])
    PROVE  After(p, d, in)[f] = d[f]
<1> DEFINE n == Len(Writes[p])
<1>1. n \in Nat /\ DOMAIN Writes[p] = 1 .. n /\ n \in 0 .. n
  BY PhasesOfFiles
<1>2. \A i \in 1 .. n : Writes[p][i] # f
  BY <1>1 DEF Listed
<1>3. Stages(p, d, in)[n][f] = d[f]
  BY <1>1, <1>2, NotYetWritten
<1> QED BY <1>3 DEF After

\* The scorecard, which takes over what the last one said, needs two rounds.
LEMMA TestScores ==
    ASSUME NEW d, NEW in, NEW B, DOMAIN d = Files, RuleFiles(d),
           ScoredFrom \subseteq B, B \subseteq Early,
           \A f \in B : Settled(f, d[f], in), Ready(Writes["test"], B, Early)
    PROVE  LET c == After("test", d, in)["governance_scorecard.csv"]
           IN  /\ Scored(c, in)
               /\ Scored(d["governance_scorecard.csv"], in) =>
                     Settled("governance_scorecard.csv", c, in)
<1> DEFINE p == "test"
           f == "governance_scorecard.csv"
           s == Stages(p, d, in)
<1>1. p \in DOMAIN Writes /\ f \in Files
  BY PhaseNames, DerivedFileNames DEF Files
<1>2. Writes[p] = <<"cq_test_results.csv", "governance_scorecard.csv",
                    "sparql_cq_test_results.csv">>
  BY PhaseTestFiles DEF Writes
<1>3. Len(Writes[p]) = 3 /\ Writes[p][1] # f /\ Writes[p][2] = f /\ Writes[p][3] # f
  BY <1>2
<1>4. Early \subseteq Files
  BY DEF Early
<1>5. \A k \in 0 .. 3 : \A g \in B : Settled(g, s[k][g], in)
  BY <1>1, <1>3, <1>4, PhaseSettles
<1>6. \A k \in 0 .. 3 : DOMAIN s[k] = Files
  BY <1>1, <1>3, SameFiles
<1>7. s[0] = d /\ \A k \in 1 .. 3 : s[k] = Written(p, k, s[k - 1], in)
  BY <1>3, StagesExist
<1>8. After(p, d, in) = s[3]
  BY <1>3 DEF After
<1> HIDE DEF s, p, f
<1>9. /\ s[1] = Written(p, 1, s[0], in)
      /\ s[2] = Written(p, 2, s[1], in)
      /\ s[3] = Written(p, 3, s[2], in)
  <2>1. \A k \in 1 .. 3 : s[k] = Written(p, k, s[k - 1], in)
    BY <1>7
  <2>2. 2 - 1 = 1 /\ 1 - 1 = 0 /\ 3 - 1 = 2
    OBVIOUS
  <2> QED BY <2>1, <2>2
<1>10. s[1][f] = d[f]
  BY <1>1, <1>3, <1>6, <1>7, <1>9, WrittenOnly
<1>11. s[2][f] = Made(f, s[1], in)
  BY <1>1, <1>3, <1>6, <1>9, WrittenOnly
<1>12. s[3][f] = s[2][f]
  BY <1>1, <1>3, <1>6, <1>9, WrittenOnly
<1>13. \A g \in ScoredFrom : Settled(g, s[1][g], in)
  BY <1>5
<1>14. /\ Scored(Made(f, s[1], in), in)
       /\ Scored(s[1][f], in) => Settled(f, Made(f, s[1], in), in)
  BY <1>13, MadeScorecard DEF f
<1>15. /\ Scored(s[3][f], in)
       /\ Scored(d[f], in) => Settled(f, s[3][f], in)
  BY <1>10, <1>11, <1>12, <1>14
<1> QED BY <1>8, <1>15 DEF s, p, f

LEMMA ScoredBefore ==
    ASSUME NEW m \in 17 .. 19
    PROVE  ScoredFrom \subseteq FromConstants \cup (Passed(m) \ Late)
<1>1. /\ Listed(Writes["p2"]) \subseteq Passed(m)
      /\ Listed(Writes["p3"]) \subseteq Passed(m)
      /\ Listed(Writes["p4"]) \subseteq Passed(m)
      /\ Listed(Writes["p5"]) \subseteq Passed(m)
      /\ Listed(Writes["alignment"]) \subseteq Passed(m)
      /\ Listed(Writes["sparql"]) \subseteq Passed(m)
  <2>1. m \in 0 .. 19
    OBVIOUS
  <2> QED BY <2>1, PassedThese
<1>2. {"enterprise.ttl", "events.ttl", "provenance.ttl", "dimensions.ttl",
       "profile_recommendation.md", "enterprise-shapes.ttl",
       "enterprise-skos.ttl", "logical_physical_map.csv",
       "enterprise-context.json", "alignment.ttl",
       "sparql_cq_test_results.csv"} \subseteq Passed(m)
  BY <1>1, PhasesList
<1>3. {"agent-gate.ttl", "mcp-tool-definitions.json", "tmf-context.json"}
        \subseteq FromConstants
  BY ConstantFileNames
<1>4. ScoredFrom \subseteq
        {"enterprise.ttl", "events.ttl", "provenance.ttl", "dimensions.ttl",
         "profile_recommendation.md", "enterprise-shapes.ttl",
         "enterprise-skos.ttl", "logical_physical_map.csv",
         "enterprise-context.json", "alignment.ttl",
         "sparql_cq_test_results.csv"}
        \cup {"agent-gate.ttl", "mcp-tool-definitions.json",
              "tmf-context.json"}
  BY DEF ScoredFrom, ScoredAsParsed, ScoredAsText, ScoredAsOntology,
         ScoredAsReady, ScoredAsEvidence, Authored
<1> QED BY <1>2, <1>3, <1>4 DEF Late

\* What the reports are made from, when the tests have been run.
LEMMA ReportedBefore ==
    Reported \cup Origins("compliance_summary.html")
        \subseteq FromConstants \cup (Passed(18) \ Late) \cup {"governance_scorecard.csv"}
<1>1. /\ Listed(Writes["p2"]) \subseteq Passed(18)
      /\ Listed(Writes["p3"]) \subseteq Passed(18)
      /\ Listed(Writes["reason"]) \subseteq Passed(18)
      /\ Listed(Writes["p4"]) \subseteq Passed(18)
      /\ Listed(Writes["tmf"]) \subseteq Passed(18)
      /\ Listed(Writes["test"]) \subseteq Passed(18)
  BY PassedThese
<1>2. {"enterprise.ttl", "enterprise-shapes.ttl", "rules.ttl", "_combined.ttl",
       "semantic_loss_report.csv", "orphan_candidates.csv",
       "logical_physical_map.csv", "tmf_cq_test_results.csv",
       "tmf_api_coverage.csv", "cq_test_results.csv",
       "sparql_cq_test_results.csv"} \subseteq Passed(18) \ Late
  BY <1>1, PhasesList DEF Late
<1>3. {"agent-gate.ttl", "conflict-resolution-shapes.ttl", "drift-shapes.ttl"}
        \subseteq FromConstants
  BY ConstantFileNames
<1> HIDE DEF Late
<1> QED BY <1>2, <1>3, OriginsAre DEF Reported, Shapes

\* What the phase leaves as the round demands, file by file.
LEMMA ConstantsStep ==
    ASSUME NEW q \in Nat, NEW m \in 0 .. 18, NEW d, NEW in, NEW in2,
           Progress(q, m, d, in)
    PROVE  LET e == After(All[m + 1], d, in2)
           IN  \A f \in Reach(q, 1, m + 1) \cap FromConstants : Settled(f, e[f], in2)
<1> DEFINE p == All[m + 1]
           e == After(p, d, in2)
           T == FromConstants
           B == Reach(q, 1, m) \cap T
           w == Writes[p]
<1>1. p \in DOMAIN Writes
  <2>1. m + 1 \in 1 .. 19
    OBVIOUS
  <2> QED BY <2>1, PhaseOfAll
<1>2. DOMAIN d = Files /\ RuleFiles(d)
  BY DEF Progress
<1>3. \A f \in B : Settled(f, d[f], in2)
  <2>1. TAKE f \in B
  <2>2. Settled(f, d[f], in)
    BY DEF Progress
  <2> QED BY <2>2, SettledConstants
<1>4. Len(w) \in Nat /\ DOMAIN w = 1 .. Len(w)
  BY <1>1, PhasesOfFiles
<1>5. Listed(w) \cap T \subseteq Free
  BY DEF Free
<1>6. T \subseteq Files /\ B \subseteq T
  BY DEF Files
<1>7. Reach(q, 1, m + 1) \subseteq Reach(q, 1, m) \cup Listed(w)
  BY ReachMore
<1> HIDE DEF p, T, w
<1>8. Ready(w, B, T)
  <2> HIDE DEF B
  <2> QED BY <1>4, <1>5, ReadyFree
<1>9. Reach(q, 1, m + 1) \cap T \subseteq B \cup (Listed(w) \cap T)
  BY <1>7
<1> HIDE DEF B
<1>10. \A f \in B \cup (Listed(w) \cap T) : Settled(f, e[f], in2)
  BY <1>1, <1>2, <1>3, <1>6, <1>8, PhaseSettles DEF w
<1>11. \A f \in Reach(q, 1, m + 1) \cap T : Settled(f, e[f], in2)
  <2> HIDE DEF e
  <2> QED BY <1>9, <1>10
<1> QED BY <1>11 DEF p, T

\* What is settled, and what a phase that writes early files is ready with.
LEMMA EarlyBefore ==
    ASSUME NEW q \in Nat, q >= 1, NEW m \in 0 .. 18, NEW d, NEW in,
           Progress(q, m, d, in)
    PROVE  LET B == FromConstants \cup (Reach(q, 2, m) \ Late)
           IN  /\ \A f \in B : Settled(f, d[f], in)
               /\ B \subseteq Early
               /\ Ready(Writes[All[m + 1]], B, Early)
               /\ FromConstants \cup (Passed(m) \ Late) \subseteq B
<1> DEFINE B == FromConstants \cup (Reach(q, 2, m) \ Late)
<1>1. Reach(q, 1, m) = WrittenByAll
  BY ReachMore
<1>2. \A f \in FromConstants : Settled(f, d[f], in)
  BY <1>1, AllWritten DEF Progress
<1>3. \A f \in Reach(q, 2, m) \ Late : Settled(f, d[f], in)
  BY DEF Progress
<1>4. Reach(q, 2, m) \subseteq Files /\ Passed(m) \subseteq Reach(q, 2, m)
  BY ReachMore
<1>5. B \subseteq Early
  BY <1>4, EarlyAre DEF Early
<1>6. FromConstants \cup (Passed(m) \ Late) \subseteq B
  BY <1>4
<1>7. \A f \in B : Settled(f, d[f], in)
  BY <1>2, <1>3
<1>8. Ready(Writes[All[m + 1]], FromConstants \cup (Passed(m) \ Late), Early)
  <2>1. m + 1 \in 1 .. 19 /\ (m + 1) - 1 = m
    OBVIOUS
  <2>2. Ready(Writes[All[m + 1]], FromConstants \cup (Passed((m + 1) - 1) \ Late), Early)
    BY <2>1, PhaseReady
  <2> QED BY <2>1, <2>2
<1> HIDE DEF B
<1>9. Ready(Writes[All[m + 1]], B, Early)
  BY <1>6, <1>8, ReadyMore
<1> QED BY <1>5, <1>6, <1>7, <1>9 DEF B

LEMMA EarlyStep ==
    ASSUME NEW q \in Nat, q >= 1, NEW m \in 0 .. 18, NEW d, NEW in,
           Progress(q, m, d, in)
    PROVE  LET e == After(All[m + 1], d, in)
           IN  \A f \in Reach(q, 2, m + 1) \ Late : Settled(f, e[f], in)
<1> DEFINE p == All[m + 1]
           e == After(p, d, in)
           B == FromConstants \cup (Reach(q, 2, m) \ Late)
           w == Writes[p]
<1>1. p \in DOMAIN Writes
  <2>1. m + 1 \in 1 .. 19
    OBVIOUS
  <2> QED BY <2>1, PhaseOfAll
<1>2. DOMAIN d = Files /\ RuleFiles(d)
  BY DEF Progress
<1>3. Reach(q, 2, m + 1) \subseteq Reach(q, 2, m) \cup Listed(w)
      /\ Reach(q, 2, m + 1) \subseteq Files
  BY ReachMore
<1>4. Reach(q, 2, m + 1) \ Late \subseteq B \cup (Listed(w) \cap Early)
  BY <1>3 DEF Early
<1>5. /\ \A f \in B : Settled(f, d[f], in)
      /\ B \subseteq Early
      /\ Ready(w, B, Early)
  BY EarlyBefore
<1>6. Early \subseteq Files
  BY DEF Early
<1> HIDE DEF p, B, w
<1>7. \A f \in B \cup (Listed(w) \cap Early) : Settled(f, e[f], in)
  BY <1>1, <1>2, <1>5, <1>6, PhaseSettles DEF w
<1>8. \A f \in Reach(q, 2, m + 1) \ Late : Settled(f, e[f], in)
  <2> HIDE DEF e
  <2> QED BY <1>4, <1>7
<1> QED BY <1>8 DEF p

\* The tests score, and the reports report.
LEMMA TestStep ==
    ASSUME NEW q \in Nat, q >= 1, NEW d, NEW in, Progress(q, 17, d, in)
    PROVE  LET c == After("test", d, in)["governance_scorecard.csv"]
           IN  /\ Scored(c, in)
               /\ q >= 2 => Settled("governance_scorecard.csv", c, in)
<1> DEFINE B == FromConstants \cup (Reach(q, 2, 17) \ Late)
           f == "governance_scorecard.csv"
<1>1. All[17 + 1] = "test" /\ 17 \in 0 .. 18 /\ 17 \in 17 .. 19
  BY DEF All
<1>2. DOMAIN d = Files /\ RuleFiles(d)
  BY DEF Progress
<1>3. /\ \A g \in B : Settled(g, d[g], in)
      /\ B \subseteq Early
      /\ Ready(Writes["test"], B, Early)
      /\ FromConstants \cup (Passed(17) \ Late) \subseteq B
  BY <1>1, EarlyBefore
<1>4. ScoredFrom \subseteq B
  <2> HIDE DEF B
  <2> QED BY <1>1, <1>3, ScoredBefore
<1>5. q >= 2 => Scored(d[f], in)
  <2>1. q >= 2 => Reach(q, 2, 17) = WrittenByAll
    BY <1>1, ReachMore
  <2>2. Listed(Writes["test"]) \subseteq Passed(19)
    BY PassedThese
  <2>3. f \in WrittenByAll
    BY <2>2, PhasesList, AllWritten
  <2> QED BY <2>1, <2>3 DEF Progress
<1> HIDE DEF B
<1>6. /\ Scored(After("test", d, in)[f], in)
      /\ Scored(d[f], in) => Settled(f, After("test", d, in)[f], in)
  BY <1>2, <1>3, <1>4, TestScores
<1> QED BY <1>5, <1>6

LEMMA ReportStep ==
    ASSUME NEW q \in Nat, q >= 2, NEW d, NEW in, Progress(q, 18, d, in)
    PROVE  \A f \in Late : Settled(f, After("report", d, in)[f], in)
<1> DEFINE sc == "governance_scorecard.csv"
           A == FromConstants \cup (Reach(q, 2, 18) \ Late)
           B == A \cup {sc}
<1>1. "report" \in DOMAIN Writes /\ 18 \in 0 .. 18 /\ q >= 1
  BY PhaseNames
<1>2. DOMAIN d = Files /\ RuleFiles(d)
  BY DEF Progress
<1>3. /\ \A g \in A : Settled(g, d[g], in)
      /\ A \subseteq Early
      /\ FromConstants \cup (Passed(18) \ Late) \subseteq A
  <2>1. /\ \A g \in A : Settled(g, d[g], in)
        /\ A \subseteq Early
        /\ Ready(Writes[All[18 + 1]], A, Early)
        /\ FromConstants \cup (Passed(18) \ Late) \subseteq A
    BY <1>1, EarlyBefore
  <2> QED BY <2>1
<1>4. Settled(sc, d[sc], in)
  <2>1. Passed(18) \subseteq Reach(q, 3, 18)
    BY <1>1, ReachMore
  <2>2. Listed(Writes["test"]) \subseteq Passed(18)
    BY PassedThese
  <2>3. sc \in Reach(q, 3, 18) \cap Late
    BY <2>1, <2>2, PhasesList DEF Late
  <2> QED BY <2>3 DEF Progress
<1>5. sc \in Files /\ Early \subseteq Files
  BY DerivedFileNames DEF Files, Early
<1>6. Reported \subseteq B /\ Origins("compliance_summary.html") \subseteq B
  <2> HIDE DEF A
  <2> QED BY <1>3, ReportedBefore
<1> HIDE DEF A
<1>7. /\ \A g \in B : Settled(g, d[g], in)
      /\ B \subseteq Files
  BY <1>3, <1>4, <1>5
<1> HIDE DEF B
<1>8. Ready(Writes["report"], B, Files)
  <2>1. Writes["report"] = PhaseReport
    BY DEF Writes
  <2> QED BY <1>6, <2>1, ReadyReports
<1>9. \A f \in B \cup (Listed(Writes["report"]) \cap Files) :
         Settled(f, After("report", d, in)[f], in)
  <2>1. Files \subseteq Files
    OBVIOUS
  <2> QED BY <1>1, <1>2, <1>7, <1>8, <2>1, PhaseSettles
<1>10. Late \subseteq B \cup (Listed(Writes["report"]) \cap Files)
  <2>1. {"toolkit_report.html", "compliance_summary.html"} \subseteq Files
    BY DerivedFileNames DEF Files
  <2> QED BY <2>1, PhasesList DEF Late, B
<1> QED BY <1>9, <1>10

LEMMA LateStep ==
    ASSUME NEW q \in Nat, q >= 1, NEW m \in 0 .. 18, NEW d, NEW in,
           Progress(q, m, d, in)
    PROVE  LET e == After(All[m + 1], d, in)
           IN  /\ "governance_scorecard.csv" \in Reach(q, 2, m + 1) =>
                     Scored(e["governance_scorecard.csv"], in)
               /\ \A f \in Reach(q, 3, m + 1) \cap Late : Settled(f, e[f], in)
<1> DEFINE p == All[m + 1]
           e == After(p, d, in)
           sc == "governance_scorecard.csv"
<1>1. p \in DOMAIN Writes
  <2>1. m + 1 \in 1 .. 19
    OBVIOUS
  <2> QED BY <2>1, PhaseOfAll
<1>2. DOMAIN d = Files
  BY DEF Progress
<1>3. \A f \in Files \ Listed(Writes[p]) : e[f] = d[f]
  BY <1>1, <1>2, Unwritten
<1>4. /\ Reach(q, 2, m + 1) \subseteq Reach(q, 2, m) \cup Listed(Writes[p])
      /\ Reach(q, 3, m + 1) \subseteq Reach(q, 3, m) \cup Listed(Writes[p])
      /\ Reach(q, 2, m + 1) \subseteq Files
      /\ Reach(q, 3, m + 1) \subseteq Files
      /\ q < 2 => Reach(q, 3, m + 1) = {}
  <2>1. q < 2 => q < 3 - 1
    OBVIOUS
  <2> QED BY <2>1, ReachMore
<1>5. sc \in Late
  BY DEF Late
<1>6. sc \in Reach(q, 2, m) => Scored(d[sc], in)
  BY DEF Progress
<1>7. \A f \in Reach(q, 3, m) \cap Late : Settled(f, d[f], in)
  BY DEF Progress
<1>8. CASE m <= 16
  <2>1. m + 1 \in 1 .. 17
    BY <1>8
  <2>2. Listed(Writes[p]) \cap Late = {}
    BY <2>1, LateLast
  <2> HIDE DEF p, e, sc
  <2>3. sc \in Reach(q, 2, m + 1) => Scored(e[sc], in)
    BY <1>3, <1>4, <1>5, <1>6, <2>2
  <2>4. \A f \in Reach(q, 3, m + 1) \cap Late : Settled(f, e[f], in)
    BY <1>3, <1>4, <1>7, <2>2
  <2> QED BY <2>3, <2>4 DEF p, e, sc
<1>9. CASE m = 17
  <2>1. p = "test"
    BY <1>9 DEF All
  <2>2. Scored(e[sc], in) /\ (q >= 2 => Settled(sc, e[sc], in))
    BY <1>9, <2>1, TestStep
  <2>3. Listed(Writes[p]) \cap Late = {sc}
    BY <2>1, PhasesList DEF Late
  <2> HIDE DEF p, e, sc
  <2>4. \A f \in Reach(q, 3, m + 1) \cap Late : Settled(f, e[f], in)
    <3>1. TAKE f \in Reach(q, 3, m + 1) \cap Late
    <3>2. q >= 2
      BY <1>4
    <3>3. CASE f = sc
      BY <2>2, <3>2, <3>3
    <3>4. CASE f # sc
      <4>1. f \in Files \ Listed(Writes[p]) /\ f \in Reach(q, 3, m) \cap Late
        BY <1>4, <2>3, <3>4
      <4> QED BY <1>3, <1>7, <4>1
    <3> QED BY <3>3, <3>4
  <2> QED BY <2>2, <2>4 DEF p, e, sc
<1>10. CASE m = 18
  <2>1. p = "report"
    BY <1>10 DEF All
  <2>2. sc \notin Listed(Writes[p])
    BY <2>1, PhasesList
  <2>3. q >= 2 => \A f \in Late : Settled(f, e[f], in)
    BY <1>10, <2>1, ReportStep
  <2> HIDE DEF p, e, sc
  <2>4. sc \in Reach(q, 2, m + 1) => Scored(e[sc], in)
    BY <1>3, <1>4, <1>6, <2>2
  <2>5. \A f \in Reach(q, 3, m + 1) \cap Late : Settled(f, e[f], in)
    <3>1. q >= 2 \/ q < 2
      OBVIOUS
    <3> QED BY <1>4, <2>3, <3>1
  <2> QED BY <2>4, <2>5 DEF p, e, sc
<1>11. m <= 16 \/ m = 17 \/ m = 18
  OBVIOUS
<1> QED BY <1>8, <1>9, <1>10, <1>11

\* One phase of a run that nothing disturbs.
LEMMA PhaseStep ==
    ASSUME NEW q \in Nat, NEW m \in 0 .. 18, NEW d, NEW in, NEW in2,
           Progress(q, m, d, in),
           in2.tables = Provisioned(All[m + 1], in.tables),
           in2.tables = in.tables => in2 = in
    PROVE  Progress(q, m + 1, After(All[m + 1], d, in2), in2)
<1> DEFINE p == All[m + 1]
           e == After(p, d, in2)
           sc == "governance_scorecard.csv"
<1>1. p \in DOMAIN Writes
  <2>1. m + 1 \in 1 .. 19
    OBVIOUS
  <2> QED BY <2>1, PhaseOfAll
<1>2. DOMAIN e = Files /\ RuleFiles(e)
  BY <1>1, SameFiles, RuleFilesStages DEF Progress
<1>3. in.tables \subseteq in2.tables
  BY DEF Provisioned
<1>4. BaseTables \subseteq in2.tables
  <2>1. CASE m = 0
    <3>1. p = "p1"
      BY <2>1 DEF All
    <3> QED BY <3>1 DEF Provisioned
  <2>2. CASE m >= 1
    <3>1. BaseTables \subseteq in.tables
      BY <2>2 DEF Progress
    <3> QED BY <1>3, <3>1
  <2> QED BY <2>1, <2>2
<1>5. q >= 1 \/ m + 1 >= 14 => TaskTables \subseteq in2.tables
  <2>1. CASE m = 13
    <3>1. p = "tmf630"
      BY <2>1 DEF All
    <3> QED BY <3>1 DEF Provisioned
  <2>2. CASE q >= 1 \/ m >= 14
    <3>1. TaskTables \subseteq in.tables
      BY <2>2 DEF Progress
    <3> QED BY <1>3, <3>1
  <2>3. q >= 1 \/ m + 1 >= 14 => m = 13 \/ (q >= 1 \/ m >= 14)
    OBVIOUS
  <2> QED BY <2>1, <2>2, <2>3
<1>6. \A f \in Reach(q, 1, m + 1) \cap FromConstants : Settled(f, e[f], in2)
  BY ConstantsStep
<1>7. ASSUME q >= 1 PROVE in2 = in
  <2>1. BaseTables \subseteq in.tables /\ TaskTables \subseteq in.tables
    BY <1>7 DEF Progress
  <2>2. in2.tables = in.tables
    BY <2>1 DEF Provisioned
  <2> QED BY <2>2
<1>8. /\ \A f \in Reach(q, 2, m + 1) \ Late : Settled(f, e[f], in2)
      /\ sc \in Reach(q, 2, m + 1) => Scored(e[sc], in2)
      /\ \A f \in Reach(q, 3, m + 1) \cap Late : Settled(f, e[f], in2)
  <2>1. CASE q >= 1
    <3>1. in2 = in
      BY <1>7, <2>1
    <3>2. e = After(p, d, in)
      BY <3>1
    <3>3. \A f \in Reach(q, 2, m + 1) \ Late : Settled(f, After(p, d, in)[f], in)
      BY <2>1, EarlyStep
    <3>4. /\ sc \in Reach(q, 2, m + 1) => Scored(After(p, d, in)[sc], in)
          /\ \A f \in Reach(q, 3, m + 1) \cap Late :
                Settled(f, After(p, d, in)[f], in)
      BY <2>1, LateStep
    <3> HIDE DEF p, e
    <3> QED BY <3>1, <3>2, <3>3, <3>4
  <2>2. CASE q = 0
    <3>1. q < 2 - 1 /\ q < 3 - 1
      BY <2>2
    <3>2. Reach(q, 2, m + 1) = {} /\ Reach(q, 3, m + 1) = {}
      BY <3>1, ReachMore
    <3> QED BY <3>2
  <2> QED BY <2>1, <2>2
<1> HIDE DEF e
<1>9. Progress(q, m + 1, e, in2)
  BY <1>2, <1>4, <1>5, <1>6, <1>8 DEF Progress
<1> QED BY <1>9 DEF e

\* The end of a run is the beginning of the next.
LEMMA RoundStep ==
    ASSUME NEW q \in Nat, NEW d, NEW in, Progress(q, 19, d, in)
    PROVE  /\ Progress(q + 1, 0, d, in)
           /\ q >= 3 => Progress(q, 0, d, in)
<1>1. Passed(19) = WrittenByAll /\ Passed(0) = {}
  <2>1. 0 \in 0 .. 18
    OBVIOUS
  <2> QED BY <2>1, AllWritten, PassedMore
<1>2. \A j \in 1 .. 3 : Reach(q + 1, j, 0) = Reach(q, j, 19)
  <2>1. TAKE j \in 1 .. 3
  <2>2. q >= j \/ q = j - 1 \/ q < j - 1
    OBVIOUS
  <2>3. CASE q >= j
    <3>1. q + 1 >= j
      BY <2>3
    <3> QED BY <2>3, <3>1 DEF Reach
  <2>4. CASE q = j - 1
    <3>1. q + 1 >= j /\ ~(q >= j)
      BY <2>4
    <3> QED BY <1>1, <2>4, <3>1 DEF Reach
  <2>5. CASE q < j - 1
    <3>1. ~(q + 1 >= j) /\ ~(q >= j) /\ ~(q = j - 1)
      BY <2>5
    <3> QED BY <1>1, <3>1 DEF Reach
  <2> QED BY <2>2, <2>3, <2>4, <2>5
<1>3. /\ Reach(q + 1, 1, 0) = Reach(q, 1, 19)
      /\ Reach(q + 1, 2, 0) = Reach(q, 2, 19)
      /\ Reach(q + 1, 3, 0) = Reach(q, 3, 19)
  <2>1. 1 \in 1 .. 3 /\ 2 \in 1 .. 3 /\ 3 \in 1 .. 3
    OBVIOUS
  <2> QED BY <1>2, <2>1
<1>4. BaseTables \subseteq in.tables /\ TaskTables \subseteq in.tables
  BY DEF Progress
<1>5. Progress(q + 1, 0, d, in)
  BY <1>3, <1>4 DEF Progress
<1>6. ASSUME q >= 3 PROVE Progress(q, 0, d, in)
  <2>1. /\ Reach(q, 1, 0) = Reach(q, 1, 19)
        /\ Reach(q, 2, 0) = Reach(q, 2, 19)
        /\ Reach(q, 3, 0) = Reach(q, 3, 19)
    <3>1. q >= 1 /\ q >= 2 /\ q >= 3
      BY <1>6
    <3> QED BY <3>1 DEF Reach
  <2> QED BY <1>4, <2>1 DEF Progress
<1> QED BY <1>5, <1>6

(* A run of the pipeline. *)

\* The inputs as they are between two phases.
Now == [tables |-> tables, classes |-> session.classes,
        rules |-> session.rules, causal |-> session.causal, robot |-> robot]

\* Phases an undisturbed full run has behind it.
Behind == IF running = "all" /\ clean THEN 19 - Len(todo) ELSE 0

SettleInv == Progress(quiet, Behind, dir, Now)

LEMMA ProgressNone ==
    ASSUME NEW d, NEW in, DOMAIN d = Files, RuleFiles(d)
    PROVE  Progress(0, 0, d, in)
<1>1. Passed(0) = {}
  <2>1. 0 \in 0 .. 18
    OBVIOUS
  <2> QED BY <2>1, PassedMore
<1>2. Reach(0, 1, 0) = {} /\ Reach(0, 2, 0) = {} /\ Reach(0, 3, 0) = {}
  BY <1>1 DEF Reach
<1> QED BY <1>2 DEF Progress

LEMMA NoFilesRule == DOMAIN NoFiles = Files /\ RuleFiles(NoFiles)
<1>1. \A f \in Files : NoFiles[f] = Missing
  BY DEF NoFiles
<1>2. {"rules.ttl", "sparql_rules", "inferred-sparql.ttl"} \subseteq Files
  BY DerivedFileNames DEF Files
<1>3. RuleFiles(NoFiles)
  BY <1>1, <1>2 DEF RuleFiles
<1>4. DOMAIN NoFiles = Files
  BY DEF NoFiles
<1> QED BY <1>3, <1>4

LEMMA SettleInit == PipelineInit => SettleInv
<1> SUFFICES ASSUME PipelineInit PROVE SettleInv
  OBVIOUS
<1>1. quiet = 0 /\ dir = NoFiles /\ running = "no"
  BY DEF PipelineInit
<1>2. Behind = 0
  BY <1>1 DEF Behind
<1> QED BY <1>1, <1>2, NoFilesRule, ProgressNone DEF SettleInv

\* A file cut short, and a block appended to the ontology, leave the rest.
LEMMA RuleFilesCut ==
    ASSUME NEW d, NEW f, DOMAIN d = Files, RuleFiles(d)
    PROVE  RuleFiles([d EXCEPT ![f] = {}])
<1> DEFINE e == [d EXCEPT ![f] = {}]
<1>1. \A g \in Files : e[g] = d[g] \/ e[g] = {}
  OBVIOUS
<1>2. {"rules.ttl", "sparql_rules", "inferred-sparql.ttl"} \subseteq Files
  BY DerivedFileNames DEF Files
<1> HIDE DEF e
<1>3. RuleFiles(e)
  BY <1>1, <1>2 DEF RuleFiles
<1> QED BY <1>3 DEF e

LEMMA RuleFilesDeath ==
    ASSUME PipeInv, RuleFiles(dir), Die
    PROVE  RuleFiles(dir')
<1> DEFINE p == Head(todo)
           in == Input(p)
           s == Stages(p, dir, in)
<1>1. p \in DOMAIN Writes /\ DOMAIN dir = Files
  BY HeadTailProperties DEF Die, PipeInv, PipelineTypeOK
<1>2. PICK k \in 0 .. Len(Writes[p]) :
         \/ dir' = s[k]
         \/ /\ k < Len(Writes[p])
            /\ ~Skips(Writes[p][k + 1], s[k], in)
            /\ dir' = [s[k] EXCEPT ![Writes[p][k + 1]] = {}]
  BY DEF Die
<1>3. DOMAIN s[k] = Files /\ RuleFiles(s[k])
  BY <1>1, SameFiles, RuleFilesStages
<1> HIDE DEF s, p, in
<1>4. CASE dir' = s[k]
  BY <1>3, <1>4
<1>5. CASE dir' = [s[k] EXCEPT ![Writes[p][k + 1]] = {}]
  BY <1>3, <1>5, RuleFilesCut
<1> QED BY <1>2, <1>4, <1>5

LEMMA RuleFilesApplied ==
    ASSUME PipeInv, RuleFiles(dir), ApplyProposal
    PROVE  RuleFiles(dir')
<1> DEFINE ent == "enterprise.ttl"
<1>1. PICK b \in Blocks : dir' = [dir EXCEPT ![ent] = @ \cup {<<"block", b>>}]
  BY DEF ApplyProposal
<1>2. DOMAIN dir = Files
  BY DEF PipeInv, PipelineTypeOK
<1>3. \A g \in Files : g # ent => dir'[g] = dir[g]
  BY <1>1, <1>2
<1>4. {"rules.ttl", "sparql_rules", "inferred-sparql.ttl"} \subseteq Files \ {ent}
  BY DerivedFileNames DEF Files
<1>5. /\ dir'["rules.ttl"] = dir["rules.ttl"]
      /\ dir'["sparql_rules"] = dir["sparql_rules"]
      /\ dir'["inferred-sparql.ttl"] = dir["inferred-sparql.ttl"]
  BY <1>3, <1>4
<1> QED BY <1>5 DEF RuleFiles

LEMMA SettleUpset ==
    ASSUME PipeInv, PipeInv', SettleInv,
           Die \/ (\E p \in Singles : StartSingle(p)) \/ EditDatabase
               \/ EditSession \/ EditRobot \/ ApplyProposal
    PROVE  SettleInv'
<1>1. RuleFiles(dir)
  BY DEF SettleInv, Progress
<1>2. Upset
  BY DEF Die, StartSingle, EditDatabase, EditSession, EditRobot, ApplyProposal
<1>3. RuleFiles(dir')
  <2>1. CASE Die
    BY <1>1, <2>1, RuleFilesDeath
  <2>2. CASE ApplyProposal
    BY <1>1, <2>2, RuleFilesApplied
  <2>3. CASE (\E p \in Singles : StartSingle(p)) \/ EditDatabase
                \/ EditSession \/ EditRobot
    <3>1. dir' = dir
      BY <2>3 DEF StartSingle, EditDatabase, EditSession, EditRobot
    <3> QED BY <1>1, <3>1
  <2> QED BY <2>1, <2>2, <2>3
<1>4. DOMAIN dir' = Files
  BY DEF PipeInv, PipelineTypeOK
<1>5. quiet' = 0 /\ ~clean'
  BY <1>2 DEF Upset
<1>6. Behind' = 0
  BY <1>5 DEF Behind
<1>7. Progress(0, 0, dir', Now')
  BY <1>3, <1>4, ProgressNone
<1> QED BY <1>5, <1>6, <1>7 DEF SettleInv

LEMMA NextOnSchedule ==
    ASSUME PipeInv, OnSchedule, todo # <<>>
    PROVE  /\ Len(todo) \in 1 .. 19
           /\ Head(todo) = All[20 - Len(todo)]
           /\ Len(Tail(todo)) = Len(todo) - 1
<1>1. todo \in Seq(DOMAIN Writes)
  BY DEF PipeInv, PipelineTypeOK
<1>2. Len(todo) \in Nat /\ Len(todo) # 0
  BY <1>1, EmptySeq
<1>3. Head(todo) = todo[1] /\ Len(Tail(todo)) = Len(todo) - 1
  BY <1>1, HeadTailProperties
<1>4. Len(todo) <= 19 /\ \A k \in 1 .. Len(todo) : todo[k] = All[k + (19 - Len(todo))]
  BY DEF OnSchedule
<1> DEFINE n == Len(todo)
<1>a. n \in Nat /\ n # 0 /\ n <= 19
  BY <1>2, <1>4
<1> HIDE DEF n
<1>5. n \in 1 .. 19 /\ 1 \in 1 .. n /\ 1 + (19 - n) = 20 - n
  BY <1>a
<1>6. todo[1] = All[20 - n]
  BY <1>4, <1>5 DEF n
<1> QED BY <1>3, <1>5, <1>6 DEF n

LEMMA SettleRun ==
    ASSUME PipeInv, PipeInv', MeasureInv, SettleInv, RunPhase
    PROVE  SettleInv'
<1> DEFINE p == Head(todo)
           in2 == Input(p)
<1>1. /\ todo # <<>> /\ todo' = Tail(todo) /\ dir' = After(p, dir, in2)
      /\ tables' = Provisioned(p, tables)
      /\ session' = session /\ robot' = robot
      /\ running' = running /\ clean' = clean /\ quiet' = quiet
  BY DEF RunPhase, Input
<1>2. Now' = in2
  BY <1>1 DEF Now, Input
<1>3. p \in DOMAIN Writes /\ DOMAIN dir = Files
  BY <1>1, HeadTailProperties DEF PipeInv, PipelineTypeOK
<1>4. CASE running = "all" /\ clean
  <2> DEFINE n == Len(todo)
             m == 19 - n
  <2>1. OnSchedule
    BY <1>4 DEF MeasureInv
  <2>2. n \in 1 .. 19 /\ p = All[20 - n] /\ Len(todo') = n - 1
    BY <1>1, <2>1, NextOnSchedule
  <2>3. Behind = m /\ Behind' = 19 - (n - 1)
    BY <1>1, <1>4, <2>2 DEF Behind
  <2>4. quiet \in Nat
    BY Bounds DEF PipeInv, PipelineTypeOK
  <2>5. Progress(quiet, m, dir, Now)
    BY <2>3 DEF SettleInv
  <2>6. in2.tables = Provisioned(p, Now.tables)
    BY DEF Input, Now
  <2>7. in2.tables = Now.tables => in2 = Now
    BY DEF Input, Now
  <2> HIDE DEF n, in2, p
  <2>8. m \in 0 .. 18 /\ m + 1 = 20 - n /\ m + 1 = 19 - (n - 1)
    BY <2>2
  <2> HIDE DEF m
  <2>9. p = All[m + 1] /\ Behind' = m + 1
    BY <2>2, <2>3, <2>8
  <2>10. Progress(quiet, m + 1, After(p, dir, in2), in2)
    BY <2>4, <2>5, <2>6, <2>7, <2>8, <2>9, PhaseStep
  <2> QED BY <1>1, <1>2, <2>9, <2>10 DEF SettleInv
<1>5. CASE ~(running = "all" /\ clean)
  <2>1. running # "no"
    BY <1>1 DEF PipeInv
  <2>2. ~clean
    BY <1>5, <2>1 DEF PipeInv, PipelineTypeOK, MeasureInv
  <2>3. quiet = 0 /\ quiet' = 0
    BY <1>1, <2>2 DEF MeasureInv
  <2>4. Behind' = 0
    BY <1>1, <2>2 DEF Behind
  <2>5. RuleFiles(After(p, dir, in2))
    BY <1>3, RuleFilesStages DEF SettleInv, Progress
  <2>6. DOMAIN dir' = Files /\ RuleFiles(dir')
    BY <1>1, <2>5 DEF PipeInv, PipelineTypeOK
  <2>7. Progress(0, 0, dir', Now')
    BY <2>6, ProgressNone
  <2> QED BY <2>3, <2>4, <2>7 DEF SettleInv
<1> QED BY <1>4, <1>5

LEMMA SettleFinish ==
    ASSUME Rounds >= 3, PipeInv, PipeInv', MeasureInv, SettleInv, Finish
    PROVE  SettleInv'
<1>1. /\ running # "no" /\ running' = "no" /\ todo = <<>> /\ dir' = dir
      /\ tables' = tables /\ session' = session /\ robot' = robot
  BY DEF Finish, world
<1>2. Now' = Now /\ Behind' = 0
  BY <1>1 DEF Now, Behind
<1>3. quiet \in Nat /\ quiet \in 0 .. Rounds /\ Rounds \in Nat
  BY Bounds DEF PipeInv, PipelineTypeOK
<1>4. CASE running = "all" /\ clean
  <2>1. Behind = 19
    BY <1>1, <1>4 DEF Behind
  <2>2. /\ Progress(quiet + 1, 0, dir, Now)
        /\ quiet >= 3 => Progress(quiet, 0, dir, Now)
    BY <1>3, <2>1, RoundStep DEF SettleInv
  <2>3. quiet' = IF quiet < Rounds THEN quiet + 1 ELSE quiet
    BY <1>4 DEF Finish
  <2>4. CASE quiet < Rounds
    BY <1>1, <1>2, <2>2, <2>3, <2>4 DEF SettleInv
  <2>5. CASE ~(quiet < Rounds)
    <3>1. quiet >= 3
      BY <1>3, <2>5
    <3> QED BY <1>1, <1>2, <2>2, <2>3, <2>5, <3>1 DEF SettleInv
  <2> QED BY <2>4, <2>5
<1>5. CASE ~(running = "all" /\ clean)
  <2>1. Behind = 0
    BY <1>5 DEF Behind
  <2>2. quiet' = quiet
    BY <1>5 DEF Finish
  <2> QED BY <1>1, <1>2, <2>1, <2>2 DEF SettleInv
<1> QED BY <1>4, <1>5

LEMMA SettleStep ==
    ASSUME Rounds >= 3, PipeInv, PipeInv', MeasureInv, SettleInv,
           [PipelineNext]_pipelineVars
    PROVE  SettleInv'
<1>1. CASE StartAll
  <2>1. /\ running = "no" /\ clean' /\ running' = "all" /\ todo' = All
        /\ dir' = dir /\ quiet' = quiet
        /\ tables' = tables /\ session' = session /\ robot' = robot
    BY <1>1 DEF StartAll, world
  <2>2. Behind = 0 /\ Behind' = 0
    BY <2>1, AllArePhases DEF Behind
  <2>3. Now' = Now
    BY <2>1 DEF Now
  <2> QED BY <2>1, <2>2, <2>3 DEF SettleInv
<1>2. CASE RunPhase
  BY <1>2, SettleRun
<1>3. CASE Finish
  BY <1>3, SettleFinish
<1>4. CASE UNCHANGED pipelineVars
  <2>1. Now' = Now /\ Behind' = Behind /\ dir' = dir /\ quiet' = quiet
    BY <1>4 DEF Now, Behind, pipelineVars
  <2> QED BY <2>1 DEF SettleInv
<1>5. CASE Die \/ (\E p \in Singles : StartSingle(p)) \/ EditDatabase
               \/ EditSession \/ EditRobot \/ ApplyProposal
  BY <1>5, SettleUpset
<1> QED BY <1>1, <1>2, <1>3, <1>4, <1>5 DEF PipelineNext

(* A new checkout. *)

Whole(in) == BaseTables \cup TaskTables \subseteq in.tables

\* The n-th phase, of a run that repeats All, from what "was".
PhaseAt(n, was, in) ==
    CHOOSE new \in {PhaseOn(All[((n - 1) % Len(All)) + 1], v, in) : v \in {was}} : TRUE

FreshStart(in) == [dir |-> NoFiles, tables |-> in.tables \ TaskTables]

FreshRun(in) ==
    CHOOSE s : s = [n \in 0 .. Rounds * Len(All) |->
                       IF n = 0 THEN FreshStart(in) ELSE PhaseAt(n, s[n - 1], in)]

LEMMA PhaseAtIs ==
    ASSUME NEW n, NEW was, NEW in
    PROVE  PhaseAt(n, was, in) = PhaseOn(All[((n - 1) % Len(All)) + 1], was, in)
<1> DEFINE x == PhaseOn(All[((n - 1) % Len(All)) + 1], was, in)
<1>1. {PhaseOn(All[((n - 1) % Len(All)) + 1], v, in) : v \in {was}} = {x}
  OBVIOUS
<1> HIDE DEF x
<1>2. (CHOOSE new \in {x} : TRUE) = x
  OBVIOUS
<1> QED BY <1>1, <1>2 DEF PhaseAt, x

LEMMA FreshIs ==
    ASSUME NEW in \in Inputs, Whole(in)
    PROVE  Fresh[in] = FreshRun(in)[Rounds * Len(All)].dir
<1>1. in \in {i \in Inputs : BaseTables \cup TaskTables \subseteq i.tables}
  BY DEF Whole
<1> QED BY <1>1 DEF Fresh, FreshRun, PhaseAt, FreshStart

\* Phase after phase, the directories of a new checkout exist.
LEMMA FreshExists ==
    ASSUME NEW in
    PROVE  /\ FreshRun(in)[0] = FreshStart(in)
           /\ \A n \in 1 .. Rounds * 19 :
                 FreshRun(in)[n] = PhaseAt(n, FreshRun(in)[n - 1], in)
<1> DEFINE N == Rounds * 19
           Is(s, m) == s = [k \in 0 .. m |-> IF k = 0 THEN FreshStart(in)
                                              ELSE PhaseAt(k, s[k - 1], in)]
           S == {m \in 0 .. N : \E s : Is(s, m)}
<1>a. Len(All) = 19
  BY AllArePhases
<1>b. N \in Nat
  BY Bounds
<1>1. 0 \in S
  <2> DEFINE s == [k \in 0 .. 0 |-> FreshStart(in)]
  <2>1. Is(s, 0)
    OBVIOUS
  <2>2. 0 \in 0 .. N
    BY <1>b
  <2>3. \E r : Is(r, 0)
    BY <2>1
  <2> HIDE DEF Is
  <2> QED BY <2>2, <2>3
<1> HIDE DEF N
<1>2. ASSUME NEW m \in 0 .. N, m < N, m \in S PROVE m + 1 \in S
  <2>1. PICK s : Is(s, m)
    BY <1>2
  <2> DEFINE t == [k \in 0 .. m + 1 |->
                      IF k = m + 1 THEN PhaseAt(m + 1, s[m], in) ELSE s[k]]
  <2>2. \A k \in 0 .. m : t[k] = s[k]
    BY <1>b
  <2>3. \A k \in 0 .. m + 1 :
           t[k] = IF k = 0 THEN FreshStart(in) ELSE PhaseAt(k, t[k - 1], in)
    <3>1. TAKE k \in 0 .. m + 1
    <3>2. CASE k = m + 1
      BY <1>b, <2>2, <3>2
    <3>3. CASE k # m + 1
      <4>1. k \in 0 .. m /\ (k # 0 => k - 1 \in 0 .. m)
        BY <1>b, <3>3
      <4> QED BY <2>1, <2>2, <4>1
    <3> QED BY <3>2, <3>3
  <2>4. Is(t, m + 1)
    <3> HIDE DEF t
    <3> QED BY <2>3 DEF t
  <2>5. m + 1 \in 0 .. N
    BY <1>2, <1>b
  <2> HIDE DEF Is
  <2>6. \E r : Is(r, m + 1)
    BY <2>4
  <2> QED BY <2>5, <2>6
<1>3. N \in S
  <2>1. N \in 0 .. N
    BY <1>b
  <2> HIDE DEF S
  <2>2. 0 .. N \subseteq S
    BY <1>1, <1>2, <1>b, UpTo
  <2> QED BY <2>1, <2>2
<1>4. \E s : Is(s, N)
  BY <1>3
<1>5. FreshRun(in) = CHOOSE s : Is(s, N)
  BY <1>a DEF FreshRun, N
<1>6. Is(FreshRun(in), N)
  BY <1>4, <1>5
<1> DEFINE r == FreshRun(in)
<1>7. r = [k \in 0 .. N |-> IF k = 0 THEN FreshStart(in)
                            ELSE PhaseAt(k, r[k - 1], in)]
  BY <1>6
<1> HIDE DEF r
<1>9. 0 \in 0 .. N /\ \A k \in 1 .. N : k \in 0 .. N /\ k # 0
  BY <1>b
<1>10. r[0] = FreshStart(in) /\ \A k \in 1 .. N : r[k] = PhaseAt(k, r[k - 1], in)
  BY <1>7, <1>9
<1> QED BY <1>10 DEF r, N

\* What holds after n phases in a new checkout.
SettlesAt(n, c, in) ==
    /\ in.tables \ TaskTables \subseteq c.tables
    /\ c.tables \subseteq in.tables
    /\ \E q \in Nat, m \in 0 .. 18 :
          /\ n = 19 * q + m
          /\ Progress(q, m, c.dir, [in EXCEPT !.tables = c.tables])

LEMMA FreshSettles ==
    ASSUME NEW in \in Inputs, Whole(in)
    PROVE  \A n \in 0 .. Rounds * 19 : SettlesAt(n, FreshRun(in)[n], in)
<1> DEFINE N == Rounds * 19
           r == FreshRun(in)
           S == {n \in 0 .. N : SettlesAt(n, r[n], in)}
<1>1. N \in Nat /\ Len(All) = 19
  BY Bounds, AllArePhases
<1>2. /\ r[0] = FreshStart(in)
      /\ \A n \in 1 .. N : r[n] = PhaseAt(n, r[n - 1], in)
  BY FreshExists
<1> HIDE DEF N, r
<1>3. 0 \in S
  <2>1. r[0].dir = NoFiles /\ r[0].tables = in.tables \ TaskTables
    BY <1>2 DEF FreshStart
  <2>2. Progress(0, 0, r[0].dir, [in EXCEPT !.tables = r[0].tables])
    BY <2>1, NoFilesRule, ProgressNone
  <2>3. 0 \in Nat /\ 0 \in 0 .. 18 /\ 0 = 19 * 0 + 0 /\ 0 \in 0 .. N
    BY <1>1
  <2>4. SettlesAt(0, r[0], in)
    BY <2>1, <2>2, <2>3 DEF SettlesAt
  <2> QED BY <2>3, <2>4
<1>4. ASSUME NEW n \in 0 .. N, n < N, n \in S PROVE n + 1 \in S
  <2> DEFINE c == r[n]
             e == r[n + 1]
  <2>1. SettlesAt(n, c, in)
    BY <1>4
  <2>2. PICK q \in Nat : \E m \in 0 .. 18 :
          /\ n = 19 * q + m
          /\ Progress(q, m, c.dir, [in EXCEPT !.tables = c.tables])
    BY <2>1 DEF SettlesAt
  <2>3. PICK m \in 0 .. 18 :
          /\ n = 19 * q + m
          /\ Progress(q, m, c.dir, [in EXCEPT !.tables = c.tables])
    BY <2>2
  <2> DEFINE p == All[m + 1]
             ts == Provisioned(p, c.tables)
             in1 == [in EXCEPT !.tables = c.tables]
             in2 == [in EXCEPT !.tables = ts]
  <2>4. n + 1 \in 1 .. N /\ (n + 1) - 1 = n /\ n + 1 \in 0 .. N
    BY <1>1, <1>4
  <2>5. n % 19 = m
    BY <2>3
  <2>6. e = PhaseOn(p, c, in)
    <3>1. e = PhaseAt(n + 1, c, in)
      BY <1>2, <2>4
    <3> HIDE DEF e, c
    <3>2. PhaseAt(n + 1, c, in) = PhaseOn(All[(((n + 1) - 1) % Len(All)) + 1], c, in)
      BY PhaseAtIs
    <3>3. (((n + 1) - 1) % Len(All)) + 1 = m + 1
      BY <1>1, <2>4, <2>5
    <3> QED BY <3>1, <3>2, <3>3
  <2> HIDE DEF c, e
  <2>7. e.dir = After(p, c.dir, in2) /\ e.tables = ts
    BY <2>6 DEF PhaseOn
  <2>8. in1.tables = c.tables /\ in2.tables = ts
    BY DEF Inputs
  <2>9. ts = c.tables => in2 = in1
    OBVIOUS
  <2> HIDE DEF p, ts, in1, in2
  <2>10. Progress(q, m + 1, After(p, c.dir, in2), in2)
    <3>1. in2.tables = Provisioned(All[m + 1], in1.tables)
      BY <2>8 DEF ts, p
    <3>2. in2.tables = in1.tables => in2 = in1
      BY <2>8, <2>9
    <3>3. Progress(q, m, c.dir, in1)
      BY <2>3 DEF in1
    <3>4. Progress(q, m + 1, After(All[m + 1], c.dir, in2), in2)
      BY <3>1, <3>2, <3>3, PhaseStep
    <3> QED BY <3>4 DEF p
  <2>11. in2 = [in EXCEPT !.tables = e.tables]
    BY <2>7 DEF in2
  <2>12. Progress(q, m + 1, e.dir, [in EXCEPT !.tables = e.tables])
    BY <2>7, <2>10, <2>11
  <2>13. \E i \in Nat, j \in 0 .. 18 :
           /\ n + 1 = 19 * i + j
           /\ Progress(i, j, e.dir, [in EXCEPT !.tables = e.tables])
    <3>1. CASE m < 18
      <4>1. m + 1 \in 0 .. 18 /\ n + 1 = 19 * q + (m + 1)
        BY <2>3, <3>1
      <4> QED BY <2>12, <4>1
    <3>2. CASE m = 18
      <4>1. Progress(q, 19, e.dir, [in EXCEPT !.tables = e.tables])
        <5>1. m + 1 = 19
          BY <3>2
        <5> QED BY <2>12, <5>1
      <4>2. Progress(q + 1, 0, e.dir, [in EXCEPT !.tables = e.tables])
        BY <4>1, RoundStep
      <4>3. q + 1 \in Nat /\ 0 \in 0 .. 18 /\ n + 1 = 19 * (q + 1) + 0
        BY <2>3, <3>2
      <4> QED BY <4>2, <4>3
    <3>3. m < 18 \/ m = 18
      OBVIOUS
    <3> QED BY <3>1, <3>2, <3>3
  <2>14. in.tables \ TaskTables \subseteq e.tables /\ e.tables \subseteq in.tables
    <3>1. in.tables \ TaskTables \subseteq c.tables /\ c.tables \subseteq in.tables
      BY <2>1 DEF SettlesAt
    <3>2. BaseTables \subseteq in.tables /\ TaskTables \subseteq in.tables
      BY DEF Whole
    <3>3. c.tables \subseteq ts /\ ts \subseteq c.tables \cup BaseTables \cup TaskTables
      BY DEF ts, Provisioned
    <3> QED BY <2>7, <3>1, <3>2, <3>3
  <2>15. SettlesAt(n + 1, e, in)
    BY <2>13, <2>14 DEF SettlesAt
  <2> QED BY <2>4, <2>15 DEF e
<1>5. 0 .. N \subseteq S
  <2> HIDE DEF S
  <2> QED BY <1>1, <1>3, <1>4, UpTo
<1>6. \A n \in 0 .. N : SettlesAt(n, r[n], in)
  BY <1>5
<1> QED BY <1>6 DEF N, r

\* After the last of three rounds or more everything has settled.
LEMMA ProgressSettles ==
    ASSUME Rounds >= 3, NEW d, NEW in, Progress(Rounds, 0, d, in)
    PROVE  /\ \A f \in WrittenByAll : Settled(f, d[f], in)
           /\ BaseTables \subseteq in.tables /\ TaskTables \subseteq in.tables
<1>1. Rounds \in Nat
  BY Bounds
<1>2. Reach(Rounds, 2, 0) = WrittenByAll /\ Reach(Rounds, 3, 0) = WrittenByAll
  <2>1. Rounds >= 2 /\ Rounds >= 3
    BY <1>1
  <2> QED BY <2>1 DEF Reach
<1>3. \A f \in WrittenByAll \ Late : Settled(f, d[f], in)
  BY <1>2 DEF Progress
<1>4. \A f \in WrittenByAll \cap Late : Settled(f, d[f], in)
  BY <1>2 DEF Progress
<1>5. BaseTables \subseteq in.tables /\ TaskTables \subseteq in.tables
  <2>1. Rounds >= 1
    BY <1>1
  <2> QED BY <2>1 DEF Progress
<1> QED BY <1>3, <1>4, <1>5

LEMMA FreshSettled ==
    ASSUME Rounds >= 3, NEW in \in Inputs, Whole(in)
    PROVE  \A f \in WrittenByAll : Settled(f, Fresh[in][f], in)
<1> DEFINE c == FreshRun(in)[Rounds * 19]
<1>1. Rounds \in Nat /\ Rounds * 19 \in 0 .. Rounds * 19 /\ Len(All) = 19
  BY Bounds, AllArePhases
<1>2. SettlesAt(Rounds * 19, c, in)
  BY <1>1, FreshSettles
<1>3. Fresh[in] = c.dir
  BY <1>1, FreshIs
<1> HIDE DEF c
<1>4. PICK q \in Nat : \E m \in 0 .. 18 :
          /\ Rounds * 19 = 19 * q + m
          /\ Progress(q, m, c.dir, [in EXCEPT !.tables = c.tables])
  BY <1>2 DEF SettlesAt
<1>5. PICK m \in 0 .. 18 :
          /\ Rounds * 19 = 19 * q + m
          /\ Progress(q, m, c.dir, [in EXCEPT !.tables = c.tables])
  BY <1>4
<1>6. q = Rounds /\ m = 0
  BY <1>1, <1>5
<1> DEFINE in1 == [in EXCEPT !.tables = c.tables]
<1>7. Progress(Rounds, 0, c.dir, in1)
  BY <1>5, <1>6
<1>8. in1.tables = c.tables
  BY DEF Inputs
<1>9. c.tables = in.tables => in1 = in
  BY DEF Inputs
<1> HIDE DEF in1
<1>10. /\ \A f \in WrittenByAll : Settled(f, c.dir[f], in1)
       /\ TaskTables \subseteq c.tables
  BY <1>7, <1>8, ProgressSettles
<1>11. c.tables = in.tables
  BY <1>2, <1>10 DEF SettlesAt
<1> QED BY <1>3, <1>9, <1>10, <1>11

\* Two settled contents of a file that no run leaves lingering look alike.
LEMMA PlainShown ==
    ASSUME NEW c, c # Missing
    PROVE  Plain(c) = Shown(c, Now)
BY DEF Plain, Shown, Lasting, Now

LEMMA KeepsAlike ==
    ASSUME NEW c, NEW e, NEW x, Keeps(c, x), Keeps(e, x)
    PROVE  Plain(c) = Plain(e)
<1>1. Shown(c, Now) = Shown(e, Now)
  BY DEF Keeps, Shown
<1> QED BY <1>1, PlainShown DEF Keeps

LEMMA ShowsAlike ==
    ASSUME NEW c, NEW e, NEW x, Shows(c, Now, x), Shows(e, Now, x)
    PROVE  Plain(c) = Plain(e)
BY PlainShown DEF Shows

LEMMA NotLingering ==
    ASSUME NEW f \in Files \ Lingering
    PROVE  /\ f \notin {"master.ttl", "modules.json", "hierarchy-snapshot-prev.tsv"}
           /\ f \in {"enterprise-classified.ttl", "hierarchy-snapshot.tsv"}
                 => robot \notin {"absent", "fails"}
           /\ f \in {"rules.ttl", "sparql_rules"} => session.rules # {}
           /\ f = "inferred-sparql.ttl" =>
                 session.rules \cap SparqlRules # {} \/ session.causal # {}
<1>1. Listed(RunAndReport) = {"hierarchy-snapshot-prev.tsv",
                   "enterprise-classified.ttl", "hierarchy-snapshot.tsv"}
  BY DEF Listed, RunAndReport
<1>2. f \notin {"master.ttl", "modules.json", "hierarchy-snapshot-prev.tsv"}
  BY <1>1 DEF Lingering
<1>3. ASSUME f \in {"enterprise-classified.ttl", "hierarchy-snapshot.tsv"}
      PROVE  robot \notin {"absent", "fails"}
  BY <1>1, <1>3 DEF Lingering
<1>4. f \in {"rules.ttl", "sparql_rules"} => session.rules # {}
  BY DEF Lingering
<1>5. ASSUME f = "inferred-sparql.ttl"
      PROVE  session.rules \cap SparqlRules # {} \/ session.causal # {}
  <2>1. SUFFICES ASSUME session.rules \cap SparqlRules = {} /\ session.causal = {}
                 PROVE  FALSE
    BY Zenon
  <2>2. f \in Lingering
    BY <1>5, <2>1 DEF Lingering
  <2> QED BY <2>2
<1> QED BY <1>2, <1>3, <1>4, <1>5

LEMMA SettledAlike ==
    ASSUME robot \in Robots, NEW f \in Files \ Lingering, NEW c, NEW e,
           Settled(f, c, Now), Settled(f, e, Now)
    PROVE  Plain(c) = Plain(e)
<1>1. f \in FromConstants \cup FromTables \cup DerivedFiles
  BY FilesAre
<1>2. CASE f \in FromConstants
  BY <1>2, SettledConstants
<1>3. CASE f \in FromTables
  <2>1. c = Own(f) \cup TableAtoms(Now.tables)
    BY <1>3, SettledTables
  <2>2. e = Own(f) \cup TableAtoms(Now.tables)
    BY <1>3, SettledTables
  <2> QED BY <2>1, <2>2
<1>4. Now.rules = session.rules /\ Now.causal = session.causal /\ Now.robot = robot
  BY DEF Now
<1>5. CASE f \in {"enterprise.ttl", "profile_recommendation.md",
                  "enterprise-inferred.ttl", "alignment.ttl", "instances.ttl",
                  "ontology_quality.csv", "sparql_cq_test_results.csv",
                  "cq_test_results.csv", "governance_scorecard.csv",
                  "toolkit_report.html"}
  BY <1>5, SettledDerived, KeepsAlike
<1>6. CASE f \in {"_combined.ttl", "inferred-shacl.ttl", "materialised.ttl",
                  "materialised-lineage.ttl", "materialisation_report.md",
                  "compliance_summary.html"}
  BY <1>6, SettledDerived, ShowsAlike
<1>7. CASE f \in {"enterprise-classified.ttl", "hierarchy-snapshot.tsv"}
  <2>1. Reasons(Now)
    BY <1>4, <1>7, NotLingering DEF Reasons, Robots
  <2> QED BY <1>7, <2>1, SettledDerived, KeepsAlike
<1>8. CASE f \in {"rules.ttl", "sparql_rules"}
  <2>1. Now.rules # {}
    BY <1>4, <1>8, NotLingering
  <2> QED BY <1>8, <2>1, SettledDerived
<1>9. CASE f = "inferred-sparql.ttl"
  <2>1. session.rules \cap SparqlRules # {} \/ session.causal # {}
    BY <1>9, NotLingering
  <2>2. SparqlText(Now) # {}
    BY <1>4, <2>1 DEF SparqlText, RuleAtoms
  <2> QED BY <1>9, <2>2, SettledDerived, ShowsAlike
<1>10. f \notin {"master.ttl", "modules.json", "hierarchy-snapshot-prev.tsv"}
  BY NotLingering
<1> QED BY <1>1, <1>2, <1>3, <1>5, <1>6, <1>7, <1>8, <1>9, <1>10 DEF DerivedFiles

LEMMA SettledAsFresh ==
    ASSUME Rounds >= 3, PipeInv, SettleInv
    PROVE  SettledLikeFresh
<1> SUFFICES ASSUME running = "no", quiet = Rounds
             PROVE  \A f \in WrittenByAll \ Lingering :
                       Plain(dir[f]) = Plain(Fresh[Input("p1")][f])
  BY DEF SettledLikeFresh
<1>1. Behind = 0
  BY DEF Behind
<1>2. Progress(Rounds, 0, dir, Now)
  BY <1>1 DEF SettleInv
<1>3. /\ \A f \in WrittenByAll : Settled(f, dir[f], Now)
      /\ BaseTables \subseteq tables /\ TaskTables \subseteq tables
  BY <1>2, ProgressSettles DEF Now
<1>4. Input("p1") = Now
  <2>1. Provisioned("p1", tables) = tables
    BY <1>3 DEF Provisioned
  <2> QED BY <2>1 DEF Input, Now
<1>5. Now \in Inputs /\ Whole(Now)
  <2>1. /\ tables \subseteq Tables /\ robot \in Robots
        /\ session \in [classes : SUBSET LogClasses,
                        rules : SUBSET (ShaclRules \cup SparqlRules),
                        causal : SUBSET CausalRules]
    BY DEF PipeInv, PipelineTypeOK
  <2>2. /\ session.classes \in SUBSET LogClasses
        /\ session.rules \in SUBSET (ShaclRules \cup SparqlRules)
        /\ session.causal \in SUBSET CausalRules
    BY <2>1
  <2>3. Now \in Inputs
    BY <2>1, <2>2 DEF Now, Inputs
  <2> QED BY <1>3, <2>3 DEF Whole, Now
<1>6. \A f \in WrittenByAll : Settled(f, Fresh[Now][f], Now)
  BY <1>5, FreshSettled
<1>7. WrittenByAll \subseteq Files /\ robot \in Robots
  BY AllWritten DEF PipeInv, PipelineTypeOK
<1>8. ASSUME NEW f \in WrittenByAll \ Lingering
      PROVE  Plain(dir[f]) = Plain(Fresh[Now][f])
  <2>1. f \in Files \ Lingering
    BY <1>7
  <2>2. Settled(f, dir[f], Now) /\ Settled(f, Fresh[Now][f], Now)
    BY <1>3, <1>6
  <2> QED BY <1>7, <2>1, <2>2, SettledAlike
<1> QED BY <1>4, <1>8

\* Whatever runs, edits, deaths in the middle of a file and applied blocks
\* came before, three or more full runs that nothing disturbs leave every file
\* outside Lingering as they would in a new checkout.  (Two do not, of the
\* scorecard and of what is reported of it.)
THEOREM SettledLikeFreshHolds ==
    ASSUME Rounds >= 3
    PROVE  PipelineSpec => []SettledLikeFresh
<1>1. PipelineInit => PipeInv /\ MeasureInv /\ SettleInv
  BY PipeInit, MeasureInit, SettleInit
<1>2. PipeInv /\ MeasureInv /\ SettleInv /\ [PipelineNext]_pipelineVars
         => (PipeInv /\ MeasureInv /\ SettleInv)'
  BY PipeStep, MeasureStep, SettleStep
<1>3. PipeInv /\ MeasureInv /\ SettleInv => SettledLikeFresh
  BY SettledAsFresh
<1> QED BY <1>1, <1>2, <1>3, PTL DEF PipelineSpec
=============================================================================
