------------------------- MODULE LogDiscoveryProofs -------------------------
(***************************************************************************)
(* Proofs about LogDiscovery, for any corpora, processes and plans of which*)
(* one process may refine: merging always ends in a live template, a new   *)
(* causal proposal is of a directed edge, and the ranker in use and its    *)
(* audit row count decisions that were made.                               *)
(***************************************************************************)
EXTENDS LogDiscovery, FiniteSetTheorems, TLAPS

Refiners == {p \in Processes : Plans[p] \cap {Mine, Sequences} # {}}

Steps ==
  {"flush", "read", "merge", "profile", "link", "gate", "seed", "model", "flag",
   "scan", "propose", "rate", "decisions", "save", "record"}

\* A table of templates: numbered from 1, each row a record.
Table(t) ==
  /\ t \in Seq({t[r] : r \in DOMAIN t})
  /\ \A r \in DOMAIN t : t[r] = [text |-> t[r].text, hits |-> t[r].hits, into |-> t[r].into]

\* The processes follow their plans, each on a corpus.
Plan ==
  /\ todo \in [Processes -> Seq(Steps)]
  /\ corpus \in [Processes -> Corpora \cup {"none"}]
  /\ \A p \in Processes : todo[p] # <<>> => corpus[p] \in Corpora
  /\ \A p \in Processes : \A i \in 1..Len(todo[p]) :
       /\ todo[p][i] \in {"read", "merge"} => p \in Refiners
       /\ todo[p][i] = "save" => i = 1 \/ todo[p][i - 1] = "decisions"
       /\ todo[p][i] = "record" => i = 1 \/ todo[p][i - 1] = "save"

\* What a refine has read as live is still live.
Fresh ==
  /\ read = [p \in Processes |-> read[p]]
  /\ \A p \in Processes :
       /\ read[p] # <<>> => p \in Refiners
       /\ Live(read[p]) \subseteq Live(rows)

MInv == Plan /\ Fresh /\ Table(rows) /\ MergesEnd

LEMMA PlanFacts ==
  ASSUME NEW plan \in AllPlans
  PROVE  /\ plan \in Seq(Steps) /\ Len(plan) # 0
         /\ \A i \in 1..Len(plan) :
              /\ plan[i] \in {"read", "merge"} => plan \in {Mine, Sequences}
              /\ plan[i] = "save" => plan[i - 1] = "decisions"
              /\ plan[i] = "record" => plan[i - 1] = "save"
<1>1. CASE plan = Mine
  <2>1. plan \in Seq(Steps) /\ Len(plan) = 8 BY <1>1 DEF Mine, Steps
  <2>2. plan[1] = "flush" /\ plan[2] = "read" /\ plan[3] = "merge" /\ plan[4] = "profile"
        /\ plan[5] = "link" /\ plan[6] = "flush" /\ plan[7] = "gate" /\ plan[8] = "seed"
    BY <1>1 DEF Mine
  <2>3. 1..8 = {1, 2, 3, 4, 5, 6, 7, 8} OBVIOUS
  <2> QED BY <1>1, <2>1, <2>2, <2>3
<1>2. CASE plan = Sequences
  <2>1. plan \in Seq(Steps) /\ Len(plan) = 5 BY <1>2 DEF Sequences, Steps
  <2>2. plan[1] = "flush" /\ plan[2] = "read" /\ plan[3] = "merge" /\ plan[4] = "model"
        /\ plan[5] = "flag"
    BY <1>2 DEF Sequences
  <2>3. 1..5 = {1, 2, 3, 4, 5} OBVIOUS
  <2> QED BY <1>2, <2>1, <2>2, <2>3
<1>3. CASE plan = Drift
  <2>1. plan \in Seq(Steps) /\ Len(plan) = 2 BY <1>3 DEF Drift, Steps
  <2>2. plan[1] = "scan" /\ plan[2] = "propose"
    BY <1>3 DEF Drift
  <2>3. 1..2 = {1, 2} OBVIOUS
  <2> QED BY <1>3, <2>1, <2>2, <2>3
<1>4. CASE plan = SeedGated
  <2>1. plan \in Seq(Steps) /\ Len(plan) = 3 BY <1>4 DEF SeedGated, Steps
  <2>2. plan[1] = "flush" /\ plan[2] = "gate" /\ plan[3] = "seed"
    BY <1>4 DEF SeedGated
  <2>3. 1..3 = {1, 2, 3} OBVIOUS
  <2> QED BY <1>4, <2>1, <2>2, <2>3
<1>5. CASE plan = Seed
  <2>1. plan \in Seq(Steps) /\ Len(plan) = 1 BY <1>5 DEF Seed, Steps
  <2>2. plan[1] = "seed"
    BY <1>5 DEF Seed
  <2>3. 1..1 = {1} OBVIOUS
  <2> QED BY <1>5, <2>1, <2>2, <2>3
<1>6. CASE plan = Rates
  <2>1. plan \in Seq(Steps) /\ Len(plan) = 2 BY <1>6 DEF Rates, Steps
  <2>2. plan[1] = "flush" /\ plan[2] = "rate"
    BY <1>6 DEF Rates
  <2>3. 1..2 = {1, 2} OBVIOUS
  <2> QED BY <1>6, <2>1, <2>2, <2>3
<1>7. CASE plan = Rerank
  <2>1. plan \in Seq(Steps) /\ Len(plan) = 3 BY <1>7 DEF Rerank, Steps
  <2>2. plan[1] = "decisions" /\ plan[2] = "save" /\ plan[3] = "record"
    BY <1>7 DEF Rerank
  <2>3. 1..3 = {1, 2, 3} OBVIOUS
  <2> QED BY <1>7, <2>1, <2>2, <2>3
<1> QED BY <1>1, <1>2, <1>3, <1>4, <1>5, <1>6, <1>7 DEF AllPlans

\* A process's plan goes on as it should, whatever it does.
LEMMA GoOnKeepsPlan ==
  ASSUME Plan, NEW p \in Processes, todo[p] # <<>>, NEW what, Goto(p, what)
  PROVE  Plan'
<1> DEFINE rest == Tail(todo[p])
<1>1. /\ todo[p] \in Seq(Steps) /\ Len(todo[p]) \in Nat /\ Len(todo[p]) # 0
  BY DEF Plan
<1>2. /\ rest \in Seq(Steps) /\ Len(rest) = Len(todo[p]) - 1
      /\ \A i \in 1..Len(rest) : rest[i] = todo[p][i + 1]
  BY <1>1
<1>3. /\ todo' = [todo EXCEPT ![p] = rest]
      /\ corpus' = [corpus EXCEPT ![p] = IF rest = <<>> THEN "none" ELSE @]
  BY DEF Goto, GoOn
<1> HIDE DEF rest
<1>4. /\ todo' \in [Processes -> Seq(Steps)]
      /\ corpus' \in [Processes -> Corpora \cup {"none"}]
      /\ \A q \in Processes : todo'[q] # <<>> => corpus'[q] \in Corpora
  BY <1>2, <1>3 DEF Plan
<1>5. ASSUME NEW q \in Processes, NEW i \in 1..Len(todo'[q])
      PROVE  /\ todo'[q][i] \in {"read", "merge"} => q \in Refiners
             /\ todo'[q][i] = "save" => i = 1 \/ todo'[q][i - 1] = "decisions"
             /\ todo'[q][i] = "record" => i = 1 \/ todo'[q][i - 1] = "save"
  <2>1. CASE q = p
    <3>1. todo'[q] = rest BY <1>3, <2>1 DEF Plan
    <3>2. i + 1 \in 1..Len(todo[p]) /\ todo[p][i + 1] = rest[i] BY <1>1, <1>2, <1>5, <3>1
    <3>3. i # 1 => i - 1 \in 1..Len(rest) /\ rest[i - 1] = todo[p][i]
      BY <1>2, <1>5, <3>1
    <3>4. (i + 1) - 1 = i BY <1>1, <1>2, <1>5, <3>1
    <3> QED BY <2>1, <3>1, <3>2, <3>3, <3>4 DEF Plan
  <2>2. CASE q # p
    <3>1. todo'[q] = todo[q] BY <1>3, <2>2 DEF Plan
    <3> QED BY <1>5, <3>1 DEF Plan
  <2> QED BY <2>1, <2>2
<1> QED BY <1>4, <1>5 DEF Plan

-----------------------------------------------------------------------------
(* The table of templates.                                                  *)

LEMMA MaxOfTwo ==
  ASSUME NEW a \in Nat, NEW b \in Nat
  PROVE  Max({a, b}) \in Nat /\ Max({a, b}) >= a /\ Max({a, b}) >= b
<1>1. \E x \in {a, b} : \A y \in {a, b} : x >= y
  <2>1. CASE a >= b BY <2>1
  <2>2. CASE b >= a BY <2>2
  <2> QED BY <2>1, <2>2
<1> QED BY <1>1 DEF Max

\* flush keeps every row and where it is merged into; the rows it adds are live.
LEMMA FlushedTable ==
  ASSUME NEW t, Table(t), NEW counts \in Seq([text : Texts, hits : Nat])
  PROVE  /\ Table(Flushed(t, counts))
         /\ DOMAIN t \subseteq DOMAIN Flushed(t, counts)
         /\ \A r \in DOMAIN Flushed(t, counts) :
              Flushed(t, counts)[r].into = IF r \in DOMAIN t THEN t[r].into ELSE 0
<1> DEFINE n == Max({Len(t), Len(counts)})
           row(c) ==
             CASE c \notin DOMAIN counts -> t[c]
               [] c \notin DOMAIN t -> Template(counts[c].text, counts[c].hits)
               [] OTHER -> [t[c] EXCEPT !.text = counts[c].text, !.hits = @ + counts[c].hits]
           new == [c \in 1..n |-> row(c)]
<1>1. /\ Len(t) \in Nat /\ DOMAIN t = 1..Len(t)
      /\ Len(counts) \in Nat /\ DOMAIN counts = 1..Len(counts)
  BY DEF Table
<1>2. n \in Nat /\ n >= Len(t) /\ n >= Len(counts)
  BY <1>1, MaxOfTwo
<1>3. n = Len(t) \/ n = Len(counts)
  <2>1. \E x \in {Len(t), Len(counts)} : \A y \in {Len(t), Len(counts)} : x >= y
    <3>1. CASE Len(t) >= Len(counts) BY <1>1, <3>1
    <3>2. CASE Len(counts) >= Len(t) BY <1>1, <3>2
    <3> QED BY <1>1, <3>1, <3>2
  <2> QED BY <2>1 DEF Max
<1>4. new = Flushed(t, counts) BY DEF Flushed
<1>5. ASSUME NEW c \in 1..n
      PROVE  /\ row(c) = [text |-> row(c).text, hits |-> row(c).hits, into |-> row(c).into]
             /\ row(c).into = IF c \in DOMAIN t THEN t[c].into ELSE 0
  <2>1. CASE c \notin DOMAIN counts
    <3>1. c \in DOMAIN t BY <1>1, <1>2, <1>3, <1>5, <2>1
    <3> QED BY <2>1, <3>1 DEF Table
  <2>2. CASE c \in DOMAIN counts /\ c \notin DOMAIN t
    BY <2>2 DEF Template
  <2>3. CASE c \in DOMAIN counts /\ c \in DOMAIN t
    <3>1. row(c) = [t[c] EXCEPT !.text = counts[c].text, !.hits = @ + counts[c].hits]
      BY <2>3
    <3>2. t[c] = [text |-> t[c].text, hits |-> t[c].hits, into |-> t[c].into]
      BY <2>3 DEF Table
    <3>3. row(c) = [text |-> counts[c].text, hits |-> t[c].hits + counts[c].hits,
                    into |-> t[c].into]
      <4> HIDE DEF row
      <4> QED BY <3>1, <3>2
    <3> HIDE DEF row
    <3>4. row(c).into = t[c].into BY <3>3
    <3> QED BY <2>3, <3>3, <3>4
  <2> HIDE DEF row
  <2> QED BY <2>1, <2>2, <2>3
<1> HIDE DEF row, n
<1>6. /\ DOMAIN new = 1..n /\ \A c \in 1..n : new[c] = row(c)
      /\ new \in Seq({new[c] : c \in DOMAIN new})
  BY <1>2
<1>7. Table(new) BY <1>5, <1>6 DEF Table
<1>8. DOMAIN t \subseteq DOMAIN new BY <1>1, <1>2, <1>6
<1>9. \A r \in DOMAIN new : new[r].into = IF r \in DOMAIN t THEN t[r].into ELSE 0
  BY <1>5, <1>6
<1> HIDE DEF new
<1> QED BY <1>4, <1>7, <1>8, <1>9

\* refine's updates mark the absorbed rows and no other.
LEMMA MergedTable ==
  ASSUME NEW t, Table(t), NEW old, NEW absorbed
  PROVE  /\ Table(Merged(t, old, absorbed))
         /\ DOMAIN Merged(t, old, absorbed) = DOMAIN t
         /\ \A r \in DOMAIN t : Merged(t, old, absorbed)[r].into =
               IF r \in DOMAIN absorbed THEN absorbed[r] ELSE t[r].into
<1> DEFINE gain(r) == MapThenSumSet(LAMBDA a : old[a].hits,
                                    {a \in DOMAIN absorbed : absorbed[a] = r})
           into(r) == IF r \in DOMAIN absorbed THEN absorbed[r] ELSE t[r].into
           row(r) == [t[r] EXCEPT !.hits = @ + gain(r),
                                  !.into = IF r \in DOMAIN absorbed THEN absorbed[r] ELSE @]
           new == [r \in DOMAIN t |-> row(r)]
<1>1. Len(t) \in Nat /\ DOMAIN t = 1..Len(t) BY DEF Table
<1>2. new = Merged(t, old, absorbed) BY DEF Merged
<1> HIDE DEF gain
<1>3. ASSUME NEW r \in DOMAIN t
      PROVE  row(r) = [text |-> row(r).text, hits |-> row(r).hits, into |-> row(r).into]
             /\ row(r).into = into(r)
  <2>1. t[r] = [text |-> t[r].text, hits |-> t[r].hits, into |-> t[r].into] BY DEF Table
  <2>2. row(r) = [t[r] EXCEPT !.hits = t[r].hits + gain(r), !.into = into(r)] OBVIOUS
  <2> HIDE DEF row, into
  <2>3. row(r) = [text |-> t[r].text, hits |-> t[r].hits + gain(r), into |-> into(r)]
    BY <2>1, <2>2
  <2> QED BY <2>3
<1> HIDE DEF row, into
<1>4. /\ DOMAIN new = 1..Len(t) /\ \A r \in DOMAIN t : new[r] = row(r)
      /\ new \in Seq({new[r] : r \in DOMAIN new})
  BY <1>1
<1>5. Table(new) /\ DOMAIN new = DOMAIN t /\ \A r \in DOMAIN t : new[r].into = into(r)
  BY <1>1, <1>3, <1>4 DEF Table
<1> HIDE DEF new
<1> QED BY <1>2, <1>5 DEF into

\* A process either works off the first step of its plan, or starts or leaves one.
LEMMA StepForms ==
  ASSUME NEW p \in Processes, Step(p)
  PROVE  \/ Start(p) \/ Die(p) \/ FallBack(p)
         \/ todo[p] # <<>> /\ \E what : Goto(p, what)
<1>1. CASE Flush(p) \/ ReadTemplates(p) \/ MergeTemplates(p) \/ ProfileSlots(p) \/ LinkEntities(p)
  BY <1>1 DEF Flush, ReadTemplates, MergeTemplates, ProfileSlots, LinkEntities, At
<1>2. CASE PassGate(p) BY <1>2 DEF PassGate, At
<1>3. CASE SeedProposals(p) \/ FitModels(p) \/ ProposeDrift(p) \/ ProposeRates(p)
  BY <1>3 DEF SeedProposals, FitModels, ProposeDrift, ProposeRates, At
<1>4. CASE FlagTrajectories(p) BY <1>4 DEF FlagTrajectories, At
<1>5. CASE ScanForDrift(p) BY <1>5 DEF ScanForDrift, At
<1>6. CASE ReadDecisions(p) BY <1>6 DEF ReadDecisions, At
<1>7. CASE SaveRanker(p) \/ RecordMeta(p) BY <1>7 DEF SaveRanker, RecordMeta, At
<1>8. CASE Start(p) \/ Die(p) \/ FallBack(p) BY <1>8
<1> QED BY <1>1, <1>2, <1>3, <1>4, <1>5, <1>6, <1>7, <1>8 DEF Step

LEMMA PlanKept ==
  ASSUME Plan, NEW p \in Processes, Step(p)
  PROVE  Plan'
<1>1. ASSUME todo[p] # <<>>, NEW what, Goto(p, what) PROVE Plan'
  BY <1>1, GoOnKeepsPlan
<1>2. ASSUME NEW plan, NEW c \in Corpora \cup {"none"},
             plan \in Seq(Steps), plan # <<>> => c \in Corpora,
             \A i \in 1..Len(plan) :
               /\ plan[i] \in {"read", "merge"} => p \in Refiners
               /\ plan[i] = "save" => i = 1 \/ plan[i - 1] = "decisions"
               /\ plan[i] = "record" => i = 1 \/ plan[i - 1] = "save",
             todo' = [todo EXCEPT ![p] = plan], corpus' = [corpus EXCEPT ![p] = c]
      PROVE  Plan'
  <2>1. /\ todo' \in [Processes -> Seq(Steps)]
        /\ corpus' \in [Processes -> Corpora \cup {"none"}]
    BY <1>2 DEF Plan
  <2>2. ASSUME NEW q \in Processes
        PROVE  /\ todo'[q] # <<>> => corpus'[q] \in Corpora
               /\ \A i \in 1..Len(todo'[q]) :
                    /\ todo'[q][i] \in {"read", "merge"} => q \in Refiners
                    /\ todo'[q][i] = "save" => i = 1 \/ todo'[q][i - 1] = "decisions"
                    /\ todo'[q][i] = "record" => i = 1 \/ todo'[q][i - 1] = "save"
    <3>1. CASE q = p
      <4>1. todo'[q] = plan /\ corpus'[q] = c BY <1>2, <3>1 DEF Plan
      <4> QED BY <1>2, <3>1, <4>1
    <3>2. CASE q # p
      <4>1. todo'[q] = todo[q] /\ corpus'[q] = corpus[q] BY <1>2, <3>2 DEF Plan
      <4> QED BY <4>1 DEF Plan
    <3> QED BY <3>1, <3>2
  <2> QED BY <2>1, <2>2 DEF Plan
<1>3. ASSUME Start(p) PROVE Plan'
  <2>1. PICK plan \in Plans[p], c \in Corpora :
          /\ todo' = [todo EXCEPT ![p] = plan]
          /\ corpus' = [corpus EXCEPT ![p] = c]
    BY <1>3 DEF Start
  <2>2. plan \in AllPlans BY DiscoveryAssumption
  <2>3. plan \in {Mine, Sequences} => p \in Refiners BY DEF Refiners
  <2>4. /\ plan \in Seq(Steps)
        /\ \A i \in 1..Len(plan) :
             /\ plan[i] \in {"read", "merge"} => plan \in {Mine, Sequences}
             /\ plan[i] = "save" => plan[i - 1] = "decisions"
             /\ plan[i] = "record" => plan[i - 1] = "save"
    BY <2>2, PlanFacts
  <2> QED BY <1>2, <2>1, <2>3, <2>4
<1>4. ASSUME Die(p) PROVE Plan'
  <2>1. todo' = [todo EXCEPT ![p] = <<>>] /\ corpus' = [corpus EXCEPT ![p] = "none"]
    BY <1>4 DEF Die, GoOn
  <2>2. <<>> \in Seq(Steps) /\ \A i \in 1..Len(<<>>) : FALSE OBVIOUS
  <2> QED BY <1>2, <2>1, <2>2
<1>5. ASSUME FallBack(p) PROVE Plan'
  <2>1. Seed \in Seq(Steps) /\ Len(Seed) = 1 /\ Seed[1] = "seed" BY DEF Seed, Steps
  <2>2. todo' = [todo EXCEPT ![p] = Seed] /\ corpus' = [corpus EXCEPT ![p] = corpus[p]]
    <3>1. Seed # <<>> BY DEF Seed
    <3>2. corpus' = [corpus EXCEPT ![p] = IF Seed = <<>> THEN "none" ELSE corpus[p]]
      BY <1>5 DEF FallBack, GoOn, Plan
    <3>3. todo' = [todo EXCEPT ![p] = Seed] BY <1>5 DEF FallBack, GoOn
    <3> QED BY <3>1, <3>2, <3>3
  <2>3. todo[p] # <<>> BY <1>5 DEF FallBack, SeedGated
  <2>4. corpus[p] \in Corpora BY <2>3 DEF Plan
  <2>5. \A i \in 1..Len(Seed) : Seed[i] = "seed" BY <2>1
  <2> QED BY <1>2, <2>1, <2>2, <2>4, <2>5
<1> QED BY <1>1, <1>3, <1>4, <1>5, StepForms

LEMMA InitMInv == Init => MInv
<1> SUFFICES ASSUME Init PROVE MInv OBVIOUS
<1>1. rows = <<>> /\ DOMAIN rows = {} /\ rows \in Seq({}) BY DEF Init
<1>2. \A p \in Processes : todo[p] = <<>> /\ Len(todo[p]) = 0 BY DEF Init
<1>3. todo \in [Processes -> Seq(Steps)] /\ corpus \in [Processes -> Corpora \cup {"none"}]
  BY DEF Init
<1>4. Plan BY <1>2, <1>3 DEF Plan
<1>5. read = [p \in Processes |-> <<>>] /\ Live(<<>>) = {} BY DEF Init, Live
<1>6. Fresh BY <1>5 DEF Fresh
<1>7. Table(rows)
  <2>1. {rows[r] : r \in DOMAIN rows} = {} BY <1>1
  <2> QED BY <1>1, <2>1 DEF Table
<1>8. MergesEnd BY <1>1 DEF MergesEnd
<1> QED BY <1>4, <1>6, <1>7, <1>8 DEF MInv

\* The steps that change the table of templates, or what a refine has read.
LEMMA StepMInv ==
  ASSUME MInv, NEW p \in Processes, Step(p)
  PROVE  MInv'
<1>1. Plan' BY PlanKept DEF MInv
<1>2. ASSUME UNCHANGED rows, UNCHANGED read \/ read' = [read EXCEPT ![p] = <<>>]
      PROVE  MInv'
  <2>1. Live(<<>>) = {} BY DEF Live
  <2>2. Fresh' BY <1>2, <2>1 DEF MInv, Fresh
  <2>3. Table(rows)' /\ MergesEnd' BY <1>2 DEF MInv, MergesEnd, Table
  <2> QED BY <1>1, <2>2, <2>3 DEF MInv
<1>3. CASE Flush(p)
  <2> DEFINE counts == CountsOf[corpus[p]]
  <2>1. counts \in Seq([text : Texts, hits : Nat])
    BY <1>3, CountsAssumption DEF Flush, At, MInv, Plan
  <2>2. rows' = Flushed(rows, counts) /\ read' = read BY <1>3 DEF Flush
  <2> HIDE DEF counts
  <2>3. /\ Table(rows') /\ DOMAIN rows \subseteq DOMAIN rows'
        /\ \A r \in DOMAIN rows' :
             rows'[r].into = IF r \in DOMAIN rows THEN rows[r].into ELSE 0
    BY <2>1, <2>2, FlushedTable DEF MInv
  <2>4. Live(rows) \subseteq Live(rows') BY <2>3 DEF Live
  <2>5. Fresh' BY <2>2, <2>4 DEF MInv, Fresh
  <2>6. ASSUME NEW S \in SUBSET (DOMAIN rows'), S # {}, \A r \in S : rows'[r].into # 0
        PROVE  \E r \in S : rows'[r].into \notin S
    <3>1. S \subseteq DOMAIN rows /\ \A r \in S : rows[r].into = rows'[r].into
      BY <2>3, <2>6
    <3> QED BY <2>6, <3>1 DEF MInv, MergesEnd
  <2>7. MergesEnd' BY <2>6 DEF MergesEnd
  <2> QED BY <1>1, <2>3, <2>5, <2>7 DEF MInv
<1>4. CASE ReadTemplates(p)
  <2>1. rows' = rows /\ read' = [read EXCEPT ![p] = rows]
    BY <1>4 DEF ReadTemplates, store
  <2>2. p \in Refiners
    <3>1. todo[p] # <<>> /\ Head(todo[p]) = "read" BY <1>4 DEF ReadTemplates, At
    <3>2. todo[p] \in Seq(Steps) BY DEF MInv, Plan
    <3>3. 1 \in 1..Len(todo[p]) /\ todo[p][1] = "read" BY <3>1, <3>2
    <3> QED BY <3>3 DEF MInv, Plan
  <2>3. Fresh' BY <2>1, <2>2 DEF MInv, Fresh
  <2>4. Table(rows)' /\ MergesEnd' BY <2>1 DEF MInv, MergesEnd, Table
  <2> QED BY <1>1, <2>3, <2>4 DEF MInv
<1>5. CASE MergeTemplates(p)
  <2>1. PICK kept \in SUBSET Selected(read[p]) :
          \E absorbed \in [Selected(read[p]) \ kept -> kept] :
            rows' = Merged(rows, read[p], absorbed)
    BY <1>5 DEF MergeTemplates
  <2>2. PICK absorbed \in [Selected(read[p]) \ kept -> kept] :
          rows' = Merged(rows, read[p], absorbed)
    BY <2>1
  <2>3. /\ Table(rows') /\ DOMAIN rows' = DOMAIN rows
        /\ \A r \in DOMAIN rows :
             rows'[r].into = IF r \in DOMAIN absorbed THEN absorbed[r] ELSE rows[r].into
    BY <2>2, MergedTable DEF MInv
  <2>4. kept \subseteq Live(rows) BY DEF Selected, MInv, Fresh
  <2>5. \A k \in kept : k \in DOMAIN rows' /\ rows'[k].into = 0
    BY <2>3, <2>4 DEF Live
  <2>6. ASSUME NEW S \in SUBSET (DOMAIN rows'), S # {}, \A r \in S : rows'[r].into # 0
        PROVE  \E r \in S : rows'[r].into \notin S
    <3>1. CASE S \cap DOMAIN absorbed = {}
      <4>1. \A r \in S : rows'[r].into = rows[r].into BY <2>3, <3>1
      <4> QED BY <2>3, <2>6, <4>1 DEF MInv, MergesEnd
    <3>2. CASE S \cap DOMAIN absorbed # {}
      <4>1. PICK a \in S : a \in DOMAIN absorbed BY <3>2
      <4>2. absorbed[a] \in kept /\ rows'[a].into = absorbed[a] BY <2>3, <4>1
      <4>3. absorbed[a] \notin S BY <2>5, <2>6, <4>2
      <4> QED BY <4>1, <4>2, <4>3
    <3> QED BY <3>1, <3>2
  <2>7. MergesEnd' BY <2>6 DEF MergesEnd
  <2>8. p \in Refiners
    <3>1. todo[p] # <<>> /\ Head(todo[p]) = "merge" BY <1>5 DEF MergeTemplates, At
    <3>2. todo[p] \in Seq(Steps) BY DEF MInv, Plan
    <3>3. 1 \in 1..Len(todo[p]) /\ todo[p][1] = "merge" BY <3>1, <3>2
    <3> QED BY <3>3 DEF MInv, Plan
  <2>9. read' = [read EXCEPT ![p] = <<>>] BY <1>5 DEF MergeTemplates
  <2>10. \A q \in Processes : read'[q] = <<>>
    BY <2>8, <2>9, DiscoveryAssumption DEF MInv, Fresh, Refiners
  <2>11. Fresh' BY <2>9, <2>10 DEF MInv, Fresh, Live
  <2> QED BY <1>1, <2>3, <2>7, <2>11 DEF MInv
<1>6. CASE Die(p) BY <1>2, <1>6 DEF Die, store
<1>7. CASE Start(p) \/ ProfileSlots(p) \/ LinkEntities(p) \/ SeedProposals(p) \/ ProposeDrift(p)
  BY <1>2, <1>7 DEF Start, ProfileSlots, LinkEntities, SeedProposals, ProposeDrift, store
<1>8. CASE PassGate(p) \/ FitModels(p) \/ ProposeRates(p)
  BY <1>2, <1>8 DEF PassGate, FitModels, ProposeRates, store
<1>9. CASE FlagTrajectories(p) BY <1>2, <1>9 DEF FlagTrajectories
<1>10. CASE ScanForDrift(p) BY <1>2, <1>10 DEF ScanForDrift, store
<1>11. CASE ReadDecisions(p) \/ SaveRanker(p) \/ RecordMeta(p) \/ FallBack(p)
  BY <1>2, <1>11 DEF ReadDecisions, SaveRanker, RecordMeta, FallBack, store
<1> QED BY <1>3, <1>4, <1>5, <1>6, <1>7, <1>8, <1>9, <1>10, <1>11 DEF Step

LEMMA NextMInv == MInv /\ [Next]_vars => MInv'
<1> SUFFICES ASSUME MInv, [Next]_vars PROVE MInv' OBVIOUS
<1>1. ASSUME NEW p \in Processes, Step(p) PROVE MInv' BY <1>1, StepMInv
<1>2. ASSUME UNCHANGED <<rows, todo, corpus, read>> PROVE MInv'
  <2>1. Plan' BY <1>2 DEF MInv, Plan
  <2>2. Fresh' BY <1>2 DEF MInv, Fresh
  <2>3. Table(rows)' BY <1>2 DEF MInv
  <2>4. MergesEnd' BY <1>2 DEF MInv, MergesEnd
  <2> QED BY <2>1, <2>2, <2>3, <2>4 DEF MInv
<1>3. ASSUME Reviewed PROVE MInv'
  BY <1>2, <1>3 DEF Reviewed, Approve, Reject, Review, Defer, Revoke, TakeBack
<1>4. ASSUME UNCHANGED vars PROVE MInv' BY <1>2, <1>4 DEF vars
<1> QED BY <1>1, <1>3, <1>4 DEF Next

\* Every merged template leads to a live one, whoever flushes or merges in between.
THEOREM MergesEndHolds == Spec => []MergesEnd
<1>1. Init => MInv BY InitMInv
<1>2. MInv /\ [Next]_vars => MInv' BY NextMInv
<1>3. MInv => MergesEnd BY DEF MInv
<1> QED BY <1>1, <1>2, <1>3, PTL DEF Spec

-----------------------------------------------------------------------------
(* The proposals.                                                           *)

\* The store maps each proposal_id to a proposal with a status.
Proposed(t) ==
  /\ t = [id \in DOMAIN t |-> t[id]]
  /\ \A id \in DOMAIN t :
       /\ t[id] = [shows |-> t[id].shows, status |-> t[id].status]
       /\ t[id].status \in {"PENDING", "APPROVED", "REJECTED", "DEFERRED"}

\* What every writer but the reviewers does to the store: it keeps each status
\* and adds pending proposals.
Extends(t, u, ids) ==
  /\ Proposed(u)
  /\ DOMAIN u = DOMAIN t \cup ids
  /\ \A id \in DOMAIN t : u[id].status = t[id].status
  /\ \A id \in ids \ DOMAIN t : u[id].status = "PENDING"

LEMMA UpsertedExtends ==
  ASSUME Proposed(props), NEW new
  PROVE  Extends(props, Upserted(new), {c.id : c \in new})
<1> DEFINE ids == {c.id : c \in new}
           shown(id) == (CHOOSE c \in new : c.id = id).shows
           entry(id) ==
             IF id \notin ids THEN props[id]
             ELSE IF id \in DOMAIN props THEN [props[id] EXCEPT !.shows = shown(id)]
             ELSE Proposal(shown(id))
           u == [id \in DOMAIN props \cup ids |-> entry(id)]
<1>1. u = Upserted(new) BY DEF Upserted
<1> HIDE DEF shown, ids
<1>2. ASSUME NEW id \in DOMAIN props \cup ids
      PROVE  /\ entry(id) = [shows |-> entry(id).shows, status |-> entry(id).status]
             /\ entry(id).status \in {"PENDING", "APPROVED", "REJECTED", "DEFERRED"}
             /\ id \in DOMAIN props => entry(id).status = props[id].status
             /\ id \notin DOMAIN props => entry(id).status = "PENDING"
  <2>1. CASE id \in DOMAIN props
    <3>1. /\ props[id] = [shows |-> props[id].shows, status |-> props[id].status]
          /\ props[id].status \in {"PENDING", "APPROVED", "REJECTED", "DEFERRED"}
      BY <2>1 DEF Proposed
    <3>2. [props[id] EXCEPT !.shows = shown(id)]
            = [shows |-> shown(id), status |-> props[id].status]
      BY <3>1
    <3> QED BY <2>1, <3>1, <3>2
  <2>2. CASE id \notin DOMAIN props BY <1>2, <2>2 DEF Proposal
  <2> QED BY <2>1, <2>2
<1> HIDE DEF entry
<1>3. DOMAIN u = DOMAIN props \cup ids /\ \A id \in DOMAIN u : u[id] = entry(id)
  OBVIOUS
<1>4. u = [id \in DOMAIN u |-> u[id]] BY <1>3
<1> HIDE DEF u
<1>5. Extends(props, u, ids) BY <1>2, <1>3, <1>4 DEF Extends, Proposed
<1> QED BY <1>1, <1>5 DEF ids

\* Each step of a process leaves the proposals alone or extends them; the new ones
\* that are causal are directed edges.
LEMMA StepProps ==
  ASSUME Proposed(props), NEW p \in Processes, Step(p)
  PROVE  \/ UNCHANGED props
         \/ \E ids :
              /\ Extends(props, props', ids)
              /\ \A id \in ids : id[1] = "causal" =>
                   \E e \in edges : <<e.src, e.dst>> = <<id[2], id[3]>> /\ e.directed
<1> DEFINE IsDirected(id) ==
             \E e \in edges : <<e.src, e.dst>> = <<id[2], id[3]>> /\ e.directed
<1>1. ASSUME NEW new, props' = Upserted(new),
             \A c \in new : c.id[1] = "causal" => IsDirected(c.id)
      PROVE  \E ids : Extends(props, props', ids)
                       /\ \A id \in ids : id[1] = "causal" => IsDirected(id)
  <2>1. Extends(props, props', {c.id : c \in new}) BY <1>1, UpsertedExtends
  <2> QED BY <1>1, <2>1
<1>2. CASE SeedProposals(p)
  <2> DEFINE new == EventCandidates \cup EntityCandidates \cup EdgeCandidates(found[p])
  <2>1. props' = Upserted(new) BY <1>2 DEF SeedProposals
  <2>2. ASSUME NEW c \in EventCandidates PROVE c.id[1] # "causal"
    BY <2>2 DEF EventCandidates, Candidate
  <2>3. ASSUME NEW c \in EntityCandidates PROVE c.id[1] # "causal"
    BY <2>3 DEF EntityCandidates, Candidate
  <2>4. ASSUME NEW c \in EdgeCandidates(found[p]), c.id[1] = "causal" PROVE IsDirected(c.id)
    <3>1. PICK e \in edges :
            c.id = <<IF e.directed /\ <<e.src, e.dst>> \in found[p]
                       THEN "causal" ELSE "relationship", e.src, e.dst>>
      BY <2>4 DEF EdgeCandidates, Candidate
    <3>2. e.directed /\ c.id[2] = e.src /\ c.id[3] = e.dst BY <2>4, <3>1
    <3> QED BY <3>2
  <2>5. \A c \in new : c.id[1] = "causal" => IsDirected(c.id) BY <2>2, <2>3, <2>4
  <2> HIDE DEF new
  <2> QED BY <1>1, <2>1, <2>5
<1>3. CASE ProposeDrift(p)
  <2> DEFINE new == {Candidate(<<"drift", t>>, t) : t \in found[p]}
  <2>1. props' = Upserted(new) BY <1>3 DEF ProposeDrift
  <2>2. \A c \in new : c.id[1] # "causal" BY DEF Candidate
  <2> HIDE DEF new
  <2> QED BY <1>1, <2>1, <2>2
<1>4. CASE FlagTrajectories(p)
  <2>1. PICK flagged, point :
          props' = Inserted({Candidate(<<"sequence", g[1], g[2], point[g]>>,
                                       Sample(point[g])) : g \in flagged})
    BY <1>4 DEF FlagTrajectories
  <2> DEFINE all == {Candidate(<<"sequence", g[1], g[2], point[g]>>, Sample(point[g])) :
                       g \in flagged}
             new == {c \in all : c.id \notin DOMAIN props}
  <2>2. \A c \in all : c.id[1] # "causal" BY DEF Candidate
  <2>3. props' = Upserted(new) BY <2>1 DEF Inserted
  <2>4. \A c \in new : c.id[1] # "causal" BY <2>2
  <2> HIDE DEF all, new
  <2> QED BY <1>1, <2>3, <2>4
<1>5. CASE ProposeRates(p)
  <2>1. PICK odd : props' = Inserted({Candidate(<<"rate", c>>, Sample(c)) : c \in odd})
    BY <1>5 DEF ProposeRates
  <2> DEFINE all == {Candidate(<<"rate", c>>, Sample(c)) : c \in odd}
             new == {c \in all : c.id \notin DOMAIN props}
  <2>2. \A c \in all : c.id[1] # "causal" BY DEF Candidate
  <2>3. props' = Upserted(new) BY <2>1 DEF Inserted
  <2>4. \A c \in new : c.id[1] # "causal" BY <2>2
  <2> HIDE DEF all, new
  <2> QED BY <1>1, <2>3, <2>4
<1>6. CASE Start(p) \/ Flush(p) \/ ReadTemplates(p) \/ ProfileSlots(p) \/ LinkEntities(p)
  BY <1>6 DEF Start, Flush, ReadTemplates, ProfileSlots, LinkEntities, store
<1>7. CASE MergeTemplates(p) BY <1>7 DEF MergeTemplates
<1>8. CASE PassGate(p) \/ FitModels(p) BY <1>8 DEF PassGate, FitModels, store
<1>9. CASE ScanForDrift(p) BY <1>9 DEF ScanForDrift, store
<1>10. CASE ReadDecisions(p) \/ SaveRanker(p) \/ RecordMeta(p) \/ Die(p) \/ FallBack(p)
  BY <1>10 DEF ReadDecisions, SaveRanker, RecordMeta, Die, FallBack, store
<1> QED BY <1>2, <1>3, <1>4, <1>5, <1>6, <1>7, <1>8, <1>9, <1>10 DEF Step

\* A decision sets one status, and is remembered as one.
LEMMA ReviewedProps ==
  ASSUME Proposed(props), Reviewed
  PROVE  \E id \in DOMAIN props :
           /\ Proposed(props') /\ DOMAIN props' = DOMAIN props
           /\ props'[id].status \in {"APPROVED", "REJECTED"} => judged' = judged \cup {id}
           /\ judged' \in {judged, judged \cup {id}}
           /\ \A x \in DOMAIN props : x # id => props'[x] = props[x]
<1>1. PICK id \in DOMAIN props, s \in {"PENDING", "APPROVED", "REJECTED", "DEFERRED"} :
        /\ props' = [props EXCEPT ![id].status = s]
        /\ s \in {"APPROVED", "REJECTED"} => judged' = judged \cup {id}
        /\ judged' \in {judged, judged \cup {id}}
  BY DEF Reviewed, Approve, Reject, Review, Defer, Revoke, TakeBack, ranked
<1> DEFINE new == [props[id] EXCEPT !.status = s]
<1>2. props[id] = [shows |-> props[id].shows, status |-> props[id].status]
  BY DEF Proposed
<1>3. new = [shows |-> props[id].shows, status |-> s] BY <1>2
<1>4. props' = [x \in DOMAIN props |-> IF x = id THEN new ELSE props[x]] BY <1>1
<1> HIDE DEF new
<1>5. DOMAIN props' = DOMAIN props /\ props'[id] = new
      /\ \A x \in DOMAIN props : x # id => props'[x] = props[x]
  BY <1>4
<1>6. props' = [x \in DOMAIN props' |-> props'[x]] BY <1>4, <1>5
<1>7. Proposed(props') BY <1>3, <1>5, <1>6 DEF Proposed
<1> QED BY <1>1, <1>3, <1>5, <1>7

LEMMA NextProposed == Proposed(props) /\ [Next]_vars => Proposed(props)'
<1> SUFFICES ASSUME Proposed(props), [Next]_vars PROVE Proposed(props') BY DEF Proposed
<1>1. ASSUME NEW p \in Processes, Step(p) PROVE Proposed(props')
  BY <1>1, StepProps DEF Extends, Proposed
<1>2. CASE Reviewed BY <1>2, ReviewedProps
<1>3. CASE UNCHANGED vars BY <1>3 DEF vars, Proposed
<1> QED BY <1>1, <1>2, <1>3 DEF Next

LEMMA InitProposed == Init => Proposed(props)
  BY DEF Init, Proposed

\* A causal proposal is created only for an edge that is directed by then.
THEOREM CausalWhileDirectedHolds == Spec => CausalWhileDirected
<1> DEFINE A == \A id \in (DOMAIN props') \ (DOMAIN props) :
                  id[1] = "causal" =>
                    \E e \in edges : <<e.src, e.dst>> = <<id[2], id[3]>> /\ e.directed
<1>1. Init => Proposed(props) BY InitProposed
<1>2. Proposed(props) /\ [Next]_vars => Proposed(props)' BY NextProposed
<1>3. Proposed(props) /\ [Next]_vars => [A]_vars
  <2> SUFFICES ASSUME Proposed(props), [Next]_vars PROVE [A]_vars OBVIOUS
  <2>1. ASSUME NEW p \in Processes, Step(p) PROVE A
    BY <2>1, StepProps DEF Extends
  <2>2. ASSUME Reviewed PROVE A BY <2>2, ReviewedProps
  <2> QED BY <2>1, <2>2 DEF Next
<1> QED BY <1>1, <1>2, <1>3, PTL DEF Spec, CausalWhileDirected

-----------------------------------------------------------------------------
(* The ranker.                                                              *)

\* What a fit, or the ranker in use, may say: it counted decisions that were made,
\* and enough of them if it is fitted.
Counted(fit) ==
  /\ fit.n \in Nat /\ fit.n <= Cardinality(judged)
  /\ fit.fitted => fit.n >= MinDecisions

\* The history is finite and knows every decision that stands.
Remembered == IsFiniteSet(judged) /\ Decided \subseteq judged

\* A process that is to save, or to record, holds one fit; what it is to record
\* was saved.
Fitting ==
  \A p \in Processes : todo[p] # <<>> =>
    /\ todo[p][1] \in {"save", "record"} =>
         \A fit, other \in found[p] : Counted(fit) /\ fit = other
    /\ todo[p][1] = "record" => \A fit \in found[p] : fit.n \in saved

RInv ==
  /\ Plan /\ Proposed(props) /\ Remembered /\ Fitting
  /\ found = [p \in Processes |-> found[p]]
  /\ Counted(ranker) /\ latest \in saved

LEMMA InitRInv == Init => RInv
<1> SUFFICES ASSUME Init PROVE RInv OBVIOUS
<1>1. Decided = {} /\ judged = {} BY DEF Init, Decided, Having
<1>2. IsFiniteSet({}) /\ Cardinality({}) = 0 BY FS_EmptySet
<1>3. Plan /\ Proposed(props) BY InitMInv, InitProposed DEF MInv
<1>4. found = [p \in Processes |-> {}] /\ latest \in saved BY DEF Init
<1>5. Counted(ranker) BY <1>1, <1>2 DEF Init, Unfitted, Counted
<1>6. \A p \in Processes : todo[p] = <<>> BY DEF Init
<1>7. Fitting BY <1>6 DEF Fitting
<1>8. Remembered BY <1>1, <1>2 DEF Remembered
<1> QED BY <1>3, <1>4, <1>5, <1>7, <1>8 DEF RInv

\* Decisions come and go, those that were ever made are only added to.
LEMMA JudgedGrows ==
  ASSUME Proposed(props), Remembered, [Next]_vars
  PROVE  /\ Remembered' /\ judged \subseteq judged'
         /\ Cardinality(judged) \in Nat /\ Cardinality(judged') \in Nat
         /\ Cardinality(judged) <= Cardinality(judged')
<1>1. ASSUME NEW p \in Processes, Step(p) PROVE judged' = judged
  BY <1>1 DEF Step, Start, Flush, ReadTemplates, MergeTemplates, ProfileSlots, LinkEntities,
              PassGate, SeedProposals, FitModels, FlagTrajectories, ScanForDrift, ProposeDrift,
              ProposeRates, ReadDecisions, SaveRanker, RecordMeta, Die, FallBack, ranked
<1>2. Decided' \subseteq judged' /\ \E id : judged' \in {judged, judged \cup {id}}
  <2>1. ASSUME NEW p \in Processes, Step(p) PROVE Decided' \subseteq judged
    BY <2>1, StepProps DEF Extends, Decided, Having, Remembered
  <2>2. CASE Reviewed
    <3>1. PICK id \in DOMAIN props :
            /\ DOMAIN props' = DOMAIN props
            /\ props'[id].status \in {"APPROVED", "REJECTED"} => judged' = judged \cup {id}
            /\ judged' \in {judged, judged \cup {id}}
            /\ \A x \in DOMAIN props : x # id => props'[x] = props[x]
      BY <2>2, ReviewedProps
    <3>2. Decided' \subseteq judged' BY <3>1 DEF Decided, Having, Remembered
    <3> QED BY <3>1, <3>2
  <2>3. CASE UNCHANGED vars BY <2>3 DEF vars, Decided, Having, Remembered
  <2> QED BY <1>1, <2>1, <2>2, <2>3 DEF Next
<1>3. IsFiniteSet(judged') BY <1>2, FS_AddElement DEF Remembered
<1>4. judged \subseteq judged' BY <1>2
<1> QED BY <1>2, <1>3, <1>4, FS_Subset, FS_CardinalityType DEF Remembered

LEMMA StepRInv ==
  ASSUME RInv, NEW p \in Processes, Step(p)
  PROVE  RInv'
<1>1. Plan' /\ Proposed(props)'
  <2>1. [Next]_vars BY DEF Next
  <2> QED BY <2>1, PlanKept, NextProposed DEF RInv
<1>2. /\ Remembered' /\ judged \subseteq judged'
      /\ Cardinality(judged) \in Nat /\ Cardinality(judged') \in Nat
      /\ Cardinality(judged) <= Cardinality(judged')
  BY JudgedGrows DEF RInv, Next
<1>3. ASSUME NEW fit, Counted(fit) PROVE Counted(fit)'
  BY <1>2, <1>3, DiscoveryAssumption DEF Counted
<1>4. ASSUME NEW what, found' = [found EXCEPT ![p] = what],
             ranker' = ranker \/ Counted(ranker'),
             saved \subseteq saved', latest' \in saved',
             todo' = [todo EXCEPT ![p] = todo'[p]],
             todo'[p] # <<>> /\ todo'[p][1] \in {"save", "record"} =>
               \A fit, other \in what : Counted(fit) /\ fit = other,
             todo'[p] # <<>> /\ todo'[p][1] = "record" => \A fit \in what : fit.n \in saved'
      PROVE  RInv'
  <2>1. found' = [q \in Processes |-> found'[q]] BY <1>4 DEF RInv
  <2>2. Counted(ranker)' BY <1>3, <1>4 DEF RInv
  <2>3. ASSUME NEW q \in Processes, todo'[q] # <<>>
        PROVE  /\ todo'[q][1] \in {"save", "record"} =>
                    \A fit, other \in found'[q] : Counted(fit) /\ fit = other
               /\ todo'[q][1] = "record" => \A fit \in found'[q] : fit.n \in saved'
    <3>1. CASE q = p
      <4>1. found'[q] = what BY <1>4, <3>1 DEF RInv
      <4> QED BY <1>4, <2>3, <3>1, <4>1
    <3>2. CASE q # p
      <4>1. todo'[q] = todo[q] BY <1>4, <3>2 DEF RInv, Plan
      <4>2. found'[q] = found[q] BY <1>4, <3>2 DEF RInv
      <4> QED BY <1>4, <2>3, <4>1, <4>2 DEF RInv, Fitting
    <3> QED BY <3>1, <3>2
  <2>4. Fitting' BY <1>3, <2>3 DEF Fitting
  <2> QED BY <1>1, <1>2, <1>4, <2>1, <2>2, <2>4 DEF RInv
<1>5. ASSUME Start(p) \/ Die(p) \/ FallBack(p) PROVE RInv'
  <2>1. /\ found' = [found EXCEPT ![p] = {}] /\ latest' = latest /\ saved' = saved
        /\ ranker' = ranker \/ ranker' = Unfitted
    BY <1>5 DEF Start, Die, FallBack, GoOn, ranked
  <2>2. \E plan : todo' = [todo EXCEPT ![p] = plan]
    BY <1>5 DEF Start, Die, FallBack, GoOn
  <2>3. todo' = [todo EXCEPT ![p] = todo'[p]] BY <2>2 DEF RInv, Plan
  <2>4. Counted(Unfitted) BY <1>2 DEF Counted, Unfitted
  <2> QED BY <1>4, <2>1, <2>3, <2>4 DEF RInv
<1>6. ASSUME todo[p] # <<>>, NEW what, Goto(p, what)
      PROVE  /\ found' = [found EXCEPT ![p] = what]
             /\ todo' = [todo EXCEPT ![p] = todo'[p]]
             /\ todo[p][1] = Head(todo[p])
             /\ todo'[p] # <<>> =>
                  /\ todo'[p][1] = "save" => todo[p][1] = "decisions"
                  /\ todo'[p][1] = "record" => todo[p][1] = "save"
  <2>1. todo' = [todo EXCEPT ![p] = Tail(todo[p])] /\ found' = [found EXCEPT ![p] = what]
    BY <1>6 DEF Goto, GoOn
  <2>2. todo'[p] = Tail(todo[p]) BY <2>1 DEF RInv, Plan
  <2>3. todo[p] \in Seq(Steps) BY DEF RInv, Plan
  <2>4. ASSUME todo'[p] # <<>>
        PROVE  2 \in 1..Len(todo[p]) /\ todo'[p][1] = todo[p][2]
    <3>1. Tail(todo[p]) # <<>> BY <2>2, <2>4
    <3>2. Len(todo[p]) \in Nat /\ Len(todo[p]) >= 2 BY <1>6, <2>3, <3>1
    <3> QED BY <2>2, <2>3, <3>2
  <2>5. \A i \in 1..Len(todo[p]) :
          /\ todo[p][i] = "save" => i = 1 \/ todo[p][i - 1] = "decisions"
          /\ todo[p][i] = "record" => i = 1 \/ todo[p][i - 1] = "save"
    BY DEF RInv, Plan
  <2>6. 2 - 1 = 1 /\ 2 # 1 OBVIOUS
  <2>7. todo[p][1] = Head(todo[p]) BY <1>6, <2>3
  <2> QED BY <2>1, <2>2, <2>4, <2>5, <2>6, <2>7
<1>7. ASSUME ReadDecisions(p) PROVE RInv'
  <2> DEFINE fit == [fitted |-> /\ Cardinality(Decided) >= MinDecisions
                               /\ Having("APPROVED") # {} /\ Having("REJECTED") # {},
                     n |-> Cardinality(Decided)]
  <2>1. /\ todo[p] # <<>> /\ Head(todo[p]) = "decisions" /\ Goto(p, {fit})
        /\ ranker' = ranker /\ latest' = latest /\ saved' = saved
    BY <1>7 DEF ReadDecisions, At, ranked
  <2>2. Counted(fit)
    <3>1. Cardinality(Decided) \in Nat /\ Cardinality(Decided) <= Cardinality(judged)
      BY FS_Subset, FS_CardinalityType DEF RInv, Remembered
    <3> QED BY <3>1 DEF Counted
  <2> HIDE DEF fit
  <2>3. latest \in saved BY DEF RInv
  <2>4. todo'[p] # <<>> => todo'[p][1] # "record" BY <1>6, <2>1
  <2> QED BY <1>4, <1>6, <2>1, <2>2, <2>3, <2>4
<1>8. ASSUME SaveRanker(p) PROVE RInv'
  <2>1. /\ todo[p] # <<>> /\ Head(todo[p]) = "save" /\ Goto(p, found[p])
        /\ ranker' \in found[p] /\ latest' = latest /\ saved' = saved \cup {ranker'.n}
    BY <1>8 DEF SaveRanker, At
  <2>2. \A fit, other \in found[p] : Counted(fit) /\ fit = other
    BY <1>6, <2>1 DEF RInv, Fitting
  <2>3. Counted(ranker') /\ \A fit \in found[p] : fit.n \in saved' BY <2>1, <2>2
  <2>4. latest \in saved BY DEF RInv
  <2> QED BY <1>4, <1>6, <2>1, <2>2, <2>3, <2>4
<1>9. ASSUME RecordMeta(p) PROVE RInv'
  <2>1. /\ todo[p] # <<>> /\ Head(todo[p]) = "record" /\ Goto(p, {})
        /\ ranker' = ranker /\ \E fit \in found[p] : latest' = fit.n
        /\ saved' = saved
    BY <1>9 DEF RecordMeta, At
  <2>2. \A fit \in found[p] : fit.n \in saved BY <1>6, <2>1 DEF RInv, Fitting
  <2> QED BY <1>4, <1>6, <2>1, <2>2
<1>10. ASSUME todo[p] # <<>>, Head(todo[p]) \notin {"decisions", "save", "record"},
              NEW what, Goto(p, what), ranker' = ranker, latest' = latest, saved' = saved
       PROVE  RInv'
  BY <1>4, <1>6, <1>10 DEF RInv
<1>11. CASE Flush(p) \/ ReadTemplates(p) \/ MergeTemplates(p) \/ ProfileSlots(p) \/ LinkEntities(p)
  BY <1>10, <1>11 DEF Flush, ReadTemplates, MergeTemplates, ProfileSlots, LinkEntities, At, ranked
<1>12. CASE PassGate(p) BY <1>10, <1>12 DEF PassGate, At, ranked
<1>13. CASE SeedProposals(p) \/ FitModels(p) \/ ProposeDrift(p) \/ ProposeRates(p)
  BY <1>10, <1>13 DEF SeedProposals, FitModels, ProposeDrift, ProposeRates, At, ranked
<1>14. CASE FlagTrajectories(p) BY <1>10, <1>14 DEF FlagTrajectories, At, ranked
<1>15. CASE ScanForDrift(p) BY <1>10, <1>15 DEF ScanForDrift, At, ranked
<1> QED BY <1>5, <1>7, <1>8, <1>9, <1>11, <1>12, <1>13, <1>14, <1>15 DEF Step

LEMMA NextRInv == RInv /\ [Next]_vars => RInv'
<1> SUFFICES ASSUME RInv, [Next]_vars PROVE RInv' OBVIOUS
<1>1. ASSUME NEW p \in Processes, Step(p) PROVE RInv' BY <1>1, StepRInv
<1>2. ASSUME UNCHANGED <<ranker, latest, saved, todo, corpus, found>> PROVE RInv'
  <2>1. Plan' BY <1>2 DEF RInv, Plan
  <2>2. Proposed(props)' BY NextProposed DEF RInv
  <2>3. /\ Remembered' /\ Cardinality(judged) \in Nat /\ Cardinality(judged') \in Nat
        /\ Cardinality(judged) <= Cardinality(judged')
    BY JudgedGrows DEF RInv
  <2>4. ASSUME NEW fit, Counted(fit) PROVE Counted(fit)'
    BY <2>3, <2>4 DEF Counted
  <2>5. Counted(ranker)' BY <1>2, <2>4 DEF RInv
  <2>6. Fitting' BY <1>2, <2>4 DEF RInv, Fitting
  <2> QED BY <1>2, <2>1, <2>2, <2>3, <2>5, <2>6 DEF RInv
<1>3. ASSUME Reviewed PROVE RInv'
  BY <1>2, <1>3 DEF Reviewed, Approve, Reject, Review, Defer, Revoke, TakeBack, ranked
<1>4. ASSUME UNCHANGED vars PROVE RInv' BY <1>2, <1>4 DEF vars
<1> QED BY <1>1, <1>3, <1>4 DEF Next

\* However fits, saves, audit rows and deaths interleave with decisions that are
\* made, deferred and revoked, for any number of processes: the ranker in use
\* counts decisions that were made, one that is fitted has enough of them, and the
\* audit row is of a pickle that was saved (fit_from_conn).
THEOREM RankerOnDecisionsHolds == Spec => []RankerOnDecisions
<1>1. Init => RInv BY InitRInv
<1>2. RInv /\ [Next]_vars => RInv' BY NextRInv
<1>3. RInv => RankerOnDecisions BY DEF RInv, Counted, RankerOnDecisions
<1> QED BY <1>1, <1>2, <1>3, PTL DEF Spec
=============================================================================
