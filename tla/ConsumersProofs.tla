-------------------------- MODULE ConsumersProofs --------------------------
(***************************************************************************)
(* Proofs about the readers of the output directory.                       *)
(*                                                                         *)
(* The gate: whatever a gate has read was a finite set of records, a       *)
(* baseline that can be read is the metrics of what was read to record it, *)
(* and a run that passed had no problem against it.                        *)
(*                                                                         *)
(* The publisher: every file reported comes before those still to be sent, *)
(* so that only a request given up earlier disturbs it.  The exports:      *)
(* while a single one has made keys, both key files are its own.  The      *)
(* reports: unless files are rewritten they count the same verdicts.       *)
(***************************************************************************)
EXTENDS Consumers, FiniteSetTheorems, WellFoundedInduction, TLAPS

-----------------------------------------------------------------------------
(* The output directory.                                                   *)

Finite(file) == file # None => IsFiniteSet(file.has)

DirInv == /\ dir = [f \in Files |-> dir[f]]
          /\ \A f \in Files : Finite(dir[f])
          /\ writing # None => writing \in Files

LEMMA DirInitial == DirInit(Files) => DirInv
<1> SUFFICES ASSUME DirInit(Files) PROVE DirInv
  OBVIOUS
<1>1. PICK fs \in SUBSET Files :
        dir = [f \in Files |-> IF f \in fs THEN Whole(CHOOSE c \in Contents[f] : TRUE)
                                           ELSE None]
  BY DEF DirInit
<1>2. ASSUME NEW f \in Files PROVE Finite(dir[f])
  <2>1. IsFiniteSet(CHOOSE c \in Contents[f] : TRUE)
    BY FilesAssumption
  <2> QED BY <1>1, <2>1 DEF Finite, Whole, Part
<1> QED BY <1>1, <1>2 DEF DirInit, DirInv

LEMMA DirStep ==
  ASSUME DirInv, Rewrite \/ UNCHANGED dirVars
  PROVE  DirInv'
<1>1. CASE UNCHANGED dirVars
  BY <1>1 DEF DirInv, dirVars, Finite
<1>2. ASSUME NEW f \in Files, OpenFile(f) PROVE DirInv'
  <2>1. PICK c \in Contents[f] :
          \E part \in SUBSET c, torn \in BOOLEAN : dir' = [dir EXCEPT ![f] = Part(part, torn)]
    BY <1>2 DEF OpenFile
  <2>2. PICK part \in SUBSET c, torn \in BOOLEAN : dir' = [dir EXCEPT ![f] = Part(part, torn)]
    BY <2>1
  <2>3. IsFiniteSet(part)
    BY FilesAssumption, FS_Subset
  <2>4. \A g \in Files : Finite(dir'[g])
    BY <2>2, <2>3 DEF DirInv, Finite, Part
  <2> QED BY <1>2, <2>2, <2>4, FilesAssumption DEF DirInv, OpenFile, Finite
<1>3. ASSUME CloseFile PROVE DirInv'
  <2>1. writing \in Files
    BY <1>3 DEF CloseFile, DirInv
  <2>2. PICK c \in Contents[writing] : dir' = [dir EXCEPT ![writing] = Whole(c)]
    BY <1>3 DEF CloseFile
  <2>3. IsFiniteSet(c)
    BY <2>1, FilesAssumption
  <2>4. \A g \in Files : Finite(dir'[g])
    BY <2>1, <2>2, <2>3 DEF DirInv, Finite, Whole, Part
  <2> QED BY <1>3, <2>1, <2>2, <2>4 DEF DirInv, CloseFile, Finite
<1>4. ASSUME PipelineDies PROVE DirInv'
  BY <1>4 DEF PipelineDies, DirInv, Finite
<1> QED BY <1>1, <1>2, <1>3, <1>4 DEF Rewrite

-----------------------------------------------------------------------------
(* The gate.                                                               *)

\* All the files a gate measures were looked at.
Full(h) == \A i \in DOMAIN Measured : Measured[i] \in DOMAIN h /\ Finite(h[Measured[i]])

Looked(n) == \A i \in DOMAIN Measured :
               i < n => Measured[i] \in DOMAIN held /\ Finite(held[Measured[i]])

GInv ==
  /\ gate.next \in Nat \ {0}
  /\ gate.at # "idle" => exit = "running" /\ Looked(gate.next)
  /\ gate.at = "updating" => Full(held)
  /\ baseline \notin {None, Garbled} => baseline = Metrics(basis) /\ Full(basis)
  /\ exit = "passed" => /\ baseline \notin {None, Garbled}
                        /\ Full(held)
                        /\ Problems(Metrics(held), baseline) = {}

LEMMA GateInitial == GateInit => GInv
BY DEF GateInit, NoGate, GInv

LEMMA MeasuredSeq ==
  /\ Measured \in Seq(Files) /\ Turtle \in Seq(Files)
  /\ DOMAIN Measured = 1..Len(Measured)
BY GateAssumption, FilesAssumption DEF Measured, Questions, Pitfalls

\* What is measured is the Turtle files and the two reports.
LEMMA MeasuredParts ==
  /\ \A i \in DOMAIN Turtle : \E k \in DOMAIN Measured : Measured[k] = Turtle[i]
  /\ \E k \in DOMAIN Measured : Measured[k] = Questions
  /\ \E k \in DOMAIN Measured : Measured[k] = Pitfalls
<1>1. /\ Len(Measured) = Len(Turtle) + 2
      /\ \A i \in 1..Len(Turtle) : Measured[i] = Turtle[i]
      /\ Measured[Len(Turtle) + 1] = Questions
      /\ Measured[Len(Turtle) + 2] = Pitfalls
  BY GateAssumption DEF Measured, Questions, Pitfalls
<1> QED BY <1>1, GateAssumption DEF Measured

LEMMA GateStep ==
  ASSUME DirInv, GInv, Gate \/ UNCHANGED gateVars
  PROVE  GInv'
<1>1. CASE UNCHANGED gateVars
  BY <1>1 DEF gateVars, GInv, Looked, Full
<1>2. ASSUME NEW u \in BOOLEAN, StartGate(u) PROVE GInv'
  <2>1. Looked(1)'
    BY MeasuredSeq DEF Looked
  <2> QED BY <1>2, <2>1 DEF StartGate, GInv, Full
<1>3. ASSUME Measure PROVE GInv'
  <2> DEFINE n == gate.next
             f == Measured[n]
  <2>0. gate.at = "reading" /\ n \in DOMAIN Measured /\ n \in Nat /\ f \in Files
    BY <1>3, MeasuredSeq DEF Measure, GInv
  <2>1. held' = [g \in DOMAIN held \cup {f} |-> IF g = f THEN dir[f] ELSE held[g]]
    BY <1>3 DEF Measure
  <2>2. gate' = [gate EXCEPT !.next = @ + 1] /\ UNCHANGED <<baseline, basis, exit, gates>>
    BY <1>3 DEF Measure
  <2>3. gate'.next = n + 1 /\ gate'.at = "reading"
    BY <2>0, <2>2 DEF GInv
  <2>4. Finite(dir[f])
    BY <2>0 DEF DirInv
  <2>5. ASSUME NEW i \in DOMAIN Measured, i < n + 1
        PROVE  Measured[i] \in DOMAIN held' /\ Finite(held'[Measured[i]])
    <3>1. i < n \/ i = n
      BY <2>0, <2>5, MeasuredSeq
    <3>2. CASE i = n
      BY <2>1, <2>4, <3>2
    <3>3. CASE i < n
      BY <2>0, <2>1, <2>4, <3>3 DEF GInv, Looked
    <3> QED BY <3>1, <3>2, <3>3
  <2>6. Looked(gate.next)'
    BY <2>3, <2>5 DEF Looked
  <2> QED BY <2>0, <2>2, <2>3, <2>6 DEF GInv, Full
<1>4. ASSUME OpenBaseline PROVE GInv'
  BY <1>4, MeasuredSeq DEF OpenBaseline, AllRead, GInv, Looked, Full
<1>5. ASSUME FillBaseline PROVE GInv'
  BY <1>5 DEF FillBaseline, Ends, NoGate, GInv, Full
<1>6. ASSUME Check PROVE GInv'
  <2>1. Full(held)
    BY <1>6, MeasuredSeq DEF Check, AllRead, GInv, Looked, Full
  <2> QED BY <1>6, <2>1 DEF Check, Ends, NoGate, GInv, Full
<1>7. ASSUME GateDies PROVE GInv'
  BY <1>7 DEF GateDies, Ends, NoGate, GInv, Full
<1> QED BY <1>1, <1>2, <1>3, <1>4, <1>5, <1>6, <1>7 DEF Gate

\* The metrics are numbers where they are not None.
LEMMA FiniteImage ==
  ASSUME NEW T, IsFiniteSet(T), NEW h
  PROVE  IsFiniteSet({h[f].has : f \in T})
<1> DEFINE Images == {h[f].has : f \in T}
           g == [f \in T |-> h[f].has]
<1>1. g \in Surjection(T, Images)
  BY DEF Surjection
<1> QED BY <1>1, FS_Surjection

LEMMA CountsFinite ==
  ASSUME NEW h, Full(h)
  PROVE  /\ IsFiniteSet(Failures(h)) /\ Cardinality(Failures(h)) \in Nat
         /\ IsFiniteSet(AuthoredGraph(h))
         /\ IsFiniteSet(CqRows(h))
         /\ h[Pitfalls] # None => IsFiniteSet(h[Pitfalls].has)
<1>1. IsFiniteSet(TurtleRead(h))
  <2>1. TurtleRead(h) \subseteq Files
    BY MeasuredSeq DEF TurtleRead
  <2> QED BY <2>1, FilesAssumption, FS_Subset
<1>2. IsFiniteSet(Failures(h))
  BY <1>1, FS_Subset DEF Failures
<1>3. ASSUME NEW f \in TurtleRead(h) PROVE IsFiniteSet(h[f].has)
  BY MeasuredParts DEF TurtleRead, Full, Finite
<1>4. IsFiniteSet(AuthoredGraph(h))
  <2> DEFINE T == TurtleRead(h) \ (Failures(h) \cup DerivedFiles)
  <2>1. IsFiniteSet(T)
    BY <1>1, FS_Subset
  <2>2. IsFiniteSet({h[f].has : f \in T})
    BY <2>1, FiniteImage
  <2>3. \A s \in {h[f].has : f \in T} : IsFiniteSet(s)
    BY <1>3
  <2> QED BY <2>2, <2>3, FS_UNION DEF AuthoredGraph
<1>5. IsFiniteSet(CqRows(h)) /\ (h[Pitfalls] # None => IsFiniteSet(h[Pitfalls].has))
  BY MeasuredParts, FS_EmptySet DEF Full, Finite, CqRows
<1> QED BY <1>2, <1>4, <1>5, FS_CardinalityType

LEMMA Counting ==
  ASSUME NEW S, IsFiniteSet(S), NEW T \in SUBSET S
  PROVE  Cardinality(T) \in Nat /\ Cardinality(T) # None
BY FS_Subset, FS_CardinalityType, FilesAssumption

LEMMA GInvSuffices == GInv => PassedGateNoWorse
<1> SUFFICES ASSUME GInv, exit = "passed" PROVE PassedGateNoWorse
  BY DEF PassedGateNoWorse
<1>1. /\ baseline = Metrics(basis) /\ Full(basis) /\ Full(held)
      /\ Problems(Metrics(held), Metrics(basis)) = {}
  BY DEF GInv
<1>2. ASSUME NEW name \in DOMAIN Directions, Metrics(held)[name] \in Nat,
             Metrics(basis)[name] \in Nat
      PROVE  ~Regressed(name, Metrics(held)[name], Metrics(basis)[name])
  <2>1. name \in DOMAIN Metrics(held) \cap DOMAIN Metrics(basis)
    BY DEF Metrics, Directions
  <2>2. Metrics(held)[name] # None /\ Metrics(basis)[name] # None
    BY <1>2, FilesAssumption
  <2> QED BY <1>1, <2>1, <2>2 DEF Problems
<1>3. ASSUME Failures(basis) = {}
      PROVE  /\ Failures(held) = {}
             /\ Cardinality(Stated(held, "debt")) <= Cardinality(Stated(basis, "debt"))
             /\ Cardinality(Stated(held, "asset")) >= Cardinality(Stated(basis, "asset"))
  <2>1. Failures(held) = {}
    <3> DEFINE name == "turtle_parse_failures"
    <3>1. Metrics(held)[name] = Cardinality(Failures(held))
          /\ Metrics(basis)[name] = Cardinality(Failures(basis))
      BY DEF Metrics
    <3>2. Cardinality(Failures(held)) \in Nat /\ Cardinality(Failures(basis)) = 0
      BY <1>1, <1>3, CountsFinite, FS_EmptySet
    <3>3. ~(Cardinality(Failures(held)) > 0)
      BY <1>2, <3>1, <3>2 DEF Regressed, Directions
    <3> QED BY <1>1, <3>2, <3>3, CountsFinite, FS_EmptySet
  <2>2. ASSUME NEW h \in {held, basis}, NEW kind \in {"debt", "asset"}
        PROVE  /\ Stated(h, kind) = {r \in AuthoredGraph(h) : r.status = kind}
               /\ Cardinality(Stated(h, kind)) \in Nat
    <3>1. Failures(h) = {} /\ Full(h)
      BY <1>1, <1>3, <2>1
    <3>2. Stated(h, kind) = {r \in AuthoredGraph(h) : r.status = kind}
      BY <3>1 DEF Stated, AuthoredGraph
    <3> QED BY <3>1, <3>2, CountsFinite, Counting
  <2>3. Cardinality(Stated(held, "debt")) <= Cardinality(Stated(basis, "debt"))
    <3>1. Metrics(held)["debt"] = Cardinality(Stated(held, "debt"))
          /\ Metrics(basis)["debt"] = Cardinality(Stated(basis, "debt"))
      BY <2>2 DEF Metrics
    <3> QED BY <1>2, <2>2, <3>1 DEF Regressed, Directions
  <2>4. Cardinality(Stated(held, "asset")) >= Cardinality(Stated(basis, "asset"))
    <3>1. Metrics(held)["assets"] = Cardinality(Stated(held, "asset"))
          /\ Metrics(basis)["assets"] = Cardinality(Stated(basis, "asset"))
      BY <2>2 DEF Metrics
    <3> QED BY <1>2, <2>2, <3>1 DEF Regressed, Directions
  <2> QED BY <2>1, <2>3, <2>4
<1>4. ASSUME CqRows(held) # {}, CqRows(basis) # {}
      PROVE  /\ Cardinality(Returning(held)) >= Cardinality(Returning(basis))
             /\ Cardinality(Failing(held)) <= Cardinality(Failing(basis))
  <2>1. ASSUME NEW h \in {held, basis}
        PROVE  /\ Metrics(h)["cq_tests_returning_rows"] = Cardinality(Returning(h))
               /\ Metrics(h)["cq_tests_failing"] = Cardinality(Failing(h))
               /\ Cardinality(Returning(h)) \in Nat /\ Cardinality(Failing(h)) \in Nat
    <3>1. IsFiniteSet(CqRows(h))
      BY <1>1, CountsFinite
    <3>2. Cardinality(Returning(h)) \in Nat
      BY <3>1, Counting DEF Returning
    <3>3. Cardinality(Failing(h)) \in Nat
      BY <3>1, Counting DEF Failing
    <3> QED BY <1>4, <3>2, <3>3 DEF Metrics
  <2> QED BY <1>2, <2>1 DEF Regressed, Directions
<1>5. ASSUME held[Pitfalls] # None, basis[Pitfalls] # None
      PROVE  Cardinality(Firing(held)) <= Cardinality(Firing(basis))
  <2>1. ASSUME NEW h \in {held, basis}
        PROVE  /\ Metrics(h)["pitfalls_firing"] = Cardinality(Firing(h))
               /\ Cardinality(Firing(h)) \in Nat
    <3>1. IsFiniteSet(h[Pitfalls].has)
      BY <1>1, <1>5, CountsFinite
    <3>2. Cardinality(Firing(h)) \in Nat
      BY <3>1, Counting DEF Firing
    <3> QED BY <1>5, <3>2 DEF Metrics
  <2> QED BY <1>2, <2>1 DEF Regressed, Directions
<1> QED BY <1>3, <1>4, <1>5 DEF PassedGateNoWorse

\* What Next does to the parts that do not concern the gate.
LEMMA StepOfGate ==
  ASSUME [Next]_consumerVars
  PROVE  /\ Rewrite \/ UNCHANGED dirVars
         /\ Gate \/ UNCHANGED gateVars
BY DEF Next, consumerVars, Write, EndWrite, Comply, Upload, Ratchet, Rewrite

\* A gate that passed against a baseline lets nothing be worse than what that
\* baseline was recorded from: no more that speaks against the ontology and no
\* less for it, and no report that was there both times has become worse (check
\* and update_baseline of scripts/ontology_gate.py, beside a pipeline that
\* rewrites the files).
THEOREM PassedGateNoWorseHolds == Spec => []PassedGateNoWorse
<1>1. Init => DirInv /\ GInv
  BY DirInitial, GateInitial DEF Init
<1>2. DirInv /\ GInv /\ [Next]_consumerVars => (DirInv /\ GInv)'
  BY StepOfGate, DirStep, GateStep
<1> QED BY <1>1, <1>2, GInvSuffices, PTL DEF Spec

-----------------------------------------------------------------------------
(* The publisher.                                                          *)

Holds(t) ==
  IF store \in Replacing
  THEN \A f \in Reported(t) : \/ t \in disturbed
                             \/ graph[t] = Stored(sent[f])
                             \/ \E g \in Reported(t) : Position(g) > Position(f)
  ELSE \A f \in Reported(t) : Stored(sent[f]) \subseteq graph[t]

PInv ==
  /\ todo \subseteq DOMAIN Sending
  /\ sending # None => todo # {}
  /\ DOMAIN sent = DOMAIN results
  /\ \A f \in DOMAIN results :
        \E i \in DOMAIN Sending : Sending[i] = f /\ \A j \in todo : i < j
  /\ DOMAIN graph = Tiers
  /\ \A r \in late : r.tier \in disturbed
  /\ \A t \in Tiers : Holds(t)

LEMMA SendingType ==
  /\ DOMAIN Sending = 1..Len(Sending) /\ Len(Sending) \in Nat
  /\ \A i \in DOMAIN Sending : Sending[i] \in Files /\ Position(Sending[i]) = i
BY PublishAssumption DEF Position

LEMMA LeastPlace ==
  ASSUME NEW S \in SUBSET Nat, S # {}
  PROVE  \E i \in S : \A j \in S : i <= j
<1>1. \E i \in S : \A j \in S : <<j, i>> \notin OpToRel(<, Nat)
  BY NatLessThanWellFounded, WFMin
<1>2. \E i \in S : \A j \in S : ~(j < i)
  BY <1>1 DEF OpToRel
<1> QED BY <1>2

LEMMA FirstLeft ==
  ASSUME todo \subseteq DOMAIN Sending, todo # {}
  PROVE  /\ First \in todo
         /\ \A j \in todo \ {First} : First < j
<1>1. \E i \in todo : \A j \in todo : i <= j
  BY SendingType, LeastPlace
<1>2. First \in todo /\ \A j \in todo : First <= j
  BY <1>1 DEF First
<1> QED BY <1>2, SendingType

LEMMA PublishInitial == PublishInit => PInv
BY DEF PublishInit, PInv, Holds, Reported

\* What a store makes of a text does not change: the store is the same throughout.
LEMMA SameStored ==
  ASSUME store' = store, NEW text
  PROVE  Stored(text)' = Stored(text)
BY DEF Stored, Escaped

LEMMA PInvSuffices == PInv => PublishedOrReplaced
BY DEF PInv, PublishedOrReplaced, Holds

\* What Answered does, whatever became of the request: one more file has its
\* result, and it comes after all that have one.
LEMMA AnswerStep ==
  ASSUME PInv, sending # None, NEW ok, Answered(ok)
  PROVE  /\ First \in DOMAIN Sending /\ Current = Sending[First] /\ Current \notin DOMAIN results
         /\ \A f \in DOMAIN results : Position(f) < Position(Current)
         /\ DOMAIN results' = DOMAIN results \cup {Current} /\ DOMAIN sent' = DOMAIN results'
         /\ results'[Current] = ok /\ sent'[Current] = sending
         /\ \A f \in DOMAIN results : results'[f] = results[f] /\ sent'[f] = sent[f]
         /\ (todo \subseteq DOMAIN Sending)' /\ sending' = None
         /\ \A f \in DOMAIN results' :
              \E i \in DOMAIN Sending : Sending[i] = f /\ \A j \in todo' : i < j
<1>1. First \in todo /\ \A j \in todo \ {First} : First < j
  BY FirstLeft DEF PInv
<1>2. First \in DOMAIN Sending /\ Current = Sending[First] /\ Position(Current) = First
  BY <1>1, SendingType DEF PInv, Current
<1>3. ASSUME NEW f \in DOMAIN results
      PROVE  /\ f # Current /\ Position(f) < Position(Current)
             /\ \E i \in DOMAIN Sending : Sending[i] = f /\ \A j \in todo \ {First} : i < j
  <2>1. PICK i \in DOMAIN Sending : Sending[i] = f /\ \A j \in todo : i < j
    BY DEF PInv
  <2> QED BY <1>1, <1>2, <2>1, SendingType
<1>4. /\ results' = With(results, Current, ok) /\ sent' = With(sent, Current, sending)
      /\ todo' = todo \ {First} /\ sending' = None
  BY DEF Answered
<1>5. /\ DOMAIN results' = DOMAIN results \cup {Current} /\ DOMAIN sent' = DOMAIN results'
      /\ results'[Current] = ok /\ sent'[Current] = sending
      /\ \A f \in DOMAIN results : results'[f] = results[f] /\ sent'[f] = sent[f]
  BY <1>3, <1>4 DEF With, PInv
<1>6. \A f \in DOMAIN results' :
        \E i \in DOMAIN Sending : Sending[i] = f /\ \A j \in todo' : i < j
  BY <1>1, <1>2, <1>3, <1>4, <1>5
<1> QED BY <1>2, <1>3, <1>4, <1>5, <1>6 DEF PInv

LEMMA PublishStep ==
  ASSUME PInv, (Publish \/ StoreLate) \/ UNCHANGED publishVars
  PROVE  PInv'
<1>1. CASE UNCHANGED publishVars
  BY <1>1 DEF publishVars, PInv, Holds, Reported, Stored, Escaped
<1>2. ASSUME StartPublish PROVE PInv'
  BY <1>2 DEF StartPublish, PInv, Holds, Reported
<1>3. ASSUME ReadTurtle PROVE PInv'
  BY <1>3 DEF ReadTurtle, PInv, Holds, Reported, Stored, Escaped
<1>4. ASSUME Accepted PROVE PInv'
  <2> DEFINE c == Current
             tier == TierOf[c]
  <2>1. Answered(TRUE) /\ sending # None /\ store' = store /\ late' = late
    BY <1>4 DEF Accepted
  <2>2. /\ c \notin DOMAIN results /\ results'[c] = TRUE /\ sent'[c] = sending
        /\ DOMAIN results' = DOMAIN results \cup {c} /\ DOMAIN sent' = DOMAIN results'
        /\ \A f \in DOMAIN results : results'[f] = results[f] /\ sent'[f] = sent[f]
        /\ (todo \subseteq DOMAIN Sending)' /\ sending' = None
        /\ \A f \in DOMAIN results' :
              \E i \in DOMAIN Sending : Sending[i] = f /\ \A j \in todo' : i < j
    BY <2>1, AnswerStep
  <2>3. graph' = [graph EXCEPT ![tier] =
                    IF store \in Replacing THEN Stored(sending) ELSE @ \cup Stored(sending)]
    BY <1>4 DEF Accepted, Applied, Request
  <2>4. disturbed' = IF \E r \in late : r.tier = tier THEN disturbed
                                                     ELSE disturbed \ {tier}
    BY <1>4 DEF Accepted, Request
  <2>5. ASSUME NEW t \in Tiers PROVE Holds(t)'
    <3> USE DEF Reported
    <3>1. ASSUME t # tier PROVE Holds(t)'
      <4>1. /\ Reported(t)' = Reported(t) /\ \A f \in Reported(t) : sent'[f] = sent[f]
            /\ graph'[t] = graph[t] /\ (t \in disturbed' <=> t \in disturbed)
        BY <2>2, <2>3, <2>4, <3>1 DEF PInv
      <4> QED BY <2>1, <4>1, SameStored DEF Holds, PInv
    <3>2. ASSUME t = tier PROVE Holds(t)'
      <4>1. Reported(t)' = Reported(t) \cup {c}
        BY <2>2, <3>2
      <4>2. \A f \in Reported(t) : sent'[f] = sent[f] /\ Position(f) < Position(c)
        <5>1. \A f \in DOMAIN results : Position(f) < Position(c)
          BY <2>1, AnswerStep
        <5> QED BY <2>2, <5>1
      <4>3. CASE store \in Replacing
        <5>1. graph'[t] = Stored(sent'[c])
          BY <2>2, <2>3, <3>2, <4>3 DEF PInv
        <5>2. \A f \in Reported(t) : \E g \in Reported(t)' : Position(g) > Position(f)
          <6> QED BY <4>1, <4>2
        <5>3. ASSUME NEW f PROVE Stored(sent[f])' = Stored(sent'[f])
          BY <2>1 DEF Stored, Escaped
        <5> QED BY <2>1, <4>1, <4>3, <5>1, <5>2, <5>3 DEF Holds
      <4>4. CASE store \notin Replacing
        <5>1. Reported(t)' \subseteq Reported(t) \cup {c} /\ graph'[t] = graph[t] \cup Stored(sending)
          BY <2>3, <3>2, <4>1, <4>4 DEF PInv
        <5>2. \A f \in Reported(t) : Stored(sent[f]) \subseteq graph[t]
          BY <3>2, <4>4 DEF Holds, PInv
        <5>3. \A f \in Reported(t)' : Stored(sent'[f]) \subseteq graph'[t]
          BY <2>2, <4>2, <5>1, <5>2
        <5>4. ASSUME NEW f PROVE Stored(sent[f])' = Stored(sent'[f])
          BY <2>1 DEF Stored, Escaped
        <5> QED BY <2>1, <4>4, <5>3, <5>4 DEF Holds
      <4> QED BY <4>3, <4>4
    <3> QED BY <3>1, <3>2
  <2>6. \A r \in late' : r.tier \in disturbed'
    BY <2>1, <2>4 DEF PInv
  <2>7. DOMAIN graph' = Tiers
    BY <2>3 DEF PInv
  <2> QED BY <2>2, <2>5, <2>6, <2>7 DEF PInv
<1>5. ASSUME \/ Refused
             \/ TimedOut
      PROVE  PInv'
  <2> DEFINE c == Current
  <2>1. /\ Answered(FALSE) /\ sending # None /\ UNCHANGED <<store, graph>>
        /\ \/ UNCHANGED <<late, disturbed>>
           \/ late' = late \cup {Request} /\ disturbed' = disturbed \cup {Request.tier}
    BY <1>5 DEF Refused, TimedOut
  <2>2. /\ c \notin DOMAIN results /\ results'[c] = FALSE
        /\ DOMAIN results' = DOMAIN results \cup {c} /\ DOMAIN sent' = DOMAIN results'
        /\ \A f \in DOMAIN results : results'[f] = results[f] /\ sent'[f] = sent[f]
        /\ (todo \subseteq DOMAIN Sending)' /\ sending' = None
        /\ \A f \in DOMAIN results' :
              \E i \in DOMAIN Sending : Sending[i] = f /\ \A j \in todo' : i < j
    BY <2>1, AnswerStep
  <2>3. ASSUME NEW t \in Tiers PROVE Holds(t)'
    <3>1. Reported(t)' = Reported(t) /\ \A f \in Reported(t) : sent'[f] = sent[f]
      BY <2>2 DEF Reported
    <3>2. t \in disturbed => t \in disturbed'
      BY <2>1
    <3> QED BY <2>1, <3>1, <3>2, SameStored DEF Holds, PInv
  <2>4. \A r \in late' : r.tier \in disturbed'
    BY <2>1 DEF PInv
  <2> QED BY <2>1, <2>2, <2>3, <2>4 DEF PInv
<1>7. ASSUME StoreLate PROVE PInv'
  <2>1. PICK r \in late :
          /\ graph' \in {graph, Applied(graph, r)}
          /\ late' = late \ {r}
          /\ UNCHANGED <<store, todo, sending, results, sent, disturbed, publishes>>
    BY <1>7 DEF StoreLate
  <2>2. DOMAIN graph' = Tiers
    BY <2>1 DEF Applied, PInv
  <2>3. ASSUME NEW t \in Tiers PROVE Holds(t)'
    <3>1. Reported(t)' = Reported(t)
      BY <2>1 DEF Reported
    <3>2. r.tier \in disturbed
      BY <2>1 DEF PInv
    <3>3. CASE store \in Replacing
      <4>1. t \in disturbed \/ graph'[t] = graph[t]
        BY <2>1, <3>2 DEF Applied, PInv
      <4> QED BY <2>1, <3>1, <3>3, <4>1, SameStored DEF Holds, PInv
    <3>4. CASE store \notin Replacing
      <4>1. graph[t] \subseteq graph'[t]
        BY <2>1, <3>4 DEF Applied, PInv
      <4> QED BY <2>1, <3>1, <3>4, <4>1, SameStored DEF Holds, PInv
    <3> QED BY <3>3, <3>4
  <2> QED BY <2>1, <2>2, <2>3 DEF PInv
<1>8. ASSUME PublishDies PROVE PInv'
  BY <1>8 DEF PublishDies, PInv, Holds, Reported, Stored, Escaped
<1> QED BY <1>1, <1>2, <1>3, <1>4, <1>5, <1>7, <1>8 DEF Publish

LEMMA StepOfPublish ==
  ASSUME [Next]_consumerVars
  PROVE  (Publish \/ StoreLate) \/ UNCHANGED publishVars
BY DEF Next, consumerVars, Write, EndWrite, Comply, Upload, Ratchet

\* A file that a run reports as published: where files are inserted, its
\* statements are in the store, escaped; where a file replaces the named graph, it
\* is alone in the graph of its tier or a later file of the tier has replaced it,
\* unless a request that was given up came between (run_publish of
\* src/graph_publisher.py).
THEOREM PublishedOrReplacedHolds == Spec => []PublishedOrReplaced
<1>1. Init => PInv
  BY PublishInitial DEF Init
<1>2. PInv /\ [Next]_consumerVars => PInv'
  BY StepOfPublish, PublishStep
<1> QED BY <1>1, <1>2, PInvSuffices, PTL DEF Spec

-----------------------------------------------------------------------------
(* The exports.                                                            *)

JobFields == {"at", "reg", "decision", "home", "evidence", "sk", "pk", "card", "since", "until"}

\* What the scorecard says of a criterion, as a requirement records it.
ScoreIn(card, selector) ==
  LET scores == {x \in card : x.name = selector}
  IN  IF scores = {} THEN Nothing
      ELSE LET x == CHOOSE y \in scores : TRUE
           IN  [exists |-> TRUE, status |-> x.status, number |-> x.number]

Matches(reg, evidence, card) ==
  \A i \in DOMAIN evidence :
    Regulations[reg][i].kind = "GOVERNANCE_SCORECARD_CRITERION" =>
       evidence[i].found = ScoreIn(card, Regulations[reg][i].selector)

\* At most one export generated a pair of keys.
Sole == \A a, b \in makers : a = b

Shape ==
  /\ DOMAIN job = Exports
  /\ \A e \in Exports :
       /\ DOMAIN job[e] = JobFields
       /\ Len(job[e].evidence) \in Nat
       /\ DOMAIN job[e].evidence = 1..Len(job[e].evidence)
       /\ job[e].since \in Nat \cup {-2} /\ job[e].since <= rewrites
  /\ DOMAIN key = {"sk", "pk"}
  /\ makers \subseteq Exports /\ IsFiniteSet(makers)
  /\ recorded \subseteq Exports
  /\ rewrites \in Nat

\* The two files, as long as one export wrote them.
Keys ==
  Sole => /\ key.pk \in {None, Empty} \cup makers
          /\ key.pk # None => key.sk \in makers

Creating == {"opensk", "fillsk", "openpk", "fillpk"}

\* What an export has of the keys.
Signing(e) ==
  /\ job[e].at \in {"idle", "assembling", "keys"} => e \notin makers
  /\ Sole =>
      /\ job[e].at \in Creating =>
            job[e].sk = e /\ job[e].pk = e /\ e \in makers
      /\ job[e].at \in {"opensk", "fillsk"} => key.pk = None
      /\ job[e].at \in {"openpk", "fillpk"} => key.sk = e
      /\ job[e].at = "readpk" => key.pk # None
      /\ job[e].at \in {"readpk", "staging", "zipping", "packing", "recording"} =>
            job[e].sk \in makers
      /\ job[e].at \in {"staging", "zipping", "packing", "recording"} =>
            job[e].pk \in {Empty} \cup makers

Sound(b) ==
  /\ b.whole
  /\ Sole /\ b.pk # Empty => b.signature = b.pk
  /\ b.calm => Matches(b.reg, b.evidence, b.card)

Packing(e) ==
  /\ job[e].at \in {"packing", "recording"} => e \in DOMAIN zip
  /\ job[e].at = "recording" => zip[e] = Bundle(e, TRUE)
  /\ e \in recorded => /\ job[e].at \in {"verifying", "verified", "unverified", "dead"}
                        /\ e \in DOMAIN zip
                        /\ Sound(zip[e])

Collecting == {"assembling", "keys", "readpk", "opensk", "fillsk", "openpk", "fillpk",
               "staging"}

\* As long as no file was opened, what was found is still what is there.
Calm(e) ==
  /\ job[e].at \in Collecting /\ job[e].since = rewrites =>
       writing = None /\ Matches(job[e].reg, job[e].evidence, Records(Scorecard))
  /\ /\ job[e].at \in {"zipping", "packing", "recording"}
     /\ job[e].home /\ job[e].since = job[e].until
     => Matches(job[e].reg, job[e].evidence, job[e].card)

XInv == /\ Shape /\ Keys
        /\ \A e \in Exports : Signing(e) /\ Packing(e) /\ Calm(e)

LEMMA ComplyInitial == DirInit(Files) /\ ComplyInit => XInv
<1> SUFFICES ASSUME DirInit(Files), ComplyInit PROVE XInv
  OBVIOUS
<1>1. Shape
  BY FS_EmptySet DEF Shape, DirInit, ComplyInit, NoJob, JobFields
<1>2. Keys
  BY DEF Keys, ComplyInit
<1>3. ASSUME NEW e \in Exports PROVE Signing(e) /\ Packing(e) /\ Calm(e)
  <2>1. job[e].at = "idle" /\ e \notin makers /\ e \notin recorded
    BY DEF ComplyInit, NoJob
  <2> QED BY <2>1 DEF Signing, Packing, Calm, Collecting, Creating
<1> QED BY <1>1, <1>2, <1>3 DEF XInv

LEMMA XInvSuffices == XInv => RecordedBundlesVerify
<1> SUFFICES ASSUME XInv, NEW e \in recorded
             PROVE  /\ e \in DOMAIN zip /\ zip[e].whole
                    /\ Cardinality(makers) <= 1 /\ zip[e].pk # Empty => VerifyBundle(zip[e])
                    /\ zip[e].calm => Matches(zip[e].reg, zip[e].evidence, zip[e].card)
  BY DEF RecordedBundlesVerify, Matches, ScoreIn
<1>1. e \in DOMAIN zip /\ Sound(zip[e])
  BY DEF XInv, Packing, Shape
<1>2. Cardinality(makers) <= 1 => Sole
  <2>1. IsFiniteSet(makers)
    BY DEF XInv, Shape
  <2>2. Cardinality(makers) \in Nat
    BY <2>1, FS_CardinalityType
  <2> SUFFICES ASSUME Cardinality(makers) <= 1 PROVE Sole
    OBVIOUS
  <2>3. Cardinality(makers) = 0 \/ Cardinality(makers) = 1
    BY <2>2
  <2>4. makers = {} \/ \E m : makers = {m}
    BY <2>1, <2>3, FS_EmptySet, FS_Singleton
  <2> QED BY <2>4 DEF Sole
<1> QED BY <1>1, <1>2 DEF Sound, VerifyBundle, Verifies

\* The pipeline rewrites the directory: nothing that was collected before a file
\* was opened is called calm afterwards.
LEMMA ExportBesideRewrite ==
  ASSUME XInv, Rewrite \/ UNCHANGED dirVars, UNCHANGED complyVars
  PROVE  XInv'
<1>1. rewrites' \in Nat /\ rewrites <= rewrites'
      /\ (rewrites' = rewrites /\ writing = None => UNCHANGED <<dir, writing>>)
  BY DEF XInv, Shape, Rewrite, OpenFile, CloseFile, PipelineDies, dirVars
<1>2. Shape'
  BY <1>1 DEF XInv, Shape, complyVars
<1>3. Keys'
  BY DEF XInv, Keys, Sole, complyVars
<1>4. ASSUME NEW e \in Exports PROVE (Signing(e) /\ Packing(e) /\ Calm(e))'
  <2>1. Signing(e)'
    BY DEF XInv, Signing, Sole, complyVars
  <2>2. Packing(e)'
    BY DEF XInv, Packing, Sound, Sole, Bundle, complyVars
  <2>3. Calm(e)'
    <3>1. job[e].since = rewrites' => job[e].since = rewrites
      BY <1>1 DEF XInv, Shape
    <3>2. Calm(e)
      BY DEF XInv
    <3> QED BY <1>1, <3>1, <3>2 DEF Calm, Records, IsFile, complyVars, Collecting
  <2> QED BY <2>1, <2>2, <2>3
<1> QED BY <1>2, <1>3, <1>4 DEF XInv

\* The other exports are where they were, and see the same files and bundles.
LEMMA Others ==
  ASSUME XInv, UNCHANGED dirVars, NEW e \in Exports,
         \A x \in Exports \ {e} : job'[x] = job[x],
         makers \subseteq makers', makers' \subseteq makers \cup {e},
         recorded' \subseteq recorded \cup {e},
         DOMAIN zip \subseteq DOMAIN zip', \A x \in DOMAIN zip \ {e} : zip'[x] = zip[x],
         Sole' => /\ \A x \in Exports \ {e} :
                       /\ job[x].at \in {"opensk", "fillsk"} => key'.pk = None
                       /\ job[x].at \in {"openpk", "fillpk"} => key'.sk = x
                  /\ key.pk # None => key'.pk # None,
         NEW x \in Exports \ {e}
  PROVE  (Signing(x) /\ Packing(x) /\ Calm(x))'
<1>1. Sole' => Sole
  BY DEF Sole
<1>2. Signing(x)'
  BY <1>1 DEF XInv, Signing
<1>3. Packing(x)'
  <2>1. Packing(x) /\ job'[x] = job[x]
    BY DEF XInv
  <2> QED BY <1>1, <2>1 DEF Packing, Sound, Bundle
<1>4. Calm(x)'
  <2>1. Calm(x) /\ job'[x] = job[x] /\ UNCHANGED <<dir, writing, rewrites>>
    BY DEF XInv, dirVars
  <2> QED BY <2>1 DEF Calm, Records, IsFile
<1> QED BY <1>2, <1>3, <1>4

\* A step of e by which its own record, bundle and row change.
LEMMA PackStep ==
  ASSUME XInv, UNCHANGED dirVars, NEW e \in Exports, NEW j,
         job' = [job EXCEPT ![e] = j],
         DOMAIN j = JobFields, Len(j.evidence) \in Nat,
         DOMAIN j.evidence = 1..Len(j.evidence), j.since \in Nat \cup {-2}, j.since <= rewrites,
         UNCHANGED <<key, makers>>, recorded' \subseteq recorded \cup {e},
         DOMAIN zip \subseteq DOMAIN zip', \A x \in DOMAIN zip \ {e} : zip'[x] = zip[x],
         Signing(e)', Packing(e)', Calm(e)'
  PROVE  XInv'
<1>1. job'[e] = j /\ DOMAIN job' = Exports /\ \A x \in Exports \ {e} : job'[x] = job[x]
  BY DEF XInv, Shape
<1>2. Shape'
  BY <1>1 DEF XInv, Shape, dirVars
<1>3. Keys'
  BY DEF XInv, Keys, Sole
<1>4. ASSUME NEW x \in Exports \ {e} PROVE (Signing(x) /\ Packing(x) /\ Calm(x))'
  <2>1. Sole' => Sole
    BY DEF Sole
  <2>2. Signing(x) /\ UNCHANGED key
    BY DEF XInv
  <2>3. Sole' => /\ \A y \in Exports \ {e} :
                      /\ job[y].at \in {"opensk", "fillsk"} => key'.pk = None
                      /\ job[y].at \in {"openpk", "fillpk"} => key'.sk = y
                 /\ key.pk # None => key'.pk # None
    BY <2>1 DEF XInv, Signing
  <2> QED BY <1>1, <2>3, Others
<1> QED BY <1>2, <1>3, <1>4 DEF XInv

\* A step of e by which only its own record changes.
LEMMA OwnStep ==
  ASSUME XInv, UNCHANGED dirVars, NEW e \in Exports, NEW j,
         job' = [job EXCEPT ![e] = j],
         DOMAIN j = JobFields, Len(j.evidence) \in Nat,
         DOMAIN j.evidence = 1..Len(j.evidence), j.since \in Nat \cup {-2}, j.since <= rewrites,
         makers' = makers, UNCHANGED <<key, recorded, zip>>,
         Signing(e)', Packing(e)', Calm(e)'
  PROVE  XInv'
BY PackStep

LEMMA StartStep ==
  ASSUME XInv, UNCHANGED dirVars, NEW e \in Exports, NEW r, NEW d, NEW home, Start(e, r, d, home)
  PROVE  XInv'
<1> DEFINE j == [NoJob EXCEPT !.at = IF r \in Malformed THEN "refused" ELSE "assembling",
                              !.reg = r, !.decision = d, !.home = home,
                              !.since = IF writing = None THEN rewrites ELSE -2]
<1>1. /\ job[e].at = "idle" /\ job' = [job EXCEPT ![e] = j]
      /\ UNCHANGED <<key, makers, zip, recorded>> /\ UNCHANGED <<dir, writing, rewrites>>
  BY DEF Start, dirVars
<1>2. /\ DOMAIN j = JobFields /\ j.evidence = <<>> /\ j.at \in {"refused", "assembling"}
      /\ j.since = (IF writing = None THEN rewrites ELSE -2)
  BY DEF NoJob, JobFields
<1>3. job'[e] = j
  BY <1>1 DEF XInv, Shape
<1> HIDE DEF j
<1>4. Signing(e)'
  BY <1>1, <1>2, <1>3 DEF XInv, Signing, Creating
<1>5. Packing(e)'
  BY <1>1, <1>2, <1>3 DEF XInv, Packing
<1>6. Calm(e)'
  BY <1>1, <1>2, <1>3 DEF XInv, Shape, Calm, Matches
<1>7. /\ Len(j.evidence) \in Nat /\ DOMAIN j.evidence = 1..Len(j.evidence)
      /\ j.since \in Nat \cup {-2} /\ j.since <= rewrites
  BY <1>2 DEF XInv, Shape
<1> QED BY <1>1, <1>2, <1>4, <1>5, <1>6, <1>7, OwnStep

LEMMA AssembleStep ==
  ASSUME XInv, UNCHANGED dirVars, NEW e \in Exports, AssembleNext(e)
  PROVE  XInv'
<1> DEFINE reqs == Regulations[job[e].reg]
           i == Len(job[e].evidence) + 1
           item == Resolve(reqs[i], job[e].decision)
           more == Append(job[e].evidence, item)
<1>1. /\ job[e].at = "assembling"
      /\ UNCHANGED <<key, makers, zip, recorded>> /\ UNCHANGED <<dir, writing, rewrites>>
  BY DEF AssembleNext, dirVars
<1>2. e \notin makers /\ e \notin recorded
  BY <1>1 DEF XInv, Signing, Packing
<1>3. ASSUME i <= Len(reqs) PROVE XInv'
  <2> DEFINE j == [job[e] EXCEPT !.evidence = more]
  <2>1. job' = [job EXCEPT ![e] = j]
    BY <1>3 DEF AssembleNext
  <2>2. /\ DOMAIN j = JobFields /\ j.evidence = more
        /\ \A f \in JobFields \ {"evidence"} : j[f] = job[e][f]
    BY DEF XInv, Shape, JobFields
  <2>3. /\ Len(more) = i /\ i \in Nat /\ DOMAIN more = 1..i /\ more[i] = item
        /\ \A k \in DOMAIN job[e].evidence : more[k] = job[e].evidence[k]
    BY DEF XInv, Shape
  <2>4. /\ j.at = "assembling" /\ j.since = job[e].since /\ j.reg = job[e].reg
    BY <1>1, <2>2 DEF JobFields
  <2>5. job'[e] = j
    BY <2>1 DEF XInv, Shape
  <2>6. ASSUME reqs[i].kind = "GOVERNANCE_SCORECARD_CRITERION"
        PROVE  item.found = ScoreIn(Records(Scorecard), reqs[i].selector)
    BY <2>6 DEF Resolve, ResolveRow, Rows, Reports, Found, Judged, ScoreIn, Scorecard
  <2> HIDE DEF j, item, more
  <2>7. Signing(e)'
    BY <1>1, <1>2, <2>4, <2>5 DEF XInv, Signing, Creating
  <2>8. Packing(e)'
    BY <1>1, <1>2, <2>4, <2>5 DEF XInv, Packing
  <2>9. Calm(e)'
    <3> SUFFICES ASSUME job[e].since = rewrites
                 PROVE  writing = None /\ Matches(job[e].reg, more, Records(Scorecard))
      BY <1>1, <2>2, <2>4, <2>5 DEF Calm, Records, IsFile
    <3>1. writing = None /\ Matches(job[e].reg, job[e].evidence, Records(Scorecard))
      BY <1>1 DEF XInv, Calm, Collecting
    <3>2. ASSUME NEW k \in DOMAIN more,
                 Regulations[job[e].reg][k].kind = "GOVERNANCE_SCORECARD_CRITERION"
          PROVE  more[k].found = ScoreIn(Records(Scorecard), Regulations[job[e].reg][k].selector)
      <4>1. k = i \/ k \in DOMAIN job[e].evidence
        BY <2>3 DEF XInv, Shape
      <4> QED BY <2>3, <2>6, <3>1, <3>2, <4>1 DEF Matches
    <3> QED BY <3>1, <3>2 DEF Matches
  <2> QED BY <1>1, <2>1, <2>2, <2>3, <2>4, <2>7, <2>8, <2>9, OwnStep DEF XInv, Shape
<1>4. ASSUME ~(i <= Len(reqs)) PROVE XInv'
  <2> DEFINE j == [job[e] EXCEPT !.at = "keys"]
  <2>1. job' = [job EXCEPT ![e] = j]
    BY <1>4 DEF AssembleNext, To
  <2>2. /\ DOMAIN j = JobFields /\ j.at = "keys"
        /\ \A f \in JobFields \ {"at"} : j[f] = job[e][f]
    BY DEF XInv, Shape, JobFields
  <2>3. job'[e] = j /\ j.evidence = job[e].evidence /\ j.since = job[e].since
        /\ j.reg = job[e].reg
    BY <2>1, <2>2 DEF XInv, Shape, JobFields
  <2> HIDE DEF j
  <2>4. Signing(e)'
    BY <1>1, <1>2, <2>2, <2>3 DEF XInv, Signing, Creating
  <2>5. Packing(e)'
    BY <1>1, <1>2, <2>2, <2>3 DEF XInv, Packing
  <2>6. Calm(e)'
    BY <1>1, <2>2, <2>3 DEF XInv, Calm, Collecting, Records, IsFile
  <2> QED BY <1>1, <2>1, <2>2, <2>3, <2>4, <2>5, <2>6, OwnStep DEF XInv, Shape
<1> QED BY <1>3, <1>4

\* The record of an export that goes on to another step.
After(e, at, sk, pk) == [job[e] EXCEPT !.at = at, !.sk = sk, !.pk = pk]

Goes(e, j, at, sk, pk) ==
  /\ job' = [job EXCEPT ![e] = j] /\ job'[e] = j
  /\ DOMAIN job' = Exports /\ \A x \in Exports \ {e} : job'[x] = job[x]
  /\ DOMAIN j = JobFields
  /\ Len(j.evidence) \in Nat /\ DOMAIN j.evidence = 1..Len(j.evidence)
  /\ j.since \in Nat \cup {-2} /\ j.since <= rewrites
  /\ j.at = at /\ j.sk = sk /\ j.pk = pk
  /\ \A f \in JobFields \ {"at", "sk", "pk"} : j[f] = job[e][f]

LEMMA GoesOn ==
  ASSUME XInv, NEW e \in Exports, NEW at, NEW sk, NEW pk,
         job' = [job EXCEPT ![e] = After(e, at, sk, pk)]
  PROVE  \E j : Goes(e, j, at, sk, pk)
<1> DEFINE j == After(e, at, sk, pk)
<1>1. /\ job' = [job EXCEPT ![e] = j] /\ job'[e] = j
      /\ DOMAIN job' = Exports /\ \A x \in Exports \ {e} : job'[x] = job[x]
  BY DEF XInv, Shape
<1>2. /\ DOMAIN j = JobFields /\ j.at = at /\ j.sk = sk /\ j.pk = pk
      /\ \A f \in JobFields \ {"at", "sk", "pk"} : j[f] = job[e][f]
  BY DEF XInv, Shape, JobFields, After
<1>3. /\ Len(j.evidence) \in Nat /\ DOMAIN j.evidence = 1..Len(j.evidence)
      /\ j.since \in Nat \cup {-2} /\ j.since <= rewrites
  BY <1>2 DEF XInv, Shape, JobFields
<1> QED BY <1>1, <1>2, <1>3 DEF Goes

LEMMA StillCollecting ==
  ASSUME XInv, UNCHANGED dirVars, NEW e \in Exports, recorded' = recorded,
         NEW j, NEW at, NEW sk, NEW pk, Goes(e, j, at, sk, pk),
         job[e].at \in Collecting, at \in Collecting
  PROVE  Packing(e)' /\ Calm(e)'
<1>1. /\ job'[e] = j /\ j.at = at /\ j.since = job[e].since /\ j.reg = job[e].reg
      /\ j.evidence = job[e].evidence /\ UNCHANGED <<dir, writing, rewrites>>
  BY DEF Goes, JobFields, dirVars
<1>2. e \notin recorded
  BY DEF XInv, Packing, Collecting
<1>3. Packing(e)'
  BY <1>1, <1>2 DEF Packing, Collecting
<1>4. Calm(e)'
  BY <1>1 DEF XInv, Calm, Collecting, Records, IsFile
<1> QED BY <1>3, <1>4

LEMMA ReadPublicKeyStep ==
  ASSUME XInv, UNCHANGED dirVars, NEW e \in Exports, ReadPublicKey(e)
  PROVE  XInv'
<1>1. job[e].at = "readpk" /\ UNCHANGED <<key, makers, zip, recorded>>
  BY DEF ReadPublicKey
<1>2. job' = [job EXCEPT ![e] = After(e, "staging", job[e].sk, key.pk)]
  BY DEF ReadPublicKey, XInv, Shape, JobFields, After
<1>3. PICK j : Goes(e, j, "staging", job[e].sk, key.pk)
  BY <1>2, GoesOn
<1>4. Signing(e)'
  BY <1>1, <1>3 DEF XInv, Signing, Keys, Sole, Creating, Goes
<1>5. Packing(e)' /\ Calm(e)'
  BY <1>1, <1>3, StillCollecting DEF Collecting
<1> QED BY <1>1, <1>3, <1>4, <1>5, OwnStep DEF Goes

LEMMA FindKeysStep ==
  ASSUME XInv, UNCHANGED dirVars, NEW e \in Exports, FindKeys(e)
  PROVE  XInv'
<1>1. job[e].at = "keys" /\ UNCHANGED <<key, zip, recorded>>
  BY DEF FindKeys
<1>2. e \notin makers
  BY <1>1 DEF XInv, Signing
<1>3. ASSUME key.sk # None, key.pk # None PROVE XInv'
  <2>1. job' = [job EXCEPT ![e] = After(e, "readpk", key.sk, job[e].pk)]
        /\ makers' = makers
    BY <1>3 DEF FindKeys, XInv, Shape, JobFields, After
  <2>2. PICK j : Goes(e, j, "readpk", key.sk, job[e].pk)
    BY <2>1, GoesOn
  <2>3. Signing(e)'
    BY <1>1, <1>2, <1>3, <2>1, <2>2 DEF XInv, Signing, Keys, Sole, Creating, Goes
  <2>4. Packing(e)' /\ Calm(e)'
    BY <1>1, <2>2, StillCollecting DEF Collecting
  <2> QED BY <1>1, <2>1, <2>2, <2>3, <2>4, OwnStep DEF Goes
<1>4. ASSUME ~(key.sk # None /\ key.pk # None) PROVE XInv'
  <2>1. job' = [job EXCEPT ![e] = After(e, "opensk", e, e)]
        /\ makers' = makers \cup {e}
    BY <1>4 DEF FindKeys, After
  <2>2. PICK j : Goes(e, j, "opensk", e, e)
    BY <2>1, GoesOn
  <2>3. Sole' => makers = {} /\ Sole
    BY <1>2, <2>1 DEF Sole
  <2>4. Sole' => key.pk = None
    BY <1>4, <2>3 DEF XInv, Keys
  <2>5. Signing(e)'
    BY <1>1, <2>1, <2>2, <2>4 DEF Signing, Creating, Goes
  <2>6. Packing(e)' /\ Calm(e)'
    BY <1>1, <2>2, StillCollecting DEF Collecting
  <2>7. Shape'
    <3>1. IsFiniteSet(makers')
      BY <2>1, FS_AddElement DEF XInv, Shape
    <3> QED BY <1>1, <2>1, <2>2, <3>1 DEF XInv, Shape, Goes, dirVars
  <2>8. Keys'
    BY <1>1, <2>4 DEF Keys
  <2>9. Sole' => /\ \A y \in Exports \ {e} :
                      /\ job[y].at \in {"opensk", "fillsk"} => key'.pk = None
                      /\ job[y].at \in {"openpk", "fillpk"} => key'.sk = y
                 /\ key.pk # None => key'.pk # None
    BY <1>1, <2>3, <2>4 DEF XInv, Signing, Creating
  <2>10. ASSUME NEW x \in Exports \ {e} PROVE (Signing(x) /\ Packing(x) /\ Calm(x))'
    BY <1>1, <2>1, <2>2, <2>9, Others DEF Goes
  <2> QED BY <2>5, <2>6, <2>7, <2>8, <2>10 DEF XInv
<1> QED BY <1>3, <1>4

\* Leaving or entering a with statement of the creation.
LEMMA CreateKeysStep ==
  ASSUME XInv, UNCHANGED dirVars, NEW e \in Exports, CreateKeys(e)
  PROVE  XInv'
<1>1. PICK at \in Creating, next \in {"fillsk", "openpk", "fillpk", "staging"} :
        /\ job[e].at = at /\ To(e, next)
        /\ at = "opensk" => key' = [key EXCEPT !.sk = Empty] /\ next = "fillsk"
        /\ at = "fillsk" => key' = [key EXCEPT !.sk = job[e].sk] /\ next = "openpk"
        /\ at = "openpk" => key' = [key EXCEPT !.pk = Empty] /\ next = "fillpk"
        /\ at = "fillpk" => key' = [key EXCEPT !.pk = job[e].pk] /\ next = "staging"
  BY DEF CreateKeys, Writes, Creating
<1>2. UNCHANGED <<makers, zip, recorded>>
  BY DEF CreateKeys
<1>3. job' = [job EXCEPT ![e] = After(e, next, job[e].sk, job[e].pk)]
  BY <1>1 DEF XInv, Shape, JobFields, After, To
<1>4. PICK j : Goes(e, j, next, job[e].sk, job[e].pk)
  BY <1>3, GoesOn
<1>5. Sole' <=> Sole
  BY <1>2 DEF Sole
<1>6. Sole => /\ job[e].sk = e /\ job[e].pk = e /\ makers = {e}
              /\ at \in {"opensk", "fillsk"} => key.pk = None
              /\ at \in {"openpk", "fillpk"} => key.sk = e
  BY <1>1 DEF XInv, Signing, Sole, Creating
<1>7. Sole => /\ at = "opensk" => key'.pk = None
              /\ at = "fillsk" => key'.pk = None /\ key'.sk = e
              /\ at = "openpk" => key'.pk = Empty /\ key'.sk = e
              /\ at = "fillpk" => key'.pk = e /\ key'.sk = e
  BY <1>1, <1>6 DEF XInv, Shape
<1>8. DOMAIN key' = {"sk", "pk"}
  BY <1>1 DEF XInv, Shape, Creating
<1>9. Signing(e)'
  BY <1>1, <1>2, <1>4, <1>5, <1>6, <1>7 DEF Signing, Goes, Creating
<1>10. Packing(e)' /\ Calm(e)'
  BY <1>1, <1>2, <1>4, StillCollecting DEF Collecting, Creating
<1>11. Shape'
  BY <1>2, <1>4, <1>8 DEF XInv, Shape, Goes, dirVars
<1>12. Keys'
  BY <1>1, <1>2, <1>5, <1>6, <1>7 DEF Keys, Creating
<1>13. ASSUME Sole'
       PROVE  /\ \A y \in Exports \ {e} :
                   /\ job[y].at \in {"opensk", "fillsk"} => key'.pk = None
                   /\ job[y].at \in {"openpk", "fillpk"} => key'.sk = y
              /\ key.pk # None => key'.pk # None
  <2>1. ASSUME NEW y \in Exports \ {e}, job[y].at \in Creating PROVE FALSE
    BY <1>5, <1>6, <1>13, <2>1 DEF XInv, Signing
  <2>2. key.pk # None => key'.pk # None
    BY <1>1, <1>5, <1>6, <1>7, <1>13, NamesAssumption DEF Creating
  <2> QED BY <2>1, <2>2 DEF Creating
<1>14. ASSUME NEW x \in Exports \ {e} PROVE (Signing(x) /\ Packing(x) /\ Calm(x))'
  BY <1>2, <1>4, <1>13, Others DEF Goes
<1> QED BY <1>9, <1>10, <1>11, <1>12, <1>14 DEF XInv

LEMMA StageStep ==
  ASSUME XInv, UNCHANGED dirVars, NEW e \in Exports, Stage(e)
  PROVE  XInv'
<1> DEFINE until == IF writing = None THEN rewrites ELSE -1
<1>0. PICK card \in IF job[e].home THEN {Records(Scorecard)} ELSE Elsewhere :
        job' = [job EXCEPT ![e].at = "zipping", ![e].card = card, ![e].until = until]
  BY DEF Stage
<1> DEFINE j == [job[e] EXCEPT !.at = "zipping", !.card = card, !.until = until]
<1>1. /\ job[e].at = "staging" /\ job' = [job EXCEPT ![e] = j]
      /\ UNCHANGED <<key, makers, zip, recorded>> /\ UNCHANGED <<dir, writing, rewrites>>
  BY <1>0 DEF Stage, dirVars
<1>2. /\ DOMAIN j = JobFields /\ j.at = "zipping" /\ j.card = card
      /\ j.until = until /\ job'[e] = j
      /\ \A f \in JobFields \ {"at", "card", "until"} : j[f] = job[e][f]
  BY <1>1 DEF XInv, Shape, JobFields
<1> HIDE DEF j
<1>3. /\ j.sk = job[e].sk /\ j.pk = job[e].pk /\ j.reg = job[e].reg
      /\ j.evidence = job[e].evidence /\ j.since = job[e].since /\ j.home = job[e].home
  BY <1>2 DEF JobFields
<1>4. Signing(e)'
  BY <1>1, <1>2, <1>3 DEF XInv, Signing, Sole, Creating
<1>5. Packing(e)'
  BY <1>1, <1>2 DEF XInv, Packing
<1>6. Calm(e)'
  <2> SUFFICES ASSUME j.home, j.since = j.until
               PROVE  Matches(job[e].reg, job[e].evidence, Records(Scorecard))
    BY <1>0, <1>1, <1>2, <1>3 DEF Calm, Collecting
  <2>1. job[e].since = rewrites
    BY <1>1, <1>2, <1>3 DEF XInv, Calm, Shape, Collecting
  <2> QED BY <1>1, <2>1 DEF XInv, Calm, Collecting
<1>7. /\ Len(j.evidence) \in Nat /\ DOMAIN j.evidence = 1..Len(j.evidence)
      /\ j.since \in Nat \cup {-2} /\ j.since <= rewrites
  BY <1>3 DEF XInv, Shape
<1> QED BY <1>1, <1>2, <1>4, <1>5, <1>6, <1>7, OwnStep

\* From here on the record of an export does not change but for where it stands.
LEMMA Onwards ==
  ASSUME XInv, NEW e \in Exports, NEW at, To(e, at)
  PROVE  \E j : /\ Goes(e, j, at, job[e].sk, job[e].pk)
                /\ j.reg = job[e].reg /\ j.evidence = job[e].evidence /\ j.card = job[e].card
                /\ j.since = job[e].since /\ j.until = job[e].until
                /\ j.home = job[e].home
<1>1. job' = [job EXCEPT ![e] = After(e, at, job[e].sk, job[e].pk)]
  BY DEF XInv, Shape, JobFields, After, To
<1>2. PICK j : Goes(e, j, at, job[e].sk, job[e].pk)
  BY <1>1, GoesOn
<1> QED BY <1>2 DEF Goes, JobFields

LEMMA OpenZipStep ==
  ASSUME XInv, UNCHANGED dirVars, NEW e \in Exports, OpenZip(e)
  PROVE  XInv'
<1>1. /\ job[e].at = "zipping" /\ To(e, "packing") /\ UNCHANGED <<key, makers, recorded>>
      /\ DOMAIN zip' = DOMAIN zip \cup {e} /\ \A x \in DOMAIN zip \ {e} : zip'[x] = zip[x]
  BY DEF OpenZip
<1>2. PICK j : /\ Goes(e, j, "packing", job[e].sk, job[e].pk)
               /\ j.reg = job[e].reg /\ j.evidence = job[e].evidence /\ j.card = job[e].card
               /\ j.since = job[e].since /\ j.until = job[e].until
               /\ j.home = job[e].home
  BY <1>1, Onwards
<1>3. Signing(e)'
  BY <1>1, <1>2 DEF XInv, Signing, Sole, Creating, Goes
<1>4. Packing(e)'
  BY <1>1, <1>2 DEF XInv, Packing, Goes
<1>5. Calm(e)'
  BY <1>1, <1>2 DEF XInv, Calm, Collecting, Goes
<1> QED BY <1>1, <1>2, <1>3, <1>4, <1>5, PackStep DEF Goes

LEMMA CloseZipStep ==
  ASSUME XInv, UNCHANGED dirVars, NEW e \in Exports, CloseZip(e)
  PROVE  XInv'
<1>1. /\ job[e].at = "packing" /\ To(e, "recording") /\ UNCHANGED <<key, makers, recorded>>
      /\ zip' = [zip EXCEPT ![e] = Bundle(e, TRUE)]
  BY DEF CloseZip
<1>2. PICK j : /\ Goes(e, j, "recording", job[e].sk, job[e].pk)
               /\ j.reg = job[e].reg /\ j.evidence = job[e].evidence /\ j.card = job[e].card
               /\ j.since = job[e].since /\ j.until = job[e].until
               /\ j.home = job[e].home
  BY <1>1, Onwards
<1>3. /\ e \in DOMAIN zip /\ e \notin recorded /\ DOMAIN zip' = DOMAIN zip
      /\ zip'[e] = Bundle(e, TRUE) /\ \A x \in DOMAIN zip \ {e} : zip'[x] = zip[x]
  BY <1>1 DEF XInv, Packing
<1>4. Bundle(e, TRUE)' = Bundle(e, TRUE)
  BY <1>2 DEF Bundle, Goes, Signed
<1>5. Signing(e)'
  BY <1>1, <1>2 DEF XInv, Signing, Sole, Creating, Goes
<1>6. Packing(e)'
  BY <1>1, <1>2, <1>3, <1>4 DEF Packing, Goes
<1>7. Calm(e)'
  BY <1>1, <1>2 DEF XInv, Calm, Collecting, Goes
<1> QED BY <1>1, <1>2, <1>3, <1>5, <1>6, <1>7, PackStep DEF Goes

LEMMA SameCalm ==
  ASSUME NEW e, NEW c, c = (job[e].home /\ job[e].since = job[e].until)
  PROVE  Bundle(e, TRUE).calm = c
BY DEF Bundle

LEMMA RecordBundleStep ==
  ASSUME XInv, UNCHANGED dirVars, NEW e \in Exports, RecordBundle(e)
  PROVE  XInv'
<1>1. /\ job[e].at = "recording" /\ To(e, "verifying") /\ UNCHANGED <<key, makers, zip>>
      /\ recorded' \subseteq recorded \cup {e}
  BY DEF RecordBundle, Recordable
<1>2. PICK j : Goes(e, j, "verifying", job[e].sk, job[e].pk)
  BY <1>1, Onwards
<1>3. e \in DOMAIN zip /\ zip[e] = Bundle(e, TRUE)
  BY <1>1 DEF XInv, Packing
<1>4. Sound(zip[e])
  <2>1. job[e].home /\ job[e].since = job[e].until => Matches(job[e].reg, job[e].evidence, job[e].card)
    BY <1>1 DEF XInv, Calm
  <2>2. Sole => job[e].sk \in makers /\ job[e].pk \in {Empty} \cup makers
    BY <1>1 DEF XInv, Signing
  <2>3. /\ zip[e].whole /\ zip[e].signature = job[e].sk /\ zip[e].pk = job[e].pk
        /\ zip[e].reg = job[e].reg /\ zip[e].evidence = job[e].evidence
        /\ zip[e].card = job[e].card
    BY <1>3 DEF Bundle, Signed
  <2>4. zip[e].calm <=> job[e].home /\ job[e].since = job[e].until
    <3> DEFINE same == job[e].home /\ job[e].since = job[e].until
    <3>1. zip[e].calm = same
      <4> HIDE DEF same
      <4> QED BY <1>3, SameCalm DEF same
    <3> QED BY <3>1
  <2>5. Sole /\ zip[e].pk # Empty => zip[e].signature = zip[e].pk
    BY <2>2, <2>3 DEF Sole
  <2> QED BY <2>1, <2>3, <2>4, <2>5 DEF Sound
<1>5. Sound(zip[e])'
  BY <1>1, <1>4 DEF Sound, Sole
<1>6. Signing(e)'
  BY <1>2 DEF Signing, Creating, Goes
<1>7. Packing(e)'
  BY <1>1, <1>2, <1>3, <1>5 DEF Packing, Goes
<1>8. Calm(e)'
  BY <1>2 DEF Calm, Collecting, Goes
<1> QED BY <1>1, <1>2, <1>6, <1>7, <1>8, PackStep DEF Goes

\* An export ends, with an answer or without.
LEMMA EndStep ==
  ASSUME XInv, UNCHANGED dirVars, NEW e \in Exports, Answer(e) \/ ExportDies(e)
  PROVE  XInv'
<1>1. PICK at \in {"verified", "unverified", "dead"} :
        job' = [job EXCEPT ![e] = [NoJob EXCEPT !.at = at]]
  BY DEF Answer, ExportDies
<1>2. UNCHANGED <<key, makers, zip, recorded>>
  BY DEF Answer, ExportDies
<1> DEFINE j == [NoJob EXCEPT !.at = at]
<1>3. /\ DOMAIN j = JobFields /\ j.at = at /\ j.since = 0
      /\ Len(j.evidence) \in Nat /\ DOMAIN j.evidence = 1..Len(j.evidence)
      /\ job' = [job EXCEPT ![e] = j] /\ job'[e] = j
  BY <1>1 DEF XInv, Shape, NoJob, JobFields
<1>4. j.since \in Nat \cup {-2} /\ j.since <= rewrites
  BY <1>3 DEF XInv, Shape
<1> HIDE DEF j
<1>5. Signing(e)'
  BY <1>1, <1>3 DEF Signing, Creating
<1>6. Packing(e)'
  BY <1>1, <1>2, <1>3 DEF XInv, Packing, Sound, Sole
<1>7. Calm(e)'
  BY <1>1, <1>3 DEF Calm, Collecting
<1> QED BY <1>2, <1>3, <1>4, <1>5, <1>6, <1>7, OwnStep

LEMMA ExportStep ==
  ASSUME XInv, UNCHANGED dirVars, NEW e \in Exports, Export(e)
  PROVE  XInv'
BY StartStep, AssembleStep, FindKeysStep, ReadPublicKeyStep, CreateKeysStep, StageStep,
   OpenZipStep, CloseZipStep, RecordBundleStep, EndStep DEF Export

LEMMA StepOfExports ==
  ASSUME [Next]_consumerVars
  PROVE  \/ (Rewrite \/ UNCHANGED dirVars) /\ UNCHANGED complyVars
         \/ \E e \in Exports : Export(e) /\ UNCHANGED dirVars
BY DEF Next, consumerVars, Write, EndWrite, Comply, Upload, Ratchet, Rewrite

LEMMA XInvInductive == Spec => []XInv
<1>1. Init => XInv
  BY ComplyInitial DEF Init
<1>2. XInv /\ [Next]_consumerVars => XInv'
  BY StepOfExports, ExportBesideRewrite, ExportStep
<1> QED BY <1>1, <1>2, PTL DEF Spec

\* A bundle with a row in compliance_bundles is complete; its signature verifies
\* unless its public key was read as empty or several exports generated keys; and
\* unless a report was written meanwhile or the items were judged by another
\* directory than the repository's, the scorecard packed into it is the one its
\* scorecard items were judged by (bundle.py and assembler.py of src/compliance).
THEOREM RecordedBundlesVerifyHolds == Spec => []RecordedBundlesVerify
BY XInvInductive, XInvSuffices, PTL

-----------------------------------------------------------------------------
(* The reports over all regulations.                                       *)

\* An export that assembles has loaded its regulation.
Loaded ==
  /\ DOMAIN job = Exports
  /\ \A e \in Exports :
       /\ DOMAIN job[e] = JobFields
       /\ job[e].at = "assembling" => job[e].reg \in DOMAIN Regulations

LEMMA LoadedStep ==
  ASSUME Loaded, NEW e \in Exports, Export(e)
  PROVE  Loaded'
<1>1. ASSUME NEW r \in DOMAIN Regulations \cup Malformed, NEW d, NEW home, Start(e, r, d, home)
      PROVE  Loaded'
  BY <1>1 DEF Start, Loaded, NoJob, JobFields
<1>2. ASSUME AssembleNext(e) PROVE Loaded'
  <2>1. CASE Len(job[e].evidence) + 1 <= Len(Regulations[job[e].reg])
    <3>1. \E ev : job' = [job EXCEPT ![e].evidence = ev]
      BY <1>2, <2>1 DEF AssembleNext
    <3> QED BY <3>1 DEF Loaded, JobFields
  <2>2. CASE ~(Len(job[e].evidence) + 1 <= Len(Regulations[job[e].reg]))
    BY <1>2, <2>2 DEF AssembleNext, To, Loaded, JobFields
  <2> QED BY <2>1, <2>2
<1>3. ASSUME FindKeys(e) PROVE Loaded'
  BY <1>3 DEF FindKeys, Loaded, JobFields
<1>4. ASSUME ReadPublicKey(e) PROVE Loaded'
  BY <1>4 DEF ReadPublicKey, Loaded, JobFields
<1>5. ASSUME Stage(e) PROVE Loaded'
  BY <1>5 DEF Stage, Loaded, JobFields
<1>6. ASSUME NEW at \in {"fillsk", "openpk", "fillpk", "staging", "packing",
                        "recording", "verifying"}, To(e, at)
      PROVE  Loaded'
  BY <1>6 DEF To, Loaded, JobFields
<1>7. ASSUME NEW at \in {"verified", "unverified", "dead"},
             job' = [job EXCEPT ![e] = [NoJob EXCEPT !.at = at]]
      PROVE  Loaded'
  BY <1>7 DEF Loaded, NoJob, JobFields
<1>8. ASSUME CreateKeys(e) PROVE Loaded'
  BY <1>6, <1>8 DEF CreateKeys, Writes
<1>9. ASSUME OpenZip(e) \/ CloseZip(e) \/ RecordBundle(e) PROVE Loaded'
  BY <1>6, <1>9 DEF OpenZip, CloseZip, RecordBundle
<1>10. ASSUME Answer(e) \/ ExportDies(e) PROVE Loaded'
  BY <1>7, <1>10 DEF Answer, ExportDies
<1> QED BY <1>1, <1>2, <1>3, <1>4, <1>5, <1>8, <1>9, <1>10 DEF Export

LEMMA UpTo == ASSUME NEW n \in Nat PROVE IsFiniteSet(1..n) /\ Cardinality(1..n) = n
<1>1. Cardinality(1..n) = IF 1 > n THEN 0 ELSE n - 1 + 1
  BY FS_Interval
<1> QED BY <1>1, FS_Interval

\* A regulation whose light is green is one that the coverage score counts: what
\* satisfies applies, and no more applies than is asked for.
LEMMA GreenIsCovered ==
  ASSUME NEW r \in DOMAIN Regulations, Light(r) = "green"
  PROVE  CoveredWell(r)
<1> DEFINE evidence == Assembled(r, None)
           good == Cardinality(Satisfied(evidence))
           of == Cardinality(Applicable(evidence))
           n == Len(Regulations[r])
<1>1. n \in Nat /\ DOMAIN evidence = 1..n
  <2>1. n \in Nat /\ DOMAIN Regulations[r] = 1..n
    BY RegulationsAssumption
  <2>2. DOMAIN evidence = DOMAIN Regulations[r]
    BY Zenon DEF Assembled
  <2> QED BY <2>1, <2>2
<1>2. Satisfied(evidence) \subseteq Applicable(evidence)
      /\ Applicable(evidence) \subseteq 1..n
  BY <1>1 DEF Satisfied, Applicable
<1>3. IsFiniteSet(1..n) /\ Cardinality(1..n) = n
  BY <1>1, UpTo
<1>4. IsFiniteSet(Applicable(evidence)) /\ of <= n
  BY <1>2, <1>3, FS_Subset
<1>5. good <= of
  BY <1>2, <1>4, FS_Subset
<1>6. good \in Nat /\ of \in Nat
  BY <1>2, <1>4, FS_Subset, FS_CardinalityType
<1>7. n > 0 /\ AtLeast(good, 80, n)
  BY <1>1, <1>3 DEF Light
<1> HIDE DEF evidence, good, of, n
<1>8. of > 0 /\ AtLeast(good, 80, of)
  BY <1>1, <1>4, <1>5, <1>6, <1>7 DEF AtLeast
<1> QED BY <1>8 DEF CoveredWell, evidence, good, of

\* What the gap analysis does not list, the assembler finds.
LEMMA CoveredIsFound ==
  ASSUME NEW r \in DOMAIN Regulations, NEW i \in DOMAIN Regulations[r],
         Regulations[r][i].kind \in Collected,
         [kind |-> Regulations[r][i].kind, selector |-> Regulations[r][i].selector]
            \notin Uncovered(r)
  PROVE  /\ Resolve(Regulations[r][i], None).status # "MISSING"
         /\ Resolve(Regulations[r][i], None).found.exists
<1> DEFINE req == Regulations[r][i]
<1>1. req.selector \in Available(req.kind)
  <2>1. [kind |-> req.kind, selector |-> req.selector] \in Asked(r)
    BY DEF Asked
  <2> QED BY <2>1 DEF Uncovered
<1>2. CASE req.kind = "SHACL_SHAPE"
  <2>1. PICK x \in UNION {Records(f) : f \in ShapeFiles} : x.name = req.selector
    BY <1>1, <1>2 DEF Available
  <2>2. PICK f \in ShapeFiles : x \in Records(f)
    BY <2>1
  <2>3. Mentioned(req.selector) # {}
    BY <2>1, <2>2 DEF Mentioned, Rows
  <2>4. Resolve(req, None) = ResolveShape(req)
    BY <1>2 DEF Resolve, Reports
  <2> DEFINE found == [Nothing EXCEPT !.exists = Mentioned(req.selector) # {}]
  <2>5. found.exists
    BY <2>3 DEF Nothing
  <2>6. ResolveShape(req) = Judged(req, [exists |-> Mentioned(req.selector) # {}], found)
    BY DEF ResolveShape
  <2> HIDE DEF found
  <2> QED BY <2>4, <2>5, <2>6 DEF Judged, Found
<1>3. CASE req.kind \in {"SPARQL_CQ", "GOVERNANCE_SCORECARD_CRITERION"}
  <2>1. Rows(Reports[req.kind], req.selector) # {}
    BY <1>1, <1>3 DEF Available, Rows
  <2>2. Resolve(req, None) = ResolveRow(req)
    BY <1>3 DEF Resolve, Reports
  <2> QED BY <2>1, <2>2 DEF ResolveRow, Judged, Found
<1> QED BY <1>2, <1>3 DEF Collected

\* The coverage score, the lights and the gap analysis agree with the assembler
\* on the directory as an export finds it, for any regulations and any content
\* (dashboard.py, mapping.py and assembler.py of src/compliance).
THEOREM ReportsAgreeHolds == Spec => []ReportsAgree
<1>1. Init => Loaded
  BY DEF Init, ComplyInit, NoJob, Loaded, JobFields
<1>2. Loaded /\ [Next]_consumerVars => Loaded'
  <2>1. Loaded /\ UNCHANGED complyVars => Loaded'
    BY DEF Loaded, complyVars
  <2> QED BY <2>1, StepOfExports, LoadedStep
<1>3. Loaded => ReportsAgree
  <2> SUFFICES ASSUME Loaded PROVE ReportsAgree
    OBVIOUS
  <2>1. ASSUME NEW e \in Exports, job[e].at = "assembling"
        PROVE  job[e].reg \in DOMAIN Regulations
    BY <2>1 DEF Loaded
  <2>2. ASSUME NEW e \in Exports, job[e].at = "assembling", Light(job[e].reg) = "green"
        PROVE  CoveredWell(job[e].reg)
    BY <2>1, <2>2, GreenIsCovered
  <2>3. ASSUME NEW e \in Exports, job[e].at = "assembling",
               NEW i \in DOMAIN Regulations[job[e].reg],
               Regulations[job[e].reg][i].kind \in Collected,
               [kind |-> Regulations[job[e].reg][i].kind,
                selector |-> Regulations[job[e].reg][i].selector]
                  \notin Uncovered(job[e].reg)
        PROVE  /\ Resolve(Regulations[job[e].reg][i], None).status # "MISSING"
               /\ Resolve(Regulations[job[e].reg][i], None).found.exists
    BY <2>1, <2>3, CoveredIsFound
  <2> QED BY <2>2, <2>3 DEF ReportsAgree
<1> QED BY <1>1, <1>2, <1>3, PTL DEF Spec
=============================================================================
