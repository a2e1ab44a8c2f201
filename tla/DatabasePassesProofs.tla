------------------------ MODULE DatabasePassesProofs ------------------------
(***************************************************************************)
(* Proofs about the two kinds of passes that clean the database up.        *)
(*                                                                         *)
(* AgentMemory, for any number of passes, entities and observations: types,*)
(* no row is lost from memory, a measured row is folded once, and no       *)
(* summary stands for more than it counts.  The inductive invariant says   *)
(* what invalidates what (an inferred row is invalidated by a measured one,*)
(* a measured one by a summary, a summary by nothing) and that what a pass *)
(* holds since its SELECT still has the methods and the entity it was      *)
(* selected for.  Under the fairness of the scheduled passes, and as none is*)
(* ever stuck (a hypothesis), what is stale is superseded in the end.  *)
(*                                                                         *)
(* ConflictResolver, for any measurements, entities, passes and bounds: the*)
(* type invariant; that every invalidation names an event; that no selected*)
(* pair is skipped; that events stay what they are; and that among any     *)
(* measurements one is left.  The last one holds because a winner comes    *)
(* before its loser in the order of Beats, and a set of measurements has a *)
(* first one in that order.                                                *)
(***************************************************************************)
EXTENDS AgentMemory, ConflictResolver, FiniteSetTheorems, WellFoundedInduction,
        TLAPS

-----------------------------------------------------------------------------
(* AgentMemory.                                                            *)

RowType == [entity : Entities, method : Methods, at : Nat, by : Nat, count : Nat]

Shape ==
  /\ rows \in Seq(RowType)
  /\ time \in Nat
  /\ pc \in [Passes -> Steps]
  /\ found = [p \in Passes |-> found[p]]

\* What invalidates what.
Links ==
  \A r \in 1..Len(rows) : rows[r].by # 0 =>
    LET s == rows[r].by IN
    /\ s \in 1..Len(rows) /\ rows[s].entity = rows[r].entity
    /\ \/ rows[r].method = "INFERRED" /\ rows[s].method = "MEASURED"
       \/ rows[r].method = "MEASURED" /\ rows[s].method = "SYNTHESIZED"

\* A pair that a pass marks.
Pair(pair) ==
  /\ pair[1] \in 1..Len(rows) /\ pair[2] \in 1..Len(rows)
  /\ rows[pair[1]].method = "INFERRED" /\ rows[pair[2]].method = "MEASURED"
  /\ rows[pair[1]].entity = rows[pair[2]].entity

Hands ==
  \A p \in Passes :
    /\ pc[p] = "mark" => \A pair \in found[p] : Pair(pair)
    /\ pc[p] = "fold" => /\ IsFiniteSet(found[p])
                         /\ \A g \in found[p] : g[1] \in Entities /\ g[2] \in Nat

MInv == Shape /\ Links /\ Hands

\* Rows are added, and keep their entity and their method.
Grows ==
  /\ Len(rows) <= Len(rows')
  /\ \A r \in 1..Len(rows) : /\ rows'[r].entity = rows[r].entity
                             /\ rows'[r].method = rows[r].method

\* Of an old row, the age and the count stay; what is invalidated stays so, and
\* becomes so by a new row or by a measured one.
Keeps ==
  \A r \in 1..Len(rows) :
    /\ rows'[r].at = rows[r].at /\ rows'[r].count = rows[r].count
    /\ rows[r].by # 0 => rows'[r].by # 0
    /\ \/ rows'[r].by = rows[r].by
       \/ rows'[r].by > Len(rows)
       \/ rows'[r].by \in 1..Len(rows) /\ rows[rows'[r].by].method = "MEASURED"

\* A new row is of this month and active; a summary is of a group that a pass has
\* in its hands, and what it invalidates was old and active until now.
NewRows ==
  \A s \in 1..Len(rows') : s > Len(rows) =>
    /\ rows'[s].by = 0 /\ rows'[s].at = time
    /\ rows'[s].method # "SYNTHESIZED" => rows'[s].count = 0
    /\ rows'[s].method = "SYNTHESIZED" =>
         \E p \in Passes : pc[p] = "fold" /\ \E g \in found[p] :
           /\ rows'[s].count = g[2]
           /\ \A q \in 1..Len(rows) :
                rows'[q].by = s => q \in OldPoints(g[1], cutoff[p])

\* A row is built with the fields it is given.
LEMMA RowFields ==
  ASSUME NEW e \in Entities, NEW m \in Methods, NEW at \in Nat, NEW n \in Nat
  PROVE  /\ Row(e, m, at, n) \in RowType
         /\ Row(e, m, at, n).entity = e /\ Row(e, m, at, n).method = m
         /\ Row(e, m, at, n).by = 0
         /\ Row(e, m, at, n).at = at /\ Row(e, m, at, n).count = n
BY DEF Row, RowType

\* Marking a row changes nothing but its invalidated_by.
LEMMA MarkedFields ==
  ASSUME NEW row \in RowType, NEW b \in Nat
  PROVE  LET marked == [row EXCEPT !.by = b] IN
         /\ marked \in RowType /\ marked.by = b
         /\ marked.entity = row.entity /\ marked.method = row.method
         /\ marked.at = row.at /\ marked.count = row.count
BY DEF RowType

\* A pair in a pass's hands stays one while the table grows.
LEMMA PairGrows ==
  ASSUME Shape, rows' \in Seq(RowType), Grows, NEW pair, Pair(pair)
  PROVE  Pair(pair)'
BY DEF Shape, Grows, Pair

\* The groups a SELECT returns are finitely many, each of an entity and a number.
LEMMA GroupsFinite ==
  ASSUME Shape, MemoryAssumption, NEW limit
  PROVE  /\ IsFiniteSet(Groups(limit))
         /\ \A g \in Groups(limit) : g[1] \in Entities /\ g[2] \in Nat
<1> DEFINE size(e) == Cardinality(OldPoints(e, limit))
           Large == {x \in Entities : size(x) > 1}
           G == {<<e, size(e)>> : e \in Large}
<1>1. \A e : size(e) \in Nat
  <2> TAKE e
  <2>1. DOMAIN rows = 1..Len(rows) /\ Len(rows) \in Nat
    BY DEF Shape
  <2>2. IsFiniteSet(1..Len(rows))
    BY <2>1, FS_Interval
  <2>3. OldPoints(e, limit) \subseteq 1..Len(rows)
    BY <2>1 DEF OldPoints
  <2> QED BY <2>2, <2>3, FS_Subset, FS_CardinalityType
<1>2. IsFiniteSet(Large)
  BY FS_Subset DEF MemoryAssumption
<1>3. Groups(limit) = G
  BY DEF Groups
<1>4. IsFiniteSet(G)
  <2> DEFINE f == [e \in Large |-> <<e, size(e)>>]
  <2>1. f \in Surjection(Large, G)
    BY DEF Surjection
  <2> QED BY <1>2, <2>1, FS_Surjection
<1>5. \A g \in G : g[1] \in Entities /\ g[2] \in Nat
  BY <1>1
<1> QED BY <1>3, <1>4, <1>5

\* A pass that goes to its next step leaves the hands of the others as they are.
LEMMA PassGoes ==
  ASSUME MInv, rows' \in Seq(RowType), time' \in Nat, Grows, Links',
         NEW p \in Passes, NEW step \in Steps, NEW what, Goto(p, step, what),
         step = "mark" => \A pair \in what : Pair(pair),
         step = "fold" => /\ IsFiniteSet(what)
                          /\ \A g \in what : g[1] \in Entities /\ g[2] \in Nat
  PROVE  MInv'
<1>1. /\ pc' = [pc EXCEPT ![p] = step] /\ found' = [found EXCEPT ![p] = what]
      /\ pc \in [Passes -> Steps] /\ found = [q \in Passes |-> found[q]]
  BY DEF Goto, MInv, Shape
<1>2. /\ pc'[p] = step /\ found'[p] = what
      /\ \A q \in Passes \ {p} : pc'[q] = pc[q] /\ found'[q] = found[q]
  BY <1>1
<1>3. Shape'
  BY <1>1 DEF Shape
<1>4. \A pair : Pair(pair) => Pair(pair)'
  BY PairGrows DEF MInv
<1>5. Hands'
  <2> SUFFICES ASSUME NEW q \in Passes
               PROVE  /\ pc'[q] = "mark" => \A pair \in found'[q] : Pair(pair)'
                      /\ pc'[q] = "fold" =>
                           /\ IsFiniteSet(found'[q])
                           /\ \A g \in found'[q] : g[1] \in Entities /\ g[2] \in Nat
    BY DEF Hands
  <2>1. ASSUME q = p
        PROVE  /\ pc'[q] = "mark" => \A pair \in found'[q] : Pair(pair)'
               /\ pc'[q] = "fold" =>
                    /\ IsFiniteSet(found'[q])
                    /\ \A g \in found'[q] : g[1] \in Entities /\ g[2] \in Nat
    BY <1>2, <1>4, <2>1
  <2>2. ASSUME q # p
        PROVE  /\ pc'[q] = "mark" => \A pair \in found'[q] : Pair(pair)'
               /\ pc'[q] = "fold" =>
                    /\ IsFiniteSet(found'[q])
                    /\ \A g \in found'[q] : g[1] \in Entities /\ g[2] \in Nat
    <3>1. pc'[q] = pc[q] /\ found'[q] = found[q]
      BY <1>2, <2>2
    <3>2. /\ pc[q] = "mark" => \A pair \in found[q] : Pair(pair)
          /\ pc[q] = "fold" =>
               /\ IsFiniteSet(found[q])
               /\ \A g \in found[q] : g[1] \in Entities /\ g[2] \in Nat
      BY DEF MInv, Hands
    <3> QED BY <3>1, <3>2, <1>4
  <2> QED BY <2>1, <2>2
<1> QED BY <1>3, <1>5 DEF MInv

\* So does a step that no pass takes.
LEMMA PassesRest ==
  ASSUME MInv, rows' \in Seq(RowType), time' \in Nat, Grows, Links',
         UNCHANGED <<pc, found>>
  PROVE  MInv'
<1>1. \A pair : Pair(pair) => Pair(pair)'
  BY PairGrows DEF MInv
<1>2. Hands'
  BY <1>1 DEF MInv, Hands
<1> QED BY <1>2 DEF MInv, Shape

\* A step that leaves the table leaves its links.
LEMMA SameRows ==
  ASSUME MInv, rows' = rows
  PROVE  rows' \in Seq(RowType) /\ Grows /\ Links' /\ Keeps /\ NewRows
BY DEF MInv, Shape, Grows, Links, Keeps, NewRows

LEMMA ObserveStep ==
  ASSUME MInv, NEW e \in Entities, NEW m \in Methods, Observe(e, m)
  PROVE  MInv'
<1> DEFINE new == Row(e, m, time, 0)
           n == Len(rows)
<1>1. /\ rows \in Seq(RowType) /\ n \in Nat /\ time \in Nat
      /\ rows' = Append(rows, new)
  BY DEF MInv, Shape, Observe
<1>2. new \in RowType /\ new.by = 0
  BY <1>1, RowFields
<1> HIDE DEF new
<1>3. /\ rows' \in Seq(RowType) /\ Len(rows') = n + 1
      /\ \A r \in 1..n : rows'[r] = rows[r]
      /\ rows'[n + 1] = new
  BY <1>1, <1>2
<1>4. Grows
  BY <1>1, <1>3 DEF Grows
<1>5. Links'
  <2> SUFFICES ASSUME NEW r \in 1..Len(rows'), rows'[r].by # 0
               PROVE  LET s == rows'[r].by IN
                      /\ s \in 1..Len(rows') /\ rows'[s].entity = rows'[r].entity
                      /\ \/ rows'[r].method = "INFERRED" /\ rows'[s].method = "MEASURED"
                         \/ rows'[r].method = "MEASURED" /\ rows'[s].method = "SYNTHESIZED"
    BY DEF Links
  <2>1. r \in 1..n /\ rows'[r] = rows[r]
    BY <1>1, <1>2, <1>3
  <2>2. /\ rows[r].by \in 1..n
        /\ rows[rows[r].by].entity = rows[r].entity
        /\ \/ rows[r].method = "INFERRED" /\ rows[rows[r].by].method = "MEASURED"
           \/ rows[r].method = "MEASURED" /\ rows[rows[r].by].method = "SYNTHESIZED"
    BY <2>1 DEF MInv, Links
  <2> QED BY <1>1, <1>3, <2>1, <2>2
<1>6. time' \in Nat /\ UNCHANGED <<pc, found>>
  BY <1>1 DEF Observe
<1> QED BY <1>3, <1>4, <1>5, <1>6, PassesRest

\* Marking: the pairs found at the SELECT are pairs still.
LEMMA MarkStep ==
  ASSUME MInv, NEW p \in Passes, MarkInferred(p)
  PROVE  /\ rows' \in Seq(RowType) /\ Grows /\ Links' /\ Keeps /\ NewRows
         /\ \A r \in 1..Len(rows) : rows[r].method # "INFERRED" => rows'[r] = rows[r]
<1> DEFINE inferred == {pair[1] : pair \in found[p]}
           n == Len(rows)
<1>1. rows \in Seq(RowType) /\ n \in Nat /\ DOMAIN rows = 1..n
  BY DEF MInv, Shape
<1>2. CASE ~ updated
  <2>1. rows' = rows
    BY <1>2 DEF MarkInferred
  <2> QED BY <2>1, <1>1, SameRows
<1>3. CASE updated
  <2>1. PICK last \in [inferred -> DOMAIN rows] :
          /\ \A i \in inferred : <<i, last[i]>> \in found[p]
          /\ rows' = [r \in DOMAIN rows |->
                        IF r \in inferred THEN [rows[r] EXCEPT !.by = last[r]]
                                          ELSE rows[r]]
    BY <1>3 DEF MarkInferred
  <2>2. \A i \in inferred : Pair(<<i, last[i]>>)
    BY <2>1 DEF MInv, Hands, MarkInferred
  <2>3. \A i \in inferred :
          /\ i \in 1..n /\ last[i] \in 1..n
          /\ rows[i].method = "INFERRED" /\ rows[last[i]].method = "MEASURED"
          /\ rows[last[i]].entity = rows[i].entity
    BY <2>2 DEF Pair
  <2> HIDE DEF inferred
  <2>4. \A r \in 1..n :
          /\ rows'[r] \in RowType
          /\ rows'[r].entity = rows[r].entity /\ rows'[r].method = rows[r].method
          /\ rows'[r].at = rows[r].at /\ rows'[r].count = rows[r].count
          /\ rows'[r].by = IF r \in inferred THEN last[r] ELSE rows[r].by
          /\ r \notin inferred => rows'[r] = rows[r]
    <3> TAKE r \in 1..n
    <3>1. rows[r] \in RowType
      BY <1>1
    <3>2. rows'[r] = IF r \in inferred THEN [rows[r] EXCEPT !.by = last[r]]
                                       ELSE rows[r]
      BY <1>1, <2>1
    <3>3. CASE r \in inferred
      <4>1. last[r] \in Nat
        BY <1>1, <2>3, <3>3
      <4> QED BY <3>1, <3>2, <3>3, <4>1, MarkedFields
    <3>4. CASE r \notin inferred
      BY <3>1, <3>2, <3>4
    <3> QED BY <3>3, <3>4
  <2>5. DOMAIN rows' = 1..n
    BY <1>1, <2>1
  <2>6. rows' \in Seq(RowType) /\ Len(rows') = n
    <3>1. rows' = [r \in 1..n |-> rows'[r]]
      BY <1>1, <2>1
    <3> QED BY <1>1, <2>4, <3>1
  <2>7. Grows
    BY <1>1, <2>4, <2>6 DEF Grows
  <2>8. Links'
    <3> SUFFICES ASSUME NEW r \in 1..n, rows'[r].by # 0
                 PROVE  LET s == rows'[r].by IN
                        /\ s \in 1..n /\ rows'[s].entity = rows'[r].entity
                        /\ \/ rows'[r].method = "INFERRED" /\ rows'[s].method = "MEASURED"
                           \/ rows'[r].method = "MEASURED" /\ rows'[s].method = "SYNTHESIZED"
      BY <2>6 DEF Links
    <3>1. CASE r \in inferred
      BY <2>3, <2>4, <3>1
    <3>2. CASE r \notin inferred
      <4>1. /\ rows[r].by \in 1..n
            /\ rows[rows[r].by].entity = rows[r].entity
            /\ \/ rows[r].method = "INFERRED" /\ rows[rows[r].by].method = "MEASURED"
               \/ rows[r].method = "MEASURED" /\ rows[rows[r].by].method = "SYNTHESIZED"
        BY <2>4, <3>2 DEF MInv, Links
      <4> QED BY <2>4, <3>2, <4>1
    <3> QED BY <3>1, <3>2
  <2>9. \A r \in 1..n : rows[r].method # "INFERRED" => rows'[r] = rows[r]
    BY <2>3, <2>4
  <2>10. Keeps
    BY <1>1, <2>3, <2>4 DEF Keeps
  <2>11. NewRows
    BY <1>1, <2>6 DEF NewRows
  <2> QED BY <2>6, <2>7, <2>8, <2>9, <2>10, <2>11
<1> QED BY <1>2, <1>3

\* Folding: a measured row that is active gets a summary that is added with it.
LEMMA FoldStep ==
  ASSUME MInv, NEW p \in Passes, FoldGroups(p)
  PROVE  /\ rows' \in Seq(RowType) /\ Grows /\ Links' /\ Keeps /\ NewRows
         /\ \A r \in 1..Len(rows) : rows[r].by # 0 => rows'[r] = rows[r]
         /\ \A s \in 1..Len(rows') : s > Len(rows) => rows'[s].method = "SYNTHESIZED"
<1> DEFINE n == Len(rows)
           k == Cardinality(found[p])
<1>1. /\ rows \in Seq(RowType) /\ n \in Nat /\ DOMAIN rows = 1..n /\ time \in Nat
      /\ pc[p] = "fold"
  BY DEF MInv, Shape, FoldGroups
<1>2. k \in Nat
  BY <1>1, FS_CardinalityType DEF MInv, Hands
<1>3. CASE ~ updated
  <2>1. rows' = rows
    BY <1>3 DEF FoldGroups
  <2> QED BY <2>1, <1>1, SameRows
<1>4. CASE updated
  <2> DEFINE Takes(order, i, r) == r \in Folded(order[i][1], cutoff[p])
             Kept(order, r) ==
               IF \E i \in DOMAIN order : Takes(order, i, r)
               THEN LET i == CHOOSE i \in DOMAIN order : Takes(order, i, r)
                    IN [rows[r] EXCEPT !.by = n + i]
               ELSE rows[r]
  <2>1. PICK order \in [1..k -> found[p]] :
          rows' = [r \in DOMAIN rows |-> Kept(order, r)] \o Summaries(order)
    BY <1>4 DEF FoldGroups
  <2> DEFINE new == Summaries(order)
             old == [r \in DOMAIN rows |-> Kept(order, r)]
             place(r) == CHOOSE i \in 1..k : Takes(order, i, r)
             taken == {r \in 1..n : \E i \in 1..k : Takes(order, i, r)}
  <2>2. \A i \in 1..k : /\ new[i] \in RowType /\ new[i].entity = order[i][1]
                        /\ new[i].method = "SYNTHESIZED" /\ new[i].by = 0
                        /\ new[i].at = time /\ new[i].count = order[i][2]
    <3> TAKE i \in 1..k
    <3>1. order[i] \in found[p]
      BY <2>1
    <3>2. order[i][1] \in Entities /\ order[i][2] \in Nat
      BY <1>1, <3>1 DEF MInv, Hands
    <3>3. new[i] = Row(order[i][1], "SYNTHESIZED", time, order[i][2])
      BY <2>1 DEF Summaries
    <3>4. "SYNTHESIZED" \in Methods
      BY DEF Methods
    <3> QED BY <1>1, <3>2, <3>3, <3>4, RowFields
  <2>3. new = [i \in 1..k |-> new[i]]
    BY <2>1 DEF Summaries
  <2>4. \A r \in taken : /\ place(r) \in 1..k
                         /\ order[place(r)][1] = rows[r].entity
                         /\ rows[r].method = "MEASURED" /\ rows[r].by = 0
                         /\ r \in OldPoints(order[place(r)][1], cutoff[p])
    <3> SUFFICES ASSUME NEW r \in taken
                 PROVE  /\ place(r) \in 1..k
                        /\ order[place(r)][1] = rows[r].entity
                        /\ rows[r].method = "MEASURED" /\ rows[r].by = 0
                        /\ r \in OldPoints(order[place(r)][1], cutoff[p])
      OBVIOUS
    <3>1. PICK i \in 1..k : Takes(order, i, r)
      OBVIOUS
    <3>2. place(r) \in 1..k /\ Takes(order, place(r), r)
      BY <3>1
    <3>3. r \in Folded(order[place(r)][1], cutoff[p])
      BY <3>2
    <3> HIDE DEF place, taken
    <3> QED BY <3>2, <3>3 DEF Folded, OldPoints, Is, Active
  <2>5. \A r \in 1..n : old[r] = IF r \in taken
                                 THEN [rows[r] EXCEPT !.by = n + place(r)]
                                 ELSE rows[r]
    BY <1>1, <2>1
  <2>6. old = [r \in 1..n |-> old[r]]
    BY <1>1
  <2>7. rows' = old \o new
    BY <2>1
  <2> HIDE DEF old, new, place, taken, Takes, Kept
  <2>8. \A r \in 1..n :
          /\ old[r] \in RowType
          /\ old[r].entity = rows[r].entity /\ old[r].method = rows[r].method
          /\ old[r].at = rows[r].at /\ old[r].count = rows[r].count
          /\ old[r].by = IF r \in taken THEN n + place(r) ELSE rows[r].by
          /\ r \notin taken => old[r] = rows[r]
    <3> TAKE r \in 1..n
    <3>1. rows[r] \in RowType
      BY <1>1
    <3>2. CASE r \in taken
      <4> DEFINE b == n + place(r)
      <4>1. b \in Nat
        BY <1>1, <1>2, <2>4, <3>2
      <4>2. old[r] = [rows[r] EXCEPT !.by = b]
        BY <2>5, <3>2
      <4> HIDE DEF b
      <4>3. /\ [rows[r] EXCEPT !.by = b] \in RowType
            /\ [rows[r] EXCEPT !.by = b].by = b
            /\ [rows[r] EXCEPT !.by = b].entity = rows[r].entity
            /\ [rows[r] EXCEPT !.by = b].method = rows[r].method
            /\ [rows[r] EXCEPT !.by = b].at = rows[r].at
            /\ [rows[r] EXCEPT !.by = b].count = rows[r].count
        BY <3>1, <4>1, MarkedFields
      <4>4. old[r].by = b
        BY <4>2, <4>3
      <4> QED BY <3>2, <4>2, <4>3, <4>4 DEF b
    <3>3. CASE r \notin taken
      BY <2>5, <3>1, <3>3
    <3> QED BY <3>2, <3>3
  <2>9. old \in Seq(RowType) /\ Len(old) = n
    BY <1>1, <2>6, <2>8
  <2>10. new \in Seq(RowType) /\ Len(new) = k
    BY <1>2, <2>2, <2>3
  <2>11. /\ rows' \in Seq(RowType) /\ Len(rows') = n + k
         /\ \A r \in 1..n : rows'[r] = old[r]
         /\ \A i \in 1..k : rows'[n + i] = new[i]
    BY <1>1, <1>2, <2>7, <2>9, <2>10
  <2>12. Grows
    BY <1>1, <1>2, <2>8, <2>11 DEF Grows
  <2>13. Links'
    <3> SUFFICES ASSUME NEW r \in 1..(n + k), rows'[r].by # 0
                 PROVE  LET s == rows'[r].by IN
                        /\ s \in 1..(n + k) /\ rows'[s].entity = rows'[r].entity
                        /\ \/ rows'[r].method = "INFERRED" /\ rows'[s].method = "MEASURED"
                           \/ rows'[r].method = "MEASURED" /\ rows'[s].method = "SYNTHESIZED"
      BY <2>11 DEF Links
    <3>1. r \in 1..n
      <4>1. ASSUME r \notin 1..n PROVE FALSE
        <5>1. r - n \in 1..k /\ r = n + (r - n)
          BY <1>1, <1>2, <4>1
        <5> QED BY <2>2, <2>11, <5>1
      <4> QED BY <4>1
    <3>2. CASE r \in taken
      <4>1. rows'[r].by = n + place(r) /\ place(r) \in 1..k
        BY <2>4, <2>8, <2>11, <3>1, <3>2
      <4>2. rows'[n + place(r)] = new[place(r)]
        BY <2>11, <4>1
      <4>3. /\ rows'[r].entity = rows[r].entity /\ rows'[r].method = "MEASURED"
            /\ new[place(r)].entity = rows[r].entity
            /\ new[place(r)].method = "SYNTHESIZED"
        BY <2>2, <2>4, <2>8, <2>11, <3>1, <3>2
      <4>4. n + place(r) \in 1..(n + k)
        BY <1>1, <1>2, <4>1
      <4> QED BY <4>1, <4>2, <4>3, <4>4
    <3>3. CASE r \notin taken
      <4>1. rows'[r] = rows[r]
        BY <2>8, <2>11, <3>1, <3>3
      <4>2. /\ rows[r].by \in 1..n
            /\ rows[rows[r].by].entity = rows[r].entity
            /\ \/ rows[r].method = "INFERRED" /\ rows[rows[r].by].method = "MEASURED"
               \/ rows[r].method = "MEASURED" /\ rows[rows[r].by].method = "SYNTHESIZED"
        BY <3>1, <4>1 DEF MInv, Links
      <4>3. /\ rows'[rows[r].by].entity = rows[rows[r].by].entity
            /\ rows'[rows[r].by].method = rows[rows[r].by].method
        BY <4>2, <2>8, <2>11
      <4>4. rows[r].by \in 1..(n + k)
        BY <1>1, <1>2, <4>2
      <4> QED BY <4>1, <4>2, <4>3, <4>4
    <3> QED BY <3>2, <3>3
  <2>14. \A r \in 1..n : rows[r].by # 0 => rows'[r] = rows[r]
    BY <2>4, <2>8, <2>11
  <2>15. Keeps
    BY <1>1, <1>2, <2>4, <2>8, <2>11 DEF Keeps
  <2>16. NewRows
    <3> SUFFICES ASSUME NEW s \in 1..(n + k), s > n
                 PROVE  /\ rows'[s].by = 0 /\ rows'[s].at = time
                        /\ rows'[s].method = "SYNTHESIZED"
                        /\ \E g \in found[p] :
                             /\ rows'[s].count = g[2]
                             /\ \A q \in 1..n :
                                  rows'[q].by = s => q \in OldPoints(g[1], cutoff[p])
      BY <1>1, <2>11 DEF NewRows
    <3>1. PICK i \in 1..k : s = n + i
      <4>1. s - n \in 1..k /\ s = n + (s - n)
        BY <1>1, <1>2
      <4> QED BY <4>1
    <3>2. rows'[s] = new[i]
      BY <2>11, <3>1
    <3>3. order[i] \in found[p]
      BY <2>1
    <3>4. ASSUME NEW q \in 1..n, rows'[q].by = s
          PROVE  q \in OldPoints(order[i][1], cutoff[p])
      <4>1. CASE q \in taken
        <5>1. n + place(q) = n + i /\ place(q) \in 1..k
          BY <2>4, <2>8, <2>11, <3>1, <3>4, <4>1
        <5>2. place(q) = i
          BY <1>1, <1>2, <5>1
        <5> QED BY <2>4, <4>1, <5>2
      <4>2. CASE q \notin taken
        <5>1. rows[q].by = s
          BY <2>8, <2>11, <3>4, <4>2
        <5>2. s # 0
          BY <1>1
        <5>3. rows[q].by \in 1..n
          BY <5>1, <5>2 DEF MInv, Links
        <5> QED BY <1>1, <5>1, <5>3
      <4> QED BY <4>1, <4>2
    <3> QED BY <2>2, <3>2, <3>3, <3>4
  <2>17. ASSUME NEW s \in 1..(n + k), s > n PROVE rows'[s].method = "SYNTHESIZED"
    <3>1. s - n \in 1..k /\ s = n + (s - n)
      BY <1>1, <1>2, <2>17
    <3> QED BY <2>2, <2>11, <3>1
  <2> QED BY <2>11, <2>12, <2>13, <2>14, <2>15, <2>16, <2>17
<1> QED BY <1>3, <1>4

LEMMA MInitial ==
  ASSUME MemoryAssumption, Init PROVE MInv
<1>1. Shape
  BY DEF Init, Shape, RowType, Steps
<1>2. Links
  BY DEF Init, Links
<1>3. Hands
  BY DEF Init, Hands
<1> QED BY <1>1, <1>2, <1>3 DEF MInv

\* A SELECT for supersession returns pairs as they are to be marked.
LEMMA SelectedPairs ==
  ASSUME MInv, NEW limit
  PROVE  \A pair \in Superseding(limit) : Pair(pair)
<1>1. DOMAIN rows = 1..Len(rows)
  BY DEF MInv, Shape
<1> QED BY <1>1 DEF Superseding, Pair, Is

\* Every step keeps the invariant, and does to the rows what the strategies do.
LEMMA MStep ==
  ASSUME MemoryAssumption, MInv, [Next]_vars
  PROVE  /\ MInv'
         /\ \A r \in 1..Len(rows) :
              rows[r].method = "MEASURED" /\ rows[r].by # 0 => rows'[r] = rows[r]
<1> DEFINE Stays == \A r \in 1..Len(rows) :
              rows[r].method = "MEASURED" /\ rows[r].by # 0 => rows'[r] = rows[r]
<1>1. rows \in Seq(RowType) /\ time \in Nat
  BY DEF MInv, Shape
<1>2. ASSUME NEW e \in Entities, NEW m \in Methods, Observe(e, m) PROVE MInv' /\ Stays
  <2>1. MInv'
    BY <1>2, ObserveStep
  <2>2. rows' = Append(rows, Row(e, m, time, 0))
    BY <1>2 DEF Observe
  <2>3. Row(e, m, time, 0) \in RowType
    BY <1>1, <1>2, RowFields
  <2> HIDE DEF Row
  <2>4. \A r \in 1..Len(rows) : rows'[r] = rows[r]
    BY <1>1, <2>2, <2>3
  <2> QED BY <2>1, <2>4
<1>3. ASSUME rows' = rows, time' \in Nat, UNCHANGED <<pc, found>> PROVE MInv' /\ Stays
  <2>1. rows' \in Seq(RowType) /\ Grows /\ Links'
    BY <1>3, SameRows
  <2> QED BY <1>3, <2>1, PassesRest
<1>4. ASSUME NEW p \in Passes, NEW step \in {"idle", "supersede", "compress", "alter"},
             rows' = rows, time' = time, Goto(p, step, {})
      PROVE  MInv' /\ Stays
  <2>1. rows' \in Seq(RowType) /\ Grows /\ Links'
    BY <1>4, SameRows
  <2>2. step \in Steps /\ step # "mark" /\ step # "fold"
    BY <1>4 DEF Steps
  <2>3. time' \in Nat
    BY <1>1, <1>4
  <2>4. MInv'
    BY <1>4, <2>1, <2>2, <2>3, PassGoes
  <2> QED BY <1>4, <2>4
<1>5. ASSUME NEW p \in Passes, SelectInferred(p) PROVE MInv' /\ Stays
  <2> DEFINE what == Superseding(cutoff[p])
  <2>1. rows' = rows /\ time' = time /\ Goto(p, "mark", what)
    BY <1>5 DEF SelectInferred
  <2>2. \A pair \in what : Pair(pair)
    BY SelectedPairs
  <2> HIDE DEF what
  <2>3. rows' \in Seq(RowType) /\ Grows /\ Links'
    BY <2>1, SameRows
  <2>4. "mark" \in Steps /\ time' \in Nat
    BY <1>1, <2>1 DEF Steps
  <2>5. MInv'
    BY <2>1, <2>2, <2>3, <2>4, PassGoes
  <2> QED BY <2>1, <2>5
<1>6. ASSUME NEW p \in Passes, MarkInferred(p) PROVE MInv' /\ Stays
  <2>1. /\ rows' \in Seq(RowType) /\ Grows /\ Links'
        /\ \A r \in 1..Len(rows) : rows[r].method # "INFERRED" => rows'[r] = rows[r]
    BY <1>6, MarkStep
  <2>2. Goto(p, "compress", {}) /\ time' \in Nat /\ "compress" \in Steps
    BY <1>1, <1>6 DEF MarkInferred, Steps
  <2>3. MInv'
    BY <2>1, <2>2, PassGoes
  <2> QED BY <2>1, <2>3
<1>7. ASSUME NEW p \in Passes, SelectGroups(p) PROVE MInv' /\ Stays
  <2> DEFINE what == Groups(cutoff[p])
  <2>1. rows' = rows /\ time' = time /\ Goto(p, "fold", what)
    BY <1>7 DEF SelectGroups
  <2>2. IsFiniteSet(what) /\ \A g \in what : g[1] \in Entities /\ g[2] \in Nat
    BY GroupsFinite DEF MInv
  <2> HIDE DEF what
  <2>3. rows' \in Seq(RowType) /\ Grows /\ Links'
    BY <2>1, SameRows
  <2>4. "fold" \in Steps /\ time' \in Nat
    BY <1>1, <2>1 DEF Steps
  <2>5. MInv'
    BY <2>1, <2>2, <2>3, <2>4, PassGoes
  <2> QED BY <2>1, <2>5
<1>8. ASSUME NEW p \in Passes, FoldGroups(p) PROVE MInv' /\ Stays
  <2>1. /\ rows' \in Seq(RowType) /\ Grows /\ Links'
        /\ \A r \in 1..Len(rows) : rows[r].by # 0 => rows'[r] = rows[r]
    BY <1>8, FoldStep
  <2>2. Goto(p, "alter", {}) /\ time' \in Nat /\ "alter" \in Steps
    BY <1>1, <1>8 DEF FoldGroups, Steps
  <2>3. MInv'
    BY <2>1, <2>2, PassGoes
  <2> QED BY <2>1, <2>3
<1>9. ASSUME NEW p \in Passes, AddColumn(p) \/ Begin(p) \/ Locked(p) \/ Die(p)
      PROVE  MInv' /\ Stays
  <2>1. rows' = rows /\ time' = time
    BY <1>9 DEF AddColumn, Begin, Locked, Die
  <2>2. \E step \in {"idle", "supersede", "compress", "alter"} : Goto(p, step, {})
    BY <1>9 DEF AddColumn, Begin, Locked, Die
  <2> QED BY <1>4, <2>1, <2>2
<1>10. ASSUME Month \/ DryRun \/ UNCHANGED vars PROVE MInv' /\ Stays
  <2>1. rows' = rows /\ time' \in Nat /\ UNCHANGED <<pc, found>>
    BY <1>1, <1>10 DEF Month, DryRun, vars
  <2> QED BY <1>3, <2>1
<1>11. "MEASURED" \in Methods /\ "INFERRED" \in Methods
  BY DEF Methods
<1> HIDE DEF Stays
<1>12. ASSUME Next PROVE MInv' /\ Stays
  BY <1>2, <1>5, <1>6, <1>7, <1>8, <1>9, <1>10, <1>11, <1>12 DEF Next, Work
<1> QED BY <1>10, <1>12 DEF Stays

\* The links of memory, whatever the passes' steps are interleaved with.
LEMMA LinksHold == Spec => []MInv
<1>1. Init => MInv
  BY MInitial, MemoryAssumption
<1>2. MInv /\ [Next]_vars => MInv'
  BY MStep, MemoryAssumption
<1> QED BY <1>1, <1>2, PTL DEF Spec

\* From a row that is invalidated the links lead to an active row of its entity in
\* one or two steps: consolidation never loses what the memory knew.
THEOREM MemoryIsKept == Spec => []NothingLost
<1>1. MInv => NothingLost
  <2> SUFFICES ASSUME MInv, NEW r \in DOMAIN rows, ~ Active(r)
               PROVE  LET s == rows[r].by IN
                      /\ s \in DOMAIN rows /\ rows[s].entity = rows[r].entity
                      /\ \/ Active(s)
                         \/ LET u == rows[s].by IN
                            /\ u \in DOMAIN rows /\ Active(u)
                            /\ rows[u].entity = rows[r].entity
    BY DEF NothingLost
  <2>1. DOMAIN rows = 1..Len(rows)
    BY DEF MInv, Shape
  <2> QED BY <2>1 DEF MInv, Links, Active
<1> QED BY <1>1, LinksHold, PTL

\* A measured row that is in a summary stays in that one.
THEOREM FoldedOnceHolds == Spec => FoldedOnce
<1> DEFINE Once == \A r \in DOMAIN rows :
             Is(r, "MEASURED") /\ ~ Active(r) => rows'[r].by = rows[r].by
<1>1. MInv /\ [Next]_vars => Once
  <2> SUFFICES ASSUME MInv, [Next]_vars, NEW r \in DOMAIN rows,
                      Is(r, "MEASURED"), ~ Active(r)
               PROVE  rows'[r].by = rows[r].by
    OBVIOUS
  <2>1. DOMAIN rows = 1..Len(rows)
    BY DEF MInv, Shape
  <2>2. \A q \in 1..Len(rows) :
          rows[q].method = "MEASURED" /\ rows[q].by # 0 => rows'[q] = rows[q]
    BY MStep, MemoryAssumption
  <2> QED BY <2>1, <2>2 DEF Is, Active
<1> QED BY <1>1, LinksHold, PTL DEF Spec, FoldedOnce

-----------------------------------------------------------------------------
(* The counts.                                                             *)

Bounds ==
  /\ \A r \in 1..Len(rows) : rows[r].at <= time /\ rows[r].count <= MaxPoints
  /\ time <= MaxTime /\ faults \in 0..MaxFaults /\ updated \in BOOLEAN
  /\ Cardinality(Points) <= MaxPoints

\* A cutoff is not in the future, so what is recorded later is younger.
Cutoffs ==
  /\ cutoff \in [Passes -> Int]
  /\ \A p \in Passes : pc[p] \in {"compress", "fold"} => cutoff[p] <= time

\* A group has no more old rows left than were counted at the SELECT.
InHand ==
  \A p \in Passes :
    /\ pc[p] = "mark" => found[p] \subseteq (DOMAIN rows) \X (DOMAIN rows)
    /\ pc[p] = "fold" =>
         \A g \in found[p] :
           /\ g \in Entities \X (2..MaxPoints)
           /\ Cardinality(OldPoints(g[1], cutoff[p])) <= g[2]

CInv == Bounds /\ Cutoffs /\ InHand /\ NothingUncounted

\* What a pass has in its hands it had before, or has selected in this step.
HandsGo ==
  \A p \in Passes :
    /\ pc'[p] = "mark" =>
         \/ pc[p] = "mark" /\ found'[p] = found[p]
         \/ found'[p] = Superseding(cutoff[p]) /\ rows' = rows
    /\ pc'[p] = "fold" =>
         /\ cutoff'[p] = cutoff[p] /\ cutoff[p] <= time
         /\ \/ pc[p] = "fold" /\ found'[p] = found[p]
            \/ found'[p] = Groups(cutoff[p]) /\ rows' = rows

LEMMA SetsFinite ==
  ASSUME Shape
  PROVE  /\ DOMAIN rows = 1..Len(rows) /\ Len(rows) \in Nat
         /\ \A S \in SUBSET (DOMAIN rows) : IsFiniteSet(S) /\ Cardinality(S) \in Nat
<1>1. DOMAIN rows = 1..Len(rows) /\ Len(rows) \in Nat
  BY DEF Shape
<1>2. IsFiniteSet(DOMAIN rows)
  BY <1>1, FS_Interval
<1> QED BY <1>1, <1>2, FS_Subset, FS_CardinalityType

\* What is left of OldPoints after a step.
StillOld(e, limit) ==
  {r \in DOMAIN rows' : /\ rows'[r].entity = e /\ rows'[r].at < limit
                        /\ rows'[r].method = "MEASURED" /\ rows'[r].by = 0}

\* A set of old active measured rows only loses members.
LEMMA OldShrinks ==
  ASSUME MInv, rows' \in Seq(RowType), Grows, Keeps, NewRows,
         NEW e, NEW limit \in Int, limit <= time
  PROVE  /\ StillOld(e, limit) \subseteq OldPoints(e, limit)
         /\ Cardinality(StillOld(e, limit)) <= Cardinality(OldPoints(e, limit))
         /\ Cardinality(StillOld(e, limit)) \in Nat
         /\ Cardinality(OldPoints(e, limit)) \in Nat
<1> DEFINE later == StillOld(e, limit)
<1>1. /\ DOMAIN rows = 1..Len(rows) /\ Len(rows) \in Nat
      /\ DOMAIN rows' = 1..Len(rows') /\ Len(rows') \in Nat /\ time \in Nat
  BY DEF MInv, Shape
<1>2. ASSUME NEW r \in later PROVE r \in OldPoints(e, limit)
  <2>1. /\ r \in 1..Len(rows') /\ rows'[r].at < limit /\ rows'[r].entity = e
        /\ rows'[r].method = "MEASURED" /\ rows'[r].by = 0
    BY <1>1, <1>2 DEF StillOld
  <2>2. r <= Len(rows)
    BY <1>1, <2>1 DEF NewRows
  <2>3. r \in 1..Len(rows)
    BY <1>1, <2>1, <2>2
  <2>4. /\ rows'[r].at = rows[r].at
        /\ rows[r].by # 0 => rows'[r].by # 0
        /\ rows'[r].entity = rows[r].entity /\ rows'[r].method = rows[r].method
    BY <2>3 DEF Keeps, Grows
  <2> QED BY <1>1, <2>1, <2>3, <2>4 DEF OldPoints, Is, Active
<1>3. IsFiniteSet(OldPoints(e, limit)) /\ Cardinality(OldPoints(e, limit)) \in Nat
  BY SetsFinite DEF MInv, OldPoints
<1> HIDE DEF later
<1>4. IsFiniteSet(later) /\ Cardinality(later) <= Cardinality(OldPoints(e, limit))
  BY <1>2, <1>3, FS_Subset
<1>5. Cardinality(later) \in Nat
  BY <1>4, FS_CardinalityType
<1> QED BY <1>2, <1>3, <1>4, <1>5 DEF later

\* No group has more rows than there are observations.
LEMMA GroupsCounted ==
  ASSUME MInv, Bounds, MemoryAssumption, NEW limit, NEW g \in Groups(limit)
  PROVE  /\ g \in Entities \X (2..MaxPoints)
         /\ Cardinality(OldPoints(g[1], limit)) <= g[2]
<1> DEFINE size(e) == Cardinality(OldPoints(e, limit))
<1>1. PICK e \in Entities : size(e) > 1 /\ g = <<e, size(e)>>
  BY DEF Groups
<1>2. OldPoints(e, limit) \subseteq Points /\ Points \subseteq DOMAIN rows
  BY DEF OldPoints, Points, Is
<1>3. /\ IsFiniteSet(Points) /\ Cardinality(Points) \in Nat
      /\ IsFiniteSet(OldPoints(e, limit)) /\ size(e) \in Nat
  BY <1>2, SetsFinite DEF MInv
<1>4. size(e) <= Cardinality(Points)
  BY <1>2, <1>3, FS_Subset
<1>5. size(e) \in 2..MaxPoints
  BY <1>1, <1>3, <1>4 DEF Bounds, MemoryAssumption
<1> HIDE DEF size
<1>6. g[1] = e /\ g[2] = size(e) /\ g \in Entities \X (2..MaxPoints)
  BY <1>1, <1>5
<1> QED BY <1>3, <1>6 DEF size

\* What a step does to the rows.
LEMMA RowsGo ==
  ASSUME MemoryAssumption, MInv, [Next]_vars
  PROVE  rows' \in Seq(RowType) /\ Grows /\ Keeps /\ NewRows
<1>1. rows \in Seq(RowType) /\ time \in Nat
  BY DEF MInv, Shape
<1>2. ASSUME NEW e \in Entities, NEW m \in {"MEASURED", "INFERRED"}, Observe(e, m)
      PROVE  rows' \in Seq(RowType) /\ Grows /\ Keeps /\ NewRows
  <2> DEFINE new == Row(e, m, time, 0)
             n == Len(rows)
  <2>1. rows' = Append(rows, new)
    BY <1>2 DEF Observe
  <2>2. /\ new \in RowType /\ new.by = 0 /\ new.at = time /\ new.count = 0
        /\ new.method # "SYNTHESIZED"
    <3>1. m \in Methods
      BY DEF Methods
    <3> QED BY <1>1, <3>1, RowFields
  <2> HIDE DEF new
  <2>3. /\ rows' \in Seq(RowType) /\ n \in Nat /\ Len(rows') = n + 1
        /\ \A r \in 1..n : rows'[r] = rows[r]
        /\ rows'[n + 1] = new
    BY <1>1, <2>1, <2>2
  <2>4. Grows /\ Keeps
    BY <1>1, <2>3 DEF Grows, Keeps
  <2>5. NewRows
    BY <2>2, <2>3 DEF NewRows
  <2> QED BY <2>3, <2>4, <2>5
<1>3. ASSUME NEW p \in Passes, MarkInferred(p)
      PROVE  rows' \in Seq(RowType) /\ Grows /\ Keeps /\ NewRows
  BY <1>3, MarkStep
<1>4. ASSUME NEW p \in Passes, FoldGroups(p)
      PROVE  rows' \in Seq(RowType) /\ Grows /\ Keeps /\ NewRows
  BY <1>4, FoldStep
<1>5. ASSUME rows' = rows
      PROVE  rows' \in Seq(RowType) /\ Grows /\ Keeps /\ NewRows
  BY <1>5, SameRows
<1>6. ASSUME NEW p \in Passes,
             \/ SelectInferred(p) \/ SelectGroups(p) \/ AddColumn(p)
             \/ Begin(p) \/ Locked(p) \/ Die(p)
      PROVE  rows' = rows
  BY <1>6 DEF SelectInferred, SelectGroups, AddColumn, Begin, Locked, Die
<1>7. ASSUME Month \/ DryRun \/ UNCHANGED vars PROVE rows' = rows
  BY <1>7 DEF Month, DryRun, vars
<1> QED BY <1>2, <1>3, <1>4, <1>5, <1>6, <1>7 DEF Next, Work

\* What a step does to what the passes have in their hands.
LEMMA HandsStep ==
  ASSUME MemoryAssumption, MInv, CInv, [Next]_vars
  PROVE  HandsGo /\ Cutoffs' /\ time' \in Nat /\ time <= time'
<1>1. /\ pc \in [Passes -> Steps] /\ cutoff \in [Passes -> Int] /\ time \in Nat
      /\ found = [p \in Passes |-> found[p]]
      /\ SupersedeAge \in [Passes -> Nat] /\ CompressAge \in Nat
      /\ \A p \in Passes : pc[p] \in {"compress", "fold"} => cutoff[p] <= time
  BY DEF MInv, Shape, CInv, Cutoffs, MemoryAssumption
<1>2. ASSUME UNCHANGED <<pc, found, cutoff>>, time' \in Nat, time <= time'
      PROVE  HandsGo /\ Cutoffs' /\ time' \in Nat /\ time <= time'
  <2>1. HandsGo
    BY <1>1, <1>2 DEF HandsGo
  <2>2. Cutoffs'
    BY <1>1, <1>2 DEF Cutoffs
  <2> QED BY <1>2, <2>1, <2>2
<1>3. ASSUME NEW p \in Passes, NEW step \in Steps, NEW what, NEW limit \in Int,
             Goto(p, step, what), cutoff' = [cutoff EXCEPT ![p] = limit],
             time' = time,
             step \in {"compress", "fold"} => limit <= time,
             step = "mark" => what = Superseding(cutoff[p]) /\ rows' = rows,
             step = "fold" => /\ limit = cutoff[p]
                              /\ what = Groups(cutoff[p]) /\ rows' = rows
      PROVE  HandsGo /\ Cutoffs' /\ time' \in Nat /\ time <= time'
  <2>1. /\ pc'[p] = step /\ found'[p] = what /\ cutoff'[p] = limit
        /\ \A q \in Passes \ {p} :
             pc'[q] = pc[q] /\ found'[q] = found[q] /\ cutoff'[q] = cutoff[q]
    BY <1>1, <1>3 DEF Goto
  <2>2. HandsGo
    <3> SUFFICES ASSUME NEW q \in Passes
                 PROVE  /\ pc'[q] = "mark" =>
                             \/ pc[q] = "mark" /\ found'[q] = found[q]
                             \/ found'[q] = Superseding(cutoff[q]) /\ rows' = rows
                        /\ pc'[q] = "fold" =>
                             /\ cutoff'[q] = cutoff[q] /\ cutoff[q] <= time
                             /\ \/ pc[q] = "fold" /\ found'[q] = found[q]
                                \/ found'[q] = Groups(cutoff[q]) /\ rows' = rows
      BY DEF HandsGo
    <3>1. CASE q = p
      BY <1>3, <2>1, <3>1
    <3>2. CASE q # p
      BY <1>1, <2>1, <3>2
    <3> QED BY <3>1, <3>2
  <2>3. Cutoffs'
    BY <1>1, <1>3, <2>1 DEF Cutoffs
  <2> QED BY <1>1, <1>3, <2>2, <2>3
<1>4. ASSUME NEW p \in Passes, Begin(p)
      PROVE  HandsGo /\ Cutoffs' /\ time' \in Nat /\ time <= time'
  <2>1. time - SupersedeAge[p] \in Int /\ "supersede" \in Steps
    BY <1>1 DEF Steps
  <2>2. /\ Goto(p, "supersede", {}) /\ time' = time
        /\ cutoff' = [cutoff EXCEPT ![p] = time - SupersedeAge[p]]
    BY <1>4 DEF Begin
  <2> QED BY <1>3, <2>1, <2>2
<1>5. ASSUME NEW p \in Passes, SelectInferred(p) \/ SelectGroups(p)
      PROVE  HandsGo /\ Cutoffs' /\ time' \in Nat /\ time <= time'
  <2>1. cutoff' = [cutoff EXCEPT ![p] = cutoff[p]] /\ cutoff[p] \in Int
    BY <1>1, <1>5 DEF SelectInferred, SelectGroups
  <2>2. time' = time /\ rows' = rows /\ "mark" \in Steps /\ "fold" \in Steps
    BY <1>5 DEF SelectInferred, SelectGroups, Steps
  <2>3. CASE SelectInferred(p)
    <3>1. Goto(p, "mark", Superseding(cutoff[p]))
      BY <2>3 DEF SelectInferred
    <3> QED BY <1>3, <2>1, <2>2, <3>1
  <2>4. CASE SelectGroups(p)
    <3>1. Goto(p, "fold", Groups(cutoff[p])) /\ cutoff[p] <= time
      BY <1>1, <2>4 DEF SelectGroups
    <3> QED BY <1>3, <2>1, <2>2, <3>1
  <2> QED BY <1>5, <2>3, <2>4
<1>6. ASSUME NEW p \in Passes,
             \/ MarkInferred(p) \/ FoldGroups(p) \/ AddColumn(p)
             \/ Locked(p) \/ Die(p)
      PROVE  HandsGo /\ Cutoffs' /\ time' \in Nat /\ time <= time'
  <2>1. time' = time
    BY <1>6 DEF MarkInferred, FoldGroups, AddColumn, Locked, Die
  <2>2. \E step \in {"compress", "alter", "idle"}, limit \in Int :
          /\ Goto(p, step, {}) /\ cutoff' = [cutoff EXCEPT ![p] = limit]
          /\ step = "compress" => limit <= time
    <3>1. time - CompressAge \in Int /\ time - CompressAge <= time
      BY <1>1
    <3>2. ASSUME cutoff' = cutoff PROVE cutoff' = [cutoff EXCEPT ![p] = cutoff[p]]
      BY <1>1, <3>2
    <3>3. cutoff[p] \in Int /\ 0 \in Int
      BY <1>1
    <3>4. CASE \/ pc[p] = "mark" /\ Goto(p, "compress", {})
                  /\ cutoff' = [cutoff EXCEPT ![p] = time - CompressAge]
      BY <3>1, <3>4
    <3>5. CASE \/ Goto(p, "alter", {}) /\ cutoff' = [cutoff EXCEPT ![p] = 0]
               \/ Goto(p, "idle", {}) /\ cutoff' = [cutoff EXCEPT ![p] = 0]
               \/ Goto(p, "idle", {}) /\ cutoff' = cutoff
      BY <3>2, <3>3, <3>5
    <3> QED BY <1>6, <3>4, <3>5 DEF MarkInferred, FoldGroups, AddColumn, Locked, Die
  <2>3. PICK step \in {"compress", "alter", "idle"}, limit \in Int :
          /\ Goto(p, step, {}) /\ cutoff' = [cutoff EXCEPT ![p] = limit]
          /\ step = "compress" => limit <= time
    BY <2>2
  <2>4. step \in Steps
    BY <2>3 DEF Steps
  <2> QED BY <1>3, <2>1, <2>3, <2>4
<1>7. ASSUME \/ \E e \in Entities : Observe(e, "MEASURED") \/ Observe(e, "INFERRED")
             \/ Month \/ DryRun \/ UNCHANGED vars
      PROVE  HandsGo /\ Cutoffs' /\ time' \in Nat /\ time <= time'
  <2>1. UNCHANGED <<pc, found, cutoff>> /\ time' \in Nat /\ time <= time'
    BY <1>1, <1>7 DEF Observe, Month, DryRun, vars
  <2> QED BY <1>2, <2>1
<1> QED BY <1>4, <1>5, <1>6, <1>7 DEF Next, Work

\* The bounds of the rows and the counters.
LEMMA BoundsStep ==
  ASSUME MemoryAssumption, MInv, MInv', CInv, [Next]_vars
  PROVE  Bounds'
<1>1. rows' \in Seq(RowType) /\ Grows /\ Keeps /\ NewRows
  BY RowsGo
<1>2. time' \in Nat /\ time <= time' /\ time \in Nat
  BY HandsStep DEF MInv, Shape
<1>3. /\ MaxPoints \in Nat /\ MaxTime \in Nat /\ MaxFaults \in Nat
      /\ rows \in Seq(RowType) /\ Len(rows) \in Nat /\ Len(rows') \in Nat
      /\ DOMAIN rows = 1..Len(rows) /\ DOMAIN rows' = 1..Len(rows')
  BY <1>1 DEF MemoryAssumption, MInv, Shape
<1>4. \A r \in 1..Len(rows') : rows'[r].at <= time' /\ rows'[r].count <= MaxPoints
  <2> SUFFICES ASSUME NEW r \in 1..Len(rows')
               PROVE  rows'[r].at <= time' /\ rows'[r].count <= MaxPoints
    OBVIOUS
  <2>1. CASE r <= Len(rows)
    <3>1. r \in 1..Len(rows)
      BY <1>3, <2>1
    <3>2. rows[r].at <= time /\ rows[r].count <= MaxPoints
      BY <3>1 DEF CInv, Bounds
    <3>3. rows'[r].at = rows[r].at /\ rows'[r].count = rows[r].count
      BY <1>1, <3>1 DEF Keeps
    <3>4. rows[r].at \in Nat
      <4>1. rows[r] \in RowType
        BY <1>3, <3>1
      <4> QED BY <4>1 DEF RowType
    <3> QED BY <1>2, <3>2, <3>3, <3>4
  <2>2. CASE r > Len(rows)
    <3>1. rows'[r].at = time
      BY <1>1, <2>2 DEF NewRows
    <3>2. rows'[r].count <= MaxPoints
      <4>1. CASE rows'[r].method = "SYNTHESIZED"
        <5>1. PICK p \in Passes :
                pc[p] = "fold" /\ \E g \in found[p] : rows'[r].count = g[2]
          BY <1>1, <2>2, <4>1 DEF NewRows
        <5>2. PICK g \in found[p] : rows'[r].count = g[2]
          BY <5>1
        <5>3. g \in Entities \X (2..MaxPoints)
          BY <5>1 DEF CInv, InHand
        <5> QED BY <1>3, <5>2, <5>3
      <4>2. CASE rows'[r].method # "SYNTHESIZED"
        BY <1>1, <1>3, <2>2, <4>2 DEF NewRows
      <4> QED BY <4>1, <4>2
    <3> QED BY <1>2, <3>1, <3>2
  <2> QED BY <1>3, <2>1, <2>2
<1>5. time' <= MaxTime /\ faults' \in 0..MaxFaults /\ updated' \in BOOLEAN
  <2>1. /\ time <= MaxTime /\ faults \in 0..MaxFaults /\ updated \in BOOLEAN
        /\ time \in Nat
    BY <1>2 DEF CInv, Bounds
  <2>2. CASE Month
    BY <1>3, <2>1, <2>2 DEF Month
  <2>3. CASE DryRun \/ UNCHANGED vars
    BY <2>1, <2>3 DEF DryRun, vars
  <2>4. ASSUME NEW p \in Passes, Locked(p) \/ Die(p)
        PROVE  time' <= MaxTime /\ faults' \in 0..MaxFaults /\ updated' \in BOOLEAN
    <3>1. faults < MaxFaults /\ faults' = faults + 1 /\ UNCHANGED <<time, updated>>
      BY <2>4 DEF Locked, Die
    <3> QED BY <1>3, <2>1, <3>1
  <2>5. ASSUME NEW p \in Passes, Begin(p) \/ Work(p)
        PROVE  time' <= MaxTime /\ faults' \in 0..MaxFaults /\ updated' \in BOOLEAN
    <3>1. UNCHANGED <<time, faults>> /\ (updated' = updated \/ updated' = TRUE)
      BY <2>5 DEF Begin, Work, SelectInferred, MarkInferred, SelectGroups,
                  FoldGroups, AddColumn
    <3> QED BY <2>1, <3>1
  <2>6. ASSUME NEW e \in Entities, Observe(e, "MEASURED") \/ Observe(e, "INFERRED")
        PROVE  time' <= MaxTime /\ faults' \in 0..MaxFaults /\ updated' \in BOOLEAN
    <3>1. UNCHANGED <<time, faults, updated>>
      BY <2>6 DEF Observe
    <3> QED BY <2>1, <3>1
  <2> QED BY <2>2, <2>3, <2>4, <2>5, <2>6 DEF Next
<1>6. Cardinality(Points)' <= MaxPoints
  <2> DEFINE Later == {r \in DOMAIN rows' : rows'[r].method # "SYNTHESIZED"}
  <2>1. Points = {r \in DOMAIN rows : rows[r].method # "SYNTHESIZED"}
        /\ Points' = Later
    BY DEF Points, Is
  <2>2. IsFiniteSet(Points) /\ Cardinality(Points) \in Nat
    BY <2>1, SetsFinite DEF MInv
  <2>3. Cardinality(Points) <= MaxPoints
    BY DEF CInv, Bounds
  <2>4. ASSUME NEW e \in Entities, NEW m \in {"MEASURED", "INFERRED"}, Observe(e, m)
        PROVE  Cardinality(Later) <= MaxPoints
    <3>1. /\ Cardinality(Points) < MaxPoints
          /\ rows' = Append(rows, Row(e, m, time, 0))
      BY <2>4 DEF Observe
    <3>2. Later \subseteq Points \cup {Len(rows) + 1}
      <4>1. Len(rows') = Len(rows) + 1
        BY <1>3, <3>1
      <4>2. \A r \in 1..Len(rows) : rows'[r].method = rows[r].method
        BY <1>1 DEF Grows
      <4> QED BY <1>3, <2>1, <4>1, <4>2
    <3>3. /\ IsFiniteSet(Points \cup {Len(rows) + 1})
          /\ Cardinality(Points \cup {Len(rows) + 1}) <= Cardinality(Points) + 1
          /\ Cardinality(Points \cup {Len(rows) + 1}) \in Nat
      <4>1. /\ IsFiniteSet(Points \cup {Len(rows) + 1})
            /\ \/ Cardinality(Points \cup {Len(rows) + 1}) = Cardinality(Points)
               \/ Cardinality(Points \cup {Len(rows) + 1}) = Cardinality(Points) + 1
        BY <2>2, FS_AddElement
      <4> QED BY <2>2, <4>1
    <3> HIDE DEF Later
    <3>4. Cardinality(Later) <= Cardinality(Points \cup {Len(rows) + 1})
          /\ Cardinality(Later) \in Nat
      BY <3>2, <3>3, FS_Subset, FS_CardinalityType
    <3> QED BY <1>3, <2>2, <3>1, <3>3, <3>4
  <2>5. ASSUME \A r \in 1..Len(rows') : r > Len(rows) => rows'[r].method = "SYNTHESIZED"
        PROVE  Cardinality(Later) <= MaxPoints
    <3>1. Later \subseteq Points
      <4>1. \A r \in 1..Len(rows) : rows'[r].method = rows[r].method
        BY <1>1 DEF Grows
      <4> QED BY <1>3, <2>1, <2>5, <4>1
    <3>2. Cardinality(Later) <= Cardinality(Points) /\ Cardinality(Later) \in Nat
      BY <2>2, <3>1, FS_Subset, FS_CardinalityType
    <3> QED BY <1>3, <2>2, <2>3, <3>2
  <2>6. ASSUME rows' = rows
        PROVE  \A r \in 1..Len(rows') : r > Len(rows) => rows'[r].method = "SYNTHESIZED"
    BY <1>3, <2>6
  <2>7. ASSUME NEW p \in Passes, MarkInferred(p)
        PROVE  \A r \in 1..Len(rows') : r > Len(rows) => rows'[r].method = "SYNTHESIZED"
    <3>1. DOMAIN rows' = DOMAIN rows
      BY <1>3, <2>7 DEF MarkInferred
    <3> QED BY <1>3, <3>1
  <2>8. ASSUME NEW p \in Passes, FoldGroups(p)
        PROVE  \A r \in 1..Len(rows') : r > Len(rows) => rows'[r].method = "SYNTHESIZED"
    BY <2>8, FoldStep
  <2>9. ASSUME NEW p \in Passes,
               \/ SelectInferred(p) \/ SelectGroups(p) \/ AddColumn(p)
               \/ Begin(p) \/ Locked(p) \/ Die(p)
        PROVE  rows' = rows
    BY <2>9 DEF SelectInferred, SelectGroups, AddColumn, Begin, Locked, Die
  <2>10. ASSUME Month \/ DryRun \/ UNCHANGED vars PROVE rows' = rows
    BY <2>10 DEF Month, DryRun, vars
  <2> HIDE DEF Later
  <2>11. Cardinality(Later) <= MaxPoints
    BY <2>4, <2>5, <2>6, <2>7, <2>8, <2>9, <2>10 DEF Next, Work
  <2> QED BY <2>1, <2>11
<1> QED BY <1>4, <1>5, <1>6 DEF Bounds

LEMMA InHandStep ==
  ASSUME MemoryAssumption, MInv, CInv, [Next]_vars
  PROVE  InHand'
<1>1. rows' \in Seq(RowType) /\ Grows /\ Keeps /\ NewRows
  BY RowsGo
<1>2. HandsGo /\ cutoff \in [Passes -> Int]
  BY HandsStep DEF CInv, Cutoffs
<1>3. DOMAIN rows \subseteq DOMAIN rows'
  <2>1. /\ DOMAIN rows = 1..Len(rows) /\ Len(rows) \in Nat
        /\ DOMAIN rows' = 1..Len(rows') /\ Len(rows') \in Nat
    BY <1>1 DEF MInv, Shape
  <2> QED BY <1>1, <2>1 DEF Grows
<1> SUFFICES ASSUME NEW p \in Passes
             PROVE  /\ pc'[p] = "mark" =>
                         found'[p] \subseteq (DOMAIN rows') \X (DOMAIN rows')
                    /\ pc'[p] = "fold" =>
                         \A g \in found'[p] :
                           /\ g \in Entities \X (2..MaxPoints)
                           /\ Cardinality(OldPoints(g[1], cutoff[p])') <= g[2]
  BY DEF InHand
<1>4. ASSUME pc'[p] = "mark"
      PROVE  found'[p] \subseteq (DOMAIN rows') \X (DOMAIN rows')
  <2>1. Superseding(cutoff[p]) \subseteq (DOMAIN rows) \X (DOMAIN rows)
    BY DEF Superseding
  <2>2. pc[p] = "mark" => found[p] \subseteq (DOMAIN rows) \X (DOMAIN rows)
    BY DEF CInv, InHand
  <2>3. found'[p] \subseteq (DOMAIN rows) \X (DOMAIN rows)
    BY <1>2, <1>4, <2>1, <2>2 DEF HandsGo
  <2> QED BY <1>3, <2>3
<1>5. ASSUME pc'[p] = "fold", NEW g \in found'[p]
      PROVE  /\ g \in Entities \X (2..MaxPoints)
             /\ Cardinality(OldPoints(g[1], cutoff[p])') <= g[2]
  <2>1. cutoff'[p] = cutoff[p] /\ cutoff[p] <= time
    BY <1>2, <1>5 DEF HandsGo
  <2>2. /\ g \in Entities \X (2..MaxPoints)
        /\ Cardinality(OldPoints(g[1], cutoff[p])) <= g[2]
    <3>1. CASE pc[p] = "fold" /\ found'[p] = found[p]
      BY <1>5, <3>1 DEF CInv, InHand
    <3>2. CASE found'[p] = Groups(cutoff[p])
      BY <1>5, <3>2, GroupsCounted DEF CInv
    <3> QED BY <1>2, <1>5, <3>1, <3>2 DEF HandsGo
  <2> DEFINE later == StillOld(g[1], cutoff[p])
  <2>3. OldPoints(g[1], cutoff[p])' = later
    BY <2>1 DEF OldPoints, Is, Active, StillOld
  <2>4. /\ Cardinality(later) <= Cardinality(OldPoints(g[1], cutoff[p]))
        /\ Cardinality(later) \in Nat
        /\ Cardinality(OldPoints(g[1], cutoff[p])) \in Nat
    <3>1. cutoff[p] \in Int
      BY <1>2
    <3> QED BY <1>1, <2>1, <3>1, OldShrinks
  <2> HIDE DEF later
  <2>5. g[2] \in Int
    BY <2>2
  <2> QED BY <2>2, <2>3, <2>4, <2>5
<1> QED BY <1>4, <1>5

LEMMA UncountedStep ==
  ASSUME MemoryAssumption, MInv, CInv, [Next]_vars
  PROVE  NothingUncounted'
<1>1. rows' \in Seq(RowType) /\ Grows /\ Keeps /\ NewRows
  BY RowsGo
<1>2. /\ DOMAIN rows = 1..Len(rows) /\ Len(rows) \in Nat
      /\ DOMAIN rows' = 1..Len(rows') /\ Len(rows') \in Nat
      /\ \A r \in 1..Len(rows) : rows[r].by \in Nat /\ rows[r].count \in Nat
  <2>1. rows \in Seq(RowType)
    BY DEF MInv, Shape
  <2>2. \A row \in RowType : row.by \in Nat /\ row.count \in Nat
    BY DEF RowType
  <2> QED BY <1>1, <2>1, <2>2
<1> SUFFICES ASSUME NEW s \in 1..Len(rows'), rows'[s].method = "SYNTHESIZED"
             PROVE  Cardinality({r \in DOMAIN rows' : rows'[r].by = s})
                      <= rows'[s].count
  BY <1>2 DEF NothingUncounted, Is
<1> DEFINE later == {r \in DOMAIN rows' : rows'[r].by = s}
<1>3. \A r \in later : r \in 1..Len(rows)
  <2> SUFFICES ASSUME NEW r \in later PROVE r \in 1..Len(rows)
    OBVIOUS
  <2>1. r \in 1..Len(rows') /\ rows'[r].by # 0
    BY <1>2
  <2>2. r <= Len(rows)
    BY <1>1, <1>2, <2>1 DEF NewRows
  <2> QED BY <1>2, <2>1, <2>2
<1>4. CASE s <= Len(rows)
  <2> DEFINE before == {r \in DOMAIN rows : rows[r].by = s}
  <2>1. /\ s \in 1..Len(rows) /\ rows[s].method = "SYNTHESIZED"
        /\ rows'[s].count = rows[s].count
    <3>1. s \in 1..Len(rows)
      BY <1>2, <1>4
    <3> QED BY <1>1, <3>1 DEF Grows, Keeps
  <2>2. Cardinality(before) <= rows[s].count
    BY <1>2, <2>1 DEF CInv, NothingUncounted, Is
  <2>3. later \subseteq before
    <3> SUFFICES ASSUME NEW r \in later PROVE r \in before
      OBVIOUS
    <3>1. r \in 1..Len(rows) /\ rows'[r].by = s
      BY <1>3
    <3>2. rows[r].by = s
      BY <1>1, <1>2, <1>4, <2>1, <3>1 DEF Keeps
    <3> QED BY <1>2, <3>1, <3>2
  <2>4. IsFiniteSet(before) /\ Cardinality(before) \in Nat
    BY SetsFinite DEF MInv
  <2> HIDE DEF later, before
  <2>5. Cardinality(later) <= Cardinality(before) /\ Cardinality(later) \in Nat
    BY <2>3, <2>4, FS_Subset, FS_CardinalityType
  <2>6. rows[s].count \in Nat
    BY <1>2, <2>1
  <2> QED BY <2>1, <2>2, <2>4, <2>5, <2>6 DEF later
<1>5. CASE s > Len(rows)
  <2>1. PICK p \in Passes :
          pc[p] = "fold" /\ \E g \in found[p] :
            /\ rows'[s].count = g[2]
            /\ \A q \in 1..Len(rows) :
                 rows'[q].by = s => q \in OldPoints(g[1], cutoff[p])
    BY <1>1, <1>5 DEF NewRows
  <2>2. PICK g \in found[p] :
            /\ rows'[s].count = g[2]
            /\ \A q \in 1..Len(rows) :
                 rows'[q].by = s => q \in OldPoints(g[1], cutoff[p])
    BY <2>1
  <2> DEFINE old == OldPoints(g[1], cutoff[p])
  <2>3. Cardinality(old) <= g[2] /\ g[2] \in Int
    BY <2>1 DEF CInv, InHand
  <2>4. later \subseteq old
    BY <1>3, <2>2
  <2>5. IsFiniteSet(old) /\ Cardinality(old) \in Nat
    BY SetsFinite DEF MInv, OldPoints
  <2> HIDE DEF later, old
  <2>6. Cardinality(later) <= Cardinality(old) /\ Cardinality(later) \in Nat
    BY <2>4, <2>5, FS_Subset, FS_CardinalityType
  <2> QED BY <2>2, <2>3, <2>5, <2>6 DEF later
<1> QED BY <1>2, <1>4, <1>5

LEMMA CountsInitial ==
  ASSUME MemoryAssumption, Init PROVE CInv
<1>1. /\ MaxPoints \in Nat /\ MaxTime \in Nat /\ MaxFaults \in Nat
      /\ rows = <<>> /\ Len(rows) = 0 /\ DOMAIN rows = {}
  BY DEF MemoryAssumption, Init
<1>2. Bounds
  <2>1. Points = {} /\ Cardinality(Points) = 0
    BY <1>1, FS_EmptySet DEF Points
  <2> QED BY <1>1, <2>1 DEF Init, Bounds
<1>3. Cutoffs /\ InHand
  BY DEF Init, Cutoffs, InHand
<1>4. NothingUncounted
  BY <1>1 DEF NothingUncounted
<1> QED BY <1>2, <1>3, <1>4 DEF CInv

\* The invariant behind the counts: a group in a pass's hands never has more rows
\* than it counted, for rows recorded since its SELECT are younger than its cutoff
\* and no row becomes active again.
LEMMA CountsHold == Spec => []CInv
<1>1. Init => CInv
  BY CountsInitial, MemoryAssumption
<1>2. MInv /\ MInv' /\ CInv /\ [Next]_vars => CInv'
  <2> SUFFICES ASSUME MInv, MInv', CInv, [Next]_vars PROVE CInv'
    OBVIOUS
  <2> QED BY MemoryAssumption, BoundsStep, HandsStep, InHandStep, UncountedStep DEF CInv
<1> QED BY <1>1, <1>2, LinksHold, PTL DEF Spec

\* A summary never stands for more rows than it says it does, for any number of
\* passes that overlap, time out or die.
THEOREM NothingUncountedHolds == Spec => []NothingUncounted
<1>1. CInv => NothingUncounted
  BY DEF CInv
<1> QED BY <1>1, CountsHold, PTL

\* The types of the table and of what the passes hold of it.
THEOREM MemoryTypeInvariant == Spec => []TypeOK
<1>1. MInv /\ CInv => TypeOK
  <2> SUFFICES ASSUME MInv, CInv PROVE TypeOK
    OBVIOUS
  <2>1. /\ DOMAIN rows = 1..Len(rows) /\ Len(rows) \in Nat /\ time \in Nat
        /\ rows \in Seq(RowType) /\ MaxPoints \in Nat /\ MaxTime \in Nat
    BY MemoryAssumption DEF MInv, Shape, MemoryAssumption
  <2>2. ASSUME NEW r \in DOMAIN rows
        PROVE  /\ rows[r].entity \in Entities /\ rows[r].method \in Methods
               /\ rows[r].at \in 0..time /\ rows[r].by \in 0..Len(rows)
               /\ rows[r].count \in 0..MaxPoints
    <3>1. rows[r] \in RowType
      BY <2>1
    <3>2. rows[r].by # 0 => rows[r].by \in 1..Len(rows)
      BY <2>1 DEF MInv, Links
    <3>3. rows[r].at <= time /\ rows[r].count <= MaxPoints
      BY <2>1 DEF CInv, Bounds
    <3> QED BY <2>1, <3>1, <3>2, <3>3 DEF RowType
  <2>3. \A p \in Passes :
       /\ pc[p] = "mark" => found[p] \subseteq (DOMAIN rows) \X (DOMAIN rows)
       /\ pc[p] = "fold" => found[p] \subseteq Entities \X (2..MaxPoints)
    BY DEF CInv, InHand
  <2> QED BY <2>1, <2>2, <2>3 DEF MInv, Shape, CInv, Bounds, TypeOK
<1> QED BY <1>1, LinksHold, CountsHold, PTL

-----------------------------------------------------------------------------
(* ConflictResolver.                                                       *)

\* What the SELECT of Tier 2 says of a pair that stays true.
Ordered(pair) == pair[1] \in Present /\ pair[2] \in Present /\ pair[1] < pair[2]

\* The order behind resolve_tier2: by priority, then by row.
Beats(w, l) ==
    \/ PriorityOf(w) < PriorityOf(l)
    \/ PriorityOf(w) = PriorityOf(l) /\ w < l

\* A pass works on pairs it has selected.
Held ==
    \A p \in Resolvers :
        /\ job[p].pairs \subseteq job[p].found
        /\ job[p].pair # None => job[p].pair \in job[p].found
        /\ \A pair \in job[p].found : Ordered(pair)

\* Between the two inserts of a pair its event is in the table.
Announced ==
    \A p \in Resolvers :
        job[p].at = "invalidate" /\ Named(job[p].pair) => event[job[p].iri] # None

Ranked ==
    \A r \in log : /\ r.loser \in Present
                   /\ r.winner \in Present
                   /\ Beats(r.winner, r.loser)

-----------------------------------------------------------------------------
(* Operators *)

LEMMA KpisNat == Kpis \subseteq Nat
  BY BoundsNat DEF Kpis

\* NULL counts as the last priority.
LEMMA PriorityNat ==
    ASSUME ResolverTypeOK, NEW k \in Present
    PROVE  PriorityOf(k) \in Nat
<1>1. kpi[k] \in Measurement
  BY RowsTyped DEF ResolverTypeOK, Present
<1>2. CASE kpi[k].method = None
  BY <1>2 DEF PriorityOf, Default
<1>3. CASE kpi[k].method # None
  <2>1. kpi[k].method \in Method
    BY <1>1, <1>3 DEF Measurement
  <2> QED BY <2>1, <1>3 DEF PriorityOf, Method, Priority
<1> QED BY <1>2, <1>3

LEMMA WinnerBeats ==
    ASSUME ResolverTypeOK, NEW pair \in Kpis \X Kpis, Ordered(pair)
    PROVE  /\ Winner(pair) \in Present /\ Loser(pair) \in Present
           /\ Beats(Winner(pair), Loser(pair))
<1>1. PriorityOf(pair[1]) \in Nat /\ PriorityOf(pair[2]) \in Nat
  BY PriorityNat DEF Ordered
<1> QED BY <1>1 DEF Ordered, Winner, Loser, Beats

LEMMA ConflictsOrdered ==
    /\ Conflicts \subseteq Kpis \X Kpis
    /\ \A pair \in Conflicts : Ordered(pair)
  BY DEF Conflicts, Ordered, Present

LEMMA ViolationsNames == ResolverTypeOK => Violations \subseteq Names
  BY DEF ResolverTypeOK, Violations, Names

LEMMA EventsTyped ==
    /\ \A x \in Names : Violation(x) \in Event
    /\ \A pair \in Kpis \X Kpis : Resolution(pair) \in Event
<1>1. ASSUME NEW pair \in Kpis \X Kpis PROVE Resolution(pair) \in Event
  BY DEF Resolution, Event, Names, Winner
<1>2. ASSUME NEW x \in Names PROVE Violation(x) \in Event
  BY DEF Violation, Event
<1> QED BY <1>1, <1>2

LEMMA InsertedType ==
    ASSUME ResolverTypeOK, NEW e \in Event, Inserted(e)
    PROVE  /\ event' \in [Seconds -> Event \cup {None}]
           /\ event'[clock] # None
           /\ \A t \in Seconds : event[t] # None => event'[t] = event[t]
  BY NoneApart DEF ResolverTypeOK, Inserted

LEMMA RecordedType ==
    ASSUME ResolverTypeOK, NEW p \in Resolvers, job[p].at = "invalidate"
    PROVE  /\ job[p].pair \in Kpis \X Kpis
           /\ Recorded(p) \subseteq [loser : Kpis, winner : Kpis, iri : Seconds]
<1>1. job[p].pair \in Kpis \X Kpis
  BY DEF ResolverTypeOK, Job
<1>2. job[p].iri \in Seconds
  BY DEF ResolverTypeOK, Job
<1> QED BY <1>1, <1>2 DEF Recorded, Winner, Loser

-----------------------------------------------------------------------------
(* The type invariant *)

LEMMA ResolverTypeInit == ResolverInit => ResolverTypeOK
<1> SUFFICES ASSUME ResolverInit PROVE ResolverTypeOK
  OBVIOUS
<1>1. 0 \in Seconds
  BY BoundsNat DEF Seconds
<1>2. job \in [Resolvers -> Job]
  BY <1>1 DEF ResolverInit, Job
<1>3. \A p \in Resolvers : job[p].at # "invalidate" /\ job[p].pair = None
  BY DEF ResolverInit
<1> QED BY <1>1, <1>2, <1>3 DEF ResolverInit, ResolverTypeOK

\* The steps of a pass.
LEMMA ResolverTypePass ==
    ASSUME ResolverTypeOK, NEW p \in Resolvers, Pass(p)
    PROVE  ResolverTypeOK'
<1> USE DEF ResolverTypeOK
<1>0. job[p] \in Job
  OBVIOUS
<1>1. CASE Start(p)
  <2>1. Violations \subseteq Names
    BY ViolationsNames
  <2>2. job' \in [Resolvers -> Job]
    BY <1>1, <2>1, <1>0 DEF Start, Job
  <2> QED BY <1>1, <2>2 DEF Start, tables, world
<1>2. CASE Escalate(p)
  <2> PICK x \in job[p].rows :
        /\ Inserted(Violation(x))
        /\ job' = [job EXCEPT ![p].rows = @ \ {x}]
    BY <1>2 DEF Escalate
  <2>1. Violation(x) \in Event
    BY EventsTyped, <1>0 DEF Job
  <2>2. event' \in [Seconds -> Event \cup {None}]
    BY <2>1, InsertedType
  <2>3. job' \in [Resolvers -> Job]
    BY <1>0 DEF Job
  <2> QED BY <1>2, <2>2, <2>3 DEF Escalate, world
<1>3. CASE Select(p)
  <2>1. job' \in [Resolvers -> Job]
    BY <1>3, <1>0, ConflictsOrdered DEF Select, Job
  <2> QED BY <1>3, <2>1 DEF Select, tables, world
<1>4. CASE Resolve(p)
  <2> PICK pair \in job[p].pairs :
        /\ IF Named(pair) THEN Inserted(Resolution(pair)) ELSE UNCHANGED event
        /\ job' = [job EXCEPT ![p].at = "invalidate", ![p].pair = pair,
                              ![p].pairs = @ \ {pair}, ![p].iri = clock]
    BY <1>4 DEF Resolve
  <2>1. pair \in Kpis \X Kpis /\ pair # None
    BY <1>0, NoneApart DEF Job
  <2>2. event' \in [Seconds -> Event \cup {None}]
    <3>1. CASE Named(pair)
      BY <3>1, <2>1, EventsTyped, InsertedType
    <3> QED BY <3>1
  <2>3. job' \in [Resolvers -> Job]
    BY <1>0, <2>1 DEF Job
  <2> QED BY <1>4, <2>1, <2>2, <2>3 DEF Resolve, world
<1>5. CASE Invalidate(p)
  <2>1. log' \subseteq [loser : Kpis, winner : Kpis, iri : Seconds]
    BY <1>5, RecordedType DEF Invalidate
  <2>2. job' \in [Resolvers -> Job]
    BY <1>5, <1>0 DEF Invalidate, Job
  <2> QED BY <1>5, <2>1, <2>2 DEF Invalidate, world
<1>6. CASE Raise(p)
  <2>1. job' \in [Resolvers -> Job]
    BY <1>6, <1>0 DEF Raise, Job
  <2> QED BY <1>6, <2>1 DEF Raise, tables, world
<1>7. CASE Report(p)
  <2>1. job' \in [Resolvers -> Job]
    BY <1>7, <1>0 DEF Report, Job
  <2> QED BY <1>7, <2>1 DEF Report, tables, world
<1>8. CASE Crash(p)
  <2>1. job' \in [Resolvers -> Job]
    BY <1>8, <1>0 DEF Crash, Job
  <2> QED BY <1>8, <2>1 DEF Crash, tables, world
<1> QED
  BY <1>1, <1>2, <1>3, <1>4, <1>5, <1>6, <1>7, <1>8 DEF Pass

LEMMA ResolverTypeNext == ResolverTypeOK /\ [ResolverNext]_resolverVars => ResolverTypeOK'
<1> SUFFICES ASSUME ResolverTypeOK, [ResolverNext]_resolverVars PROVE ResolverTypeOK'
  OBVIOUS
<1>1. CASE \E p \in Resolvers : Pass(p)
  BY <1>1, ResolverTypePass
<1>2. ASSUME NEW t \in Seconds, EscalateToHuman(t) PROVE ResolverTypeOK'
  <2>1. event[t] \in Event /\ event' = [event EXCEPT ![t].status = "Escalated"]
    BY <1>2 DEF EscalateToHuman, ResolverTypeOK
  <2>2. event' \in [Seconds -> Event \cup {None}]
    BY <2>1 DEF ResolverTypeOK, Event
  <2> QED BY <1>2, <2>2 DEF EscalateToHuman, ResolverTypeOK, world
<1>3. CASE Measure
  BY <1>3 DEF Measure, ResolverTypeOK, tables
<1>4. ASSUME NEW x \in Subjects, Change(x) PROVE ResolverTypeOK'
  BY <1>4 DEF Change, ResolverTypeOK, tables
<1>5. CASE Tick
  BY <1>5, BoundsNat DEF Tick, ResolverTypeOK, tables, Seconds
<1>6. CASE UNCHANGED resolverVars
  BY <1>6 DEF resolverVars, ResolverTypeOK
<1> QED BY <1>1, <1>2, <1>3, <1>4, <1>5, <1>6 DEF ResolverNext

\* The tables, the measurements and what each pass holds of them keep their
\* types, and a pass holds a pair only between the two inserts of
\* run_conflict_resolution, for any passes and bounds.
THEOREM ResolverTypeInvariant == ResolverSpec => []ResolverTypeOK
  BY ResolverTypeInit, ResolverTypeNext, PTL DEF ResolverSpec

-----------------------------------------------------------------------------
(* What no step undoes *)

\* Measurements and events stay, and so does what a pair means.
LEMMA Kept ==
    ASSUME ResolverTypeOK, [ResolverNext]_resolverVars
    PROVE  /\ \A k \in Present : kpi'[k] = kpi[k] /\ k \in Present'
           /\ \A t \in Seconds : event[t] # None
                => /\ event'[t] # None
                   /\ event'[t].a = event[t].a /\ event'[t].b = event[t].b
                   /\ event'[t].winner = event[t].winner
           /\ log \subseteq log'
<1> DEFINE Same == \A t \in Seconds : event[t] # None
                     => /\ event'[t] # None
                        /\ event'[t].a = event[t].a /\ event'[t].b = event[t].b
                        /\ event'[t].winner = event[t].winner
<1> DEFINE Stays == \A k \in Present : kpi'[k] = kpi[k] /\ k \in Present'
<1>a. UNCHANGED kpi => Stays
  BY DEF Present
<1>b. UNCHANGED event => Same
  OBVIOUS
<1>c. \A e \in Event : Inserted(e) => Same
  BY InsertedType
<1> HIDE DEF Same, Stays
<1>1. ASSUME NEW p \in Resolvers, Pass(p) PROVE Stays /\ Same /\ log \subseteq log'
  <2>1. UNCHANGED kpi
    BY <1>1 DEF Pass, Start, Escalate, Select, Resolve, Invalidate, Raise, Report,
                Crash, world
  <2>2. log \subseteq log'
    BY <1>1 DEF Pass, Start, Escalate, Select, Resolve, Invalidate, Raise, Report,
                Crash, tables
  <2>3. Same
    <3>1. CASE Escalate(p)
      <4>1. \A x \in job[p].rows : Violation(x) \in Event
        BY EventsTyped DEF ResolverTypeOK, Job
      <4> QED BY <3>1, <4>1, <1>c DEF Escalate
    <3>2. CASE Resolve(p)
      <4>1. \A pair \in job[p].pairs : Resolution(pair) \in Event
        BY EventsTyped DEF ResolverTypeOK, Job
      <4> QED BY <3>2, <4>1, <1>b, <1>c DEF Resolve
    <3>3. CASE Start(p) \/ Select(p) \/ Invalidate(p) \/ Raise(p) \/ Report(p) \/ Crash(p)
      BY <3>3, <1>b DEF Start, Select, Invalidate, Raise, Report, Crash, tables
    <3> QED BY <1>1, <3>1, <3>2, <3>3 DEF Pass
  <2> QED BY <2>1, <2>2, <2>3, <1>a
<1>2. ASSUME NEW t \in Seconds, EscalateToHuman(t)
      PROVE  Stays /\ Same /\ log \subseteq log'
  <2>1. event[t] \in Event /\ event' = [event EXCEPT ![t].status = "Escalated"]
    BY <1>2 DEF EscalateToHuman, ResolverTypeOK
  <2>2. event'[t] \in Event /\ event'[t].a = event[t].a /\ event'[t].b = event[t].b
        /\ event'[t].winner = event[t].winner
    BY <2>1 DEF ResolverTypeOK, Event
  <2>3. event'[t] # None
    BY <2>2, NoneApart
  <2>4. \A u \in Seconds \ {t} : event'[u] = event[u]
    BY <2>1 DEF ResolverTypeOK
  <2>5. Same
    BY <2>2, <2>3, <2>4 DEF Same
  <2> QED BY <1>2, <2>5, <1>a DEF EscalateToHuman, world
<1>3. ASSUME Measure PROVE Stays /\ Same /\ log \subseteq log'
  <2>1. Stays
    BY <1>3, NoneIsNothing DEF Measure, Stays, Present, ResolverTypeOK
  <2> QED BY <1>3, <2>1, <1>b DEF Measure, tables
<1>4. ASSUME NEW x \in Subjects, Change(x) PROVE Stays /\ Same /\ log \subseteq log'
  BY <1>4, <1>a, <1>b DEF Change, tables
<1>5. ASSUME Tick PROVE Stays /\ Same /\ log \subseteq log'
  BY <1>5, <1>a, <1>b DEF Tick, tables
<1>6. ASSUME UNCHANGED resolverVars PROVE Stays /\ Same /\ log \subseteq log'
  BY <1>6, <1>a, <1>b DEF resolverVars
<1>7. Stays /\ Same /\ log \subseteq log'
  BY <1>1, <1>2, <1>3, <1>4, <1>5, <1>6 DEF ResolverNext
<1> QED BY <1>7 DEF Stays, Same

\* run_conflict_resolution leaves an event as it is when its second is given
\* to another one.
THEOREM EventsKeptHolds == ResolverSpec => EventsKept
<1>1. ResolverTypeOK /\ [ResolverNext]_resolverVars
      => [\A t \in Seconds :
            event[t] # None
            => /\ event'[t] # None
               /\ event'[t].a = event[t].a /\ event'[t].b = event[t].b
               /\ event'[t].winner = event[t].winner]_resolverVars
  BY Kept
<1> QED BY <1>1, ResolverTypeInvariant, PTL DEF ResolverSpec, EventsKept

\* An ordered pair keeps its winner, its loser and their order.
LEMMA PairsKept ==
    ASSUME ResolverTypeOK, [ResolverNext]_resolverVars, NEW pair \in Kpis \X Kpis, Ordered(pair)
    PROVE  /\ Ordered(pair)'
           /\ Winner(pair)' = Winner(pair) /\ Loser(pair)' = Loser(pair)
           /\ Named(pair)' = Named(pair)
  BY Kept DEF Ordered, Winner, Loser, Named, PriorityOf

LEMMA BeatsKept ==
    ASSUME ResolverTypeOK, [ResolverNext]_resolverVars, NEW w \in Present, NEW l \in Present, Beats(w, l)
    PROVE  Beats(w, l)'
  BY Kept DEF Beats, PriorityOf

-----------------------------------------------------------------------------
(* The inductive invariant *)

ResolverInv ==
    ResolverTypeOK /\ Held /\ Announced /\ InvalidationHasEvent /\ Ranked /\ NothingSkipped

\* A pass is moved by its own steps only, which measure nothing.
LEMMA OwnSteps ==
    ASSUME ResolverTypeOK, [ResolverNext]_resolverVars, NEW q \in Resolvers
    PROVE  job'[q] = job[q] \/ (Pass(q) /\ UNCHANGED kpi)
<1>1. ASSUME NEW p \in Resolvers, Pass(p)
      PROVE  job'[q] = job[q] \/ (Pass(q) /\ UNCHANGED kpi)
  <2>1. UNCHANGED kpi
    BY <1>1 DEF Pass, Start, Escalate, Select, Resolve, Invalidate, Raise, Report,
                Crash, world
  <2>2. p # q => job'[q] = job[q]
    BY <1>1 DEF ResolverTypeOK, Pass, Start, Escalate, Select, Resolve, Invalidate, Raise,
                Report, Crash
  <2> QED BY <1>1, <2>1, <2>2
<1>2. CASE ~ \E p \in Resolvers : Pass(p)
  BY <1>2 DEF ResolverNext, EscalateToHuman, Measure, Change, Tick, resolverVars
<1> QED BY <1>1, <1>2

\* Only record_invalidation writes the log.
LEMMA LogSteps ==
    ASSUME [ResolverNext]_resolverVars
    PROVE  log' = log \/ \E p \in Resolvers : Invalidate(p)
  BY DEF ResolverNext, Pass, Start, Escalate, Select, Resolve, Raise, Report, Crash,
         EscalateToHuman, Measure, Change, Tick, tables, resolverVars

LEMMA ResolverInvInit == ResolverInit => ResolverInv
<1> SUFFICES ASSUME ResolverInit PROVE ResolverInv
  OBVIOUS
<1>1. \A p \in Resolvers : job[p] = [at |-> "new", rows |-> {}, pairs |-> {},
                                  found |-> {}, pair |-> None, iri |-> 0]
  BY DEF ResolverInit
<1>2. Held /\ Announced /\ NothingSkipped
  BY <1>1 DEF Held, Announced, NothingSkipped
<1>3. InvalidationHasEvent /\ Ranked
  BY DEF ResolverInit, InvalidationHasEvent, Ranked
<1> QED BY <1>2, <1>3, ResolverTypeInit DEF ResolverInv

LEMMA HeldNext == ASSUME ResolverInv, [ResolverNext]_resolverVars PROVE Held'
<1> USE DEF ResolverInv
<1> SUFFICES ASSUME NEW q \in Resolvers
             PROVE  /\ job'[q].pairs \subseteq job'[q].found
                    /\ job'[q].pair # None => job'[q].pair \in job'[q].found
                    /\ \A pair \in job'[q].found : Ordered(pair)'
  BY DEF Held
<1>1. job[q] \in Job /\ job[q].found \subseteq Kpis \X Kpis
  BY DEF ResolverTypeOK, Job
<1>2. \A pair \in job[q].found : Ordered(pair)'
  BY <1>1, PairsKept DEF Held
<1>3. CASE job'[q] = job[q]
  BY <1>2, <1>3 DEF Held
<1>4. CASE Pass(q) /\ UNCHANGED kpi
  <2>1. CASE Select(q)
    <3>1. \A pair \in Conflicts : Ordered(pair)'
      BY ConflictsOrdered, PairsKept
    <3>2. job'[q].pairs = Conflicts /\ job'[q].found = Conflicts
          /\ job'[q].pair = job[q].pair /\ job[q].at = "tier1"
      BY <2>1, <1>1 DEF Select, ResolverTypeOK
    <3>3. job[q].pair = None
      BY <3>2 DEF ResolverTypeOK
    <3> QED BY <3>1, <3>2, <3>3
  <2>2. CASE Resolve(q)
    <3> PICK pair \in job[q].pairs :
          job' = [job EXCEPT ![q].at = "invalidate", ![q].pair = pair,
                             ![q].pairs = @ \ {pair}, ![q].iri = clock]
      BY <2>2 DEF Resolve
    <3>1. job'[q].pairs = job[q].pairs \ {pair} /\ job'[q].pair = pair
          /\ job'[q].found = job[q].found
      BY <1>1 DEF ResolverTypeOK, Job
    <3> QED BY <3>1, <1>2 DEF Held
  <2>3. CASE Start(q) \/ Escalate(q) \/ Invalidate(q) \/ Raise(q) \/ Report(q) \/ Crash(q)
    <3>1. job'[q].pairs = job[q].pairs /\ job'[q].found = job[q].found
          /\ (job'[q].pair = job[q].pair \/ job'[q].pair = None)
      BY <2>3, <1>1 DEF ResolverTypeOK, Job, Start, Escalate, Invalidate, Raise, Report, Crash
    <3> QED BY <3>1, <1>2 DEF Held
  <2> QED BY <1>4, <2>1, <2>2, <2>3 DEF Pass
<1> QED BY <1>3, <1>4, OwnSteps

LEMMA AnnouncedNext == ASSUME ResolverInv, [ResolverNext]_resolverVars PROVE Announced'
<1> USE DEF ResolverInv
<1> SUFFICES ASSUME NEW q \in Resolvers, job'[q].at = "invalidate",
                    kpi'[job'[q].pair[1]].named, kpi'[job'[q].pair[2]].named
             PROVE  event'[job'[q].iri] # None
  BY DEF Announced, Named
<1>1. job[q] \in Job
  BY DEF ResolverTypeOK
<1>2. CASE job'[q] = job[q]
  <2>1. job[q].pair \in job[q].found /\ job[q].pair \in Kpis \X Kpis
    BY <1>1, <1>2 DEF Held, ResolverTypeOK, Job
  <2>2. Ordered(job[q].pair)
    BY <2>1 DEF Held
  <2>3. Named(job[q].pair)
    BY <1>2, <2>2, Kept DEF Named, Ordered
  <2>4. event[job[q].iri] # None
    BY <1>2, <2>3 DEF Announced
  <2> QED BY <1>1, <1>2, <2>4, Kept DEF Job
<1>3. CASE Pass(q) /\ UNCHANGED kpi
  <2>1. CASE Resolve(q)
    <3> PICK pair \in job[q].pairs :
          /\ IF Named(pair) THEN Inserted(Resolution(pair)) ELSE UNCHANGED event
          /\ job' = [job EXCEPT ![q].at = "invalidate", ![q].pair = pair,
                                ![q].pairs = @ \ {pair}, ![q].iri = clock]
      BY <2>1 DEF Resolve
    <3>1. job'[q].pair = pair /\ job'[q].iri = clock
      BY <1>1 DEF ResolverTypeOK, Job
    <3>2. Named(pair)
      BY <3>1, <1>3 DEF Named
    <3>3. Resolution(pair) \in Event
      BY <1>1, EventsTyped DEF Job
    <3> QED BY <3>1, <3>2, <3>3, InsertedType
  <2>2. CASE Start(q) \/ Escalate(q) \/ Select(q) \/ Invalidate(q) \/ Raise(q)
               \/ Report(q) \/ Crash(q)
    <3>1. job'[q].at # "invalidate"
      BY <2>2, <1>1 DEF ResolverTypeOK, Job, Start, Escalate, Select, Invalidate, Raise,
                        Report, Crash
    <3> QED BY <3>1
  <2> QED BY <1>3, <2>1, <2>2 DEF Pass
<1> QED BY <1>2, <1>3, OwnSteps

LEMMA HasEventNext == ASSUME ResolverInv, [ResolverNext]_resolverVars PROVE InvalidationHasEvent'
<1> USE DEF ResolverInv
<1> SUFFICES ASSUME NEW r \in log' PROVE event'[r.iri] # None
  BY DEF InvalidationHasEvent
<1>1. CASE r \in log
  BY <1>1, Kept DEF InvalidationHasEvent, ResolverTypeOK
<1>2. CASE r \notin log
  <2> PICK p \in Resolvers : Invalidate(p)
    BY <1>2, LogSteps
  <2>1. job[p].at = "invalidate" /\ Named(job[p].pair) /\ r \in Recorded(p)
        /\ UNCHANGED event
    BY <1>2 DEF Invalidate
  <2>2. r.iri = job[p].iri
    BY <2>1 DEF Recorded
  <2> QED BY <2>1, <2>2 DEF Announced
<1> QED BY <1>1, <1>2

LEMMA RankedNext == ASSUME ResolverInv, [ResolverNext]_resolverVars PROVE Ranked'
<1> USE DEF ResolverInv
<1> SUFFICES ASSUME NEW r \in log'
             PROVE  /\ r.loser \in Present' /\ r.winner \in Present'
                    /\ Beats(r.winner, r.loser)'
  BY DEF Ranked
<1>1. r.loser \in Present /\ r.winner \in Present /\ Beats(r.winner, r.loser)
  <2>1. CASE r \in log
    BY <2>1 DEF Ranked
  <2>2. CASE r \notin log
    <3> PICK p \in Resolvers : Invalidate(p)
      BY <2>2, LogSteps
    <3>1. job[p].at = "invalidate" /\ r \in Recorded(p)
      BY <2>2 DEF Invalidate
    <3>2. r.loser = Loser(job[p].pair) /\ r.winner = Winner(job[p].pair)
      BY <3>1 DEF Recorded
    <3>3. job[p].pair # None /\ job[p].pair \in Kpis \X Kpis
      BY <3>1, RecordedType DEF ResolverTypeOK
    <3>4. Ordered(job[p].pair)
      BY <3>3 DEF Held
    <3> QED BY <3>2, <3>3, <3>4, WinnerBeats
  <2> QED BY <2>1, <2>2
<1> QED BY <1>1, Kept, BeatsKept

\* The pairs a pass is through with.
Through(p) == job[p].found \ (job[p].pairs \cup {job[p].pair})

LEMMA SkippedNext == ASSUME ResolverInv, [ResolverNext]_resolverVars PROVE NothingSkipped'
<1> USE DEF ResolverInv
<1> SUFFICES ASSUME NEW q \in Resolvers,
                    job'[q].at \in {"tier2", "invalidate", "reported"},
                    NEW pair \in job'[q].found \ (job'[q].pairs \cup {job'[q].pair})
             PROVE  \E r \in log' : r.loser = Loser(pair)' /\ r.winner = Winner(pair)'
  BY DEF NothingSkipped
<1>0. job[q] \in Job
  BY DEF ResolverTypeOK
<1>1. ASSUME pair \in Through(q), job[q].at \in {"tier2", "invalidate", "reported"}
      PROVE  \E r \in log' : r.loser = Loser(pair)' /\ r.winner = Winner(pair)'
  <2>1. \E r \in log : r.loser = Loser(pair) /\ r.winner = Winner(pair)
    BY <1>1 DEF NothingSkipped, Through
  <2>2. pair \in Kpis \X Kpis /\ Ordered(pair)
    BY <1>0, <1>1 DEF Through, Held, Job
  <2> QED BY <2>1, <2>2, PairsKept, Kept
<1>2. CASE job'[q] = job[q]
  BY <1>1, <1>2 DEF Through
<1>3. CASE Pass(q) /\ UNCHANGED kpi
  <2>1. CASE Select(q)
    <3>1. job'[q].found = job'[q].pairs
      BY <2>1, <1>0 DEF Select, ResolverTypeOK, Job
    <3> QED BY <3>1
  <2>2. CASE Resolve(q)
    <3> PICK x \in job[q].pairs :
          job' = [job EXCEPT ![q].at = "invalidate", ![q].pair = x,
                             ![q].pairs = @ \ {x}, ![q].iri = clock]
      BY <2>2 DEF Resolve
    <3>1. job'[q].found = job[q].found /\ job'[q].pairs = job[q].pairs \ {x}
          /\ job'[q].pair = x
      BY <1>0 DEF ResolverTypeOK, Job
    <3>2. job[q].at = "tier2" /\ job[q].pair = None
      BY <2>2 DEF Resolve, ResolverTypeOK
    <3>3. pair \in job[q].found /\ pair \notin job[q].pairs
      BY <3>1
    <3>4. pair # None
      BY <3>3, <1>0, NoneApart DEF Job
    <3> QED BY <3>2, <3>3, <3>4, <1>1 DEF Through
  <2>3. CASE Invalidate(q)
    <3>1. job'[q].found = job[q].found /\ job'[q].pairs = job[q].pairs
          /\ job[q].at = "invalidate" /\ log' = log \cup Recorded(q)
      BY <2>3, <1>0 DEF Invalidate, ResolverTypeOK, Job
    <3>2. CASE pair = job[q].pair
      <4>1. Loser(pair)' = Loser(pair) /\ Winner(pair)' = Winner(pair)
        BY <1>3 DEF Loser, Winner, PriorityOf
      <4>2. [loser |-> Loser(pair), winner |-> Winner(pair), iri |-> job[q].iri]
              \in Recorded(q)
        BY <3>2 DEF Recorded
      <4> QED BY <3>1, <4>1, <4>2
    <3>3. CASE pair # job[q].pair
      BY <3>1, <3>3, <1>1 DEF Through
    <3> QED BY <3>2, <3>3
  <2>4. CASE Report(q)
    <3>1. job'[q].found = job[q].found /\ job'[q].pairs = job[q].pairs
          /\ job'[q].pair = job[q].pair /\ job[q].at = "tier2"
      BY <2>4, <1>0 DEF Report, ResolverTypeOK, Job
    <3> QED BY <3>1, <1>1 DEF Through
  <2>5. CASE Start(q) \/ Escalate(q) \/ Raise(q) \/ Crash(q)
    <3>1. job'[q].at \in {"tier1", "failed"}
      BY <2>5, <1>0 DEF ResolverTypeOK, Job, Start, Escalate, Raise, Crash
    <3> QED BY <3>1
  <2> QED BY <1>3, <2>1, <2>2, <2>3, <2>4, <2>5 DEF Pass
<1> QED BY <1>2, <1>3, OwnSteps

LEMMA ResolverInductive == ResolverSpec => []ResolverInv
<1>1. ResolverInv /\ [ResolverNext]_resolverVars => ResolverInv'
  BY ResolverTypeNext, HeldNext, AnnouncedNext, HasEventNext, RankedNext, SkippedNext
  DEF ResolverInv
<1> QED BY <1>1, ResolverInvInit, PTL DEF ResolverSpec

\* Every row record_invalidation writes names an event in tmf_conflict_event,
\* though the two inserts are committed apart.
THEOREM HasEventHolds == ResolverSpec => []InvalidationHasEvent
<1>1. ResolverInv => InvalidationHasEvent
  BY DEF ResolverInv
<1> QED BY <1>1, ResolverInductive, PTL

\* A pass that reports has invalidated the loser of every pair it selected,
\* whatever became of the event.
THEOREM NothingSkippedHolds == ResolverSpec => []NothingSkipped
<1>1. ResolverInv => NothingSkipped
  BY DEF ResolverInv
<1> QED BY <1>1, ResolverInductive, PTL

-----------------------------------------------------------------------------
(* A measurement is left *)

LEMMA SmallestNat ==
    ASSUME NEW T \in SUBSET Nat, T # {}
    PROVE  \E m \in T : \A n \in T : ~ (n < m)
<1>1. \E m \in T : \A n \in T : <<n, m>> \notin OpToRel(<, Nat)
  BY NatLessThanWellFounded, WFMin
<1> QED BY <1>1 DEF OpToRel

\* Of the measurements with the first priority, the first row is beaten by none.
LEMMA FirstUnbeaten ==
    ASSUME ResolverTypeOK, NEW S \in SUBSET Present, S # {}
    PROVE  \E k \in S : \A w \in S : ~ Beats(w, k)
<1> DEFINE Ranks == {PriorityOf(k) : k \in S}
<1>1. Ranks \in SUBSET Nat /\ Ranks # {}
  BY PriorityNat
<1>2. PICK m \in Ranks : \A n \in Ranks : ~ (n < m)
  <2> HIDE DEF Ranks
  <2> QED BY <1>1, SmallestNat
<1> DEFINE Best == {k \in S : PriorityOf(k) = m}
<1>3. Best \in SUBSET Nat /\ Best # {}
  BY KpisNat DEF Present
<1>4. PICK k \in Best : \A j \in Best : ~ (j < k)
  <2> HIDE DEF Best, Ranks
  <2> QED BY <1>3, SmallestNat
<1>5. ASSUME NEW w \in S, Beats(w, k) PROVE FALSE
  <2>1. PriorityOf(k) = m /\ ~ (PriorityOf(w) < m)
    BY <1>2, <1>4
  <2>2. PriorityOf(w) = m /\ w < k
    BY <2>1, <1>5 DEF Beats
  <2> QED BY <2>2, <1>4
<1> QED BY <1>4, <1>5

\* Among any measurements one is left that resolve_tier2 let none of the others
\* win over, whatever passes overlapped and whatever was measured between them.
THEOREM SurvivorHolds == ResolverSpec => []SurvivorLeft
<1>1. ASSUME ResolverInv PROVE SurvivorLeft
  <2> SUFFICES ASSUME NEW S \in SUBSET Kpis, S # {}
               PROVE  \E k \in S : \A r \in log : r.loser = k => r.winner \notin S
    BY DEF SurvivorLeft
  <2>1. CASE S \subseteq Present
    <3> PICK k \in S : \A w \in S : ~ Beats(w, k)
      BY <1>1, <2>1, FirstUnbeaten DEF ResolverInv
    <3> QED BY <1>1 DEF ResolverInv, Ranked
  <2>2. CASE ~ (S \subseteq Present)
    <3> PICK k \in S : k \notin Present
      BY <2>2
    <3> QED BY <1>1 DEF ResolverInv, Ranked
  <2> QED BY <2>1, <2>2
<1> QED BY <1>1, ResolverInductive, PTL

-----------------------------------------------------------------------------
(* What consolidation comes to *)

\* A step in which no month passes, no observation is recorded and no pass fails.
Quiet == time' = time /\ faults' = faults /\ Points' = Points

\* Both inductive invariants of memory.
MemInv == MInv /\ CInv

\* In such a step a pass stands still, unless the step is its own; and the
\* column updated_at, once there, stays.
LEMMA QuietStep ==
  ASSUME MemoryAssumption, MemInv, [Next]_vars, [Quiet]_vars, NEW p \in Passes
  PROVE  /\ updated => updated'
         /\ \/ /\ pc'[p] = pc[p] /\ found'[p] = found[p] /\ cutoff'[p] = cutoff[p]
            \/ Begin(p)
            \/ Work(p)
<1>1. /\ pc \in [Passes -> Steps] /\ cutoff \in [Passes -> Int]
      /\ found = [q \in Passes |-> found[q]] /\ faults \in Nat
  BY DEF MemInv, MInv, Shape, CInv, Cutoffs, Bounds, MemoryAssumption
<1>2. updated => updated'
  BY DEF Next, Observe, Month, DryRun, Begin, Work, SelectInferred, MarkInferred,
         SelectGroups, FoldGroups, AddColumn, Locked, Die, vars
<1>3. ASSUME NEW q \in Passes, Begin(q) \/ Work(q), q # p
      PROVE  pc'[p] = pc[p] /\ found'[p] = found[p] /\ cutoff'[p] = cutoff[p]
  <2>1. PICK step, what : Goto(q, step, what)
    BY <1>3 DEF Begin, Work, SelectInferred, MarkInferred, SelectGroups, FoldGroups, AddColumn
  <2>2. cutoff' = cutoff \/ \E limit : cutoff' = [cutoff EXCEPT ![q] = limit]
    BY <1>3 DEF Begin, Work, SelectInferred, MarkInferred, SelectGroups, FoldGroups, AddColumn
  <2> QED BY <1>1, <1>3, <2>1, <2>2 DEF Goto
<1>4. ASSUME NEW q \in Passes, Locked(q) \/ Die(q) PROVE FALSE
  BY <1>1, <1>4 DEF Locked, Die, Quiet, vars
<1>5. ASSUME Month \/ DryRun \/ UNCHANGED vars \/
             \E e \in Entities, m \in Methods : Observe(e, m)
      PROVE  pc'[p] = pc[p] /\ found'[p] = found[p] /\ cutoff'[p] = cutoff[p]
  BY <1>5 DEF Month, DryRun, Observe, vars
<1> QED BY <1>2, <1>3, <1>4, <1>5 DEF Next, Methods

\* The order of the steps of a pass.
After(step) ==
  CASE step = "idle" -> "supersede" [] step = "supersede" -> "mark"
    [] step = "mark" -> "compress"  [] step = "compress" -> "fold"
    [] step = "fold" -> "alter"     [] step = "alter" -> "idle"

\* A step of a pass takes it to the next place; its last adds the column.
LEMMA OwnStep ==
  ASSUME MemInv, NEW p \in Passes, Begin(p) \/ Work(p)
  PROVE  /\ pc'[p] = After(pc[p])
         /\ pc[p] = "alter" => updated'
<1>1. pc \in [Passes -> Steps]
  BY DEF MemInv, MInv, Shape
<1>2. CASE Begin(p)
  BY <1>1, <1>2 DEF Begin, Goto, After, Steps
<1>3. CASE SelectInferred(p)
  BY <1>1, <1>3 DEF SelectInferred, Goto, After, Steps
<1>4. CASE MarkInferred(p)
  BY <1>1, <1>4 DEF MarkInferred, Goto, After, Steps
<1>5. CASE SelectGroups(p)
  BY <1>1, <1>5 DEF SelectGroups, Goto, After, Steps
<1>6. CASE FoldGroups(p)
  BY <1>1, <1>6 DEF FoldGroups, Goto, After, Steps
<1>7. CASE AddColumn(p)
  BY <1>1, <1>7 DEF AddColumn, Goto, After, Steps
<1> QED BY <1>2, <1>3, <1>4, <1>5, <1>6, <1>7 DEF Work

\* A pair that supersession is to mark, in the present table.
Stale(p, i, m) ==
  /\ Is(i, "INFERRED") /\ Is(m, "MEASURED")
  /\ rows[m].entity = rows[i].entity
  /\ rows[m].at > rows[i].at
  /\ rows[i].at < time - SupersedeAge[p]
  /\ Active(i)

\* A pass that marks has every such pair in its hands.
Covered(p) == \A i, m \in DOMAIN rows : Stale(p, i, m) => <<i, m>> \in found[p]

\* While nothing is recorded, a pair that is stale after a step was so before.
LEMMA StaleBefore ==
  ASSUME MemoryAssumption, MemInv, [Next]_vars, [Quiet]_vars, NEW p \in Passes,
         NEW i \in DOMAIN rows', NEW m \in DOMAIN rows', Stale(p, i, m)'
  PROVE  i \in DOMAIN rows /\ m \in DOMAIN rows /\ Stale(p, i, m)
<1>1. rows' \in Seq(RowType) /\ Grows /\ Keeps
  BY RowsGo DEF MemInv
<1>2. /\ DOMAIN rows = 1..Len(rows) /\ Len(rows) \in Nat
      /\ DOMAIN rows' = 1..Len(rows')
  BY <1>1 DEF MemInv, MInv, Shape
<1>3. time' = time /\ Points' = Points
  BY DEF Quiet, vars, Points, Is
<1>4. i \in Points' /\ m \in Points'
  BY DEF Stale, Points, Is
<1>5. i \in 1..Len(rows) /\ m \in 1..Len(rows)
  BY <1>2, <1>3, <1>4 DEF Points
<1>6. /\ rows'[i].entity = rows[i].entity /\ rows'[i].method = rows[i].method
      /\ rows'[m].entity = rows[m].entity /\ rows'[m].method = rows[m].method
      /\ rows'[i].at = rows[i].at /\ rows'[m].at = rows[m].at
      /\ rows[i].by # 0 => rows'[i].by # 0
  BY <1>1, <1>5 DEF Grows, Keeps
<1> QED BY <1>2, <1>3, <1>5, <1>6 DEF Stale, Is, Active

\* So what a pass has in its hands still covers every stale pair.
LEMMA CoveredStays ==
  ASSUME MemoryAssumption, MemInv, [Next]_vars, [Quiet]_vars, NEW p \in Passes,
         Covered(p), found'[p] = found[p]
  PROVE  Covered(p)'
BY StaleBefore DEF Covered

\* With the cutoff of this month, the SELECT finds all pairs.
LEMMA SelectCovers ==
  ASSUME MemInv, NEW p \in Passes, SelectInferred(p),
         cutoff[p] = time - SupersedeAge[p]
  PROVE  Covered(p)'
<1>1. /\ rows' = rows /\ time' = time /\ found' = [found EXCEPT ![p] = Superseding(cutoff[p])]
  BY DEF SelectInferred, Goto
<1>2. found'[p] = Superseding(cutoff[p])
  <2>1. found = [q \in Passes |-> found[q]]
    BY DEF MemInv, MInv, Shape
  <2> QED BY <1>1, <2>1
<1>3. \A i, m \in DOMAIN rows : Stale(p, i, m) => <<i, m>> \in Superseding(cutoff[p])
  BY DEF Stale, Superseding
<1> QED BY <1>1, <1>2, <1>3 DEF Covered, Stale, Is, Active

\* Once they are marked, none is left.
LEMMA MarksAll ==
  ASSUME MemInv, NEW p \in Passes, MarkInferred(p), updated, Covered(p)
  PROVE  AllSuperseded(p)'
<1> DEFINE inferred == {pair[1] : pair \in found[p]}
<1>1. /\ rows \in Seq(RowType) /\ DOMAIN rows = 1..Len(rows) /\ Len(rows) \in Nat
      /\ time' = time
  BY DEF MemInv, MInv, Shape, MarkInferred
<1>2. PICK last \in [inferred -> DOMAIN rows] :
        rows' = [r \in DOMAIN rows |->
                   IF r \in inferred THEN [rows[r] EXCEPT !.by = last[r]] ELSE rows[r]]
  BY DEF MarkInferred
<1>3. \A r \in inferred : last[r] \in Nat /\ last[r] # 0
  BY <1>1, <1>2
<1>4. \A r \in DOMAIN rows : rows[r] \in RowType
  BY <1>1
<1>5. /\ DOMAIN rows' = DOMAIN rows
      /\ \A r \in DOMAIN rows :
           /\ rows'[r].entity = rows[r].entity /\ rows'[r].method = rows[r].method
           /\ rows'[r].at = rows[r].at
           /\ IF r \in inferred THEN rows'[r].by # 0 ELSE rows'[r].by = rows[r].by
  BY <1>2, <1>3, <1>4, MarkedFields
<1>6. ASSUME NEW i \in DOMAIN rows, NEW m \in DOMAIN rows,
             <<i, m>> \in found[p]
      PROVE  i \in inferred
  BY <1>6
<1> HIDE DEF inferred
<1>7. \A i, m \in DOMAIN rows : Stale(p, i, m) => i \in inferred
  BY <1>6 DEF Covered
<1> QED BY <1>1, <1>5, <1>7 DEF AllSuperseded, Stale, Is, Active

-----------------------------------------------------------------------------
(* The places of a pass, and from which to which it goes *)

\* At a place; idle, or begun in this month, with updated_at there; and with
\* every stale pair selected.
At(p, step) == pc[p] = step
Ready(p) == pc[p] = "idle" /\ updated
Started(p) == pc[p] = "supersede" /\ updated /\ cutoff[p] = time - SupersedeAge[p]
Selected(p) == pc[p] = "mark" /\ updated /\ Covered(p)

\* What SupersededHolds supposes and this prover cannot say, since it is about
\* ENABLED: whatever a SELECT returned, nothing or many groups, and whatever other
\* passes have changed since, a pass has its next step to take.
PassGoesOn ==
  \A p \in Passes :
    IF pc[p] = "idle" THEN ENABLED <<Begin(p)>>_vars ELSE ENABLED <<Work(p)>>_vars

\* From some time on nothing but the passes' work happens.
Calm(p) ==
  /\ [][Next]_vars /\ [][Quiet]_vars /\ []MemInv
  /\ []PassGoesOn /\ GoesOn(p)

\* The places one by one.
LEMMA Afterwards ==
  /\ After("idle") = "supersede" /\ After("supersede") = "mark"
  /\ After("mark") = "compress" /\ After("compress") = "fold"
  /\ After("fold") = "alter" /\ After("alter") = "idle"
BY DEF After

\* A pass that stays idle begins, and one that stays at work goes on.
LEMMA CalmServes ==
  ASSUME NEW p \in Passes
  PROVE  Calm(p) => /\ []([]At(p, "idle") => <><<Begin(p)>>_vars)
                    /\ []([](~ At(p, "idle")) => <><<Work(p)>>_vars)
<1>1. PassGoesOn => (At(p, "idle") => ENABLED <<Begin(p)>>_vars)
  BY DEF PassGoesOn, At
<1>2. PassGoesOn => (~ At(p, "idle") => ENABLED <<Work(p)>>_vars)
  BY DEF PassGoesOn, At
<1> QED BY <1>1, <1>2, PTL DEF Calm, GoesOn

\* A pass stays where it is or goes to its next place.
LEMMA PlaceStep ==
  ASSUME MemInv, [Next]_vars, [Quiet]_vars, NEW p \in Passes, NEW step, At(p, step)
  PROVE  At(p, step)' \/ At(p, After(step))'
BY QuietStep, OwnStep, MemoryAssumption DEF At

\* Its own step takes it there.
LEMMA WorkStep ==
  ASSUME MemInv, NEW p \in Passes, NEW step, At(p, step), Begin(p) \/ Work(p)
  PROVE  At(p, After(step))'
BY OwnStep DEF At

\* A pass that begins takes the cutoff of this month.
LEMMA BeginStep ==
  ASSUME MemInv, NEW p \in Passes, Ready(p), Begin(p) \/ Work(p)
  PROVE  Started(p)'
<1>1. Begin(p)
  BY DEF Ready, Work, SelectInferred, MarkInferred, SelectGroups, FoldGroups, AddColumn
<1>2. cutoff \in [Passes -> Int] /\ pc \in [Passes -> Steps]
  BY DEF MemInv, MInv, Shape, CInv, Cutoffs
<1> QED BY <1>1, <1>2 DEF Begin, Goto, Ready, Started

\* Its SELECT covers what is stale.
LEMMA SelectStep ==
  ASSUME MemInv, NEW p \in Passes, Started(p), Begin(p) \/ Work(p)
  PROVE  Selected(p)'
<1>1. SelectInferred(p)
  BY DEF Started, Begin, Work, MarkInferred, SelectGroups, FoldGroups, AddColumn
<1>2. pc \in [Passes -> Steps]
  BY DEF MemInv, MInv, Shape
<1>3. Covered(p)'
  BY <1>1, SelectCovers DEF Started
<1> QED BY <1>1, <1>2, <1>3 DEF SelectInferred, Goto, Started, Selected

\* Its UPDATE marks what it has selected.
LEMMA MarkedStep ==
  ASSUME MemInv, NEW p \in Passes, Selected(p), Begin(p) \/ Work(p)
  PROVE  AllSuperseded(p)'
<1>1. MarkInferred(p)
  BY DEF Selected, Begin, Work, SelectInferred, SelectGroups, FoldGroups, AddColumn
<1> QED BY <1>1, MarksAll DEF Selected

\* The end of a round leaves the column there.
LEMMA ColumnStep ==
  ASSUME MemInv, NEW p \in Passes, At(p, "alter"), Begin(p) \/ Work(p)
  PROVE  Ready(p)'
<1>1. pc'[p] = "idle"
  BY WorkStep, Afterwards DEF At
<1> QED BY <1>1, OwnStep DEF At, Ready

\* The rest of the passes leave a pass where it is, with what it has found.
LEMMA QuietPlaces ==
  ASSUME MemInv, [Next]_vars, [Quiet]_vars, NEW p \in Passes
  PROVE  \/ Begin(p) \/ Work(p)
         \/ /\ Ready(p) => Ready(p)'
            /\ Started(p) => Started(p)'
            /\ Selected(p) => Selected(p)'
            /\ At(p, "alter") => At(p, "alter")'
<1> SUFFICES ASSUME ~ Begin(p), ~ Work(p)
             PROVE  /\ Ready(p) => Ready(p)'
                    /\ Started(p) => Started(p)'
                    /\ Selected(p) => Selected(p)'
                    /\ At(p, "alter") => At(p, "alter")'
  OBVIOUS
<1>1. /\ updated => updated'
      /\ pc'[p] = pc[p] /\ found'[p] = found[p] /\ cutoff'[p] = cutoff[p]
  BY QuietStep, MemoryAssumption
<1>2. time' = time
  BY DEF Quiet, vars
<1>3. Covered(p) => Covered(p)'
  BY <1>1, CoveredStays, MemoryAssumption
<1> QED BY <1>1, <1>2, <1>3 DEF Ready, Started, Selected, At

-----------------------------------------------------------------------------
(* From place to place *)

\* An idle pass begins.
LEMMA IdleLeads ==
  ASSUME NEW p \in Passes
  PROVE  Calm(p) => /\ At(p, "idle") ~> At(p, "supersede")
                    /\ Ready(p) ~> Started(p)
<1>1. MemInv /\ [Next]_vars /\ [Quiet]_vars /\ At(p, "idle")
        => At(p, "idle")' \/ At(p, "supersede")'
  BY PlaceStep, Afterwards
<1>2. MemInv /\ <<Begin(p)>>_vars /\ At(p, "idle") => At(p, "supersede")'
  BY WorkStep, Afterwards
<1>3. MemInv /\ [Next]_vars /\ [Quiet]_vars /\ Ready(p) => Ready(p)' \/ Started(p)'
  BY QuietPlaces, BeginStep
<1>4. MemInv /\ <<Begin(p)>>_vars /\ Ready(p) => Started(p)'
  BY BeginStep
<1>5. Ready(p) => At(p, "idle")
  BY DEF Ready, At
<1>6. Calm(p) => []([]At(p, "idle") => <><<Begin(p)>>_vars)
  BY CalmServes
<1> QED BY <1>1, <1>2, <1>3, <1>4, <1>5, <1>6, PTL DEF Calm

\* A pass that runs goes on, one place at a time.
LEMMA PlaceLeads ==
  ASSUME NEW p \in Passes
  PROVE  Calm(p) => /\ At(p, "supersede") ~> At(p, "mark")
                    /\ At(p, "mark") ~> At(p, "compress")
                    /\ At(p, "compress") ~> At(p, "fold")
                    /\ At(p, "fold") ~> At(p, "alter")
<1>1. Calm(p) => []([](~ At(p, "idle")) => <><<Work(p)>>_vars)
  BY CalmServes
<1>2. Calm(p) => (At(p, "supersede") ~> At(p, "mark"))
  <2>1. MemInv /\ [Next]_vars /\ [Quiet]_vars /\ At(p, "supersede")
          => At(p, "supersede")' \/ At(p, "mark")'
    BY PlaceStep, Afterwards
  <2>2. MemInv /\ <<Work(p)>>_vars /\ At(p, "supersede") => At(p, "mark")'
    BY WorkStep, Afterwards
  <2>3. At(p, "supersede") => ~ At(p, "idle")
    BY DEF At
  <2> QED BY <1>1, <2>1, <2>2, <2>3, PTL DEF Calm
<1>3. Calm(p) => (At(p, "mark") ~> At(p, "compress"))
  <2>1. MemInv /\ [Next]_vars /\ [Quiet]_vars /\ At(p, "mark")
          => At(p, "mark")' \/ At(p, "compress")'
    BY PlaceStep, Afterwards
  <2>2. MemInv /\ <<Work(p)>>_vars /\ At(p, "mark") => At(p, "compress")'
    BY WorkStep, Afterwards
  <2>3. At(p, "mark") => ~ At(p, "idle")
    BY DEF At
  <2> QED BY <1>1, <2>1, <2>2, <2>3, PTL DEF Calm
<1>4. Calm(p) => (At(p, "compress") ~> At(p, "fold"))
  <2>1. MemInv /\ [Next]_vars /\ [Quiet]_vars /\ At(p, "compress")
          => At(p, "compress")' \/ At(p, "fold")'
    BY PlaceStep, Afterwards
  <2>2. MemInv /\ <<Work(p)>>_vars /\ At(p, "compress") => At(p, "fold")'
    BY WorkStep, Afterwards
  <2>3. At(p, "compress") => ~ At(p, "idle")
    BY DEF At
  <2> QED BY <1>1, <2>1, <2>2, <2>3, PTL DEF Calm
<1>5. Calm(p) => (At(p, "fold") ~> At(p, "alter"))
  <2>1. MemInv /\ [Next]_vars /\ [Quiet]_vars /\ At(p, "fold")
          => At(p, "fold")' \/ At(p, "alter")'
    BY PlaceStep, Afterwards
  <2>2. MemInv /\ <<Work(p)>>_vars /\ At(p, "fold") => At(p, "alter")'
    BY WorkStep, Afterwards
  <2>3. At(p, "fold") => ~ At(p, "idle")
    BY DEF At
  <2> QED BY <1>1, <2>1, <2>2, <2>3, PTL DEF Calm
<1> QED BY <1>2, <1>3, <1>4, <1>5, PTL

\* The step that adds the column, and the two of a round with the column.
LEMMA LastLeads ==
  ASSUME NEW p \in Passes
  PROVE  Calm(p) => /\ At(p, "alter") ~> Ready(p)
                    /\ Started(p) ~> Selected(p)
                    /\ Selected(p) ~> AllSuperseded(p)
<1>1. MemInv /\ [Next]_vars /\ [Quiet]_vars /\ At(p, "alter")
        => At(p, "alter")' \/ Ready(p)'
  BY QuietPlaces, ColumnStep
<1>2. MemInv /\ <<Work(p)>>_vars /\ At(p, "alter") => Ready(p)'
  BY ColumnStep
<1>3. MemInv /\ [Next]_vars /\ [Quiet]_vars /\ Started(p)
        => Started(p)' \/ Selected(p)'
  BY QuietPlaces, SelectStep
<1>4. MemInv /\ <<Work(p)>>_vars /\ Started(p) => Selected(p)'
  BY SelectStep
<1>5. MemInv /\ [Next]_vars /\ [Quiet]_vars /\ Selected(p)
        => Selected(p)' \/ AllSuperseded(p)'
  BY QuietPlaces, MarkedStep
<1>6. MemInv /\ <<Work(p)>>_vars /\ Selected(p) => AllSuperseded(p)'
  BY MarkedStep
<1>7. At(p, "alter") \/ Started(p) \/ Selected(p) => ~ At(p, "idle")
  BY DEF At, Started, Selected
<1>8. Calm(p) => []([](~ At(p, "idle")) => <><<Work(p)>>_vars)
  BY CalmServes
<1>9. Calm(p) => (At(p, "alter") ~> Ready(p))
  BY <1>1, <1>2, <1>7, <1>8, PTL DEF Calm
<1>10. Calm(p) => (Started(p) ~> Selected(p))
  BY <1>3, <1>4, <1>7, <1>8, PTL DEF Calm
<1>11. Calm(p) => (Selected(p) ~> AllSuperseded(p))
  BY <1>5, <1>6, <1>7, <1>8, PTL DEF Calm
<1> QED BY <1>9, <1>10, <1>11, PTL

\* From any place a round comes to its end, with the column there; the round
\* after it marks all that is stale.
LEMMA CalmSupersedes ==
  ASSUME NEW p \in Passes
  PROVE  Calm(p) => []<>AllSuperseded(p)
<1>1. Calm(p) => /\ At(p, "supersede") ~> At(p, "mark")
                 /\ At(p, "mark") ~> At(p, "compress")
                 /\ At(p, "compress") ~> At(p, "fold")
                 /\ At(p, "fold") ~> At(p, "alter")
  BY PlaceLeads
<1>2. Calm(p) => (At(p, "idle") ~> At(p, "supersede")) /\ (Ready(p) ~> Started(p))
  BY IdleLeads
<1>3. Calm(p) => /\ At(p, "alter") ~> Ready(p)
                 /\ Started(p) ~> Selected(p)
                 /\ Selected(p) ~> AllSuperseded(p)
  BY LastLeads
<1>4. MemInv => \/ At(p, "idle") \/ At(p, "supersede") \/ At(p, "mark")
                \/ At(p, "compress") \/ At(p, "fold") \/ At(p, "alter")
  BY DEF MemInv, MInv, Shape, Steps, At
<1>5. Calm(p) => []MemInv
  BY PTL DEF Calm
<1> QED BY <1>1, <1>2, <1>3, <1>4, <1>5, PTL

\* Once no month passes, nothing is recorded and no pass fails, every pass that
\* is scheduled again and again supersedes each inferred row that is older than
\* its age and has a later measured one, whatever the other passes do between
\* its SELECT and its UPDATE (AgentMemory._supersede_inferred).
THEOREM SupersededHolds ==
  Spec /\ []PassGoesOn /\ <>[][Quiet]_vars => SupersededInTheEnd
<1>1. ASSUME NEW p \in Scheduled
      PROVE  Spec /\ []PassGoesOn /\ <>[][Quiet]_vars => []<>AllSuperseded(p)
  <2>1. p \in Passes
    BY MemoryAssumption
  <2>2. Calm(p) => []<>AllSuperseded(p)
    BY <2>1, CalmSupersedes
  <2>3. Fairness => GoesOn(p)
    BY DEF Fairness
  <2>4. Spec => []MemInv
    BY LinksHold, CountsHold, PTL DEF MemInv
  <2>5. Spec /\ []PassGoesOn /\ <>[][Quiet]_vars => <>Calm(p)
    BY <2>3, <2>4, PTL DEF Calm, Spec, GoesOn
  <2> QED BY <2>2, <2>5, PTL
<1>2. Spec /\ []PassGoesOn /\ <>[][Quiet]_vars => \A p \in Scheduled : []<>AllSuperseded(p)
  BY <1>1
<1> QED BY <1>2 DEF SupersededInTheEnd
=============================================================================
