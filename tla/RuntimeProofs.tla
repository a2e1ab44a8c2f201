---------------------------- MODULE RuntimeProofs ----------------------------
(***************************************************************************)
(* What the agents' runtime guarantees for any number of askers, indexers, *)
(* rows and callers: an undisturbed run of the indexer leaves the index up *)
(* to date, whatever others have left in it; the payload is about the rows *)
(* as they are while the question is asked; and a search's answer, cached  *)
(* or not, is of the table its plan names, its derived facts of its rows.  *)
(* A stream is closed once, and is never without its end; under fairness,   *)
(* and as no worker is ever stuck (a hypothesis), its worker and its    *)
(* queue come nearer to their end from wherever they are.                   *)
(***************************************************************************)
EXTENDS AgentTurn, ReasoningSearch, FiniteSetTheorems, SequenceTheorems,
        WellFoundedInduction, TLAPS

-----------------------------------------------------------------------------
(* The index *)

\* The image of a finite set.
LEMMA FiniteImage ==
  ASSUME NEW S, IsFiniteSet(S), NEW f, DOMAIN f = S, f = [s \in S |-> f[s]]
  PROVE  /\ IsFiniteSet({f[s] : s \in S})
         /\ (\A s, u \in S : f[s] = f[u] => s = u) =>
              Cardinality({f[s] : s \in S}) = Cardinality(S)
<1> DEFINE T == {f[s] : s \in S}
<1>1. f \in Surjection(S, T)
  BY DEF Surjection
<1>2. (\A s, u \in S : f[s] = f[u] => s = u) => f \in Injection(S, T)
  BY <1>1 DEF Injection, Surjection, IsInjective
<1> HIDE DEF T
<1>3. /\ IsFiniteSet(T)
      /\ Cardinality(T) = Cardinality(S) <=> f \in Injection(S, T)
  BY <1>1, FS_Surjection, Zenon
<1> QED
  BY <1>2, <1>3 DEF T

\* The table of r is still to be read.
Pending(run, r) == \E i \in DOMAIN run.todo : run.todo[i] = TableOf[r]

\* What a run has in hand before it reads the first table.
Unread == \A x \in Indexers : Indexing(x, "hashes") =>
            indexing[x].todo = Tables /\ indexing[x].buffer = {}

\* Whoever has been alone so far is alone.
Sole == \A x, y \in Indexers :
          x # y /\ indexing[x] # None /\ indexing[x].alone => indexing[y] = None

\* The buffer of x says what the rows say; a row whose table is to come is
\* indexed as its hash says, or correctly; any other that is wanted is indexed,
\* or in the buffer.
Covered(x) ==
    /\ \A n \in indexing[x].buffer : n.text = rows[n.row]
    /\ \A r \in Row :
         Pending(indexing[x], r) => \/ records[r] = indexing[x].hashes[r]
                                    \/ records[r] = rows[r]
    /\ \A r \in Row :
         ~ Pending(indexing[x], r) /\ Wanted(indexing[x], r) =>
           \/ records[r] = rows[r]
           \/ [row |-> r, text |-> rows[r]] \in indexing[x].buffer

Coverage == \A x \in Indexers :
              Indexing(x, "tables") /\ indexing[x].alone => Covered(x)

IInv == IndexTypeOK /\ Unread /\ Sole /\ Coverage /\ IndexCatchesUp

LEMMA Disturbs ==
  ASSUME IndexTypeOK
  PROVE  /\ Disturbed(indexing) \in [Indexers -> IndexRun \cup {None}]
         /\ \A x \in Indexers :
              /\ indexing[x] = None => Disturbed(indexing)[x] = None
              /\ indexing[x] # None =>
                   /\ Disturbed(indexing)[x] \in IndexRun
                   /\ ~ Disturbed(indexing)[x].alone
                   /\ Disturbed(indexing)[x].at = indexing[x].at
                   /\ Disturbed(indexing)[x].todo = indexing[x].todo
                   /\ Disturbed(indexing)[x].buffer = indexing[x].buffer
  BY DEF Disturbed, IndexTypeOK, IndexRun

LEMMA IndexInitial == IndexInit => IInv
  BY FS_CardinalityType, FS_EmptySet, IndexAssumption
  DEF IndexInit, IInv, IndexTypeOK, Unread, Sole, Coverage, IndexCatchesUp, Indexing

\* The start of a run disturbs every other.
LEMMA Starts ==
  ASSUME IInv, NEW x \in Indexers, StartIndex(x)
  PROVE  IInv'
<1> DEFINE others == \A y \in Indexers : indexing[y] = None
           new(force, limit) ==
             [at |-> "hashes", force |-> force, limit |-> limit, indexed |-> 0,
              hashes |-> [r \in Row |-> None], todo |-> Tables,
              buffer |-> {}, total |-> 0, alone |-> others, skipped |-> {}]
<1>1. PICK force \in BOOLEAN, limit \in Limits :
        indexing' = [Disturbed(indexing) EXCEPT ![x] = new(force, limit)]
  BY DEF StartIndex
<1>2. /\ indexing[x] = None
      /\ UNCHANGED <<rows, records, registered, changes>>
  BY DEF StartIndex
<1>3. new(force, limit) \in IndexRun
  <2>1. 0 \in 0 .. Cardinality(Row)
    BY FS_CardinalityType, IndexAssumption
  <2> QED
    BY <2>1, IndexAssumption, FS_EmptySet DEF IndexRun, Stored
<1>4. /\ new(force, limit).at = "hashes" /\ new(force, limit).todo = Tables
      /\ new(force, limit).buffer = {} /\ new(force, limit).alone = others
  OBVIOUS
<1>5. \A y \in Indexers : indexing'[y] = IF y = x THEN new(force, limit)
                                         ELSE Disturbed(indexing)[y]
  BY <1>1 DEF Disturbed
<1> HIDE DEF new
<1>6. IndexTypeOK'
  <2>1. indexing' \in [Indexers -> IndexRun \cup {None}]
    BY <1>1, <1>3, Disturbs DEF IInv, new
  <2> QED
    BY <1>2, <2>1 DEF IInv, IndexTypeOK
<1>7. Unread'
  BY <1>4, <1>5, Disturbs DEF IInv, Unread, Indexing
<1>8. Sole'
  <2> SUFFICES ASSUME NEW y \in Indexers, NEW z \in Indexers, y # z,
                      indexing'[y] # None, indexing'[y].alone
               PROVE  indexing'[z] = None
    BY DEF Sole
  <2>1. y = x /\ others
    BY <1>4, <1>5, Disturbs DEF IInv
  <2> QED
    BY <2>1, <1>5, Disturbs DEF IInv
<1>9. \A y \in Indexers : indexing'[y] # None /\ indexing'[y].alone => indexing'[y].at = "hashes"
  BY <1>4, <1>5, Disturbs DEF IInv
<1>10. Coverage' /\ IndexCatchesUp'
  BY <1>9 DEF Coverage, IndexCatchesUp, Indexing
<1> QED
  BY <1>6, <1>7, <1>8, <1>10 DEF IInv

\* A step of x alone: no other run is touched, nor is any alone.
LEMMA OneRun ==
  ASSUME IInv, NEW x \in Indexers, indexing[x] # None,
         NEW run, indexing' = [indexing EXCEPT ![x] = run],
         run = None \/ (run # None /\ run.alone = indexing[x].alone)
  PROVE  /\ Sole'
         /\ \A y \in Indexers : y # x => indexing'[y] = indexing[y]
         /\ \A y \in Indexers : y # x /\ indexing'[y] # None => ~ indexing'[y].alone
         /\ indexing'[x] = run
<1>1. /\ \A y \in Indexers : y # x => indexing'[y] = indexing[y]
      /\ indexing'[x] = run
  BY DEF IInv, IndexTypeOK
<1>2. \A y \in Indexers : y # x /\ indexing'[y] # None => ~ indexing'[y].alone
  BY <1>1 DEF IInv, Sole
<1> QED
  BY <1>1, <1>2 DEF IInv, Sole

\* A step of x leaves what is known of any other run as it was.
LEMMA OthersQuiet ==
  ASSUME IInv, NEW x \in Indexers, UNCHANGED rows,
         \A y \in Indexers : y # x => indexing'[y] = indexing[y],
         \A y \in Indexers : y # x /\ indexing'[y] # None => ~ indexing'[y].alone,
         Indexing(x, "hashes")' => indexing'[x].todo = Tables /\ indexing'[x].buffer = {},
         Indexing(x, "tables")' /\ indexing'[x].alone => Covered(x)',
         Indexing(x, "register")' /\ indexing'[x].alone =>
           \A r \in Row : Wanted(indexing'[x], r) => records'[r] = rows[r]
  PROVE  Unread' /\ Coverage' /\ IndexCatchesUp'
<1>1. Unread'
  BY DEF IInv, Unread, Indexing
<1>2. Coverage'
  BY DEF Coverage, Indexing
<1>3. IndexCatchesUp'
  BY DEF IndexCatchesUp, Indexing, Wanted
<1> QED
  BY <1>1, <1>2, <1>3

\* A run that goes on, alone if it was; what it is left with is for the caller.
LEMMA RunGoesOn ==
  ASSUME IInv, NEW x \in Indexers, indexing[x] # None,
         NEW run \in IndexRun, indexing' = [indexing EXCEPT ![x] = run],
         run.alone = indexing[x].alone, run.at # "hashes",
         UNCHANGED <<rows, registered>>, records' \in Stored,
         changes' \in 0 .. MaxChanges,
         run.alone /\ run.at = "tables" /\ indexing'[x] = run => Covered(x)',
         run.alone /\ run.at = "register" =>
           \A r \in Row : Wanted(run, r) => records'[r] = rows[r]
  PROVE  IInv'
<1>1. IndexTypeOK'
  BY DEF IInv, IndexTypeOK
<1>2. CASE run = None
  <2>1. /\ Sole'
        /\ \A y \in Indexers : y # x => indexing'[y] = indexing[y]
        /\ \A y \in Indexers : y # x /\ indexing'[y] # None => ~ indexing'[y].alone
        /\ indexing'[x] = None
    BY <1>2, OneRun
  <2>2. Unread' /\ Coverage' /\ IndexCatchesUp'
    BY <2>1, OthersQuiet DEF Indexing
  <2> QED
    BY <1>1, <2>1, <2>2 DEF IInv
<1>3. CASE run # None
  <2>1. /\ Sole'
        /\ \A y \in Indexers : y # x => indexing'[y] = indexing[y]
        /\ \A y \in Indexers : y # x /\ indexing'[y] # None => ~ indexing'[y].alone
        /\ indexing'[x] = run
    BY <1>3, OneRun
  <2>2. Unread' /\ Coverage' /\ IndexCatchesUp'
    BY <2>1, OthersQuiet DEF Indexing
  <2> QED
    BY <1>1, <2>1, <2>2 DEF IInv
<1> QED
  BY <1>2, <1>3

LEMMA ReadsHashes ==
  ASSUME IInv, NEW x \in Indexers, ReadHashes(x)
  PROVE  IInv'
<1> DEFINE run == [indexing[x] EXCEPT !.at = "tables", !.hashes = records]
<1>1. /\ indexing[x] # None /\ indexing[x].at = "hashes"
      /\ indexing' = [indexing EXCEPT ![x] = run]
      /\ UNCHANGED <<rows, records, registered, changes>>
  BY DEF ReadHashes, Indexing
<1>2. /\ indexing[x] \in IndexRun /\ records \in Stored
      /\ changes \in 0 .. MaxChanges
  BY <1>1 DEF IInv, IndexTypeOK
<1>3. /\ run \in IndexRun /\ run.alone = indexing[x].alone /\ run.at = "tables"
      /\ run.hashes = records
      /\ run.todo = Tables /\ run.buffer = {}
  BY <1>1, <1>2 DEF IInv, Unread, Indexing, IndexRun
<1> HIDE DEF run
<1>4. \A r \in Row : \E i \in DOMAIN Tables : Tables[i] = TableOf[r]
  BY IndexAssumption DEF Table
<1>5. indexing'[x] = run => Covered(x)'
  BY <1>1, <1>3, <1>4 DEF Covered, Pending
<1> QED
  BY <1>1, <1>2, <1>3, <1>5, RunGoesOn

\* Taking a table off the list, with what was read of it, keeps the invariant.
LEMMA TakesTable ==
  ASSUME IInv, NEW x \in Indexers, NextTable(x),
         NEW run \in IndexRun, indexing' = [indexing EXCEPT ![x] = run],
         run.at = "tables", run.alone = indexing[x].alone,
         run.hashes = indexing[x].hashes, run.limit = indexing[x].limit,
         run.todo = Tail(indexing[x].todo), changes' \in 0 .. MaxChanges,
         indexing[x].buffer \subseteq run.buffer,
         indexing[x].skipped \subseteq run.skipped,
         \A n \in run.buffer \ indexing[x].buffer : n.text = rows[n.row],
         \A r \in Row :
           /\ TableOf[r] = Head(indexing[x].todo)
           /\ Wanted(run, r) /\ indexing[x].hashes[r] # rows[r]
           => [row |-> r, text |-> rows[r]] \in run.buffer
  PROVE  IInv'
<1> DEFINE tbl == Head(indexing[x].todo)
<1>1. /\ indexing[x] # None /\ indexing[x].at = "tables"
      /\ indexing[x].todo # << >>
      /\ indexing' = [indexing EXCEPT ![x] = run]
      /\ UNCHANGED <<rows, records, registered>>
  BY DEF NextTable, Indexing
<1>2. indexing[x] \in IndexRun /\ records \in Stored /\ rows \in Stored
  BY <1>1 DEF IInv, IndexTypeOK
<1>5. /\ indexing[x].todo \in Seq(Table) /\ Tail(indexing[x].todo) \in Seq(Table)
      /\ \A t \in Table :
           (\E i \in DOMAIN indexing[x].todo : indexing[x].todo[i] = t) =>
             \/ t = tbl
             \/ \E i \in DOMAIN Tail(indexing[x].todo) : Tail(indexing[x].todo)[i] = t
  <2>1. indexing[x].todo \in Seq(Table)
    BY <1>2 DEF IndexRun
  <2> DEFINE s == indexing[x].todo
  <2>2. s \in Seq(Table) /\ s # << >>
    BY <1>1, <2>1
  <2> HIDE DEF s
  <2>3. Tail(s) \in Seq(Table) /\ Len(Tail(s)) = Len(s) - 1
    BY <2>2
  <2>4. ASSUME NEW i \in DOMAIN s, i # 1
        PROVE  i - 1 \in DOMAIN Tail(s) /\ Tail(s)[i - 1] = s[i]
    BY <2>2, <2>3, <2>4
  <2>5. s[1] = Head(s)
    BY <2>2
  <2> QED
    BY <2>2, <2>3, <2>4, <2>5 DEF s
<1>7. ASSUME run.alone, indexing'[x] = run
      PROVE  Covered(x)'
  <2>1. Covered(x)
    BY <1>1, <1>7 DEF IInv, Coverage, Indexing
  <2>2. \A n \in run.buffer : n.text = rows[n.row]
    BY <2>1 DEF Covered
  <2>3. \A r \in Row : Pending(indexing[x], r) => Pending(run, r) \/ TableOf[r] = tbl
    BY <1>5, IndexAssumption DEF Pending
  <2>4. \A r \in Row : Pending(run, r) => Pending(indexing[x], r)
    <3> DEFINE s == indexing[x].todo
    <3>1. s \in Seq(Table) /\ s # << >>
      BY <1>1, <1>5
    <3> HIDE DEF s
    <3>2. \A i \in DOMAIN Tail(s) : i + 1 \in DOMAIN s /\ s[i + 1] = Tail(s)[i]
      BY <3>1
    <3> QED
      BY <3>2 DEF Pending, s
  <2>5. ASSUME NEW r \in Row, ~ Pending(run, r), Wanted(run, r)
        PROVE  records[r] = rows[r] \/ [row |-> r, text |-> rows[r]] \in run.buffer
    <3>1. CASE Pending(indexing[x], r)
      BY <2>1, <2>3, <2>5, <3>1 DEF Covered
    <3>2. CASE ~ Pending(indexing[x], r)
      BY <2>1, <2>5, <3>2 DEF Covered, Wanted
    <3> QED
      BY <3>1, <3>2
  <2>6. \A r \in Row : Wanted(run, r)' <=> Wanted(run, r)
    BY <1>1 DEF Wanted
  <2> QED
    BY <1>1, <1>7, <2>1, <2>2, <2>4, <2>5, <2>6 DEF Covered, Wanted
<1> QED
  BY <1>1, <1>2, <1>7, RunGoesOn

LEMMA ReadsTable ==
  ASSUME IInv, NEW x \in Indexers, ReadTable(x)
  PROVE  IInv'
<1> DEFINE tbl == Head(indexing[x].todo)
           reached == AtLimit(indexing[x], indexing[x].indexed)
           read == IF reached THEN {} ELSE Outdated(x, tbl)
           all == IF reached THEN indexing[x].buffer
                  ELSE indexing[x].buffer \cup Outdated(x, tbl)
           run == [indexing[x] EXCEPT !.buffer = all, !.todo = Tail(@)]
<1>1. /\ NextTable(x) /\ indexing[x] # None /\ indexing[x].at = "tables"
      /\ indexing[x].todo # << >> /\ UNCHANGED changes
      /\ indexing' = [indexing EXCEPT ![x] = run]
  <2>1. ReadTable(x)
    OBVIOUS
  <2> QED
    BY <2>1 DEF ReadTable, NextTable, Indexing
<1>2. /\ indexing[x] \in IndexRun /\ rows \in Stored
      /\ changes \in 0 .. MaxChanges
  BY <1>1 DEF IInv, IndexTypeOK
<1>3. \A n \in read : n \in Entry /\ n.text = rows[n.row]
  BY <1>2 DEF Outdated, Entry, Stored
<1>4. \A r \in Row :
        /\ TableOf[r] = tbl /\ rows[r] # None
        /\ indexing[x].limit = None /\ indexing[x].hashes[r] # rows[r]
        => [row |-> r, text |-> rows[r]] \in read
  <2>1. indexing[x].limit = None => read = Outdated(x, tbl)
    BY DEF AtLimit
  <2>2. \A r \in Row :
          TableOf[r] = tbl /\ rows[r] # None /\ indexing[x].hashes[r] # rows[r] =>
            [row |-> r, text |-> rows[r]] \in Outdated(x, tbl)
    BY DEF Outdated
  <2> HIDE DEF read
  <2> QED
    BY <2>1, <2>2
<1>5. IsFiniteSet(read)
  <2> DEFINE S == {q \in Row : /\ TableOf[q] = tbl
                               /\ rows[q] # None
                               /\ indexing[x].force \/ indexing[x].hashes[q] # rows[q]}
             f == [r \in S |-> [row |-> r, text |-> rows[r]]]
  <2>1. IsFiniteSet(S)
    BY FS_Subset, IndexAssumption
  <2>2. Outdated(x, tbl) = {[row |-> r, text |-> rows[r]] : r \in S}
    BY DEF Outdated
  <2> HIDE DEF S
  <2>3. {f[r] : r \in S} = {[row |-> r, text |-> rows[r]] : r \in S}
    OBVIOUS
  <2>4. IsFiniteSet({f[r] : r \in S})
    <3>1. DOMAIN f = S /\ f = [r \in S |-> f[r]]
      OBVIOUS
    <3> HIDE DEF f
    <3> QED
      BY <2>1, <3>1, FiniteImage
  <2> QED
    BY <2>2, <2>3, <2>4, FS_EmptySet
<1>6. all = indexing[x].buffer \cup read
  OBVIOUS
<1> HIDE DEF read, all
<1>8. IsFiniteSet(all)
  <2>1. IsFiniteSet(indexing[x].buffer)
    BY <1>2 DEF IndexRun
  <2> QED
    BY <2>1, <1>5, <1>6, FS_Union
<1>9. Tail(indexing[x].todo) \in Seq(Table)
  <2>1. indexing[x].todo \in Seq(Table)
    BY <1>2 DEF IndexRun
  <2> QED
    BY <1>1, <2>1
<1>10. /\ run \in IndexRun /\ run.alone = indexing[x].alone /\ run.at = "tables"
       /\ run.hashes = indexing[x].hashes /\ run.limit = indexing[x].limit
       /\ run.todo = Tail(indexing[x].todo) /\ run.buffer = indexing[x].buffer \cup read
       /\ run.skipped = indexing[x].skipped
  <2>1. all \subseteq Entry
    BY <1>2, <1>3, <1>6 DEF IndexRun
  <2> QED
    BY <1>1, <1>2, <1>6, <1>8, <1>9, <2>1 DEF IndexRun
<1> HIDE DEF run
<1>7. \A r \in Row :
        /\ TableOf[r] = Head(indexing[x].todo)
        /\ Wanted(run, r) /\ indexing[x].hashes[r] # rows[r]
        => [row |-> r, text |-> rows[r]] \in run.buffer
  BY <1>4, <1>10 DEF Wanted
<1> QED
  BY <1>1, <1>2, <1>3, <1>7, <1>10, TakesTable

LEMMA SkipsTable ==
  ASSUME IInv, NEW x \in Indexers, SkipTable(x)
  PROVE  IInv'
<1> DEFINE run == [indexing[x] EXCEPT !.skipped = @ \cup {Head(indexing[x].todo)},
                                      !.todo = Tail(@)]
<1>1. /\ NextTable(x) /\ indexing[x] # None /\ indexing[x].at = "tables"
      /\ indexing[x].todo # << >>
      /\ changes < MaxChanges /\ changes' = changes + 1
      /\ indexing' = [indexing EXCEPT ![x] = run]
  <2>1. SkipTable(x)
    OBVIOUS
  <2> QED
    BY <2>1 DEF SkipTable, NextTable, Indexing
<1>2. /\ indexing[x] \in IndexRun /\ changes \in 0 .. MaxChanges
      /\ changes' \in 0 .. MaxChanges
  BY <1>1, IndexAssumption DEF IInv, IndexTypeOK
<1>3. Tail(indexing[x].todo) \in Seq(Table) /\ Head(indexing[x].todo) \in Table
  <2>1. indexing[x].todo \in Seq(Table)
    BY <1>2 DEF IndexRun
  <2> QED
    BY <1>1, <2>1
<1>4. /\ run \in IndexRun /\ run.alone = indexing[x].alone /\ run.at = "tables"
      /\ run.hashes = indexing[x].hashes /\ run.limit = indexing[x].limit
      /\ run.todo = Tail(indexing[x].todo) /\ run.buffer = indexing[x].buffer
      /\ run.skipped = indexing[x].skipped \cup {Head(indexing[x].todo)}
  BY <1>1, <1>2, <1>3 DEF IndexRun
<1> HIDE DEF run
<1>5. \A r \in Row : TableOf[r] = Head(indexing[x].todo) => ~ Wanted(run, r)
  BY <1>4 DEF Wanted
<1> QED
  BY <1>1, <1>2, <1>4, <1>5, TakesTable

LEMMA Upserts ==
  ASSUME IInv, NEW x \in Indexers, Upsert(x)
  PROVE  IInv'
<1>1. PICK b \in Batches(indexing[x].buffer) :
        /\ records' = Upserted(records, b)
        /\ indexing' = [indexing EXCEPT ![x].buffer = Rest(x, b),
                                        ![x].indexed = @ + Cardinality(b)]
  BY DEF Upsert
<1> DEFINE run == [indexing[x] EXCEPT !.buffer = Rest(x, b),
                                      !.indexed = @ + Cardinality(b)]
<1>2. /\ indexing[x] # None /\ indexing[x].at = "tables"
      /\ indexing' = [indexing EXCEPT ![x] = run]
      /\ UNCHANGED <<rows, registered, changes>>
  BY <1>1 DEF Upsert, Indexing
<1>3. /\ indexing[x] \in IndexRun /\ records \in Stored /\ rows \in Stored
      /\ changes \in 0 .. MaxChanges
  BY <1>2 DEF IInv, IndexTypeOK
<1>4. b \subseteq indexing[x].buffer
  BY DEF Batches
<1>13. Cardinality(b) \in Nat
  <2>1. IsFiniteSet(b)
    BY <1>3, <1>4, FS_Subset DEF IndexRun
  <2> QED
    BY <2>1, FS_CardinalityType
<1>14. /\ Rest(x, b) \subseteq indexing[x].buffer
       /\ indexing[x].limit = None => Rest(x, b) = indexing[x].buffer \ b
       /\ IsFiniteSet(Rest(x, b))
  <2>1. /\ Rest(x, b) \in {{}, indexing[x].buffer \ b}
        /\ indexing[x].limit = None => Rest(x, b) = indexing[x].buffer \ b
    BY DEF Rest, AtLimit
  <2>2. IsFiniteSet(indexing[x].buffer)
    BY <1>3 DEF IndexRun
  <2>3. Rest(x, b) \subseteq indexing[x].buffer
    BY <2>1
  <2> QED
    BY <2>1, <2>2, <2>3, FS_Subset
<1>5. /\ run \in IndexRun /\ run.alone = indexing[x].alone /\ run.at = "tables"
      /\ run.hashes = indexing[x].hashes /\ run.todo = indexing[x].todo
      /\ run.buffer = Rest(x, b) /\ run.limit = indexing[x].limit
      /\ run.skipped = indexing[x].skipped
  <2> DEFINE rest == Rest(x, b)
             n == Cardinality(b)
  <2>1. n \in Nat /\ IsFiniteSet(rest) /\ rest \subseteq indexing[x].buffer
    BY <1>13, <1>14
  <2> HIDE DEF rest, n
  <2>2. /\ rest \in {c \in SUBSET Entry : IsFiniteSet(c)}
        /\ indexing[x].indexed + n \in Nat
    BY <1>3, <2>1 DEF IndexRun
  <2> QED
    BY <1>2, <1>3, <2>2 DEF IndexRun, rest, n
<1> HIDE DEF run
<1>6. \A r \in Row :
        IF \E n \in b : n.row = r
        THEN \E n \in b : n.row = r /\ records'[r] = n.text
        ELSE records'[r] = records[r]
  BY <1>1 DEF Upserted
<1>7. records' \in Stored
  <2>1. \A n \in b : n.text \in Texts
    BY <1>3, <1>4 DEF IndexRun, Entry
  <2>2. \A r \in Row : records'[r] \in Texts \cup {None}
    BY <1>3, <1>6, <2>1 DEF Stored
  <2> QED
    BY <1>1, <2>2 DEF Upserted, Stored
<1>8. ASSUME run.alone, indexing'[x] = run
      PROVE  Covered(x)'
  <2>1. Covered(x)
    BY <1>2, <1>5, <1>8 DEF IInv, Coverage, Indexing
  <2>2. \A n \in b : n.text = rows[n.row]
    BY <1>4, <2>1 DEF Covered
  <2>3. \A r \in Row : records'[r] = records[r] \/ records'[r] = rows[r]
    BY <1>6, <2>2
  <2>4. \A r \in Row : [row |-> r, text |-> rows[r]] \in b => records'[r] = rows[r]
    <3> SUFFICES ASSUME NEW r \in Row, [row |-> r, text |-> rows[r]] \in b
                 PROVE  records'[r] = rows[r]
      OBVIOUS
    <3>1. \E n \in b : n.row = r
      OBVIOUS
    <3> QED
      BY <1>6, <2>2, <3>1
  <2>5. \A r \in Row : Pending(run, r) <=> Pending(indexing[x], r)
    BY <1>5 DEF Pending
  <2>6. \A r \in Row : Pending(run, r) =>
                         records'[r] = run.hashes[r] \/ records'[r] = rows[r]
    BY <1>5, <2>1, <2>3, <2>5 DEF Covered
  <2>7. ASSUME NEW r \in Row, ~ Pending(run, r), Wanted(run, r)
        PROVE  records'[r] = rows[r] \/ [row |-> r, text |-> rows[r]] \in run.buffer
    <3>1. Wanted(indexing[x], r) /\ run.buffer = indexing[x].buffer \ b
      BY <1>5, <1>14, <2>7 DEF Wanted
    <3> QED
      BY <2>1, <2>3, <2>4, <2>5, <2>7, <3>1 DEF Covered
  <2>8. \A n \in run.buffer : n.text = rows[n.row]
    BY <1>5, <1>14, <2>1 DEF Covered
  <2> QED
    BY <1>2, <1>8, <2>6, <2>7, <2>8 DEF Covered, Wanted
<1> QED
  BY <1>2, <1>3, <1>5, <1>7, <1>8, RunGoesOn

\* With no table to come and nothing in the buffer, every row is indexed.
LEMMA Counts ==
  ASSUME IInv, NEW x \in Indexers, Count(x)
  PROVE  IInv'
<1> DEFINE indexed == {r \in Row : records[r] # None}
           run == [indexing[x] EXCEPT !.at = "register", !.total = Cardinality(indexed)]
<1>1. /\ indexing[x] # None /\ indexing[x].at = "tables"
      /\ ~ IsDue(x) /\ indexing[x].todo = << >>
      /\ indexing' = [indexing EXCEPT ![x] = run]
      /\ UNCHANGED <<rows, records, registered, changes>>
  BY DEF Count, Indexing
<1>2. /\ indexing[x] \in IndexRun /\ records \in Stored
      /\ changes \in 0 .. MaxChanges
  BY <1>1 DEF IInv, IndexTypeOK
<1>3. Cardinality(indexed) \in 0 .. Cardinality(Row)
  BY FS_Subset, FS_CardinalityType, IndexAssumption
<1> HIDE DEF indexed
<1>4. /\ run \in IndexRun /\ run.alone = indexing[x].alone /\ run.at = "register"
      /\ run.limit = indexing[x].limit /\ run.skipped = indexing[x].skipped
  BY <1>2, <1>3 DEF IndexRun
<1> HIDE DEF run
<1>5. ASSUME run.alone, NEW r \in Row, Wanted(run, r)
      PROVE  records[r] = rows[r]
  <2>1. Covered(x)
    BY <1>1, <1>4, <1>5 DEF IInv, Coverage, Indexing
  <2>2. indexing[x].buffer = {}
    BY <1>1 DEF IsDue, Due
  <2>3. ~ Pending(indexing[x], r)
    BY <1>1 DEF Pending
  <2> QED
    BY <1>4, <1>5, <2>1, <2>2, <2>3 DEF Covered, Wanted
<1> QED
  BY <1>1, <1>2, <1>4, <1>5, RunGoesOn

LEMMA Ends ==
  ASSUME IInv, NEW x \in Indexers, Register(x) \/ AbortIndex(x)
  PROVE  IInv'
<1>1. /\ indexing[x] # None
      /\ indexing' = [indexing EXCEPT ![x] = None]
      /\ UNCHANGED <<rows, records, changes>>
  BY DEF Register, AbortIndex, Indexing
<1>2. registered' \in (0 .. Cardinality(Row)) \cup {None}
  <2>1. indexing[x] \in IndexRun
    BY <1>1 DEF IInv, IndexTypeOK
  <2> QED
    BY <2>1 DEF Register, AbortIndex, IInv, IndexTypeOK, IndexRun
<1>3. IndexTypeOK'
  BY <1>1, <1>2 DEF IInv, IndexTypeOK
<1>4. /\ Sole'
      /\ \A y \in Indexers : y # x => indexing'[y] = indexing[y]
      /\ \A y \in Indexers : y # x /\ indexing'[y] # None => ~ indexing'[y].alone
      /\ indexing'[x] = None
  BY <1>1, OneRun
<1>5. Unread' /\ Coverage' /\ IndexCatchesUp'
  BY <1>1, <1>4, OthersQuiet DEF Indexing
<1> QED
  BY <1>3, <1>4, <1>5 DEF IInv

\* A change disturbs every run.
LEMMA Changes ==
  ASSUME IInv, NEW q \in Row, ChangeRow(q)
  PROVE  IInv'
<1>1. /\ indexing' = Disturbed(indexing)
      /\ UNCHANGED <<records, registered>>
      /\ changes < MaxChanges /\ changes' = changes + 1
  BY DEF ChangeRow
<1>2. rows' \in Stored
  BY DEF ChangeRow, IInv, IndexTypeOK, Stored
<1>3. IndexTypeOK'
  BY <1>1, <1>2, Disturbs, IndexAssumption DEF IInv, IndexTypeOK
<1>4. Unread' /\ Sole'
  BY <1>1, Disturbs DEF IInv, Unread, Sole, Indexing
<1>5. \A y \in Indexers : indexing'[y] # None => ~ indexing'[y].alone
  BY <1>1, Disturbs DEF IInv
<1>6. Coverage' /\ IndexCatchesUp'
  BY <1>5 DEF Coverage, IndexCatchesUp, Indexing
<1> QED
  BY <1>3, <1>4, <1>6 DEF IInv

LEMMA IndexStep ==
  ASSUME IInv, IndexNext \/ UNCHANGED indexVars
  PROVE  IInv'
<1>1. CASE UNCHANGED indexVars
  BY <1>1 DEF indexVars, IInv, IndexTypeOK, Unread, Sole, Coverage, Covered, Pending,
              IndexCatchesUp, Indexing, Wanted
<1>2. CASE \E q \in Row : ChangeRow(q)
  BY <1>2, Changes
<1>3. ASSUME NEW x \in Indexers,
             \/ StartIndex(x) \/ ReadHashes(x) \/ ReadTable(x) \/ SkipTable(x)
             \/ Upsert(x) \/ Count(x) \/ Register(x) \/ AbortIndex(x)
      PROVE  IInv'
  BY <1>3, Starts, ReadsHashes, ReadsTable, SkipsTable, Upserts, Counts, Ends
<1> QED
  BY <1>1, <1>2, <1>3 DEF IndexNext

-----------------------------------------------------------------------------
(* The turn of an asker *)

Earlier == {"ground", "search", "enrich"}

\* A question has seen what rows and index say now, and all its nodes say.
Watched(t) ==
    /\ \A r \in Row : <<r, rows[r]>> \in t.held /\ <<r, records[r]>> \in t.listed
    /\ \A n \in t.graph \cup t.found :
         n.kind \in {"grounded", "found"} /\ n.text # None => <<n.of, n.text>> \in t.held

\* Nodes of a kind come at one stage of the turn.
Staged(t) ==
    /\ \A n \in t.found : n.kind = "found"
    /\ t.at \in Earlier => \A n \in t.graph : n.kind = "grounded"
    /\ t.at = "recall" => \A n \in t.graph : n.kind \in {"grounded", "found"}
    /\ t.at = "drift" => \A n \in t.graph : n.kind # "alert"

\* Row r was indexed, since the question, under a class the filter lets through.
LetThrough(t, r) ==
    \E x \in Texts : <<r, x>> \in t.listed /\ Passes(ClassOf[r][x], t.option.expression)

\* What a gate or a filter lets through.
Filtered(t) ==
    /\ t.at # "ground" => \A n \in t.graph : n.kind = "grounded" => n.of \notin Incomplete
    /\ \A r \in t.hits : LetThrough(t, r)
    /\ \A n \in t.graph \cup t.found : n.kind = "found" => LetThrough(t, n.of)

Tallied(t) ==
    /\ IsFiniteSet(t.graph) /\ IsFiniteSet(t.found)
    /\ t.at # "ground" => t.count = Cardinality(t.graph)

Sound(t) == Watched(t) /\ Staged(t) /\ Filtered(t) /\ Tallied(t)

AllSound == \A a \in Askers : turn[a] # None => Sound(turn[a])

\* Questions have numbers of their own, and none is answered before it ends.
Numbered ==
    /\ \A a, b \in Askers : a # b /\ turn[a] # None /\ turn[b] # None =>
                              turn[a].id # turn[b].id
    /\ \A a \in Askers : turn[a] # None => turn[a].id \notin remembered

\* What is recalled is the answer to a question that has ended.
Recalled ==
    \A a \in Askers : turn[a] # None =>
      \A n \in turn[a].graph : n.kind = "memory" =>
        /\ n.of \in 1 .. asked
        /\ \A b \in Askers : turn[b] # None => n.of # turn[b].id

TInv == TypeOK /\ IInv /\ AllSound /\ Numbered /\ Recalled

LEMMA Nodes ==
  /\ \A r \in Row : rows[r] \in Texts \cup {None} =>
       Grounded(r) \in Node /\ Grounded(r).kind = "grounded"
         /\ Grounded(r).of = r /\ Grounded(r).text = rows[r]
  /\ \A r \in Row, t \in Texts \cup {None} :
       [kind |-> "found", of |-> r, text |-> t] \in Node
  /\ \A i \in 1 .. MaxAsks : Memory(i) \in Node /\ Memory(i).kind = "memory" /\ Memory(i).of = i
  /\ \A l \in Alerts : Told(l) \in Node /\ Told(l).kind = "alert"
<1>1. \A r \in Row : rows[r] \in Texts \cup {None} =>
       Grounded(r) \in Node /\ Grounded(r).kind = "grounded"
         /\ Grounded(r).of = r /\ Grounded(r).text = rows[r]
  BY DEF Node, Grounded
<1>2. \A r \in Row, t \in Texts \cup {None} :
       [kind |-> "found", of |-> r, text |-> t] \in Node
  BY DEF Node
<1>3. \A i \in 1 .. MaxAsks : Memory(i) \in Node /\ Memory(i).kind = "memory" /\ Memory(i).of = i
  BY DEF Node, Memory
<1>4. \A l \in Alerts : Told(l) \in Node /\ Told(l).kind = "alert"
  BY DEF Node, Told
<1> QED
  BY <1>1, <1>2, <1>3, <1>4

LEMMA TurnInitial == TurnInit => TInv
<1> SUFFICES ASSUME TurnInit PROVE TInv
  OBVIOUS
<1>1. IInv /\ IndexTypeOK
  BY IndexInitial DEF TurnInit, IInv
<1>2. TypeOK
  BY <1>1, TurnAssumption DEF TurnInit, TypeOK
<1> QED
  BY <1>1, <1>2 DEF TurnInit, TInv, AllSound, Numbered, Recalled

\* The turn of a goes on.
LEMMA TurnGoesOn ==
  ASSUME TInv, NEW a \in Askers, turn[a] # None,
         NEW t \in Turn, turn' = [turn EXCEPT ![a] = t], t.id = turn[a].id,
         UNCHANGED <<indexVars, cast, asked, remembered, raised>>,
         losses' \in Nat, escalated' \in [Alerts -> Nat],
         Sound(t),
         \A n \in t.graph : n.kind = "memory" => n \in turn[a].graph \/ n.of \in remembered
  PROVE  TInv'
<1>1. /\ turn \in [Askers -> Turn \cup {None}]
      /\ turn'[a] = t
      /\ \A b \in Askers : b # a => turn'[b] = turn[b]
      /\ asked \in 0 .. MaxAsks /\ remembered \subseteq 1 .. asked
  BY DEF TInv, TypeOK
<1>2. IInv'
  BY IndexStep DEF TInv
<1>3. TypeOK'
  <2>1. turn' \in [Askers -> Turn \cup {None}]
    BY <1>1
  <2>2. \A b \in Askers : turn'[b] # None => turn'[b].id <= asked'
    BY <1>1 DEF TInv, TypeOK
  <2> QED
    BY <1>2, <2>1, <2>2 DEF TInv, TypeOK, IInv
<1>4. \A b \in Askers : turn'[b] # None => turn[b] # None /\ turn'[b].id = turn[b].id
  BY <1>1
<1>5. Numbered'
  BY <1>4 DEF TInv, Numbered
<1>6. AllSound'
  <2>1. \A s : Sound(s)' <=> Sound(s)
    BY DEF indexVars, Sound, Watched, Staged, Filtered, LetThrough, Tallied, Passes, AnyOf, AllOf,
           Narrowed, Closure
  <2> QED
    BY <1>1, <2>1 DEF TInv, AllSound
<1>7. \A i \in remembered : i \in 1 .. asked /\ \A b \in Askers : turn[b] # None => i # turn[b].id
  BY <1>1 DEF TInv, Numbered
<1>8. Recalled'
  <2> SUFFICES ASSUME NEW b \in Askers, turn'[b] # None,
                      NEW n \in turn'[b].graph, n.kind = "memory"
               PROVE  /\ n.of \in 1 .. asked
                      /\ \A c \in Askers : turn[c] # None => n.of # turn[c].id
    BY <1>4 DEF Recalled
  <2>1. CASE b = a
    BY <1>1, <1>7, <2>1 DEF TInv, Recalled
  <2>2. CASE b # a
    BY <1>1, <2>2 DEF TInv, Recalled
  <2> QED
    BY <2>1, <2>2
<1> QED
  BY <1>2, <1>3, <1>5, <1>6, <1>8 DEF TInv

\* The turn of a ends, answered or not.
LEMMA TurnEnds ==
  ASSUME TInv, NEW a \in Askers, turn[a] # None,
         turn' = [turn EXCEPT ![a] = None],
         UNCHANGED <<indexVars, cast, asked, losses, raised, escalated>>,
         remembered' \in {remembered, remembered \cup {turn[a].id}}
  PROVE  TInv'
<1>1. /\ turn \in [Askers -> Turn \cup {None}]
      /\ turn'[a] = None
      /\ \A b \in Askers : b # a => turn'[b] = turn[b]
  BY DEF TInv, TypeOK
<1>2. IInv'
  BY IndexStep DEF TInv
<1>3. turn[a].id \in 1 .. asked
  BY <1>1 DEF TInv, TypeOK, Turn
<1>4. TypeOK'
  <2>1. turn' \in [Askers -> Turn \cup {None}]
    BY <1>1
  <2>2. \A b \in Askers : turn'[b] # None => turn'[b].id <= asked'
    BY <1>1 DEF TInv, TypeOK
  <2>3. remembered' \subseteq 1 .. asked'
    BY <1>3 DEF TInv, TypeOK
  <2> QED
    BY <1>2, <2>1, <2>2, <2>3 DEF TInv, TypeOK, IInv
<1>5. Numbered'
  BY <1>1 DEF TInv, Numbered
<1>6. AllSound'
  <2>1. \A s : Sound(s)' <=> Sound(s)
    BY DEF indexVars, Sound, Watched, Staged, Filtered, LetThrough, Tallied, Passes, AnyOf, AllOf,
           Narrowed, Closure
  <2> QED
    BY <1>1, <2>1 DEF TInv, AllSound
<1>7. Recalled'
  BY <1>1 DEF TInv, Recalled
<1> QED
  BY <1>2, <1>4, <1>5, <1>6, <1>7 DEF TInv

LEMMA Asks ==
  ASSUME TInv, NEW a \in Askers, NEW option \in Options, Ask(a, option)
  PROVE  TInv'
<1> DEFINE t == [at |-> "ground", id |-> asked + 1, option |-> option,
                 todo |-> Tables, graph |-> {}, hits |-> {}, found |-> {},
                 count |-> 0, held |-> All(rows), listed |-> All(records)]
<1>1. /\ turn[a] = None /\ asked < MaxAsks /\ asked' = asked + 1
      /\ turn' = [turn EXCEPT ![a] = t]
      /\ UNCHANGED <<indexVars, cast, remembered, losses, raised, escalated>>
  BY DEF Ask, Goto
<1>2. /\ turn \in [Askers -> Turn \cup {None}]
      /\ asked \in 0 .. MaxAsks /\ remembered \subseteq 1 .. asked
      /\ rows \in Stored /\ records \in Stored
  BY DEF TInv, TypeOK, IndexTypeOK
<1>3. t \in Turn
  <2>1. All(rows) \subseteq Says /\ All(records) \subseteq Says
    BY <1>2 DEF Stored, All, Says
  <2>2. asked + 1 \in 1 .. MaxAsks
    BY <1>1, <1>2, TurnAssumption
  <2> DEFINE h == All(rows)
             l == All(records)
             o == option
  <2>3. o \in Option
    BY TurnAssumption
  <2>4. h \subseteq Says /\ l \subseteq Says
    BY <2>1
  <2> HIDE DEF h, l, o
  <2> QED
    BY <2>2, <2>3, <2>4, IndexAssumption DEF Turn, h, l, o
<1>4. /\ t.at = "ground" /\ t.id = asked + 1 /\ t.graph = {} /\ t.found = {} /\ t.hits = {}
      /\ \A r \in Row : <<r, rows[r]>> \in t.held /\ <<r, records[r]>> \in t.listed
  BY DEF All
<1> HIDE DEF t
<1>5. /\ turn'[a] = t
      /\ \A b \in Askers : b # a => turn'[b] = turn[b]
  BY <1>1, <1>2
<1>6. IInv'
  BY <1>1, IndexStep DEF TInv
<1>7. TypeOK'
  <2>1. turn' \in [Askers -> Turn \cup {None}]
    BY <1>1, <1>2, <1>3
  <2>2. \A b \in Askers : turn[b] # None => turn[b].id \in 1 .. asked
    BY <1>2 DEF TInv, TypeOK, Turn
  <2>3. \A b \in Askers : turn'[b] # None => turn'[b].id <= asked'
    BY <1>1, <1>2, <1>4, <1>5, <2>2
  <2>4. asked' \in 0 .. MaxAsks /\ remembered' \subseteq 1 .. asked'
    BY <1>1, <1>2, TurnAssumption
  <2> QED
    BY <1>1, <1>6, <2>1, <2>3, <2>4 DEF TInv, TypeOK, IInv
<1>8. Numbered'
  <2>1. \A b \in Askers : turn[b] # None => turn[b].id \in 1 .. asked
    BY <1>2 DEF TInv, TypeOK, Turn
  <2>2. asked + 1 \notin 1 .. asked
    BY <1>2
  <2> QED
    BY <1>1, <1>2, <1>4, <1>5, <2>1, <2>2 DEF TInv, Numbered
<1>9. AllSound'
  <2>1. \A s : Sound(s)' <=> Sound(s)
    BY <1>1 DEF indexVars, Sound, Watched, Staged, Filtered, LetThrough, Tallied, Passes, AnyOf, AllOf,
                Narrowed, Closure
  <2>2. Sound(t)
    BY <1>4, FS_EmptySet DEF Sound, Watched, Staged, Filtered, Tallied
  <2> QED
    BY <1>5, <2>1, <2>2 DEF TInv, AllSound
<1>10. Recalled'
  <2>1. \A i \in 1 .. asked : i # asked + 1 /\ i \in 1 .. asked + 1
    BY <1>2
  <2> QED
    BY <1>1, <1>4, <1>5, <2>1 DEF TInv, Recalled
<1> QED
  BY <1>6, <1>7, <1>8, <1>9, <1>10 DEF TInv

LEMMA OfRow ==
  ASSUME TInv, NEW a \in Askers, turn[a] # None
  PROVE  /\ turn[a] \in Turn /\ Sound(turn[a])
         /\ losses \in Nat /\ escalated \in [Alerts -> Nat]
         /\ \A r \in Row : rows[r] \in Texts \cup {None} /\ records[r] \in Texts \cup {None}
         /\ remembered \subseteq 1 .. MaxAsks
  BY TurnAssumption DEF TInv, TypeOK, IndexTypeOK, Stored, AllSound

LEMMA GroundsTable ==
  ASSUME TInv, NEW a \in Askers, GroundTable(a)
  PROVE  TInv'
<1>1. PICK matching \in SUBSET InTable(Head(turn[a].todo)) :
        turn' = [turn EXCEPT ![a] =
                   [turn[a] EXCEPT !.todo = Tail(@),
                                   !.graph = @ \cup {Grounded(r) : r \in matching}]]
  BY DEF GroundTable, Goto
<1> DEFINE new == {Grounded(r) : r \in matching}
           t == [turn[a] EXCEPT !.todo = Tail(@), !.graph = @ \cup new]
<1>2. /\ turn[a] # None /\ turn[a].at = "ground" /\ turn[a].todo # << >>
      /\ UNCHANGED <<indexVars, cast, asked, remembered, losses, raised, escalated>>
      /\ turn' = [turn EXCEPT ![a] = t]
  BY <1>1 DEF GroundTable, At
<1>3. /\ turn[a] \in Turn /\ Sound(turn[a])
      /\ losses \in Nat /\ escalated \in [Alerts -> Nat]
      /\ \A r \in Row : rows[r] \in Texts \cup {None}
  BY <1>2, OfRow
<1>4. matching \subseteq Row
  BY DEF InTable
<1>5. \A n \in new : /\ n \in Node /\ n.kind = "grounded"
                     /\ n.of \in Row /\ n.text = rows[n.of]
  BY <1>3, <1>4, Nodes
<1>6. IsFiniteSet(new)
  <2> DEFINE f == [r \in matching |-> Grounded(r)]
  <2>1. IsFiniteSet({f[r] : r \in matching})
    <3>1. IsFiniteSet(matching)
      BY <1>4, FS_Subset, IndexAssumption
    <3>2. DOMAIN f = matching /\ f = [r \in matching |-> f[r]]
      OBVIOUS
    <3> HIDE DEF f
    <3> QED
      BY <3>1, <3>2, FiniteImage
  <2>2. {f[r] : r \in matching} = new
    OBVIOUS
  <2> QED
    BY <2>1, <2>2
<1> HIDE DEF new
<1>7. /\ t \in Turn /\ t.id = turn[a].id /\ t.at = "ground" /\ t.option = turn[a].option
      /\ t.graph = turn[a].graph \cup new
      /\ t.found = turn[a].found /\ t.hits = turn[a].hits /\ t.held = turn[a].held
      /\ t.listed = turn[a].listed
  <2>1. turn[a].todo \in Seq(Table) /\ turn[a].graph \cup new \subseteq Node
    BY <1>3, <1>5 DEF Turn
  <2>2. Tail(turn[a].todo) \in Seq(Table)
    BY <1>2, <2>1
  <2> QED
    BY <1>2, <1>3, <2>1, <2>2 DEF Turn
<1> HIDE DEF t
<1>8. Sound(t)
  <2>1. Watched(t)
    BY <1>3, <1>5, <1>7 DEF Sound, Watched
  <2>2. Staged(t)
    BY <1>2, <1>3, <1>5, <1>7 DEF Sound, Staged, Earlier
  <2>3. Filtered(t)
    BY <1>2, <1>3, <1>5, <1>7 DEF Sound, Filtered, LetThrough
  <2>4. Tallied(t)
    <3>1. IsFiniteSet(turn[a].graph) /\ IsFiniteSet(turn[a].found)
      BY <1>3 DEF Sound, Tallied
    <3>2. IsFiniteSet(t.graph)
      BY <1>6, <1>7, <3>1, FS_Union
    <3> QED
      BY <1>7, <3>1, <3>2 DEF Tallied
  <2> QED
    BY <2>1, <2>2, <2>3, <2>4 DEF Sound
<1>9. \A n \in t.graph : n.kind = "memory" => n \in turn[a].graph
  BY <1>5, <1>7
<1> QED
  BY <1>2, <1>3, <1>7, <1>8, <1>9, TurnGoesOn

LEMMA Screens ==
  ASSUME TInv, NEW a \in Askers, Screen(a)
  PROVE  TInv'
<1> DEFINE refused == Refused(turn[a])
           left == turn[a].graph \ refused
           next == IF turn[a].option.retrieval = "structured" THEN "recall" ELSE "search"
           t == [turn[a] EXCEPT !.at = next, !.graph = @ \ refused,
                                !.count = Cardinality(left)]
<1>1. /\ turn[a] # None /\ turn[a].at = "ground"
      /\ UNCHANGED <<indexVars, cast, asked, remembered, raised, escalated>>
      /\ losses' \in Logged(refused)
      /\ turn' = [turn EXCEPT ![a] = t]
  BY DEF Screen, At, Goto
<1>2. /\ turn[a] \in Turn /\ Sound(turn[a])
      /\ losses \in Nat /\ escalated \in [Alerts -> Nat]
  BY <1>1, OfRow
<1>3. /\ IsFiniteSet(left) /\ Cardinality(left) \in Nat
      /\ IsFiniteSet(refused) /\ Cardinality(refused) \in Nat
  <2>1. IsFiniteSet(turn[a].graph) /\ left \subseteq turn[a].graph /\ refused \subseteq turn[a].graph
    BY <1>2 DEF Sound, Tallied, Refused
  <2> HIDE DEF left, refused
  <2> QED
    BY <2>1, FS_Subset, FS_CardinalityType
<1>4. losses' \in Nat
  BY <1>1, <1>2, <1>3 DEF Logged
<1>5. \A n \in left : n \in turn[a].graph /\ n.of \notin Incomplete
  BY DEF Refused
<1>6. next \in {"recall", "search"}
  OBVIOUS
<1> HIDE DEF refused, next
<1>7. /\ t \in Turn /\ t.id = turn[a].id /\ t.at = next /\ t.option = turn[a].option
      /\ t.graph = left /\ t.count = Cardinality(left)
      /\ t.found = turn[a].found /\ t.hits = turn[a].hits /\ t.held = turn[a].held
      /\ t.listed = turn[a].listed
  <2>1. left \subseteq turn[a].graph
    OBVIOUS
  <2> HIDE DEF left
  <2> QED
    BY <1>2, <1>3, <1>6, <2>1 DEF Turn, left
<1> HIDE DEF t, left
<1>8. Sound(t)
  <2>1. Watched(t)
    BY <1>2, <1>5, <1>7 DEF Sound, Watched
  <2>2. Staged(t)
    BY <1>1, <1>2, <1>5, <1>6, <1>7 DEF Sound, Staged, Earlier
  <2>3. Filtered(t)
    BY <1>2, <1>5, <1>7 DEF Sound, Filtered, LetThrough
  <2>4. Tallied(t)
    BY <1>2, <1>3, <1>7 DEF Sound, Tallied
  <2> QED
    BY <2>1, <2>2, <2>3, <2>4 DEF Sound
<1>9. \A n \in t.graph : n.kind = "memory" => n \in turn[a].graph
  BY <1>5, <1>7
<1> QED
  BY <1>1, <1>2, <1>4, <1>7, <1>8, <1>9, TurnGoesOn

LEMMA Searches ==
  ASSUME TInv, NEW a \in Askers, Search(a)
  PROVE  TInv'
<1>1. PICK hits \in SUBSET {r \in Row : records[r] # None
                                       /\ Passes(IndexedAs(r), turn[a].option.expression)} :
        turn' = [turn EXCEPT ![a] = [turn[a] EXCEPT !.at = "enrich", !.hits = hits]]
  BY DEF Search, Goto
<1> DEFINE t == [turn[a] EXCEPT !.at = "enrich", !.hits = hits]
<1>2. /\ turn[a] # None /\ turn[a].at = "search"
      /\ UNCHANGED <<indexVars, cast, asked, remembered, losses, raised, escalated>>
      /\ turn' = [turn EXCEPT ![a] = t]
  BY <1>1 DEF Search, At
<1>3. /\ turn[a] \in Turn /\ Sound(turn[a])
      /\ losses \in Nat /\ escalated \in [Alerts -> Nat]
  BY <1>2, OfRow
<1>4. hits \subseteq Row /\ \A r \in hits : LetThrough(turn[a], r)
  <2> SUFFICES ASSUME NEW r \in hits
               PROVE  r \in Row /\ LetThrough(turn[a], r)
    OBVIOUS
  <2>1. /\ r \in Row /\ records[r] # None
        /\ Passes(ClassOf[r][records[r]], turn[a].option.expression)
    BY DEF IndexedAs
  <2>2. records[r] \in Texts
    BY <1>2, <2>1, OfRow
  <2>3. <<r, records[r]>> \in turn[a].listed
    BY <1>3, <2>1 DEF Sound, Watched
  <2> QED
    BY <2>1, <2>2, <2>3 DEF LetThrough
<1>5. /\ t \in Turn /\ t.id = turn[a].id /\ t.at = "enrich" /\ t.option = turn[a].option
      /\ t.graph = turn[a].graph /\ t.count = turn[a].count
      /\ t.found = turn[a].found /\ t.hits = hits /\ t.held = turn[a].held
      /\ t.listed = turn[a].listed
  BY <1>3, <1>4 DEF Turn
<1> HIDE DEF t
<1>6. Sound(t)
  <2>1. Watched(t)
    BY <1>3, <1>5 DEF Sound, Watched
  <2>2. Staged(t)
    BY <1>2, <1>3, <1>5 DEF Sound, Staged, Earlier
  <2>3. Filtered(t)
    BY <1>2, <1>3, <1>4, <1>5 DEF Sound, Filtered, LetThrough
  <2>4. Tallied(t)
    BY <1>2, <1>3, <1>5 DEF Sound, Tallied
  <2> QED
    BY <2>1, <2>2, <2>3, <2>4 DEF Sound
<1> QED
  BY <1>2, <1>3, <1>5, <1>6, TurnGoesOn

LEMMA Enriches ==
  ASSUME TInv, NEW a \in Askers, NEW r \in Row, Enrich(a, r)
  PROVE  TInv'
<1> DEFINE node == [kind |-> "found", of |-> r, text |-> Enriched(r)]
           t == [turn[a] EXCEPT !.hits = @ \ {r}, !.found = @ \cup {node}]
<1>1. /\ turn[a] # None /\ turn[a].at = "enrich" /\ r \in turn[a].hits
      /\ UNCHANGED <<indexVars, cast, asked, remembered, losses, raised, escalated>>
      /\ turn' = [turn EXCEPT ![a] = t]
  BY DEF Enrich, At, Goto
<1>2. /\ turn[a] \in Turn /\ Sound(turn[a])
      /\ losses \in Nat /\ escalated \in [Alerts -> Nat]
      /\ \A q \in Row : rows[q] \in Texts \cup {None}
  BY <1>1, OfRow
<1>3. /\ node \in Node /\ node.kind = "found" /\ node.of = r
      /\ node.text # None => node.text = rows[r]
  BY <1>2, Nodes DEF Enriched
<1> HIDE DEF node
<1>4. /\ t \in Turn /\ t.id = turn[a].id /\ t.at = "enrich" /\ t.option = turn[a].option
      /\ t.graph = turn[a].graph /\ t.count = turn[a].count
      /\ t.found = turn[a].found \cup {node}
      /\ t.hits = turn[a].hits \ {r} /\ t.held = turn[a].held
      /\ t.listed = turn[a].listed
  BY <1>1, <1>2, <1>3 DEF Turn
<1> HIDE DEF t
<1>5. Sound(t)
  <2>1. Watched(t)
    BY <1>2, <1>3, <1>4 DEF Sound, Watched
  <2>2. Staged(t)
    BY <1>1, <1>2, <1>3, <1>4 DEF Sound, Staged, Earlier
  <2>3. Filtered(t)
    BY <1>1, <1>2, <1>3, <1>4 DEF Sound, Filtered, LetThrough
  <2>4. Tallied(t)
    <3>1. IsFiniteSet(turn[a].graph) /\ IsFiniteSet(turn[a].found)
          /\ turn[a].count = Cardinality(turn[a].graph)
      BY <1>1, <1>2 DEF Sound, Tallied
    <3>2. IsFiniteSet(t.found)
      BY <1>4, <3>1, FS_AddElement
    <3> QED
      BY <1>4, <3>1, <3>2 DEF Tallied
  <2> QED
    BY <2>1, <2>2, <2>3, <2>4 DEF Sound
<1> QED
  BY <1>1, <1>2, <1>4, <1>5, TurnGoesOn

LEMMA Merges ==
  ASSUME TInv, NEW a \in Askers, Merge(a)
  PROVE  TInv'
<1> DEFINE all == WithFound(turn[a])
           t == [turn[a] EXCEPT !.at = "recall", !.graph = all,
                                !.count = Cardinality(all), !.found = {}]
<1>1. /\ turn[a] # None /\ turn[a].at = "enrich"
      /\ UNCHANGED <<indexVars, cast, asked, remembered, losses, raised, escalated>>
      /\ turn' = [turn EXCEPT ![a] = t]
  BY DEF Merge, At, Goto
<1>2. /\ turn[a] \in Turn /\ Sound(turn[a])
      /\ losses \in Nat /\ escalated \in [Alerts -> Nat]
  BY <1>1, OfRow
<1>3. all \in {turn[a].graph, turn[a].found, turn[a].graph \cup turn[a].found}
  BY DEF WithFound
<1> HIDE DEF all
<1>4. IsFiniteSet(all) /\ Cardinality(all) \in Nat
  <2>1. IsFiniteSet(turn[a].graph) /\ IsFiniteSet(turn[a].found)
    BY <1>2 DEF Sound, Tallied
  <2>2. IsFiniteSet(turn[a].graph \cup turn[a].found)
    BY <2>1, FS_Union
  <2> QED
    BY <1>3, <2>1, <2>2, FS_CardinalityType
<1>5. all \subseteq turn[a].graph \cup turn[a].found
  BY <1>3
<1>6. /\ t \in Turn /\ t.id = turn[a].id /\ t.at = "recall" /\ t.option = turn[a].option
      /\ t.graph = all /\ t.count = Cardinality(all) /\ t.found = {}
      /\ t.hits = turn[a].hits /\ t.held = turn[a].held
      /\ t.listed = turn[a].listed
  BY <1>2, <1>4, <1>5 DEF Turn
<1> HIDE DEF t
<1>7. Sound(t)
  <2>1. Watched(t)
    BY <1>2, <1>5, <1>6 DEF Sound, Watched
  <2>2. Staged(t)
    BY <1>1, <1>2, <1>5, <1>6 DEF Sound, Staged, Earlier
  <2>3. Filtered(t)
    BY <1>1, <1>2, <1>5, <1>6 DEF Sound, Filtered, LetThrough, Staged
  <2>4. Tallied(t)
    BY <1>4, <1>6, FS_EmptySet DEF Tallied
  <2> QED
    BY <2>1, <2>2, <2>3, <2>4 DEF Sound
<1>8. \A n \in t.graph : n.kind # "memory"
  BY <1>1, <1>2, <1>5, <1>6 DEF Sound, Staged, Earlier
<1> QED
  BY <1>1, <1>2, <1>6, <1>7, <1>8, TurnGoesOn

\* Nodes of a new kind are counted one by one.
LEMMA MoreNodes ==
  ASSUME NEW old, NEW new, NEW some, IsFiniteSet(old), IsFiniteSet(some),
         IsFiniteSet(new), Cardinality(new) = Cardinality(some),
         \A n \in new : n \notin old
  PROVE  /\ IsFiniteSet(old \cup new)
         /\ Cardinality(old \cup new) = Cardinality(old) + Cardinality(some)
         /\ Cardinality(old \cup new) \in Nat
<1>1. old \cap new = {}
  OBVIOUS
<1>2. Cardinality(old \cap new) = 0
  BY <1>1, FS_EmptySet
<1>3. Cardinality(old) \in Nat /\ Cardinality(new) \in Nat
  BY FS_CardinalityType
<1> QED
  BY <1>2, <1>3, FS_Union

LEMMA Recalls ==
  ASSUME TInv, NEW a \in Askers, Recall(a)
  PROVE  TInv'
<1>1. PICK prior \in (IF turn[a].option.recall THEN Observations ELSE {{}}) :
        turn' = [turn EXCEPT ![a] = [turn[a] EXCEPT
                   !.at = "drift", !.graph = @ \cup {Memory(i) : i \in prior},
                   !.count = @ + Cardinality(prior)]]
  BY DEF Recall, Goto
<1> DEFINE new == {Memory(i) : i \in prior}
           t == [turn[a] EXCEPT !.at = "drift", !.graph = @ \cup new,
                                !.count = @ + Cardinality(prior)]
<1>2. /\ turn[a] # None /\ turn[a].at = "recall"
      /\ UNCHANGED <<indexVars, cast, asked, remembered, losses, raised, escalated>>
      /\ turn' = [turn EXCEPT ![a] = t]
  BY <1>1 DEF Recall, At
<1>3. /\ turn[a] \in Turn /\ Sound(turn[a])
      /\ losses \in Nat /\ escalated \in [Alerts -> Nat]
      /\ remembered \subseteq 1 .. MaxAsks
  BY <1>2, OfRow
<1>4. prior \subseteq remembered
  BY DEF Observations
<1>5. IsFiniteSet(prior) /\ Cardinality(prior) \in Nat
  <2>1. IsFiniteSet(1 .. MaxAsks)
    BY FS_Interval, TurnAssumption
  <2> QED
    BY <1>3, <1>4, <2>1, FS_Subset, FS_CardinalityType
<1>6. \A n \in new : n \in Node /\ n.kind = "memory" /\ n.of \in remembered
  BY <1>3, <1>4, Nodes
<1>7. IsFiniteSet(new) /\ Cardinality(new) = Cardinality(prior)
  <2> DEFINE f == [i \in prior |-> Memory(i)]
  <2>1. \A i, j \in prior : f[i] = f[j] => i = j
    BY <1>3, <1>4, Nodes
  <2>2. DOMAIN f = prior /\ f = [i \in prior |-> f[i]]
    OBVIOUS
  <2>3. {f[i] : i \in prior} = new
    OBVIOUS
  <2> HIDE DEF f, new
  <2> QED
    BY <1>5, <2>1, <2>2, <2>3, FiniteImage
<1> HIDE DEF new
<1>8. /\ turn[a].graph \subseteq Node /\ IsFiniteSet(turn[a].graph)
      /\ turn[a].count = Cardinality(turn[a].graph)
      /\ \A n \in turn[a].graph : n.kind \in {"grounded", "found"}
  BY <1>2, <1>3 DEF Turn, Sound, Tallied, Staged
<1>9. /\ IsFiniteSet(turn[a].graph \cup new)
      /\ Cardinality(turn[a].graph \cup new) = turn[a].count + Cardinality(prior)
      /\ Cardinality(turn[a].graph \cup new) \in Nat
  <2>1. \A n \in new : n \notin turn[a].graph
    BY <1>6, <1>8
  <2>2. /\ IsFiniteSet(turn[a].graph \cup new)
        /\ Cardinality(turn[a].graph \cup new)
             = Cardinality(turn[a].graph) + Cardinality(prior)
        /\ Cardinality(turn[a].graph \cup new) \in Nat
    BY <1>5, <1>7, <1>8, <2>1, MoreNodes
  <2> QED
    BY <1>8, <2>2
<1>10. /\ t \in Turn /\ t.id = turn[a].id /\ t.at = "drift" /\ t.option = turn[a].option
       /\ t.graph = turn[a].graph \cup new
       /\ t.count = Cardinality(turn[a].graph \cup new)
       /\ t.found = turn[a].found /\ t.hits = turn[a].hits /\ t.held = turn[a].held
       /\ t.listed = turn[a].listed
  <2>1. turn[a].graph \cup new \subseteq Node /\ turn[a].count + Cardinality(prior) \in Nat
    BY <1>6, <1>8, <1>9
  <2> QED
    BY <1>3, <1>9, <2>1 DEF Turn
<1> HIDE DEF t
<1>11. Sound(t)
  <2>1. Watched(t)
    BY <1>3, <1>6, <1>10 DEF Sound, Watched
  <2>2. Staged(t)
    BY <1>3, <1>6, <1>8, <1>10 DEF Sound, Staged, Earlier
  <2>3. Filtered(t)
    BY <1>2, <1>3, <1>6, <1>10 DEF Sound, Filtered, LetThrough
  <2>4. Tallied(t)
    BY <1>3, <1>9, <1>10 DEF Sound, Tallied
  <2> QED
    BY <2>1, <2>2, <2>3, <2>4 DEF Sound
<1>12. \A n \in t.graph : n.kind = "memory" => n.of \in remembered
  BY <1>6, <1>8, <1>10
<1> QED
  BY <1>2, <1>3, <1>10, <1>11, <1>12, TurnGoesOn

LEMMA InjectsAlerts ==
  ASSUME TInv, NEW a \in Askers, InjectAlerts(a)
  PROVE  TInv'
<1> DEFINE alerts == Recent(turn[a].option.alerts)
           new == {Told(l) : l \in alerts}
           t == [turn[a] EXCEPT !.at = "assemble", !.graph = @ \cup new,
                                !.count = @ + Cardinality(alerts)]
<1>1. /\ turn[a] # None /\ turn[a].at = "drift"
      /\ UNCHANGED <<indexVars, cast, asked, remembered, losses, raised>>
      /\ turn' = [turn EXCEPT ![a] = t]
      /\ escalated' = Propagated(alerts)
  BY DEF InjectAlerts, At, Goto
<1>2. /\ turn[a] \in Turn /\ Sound(turn[a])
      /\ losses \in Nat /\ escalated \in [Alerts -> Nat]
  BY <1>1, OfRow
<1>3. raised \in Seq(Alerts)
  BY DEF TInv, TypeOK
<1>4. alerts \subseteq Alerts /\ IsFiniteSet(alerts) /\ Cardinality(alerts) \in Nat
  <2> DEFINE late == {j \in DOMAIN raised : j > Len(raised) - turn[a].option.alerts}
             f == [j \in late |-> raised[j]]
  <2>1. IsFiniteSet(late)
    <3>1. DOMAIN raised = 1 .. Len(raised) /\ Len(raised) \in Nat
      BY <1>3
    <3>2. IsFiniteSet(DOMAIN raised)
      BY <3>1, FS_Interval
    <3> QED
      BY <3>2, FS_Subset
  <2>2. DOMAIN f = late /\ f = [j \in late |-> f[j]]
    OBVIOUS
  <2>3. alerts = {f[j] : j \in late}
    BY DEF Recent
  <2>4. alerts \subseteq Alerts
    BY <1>3 DEF Recent
  <2> HIDE DEF f, late, alerts
  <2> QED
    BY <2>1, <2>2, <2>3, <2>4, FiniteImage, FS_CardinalityType
<1> HIDE DEF alerts
<1>5. \A n \in new : n \in Node /\ n.kind = "alert"
  BY <1>4, Nodes
<1>6. IsFiniteSet(new) /\ Cardinality(new) = Cardinality(alerts)
  <2> DEFINE f == [l \in alerts |-> Told(l)]
  <2>1. \A l, m \in alerts : f[l] = f[m] => l = m
    BY DEF Told
  <2>2. DOMAIN f = alerts /\ f = [l \in alerts |-> f[l]]
    OBVIOUS
  <2>3. {f[l] : l \in alerts} = new
    OBVIOUS
  <2> HIDE DEF f, new
  <2> QED
    BY <1>4, <2>1, <2>2, <2>3, FiniteImage
<1> HIDE DEF new
<1>7. /\ turn[a].graph \subseteq Node /\ IsFiniteSet(turn[a].graph)
      /\ turn[a].count = Cardinality(turn[a].graph)
      /\ \A n \in turn[a].graph : n.kind # "alert"
  BY <1>1, <1>2 DEF Turn, Sound, Tallied, Staged
<1>8. /\ IsFiniteSet(turn[a].graph \cup new)
      /\ Cardinality(turn[a].graph \cup new) = turn[a].count + Cardinality(alerts)
      /\ Cardinality(turn[a].graph \cup new) \in Nat
  <2>1. \A n \in new : n \notin turn[a].graph
    BY <1>5, <1>7
  <2>2. /\ IsFiniteSet(turn[a].graph \cup new)
        /\ Cardinality(turn[a].graph \cup new)
             = Cardinality(turn[a].graph) + Cardinality(alerts)
        /\ Cardinality(turn[a].graph \cup new) \in Nat
    BY <1>4, <1>6, <1>7, <2>1, MoreNodes
  <2> QED
    BY <1>7, <2>2
<1>9. /\ t \in Turn /\ t.id = turn[a].id /\ t.at = "assemble" /\ t.option = turn[a].option
      /\ t.graph = turn[a].graph \cup new
      /\ t.count = Cardinality(turn[a].graph \cup new)
      /\ t.found = turn[a].found /\ t.hits = turn[a].hits /\ t.held = turn[a].held
      /\ t.listed = turn[a].listed
  <2>1. turn[a].graph \cup new \subseteq Node /\ turn[a].count + Cardinality(alerts) \in Nat
    BY <1>5, <1>7, <1>8
  <2> QED
    BY <1>2, <1>8, <2>1 DEF Turn
<1> HIDE DEF t
<1>10. Sound(t)
  <2>1. Watched(t)
    BY <1>2, <1>5, <1>9 DEF Sound, Watched
  <2>2. Staged(t)
    BY <1>2, <1>9 DEF Sound, Staged, Earlier
  <2>3. Filtered(t)
    BY <1>1, <1>2, <1>5, <1>9 DEF Sound, Filtered, LetThrough
  <2>4. Tallied(t)
    BY <1>2, <1>8, <1>9 DEF Sound, Tallied
  <2> QED
    BY <2>1, <2>2, <2>3, <2>4 DEF Sound
<1>11. escalated' \in [Alerts -> Nat]
  <2>1. \A l \in Alerts : Cardinality(Dependents[l]) \in Nat
    BY FS_CardinalityType, TurnAssumption
  <2> QED
    BY <1>1, <1>2, <2>1 DEF Propagated
<1>12. \A n \in t.graph : n.kind = "memory" => n \in turn[a].graph
  BY <1>5, <1>9
<1> QED
  BY <1>1, <1>2, <1>9, <1>10, <1>11, <1>12, TurnGoesOn

LEMMA Assembles ==
  ASSUME TInv, NEW a \in Askers, Assemble(a)
  PROVE  TInv'
<1> DEFINE t == [turn[a] EXCEPT !.at = "model"]
<1>1. /\ turn[a] # None /\ turn[a].at = "assemble"
      /\ UNCHANGED <<indexVars, cast, asked, remembered, losses, raised, escalated>>
      /\ turn' = [turn EXCEPT ![a] = t]
  BY DEF Assemble, At, Goto
<1>2. /\ turn[a] \in Turn /\ Sound(turn[a])
      /\ losses \in Nat /\ escalated \in [Alerts -> Nat]
  BY <1>1, OfRow
<1>3. /\ t \in Turn /\ t.id = turn[a].id /\ t.at = "model" /\ t.option = turn[a].option
      /\ t.graph = turn[a].graph /\ t.count = turn[a].count
      /\ t.found = turn[a].found /\ t.hits = turn[a].hits /\ t.held = turn[a].held
      /\ t.listed = turn[a].listed
  BY <1>2 DEF Turn
<1> HIDE DEF t
<1>4. Sound(t)
  BY <1>1, <1>2, <1>3 DEF Sound, Watched, Staged, Filtered, LetThrough, Tallied, Earlier
<1> QED
  BY <1>1, <1>2, <1>3, <1>4, TurnGoesOn

\* Nothing an asker depends on changes, but the alerts or what is remembered.
LEMMA Quiet ==
  ASSUME TInv, UNCHANGED <<indexVars, cast, turn, asked, losses, escalated>>,
         raised' \in Seq(Alerts), Len(raised') <= AlertBuffer,
         remembered' \subseteq remembered
  PROVE  TInv'
<1>1. IInv'
  BY IndexStep DEF TInv
<1>2. TypeOK'
  <2>1. remembered' \subseteq 1 .. asked'
    BY DEF TInv, TypeOK
  <2> QED
    BY <1>1, <2>1 DEF TInv, TypeOK, IInv
<1>3. AllSound'
  <2>1. \A s : Sound(s)' <=> Sound(s)
    BY DEF indexVars, Sound, Watched, Staged, Filtered, LetThrough, Tallied, Passes, AnyOf, AllOf,
           Narrowed, Closure
  <2> QED
    BY <2>1 DEF TInv, AllSound
<1>4. Numbered' /\ Recalled'
  BY DEF TInv, Numbered, Recalled
<1> QED
  BY <1>1, <1>2, <1>3, <1>4 DEF TInv

LEMMA RaisesAlert ==
  ASSUME TInv, NEW l \in Alerts, RaiseAlert(l)
  PROVE  TInv'
<1> DEFINE s == Append(raised, l)
<1>1. raised \in Seq(Alerts) /\ Len(raised) <= AlertBuffer /\ AlertBuffer \in Nat
  BY TurnAssumption DEF TInv, TypeOK
<1>2. s \in Seq(Alerts) /\ Len(s) = Len(raised) + 1 /\ s # << >>
  BY <1>1
<1>3. /\ UNCHANGED <<indexVars, cast, turn, asked, remembered, losses, escalated>>
      /\ raised' = Buffered(s)
  BY DEF RaiseAlert
<1> HIDE DEF s
<1>4. Tail(s) \in Seq(Alerts) /\ Len(Tail(s)) = Len(s) - 1
  BY <1>2
<1>5. raised' \in Seq(Alerts) /\ Len(raised') <= AlertBuffer
  BY <1>1, <1>2, <1>3, <1>4 DEF Buffered
<1> QED
  BY <1>3, <1>5, Quiet

\* An indexer or a writer of rows: every question sees what the rows come to say.
LEMMA GoesOnElsewhere ==
  ASSUME TInv, Elsewhere
  PROVE  TInv'
<1> DEFINE new == All(rows')
           fresh == All(records')
           next(a) == [turn[a] EXCEPT !.held = @ \cup new, !.listed = @ \cup fresh]
<1>1. /\ IndexNext
      /\ UNCHANGED <<cast, asked, remembered, losses, raised, escalated>>
      /\ turn' = [a \in Askers |-> IF turn[a] = None THEN None ELSE next(a)]
  BY DEF Elsewhere
<1>2. IInv'
  BY <1>1, IndexStep DEF TInv
<1>3. new \subseteq Says /\ fresh \subseteq Says
  BY <1>2 DEF IInv, IndexTypeOK, Stored, All, Says
<1>4. \A r \in Row : <<r, rows'[r]>> \in new /\ <<r, records'[r]>> \in fresh
  BY DEF All
<1> HIDE DEF new, fresh
<1>5. \A a \in Askers : turn[a] # None =>
        /\ turn[a] \in Turn /\ next(a) \in Turn
        /\ next(a).id = turn[a].id /\ next(a).at = turn[a].at
        /\ next(a).graph = turn[a].graph /\ next(a).found = turn[a].found
        /\ next(a).hits = turn[a].hits /\ next(a).count = turn[a].count
        /\ next(a).option = turn[a].option /\ next(a).held = turn[a].held \cup new
        /\ next(a).listed = turn[a].listed \cup fresh
  <2> SUFFICES ASSUME NEW a \in Askers, turn[a] # None
               PROVE  /\ turn[a] \in Turn /\ next(a) \in Turn
                      /\ next(a).id = turn[a].id /\ next(a).at = turn[a].at
                      /\ next(a).graph = turn[a].graph /\ next(a).found = turn[a].found
                      /\ next(a).hits = turn[a].hits /\ next(a).count = turn[a].count
                      /\ next(a).option = turn[a].option
                      /\ next(a).held = turn[a].held \cup new
                      /\ next(a).listed = turn[a].listed \cup fresh
    OBVIOUS
  <2>1. turn[a] \in Turn
    BY DEF TInv, TypeOK
  <2> QED
    BY <1>3, <2>1 DEF Turn
<1>6. \A a \in Askers : turn'[a] = IF turn[a] = None THEN None ELSE next(a)
  BY <1>1
<1> HIDE DEF next
<1>7. \A a \in Askers : turn'[a] # None => turn[a] # None /\ turn'[a] = next(a)
  BY <1>6
<1>8. TypeOK'
  <2>1. turn' \in [Askers -> Turn \cup {None}]
    BY <1>1, <1>5
  <2>2. \A a \in Askers : turn'[a] # None => turn'[a].id <= asked'
    BY <1>1, <1>5, <1>7 DEF TInv, TypeOK
  <2> QED
    BY <1>1, <1>2, <2>1, <2>2 DEF TInv, TypeOK, IInv
<1>9. Numbered'
  BY <1>1, <1>5, <1>7 DEF TInv, Numbered
<1>10. Recalled'
  BY <1>1, <1>5, <1>7 DEF TInv, Recalled
<1>11. AllSound'
  <2> SUFFICES ASSUME NEW a \in Askers, turn'[a] # None
               PROVE  Sound(turn[a])'
    BY DEF AllSound
  <2>1. turn[a] # None /\ turn'[a] = next(a) /\ Sound(turn[a])
    BY <1>7 DEF TInv, AllSound
  <2>2. Watched(turn[a])'
    BY <1>4, <1>5, <2>1 DEF Sound, Watched
  <2>3. Staged(turn[a])'
    BY <1>5, <2>1 DEF Sound, Staged
  <2>6. ASSUME NEW r, LetThrough(turn[a], r)
        PROVE  LetThrough(turn[a], r)'
    <3>1. PICK y \in Texts : /\ <<r, y>> \in turn[a].listed
                             /\ Passes(ClassOf[r][y], turn[a].option.expression)
      BY <2>6 DEF LetThrough
    <3>2. <<r, y>> \in turn'[a].listed /\ turn'[a].option = turn[a].option
      BY <1>5, <2>1, <3>1
    <3> QED
      BY <3>1, <3>2 DEF LetThrough
  <2>4. Filtered(turn[a])'
    BY <1>5, <2>1, <2>6 DEF Sound, Filtered
  <2>5. Tallied(turn[a])'
    BY <1>5, <2>1 DEF Sound, Tallied
  <2> QED
    BY <2>2, <2>3, <2>4, <2>5 DEF Sound
<1> QED
  BY <1>2, <1>8, <1>9, <1>10, <1>11 DEF TInv

LEMMA TurnStep ==
  ASSUME TInv, [Next]_vars
  PROVE  TInv'
<1>1. CASE UNCHANGED vars
  BY <1>1, Quiet DEF vars, turnVars, TInv, TypeOK
<1>2. ASSUME NEW a \in Askers, NEW option \in Options, Ask(a, option)
      PROVE  TInv'
  BY <1>2, Asks
<1>3. ASSUME NEW a \in Askers,
             \/ GroundTable(a) \/ Screen(a) \/ Search(a) \/ Merge(a)
             \/ Recall(a) \/ InjectAlerts(a) \/ Assemble(a)
      PROVE  TInv'
  BY <1>3, GroundsTable, Screens, Searches, Merges, Recalls, InjectsAlerts, Assembles
<1>4. ASSUME NEW a \in Askers, NEW r \in Row, Enrich(a, r)
      PROVE  TInv'
  BY <1>4, Enriches
<1>5. ASSUME NEW a \in Askers, Answer(a) \/ Raise(a)
      PROVE  TInv'
  <2>1. /\ turn[a] # None
        /\ turn' = [turn EXCEPT ![a] = None]
        /\ UNCHANGED <<indexVars, cast, asked, losses, raised, escalated>>
        /\ remembered' \in {remembered, remembered \cup {turn[a].id}}
    BY <1>5 DEF Answer, Raise, At, Goto, Remembered
  <2> QED
    BY <2>1, TurnEnds
<1>6. ASSUME NEW l \in Alerts, RaiseAlert(l)
      PROVE  TInv'
  BY <1>6, RaisesAlert
<1>7. ASSUME NEW i \in remembered, Forget(i)
      PROVE  TInv'
  BY <1>7, Quiet DEF Forget, TInv, TypeOK
<1>8. CASE Elsewhere
  BY <1>8, GoesOnElsewhere
<1> QED
  BY <1>1, <1>2, <1>3, <1>4, <1>5, <1>6, <1>7, <1>8 DEF Next

LEMMA AlwaysTInv == Spec => []TInv
<1>1. TurnInit => TInv
  BY TurnInitial
<1>2. TInv /\ [Next]_vars => TInv'
  BY TurnStep
<1> QED
  BY <1>1, <1>2, PTL DEF Spec

\* What the model is shown is what the turn is sound about.
LEMMA SoundPayload == TInv => PayloadTruthful
<1> SUFFICES ASSUME TInv, NEW a \in Askers, At(a, "model")
             PROVE  /\ \A n \in OfKind(a, "grounded") \cup OfKind(a, "found") :
                         n.text # None => <<n.of, n.text>> \in turn[a].held
                    /\ \A n \in OfKind(a, "grounded") : n.of \notin Incomplete
                    /\ \A n \in OfKind(a, "found") :
                         LET e == turn[a].option.expression
                         IN  e # None /\ AnyOf(e) # {} =>
                               \E t \in Texts : /\ <<n.of, t>> \in turn[a].listed
                                                /\ ClassOf[n.of][t] \in Closure(e.any)
                    /\ \A n \in OfKind(a, "memory") : \A b \in Askers :
                         turn[b] # None => n.of # turn[b].id
                    /\ Reported(turn[a]) = Cardinality(Shown(turn[a]))
  BY DEF PayloadTruthful
<1>1. turn[a] # None /\ turn[a].at = "model" /\ Sound(turn[a])
  BY DEF At, TInv, AllSound
<1>2. \A kind, n : n \in OfKind(a, kind) <=> n \in turn[a].graph /\ n.kind = kind
  BY DEF OfKind, Shown
<1>3. \A n \in OfKind(a, "grounded") \cup OfKind(a, "found") :
        n.text # None => <<n.of, n.text>> \in turn[a].held
  BY <1>1, <1>2 DEF Sound, Watched
<1>4. \A n \in OfKind(a, "grounded") : n.of \notin Incomplete
  BY <1>1, <1>2 DEF Sound, Filtered, LetThrough
<1>5. ASSUME NEW n \in OfKind(a, "found"), NEW e, e = turn[a].option.expression,
             e # None, AnyOf(e) # {}
      PROVE  \E t \in Texts : /\ <<n.of, t>> \in turn[a].listed
                              /\ ClassOf[n.of][t] \in Closure(e.any)
  <2>1. PICK t \in Texts : <<n.of, t>> \in turn[a].listed /\ Passes(ClassOf[n.of][t], e)
    BY <1>1, <1>2, <1>5 DEF Sound, Filtered, LetThrough
  <2>2. AnyOf(e) \subseteq Closure(e.any)
    <3> DEFINE below == Closure(e.any)
    <3>1. AnyOf(e) = IF FlavorClasses = {} THEN below ELSE below \cap Closure(FlavorClasses)
      BY <1>5 DEF AnyOf, Narrowed
    <3> HIDE DEF below
    <3> QED
      BY <3>1 DEF below
  <2> QED
    BY <1>5, <2>1, <2>2 DEF Passes
<1>6. \A n \in OfKind(a, "memory") : \A b \in Askers :
        turn[b] # None => n.of # turn[b].id
  BY <1>1, <1>2 DEF TInv, Recalled
<1>7. Reported(turn[a]) = Cardinality(Shown(turn[a]))
  BY <1>1 DEF Reported, Shown, Sound, Tallied
<1> QED
  BY <1>3, <1>4, <1>5, <1>6, <1>7

\* The state is well formed, whoever asks, indexes or writes.
THEOREM TypeInvariant == Spec => []TypeOK
<1>1. TInv => TypeOK
  BY DEF TInv
<1> QED
  BY <1>1, AlwaysTInv, PTL

\* An undisturbed run of index_flavor leaves every row indexed with the text it
\* has, for any tables, batch size and leftovers of earlier runs.
THEOREM IndexCatchesUpHolds == Spec => []IndexCatchesUp
<1>1. TInv => IndexCatchesUp
  BY DEF TInv, IInv
<1> QED
  BY <1>1, AlwaysTInv, PTL

\* The payload shows no row as it was before the question, none the gate has
\* refused, none outside the class expression, no answer of a question still
\* open, and counts what it shows (RuntimeClient.ask).
THEOREM PayloadTruthfulHolds == Spec => []PayloadTruthful
  BY SoundPayload, AlwaysTInv, PTL

-----------------------------------------------------------------------------
(* Forward chaining *)

\* What holds of 0 and is passed on up to n holds of every number up to n.
LEMMA UpTo ==
    ASSUME NEW n \in Nat, NEW S, 0 \in S,
           \A k \in 0 .. n : k < n /\ k \in S => k + 1 \in S
    PROVE  0 .. n \subseteq S
<1>1. SUFFICES ASSUME (0 .. n) \ S # {} PROVE FALSE
  OBVIOUS
<1>2. (0 .. n) \ S \subseteq Nat
  OBVIOUS
<1> DEFINE T == (0 .. n) \ S
<1>3. \E k \in T : \A j \in T : <<j, k>> \notin OpToRel(<, Nat)
  <2> HIDE DEF T
  <2>1. T \subseteq Nat /\ T # {}
    BY <1>1, <1>2 DEF T
  <2> QED BY <2>1, WFMin, NatLessThanWellFounded
<1>4. PICK k \in T : \A j \in T : ~(j < k)
  BY <1>2, <1>3 DEF OpToRel
<1>5. k \in 0 .. n /\ k \notin S
  BY <1>4
<1>6. k # 0 /\ k - 1 \in 0 .. n /\ k - 1 < k /\ k - 1 < n
  BY <1>5
<1>7. k - 1 \in S
  BY <1>4, <1>6
<1>8. (k - 1) + 1 \in S
  BY <1>6, <1>7
<1>9. (k - 1) + 1 = k
  BY <1>5
<1> QED BY <1>5, <1>8, <1>9

\* A function on numbers exists if each value can be had from the one before:
\* here the rounds of reason ...
LEMMA ChainedExists ==
    ASSUME NEW base, Len(Rules) \in Nat
    PROVE  /\ Chained(base)[0] = [known |-> base, lineage |-> {}]
           /\ \A k \in 1 .. Len(Rules) :
                 Chained(base)[k] = Round(Chained(base)[k - 1])
<1> DEFINE n == Len(Rules)
           d == [known |-> base, lineage |-> {}]
           Is(s, m) == s = [k \in 0 .. m |-> IF k = 0 THEN d ELSE Round(s[k - 1])]
           S == {m \in 0 .. n : \E s : Is(s, m)}
<1> HIDE DEF d
<1>1. 0 \in S
  <2> DEFINE s == [k \in 0 .. 0 |-> d]
  <2>1. Is(s, 0)
    OBVIOUS
  <2>2. 0 \in 0 .. n
    OBVIOUS
  <2>3. \E r : Is(r, 0)
    BY <2>1
  <2> HIDE DEF Is
  <2> QED BY <2>2, <2>3
<1>2. ASSUME NEW m \in 0 .. n, m < n, m \in S PROVE m + 1 \in S
  <2>1. PICK s : Is(s, m)
    BY <1>2
  <2> DEFINE t == [k \in 0 .. m + 1 |-> IF k = m + 1 THEN Round(s[m]) ELSE s[k]]
  <2>2. \A k \in 0 .. m : t[k] = s[k]
    OBVIOUS
  <2>3. \A k \in 0 .. m + 1 : t[k] = IF k = 0 THEN d ELSE Round(t[k - 1])
    <3>1. TAKE k \in 0 .. m + 1
    <3>2. CASE k = m + 1
      BY <2>2, <3>2
    <3>3. CASE k # m + 1
      <4>1. k \in 0 .. m /\ (k # 0 => k - 1 \in 0 .. m)
        BY <3>3
      <4> QED BY <2>1, <2>2, <4>1
    <3> QED BY <3>2, <3>3
  <2>4. Is(t, m + 1)
    <3> HIDE DEF t
    <3> QED BY <2>3 DEF t
  <2>5. m + 1 \in 0 .. n
    BY <1>2
  <2> HIDE DEF Is
  <2>6. \E r : Is(r, m + 1)
    BY <2>4
  <2> QED BY <2>5, <2>6
<1>3. n \in S
  <2>1. n \in Nat /\ n \in 0 .. n
    OBVIOUS
  <2> HIDE DEF n, S
  <2>2. 0 .. n \subseteq S
    BY <1>1, <1>2, <2>1, UpTo
  <2> QED BY <2>1, <2>2
<1>4. \E s : Is(s, n)
  BY <1>3
<1>5. Chained(base) = CHOOSE s : Is(s, n)
  BY DEF Chained, d
<1>6. Is(Chained(base), n)
  BY <1>4, <1>5
<1>7. Chained(base) = [k \in 0 .. n |-> IF k = 0 THEN d ELSE Round(Chained(base)[k - 1])]
  BY <1>6
<1> DEFINE r == Chained(base)
<1> HIDE DEF r
<1>8. n \in Nat /\ r = [k \in 0 .. n |-> IF k = 0 THEN d ELSE Round(r[k - 1])]
  BY <1>7 DEF r
<1> HIDE DEF n
<1>9. 0 \in 0 .. n /\ \A k \in 1 .. n : k \in 0 .. n /\ k # 0
  BY <1>8
<1>10. r[0] = d /\ \A k \in 1 .. n : r[k] = Round(r[k - 1])
  BY <1>8, <1>9
<1> QED BY <1>10 DEF r, n, d

\* ... and here the facts reached along a lineage.
LEMMA ReachedExists ==
    ASSUME NEW base, NEW lineage, Len(Rules) \in Nat
    PROVE  /\ Reached(base, lineage)[0] = base
           /\ \A k \in 1 .. Len(Rules) :
                 Reached(base, lineage)[k] =
                     Following(lineage, Reached(base, lineage)[k - 1])
<1> DEFINE n == Len(Rules)
           d == base
           Is(s, m) == s = [k \in 0 .. m |-> IF k = 0 THEN d ELSE Following(lineage, s[k - 1])]
           S == {m \in 0 .. n : \E s : Is(s, m)}
<1> HIDE DEF d
<1>1. 0 \in S
  <2> DEFINE s == [k \in 0 .. 0 |-> d]
  <2>1. Is(s, 0)
    OBVIOUS
  <2>2. 0 \in 0 .. n
    OBVIOUS
  <2>3. \E r : Is(r, 0)
    BY <2>1
  <2> HIDE DEF Is
  <2> QED BY <2>2, <2>3
<1>2. ASSUME NEW m \in 0 .. n, m < n, m \in S PROVE m + 1 \in S
  <2>1. PICK s : Is(s, m)
    BY <1>2
  <2> DEFINE t == [k \in 0 .. m + 1 |-> IF k = m + 1 THEN Following(lineage, s[m]) ELSE s[k]]
  <2>2. \A k \in 0 .. m : t[k] = s[k]
    OBVIOUS
  <2>3. \A k \in 0 .. m + 1 : t[k] = IF k = 0 THEN d ELSE Following(lineage, t[k - 1])
    <3>1. TAKE k \in 0 .. m + 1
    <3>2. CASE k = m + 1
      BY <2>2, <3>2
    <3>3. CASE k # m + 1
      <4>1. k \in 0 .. m /\ (k # 0 => k - 1 \in 0 .. m)
        BY <3>3
      <4> QED BY <2>1, <2>2, <4>1
    <3> QED BY <3>2, <3>3
  <2>4. Is(t, m + 1)
    <3> HIDE DEF t
    <3> QED BY <2>3 DEF t
  <2>5. m + 1 \in 0 .. n
    BY <1>2
  <2> HIDE DEF Is
  <2>6. \E r : Is(r, m + 1)
    BY <2>4
  <2> QED BY <2>5, <2>6
<1>3. n \in S
  <2>1. n \in Nat /\ n \in 0 .. n
    OBVIOUS
  <2> HIDE DEF n, S
  <2>2. 0 .. n \subseteq S
    BY <1>1, <1>2, <2>1, UpTo
  <2> QED BY <2>1, <2>2
<1>4. \E s : Is(s, n)
  BY <1>3
<1>5. Reached(base, lineage) = CHOOSE s : Is(s, n)
  BY DEF Reached, d
<1>6. Is(Reached(base, lineage), n)
  BY <1>4, <1>5
<1>7. Reached(base, lineage) = [k \in 0 .. n |-> IF k = 0 THEN d ELSE Following(lineage, Reached(base, lineage)[k - 1])]
  BY <1>6
<1> DEFINE r == Reached(base, lineage)
<1> HIDE DEF r
<1>8. n \in Nat /\ r = [k \in 0 .. n |-> IF k = 0 THEN d ELSE Following(lineage, r[k - 1])]
  BY <1>7 DEF r
<1> HIDE DEF n
<1>9. 0 \in 0 .. n /\ \A k \in 1 .. n : k \in 0 .. n /\ k # 0
  BY <1>8
<1>10. r[0] = d /\ \A k \in 1 .. n : r[k] = Following(lineage, r[k - 1])
  BY <1>8, <1>9
<1> QED BY <1>10 DEF r, n, d

\* What a round adds: facts not known before it, each with a lineage from
\* what was.
LEMMA RoundAdds ==
    ASSUME NEW r, r.known \subseteq Facts, r.lineage \in Lineages,
           \A l \in r.lineage : l.fact \in r.known
    PROVE  /\ Round(r).known \subseteq Facts
           /\ Round(r).lineage \in Lineages
           /\ \A l \in Round(r).lineage : l.fact \in Round(r).known
           /\ r.known \subseteq Round(r).known
           /\ r.lineage \subseteq Round(r).lineage
           /\ \A x \in Round(r).known \ r.known :
                 \E l \in Round(r).lineage : l.fact = x /\ l.from \subseteq r.known
<1> DEFINE fired == {i \in DOMAIN Rules : Fires(i, r.known)}
           first == {i \in fired : \A k \in fired :
                        Rules[k].head = Rules[i].head => i <= k}
           fresh == {Rules[i].head : i \in first}
           added == {[fact |-> Rules[i].head, from |-> Rules[i].body] : i \in first}
<1>1. /\ Round(r).known = r.known \cup fresh
      /\ Round(r).lineage = {l \in r.lineage : l.fact \notin fresh} \cup added
  BY DEF Round
<1>2. \A i \in first : /\ Rules[i].body \subseteq r.known
                       /\ Rules[i].head \notin r.known
                       /\ Rules[i].head \in Facts
                       /\ Rules[i].body \in SUBSET Facts
  BY RulesTyped DEF Fires, Facts
<1> HIDE DEF first
<1>3. \A l \in r.lineage : l.fact \notin fresh
  BY <1>2
<1>4. {l \in r.lineage : l.fact \notin fresh} = r.lineage
  BY <1>3
<1>5. /\ Round(r).known = r.known \cup fresh
      /\ Round(r).lineage = r.lineage \cup added
  BY <1>1, <1>4
<1>6. fresh \subseteq Facts /\ added \in Lineages
  BY <1>2 DEF Lineages
<1>7. \A l \in added : l.fact \in fresh
  OBVIOUS
<1>8. ASSUME NEW x \in fresh
      PROVE  \E l \in added : l.fact = x /\ l.from \subseteq r.known
  <2>1. PICK i \in first : x = Rules[i].head
    OBVIOUS
  <2>2. [fact |-> Rules[i].head, from |-> Rules[i].body] \in added
    BY <2>1
  <2>3. Rules[i].body \subseteq r.known
    BY <1>2, <2>1
  <2> HIDE DEF added
  <2> QED BY <2>1, <2>2, <2>3
<1>9. Round(r).lineage \in Lineages
  BY <1>5, <1>6 DEF Lineages
<1> HIDE DEF fresh, added
<1> QED BY <1>5, <1>6, <1>7, <1>8, <1>9

\* The facts that reason derives from the rows it was given are typed, and
\* each goes back to those rows along the lineages it reports: a fact derived
\* in round n is reached by ways of length n.
LEMMA ReasonedSupported ==
    ASSUME NEW base \in SUBSET Facts
    PROVE  /\ Reasoned(base) \in Lineages
           /\ {l.fact : l \in Reasoned(base)} \subseteq Supported(base, Reasoned(base))
<1> DEFINE n == Len(Rules)
           c == Chained(base)
           final == c[n].lineage
           s == Reached(base, final)
           Good(k) == /\ c[k].known \subseteq Facts
                      /\ c[k].lineage \in Lineages
                      /\ \A l \in c[k].lineage : l.fact \in c[k].known
<1>1. n \in Nat
  BY RulesTyped
<1>2. /\ c[0] = [known |-> base, lineage |-> {}]
      /\ \A k \in 1 .. n : c[k] = Round(c[k - 1])
  BY <1>1, ChainedExists
<1>3. /\ s[0] = base
      /\ \A k \in 1 .. n : s[k] = Following(final, s[k - 1])
  <2> HIDE DEF final
  <2> QED BY <1>1, ReachedExists
<1>4. Reasoned(base) = final /\ Supported(base, final) = s[n]
  BY DEF Reasoned, Supported
<1> HIDE DEF n, c, s
<1>5. 0 .. n \subseteq {k \in 0 .. n : Good(k)}
  <2> DEFINE S == {k \in 0 .. n : Good(k)}
  <2>1. 0 \in S
    BY <1>1, <1>2 DEF Lineages
  <2>2. ASSUME NEW k \in 0 .. n, k < n, k \in S PROVE k + 1 \in S
    <3>1. k + 1 \in 1 .. n /\ (k + 1) - 1 = k /\ k + 1 \in 0 .. n
      BY <1>1, <2>2
    <3>2. c[k + 1] = Round(c[k])
      BY <1>2, <3>1
    <3>3. Good(k)
      BY <2>2
    <3>4. Good(k + 1)
      BY <3>2, <3>3, RoundAdds
    <3> QED BY <3>1, <3>4
  <2> HIDE DEF S
  <2>3. 0 .. n \subseteq S
    BY <1>1, <2>1, <2>2, UpTo
  <2> QED BY <2>3 DEF S
<1>6. \A k \in 0 .. n : Good(k)
  BY <1>5
<1> HIDE DEF Good
\* Lineages are only added.
<1>7. \A k \in 0 .. n : k < n => c[k].lineage \subseteq c[k + 1].lineage
  <2>1. TAKE k \in 0 .. n
  <2>2. HAVE k < n
  <2>3. k + 1 \in 1 .. n /\ (k + 1) - 1 = k
    BY <1>1, <2>2
  <2>4. c[k + 1] = Round(c[k])
    BY <1>2, <2>3
  <2> QED BY <2>4, <1>6, RoundAdds DEF Good
<1>8. \A j \in 0 .. n : c[j].lineage \subseteq final
  <2> DEFINE S == {k \in 0 .. n : \A j \in 0 .. k : c[j].lineage \subseteq c[k].lineage}
  <2>1. 0 \in S
    BY <1>1
  <2>2. ASSUME NEW k \in 0 .. n, k < n, k \in S PROVE k + 1 \in S
    <3>1. k + 1 \in 0 .. n /\ \A j \in 0 .. k + 1 : j \in 0 .. k \/ j = k + 1
      BY <1>1, <2>2
    <3>2. c[k].lineage \subseteq c[k + 1].lineage
      BY <1>7, <2>2
    <3> QED BY <2>2, <3>1, <3>2
  <2>3. 0 .. n \subseteq S
    <3> HIDE DEF S
    <3> QED BY <1>1, <2>1, <2>2, UpTo
  <2>4. n \in S
    BY <1>1, <2>3
  <2> QED BY <2>4
\* What is known after a round is reached by then.
<1>9. c[n].known \subseteq s[n]
  <2> DEFINE S == {k \in 0 .. n : c[k].known \subseteq s[k]}
  <2>1. 0 \in S
    BY <1>1, <1>2, <1>3
  <2>2. ASSUME NEW k \in 0 .. n, k < n, k \in S PROVE k + 1 \in S
    <3>1. k + 1 \in 1 .. n /\ (k + 1) - 1 = k /\ k + 1 \in 0 .. n
      BY <1>1, <2>2
    <3>2. c[k + 1] = Round(c[k]) /\ s[k + 1] = Following(final, s[k])
      BY <1>2, <1>3, <3>1
    <3>3. c[k].known \subseteq s[k] /\ Round(c[k]).lineage \subseteq final
      BY <1>8, <2>2, <3>1, <3>2
    <3>4. \A x \in Round(c[k]).known \ c[k].known :
             \E l \in Round(c[k]).lineage : l.fact = x /\ l.from \subseteq c[k].known
      BY <1>6, RoundAdds DEF Good
    <3> HIDE DEF final
    <3>5. \A x \in Round(c[k]).known \ c[k].known :
             \E l \in final : l.fact = x /\ l.from \subseteq s[k]
      BY <3>3, <3>4
    <3>6. Round(c[k]).known \subseteq Following(final, s[k])
      BY <3>3, <3>5 DEF Following
    <3> QED BY <3>1, <3>2, <3>6
  <2>3. 0 .. n \subseteq S
    <3> HIDE DEF S
    <3> QED BY <1>1, <2>1, <2>2, UpTo
  <2> QED BY <1>1, <2>3
<1>10. n \in 0 .. n
  BY <1>1
<1>11. final \in Lineages /\ \A l \in final : l.fact \in c[n].known
  BY <1>6, <1>10 DEF Good
<1> HIDE DEF final
<1> QED BY <1>4, <1>9, <1>11

\* More facts to start from support no less.
LEMMA SupportedMore ==
    ASSUME NEW small, NEW large, small \subseteq large, NEW lineage
    PROVE  Supported(small, lineage) \subseteq Supported(large, lineage)
<1> DEFINE n == Len(Rules)
           r == Reached(small, lineage)
           q == Reached(large, lineage)
           S == {k \in 0 .. n : r[k] \subseteq q[k]}
<1>1. n \in Nat
  BY RulesTyped
<1>2. /\ r[0] = small
      /\ \A k \in 1 .. n : r[k] = Following(lineage, r[k - 1])
  BY <1>1, ReachedExists
<1>3. /\ q[0] = large
      /\ \A k \in 1 .. n : q[k] = Following(lineage, q[k - 1])
  BY <1>1, ReachedExists
<1>4. Supported(small, lineage) = r[n] /\ Supported(large, lineage) = q[n]
  BY DEF Supported
<1> HIDE DEF n, r, q
<1>5. 0 \in S
  BY <1>1, <1>2, <1>3
<1>6. \A k \in 0 .. n : k < n /\ k \in S => k + 1 \in S
  <2> SUFFICES ASSUME NEW k \in 0 .. n, k < n, k \in S PROVE k + 1 \in S
    OBVIOUS
  <2>1. k + 1 \in 1 .. n /\ k + 1 - 1 = k /\ r[k] \subseteq q[k]
    BY <1>1
  <2> DEFINE m == k + 1
  <2>2. m \in 1 .. n /\ m - 1 = k
    BY <2>1
  <2> HIDE DEF m
  <2>3. r[m] = Following(lineage, r[k]) /\ q[m] = Following(lineage, q[k])
    BY <1>2, <1>3, <2>2
  <2>4. Following(lineage, r[k]) \subseteq Following(lineage, q[k])
    BY <2>1 DEF Following
  <2>5. m \in 0 .. n /\ r[m] \subseteq q[m]
    BY <1>1, <2>2, <2>3, <2>4
  <2> QED BY <2>5 DEF m
<1>7. n \in 0 .. n /\ 0 .. n \subseteq S
  <2>1. n \in 0 .. n
    BY <1>1
  <2> HIDE DEF S
  <2> QED BY <1>1, <1>5, <1>6, <2>1, UpTo
<1> QED BY <1>4, <1>7

-----------------------------------------------------------------------------
(* The searches *)

Events == {"stage", "answer", "error", "end"}

\* The plan that is reported is of the query that is executed.
OnTable(f, a) == /\ a.class = a.table
                 /\ a.table \in Vocab[f] \cap Permitted(f) \cap Mapped

\* Of the facts a search starts from, and of what was derived from them.
Explained(found, lineage) == {l.fact : l \in lineage} \subseteq Supported(found, lineage)

FromTable(f, a) ==
    /\ a.graph \ {a.table} \subseteq References[a.table] \cap Permitted(f) \cap Readable
    /\ Explained(a.graph \cup a.told, a.inferred)

\* What a search knows at each of its places: a plan that was accepted is of
\* the table about to be read, and so it stays once a row was found.
Prepared(j) ==
    /\ j.at \in {"lookup", "plan"} => j.answer.seen = 0
    /\ j.at = "execute" => j.answer.seen = 0 /\ OnTable(j.flavor, j.answer)
    /\ j.at \in {"relate", "synthesize"} =>
          j.answer.seen = 0 \/ OnTable(j.flavor, j.answer)
    /\ j.at = "synthesize" => j.answer.seen = 0 \/ FromTable(j.flavor, j.answer)

Responded(r) == /\ r.flavor \in Flavors
                /\ r.answer # Nothing => r.answer \in SearchAnswer
                                         /\ AnswerGrounded(r.flavor, r.answer)

Entered(f, e) == /\ e.age \in 0 .. TTL
                 /\ e.answer \in SearchAnswer
                 /\ AnswerGrounded(f, e.answer)

SearchInv ==
    /\ data \in [Mapped -> 1 .. MaxVersions]
    /\ meeting \in Meetings
    /\ client \in [Streams -> {"new", "open", "served", "left"}]
    /\ queue \in [Streams -> Seq(Events)]
    /\ DOMAIN job = Calls /\ DOMAIN response = Calls /\ DOMAIN cache = Flavors
    /\ \A s \in Calls : job[s] # Nothing => job[s] \in Job /\ Prepared(job[s])
    /\ \A s \in Calls : response[s] # Nothing => Responded(response[s])
    /\ \A f \in Flavors : cache[f] # Nothing => Entered(f, cache[f])

LEMMA SearchInvImplies == SearchInv => SearchTypeOK /\ SearchGrounded
<1> SUFFICES ASSUME SearchInv PROVE SearchTypeOK /\ SearchGrounded
  OBVIOUS
<1>1. \A s \in Streams : \A i \in DOMAIN queue[s] : queue[s][i] \in Events
  <2> TAKE s \in Streams
  <2>1. queue[s] \in Seq(Events)
    BY DEF SearchInv
  <2> QED BY <2>1
<1> QED BY <1>1 DEF SearchInv, SearchTypeOK, SearchGrounded, Responded, Entered, Events

LEMMA SearchInitial == SearchInit => SearchInv
<1> SUFFICES ASSUME SearchInit PROVE SearchInv
  OBVIOUS
<1>1. queue \in [Streams -> Seq(Events)]
  <2>1. << >> \in Seq(Events)
    OBVIOUS
  <2> QED BY <2>1 DEF SearchInit
<1>2. data \in [Mapped -> 1 .. MaxVersions]
  BY NumbersNat DEF SearchInit
<1> QED BY <1>1, <1>2 DEF SearchInit, SearchInv

LEMMA Queued ==
    ASSUME queue \in [Streams -> Seq(Events)], NEW s, NEW n \in Nat,
           NEW last \in {"answer", "error"}
    PROVE  /\ Emitted(s, n) \in [Streams -> Seq(Events)]
           /\ Ended(s, n, last) \in [Streams -> Seq(Events)]
<1>1. CASE s \notin Streams
  BY <1>1 DEF Emitted, Ended
<1>2. CASE s \in Streams
  <2> DEFINE stages == [i \in 1 .. n |-> "stage"]
             q == queue[s]
  <2>1. q \in Seq(Events)
    BY <1>2
  <2>2. stages \in Seq(Events)
    BY DEF Events
  <2>3. <<last, "end">> \in Seq(Events)
    BY DEF Events
  <2> HIDE DEF stages, q
  <2>4. q \o stages \in Seq(Events)
    BY <2>1, <2>2
  <2>5. q \o stages \o <<last, "end">> \in Seq(Events)
    BY <2>3, <2>4
  <2>6. /\ Emitted(s, n) = [queue EXCEPT ![s] = q \o stages]
        /\ Ended(s, n, last) = [queue EXCEPT ![s] = q \o stages \o <<last, "end">>]
    BY <1>2 DEF Emitted, Ended, Closing, stages, q
  <2> DEFINE v == q \o stages
             w == q \o stages \o <<last, "end">>
  <2> HIDE DEF v, w
  <2>7. /\ [queue EXCEPT ![s] = v] \in [Streams -> Seq(Events)]
        /\ [queue EXCEPT ![s] = w] \in [Streams -> Seq(Events)]
    BY <2>4, <2>5 DEF v, w
  <2> QED BY <2>6, <2>7 DEF v, w
<1> QED BY <1>1, <1>2

\* The three ways a step of a search ends keep the invariant.
LEMMA AdvanceKeeps ==
    ASSUME SearchInv, NEW s \in Calls, NEW j \in Job, Prepared(j), NEW n \in Nat,
           Advance(s, j, n)
    PROVE  SearchInv'
<1>1. queue' \in [Streams -> Seq(Events)]
  BY Queued DEF Advance, SearchInv
<1>2. /\ DOMAIN job' = Calls
      /\ \A t \in Calls : job'[t] = IF t = s THEN j ELSE job[t]
  BY DEF Advance, SearchInv
<1>3. \A t \in Calls : job'[t] # Nothing => job'[t] \in Job /\ Prepared(job'[t])
  BY <1>2 DEF SearchInv
<1> QED BY <1>1, <1>2, <1>3 DEF Advance, SearchInv

LEMMA FailKeeps ==
    ASSUME SearchInv, NEW s \in Calls, job[s] # Nothing, Fail(s)
    PROVE  SearchInv'
<1>1. queue' \in [Streams -> Seq(Events)]
  BY Queued DEF Fail, SearchInv
<1> DEFINE r == [flavor |-> job[s].flavor, answer |-> Nothing]
<1>2. Responded(r)
  BY DEF SearchInv, Job, Responded
<1> HIDE DEF r
<1>3. /\ DOMAIN job' = Calls
      /\ \A t \in Calls : job'[t] = IF t = s THEN Nothing ELSE job[t]
      /\ DOMAIN response' = Calls
      /\ \A t \in Calls : response'[t] = IF t = s THEN r ELSE response[t]
  BY DEF Fail, SearchInv, r
<1>4. \A t \in Calls : job'[t] # Nothing => job'[t] \in Job /\ Prepared(job'[t])
  BY <1>3 DEF SearchInv
<1>5. \A t \in Calls : response'[t] # Nothing => Responded(response'[t])
  BY <1>2, <1>3 DEF SearchInv
<1> QED BY <1>1, <1>3, <1>4, <1>5 DEF Fail, SearchInv

LEMMA FinishKeeps ==
    ASSUME SearchInv, NEW s \in Calls, job[s] # Nothing, NEW a \in SearchAnswer,
           AnswerGrounded(job[s].flavor, a), NEW n \in Nat, Finish(s, a, n)
    PROVE  SearchInv'
<1> DEFINE f == job[s].flavor
           r == [flavor |-> f, answer |-> a]
           e == [age |-> 0, answer |-> a]
<1>1. queue' \in [Streams -> Seq(Events)]
  BY Queued DEF Finish, SearchInv
<1>2. f \in Flavors
  BY DEF SearchInv, Job
<1>3. Responded(r) /\ Entered(f, e)
  BY <1>2, NumbersNat DEF Responded, Entered
<1>4. /\ DOMAIN job' = Calls
      /\ \A t \in Calls : job'[t] = IF t = s THEN Nothing ELSE job[t]
  BY DEF Finish, SearchInv
<1>5. /\ response' = [response EXCEPT ![s] = r]
      /\ cache' = IF s \in Cached THEN [cache EXCEPT ![f] = e] ELSE cache
  BY DEF Finish, Key
<1> HIDE DEF f, r, e
<1>6. /\ DOMAIN response' = Calls
      /\ \A t \in Calls : response'[t] = IF t = s THEN r ELSE response[t]
  BY <1>5 DEF SearchInv
<1>7. /\ DOMAIN cache' = Flavors
      /\ \A g \in Flavors : (cache'[g] = e /\ g = f) \/ cache'[g] = cache[g]
  BY <1>2, <1>5 DEF SearchInv
<1>8. \A t \in Calls : job'[t] # Nothing => job'[t] \in Job /\ Prepared(job'[t])
  BY <1>4 DEF SearchInv
<1>9. \A t \in Calls : response'[t] # Nothing => Responded(response'[t])
  BY <1>3, <1>6 DEF SearchInv
<1>10. \A g \in Flavors : cache'[g] # Nothing => Entered(g, cache'[g])
  BY <1>3, <1>7 DEF SearchInv
<1> QED BY <1>1, <1>4, <1>6, <1>7, <1>8, <1>9, <1>10 DEF Finish, SearchInv

\* A search at another place, with another answer, and counted on.
MovedTo(j, at, a) == [j EXCEPT !.at = at, !.answer = a]
Retried(j, n) == [j EXCEPT !.tries = n]
Replanned(j, k) == [j EXCEPT !.replans = k]

LEMMA Moved ==
    ASSUME NEW j \in Job, NEW at \in {"lookup", "plan", "execute", "relate", "synthesize"},
           NEW a \in SearchAnswer
    PROVE  /\ MovedTo(j, at, a) \in Job
           /\ MovedTo(j, at, a).at = at
           /\ MovedTo(j, at, a).answer = a
           /\ MovedTo(j, at, a).flavor = j.flavor
BY DEF Job, MovedTo

LEMMA Counted ==
    ASSUME NEW j \in Job
    PROVE  /\ \A n \in 0 .. 1 : Retried(j, n) \in Job /\ Retried(j, n).flavor = j.flavor
           /\ \A k \in 0 .. MaxReplans : Replanned(j, k) \in Job
BY DEF Job, Retried, Replanned

\* A search that begins is typed, and knows nothing of rows.
LEMMA NewTyped ==
    ASSUME NEW s, NEW f \in Flavors, NEW rules \in {"none", "good", "bad"},
           NEW told \in SUBSET Facts
    PROVE  /\ NewJob(s, f, rules, told) \in Job
           /\ Prepared(NewJob(s, f, rules, told))
           /\ s \notin Cached => NewJob(s, f, rules, told).at = "plan"
<1> DEFINE a == [Blank EXCEPT !.told = told]
<1>1. a \in SearchAnswer /\ a.seen = 0
  BY NumbersNat DEF Blank, SearchAnswer, Lineages
<1>2. NewJob(s, f, rules, told) =
         [at |-> IF s \in Cached THEN "lookup" ELSE "plan", flavor |-> f,
          rules |-> rules, tries |-> 0, replans |-> 0, answer |-> a]
  BY DEF NewJob
<1> HIDE DEF a
<1> DEFINE j == NewJob(s, f, rules, told)
<1>3. j \in Job
  BY <1>1, <1>2, NumbersNat DEF Job
<1>4. j.at \in {"lookup", "plan"} /\ j.answer = a /\ (s \notin Cached => j.at = "plan")
  BY <1>2
<1> HIDE DEF j
<1>5. Prepared(j)
  BY <1>1, <1>4 DEF Prepared
<1> QED BY <1>3, <1>4, <1>5 DEF j

LEMMA RequestKeeps ==
    ASSUME SearchInv, NEW s \in Calls, Request(s) PROVE SearchInv'
<1>1. PICK f \in Flavors, rules \in {"none", "good", "bad"}, told \in SUBSET Facts :
         job' = [job EXCEPT ![s] = NewJob(s, f, rules, told)]
  BY MeetingsTyped, RulesTyped DEF Request
<1> DEFINE j == NewJob(s, f, rules, told)
<1>3. j \in Job
  BY NewTyped
<1>4. Prepared(j)
  BY NewTyped
<1> HIDE DEF j
<1>5. /\ DOMAIN job' = Calls
      /\ \A t \in Calls : job'[t] = IF t = s THEN j ELSE job[t]
  BY <1>1 DEF SearchInv, j
<1>6. \A t \in Calls : job'[t] # Nothing => job'[t] \in Job /\ Prepared(job'[t])
  BY <1>3, <1>4, <1>5 DEF SearchInv
<1>7. /\ DOMAIN response' = Calls
      /\ \A t \in Calls : response'[t] # Nothing => Responded(response'[t])
  BY DEF Request, SearchInv
<1>8. queue' \in [Streams -> Seq(Events)]
  <2>1. queue' \in {Emitted(s, 0), Emitted(s, 1)}
    BY DEF Request, AfterRecall
  <2>2. \A n \in Nat : Emitted(s, n) \in [Streams -> Seq(Events)]
    BY Queued DEF SearchInv
  <2> QED BY <2>1, <2>2
<1>9. client' \in [Streams -> {"new", "open", "served", "left"}]
  BY DEF Request, SearchInv
<1> QED BY <1>5, <1>6, <1>7, <1>8, <1>9 DEF Request, SearchInv

LEMMA ServeCachedKeeps ==
    ASSUME SearchInv, NEW s \in Calls, ServeCached(s) PROVE SearchInv'
<1> DEFINE f == job[s].flavor
           r == [flavor |-> f, answer |-> cache[f].answer]
<1>1. f \in Flavors /\ cache[f] # Nothing
  BY DEF ServeCached, SearchInv, Job, Hit, Key
<1>2. Responded(r)
  BY <1>1 DEF SearchInv, Entered, Responded
<1>3. /\ job' = [job EXCEPT ![s] = Nothing]
      /\ response' = [response EXCEPT ![s] = r]
  BY DEF ServeCached, Key
<1> HIDE DEF r, f
<1>4. /\ DOMAIN job' = Calls
      /\ \A t \in Calls : job'[t] = IF t = s THEN Nothing ELSE job[t]
      /\ DOMAIN response' = Calls
      /\ \A t \in Calls : response'[t] = IF t = s THEN r ELSE response[t]
  BY <1>3 DEF SearchInv
<1>5. \A t \in Calls : job'[t] # Nothing => job'[t] \in Job /\ Prepared(job'[t])
  BY <1>4 DEF SearchInv
<1>6. \A t \in Calls : response'[t] # Nothing => Responded(response'[t])
  BY <1>2, <1>4 DEF SearchInv
<1> QED BY <1>4, <1>5, <1>6 DEF ServeCached, Used, SearchInv, stream

LEMMA MissKeeps ==
    ASSUME SearchInv, NEW s \in Calls, Miss(s) PROVE SearchInv'
<1> DEFINE j == [job[s] EXCEPT !.at = "plan"]
<1>1. job[s] \in Job /\ Prepared(job[s]) /\ job[s].at = "lookup"
  BY DEF Miss, Standing, SearchInv
<1>2. j \in Job /\ Prepared(j)
  BY <1>1 DEF Job, Prepared
<1> HIDE DEF j
<1> QED BY <1>2, AdvanceKeeps DEF Miss, j

LEMMA GarbledKeeps ==
    ASSUME SearchInv, NEW s \in Calls, Garbled(s) PROVE SearchInv'
<1> DEFINE j == [job[s] EXCEPT !.tries = 1]
<1>1. job[s] \in Job /\ Prepared(job[s]) /\ job[s].at = "plan" /\ job[s] # Nothing
  BY DEF Garbled, Standing, SearchInv
<1>2. j \in Job /\ Prepared(j)
  BY <1>1 DEF Job, Prepared
<1> HIDE DEF j
<1>3. Advance(s, j, 0) \/ Fail(s)
  BY DEF Garbled, j
<1> QED BY <1>1, <1>2, <1>3, AdvanceKeeps, FailKeeps

\* A plan that is accepted, the first or the second.
LEMMA PlannedPrepared ==
    ASSUME NEW s, job[s] \in Job, Prepared(job[s]), job[s].at = "plan",
           NEW c \in Names, NEW filter, Known(s, c), Compiles(s, c, filter)
    PROVE  Planned(s, c) \in Job /\ Prepared(Planned(s, c))
<1> DEFINE a == [job[s].answer EXCEPT !.class = c, !.table = c]
<1>1. a \in SearchAnswer /\ a.class = c /\ a.table = c /\ a.seen = 0
  BY DEF Job, SearchAnswer, Prepared
<1>2. Planned(s, c) = [job[s] EXCEPT !.at = "execute", !.tries = 0, !.answer = a]
  BY DEF Planned, Job, SearchAnswer
<1> HIDE DEF a
<1>3. /\ Planned(s, c) \in Job
      /\ Planned(s, c).at = "execute"
      /\ Planned(s, c).answer = a
      /\ Planned(s, c).flavor = job[s].flavor
  <2> DEFINE j == Retried(job[s], 0)
  <2>1. Planned(s, c) = MovedTo(j, "execute", a)
    BY <1>2 DEF Job, MovedTo, Retried
  <2>2. 0 \in 0 .. 1
    OBVIOUS
  <2>3. j \in Job /\ j.flavor = job[s].flavor
    BY <2>2, Counted
  <2> HIDE DEF j
  <2>4. /\ MovedTo(j, "execute", a) \in Job
        /\ MovedTo(j, "execute", a).at = "execute"
        /\ MovedTo(j, "execute", a).answer = a
        /\ MovedTo(j, "execute", a).flavor = j.flavor
    BY <1>1, <2>3, Moved
  <2> QED BY <2>1, <2>3, <2>4
<1>4. OnTable(job[s].flavor, a)
  BY <1>1 DEF OnTable, Known, Compiles, HasTable
<1> QED BY <1>1, <1>3, <1>4 DEF Prepared

LEMMA TerminalTyped ==
    ASSUME NEW s, job[s] \in Job, NEW c \in Names \cup {Nothing},
           NEW status \in {"blocked", "ungrounded"}
    PROVE  /\ Terminal(s, status, c) \in SearchAnswer
           /\ \A f : AnswerGrounded(f, Terminal(s, status, c))
BY DEF Terminal, Job, SearchAnswer, AnswerGrounded

LEMMA PlanKeeps ==
    ASSUME SearchInv, NEW s \in Calls, NEW c \in Names, NEW filter, Plan(s, c, filter)
    PROVE  SearchInv'
<1>1. job[s] \in Job /\ Prepared(job[s]) /\ job[s].at = "plan" /\ job[s] # Nothing
  BY DEF Plan, Standing, SearchInv
<1>2. CASE Finish(s, Terminal(s, "ungrounded", Nothing), 1)
  BY <1>1, <1>2, TerminalTyped, FinishKeeps
<1>3. CASE Finish(s, Terminal(s, "blocked", c), 1)
  BY <1>1, <1>3, TerminalTyped, FinishKeeps
<1>4. CASE Finish(s, Terminal(s, "ungrounded", Nothing), 2)
  BY <1>1, <1>4, TerminalTyped, FinishKeeps
<1>5. CASE Known(s, c) /\ Compiles(s, c, filter) /\ Advance(s, Planned(s, c), 1)
  BY <1>1, <1>5, PlannedPrepared, AdvanceKeeps
<1> QED BY <1>2, <1>3, <1>4, <1>5 DEF Plan

LEMMA ReplanKeeps ==
    ASSUME SearchInv, NEW s \in Calls, NEW c \in Names, NEW filter, Replan(s, c, filter)
    PROVE  SearchInv'
<1>1. job[s] \in Job /\ Prepared(job[s]) /\ job[s].at = "plan"
  BY DEF Replan, Standing, SearchInv
<1> DEFINE j == [job[s] EXCEPT !.at = "relate"]
           a == [job[s].answer EXCEPT !.class = c]
           k == [job[s] EXCEPT !.at = "relate", !.answer.class = c]
<1>2. j \in Job /\ Prepared(j)
  BY <1>1 DEF Job, Prepared
<1>3. k = [job[s] EXCEPT !.at = "relate", !.answer = a]
  BY <1>1 DEF Job, SearchAnswer
<1>4. a \in SearchAnswer /\ a.seen = 0
  BY <1>1 DEF Job, SearchAnswer, Prepared
<1> HIDE DEF a
<1>5. k \in Job /\ Prepared(k)
  <2> DEFINE m == [job[s] EXCEPT !.at = "relate", !.answer = a]
  <2>1. m \in Job /\ m.at = "relate" /\ m.answer = a
    BY <1>1, <1>4 DEF Job
  <2> HIDE DEF m
  <2>2. Prepared(m)
    BY <1>4, <2>1 DEF Prepared
  <2> QED BY <1>3, <2>1, <2>2 DEF m
<1> HIDE DEF j, k
<1>6. CASE Advance(s, j, 1)
  BY <1>2, <1>6, AdvanceKeeps
<1>7. CASE Advance(s, k, 1)
  BY <1>5, <1>7, AdvanceKeeps
<1>8. CASE Known(s, c) /\ Compiles(s, c, filter) /\ Advance(s, Planned(s, c), 0)
  BY <1>1, <1>8, PlannedPrepared, AdvanceKeeps
<1> QED BY <1>6, <1>7, <1>8 DEF Replan, j, k

LEMMA ExecuteKeeps ==
    ASSUME SearchInv, NEW s \in Calls, Execute(s) PROVE SearchInv'
<1>1. /\ job[s] \in Job /\ Prepared(job[s]) /\ job[s].at = "execute"
      /\ data \in [Mapped -> 1 .. MaxVersions]
  BY DEF Execute, Standing, SearchInv
<1>2. PICK seen \in {0, data[job[s].answer.table]} :
         IF seen = 0 /\ MayReplan(s)
         THEN Advance(s, [job[s] EXCEPT !.at = "plan", !.replans = @ + 1], 1)
         ELSE Advance(s, [job[s] EXCEPT !.at = "relate", !.answer.seen = seen], 1)
  BY DEF Execute
<1> DEFINE j == [job[s] EXCEPT !.at = "plan", !.replans = @ + 1]
           a == [job[s].answer EXCEPT !.seen = seen]
           k == [job[s] EXCEPT !.at = "relate", !.answer.seen = seen]
<1>3. OnTable(job[s].flavor, job[s].answer) /\ job[s].answer.seen = 0
  BY <1>1 DEF Prepared
<1>4. seen \in 0 .. MaxVersions
  <2>1. job[s].answer.table \in Mapped
    BY <1>3 DEF OnTable
  <2>2. data[job[s].answer.table] \in 1 .. MaxVersions
    BY <1>1, <2>1
  <2> DEFINE v == data[job[s].answer.table]
  <2>3. v \in 1 .. MaxVersions /\ seen \in {0, v}
    BY <2>2
  <2> HIDE DEF v
  <2> QED BY <2>3, NumbersNat
<1>5. ASSUME MayReplan(s) PROVE j \in Job /\ Prepared(j)
  <2> DEFINE r == job[s].replans + 1
  <2>1. j \in Job
    <3>1. r \in 0 .. MaxReplans
      BY <1>1, <1>5, NumbersNat DEF Job, MayReplan
    <3>2. j = [Replanned(job[s], r) EXCEPT !.at = "plan"]
      BY DEF Replanned
    <3> DEFINE q == Replanned(job[s], r)
    <3>3. q \in Job
      <4> HIDE DEF r
      <4> QED BY <1>1, <3>1, Counted
    <3> HIDE DEF r, q
    <3>4. [q EXCEPT !.at = "plan"] \in Job
      BY <3>3 DEF Job
    <3> QED BY <3>2, <3>4 DEF q
  <2>2. Prepared(j)
    BY <1>1, <1>3 DEF Prepared, Job
  <2> QED BY <2>1, <2>2
<1>6. k = [job[s] EXCEPT !.at = "relate", !.answer = a]
  BY <1>1 DEF Job, SearchAnswer
<1>7. a \in SearchAnswer /\ OnTable(job[s].flavor, a)
  BY <1>1, <1>3, <1>4 DEF Job, SearchAnswer, OnTable
<1> HIDE DEF a
<1>8. k \in Job /\ Prepared(k)
  <2> DEFINE m == [job[s] EXCEPT !.at = "relate", !.answer = a]
  <2>1. m \in Job /\ m.at = "relate" /\ m.answer = a /\ m.flavor = job[s].flavor
    BY <1>1, <1>7 DEF Job
  <2> HIDE DEF m
  <2>2. Prepared(m)
    BY <1>7, <2>1 DEF Prepared
  <2> QED BY <1>6, <2>1, <2>2 DEF m
<1> HIDE DEF j, k
<1>9. (MayReplan(s) /\ Advance(s, j, 1)) \/ Advance(s, k, 1)
  BY <1>2 DEF j, k
<1> QED BY <1>5, <1>8, <1>9, AdvanceKeeps

LEMMA NoDatabaseKeeps ==
    ASSUME SearchInv, NEW s \in Calls, NoDatabase(s) PROVE SearchInv'
<1> DEFINE j == [job[s] EXCEPT !.at = "relate"]
<1>1. job[s] \in Job /\ Prepared(job[s]) /\ job[s].at = "execute"
  BY DEF NoDatabase, Standing, SearchInv
<1>2. j \in Job /\ Prepared(j)
  BY <1>1 DEF Job, Prepared
<1> HIDE DEF j
<1> QED BY <1>2, AdvanceKeeps DEF NoDatabase, j

\* The subgraph is built of rows there are, or there is nothing in it, and the
\* rules start from no row outside it.
LEMMA WithGraphPrepared ==
    ASSUME NEW s, job[s] \in Job, Prepared(job[s]), job[s].at = "relate",
           NEW found \in SUBSET Names, NEW facts \in SUBSET found,
           job[s].answer.seen = 0 \/
              found \ {job[s].answer.table} \subseteq
                 References[job[s].answer.table] \cap Permitted(job[s].flavor) \cap Readable
    PROVE  /\ WithGraph(s, found, facts) \in Job
           /\ Prepared(WithGraph(s, found, facts))
<1> DEFINE told == job[s].answer.told
           lineage == IF job[s].rules = "good" THEN Reasoned(facts \cup told) ELSE {}
           a == [job[s].answer EXCEPT !.graph = found, !.inferred = lineage]
<1>1. lineage \in Lineages /\ Explained(found \cup told, lineage)
  <2>1. facts \cup told \in SUBSET Facts
    BY DEF Facts, Job, SearchAnswer
  <2>2. {} \in Lineages /\ Explained(found \cup told, {})
    BY DEF Lineages, Explained
  <2>3. CASE job[s].rules = "good"
    <3> DEFINE base == facts \cup told
               all == found \cup told
    <3>1. base \in SUBSET Facts /\ base \subseteq all
      BY <2>1
    <3>2. lineage = Reasoned(base)
      BY <2>3
    <3> HIDE DEF base, all, lineage
    <3>3. Reasoned(base) \in Lineages /\ Explained(base, Reasoned(base))
      BY <3>1, ReasonedSupported DEF Explained
    <3>4. Supported(base, Reasoned(base)) \subseteq Supported(all, Reasoned(base))
      BY <3>1, SupportedMore
    <3>5. lineage \in Lineages /\ Explained(all, lineage)
      BY <3>2, <3>3, <3>4 DEF Explained
    <3> QED BY <3>5 DEF all
  <2>4. CASE job[s].rules # "good"
    BY <2>2, <2>4
  <2> QED BY <2>3, <2>4
<1>2. WithGraph(s, found, facts) =
         [job[s] EXCEPT !.at = "synthesize", !.answer.graph = found,
                        !.answer.inferred = lineage]
  BY DEF WithGraph
<1> HIDE DEF lineage, told
<1>3. WithGraph(s, found, facts) = [job[s] EXCEPT !.at = "synthesize", !.answer = a]
  BY <1>2 DEF Job, SearchAnswer
<1>4. /\ a \in SearchAnswer
      /\ a.graph = found /\ a.inferred = lineage /\ a.told = told
      /\ a.table = job[s].answer.table /\ a.class = job[s].answer.class
      /\ a.seen = job[s].answer.seen
  BY <1>1 DEF Job, SearchAnswer, told
<1> HIDE DEF a
<1>5. /\ WithGraph(s, found, facts) \in Job
      /\ WithGraph(s, found, facts).at = "synthesize"
      /\ WithGraph(s, found, facts).answer = a
      /\ WithGraph(s, found, facts).flavor = job[s].flavor
  <2>1. WithGraph(s, found, facts) = MovedTo(job[s], "synthesize", a)
    BY <1>3 DEF MovedTo
  <2> DEFINE j == job[s]
  <2>2. a \in SearchAnswer /\ j \in Job
    BY <1>4
  <2> HIDE DEF j
  <2>3. /\ MovedTo(j, "synthesize", a) \in Job
        /\ MovedTo(j, "synthesize", a).at = "synthesize"
        /\ MovedTo(j, "synthesize", a).answer = a
        /\ MovedTo(j, "synthesize", a).flavor = j.flavor
    BY <2>2, Moved
  <2> QED BY <2>1, <2>3 DEF j
<1>6. ASSUME a.seen # 0
      PROVE  OnTable(job[s].flavor, a) /\ FromTable(job[s].flavor, a)
  <2>1. OnTable(job[s].flavor, job[s].answer)
    BY <1>4, <1>6 DEF Prepared
  <2>2. OnTable(job[s].flavor, a)
    BY <1>4, <2>1 DEF OnTable
  <2>3. a.graph \ {a.table} \subseteq
           References[a.table] \cap Permitted(job[s].flavor) \cap Readable
    <3> DEFINE t == job[s].answer.table
               f == job[s].flavor
    <3>1. found \ {t} \subseteq References[t] \cap Permitted(f) \cap Readable
      BY <1>4, <1>6
    <3>2. a.graph = found /\ a.table = t
      BY <1>4
    <3> HIDE DEF t, f
    <3>3. a.graph \ {a.table} \subseteq References[a.table] \cap Permitted(f) \cap Readable
      BY <3>1, <3>2
    <3> QED BY <3>3 DEF f
  <2>4. Explained(a.graph \cup a.told, a.inferred)
    BY <1>1, <1>4
  <2> QED BY <2>2, <2>3, <2>4 DEF FromTable
<1> DEFINE m == WithGraph(s, found, facts)
<1> HIDE DEF m
<1>7. m \in Job /\ m.at = "synthesize" /\ m.answer = a /\ m.flavor = job[s].flavor
  BY <1>5 DEF m
<1>8. Prepared(m)
  BY <1>6, <1>7 DEF Prepared
<1> QED BY <1>7, <1>8 DEF m

LEMMA RelateKeeps ==
    ASSUME SearchInv, NEW s \in Calls, Relate(s) PROVE SearchInv'
<1>1. job[s] \in Job /\ Prepared(job[s]) /\ job[s].at = "relate"
  BY DEF Relate, Standing, SearchInv
<1>2. CASE job[s].answer.seen = 0 /\ Advance(s, WithGraph(s, {}, {}), 1)
  <2>1. WithGraph(s, {}, {}) \in Job /\ Prepared(WithGraph(s, {}, {}))
    BY <1>1, <1>2, WithGraphPrepared
  <2> QED BY <1>2, <2>1, AdvanceKeeps
<1>3. ASSUME job[s].answer.seen > 0, NEW linked \in SUBSET Followed(s),
             NEW facts \in {{job[s].answer.table}, {job[s].answer.table} \cup linked},
             Advance(s, WithGraph(s, {job[s].answer.table} \cup linked, facts), 2)
      PROVE  SearchInv'
  <2>2. OnTable(job[s].flavor, job[s].answer)
    BY <1>1, <1>3 DEF Prepared
  <2> DEFINE found == {job[s].answer.table} \cup linked
  <2>3. job[s].answer.table \in Mapped
    BY <2>2 DEF OnTable
  <2>4. linked \subseteq References[job[s].answer.table] \cap Permitted(job[s].flavor) \cap Readable
    BY DEF Followed, HasReadable
  <2>5. found \in SUBSET Names
    BY <2>3, <2>4, MappingTyped
  <2>6. found \ {job[s].answer.table} \subseteq
           References[job[s].answer.table] \cap Permitted(job[s].flavor) \cap Readable
    BY <2>4
  <2>7. facts \in SUBSET found /\ Advance(s, WithGraph(s, found, facts), 2)
    BY <1>3
  <2> HIDE DEF found
  <2>8. WithGraph(s, found, facts) \in Job /\ Prepared(WithGraph(s, found, facts))
    BY <1>1, <2>5, <2>6, <2>7, WithGraphPrepared
  <2> QED BY <2>7, <2>8, AdvanceKeeps
<1> QED BY <1>2, <1>3 DEF Relate

LEMMA SynthesizeKeeps ==
    ASSUME SearchInv, NEW s \in Calls, Synthesize(s) PROVE SearchInv'
<1>1. job[s] \in Job /\ Prepared(job[s]) /\ job[s].at = "synthesize" /\ job[s] # Nothing
  BY DEF Synthesize, Standing, SearchInv
<1> DEFINE status == IF job[s].answer.seen = 0 THEN "empty" ELSE "ok"
           a == [job[s].answer EXCEPT !.status = status]
<1>2. a \in SearchAnswer
  BY <1>1 DEF Job, SearchAnswer
<1>3. AnswerGrounded(job[s].flavor, a)
  <2>1. CASE job[s].answer.seen = 0
    BY <1>1, <2>1 DEF AnswerGrounded, Job, SearchAnswer
  <2>2. CASE job[s].answer.seen # 0
    <3>1. OnTable(job[s].flavor, job[s].answer) /\ FromTable(job[s].flavor, job[s].answer)
      BY <1>1, <2>2 DEF Prepared
    <3>2. /\ a.class = job[s].answer.class /\ a.table = job[s].answer.table
          /\ a.graph = job[s].answer.graph /\ a.inferred = job[s].answer.inferred
          /\ a.told = job[s].answer.told
      BY <1>1 DEF Job, SearchAnswer
    <3> HIDE DEF a
    <3> QED BY <3>1, <3>2 DEF OnTable, FromTable, AnswerGrounded, Explained
  <2> QED BY <2>1, <2>2
<1>4. Finish(s, a, 1)
  BY DEF Synthesize
<1> HIDE DEF a
<1> QED BY <1>1, <1>2, <1>3, <1>4, FinishKeeps

\* Streams, clock and database.
LEMMA DeliverKeeps ==
    ASSUME SearchInv, NEW s \in Streams, Deliver(s) PROVE SearchInv'
<1>1. queue[s] \in Seq(Events) /\ queue[s] # << >>
  BY DEF Deliver, SearchInv
<1>2. Tail(queue[s]) \in Seq(Events)
  BY <1>1
<1>3. queue' \in [Streams -> Seq(Events)]
  BY <1>2 DEF Deliver, SearchInv
<1>4. client' \in [Streams -> {"new", "open", "served", "left"}]
  BY DEF Deliver, SearchInv
<1> QED BY <1>3, <1>4 DEF Deliver, SearchInv

LEMMA LeaveKeeps ==
    ASSUME SearchInv, NEW s \in Streams, Leave(s) PROVE SearchInv'
BY DEF Leave, SearchInv

LEMMA TickKeeps ==
    ASSUME SearchInv, Tick PROVE SearchInv'
<1>1. DOMAIN cache' = Flavors
  BY DEF Tick
<1>2. ASSUME NEW f \in Flavors, cache'[f] # Nothing PROVE Entered(f, cache'[f])
  <2>1. cache'[f] = IF Young(f) THEN [cache[f] EXCEPT !.age = @ + 1] ELSE cache[f]
    BY DEF Tick
  <2>2. CASE Young(f)
    <3>1. cache[f].age < TTL /\ Entered(f, cache[f])
      BY <2>2 DEF Young, SearchInv
    <3> DEFINE e == [cache[f] EXCEPT !.age = @ + 1]
    <3>2. e.age \in 0 .. TTL /\ e.answer = cache[f].answer
      BY <3>1, NumbersNat DEF Entered
    <3> QED BY <2>1, <2>2, <3>1, <3>2 DEF Entered
  <2>3. CASE ~ Young(f)
    BY <1>2, <2>1, <2>3 DEF SearchInv
  <2> QED BY <2>2, <2>3
<1> QED BY <1>1, <1>2 DEF Tick, SearchInv, stream

LEMMA ChangeKeeps ==
    ASSUME SearchInv, NEW c \in Mapped, Change(c) PROVE SearchInv'
<1>1. data' \in [Mapped -> 1 .. MaxVersions]
  BY NumbersNat DEF Change, SearchInv
<1> QED BY <1>1 DEF Change, SearchInv, stream

LEMMA SearchStep == SearchInv /\ [SearchNext]_searchVars => SearchInv'
<1> SUFFICES ASSUME SearchInv, [SearchNext]_searchVars PROVE SearchInv'
  OBVIOUS
<1>1. ASSUME NEW s \in Calls, Request(s) PROVE SearchInv'
  BY <1>1, RequestKeeps
<1>2. ASSUME NEW s \in Calls, Work(s) PROVE SearchInv'
  <2>1. CASE ServeCached(s)
    BY <2>1, ServeCachedKeeps
  <2>2. CASE Miss(s)
    BY <2>2, MissKeeps
  <2>3. CASE Garbled(s)
    BY <2>3, GarbledKeeps
  <2>4. CASE AdapterFails(s) \/ TimedOut(s)
    BY <2>4, FailKeeps DEF AdapterFails, TimedOut, Standing
  <2>5. CASE \E c \in Names, filter \in {"fine", "refused"} :
                Plan(s, c, filter) \/ Replan(s, c, filter)
    BY <2>5, PlanKeeps, ReplanKeeps
  <2>6. CASE Execute(s)
    BY <2>6, ExecuteKeeps
  <2>7. CASE NoDatabase(s)
    BY <2>7, NoDatabaseKeeps
  <2>8. CASE Relate(s)
    BY <2>8, RelateKeeps
  <2>9. CASE Synthesize(s)
    BY <2>9, SynthesizeKeeps
  <2> QED BY <1>2, <2>1, <2>2, <2>3, <2>4, <2>5, <2>6, <2>7, <2>8, <2>9 DEF Work
<1>3. ASSUME NEW s \in Streams, Deliver(s) \/ Leave(s) PROVE SearchInv'
  BY <1>3, DeliverKeeps, LeaveKeeps
<1>4. CASE Tick
  BY <1>4, TickKeeps
<1>5. ASSUME NEW c \in Mapped, Change(c) PROVE SearchInv'
  BY <1>5, ChangeKeeps
<1>6. CASE UNCHANGED searchVars
  BY <1>6 DEF searchVars, SearchInv
<1> QED BY <1>1, <1>2, <1>3, <1>4, <1>5, <1>6 DEF SearchNext

\* Searches, answers, cache and streams keep their types.
THEOREM SearchTypes == SearchSpec => []SearchTypeOK
BY SearchInitial, SearchStep, SearchInvImplies, PTL DEF SearchSpec

\* An answer with rows is of the table its plan names, of readable neighbours,
\* and of facts that follow from these along their lineages, whether it was
\* computed, planned anew or taken from the cache.
THEOREM SearchGroundedHolds == SearchSpec => []SearchGrounded
BY SearchInitial, SearchStep, SearchInvImplies, PTL DEF SearchSpec

-----------------------------------------------------------------------------
(* What a stream hears *)

\* What its worker closes with, before the end; a queue of stages only.
Last == {"answer", "error"}
Stages(q) == \A i \in 1 .. Len(q) : q[i] = "stage"

\* A queue that ends in the closing of a search.
Closed(q, last) ==
    /\ Len(q) >= 2
    /\ q[Len(q)] = "end" /\ q[Len(q) - 1] = last
    /\ \A i \in 1 .. Len(q) - 2 : q[i] = "stage"

\* The life of a stream: not begun, with a worker at work, answered but not yet
\* served, served.  A client that leaves stays where it is.
AtWork(s) == /\ job[s] # Nothing /\ job[s].at # "lookup" /\ client[s] \in {"open", "left"}
             /\ heard[s] = << >> /\ Stages(queue[s])
Answered(s) == /\ job[s] = Nothing /\ client[s] \in {"open", "left"}
               /\ response[s] # Nothing
               /\ \E last \in Last :
                    \/ heard[s] = << >> /\ Closed(queue[s], last)
                    \/ heard[s] = <<last>> /\ queue[s] = <<"end">>
Delivered(s) == /\ job[s] = Nothing /\ client[s] = "served"
                /\ response[s] # Nothing /\ queue[s] = << >>
                /\ heard[s] \in {<<last, "end">> : last \in Last}
NotBegun(s) == /\ job[s] = Nothing /\ client[s] = "new" /\ response[s] = Nothing
               /\ queue[s] = << >> /\ heard[s] = << >>

WholeInv == /\ heard = [s \in Streams |-> heard[s]]
            /\ \A s \in Streams :
                 NotBegun(s) \/ AtWork(s) \/ Answered(s) \/ Delivered(s)

\* A stream that is served heard one answer or one error and then the end; its
\* client hears neither before the worker is done; and when the worker is done the
\* end still waits for a client that is there.
StreamWhole ==
    \A s \in Streams :
      /\ client[s] = "served" => heard[s] \in {<<"answer", "end">>, <<"error", "end">>}
      /\ client[s] = "open" /\ job[s] # Nothing => heard[s] = << >>
      /\ client[s] = "open" /\ job[s] = Nothing =>
           queue[s] # << >> /\ queue[s][Len(queue[s])] = "end"

\* The life tells what was heard.
LEMMA WholeInvImplies == WholeInv => StreamWhole
BY DEF WholeInv, StreamWhole, NotBegun, AtWork, Answered, Delivered, Closed, Last

\* Stages, and a closing, behind stages.
LEMMA Appended ==
    ASSUME NEW q \in Seq(Events), Stages(q), NEW n \in Nat, NEW last \in Last
    PROVE  /\ Stages(q \o [i \in 1 .. n |-> "stage"])
           /\ Closed(q \o [i \in 1 .. n |-> "stage"] \o <<last, "end">>, last)
<1> DEFINE stages == [i \in 1 .. n |-> "stage"]
<1>1. stages \in Seq(Events) /\ Len(stages) = n /\ Stages(stages)
  BY DEF Events, Stages
<1> HIDE DEF stages
<1> DEFINE r == q \o stages
<1>2. r \in Seq(Events) /\ Len(r) \in Nat /\ Stages(r)
  BY <1>1 DEF Stages
<1>3. <<last, "end">> \in Seq(Events)
  BY DEF Events, Last
<1> HIDE DEF r
<1>4. Closed(r \o <<last, "end">>, last)
  BY <1>2, <1>3 DEF Closed, Stages
<1> QED BY <1>2, <1>4 DEF r, stages

\* A worker that ends, with an answer or an exception, closes its queue.
LEMMA WorkerEnds ==
    ASSUME SearchInv, WholeInv, NEW s \in Streams, job[s] # Nothing,
           NEW n \in Nat, NEW last \in Last, NEW t,
           job' = [job EXCEPT ![s] = Nothing], queue' = Ended(s, n, last),
           response' = [response EXCEPT ![s] = t], t # Nothing,
           UNCHANGED <<client, heard>>
    PROVE  Answered(s)'
<1>1. AtWork(s)
  BY DEF WholeInv, NotBegun, Answered, Delivered
<1>2. queue[s] \in Seq(Events) /\ queue \in [Streams -> Seq(Events)]
  BY DEF SearchInv
<1>3. queue'[s] = queue[s] \o [i \in 1 .. n |-> "stage"] \o <<last, "end">>
  BY <1>2 DEF Ended, Closing
<1>4. s \in Calls /\ job'[s] = Nothing /\ response'[s] = t
  BY DEF SearchInv, Calls
<1>5. Closed(queue'[s], last)
  BY <1>1, <1>2, <1>3, Appended DEF AtWork
<1> QED BY <1>1, <1>4, <1>5 DEF AtWork, Answered

\* One that goes on queues stages only.
LEMMA WorkerGoesOn ==
    ASSUME SearchInv, WholeInv, NEW s \in Streams, job[s] # Nothing,
           NEW n \in Nat, NEW j \in Job, j.at # "lookup", Advance(s, j, n)
    PROVE  AtWork(s)'
<1>1. AtWork(s)
  BY DEF WholeInv, NotBegun, Answered, Delivered
<1>2. queue[s] \in Seq(Events) /\ queue \in [Streams -> Seq(Events)]
  BY DEF SearchInv
<1>3. queue'[s] = queue[s] \o [i \in 1 .. n |-> "stage"]
  BY <1>2 DEF Advance, Emitted
<1>4. s \in Calls /\ job'[s] = j
  BY DEF SearchInv, Calls, Advance
<1>5. Stages(queue'[s])
  BY <1>1, <1>2, <1>3, Appended DEF AtWork, Last
<1> QED BY <1>1, <1>4, <1>5, NothingIsNoRecord DEF AtWork, Advance

\* How far a search is from its end: plans that are left, then the place.
Rank(j) == 8 * (MaxReplans - j.replans)
           + CASE j.at = "lookup" -> 7
               [] j.at = "plan" -> 6 - j.tries
               [] j.at = "execute" -> 4
               [] j.at = "relate" -> 3
               [] j.at = "synthesize" -> 2

\* It is a number.
LEMMA RankNat == ASSUME NEW j \in Job PROVE Rank(j) \in Nat
<1>1. MaxReplans - j.replans \in Nat /\ j.tries \in 0 .. 1
  BY NumbersNat DEF Job
<1> QED BY <1>1 DEF Rank, Job

\* A step of a worker ends its search, or brings it nearer to its end.
Stopped(s) ==
    \E n \in Nat, last \in Last, t \in [flavor : Flavors, answer : SearchAnswer \cup {Nothing}] :
      /\ job' = [job EXCEPT ![s] = Nothing] /\ queue' = Ended(s, n, last)
      /\ response' = [response EXCEPT ![s] = t]
      /\ UNCHANGED <<client, heard>>
Went(s) ==
    \E n \in Nat, j \in Job :
      Advance(s, j, n) /\ j.at # "lookup" /\ Rank(j) < Rank(job[s])

\* An exception ends it.
LEMMA FailStops ==
    ASSUME SearchInv, NEW s \in Streams, job[s] # Nothing, Fail(s)
    PROVE  Stopped(s)
<1>1. s \in Calls /\ job[s].flavor \in Flavors
  BY DEF Calls, SearchInv, Job
<1> QED BY <1>1 DEF Fail, Stopped, Last

\* So does an answer.
LEMMA FinishStops ==
    ASSUME SearchInv, NEW s \in Streams, job[s] # Nothing, NEW a \in SearchAnswer,
           NEW n \in Nat, Finish(s, a, n)
    PROVE  Stopped(s)
<1>1. s \in Calls /\ job[s].flavor \in Flavors
  BY DEF Calls, SearchInv, Job
<1> QED BY <1>1 DEF Finish, Stopped, Last

\* To a place further on, with the same replans.
LEMMA RankFalls ==
    ASSUME NEW i \in Job, NEW j \in Job, j.replans = i.replans,
           \/ i.at = "plan" /\ j.at \in {"execute", "relate"}
           \/ i.at = "plan" /\ j.at = "plan" /\ j.tries > i.tries
           \/ i.at = "execute" /\ j.at = "relate"
           \/ i.at = "relate" /\ j.at = "synthesize"
    PROVE  Rank(j) < Rank(i) /\ (j.at # "lookup")
<1>1. /\ i.tries \in 0 .. 1 /\ j.tries \in 0 .. 1
      /\ i.replans \in 0 .. MaxReplans
  BY DEF Job
<1> DEFINE m == 8 * (MaxReplans - i.replans)
<1>2. m \in Int
  BY <1>1, NumbersNat
<1>3. 8 * (MaxReplans - j.replans) = m
  OBVIOUS
<1> HIDE DEF m
<1> QED BY <1>1, <1>2, <1>3 DEF Rank, m

\* So does every step of a worker, whatever the model answers, whatever the
\* database holds, and with the second plan as with the first.
LEMMA WorkMoves ==
    ASSUME SearchInv, NEW s \in Streams, Work(s), job[s].at # "lookup"
    PROVE  Stopped(s) \/ Went(s)
<1>1. /\ s \in Calls /\ job[s] # Nothing
      /\ job[s] # Nothing => job[s] \in Job /\ Prepared(job[s])
  BY DEF Work, ServeCached, Miss, Garbled, AdapterFails, Plan, Replan, Execute,
         NoDatabase, TimedOut, Relate, Synthesize, Standing, Calls, SearchInv
<1> DEFINE i == job[s]
<1>2. i \in Job /\ i.replans \in 0 .. MaxReplans /\ i.tries \in 0 .. 1
  BY <1>1 DEF Job
<1>3. CASE ServeCached(s) \/ Miss(s)
  BY <1>3 DEF ServeCached, Miss, Standing
<1>4. CASE AdapterFails(s) \/ TimedOut(s)
  BY <1>1, <1>4, FailStops DEF AdapterFails, TimedOut
<1>5. CASE Garbled(s)
  <2>1. i.at = "plan"
    BY <1>5 DEF Garbled, Standing
  <2>2. CASE i.tries = 0
    <3> DEFINE j == [i EXCEPT !.tries = 1]
    <3>1. j \in Job /\ j.replans = i.replans /\ j.at = i.at /\ j.tries = 1
      BY <1>2 DEF Job
    <3>2. Advance(s, j, 0)
      BY <1>5, <2>2 DEF Garbled
    <3> HIDE DEF j, i
    <3>3. Rank(j) < Rank(i) /\ j.at # "lookup"
      BY <1>2, <2>1, <2>2, <3>1, RankFalls
    <3> QED BY <3>1, <3>2, <3>3 DEF Went, i
  <2>3. CASE i.tries # 0
    BY <1>1, <1>5, <2>3, FailStops DEF Garbled
  <2> QED BY <2>2, <2>3
<1>6. ASSUME NEW c \in Names, NEW filter \in {"fine", "refused"}, Plan(s, c, filter)
      PROVE  Stopped(s) \/ Went(s)
  <2>1. i.at = "plan" /\ i.replans = 0
    BY <1>6 DEF Plan, Standing
  <2>2. CASE \/ Finish(s, Terminal(s, "ungrounded", Nothing), 1)
             \/ Finish(s, Terminal(s, "blocked", c), 1)
             \/ Finish(s, Terminal(s, "ungrounded", Nothing), 2)
    <3>1. /\ Terminal(s, "ungrounded", Nothing) \in SearchAnswer
          /\ Terminal(s, "blocked", c) \in SearchAnswer
      BY <1>1, TerminalTyped
    <3> QED BY <1>1, <2>2, <3>1, FinishStops
  <2>3. CASE Known(s, c) /\ Compiles(s, c, filter) /\ Advance(s, Planned(s, c), 1)
    <3> DEFINE j == Planned(s, c)
    <3>1. j \in Job /\ j.replans = i.replans /\ j.at = "execute"
      <4>1. j \in Job
        BY <1>1, <2>1, <2>3, PlannedPrepared
      <4> QED BY <1>2, <4>1 DEF Planned, Job, SearchAnswer
    <3> HIDE DEF j, i
    <3>2. Rank(j) < Rank(i) /\ j.at # "lookup"
      BY <1>2, <2>1, <3>1, RankFalls
    <3> QED BY <2>3, <3>1, <3>2 DEF Went, i, j
  <2> QED BY <1>6, <2>2, <2>3 DEF Plan
<1>7. ASSUME NEW c \in Names, NEW filter \in {"fine", "refused"}, Replan(s, c, filter)
      PROVE  Stopped(s) \/ Went(s)
  <2>1. i.at = "plan"
    BY <1>7 DEF Replan, Standing
  <2>2. CASE Known(s, c) /\ Compiles(s, c, filter) /\ Advance(s, Planned(s, c), 0)
    <3> DEFINE j == Planned(s, c)
    <3>1. j \in Job /\ j.replans = i.replans /\ j.at = "execute"
      <4>1. j \in Job
        BY <1>1, <2>1, <2>2, PlannedPrepared
      <4> QED BY <1>2, <4>1 DEF Planned, Job, SearchAnswer
    <3> HIDE DEF j, i
    <3>2. Rank(j) < Rank(i) /\ j.at # "lookup"
      BY <1>2, <2>1, <3>1, RankFalls
    <3> QED BY <2>2, <3>1, <3>2 DEF Went, i, j
  <2>3. CASE Advance(s, [i EXCEPT !.at = "relate"], 1)
    <3> DEFINE j == [i EXCEPT !.at = "relate"]
    <3>1. j \in Job /\ j.replans = i.replans /\ j.at = "relate"
      BY <1>2 DEF Job
    <3> HIDE DEF j, i
    <3>2. Rank(j) < Rank(i) /\ j.at # "lookup"
      BY <1>2, <2>1, <3>1, RankFalls
    <3> QED BY <2>3, <3>1, <3>2 DEF Went, i, j
  <2>4. CASE Advance(s, [i EXCEPT !.at = "relate", !.answer.class = c], 1)
    <3> DEFINE j == [i EXCEPT !.at = "relate", !.answer.class = c]
    <3>1. j \in Job /\ j.replans = i.replans /\ j.at = "relate"
      <4> DEFINE a == [i.answer EXCEPT !.class = c]
      <4>1. a \in SearchAnswer
        BY <1>2 DEF Job, SearchAnswer
      <4>2. j = MovedTo(i, "relate", a)
        BY <1>2 DEF Job, SearchAnswer, MovedTo
      <4> HIDE DEF a, j, i
      <4>3. MovedTo(i, "relate", a) \in Job /\ MovedTo(i, "relate", a).at = "relate"
        BY <1>2, <4>1, Moved
      <4>4. MovedTo(i, "relate", a).replans = i.replans
        BY <1>2 DEF MovedTo, Job
      <4> QED BY <4>2, <4>3, <4>4
    <3> HIDE DEF j, i
    <3>2. Rank(j) < Rank(i) /\ j.at # "lookup"
      BY <1>2, <2>1, <3>1, RankFalls
    <3> QED BY <2>4, <3>1, <3>2 DEF Went, i, j
  <2> QED BY <1>7, <2>2, <2>3, <2>4 DEF Replan
<1>8. CASE Execute(s)
  <2>1. i.at = "execute"
    BY <1>8 DEF Execute, Standing
  <2>2. PICK seen \in {0, data[i.answer.table]} :
           IF seen = 0 /\ MayReplan(s)
           THEN Advance(s, [i EXCEPT !.at = "plan", !.replans = @ + 1], 1)
           ELSE Advance(s, [i EXCEPT !.at = "relate", !.answer.seen = seen], 1)
    BY <1>8 DEF Execute
  <2>3. CASE seen = 0 /\ MayReplan(s)
    <3> DEFINE j == [i EXCEPT !.at = "plan", !.replans = @ + 1]
    <3>1. i.replans + 1 \in 0 .. MaxReplans
      BY <1>2, <2>3, NumbersNat DEF MayReplan
    <3>2. j \in Job /\ j.replans = i.replans + 1 /\ j.at = "plan" /\ j.tries = i.tries
      BY <1>2, <3>1 DEF Job
    <3>3. Advance(s, j, 1)
      BY <2>2, <2>3
    <3> HIDE DEF j, i
    <3>4. Rank(j) < Rank(i)
      BY <1>2, <2>1, <3>2, NumbersNat DEF Rank
    <3> QED BY <3>2, <3>3, <3>4 DEF Went, i
  <2>4. CASE ~ (seen = 0 /\ MayReplan(s))
    <3> DEFINE a == [i.answer EXCEPT !.seen = seen]
               j == [i EXCEPT !.at = "relate", !.answer.seen = seen]
    <3>1. j \in Job /\ j.replans = i.replans /\ j.at = "relate"
      <4>1. seen \in 0 .. MaxVersions
        <5>1. i.answer.table \in Mapped
          BY <1>1, <2>1 DEF Prepared, OnTable
        <5>2. data[i.answer.table] \in 1 .. MaxVersions
          BY <5>1 DEF SearchInv
        <5> DEFINE v == data[i.answer.table]
        <5>3. v \in 1 .. MaxVersions /\ seen \in {0, v}
          BY <5>2
        <5> HIDE DEF v
        <5> QED BY <5>3, NumbersNat
      <4>2. a \in SearchAnswer
        BY <1>2, <4>1 DEF Job, SearchAnswer
      <4>3. j = MovedTo(i, "relate", a)
        BY <1>2 DEF Job, SearchAnswer, MovedTo
      <4> HIDE DEF a, j, i
      <4>4. MovedTo(i, "relate", a) \in Job /\ MovedTo(i, "relate", a).at = "relate"
        BY <1>2, <4>2, Moved
      <4>5. MovedTo(i, "relate", a).replans = i.replans
        BY <1>2 DEF MovedTo, Job
      <4> QED BY <4>3, <4>4, <4>5
    <3>2. Advance(s, j, 1)
      BY <2>2, <2>4
    <3> HIDE DEF j, i
    <3>3. Rank(j) < Rank(i) /\ j.at # "lookup"
      BY <1>2, <2>1, <3>1, RankFalls
    <3> QED BY <3>1, <3>2, <3>3 DEF Went, i
  <2> QED BY <2>3, <2>4
<1>9. CASE NoDatabase(s)
  BY <1>9, CallersApart DEF NoDatabase
<1>10. CASE Relate(s)
  <2>1. i.at = "relate"
    BY <1>10 DEF Relate, Standing
  <2>2. PICK found \in SUBSET Names, facts \in SUBSET Names, n \in {1, 2} :
           /\ Advance(s, WithGraph(s, found, facts), n)
           /\ WithGraph(s, found, facts) \in Job
    <3>1. CASE i.answer.seen = 0 /\ Advance(s, WithGraph(s, {}, {}), 1)
      BY <1>1, <2>1, <3>1, WithGraphPrepared
    <3>2. ASSUME i.answer.seen > 0, NEW linked \in SUBSET Followed(s),
                 NEW some \in {{i.answer.table}, {i.answer.table} \cup linked},
                 Advance(s, WithGraph(s, {i.answer.table} \cup linked, some), 2)
          PROVE  \E found \in SUBSET Names, facts \in SUBSET Names, n \in {1, 2} :
                   /\ Advance(s, WithGraph(s, found, facts), n)
                   /\ WithGraph(s, found, facts) \in Job
      <4>2. i.answer.table \in Mapped
        BY <1>1, <2>1, <3>2 DEF Prepared, OnTable
      <4> DEFINE own == {i.answer.table} \cup linked
      <4>3. /\ own \in SUBSET Names
            /\ own \ {i.answer.table} \subseteq
                 References[i.answer.table] \cap Permitted(i.flavor) \cap Readable
        BY <4>2, MappingTyped DEF Followed, HasReadable
      <4>4. some \in SUBSET own /\ Advance(s, WithGraph(s, own, some), 2)
        BY <3>2
      <4> HIDE DEF own
      <4>5. WithGraph(s, own, some) \in Job
        BY <1>1, <2>1, <4>3, <4>4, WithGraphPrepared
      <4>6. some \in SUBSET Names
        BY <4>3, <4>4
      <4> QED BY <4>3, <4>4, <4>5, <4>6
    <3> QED BY <1>10, <3>1, <3>2 DEF Relate
  <2> DEFINE j == WithGraph(s, found, facts)
  <2>3. j.replans = i.replans /\ j.at = "synthesize"
    BY <1>2 DEF WithGraph, Job, SearchAnswer
  <2> HIDE DEF j, i
  <2>4. Rank(j) < Rank(i) /\ j.at # "lookup"
    BY <1>2, <2>1, <2>2, <2>3, RankFalls DEF j
  <2> QED BY <2>2, <2>4 DEF Went, i, j
<1>11. CASE Synthesize(s)
  <2> DEFINE a == [i.answer EXCEPT !.status = IF i.answer.seen = 0 THEN "empty" ELSE "ok"]
  <2>1. a \in SearchAnswer
    BY <1>2 DEF Job, SearchAnswer
  <2>2. Finish(s, a, 1)
    BY <1>11 DEF Synthesize
  <2> HIDE DEF a
  <2> QED BY <1>1, <2>1, <2>2, FinishStops
<1> QED BY <1>3, <1>4, <1>5, <1>6, <1>7, <1>8, <1>9, <1>10, <1>11 DEF Work

\* The others leave a stream's search, its answer, its queue and its client.
LEMMA OthersLeave ==
    ASSUME SearchInv, NEW s \in Streams, [SearchNext]_searchVars
    PROVE  \/ Request(s) \/ Work(s) \/ Deliver(s) \/ Leave(s)
           \/ /\ job'[s] = job[s] /\ response'[s] = response[s]
              /\ queue'[s] = queue[s] /\ client'[s] = client[s] /\ heard'[s] = heard[s]
<1> DEFINE same == /\ job'[s] = job[s] /\ response'[s] = response[s]
                   /\ queue'[s] = queue[s] /\ client'[s] = client[s]
                   /\ heard'[s] = heard[s]
<1>1. /\ DOMAIN job = Calls /\ DOMAIN response = Calls /\ s \in Calls
      /\ queue \in [Streams -> Seq(Events)] /\ DOMAIN client = Streams
  BY DEF SearchInv, Calls
<1>2. \A t, n, last : t # s => Emitted(t, n)[s] = queue[s] /\ Ended(t, n, last)[s] = queue[s]
  BY <1>1 DEF Emitted, Ended
<1>3. ASSUME NEW t \in Calls, t # s, Request(t) PROVE same
  <2>1. \/ queue' = Emitted(t, 0)
        \/ queue' = Emitted(t, 1)
    BY <1>3 DEF Request, AfterRecall
  <2>2. queue'[s] = queue[s]
    BY <1>2, <1>3, <2>1
  <2>3. client'[s] = client[s]
    BY <1>1, <1>3 DEF Request
  <2>4. job'[s] = job[s] /\ response'[s] = response[s] /\ heard'[s] = heard[s]
    BY <1>1, <1>3 DEF Request
  <2> QED BY <2>2, <2>3, <2>4
<1>4. ASSUME NEW t \in Calls, t # s, Work(t) PROVE same
  <2>1. \/ \E j, n : Advance(t, j, n)
        \/ Fail(t)
        \/ \E a, n : Finish(t, a, n)
        \/ ServeCached(t)
    BY <1>4 DEF Work, Miss, Garbled, AdapterFails, Plan, Replan, Execute, NoDatabase,
                TimedOut, Relate, Synthesize
  <2>2. /\ \E j : job' = [job EXCEPT ![t] = j]
        /\ response' = response \/ \E r : response' = [response EXCEPT ![t] = r]
        /\ client' = client /\ heard' = heard
    <3>1. ASSUME NEW j, NEW n, Advance(t, j, n)
          PROVE  /\ job' = [job EXCEPT ![t] = j] /\ response' = response
                 /\ client' = client /\ heard' = heard
      BY <3>1 DEF Advance
    <3>2. ASSUME Fail(t)
          PROVE  /\ job' = [job EXCEPT ![t] = Nothing]
                 /\ \E r : response' = [response EXCEPT ![t] = r]
                 /\ client' = client /\ heard' = heard
      BY <3>2 DEF Fail
    <3>3. ASSUME NEW a, NEW n, Finish(t, a, n)
          PROVE  /\ job' = [job EXCEPT ![t] = Nothing]
                 /\ \E r : response' = [response EXCEPT ![t] = r]
                 /\ client' = client /\ heard' = heard
      BY <3>3 DEF Finish
    <3>4. ASSUME ServeCached(t)
          PROVE  /\ job' = [job EXCEPT ![t] = Nothing]
                 /\ \E r : response' = [response EXCEPT ![t] = r]
                 /\ client' = client /\ heard' = heard
      BY <3>4 DEF ServeCached, stream
    <3> QED BY <2>1, <3>1, <3>2, <3>3, <3>4
  <2>5. job'[s] = job[s] /\ response'[s] = response[s]
    BY <1>1, <1>4, <2>2
  <2>3. \/ queue' = queue
        \/ \E n : queue' = Emitted(t, n)
        \/ \E n, last : queue' = Ended(t, n, last)
    <3>1. ASSUME NEW j, NEW n, Advance(t, j, n) PROVE queue' = Emitted(t, n)
      BY <3>1 DEF Advance
    <3>2. ASSUME Fail(t) PROVE queue' = Ended(t, 0, "error")
      BY <3>2 DEF Fail
    <3>3. ASSUME NEW a, NEW n, Finish(t, a, n) PROVE queue' = Ended(t, n, "answer")
      BY <3>3 DEF Finish
    <3>4. ASSUME ServeCached(t) PROVE queue' = queue
      BY <3>4 DEF ServeCached, stream
    <3> QED BY <2>1, <3>1, <3>2, <3>3, <3>4
  <2>4. queue'[s] = queue[s]
    BY <1>2, <1>4, <2>3
  <2> QED BY <2>2, <2>4, <2>5
<1>5. ASSUME NEW t \in Streams, t # s, Deliver(t) \/ Leave(t) PROVE same
  <2>1. CASE Leave(t)
    BY <1>1, <1>5, <2>1 DEF Leave
  <2>2. CASE Deliver(t)
    <3>1. job' = job /\ response' = response
      BY <2>2 DEF Deliver
    <3>2. queue'[s] = queue[s] /\ client'[s] = client[s]
      BY <1>1, <1>5, <2>2 DEF Deliver
    <3>3. heard'[s] = heard[s]
      BY <1>5, <2>2 DEF Deliver
    <3> QED BY <3>1, <3>2, <3>3
  <2> QED BY <1>5, <2>1, <2>2
<1>6. CASE Tick \/ UNCHANGED searchVars \/ \E c \in Mapped : Change(c)
  BY <1>6 DEF Tick, Change, searchVars, stream
<1> QED BY <1>3, <1>4, <1>5, <1>6 DEF SearchNext

\* A stream begins with a search and no event but a stage.
LEMMA RequestWhole ==
    ASSUME SearchInv, WholeInv, NEW s \in Streams, Request(s)
    PROVE  AtWork(s)'
<1>1. NotBegun(s)
  BY DEF Request, WholeInv, AtWork, Answered, Delivered
<1>2. queue[s] \in Seq(Events) /\ queue \in [Streams -> Seq(Events)]
  BY DEF SearchInv
<1>3. PICK f \in Flavors : job' = [job EXCEPT ![s] = NewJob(s, f, "none", {})]
  <2>1. s \notin Direct /\ s \in Calls
    BY CallersApart DEF Calls
  <2> QED BY <2>1, MeetingsTyped DEF Request
<1>4. s \in Calls /\ s \notin Cached
  BY CallersApart DEF Calls
<1> DEFINE j == NewJob(s, f, "none", {})
<1>5. j \in Job /\ j.at = "plan"
  <2>1. {} \in SUBSET Facts
    OBVIOUS
  <2> QED BY <1>4, <2>1, NewTyped
<1> HIDE DEF j
<1>6. job'[s] = j
  BY <1>3, <1>4 DEF SearchInv, j
<1>7. PICK n \in {0, 1} : queue' = Emitted(s, n)
  BY DEF Request, AfterRecall
<1>8. queue'[s] = queue[s] \o [k \in 1 .. n |-> "stage"] /\ n \in Nat
  BY <1>2, <1>7 DEF Emitted
<1>9. Stages(queue[s])
  BY <1>1 DEF NotBegun, Stages
<1>10. Stages(queue'[s])
  BY <1>2, <1>8, <1>9, Appended DEF Last
<1>11. client'[s] = "open" /\ heard'[s] = << >>
  BY <1>1 DEF Request, SearchInv, NotBegun
<1> QED BY <1>5, <1>6, <1>10, <1>11, NothingIsNoRecord DEF AtWork

\* Taking the head of a closing takes a stage, or the answer and then the end.
LEMMA HeadTaken ==
    ASSUME NEW q \in Seq(Events), q # << >>
    PROVE  /\ Stages(q) => Head(q) = "stage" /\ Stages(Tail(q))
           /\ \A last \in Last : Closed(q, last) =>
                IF Head(q) = "stage" THEN Closed(Tail(q), last)
                ELSE Head(q) = last /\ Tail(q) = <<"end">>
<1>1. /\ Len(q) \in Nat \ {0} /\ Head(q) = q[1]
      /\ Tail(q) \in Seq(Events) /\ Len(Tail(q)) = Len(q) - 1
      /\ \A i \in 1 .. Len(q) - 1 : Tail(q)[i] = q[i + 1]
  OBVIOUS
<1>2. Stages(q) => Head(q) = "stage" /\ Stages(Tail(q))
  BY <1>1 DEF Stages
<1>3. ASSUME NEW last \in Last, Closed(q, last)
      PROVE  IF Head(q) = "stage" THEN Closed(Tail(q), last)
             ELSE Head(q) = last /\ Tail(q) = <<"end">>
  <2>1. CASE Len(q) = 2
    <3>1. Head(q) = last /\ last # "stage"
      BY <1>1, <1>3, <2>1 DEF Closed, Last
    <3>2. Len(Tail(q)) = 1 /\ Tail(q)[1] = "end"
      BY <1>1, <1>3, <2>1 DEF Closed
    <3>3. Tail(q) = <<"end">>
      <4> DEFINE r == Tail(q)
      <4>1. r \in Seq(Events) /\ Len(r) = 1 /\ r[1] = "end"
        BY <1>1, <3>2
      <4> HIDE DEF r
      <4>2. r = <<"end">>
        BY <4>1
      <4> QED BY <4>2 DEF r
    <3> QED BY <3>1, <3>3
  <2>2. CASE Len(q) > 2
    <3>1. Head(q) = "stage"
      BY <1>1, <1>3, <2>2 DEF Closed
    <3>2. Closed(Tail(q), last)
      BY <1>1, <1>3, <2>2 DEF Closed
    <3> QED BY <3>1, <3>2
  <2> QED BY <1>1, <1>3, <2>1, <2>2 DEF Closed
<1> QED BY <1>2, <1>3

\* The end behind one event.
LEMMA EndLast == ASSUME NEW x PROVE Append(<<x>>, "end") = <<x, "end">>
<1> DEFINE q == Append(<<x>>, "end")
<1>1. <<x>> \in Seq({x, "end"})
  OBVIOUS
<1>2. q \in Seq({x, "end"}) /\ Len(q) = 2 /\ q[1] = x /\ q[2] = "end"
  BY <1>1
<1> HIDE DEF q
<1>3. q = <<x, "end">>
  BY <1>2
<1> QED BY <1>3 DEF q

\* What is yielded comes off the queue to what was heard.
LEMMA DeliverWhole ==
    ASSUME SearchInv, WholeInv, NEW s \in Streams, Deliver(s)
    PROVE  AtWork(s)' \/ Answered(s)' \/ Delivered(s)'
<1>1. AtWork(s) \/ Answered(s)
  BY DEF Deliver, WholeInv, NotBegun, Delivered
<1>2. queue[s] \in Seq(Events) /\ queue[s] # << >> /\ queue \in [Streams -> Seq(Events)]
  BY DEF SearchInv, Deliver
<1>3. /\ queue'[s] = Tail(queue[s]) /\ job' = job /\ response' = response
      /\ heard'[s] = IF Head(queue[s]) = "stage" THEN heard[s]
                     ELSE Append(heard[s], Head(queue[s]))
      /\ client'[s] = IF Head(queue[s]) = "end" THEN "served" ELSE "open"
  BY <1>2 DEF Deliver, SearchInv, WholeInv
<1>6. Head(queue[s]) = "end" => client'[s] = "served"
  BY <1>3
<1>4. CASE AtWork(s)
  BY <1>2, <1>3, <1>4, HeadTaken DEF AtWork
<1>5. CASE Answered(s)
  <2>1. PICK last \in Last : \/ heard[s] = << >> /\ Closed(queue[s], last)
                             \/ heard[s] = <<last>> /\ queue[s] = <<"end">>
    BY <1>5 DEF Answered
  <2>2. CASE heard[s] = << >> /\ Closed(queue[s], last) /\ Head(queue[s]) = "stage"
    <3>1. Closed(queue'[s], last) /\ heard'[s] = << >> /\ client'[s] = "open"
      BY <1>2, <1>3, <2>2, HeadTaken
    <3> QED BY <1>3, <1>5, <3>1 DEF Answered
  <2>3. CASE heard[s] = << >> /\ Closed(queue[s], last) /\ Head(queue[s]) # "stage"
    <3>1. Head(queue[s]) = last /\ Tail(queue[s]) = <<"end">>
      BY <1>2, <2>3, HeadTaken
    <3>2. queue'[s] = <<"end">> /\ heard'[s] = <<last>> /\ client'[s] = "open"
      BY <1>3, <2>3, <3>1 DEF Last
    <3> QED BY <1>3, <1>5, <3>2 DEF Answered
  <2>4. CASE heard[s] = <<last>> /\ queue[s] = <<"end">>
    <3>1. Head(queue[s]) = "end" /\ Len(Tail(queue[s])) = 0
      BY <1>2, <2>4
    <3>2. queue'[s] = << >> /\ client'[s] = "served"
      <4> DEFINE r == Tail(queue[s])
      <4>1. r \in Seq(Events) /\ Len(r) = 0
        BY <1>2, <3>1
      <4> HIDE DEF r
      <4>2. r = << >>
        BY <4>1
      <4>3. queue'[s] = << >>
        BY <1>3, <4>2 DEF r
      <4>4. client'[s] = "served"
        BY <1>6, <3>1
      <4> QED BY <4>3, <4>4
    <3>3. heard'[s] = <<last, "end">>
      <4>1. heard'[s] = Append(heard[s], Head(queue[s]))
        BY <1>3, <3>1
      <4>2. heard'[s] = Append(<<last>>, "end")
        BY <2>4, <3>1, <4>1
      <4>3. Append(<<last>>, "end") = <<last, "end">>
        BY EndLast
      <4> QED BY <4>2, <4>3
    <3> QED BY <1>3, <1>5, <3>2, <3>3 DEF Answered, Delivered
  <2> QED BY <2>1, <2>2, <2>3, <2>4
<1> QED BY <1>1, <1>4, <1>5

\* Every step keeps every stream in its life.
LEMMA WholeStep ==
    SearchInv /\ WholeInv /\ [SearchNext]_searchVars => WholeInv'
<1> SUFFICES ASSUME SearchInv, WholeInv, [SearchNext]_searchVars PROVE WholeInv'
  OBVIOUS
<1>1. heard' = [s \in Streams |-> heard'[s]]
  <2>1. heard' = heard \/ \E s \in Streams : \E v : heard' = [heard EXCEPT ![s] = v]
    <3>1. ASSUME NEW t \in Streams, Deliver(t)
          PROVE  heard' = heard \/ \E v : heard' = [heard EXCEPT ![t] = v]
      BY <3>1 DEF Deliver
    <3>2. ASSUME NEW t \in Calls, Work(t) \/ Request(t) PROVE heard' = heard
      BY <3>2 DEF Request, Work, ServeCached, Miss, Garbled, AdapterFails, Plan, Replan,
                  Execute, NoDatabase, TimedOut, Relate, Synthesize, Advance, Fail,
                  Finish, stream
    <3> QED BY <3>1, <3>2 DEF SearchNext, Leave, Tick, Change, searchVars, stream
  <2> QED BY <2>1 DEF WholeInv
<1>2. ASSUME NEW s \in Streams
      PROVE  NotBegun(s)' \/ AtWork(s)' \/ Answered(s)' \/ Delivered(s)'
  <2>1. CASE Request(s)
    BY <2>1, RequestWhole
  <2>2. CASE Work(s)
    <3>1. AtWork(s)
      <4>1. job[s] # Nothing
        BY <2>2 DEF Work, ServeCached, Miss, Garbled, AdapterFails, Plan, Replan, Execute,
                    NoDatabase, TimedOut, Relate, Synthesize, Standing
      <4> QED BY <4>1 DEF WholeInv, NotBegun, Answered, Delivered
    <3>2. CASE Stopped(s)
      <4>1. PICK n \in Nat, last \in Last,
                 t \in [flavor : Flavors, answer : SearchAnswer \cup {Nothing}] :
               /\ job' = [job EXCEPT ![s] = Nothing] /\ queue' = Ended(s, n, last)
               /\ response' = [response EXCEPT ![s] = t]
               /\ UNCHANGED <<client, heard>>
        BY <3>2 DEF Stopped
      <4>2. t # Nothing
        BY NothingIsNoRecord
      <4>3. job[s] # Nothing
        BY <3>1 DEF AtWork
      <4> QED BY <4>1, <4>2, <4>3, WorkerEnds
    <3>3. CASE Went(s)
      BY <3>1, <3>3, WorkerGoesOn DEF Went, AtWork
    <3> QED BY <2>2, <3>1, <3>2, <3>3, WorkMoves DEF AtWork
  <2>3. CASE Deliver(s)
    BY <2>3, DeliverWhole
  <2>4. CASE Leave(s)
    BY <2>4 DEF Leave, SearchInv, WholeInv, NotBegun, AtWork, Answered, Delivered
  <2>5. CASE /\ job'[s] = job[s] /\ response'[s] = response[s]
             /\ queue'[s] = queue[s] /\ client'[s] = client[s] /\ heard'[s] = heard[s]
    BY <2>5 DEF WholeInv, NotBegun, AtWork, Answered, Delivered
  <2> QED BY <2>1, <2>2, <2>3, <2>4, <2>5, OthersLeave
<1> QED BY <1>1, <1>2 DEF WholeInv

\* So it is in every state.
LEMMA AlwaysWhole == SearchSpec => []SearchInv /\ []WholeInv
<1>1. SearchInit => WholeInv
  BY DEF SearchInit, WholeInv, NotBegun, Calls
<1> QED BY <1>1, SearchInitial, SearchStep, WholeStep, PTL DEF SearchSpec

\* However a search ends, by an answer, an exception or a deadline, with a client
\* that listens or not, its stream is closed once, and nothing comes before its
\* time or gets lost (api_search_stream: the finally of _run, _gen).
THEOREM StreamWholeHolds == SearchSpec => []StreamWhole
BY AlwaysWhole, WholeInvImplies, PTL

-----------------------------------------------------------------------------
(* What a stream comes to *)

\* What StreamAdvances supposes and this prover cannot say, since it is about
\* ENABLED: a worker that is at work has a step to take, with or without rows and
\* neighbours, and what is queued for a client that is there can be yielded.
SearchGoesOn ==
    \A s \in Streams :
      /\ job[s] # Nothing => ENABLED <<Work(s)>>_searchVars
      /\ client[s] = "open" /\ queue[s] # << >> => ENABLED <<Deliver(s)>>_searchVars

\* A worker that stays at work takes a step; what stays queued is yielded.
LEMMA StreamServes ==
    ASSUME NEW s \in Streams
    PROVE  FairSearchSpec /\ []SearchGoesOn
             => /\ []([](job[s] # Nothing) => <><<Work(s)>>_searchVars)
                /\ []([](client[s] = "open" /\ queue[s] # << >>)
                         => <><<Deliver(s)>>_searchVars)
<1>1. FairSearchSpec => StreamRuns(s)
  BY DEF FairSearchSpec
<1>2. SearchGoesOn =>
        /\ job[s] # Nothing => ENABLED <<Work(s)>>_searchVars
        /\ client[s] = "open" /\ queue[s] # << >> => ENABLED <<Deliver(s)>>_searchVars
  BY DEF SearchGoesOn
<1> QED BY <1>1, <1>2, PTL DEF StreamRuns

\* A search n steps before its end, or nearer; k events, or less, to be yielded.
Ahead(s, n) == job[s] # Nothing /\ Rank(job[s]) = n
Nearer(s, n) == job[s] = Nothing \/ Rank(job[s]) < n
Remains(s, k) == /\ client[s] = "open" /\ job[s] = Nothing /\ Len(queue[s]) = k
Less(s, k) == client[s] # "open" \/ Len(queue[s]) < k

\* Each rank leads to a lower one or to the end.
WorkerAdvances ==
    \A s \in Streams, n \in Nat : Ahead(s, n) ~> Nearer(s, n)
\* Each length of the queue leads to a lower one, or the client leaves.
QueueAdvances ==
    \A s \in Streams, k \in Nat \ {0} : Remains(s, k) ~> Less(s, k)

\* A step of the worker lowers the rank.
LEMMA WorkNearer ==
    ASSUME SearchInv, WholeInv, NEW s \in Streams, NEW n \in Nat, Ahead(s, n), Work(s)
    PROVE  Nearer(s, n)'
<1>1. AtWork(s)
  BY DEF Ahead, WholeInv, NotBegun, Answered, Delivered
<1>2. s \in Calls /\ DOMAIN job = Calls
  BY DEF SearchInv, Calls
<1>3. CASE Stopped(s)
  BY <1>2, <1>3 DEF Stopped, Nearer
<1>4. CASE Went(s)
  BY <1>2, <1>4 DEF Went, Advance, Nearer, Ahead
<1> QED BY <1>1, <1>3, <1>4, WorkMoves DEF AtWork

\* No step raises it.
LEMMA AheadStep ==
    ASSUME SearchInv, WholeInv, [SearchNext]_searchVars,
           NEW s \in Streams, NEW n \in Nat, Ahead(s, n)
    PROVE  Ahead(s, n)' \/ Nearer(s, n)'
<1>1. ~ Request(s)
  BY DEF Request, Ahead
<1>2. CASE Deliver(s) \/ Leave(s)
  BY <1>2 DEF Deliver, Leave, Ahead
<1>3. CASE job'[s] = job[s]
  BY <1>3 DEF Ahead
<1> QED BY <1>1, <1>2, <1>3, OthersLeave, WorkNearer

\* A step of the generator shortens the queue.
LEMMA DeliverLess ==
    ASSUME SearchInv, NEW s \in Streams, NEW k \in Nat \ {0}, Remains(s, k), Deliver(s)
    PROVE  Less(s, k)'
<1>1. queue[s] \in Seq(Events) /\ queue[s] # << >> /\ queue'[s] = Tail(queue[s])
  BY DEF Deliver, SearchInv
<1>2. Len(queue'[s]) = Len(queue[s]) - 1
  BY <1>1
<1> QED BY <1>2 DEF Remains, Less

\* Once the worker is done no step lengthens it.
LEMMA RemainsStep ==
    ASSUME SearchInv, WholeInv, [SearchNext]_searchVars,
           NEW s \in Streams, NEW k \in Nat \ {0}, Remains(s, k)
    PROVE  Remains(s, k)' \/ Less(s, k)'
<1>1. ~ Request(s)
  BY DEF Request, Remains, WholeInv, NotBegun, AtWork, Answered, Delivered
<1>2. ~ Work(s)
  BY DEF Work, ServeCached, Miss, Garbled, AdapterFails, Plan, Replan, Execute,
         NoDatabase, TimedOut, Relate, Synthesize, Standing, Remains
<1>3. CASE Leave(s)
  BY <1>3 DEF Leave, Less, SearchInv
<1>4. CASE Deliver(s)
  BY <1>4, DeliverLess
<1> QED BY <1>1, <1>2, <1>3, <1>4, OthersLeave DEF Remains

\* For one stream and one rank.
LEMMA WorkerLeads ==
    ASSUME NEW s \in Streams, NEW n \in Nat
    PROVE  FairSearchSpec /\ []SearchGoesOn => (Ahead(s, n) ~> Nearer(s, n))
<1>1. SearchInv /\ WholeInv /\ Ahead(s, n) /\ [SearchNext]_searchVars
        => Ahead(s, n)' \/ Nearer(s, n)'
  BY AheadStep
<1>2. SearchInv /\ WholeInv /\ Ahead(s, n) /\ <<Work(s)>>_searchVars => Nearer(s, n)'
  BY WorkNearer
<1>3. Ahead(s, n) => job[s] # Nothing
  BY DEF Ahead
<1>4. FairSearchSpec /\ []SearchGoesOn
        => []([](job[s] # Nothing) => <><<Work(s)>>_searchVars)
  BY StreamServes
<1>5. FairSearchSpec => [][SearchNext]_searchVars /\ []SearchInv /\ []WholeInv
  <2>1. FairSearchSpec => SearchSpec
    BY DEF FairSearchSpec
  <2> QED BY <2>1, AlwaysWhole, PTL DEF SearchSpec
<1> QED BY <1>1, <1>2, <1>3, <1>4, <1>5, PTL

\* For one stream and one length.
LEMMA QueueLeads ==
    ASSUME NEW s \in Streams, NEW k \in Nat \ {0}
    PROVE  FairSearchSpec /\ []SearchGoesOn => (Remains(s, k) ~> Less(s, k))
<1>1. SearchInv /\ WholeInv /\ Remains(s, k) /\ [SearchNext]_searchVars
        => Remains(s, k)' \/ Less(s, k)'
  BY RemainsStep
<1>2. SearchInv /\ Remains(s, k) /\ <<Deliver(s)>>_searchVars => Less(s, k)'
  BY DeliverLess
<1>3. SearchInv /\ Remains(s, k) => client[s] = "open" /\ queue[s] # << >>
  BY DEF SearchInv, Remains
<1>4. FairSearchSpec /\ []SearchGoesOn
        => []([](client[s] = "open" /\ queue[s] # << >>) => <><<Deliver(s)>>_searchVars)
  BY StreamServes
<1>5. FairSearchSpec => [][SearchNext]_searchVars /\ []SearchInv /\ []WholeInv
  <2>1. FairSearchSpec => SearchSpec
    BY DEF FairSearchSpec
  <2> QED BY <2>1, AlwaysWhole, PTL DEF SearchSpec
<1> QED BY <1>1, <1>2, <1>3, <1>4, <1>5, PTL

\* The worker of a stream comes nearer to its end from wherever it is, through
\* any number of plans; and once it is done, what it has queued grows less until
\* the end is heard or the client leaves (_run, _gen).  With StreamWhole
\* these are the steps of StreamEnds: only the induction over them is missing.
THEOREM StreamAdvances ==
    FairSearchSpec /\ []SearchGoesOn => WorkerAdvances /\ QueueAdvances
<1>1. FairSearchSpec /\ []SearchGoesOn =>
        \A s \in Streams, n \in Nat : Ahead(s, n) ~> Nearer(s, n)
  BY WorkerLeads
<1>2. FairSearchSpec /\ []SearchGoesOn =>
        \A s \in Streams, k \in Nat \ {0} : Remains(s, k) ~> Less(s, k)
  BY QueueLeads
<1> QED BY <1>1, <1>2 DEF WorkerAdvances, QueueAdvances
=============================================================================
