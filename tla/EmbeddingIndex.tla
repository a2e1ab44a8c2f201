--------------------------- MODULE EmbeddingIndex ---------------------------
(***************************************************************************)
(* The embedding index of one flavor (src/runtime/embeddings): indexers    *)
(* (the command line, reindex_all) read the rows of the flavor's tables    *)
(* and store text and vector of those whose text is not the one indexed,   *)
(* in batches, each a transaction of its own.  The index of each flavor    *)
(* has its own key, so one flavor stands for all.                          *)
(*                                                                         *)
(* A row is a table and a primary key; what it says, with the class it is  *)
(* given from its columns, is its text.  The same text has the same hash.  *)
(* A table that cannot be read, being locked or not there, is passed over. *)
(* No row of the index is ever deleted: delete has no caller.              *)
(***************************************************************************)
EXTENDS Naturals, Sequences, FiniteSets

CONSTANTS Tables,      \* db_tables of the flavor, in their order
          Row,         \* the rows there may be
          TableOf,     \* the table of each row
          Texts,       \* what a row may say
          Indexers,    \* processes that run index_flavor
          Batch,       \* records in one upsert
          Limits,      \* what runs are limited to, None if to nothing
          MaxChanges,  \* bound of the model: changes of rows, and locks met
          None

Table == {Tables[i] : i \in DOMAIN Tables}

ASSUME IndexAssumption == /\ Tables \in Seq(Table)
                          /\ IsFiniteSet(Row)
                          /\ TableOf \in [Row -> Table]
                          /\ Batch \in Nat \ {0}
                          /\ Limits \subseteq Nat \cup {None}
                          /\ MaxChanges \in Nat
                          /\ None \notin Texts

VARIABLES
    rows,        \* the business tables: the text of each row, None if absent
    records,     \* embedding_records: the text indexed for each row
    registered,  \* record_count in embedding_indexes
    indexing,    \* the run of each indexer, None between runs
    changes      \* how often a row has changed, or a table was locked

indexVars == <<rows, records, registered, indexing, changes>>

Stored == [Row -> Texts \cup {None}]

\* A row as it was read, in the buffer of an indexer.  A SELECT without ORDER
\* BY promises no order, so which of them fill a batch is left open.
Entry == [row : Row, text : Texts]

IndexRun == [at : {"hashes", "tables", "register"},
             force : BOOLEAN, limit : Limits, indexed : Nat,
             hashes : Stored,
             todo : Seq(Table),
             buffer : {b \in SUBSET Entry : IsFiniteSet(b)},
             total : 0 .. Cardinality(Row),
             alone : BOOLEAN,          \* history: nothing has changed meanwhile
             skipped : SUBSET Table]   \* history: tables that were passed over

IndexInit ==
    /\ rows \in Stored
    /\ records \in Stored      \* what earlier runs have left
    /\ registered = None
    /\ indexing = [x \in Indexers |-> None]
    /\ changes = 0

Disturbed(f) == [x \in Indexers |-> IF f[x] = None THEN None
                                    ELSE [f[x] EXCEPT !.alone = FALSE]]

-----------------------------------------------------------------------------
StartIndex(x) ==
    /\ indexing[x] = None
    /\ \E force \in BOOLEAN, limit \in Limits :
         indexing' = [Disturbed(indexing) EXCEPT ![x] =
                        [at |-> "hashes", force |-> force, limit |-> limit,
                         indexed |-> 0,
                         hashes |-> [r \in Row |-> None], todo |-> Tables,
                         buffer |-> {}, total |-> 0,
                         alone |-> \A y \in Indexers : indexing[y] = None,
                         skipped |-> {}]]
    /\ UNCHANGED <<rows, records, registered, changes>>

Indexing(x, at) == indexing[x] # None /\ indexing[x].at = at

\* _existing_hashes, before the first row is read; if they cannot be read, the
\* run does what it does with force.
ReadHashes(x) ==
    /\ Indexing(x, "hashes")
    /\ indexing' = [indexing EXCEPT ![x].at = "tables", ![x].hashes = records]
    /\ UNCHANGED <<rows, records, registered, changes>>

\* Mutant: the rest is not flushed.
DueWhenFull(b, todo) == Cardinality(b) >= Batch

\* The loop upserts full batches; what is left after the last table is one more.
Due(b, todo) == Cardinality(b) >= Batch \/ (todo = << >> /\ b # {})

IsDue(x) == Due(indexing[x].buffer, indexing[x].todo)

\* Rows of the next table that are new, changed, or all of them with force.
Outdated(x, tbl) ==
    {[row |-> r, text |-> rows[r]] :
       r \in {q \in Row : /\ TableOf[q] = tbl
                          /\ rows[q] # None
                          /\ indexing[x].force \/ indexing[x].hashes[q] # rows[q]}}

\* limit is compared with what was upserted so far, at every row.
AtLimit(run, n) == run.limit # None /\ n >= run.limit

NextTable(x) ==
    /\ Indexing(x, "tables")
    /\ ~ IsDue(x)
    /\ indexing[x].todo # << >>
    /\ UNCHANGED <<rows, records, registered>>

ReadTable(x) ==
    /\ NextTable(x)
    /\ UNCHANGED changes
    /\ indexing' = [indexing EXCEPT
                      ![x].buffer = IF AtLimit(indexing[x], indexing[x].indexed) THEN @
                                    ELSE @ \cup Outdated(x, Head(indexing[x].todo)),
                      ![x].todo = Tail(@)]

\* except sqlite3.OperationalError: continue.
SkipTable(x) ==
    /\ NextTable(x)
    /\ changes < MaxChanges
    /\ changes' = changes + 1
    /\ indexing' = [indexing EXCEPT ![x].skipped = @ \cup {Head(indexing[x].todo)},
                                    ![x].todo = Tail(@)]

\* INSERT OR REPLACE of a batch.
Upserted(f, b) ==
    [r \in Row |-> IF \E n \in b : n.row = r THEN (CHOOSE n \in b : n.row = r).text
                                          ELSE f[r]]

\* A full batch, or all there is.
Batches(b) == {c \in SUBSET b : Cardinality(c) = Batch \/ (c = b /\ Cardinality(b) < Batch)}

\* The rows still to be looked at are left out once the limit is reached.
Rest(x, b) == IF AtLimit(indexing[x], indexing[x].indexed + Cardinality(b)) THEN {}
              ELSE indexing[x].buffer \ b

Upsert(x) ==
    /\ Indexing(x, "tables")
    /\ IsDue(x)
    /\ \E b \in Batches(indexing[x].buffer) :
         /\ records' = Upserted(records, b)
         /\ indexing' = [indexing EXCEPT ![x].buffer = Rest(x, b),
                                         ![x].indexed = @ + Cardinality(b)]
    /\ UNCHANGED <<rows, registered, changes>>

Count(x) ==
    /\ Indexing(x, "tables")
    /\ ~ IsDue(x)
    /\ indexing[x].todo = << >>
    /\ indexing' = [indexing EXCEPT
                      ![x].at = "register",
                      ![x].total = Cardinality({r \in Row : records[r] # None})]
    /\ UNCHANGED <<rows, records, registered, changes>>

Register(x) ==
    /\ Indexing(x, "register")
    /\ registered' = indexing[x].total
    /\ indexing' = [indexing EXCEPT ![x] = None]
    /\ UNCHANGED <<rows, records, changes>>

\* The embedding model or the database fails, or the process dies; reindex_all
\* goes on with the next flavor.
AbortIndex(x) ==
    /\ indexing[x] # None
    /\ indexing' = [indexing EXCEPT ![x] = None]
    /\ UNCHANGED <<rows, records, registered, changes>>

\* Anybody inserts, updates or deletes a row.
ChangeRow(r) ==
    /\ changes < MaxChanges
    /\ changes' = changes + 1
    /\ \E t \in (Texts \cup {None}) \ {rows[r]} : rows' = [rows EXCEPT ![r] = t]
    /\ indexing' = Disturbed(indexing)
    /\ UNCHANGED <<records, registered>>

IndexNext ==
    \/ \E x \in Indexers : \/ StartIndex(x) \/ ReadHashes(x) \/ ReadTable(x) \/ SkipTable(x)
                           \/ Upsert(x) \/ Count(x) \/ Register(x) \/ AbortIndex(x)
    \/ \E r \in Row : ChangeRow(r)

-----------------------------------------------------------------------------
IndexTypeOK ==
    /\ rows \in Stored
    /\ records \in Stored
    /\ registered \in (0 .. Cardinality(Row)) \cup {None}
    /\ indexing \in [Indexers -> IndexRun \cup {None}]
    /\ changes \in 0 .. MaxChanges

\* A row the run was to look at and could read.
Wanted(run, r) == rows[r] # None /\ run.limit = None /\ TableOf[r] \notin run.skipped

\* A run without a limit that ends, and that no change and no other run has
\* overlapped, leaves every row of the tables it could read indexed with the
\* text it has now, whatever runs that overlapped, were cut off or passed tables
\* over have left in the index (index_flavor, MemoryAdapter).
IndexCatchesUp ==
    \A x \in Indexers :
      Indexing(x, "register") /\ indexing[x].alone =>
        \A r \in Row : Wanted(indexing[x], r) => records[r] = rows[r]
=============================================================================
