-------------------------- MODULE ReasoningSearch --------------------------
(***************************************************************************)
(* Reasoning search (src/runtime/reasoning_search) and its callers: the    *)
(* cached POST /api/search, the streamed POST /api/search/stream           *)
(* (src/wizard/app.py), and direct calls (RuntimeClient.search, the        *)
(* command line, /api/sparql), which alone may pass rules.  A search asks  *)
(* a model for a plan, checks and compiles it, reads the database, plans   *)
(* once more if there was no row, follows foreign keys, derives facts and  *)
(* lets the model write the answer.  Each answer of the model and each     *)
(* read is a step: the data may change between any two.                    *)
(*                                                                         *)
(* All searches ask one question under one ceiling.  A class stands for    *)
(* the table it is mapped to, and the rows of a table for its version; a   *)
(* query that finds no row sees version 0.  A ground fact about the rows    *)
(* of a class is the name of the class, so that a rule joins classes.      *)
(***************************************************************************)
EXTENDS Naturals, Sequences, FiniteSets

CONSTANTS Cached,       \* threads that serve POST /api/search, one at a time
          Streams,      \* requests to POST /api/search/stream
          Direct,       \* direct calls of search
          Flavors,
          Names,        \* class names a plan may hold
          Vocab,        \* controlled_vocab of each flavor
          Allowed,      \* classes whose table is in db_tables of the flavor
          Unlisted,     \* flavors whose db_tables is missing or empty
          Mapped,       \* classes that have a table in the mapping
          Above,        \* classes declared above the caller's ceiling
          Readable,     \* classes with a column, or a key, within the ceiling
          References,   \* foreign keys between the tables of the classes
          Rules,        \* the rules a direct call may pass, in their order
          ExtraFacts,   \* the extra_facts a direct call may pass
          TTL,          \* SEARCH_CACHE_TTL
          MaxReplans,   \* max_replans
          MaxVersions,  \* bound of the model: versions of a table
          Meetings,     \* bound of the model: callers that meet
          Asking,       \* bound of the model: flavors each caller asks for
          Nothing

Calls == Cached \cup Streams \cup Direct

Facts == Names \cup {Rules[i].head : i \in DOMAIN Rules}

Lineages == SUBSET [fact : Facts, from : SUBSET Facts]

SearchAnswer ==
    [status : {"ok", "empty", "blocked", "ungrounded"},
     class : Names \cup {Nothing},         \* of the reported plan
     table : Names \cup {Nothing},         \* of the executed query
     seen : 0 .. MaxVersions,             \* the version the rows are of
     graph : SUBSET Names,                \* whose rows are in the subgraph
     told : SUBSET Facts,                 \* extra_facts of its call
     inferred : Lineages]

Job == [at : {"lookup", "plan", "execute", "relate", "synthesize"},
        flavor : Flavors,
        rules : {"none", "good", "bad"},
        tries : 0 .. 1,                   \* replies complete_json refused
        replans : 0 .. MaxReplans,
        answer : SearchAnswer]

ASSUME CallersApart == /\ Cached \cap Streams = {}
                       /\ Direct \cap (Cached \cup Streams) = {}
ASSUME FlavorsTyped == /\ Vocab \in [Flavors -> SUBSET Names]
                       /\ Allowed \in [Flavors -> SUBSET Names]
                       /\ Unlisted \subseteq Flavors
ASSUME MappingTyped == /\ Mapped \subseteq Names
                       /\ Above \subseteq Mapped
                       /\ Readable \subseteq Mapped
                       /\ References \in [Names -> SUBSET Mapped]
ASSUME RulesTyped == /\ Rules \in Seq([body : SUBSET Facts, head : Facts])
                     /\ ExtraFacts \subseteq SUBSET Facts
ASSUME NumbersNat == /\ TTL \in Nat /\ MaxReplans \in Nat
                     /\ MaxVersions \in Nat \ {0}
ASSUME NothingIsNoName == Nothing \notin Names
ASSUME NothingIsNoRecord ==
    Nothing \notin Job \cup [flavor : Flavors, answer : SearchAnswer \cup {Nothing}]
ASSUME MeetingsTyped == /\ Meetings \subseteq SUBSET Calls
                        /\ Asking \in [Calls -> SUBSET Flavors]

VARIABLES
    data,        \* the version of every table
    job,         \* each search: where it stands, and its locals
    response,    \* what the last request of a caller got
    cache,       \* _SEARCH_CACHE, with the age of each entry
    meeting,     \* the callers there are
    client,      \* the client of each stream
    queue,       \* what the worker of a stream has queued for it
    heard        \* what a client got besides stages

searchVars == <<meeting, data, job, response, cache, client, queue, heard>>
stream == <<client, queue, heard>>

SearchInit ==
    /\ data = [c \in Mapped |-> 1]
    /\ job = [s \in Calls |-> Nothing]
    /\ response = [s \in Calls |-> Nothing]
    /\ cache = [f \in Flavors |-> Nothing]
    /\ meeting \in Meetings
    /\ client = [s \in Streams |-> "new"]
    /\ queue = [s \in Streams |-> << >>]
    /\ heard = [s \in Streams |-> << >>]

-----------------------------------------------------------------------------
(* Events, and the end of a search *)

\* on_event: only a stream listens.
Emitted(s, n) == IF s \in Streams
                 THEN [queue EXCEPT ![s] = @ \o [i \in 1 .. n |-> "stage"]]
                 ELSE queue

\* Mutant: the sentinel is put after the answer only.
ClosingAnswer(last) == IF last = "answer" THEN <<last, "end">> ELSE <<last>>

\* The finally of the worker puts the sentinel whatever happened.
Closing(last) == <<last, "end">>

Ended(s, n, last) ==
    IF s \in Streams
    THEN [queue EXCEPT ![s] = @ \o [i \in 1 .. n |-> "stage"] \o Closing(last)]
    ELSE queue

\* Mutant: the flavor is not part of the key.
KeyWithoutFlavor(f) == CHOOSE g \in Flavors : TRUE

\* cache_key: the question and the other parameters are the same throughout.
Key(f) == f

Finish(s, answer, n) ==
    /\ job' = [job EXCEPT ![s] = Nothing]
    /\ response' = [response EXCEPT ![s] =
                      [flavor |-> job[s].flavor, answer |-> answer]]
    /\ cache' = IF s \in Cached
                THEN [cache EXCEPT ![Key(job[s].flavor)] =
                        [age |-> 0, answer |-> answer]]
                ELSE cache
    /\ queue' = Ended(s, n, "answer")
    /\ UNCHANGED <<meeting, data, client, heard>>

\* An exception leaves search: 500, or an error event; nothing is cached.
Fail(s) ==
    /\ job' = [job EXCEPT ![s] = Nothing]
    /\ response' = [response EXCEPT ![s] =
                      [flavor |-> job[s].flavor, answer |-> Nothing]]
    /\ queue' = Ended(s, 0, "error")
    /\ UNCHANGED <<data, meeting, cache, client, heard>>

Advance(s, j, n) ==
    /\ job' = [job EXCEPT ![s] = j]
    /\ queue' = Emitted(s, n)
    /\ UNCHANGED <<data, response, meeting, cache, client, heard>>

-----------------------------------------------------------------------------
(* The requests *)

Blank == [status |-> "empty", class |-> Nothing, table |-> Nothing, seen |-> 0,
          graph |-> {}, told |-> {}, inferred |-> {}]

NewJob(s, f, rules, told) ==
    [at |-> IF s \in Cached THEN "lookup" ELSE "plan", flavor |-> f,
     rules |-> rules, tries |-> 0, replans |-> 0,
     answer |-> [Blank EXCEPT !.told = told]]

\* Recall shows in the trace only, if memory can be read and holds a turn.
AfterRecall(s) == {Emitted(s, 0), Emitted(s, 1)}

Request(s) ==
    /\ s \in meeting
    /\ job[s] = Nothing
    /\ s \notin Streams \/ response[s] = Nothing
    /\ \E f \in Asking[s],
          rules \in IF s \in Direct THEN {"none", "good", "bad"} ELSE {"none"},
          told \in IF s \in Direct THEN ExtraFacts ELSE {{}} :
         job' = [job EXCEPT ![s] = NewJob(s, f, rules, told)]
    /\ response' = [response EXCEPT ![s] = Nothing]
    /\ client' = IF s \in Streams THEN [client EXCEPT ![s] = "open"] ELSE client
    /\ queue' \in AfterRecall(s)
    /\ UNCHANGED <<data, meeting, cache, heard>>

Hit(f) == cache[Key(f)] # Nothing /\ cache[Key(f)].age < TTL

\* Mutant: a hit renews the entry.
Renewed(f) == [cache EXCEPT ![Key(f)].age = 0]

\* The age of an entry counts from when it was stored.
Used(f) == cache

ServeCached(s) ==
    /\ job[s] # Nothing /\ job[s].at = "lookup"
    /\ Hit(job[s].flavor)
    /\ job' = [job EXCEPT ![s] = Nothing]
    /\ response' = [response EXCEPT ![s] =
                      [flavor |-> job[s].flavor,
                       answer |-> cache[Key(job[s].flavor)].answer]]
    /\ cache' = Used(job[s].flavor)
    /\ UNCHANGED <<data, meeting, stream>>

Standing(s, at) == job[s] # Nothing /\ job[s].at = at

Miss(s) ==
    /\ Standing(s, "lookup")
    /\ ~ Hit(job[s].flavor)
    /\ Advance(s, [job[s] EXCEPT !.at = "plan"], 0)

-----------------------------------------------------------------------------
(* Plan and compile *)

\* complete_json asks again once; then it raises an error that search does not
\* expect, as do the adapter and a flavor or mapping file that is missing.
Garbled(s) ==
    /\ Standing(s, "plan")
    /\ IF job[s].tries = 0
       THEN Advance(s, [job[s] EXCEPT !.tries = 1], 0)
       ELSE Fail(s)

AdapterFails(s) ==
    /\ job[s] # Nothing /\ job[s].at \in {"plan", "synthesize"}
    /\ Fail(s)

Known(s, c) == c \in Vocab[job[s].flavor]

HasTable(c) == c \in Mapped

\* tier_ok: a class without a declared tier passes.
WithinCeiling(c) == c \notin Above

\* An empty allow-list allows every table.
Permitted(f) == IF f \in Unlisted THEN Names ELSE Allowed[f]

\* A filter may name a column that is not mapped, or lies above the ceiling.
Compiles(s, c, filter) ==
    /\ HasTable(c)
    /\ c \in Permitted(job[s].flavor)
    /\ filter # "refused"

Planned(s, c) ==
    [job[s] EXCEPT !.at = "execute", !.tries = 0,
                   !.answer.class = c, !.answer.table = c]

Terminal(s, status, c) == [job[s].answer EXCEPT !.status = status, !.class = c]

\* The first plan: a class or a filter that is no good ends the search.
Plan(s, c, filter) ==
    /\ Standing(s, "plan")
    /\ job[s].replans = 0
    /\ \/ /\ ~ Known(s, c)
          /\ Finish(s, Terminal(s, "ungrounded", Nothing), 1)
       \/ /\ Known(s, c) /\ ~ WithinCeiling(c)
          /\ Finish(s, Terminal(s, "blocked", c), 1)
       \/ /\ Known(s, c) /\ WithinCeiling(c) /\ ~ Compiles(s, c, filter)
          /\ Finish(s, Terminal(s, "ungrounded", Nothing), 2)
       \/ /\ Known(s, c) /\ WithinCeiling(c) /\ Compiles(s, c, filter)
          /\ Advance(s, Planned(s, c), 1)

\* The second plan: if it is no good the search goes on without a row, with
\* the plan that was accepted last and the query that was executed.  The class
\* is not compared with the ceiling again.
Replan(s, c, filter) ==
    /\ Standing(s, "plan")
    /\ job[s].replans > 0
    /\ \/ /\ ~ Known(s, c)
          /\ Advance(s, [job[s] EXCEPT !.at = "relate"], 1)
       \/ /\ Known(s, c) /\ ~ Compiles(s, c, filter)
          /\ Advance(s, [job[s] EXCEPT !.at = "relate", !.answer.class = c], 1)
       \/ /\ Known(s, c) /\ Compiles(s, c, filter)
          /\ Advance(s, Planned(s, c), 0)

-----------------------------------------------------------------------------
(* Execute, relate, reason *)

MayReplan(s) == job[s].replans < MaxReplans

\* Rows are found unless the table is empty or the filters let none through.
Execute(s) ==
    /\ Standing(s, "execute")
    /\ \E seen \in {0, data[job[s].answer.table]} :
         IF seen = 0 /\ MayReplan(s)
         THEN Advance(s, [job[s] EXCEPT !.at = "plan", !.replans = @ + 1], 1)
         ELSE Advance(s, [job[s] EXCEPT !.at = "relate", !.answer.seen = seen], 1)

\* A direct call may give no database.
NoDatabase(s) ==
    /\ Standing(s, "execute")
    /\ s \in Direct
    /\ job[s].replans = 0
    /\ Advance(s, [job[s] EXCEPT !.at = "relate"], 1)

\* The statement runs into its deadline: SafetyError, outside of the try.
TimedOut(s) ==
    /\ Standing(s, "execute")
    /\ Fail(s)

\* There is a mapped column within the ceiling, or the key has no tier above it.
HasReadable(c) == c \in Readable

\* _fk_neighbors: closed where a table or all of its columns are.
Followed(s) == {c \in References[job[s].answer.table] :
                  c \in Permitted(job[s].flavor) /\ HasReadable(c)}

Fires(i, known) == Rules[i].body \subseteq known /\ Rules[i].head \notin known

\* One round of the loop: rules fire on what was known before it, and the
\* first to derive a fact gives its lineage.
Round(r) ==
    LET fired == {i \in DOMAIN Rules : Fires(i, r.known)}
        first == {i \in fired : \A k \in fired :
                    Rules[k].head = Rules[i].head => i <= k}
        fresh == {Rules[i].head : i \in first}
    IN  [known |-> r.known \cup fresh,
         lineage |-> {l \in r.lineage : l.fact \notin fresh} \cup
                     {[fact |-> Rules[i].head, from |-> Rules[i].body] : i \in first}]

\* reason: a round that derives nothing ends the loop, so there are no more
\* rounds than rules.
Chained(base) ==
    LET after[n \in 0 .. Len(Rules)] ==
          IF n = 0 THEN [known |-> base, lineage |-> {}] ELSE Round(after[n - 1])
    IN  after
Reasoned(base) == Chained(base)[Len(Rules)].lineage

\* The rules start from extra_facts and from facts about rows.  A rule that
\* cannot be parsed leaves all rules out.
WithGraph(s, rows, facts) ==
    [job[s] EXCEPT !.at = "synthesize", !.answer.graph = rows,
                   !.answer.inferred = IF job[s].rules = "good"
                                       THEN Reasoned(facts \cup job[s].answer.told)
                                       ELSE {}]

\* Neighbours are looked up for rows only, and a row may have none; they are
\* facts under auto_relations, but not if they were looked up for materialize.
Relate(s) ==
    /\ Standing(s, "relate")
    /\ \/ /\ job[s].answer.seen = 0
          /\ Advance(s, WithGraph(s, {}, {}), 1)
       \/ /\ job[s].answer.seen > 0
          /\ \E linked \in SUBSET Followed(s), auto \in BOOLEAN :
               LET row == {job[s].answer.table}
               IN  Advance(s, WithGraph(s, row \cup linked,
                                        IF auto THEN row \cup linked ELSE row), 2)

\* The model writes the answer; that it is remembered is best effort.
Synthesize(s) ==
    /\ Standing(s, "synthesize")
    /\ Finish(s, [job[s].answer EXCEPT
                    !.status = IF job[s].answer.seen = 0 THEN "empty" ELSE "ok"], 1)

-----------------------------------------------------------------------------
(* The stream, the clock and the database *)

\* _gen yields the head of the queue; the sentinel ends the response.
Deliver(s) ==
    /\ client[s] = "open"
    /\ queue[s] # << >>
    /\ queue' = [queue EXCEPT ![s] = Tail(@)]
    /\ heard' = IF Head(queue[s]) = "stage" THEN heard
                ELSE [heard EXCEPT ![s] = Append(@, Head(queue[s]))]
    /\ client' = IF Head(queue[s]) = "end" THEN [client EXCEPT ![s] = "served"]
                 ELSE client
    /\ UNCHANGED <<data, job, response, meeting, cache>>

\* The worker does not notice.
Leave(s) ==
    /\ client[s] = "open"
    /\ client' = [client EXCEPT ![s] = "left"]
    /\ UNCHANGED <<data, job, response, meeting, cache, queue, heard>>

Young(f) == cache[f] # Nothing /\ cache[f].age < TTL

Tick ==
    /\ \E f \in Flavors : Young(f)
    /\ cache' = [f \in Flavors |->
                   IF Young(f) THEN [cache[f] EXCEPT !.age = @ + 1] ELSE cache[f]]
    /\ UNCHANGED <<data, job, response, meeting, stream>>

Change(c) ==
    /\ data[c] < MaxVersions
    /\ data' = [data EXCEPT ![c] = @ + 1]
    /\ UNCHANGED <<job, response, cache, meeting, stream>>

-----------------------------------------------------------------------------
Work(s) ==
    \/ ServeCached(s) \/ Miss(s)
    \/ Garbled(s) \/ AdapterFails(s)
    \/ \E c \in Names, filter \in {"fine", "refused"} :
         Plan(s, c, filter) \/ Replan(s, c, filter)
    \/ Execute(s) \/ NoDatabase(s) \/ TimedOut(s) \/ Relate(s) \/ Synthesize(s)

SearchNext ==
    \/ \E s \in Calls : Request(s) \/ Work(s)
    \/ \E s \in Streams : Deliver(s) \/ Leave(s)
    \/ Tick
    \/ \E c \in Mapped : Change(c)

SearchSpec == SearchInit /\ [][SearchNext]_searchVars

\* Time passes; the worker of a stream is a thread of its own, whose calls of
\* the model and of the database all have a deadline, and a server writes what
\* a generator yields.
TimePasses == WF_searchVars(Tick)
StreamRuns(s) == WF_searchVars(Work(s)) /\ WF_searchVars(Deliver(s))

FairSearchSpec ==
    /\ SearchSpec
    /\ TimePasses
    /\ \A s \in Streams : StreamRuns(s)

-----------------------------------------------------------------------------
\* The state is well formed.
SearchTypeOK ==
    /\ data \in [Mapped -> 1 .. MaxVersions]
    /\ \A s \in Calls : job[s] # Nothing => job[s] \in Job
    /\ \A s \in Calls : response[s] # Nothing =>
         /\ response[s].flavor \in Flavors
         /\ response[s].answer # Nothing => response[s].answer \in SearchAnswer
    /\ \A f \in Flavors : cache[f] # Nothing =>
         cache[f].age \in 0 .. TTL /\ cache[f].answer \in SearchAnswer
    /\ meeting \in Meetings
    /\ client \in [Streams -> {"new", "open", "served", "left"}]
    /\ \A s \in Streams : \A i \in DOMAIN queue[s] :
         queue[s][i] \in {"stage", "answer", "error", "end"}

\* Facts that follow from base along a lineage, by the length of the way.
Following(lineage, facts) ==
    facts \cup {l.fact : l \in {m \in lineage : m.from \subseteq facts}}
Reached(base, lineage) ==
    LET after[n \in 0 .. Len(Rules)] ==
          IF n = 0 THEN base ELSE Following(lineage, after[n - 1])
    IN  after
Supported(base, lineage) == Reached(base, lineage)[Len(Rules)]

\* An answer with rows, cached or not, was read from the table of the class its
\* plan reports, a class of the vocabulary of the flavor that was asked, and a
\* table the flavor allows (any, if it lists none); its subgraph holds only that
\* class and readable neighbours the flavor allows; and each derived fact goes
\* back, along its lineage, to rows of that subgraph or to facts its caller
\* brought along (engine.search, planner, query_compiler, reasoner, cache).
AnswerGrounded(f, a) ==
    a.status = "ok" =>
      /\ a.class = a.table
      /\ a.table \in Vocab[f] \cap Permitted(f) \cap Mapped
      /\ a.graph \ {a.table} \subseteq References[a.table] \cap Permitted(f) \cap Readable
      /\ {l.fact : l \in a.inferred} \subseteq Supported(a.graph \cup a.told, a.inferred)

SearchGrounded ==
    \A s \in Calls :
      response[s] # Nothing /\ response[s].answer # Nothing =>
        AnswerGrounded(response[s].flavor, response[s].answer)

Current(a) == a # Nothing /\ a.status = "ok" => a.seen = data[a.table]

\* Once the database has stopped changing, /api/search goes over to answers
\* from the rows it has now: a search that read before the last change may
\* still store its answer over a newer one, but no entry outlives the TTL.
CacheConverges ==
    <>[][\A s \in Cached : response[s] = Nothing /\ response'[s] # Nothing =>
           Current(response'[s].answer)]_searchVars

\* A stream that was opened ends, unless its client leaves: it hears one
\* answer or one error, and then the end, however the search went.
StreamEnds ==
    \A s \in Streams :
      client[s] = "open" ~>
        \/ client[s] = "left"
        \/ /\ client[s] = "served"
           /\ heard[s] \in {<<"answer", "end">>, <<"error", "end">>}
=============================================================================
