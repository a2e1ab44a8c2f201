--------------------------- MODULE GraphPublisher ---------------------------
(***************************************************************************)
(* The upload of the Turtle files to a graph store (src/graph_publisher.py,*)
(* phase publish).  run_publish lists the files, groups them by the named  *)
(* graph of their sensitivity tier, and sends them one after another, each *)
(* in a request with a time limit.  The store is external: it applies a    *)
(* request and answers, refuses it, or applies it after the client has     *)
(* given up.  Fuseki, Oxigraph and GraphDB get a PUT, which replaces the   *)
(* named graph; Stardog and Neptune an INSERT DATA, which adds to it.  The *)
(* INSERT DATA has the whole file in its braces, prefix lines and all, with*)
(* the backslashes doubled and the quotes escaped.  A store that keeps to  *)
(* SPARQL refuses it; what one that does not refuses makes of it is        *)
(* modelled as the escaped statements.                                     *)
(* dry_run has no caller.  The signing of the requests is left out: a      *)
(* request without credentials is one that fails.                          *)
(***************************************************************************)
EXTENDS OutputDirectory

CONSTANTS Stores,      \* what --store may name
          Sending,     \* the order in which the files are sent, graph by graph
          TierOf,      \* ARTIFACT_TIER_MAP, "default" for other files
          Quoting,     \* the records with a backslash or a quote in them
          MaxPublishes \* bound of the model: runs of phase publish

ASSUME PublishAssumption ==
    /\ Sending \in Seq(Files)
    /\ \A i, j \in DOMAIN Sending : Sending[i] = Sending[j] => i = j

VARIABLES store,       \* --store, the same in all runs: another is another store
          todo,        \* places in Sending still to be sent, {} when no run is
                       \* under way
          sending,     \* the text read of the first, None before it is read
          results,     \* each file sent by the last run: whether it went well
          sent,        \* the text sent for each, for an observer
          graph,       \* the store: what each named graph holds
          late,        \* requests given up that the store may still apply
          disturbed,   \* graphs such a request may replace, for an observer
          publishes    \* runs begun, for MaxPublishes

publishVars ==
    <<store, todo, sending, results, sent, graph, late, disturbed, publishes>>

\* The file that is sent next, the first of those left.
First == CHOOSE i \in todo : \A j \in todo : i <= j
Current == Sending[First]

Replacing == {"fuseki", "oxigraph", "graphdb"}
Tiers == {"Public", "Internal", "Confidential", "Restricted", "default"}

\* The text of one file, as it is read.
Text(f, has) == {[file |-> f, record |-> r, escaped |-> FALSE] : r \in has}

\* _sparql_update_insert
Escaped(text) == {[x EXCEPT !.escaped = x.record \in Quoting] : x \in text}

\* What the store makes of a text that it does not refuse.
Stored(text) == IF store \in Replacing THEN text ELSE Escaped(text)

\* _http_graph_store_put replaces, _http_sparql_update inserts.
Applied(g, request) ==
    [g EXCEPT ![request.tier] =
        IF store \in Replacing THEN Stored(request.text)
                               ELSE @ \cup Stored(request.text)]

\* Files that are not there when the directories are listed are not sent.
StartPublish ==
    /\ todo = {}
    /\ publishes < MaxPublishes
    /\ todo' = {i \in DOMAIN Sending : IsFile(Sending[i])}
    /\ publishes' = publishes + 1
    /\ results' = <<>>
    /\ sent' = <<>>
    /\ UNCHANGED <<store, sending, graph, late, disturbed>>

\* _read_turtle
ReadTurtle ==
    /\ todo # {}
    /\ sending = None
    /\ sending' = Text(Current, Records(Current))
    /\ UNCHANGED <<store, todo, results, sent, graph, late, disturbed, publishes>>

Request == [tier |-> TierOf[Current], text |-> sending]

With(f, x, v) == [y \in DOMAIN f \cup {x} |-> IF y = x THEN v ELSE f[y]]

Answered(ok) ==
    /\ results' = With(results, Current, ok)
    /\ sent' = With(sent, Current, sending)
    /\ todo' = todo \ {First}
    /\ sending' = None
    /\ UNCHANGED publishes

\* The store applies the request and says so in time.
Accepted ==
    /\ sending # None
    /\ graph' = Applied(graph, Request)
    /\ disturbed' = IF \E r \in late : r.tier = Request.tier
                    THEN disturbed ELSE disturbed \ {Request.tier}
    /\ Answered(TRUE)
    /\ UNCHANGED <<store, late>>

\* Mutant: the error is printed and the file counts as sent.
RefusedOk ==
    /\ sending # None
    /\ Answered(TRUE)
    /\ UNCHANGED <<store, graph, late, disturbed>>

\* It refuses it, as it does a text that is cut, or cannot be reached.
Refused ==
    /\ sending # None
    /\ Answered(FALSE)
    /\ UNCHANGED <<store, graph, late, disturbed>>

\* The client gives up after 30 or 60 seconds; the store may go on.
TimedOut ==
    /\ sending # None
    /\ late' = late \cup {Request}
    /\ disturbed' = disturbed \cup {Request.tier}
    /\ Answered(FALSE)
    /\ UNCHANGED <<store, graph>>

\* The store comes to a request nobody waits for, or drops it.
StoreLate ==
    \E r \in late :
        /\ graph' \in {graph, Applied(graph, r)}
        /\ late' = late \ {r}
        /\ UNCHANGED <<store, todo, sending, results, sent, disturbed, publishes>>

\* The process is killed between two requests.
PublishDies ==
    /\ todo # {}
    /\ todo' = {}
    /\ sending' = None
    /\ UNCHANGED <<store, results, sent, graph, late, disturbed, publishes>>

PublishInit ==
    /\ store \in Stores
    /\ todo = {}
    /\ sending = None
    /\ results = <<>>
    /\ sent = <<>>
    /\ graph = [t \in Tiers |-> {}]
    /\ late = {}
    /\ disturbed = {}
    /\ publishes = 0

Publish == \/ StartPublish \/ ReadTurtle \/ Accepted \/ Refused \/ TimedOut
           \/ PublishDies

-----------------------------------------------------------------------------
\* The files of a tier that the last run reports as published.
Reported(t) == {f \in DOMAIN results : results[f] /\ TierOf[f] = t}
Position(f) == CHOOSE i \in DOMAIN Sending : Sending[i] = f

\* What becomes of a file that a run reports as published.  Where files are
\* inserted, its statements are in the store, escaped.  Where a file replaces the
\* named graph, it is alone in the graph of its tier, or the run reports a later
\* file of the same tier as published as well, which has replaced it: one file of
\* each tier is left of the upload "of all Turtle artifacts" (graph_publisher.py:4).
\* A graph that a request given up earlier may have replaced is excepted.
PublishedOrReplaced ==
    \A t \in Tiers :
        IF store \in Replacing
        THEN \A f \in Reported(t) :
                \/ t \in disturbed
                \/ graph[t] = Stored(sent[f])
                \/ \E g \in Reported(t) : Position(g) > Position(f)
        ELSE \A f \in Reported(t) : Stored(sent[f]) \subseteq graph[t]
=============================================================================
