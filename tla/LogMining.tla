------------------------------ MODULE LogMining ------------------------------
(***************************************************************************)
(* What log mining computes from one corpus, as operators without state:   *)
(* templates and their merging (src/log_templates.py), slot typing, the    *)
(* PMI graph and its direction (src/log_miner.py), the edges that can pass *)
(* the causal gate (src/causality_miner.py), trajectories and the change   *)
(* points of the anomalous ones (src/sequence_learner.py), and the          *)
(* templates whose hourly rate can be anomalous (src/log_rate_anomalies.py) *)
(*                                                                         *)
(* A corpus is a sequence of lines.  A line's text stands for the template *)
(* Drain puts it under: what Drain itself does is outside the repository.  *)
(* Logarithms are compared as powers of two; the outcome of a fit or of a  *)
(* statistical test is left open to the module that uses these operators.  *)
(***************************************************************************)
EXTENDS Integers, Sequences, FiniteSets, SequencesExt, FiniteSetsExt

CONSTANTS
  Near,        \* the pairs of different texts within the edit threshold
  ShapesOf,    \* the patterns that a slot value matches
  RefineHits,  \* hits_threshold: from where on a template takes part in refine
  EnumMax,     \* ENUM_DISTINCT_MAX
  Window,      \* TEMPORAL_WINDOW_S_DEFAULT, in the corpus's unit of time
  MinBins,     \* the bins below which neither statistical test can pass
  MinSequence, \* MIN_SEQ_LEN
  MinFit,      \* MIN_HITS_FOR_HMM
  Hour,        \* the length of an hour in the corpus's unit of time
  MinHours     \* MIN_SAMPLES_PER_TEMPLATE

\* A line: its template, the values of its slots, its time (0 when it has none or
\* an unreadable one), its trace (the host before the dash and the rest, or <<>>)
\* and its service.
Line(text, slots, at, trace, service) ==
  [text |-> text, slots |-> slots, at |-> at, trace |-> trace, service |-> service]

-----------------------------------------------------------------------------
(* Templates.                                                               *)

\* A fresh Drain instance numbers its clusters from 1 as it meets them.
Clusters(corpus) ==
  FoldLeft(LAMBDA seen, line :
             IF Contains(seen, line.text) THEN seen ELSE Append(seen, line.text),
           <<>>, corpus)

ClusterOf(corpus, i) ==
  SelectInSeq(Clusters(corpus), LAMBDA text : text = corpus[i].text)

LinesOf(corpus, cluster) ==
  {i \in DOMAIN corpus : ClusterOf(corpus, i) = cluster}

\* A row of log_templates.  Clusters are numbered from 1 in every run and rows
\* are never deleted, so that a row's id, its cluster and its place agree.
Template(text, hits) == [text |-> text, hits |-> hits, into |-> 0]

\* What consume has gathered from a corpus: each cluster's template and its hits.
Counts(corpus) ==
  [c \in DOMAIN Clusters(corpus) |->
     [text |-> Clusters(corpus)[c], hits |-> Cardinality(LinesOf(corpus, c))]]

\* flush: the row of each cluster takes the run's text and adds the run's hits,
\* whatever text it had before; a merged row stays merged.
Flushed(rows, counts) ==
  [c \in 1..Max({Len(rows), Len(counts)}) |->
     CASE c \notin DOMAIN counts -> rows[c]
       [] c \notin DOMAIN rows -> Template(counts[c].text, counts[c].hits)
       [] OTHER -> [rows[c] EXCEPT !.text = counts[c].text, !.hits = @ + counts[c].hits]]

Live(rows) == {r \in DOMAIN rows : rows[r].into = 0}

Close(a, b) == a = b \/ <<a, b>> \in Near \/ <<b, a>> \in Near

SelectedOfAll(rows) == {r \in DOMAIN rows : rows[r].hits >= RefineHits}

\* refine's SELECT: the live rows with enough hits, those with most hits first.
Selected(rows) == {r \in Live(rows) : rows[r].hits >= RefineHits}

Before(rows, a, b) ==
  \/ rows[a].hits > rows[b].hits
  \/ rows[a].hits = rows[b].hits /\ a < b

\* The loop of refine: a selected row is kept unless it is close to one kept
\* before it, and then the first such row absorbs it.
Kept(rows, kept) ==
  kept = {r \in Selected(rows) :
            \A k \in kept : Before(rows, k, r) => ~ Close(rows[r].text, rows[k].text)}

AbsorbedBy(rows, kept, absorbed) ==
  \A r \in DOMAIN absorbed :
    /\ Before(rows, absorbed[r], r) /\ Close(rows[r].text, rows[absorbed[r]].text)
    /\ \A k \in kept : Close(rows[r].text, rows[k].text) =>
                         k = absorbed[r] \/ Before(rows, absorbed[r], k)

\* Its updates, to the rows as they are by then, with the hits it has read.
Merged(rows, read, absorbed) ==
  LET gain(r) == MapThenSumSet(LAMBDA a : read[a].hits,
                               {a \in DOMAIN absorbed : absorbed[a] = r})
  IN [r \in DOMAIN rows |->
        [rows[r] EXCEPT !.hits = @ + gain(r),
                        !.into = IF r \in DOMAIN absorbed THEN absorbed[r] ELSE @]]

-----------------------------------------------------------------------------
(* Slots.                                                                   *)

\* The values one slot took over the lines of a cluster, in order.
SlotValues(corpus, cluster, slot) ==
  LET mine == SelectSeq(corpus, LAMBDA line :
                 line.text = Clusters(corpus)[cluster] /\ slot \in DOMAIN line.slots)
  IN [j \in DOMAIN mine |-> mine[j].slots[slot]]

Ladder == <<"IRI", "IP", "UUID", "ENUM", "NUMERIC", "HEX">>

\* classify_slot: the first type of the ladder that four in five values match;
\* ENUM asks instead for few values, at least one of them repeated.
SlotType(values) ==
  LET distinct == Cardinality(ToSet(values))
      fits(type) ==
        IF type = "ENUM"
        THEN distinct <= EnumMax /\ distinct < Len(values)
        ELSE 10 * Quantify(DOMAIN values, LAMBDA j : type \in ShapesOf[values[j]])
               >= 8 * Len(values)
      first == SelectInSeq(Ladder, fits)
  IN IF values = <<>> \/ first = 0 THEN "FREETEXT" ELSE Ladder[first]

\* The slots of a corpus, each with its type.
Profiles(corpus) ==
  LET slots == UNION {{<<ClusterOf(corpus, i), x>> : x \in DOMAIN corpus[i].slots} :
                        i \in DOMAIN corpus}
  IN {[row |-> cs[1], slot |-> cs[2],
       type |-> SlotType(SlotValues(corpus, cs[1], cs[2]))] : cs \in slots}

\* persist_slot_profiles: the slots of live templates; the row of a slot that is
\* there is replaced.
Profiled(slots, rows, profiles) ==
  LET fresh == {f \in profiles : f.row \in Live(rows)}
  IN {s \in slots : \A f \in fresh : <<f.row, f.slot>> # <<s.row, s.slot>>} \cup fresh

-----------------------------------------------------------------------------
(* The entity graph.  Values are numbers, ordered as the strings are.       *)

\* The values of a line that look like entities.
Entities(corpus, i) ==
  {corpus[i].slots[s] : s \in {x \in DOMAIN corpus[i].slots :
     SlotType(SlotValues(corpus, ClusterOf(corpus, i), x))
       \in {"IRI", "IP", "UUID", "HEX", "ENUM"}}}

Records(corpus) == {i \in DOMAIN corpus : Entities(corpus, i) # {}}

With(corpus, x) == {i \in Records(corpus) : x \in Entities(corpus, i)}

\* How often x and y occur together: once per trace that has both, and once per
\* pair of dated lines within the window, one with x and the other with y.
Together(corpus, x, y) ==
  LET traces == {corpus[i].trace : i \in With(corpus, x)}
                  \cap {corpus[i].trace : i \in With(corpus, y)}
      near == {p \in With(corpus, x) \X With(corpus, y) :
                 /\ p[1] # p[2]
                 /\ corpus[p[1]].at > 0 /\ corpus[p[2]].at > 0
                 /\ corpus[p[1]].at - corpus[p[2]].at \in -Window..Window}
  IN Cardinality(traces \ {<<>>}) + Cardinality(near)

\* Their pointwise mutual information is at least so many bits.
Bits(corpus, x, y, bits) ==
  Together(corpus, x, y) * Cardinality(Records(corpus))
    >= 2 ^ bits * Cardinality(With(corpus, x)) * Cardinality(With(corpus, y))

\* The times of a value, in any slot, once per occurrence.
Times(corpus, x) ==
  UNION {{<<i, s>> : s \in {j \in DOMAIN corpus[i].slots : corpus[i].slots[j] = x}} :
           i \in {k \in DOMAIN corpus : corpus[k].at > 0}}

\* How often x comes before y within the window.
Leads(corpus, x, y) ==
  Quantify(Times(corpus, x) \X Times(corpus, y),
           LAMBDA p : corpus[p[2][1]].at - corpus[p[1][1]].at \in 1..Window)

\* add_temporal_ordering: from the one that leads seven times in ten.
Directed(corpus, x, y) ==
  LET x_first == Leads(corpus, x, y)
      total == x_first + Leads(corpus, y, x)
  IN total > 0 /\ 10 * x_first >= 7 * total

PmiEdges(corpus) ==
  LET values == UNION {Entities(corpus, i) : i \in DOMAIN corpus}
      edge(x, y, directed) ==
        [src |-> x, dst |-> y, strong |-> Bits(corpus, x, y, 3), directed |-> directed]
      pairs == {p \in values \X values :
                  /\ p[1] < p[2]
                  /\ Together(corpus, p[1], p[2]) > 0
                  /\ Bits(corpus, p[1], p[2], 2)}
  IN {CASE Directed(corpus, p[1], p[2]) -> edge(p[1], p[2], TRUE)
        [] Directed(corpus, p[2], p[1]) -> edge(p[2], p[1], TRUE)
        [] OTHER -> edge(p[1], p[2], FALSE) : p \in pairs}

\* persist_edges: an edge is updated in place; one that is gone, or that turned
\* round since, stays as it was.
Persisted(edges, fresh) ==
  {e \in edges : \A f \in fresh : <<f.src, f.dst>> # <<e.src, e.dst>>} \cup fresh

-----------------------------------------------------------------------------
(* The causal gate.                                                         *)

Dated(corpus) == {i \in DOMAIN corpus : corpus[i].at > 0}

Bins(corpus) ==
  IF Dated(corpus) = {} THEN 0
  ELSE LET times == {corpus[i].at : i \in Dated(corpus)}
       IN Max(times) - Min(times) + 1

\* The rate series of a value is that of the templates it occurs in.
HasSeries(corpus, x) ==
  \E i, k \in DOMAIN corpus :
    /\ x \in ToSet(corpus[i].slots)
    /\ corpus[k].text = corpus[i].text /\ corpus[k].at > 0

\* The edges on which a test is run at all, and long enough for it to pass.
Testable(edges, corpus) ==
  {e \in edges : /\ e.directed
                 /\ Bins(corpus) >= MinBins
                 /\ HasSeries(corpus, e.src) /\ HasSeries(corpus, e.dst)}

-----------------------------------------------------------------------------
(* Sequences and rates.                                                     *)

HostOf(line) == IF line.trace = <<>> THEN "-" ELSE line.trace[1]

Groups(corpus) == {<<line.service, HostOf(line)>> : line \in ToSet(corpus)}

\* build_trajectories: a group's clusters in the order of time, without repeats.
Trajectory(corpus, group) ==
  LET mine == {i \in DOMAIN corpus : <<corpus[i].service, HostOf(corpus[i])>> = group}
      order == SetToSortSeq(mine, LAMBDA i, j :
                 \/ corpus[i].at < corpus[j].at
                 \/ corpus[i].at = corpus[j].at /\ i < j)
      clusters == [j \in DOMAIN order |-> ClusterOf(corpus, order[j])]
  IN FoldLeft(LAMBDA seq, c :
                IF seq # <<>> /\ Last(seq) = c THEN seq ELSE Append(seq, c),
              <<>>, clusters)

Trajectories(corpus) ==
  {g \in Groups(corpus) : Len(Trajectory(corpus, g)) >= MinSequence}

\* The services with enough steps, over two templates or more, to fit a model.
Fittable(corpus) ==
  LET of(service) == {g \in Trajectories(corpus) : g[1] = service}
      seen(service) == UNION {ToSet(Trajectory(corpus, g)) : g \in of(service)}
      steps(service) == MapThenSumSet(LAMBDA g : Len(Trajectory(corpus, g)), of(service))
  IN {service \in {g[1] : g \in Trajectories(corpus)} :
        Cardinality(seen(service)) >= 2 /\ steps(service) >= MinFit}

\* How many trajectories score_anomalies flags: one in twenty, one at least.
FlaggedCount(corpus) ==
  LET n == Cardinality(Trajectories(corpus))
  IN IF n = 0 THEN 0 ELSE Max({1, (n * 5) \div 100})

\* The change points of a trajectory: the templates that fewest trajectories of
\* its service have.
ChangePoints(corpus, group) ==
  LET rate(c) == Quantify(Trajectories(corpus), LAMBDA g :
                   g[1] = group[1] /\ c \in ToSet(Trajectory(corpus, g)))
      mine == ToSet(Trajectory(corpus, group))
  IN {c \in mine : \A d \in mine : rate(c) <= rate(d)}

\* The templates with dated lines in enough hours for a rate to be fitted.
Rated(corpus) ==
  {c \in 1..Len(Clusters(corpus)) :
     Cardinality({corpus[i].at \div Hour : i \in LinesOf(corpus, c) \cap Dated(corpus)})
       >= MinHours}
=============================================================================
