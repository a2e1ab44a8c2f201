----------------------------- MODULE WizardProofs -----------------------------
(***************************************************************************)
(* Proofs about what the requests of the wizard share: its session file    *)
(* and its event bus.                                                      *)
(*                                                                         *)
(* The session: its type invariant, that it holds entries of approved      *)
(* proposals only, and that an approval is kept while nothing the observer *)
(* counts as a danger has happened, for any number of requests, proposals  *)
(* and saves.  The bus, for any streams, any capacity and any number of    *)
(* events: its type invariant, the order of what a client sees, and that   *)
(* what it misses has been counted.  Under the fairness of the streams, and *)
(* as no stream is ever stuck (a hypothesis: it is about ENABLED), that *)
(* a client that leaves is unsubscribed, and that an event which waits comes*)
(* one place nearer to its client.                                         *)
(***************************************************************************)
EXTENDS WizardSession, EventBus, SequenceTheorems, FiniteSetTheorems, TLAPS

Keys == {"entities", "causal_rules", "rules"}
Atoms == Proposals \cup {Rule, Summarised}

-----------------------------------------------------------------------------
(* Sessions *)

LEMMA SessionIs ==
    ASSUME NEW s
    PROVE  s \in Session <=> /\ s = [k \in DOMAIN s |-> s[k]]
                             /\ "entities" \in DOMAIN s /\ DOMAIN s \subseteq Keys
                             /\ \A k \in DOMAIN s : s[k] \subseteq Atoms
<1>1. ASSUME s \in Session
      PROVE  /\ s = [k \in DOMAIN s |-> s[k]]
             /\ "entities" \in DOMAIN s /\ DOMAIN s \subseteq Keys
             /\ \A k \in DOMAIN s : s[k] \subseteq Atoms
  <2>1. PICK ks \in SUBSET {"causal_rules", "rules"} :
            s \in [{"entities"} \cup ks -> SUBSET Atoms]
    BY <1>1 DEF Session, Atoms
  <2> QED BY <2>1 DEF Keys
<1>2. ASSUME /\ s = [k \in DOMAIN s |-> s[k]]
             /\ "entities" \in DOMAIN s /\ DOMAIN s \subseteq Keys
             /\ \A k \in DOMAIN s : s[k] \subseteq Atoms
      PROVE  s \in Session
  <2> DEFINE ks == DOMAIN s \ {"entities"}
  <2>1. ks \in SUBSET {"causal_rules", "rules"} /\ DOMAIN s = {"entities"} \cup ks
    BY <1>2 DEF Keys
  <2>2. s \in [DOMAIN s -> SUBSET Atoms]
    BY <1>2
  <2>3. s \in [{"entities"} \cup ks -> SUBSET Atoms]
    BY <2>1, <2>2
  <2> QED BY <2>1, <2>3 DEF Session, Atoms
<1> QED BY <1>1, <1>2

\* What update makes of a session is one, and a key has the last list given.
LEMMA UpdatedIs ==
    ASSUME NEW s \in Session, NEW d, DOMAIN d \subseteq Keys,
           \A k \in DOMAIN d : d[k] \subseteq Atoms
    PROVE  /\ Updated(s, d) \in Session
           /\ \A k : List(Updated(s, d), k)
                     = IF k \in DOMAIN d THEN d[k] ELSE List(s, k)
<1> DEFINE u == Updated(s, d)
<1>1. /\ DOMAIN u = DOMAIN s \cup DOMAIN d
      /\ \A k \in DOMAIN u : u[k] = IF k \in DOMAIN d THEN d[k] ELSE s[k]
      /\ u = [k \in DOMAIN u |-> u[k]]
    BY DEF Updated
<1>2. /\ "entities" \in DOMAIN s /\ DOMAIN s \subseteq Keys
      /\ \A k \in DOMAIN s : s[k] \subseteq Atoms
    BY SessionIs
<1> HIDE DEF u
<1>3. u \in Session
    BY <1>1, <1>2, SessionIs
<1>4. \A k : List(u, k) = IF k \in DOMAIN d THEN d[k] ELSE List(s, k)
    BY <1>1 DEF List
<1> QED BY <1>3, <1>4 DEF u

LEMMA WithIs ==
    ASSUME NEW s \in Session, NEW k \in Keys, NEW list \in SUBSET Atoms
    PROVE  /\ With(s, k, list) \in Session
           /\ \A j : List(With(s, k, list), j) = IF j = k THEN list ELSE List(s, j)
<1> DEFINE d == [x \in {k} |-> list]
<1>1. DOMAIN d = {k} /\ d[k] = list
    OBVIOUS
<1> HIDE DEF d
<1>2. /\ Updated(s, d) \in Session
      /\ \A j : List(Updated(s, d), j) = IF j \in DOMAIN d THEN d[j] ELSE List(s, j)
    BY <1>1, UpdatedIs
<1> QED BY <1>1, <1>2 DEF With, d

LEMMA ListIs ==
    ASSUME NEW s \in Session PROVE \A k : List(s, k) \subseteq Atoms
BY SessionIs DEF List

LEMMA KeyIs == \A p : KeyOf(p) \in {"entities", "causal_rules"}
BY DEF KeyOf

LEMMA FixedSessions ==
    /\ Default \in Session /\ Template \in Session
    /\ Entries(Default) = {} /\ Entries(Template) = {}
<1>1. /\ DOMAIN Default = {"entities", "rules"} /\ DOMAIN Template = {"entities"}
      /\ \A k \in DOMAIN Default : Default[k] = {}
      /\ \A k \in DOMAIN Template : Template[k] = {}
      /\ Default = [k \in DOMAIN Default |-> Default[k]]
      /\ Template = [k \in DOMAIN Template |-> Template[k]]
    BY DEF Default, Template
<1>2. Default \in Session /\ Template \in Session
    BY <1>1, SessionIs DEF Keys
<1> QED BY <1>1, <1>2 DEF Entries, List

LEMMA ImportedIs ==
    ASSUME NEW s \in Session
    PROVE  Imported(s) \in Session /\ Entries(Imported(s)) \subseteq Entries(s)
<1> DEFINE i == Imported(s)
<1>1. /\ DOMAIN i = {"entities"} /\ i["entities"] = s["entities"]
      /\ i = [k \in DOMAIN i |-> i[k]]
    BY DEF Imported
<1>2. "entities" \in DOMAIN s /\ s["entities"] \subseteq Atoms
    BY SessionIs
<1> HIDE DEF i
<1>3. i \in Session
    BY <1>1, <1>2, SessionIs DEF Keys
<1>4. Entries(i) \subseteq Entries(s)
    BY <1>1, <1>2 DEF Entries, List
<1> QED BY <1>3, <1>4 DEF i

LEMMA EntryIs ==
    ASSUME NEW s \in Session, NEW p \in Proposals
    PROVE  /\ WithEntry(s, p) \in Session
           /\ Entries(WithEntry(s, p)) \subseteq Entries(s) \cup {p}
           /\ p \in List(WithEntry(s, p), KeyOf(p))
           /\ \A q : q \in List(s, KeyOf(q))
                     => q \in List(WithEntry(s, p), KeyOf(q))
<1> DEFINE l == List(s, KeyOf(p)) \cup {p}
<1>1. KeyOf(p) \in Keys /\ l \in SUBSET Atoms
    BY KeyIs, ListIs DEF Keys, Atoms
<1> HIDE DEF l
<1>2. /\ With(s, KeyOf(p), l) \in Session
      /\ \A j : List(With(s, KeyOf(p), l), j)
                = IF j = KeyOf(p) THEN l ELSE List(s, j)
    BY <1>1, WithIs
<1>3. WithEntry(s, p) = With(s, KeyOf(p), l)
    BY DEF WithEntry, l
<1>4. Entries(WithEntry(s, p)) \subseteq Entries(s) \cup {p}
    BY <1>2, <1>3, KeyIs DEF Entries, l
<1> QED BY <1>2, <1>3, <1>4 DEF l

\* A list of rules leaves the entries alone.
LEMMA RulesAre ==
    ASSUME NEW s \in Session, NEW rs \in SUBSET Atoms
    PROVE  /\ With(s, "rules", rs) \in Session
           /\ Entries(With(s, "rules", rs)) = Entries(s)
           /\ \A q : List(With(s, "rules", rs), KeyOf(q)) = List(s, KeyOf(q))
<1>1. /\ With(s, "rules", rs) \in Session
      /\ \A j : List(With(s, "rules", rs), j) = IF j = "rules" THEN rs ELSE List(s, j)
    BY WithIs DEF Keys
<1> QED BY <1>1, KeyIs DEF Entries

LEMMA WithSummaryIs ==
    ASSUME NEW s \in Session
    PROVE  /\ WithSummary(s) \in Session /\ Entries(WithSummary(s)) = Entries(s)
           /\ \A q : List(WithSummary(s), KeyOf(q)) = List(s, KeyOf(q))
BY RulesAre DEF WithSummary, Atoms

LEMMA PostedIs ==
    ASSUME NEW s \in Session, NEW d \in Session
    PROVE  /\ Updated(s, d) \in Session
           /\ Entries(Updated(s, d)) \subseteq Entries(s) \cup Entries(d)
           /\ \A k : List(Updated(s, d), k)
                     = IF k \in DOMAIN d THEN d[k] ELSE List(s, k)
<1>1. DOMAIN d \subseteq Keys /\ \A k \in DOMAIN d : d[k] \subseteq Atoms
    BY SessionIs
<1>2. /\ Updated(s, d) \in Session
      /\ \A k : List(Updated(s, d), k)
                = IF k \in DOMAIN d THEN d[k] ELSE List(s, k)
    BY <1>1, UpdatedIs
<1>3. \A k : List(Updated(s, d), k) \subseteq List(s, k) \cup List(d, k)
    BY <1>2 DEF List
<1> HIDE DEF Updated
<1>4. Entries(Updated(s, d)) \subseteq Entries(s) \cup Entries(d)
    BY <1>3 DEF Entries
<1> QED BY <1>2, <1>4

\* The user removes an entry from every list.
LEMMA RemovedIs ==
    ASSUME NEW s \in Session, NEW p
    PROVE  LET t == [k \in DOMAIN s |-> s[k] \ {p}] IN
           /\ t \in Session /\ DOMAIN t = DOMAIN s
           /\ Entries(t) \subseteq Entries(s)
           /\ \A k \in DOMAIN s : t[k] = s[k] \ {p}
<1> DEFINE t == [k \in DOMAIN s |-> s[k] \ {p}]
<1>1. /\ DOMAIN t = DOMAIN s /\ t = [k \in DOMAIN t |-> t[k]]
      /\ \A k \in DOMAIN s : t[k] = s[k] \ {p}
    OBVIOUS
<1>2. /\ "entities" \in DOMAIN s /\ DOMAIN s \subseteq Keys
      /\ \A k \in DOMAIN s : s[k] \subseteq Atoms
    BY SessionIs
<1> HIDE DEF t
<1>3. t \in Session
    BY <1>1, <1>2, SessionIs
<1>4. Entries(t) \subseteq Entries(s)
    BY <1>1 DEF Entries, List
<1> QED BY <1>1, <1>3, <1>4 DEF t

LEMMA ParsesIs ==
    ASSUME file \in Session \cup {None, Empty, Garbled}
    PROVE  Parses(file) <=> file \in Session
BY FilesApart DEF Parses

-----------------------------------------------------------------------------
(* The inductive invariant *)

\* Of whatever may become the session the entries are approved.
Clean ==
    /\ file \in Session => Entries(file) \subseteq approved
    /\ Entries(tab) \subseteq approved
    /\ saved # None => Entries(saved) \subseteq approved
    /\ \A r \in Holding : Entries(request[r].doc) \subseteq approved

In(s, p) == p \in List(s, KeyOf(p))

Saving(r) == r \in Holding /\ request[r].at = "dump"

\* What is kept is where it will be saved from, and in the browser's copy if that
\* is no older than the last approval.
Safe ==
    /\ \A r \in Holding :
          /\ request[r].proposal \in Proposals \/ request[r].at # "commit"
          /\ request[r].kind = "approve" /\ request[r].at # "commit"
             => request[r].proposal \in Proposals
                /\ In(request[r].doc, request[r].proposal)
    /\ kept # {} =>
          /\ \A a, b \in Holding : a = b
          /\ \A r \in Holding : \A p \in kept : In(request[r].doc, p)
          /\ (\A r \in Holding : ~ Saving(r))
             => file \in Session /\ \A p \in kept : In(file, p)
          /\ (\E r \in Holding : Saving(r)) => file = Empty
          /\ fresh => \A p \in kept : KeyOf(p) \in DOMAIN tab
                                      => p \in tab[KeyOf(p)]

SInv == TypeOK /\ Clean /\ Safe

LEMMA LoadedIs ==
    ASSUME TypeOK, Clean
    PROVE  /\ Loaded \in Session /\ Entries(Loaded) \subseteq approved
           /\ file \in Session => Loaded = file
BY ParsesIs, FixedSessions DEF TypeOK, Clean, Loaded

\* A request now holds a session.
LEMMA HoldsIs ==
    ASSUME TypeOK, NEW r \in Requests, NEW k \in Kind,
           NEW p \in Proposals \cup {None}, NEW at \in {"commit", "open"},
           NEW doc \in Session, Holds(r, k, p, at, doc)
    PROVE  /\ request' \in [Requests -> Request \cup {None}]
           /\ Holding' = Holding \cup {r}
           /\ request'[r].kind = k /\ request'[r].proposal = p
           /\ request'[r].at = at /\ request'[r].doc = doc
           /\ \A x \in Requests \ {r} : request'[x] = request[x]
           /\ request'[r].doc \in Session
<1> DEFINE q == [kind |-> k, proposal |-> p, at |-> at, doc |-> doc]
<1>1. q \in Request /\ q # None
    BY RequestsAreThere DEF Request
<1>2. request' = [request EXCEPT ![r] = q]
    BY DEF Holds
<1>3. q.kind = k /\ q.proposal = p /\ q.at = at /\ q.doc = doc
    OBVIOUS
<1> HIDE DEF q
<1>4. /\ request' \in [Requests -> Request \cup {None}] /\ request'[r] = q
      /\ \A x \in Requests \ {r} : request'[x] = request[x]
    BY <1>1, <1>2 DEF TypeOK
<1>5. Holding' = Holding \cup {r}
    BY <1>1, <1>3, <1>4 DEF Holding
<1> QED BY <1>3, <1>4, <1>5

\* So what the invariant says of types and entries goes on to hold.
LEMMA HoldsClean ==
    ASSUME TypeOK, Clean, NEW r \in Requests, NEW k \in Kind,
           NEW p \in Proposals \cup {None}, NEW at \in {"commit", "open"},
           NEW doc \in Session, Holds(r, k, p, at, doc),
           UNCHANGED <<file, tab, saved, fresh>>,
           approved \subseteq approved', approved' \subseteq Proposals,
           kept' \subseteq Proposals, saves' \in 0 .. MaxSaves,
           Entries(doc) \subseteq approved'
    PROVE  TypeOK' /\ Clean'
<1>1. /\ request' \in [Requests -> Request \cup {None}]
      /\ Holding' = Holding \cup {r}
      /\ request'[r].doc = doc
      /\ \A x \in Requests \ {r} : request'[x] = request[x]
    BY HoldsIs
<1>2. Holding \subseteq Requests
    BY DEF Holding
<1>3. TypeOK'
    BY <1>1, <1>2 DEF TypeOK
<1>4. Clean'
  <2>1. \A x \in Holding' : Entries(request'[x].doc) \subseteq approved'
    BY <1>1, <1>2 DEF Clean
  <2>2. file' = file /\ tab' = tab /\ saved' = saved
    OBVIOUS
  <2>3. /\ file' \in Session => Entries(file') \subseteq approved'
        /\ Entries(tab') \subseteq approved'
        /\ saved' # None => Entries(saved') \subseteq approved'
    BY <2>2 DEF Clean
  <2> QED BY <2>1, <2>3 DEF Clean
<1> QED BY <1>3, <1>4

\* A request that begins to hold a session keeps what is kept.
LEMMA StartSafe ==
    ASSUME TypeOK, Safe, NEW r \in Requests \ Holding, NEW k \in Kind,
           NEW p \in Proposals \cup {None}, NEW at \in {"commit", "open"},
           NEW doc \in Session, Holds(r, k, p, at, doc),
           NEW safe, Endanger(r, safe), UNCHANGED <<file, tab, fresh>>,
           at = "commit" => p \in Proposals, k = "approve" => at = "commit",
           \A q \in kept \cap safe : In(file, q) => In(doc, q)
    PROVE  Safe'
<1>1. /\ Holding' = Holding \cup {r}
      /\ request'[r].kind = k /\ request'[r].proposal = p
      /\ request'[r].at = at /\ request'[r].doc = doc
      /\ \A x \in Requests \ {r} : request'[x] = request[x]
    BY HoldsIs
<1>2. Holding \subseteq Requests
    BY DEF Holding
<1>3. \A x \in Holding' :
          /\ request'[x].proposal \in Proposals \/ request'[x].at # "commit"
          /\ request'[x].kind = "approve" /\ request'[x].at # "commit"
             => request'[x].proposal \in Proposals
                /\ In(request'[x].doc, request'[x].proposal)
    BY <1>1, <1>2 DEF Safe
<1>4. ASSUME kept' # {}
      PROVE  /\ \A a, b \in Holding' : a = b
             /\ \A x \in Holding' : \A q \in kept' : In(request'[x].doc, q)
             /\ (\A x \in Holding' : ~ Saving(x)')
                => file' \in Session /\ \A q \in kept' : In(file', q)
             /\ (\E x \in Holding' : Saving(x)') => file' = Empty
             /\ fresh' => \A q \in kept' : KeyOf(q) \in DOMAIN tab'
                                           => q \in tab'[KeyOf(q)]
  <2>1. Holding = {} /\ kept' = kept \cap safe
    BY <1>4 DEF Endanger
  <2>2. file \in Session /\ \A q \in kept : In(file, q)
    BY <1>4, <2>1 DEF Safe
  <2>3. Holding' = {r} /\ ~ Saving(r)'
    BY <1>1, <2>1 DEF Saving
  <2>4. \A q \in kept' : In(file, q) /\ In(doc, q)
    BY <2>1, <2>2
  <2>5. fresh => \A q \in kept' : KeyOf(q) \in DOMAIN tab => q \in tab[KeyOf(q)]
    BY <1>4, <2>1 DEF Safe
  <2> QED BY <1>1, <2>2, <2>3, <2>4, <2>5
<1> QED BY <1>3, <1>4 DEF Safe

-----------------------------------------------------------------------------
(* The steps *)

LEMMA Initially == Init => SInv
<1> SUFFICES ASSUME Init PROVE SInv
    OBVIOUS
<1> USE DEF Init
<1>1. Holding = {}
    BY DEF Holding
<1>2. TypeOK
    BY <1>1, FixedSessions, MaxSavesNat DEF TypeOK
<1>3. Clean
    BY <1>1, FixedSessions, FilesApart DEF Clean
<1>4. Safe
    BY <1>1 DEF Safe
<1> QED BY <1>2, <1>3, <1>4 DEF SInv

\* The steps by which a request begins to hold a session.
LEMMA StartStep ==
    ASSUME SInv, NEW r \in Requests,
           \/ \E p \in Proposals : StartReview(r, p)
           \/ StartPost(r) \/ StartRules(r) \/ Answer(r) \/ StartReplace(r)
    PROVE  SInv'
<1> USE DEF SInv
<1>1. ASSUME NEW k \in Kind, NEW p \in Proposals \cup {None},
             NEW at \in {"commit", "open"}, NEW doc \in Session, NEW safe,
             Holds(r, k, p, at, doc), Endanger(r, safe),
             UNCHANGED <<file, tab, saved, approved, fresh>>,
             saves' \in 0 .. MaxSaves, r \notin Holding,
             Entries(doc) \subseteq approved,
             at = "commit" => p \in Proposals, k = "approve" => at = "commit",
             \A q \in kept \cap safe :
                 file \in Session /\ In(file, q)
                 /\ (fresh /\ KeyOf(q) \in DOMAIN tab => q \in tab[KeyOf(q)])
                 => In(doc, q)
      PROVE  SInv'
  <2>1. kept' \subseteq Proposals
    BY <1>1 DEF Endanger, TypeOK
  <2>2. approved \subseteq approved' /\ approved' \subseteq Proposals
    BY <1>1 DEF TypeOK
  <2>3. TypeOK' /\ Clean'
    BY <1>1, <2>1, <2>2, HoldsClean
  <2>4. kept' # {} => Holding = {} /\ kept' = kept \cap safe
    BY <1>1 DEF Endanger
  <2>5. CASE kept' # {}
    <3>1. \A q \in kept \cap safe : In(file, q) => In(doc, q)
      BY <1>1, <2>4, <2>5 DEF Safe
    <3> QED BY <1>1, <2>3, <3>1, StartSafe
  <2>6. CASE kept' = {}
    <3>1. /\ Holding' = Holding \cup {r}
          /\ request'[r].kind = k /\ request'[r].proposal = p
          /\ request'[r].at = at /\ request'[r].doc = doc
          /\ \A x \in Requests \ {r} : request'[x] = request[x]
      BY <1>1, HoldsIs
    <3>2. Safe'
      BY <1>1, <2>6, <3>1 DEF Safe, Holding
    <3> QED BY <2>3, <3>2
  <2> QED BY <2>5, <2>6
<1>2. /\ Loaded \in Session /\ Entries(Loaded) \subseteq approved
      /\ file \in Session => Loaded = file
      /\ tab \in Session /\ Entries(tab) \subseteq approved
    BY LoadedIs DEF TypeOK, Clean
<1>3. ASSUME Begin(r) PROVE saves' \in 0 .. MaxSaves /\ r \notin Holding
    BY <1>3, MaxSavesNat DEF Begin, TypeOK, Holding
<1>4. ASSUME NEW p \in Proposals, StartReview(r, p) PROVE SInv'
  <2>1. PICK k \in {"approve", "merge"} : Holds(r, k, p, "commit", Loaded)
    BY <1>4 DEF StartReview
  <2>2. Endanger(r, Proposals) /\ UNCHANGED <<file, tab, saved, approved, fresh>>
    BY <1>4 DEF StartReview
  <2>3. k \in Kind /\ p \in Proposals \cup {None}
    BY DEF Kind
  <2>4. saves' \in 0 .. MaxSaves /\ r \notin Holding
    BY <1>3, <1>4 DEF StartReview
  <2> QED BY <1>1, <1>2, <2>1, <2>2, <2>3, <2>4
<1>5. CASE StartPost(r)
  <2> DEFINE doc == Updated(Loaded, tab)
             safe == IF fresh THEN Proposals
                     ELSE {p \in Proposals : KeyOf(p) \notin DOMAIN tab}
  <2>1. Holds(r, "post", None, "open", doc) /\ Endanger(r, safe)
        /\ UNCHANGED <<file, tab, saved, approved, fresh>>
    BY <1>5 DEF StartPost
  <2>2. /\ doc \in Session /\ Entries(doc) \subseteq approved
        /\ \A k : List(doc, k) = IF k \in DOMAIN tab THEN tab[k] ELSE List(Loaded, k)
    BY <1>2, PostedIs
  <2> HIDE DEF doc
  <2>3. \A q \in kept \cap safe :
            file \in Session /\ In(file, q)
            /\ (fresh /\ KeyOf(q) \in DOMAIN tab => q \in tab[KeyOf(q)])
            => In(doc, q)
    BY <1>2, <2>2 DEF In
  <2>4. saves' \in 0 .. MaxSaves /\ r \notin Holding
    BY <1>3, <1>5 DEF StartPost
  <2> HIDE DEF safe
  <2>5. "post" \in Kind
    BY DEF Kind
  <2> QED BY <1>1, <2>1, <2>2, <2>3, <2>4, <2>5
<1>6. CASE StartRules(r)
  <2> DEFINE doc == With(Loaded, "rules", List(tab, "rules"))
  <2>1. Holds(r, "rules", None, "open", doc) /\ Endanger(r, Proposals)
        /\ UNCHANGED <<file, tab, saved, approved, fresh>>
    BY <1>6 DEF StartRules
  <2>2. List(tab, "rules") \in SUBSET Atoms
    BY <1>2, ListIs
  <2>3. /\ doc \in Session /\ Entries(doc) = Entries(Loaded)
        /\ \A q : List(doc, KeyOf(q)) = List(Loaded, KeyOf(q))
    BY <1>2, <2>2, RulesAre
  <2> HIDE DEF doc
  <2>4. saves' \in 0 .. MaxSaves /\ r \notin Holding /\ "rules" \in Kind
    BY <1>3, <1>6 DEF StartRules, Kind
  <2> QED BY <1>1, <1>2, <2>1, <2>3, <2>4 DEF In
<1>7. CASE Answer(r)
  <2> DEFINE doc == WithSummary(Loaded)
  <2>1. Holds(r, "summarise", None, "open", doc) /\ Endanger(r, Proposals)
        /\ UNCHANGED <<file, tab, saved, approved, fresh>>
    BY <1>7 DEF Answer
  <2>2. /\ doc \in Session /\ Entries(doc) = Entries(Loaded)
        /\ \A q : List(doc, KeyOf(q)) = List(Loaded, KeyOf(q))
    BY <1>2, WithSummaryIs
  <2> HIDE DEF doc
  <2>3. saves' \in 0 .. MaxSaves /\ r \notin Holding /\ "summarise" \in Kind
    BY <1>7 DEF Answer, Holding, Kind, TypeOK
  <2> QED BY <1>1, <1>2, <2>1, <2>2, <2>3 DEF In
<1>8. CASE StartReplace(r)
  <2>1. PICK s \in {Template, Imported(tab), saved} \ {None} :
            Holds(r, "replace", None, "open", s)
    BY <1>8 DEF StartReplace
  <2>2. Endanger(r, {}) /\ UNCHANGED <<file, tab, saved, approved, fresh>>
    BY <1>8 DEF StartReplace
  <2>3. s \in Session /\ Entries(s) \subseteq approved
    <3>1. CASE s = Template
      BY <3>1, FixedSessions
    <3>2. CASE s = Imported(tab)
      BY <1>2, <3>2, ImportedIs
    <3>3. CASE s = saved /\ saved # None
      BY <3>3 DEF TypeOK, Clean
    <3> QED BY <2>1, <3>1, <3>2, <3>3
  <2>4. saves' \in 0 .. MaxSaves /\ r \notin Holding /\ "replace" \in Kind
    BY <1>3, <1>8 DEF StartReplace, Kind
  <2> QED BY <1>1, <2>1, <2>2, <2>3, <2>4
<1> QED BY <1>4, <1>5, <1>6, <1>7, <1>8

LEMMA CommitStep ==
    ASSUME SInv, NEW r \in Requests, CommitReview(r)
    PROVE  SInv'
<1> USE DEF SInv
<1> DEFINE q == request[r]
<1>1. r \in Holding /\ q \in Request /\ q.proposal \in Proposals /\ q.doc \in Session
      /\ q.at = "commit"
    BY DEF CommitReview, TypeOK, Holding, Safe
<1>2. /\ approved' = approved \cup {q.proposal}
      /\ UNCHANGED <<file, tab, saved, observed, saves>>
    BY DEF CommitReview
<1>3. PICK k \in {"approve", "merge"}, doc \in {q.doc, WithEntry(q.doc, q.proposal)} :
          /\ Holds(r, k, q.proposal, "open", doc)
          /\ k = "approve" => doc = WithEntry(q.doc, q.proposal)
    BY DEF CommitReview
<1>4. /\ doc \in Session /\ Entries(doc) \subseteq approved'
      /\ \A p : In(q.doc, p) => In(doc, p)
      /\ k = "approve" => In(doc, q.proposal)
  <2>1. Entries(q.doc) \subseteq approved
    BY <1>1 DEF Clean
  <2> QED BY <1>1, <1>2, <1>3, <2>1, EntryIs DEF In
<1> HIDE DEF q
<1>5. k \in Kind /\ approved' \subseteq Proposals /\ kept' \subseteq Proposals
      /\ saves' \in 0 .. MaxSaves /\ UNCHANGED fresh /\ kept' = kept
    BY <1>1, <1>2, <1>3 DEF Kind, TypeOK, observed
<1>6. TypeOK' /\ Clean'
    BY <1>1, <1>2, <1>3, <1>4, <1>5, HoldsClean
<1>7. /\ Holding' = Holding
      /\ request'[r].kind = k /\ request'[r].proposal = q.proposal
      /\ request'[r].at = "open" /\ request'[r].doc = doc
      /\ \A x \in Requests \ {r} : request'[x] = request[x]
  <2>1. q.proposal \in Proposals \cup {None} /\ Holds(r, k, q.proposal, "open", doc)
        /\ doc \in Session /\ k \in Kind
    BY <1>1, <1>3, <1>4, <1>5
  <2>2. /\ Holding' = Holding \cup {r}
        /\ request'[r].kind = k /\ request'[r].proposal = q.proposal
        /\ request'[r].at = "open" /\ request'[r].doc = doc
        /\ \A x \in Requests \ {r} : request'[x] = request[x]
    BY <2>1, HoldsIs
  <2> QED BY <1>1, <2>2
<1>8. Holding \subseteq Requests
    BY DEF Holding
<1>9. \A x \in Holding : Saving(x)' <=> Saving(x)
    BY <1>1, <1>7, <1>8 DEF Saving, q
<1>10. ASSUME kept' # {}
       PROVE  /\ \A a, b \in Holding' : a = b
              /\ \A x \in Holding' : \A p \in kept' : In(request'[x].doc, p)
              /\ (\A x \in Holding' : ~ Saving(x)')
                 => file' \in Session /\ \A p \in kept' : In(file', p)
              /\ (\E x \in Holding' : Saving(x)') => file' = Empty
              /\ fresh' => \A p \in kept' : KeyOf(p) \in DOMAIN tab'
                                            => p \in tab'[KeyOf(p)]
  <2>1. \A x \in Holding : \A p \in kept : In(request'[x].doc, p)
    BY <1>1, <1>4, <1>5, <1>7, <1>8, <1>10 DEF Safe, q
  <2>2. /\ \A a, b \in Holding : a = b
        /\ (\A x \in Holding : ~ Saving(x))
           => file \in Session /\ \A p \in kept : In(file, p)
        /\ (\E x \in Holding : Saving(x)) => file = Empty
        /\ fresh => \A p \in kept : KeyOf(p) \in DOMAIN tab
                                    => p \in tab[KeyOf(p)]
    BY <1>5, <1>10 DEF Safe
  <2>3. file' = file /\ tab' = tab
    BY <1>2
  <2> QED BY <1>5, <1>7, <1>9, <2>1, <2>2, <2>3
<1>11. \A x \in Holding' :
          /\ request'[x].proposal \in Proposals \/ request'[x].at # "commit"
          /\ request'[x].kind = "approve" /\ request'[x].at # "commit"
             => request'[x].proposal \in Proposals
                /\ In(request'[x].doc, request'[x].proposal)
    BY <1>1, <1>4, <1>7, <1>8 DEF Safe
<1>12. Safe'
    BY <1>10, <1>11 DEF Safe
<1> QED BY <1>6, <1>12

\* What the invariant says of a request, when requests change.
Fine(x) ==
    /\ request[x].proposal \in Proposals \/ request[x].at # "commit"
    /\ request[x].kind = "approve" /\ request[x].at # "commit"
       => request[x].proposal \in Proposals
          /\ In(request[x].doc, request[x].proposal)

KeptSafe ==
    /\ \A a, b \in Holding : a = b
    /\ \A r \in Holding : \A p \in kept : In(request[r].doc, p)
    /\ (\A r \in Holding : ~ Saving(r))
       => file \in Session /\ \A p \in kept : In(file, p)
    /\ (\E r \in Holding : Saving(r)) => file = Empty
    /\ fresh => \A p \in kept : KeyOf(p) \in DOMAIN tab => p \in tab[KeyOf(p)]

LEMMA SafeIs == Safe <=> (\A r \in Holding : Fine(r)) /\ (kept # {} => KeptSafe)
BY DEF Safe, Fine, KeptSafe

LEMMA AskStep ==
    ASSUME SInv, NEW r \in Requests, Ask(r)
    PROVE  SInv'
<1> USE DEF SInv
<1> DEFINE q == [kind |-> "summarise", proposal |-> None, at |-> "ask", doc |-> None]
<1>1. q \in Request /\ q # None /\ q.at = "ask"
    BY RequestsAreThere DEF Request, Kind
<1>2. request' = [request EXCEPT ![r] = q] /\ request[r] = None
    BY DEF Ask, Begin, Holds
<1> HIDE DEF q
<1>3. /\ request' \in [Requests -> Request \cup {None}] /\ request'[r] = q
      /\ \A x \in Requests \ {r} : request'[x] = request[x]
    BY <1>1, <1>2 DEF TypeOK
<1>4. Holding' = Holding /\ Holding \subseteq Requests \ {r}
    BY <1>1, <1>2, <1>3 DEF Holding
<1>5. \A x \in Holding : request'[x] = request[x]
    BY <1>3, <1>4
<1>6. UNCHANGED <<file, tab, saved, approved, observed>> /\ saves' \in 0 .. MaxSaves
    BY MaxSavesNat DEF Ask, Begin, TypeOK
<1>7. TypeOK' /\ Clean'
    BY <1>3, <1>4, <1>5, <1>6 DEF TypeOK, Clean, observed
<1>8. Safe'
    BY <1>4, <1>5, <1>6 DEF Safe, Saving, observed
<1> QED BY <1>7, <1>8

LEMMA OpenStep ==
    ASSUME SInv, NEW r \in Requests, Open(r)
    PROVE  SInv'
<1> USE DEF SInv
<1>1. /\ request[r] \in Request /\ request[r].at = "open" /\ r \in Holding
      /\ request' = [request EXCEPT ![r].at = "dump"] /\ file' = Empty
      /\ UNCHANGED <<tab, saved, approved, kept, fresh, saves>>
    BY DEF Open, TypeOK, Holding, observed
<1> DEFINE q == [request[r] EXCEPT !.at = "dump"]
<1>2. /\ q \in Request /\ q.at = "dump" /\ q.doc = request[r].doc
      /\ q.kind = request[r].kind /\ q.proposal = request[r].proposal
    BY <1>1 DEF Request
<1>3. q # None
    BY <1>2, RequestsAreThere
<1>4. request' = [request EXCEPT ![r] = q]
    BY <1>1
<1> HIDE DEF q
<1>5. /\ request' \in [Requests -> Request \cup {None}] /\ request'[r] = q
      /\ \A x \in Requests \ {r} : request'[x] = request[x]
    BY <1>2, <1>4 DEF TypeOK
<1>6. Holding' = Holding /\ Holding \subseteq Requests
    BY <1>1, <1>2, <1>3, <1>5 DEF Holding
<1>7. \A x \in Holding : /\ request'[x].doc = request[x].doc
                         /\ request'[x].kind = request[x].kind
                         /\ request'[x].proposal = request[x].proposal
                         /\ request'[x].at = "commit" <=> request[x].at = "commit"
    BY <1>1, <1>2, <1>5, <1>6
<1>8. TypeOK'
    BY <1>1, <1>5, <1>6, <1>7 DEF TypeOK
<1>9. Clean'
    BY <1>1, <1>6, <1>7, FilesApart DEF Clean
<1>10. \A x \in Holding' : Fine(x)'
    BY <1>6, <1>7, SafeIs DEF Fine
<1>11. ASSUME kept' # {} PROVE KeptSafe'
  <2>1. KeptSafe
    BY <1>1, <1>11, SafeIs
  <2>2. Saving(r)'
    BY <1>1, <1>2, <1>5, <1>6 DEF Saving
  <2>3. \A x \in Holding' : \A p \in kept' : In(request'[x].doc, p)
    BY <1>1, <1>6, <1>7, <2>1 DEF KeptSafe
  <2> QED BY <1>1, <1>6, <2>1, <2>2, <2>3 DEF KeptSafe
<1>12. Safe'
    BY <1>10, <1>11, SafeIs DEF Safe, Fine, KeptSafe
<1> QED BY <1>8, <1>9, <1>12

\* A request ends, and with it what it held.
LEMMA EndIs ==
    ASSUME TypeOK, NEW r \in Requests, request' = [request EXCEPT ![r] = None]
    PROVE  /\ request' \in [Requests -> Request \cup {None}]
           /\ Holding' = Holding \ {r} /\ Holding \subseteq Requests
           /\ \A x \in Holding' : request'[x] = request[x]
BY DEF TypeOK, Holding

LEMMA DumpStep ==
    ASSUME SInv, NEW r \in Requests, Dump(r)
    PROVE  SInv'
<1> USE DEF SInv
<1> DEFINE q == request[r]
<1>1. /\ q \in Request /\ q.at = "dump" /\ r \in Holding /\ Saving(r)
      /\ q.doc \in Session /\ Entries(q.doc) \subseteq approved /\ Fine(r)
    BY SafeIs DEF Dump, TypeOK, Holding, Saving, Clean
<1>2. /\ file' \in {q.doc} \cup (IF file = Empty THEN {} ELSE {Garbled})
      /\ tab' = IF q.kind = "replace" THEN q.doc ELSE tab
      /\ fresh' = (q.kind = "replace" \/ (fresh /\ q.kind # "approve"))
      /\ kept' = IF q.kind = "approve" /\ Holding = {r} /\ file = Empty
                 THEN kept \cup {q.proposal} ELSE kept
      /\ request' = [request EXCEPT ![r] = None]
      /\ UNCHANGED <<saved, approved, saves>>
    BY DEF Dump
<1>3. /\ request' \in [Requests -> Request \cup {None}]
      /\ Holding' = Holding \ {r} /\ Holding \subseteq Requests
      /\ \A x \in Holding' : request'[x] = request[x]
    BY <1>2, EndIs
<1>4. q.kind = "approve" => q.proposal \in Proposals /\ In(q.doc, q.proposal)
    BY <1>1 DEF Fine
<1>5. fresh' \in BOOLEAN
    BY <1>2 DEF TypeOK
<1> HIDE DEF q
<1>6. kept' \subseteq Proposals
    BY <1>2, <1>4 DEF TypeOK
<1>7. /\ file' \in Session \cup {None, Empty, Garbled} /\ tab' \in Session
      /\ file' \in Session => file' = q.doc
    BY <1>1, <1>2, FilesApart DEF TypeOK
<1>8. TypeOK'
    BY <1>2, <1>3, <1>5, <1>6, <1>7 DEF TypeOK
<1>9. Clean'
  <2>1. Entries(tab') \subseteq approved /\ approved' = approved /\ saved' = saved
    BY <1>1, <1>2 DEF Clean
  <2>2. file' \in Session => Entries(file') \subseteq approved
    BY <1>1, <1>7
  <2>3. \A x \in Holding' : Entries(request'[x].doc) \subseteq approved
    BY <1>3 DEF Clean
  <2> QED BY <2>1, <2>2, <2>3 DEF Clean
<1>10. \A x \in Holding' : Fine(x)'
    BY <1>3, SafeIs DEF Fine
<1>11. ASSUME kept' # {} PROVE KeptSafe'
  <2>1. Holding = {r} /\ file = Empty
    BY <1>1, <1>2, <1>11, SafeIs DEF KeptSafe
  <2>2. Holding' = {} /\ file' = q.doc
    BY <1>2, <1>3, <2>1
  <2>3. \A p \in kept : In(q.doc, p)
    BY <1>1, SafeIs DEF KeptSafe, q
  <2>4. \A p \in kept' : In(q.doc, p)
    BY <1>2, <1>4, <2>3
  <2>5. fresh' => \A p \in kept' : KeyOf(p) \in DOMAIN tab' => p \in tab'[KeyOf(p)]
    <3>1. CASE q.kind = "replace"
      BY <1>2, <2>4, <3>1 DEF In, List
    <3>2. CASE q.kind = "approve"
      BY <1>2, <3>2
    <3>3. CASE q.kind \notin {"replace", "approve"}
      <4>1. kept' = kept /\ tab' = tab /\ fresh' = fresh
        BY <1>2, <3>3 DEF TypeOK
      <4> QED BY <1>11, <4>1, SafeIs DEF KeptSafe
    <3> QED BY <3>1, <3>2, <3>3
  <2>6. file' \in Session /\ \A p \in kept' : In(file', p)
    BY <1>1, <2>2, <2>4
  <2> QED BY <2>2, <2>5, <2>6 DEF KeptSafe
<1>12. Safe'
    BY <1>10, <1>11 DEF Safe, Fine, KeptSafe
<1> QED BY <1>8, <1>9, <1>12

LEMMA DieStep ==
    ASSUME SInv, NEW r \in Requests, Die(r)
    PROVE  SInv'
<1> USE DEF SInv
<1>1. /\ request' = [request EXCEPT ![r] = None] /\ request[r] # None
      /\ kept' = IF request[r].at = "dump" THEN {} ELSE kept
      /\ UNCHANGED <<file, tab, saved, approved, fresh, saves>>
    BY DEF Die
<1>2. /\ request' \in [Requests -> Request \cup {None}]
      /\ Holding' = Holding \ {r} /\ Holding \subseteq Requests
      /\ \A x \in Holding' : request'[x] = request[x]
    BY <1>1, EndIs
<1>3. TypeOK'
    BY <1>1, <1>2 DEF TypeOK
<1>4. Clean'
    BY <1>1, <1>2 DEF Clean
<1>5. \A x \in Holding' : Fine(x)'
    BY <1>2, SafeIs DEF Fine
<1>6. ASSUME kept' # {} PROVE KeptSafe'
  <2>1. KeptSafe /\ kept' = kept /\ request[r].at # "dump"
    BY <1>1, <1>6, SafeIs
  <2>2. \A x \in Holding' : Saving(x)' <=> Saving(x)
    BY <1>2 DEF Saving
  <2>3. ~ Saving(r)
    BY <2>1 DEF Saving
  <2>4. (\A x \in Holding' : ~ Saving(x)') => (\A x \in Holding : ~ Saving(x))
    BY <1>2, <2>2, <2>3
  <2>5. (\E x \in Holding' : Saving(x)') => (\E x \in Holding : Saving(x))
    BY <1>2, <2>2
  <2>6. \A x \in Holding' : \A p \in kept' : In(request'[x].doc, p)
    BY <1>2, <2>1 DEF KeptSafe
  <2>7. /\ \A a, b \in Holding' : a = b
        /\ (\A x \in Holding' : ~ Saving(x)')
           => file' \in Session /\ \A p \in kept' : In(file', p)
        /\ (\E x \in Holding' : Saving(x)') => file' = Empty
        /\ fresh' => \A p \in kept' : KeyOf(p) \in DOMAIN tab'
                                      => p \in tab'[KeyOf(p)]
    BY <1>1, <1>2, <2>1, <2>4, <2>5 DEF KeptSafe
  <2> QED BY <2>6, <2>7 DEF KeptSafe
<1>7. Safe'
    BY <1>5, <1>6 DEF Safe, Fine, KeptSafe
<1> QED BY <1>3, <1>4, <1>7

LEMMA ReloadStep ==
    ASSUME SInv, Reload
    PROVE  SInv'
<1> USE DEF SInv
<1>1. /\ tab' = Loaded /\ fresh' = (file \notin {Empty, Garbled})
      /\ UNCHANGED <<file, request, saved, approved, kept, saves>>
    BY DEF Reload
<1>2. /\ Loaded \in Session /\ Entries(Loaded) \subseteq approved
      /\ file \in Session => Loaded = file
    BY LoadedIs
<1>3. Holding' = Holding
    BY <1>1 DEF Holding
<1>4. TypeOK' /\ Clean'
    BY <1>1, <1>2, <1>3 DEF TypeOK, Clean
<1>5. ASSUME kept # {}, fresh'
      PROVE  \A p \in kept : KeyOf(p) \in DOMAIN Loaded => p \in Loaded[KeyOf(p)]
  <2>1. file # Empty
    BY <1>1, <1>5
  <2>2. file \in Session /\ \A p \in kept : In(file, p)
    BY <1>5, <2>1 DEF Safe
  <2> QED BY <1>2, <2>2 DEF In, List
<1>6. Safe'
    BY <1>1, <1>3, <1>5 DEF Safe, Saving
<1> QED BY <1>4, <1>6

LEMMA EditStep ==
    ASSUME SInv, Edit
    PROVE  SInv'
<1> USE DEF SInv
<1>1. UNCHANGED <<file, request, saved, approved, fresh, saves>>
    BY DEF Edit
<1>2. Holding' = Holding
    BY <1>1 DEF Holding
<1>3. ASSUME NEW t \in Session, tab' = t, Entries(t) \subseteq Entries(tab),
             kept' \subseteq kept,
             \A p \in kept' : /\ KeyOf(p) \in DOMAIN t => KeyOf(p) \in DOMAIN tab
                              /\ KeyOf(p) \in DOMAIN t /\ p \in tab[KeyOf(p)]
                                 => p \in t[KeyOf(p)]
      PROVE  SInv'
  <2>1. TypeOK' /\ Clean'
    BY <1>1, <1>2, <1>3 DEF TypeOK, Clean
  <2>2. ASSUME kept' # {}, fresh
        PROVE  \A p \in kept' : KeyOf(p) \in DOMAIN t => p \in t[KeyOf(p)]
    <3>1. \A p \in kept : KeyOf(p) \in DOMAIN tab => p \in tab[KeyOf(p)]
      BY <1>3, <2>2 DEF Safe
    <3> QED BY <1>3, <3>1
  <2>3. Safe'
    BY <1>1, <1>2, <1>3, <2>2 DEF Safe, Saving
  <2> QED BY <2>1, <2>3
<1>4. tab \in Session
    BY DEF TypeOK
<1>5. ASSUME NEW rs \in {{}, {Rule}}, tab' = With(tab, "rules", rs), UNCHANGED kept
      PROVE  SInv'
  <2> DEFINE t == With(tab, "rules", rs)
  <2>1. rs \in SUBSET Atoms
    BY DEF Atoms
  <2>2. t \in Session /\ Entries(t) = Entries(tab)
    BY <1>4, <2>1, RulesAre
  <2>3. /\ DOMAIN t = DOMAIN tab \cup {"rules"}
        /\ \A k \in DOMAIN tab : k # "rules" => t[k] = tab[k]
    BY DEF With, Updated
  <2> HIDE DEF t
  <2>4. \A p : KeyOf(p) # "rules"
    BY KeyIs
  <2> QED BY <1>3, <1>5, <2>2, <2>3, <2>4 DEF t
<1>6. ASSUME NEW p, tab' = [k \in DOMAIN tab |-> tab[k] \ {p}], kept' = kept \ {p}
      PROVE  SInv'
  <2> DEFINE t == [k \in DOMAIN tab |-> tab[k] \ {p}]
  <2>1. /\ t \in Session /\ DOMAIN t = DOMAIN tab /\ Entries(t) \subseteq Entries(tab)
        /\ \A k \in DOMAIN tab : t[k] = tab[k] \ {p}
    BY <1>4, RemovedIs
  <2>2. tab' = t
    BY <1>6
  <2> HIDE DEF t
  <2> QED BY <1>3, <1>6, <2>1, <2>2
<1> QED BY <1>5, <1>6 DEF Edit

LEMMA LibraryStep ==
    ASSUME SInv, SaveOntology \/ DeleteOntology \/ UNCHANGED vars
    PROVE  SInv'
<1> USE DEF SInv
<1>1. /\ saved' \in {tab, Loaded, None, saved}
      /\ UNCHANGED <<file, request, tab, approved, kept, fresh, saves>>
    BY DEF SaveOntology, DeleteOntology, vars, observed
<1>2. Loaded \in Session /\ Entries(Loaded) \subseteq approved
    BY LoadedIs
<1>3. Holding' = Holding
    BY <1>1 DEF Holding
<1>4. TypeOK' /\ Clean'
    BY <1>1, <1>2, <1>3 DEF TypeOK, Clean
<1>5. Safe'
    BY <1>1, <1>3 DEF Safe, Saving
<1> QED BY <1>4, <1>5

LEMMA Stepwise == SInv /\ [Next]_vars => SInv'
<1> SUFFICES ASSUME SInv, [Next]_vars PROVE SInv'
    OBVIOUS
<1> QED
    BY StartStep, CommitStep, AskStep, OpenStep, DumpStep, DieStep, ReloadStep,
       EditStep, LibraryStep DEF Next

LEMMA SessionInvariant == Spec => []SInv
<1> QED BY Initially, Stepwise, PTL DEF Spec

-----------------------------------------------------------------------------
(* What it is for *)

\* What requests hold, the browser has and the library stores is a session.
THEOREM TypeInvariant == Spec => []TypeOK
<1>1. SInv => TypeOK
    BY DEF SInv
<1> QED BY <1>1, SessionInvariant, PTL

\* No overlap, no death in a save and no stale copy puts an entry into the
\* session whose proposal was not approved.
THEOREM EntriesHold == Spec => []EntriesApproved
<1>1. SInv => EntriesApproved
  <2> SUFFICES ASSUME SInv,
                      NEW s \in {file, tab, saved}
                          \cup {request[r].doc : r \in {q \in Holding :
                                                  request[q].at # "commit"}},
                      Parses(s)
               PROVE  Entries(s) \subseteq approved
    BY DEF EntriesApproved
  <2>1. CASE s = file
    BY <2>1, ParsesIs DEF SInv, TypeOK, Clean
  <2>2. CASE s = tab
    BY <2>2 DEF SInv, Clean
  <2>3. CASE s = saved
    BY <2>3 DEF SInv, Clean, Parses
  <2>4. CASE \E r \in Holding : s = request[r].doc
    BY <2>4 DEF SInv, Clean
  <2> QED BY <2>1, <2>2, <2>3, <2>4
<1> QED BY <1>1, SessionInvariant, PTL

\* An approval that was answered stays in the session, or in the hands of the
\* request that saves it, until one of the named dangers meets it.
THEOREM ApprovalsHold == Spec => []ApprovalsKept
<1>1. SInv => ApprovalsKept
  <2> SUFFICES ASSUME SInv, kept # {} PROVE ApprovalsKept
    BY DEF ApprovalsKept
  <2>1. \A s : (\A p \in kept : In(s, p)) => kept \subseteq Entries(s)
    BY KeyIs DEF SInv, TypeOK, In, Entries
  <2>2. CASE \E r \in Holding : Saving(r)
    BY <2>1, <2>2 DEF SInv, Safe, Saving, ApprovalsKept
  <2>3. CASE \A r \in Holding : ~ Saving(r)
    <3>1. file \in Session /\ kept \subseteq Entries(file)
      BY <2>1, <2>3 DEF SInv, Safe
    <3> QED BY <3>1, ParsesIs DEF SInv, TypeOK, ApprovalsKept
  <2> QED BY <2>2, <2>3
<1> QED BY <1>1, SessionInvariant, PTL

-----------------------------------------------------------------------------
(* The event bus: the type invariant, the order of what a client sees, and   *)
(* that what it misses has been counted.                                     *)

-----------------------------------------------------------------------------
(* Types *)

\* A stream that has not connected is unknown to the bus and has nothing.
Fresh ==
    \A s \in Streams : stage[s] = "new" => /\ s \notin subscribers
                                           /\ Carried(s) = << >>

LEMMA TypeInit == BusInit => BusTypeOK
  BY CapacityPositive DEF BusInit, BusTypeOK, Stage

\* The loss of an event counts, once for each subscriber that is full.
LEMMA LostCounts ==
    ASSUME NEW T \in SUBSET Streams
    PROVE  Cardinality(T) \in Nat /\ \A s \in T : Cardinality(T) >= 1
<1>1. IsFiniteSet(T)
  BY StreamsFinite, FS_Subset
<1>2. Cardinality(T) \in Nat
  BY <1>1, FS_CardinalityType
<1>3. ASSUME NEW s \in T PROVE Cardinality(T) # 0
  BY <1>1, <1>3, FS_EmptySet
<1> QED BY <1>2, <1>3

LEMMA TypeStep == BusTypeOK /\ [BusNext]_busVars => BusTypeOK'
<1> SUFFICES ASSUME BusTypeOK, [BusNext]_busVars PROVE BusTypeOK'
  OBVIOUS
<1> USE CapacityPositive DEF bus, client
<1>1. CASE Publish
  <2> DEFINE lost == {s \in subscribers : Full(s)}
  <2>1. /\ published' = published + 1
        /\ dropped' = dropped + Cardinality(lost)
        /\ UNCHANGED <<subscribers, stage, outgoing, received, client>>
        /\ queue' = [s \in Streams |-> IF s \in subscribers \ lost
                                       THEN Append(queue[s], published + 1)
                                       ELSE queue[s]]
    BY <1>1 DEF Publish, Counted
  <2>2. Cardinality(lost) \in Nat
    BY LostCounts DEF BusTypeOK
  <2>3. queue' \in [Streams -> Seq(Nat)]
    BY <2>1 DEF BusTypeOK
  <2>4. ASSUME NEW s \in Streams PROVE Len(queue'[s]) <= Capacity
    <3>1. CASE s \in subscribers \ lost
      <4>1. Len(queue[s]) < Capacity
        BY <3>1 DEF Full, BusTypeOK
      <4>2. Len(queue'[s]) = Len(queue[s]) + 1
        BY <2>1, <3>1 DEF BusTypeOK
      <4> QED BY <4>1, <4>2 DEF BusTypeOK
    <3>2. CASE s \notin subscribers \ lost
      BY <2>1, <3>2 DEF BusTypeOK
    <3> QED BY <3>1, <3>2
  <2> HIDE DEF lost
  <2> QED BY <2>1, <2>2, <2>3, <2>4 DEF BusTypeOK
<1>2. ASSUME NEW s \in Streams, Connect(s) PROVE BusTypeOK'
  BY <1>2 DEF Connect, BusTypeOK, Stage
<1>3. ASSUME NEW s \in Streams, Leave(s) PROVE BusTypeOK'
  BY <1>3 DEF Leave, BusTypeOK
<1>4. ASSUME NEW s \in Streams, Greet(s) PROVE BusTypeOK'
  BY <1>4 DEF Greet, BusTypeOK, Stage
<1>5. ASSUME NEW s \in Streams, Abandon(s) PROVE BusTypeOK'
  BY <1>5 DEF Abandon, BusTypeOK, Stage
<1>6. ASSUME NEW s \in Streams, Get(s) PROVE BusTypeOK'
  <2>1. /\ Head(queue[s]) \in Nat
        /\ Tail(queue[s]) \in Seq(Nat)
        /\ Len(Tail(queue[s])) <= Capacity
    BY <1>6 DEF Get, BusTypeOK
  <2>2. /\ <<Head(queue[s])>> \in Seq(Nat)
        /\ Len(<<Head(queue[s])>>) = 1
    BY <2>1
  <2>3. /\ queue' = [queue EXCEPT ![s] = Tail(queue[s])]
        /\ outgoing' = [outgoing EXCEPT ![s] = <<Head(queue[s])>>]
        /\ stage' = [stage EXCEPT ![s] = "yielding"]
        /\ UNCHANGED <<bus, received, client>>
    BY <1>6 DEF Get
  <2> QED BY <2>1, <2>2, <2>3 DEF BusTypeOK, Stage
<1>7. ASSUME NEW s \in Streams, Ping(s) PROVE BusTypeOK'
  BY <1>7 DEF Ping, BusTypeOK, Stage
<1>8. ASSUME NEW s \in Streams, Written(s) PROVE BusTypeOK'
  <2>1. received[s] \o outgoing[s] \in Seq(Nat)
    BY DEF BusTypeOK
  <2> QED BY <1>8, <2>1 DEF Written, Again, BusTypeOK, Stage
<1>9. ASSUME NEW s \in Streams, HangUp(s) PROVE BusTypeOK'
  BY <1>9 DEF HangUp, BusTypeOK, Stage
<1>10. CASE UNCHANGED busVars
  BY <1>10 DEF busVars, BusTypeOK
<1> QED BY <1>1, <1>2, <1>3, <1>4, <1>5, <1>6, <1>7, <1>8, <1>9, <1>10
        DEF BusNext, Serve

\* The bus and the streams keep their types, and no queue exceeds its capacity.
THEOREM BusTypeInvariant == BusSpec => []BusTypeOK
  BY TypeInit, TypeStep, PTL DEF BusSpec

-----------------------------------------------------------------------------
(* What a stream carries *)

LEMMA Regrouped ==
    ASSUME NEW a \in Seq(Nat), NEW b \in Seq(Nat), NEW c \in Seq(Nat)
    PROVE  (a \o b) \o c = a \o (b \o c)
<1> DEFINE l == (a \o b) \o c
           r == a \o (b \o c)
<1>1. l \in Seq(Nat) /\ r \in Seq(Nat)
  OBVIOUS
<1>2. Len(l) = Len(r)
  OBVIOUS
<1>3. ASSUME NEW i \in 1 .. Len(l) PROVE l[i] = r[i]
  OBVIOUS
<1> HIDE DEF l, r
<1>4. l = r
  BY <1>1, <1>2, <1>3, SeqEqual
<1> QED BY <1>4 DEF l, r

\* get moves an event, and so does the write of a packet.
LEMMA Moved ==
    ASSUME NEW r \in Seq(Nat), NEW o \in Seq(Nat), NEW q \in Seq(Nat)
    PROVE  /\ q # << >> => (r \o <<Head(q)>>) \o Tail(q) = (r \o << >>) \o q
           /\ ((r \o o) \o << >>) \o q = (r \o o) \o q
           /\ \A n \in Nat : (r \o o) \o Append(q, n)
                             = Append((r \o o) \o q, n)
<1>1. r \o << >> = r /\ (r \o o) \o << >> = r \o o
  BY ConcatEmptySeq
<1>2. q # << >> => <<Head(q)>> \o Tail(q) = q
  BY HeadTailProperties
<1>3. q # << >> => (r \o <<Head(q)>>) \o Tail(q) = r \o (<<Head(q)>> \o Tail(q))
  <2> SUFFICES ASSUME q # << >>
               PROVE  (r \o <<Head(q)>>) \o Tail(q)
                        = r \o (<<Head(q)>> \o Tail(q))
    OBVIOUS
  <2>1. Head(q) \in Nat /\ Tail(q) \in Seq(Nat)
    BY HeadTailProperties
  <2> DEFINE h == <<Head(q)>>
             u == Tail(q)
  <2>2. h \in Seq(Nat) /\ u \in Seq(Nat)
    BY <2>1
  <2>3. (r \o h) \o u = r \o (h \o u)
    <3> HIDE DEF h, u
    <3> QED BY <2>2, Regrouped, Zenon
  <2> QED BY <2>3
<1>4. ASSUME NEW n \in Nat
      PROVE  (r \o o) \o Append(q, n) = Append((r \o o) \o q, n)
  OBVIOUS
<1> QED BY <1>1, <1>2, <1>3, <1>4

\* Whatever a step does, each stream carries what it carried before, or that
\* and the event just published; a subscriber that misses it is counted.
Gains(s) ==
    /\ published' = published + 1
    /\ UNCHANGED <<subscribers, joined>>
    /\ dropped' \in Nat /\ dropped' >= dropped
    /\ Carried(s)' = Append(Carried(s), published + 1)

Misses(s) ==
    /\ published' = published + 1
    /\ UNCHANGED <<subscribers, joined>>
    /\ dropped' \in Nat /\ dropped' >= dropped
    /\ s \in subscribers => dropped' >= dropped + 1
    /\ Carried(s)' = Carried(s)

Keeps(s) ==
    /\ UNCHANGED <<published, dropped>>
    /\ Carried(s)' = Carried(s)
    /\ \/ joined'[s] = joined[s] /\ (s \in subscribers' => s \in subscribers)
       \/ joined'[s] = published /\ Carried(s) = << >>

LEMMA PublishStep ==
    ASSUME BusTypeOK, Publish, NEW s \in Streams
    PROVE  Gains(s) \/ Misses(s)
<1> DEFINE lost == {x \in subscribers : Full(x)}
<1>1. /\ published' = published + 1
      /\ dropped' = dropped + Cardinality(lost)
      /\ UNCHANGED <<subscribers, stage, outgoing, received, client>>
      /\ queue' = [x \in Streams |-> IF x \in subscribers \ lost
                                     THEN Append(queue[x], published + 1)
                                     ELSE queue[x]]
  BY DEF Publish, Counted
<1>2. lost \subseteq Streams
  BY DEF BusTypeOK
<1>3. Cardinality(lost) \in Nat /\ (s \in lost => Cardinality(lost) >= 1)
  BY <1>2, LostCounts
<1> HIDE DEF lost
<1>4. /\ dropped' \in Nat /\ dropped' >= dropped
      /\ s \in lost => dropped' >= dropped + 1
  BY <1>1, <1>3 DEF BusTypeOK
<1>5. UNCHANGED joined
  BY <1>1 DEF client
<1>6. CASE s \in subscribers \ lost
  <2>1. queue'[s] = Append(queue[s], published + 1)
    BY <1>1, <1>6
  <2>2. Carried(s)' = (received[s] \o outgoing[s]) \o queue'[s]
    BY <1>1 DEF Carried
  <2>3. /\ received[s] \in Seq(Nat) /\ outgoing[s] \in Seq(Nat)
        /\ queue[s] \in Seq(Nat) /\ published + 1 \in Nat
    BY DEF BusTypeOK
  <2>4. (received[s] \o outgoing[s]) \o Append(queue[s], published + 1)
          = Append((received[s] \o outgoing[s]) \o queue[s], published + 1)
    <3>1. \A a, b, c \in Seq(Nat), n \in Nat :
            (a \o b) \o Append(c, n) = Append((a \o b) \o c, n)
      BY Moved, Zenon
    <3> QED BY <2>3, <3>1, Zenon
  <2>5. Carried(s)' = Append(Carried(s), published + 1)
    BY <2>1, <2>2, <2>4 DEF Carried
  <2> QED BY <1>1, <1>4, <1>5, <2>5 DEF Gains
<1>7. CASE s \notin subscribers \ lost
  <2>1. Carried(s)' = Carried(s)
    BY <1>1, <1>7 DEF Carried
  <2> QED BY <1>1, <1>4, <1>5, <1>7, <2>1 DEF Misses
<1> QED BY <1>6, <1>7

LEMMA ServeStep ==
    ASSUME BusTypeOK, NEW x \in Streams, Serve(x), NEW s \in Streams
    PROVE  Keeps(s)
<1> USE DEF bus, client
<1>1. /\ UNCHANGED <<published, dropped, joined>>
      /\ subscribers' \subseteq subscribers
  BY DEF Serve, Greet, Abandon, Get, Ping, Written, HangUp
<1>2. CASE Greet(x) \/ Abandon(x) \/ Ping(x) \/ HangUp(x)
  BY <1>1, <1>2 DEF Greet, Abandon, Ping, HangUp, Keeps, Carried
<1>3. /\ received[s] \in Seq(Nat) /\ outgoing[s] \in Seq(Nat)
      /\ queue[s] \in Seq(Nat)
  BY DEF BusTypeOK
<1>4. CASE Get(x)
  <2>1. CASE s = x
    <3>1. outgoing[s] = << >> /\ queue[s] # << >>
      BY <1>4, <2>1 DEF Get, BusTypeOK
    <3>2. /\ received'[s] = received[s] /\ outgoing'[s] = <<Head(queue[s])>>
          /\ queue'[s] = Tail(queue[s])
      BY <1>4, <2>1 DEF Get, BusTypeOK
    <3>3. (received[s] \o <<Head(queue[s])>>) \o Tail(queue[s])
             = (received[s] \o << >>) \o queue[s]
      BY <1>3, <3>1, Moved
    <3>4. Carried(s)' = Carried(s)
      BY <3>1, <3>2, <3>3 DEF Carried
    <3> QED BY <1>1, <3>4 DEF Keeps
  <2>2. CASE s # x
    BY <1>1, <1>4, <2>2 DEF Get, Keeps, Carried, BusTypeOK
  <2> QED BY <2>1, <2>2
<1>5. CASE Written(x)
  <2>1. CASE s = x
    <3>1. /\ received'[s] = received[s] \o outgoing[s]
          /\ outgoing'[s] = << >> /\ queue'[s] = queue[s]
      BY <1>5, <2>1 DEF Written, BusTypeOK
    <3>2. Carried(s)' = Carried(s)
      BY <1>3, <3>1, Moved DEF Carried
    <3> QED BY <1>1, <3>2 DEF Keeps
  <2>2. CASE s # x
    BY <1>1, <1>5, <2>2 DEF Written, Keeps, Carried, BusTypeOK
  <2> QED BY <2>1, <2>2
<1> QED BY <1>2, <1>4, <1>5 DEF Serve

LEMMA CarriedStep ==
    ASSUME BusTypeOK, Fresh, [BusNext]_busVars, NEW s \in Streams
    PROVE  Gains(s) \/ Misses(s) \/ Keeps(s)
<1> USE DEF bus, client
<1>1. ASSUME NEW x \in Streams, Connect(x) PROVE Keeps(s)
  <2>1. UNCHANGED <<published, dropped, queue, outgoing, received>>
    BY <1>1 DEF Connect
  <2>2. Carried(s)' = Carried(s)
    BY <2>1 DEF Carried
  <2>3. CASE s = x
    <3>1. joined'[s] = published /\ Carried(s) = << >>
      BY <1>1, <2>3 DEF Connect, Fresh, BusTypeOK
    <3> QED BY <2>1, <2>2, <3>1 DEF Keeps
  <2>4. CASE s # x
    <3>1. joined'[s] = joined[s] /\ (s \in subscribers' => s \in subscribers)
      BY <1>1, <2>4 DEF Connect, BusTypeOK
    <3> QED BY <2>1, <2>2, <3>1 DEF Keeps
  <2> QED BY <2>3, <2>4
<1>2. ASSUME NEW x \in Streams, Leave(x) PROVE Keeps(s)
  BY <1>2 DEF Leave, Keeps, Carried
<1>3. CASE UNCHANGED busVars
  BY <1>3 DEF busVars, Keeps, Carried
<1> QED BY <1>1, <1>2, <1>3, PublishStep, ServeStep DEF BusNext

LEMMA FreshInit == BusInit => Fresh
<1> SUFFICES ASSUME BusInit PROVE Fresh
  OBVIOUS
<1>1. << >> \o << >> = << >>
  OBVIOUS
<1> QED BY <1>1 DEF BusInit, Fresh, Carried

\* A stream leaves "new" for good, and only when it connects.
LEMMA FreshStep == BusTypeOK /\ Fresh /\ [BusNext]_busVars => Fresh'
<1> SUFFICES ASSUME BusTypeOK, Fresh, [BusNext]_busVars, NEW s \in Streams,
                    stage'[s] = "new"
             PROVE  s \notin subscribers' /\ Carried(s)' = << >>
  BY DEF Fresh
<1> USE DEF bus, client
<1>1. stage[s] = "new"
  BY DEF BusNext, busVars, Publish, Connect, Leave, Serve, Greet, Abandon, Get,
         Ping, Written, HangUp, Again, BusTypeOK
<1>2. s \notin subscribers /\ Carried(s) = << >>
  BY <1>1 DEF Fresh
<1>3. s \notin subscribers'
  BY <1>2 DEF BusNext, busVars, Publish, Connect, Leave, Serve, Greet, Abandon, Get,
              Ping, Written, HangUp, BusTypeOK
<1>4. CASE Publish
  <2>1. /\ UNCHANGED <<outgoing, received>>
        /\ queue'[s] = queue[s]
    BY <1>2, <1>4 DEF Publish, BusTypeOK
  <2> QED BY <1>2, <1>3, <2>1 DEF Carried
<1>5. CASE Keeps(s)
  BY <1>2, <1>3, <1>5 DEF Keeps
<1>6. ASSUME NEW x \in Streams, Connect(x) \/ Leave(x) PROVE Carried(s)' = << >>
  BY <1>2, <1>6 DEF Connect, Leave, Carried
<1>7. CASE UNCHANGED busVars
  BY <1>2, <1>7 DEF busVars, Carried
<1> QED BY <1>3, <1>4, <1>5, <1>6, <1>7, ServeStep DEF BusNext

-----------------------------------------------------------------------------
(* Order and loss *)

\* The inductive invariant: a stream that has not connected has nothing, a
\* stream joined at a point in the past, and the two properties themselves.
BusInv ==
    /\ BusTypeOK
    /\ Fresh
    /\ \A s \in Streams : joined[s] <= published
    /\ InOrder
    /\ DropsCounted

LEMMA BusInitial == BusInit => BusInv
<1> SUFFICES ASSUME BusInit PROVE BusInv
  OBVIOUS
<1>1. \A s \in Streams : Carried(s) = << >> /\ joined[s] = 0
  <2>1. << >> \o << >> = << >>
    OBVIOUS
  <2> QED BY <2>1 DEF BusInit, Carried
<1>2. InOrder
  BY <1>1 DEF InOrder
<1>3. DropsCounted /\ \A s \in Streams : joined[s] <= published
  BY <1>1 DEF DropsCounted, BusInit
<1> QED BY <1>2, <1>3, TypeInit, FreshInit DEF BusInv

LEMMA CarriedType ==
    ASSUME BusTypeOK, NEW s \in Streams
    PROVE  Carried(s) \in Seq(Nat)
  BY DEF BusTypeOK, Carried

\* What stays as it was stays in order; an event that is appended is newer
\* than all the others.
LEMMA InOrderStep == BusInv /\ [BusNext]_busVars => InOrder'
<1> SUFFICES ASSUME BusInv, [BusNext]_busVars, NEW s \in Streams
             PROVE  LET c == Carried(s)'
                    IN  /\ \A i \in 1 .. Len(c) :
                              joined'[s] < c[i] /\ c[i] <= published'
                        /\ \A i, j \in 1 .. Len(c) : i < j => c[i] < c[j]
  BY DEF InOrder
<1> DEFINE c == Carried(s)
<1>1. c \in Seq(Nat) /\ published \in Nat /\ joined[s] \in Nat
  BY CarriedType DEF BusInv, BusTypeOK
<1>2. /\ joined[s] <= published
      /\ \A i \in 1 .. Len(c) : joined[s] < c[i] /\ c[i] <= published
      /\ \A i, j \in 1 .. Len(c) : i < j => c[i] < c[j]
  BY DEF BusInv, InOrder
<1>3. CASE Gains(s)
  <2>1. /\ c' = Append(c, published + 1)
        /\ published' = published + 1
        /\ joined'[s] = joined[s]
    BY <1>3 DEF Gains
  <2> HIDE DEF c
  <2>2. /\ Len(c') = Len(c) + 1
        /\ c'[Len(c) + 1] = published + 1
        /\ \A i \in 1 .. Len(c) : c'[i] = c[i]
    BY <1>1, <2>1
  <2>3. /\ Len(c) \in Nat
        /\ \A i \in 1 .. Len(c) : c[i] \in Nat
    BY <1>1
  <2>4. \A i \in 1 .. Len(c') : joined'[s] < c'[i] /\ c'[i] <= published'
    BY <1>1, <1>2, <2>1, <2>2, <2>3
  <2>5. ASSUME NEW i \in 1 .. Len(c'), NEW j \in 1 .. Len(c'), i < j
        PROVE  c'[i] < c'[j]
    <3>1. i \in 1 .. Len(c) /\ c[i] \in Nat /\ c'[i] = c[i] /\ c[i] <= published
      BY <1>2, <2>2, <2>3, <2>5
    <3>2. CASE j = Len(c) + 1
      BY <1>1, <2>2, <3>1, <3>2
    <3>3. CASE j # Len(c) + 1
      <4>1. j \in 1 .. Len(c)
        BY <2>2, <2>3, <3>3
      <4> QED BY <1>2, <2>2, <2>5, <3>1, <4>1
    <3> QED BY <3>2, <3>3
  <2> QED BY <2>4, <2>5 DEF c
<1>4. CASE Misses(s)
  <2>1. c' = c /\ published' = published + 1 /\ joined'[s] = joined[s]
    BY <1>4 DEF Misses
  <2> HIDE DEF c
  <2>2. \A i \in 1 .. Len(c) : c[i] \in Nat
    BY <1>1
  <2>3. \A i \in 1 .. Len(c') : joined'[s] < c'[i] /\ c'[i] <= published'
    BY <1>1, <1>2, <2>1, <2>2
  <2> QED BY <1>2, <2>1, <2>3 DEF c
<1>5. CASE Keeps(s)
  <2>1. /\ c' = c /\ published' = published
        /\ joined'[s] = joined[s] \/ c = << >>
    BY <1>5 DEF Keeps
  <2> HIDE DEF c
  <2>2. \A i \in 1 .. Len(c') : joined'[s] < c'[i] /\ c'[i] <= published'
    BY <1>2, <2>1
  <2> QED BY <1>2, <2>1, <2>2 DEF c
<1> QED BY <1>3, <1>4, <1>5, CarriedStep DEF BusInv

LEMMA DropsStep == BusInv /\ [BusNext]_busVars => DropsCounted'
<1> SUFFICES ASSUME BusInv, [BusNext]_busVars, NEW s \in subscribers'
             PROVE  published' - joined'[s] <= Len(Carried(s)') + dropped'
  BY DEF DropsCounted
<1>1. BusTypeOK'
  BY TypeStep DEF BusInv
<1>2. s \in Streams
  BY <1>1 DEF BusTypeOK
<1>3. /\ Carried(s) \in Seq(Nat) /\ published \in Nat /\ dropped \in Nat
      /\ joined[s] \in Nat /\ joined[s] <= published
  BY <1>2, CarriedType DEF BusInv, BusTypeOK
<1>4. s \in subscribers
        => published - joined[s] <= Len(Carried(s)) + dropped
  BY DEF BusInv, DropsCounted
<1>5. CASE Gains(s)
  <2>1. Len(Carried(s)') = Len(Carried(s)) + 1
    BY <1>3, <1>5 DEF Gains
  <2> QED BY <1>3, <1>4, <1>5, <2>1, LenProperties DEF Gains
<1>6. CASE Misses(s)
  BY <1>3, <1>4, <1>6, LenProperties DEF Misses
<1>7. CASE Keeps(s)
  <2>1. Len(Carried(s)) \in Nat
    BY <1>3, LenProperties
  <2>2. /\ published' = published /\ dropped' = dropped
        /\ Len(Carried(s)') = Len(Carried(s))
    BY <1>7 DEF Keeps
  <2>3. CASE joined'[s] = joined[s] /\ (s \in subscribers' => s \in subscribers)
    BY <1>4, <2>2, <2>3
  <2>4. CASE joined'[s] = published
    BY <1>3, <2>1, <2>2, <2>4
  <2> QED BY <1>7, <2>3, <2>4 DEF Keeps
<1> QED BY <1>2, <1>5, <1>6, <1>7, CarriedStep DEF BusInv

LEMMA BusStep == BusInv /\ [BusNext]_busVars => BusInv'
<1> SUFFICES ASSUME BusInv, [BusNext]_busVars PROVE BusInv'
  OBVIOUS
<1>1. ASSUME NEW s \in Streams PROVE joined'[s] <= published'
  <2>1. /\ joined[s] \in Nat /\ published \in Nat
        /\ joined[s] <= published
    BY DEF BusInv, BusTypeOK
  <2>2. Gains(s) \/ Misses(s) \/ Keeps(s)
    BY CarriedStep DEF BusInv
  <2> QED BY <2>1, <2>2 DEF Gains, Misses, Keeps
<1> QED BY <1>1, TypeStep, FreshStep, InOrderStep, DropsStep DEF BusInv

\* However the queues of the bus, the generators of the streams and the
\* clients interleave, a client sees what was published after it subscribed,
\* in order and nothing twice.
THEOREM InOrderHolds == BusSpec => []InOrder
<1>1. BusInv => InOrder
  BY DEF BusInv
<1> QED BY <1>1, BusInitial, BusStep, PTL DEF BusSpec

\* Besides, the count of dropped events covers what any current subscriber misses.
THEOREM NoSilentLossHolds == BusSpec => []NoSilentLoss
<1>1. BusInv => NoSilentLoss
  BY DEF BusInv, NoSilentLoss
<1> QED BY <1>1, BusInitial, BusStep, PTL DEF BusSpec

-----------------------------------------------------------------------------
(* The leak of a subscriber. *)

\* Strengthening: nothing was sent before the hello packet either, and Connect
\* is the only step that makes a subscriber.
Unsent(s) == received[s] = << >> /\ outgoing[s] = << >>

NoLateLeak ==
    /\ subscribers \subseteq Streams
    /\ \A s \in Streams :
          \/ stage[s] \in {"new", "hello"}
          \/ stage[s] = "closed" /\ s \in subscribers
          => Unsent(s)

LEMMA NoLateLeakStep == BusTypeOK /\ NoLateLeak /\ [BusNext]_busVars => NoLateLeak'
<1> SUFFICES ASSUME BusTypeOK, NoLateLeak, [BusNext]_busVars PROVE NoLateLeak'
    OBVIOUS
<1> USE DEF BusTypeOK, NoLateLeak, Unsent
<1>1. CASE Publish
    BY <1>1 DEF Publish, client
<1>2. ASSUME NEW s \in Streams, Connect(s) PROVE NoLateLeak'
    BY <1>2 DEF Connect
<1>3. ASSUME NEW s \in Streams, Leave(s) PROVE NoLateLeak'
    BY <1>3 DEF Leave, bus
<1>4. ASSUME NEW s \in Streams, Greet(s) PROVE NoLateLeak'
    BY <1>4 DEF Greet, bus, client
<1>5. ASSUME NEW s \in Streams, Abandon(s) PROVE NoLateLeak'
    BY <1>5 DEF Abandon, bus, client
<1>6. ASSUME NEW s \in Streams, Get(s) PROVE NoLateLeak'
    BY <1>6 DEF Get, bus, client
<1>7. ASSUME NEW s \in Streams, Ping(s) PROVE NoLateLeak'
    BY <1>7 DEF Ping, TimedOut, bus, client
<1>8. ASSUME NEW s \in Streams, Written(s) PROVE NoLateLeak'
    BY <1>8 DEF Written, Again, bus, client
<1>9. ASSUME NEW s \in Streams, HangUp(s) PROVE NoLateLeak'
    BY <1>9 DEF HangUp, client
<1>10. CASE UNCHANGED busVars
    BY <1>10 DEF busVars
<1> QED
    BY <1>1, <1>2, <1>3, <1>4, <1>5, <1>6, <1>7, <1>8, <1>9, <1>10
       DEF BusNext, Serve

\* A subscriber whose stream has ended was never sent an event: unsubscribe is
\* missed in no other way than by leaving before the hello packet.
THEOREM LeakHolds == BusSpec => []LeakOnlyBeforeHello
<1>1. BusInit => NoLateLeak
    BY DEF BusInit, NoLateLeak, Unsent
<1>2. NoLateLeak => LeakOnlyBeforeHello
    BY DEF NoLateLeak, Unsent, LeakOnlyBeforeHello
<1> QED
    BY <1>1, <1>2, BusTypeInvariant, NoLateLeakStep, PTL DEF BusSpec

-----------------------------------------------------------------------------
(* What the streams do in the end *)

\* A client is there only once its stream has begun, and until it has ended.
ThereInv == \A s \in Streams : present[s] => stage[s] \notin {"new", "closed"}

\* No step of a stream, of a client or of a publisher brings a client back.
LEMMA ThereStep == BusTypeOK /\ ThereInv /\ [BusNext]_busVars => ThereInv'
<1> SUFFICES ASSUME BusTypeOK, ThereInv, [BusNext]_busVars PROVE ThereInv'
  OBVIOUS
<1> USE DEF BusTypeOK, ThereInv, bus, client
<1>1. CASE Publish
  BY <1>1 DEF Publish
<1>2. ASSUME NEW s \in Streams, Connect(s) PROVE ThereInv'
  BY <1>2 DEF Connect
<1>3. ASSUME NEW s \in Streams, Leave(s) PROVE ThereInv'
  BY <1>3 DEF Leave
<1>4. ASSUME NEW s \in Streams, Serve(s) PROVE ThereInv'
  BY <1>4 DEF Serve, Greet, Abandon, Get, Ping, TimedOut, Written, Again, HangUp
<1>5. CASE UNCHANGED busVars
  BY <1>5 DEF busVars
<1> QED BY <1>1, <1>2, <1>3, <1>4, <1>5 DEF BusNext

\* So it is in every state.
LEMMA There == BusSpec => []ThereInv
<1>1. BusInit => ThereInv
  BY DEF BusInit, ThereInv
<1> QED BY <1>1, BusTypeInvariant, ThereStep, PTL DEF BusSpec

\* What the theorems below suppose and this prover cannot say, since it is about
\* ENABLED: wherever its generator stands, with events or none, a stream has a
\* step of its own (Serve has one for each place; TimedOut needs no event).  A
\* thread that is held by a client's socket is left out.
NeverStuck ==
    \A s \in Streams : Running(s) => ENABLED <<Serve(s)>>_busVars

\* A stream that keeps running takes its step, since none is ever stuck.
LEMMA Going ==
    ASSUME NEW s \in Streams
    PROVE  FairBusSpec /\ []NeverStuck
             => []([]Running(s) => <><<Serve(s)>>_busVars)
<1>1. FairBusSpec => Served(s)
  BY DEF FairBusSpec
<1>2. NeverStuck => (Running(s) => ENABLED <<Serve(s)>>_busVars)
  BY DEF NeverStuck
<1> QED BY <1>1, <1>2, PTL DEF Served

\* A stream whose client is gone, at a place of its generator.
Left(s, at) == stage[s] = at /\ ~ present[s]

\* What unsubscribe brings about (_subscribers.discard).
Unsubscribed(s) == s \notin subscribers

\* Only its own step takes a stream without a client further.
LEMMA LeftStays ==
    ASSUME NEW s \in Streams, NEW at \in {"waiting", "yielding"},
           BusTypeOK, Left(s, at), [BusNext]_busVars
    PROVE  Left(s, at)' \/ Serve(s)
<1> USE DEF BusTypeOK, Left, bus, client
<1>1. CASE Publish
  BY <1>1 DEF Publish
<1>2. ASSUME NEW x \in Streams, Connect(x) \/ Leave(x) PROVE Left(s, at)'
  BY <1>2 DEF Connect, Leave
<1>3. ASSUME NEW x \in Streams \ {s}, Serve(x) PROVE Left(s, at)'
  BY <1>3 DEF Serve, Greet, Abandon, Get, Ping, TimedOut, Written, HangUp
<1>4. CASE UNCHANGED busVars
  BY <1>4 DEF busVars
<1> QED BY <1>1, <1>2, <1>3, <1>4 DEF BusNext

\* Its step out of get is to the write, which fails, and unsubscribes.
LEMMA LeftServed ==
    ASSUME NEW s \in Streams, BusTypeOK, Serve(s)
    PROVE  /\ Left(s, "waiting") => Left(s, "yielding")'
           /\ Left(s, "yielding") => Unsubscribed(s)'
  BY DEF Unsubscribed, BusTypeOK, Left, Serve, Greet, Abandon, Get, Ping, TimedOut, Written, HangUp,
         bus, client

\* A client that leaves an open stream is unsubscribed, even if no event ever
\* comes: get times out, the write fails, and the finally of the generator
\* unsubscribes (sse_stream); whatever the other streams and publishers do.
THEOREM ReleasedHolds == FairBusSpec /\ []NeverStuck => Released
<1>1. ASSUME NEW s \in Streams
      PROVE  FairBusSpec /\ []NeverStuck
               => ((stage[s] \in {"waiting", "yielding"} /\ ~ present[s])
                   ~> Unsubscribed(s))
  <2>1. Left(s, "waiting") /\ BusTypeOK /\ [BusNext]_busVars
          => Left(s, "waiting")' \/ Left(s, "yielding")'
    BY LeftStays, LeftServed
  <2>2. Left(s, "waiting") /\ BusTypeOK /\ <<Serve(s)>>_busVars
          => Left(s, "yielding")'
    BY LeftServed
  <2>3. Left(s, "yielding") /\ BusTypeOK /\ [BusNext]_busVars
          => Left(s, "yielding")' \/ Unsubscribed(s)'
    BY LeftStays, LeftServed
  <2>4. Left(s, "yielding") /\ BusTypeOK /\ <<Serve(s)>>_busVars
          => Unsubscribed(s)'
    BY LeftServed
  <2>5. /\ Left(s, "waiting") => Running(s)
        /\ Left(s, "yielding") => Running(s)
    BY DEF Left, Running
  <2>6. stage[s] \in {"waiting", "yielding"} /\ ~ present[s]
          => Left(s, "waiting") \/ Left(s, "yielding")
    BY DEF Left
  <2>7. FairBusSpec => BusSpec
    BY DEF FairBusSpec
  <2>8. FairBusSpec /\ []NeverStuck => []([]Running(s) => <><<Serve(s)>>_busVars)
    BY Going
  <2> QED BY <2>1, <2>2, <2>3, <2>4, <2>5, <2>6, <2>7, <2>8, BusTypeInvariant, PTL
          DEF BusSpec
<1>2. FairBusSpec /\ []NeverStuck
        => \A s \in Streams :
             (stage[s] \in {"waiting", "yielding"} /\ ~ present[s])
             ~> Unsubscribed(s)
  BY <1>1
<1> QED BY <1>2 DEF Released, Unsubscribed

-----------------------------------------------------------------------------
(* An event on its way *)

\* An event is at the k-th place of a queue; a client has it.
Waits(s, n, k) == k \in 1 .. Len(queue[s]) /\ queue[s][k] = n
Arrived(s, n) == \E i \in 1 .. Len(received[s]) : received[s][i] = n

\* The place before the k-th: the client's.
Further(s, n, k) == IF k = 1 THEN Arrived(s, n) ELSE Waits(s, n, k - 1)
Absent(s) == ~ present[s]

\* An event in a queue, by where the generator stands; an event it yields.
WaitsAt(s, n, k, places) == Waits(s, n, k) /\ present[s] /\ stage[s] \in places
Yielded(s, n) == stage[s] = "yielding" /\ present[s] /\ outgoing[s] = <<n>>

\* Others leave to a stream what it has, and an event that is published goes
\* behind those that wait.
LEMMA OthersKeep ==
    ASSUME NEW s \in Streams, BusTypeOK, present[s], [BusNext]_busVars
    PROVE  \/ Serve(s)
           \/ Connect(s)
           \/ Absent(s)'
           \/ /\ present'[s] /\ UNCHANGED <<stage[s], outgoing[s], received[s]>>
              /\ \A n \in Nat, k \in Nat : Waits(s, n, k) => Waits(s, n, k)'
<1> USE DEF BusTypeOK, bus, client
<1>1. CASE Publish
  <2>1. /\ UNCHANGED <<stage, outgoing, received, present>>
        /\ queue'[s] = queue[s] \/ queue'[s] = Append(queue[s], published + 1)
    BY <1>1 DEF Publish
  <2>2. queue[s] \in Seq(Nat) /\ published + 1 \in Nat
    OBVIOUS
  <2>3. \A n \in Nat, k \in Nat : Waits(s, n, k) => Waits(s, n, k)'
    BY <2>1, <2>2 DEF Waits
  <2> QED BY <2>1, <2>3
<1>2. ASSUME NEW x \in Streams \ {s}, Connect(x) \/ Leave(x) \/ Serve(x)
      PROVE  /\ present'[s] /\ UNCHANGED <<stage[s], outgoing[s], received[s], queue[s]>>
  BY <1>2 DEF Connect, Leave, Serve, Greet, Abandon, Get, Ping, TimedOut, Written, HangUp
<1>3. CASE Leave(s)
  BY <1>3 DEF Leave, Absent
<1>4. CASE UNCHANGED busVars
  BY <1>4 DEF busVars, Waits
<1> QED BY <1>1, <1>2, <1>3, <1>4 DEF BusNext, Waits

\* What a stream's own step does to an event that waits for it.
LEMMA ServedNext ==
    ASSUME NEW s \in Streams, NEW n \in Nat, NEW k \in Nat \ {0}, BusTypeOK, Serve(s)
    PROVE  /\ WaitsAt(s, n, k, {"hello", "yielding"}) => WaitsAt(s, n, k, {"waiting"})'
           /\ WaitsAt(s, n, k, {"waiting"}) =>
                IF k = 1 THEN Yielded(s, n)' ELSE Further(s, n, k)'
           /\ Yielded(s, n) => Arrived(s, n)'
<1> USE DEF BusTypeOK, bus, client
<1>1. queue[s] \in Seq(Nat) /\ received[s] \in Seq(Nat)
  OBVIOUS
<1>2. ASSUME WaitsAt(s, n, k, {"hello", "yielding"})
      PROVE  WaitsAt(s, n, k, {"waiting"})'
  BY <1>2 DEF WaitsAt, Waits, Serve, Greet, Abandon, Get, Ping, TimedOut, Written, Again,
              HangUp
<1>3. ASSUME WaitsAt(s, n, k, {"waiting"})
      PROVE  IF k = 1 THEN Yielded(s, n)' ELSE Further(s, n, k)'
  <2>1. queue[s] # << >> /\ stage[s] = "waiting" /\ present[s]
    BY <1>1, <1>3 DEF WaitsAt, Waits
  <2>2. Get(s)
    BY <2>1 DEF Serve, Greet, Abandon, Ping, TimedOut, Written, HangUp
  <2>3. /\ outgoing'[s] = <<Head(queue[s])>> /\ queue'[s] = Tail(queue[s])
        /\ stage'[s] = "yielding" /\ present'[s]
    BY <2>1, <2>2 DEF Get
  <2>4. k \in 1 .. Len(queue[s]) /\ queue[s][k] = n
    BY <1>3 DEF WaitsAt, Waits
  <2>5. CASE k = 1
    BY <1>1, <2>1, <2>3, <2>4, <2>5 DEF Yielded
  <2>6. CASE k # 1
    <3>1. k - 1 \in 1 .. Len(Tail(queue[s])) /\ Tail(queue[s])[k - 1] = n
      BY <1>1, <2>1, <2>4, <2>6
    <3> QED BY <2>3, <2>6, <3>1 DEF Further, Waits
  <2> QED BY <2>5, <2>6
<1>4. ASSUME Yielded(s, n)
      PROVE  Arrived(s, n)'
  <2>1. Written(s)
    BY <1>4 DEF Yielded, Serve, Greet, Abandon, Get, Ping, TimedOut, HangUp
  <2>2. received'[s] = received[s] \o <<n>>
    BY <1>4, <2>1 DEF Yielded, Written
  <2>3. /\ Len(received[s]) + 1 \in 1 .. Len(received[s] \o <<n>>)
        /\ (received[s] \o <<n>>)[Len(received[s]) + 1] = n
    BY <1>1
  <2> QED BY <2>2, <2>3 DEF Arrived
<1> QED BY <1>2, <1>3, <1>4

\* Where an event goes from the k-th place when its stream gets.
Taken(s, n, k) == IF k = 1 THEN Yielded(s, n) ELSE Further(s, n, k)

\* Any step leaves an event where it is, or takes it one place on.
LEMMA WaitingStep ==
    ASSUME NEW s \in Streams, NEW n \in Nat, NEW k \in Nat \ {0},
           BusTypeOK, ThereInv, [BusNext]_busVars
    PROVE  /\ WaitsAt(s, n, k, {"hello", "yielding"}) =>
                \/ WaitsAt(s, n, k, {"hello", "yielding"})'
                \/ WaitsAt(s, n, k, {"waiting"})'
                \/ Absent(s)'
           /\ WaitsAt(s, n, k, {"waiting"}) =>
                \/ WaitsAt(s, n, k, {"waiting"})'
                \/ Taken(s, n, k)'
                \/ Absent(s)'
           /\ Yielded(s, n) => Yielded(s, n)' \/ Arrived(s, n)' \/ Absent(s)'
<1>1. CASE Serve(s)
  BY <1>1, ServedNext DEF Taken
<1>2. CASE ~ Serve(s) /\ present[s]
  <2>1. ~ Connect(s)
    BY <1>2 DEF ThereInv, Connect
  <2>2. \/ Absent(s)'
        \/ /\ present'[s] /\ UNCHANGED <<stage[s], outgoing[s], received[s]>>
           /\ Waits(s, n, k) => Waits(s, n, k)'
    BY <1>2, <2>1, OthersKeep
  <2> QED BY <2>2 DEF WaitsAt, Yielded
<1> QED BY <1>1, <1>2 DEF WaitsAt, Yielded

\* Each place of a queue leads to the one before it.
Advances ==
    \A s \in Streams, n \in Nat, k \in Nat \ {0} :
        Waits(s, n, k) ~> Further(s, n, k) \/ Absent(s)

\* An event that waits for a client, at any place of a queue of any length,
\* comes one place nearer to it, or arrives if it was first, unless the client
\* leaves: however long get waits and however much is published behind it
\* (EventBus.publish, sse_stream).
THEOREM DeliveryAdvances == FairBusSpec /\ []NeverStuck => Advances
<1>1. ASSUME NEW s \in Streams, NEW n \in Nat, NEW k \in Nat \ {0}
      PROVE  FairBusSpec /\ []NeverStuck
               => (Waits(s, n, k) ~> Further(s, n, k) \/ Absent(s))
  <2> DEFINE H == WaitsAt(s, n, k, {"hello", "yielding"})
             W == WaitsAt(s, n, k, {"waiting"})
             Inv == BusTypeOK /\ ThereInv
  <2>1. Inv /\ H /\ [BusNext]_busVars => H' \/ W' \/ Absent(s)'
    BY WaitingStep
  <2>2. Inv /\ H /\ <<Serve(s)>>_busVars => W'
    BY ServedNext
  <2>3. Inv /\ W /\ [BusNext]_busVars => W' \/ Taken(s, n, k)' \/ Absent(s)'
    BY WaitingStep
  <2>4. Inv /\ W /\ <<Serve(s)>>_busVars => Taken(s, n, k)'
    BY ServedNext DEF Taken
  <2>5. Inv /\ Yielded(s, n) /\ [BusNext]_busVars
          => Yielded(s, n)' \/ Arrived(s, n)' \/ Absent(s)'
    BY WaitingStep
  <2>6. Inv /\ Yielded(s, n) /\ <<Serve(s)>>_busVars => Arrived(s, n)'
    BY ServedNext
  <2>7. (H => Running(s)) /\ (W => Running(s)) /\ (Yielded(s, n) => Running(s))
    BY DEF WaitsAt, Yielded, Running
  <2>8. Inv /\ Waits(s, n, k) => H \/ W \/ Absent(s)
    BY DEF ThereInv, BusTypeOK, Stage, WaitsAt, Absent
  <2>9. FairBusSpec /\ []NeverStuck => []([]Running(s) => <><<Serve(s)>>_busVars)
    BY Going
  <2>10. FairBusSpec => [][BusNext]_busVars /\ []Inv
    <3>1. FairBusSpec => BusSpec
      BY DEF FairBusSpec
    <3> QED BY <3>1, BusTypeInvariant, There, PTL DEF BusSpec
  <2> HIDE DEF H, W, Inv
  <2>11. CASE k = 1
    <3>1. (Taken(s, n, k) => Yielded(s, n)) /\ (Arrived(s, n) => Further(s, n, k))
      BY <2>11 DEF Taken, Further
    <3> QED BY <2>1, <2>2, <2>3, <2>4, <2>5, <2>6, <2>7, <2>8, <2>9, <2>10, <3>1, PTL
  <2>12. CASE k # 1
    <3>1. Taken(s, n, k) => Further(s, n, k)
      BY <2>12 DEF Taken
    <3> QED BY <2>1, <2>2, <2>3, <2>4, <2>7, <2>8, <2>9, <2>10, <3>1, PTL
  <2> QED BY <2>11, <2>12
<1>2. FairBusSpec /\ []NeverStuck
        => \A s \in Streams, n \in Nat, k \in Nat \ {0} :
             Waits(s, n, k) ~> Further(s, n, k) \/ Absent(s)
  BY <1>1
<1> QED BY <1>2 DEF Advances
=============================================================================
