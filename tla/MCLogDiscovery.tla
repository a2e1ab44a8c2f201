--------------------------- MODULE MCLogDiscovery ---------------------------
\* The command line and one request of the wizard, over two corpora.  In the first
\* "up" and "app" are each within the edit threshold of "upp", but not of each
\* other, and value 1 leads value 2 in one trace; in the second the templates come
\* in another order, and 1 and 2 at the same time.
EXTENDS LogDiscovery

CONSTANTS cli, request

MCNear == {<<"up", "upp">>, <<"app", "upp">>}

MCShapesOf == [v \in 1..3 |-> IF v = 1 THEN {"IRI"} ELSE {"HEX"}]

Trace == <<"core", "1">>

First ==
  <<Line("up", <<1>>, 1, Trace, "amf"), Line("upp", <<2>>, 2, Trace, "amf"),
    Line("app", <<3>>, 9, <<>>, "smf"), Line("app", <<3>>, 13, <<>>, "amf")>>

Second ==
  <<Line("app", <<1>>, 4, Trace, "amf"), Line("up", <<2>>, 4, Trace, "amf"),
    Line("up", <<3>>, 0, <<>>, "amf"), Line("upp", <<3>>, 0, <<>>, "smf")>>

MCLines == [c \in {"first", "second"} |-> IF c = "first" THEN First ELSE Second]

MCStarts == [p \in {cli, request} |-> IF p = cli THEN 2 ELSE 1]

MCPlans ==
  [p \in {cli, request} |->
     IF p = cli THEN {Mine, Sequences, Drift} ELSE {SeedGated, Seed, Rates, Rerank}]
=============================================================================
