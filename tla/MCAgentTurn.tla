---------------------------- MODULE MCAgentTurn ----------------------------
(* AgentTurn on a small instance.  Table t1 holds r1, t2 holds r2.           *)
EXTENDS AgentTurn, TLC

MCTables == <<"t1", "t2">>
MCTableOf == ("r1" :> "t1") @@ ("r2" :> "t2")
MCBelow == ("a" :> {"b"}) @@ ("b" :> {}) @@ ("c" :> {})
MCClassOf == ("r1" :> <<"b", "a">>) @@ ("r2" :> <<"a", "c">>)
Symmetry == Permutations(Indexers)
MCExpressions == {[any |-> {"b"}, all |-> {}], [any |-> {}, all |-> {"b", "a"}],
                  [any |-> {"c"}, all |-> {}]}
MCDependents == "l" :> {"d1", "d2"}
Opt(f, r, e, m, n) == [flavor |-> f, retrieval |-> r, expression |-> e,
                       recall |-> m, alerts |-> n]
MCOptions == {Opt("unknown", "structured", None, FALSE, 0),
              Opt("memory", "hybrid", None, FALSE, 0),
              Opt("disk", "structured", None, TRUE, 1),
              Opt("disk", "hybrid", [any |-> {"b"}, all |-> {}], TRUE, 0),
              Opt("disk", "vector-only", [any |-> {"c"}, all |-> {}], FALSE, 1)}
=============================================================================
