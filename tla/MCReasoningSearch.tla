------------------------- MODULE MCReasoningSearch -------------------------
(* ReasoningSearch on a small instance.  Flavor f1 knows a and b and may     *)
(* read both; f2 knows n, which has no table; f3 knows a and may read it,    *)
(* and f4 knows a and lists no table, so that it may read any.  b is above   *)
(* the ceiling and referenced by a.  A direct call may bring a fact about b, *)
(* and alone asks for f3 and f4.  Only threads that share the cache need     *)
(* meet: a stream and a direct call share nothing with them.                 *)
EXTENDS ReasoningSearch, TLC

MCVocab == [f \in Flavors |-> CASE f = "f1" -> {"a", "b"}
                                [] f = "f2" -> {"n"}
                                [] OTHER -> {"a"}]
MCAllowed == [f \in Flavors |-> CASE f = "f1" -> {"a", "b"}
                                  [] f = "f3" -> {"a"}
                                  [] OTHER -> {}]
MCAsking == [s \in Calls |-> IF s \in Direct THEN Flavors ELSE {"f1", "f2"}]
MCExtraFacts == {{}, {"b"}}
MCReferences == [x \in Names |-> IF x = "a" THEN {"b"} ELSE {}]
MCRules == <<[body |-> {"a"}, head |-> "d"],
             [body |-> {"d", "b"}, head |-> "e"],
             [body |-> {"e"}, head |-> "d"]>>
MCMeetings == {Cached, Streams, Direct}
=============================================================================
