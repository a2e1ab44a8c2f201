------------------------- MODULE MCFederationTrust -------------------------
(* FederatedQuery on a small instance.  Operators are interchangeable, and   *)
(* so are partners: both serve the same endpoint.                            *)
EXTENDS FederatedQuery, TLC

Symmetry == Permutations(Partners) \cup Permutations(Operators)

Internal == [classes |-> {"c"}, max |-> "Internal"]
Closed == [classes |-> {}, max |-> "Restricted"]

MCCasts == {Operators \cup Partners \cup {Internal}}
             \cup {{o, p, Internal, Closed} \cup Routers : o \in Operators, p \in Partners}
MCEndpointOf == [p \in Partners |-> "shared"]
MCOffers == {Internal, Closed}
MCQueries == {[services |-> << >>, where |-> TRUE, flavor |-> None],
              [services |-> <<"shared", "other">>, where |-> TRUE, flavor |-> "Confidential"],
              [services |-> <<"shared">>, where |-> FALSE, flavor |-> None]}

Shared(c, t) == [class |-> c, tier |-> t, agent |-> Partners]
MCReplies == {{}, {Shared("c", "unlabelled"), Shared("c", "Restricted")},
              {Shared("c", "Confidential")}, {[Shared("c", "Public") EXCEPT !.agent = {}]},
              {Shared("binding", "unlabelled")}}
=============================================================================
