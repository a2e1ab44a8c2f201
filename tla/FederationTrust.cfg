SPECIFICATION FSpec
CONSTANTS
    Partners = {p1, p2}
    Operators = {o1, o2}
    Routers = {q1}
    None = None
    MayCrash = TRUE
    MaxCalls = 4
    Endpoints = {"shared", "other"}
    EndpointOf <- MCEndpointOf
    Classes = {"c"}
    Offers <- MCOffers
    Queries <- MCQueries
    Replies <- MCReplies
    MaxQueries = 1
    Casts <- MCCasts
CHECK_DEADLOCK FALSE
SYMMETRY Symmetry
PROPERTY RevocationFinal
INVARIANTS QueriedOnceVerified LedgerTruthful 
