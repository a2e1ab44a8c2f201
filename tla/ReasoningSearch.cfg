SPECIFICATION FairSearchSpec
CONSTANTS
    Cached = {s1, s2}
    Streams = {s3}
    Direct = {s4}
    Flavors = {"f1", "f2", "f3", "f4"}
    Names = {"a", "b", "n"}
    Vocab <- MCVocab
    Allowed <- MCAllowed
    Unlisted = {"f4"}
    Mapped = {"a", "b"}
    Above = {"b"}
    Readable = {"a", "b"}
    References <- MCReferences
    Rules <- MCRules
    ExtraFacts <- MCExtraFacts
    TTL = 2
    MaxReplans = 1
    MaxVersions = 2
    Meetings <- MCMeetings
    Asking <- MCAsking
    Nothing = Nothing
CHECK_DEADLOCK FALSE
INVARIANTS SearchGrounded
PROPERTIES CacheConverges StreamEnds
