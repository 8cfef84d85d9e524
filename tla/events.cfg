SPECIFICATION FairSpec
CONSTANTS
    None = None
    Calls = {e1, e2}
    Devices = {d1, d2}
    Topics <- SmallTopics
    Matches <- SmallMatches
    Callbacks = {c1, c2}
    Nameless = {c2}
    d1 = d1
    d2 = d2
INVARIANTS
        NobodyMissed
    NobodySurprised
PROPERTIES
    EmitReturns
