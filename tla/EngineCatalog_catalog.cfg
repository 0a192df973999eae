\* Two readers, an engine that says seven different things, card edits and restarts at will.
SPECIFICATION FairSpec
CONSTANTS
    Requests = {r1, r2}
    Modes <- MCModes
    Answers <- MCAnswers
    Wirings = {TRUE, FALSE}
    TTL = 2
    Timeout = 1
INVARIANTS
    VerdictStands
    FreshWithinTTL
    OfferedIsServed
PROPERTIES
    ReadersAreAnswered
