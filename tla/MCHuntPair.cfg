SPECIFICATION FairSpec
CONSTANTS
    s1 = s1
    s2 = s2
    a = a
    b = b
    c = c
    Session = {s1, s2}
    Target = {a}
    Place <- PairPlace
    Runner <- PairRunner
    PathOf <- MCPathOf
    Denied = {}
    Options <- PairOptions
    Initial <- PairInitial
    Edited <- PairEdited
    Scorings <- PairScorings
    Broken = {124}
    RiskTokens = 2
    MaxOutput = 8
    AskTokens = {4}
    ProbeTokens = {5}
    MaxEdits = 2
INVARIANTS
    TypeOK
    VerdictsAreEarned
    ProbesAccounted
PROPERTIES
    HuntEnds
CHECK_DEADLOCK FALSE
