SPECIFICATION Spec
CONSTANTS
    s1 = s1
    s2 = s2
    a = a
    b = b
    c = c
    Session = {s1}
    Target = {a, b, c}
    Place <- SoloPlace
    Runner <- SoloRunner
    PathOf <- MCPathOf
    Denied <- MCDenied
    Options <- SoloOptions
    Initial <- SoloInitial
    Edited <- SoloInitial
    Scorings <- SoloScorings
    Broken = {124}
    RiskTokens = 2
    MaxOutput = 5
    AskTokens = {1, 14}
    ProbeTokens = {3}
    MaxEdits = 1
INVARIANTS
    HardBudget
CHECK_DEADLOCK FALSE
