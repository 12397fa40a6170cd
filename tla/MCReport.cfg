SPECIFICATION ReportSpec
CONSTANTS
    s1 = s1
    a = a
    c = c
    Session = {s1}
    Target = {a, c}
    Place <- MCPlace
    Runner <- MCRunner
    PathOf <- MCPathOf
    Denied <- MCDenied
    Options <- MCOptions
    Initial <- MCInitial
    Edited <- MCInitial
    Scorings <- MCScorings
    Broken = {124}
    RiskTokens = 2
    MaxOutput = 5
    AskTokens = {1, 14}
    ProbeTokens = {3}
    MaxEdits = 1
INVARIANTS
    EveryRiskAnswered
    BudgetHolds
    ReportAddsUp
CHECK_DEADLOCK FALSE
