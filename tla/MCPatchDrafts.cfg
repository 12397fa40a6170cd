SPECIFICATION Spec
CONSTANTS
    s1 = s1
    s2 = s2
    a = a
    b = b
    Session = {s1, s2}
    Target = {a, b}
    Python = {a, b}
    SlugOf <- MCApart
    Kinds <- MCKinds
    Initial = {"v1", "other"}
    MaxFailures = 2
    MaxEdits = 1
    MaxRuns = 1
INVARIANTS
    TypeOK
    DraftsAreBacked
    EveryKeyDecided
    LedgerCoversRecommendations
    SealedTogether
CHECK_DEADLOCK FALSE
