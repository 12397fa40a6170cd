SPECIFICATION Spec
CONSTANTS
    s1 = s1
    s2 = s2
    a = a
    b = b
    Session = {s1}
    Target = {a, b}
    Python = {a, b}
    SlugOf <- MCApart
    Kinds <- MCKinds
    Initial = {"v1", "v2"}
    MaxFailures = 2
    MaxEdits = 1
    MaxRuns = 2
INVARIANTS
    EligibleGetsDraft
CHECK_DEADLOCK FALSE
