SPECIFICATION Spec
CONSTANTS
    s1 = s1
    s2 = s2
    e1 = e1
    e2 = e2
    e3 = e3
    e4 = e4
    failures = failures
    negatives = negatives
    Session = {s1, s2}
    Event = {e1, e2, e3, e4}
    File = {failures, negatives}
    Target <- MCTarget
    ReadOrder <- MCReadOrder
INVARIANTS
    AckedReadable
