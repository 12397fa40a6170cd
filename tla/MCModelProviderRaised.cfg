SPECIFICATION Spec
CONSTANTS
    s1 = s1
    Invalid = Invalid
    None = None
    Session = {s1}
    Config <- MCConfig
    Handed <- MCHanded
    CustomCost = {0, 1, 2}
    MaxEdits = 2
    MaxCalls = 2
PROPERTIES
    EveryCallRecorded
CHECK_DEADLOCK FALSE
