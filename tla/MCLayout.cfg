SPECIFICATION DoctorSpec
CONSTANTS
    s1 = s1
    s2 = s2
    config = config
    spore = spore
    Session = {s1, s2}
    File = {config, spore}
    Spores = {spore}
    Order <- MCOrder
    MaxRuns = 2
    MaxEdits = 2
INVARIANTS
    TypeOK
    LaidOut
    InitRecorded
PROPERTIES
    SafeToRunAgain
    DoctorAnswers
CHECK_DEADLOCK FALSE
