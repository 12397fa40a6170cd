SPECIFICATION Spec
CONSTANTS
    File <- MCFile
    PyLine <- MCPyLine
    JsLine <- MCJsLine
    MaxLines = 4
INVARIANTS
    TypeOK
    DroppedAreWeak
    DraftIsExact
PROPERTIES
    SignalsOnlyAdd
    AppliedDraftWorks
CHECK_DEADLOCK FALSE
