SPECIFICATION Spec

CONSTANTS
    Json = "json"
    Script = "script"
    Text = "str"
    Types <- MCTypes
    Into <- MCInto
    Fallible <- MCFallible
    Stringifiable <- MCStringifiable
    Diagrams <- MCDiagrams

INVARIANTS
    TypeOK
    WiredAsDrawn
    BuildsIfPossible

PROPERTY
    Terminates

CHECK_DEADLOCK FALSE
