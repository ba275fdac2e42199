SPECIFICATION Spec

CONSTANTS
    Json = "json"
    Script = "script"
    Text = "str"
    Types <- MCTypes
    Into <- MCInto
    Fallible <- MCFallible
    Stringifiable <- MCStringifiable
    Diagrams <- MCReported

INVARIANT
    WiredAsDrawn

CHECK_DEADLOCK FALSE
