SPECIFICATION Spec

CONSTANTS
    NoType = NoType
    Types <- MCTypes
    Json = "json"
    Script = "script"
    Cloneable <- MCCloneable
    Serializable <- MCSerializable
    Deserializable <- MCSerializable
    Scriptable <- MCScriptable
    Into <- MCInto
    ResultOf <- MCResultOf
    UnzipOf <- MCUnzipOf
    SplitOf <- MCSplitOf
    JoinOf <- MCJoinOf
    ListenOf <- MCListenOf
    AccessOf <- MCAccessOf
    RequestOf <- MCRequestOf
    Diagrams <- MCDiagrams

INVARIANTS
    TypeOK
    Settled
    OrderDoesNotMatter

PROPERTY
    Terminates

CHECK_DEADLOCK FALSE
