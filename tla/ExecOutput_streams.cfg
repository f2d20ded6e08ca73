SPECIFICATION Spec
CHECK_DEADLOCK FALSE
CONSTANTS
    Streams = {"stdout", "stderr"}
    Bytes = {"a", "b", "c", "lead", "trail", "redacted"}
    TextsOf <- Redactable
    SecretLists <- BothLists
    Limits = {3, 99}
    MaxWrite = 3
    PieceSize = 2
    Redacted = "redacted"
    Marker = "marker"
    Lead = "lead"
    Trail = "trail"
    Broken = "broken"
INVARIANTS
    TypeOK
    StoredIsRedacted
    RelayFollowsStore
    LimitHeld
    ResultIsComplete
