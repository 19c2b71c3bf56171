SPECIFICATION Spec
CONSTANTS
    Directories = {a, b}
    Filenames = {f}
    KeyPrefixes = {k1, k2, k3}
    NoObject = NoObject
    NoPrefix = NoPrefix
    OperationKinds = {"CreateDirectory", "MoveDirectory", "RemoveDirectory"}
    MaxOperations = 1
    MaxLaterOperations = 1
    MaxTransactions = 1
    FailPoints = {}
    RemoteFaults = TRUE
    LostAnswers = {"CreateDirectory", "MoveDirectory", "RemoveDirectory"}
CHECK_DEADLOCK FALSE
INVARIANT RollbackRestoresMarkers
