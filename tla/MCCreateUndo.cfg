SPECIFICATION Spec
CONSTANTS
    Directories = {a, b}
    Filenames = {f}
    KeyPrefixes = {k1, k2, k3}
    NoObject = NoObject
    NoPrefix = NoPrefix
    OperationKinds = {"CreateDirectory"}
    MaxOperations = 2
    MaxLaterOperations = 2
    MaxTransactions = 1
    FailPoints = {"create"}
    RemoteFaults = FALSE
    LostAnswers = {}
CHECK_DEADLOCK FALSE
INVARIANT RollbackRestoresDirectories
