SPECIFICATION Spec
CONSTANTS
    Directories = {a, b}
    Filenames = {f}
    KeyPrefixes = {k1, k2, k3}
    NoObject = NoObject
    NoPrefix = NoPrefix
    OperationKinds = {"CreateDirectory", "WriteFile", "UnlinkMetadataFile"}
    MaxOperations = 3
    MaxLaterOperations = 3
    MaxTransactions = 1
    FailPoints = {"create"}
    RemoteFaults = FALSE
    LostAnswers = {}
CHECK_DEADLOCK FALSE
INVARIANT UndoFindsParentDirectory
