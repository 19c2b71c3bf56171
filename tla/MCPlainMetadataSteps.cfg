\* Every call step by step, with readers and a restart; one transaction.
SPECIFICATION FairSpec
CONSTANTS
    Directories = {a, b}
    Filenames = {f}
    KeyPrefixes = {k1, k2}
    NoObject = NoObject
    NoPrefix = NoPrefix
    OperationKinds <- AllKinds
    MaxOperations = 2
    MaxLaterOperations = 2
    MaxTransactions = 1
    FailPoints = {"create", "move"}
    RemoteFaults = TRUE
    LostAnswers = {"CreateDirectory"}
    Readers = {r1, r2}
    Crashes = TRUE
CHECK_DEADLOCK FALSE
INVARIANT TypeOK
INVARIANT VisibleDirectoryIsDurable
INVARIANT RestartFindsAPrefix
PROPERTY ImplementsOperations
PROPERTY ReadersSeeAStableIndex
PROPERTY CommitEnds
