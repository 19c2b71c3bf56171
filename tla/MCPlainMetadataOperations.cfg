\* All five operations, with injected faults and failing remote calls.
SPECIFICATION Spec
CONSTANTS
    Directories = {a, b}
    Filenames = {f}
    KeyPrefixes = {k1, k2, k3}
    NoObject = NoObject
    NoPrefix = NoPrefix
    OperationKinds <- AllKinds
    MaxOperations = 4
    MaxLaterOperations = 3
    MaxTransactions = 2
    FailPoints = {"create", "move"}
    RemoteFaults = TRUE
    LostAnswers = {"CreateDirectory"}
SYMMETRY Symmetry
CHECK_DEADLOCK FALSE
INVARIANT TypeOK
INVARIANT PrefixesUnique
INVARIANT GaugesMatchIndex
INVARIANT CommitKeepsCorrespondence
INVARIANT RollbackRestoresMarkers
INVARIANT RollbackIsExact
PROPERTY MarkerRewriteMovesRecord
PROPERTY FileCountFollowsFiles
