\* A working buffer of three bytes, of which an int holds the size of two;
\* the file is opened to overwrite or to append.
SPECIFICATION FairSpec
CONSTANTS
    BufferSize = 3
    Flags = {"O_WRONLY", "O_APPEND"}
    INT_MAX = 2
    MaxAccepted = 5
    OldContent <- OneOldByte
    RemoteFaults = TRUE
CHECK_DEADLOCK FALSE
INVARIANT TypeOK
INVARIANT NothingLostOrRepeated
INVARIANT FailedFlushIsNotRepeated
INVARIANT ChargedWhatWasWritten
INVARIANT DestroyedBufferIsFlushed
PROPERTY NextImplEnds
PROPERTY SyncCoversWhatWasFlushed
