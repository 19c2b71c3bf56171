------------------------- MODULE WriteBufferFromHDFS -------------------------
(***************************************************************************)
(* The write buffer of the HDFS object storage:                            *)
(* src/Storages/ObjectStorage/HDFS/WriteBufferFromHDFS.cpp.  The           *)
(* constructor opens the file with the flags it is given: O_WRONLY         *)
(* truncates it, with O_APPEND the old content stays and the bytes follow  *)
(* it.  The client fills the working buffer; nextImpl hands it to          *)
(* hdfsWrite in a loop, because hdfsWrite may take fewer bytes than it was *)
(* given.  Every call of write asks the resource scheduler for the bytes   *)
(* it is about to send and settles the request afterwards.  The destructor *)
(* finalizes a buffer that was not canceled.                               *)
(*                                                                         *)
(* One buffer has one owner: nothing here runs concurrently.  What varies  *)
(* is the order of the client's calls, how many bytes each hdfsWrite       *)
(* takes, and which remote call fails.                                     *)
(***************************************************************************)
EXTENDS Integers, Sequences, SequencesExt

CONSTANTS
    BufferSize,     \* buf_size_: the capacity of the working buffer
    Flags,          \* the flags_ a constructor may be given: "O_WRONLY", "O_APPEND" (with O_WRONLY)
    INT_MAX,        \* the largest int, for safe_cast<int>(size)
    MaxAccepted,    \* bound: bytes the client writes in one behaviour
    OldContent,     \* what the file holds before it is opened
    RemoteFaults    \* TRUE: a call to HDFS may fail

ASSUME /\ BufferSize \in Nat \ {0} /\ INT_MAX \in Nat \ {0} /\ MaxAccepted \in Nat
       /\ OldContent \in Seq(Int)
       /\ Flags \subseteq {"O_WRONLY", "O_APPEND"} /\ Flags # {}
       /\ RemoteFaults \in BOOLEAN

VARIABLES
    file,            \* the content of the HDFS file
    fout,            \* impl->fout: "none", "open" or "closed"
    flags,           \* the flags fout was opened with, "" before
    working_buffer,  \* the bytes between working_buffer.begin() and pos; its length is offset()
    bytes_written,   \* the local of nextImpl
    pc,              \* "unconstructed", "idle" (between calls), "nextImpl" (in its loop), "destroyed"
    caller,          \* who called next(): "next" (the client), "finalize" or "destructor"
    finalized,       \* WriteBuffer::finalized
    canceled,        \* WriteBuffer::canceled
    charged,         \* what write_settings.resource_link has been charged, net
    throttled,       \* bytes reported to write_settings.remote_throttler
    synced,          \* history: length of the file at the last hdfsSync that succeeded
    accepted,        \* history: every byte the client wrote, in order
    failed           \* history: a call has thrown

vars == <<file, fout, flags, working_buffer, bytes_written, pc, caller, finalized, canceled,
          charged, throttled, synced, accepted, failed>>

remote  == <<file, charged, throttled, synced>>
history == <<accepted, failed>>

offset == Len(working_buffer)

\* What the file held when hdfsOpenFile returned.
base == IF flags = "O_APPEND" THEN OldContent ELSE <<>>

---------------------------------------------------------------------------
(* The resource link.  A request is made for the estimated cost; accumulate *)
(* gives a cost back, adjust replaces the estimate by the real cost.       *)

accumulate_Nothing(cost, size) == cost
accumulate(cost, size) == cost - size

adjust(cost, estimated, real) == cost - estimated + real

\* The bytes one call of write is given: size bytes from begin() + bytes_written.
Chunk_FromBegin(n) == SubSeq(working_buffer, 1, n)
Chunk(n) == SubSeq(working_buffer, bytes_written + 1, bytes_written + n)

---------------------------------------------------------------------------
(* How a call that nextImpl was part of ends.  next() empties the working  *)
(* buffer whether nextImpl returned or threw; finalize() sets finalized    *)
(* when it returns; the destructor swallows what finalize() throws and     *)
(* then closes the file.                                                   *)

Closes(who) == who = "destructor"

Ends_KeepsFailedBuffer(who, ok) ==
    /\ pc' = IF Closes(who) THEN "destroyed" ELSE "idle"
    /\ fout' = IF Closes(who) THEN "closed" ELSE fout
    /\ finalized' = (finalized \/ (ok /\ who # "next"))
    /\ failed' = (failed \/ ~ok)
    /\ working_buffer' = IF ok THEN <<>> ELSE working_buffer
    /\ bytes_written' = 0
    /\ caller' = "none"
    /\ UNCHANGED <<flags, canceled>>

Ends(who, ok) ==
    /\ pc' = IF Closes(who) THEN "destroyed" ELSE "idle"
    /\ fout' = IF Closes(who) THEN "closed" ELSE fout
    /\ finalized' = (finalized \/ (ok /\ who # "next"))
    /\ failed' = (failed \/ ~ok)
    /\ working_buffer' = <<>>
    /\ bytes_written' = 0
    /\ caller' = "none"
    /\ UNCHANGED <<flags, canceled>>

\* next() with an empty buffer returns at once; otherwise the loop begins.
Flush(who) ==
    IF offset = 0
    THEN Ends(who, TRUE) /\ UNCHANGED remote
    ELSE /\ pc' = "nextImpl"
         /\ caller' = who
         /\ bytes_written' = 0
         /\ UNCHANGED <<remote, fout, flags, working_buffer, finalized, canceled, failed>>

---------------------------------------------------------------------------
(* The operations.                                                         *)

Construct_KeepsContent ==
    /\ pc = "unconstructed"
    /\ fout' = "open"
    /\ flags' \in Flags
    /\ pc' = "idle"
    /\ UNCHANGED <<remote, working_buffer, bytes_written, caller, finalized, canceled, history>>

\* WriteBufferFromHDFSImpl's constructor: "O_WRONLY meaning create or overwrite";
\* with O_APPEND hdfsOpenFile leaves what the file holds.
Construct ==
    /\ pc = "unconstructed"
    /\ \/ /\ flags' \in Flags
          /\ file' = IF flags' = "O_APPEND" THEN file ELSE <<>>
          /\ fout' = "open"
          /\ pc' = "idle"
          /\ UNCHANGED failed
       \/ /\ RemoteFaults                                    \* CANNOT_OPEN_FILE
          /\ pc' = "destroyed"
          /\ failed' = TRUE
          /\ UNCHANGED <<file, fout, flags>>
    /\ UNCHANGED <<working_buffer, bytes_written, caller, finalized, canceled,
                   charged, throttled, synced, accepted>>

\* The client writes one byte; the bytes are numbered as they come.
Put ==
    /\ pc = "idle" /\ ~finalized /\ ~canceled
    /\ Len(accepted) < MaxAccepted
    /\ offset < BufferSize
    /\ working_buffer' = Append(working_buffer, Len(accepted) + 1)
    /\ accepted' = Append(accepted, Len(accepted) + 1)
    /\ UNCHANGED <<remote, fout, flags, bytes_written, pc, caller, finalized, canceled, failed>>

\* The client, or write() on a full buffer, calls next().
next ==
    /\ pc = "idle" /\ ~finalized /\ ~canceled
    /\ offset > 0
    /\ Flush("next")
    /\ UNCHANGED accepted

hdfsWriteThrows_ReturnsNothing(size) ==
    UNCHANGED vars

\* hdfsWrite throws or returns a negative count, or size does not fit an int:
\* the request is given back and the exception leaves nextImpl.
hdfsWriteThrows(size) ==
    /\ charged' = accumulate(charged + size, size)
    /\ Ends(caller, FALSE)
    /\ UNCHANGED <<file, throttled, synced, accepted>>

hdfsWriteReturns_OnceIsEnough(size, n) ==
    /\ file' = file \o Chunk(n)
    /\ charged' = adjust(charged + size, size, n)
    /\ throttled' = throttled + n
    /\ Ends(caller, TRUE)
    /\ UNCHANGED <<synced, accepted>>

\* hdfsWrite took n of the size bytes.
hdfsWriteReturns(size, n) ==
    /\ file' = file \o Chunk(n)
    /\ charged' = adjust(charged + size, size, n)
    /\ throttled' = throttled + n
    /\ IF bytes_written + n = offset
       THEN Ends(caller, TRUE)
       ELSE /\ bytes_written' = bytes_written + n
            /\ UNCHANGED <<fout, flags, working_buffer, pc, caller, finalized, canceled, failed>>
    /\ UNCHANGED <<synced, accepted>>

\* One turn of nextImpl's loop: one call of WriteBufferFromHDFSImpl::write.
write ==
    LET size == offset - bytes_written
    IN  /\ pc = "nextImpl"
        /\ \/ /\ size > INT_MAX \/ RemoteFaults
              /\ hdfsWriteThrows(size)
           \/ /\ size <= INT_MAX
              /\ \E n \in 1 .. size : hdfsWriteReturns(size, n)

\* sync() calls hdfsSync on what HDFS has; it does not call next() first.
sync ==
    /\ pc = "idle" /\ fout = "open"
    /\ \/ /\ synced' = Len(file)
          /\ UNCHANGED failed
       \/ /\ RemoteFaults                                    \* CANNOT_FSYNC
          /\ failed' = TRUE
          /\ UNCHANGED synced
    /\ UNCHANGED <<file, fout, flags, working_buffer, bytes_written, pc, caller, finalized,
                   canceled, charged, throttled, accepted>>

finalize ==
    /\ pc = "idle" /\ ~finalized /\ ~canceled
    /\ Flush("finalize")
    /\ UNCHANGED accepted

cancel ==
    /\ pc = "idle" /\ ~finalized /\ ~canceled
    /\ canceled' = TRUE
    /\ working_buffer' = <<>>
    /\ UNCHANGED <<remote, fout, flags, bytes_written, pc, caller, finalized, history>>

Destroy_JustCloses ==
    /\ pc = "idle"
    /\ pc' = "destroyed"
    /\ fout' = "closed"
    /\ UNCHANGED <<remote, flags, working_buffer, bytes_written, caller, finalized, canceled, history>>

\* ~WriteBufferFromHDFS, then ~WriteBufferFromHDFSImpl: finalize() unless canceled
\* (and finalize() returns at once when the buffer is finalized), then hdfsCloseFile.
Destroy ==
    /\ pc = "idle"
    /\ IF canceled \/ finalized
       THEN /\ pc' = "destroyed"
            /\ fout' = "closed"
            /\ UNCHANGED <<remote, flags, working_buffer, bytes_written, caller, finalized, canceled, failed>>
       ELSE Flush("destructor")
    /\ UNCHANGED accepted

Init ==
    /\ file = OldContent
    /\ fout = "none"
    /\ flags = ""
    /\ working_buffer = <<>>
    /\ bytes_written = 0
    /\ pc = "unconstructed"
    /\ caller = "none"
    /\ finalized = FALSE
    /\ canceled = FALSE
    /\ charged = 0
    /\ throttled = 0
    /\ synced = 0
    /\ accepted = <<>>
    /\ failed = FALSE

Next == Construct \/ Put \/ next \/ write \/ sync \/ finalize \/ cancel \/ Destroy

Spec == Init /\ [][Next]_vars

\* nextImpl is a loop in one thread and hdfsWrite is a blocking call: once inside,
\* the loop takes its next turn.
FairSpec == Spec /\ WF_vars(write)

---------------------------------------------------------------------------
(* Properties.                                                             *)

\* The values the variables take.  A file opened without O_APPEND holds bytes
\* of this buffer only: the constructor has truncated it.
TypeOK ==
    /\ file \in Seq(Int)
    /\ flags = "O_WRONLY" => file \in Seq(1 .. MaxAccepted)
    /\ fout \in {"none", "open", "closed"}
    /\ flags \in Flags \cup {""} /\ (flags = "" <=> fout = "none")
    /\ working_buffer \in Seq(1 .. MaxAccepted) /\ offset <= BufferSize
    /\ bytes_written \in 0 .. BufferSize
    /\ pc \in {"unconstructed", "idle", "nextImpl", "destroyed"}
    /\ caller \in {"none", "next", "finalize", "destructor"}
    /\ finalized \in BOOLEAN /\ canceled \in BOOLEAN /\ failed \in BOOLEAN
    /\ charged \in Int /\ throttled \in Nat
    /\ synced \in 0 .. Len(file)
    /\ accepted \in Seq(1 .. MaxAccepted) /\ Len(accepted) <= MaxAccepted

\* No byte is lost, repeated or reordered by the loop of nextImpl: as long as no
\* call has thrown and the buffer was not canceled, the file followed by what the
\* loop has not yet sent is what the file held when it was opened followed by
\* what the client wrote, however short each hdfsWrite was.
NothingLostOrRepeated ==
    fout # "none" /\ ~failed /\ ~canceled
        => base \o accepted = file \o SubSeq(working_buffer, bytes_written + 1, offset)

\* bytes_written is a local of nextImpl: when write throws after HDFS took a part
\* of the buffer, nobody remembers how much.  Whatever the client does next
\* (write on, next(), finalize(), or leave it to the destructor), no byte is sent
\* a second time and none overtakes an earlier one: what was put into the file
\* is in the order the client wrote it, a failed flush leaving a gap at most.
\* It rests on next() emptying the working buffer when nextImpl throws.
FailedFlushIsNotRepeated ==
    LET written == SubSeq(file, Len(base) + 1, Len(file))
    IN  \A i, j \in DOMAIN written : i < j => written[i] < written[j]

\* The resource link and the throttler are charged the bytes HDFS took, no more
\* and no less, between the calls of write: a failed write gives its request back
\* (accumulate), a short one is adjusted to what was written (adjust).
ChargedWhatWasWritten ==
    fout # "none" => charged = Len(file) - Len(base) /\ throttled = Len(file) - Len(base)

\* A buffer that is destroyed without cancel() stores all it was given, finalize()
\* called or not: ~WriteBufferFromHDFS finalizes it.
DestroyedBufferIsFlushed ==
    pc = "destroyed" /\ fout = "closed" /\ ~canceled /\ ~failed
        => file = base \o accepted /\ finalized

\* sync() makes durable what HDFS has received, not what the client wrote: it
\* does not call next().  A sync() is complete, everything the client wrote is
\* durable after it, when the working buffer was empty, that is after next() or
\* finalize(), and no call has thrown; bytes still in the buffer are left out.
SyncCoversWhatWasFlushed ==
    [][synced' # synced /\ ~failed /\ ~canceled
           => synced' = Len(base) + Len(accepted) - offset]_vars

\* nextImpl returns or throws: its loop does not go on for ever, given that each
\* hdfsWrite that does not fail takes at least one byte.
NextImplEnds ==
    pc = "nextImpl" ~> pc # "nextImpl"

=============================================================================
