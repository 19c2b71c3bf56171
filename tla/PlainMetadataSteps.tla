------------------------- MODULE PlainMetadataSteps -------------------------
(***************************************************************************)
(* The metadata operations of MetadataStorageFromPlainObjectStorage-       *)
(* Operations.cpp, one step at a time.  PlainMetadataOperations takes a    *)
(* call of execute or undo as one action.  Here a call is split where the  *)
(* code changes from one store to the other: the lookup under the shared   *)
(* index lock, the call to the object storage, the wait for the exclusive  *)
(* index lock behind the readers that hold it, and the critical section.   *)
(* Between two steps readers take and release path_map.mutex, and the      *)
(* process may die and start again from the markers.                       *)
(*                                                                         *)
(* ImplementsOperations says that, seen at the ends of the calls, this is  *)
(* PlainMetadataOperations.                                                *)
(***************************************************************************)
EXTENDS Integers, Sequences, FiniteSets, SequencesExt

CONSTANTS
    Directories, Filenames, KeyPrefixes, NoObject, NoPrefix, OperationKinds,
    MaxOperations, MaxLaterOperations, MaxTransactions, FailPoints, RemoteFaults,
    LostAnswers,            \* all as in PlainMetadataOperations
    Readers,                \* threads that look paths up in the index
    Crashes                 \* TRUE: the process may die at any step

VARIABLES
    map, unique_filenames, markers, metrics, generated, operations, position,
    state, transactions, snapshot,  \* all as in PlainMetadataOperations
    pc,         \* where the running call is; "call" between two calls
    mutex,      \* path_map.mutex: the writers bit and the readers that hold it
    restarted,  \* the process died and has started again
    completed   \* history: the first ten variables as the last call to end left them

Variables == [map |-> map, unique_filenames |-> unique_filenames, markers |-> markers,
              metrics |-> metrics, generated |-> generated, operations |-> operations,
              position |-> position, state |-> state, transactions |-> transactions,
              snapshot |-> snapshot]

vars == <<map, unique_filenames, markers, metrics, generated, operations, position,
          state, transactions, snapshot, pc, mutex, restarted, completed>>

Ops == INSTANCE PlainMetadataOperations

disk        == <<map, unique_filenames, markers, metrics>>
transaction == <<generated, position, state, transactions, snapshot>>

---------------------------------------------------------------------------
(* The call that is running, and how a step leaves it.                     *)

op == operations[position]

base_path == Ops!parent_path(op.path)

Running(kind, phase, at) ==
    /\ ~restarted
    /\ state = phase /\ op.kind = kind
    /\ pc = at

\* The call goes on at another statement.
GoesOn(to) ==
    /\ pc' = to
    /\ UNCHANGED <<transaction, restarted, completed>>

Completes ==
    /\ pc' = "call"
    /\ UNCHANGED restarted
    /\ completed' = Variables'

\* The call returns or throws, and the transaction goes on as how says.
Ends(how) == how /\ Completes

---------------------------------------------------------------------------
(* path_map.mutex, a SharedMutex (Common/SharedMutex.cpp, not among the    *)
(* sources).  lock() sets the writers bit, which keeps new readers out,    *)
(* and then waits until the readers that hold the mutex have left.  The    *)
(* transaction is the only writer.                                         *)

Free == [writers |-> FALSE, readers |-> {}]

lock_shared_PastWriters(r) ==
    /\ r \notin mutex.readers
    /\ mutex' = [mutex EXCEPT !.readers = @ \cup {r}]
    /\ UNCHANGED <<disk, operations, transaction, pc, restarted, completed>>

lock_shared(r) ==
    /\ ~mutex.writers
    /\ r \notin mutex.readers
    /\ mutex' = [mutex EXCEPT !.readers = @ \cup {r}]
    /\ UNCHANGED <<disk, operations, transaction, pc, restarted, completed>>

unlock_shared(r) ==
    /\ r \in mutex.readers
    /\ mutex' = [mutex EXCEPT !.readers = @ \ {r}]
    /\ UNCHANGED <<disk, operations, transaction, pc, restarted, completed>>

\* The calls whose first statement takes the mutex exclusively.
LocksFirst ==
    \/ Ops!Executing("WriteFile") \/ Ops!Executing("UnlinkMetadataFile")
    \/ Ops!Undoing("CreateDirectory")
    \/ Ops!Undoing("MoveDirectory") /\ op.write_finalized
    \/ Ops!Undoing("RemoveDirectory") /\ op.remove_attempted
    \/ Ops!Undoing("WriteFile") /\ op.written
    \/ Ops!Undoing("UnlinkMetadataFile") /\ op.unlinked

\* std::lock_guard lock(path_map.mutex), first half.
lock ==
    /\ ~restarted
    /\ pc = "lock" \/ (pc = "call" /\ LocksFirst)
    /\ mutex' = [mutex EXCEPT !.writers = TRUE]
    /\ UNCHANGED <<disk, operations>>
    /\ GoesOn("locked")

Exclusive_KeepsTheBit ==
    /\ mutex.readers = {}
    /\ UNCHANGED mutex

Exclusive_AmongReaders ==
    mutex' = [mutex EXCEPT !.writers = FALSE]

\* The second half, the critical section and the unlock at the end of the scope.
Exclusive ==
    /\ mutex.readers = {}
    /\ mutex' = [mutex EXCEPT !.writers = FALSE]

---------------------------------------------------------------------------
(* CreateDirectoryOperation                                                *)

CreateDirectoryContains ==
    /\ Running("CreateDirectory", "EXECUTING", "call")
    /\ UNCHANGED <<disk, operations, mutex>>
    /\ \/ /\ base_path \in DOMAIN map
          /\ Ends(Ops!Returned)
       \/ /\ base_path \notin DOMAIN map
          /\ GoesOn("writeObject")

CreateDirectoryWrite_NotFinalized ==
    /\ Running("CreateDirectory", "EXECUTING", "writeObject")
    /\ UNCHANGED <<disk, operations, mutex>>
    /\ GoesOn("lock")

CreateDirectoryWrite ==
    LET key == Ops!createMetadataObjectKey(op.object_key_prefix)
    IN  /\ Running("CreateDirectory", "EXECUTING", "writeObject")
        /\ UNCHANGED <<map, unique_filenames, metrics, operations, mutex>>
        /\ \/ /\ RemoteFaults                                 \* writeObject or finalize throws
              /\ Ops!Fails([markers EXCEPT ![key] = op.path])
              /\ Ends(Ops!Thrown)
           \/ /\ "create" \in FailPoints                      \* FAULT_INJECTED before finalize
              /\ Ops!Fails([markers EXCEPT ![key] = op.path])
              /\ Ends(Ops!Thrown)
           \/ /\ markers' = [markers EXCEPT ![key] = op.path]
              /\ GoesOn("lock")

CreateDirectoryEmplace_NoGauge ==
    /\ Running("CreateDirectory", "EXECUTING", "locked")
    /\ Exclusive
    /\ map' = Ops!emplace(map, base_path,
                          [path |-> op.object_key_prefix, filename_iterators |-> {}])
    /\ UNCHANGED <<unique_filenames, markers, metrics, operations>>
    /\ Ends(Ops!Returned)

CreateDirectoryEmplace ==
    /\ Running("CreateDirectory", "EXECUTING", "locked")
    /\ Exclusive
    /\ map' = Ops!emplace(map, base_path,
                          [path |-> op.object_key_prefix, filename_iterators |-> {}])
    /\ Ops!Add("directory_map_size", 1)
    /\ UNCHANGED <<unique_filenames, markers, operations>>
    /\ Ends(Ops!Returned)

\* undo: removePathIfExists takes the mutex itself.
CreateDirectoryErase ==
    /\ Running("CreateDirectory", "UNDOING", "locked")
    /\ Exclusive
    /\ map' = Ops!removePathIfExists(map, base_path)
    /\ Ops!Add("directory_map_size", -Ops!Count(base_path \in DOMAIN map))
    /\ UNCHANGED <<unique_filenames, markers, operations>>
    /\ GoesOn("removeObjectIfExists")

CreateDirectoryRemoveObject ==
    LET key == Ops!createMetadataObjectKey(op.object_key_prefix)
    IN  /\ Running("CreateDirectory", "UNDOING", "removeObjectIfExists")
        /\ UNCHANGED <<map, unique_filenames, metrics, operations, mutex>>
        /\ \/ /\ markers' = [markers EXCEPT ![key] = NoObject]
              /\ Ends(Ops!Undone)
           \/ /\ RemoteFaults
              /\ Ops!Fails([markers EXCEPT ![key] = NoObject])
              /\ Ends(Ops!UndoThrown)

---------------------------------------------------------------------------
(* MoveDirectoryOperation                                                  *)

\* createWriteBuf, writeString, the failpoint and finalize.
MoveDirectoryWrite ==
    LET opened == Ops!createWriteBuf(map, op.path_from, op.path_to, TRUE, op.path_from)
        key    == Ops!createMetadataObjectKey(map[Ops!parent_path(op.path_from)].path)
    IN  /\ Running("MoveDirectory", "EXECUTING", "call")
        /\ UNCHANGED <<map, unique_filenames, metrics, operations, mutex>>
        /\ \/ /\ opened # "OK"                                \* createWriteBuf throws
              /\ UNCHANGED markers
              /\ Ends(Ops!Thrown)
           \/ /\ opened = "OK"
              /\ "move" \in FailPoints                        \* FAULT_INJECTED before finalize
              /\ Ops!Fails([markers EXCEPT ![key] = op.path_to])
              /\ Ends(Ops!Thrown)
           \/ /\ opened = "OK"
              /\ RemoteFaults                                 \* readObject, writeObject or finalize throws
              /\ Ops!Fails([markers EXCEPT ![key] = op.path_to])
              /\ Ends(Ops!Thrown)
           \/ /\ opened = "OK"
              /\ markers' = [markers EXCEPT ![key] = op.path_to]
              /\ GoesOn("lock")

MoveDirectoryRelocate ==
    /\ Running("MoveDirectory", "EXECUTING", "locked")
    /\ Exclusive
    /\ map' = Ops!Relocate(map, Ops!parent_path(op.path_from), Ops!parent_path(op.path_to))
    /\ operations' = [operations EXCEPT ![position].write_finalized = TRUE]
    /\ UNCHANGED <<unique_filenames, markers, metrics>>
    /\ Ends(Ops!Returned)

MoveDirectoryNotFinalized ==
    /\ Running("MoveDirectory", "UNDOING", "call")
    /\ ~op.write_finalized
    /\ UNCHANGED <<disk, operations, mutex>>
    /\ Ends(Ops!Undone)

\* undo: the record goes back; extract of a key that is not there is undefined
\* and the process is taken to die.
MoveDirectoryRelocateBack ==
    /\ Running("MoveDirectory", "UNDOING", "locked")
    /\ Exclusive
    /\ UNCHANGED <<unique_filenames, markers, metrics, operations>>
    /\ \/ /\ Ops!parent_path(op.path_to) \in DOMAIN map
          /\ map' = Ops!Relocate(map, Ops!parent_path(op.path_to), Ops!parent_path(op.path_from))
          /\ GoesOn("createWriteBuf")
       \/ /\ Ops!parent_path(op.path_to) \notin DOMAIN map
          /\ UNCHANGED map
          /\ Ends(Ops!UndoThrown)

MoveDirectoryWriteBack ==
    LET opened == Ops!createWriteBuf(map, op.path_to, op.path_from, FALSE, op.path_from)
        key    == Ops!createMetadataObjectKey(map[Ops!parent_path(op.path_to)].path)
    IN  /\ Running("MoveDirectory", "UNDOING", "createWriteBuf")
        /\ UNCHANGED <<map, unique_filenames, metrics, operations, mutex>>
        /\ markers' = IF opened = "OK" THEN [markers EXCEPT ![key] = op.path_from] ELSE markers
        /\ Ends(IF opened = "OK" THEN Ops!Undone ELSE Ops!UndoThrown)

---------------------------------------------------------------------------
(* RemoveDirectoryOperation                                                *)

RemoveDirectoryFind ==
    /\ Running("RemoveDirectory", "EXECUTING", "call")
    /\ UNCHANGED <<disk, mutex>>
    /\ \/ /\ base_path \notin DOMAIN map
          /\ UNCHANGED operations
          /\ Ends(Ops!Returned)
       \/ /\ base_path \in DOMAIN map
          /\ operations' = [operations EXCEPT ![position].key_prefix = map[base_path].path]
          /\ GoesOn("removeObject")

RemoveDirectoryRemoveObject ==
    LET key == Ops!createMetadataObjectKey(op.key_prefix)
    IN  /\ Running("RemoveDirectory", "EXECUTING", "removeObject")
        /\ UNCHANGED <<map, unique_filenames, metrics, operations, mutex>>
        /\ \/ /\ RemoteFaults
              /\ Ops!Fails([markers EXCEPT ![key] = NoObject])
              /\ Ends(Ops!Thrown)
           \/ /\ markers' = [markers EXCEPT ![key] = NoObject]
              /\ GoesOn("lock")

\* removePathIfExists takes the mutex itself.
RemoveDirectoryErase ==
    /\ Running("RemoveDirectory", "EXECUTING", "locked")
    /\ Exclusive
    /\ map' = Ops!removePathIfExists(map, base_path)
    /\ Ops!Add("directory_map_size", -Ops!Count(base_path \in DOMAIN map))
    /\ operations' = [operations EXCEPT ![position].remove_attempted = TRUE]
    /\ UNCHANGED <<unique_filenames, markers>>
    /\ Ends(Ops!Returned)

RemoveDirectoryNotAttempted ==
    /\ Running("RemoveDirectory", "UNDOING", "call")
    /\ ~op.remove_attempted
    /\ UNCHANGED <<disk, operations, mutex>>
    /\ Ends(Ops!Undone)

RemoveDirectoryEmplace ==
    /\ Running("RemoveDirectory", "UNDOING", "locked")
    /\ Exclusive
    /\ map' = Ops!emplace(map, base_path, [path |-> op.key_prefix, filename_iterators |-> {}])
    /\ Ops!Add("directory_map_size", 1)
    /\ UNCHANGED <<unique_filenames, markers, operations>>
    /\ GoesOn("writeObject")

RemoveDirectoryWrite_NoMarker ==
    /\ Running("RemoveDirectory", "UNDOING", "writeObject")
    /\ UNCHANGED <<disk, operations, mutex>>
    /\ Ends(Ops!Undone)

RemoveDirectoryWrite ==
    LET key == Ops!createMetadataObjectKey(op.key_prefix)
    IN  /\ Running("RemoveDirectory", "UNDOING", "writeObject")
        /\ UNCHANGED <<map, unique_filenames, metrics, operations, mutex>>
        /\ \/ /\ markers' = [markers EXCEPT ![key] = op.path]
              /\ Ends(Ops!Undone)
           \/ /\ RemoteFaults                                 \* writeObject or finalize throws
              /\ Ops!Fails([markers EXCEPT ![key] = op.path])
              /\ Ends(Ops!UndoThrown)

---------------------------------------------------------------------------
(* WriteFileOperation and UnlinkMetadataFileOperation: the whole call is   *)
(* one critical section, and an undo with nothing to undo takes no lock.   *)

UnderLock(kind, phase, call) ==
    /\ Running(kind, phase, "locked")
    /\ Exclusive
    /\ call
    /\ Completes

Unflagged(kind, flag, call) ==
    /\ Running(kind, "UNDOING", "call")
    /\ ~flag
    /\ UNCHANGED mutex
    /\ call
    /\ Completes

WriteFileExecute == UnderLock("WriteFile", "EXECUTING", Ops!WriteFileExecute)

WriteFileUndo ==
    \/ UnderLock("WriteFile", "UNDOING", Ops!WriteFileUndo)
    \/ Unflagged("WriteFile", op.written, Ops!WriteFileUndo)

UnlinkMetadataFileExecute == UnderLock("UnlinkMetadataFile", "EXECUTING", Ops!UnlinkMetadataFileExecute)

UnlinkMetadataFileUndo ==
    \/ UnderLock("UnlinkMetadataFile", "UNDOING", Ops!UnlinkMetadataFileUndo)
    \/ Unflagged("UnlinkMetadataFile", op.unlinked, Ops!UnlinkMetadataFileUndo)

---------------------------------------------------------------------------
(* The process dies and starts again.  The index, the pool, the gauges and *)
(* the mutex are gone with it; the start-up scan makes a directory of      *)
(* every marker it finds, and the files come from elsewhere.  operations,  *)
(* position, state and snapshot stay as a record of what was interrupted.  *)

Tree(m) == [d \in DOMAIN m |-> m[d].path]

\* The directories, each with its key prefix, that a scan of the markers can find.
Loaded(store) ==
    LET dirs == {d \in Directories : \E key \in DOMAIN store : store[key] = Ops!DirectoryPath(d)}
    IN  {prefix \in [dirs -> KeyPrefixes] :
            \A d \in dirs : store[Ops!createMetadataObjectKey(prefix[d])] = Ops!DirectoryPath(d)}

Restart ==
    /\ Crashes /\ ~restarted
    /\ \E prefix \in Loaded(markers) :
         \E files \in [DOMAIN prefix -> SUBSET Filenames] :
            /\ map' = Ops!Scanned(prefix, files).map
            /\ unique_filenames' = Ops!Scanned(prefix, files).unique_filenames
            /\ metrics' = Ops!Scanned(prefix, files).metrics
    /\ mutex' = Free
    /\ pc' = "call"
    /\ restarted' = TRUE
    /\ UNCHANGED <<markers, operations, transaction, completed>>

---------------------------------------------------------------------------
(* The specification.                                                      *)

Init ==
    /\ Ops!Init
    /\ pc = "call"
    /\ mutex = Free
    /\ restarted = FALSE
    /\ completed = Variables

\* What the transaction does between the calls.
Orchestrator ==
    /\ ~restarted
    /\ Ops!Construct \/ Ops!Commit \/ Ops!NewTransaction
    /\ UNCHANGED <<pc, mutex>>
    /\ Completes

Execute ==
    \/ CreateDirectoryContains \/ CreateDirectoryWrite \/ CreateDirectoryEmplace
    \/ MoveDirectoryWrite \/ MoveDirectoryRelocate
    \/ RemoveDirectoryFind \/ RemoveDirectoryRemoveObject \/ RemoveDirectoryErase
    \/ WriteFileExecute \/ UnlinkMetadataFileExecute

Undo ==
    \/ CreateDirectoryErase \/ CreateDirectoryRemoveObject
    \/ MoveDirectoryNotFinalized \/ MoveDirectoryRelocateBack \/ MoveDirectoryWriteBack
    \/ RemoveDirectoryNotAttempted \/ RemoveDirectoryEmplace \/ RemoveDirectoryWrite
    \/ WriteFileUndo \/ UnlinkMetadataFileUndo

\* The model follows one life of the process: after the restart nobody moves.
Reader == ~restarted /\ \E r \in Readers : lock_shared(r) \/ unlock_shared(r)

Next == Orchestrator \/ lock \/ Execute \/ Undo \/ Reader \/ Restart

Spec == Init /\ [][Next]_vars

\* The thread that runs the transaction takes its next step, and a reader that
\* holds the mutex for a lookup lets go of it.
FairSpec ==
    /\ Spec
    /\ WF_vars(lock \/ Execute \/ Undo)
    /\ \A r \in Readers : WF_vars(unlock_shared(r))

---------------------------------------------------------------------------
(* Properties.                                                             *)

Abs == INSTANCE PlainMetadataOperations WITH
           map <- completed.map, unique_filenames <- completed.unique_filenames,
           markers <- completed.markers, metrics <- completed.metrics,
           generated <- completed.generated, operations <- completed.operations,
           position <- completed.position, state <- completed.state,
           transactions <- completed.transactions, snapshot <- completed.snapshot

Labels == {"call", "writeObject", "removeObject", "removeObjectIfExists", "createWriteBuf",
           "lock", "locked"}

\* The values the variables take.  A call is under way only while the transaction
\* executes or undoes, and the writers bit of path_map.mutex is set only while a
\* call waits for the mutex or holds it: every lock_guard is released.
TypeOK ==
    /\ Ops!TypeOK
    /\ pc \in Labels
    /\ mutex \in [writers : BOOLEAN, readers : SUBSET Readers]
    /\ restarted \in BOOLEAN
    /\ pc # "call" => state \in {"EXECUTING", "UNDOING"}
    /\ mutex.writers <=> pc = "locked"

\* Every execute and undo, taken from its first statement to its return or throw
\* with readers coming and going in between, does what the one action of
\* PlainMetadataOperations for that call does, and nothing is seen to change
\* between two calls: the steps of this module implement that specification.
ImplementsOperations == Abs!Spec

\* The index changes only inside std::lock_guard lock(path_map.mutex): while a
\* reader holds the mutex shared, map and unique_filenames stay as they are,
\* whichever call is running and wherever it is.
ReadersSeeAStableIndex ==
    [][mutex.readers # {} /\ ~restarted' => UNCHANGED <<map, unique_filenames>>]_vars

\* The marker of directory d, with d's path in it, is in the object storage.
Durable(d) == markers[Ops!createMetadataObjectKey(map[d].path)] = Ops!DirectoryPath(d)

\* The directory the running call is taking away: the marker goes first (execute
\* of a remove or a move) or comes back last (undo of a remove).
Leaving(d) ==
    /\ pc # "call"
    /\ \/ op.kind = "RemoveDirectory" /\ d = base_path
       \/ op.kind = "MoveDirectory" /\ d = Ops!parent_path(op.path_from)

\* A directory that a reader finds in the index is durable: execute of a create
\* finalizes the marker before it inserts the record, and its undo erases the
\* record before it removes the marker.  The exceptions are the directory the
\* running call is taking away, and a rollback that failed.
VisibleDirectoryIsDurable ==
    state # "PARTIALLY_ROLLED_BACK"
        => \A d \in DOMAIN map : Durable(d) \/ Leaving(d)

\* The directory tree as specified: a create of what is there and a remove of
\* what is not change nothing, a move takes the key prefix along, and a move
\* that would throw changes nothing.
Apply(tree, o) ==
    CASE o.kind = "CreateDirectory" -> Ops!emplace(tree, Ops!parent_path(o.path), o.object_key_prefix)
      [] o.kind = "RemoveDirectory" -> Ops!erase(tree, Ops!parent_path(o.path))
      [] o.kind = "MoveDirectory" ->
            LET from == Ops!parent_path(o.path_from)
                to   == Ops!parent_path(o.path_to)
            IN  IF from \in DOMAIN tree /\ to \notin DOMAIN tree
                THEN Ops!Relocate(tree, from, to) ELSE tree
      [] OTHER -> tree

Applied(n) == FoldLeft(Apply, Tree(snapshot.map), SubSeq(operations, 1, n))

\* What a restart finds is the directory tree the transaction started from with
\* its first operations applied, as many as had been executed and not undone when
\* the process died, give or take the one then running: a committed transaction
\* is found whole and a rolled back one not at all, wherever in a call, between
\* the marker and the index, the process stopped.
RestartFindsAPrefix ==
    restarted => \E n \in {position - 1, position} \cap (0 .. Len(operations)) :
                    Tree(map) = Applied(n)

\* A commit comes to an end, committed, rolled back or failed in its rollback,
\* though readers keep taking the index lock: once a call waits for the mutex no
\* new reader gets in, and those inside leave.
CommitEnds ==
    state = "EXECUTING"
        ~> (state \in {"COMMITTED", "ROLLED_BACK", "PARTIALLY_ROLLED_BACK"} \/ restarted)

=============================================================================
