---------------------- MODULE PlainMetadataOperations ----------------------
(***************************************************************************)
(* The metadata operations of the plain (rewritable) object storage:       *)
(* src/Disks/ObjectStorages/MetadataStorageFromPlainObjectStorage-         *)
(* Operations.cpp.  Five operation classes, each with execute and undo,    *)
(* change an in-memory directory index (InMemoryDirectoryPathMap) together *)
(* with one marker object ("prefix.path") per directory in the object      *)
(* store.  A transaction executes its operations in order under an         *)
(* exclusive lock; when one throws, the operations are undone in reverse   *)
(* order, the one that threw first.                                        *)
(*                                                                         *)
(* One action stands for one whole call of execute or undo.  The calls are *)
(* serialised by the transaction lock, so their steps never interleave;    *)
(* what a call may leave half done is kept as one disjunct per point where *)
(* it can throw.                                                           *)
(***************************************************************************)
EXTENDS Integers, Sequences, FiniteSets, Functions, TLC

CONSTANTS
    Directories,            \* directory paths as the index keys them (no trailing '/')
    Filenames,              \* file names
    KeyPrefixes,            \* what generateObjectKeyPrefixForDirectoryPath can return
    NoObject,               \* content of a key that holds no object
    NoPrefix,               \* the empty key_prefix of a RemoveDirectory operation not yet executed
    OperationKinds,         \* the operation classes the transactions of this model use
    MaxOperations,          \* bound: operations in the first transaction
    MaxLaterOperations,     \* bound: operations in each transaction after the first
    MaxTransactions,        \* bound: transactions in one behaviour
    FailPoints,             \* the enabled ones of {"create", "move"}
    RemoteFaults,           \* TRUE: a call to the object storage may throw
    LostAnswers             \* the kinds of operation whose call that throws may have been served

Kinds == {"CreateDirectory", "MoveDirectory", "RemoveDirectory", "WriteFile", "UnlinkMetadataFile"}

ASSUME /\ OperationKinds \subseteq Kinds
       /\ MaxOperations \in Nat \ {0} /\ MaxTransactions \in Nat \ {0}
       /\ MaxLaterOperations \in 1 .. MaxOperations
       /\ FailPoints \subseteq {"create", "move"}
       /\ RemoteFaults \in BOOLEAN
       /\ LostAnswers \subseteq {"CreateDirectory", "MoveDirectory", "RemoveDirectory"}
       /\ NoObject \notin Directories \X {""} /\ NoPrefix \notin KeyPrefixes

VARIABLES
    map,               \* path_map.map: directory -> [path, filename_iterators]
    unique_filenames,  \* path_map.unique_filenames, the filename pool
    markers,           \* the object storage: metadata object key -> content
    metrics,           \* the CurrentMetrics gauges of getMetadataStorageMetrics()
    generated,         \* key prefixes handed out so far
    operations,        \* the operations of the transaction, with their flags
    position,          \* the operation being executed or undone
    state,             \* of the transaction
    transactions,      \* transactions begun
    snapshot           \* history: index, store and gauges when the commit began

disk == <<map, unique_filenames, markers, metrics>>
vars == <<map, unique_filenames, markers, metrics, generated, operations, position,
          state, transactions, snapshot>>

---------------------------------------------------------------------------
(* Paths.  "a/" is the pair <<a, "">> and "a/f" the pair <<a, f>>, which    *)
(* is how std::filesystem::path splits them.                               *)

DirectoryPath(d) == <<d, "">>
FilePath(d, f)   == <<d, f>>
parent_path_KeepsSlash(p) == p
parent_path(p)   == p[1]
filename(p)      == p[2]

PREFIX_PATH_FILE_NAME == "prefix.path"
createMetadataObjectKey(object_key_prefix) == <<"metadata_key_prefix", object_key_prefix, PREFIX_PATH_FILE_NAME>>

MetadataObjectKeys == {createMetadataObjectKey(k) : k \in KeyPrefixes}

RemotePathInfo == [path : KeyPrefixes, filename_iterators : SUBSET Filenames]

Operation ==
    [kind : {"CreateDirectory"}, path : Directories \X {""}, object_key_prefix : KeyPrefixes]
    \cup [kind : {"MoveDirectory"}, path_from : Directories \X {""}, path_to : Directories \X {""},
          write_finalized : BOOLEAN]
    \cup [kind : {"RemoveDirectory"}, path : Directories \X {""},
          key_prefix : KeyPrefixes \cup {NoPrefix}, remove_attempted : BOOLEAN]
    \cup [kind : {"WriteFile"}, path : Directories \X Filenames, written : BOOLEAN]
    \cup [kind : {"UnlinkMetadataFile"}, path : Directories \X Filenames, unlinked : BOOLEAN]

MetricNames == {"directory_map_size", "file_count", "unique_filenames_count"}

States == {"PREPARING", "EXECUTING", "UNDOING", "COMMITTED", "ROLLED_BACK", "PARTIALLY_ROLLED_BACK"}

---------------------------------------------------------------------------
(* The containers.                                                         *)

\* std::map::emplace: inserts unless the key is there, and then keeps the old value.
emplace(m, key, value) == IF key \in DOMAIN m THEN m ELSE m @@ (key :> value)

erase(m, key) == Restrict(m, DOMAIN m \ {key})

\* InMemoryDirectoryPathMap::removePathIfExists; it returns key \in DOMAIN m.
removePathIfExists(m, key) == erase(m, key)

\* map.emplace(to, map.extract(from).mapped()); from must be a key of m.
Relocate_Copies(m, from, to) == emplace(m, to, m[from])
Relocate_DropsFiles(m, from, to) ==
    emplace(erase(m, from), to, [path |-> m[from].path, filename_iterators |-> {}])
Relocate(m, from, to) == emplace(erase(m, from), to, m[from])

Count_Always(flag) == 1

Count(flag) == IF flag THEN 1 ELSE 0

Add(name, n) == metrics' = [metrics EXCEPT ![name] = @ + n]

\* A call to the object storage throws, or an exception unwinds a buffer that was
\* written and not finalized.  The store puts or deletes an object as a whole or
\* not at all; for the kinds of LostAnswers the error may come after the request
\* was served (a timeout, a buffer that stores what it holds when it is
\* destroyed), and the markers are then what the call was to make them.
Fails(served) ==
    \/ UNCHANGED markers
    \/ operations[position].kind \in LostAnswers /\ markers' = served

---------------------------------------------------------------------------
(* The transaction that owns the operations: it executes them in order     *)
(* and, when one throws, undoes them in reverse order from that one on.    *)

Executing(kind) == state = "EXECUTING" /\ operations[position].kind = kind
Undoing(kind)   == state = "UNDOING" /\ operations[position].kind = kind

Returned ==
    /\ position' = position + 1
    /\ state' = IF position = Len(operations) THEN "COMMITTED" ELSE "EXECUTING"
    /\ UNCHANGED <<generated, transactions, snapshot>>

Thrown ==
    /\ state' = "UNDOING"
    /\ UNCHANGED <<position, generated, transactions, snapshot>>

Undone ==
    /\ position' = position - 1
    /\ state' = IF position = 1 THEN "ROLLED_BACK" ELSE "UNDOING"
    /\ UNCHANGED <<generated, transactions, snapshot>>

UndoThrown ==
    /\ state' = "PARTIALLY_ROLLED_BACK"
    /\ UNCHANGED <<position, generated, transactions, snapshot>>

AddOperation(op) ==
    /\ state = "PREPARING"
    /\ op.kind \in OperationKinds
    /\ Len(operations) < (IF transactions = 1 THEN MaxOperations ELSE MaxLaterOperations)
    /\ operations' = Append(operations, op)
    /\ UNCHANGED <<disk, position, state, transactions, snapshot>>

Commit ==
    /\ state = "PREPARING"
    /\ operations # <<>>
    /\ state' = "EXECUTING"
    /\ position' = 1
    /\ snapshot' = [map |-> map, markers |-> markers, metrics |-> metrics]
    /\ UNCHANGED <<disk, generated, operations, transactions>>

\* A partly rolled back transaction is fatal: nothing follows it.
NewTransaction ==
    /\ state \in {"COMMITTED", "ROLLED_BACK"}
    /\ transactions < MaxTransactions
    /\ state' = "PREPARING"
    /\ operations' = <<>>
    /\ position' = 0
    /\ transactions' = transactions + 1
    /\ UNCHANGED <<disk, generated, snapshot>>

---------------------------------------------------------------------------
(* CreateDirectoryOperation                                                *)

CreateDirectoryOperation(d) ==
    \E object_key_prefix \in KeyPrefixes \ generated :
        /\ AddOperation([kind |-> "CreateDirectory", path |-> DirectoryPath(d),
                         object_key_prefix |-> object_key_prefix])
        /\ generated' = generated \cup {object_key_prefix}

CreateDirectoryExecute ==
    LET op        == operations[position]
        base_path == parent_path(op.path)
        key       == createMetadataObjectKey(op.object_key_prefix)
    IN  /\ Executing("CreateDirectory")
        /\ UNCHANGED <<unique_filenames, operations>>
        /\ \/ /\ base_path \in DOMAIN map                     \* it is there: return
              /\ UNCHANGED <<map, markers, metrics>>
              /\ Returned
           \/ /\ base_path \notin DOMAIN map
              /\ RemoteFaults                                 \* writeObject or finalize throws
              /\ Fails([markers EXCEPT ![key] = op.path])
              /\ UNCHANGED <<map, metrics>>
              /\ Thrown
           \/ /\ base_path \notin DOMAIN map
              /\ "create" \in FailPoints                      \* FAULT_INJECTED before finalize
              /\ Fails([markers EXCEPT ![key] = op.path])
              /\ UNCHANGED <<map, metrics>>
              /\ Thrown
           \/ /\ base_path \notin DOMAIN map
              /\ markers' = [markers EXCEPT ![key] = op.path]
              /\ map' = emplace(map, base_path,
                                [path |-> op.object_key_prefix, filename_iterators |-> {}])
              /\ Add("directory_map_size", 1)
              /\ Returned

CreateDirectoryUndo_AlwaysSubtracts ==
    /\ Undoing("CreateDirectory")
    /\ map' = removePathIfExists(map, parent_path(operations[position].path))
    /\ Add("directory_map_size", -1)
    /\ markers' = [markers EXCEPT
                     ![createMetadataObjectKey(operations[position].object_key_prefix)] = NoObject]
    /\ UNCHANGED <<unique_filenames, operations>>
    /\ Undone

\* The marker is removed only when the directory was taken out of the index.
CreateDirectoryUndo_KeepsUnindexedMarker ==
    LET op        == operations[position]
        base_path == parent_path(op.path)
        key       == createMetadataObjectKey(op.object_key_prefix)
    IN  /\ Undoing("CreateDirectory")
        /\ UNCHANGED <<unique_filenames, operations>>
        /\ map' = removePathIfExists(map, base_path)
        /\ Add("directory_map_size", -Count(base_path \in DOMAIN map))
        /\ markers' = IF base_path \in DOMAIN map
                      THEN [markers EXCEPT ![key] = NoObject]
                      ELSE markers
        /\ Undone

CreateDirectoryUndo ==
    LET op        == operations[position]
        base_path == parent_path(op.path)
        key       == createMetadataObjectKey(op.object_key_prefix)
    IN  /\ Undoing("CreateDirectory")
        /\ UNCHANGED <<unique_filenames, operations>>
        /\ map' = removePathIfExists(map, base_path)
        /\ Add("directory_map_size", -Count(base_path \in DOMAIN map))
        /\ \/ /\ markers' = [markers EXCEPT ![key] = NoObject]  \* removeObjectIfExists
              /\ Undone
           \/ /\ RemoteFaults
              /\ Fails([markers EXCEPT ![key] = NoObject])
              /\ UndoThrown

---------------------------------------------------------------------------
(* MoveDirectoryOperation                                                  *)

MoveDirectoryOperation(from, to) ==
    /\ AddOperation([kind |-> "MoveDirectory", path_from |-> DirectoryPath(from),
                     path_to |-> DirectoryPath(to), write_finalized |-> FALSE])
    /\ UNCHANGED generated

createWriteBuf_OverwritesDestination(m, expected_path, new_path, validate_content, path_from) ==
    IF parent_path(expected_path) \notin DOMAIN m THEN "FILE_DOESNT_EXIST"
    ELSE LET data == markers[createMetadataObjectKey(m[parent_path(expected_path)].path)]
         IN  IF validate_content /\ data # path_from THEN "INCORRECT_DATA" ELSE "OK"

\* What createWriteBuf does before it opens the buffer: "OK", or what it throws.
\* readObject of a key that holds no object throws as well.
createWriteBuf(m, expected_path, new_path, validate_content, path_from) ==
    IF parent_path(expected_path) \notin DOMAIN m THEN "FILE_DOESNT_EXIST"
    ELSE IF parent_path(new_path) \in DOMAIN m THEN "FILE_ALREADY_EXISTS"
    ELSE LET data == markers[createMetadataObjectKey(m[parent_path(expected_path)].path)]
         IN  IF validate_content /\ data # path_from THEN "INCORRECT_DATA" ELSE "OK"

MoveDirectoryExecute ==
    LET op     == operations[position]
        opened == createWriteBuf(map, op.path_from, op.path_to, TRUE, op.path_from)
        key    == createMetadataObjectKey(map[parent_path(op.path_from)].path)
    IN  /\ Executing("MoveDirectory")
        /\ UNCHANGED <<unique_filenames, metrics>>
        /\ \/ /\ opened # "OK"                                \* createWriteBuf throws
              /\ UNCHANGED <<map, markers, operations>>
              /\ Thrown
           \/ /\ opened = "OK"
              /\ RemoteFaults                                 \* readObject, writeObject or finalize throws
              /\ Fails([markers EXCEPT ![key] = op.path_to])
              /\ UNCHANGED <<map, operations>>
              /\ Thrown
           \/ /\ opened = "OK"
              /\ "move" \in FailPoints                        \* FAULT_INJECTED before finalize
              /\ Fails([markers EXCEPT ![key] = op.path_to])
              /\ UNCHANGED <<map, operations>>
              /\ Thrown
           \/ /\ opened = "OK"
              /\ markers' = [markers EXCEPT ![key] = op.path_to]
              /\ map' = Relocate(map, parent_path(op.path_from), parent_path(op.path_to))
              /\ operations' = [operations EXCEPT ![position].write_finalized = TRUE]
              /\ Returned

\* The index entry goes back first and createWriteBuf looks the paths up after
\* that.  map.extract of a key that is not there gives an empty node, and mapped()
\* of it is undefined: the process is taken to die there.
MoveDirectoryUndo ==
    LET op        == operations[position]
        relocated == Relocate(map, parent_path(op.path_to), parent_path(op.path_from))
        opened    == createWriteBuf(relocated, op.path_to, op.path_from, FALSE, op.path_from)
        key       == createMetadataObjectKey(relocated[parent_path(op.path_to)].path)
    IN  /\ Undoing("MoveDirectory")
        /\ UNCHANGED <<unique_filenames, metrics, operations>>
        /\ \/ /\ ~op.write_finalized
              /\ UNCHANGED <<map, markers>>
              /\ Undone
           \/ /\ op.write_finalized
              /\ parent_path(op.path_to) \in DOMAIN map
              /\ map' = relocated
              /\ markers' = IF opened = "OK" THEN [markers EXCEPT ![key] = op.path_from]
                                             ELSE markers
              /\ IF opened = "OK" THEN Undone ELSE UndoThrown
           \/ /\ op.write_finalized
              /\ parent_path(op.path_to) \notin DOMAIN map
              /\ UNCHANGED <<map, markers>>
              /\ UndoThrown

---------------------------------------------------------------------------
(* RemoveDirectoryOperation                                                *)

RemoveDirectoryOperation(d) ==
    /\ AddOperation([kind |-> "RemoveDirectory", path |-> DirectoryPath(d),
                     key_prefix |-> NoPrefix, remove_attempted |-> FALSE])
    /\ UNCHANGED generated

RemoveDirectoryExecute ==
    LET op         == operations[position]
        base_path  == parent_path(op.path)
        key_prefix == map[base_path].path
        key        == createMetadataObjectKey(key_prefix)
    IN  /\ Executing("RemoveDirectory")
        /\ UNCHANGED unique_filenames
        /\ \/ /\ base_path \notin DOMAIN map                  \* it is gone: return
              /\ UNCHANGED <<map, markers, metrics, operations>>
              /\ Returned
           \/ /\ base_path \in DOMAIN map
              /\ RemoteFaults                                 \* removeObject throws
              /\ operations' = [operations EXCEPT ![position].key_prefix = key_prefix]
              /\ Fails([markers EXCEPT ![key] = NoObject])
              /\ UNCHANGED <<map, metrics>>
              /\ Thrown
           \/ /\ base_path \in DOMAIN map
              /\ markers' = [markers EXCEPT ![key] = NoObject]
              /\ map' = removePathIfExists(map, base_path)
              /\ Add("directory_map_size", -1)
              /\ operations' = [operations EXCEPT ![position].key_prefix = key_prefix,
                                                  ![position].remove_attempted = TRUE]
              /\ Returned

\* The record comes back with the key prefix alone: execute kept nothing else.
RemoveDirectoryUndo ==
    LET op  == operations[position]
        key == createMetadataObjectKey(op.key_prefix)
    IN  /\ Undoing("RemoveDirectory")
        /\ UNCHANGED <<unique_filenames, operations>>
        /\ \/ /\ ~op.remove_attempted
              /\ UNCHANGED <<map, markers, metrics>>
              /\ Undone
           \/ /\ op.remove_attempted
              /\ map' = emplace(map, parent_path(op.path),
                                [path |-> op.key_prefix, filename_iterators |-> {}])
              /\ Add("directory_map_size", 1)
              /\ \/ /\ markers' = [markers EXCEPT ![key] = op.path]
                    /\ Undone
                 \/ /\ RemoteFaults                           \* writeObject or finalize throws
                    /\ Fails([markers EXCEPT ![key] = op.path])
                    /\ UndoThrown

---------------------------------------------------------------------------
(* WriteFileOperation and UnlinkMetadataFileOperation.  Neither calls the  *)
(* object storage, and neither throws.                                     *)

WriteFileOperation(d, f) ==
    /\ AddOperation([kind |-> "WriteFile", path |-> FilePath(d, f), written |-> FALSE])
    /\ UNCHANGED generated

WriteFileExecute ==
    LET op       == operations[position]
        dir      == parent_path(op.path)
        name     == filename(op.path)
        inserted == name \notin unique_filenames
        written  == name \notin map[dir].filename_iterators
    IN  /\ Executing("WriteFile")
        /\ UNCHANGED markers
        /\ \/ /\ dir \notin DOMAIN map                        \* no parent directory: skip
              /\ UNCHANGED <<map, unique_filenames, metrics, operations>>
           \/ /\ dir \in DOMAIN map
              /\ unique_filenames' = unique_filenames \cup {name}
              /\ map' = [map EXCEPT ![dir].filename_iterators = @ \cup {name}]
              /\ operations' = [operations EXCEPT ![position].written = written]
              /\ metrics' = [metrics EXCEPT !.unique_filenames_count = @ + Count(inserted),
                                            !.file_count = @ + Count(written)]
        /\ Returned

\* Whether undo has anything to take back, and where.
Registered(flag, path) ==
    /\ flag
    /\ parent_path(path) \in DOMAIN map
    /\ filename(path) \in unique_filenames

WriteFileUndo_IgnoresWritten ==
    /\ Undoing("WriteFile")
    /\ IF Registered(TRUE, operations[position].path)
       THEN /\ map' = [map EXCEPT ![parent_path(operations[position].path)].filename_iterators =
                                      @ \ {filename(operations[position].path)}]
            /\ Add("file_count", -Count(filename(operations[position].path) \in
                           map[parent_path(operations[position].path)].filename_iterators))
       ELSE UNCHANGED <<map, metrics>>
    /\ UNCHANGED <<unique_filenames, markers, operations>>
    /\ Undone

WriteFileUndo ==
    LET op   == operations[position]
        dir  == parent_path(op.path)
        name == filename(op.path)
    IN  /\ Undoing("WriteFile")
        /\ UNCHANGED <<unique_filenames, markers, operations>>
        /\ IF Registered(op.written, op.path)
           THEN /\ map' = [map EXCEPT ![dir].filename_iterators = @ \ {name}]
                /\ Add("file_count", -Count(name \in map[dir].filename_iterators))
           ELSE UNCHANGED <<map, metrics>>
        /\ Undone

UnlinkMetadataFileOperation(d, f) ==
    /\ AddOperation([kind |-> "UnlinkMetadataFile", path |-> FilePath(d, f), unlinked |-> FALSE])
    /\ UNCHANGED generated

UnlinkMetadataFileExecute ==
    LET op       == operations[position]
        dir      == parent_path(op.path)
        name     == filename(op.path)
        unlinked == name \in unique_filenames /\ name \in map[dir].filename_iterators
    IN  /\ Executing("UnlinkMetadataFile")
        /\ UNCHANGED <<unique_filenames, markers>>
        /\ \/ /\ dir \notin DOMAIN map                        \* no parent directory: skip
              /\ UNCHANGED <<map, metrics, operations>>
           \/ /\ dir \in DOMAIN map
              /\ map' = [map EXCEPT ![dir].filename_iterators = @ \ ({name} \cap unique_filenames)]
              /\ operations' = [operations EXCEPT ![position].unlinked = unlinked]
              /\ Add("file_count", -Count(unlinked))
        /\ Returned

UnlinkMetadataFileUndo ==
    LET op   == operations[position]
        dir  == parent_path(op.path)
        name == filename(op.path)
    IN  /\ Undoing("UnlinkMetadataFile")
        /\ UNCHANGED <<unique_filenames, markers, operations>>
        /\ IF Registered(op.unlinked, op.path)
           THEN /\ map' = [map EXCEPT ![dir].filename_iterators = @ \cup {name}]
                /\ Add("file_count", Count(name \notin map[dir].filename_iterators))
           ELSE UNCHANGED <<map, metrics>>
        /\ Undone

---------------------------------------------------------------------------
(* The specification.                                                      *)

\* Markers and index correspond: each directory of the index has its marker, whose
\* content is the directory's path, and there is no other marker.
Corresponds(m, store) ==
    /\ \A d \in DOMAIN m : store[createMetadataObjectKey(m[d].path)] = DirectoryPath(d)
    /\ \A k \in KeyPrefixes :
           store[createMetadataObjectKey(k)] # NoObject => \E d \in DOMAIN m : m[d].path = k

\* What the start-up scan makes of a set of directories, each under a key prefix
\* of its own and with its files: the index, the pool and the gauges, and the
\* markers it read them from.
Scanned(prefix, files) ==
    [map              |-> [d \in DOMAIN prefix |-> [path |-> prefix[d], filename_iterators |-> files[d]]],
     unique_filenames |-> UNION Range(files),
     markers          |-> [key \in MetadataObjectKeys |->
                             IF \E d \in DOMAIN prefix : key = createMetadataObjectKey(prefix[d])
                             THEN DirectoryPath(CHOOSE d \in DOMAIN prefix :
                                                    key = createMetadataObjectKey(prefix[d]))
                             ELSE NoObject],
     metrics          |-> [directory_map_size     |-> Cardinality(DOMAIN prefix),
                           file_count             |-> SumFunction([d \in DOMAIN prefix |-> Cardinality(files[d])]),
                           unique_filenames_count |-> Cardinality(UNION Range(files))]]

\* The index as the start-up scan of the markers leaves it: any set of directories,
\* each under a key prefix of its own, with its marker and any files.
Init ==
    \E dirs \in SUBSET Directories :
        \E prefix \in Injection(dirs, KeyPrefixes), files \in [dirs -> SUBSET Filenames] :
            /\ map = Scanned(prefix, files).map
            /\ unique_filenames = Scanned(prefix, files).unique_filenames
            /\ markers = Scanned(prefix, files).markers
            /\ metrics = Scanned(prefix, files).metrics
            /\ generated = Range(prefix)
            /\ operations = <<>>
            /\ position = 0
            /\ state = "PREPARING"
            /\ transactions = 1
            /\ snapshot = [map |-> map, markers |-> markers, metrics |-> metrics]

Construct ==
    \/ \E d \in Directories : CreateDirectoryOperation(d)
    \/ \E from, to \in Directories : MoveDirectoryOperation(from, to)
    \/ \E d \in Directories : RemoveDirectoryOperation(d)
    \/ \E d \in Directories, f \in Filenames : WriteFileOperation(d, f)
    \/ \E d \in Directories, f \in Filenames : UnlinkMetadataFileOperation(d, f)

Execute ==
    \/ CreateDirectoryExecute
    \/ MoveDirectoryExecute
    \/ RemoveDirectoryExecute
    \/ WriteFileExecute
    \/ UnlinkMetadataFileExecute

Undo ==
    \/ CreateDirectoryUndo
    \/ MoveDirectoryUndo
    \/ RemoveDirectoryUndo
    \/ WriteFileUndo
    \/ UnlinkMetadataFileUndo

Next == Construct \/ Commit \/ Execute \/ Undo \/ NewTransaction

Spec == Init /\ [][Next]_vars

---------------------------------------------------------------------------
(* Properties.                                                             *)

\* The values the variables take.  A directory's filename_iterators are iterators
\* into unique_filenames, so every name they give is in the pool.
TypeOK ==
    /\ DOMAIN map \subseteq Directories
    /\ \A d \in DOMAIN map : map[d] \in RemotePathInfo
    /\ unique_filenames \subseteq Filenames
    /\ \A d \in DOMAIN map : map[d].filename_iterators \subseteq unique_filenames
    /\ markers \in [MetadataObjectKeys -> (Directories \X {""}) \cup {NoObject}]
    /\ metrics \in [MetricNames -> Int]
    /\ generated \subseteq KeyPrefixes
    /\ operations \in Seq(Operation) /\ Len(operations) <= MaxOperations
    /\ position \in 0 .. MaxOperations + 1
    /\ state \in States
    /\ transactions \in 1 .. MaxTransactions

\* No two directories of the index share a key prefix, whatever was created, moved,
\* removed and undone: a move relocates the record (extract, then emplace) and the
\* undo of a remove puts back the prefix the execute took out.
PrefixesUnique ==
    \A d1, d2 \in DOMAIN map : map[d1].path = map[d2].path => d1 = d2

\* The gauges directory_map_size and unique_filenames_count are the sizes of
\* path_map.map and path_map.unique_filenames after every execute and undo: each
\* CurrentMetrics::add and sub is paired with an insertion or erasure that happened.
GaugesMatchIndex ==
    /\ metrics.directory_map_size = Cardinality(DOMAIN map)
    /\ metrics.unique_filenames_count = Cardinality(unique_filenames)

\* A transaction that commits on an index that corresponds to the markers leaves
\* an index that corresponds to the markers: every execute changes the marker and
\* the index entry of the same directory, or neither.
CommitKeepsCorrespondence ==
    state = "COMMITTED" /\ Corresponds(snapshot.map, snapshot.markers)
        => Corresponds(map, markers)

\* After a rollback that ran to its end the object storage holds the markers it
\* held when the commit began: the undo of create deletes the marker it wrote, the
\* undo of remove writes back the one it deleted, and a move that did not set
\* write_finalized left its marker alone.
RollbackRestoresMarkers ==
    state = "ROLLED_BACK" => markers = snapshot.markers

\* op puts a directory under path: a create of it, or a move to it.
Puts(op, path) ==
    \/ op.kind = "CreateDirectory" /\ op.path = path
    \/ op.kind = "MoveDirectory" /\ op.path_to = path

\* The operation at place i has an undo with what it needs to take back what
\* execute did: the file operations, a move, a remove that stopped before its
\* flag was set, and a create that cannot have found its directory in the index.
\* CreateDirectoryOperation keeps no flag of an execute that returned early, so
\* that is a create of a directory that was not there when the commit began and
\* that no earlier operation of the transaction creates or moves to.
UndoneExactly(i) ==
    LET op == operations[i]
    IN  \/ op.kind \in {"WriteFile", "UnlinkMetadataFile", "MoveDirectory"}
        \/ op.kind = "RemoveDirectory" /\ ~op.remove_attempted
        \/ /\ op.kind = "CreateDirectory"
           /\ parent_path(op.path) \notin DOMAIN snapshot.map
           /\ \A j \in 1 .. i - 1 : ~Puts(operations[j], op.path)

\* Undo exactness: a rolled back transaction of such operations leaves the index,
\* the markers and the gauges of directories and files as they were when the commit
\* began, however the operations act on each other's paths: a file written into a
\* directory the transaction created, a directory moved and moved back, an undo
\* that runs after later undos have changed the index (written and unlinked say
\* whether execute changed the filename set; the pool keeps the names it interned).
RollbackIsExact ==
    state = "ROLLED_BACK" /\ (\A i \in DOMAIN operations : UndoneExactly(i))
        => /\ map = snapshot.map
           /\ markers = snapshot.markers
           /\ metrics.directory_map_size = snapshot.metrics.directory_map_size
           /\ metrics.file_count = snapshot.metrics.file_count

\* Move preserves the prefix: a step that changes the content of a marker is the
\* move of the directory filed under that key prefix, and in the same step the
\* index record leaves the old path for the path now in the marker, with its key
\* prefix and its filenames (MoveDirectoryOperation::execute).
MarkerRewriteMovesRecord ==
    [][\A k \in KeyPrefixes :
          LET key == createMetadataObjectKey(k)
          IN  markers[key] # NoObject /\ markers'[key] # NoObject /\ markers'[key] # markers[key]
                  => \E from \in DOMAIN map, to \in DOMAIN map' :
                        /\ map[from].path = k
                        /\ markers'[key] = DirectoryPath(to)
                        /\ map'[to] = map[from]
                        /\ from \notin DOMAIN map']_vars

\* undo succeeds deterministically when the object storage does not fail: it only
\* reverses what the same operation changed.
UndoNeverThrows ==
    state # "PARTIALLY_ROLLED_BACK"

\* After a rollback the index holds the directories it held when the commit began,
\* each under its key prefix: undo removes only what its execute inserted.
RollbackRestoresDirectories ==
    state = "ROLLED_BACK"
        => [d \in DOMAIN map |-> map[d].path] = [d \in DOMAIN snapshot.map |-> snapshot.map[d].path]

\* After a rollback every directory that is in the index as it was when the commit
\* began has the filenames it had then: undo restores the snapshot before execute.
RollbackRestoresFilenames ==
    state = "ROLLED_BACK"
        => \A d \in DOMAIN map \cap DOMAIN snapshot.map :
               map[d].filename_iterators = snapshot.map[d].filename_iterators

\* The undo of a file operation that changed the filename set finds the parent
\* directory in the index: chassert(it != path_map.map.end()) in
\* WriteFileOperation::undo and UnlinkMetadataFileOperation::undo.
UndoFindsParentDirectory ==
    \A kind \in {"WriteFile", "UnlinkMetadataFile"} :
        LET op == operations[position]
        IN  Undoing(kind) /\ (IF kind = "WriteFile" THEN op.written ELSE op.unlinked)
                => parent_path(op.path) \in DOMAIN map

\* The files the index holds: a (directory, filename) pair each.
FileCount(m) == SumFunction([d \in DOMAIN m |-> Cardinality(m[d].filename_iterators)])

\* The files of the records this step takes out of the index, a record being
\* known by its key prefix (a move keeps the record under another path).
Dropped ==
    FileCount([d \in {e \in DOMAIN map : \A to \in DOMAIN map' : map'[to].path # map[e].path}
                  |-> map[d]])

\* DiskPlainRewritableObjectStorageFileCount moves with the filenames of the
\* index: a step changes the gauge by the files it adds to or takes from the
\* directories, whether a file was there before or not (the results of emplace
\* and erase in WriteFileOperation and UnlinkMetadataFileOperation).  The files
\* of a record that leaves the index as a whole stay counted: erasing a
\* directory in RemoveDirectoryOperation::execute and in
\* CreateDirectoryOperation::undo subtracts nothing for them.
FileCountFollowsFiles ==
    [][metrics'.file_count - metrics.file_count
           = FileCount(map') - FileCount(map) + Dropped]_vars

=============================================================================
