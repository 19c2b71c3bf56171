# TLA+ models of the plain object storage metadata layer, the HDFS write buffer and the PostgreSQL structure reader

This directory holds TLA+ specifications of the code under `src/`, the TLC
configurations that check them, and `PROJECT.json`, which lists the components,
the runs, the mutants that show each property can fail, the source lines every
definition models, the findings and the hazards.

Run one configuration with

    tlc -workers 2 -config MCPlainMetadataOperations.cfg MCPlainMetadataOperations

## 1. The system

The repository has four source files. One of them is a transactional state
machine; the others are a write buffer, a schema reader and a small helper.

| Part | Source | State | Operations |
|---|---|---|---|
| Plain metadata operations | `Disks/ObjectStorages/MetadataStorageFromPlainObjectStorageOperations.cpp` | per operation: its paths, `object_key_prefix` / `key_prefix`, and one completion flag (`write_finalized`, `remove_attempted`, `written`, `unlinked`; create has none) | constructor, `execute`, `undo` of CreateDirectory, MoveDirectory (with `createWriteBuf`), RemoveDirectory, WriteFile, UnlinkMetadataFile |
| Directory index (`InMemoryDirectoryPathMap`, header not in `src/`) | used by the operations | `map`: directory path to `RemotePathInfo` (key prefix, `last_modified`, `filename_iterators`); `unique_filenames`; `mutex` | `emplace`, `extract`, `find`, `contains`, `removePathIfExists` |
| Object storage (not in `src/`) | used by the operations | one marker object `prefix.path` per directory, under `metadata_key_prefix / key prefix`, holding the directory's path | `writeObject` + `finalize`, `readObject`, `removeObject`, `removeObjectIfExists` |
| Metadata transaction (not in `src/`) | described in `spec.md` | the list of operations, how far execution got | add an operation, commit (execute in order), rollback (undo in reverse order, the failed operation first) |
| Index readers (not in `src/`) | described in `spec.md` | which threads hold `path_map.mutex` shared | `lock_shared`, a lookup, `unlock_shared` |
| Start-up scan (not in `src/`) | described in `spec.md` | none of its own | rebuild the index from the markers in the object storage |
| Gauges | in the operations | `directory_map_size`, `file_count`, `unique_filenames_count` | `CurrentMetrics::add`, `sub` |
| `WriteBufferFromHDFS` | `Storages/ObjectStorage/HDFS/WriteBufferFromHDFS.cpp` | an open HDFS file, the working buffer, `canceled` / `finalized` | constructor (opens with the flags it is given; `O_WRONLY` truncates), `nextImpl` (loop of `write`), `write` (resource request, `hdfsWrite`, accumulate or adjust, throttle), `sync`, destructor (finalizes unless canceled) |
| `fetchPostgreSQLTableStructure` | `Databases/PostgreSQL/fetchPostgreSQLTableStructure.cpp` | within a call: the columns read so far, the indexes of the arrays to recheck, the structure being filled | list tables, convert a PostgreSQL type, read columns and recheck array dimensions, fetch generated expressions, primary key, replica identity |
| PostgreSQL server (not in `src/`) | queried by the reader | the catalog rows of one table, its rows, its indexes | statements of other sessions that commit between two statements of the reader |
| `LibraryBridgeHelper` | `BridgeHelper/LibraryBridgeHelper.cpp` | configuration values | start the bridge, build the base URI |

How they interact. A transaction collects operations and, at commit, runs
`execute` of each in order while it holds the metadata lock exclusively. An
`execute` changes a marker object in the object storage and then the matching
entry of the index (directories), or the index alone (files). When an `execute`
throws, `undo` runs for that operation and then for the earlier ones, last
first. An `undo` has only what the operation object kept: its constructor
arguments, the key prefix, and its completion flag. The write buffer belongs
to the HDFS object storage; nothing in the sources binds the metadata
operations to it (section 10), and it is modelled on its own. The
structure reader stands apart: it talks to a PostgreSQL server over one
transaction, in up to six statements, while other sessions change the table.

What makes it hard:

* an operation changes two stores, one of them remote, and can fail between the
  two changes;
* `undo` must reverse exactly what `execute` did, and it runs after the undos of
  later operations have already changed the index;
* operations of one transaction act on the same paths: a create of something
  that exists, a move onto a path removed a step earlier, a file written into a
  directory the transaction then moves;
* a call to the object storage that throws may have been served all the
  same, and the flags that guide `undo` are set only when a call returned;
* an `undo` can itself fail, which the design treats as fatal;
* the metadata lock keeps other transactions out but not the readers of the
  index: between the marker and the index entry `path_map.mutex` is free, and
  a call waits for it behind the readers that hold it;
* the process can die between any two statements, and the next one starts
  from the markers alone.

What must hold (from `spec.md`, sections 2, 4, 7 and 8, and from the
assertions in the code):

* index and markers correspond (I1) and no two directories share a key prefix
  (I2), after every commit;
* a filename is in a directory's set once or not at all, and the gauges count
  what the index holds (I3);
* a rollback restores the state the commit started from (I4, undo exactness),
  and an `undo` of what did not happen is a no-op;
* a move keeps the directory's key prefix and files and rejects an existing
  destination;
* `undo` does not fail of its own accord;
* the index changes only under the exclusive `path_map.mutex`, and what a
  reader finds in it is durable;
* a restart finds a state the transaction's operations can give.

## 2. Plan

Modules, most important first:

1. `PlainMetadataOperations` (done): the five operations, the index, the
   markers, the gauges and the transaction that drives them. One action is one
   whole call of `execute` or `undo`; this is sound because the metadata lock
   serialises the calls and the model has no other actor.
   `MCPlainMetadataOperations` instantiates it for TLC.
2. `WriteBufferFromHDFS` (done): the constructor with its flags,
   `nextImpl`'s loop over short writes, the resource accounting of `write`,
   `sync`, and the destructor; what a flush that failed half way leaves;
   liveness of the loop. `MCWriteBufferFromHDFS` instantiates it.
3. `PostgreSQLTableStructure` (done): `convertPostgreSQLDataType` as operators;
   `fetchPostgreSQLTableStructure` and `readNamesAndTypesList` as one action
   per statement, over a table that other sessions change between the
   statements; `fetchPostgreSQLTablesList`. `MCPostgreSQLTableStructure` and
   `MCPostgreSQLTypes` instantiate it.
4. `PlainMetadataSteps` (done): `execute` and `undo` split at the points
   where `path_map.mutex` is taken and released, with readers that take it
   shared and a restart from the markers at any step; shown to implement
   module 1 (`INSTANCE ... WITH`, module 1's `Spec` as a property).
   `MCPlainMetadataSteps` instantiates it.
5. Lost answers (done): a call to the object storage that throws after it
   was served, as the constant `LostAnswers` of modules 1 and 4 (the kinds
   of operation it can happen to) and the operator `Fails`; run
   `lost_answer`, and for creates the runs `operations` and `steps`.
   Not done, and why: the marker writes through an instance of module 2
   (section 10); an abstract one-snapshot reader as a module of its own,
   because the reference definition `IsStructureOf` of module 3 is that reader
   and `SnapshotReadIsConsistent` and `SnapshotErrorsAreJustified` compare the
   call with it.
6. Larger instances of module 4 (not done): with three operations its six
   properties hold as well, in about five minutes, which is too long for a
   run that is repeated with every change. A second transaction after a
   commit or a rollback is checked in module 1 (`MaxTransactions = 2`, four
   operations and then up to three), call
   by call; step by step it would need properties that allow for what
   findings 1 to 4 leave in the index.
7. The constructor's flags and a failed flush in module 2, the two
   conversions of a key column and the exact list of tables in module 3
   (done): properties `FailedFlushIsNotRepeated`, `KeyTypeIsTheColumnType`,
   `ListIsTheTablesOfTheSchemas`.

`LibraryBridgeHelper` is not planned: it has nothing to check.

## 3. PlainMetadataOperations

### State

| Variable | Code |
|---|---|
| `map` | `path_map.map`; a function from directory to `[path, filename_iterators]`. `path` is the key prefix (the code's name for it). `last_modified` is left out: nothing reads it here. |
| `unique_filenames` | `path_map.unique_filenames`. `filename_iterators` point into it, so a directory's files are a subset of it (part of `TypeOK`). |
| `markers` | the object storage: metadata object key to the path written in the marker, or `NoObject` |
| `metrics` | the three gauges |
| `generated` | key prefixes `generateObjectKeyPrefixForDirectoryPath` has returned; it returns a new one each time |
| `operations`, `position`, `state`, `transactions` | the transaction: its operations with their flags, the one being executed or undone, and `PREPARING`, `EXECUTING`, `UNDOING`, `COMMITTED`, `ROLLED_BACK` or `PARTIALLY_ROLLED_BACK` |
| `snapshot` | history variable: index, markers and gauges when the commit began. No action reads it. |

A call to the object storage takes effect or throws; `Fails(served)` is a
call that throws, and for an operation of a kind in `LostAnswers` it may
leave the markers as the call was to make them. A failpoint throws between
`writeString` and `finalize` (lines 84 and 188) and unwinds the buffer, which
is not in the sources: `Fails` again, the buffer drops what it holds (the
design document makes `finalize` the single commit point) or, for a kind in
`LostAnswers`, stores it.

Paths are pairs: the directory path `a/` is `<<a, "">>` and the file path `a/f`
is `<<a, f>>`, so `parent_path` and `filename` do what
`std::filesystem::path` does to them, including the removal of the trailing
slash that every directory operation depends on.

### Actions

| Action | Code | Outcomes |
|---|---|---|
| `CreateDirectoryOperation(d)` etc. | the constructors | append the operation; create draws a new key prefix |
| `Commit`, `NewTransaction` | the transaction | start executing; begin the next transaction after a commit or a complete rollback |
| `CreateDirectoryExecute` | lines 57-100 | already there: return; `writeObject`/`finalize` throws; failpoint throws after `writeString`; marker written, entry inserted, gauge + 1 |
| `CreateDirectoryUndo` | 102-114 | entry removed if there (gauge - 1 only then), then marker removed, or the removal throws |
| `MoveDirectoryExecute` | 181-206, `createWriteBuf` 132-179 | `createWriteBuf` throws (source missing, destination exists, marker content is not `path_from`); remote call throws; failpoint throws; marker rewritten, record relocated, `write_finalized` set |
| `MoveDirectoryUndo` | 208-222 | not finalized: nothing; otherwise record relocated back, then `createWriteBuf(path_to, path_from)` against the index as it now is, marker rewritten if that succeeds |
| `RemoveDirectoryExecute` | 234-263 | not there: return; `removeObject` throws (key prefix already captured); marker deleted, entry erased, gauge - 1, `remove_attempted` set |
| `RemoveDirectoryUndo` | 265-288 | not attempted: nothing; otherwise entry inserted with the key prefix and no files, gauge + 1, marker written or the write throws |
| `WriteFileExecute`, `WriteFileUndo` | 296-346 | no parent: skip; name interned, added to the directory, `written` says whether it was new; undo erases it when `written` |
| `UnlinkMetadataFileExecute`, `UnlinkMetadataFileUndo` | 357-407 | the reverse, with `unlinked` |

`map.extract(key).mapped()` on a key that is not in the map (line 215, reached
when the destination of a finalized move was removed by a later undo) is
undefined behaviour; the model takes the process to stop there and ends the
rollback as `PARTIALLY_ROLLED_BACK`. `chassert` is compiled out of release
builds, so the model continues past a failed one; the run `file_undo` checks
the assertion itself.

### Constants and bounds

| Constant | Value in `MCPlainMetadataOperations.cfg` | Why |
|---|---|---|
| `Directories` | `{a, b}` | a move needs a source and a destination, present or absent; the initial index is any subset |
| `Filenames` | `{f}` | one name in two directories already shares its pool entry; a second name quadruples the states and adds no case |
| `KeyPrefixes` | `{k1, k2, k3}` | two directories loaded and one created, or three creates |
| `MaxOperations` | 4 | operations in the first transaction. An undo meets the effect of a later operation's undo with three; with four a create meets a directory that the same transaction created and filled (create, write, create again, an operation that throws), which is the shortest transaction in which undos of one transaction take back each other's work |
| `MaxLaterOperations` | 3 | operations in each later transaction; four in both is 10 456 373 states and over three minutes |
| `MaxTransactions` | 2 | the second transaction starts from whatever the first left, including the index a rollback left |
| `FailPoints` | both | `plain_object_storage_write_fail_on_directory_create` and `..._move` |
| `RemoteFaults` | `TRUE` | every call to the object storage may throw |
| `LostAnswers` | `{"CreateDirectory"}` | a create that throws may have stored its marker, and the properties hold: its undo removes the marker whatever `execute` did. A move or a remove that throws has changed nothing; run `lost_answer` shows what the rollback leaves without that |

The model values are symmetric (`Symmetry`): nothing tells one directory, name
or prefix from another. Deadlock checking is off, because the system does
stop: after the last transaction, and for good after a partial rollback.

## 4. PlainMetadataSteps

`PlainMetadataOperations` takes a call as one action. That is what the
metadata lock promises of other transactions, and this module shows it of the
rest: it takes every call apart where the code goes from one store to the
other, lets readers and a crash in between, and checks
(`ImplementsOperations`) that at the ends of the calls nothing but
`PlainMetadataOperations` has happened.

### State

The ten variables of `PlainMetadataOperations`, with the same meaning, and:

| Variable | Code |
|---|---|
| `pc` | the statement group the running call is at: `"call"` between two calls, `"writeObject"`, `"removeObject"`, `"removeObjectIfExists"`, `"createWriteBuf"` before that call to the object storage, `"lock"` before a `std::lock_guard`, `"locked"` while the call waits for the mutex or holds it |
| `mutex` | `path_map.mutex`: `writers`, set by `lock()`, and `readers`, the threads that hold it shared |
| `restarted` | the process died and a new one has scanned the markers |
| `completed` | history: the ten variables as the last completed call left them; the refinement mapping |

### Steps

| Call | Steps, in order | Lines |
|---|---|---|
| create, `execute` | `CreateDirectoryContains` (lookup; return if there), `CreateDirectoryWrite` (`writeObject`, failpoint, `finalize`), `lock`, `CreateDirectoryEmplace` (insert, gauge) | 57-65, 67-87, 92, 89-100 |
| create, `undo` | `lock`, `CreateDirectoryErase` (`removePathIfExists`, gauge), `CreateDirectoryRemoveObject` | 106, 102-110, 112-114 |
| move, `execute` | `MoveDirectoryWrite` (`createWriteBuf`, failpoint, `finalize`), `lock`, `MoveDirectoryRelocate` | 181-191, 198, 193-206 |
| move, `undo` | `MoveDirectoryNotFinalized`, or `lock`, `MoveDirectoryRelocateBack`, `MoveDirectoryWriteBack` | 208-210, 213, 212-216, 218-222 |
| remove, `execute` | `RemoveDirectoryFind` (lookup, `key_prefix` kept), `RemoveDirectoryRemoveObject`, `lock`, `RemoveDirectoryErase` | 234-245, 247-251, 253, 253-263 |
| remove, `undo` | `RemoveDirectoryNotAttempted`, or `lock`, `RemoveDirectoryEmplace`, `RemoveDirectoryWrite` | 265-268, 271, 270-276, 278-288 |
| file operations | `lock`, then the whole call as in `PlainMetadataOperations`; an undo whose flag is not set takes no lock | 296-407 |

A lookup under `SharedLockGuard` is one step with what precedes it: the
transaction is the only writer, so its shared lock is never kept waiting. A
gauge update after the unlock is one step with the critical section: no other
thread of the model reads the gauges. Between the calls `Orchestrator` takes
the constructors, `Commit` and `NewTransaction` from
`PlainMetadataOperations`.

### The mutex

`DB::SharedMutex` is not in `src/`, and `spec.md` says of it only that it is
a reader/writer lock whose exclusive sections never span a remote call. The
model takes it as ClickHouse implements it (`Common/SharedMutex.cpp`):
`lock()` first sets the writers bit, which keeps new readers out
(`lock_shared` waits while the bit is set), and then waits until the readers
that hold the mutex have left (`Exclusive` needs `mutex.readers = {}`). The
safety properties do not depend on which readers are let in when; `CommitEnds`
does (section 9). The
critical section and the unlock at the end of its scope are one step. Readers
take and release the mutex at any moment; what they look up is not modelled.

### Restart

`Restart` is a crash at any step followed by the start-up scan of the next
process: the index gets one directory for every marker in the object storage,
under the key prefix of the marker's key; the files are any subset (the data
objects are not modelled); the pool and the gauges follow from the index; the
mutex is free. The transaction is not resumed and no undo runs. `operations`,
`position`, `state` and `snapshot` stay as the record of what was interrupted,
so that `RestartFindsAPrefix` can speak of it, and nothing moves after the
restart: the model follows one life of the process and the start of the next.

### Refinement

`Abs == INSTANCE PlainMetadataOperations WITH map <- completed.map, ...`
substitutes the history variable for each of the ten variables.
`completed` is set to the current values by every step that ends a call
(`Completes`) and by every step of `Orchestrator`, and is left alone by the
steps inside a call, by the readers and by `Restart`: those are stuttering
steps of `PlainMetadataOperations`. `ImplementsOperations == Abs!Spec` then says
that every call from its first statement to its return or throw is one step of
`PlainMetadataOperations!Next`.

### Constants and bounds

As in section 3, except:

| Constant | Value in `MCPlainMetadataSteps.cfg` | Why |
|---|---|---|
| `KeyPrefixes` | `{k1, k2}` | two directories loaded, or one loaded and one created, or one removed and created again; the model values are not symmetric here (liveness), so a third prefix costs a factor of six |
| `MaxOperations` | 2 | a call that runs after another call's effect, and a rollback of two. With 3 the six properties hold as well (1 468 339 states, about five minutes) |
| `MaxTransactions` | 1 | a second transaction starts from an index that findings 1 to 4 let disagree with the markers, and `VisibleDirectoryIsDurable` and `RestartFindsAPrefix` are stated for a transaction that starts from a scan |
| `LostAnswers` | `{"CreateDirectory"}` | as in module 1. With all three kinds the refinement still holds, and finding 5 breaks `VisibleDirectoryIsDurable` and `RestartFindsAPrefix`: a rollback leaves a marker deleted or rewritten under a directory of the index |
| `Readers` | `{r1, r2}` | readers that overlap, so that the mutex is never free of its own accord |
| `Crashes` | `TRUE` | |

### Properties (run `steps`)

* `TypeOK`: the shape of the state; a call is under way only while the
  transaction executes or undoes; the writers bit is set exactly while a call
  waits for the mutex or holds it, so every `lock_guard` is released, on every
  path.
* `ImplementsOperations`: the refinement above.
* `ReadersSeeAStableIndex` (action property): while a reader holds the mutex
  shared, `map` and `unique_filenames` do not change.
* `VisibleDirectoryIsDurable`: unless a rollback has failed, every directory
  of the index has its marker in the object storage, but for the one
  directory that the running call is taking away (the marker is removed or
  rewritten before the entry) or bringing back (the entry is inserted before
  the marker). A create is never seen before it is durable.
* `RestartFindsAPrefix`: the directory tree a restart finds is the tree the
  transaction started from with its first `position - 1` or `position`
  operations applied as `spec.md` defines their effect (`Apply`): a crash never
  leaves a tree that no sequence of the operations gives, also when it comes
  between the marker and the index, in the middle of a rollback, or after an
  undo whose call to the object storage threw.
* `CommitEnds` (liveness): a commit that has begun ends committed, rolled
  back or with a failed rollback, unless the process dies first.

## 5. WriteBufferFromHDFS

### State

| Variable | Code |
|---|---|
| `file` | the content of the HDFS file, a sequence of bytes; `OldContent` before the constructor opens it |
| `fout` | `impl->fout`: `"none"`, `"open"`, `"closed"` |
| `flags` | the `flags` the constructor passed to `hdfsOpenFile`: `"O_WRONLY"` or `"O_APPEND"` (with `O_WRONLY`), `""` before; `base` is what the file held when it was opened, nothing after a truncation |
| `working_buffer`, `bytes_written` | the bytes between `working_buffer.begin()` and `pos`, and the local of `nextImpl` |
| `pc`, `caller` | where the buffer is (`"idle"` between calls, `"nextImpl"` inside the loop) and who called `next()`: the client, `finalize()` or the destructor |
| `finalized`, `canceled` | the flags of `WriteBuffer` |
| `charged`, `throttled` | what the resource link and the throttler have been charged |
| `synced`, `accepted`, `failed` | history: the length synced last, every byte the client wrote, whether a call has thrown |

The bytes the client writes are numbered 1, 2, 3, ... so that a byte lost,
repeated or out of place shows in `file`.

### Actions

| Action | Code | Outcomes |
|---|---|---|
| `Construct` | lines 37-59 | file opened, and truncated unless the flags say `O_APPEND`; or `CANNOT_OPEN_FILE` |
| `Put`, `next`, `finalize`, `cancel` | `WriteBuffer` (not in `src/`) | one byte into the buffer; flush; flush and set `finalized`; drop the buffer and set `canceled` |
| `write` | 66-92, one turn of the loop of 116-125 | request `size`; `safe_cast<int>` or `hdfsWrite` throws: request given back, exception leaves `nextImpl`; `hdfsWrite` takes `n` of `size` bytes: request adjusted, throttler charged, loop goes on or ends |
| `sync` | 94-99 | `hdfsSync` on what HDFS has, or `CANNOT_FSYNC`; the working buffer is not flushed first |
| `Destroy` | 134-145 | `finalize()` unless canceled or finalized, exceptions swallowed; then the file is closed |

### Constants and bounds

| Constant | Value | Why |
|---|---|---|
| `BufferSize` | 3 | room for a write that HDFS takes in two or three parts |
| `INT_MAX` | 2 | smaller than the buffer, so that a full buffer is more than an `int` holds and `safe_cast` throws |
| `MaxAccepted` | 5 | more than one buffer: the loop runs at least twice in one behaviour |
| `OldContent` | one byte | the truncation by the constructor shows |
| `Flags` | both | a file that is overwritten and a file that is appended to |
| `RemoteFaults` | `TRUE` | every call to HDFS may fail |

### Properties (run `hdfs_buffer`)

All of them are relative to `base`, what the file held when it was opened.

* `TypeOK`: the shape of the state; a file opened without `O_APPEND` holds
  bytes of this buffer only.
* `NothingLostOrRepeated`: while nothing has thrown, the file followed by the
  unsent rest of the buffer is exactly `base` followed by what the client
  wrote.
* `FailedFlushIsNotRepeated`: also after a `write` that threw when HDFS had
  taken a part of the buffer, the bytes in the file are in the order the
  client wrote them and none is there twice, whatever the client calls next.
  `bytes_written` is a local of `nextImpl` and is lost with the exception; the
  property holds because `next()` empties the working buffer when `nextImpl`
  throws, and its mutant is a `next()` that keeps it.
* `ChargedWhatWasWritten`: between calls of `write` the resource link and the
  throttler have been charged the bytes this buffer put into the file, after
  short writes and after failures.
* `DestroyedBufferIsFlushed`: a buffer destroyed without `cancel()` and
  without a failure has stored everything, `finalize()` called or not; one
  opened with `O_APPEND` and never written to leaves the file as it was.
* `SyncCoversWhatWasFlushed` (action property): a `sync()` makes durable what
  the file held and what the client wrote, less what is still in the working
  buffer. `sync()` does
  not call `next()`, so it is complete only after `next()` or `finalize()`.
* `NextImplEnds` (liveness): the loop of `nextImpl` returns or throws.

## 6. PostgreSQLTableStructure

### State

| Variable | Code |
|---|---|
| `db` | the PostgreSQL server as committed: whether the table exists, the server's version, `attributes` (the rows of `pg_attribute` in the order of `attnum`, each with `attname`, `type`, `attnotnull`, `attndims` and whether `pg_attrdef` has a default or a generated expression for it), `rows`, and the columns of the primary key and of the replica identity index |
| `snapshot` | `db` as it was when the first statement of the transaction started |
| `tx` | the `T` of the templates: `"ReadTransaction"` (which stands for `pqxx::nontransaction` as well) or `"ReplicationTransaction"` |
| `args` | `use_nulls`, `with_primary_key`, `with_replica_identity_index` |
| `pc`, `query` | the statement sent next, and which of the three column lists `readNamesAndTypesList` is reading |
| `generated` | the local `generated`: whether the columns statement asks for `attgenerated` |
| `columns`, `attributes`, `recheck_arrays_indexes` | the locals of `readNamesAndTypesList` |
| `table` | the `PostgreSQLTableStructure` being filled |
| `outcome` | `"returned"`, or the error code thrown, or `"undefined"` for the read of a row that is not there |
| `postgres_schema`, `tables` | argument and result of `fetchPostgreSQLTablesList` |
| `changes`, `present` | bound and history: the number of commits by other sessions, every row the table held during the call |

A PostgreSQL type text is a record of its name, its modifier and the number of
trailing `[]`, so `ends_with("[]")`, `ends_with(")")`, `starts_with` and the
comparisons with a whole text are what they are on the string. A ClickHouse
type is a record of its wrappers (`Array`, `Nullable`) from the outside in,
its base type, precision and scale. In `fetchPostgreSQLTablesList` the argument
is the sequence of its parts between commas, a part being a name with or
without white space around it.

### Actions

| Action | Code | Outcomes |
|---|---|---|
| `fetchPostgreSQLTableStructure` | lines 293-326 | the first statement: `generated` by the server's version; the snapshot is taken |
| `readNamesAndTypesList` | 172-228 | the columns statement, or one of the two index statements: every row converted (`convertPostgreSQLDataType`, 70-160); a conversion throws; nothing to recheck: return (287-289) and what the caller does next (327-342, 376-418); else the recheck begins |
| `isTableEmpty` | 162-170, 235-236 | table gone: `UNKNOWN_TABLE`; no row: `BAD_ARGUMENTS`; else on to the next statement |
| `array_ndims` | 243-271 | table gone: `UNKNOWN_TABLE`; no row: `undefined`; the row's array is NULL or has no elements: `BAD_ARGUMENTS`; else the column's type is rebuilt with the depth read, and the next array is rechecked or the list returns |
| `attrdef` | 342-374 | more rows than columns: `LOGICAL_ERROR`; else the expression of each generated column by `attnum` |
| `fetchPostgreSQLTablesList` | 32-67 | one schema: bare table names, from the untrimmed argument or `public`; several: each name with its trimmed schema |
| `Insert`, `Delete`, `AddColumn`, `DropTable` | other sessions | one commit between two statements of the call |

Other sessions act only while a call is under way: what they did before it is
an initial state.

### Constants and bounds

| Constant | `MCPostgreSQLTableStructure.cfg` | Why |
|---|---|---|
| `Attributes` | six columns: a key, a numeric that may be NULL, an array with `attndims` 0, an array declared with depth 2 that may be a key, a generated column, a column with a default | one of each kind the call treats differently |
| `MaxColumns` | 2 | a generated column beside a default (the expressions must not be mixed up), two arrays to recheck, a column added to a table of one |
| `Rows`, `MaxRows` | four rows (depth 1, depth 2, NULL, no elements), at most 2 in the table | `LIMIT 1` has a choice; a table of one row can be emptied by one `DELETE` |
| `Versions` | `{11, 12}` | below 12 there is no `attgenerated` |
| `TransactionKinds` | both | statement-level and snapshot reads |
| `MaxChanges` | 1 | every race of the call needs one commit between two statements; a second triples the states and adds no outcome |
| `SchemaArguments`, `pg_tables` | empty, one, one padded, two, two with an empty part; four tables in three schemas | each branch of the listing |

`MCPostgreSQLTypes.cfg` has one column per table, drawn from 23 type texts
(every name the conversion compares with, two other names, a numeric without
modifier and numerics of precision 9, 10, 18, 19, 38, 39, 76 and 77), no
concurrent change.

### Properties

Run `pg_structure`:

* `TypeOK`: the shape of the state; an index to recheck is an index of
  `columns` and its column is an array.
* `ArraysAreNeverNullable`: in every type the call builds, `Nullable` is around
  the element and never around an array.
* `RecheckedDepthWasInTheTable`: the depth given to a rechecked array is the
  `array_ndims` of a row the table held during the call.
* `OnlyGeneratedColumnsCarryTheirExpression`: an expression is attached to a
  generated column only, and it is that column's.
* `SnapshotReadIsConsistent`: over a `ReplicationTransaction`, a returned
  structure is the structure of the snapshot (`IsStructureOf`): the columns in
  order, their types, names and attributes, the primary key if asked for, the
  replica identity if asked for and no primary key was found.
* `SnapshotErrorsAreJustified`: over a `ReplicationTransaction`,
  `UNKNOWN_TABLE` means the table is not in the snapshot, `BAD_ARGUMENTS` that
  the snapshot is a table the call refuses, and `LOGICAL_ERROR` and
  `undefined` do not occur.
* `KeyTypeIsTheColumnType`: a column of a key is converted twice, and the
  index statements give no `attndims`, so an array of a key takes its depth
  from a row where the physical column trusts the catalog. The two types of
  one column are the same whenever every row the table held during the call
  has the array at one depth, the declared one where `attndims` is not 0.
  Without that condition they differ (a column declared `integer[][]` whose
  one row holds a one-dimensional array comes back as `Array(Array(Int32))`
  among the columns and as `Array(Int32)` in the key); the sources promise
  nothing for that case.
* `ListIsTheTablesOfTheSchemas`: the list is exactly the tables `pg_tables`
  has in the schemas of the argument, bare for one schema and with their
  schema for several. White space around a name is ignored where there are
  several; a single schema is looked up as it is written, so `" s1"` lists
  nothing where `" s1, s2"` lists the tables of both. The code trims the keys
  (lines 36-38) and then builds the statement of the single-schema branch from
  the argument (line 45); whether that is meant is not said anywhere.

Run `pg_types`: `DecimalIsNarrowestThatFits`.

## 7. Runs

| Run | Config | Result | Shows |
|---|---|---|---|
| `operations` | `MCPlainMetadataOperations.cfg` | passes, 1 635 454 states | eight properties below, over all transactions within the bounds |
| `steps` | `MCPlainMetadataSteps.cfg` | passes, 109 331 states | six properties of section 4: refinement, two about readers, one about restart, liveness |
| `move_undo` | `MCMoveUndo.cfg` | `UndoNeverThrows` violated | the undo of a completed move always throws |
| `create_undo` | `MCCreateUndo.cfg` | `RollbackRestoresDirectories` violated | rolling back a create of an existing directory removes the directory |
| `remove_undo` | `MCRemoveUndo.cfg` | `RollbackRestoresFilenames` violated | the undo of a remove brings the directory back empty |
| `file_undo` | `MCFileUndo.cfg` | `UndoFindsParentDirectory` violated | the `chassert` of the file undos fails after the undo of a no-op create |
| `lost_answer` | `MCLostAnswer.cfg` | `RollbackRestoresMarkers` violated | a `finalize` or `removeObject` that was served and then threw: the flag stays false, the undo does nothing, and the marker stays rewritten or deleted |
| `hdfs_buffer` | `MCWriteBufferFromHDFS.cfg` | passes, 4 625 states | seven properties of section 5, one of them liveness |
| `pg_structure` | `MCPostgreSQLTableStructure.cfg` | passes, 1 267 884 states | eight properties of section 6 |
| `pg_types` | `MCPostgreSQLTypes.cfg` | passes, 9 068 states | `DecimalIsNarrowestThatFits` over every type name and every limit |
| `pg_empty_relation` | `MCPgEmptyRelation.cfg` | `EmptyRelationIsReported` violated | rows deleted between `isTableEmpty` and the `array_ndims` statement: row 0 of an empty result is read |
| `pg_attrdef` | `MCPgAttrdef.cfg` | `FetchedColumnsCoverAttrdef` violated | a column added between the columns statement and the `pg_attrdef` statement: `LOGICAL_ERROR` |

Properties of `operations`:

* `TypeOK`: the shape of the state; directory keys have no trailing slash and
  a directory's files are in the pool.
* `PrefixesUnique` (I2): no two directories share a key prefix.
* `GaugesMatchIndex`: `directory_map_size` and `unique_filenames_count` are the
  sizes of `map` and `unique_filenames` after every call, also after an undo of
  an execute that never inserted and after an undo of a remove.
* `CommitKeepsCorrespondence` (I1): a commit that starts from corresponding
  index and markers ends with corresponding index and markers.
* `RollbackRestoresMarkers`: after a complete rollback the markers are those
  the commit started from.
* `RollbackIsExact` (I4): after a complete rollback of operations whose undo
  has what it needs, index, markers and the directory and file gauges are
  those the commit started from. `UndoneExactly(i)` says which operations
  those are: the file operations, a move, a remove that stopped before its
  flag was set, and a create whose directory was not in the index when the
  commit began and that no earlier operation of the transaction creates or
  moves to. The last clause matters from four operations on: a second create
  of a directory the transaction created returns at line 64 without a flag,
  its undo erases the directory with the file written in between (line 106),
  the undo of the write finds no parent (line 332) and `file_count` ends one
  above where it began. With five operations in one transaction the property
  holds as well (7 220 641 states, checked once).
* `MarkerRewriteMovesRecord` (action property): whenever a marker's content
  changes from one path to another, the record with that key prefix moves in
  the same step to the new path, with its files, and leaves the old path.
* `FileCountFollowsFiles` (action property): every call changes `file_count`
  by the (directory, filename) pairs it adds to or takes from the index, so a
  write of a file that is there and an unlink of one that is not leave it
  alone, in `execute` and in `undo`. The files of a record that leaves the
  index as a whole (a remove, the undo of a create) stay counted: the gauge
  is ahead of the index by exactly those files, which is why
  `GaugesMatchIndex` does not speak of it.

The violation runs restrict `OperationKinds` so that the shortest
counterexample shows one cause alone, and switch `RemoteFaults` off where the
claim is about a reliable store. The one successful branch of
`MoveDirectoryUndo` (marker rewritten) is never taken in any run: that is the
finding of `move_undo`.

## 8. Findings

1. `MoveDirectoryOperation::undo` (line 218) cannot succeed: it relocates the
   index entry and then validates against the relocated index.
2. `CreateDirectoryOperation::undo` (line 106) removes a directory that the
   transaction did not create; the create has no completion flag. The same
   holds inside one transaction: a second create of a directory the
   transaction created undoes as the first, erasing the directory with the
   file written in between, and `file_count` stays one above where it began
   (`UndoneExactly` sets such a create aside).
3. The file undos then miss their parent directory (lines 332, 393).
4. `RemoveDirectoryOperation::undo` (line 273) restores the key prefix and
   loses the filenames.
5. `write_finalized` (line 205) and `remove_attempted` (line 262) are set
   when the call to the object storage has returned. A `finalize` or
   `removeObject` that was served and then threw (a timeout) leaves the flag
   false, the undo returns at once, and the rollback ends with the marker
   rewritten or deleted under a directory the index still has at its old
   path. The undo of a create removes the marker whatever `execute` did, and
   is exact in the same situation. The design document does not say whether
   a call that raises an error may have taken effect.
6. `readNamesAndTypesList` (line 248) reads row 0 of a result it has not
   checked for rows; the check for an empty relation is an earlier statement,
   and over a `ReadTransaction` or a `nontransaction` the rows can be deleted
   between the two.
7. The `LOGICAL_ERROR` of line 350 is reachable over the same transactions,
   by a column added between the two statements it compares.

Observed and not made a run: with a single schema,
`fetchPostgreSQLTablesList` builds its statement from the untrimmed argument
(line 45), so `" s1"` lists nothing although the names were trimmed three lines
above; and a key column that is an array takes its depth from a row while the
same physical column takes it from `attndims`, so the two types of one column
can differ. Both are in the hazards of `PROJECT.json`, and the run
`pg_structure` states each as the code has it: `ListIsTheTablesOfTheSchemas`
and `KeyTypeIsTheColumnType` (section 6).

## 9. Fairness

`WriteBufferFromHDFS` has the liveness property `NextImplEnds`, checked
under `FairSpec == Spec /\ WF_vars(write)`. Weak fairness of `write` is what
the code gives: `nextImpl` is a `while` loop in one thread around a blocking
call, so once the loop is entered its next turn is taken. The property also
rests on an assumption about HDFS that the model states in `write`: an
`hdfsWrite` that does not fail takes at least one byte (`n \in 1 .. size`). A
write that returns 0 for ever is the one way the loop does not end, and the
code has no guard against it.

`PlainMetadataSteps` has `CommitEnds`, checked under

    FairSpec == Spec /\ WF_vars(lock \/ Execute \/ Undo)
                     /\ \A r \in Readers : WF_vars(unlock_shared(r))

The first conjunct is the thread that runs the commit: `commit` and
`rollback` are loops over the operations in one thread, so a step of the
running call that stays possible is taken. The second is the use of
`SharedLockGuard`: a reader holds the mutex for a lookup in a scope and
leaves it. Nothing is assumed of `lock_shared` (readers may arrive for ever
or never), of the constructors, or of `Restart`. Weak fairness is enough
because of the writers bit: once `lock()` has set it, `Exclusive` is disabled
only until the readers inside have left, and no new one gets in. With a
mutex that lets readers pass a waiting writer, `Exclusive` would be enabled
again and again but not continuously, and the commit could wait for ever:
that is the mutant of `CommitEnds`. The run has no `SYMMETRY`, which TLC
cannot combine with liveness.

`PlainMetadataOperations` and `PostgreSQLTableStructure` are checked for
safety only. The calls of the structure reader end after at most six kinds of
statement and a recheck per array; that they end says nothing a reader of the
loop would doubt.

## 10. Not modelled

* What a reader of the index does with what it finds, and the headers of
  `InMemoryDirectoryPathMap` and `SharedMutex`: readers only take and release
  the mutex. A second transaction beside the first: the metadata lock, held
  exclusively for the whole commit, keeps it out.
* After a restart: the next process's transactions. The model ends with the
  scan.
* `last_modified`, `ProfileEvents` counters, log lines, the text of exceptions.
* The start-up scan beyond its result (`Scanned`): the listing of the object
  storage, and where the files of a directory come from.
* The object storage beyond its markers, and the data objects of files: the
  file operations never touch the store.
* In `WriteBufferFromHDFS`: the contents of `next`, `finalize` and `cancel` of
  the base class beyond what this file relies on; the replication factor and
  the builder of the file system.
* In `PostgreSQLTableStructure`: `atttypid` and `atttypmod` (carried through
  unchanged), a lost connection, dropped or renamed columns, changes of the
  indexes by other sessions, the text of the statements.
* The marker writes through `WriteBufferFromHDFS`. The sources hold the
  operations and this one write buffer, and not the object storages that
  would join them: which buffer `object_storage->writeObject` returns is
  decided by an implementation of `IObjectStorage` outside the sources. The
  operations are modelled over the store of the design document, which puts
  an object as a whole when `finalize` returns and drops a buffer that was
  not finalized. `WriteBufferFromHDFS` is not such a buffer: its constructor
  truncates a file opened with `O_WRONLY` and its destructor stores what it holds
  (`DestroyedBufferIsFlushed`), so an owner that throws between `writeString`
  and `finalize`, as the two failpoints do, would have to `cancel()` it.
  Composing the two would model a configuration the sources do not show to
  exist.
* Torn writes: a marker is put or deleted as a whole.

What the modules take for granted of code outside the sources:

* What a marker buffer does when an exception unwinds it before `finalize`
  (the two failpoints, lines 84 and 188) is the store's: it drops what it
  holds or, for the kinds of `LostAnswers`, stores it. The passing runs take
  both for a create and the first for a move; a move whose marker is stored
  while `write_finalized` stays false is finding 5.
* `chassert` is the release build's: a failed one is passed over (lines 332
  and 393). The debug build's abort is the subject of run `file_undo`.
* `hdfsWrite` that does not fail takes at least one byte (section 9).
* `WriteBuffer::finalize` that throws leaves `canceled` as it was. The base
  class is not in the sources; if it cancels the buffer on a failure, the
  destructor's `finalize()` is skipped where the model has it run over an
  empty buffer, and the file is the same.
* `DataTypeFactory::instance().get` (line 113) returns the type it is asked
  for, so a numeric of precision above 76 ends at the `BAD_ARGUMENTS` of line
  126; the factory may well throw before that, with another code. The
  properties tell a call that threw from one that returned, not the codes of
  two throws at the same place.
* A `ReplicationTransaction` sees its snapshot for the existence of the table
  too. PostgreSQL resolves a name against the current catalog, so a `DROP`
  by another session may reach a snapshot reader as an undefined table;
  `SnapshotErrorsAreJustified` is stated under this assumption.
* `LibraryBridgeHelper`: it reads configuration and builds a command and a
  URI; there is no state and no decision to check.
