----------------------- MODULE PostgreSQLTableStructure -----------------------
(***************************************************************************)
(* Reading the structure of a PostgreSQL table:                            *)
(* src/Databases/PostgreSQL/fetchPostgreSQLTableStructure.cpp.             *)
(*                                                                         *)
(* fetchPostgreSQLTableStructure sends up to five kinds of statement over  *)
(* one transaction: which column says that a column is generated, the      *)
(* columns, for every array of unknown depth whether the table is empty    *)
(* and the depth of one row, the expressions of the generated columns, and *)
(* the columns of the primary key or of the replica identity index.  Other *)
(* sessions of the PostgreSQL server commit between these statements.  A   *)
(* ReadTransaction or a nontransaction sees what is committed when each    *)
(* statement starts; a ReplicationTransaction sees what was committed when *)
(* its first statement started.                                            *)
(*                                                                         *)
(* A type text of PostgreSQL is a record: the name, the modifier in        *)
(* parentheses (<<>> when there is none) and the number of trailing "[]".  *)
(* A ClickHouse type is a record: the wrappers from the outside in, the    *)
(* base type, and its precision and scale.                                 *)
(***************************************************************************)
EXTENDS Integers, Sequences, FiniteSets, SequencesExt, TLC

CONSTANTS
    Attributes,        \* the rows pg_attribute may hold for the table
    Rows,              \* the rows the table may hold: attname -> cell
    Versions,          \* the major versions the server may have
    TransactionKinds,  \* the T of the templates: "ReadTransaction", "ReplicationTransaction"
    SchemaArguments,   \* the postgres_schema arguments of fetchPostgreSQLTablesList
    pg_tables,         \* pg_catalog.pg_tables: records [schemaname, tablename]
    nullptr,           \* a ColumnsInfoPtr that points to nothing
    MaxColumns,        \* bound: columns of the table
    MaxRows,           \* bound: rows of the table
    MaxChanges         \* bound: statements other sessions commit during one call

ASSUME /\ \A a, b \in Attributes : a.attname = b.attname => a = b
       /\ MaxColumns \in Nat /\ MaxRows \in Nat /\ MaxChanges \in Nat

\* What a cell of an array column answers to "col IS NULL, array_ndims(col)":
\* NULL, an array without elements (array_ndims is NULL), or its dimensions.
NullArray  == -1
EmptyArray == 0

---------------------------------------------------------------------------
(* ClickHouse data types.                                                  *)

DataType(base, precision, scale) ==
    [wrappers |-> <<>>, base |-> base, precision |-> precision, scale |-> scale]

DataTypeNullable(nested) == [nested EXCEPT !.wrappers = <<"Nullable">> \o @]
DataTypeArray(nested)    == [nested EXCEPT !.wrappers = <<"Array">> \o @]
getNestedType(type)      == [type EXCEPT !.wrappers = Tail(@)]

\* while (dimensions--) res = std::make_shared<DataTypeArray>(res);
RECURSIVE Arrays(_, _)
Arrays(nested, dimensions) ==
    IF dimensions = 0 THEN nested ELSE Arrays(DataTypeArray(nested), dimensions - 1)

\* DecimalUtils::max_precision<T>
max_precision ==
    [Decimal32 |-> 9, Decimal64 |-> 18, Decimal128 |-> 38, Decimal256 |-> 76]

---------------------------------------------------------------------------
(* convertPostgreSQLDataType.  The answer is the type, whether             *)
(* recheck_array() was called, and the error code if it threw ("" if not). *)

Text(name) == [name |-> name, modifier |-> <<>>, brackets |-> 0]

\* The comparisons with a whole type text.
ExactTypes ==
    "smallint" :> "Int16" @@ "integer" :> "Int32" @@ "bigint" :> "Int64"
    @@ "boolean" :> "UInt8" @@ "real" :> "Float32" @@ "double precision" :> "Float64"
    @@ "serial" :> "UInt32" @@ "bigserial" :> "UInt64" @@ "date" :> "Date"
    @@ "uuid" :> "UUID"

\* type.starts_with("timestamp"): the names format_type gives that begin so.
Timestamps == {"timestamp without time zone", "timestamp with time zone"}

Converted(res, recheck) == [res |-> res, recheck |-> recheck, error |-> ""]
ConversionThrows(code)  == [res |-> DataType("", 0, 0), recheck |-> FALSE, error |-> code]

Decimal_ExclusiveLimits(precision, scale) ==
    CASE precision < max_precision.Decimal32 ->
           Converted(DataType("Decimal32", precision, scale), FALSE)
      [] precision \in max_precision.Decimal32 .. max_precision.Decimal64 - 1 ->
           Converted(DataType("Decimal64", precision, scale), FALSE)
      [] precision \in max_precision.Decimal64 .. max_precision.Decimal128 - 1 ->
           Converted(DataType("Decimal128", precision, scale), FALSE)
      [] precision \in max_precision.Decimal128 .. max_precision.Decimal256 - 1 ->
           Converted(DataType("Decimal256", precision, scale), FALSE)
      [] OTHER -> ConversionThrows("BAD_ARGUMENTS")

\* numeric(precision, scale): the first width whose limit is not below the
\* precision; BAD_ARGUMENTS when Decimal256 is too narrow.
Decimal(precision, scale) ==
    CASE precision <= max_precision.Decimal32 ->
           Converted(DataType("Decimal32", precision, scale), FALSE)
      [] precision \in max_precision.Decimal32 + 1 .. max_precision.Decimal64 ->
           Converted(DataType("Decimal64", precision, scale), FALSE)
      [] precision \in max_precision.Decimal64 + 1 .. max_precision.Decimal128 ->
           Converted(DataType("Decimal128", precision, scale), FALSE)
      [] precision \in max_precision.Decimal128 + 1 .. max_precision.Decimal256 ->
           Converted(DataType("Decimal256", precision, scale), FALSE)
      [] OTHER -> ConversionThrows("BAD_ARGUMENTS")

\* A numeric without a modifier is the widest Decimal128, half of it scale.
Numeric(modifier) ==
    IF modifier = <<>>
    THEN Converted(DataType("Decimal128", max_precision.Decimal128,
                            max_precision.Decimal128 \div 2), FALSE)
    ELSE Decimal(modifier[1], modifier[2])

\* The type of one element, before Nullable and Array are put around it.
Scalar(type) ==
    CASE type.modifier = <<>> /\ type.name \in DOMAIN ExactTypes ->
           Converted(DataType(ExactTypes[type.name], 0, 0), FALSE)
      [] type.name \in Timestamps -> Converted(DataType("DateTime64", 0, 6), FALSE)
      [] type.name = "numeric" -> Numeric(type.modifier)
      [] OTHER -> Converted(DataType("String", 0, 0), FALSE)

Wrap_NullableOutside(scalar, is_array, is_nullable, dimensions) ==
    LET arrays == IF is_array THEN Arrays(scalar, IF dimensions = 0 THEN 1 ELSE dimensions)
                  ELSE scalar
    IN  Converted(IF is_nullable THEN DataTypeNullable(arrays) ELSE arrays,
                  is_array /\ dimensions = 0)

\* Nullable goes around the element, the arrays around that; an array whose
\* attndims is 0 becomes a 1-d array and is put on the list to recheck.
Wrap(scalar, is_array, is_nullable, dimensions) ==
    LET res == IF is_nullable THEN DataTypeNullable(scalar) ELSE scalar
    IN  CASE ~is_array                   -> Converted(res, FALSE)
          [] is_array /\ dimensions = 0  -> Converted(DataTypeArray(res), TRUE)
          [] is_array /\ dimensions # 0  -> Converted(Arrays(res, dimensions), FALSE)

convertPostgreSQLDataType(type, is_nullable, dimensions) ==
    LET scalar == Scalar([type EXCEPT !.brackets = 0])
    IN  IF scalar.error # "" THEN scalar
        ELSE Wrap(scalar.res, type.brackets > 0, is_nullable, dimensions)

---------------------------------------------------------------------------
(* The PostgreSQL server.  An attribute is [attname, type, attnotnull,     *)
(* attndims, attrdef]: attrdef is "" when pg_attrdef has no row for the    *)
(* column, "d" for a default and "s" for a stored generated column, whose  *)
(* attgenerated is 's'.  Columns are added at the end and never dropped,   *)
(* so attnum is the position.  The expression of a column is written as    *)
(* its attname.                                                            *)

Cells == {NullArray, EmptyArray} \cup {a.attndims : a \in Attributes} \cup {1}

attnames(attributes) == {attributes[i].attname : i \in DOMAIN attributes}

\* A dropped table has no columns, no rows and no indexes.
Dropped(version) ==
    [exists |-> FALSE, version |-> version, attributes |-> <<>>, rows |-> {},
     indisprimary |-> {}, indisreplident |-> {}]

\* The states a table can be in: no generated column
\* before version 12, no NULL in a NOT NULL column, indexes on NOT NULL columns.
Databases ==
    LET Shapes == UNION {SetToSeqs(S) :
                     S \in {T \in SUBSET Attributes : Cardinality(T) \in 1 .. MaxColumns}}
        Keys(attributes) ==
            {{}} \cup {{attributes[i].attname} :
                         i \in {j \in DOMAIN attributes : attributes[j].attnotnull}}
    IN  {Dropped(v) : v \in Versions}
        \cup {d \in UNION {[exists : {TRUE}, version : Versions, attributes : {s},
                            rows : {R \in SUBSET Rows : Cardinality(R) <= MaxRows},
                            indisprimary : Keys(s), indisreplident : Keys(s)] : s \in Shapes} :
                /\ d.version < 12 => \A i \in DOMAIN d.attributes : d.attributes[i].attrdef # "s"
                /\ \A i \in DOMAIN d.attributes, row \in d.rows :
                       d.attributes[i].attnotnull => row[d.attributes[i].attname] # NullArray}

VARIABLES
    db,                      \* what is committed on the server
    snapshot,                \* what was committed when the first statement of tx started
    tx,                      \* the kind of transaction the call was given
    args,                    \* [use_nulls, with_primary_key, with_replica_identity_index]
    pc,                      \* the statement the call sends next; "start" and "done" around it
    query,                   \* which result readNamesAndTypesList is reading: the field of table
    generated,               \* the local of the same name: TRUE for "attgenerated", FALSE for "''"
    columns,                 \* the locals of readNamesAndTypesList
    attributes,
    recheck_arrays_indexes,
    table,                   \* the PostgreSQLTableStructure being filled
    outcome,                 \* "running", "returned", "listed" or the exception thrown
    postgres_schema,         \* the argument of fetchPostgreSQLTablesList
    tables,                  \* what fetchPostgreSQLTablesList returned
    changes,                 \* number of statements other sessions have committed
    present                  \* history: every row the table held during the call

vars == <<db, snapshot, tx, args, pc, query, generated, columns, attributes,
          recheck_arrays_indexes, table, outcome, postgres_schema, tables, changes, present>>

server == <<db, changes, present>>
call   == <<tx, args, snapshot, generated>>
locals == <<columns, attributes, recheck_arrays_indexes>>
lister == <<postgres_schema, tables>>

\* What a statement of the transaction sees.
View == IF tx = "ReplicationTransaction" THEN snapshot ELSE db

Fields == {"physical_columns", "primary_key_columns", "replica_identity_columns"}
NoTable == [f \in Fields |-> nullptr]

---------------------------------------------------------------------------
(* The results of the statements, over what the transaction sees.          *)

\* The columns statement, and the two index statements: the attributes in
\* the order of attnum, with attgenerated as the first statement named it.
Result(field) ==
    LET indexed == CASE field = "physical_columns"         -> attnames(View.attributes)
                     [] field = "primary_key_columns"      -> View.indisprimary
                     [] field = "replica_identity_columns" -> View.indisreplident
    IN  SelectSeq([i \in DOMAIN View.attributes |->
                      [attname      |-> View.attributes[i].attname,
                       type         |-> View.attributes[i].type,
                       attnotnull   |-> View.attributes[i].attnotnull,
                       attndims     |-> View.attributes[i].attndims,
                       attnum       |-> i,
                       attgenerated |-> IF generated /\ View.attributes[i].attrdef = "s"
                                        THEN "s" ELSE ""]],
                  LAMBDA row : row.attname \in indexed)

\* SELECT adnum, pg_get_expr(adbin, adrelid) FROM pg_attrdef
pg_attrdef ==
    {[adnum |-> i, generated_expression |-> View.attributes[i].attname] :
        i \in {j \in DOMAIN View.attributes : View.attributes[j].attrdef # ""}}

---------------------------------------------------------------------------
(* How a call ends, and what follows the return of readNamesAndTypesList.  *)

Throws(code) ==
    /\ outcome' = code
    /\ pc' = "done"
    /\ table' = NoTable
    /\ query' = ""
    /\ columns' = <<>> /\ attributes' = <<>> /\ recheck_arrays_indexes' = {}

\* if (with_replica_identity_index && !table.primary_key_columns)
WantsReplicaIdentity_WhateverTheKey(t) == args.with_replica_identity_index
WantsReplicaIdentity(t) ==
    args.with_replica_identity_index /\ t.primary_key_columns = nullptr

\* The index statement that follows the one just read, "" when none does.
KeyQuery(t, after) ==
    CASE after = "physical_columns" /\ args.with_primary_key -> "primary_key_columns"
      [] after = "physical_columns" /\ ~args.with_primary_key /\ WantsReplicaIdentity(t) ->
           "replica_identity_columns"
      [] after = "primary_key_columns" /\ WantsReplicaIdentity(t) -> "replica_identity_columns"
      [] OTHER -> ""

\* The statement after the physical columns are complete, or the return.
Proceeds(t, after) ==
    /\ table' = t
    /\ query' = KeyQuery(t, after)
    /\ pc' = IF KeyQuery(t, after) = "" THEN "done" ELSE "stream"
    /\ outcome' = IF KeyQuery(t, after) = "" THEN "returned" ELSE outcome
    /\ columns' = <<>> /\ attributes' = <<>> /\ recheck_arrays_indexes' = {}

\* What readNamesAndTypesList returns: nullptr when it read no column.
ColumnsInfo(cols, attrs) ==
    IF cols = <<>> THEN nullptr
    ELSE [columns |-> cols, attributes |-> attrs, names |-> <<>>]

\* readNamesAndTypesList returns to fetchPostgreSQLTableStructure, which throws
\* if there is no physical column, copies the names of the physical columns,
\* and asks for the expressions if one of them is generated.
Returns(cols, attrs) ==
    LET info == ColumnsInfo(cols, attrs)
        t == IF query = "physical_columns" /\ info # nullptr
             THEN [table EXCEPT ![query] =
                      [info EXCEPT !.names = [i \in DOMAIN cols |-> cols[i].name]]]
             ELSE [table EXCEPT ![query] = info]
    IN  CASE query = "physical_columns" /\ info = nullptr -> Throws("UNKNOWN_TABLE")
          [] query = "physical_columns" /\ info # nullptr
                /\ (\E n \in DOMAIN attrs : attrs[n].attgenerated = "s") ->
               /\ table' = t
               /\ pc' = "attrdef"
               /\ columns' = <<>> /\ attributes' = <<>> /\ recheck_arrays_indexes' = {}
               /\ UNCHANGED <<query, outcome>>
          [] OTHER -> Proceeds(t, query)

---------------------------------------------------------------------------
(* The call, one action for each statement it sends.                       *)

\* The first statement: the server's version decides how the columns
\* statement asks for attgenerated.
fetchPostgreSQLTableStructure ==
    /\ pc = "start"
    /\ snapshot' = db
    /\ generated' = (db.version >= 12)
    /\ pc' = "stream"
    /\ query' = "physical_columns"
    /\ UNCHANGED <<server, tx, args, locals, table, outcome, lister>>

\* recheck_arrays_indexes.insert(i), for the rows whose conversion asked for it.
recheck_array_Next(converted) == {i + 1 : i \in {j \in DOMAIN converted : converted[j].recheck}}
recheck_array(converted) == {i \in DOMAIN converted : converted[i].recheck}

\* readNamesAndTypesList up to stream.complete(): every row is converted as
\* it is read; the first conversion that throws ends the call.
readNamesAndTypesList ==
    /\ pc = "stream"
    /\ LET rows == Result(query)
           converted == [i \in DOMAIN rows |->
               IF query = "physical_columns"
               THEN convertPostgreSQLDataType(rows[i].type,
                        args.use_nulls /\ ~rows[i].attnotnull, rows[i].attndims)
               ELSE convertPostgreSQLDataType(rows[i].type, FALSE, 0)]
           thrown == {i \in DOMAIN rows : converted[i].error # ""}
           cols  == [i \in DOMAIN rows |-> [name |-> rows[i].attname, type |-> converted[i].res]]
           attrs == IF query = "physical_columns"
                    THEN [n \in attnames(rows) |->
                            LET row == CHOOSE r \in Range(rows) : r.attname = n
                            IN  [attnum |-> row.attnum, attgenerated |-> row.attgenerated,
                                 attr_def |-> ""]]
                    ELSE <<>>
       IN  CASE thrown # {} -> Throws(converted[Min(thrown)].error)
             [] thrown = {} /\ recheck_array(converted) = {} -> Returns(cols, attrs)
             [] OTHER ->
                  /\ columns' = cols
                  /\ attributes' = attrs
                  /\ recheck_arrays_indexes' = recheck_array(converted)
                  /\ pc' = "isTableEmpty"
                  /\ UNCHANGED <<query, table, outcome>>
    /\ UNCHANGED <<server, call, lister>>

\* SELECT NOT EXISTS (SELECT * FROM table LIMIT 1), for the next array to recheck.
isTableEmpty_NeverEmpty ==
    /\ pc = "isTableEmpty"
    /\ IF ~View.exists THEN Throws("UNKNOWN_TABLE")
       ELSE pc' = "array_ndims" /\ UNCHANGED <<query, table, outcome, locals>>
    /\ UNCHANGED <<server, call, lister>>

isTableEmpty ==
    /\ pc = "isTableEmpty"
    /\ CASE ~View.exists -> Throws("UNKNOWN_TABLE")
         [] View.exists /\ View.rows = {} -> Throws("BAD_ARGUMENTS")
         [] OTHER -> pc' = "array_ndims" /\ UNCHANGED <<query, table, outcome, locals>>
    /\ UNCHANGED <<server, call, lister>>

\* The column's type after the recheck: dimensions arrays around the element.
Rechecked_AroundTheArray(type, dimensions) == Arrays(type, dimensions)
Rechecked(type, dimensions) == Arrays(getNestedType(type), dimensions)

\* SELECT col IS NULL, array_ndims(col) FROM table LIMIT 1: the row is any row
\* of the table.  result[0] is not checked against the size of the result:
\* with no row there is nothing to read, and what the call then does is not
\* one of its error codes ("undefined").
array_ndims ==
    /\ pc = "array_ndims"
    /\ LET i == Min(recheck_arrays_indexes)
           later == recheck_arrays_indexes \ {i}
       IN  \/ /\ ~View.exists
              /\ Throws("UNKNOWN_TABLE")
           \/ /\ View.exists /\ View.rows = {}
              /\ Throws("undefined")
           \/ \E row \in View.rows :
                LET cell == row[columns[i].name]
                    cols == [columns EXCEPT ![i].type = Rechecked(@, cell)]
                IN  CASE cell \in {NullArray, EmptyArray} -> Throws("BAD_ARGUMENTS")
                      [] cell > 0 /\ later = {} -> Returns(cols, attributes)
                      [] OTHER ->
                           /\ columns' = cols
                           /\ recheck_arrays_indexes' = later
                           /\ pc' = "isTableEmpty"
                           /\ UNCHANGED <<attributes, query, table, outcome>>
    /\ UNCHANGED <<server, call, lister>>

\* The expressions found for the generated columns: the row of pg_attrdef
\* whose adnum is the column's attnum; the other columns are passed over.
attr_defs_OfEveryColumn(attrs, result) ==
    [n \in DOMAIN attrs |->
        IF \E row \in result : row.adnum = attrs[n].attnum
        THEN [attrs[n] EXCEPT !.attr_def =
                (CHOOSE row \in result : row.adnum = attrs[n].attnum).generated_expression]
        ELSE attrs[n]]

attr_defs(attrs, result) ==
    [n \in DOMAIN attrs |->
        IF attrs[n].attgenerated = "s" /\ \E row \in result : row.adnum = attrs[n].attnum
        THEN [attrs[n] EXCEPT !.attr_def =
                (CHOOSE row \in result : row.adnum = attrs[n].attnum).generated_expression]
        ELSE attrs[n]]

\* The statement on pg_attrdef, sent when a physical column is generated.
attrdef ==
    /\ pc = "attrdef"
    /\ IF Cardinality(pg_attrdef) > Len(table.physical_columns.names)
       THEN Throws("LOGICAL_ERROR")
       ELSE Proceeds([table EXCEPT !.physical_columns.attributes = attr_defs(@, pg_attrdef)],
                     "physical_columns")
    /\ UNCHANGED <<server, call, lister>>

---------------------------------------------------------------------------
(* fetchPostgreSQLTablesList.  postgres_schema is the sequence of its      *)
(* parts between commas; a part is [name, padded], padded when it has      *)
(* white space around the name.  A schema of pg_tables is never padded.    *)

trim(key) == [key EXCEPT !.padded = FALSE]
Schema(name) == [name |-> name, padded |-> FALSE]

\* SELECT tablename FROM pg_catalog.pg_tables WHERE schemaname = ...
tablenames(schemaname) == {t.tablename : t \in {u \in pg_tables : u.schemaname = schemaname}}

\* if (schemas.size() <= 1)
OneSchema_None(schemas) == Len(schemas) < 1
OneSchema(schemas) == Len(schemas) <= 1

fetchPostgreSQLTablesList ==
    /\ pc = "start"
    /\ \E argument \in SchemaArguments :
         LET schemas == [i \in DOMAIN argument |-> trim(argument[i])]
         IN  /\ postgres_schema' = argument
             /\ tables' =
                  IF OneSchema(schemas)
                  THEN {[schema |-> "", tablename |-> n] :
                          n \in tablenames(IF argument = <<Schema("")>>
                                           THEN Schema("public") ELSE argument[1])}
                  ELSE UNION {{[schema |-> schemas[i].name, tablename |-> n] :
                                 n \in tablenames(schemas[i])} : i \in DOMAIN schemas}
    /\ pc' = "done"
    /\ outcome' = "listed"
    /\ UNCHANGED <<server, call, locals, query, table>>

---------------------------------------------------------------------------
(* The other sessions.  They commit while the call is between two of its   *)
(* statements; what they did before the call is an initial state.          *)

Commits(d) ==
    /\ pc \notin {"start", "done"}
    /\ changes < MaxChanges
    /\ db.exists
    /\ db' = d
    /\ changes' = changes + 1
    /\ present' = present \cup d.rows
    /\ UNCHANGED <<call, locals, lister, pc, query, table, outcome>>

Insert ==
    \E row \in Rows \ db.rows :
        /\ Cardinality(db.rows) < MaxRows
        /\ \A i \in DOMAIN db.attributes :
               db.attributes[i].attnotnull => row[db.attributes[i].attname] # NullArray
        /\ Commits([db EXCEPT !.rows = @ \cup {row}])

Delete ==
    \E row \in db.rows : Commits([db EXCEPT !.rows = @ \ {row}])

AddColumn ==
    \E a \in Attributes :
        /\ a.attname \notin attnames(db.attributes)
        /\ Len(db.attributes) < MaxColumns
        /\ a.attrdef = "s" => db.version >= 12
        /\ a.attnotnull => \A row \in db.rows : row[a.attname] # NullArray
        /\ Commits([db EXCEPT !.attributes = Append(@, a)])

DropTable == Commits(Dropped(db.version))

---------------------------------------------------------------------------

Init ==
    /\ db \in Databases
    /\ snapshot = db
    /\ tx \in TransactionKinds
    /\ args \in [use_nulls : BOOLEAN, with_primary_key : BOOLEAN,
                 with_replica_identity_index : BOOLEAN]
    /\ pc = "start"
    /\ query = ""
    /\ generated = FALSE
    /\ columns = <<>> /\ attributes = <<>> /\ recheck_arrays_indexes = {}
    /\ table = NoTable
    /\ outcome = "running"
    /\ postgres_schema = <<>>
    /\ tables = {}
    /\ changes = 0
    /\ present = db.rows

Next ==
    \/ fetchPostgreSQLTableStructure
    \/ readNamesAndTypesList
    \/ isTableEmpty
    \/ array_ndims
    \/ attrdef
    \/ fetchPostgreSQLTablesList
    \/ Insert
    \/ Delete
    \/ AddColumn
    \/ DropTable

Spec == Init /\ [][Next]_vars

---------------------------------------------------------------------------
(* Properties.                                                             *)

Attribute(attname) == CHOOSE a \in Attributes : a.attname = attname
Depth(type) == Cardinality({k \in DOMAIN type.wrappers : type.wrappers[k] = "Array"})
Infos == {table[f] : f \in Fields} \ {nullptr}

\* Every column the call holds: the ones being read and the ones of the table.
Held == Range(columns) \cup UNION {Range(info.columns) : info \in Infos}

\* The values the variables take.  An index to recheck is the index of a column
\* that was read, and its type is an array: the assert_cast of the recheck.
TypeOK ==
    /\ db.exists \in BOOLEAN /\ db.version \in Versions
    /\ Range(db.attributes) \subseteq Attributes /\ Len(db.attributes) <= MaxColumns
    /\ db.rows \subseteq Rows /\ Cardinality(db.rows) <= MaxRows
    /\ tx \in TransactionKinds
    /\ pc \in {"start", "stream", "isTableEmpty", "array_ndims", "attrdef", "done"}
    /\ query \in Fields \cup {""}
    /\ generated \in BOOLEAN
    /\ outcome \in {"running", "returned", "listed", "UNKNOWN_TABLE", "BAD_ARGUMENTS",
                    "LOGICAL_ERROR", "undefined"}
    /\ recheck_arrays_indexes \subseteq DOMAIN columns
    /\ \A i \in recheck_arrays_indexes :
           columns[i].type.wrappers # <<>> /\ Head(columns[i].type.wrappers) = "Array"
    /\ \A c \in Held : c.type.wrappers \in Seq({"Array", "Nullable"})
    /\ DOMAIN table = Fields
    /\ changes \in 0 .. MaxChanges
    /\ present \subseteq Rows

\* "Nullable(Array) is not supported": in every type the call builds, from the
\* columns statement or from a recheck, Nullable is around the element only,
\* never around an array.
ArraysAreNeverNullable ==
    \A c \in Held :
        \A k \in DOMAIN c.type.wrappers :
            c.type.wrappers[k] = "Nullable" => k = Len(c.type.wrappers)

\* The depth the call gives an array whose attndims says nothing (and every
\* array of a key) is the array_ndims of a row the table held during the call,
\* whatever other sessions inserted or deleted between the statements.
RecheckedDepthWasInTheTable ==
    \A f \in Fields :
        table[f] # nullptr =>
            \A c \in Range(table[f].columns) :
                /\ Attribute(c.name).type.brackets > 0
                /\ f = "physical_columns" => Attribute(c.name).attndims = 0
                => \E row \in present : row[c.name] = Depth(c.type)

\* An expression is attached to generated columns only, and it is the one
\* pg_attrdef has for this column, not the default of another one.
OnlyGeneratedColumnsCarryTheirExpression ==
    table.physical_columns # nullptr =>
        \A n \in DOMAIN table.physical_columns.attributes :
            table.physical_columns.attributes[n].attr_def # ""
                => /\ table.physical_columns.attributes[n].attr_def = n
                   /\ Attribute(n).attrdef = "s"

---------------------------------------------------------------------------
(* What the call promises of one state of the server: the structure of     *)
(* the table as the catalog and the rows of that state give it.            *)

\* The depths a statement may find for an array: attndims when it is given
\* and trusted (the physical columns), else the array_ndims of any row.
Depths(v, a, trusted) ==
    CASE a.type.brackets = 0 -> {0}
      [] a.type.brackets > 0 /\ trusted /\ a.attndims # 0 -> {a.attndims}
      [] OTHER -> {row[a.attname] : row \in v.rows} \ {NullArray, EmptyArray}

\* column is the column of attribute a: the element, Nullable around it if
\* asked for and the attribute may be NULL, and arrays of one of the depths.
IsColumnOf(v, column, a, physical) ==
    /\ column.name = a.attname
    /\ Depth(column.type) \in Depths(v, a, physical)
    /\ column.type.wrappers =
          [k \in 1 .. Depth(column.type) |-> "Array"]
          \o (IF physical /\ args.use_nulls /\ ~a.attnotnull THEN <<"Nullable">> ELSE <<>>)
    /\ [column.type EXCEPT !.wrappers = <<>>] = Scalar([a.type EXCEPT !.brackets = 0]).res

\* info is what the attributes named in indexed give, in the order of attnum.
IsInfoOf(v, info, indexed, physical) ==
    LET rows == SelectSeq(v.attributes, LAMBDA a : a.attname \in indexed)
    IN  IF rows = <<>> THEN info = nullptr
        ELSE /\ info # nullptr
             /\ DOMAIN info.columns = DOMAIN rows
             /\ \A i \in DOMAIN rows : IsColumnOf(v, info.columns[i], rows[i], physical)
             /\ physical =>
                  /\ info.names = [i \in DOMAIN rows |-> rows[i].attname]
                  /\ info.attributes =
                       [n \in attnames(rows) |->
                          [attnum |-> CHOOSE i \in DOMAIN v.attributes : v.attributes[i].attname = n,
                           attgenerated |-> IF Attribute(n).attrdef = "s" THEN "s" ELSE "",
                           attr_def |-> IF Attribute(n).attrdef = "s" THEN n ELSE ""]]

IsStructureOf(v, t) ==
    /\ v.exists
    /\ IsInfoOf(v, t.physical_columns, attnames(v.attributes), TRUE)
    /\ IsInfoOf(v, t.primary_key_columns,
                IF args.with_primary_key THEN v.indisprimary ELSE {}, FALSE)
    /\ IsInfoOf(v, t.replica_identity_columns,
                IF args.with_replica_identity_index
                   /\ (args.with_primary_key => v.indisprimary = {})
                THEN v.indisreplident ELSE {}, FALSE)

\* What makes the call refuse a table: a numeric too wide for Decimal256, or
\* an array to recheck in a table that is empty or has a row where the array
\* is NULL or has no elements.
IsRefused(v) ==
    \/ \E a \in Range(v.attributes) : Scalar([a.type EXCEPT !.brackets = 0]).error # ""
    \/ \E a \in Range(v.attributes) :
          /\ a.type.brackets > 0
          /\ \/ a.attndims = 0
             \/ args.with_primary_key /\ a.attname \in v.indisprimary
             \/ args.with_replica_identity_index /\ a.attname \in v.indisreplident
          /\ \/ v.rows = {}
             \/ \E row \in v.rows : row[a.attname] \in {NullArray, EmptyArray}

\* Over a ReplicationTransaction the call reads one state of the server: the
\* table it returns is the structure of the table as it was when the first
\* statement started, whatever was committed while the call went on: columns
\* in the order of attnum, types, expressions of the generated columns, the
\* primary key, and the replica identity only when there is no primary key.
SnapshotReadIsConsistent ==
    tx = "ReplicationTransaction" /\ outcome = "returned" => IsStructureOf(snapshot, table)

\* Over a ReplicationTransaction every exception has its cause in that state:
\* UNKNOWN_TABLE when the table is not there, BAD_ARGUMENTS when the table is
\* one the call refuses; the exceptions that say the statements disagreed with
\* each other (LOGICAL_ERROR, a result without rows) do not happen.
SnapshotErrorsAreJustified ==
    tx = "ReplicationTransaction" =>
        /\ outcome = "UNKNOWN_TABLE" => ~snapshot.exists
        /\ outcome = "BAD_ARGUMENTS" => IsRefused(snapshot)
        /\ outcome \notin {"LOGICAL_ERROR", "undefined"}

\* A Decimal column has the narrowest of the four widths that holds the
\* precision of the numeric: the limits of the widths are inclusive.
DecimalIsNarrowestThatFits ==
    \A c \in Held :
        c.type.base \in DOMAIN max_precision =>
            \A d \in DOMAIN max_precision :
                c.type.precision <= max_precision[d]
                    <=> max_precision[c.type.base] <= max_precision[d]

\* The index statements give no attndims, so an array of a key takes its depth
\* from a row (readNamesAndTypesList, only_names_and_types) where the same
\* column among the physical columns trusts attndims.  The two conversions of
\* one column agree whenever the rows the table held during the call all have
\* the array at one depth, and at the declared one where attndims declares it;
\* PostgreSQL does not enforce that, and otherwise the types may differ.
DepthIsSettled(a) ==
    \A row, other \in present :
        /\ row[a.attname] = other[a.attname]
        /\ a.attndims # 0 => row[a.attname] = a.attndims

KeyTypeIsTheColumnType ==
    \A f \in Fields \ {"physical_columns"} :
        table[f] # nullptr =>
            \A key \in Range(table[f].columns) :
                Attribute(key.name).type.brackets > 0 /\ DepthIsSettled(Attribute(key.name))
                    => key \in Range(table.physical_columns.columns)

\* "We add schema to table name only in case of multiple schemas": the list is
\* exactly the tables pg_tables has in the schemas of the argument, none left
\* out and none added, bare for one schema (public when the argument is empty)
\* and with its schema for several.  White space around a schema is ignored
\* where there are several; a single schema is looked up as it is written,
\* because the statement of that branch is built from the argument and not
\* from the trimmed keys.
ListIsTheTablesOfTheSchemas ==
    outcome = "listed" =>
        LET several == Len(postgres_schema) > 1
            asked == CASE postgres_schema = <<Schema("")>> -> {Schema("public")}
                       [] several -> {trim(key) : key \in Range(postgres_schema)}
                       [] OTHER -> {postgres_schema[1]}
        IN  tables = {[schema |-> IF several THEN t.schemaname.name ELSE "",
                       tablename |-> t.tablename] :
                        t \in {u \in pg_tables : u.schemaname \in asked}}

\* "If the relation is empty ... ClickHouse cannot support this use case": the
\* call answers an empty relation with BAD_ARGUMENTS; it never asks a result
\* without rows for its first row.
EmptyRelationIsReported ==
    outcome # "undefined"

\* The columns fetched cover the rows of pg_attrdef: the LOGICAL_ERROR that
\* says otherwise is never thrown.
FetchedColumnsCoverAttrdef ==
    outcome # "LOGICAL_ERROR"

=============================================================================
