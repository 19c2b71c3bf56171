SPECIFICATION Spec
CONSTANTS
    Attributes <- SixColumns
    Rows <- FourRows
    Versions = {11, 12}
    TransactionKinds = {"ReadTransaction", "ReplicationTransaction"}
    SchemaArguments <- SomeSchemaArguments
    pg_tables <- SomeTables
    nullptr = nullptr
    MaxColumns = 2
    MaxRows = 2
    MaxChanges = 1
CHECK_DEADLOCK FALSE
INVARIANT TypeOK
INVARIANT ArraysAreNeverNullable
INVARIANT RecheckedDepthWasInTheTable
INVARIANT OnlyGeneratedColumnsCarryTheirExpression
INVARIANT SnapshotReadIsConsistent
INVARIANT SnapshotErrorsAreJustified
INVARIANT KeyTypeIsTheColumnType
INVARIANT ListIsTheTablesOfTheSchemas
