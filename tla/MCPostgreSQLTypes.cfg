SPECIFICATION Spec
CONSTANTS
    Attributes <- EveryType
    Rows <- OneRow
    Versions = {12}
    TransactionKinds = {"ReadTransaction", "ReplicationTransaction"}
    SchemaArguments <- NoSchemaArguments
    pg_tables <- NoTables
    nullptr = nullptr
    MaxColumns = 1
    MaxRows = 1
    MaxChanges = 0
CHECK_DEADLOCK FALSE
INVARIANT DecimalIsNarrowestThatFits
