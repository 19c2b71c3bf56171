-------------------------- MODULE MCPostgreSQLTypes --------------------------
(***************************************************************************)
(* PostgreSQLTableStructure for model checking the conversion of types: a  *)
(* table of one column, of every type name the conversion tells apart and  *)
(* of a numeric at both sides of every limit of the Decimal widths, as a   *)
(* scalar and as an array.  No other session commits.                      *)
(***************************************************************************)
EXTENDS PostgreSQLTableStructure

Numbered(precision) == [Text("numeric") EXCEPT !.modifier = <<precision, 2>>]

TypeTexts ==
    <<Text("smallint"), Text("integer"), Text("bigint"), Text("boolean"), Text("real"),
      Text("double precision"), Text("serial"), Text("bigserial"),
      Text("timestamp without time zone"), Text("timestamp with time zone"),
      Text("date"), Text("uuid"), Text("numeric"), Text("text"),
      [Text("character varying") EXCEPT !.modifier = <<10>>],
      Numbered(9), Numbered(10), Numbered(18), Numbered(19),
      Numbered(38), Numbered(39), Numbered(76), Numbered(77)>>

Names ==
    <<"c01", "c02", "c03", "c04", "c05", "c06", "c07", "c08", "c09", "c10", "c11", "c12",
      "c13", "c14", "c15", "c16", "c17", "c18", "c19", "c20", "c21", "c22", "c23">>

\* Every third column is an array of declared depth 2, every second may be NULL.
EveryType ==
    {[attname |-> Names[i],
      type |-> [TypeTexts[i] EXCEPT !.brackets = IF i % 3 = 0 THEN 1 ELSE 0],
      attnotnull |-> i % 2 = 0,
      attndims |-> IF i % 3 = 0 THEN 2 ELSE 0,
      attrdef |-> ""] : i \in DOMAIN TypeTexts}

OneRow == {[n \in Range(Names) |-> 2]}

NoSchemaArguments == {<<Schema("")>>}
NoTables == {}
=============================================================================
