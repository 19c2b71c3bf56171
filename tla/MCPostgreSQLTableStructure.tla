---------------------- MODULE MCPostgreSQLTableStructure ----------------------
(***************************************************************************)
(* PostgreSQLTableStructure for model checking: a table of up to two of    *)
(* six columns and up to two of four rows.                                 *)
(***************************************************************************)
EXTENDS PostgreSQLTableStructure

Column(name, type, notnull, dims, def) ==
    [attname |-> name, type |-> type, attnotnull |-> notnull,
     attndims |-> dims, attrdef |-> def]

ArrayOf(name) == [Text(name) EXCEPT !.brackets = 1]

\* A key, a numeric that may be NULL, an array whose attndims is 0, an array
\* declared with two dimensions that may be a key, a generated column and a
\* column with a default.
SixColumns ==
    {Column("id", Text("integer"), TRUE, 0, ""),
     Column("price", [Text("numeric") EXCEPT !.modifier = <<10, 2>>], FALSE, 0, ""),
     Column("tags", ArrayOf("text"), FALSE, 0, ""),
     Column("grid", ArrayOf("integer"), TRUE, 2, ""),
     Column("total", Text("bigint"), FALSE, 0, "s"),
     Column("seq", Text("bigint"), TRUE, 0, "d")}

\* Rows by the array_ndims of tags and grid; the other columns are not asked.
Row(tags, grid) == [n \in {a.attname : a \in SixColumns} |->
                      CASE n = "tags" -> tags [] n = "grid" -> grid [] OTHER -> 1]

FourRows == {Row(1, 2), Row(2, 1), Row(NullArray, 2), Row(EmptyArray, 2)}

SomeSchemaArguments ==
    {<<Schema("")>>, <<Schema("s1")>>, <<[name |-> "s1", padded |-> TRUE]>>,
     <<Schema("s1"), [name |-> "s2", padded |-> TRUE]>>, <<Schema("public"), Schema("")>>}

SomeTables ==
    {[schemaname |-> Schema(s[1]), tablename |-> s[2]] :
        s \in {<<"public", "t">>, <<"s1", "t">>, <<"s1", "u">>, <<"s2", "u">>}}
=============================================================================
