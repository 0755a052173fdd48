------------------------------ MODULE SqlNodes ------------------------------
(***************************************************************************)
(* The nodes of the parse tree: the structs of src/src/sql/sql_node_struct.h *)
(* and the constructors of src/src/sql/function.cpp that allocate them.     *)
(*                                                                         *)
(* A node is abstracted to <<struct, tag>>: the struct it was allocated as  *)
(* and the nodetype stored in it, the only thing a reader can look at       *)
(* before it casts.                                                         *)
(***************************************************************************)
EXTENDS Integers, Sequences, TLC

\* The fields of a struct by what they hold: Node*, char*, and numbers.
Struct(nodes, chars, ints) == [node |-> nodes, char |-> chars, int |-> ints]

\* A constructor: the struct it allocates and the fields it fills from its
\* parameters, in their order (the nodetype, always first, is left out).
New(struct, fields) == [struct |-> struct, fields |-> fields]

-----------------------------------------------------------------------------
\* The structs.  Stmt.list stands for the list newStmt appends to, whose
\* last->next and last it writes; Stmt.next and Stmt.last only ever hold
\* statements of that list.
QueryStructs ==
    [Stmt |-> Struct({"data", "list"}, {}, {}),
     Expr |-> Struct({}, {"data"}, {}),
     Expr_list_header |-> Struct({"header", "tail"}, {}, {}),
     Expr_list |-> Struct({"data", "next"}, {}, {}),
     Columns |-> Struct({"next"}, {"parameter1", "parameter2"}, {}),
     Expr_cal |-> Struct({"lnext", "rnext"}, {"str", "sign", "parameter"}, {"cmp"}),
     Expr_func |-> Struct({"args", "parameter1", "parameter2", "next"}, {"str",
             "funname"}, {}),
     Table |-> Struct({"subquery", "whcdn"}, {"dbname", "tablename", "astablename"},
             {"issubquery"}),
     Join |-> Struct({"lnext", "rnext", "condition"}, {}, {"jointype"}),
     Condition |-> Struct({"args"}, {}, {"conditiontype"}),
     Subquery |-> Struct({"next"}, {"querystring"}, {})]

ClauseStructs ==
    [Query_stmt |-> Struct({"select_list", "from_list", "where_list",
             "groupby_list", "having_list", "orderby_list", "limit_list",
             "into_list"}, {"querystring"}, {"select_opts"}),
     Select_list |-> Struct({"args", "next"}, {}, {"isall"}),
     Select_expr |-> Struct({"colname"}, {"ascolname"}, {}),
     From_list |-> Struct({"args", "next", "whcdn"}, {}, {}),
     From_expr |-> Struct({"next"}, {"astablename"}, {}),
     Where_list |-> Struct({"next"}, {"wherestring"}, {}),
     Groupby_list |-> Struct({"next"}, {"groupbystring"}, {"with_rollup"}),
     Groupby_expr |-> Struct({"args", "next"}, {}, {"sorttype"}),
     Having_list |-> Struct({"next"}, {"havingstring"}, {}),
     Orderby_list |-> Struct({"next"}, {"orderbystring"}, {}),
     Orderby_expr |-> Struct({"args", "next"}, {"sorttype"}, {}),
     Limit_expr |-> Struct({"offset", "row_count"}, {}, {})]

InsertStructs ==
    [Insert_stmt |-> Struct({"col_list", "insert_val_list", "insert_assign_list",
             "insert_assign_list_from_set", "select_stmt"}, {"tablename"},
             {"insert_opt"}),
     Insert_val_list |-> Struct({"insert_vals", "next"}, {}, {}),
     Insert_vals |-> Struct({"expr", "next"}, {}, {"value_type"}),
     Insert_assign_list |-> Struct({"expr", "next"}, {"col_name"}, {"value_type"})]

DefinitionStructs ==
    [Create_database_stmt |-> Struct({}, {"name"}, {"create_type", "check"}),
     Create_table_stmt |-> Struct({"list", "select_stmt"}, {"name1", "name2"},
             {"create_type", "check"}),
     Create_col_list |-> Struct({"data", "next"}, {}, {}),
     Create_def |-> Struct({"datatype", "col_atts", "col_list"}, {"name"},
             {"deftype"}),
     Column_atts |-> Struct({"col_list"}, {"s"}, {"datatype", "num1", "num2"}),
     Create_select_stmt |-> Struct({"select_stmt"}, {}, {"ignore_replace",
             "temporary"}),
     Create_projection_stmt |-> Struct({"column_list"}, {"tablename",
             "partition_attribute_name"}, {"partition_num"}),
     Do_stmt |-> Struct({"data"}, {}, {}),
     Truncate_stmt |-> Struct({}, {"name"}, {}),
     Alterdatabase_stmt |-> Struct({"opt"}, {"name"}, {"createtype"}),
     Opt_csc |-> Struct({}, {"s1", "s2"}, {"datatype"}),
     Altertable_stmt |-> Struct({"parameter"}, {"name"}, {"isignore"}),
     Alter_def |-> Struct({"parameter", "next"}, {"name1", "name2"}, {"altertype",
             "datatype", "coltype"})]

TypeStructs ==
    [Createindex_stmt |-> Struct({"index_col_name"}, {"index_name", "table_name"},
             {"index_att", "index_type"}),
     Index_col_list |-> Struct({"length", "next"}, {"name"}, {"asc_desc"}),
     Dropindex_stmt |-> Struct({}, {"index_name", "table_name"}, {}),
     Dropdatabase_stmt |-> Struct({}, {"name"}, {"droptype", "check"}),
     Droptable_stmt |-> Struct({"table_list"}, {}, {"is_temp", "is_check",
             "option_rc"}),
     Tablelist |-> Struct({"next"}, {"name1", "name2"}, {}),
     Loadtable_stmt |-> Struct({"path"}, {"table_name", "column_separator",
             "tuple_separator"}, {}),
     Datatype |-> Struct({"length", "opt_csc", "enum_list"}, {}, {"datatype",
             "opt_uz", "isbinary"}),
     Length |-> Struct({}, {}, {"data1", "data2"}),
     enum_list |-> Struct({"next"}, {"s"}, {}),
     Show_stmt |-> Struct({}, {"database_name", "like_string"}, {"full",
             "show_type"})]

\* Every struct the constructors allocate.
Structs ==
    QueryStructs @@ ClauseStructs @@ InsertStructs @@ DefinitionStructs @@ TypeStructs

-----------------------------------------------------------------------------
\* The constructors, in the order of function.cpp.  newTable and newFromList
\* also hang an empty Expr_list_header in whcdn: see OwnedHeader.
ExpressionNodes ==
    [newStmt |-> New("Stmt", <<"list", "data">>),
     newExpr |-> New("Expr", <<"data">>),
     newExprList |-> New("Expr_list", <<"data", "next">>),
     newColumn |-> New("Columns", <<"parameter1", "parameter2", "next">>),
     newExprCal |-> New("Expr_cal", <<"sign", "parameter", "cmp", "lnext",
             "rnext">>),
     newExprFunc |-> New("Expr_func", <<"funname", "args", "parameter1",
             "parameter2", "next">>),
     newExprlistheader |-> New("Expr_list_header", <<"header", "tail">>)]

QueryNodes ==
    [newTable |-> New("Table", <<"dbname", "tablename", "astablename", "issubquery",
             "subquery">>),
     newJoin |-> New("Join", <<"jointype", "lnext", "rnext", "condition">>),
     newCondition |-> New("Condition", <<"conditiontype", "args">>),
     newSubquery |-> New("Subquery", <<"querystring", "next">>),
     newQueryStmt |-> New("Query_stmt", <<"querystring", "select_opts",
             "select_list", "from_list", "where_list", "groupby_list",
             "having_list", "orderby_list", "limit_list", "into_list">>),
     newSelectList |-> New("Select_list", <<"isall", "args", "next">>),
     newSelectExpr |-> New("Select_expr", <<"ascolname", "colname">>)]

\* FromNodesSwapped is newFromList with its two assignments exchanged.
FromNodesSwapped ==
    [newFromList |-> New("From_list", <<"next", "args">>),
     newFromExpr |-> New("From_expr", <<"astablename", "next">>),
     newWhereList |-> New("Where_list", <<"wherestring", "next">>),
     newGroupbyList |-> New("Groupby_list", <<"groupbystring", "next",
             "with_rollup">>),
     newGroupbyExpr |-> New("Groupby_expr", <<"args", "sorttype", "next">>),
     newHavingList |-> New("Having_list", <<"havingstring", "next">>)]

FromNodes ==
    [newFromList |-> New("From_list", <<"args", "next">>),
     newFromExpr |-> New("From_expr", <<"astablename", "next">>),
     newWhereList |-> New("Where_list", <<"wherestring", "next">>),
     newGroupbyList |-> New("Groupby_list", <<"groupbystring", "next",
             "with_rollup">>),
     newGroupbyExpr |-> New("Groupby_expr", <<"args", "sorttype", "next">>),
     newHavingList |-> New("Having_list", <<"havingstring", "next">>)]

OrderNodes ==
    [newOrderbyList |-> New("Orderby_list", <<"orderbystring", "next">>),
     newOrderbyExpr |-> New("Orderby_expr", <<"args", "sorttype", "next">>),
     newLimitExpr |-> New("Limit_expr", <<"offset", "row_count">>),
     newInsertStmt |-> New("Insert_stmt", <<"insert_opt", "tablename", "col_list",
             "insert_val_list", "insert_assign_list", "insert_assign_list_from_set",
             "select_stmt">>),
     newInsertValueList |-> New("Insert_val_list", <<"insert_vals", "next">>),
     newInsertVals |-> New("Insert_vals", <<"value_type", "expr", "next">>),
     newInsertAssignList |-> New("Insert_assign_list", <<"col_name", "value_type",
             "expr", "next">>)]

CreateNodes ==
    [newCreateDatabaseStmt |-> New("Create_database_stmt", <<"create_type", "check",
             "name">>),
     newCreateTableStmt |-> New("Create_table_stmt", <<"create_type", "check",
             "name1", "name2", "list", "select_stmt">>),
     newCreateColList |-> New("Create_col_list", <<"data", "next">>),
     newCreateDef |-> New("Create_def", <<"deftype", "name", "datatype", "col_atts",
             "col_list">>),
     newColumnAtts |-> New("Column_atts", <<"datatype", "num1", "num2", "s",
             "col_list">>),
     newCreateSelectStmt |-> New("Create_select_stmt", <<"ignore_replace",
             "temporary", "select_stmt">>),
     newCreateProjectionStmt |-> New("Create_projection_stmt", <<"tablename",
             "column_list", "partition_num", "partition_attribute_name">>)]

AlterNodes ==
    [newDoStmt |-> New("Do_stmt", <<"data">>),
     newTruncateStmt |-> New("Truncate_stmt", <<"name">>),
     newAlterDatabaseStmt |-> New("Alterdatabase_stmt", <<"createtype", "name",
             "opt">>),
     newOptCsc |-> New("Opt_csc", <<"datatype", "s1", "s2">>),
     newAlterTableStmt |-> New("Altertable_stmt", <<"isignore", "name",
             "parameter">>),
     newAlterDef |-> New("Alter_def", <<"altertype", "name1", "name2", "datatype",
             "coltype", "parameter", "next">>)]

DatatypeNodes ==
    [newDatatype |-> New("Datatype", <<"datatype", "length", "opt_uz", "opt_csc",
             "isbinary", "enum_list">>),
     newLength |-> New("Length", <<"data1", "data2">>),
     newEnumList |-> New("enum_list", <<"s", "next">>),
     newCreateIndex |-> New("Createindex_stmt", <<"index_att", "index_name",
             "index_type", "table_name", "index_col_name">>),
     newIndexColList |-> New("Index_col_list", <<"name", "length", "asc_desc",
             "next">>),
     newDropIndex |-> New("Dropindex_stmt", <<"index_name", "table_name">>),
     newDropDatabase |-> New("Dropdatabase_stmt", <<"droptype", "check", "name">>)]

TableNodes ==
    [newDropTable |-> New("Droptable_stmt", <<"is_temp", "is_check", "option_rc",
             "table_list">>),
     newLoadTable |-> New("Loadtable_stmt", <<"table_name", "path",
             "column_separator", "tuple_separator">>),
     newTableList |-> New("Tablelist", <<"name1", "name2", "next">>),
     newShowStmt |-> New("Show_stmt", <<"show_type", "full", "database_name",
             "like_string">>)]

Constructors ==
    ExpressionNodes @@ QueryNodes @@ FromNodes @@ OrderNodes @@ CreateNodes
        @@ AlterNodes @@ DatatypeNodes @@ TableNodes

\* The constructors that allocate a header of their own.
OwnedHeader == {"newTable", "newFromList"}
Header == <<"Expr_list_header", "t_expr_list_header">>
=============================================================================
