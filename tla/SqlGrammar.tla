----------------------------- MODULE SqlGrammar -----------------------------
(***************************************************************************)
(* The grammar rules and their actions: the switch of yyuserAction in       *)
(* src/src/sql/sql.tab.cpp, with each rule's left and right hand side as    *)
(* the tables yyr1, yyprhs and yyrhs give them.  One definition per stretch *)
(* of the switch; rules that act alike are grouped.                         *)
(*                                                                         *)
(* An action is abstracted to where its semantic value comes from and which *)
(* right hand side value it stores in which parameter of a constructor.     *)
(* Literal texts, option bits and operator names are left out, and so are   *)
(* the emit, printf and puts calls.  The flags an action computes with |,   *)
(* and the numbers it stores in place, are one number.                      *)
(***************************************************************************)
EXTENDS SqlLexer, SqlNodes

\* A rule and its action.  arg[k] is the source of the constructor's k-th
\* parameter: 0 for NULL or a number written in the action, i > 0 for $i, Lit
\* for a string literal, Local for an array local to the action.
Lit == -1
Local == -2
Rule(lhs, rhs, act, new, tag, arg) ==
    [lhs |-> lhs, rhs |-> rhs, act |-> act, new |-> new, tag |-> tag, arg |-> arg]
Plain(act, lhs, arg, rhss) == {Rule(lhs, rhs, act, "", "", arg) : rhs \in rhss}

\* The switch does not assign $$: yyuserAction has set it to $1, or to zero
\* when the right hand side is empty.
Default(lhs, rhss) == Plain("default", lhs, <<>>, rhss)

\* $$ is a number, NULL, a string literal, or $i.
Flag(lhs, rhss) == Plain("flag", lhs, <<>>, rhss)
NilOf(lhs, rhss) == Plain("null", lhs, <<>>, rhss)
Nil(lhs) == NilOf(lhs, {<<>>})
Literal(lhs, rhss) == Plain("literal", lhs, <<>>, rhss)
Copy(lhs, i, rhss) == Plain("copy", lhs, <<i>>, rhss)

\* $$ is a new node; or $1 with $i stored in one of its fields ("" when the
\* action only sets numbers of it).
Make(lhs, new, tag, arg, rhss) == {Rule(lhs, rhs, "make", new, tag, arg) : rhs \in rhss}
Update(lhs, struct, field, i, rhss) ==
    {Rule(lhs, rhs, "update", struct, field, <<i>>) : rhs \in rhss}

-----------------------------------------------------------------------------
\* A rule whose action only makes its node when a comparison is "=" is listed
\* twice, as Make and as Default.  The local variables m and t that two
\* actions keep a node in are symbols of their own.
StatementList ==
    Make("stmt_list", "newStmt", "t_stmt", <<0, 1>>, {<<"stmt", ";">>})
    \cup Make("stmt_list", "newStmt", "t_stmt", <<1, 2>>,
           {<<"stmt_list", "stmt", ";">>})
    \cup Default("stmt_list", {<<"error", ";">>, <<"stmt_list", "error", ";">>})
    \cup Copy("stmt", 1, {<<"select_stmt">>})

QueryRules ==
    Make("select_stmt", "newQueryStmt", "t_query_stmt",
           <<0, 2, 3, 0, 0, 0, 0, 0, 0, 0>>,
           {<<"SELECT", "select_opts", "select_expr_list">>})
    \cup Make("select_stmt", "newQueryStmt", "t_query_stmt",
           <<0, 2, 3, 5, 6, 7, 8, 9, 10, 11>>,
           {<<"SELECT", "select_opts", "select_expr_list", "FROM", "table_references",
           "opt_where", "opt_groupby", "opt_having", "opt_orderby", "opt_limit",
           "opt_into_list">>})
    \cup Nil("opt_where")
    \cup Make("opt_where", "newWhereList", "t_where_list", <<0, 2>>,
           {<<"WHERE", "expr">>})
    \cup Nil("opt_groupby")
    \cup Make("opt_groupby", "newGroupbyList", "t_groupby_list", <<0, 3, 4>>,
           {<<"GROUP", "BY", "groupby_list", "opt_with_rollup">>})
    \cup Make("groupby_list", "newGroupbyExpr", "t_groupby_expr", <<1, 2, 0>>,
           {<<"expr", "opt_asc_desc">>})
    \cup Make("groupby_list", "newGroupbyExpr", "t_groupby_expr", <<1, 2, 4>>,
           {<<"expr", "opt_asc_desc", ",", "groupby_list">>})
    \cup Flag("opt_asc_desc", {<<>>, <<"ASC">>, <<"DESC">>})
    \cup Flag("opt_with_rollup", {<<>>, <<"WITH", "ROLLUP">>})

ClauseRules ==
    Nil("opt_having")
    \cup Make("opt_having", "newHavingList", "t_having_list", <<0, 2>>,
           {<<"HAVING", "expr">>})
    \cup Nil("opt_orderby")
    \cup Make("opt_orderby", "newOrderbyList", "t_orderby_list", <<0, 3>>,
           {<<"ORDER", "BY", "groupby_list">>})
    \cup Nil("opt_limit")
    \cup Make("opt_limit", "newLimitExpr", "t_limit_expr", <<0, 2>>,
           {<<"LIMIT", "expr">>})
    \cup Make("opt_limit", "newLimitExpr", "t_limit_expr", <<2, 4>>,
           {<<"LIMIT", "expr", ",", "expr">>})
    \cup Nil("opt_into_list")
    \cup Default("opt_into_list", {<<"INTO", "column_list">>})
    \cup Make("column_list", "newColumn", "t_column", <<1, 0, 0>>, {<<"NAME">>})
    \cup Make("column_list", "newColumn", "t_column", <<1, 0, 3>>,
           {<<"NAME", ",", "column_list">>})
    \cup Flag("select_opts",
           {<<>>, <<"select_opts", "ALL">>, <<"select_opts", "DISTINCT">>,
           <<"select_opts", "DISTINCTROW">>, <<"select_opts", "HIGH_PRIORITY">>,
           <<"select_opts", "STRAIGHT_JOIN">>, <<"select_opts", "SQL_SMALL_RESULT">>,
           <<"select_opts", "SQL_BIG_RESULT">>,
           <<"select_opts", "SQL_CALC_FOUND_ROWS">>})

SelectRules ==
    Make("select_expr_list", "newSelectList", "t_select_list", <<0, 1, 0>>,
           {<<"select_expr">>})
    \cup Make("select_expr_list", "newSelectList", "t_select_list", <<0, 1, 3>>,
           {<<"select_expr", ",", "select_expr_list">>})
    \cup Make("select_expr_list", "newSelectList", "t_select_list", <<0, 0, 0>>,
           {<<"*">>})
    \cup Make("select_expr_list", "newSelectList", "t_select_list", <<0, 0, 3>>,
           {<<"*", ",", "select_expr_list">>})
    \cup Make("select_expr", "newSelectExpr", "t_select_expr", <<2, 1>>,
           {<<"expr", "opt_as_alias">>})
    \cup Make("table_references", "newFromList", "t_from_list", <<1, 0>>,
           {<<"table_reference">>})
    \cup Make("table_references", "newFromList", "t_from_list", <<1, 3>>,
           {<<"table_reference", ",", "table_references">>})
    \cup Copy("table_reference", 1, {<<"table_factor">>, <<"join_table">>})
    \cup Make("table_factor", "newTable", "t_table", <<0, 1, 2, 0, 0>>,
           {<<"NAME", "opt_as_alias">>})
    \cup Make("table_factor", "newTable", "t_table", <<1, 3, 4, 0, 0>>,
           {<<"NAME", ".", "NAME", "opt_as_alias">>})
    \cup Make("table_factor", "newTable", "t_table", <<0, 0, 3, 0, 1>>,
           {<<"table_subquery", "opt_as", "NAME">>})
    \cup Copy("table_factor", 2, {<<"(", "table_references", ")">>})
    \cup Default("opt_as", {<<>>, <<"AS">>})
    \cup Copy("opt_as_alias", 2, {<<"AS", "NAME">>})
    \cup Copy("opt_as_alias", 1, {<<"NAME">>})
    \cup Nil("opt_as_alias")

JoinRules ==
    Make("join_table", "newJoin", "t_join", <<2, 1, 4, 5>>,
           {<<"table_reference", "opt_inner_cross", "JOIN", "table_factor",
           "opt_join_condition">>})
    \cup Make("join_table", "newJoin", "t_join", <<0, 1, 3, 0>>,
           {<<"table_reference", "STRAIGHT_JOIN", "table_factor">>})
    \cup Make("m", "newCondition", "t_condition", <<0, 2>>, {<<"ON", "expr">>})
    \cup Make("join_table", "newJoin", "t_join", <<0, 1, 3, 4>>,
           {<<"table_reference", "STRAIGHT_JOIN", "table_factor", "m">>})
    \cup Make("join_table", "newJoin", "t_join", <<2, 1, 5, 6>>,
           {<<"table_reference", "left_or_right", "opt_outer", "JOIN", "table_factor",
           "join_condition">>})
    \cup Make("join_table", "newJoin", "t_join", <<3, 1, 5, 0>>,
           {<<"table_reference", "NATURAL", "opt_left_or_right_outer", "JOIN",
           "table_factor">>})
    \cup Flag("opt_inner_cross", {<<>>, <<"INNER">>, <<"CROSS">>})
    \cup Flag("opt_outer", {<<>>, <<"OUTER">>})
    \cup Flag("left_or_right", {<<"LEFT">>, <<"RIGHT">>})
    \cup Flag("opt_left_or_right_outer",
           {<<"LEFT", "opt_outer">>, <<"RIGHT", "opt_outer">>, <<>>})
    \cup Default("opt_join_condition", {<<>>})
    \cup Copy("opt_join_condition", 1, {<<"join_condition">>})
    \cup Make("join_condition", "newCondition", "t_condition", <<0, 2>>,
           {<<"ON", "expr">>})
    \cup Make("join_condition", "newCondition", "t_condition", <<0, 3>>,
           {<<"USING", "(", "column_list", ")">>})

DeleteRules ==
    Default("index_list", {<<"NAME">>, <<"index_list", ",", "NAME">>})
    \cup Copy("table_subquery", 2, {<<"(", "select_stmt", ")">>})
    \cup Default("stmt", {<<"delete_stmt">>})
    \cup Default("delete_stmt",
           {<<"DELETE", "delete_opts", "FROM", "NAME", "opt_where", "opt_orderby",
           "opt_limit">>,
           <<"DELETE", "delete_opts", "delete_list", "FROM", "table_references",
           "opt_where">>,
           <<"DELETE", "delete_opts", "FROM", "delete_list", "USING",
           "table_references", "opt_where">>})
    \cup Flag("delete_opts",
           {<<"delete_opts", "LOW_PRIORITY">>, <<"delete_opts", "QUICK">>,
           <<"delete_opts", "IGNORE">>})
    \cup Nil("delete_opts")
    \cup Default("delete_list",
           {<<"NAME", "opt_dot_star">>, <<"delete_list", ",", "NAME", "opt_dot_star">>})
    \cup Default("opt_dot_star", {<<>>, <<".", "*">>})

InsertRules ==
    Copy("stmt", 1, {<<"insert_stmt">>})
    \cup Make("insert_stmt", "newInsertStmt", "t_insert_stmt", <<2, 4, 5, 7, 8, 0, 0>>,
           {<<"INSERT", "insert_opts", "opt_into", "NAME", "opt_col_names", "VALUES",
           "insert_vals_list", "opt_ondupupdate">>})
    \cup Nil("opt_ondupupdate")
    \cup Copy("opt_ondupupdate", 5,
           {<<"ON", "DUPLICATE", "KEY", "UPDATE", "insert_asgn_list">>})
    \cup Flag("insert_opts",
           {<<>>, <<"insert_opts", "LOW_PRIORITY">>, <<"insert_opts", "DELAYED">>,
           <<"insert_opts", "HIGH_PRIORITY">>, <<"insert_opts", "IGNORE">>})
    \cup Default("opt_into", {<<"INTO">>, <<>>})
    \cup Nil("opt_col_names")
    \cup Copy("opt_col_names", 2, {<<"(", "column_list", ")">>})
    \cup Make("insert_vals_list", "newInsertValueList", "t_insert_val_list", <<2, 0>>,
           {<<"(", "insert_vals", ")">>})
    \cup Make("insert_vals_list", "newInsertValueList", "t_insert_val_list", <<4, 1>>,
           {<<"insert_vals_list", ",", "(", "insert_vals", ")">>})
    \cup Make("insert_vals", "newInsertVals", "t_insert_vals", <<0, 1, 0>>,
           {<<"expr">>})
    \cup Make("insert_vals", "newInsertVals", "t_insert_vals", <<0, 0, 0>>,
           {<<"DEFAULT">>})
    \cup Make("insert_vals", "newInsertVals", "t_insert_vals", <<0, 1, 3>>,
           {<<"expr", ",", "insert_vals">>})
    \cup Make("insert_vals", "newInsertVals", "t_insert_vals", <<0, 0, 3>>,
           {<<"DEFAULT", ",", "insert_vals">>})
    \cup Make("insert_stmt", "newInsertStmt", "t_insert_stmt", <<2, 4, 0, 0, 7, 6, 0>>,
           {<<"INSERT", "insert_opts", "opt_into", "NAME", "SET", "insert_asgn_list",
           "opt_ondupupdate">>})

AssignRules ==
    Make("insert_stmt", "newInsertStmt", "t_insert_stmt", <<2, 4, 5, 0, 7, 0, 6>>,
           {<<"INSERT", "insert_opts", "opt_into", "NAME", "opt_col_names",
           "select_stmt", "opt_ondupupdate">>})
    \cup Make("insert_asgn_list", "newInsertAssignList", "t_insert_assign",
           <<1, 0, 3, 0>>, {<<"NAME", "COMPARISON", "expr">>})
    \cup Default("insert_asgn_list",
           {<<"NAME", "COMPARISON", "expr">>, <<"NAME", "COMPARISON", "DEFAULT">>,
           <<"insert_asgn_list", ",", "NAME", "COMPARISON", "expr">>,
           <<"insert_asgn_list", ",", "NAME", "COMPARISON", "DEFAULT">>})
    \cup Make("insert_asgn_list", "newInsertAssignList", "t_insert_assign",
           <<1, 0, 0, 0>>, {<<"NAME", "COMPARISON", "DEFAULT">>})
    \cup Make("insert_asgn_list", "newInsertAssignList", "t_insert_assign",
           <<3, 0, 5, 1>>, {<<"insert_asgn_list", ",", "NAME", "COMPARISON", "expr">>})
    \cup Make("insert_asgn_list", "newInsertAssignList", "t_insert_assign",
           <<3, 0, 0, 1>>,
           {<<"insert_asgn_list", ",", "NAME", "COMPARISON", "DEFAULT">>})
    \cup Default("stmt", {<<"replace_stmt">>, <<"update_stmt">>})
    \cup Default("replace_stmt",
           {<<"REPLACE", "insert_opts", "opt_into", "NAME", "opt_col_names", "VALUES",
           "insert_vals_list", "opt_ondupupdate">>,
           <<"REPLACE", "insert_opts", "opt_into", "NAME", "SET", "insert_asgn_list",
           "opt_ondupupdate">>,
           <<"REPLACE", "insert_opts", "opt_into", "NAME", "opt_col_names",
           "select_stmt", "opt_ondupupdate">>})
    \cup Default("update_stmt",
           {<<"UPDATE", "update_opts", "table_references", "SET", "update_asgn_list",
           "opt_where", "opt_orderby", "opt_limit">>})
    \cup Flag("update_opts",
           {<<>>, <<"insert_opts", "LOW_PRIORITY">>, <<"insert_opts", "IGNORE">>})

DatabaseRules ==
    Default("update_asgn_list",
           {<<"NAME", "COMPARISON", "expr">>,
           <<"NAME", ".", "NAME", "COMPARISON", "expr">>,
           <<"update_asgn_list", ",", "NAME", "COMPARISON", "expr">>,
           <<"update_asgn_list", ",", "NAME", ".", "NAME", "COMPARISON", "expr">>})
    \cup Copy("stmt", 1, {<<"create_database_stmt">>, <<"create_table_stmt">>})
    \cup Make("create_database_stmt", "newCreateDatabaseStmt", "t_create_database_stmt",
           <<0, 3, 4>>,
           {<<"CREATE", "DATABASE", "opt_if_not_exists", "NAME">>,
           <<"CREATE", "SCHEMA", "opt_if_not_exists", "NAME">>})
    \cup Flag("opt_if_not_exists", {<<>>, <<"IF", "NOT", "EXISTS">>})
    \cup Make("create_table_stmt", "newCreateTableStmt", "t_create_table_stmt",
           <<2, 4, 5, 0, 7, 0>>,
           {<<"CREATE", "opt_temporary", "TABLE", "opt_if_not_exists", "NAME", "(",
           "create_col_list", ")">>})
    \cup Make("create_table_stmt", "newCreateTableStmt", "t_create_table_stmt",
           <<2, 4, 5, 7, 9, 0>>,
           {<<"CREATE", "opt_temporary", "TABLE", "opt_if_not_exists", "NAME", ".",
           "NAME", "(", "create_col_list", ")">>})
    \cup Make("create_table_stmt", "newCreateTableStmt", "t_create_table_stmt",
           <<2, 4, 5, 0, 7, 9>>,
           {<<"CREATE", "opt_temporary", "TABLE", "opt_if_not_exists", "NAME", "(",
           "create_col_list", ")", "create_select_statement">>})
    \cup Make("create_table_stmt", "newCreateTableStmt", "t_create_table_stmt",
           <<2, 4, 5, 0, 0, 6>>,
           {<<"CREATE", "opt_temporary", "TABLE", "opt_if_not_exists", "NAME",
           "create_select_statement">>})
    \cup Make("create_table_stmt", "newCreateTableStmt", "t_create_table_stmt",
           <<2, 4, 5, 7, 9, 11>>,
           {<<"CREATE", "opt_temporary", "TABLE", "opt_if_not_exists", "NAME", ".",
           "NAME", "(", "create_col_list", ")", "create_select_statement">>})
    \cup Make("create_table_stmt", "newCreateTableStmt", "t_create_table_stmt",
           <<2, 4, 5, 7, 0, 8>>,
           {<<"CREATE", "opt_temporary", "TABLE", "opt_if_not_exists", "NAME", ".",
           "NAME", "create_select_statement">>})

ColumnRules ==
    Make("create_select_statement", "newCreateSelectStmt", "t_create_select_stmt",
           <<1, 0, 3>>, {<<"opt_ignore_replace", "opt_as", "select_stmt">>})
    \cup Flag("opt_ignore_replace", {<<>>, <<"IGNORE">>, <<"REPLACE">>})
    \cup Flag("opt_temporary", {<<>>, <<"TEMPORARY">>})
    \cup Make("create_col_list", "newCreateColList", "t_create_col_list", <<1, 0>>,
           {<<"create_definition">>})
    \cup Make("create_col_list", "newCreateColList", "t_create_col_list", <<1, 3>>,
           {<<"create_definition", ",", "create_col_list">>})
    \cup Make("create_definition", "newCreateDef", "t_create_def", <<0, 1, 2, 3, 0>>,
           {<<"NAME", "data_type", "column_atts">>})
    \cup Make("create_definition", "newCreateDef", "t_create_def", <<0, 0, 0, 0, 4>>,
           {<<"PRIMARY", "KEY", "(", "column_list", ")">>,
           <<"FULLTEXT", "INDEX", "(", "column_list", ")">>,
           <<"FULLTEXT", "KEY", "(", "column_list", ")">>})
    \cup Make("create_definition", "newCreateDef", "t_create_def", <<0, 0, 0, 0, 3>>,
           {<<"KEY", "(", "column_list", ")">>, <<"INDEX", "(", "column_list", ")">>})
    \cup Make("column_atts", "newColumnAtts", "t_column_atts", <<0, 0, 0, 0, 0>>,
           {<<>>})
    \cup Update("column_atts", "Column_atts", "", 0,
           {<<"column_atts", "NOT", "NULLX">>, <<"column_atts", "NULLX">>})
    \cup Update("column_atts", "Column_atts", "s", 3,
           {<<"column_atts", "DEFAULT", "STRING">>})

AttributeRules ==
    Update("column_atts", "Column_atts", "", 0,
           {<<"column_atts", "DEFAULT", "INTNUM">>,
           <<"column_atts", "DEFAULT", "APPROXNUM">>,
           <<"column_atts", "DEFAULT", "BOOL">>, <<"column_atts", "AUTO_INCREMENT">>,
           <<"column_atts", "UNIQUE", "KEY">>, <<"column_atts", "PRIMARY", "KEY">>,
           <<"column_atts", "KEY">>, <<"column_atts", "COMMENT", "STRING">>})
    \cup Update("column_atts", "Column_atts", "col_list", 4,
           {<<"column_atts", "UNIQUE", "(", "column_list", ")">>})
    \cup Copy("stmt", 1, {<<"create_projection_stmt">>, <<"truncate_stmt">>})
    \cup Make("create_projection_stmt", "newCreateProjectionStmt",
           "t_create_projection_stmt", <<4, 6, 0, 10>>,
           {<<"CREATE", "PROJECTION", "ON", "NAME", "(", "column_list", ")",
           "PARTITIONED", "ON", "NAME">>})
    \cup Make("create_projection_stmt", "newCreateProjectionStmt",
           "t_create_projection_stmt", <<4, 6, 10, 13>>,
           {<<"CREATE", "PROJECTION", "ON", "NAME", "(", "column_list", ")", "NUMBER",
           "COMPARISON", "INTNUM", "PARTITIONED", "ON", "NAME">>})
    \cup Default("create_projection_stmt",
           {<<"CREATE", "PROJECTION", "ON", "NAME", "(", "column_list", ")", "NUMBER",
           "COMPARISON", "INTNUM", "PARTITIONED", "ON", "NAME">>})
    \cup Make("stmt", "newDoStmt", "t_do_stmt", <<2>>, {<<"DO", "expr_list">>})
    \cup Make("truncate_stmt", "newTruncateStmt", "t_truncate_stmt", <<2>>,
           {<<"TRUNCATE", "NAME">>})
    \cup Make("truncate_stmt", "newTruncateStmt", "t_truncate_stmt", <<3>>,
           {<<"TRUNCATE", "TABLE", "NAME">>})

AlterRules ==
    Copy("stmt", 1, {<<"alter_database_stmt">>, <<"alter_table_stmt">>})
    \cup Make("alter_database_stmt", "newAlterDatabaseStmt", "t_alter_database_stmt",
           <<0, 3, 4>>,
           {<<"ALTER", "DATABASE", "NAME", "opt_csc">>,
           <<"ALTER", "SCHEMA", "NAME", "opt_csc">>})
    \cup Make("alter_table_stmt", "newAlterTableStmt", "t_alter_table_stmt",
           <<2, 4, 5>>, {<<"ALTER", "opt_ignore", "TABLE", "NAME", "alter_list">>})
    \cup Default("alter_list", {<<"alter_def">>, <<"alter_list", ",", "alter_def">>})
    \cup Default("alter_def",
           {<<"ADD", "opt_col", "create_col_list">>,
           <<"CHANGE", "opt_col", "NAME", "NAME", "data_type", "column_atts">>,
           <<"DROP", "opt_col", "NAME">>, <<"DROP", "PRIMARY", "KEY">>,
           <<"DROP", "INDEX", "column_list">>,
           <<"DROP", "FOREIGN", "KEY", "column_list">>, <<"RENAME", "NAME">>,
           <<"RENAME", "TO", "NAME">>, <<"ORDER", "BY", "NAME">>})
    \cup Flag("opt_col", {<<>>, <<"COLUMN">>})
    \cup Flag("opt_ignore", {<<>>, <<"IGNORE">>})

IndexRules ==
    Copy("stmt", 1,
           {<<"create_index_stmt">>, <<"drop_index_stmt">>, <<"drop_database_stmt">>})
    \cup Make("create_index_stmt", "newCreateIndex", "t_create_index_stmt",
           <<2, 4, 5, 7, 9>>,
           {<<"CREATE", "index_att", "INDEX", "NAME", "opt_using_type", "ON", "NAME",
           "(", "index_col_list", ")">>})
    \cup Flag("index_att", {<<>>, <<"UNIQUE">>, <<"FULLTEXT">>, <<"SPATIAL">>})
    \cup Flag("opt_using_type", {<<>>, <<"USING", "index_type">>})
    \cup Flag("index_type", {<<"BTREE">>, <<"HASH">>})
    \cup Make("index_col_list", "newIndexColList", "t_index_col_list", <<1, 2, 3, 0>>,
           {<<"NAME", "opt_length", "opt_asc_desc">>})
    \cup Make("index_col_list", "newIndexColList", "t_index_col_list", <<1, 2, 3, 5>>,
           {<<"NAME", "opt_length", "opt_asc_desc", ",", "index_col_list">>})
    \cup Make("drop_index_stmt", "newDropIndex", "t_drop_index", <<3, 5>>,
           {<<"DROP", "INDEX", "NAME", "ON", "NAME">>})
    \cup Make("drop_database_stmt", "newDropDatabase", "t_drop_database_stmt",
           <<0, 3, 4>>,
           {<<"DROP", "DATABASE", "opt_if_exists", "NAME">>,
           <<"DROP", "SCHEMA", "opt_if_exists", "NAME">>})
    \cup Flag("opt_if_exists", {<<>>, <<"IF", "EXISTS">>})

DropRules ==
    Copy("stmt", 1, {<<"drop_table_stmt">>, <<"load_table_stmt">>})
    \cup Make("drop_table_stmt", "newDropTable", "t_drop_table_stmt", <<2, 4, 6, 5>>,
           {<<"DROP", "opt_temporary", "TABLE", "opt_if_exists", "table_list",
           "opt_rc">>})
    \cup Make("table_list", "newTableList", "t_table_list", <<0, 1, 0>>, {<<"NAME">>})
    \cup Make("table_list", "newTableList", "t_table_list", <<1, 3, 0>>,
           {<<"NAME", ".", "NAME">>})
    \cup Make("table_list", "newTableList", "t_table_list", <<0, 3, 1>>,
           {<<"table_list", ",", "NAME">>})
    \cup Make("table_list", "newTableList", "t_table_list", <<3, 5, 1>>,
           {<<"table_list", ",", "NAME", ".", "NAME">>})
    \cup Flag("opt_rc", {<<>>, <<"RESTRICT">>, <<"CASCADE">>})
    \cup Make("load_table_stmt", "newLoadTable", "t_load_table_stmt", <<3, 5, 7, 9>>,
           {<<"LOAD", "TABLE", "NAME", "FROM", "expr_list", "WITH", "STRING", ",",
           "STRING">>})
    \cup Default("stmt", {<<"rename_table_stmt">>})
    \cup Default("rename_table_stmt", {<<"RENAME", "TABLE", "rename_list">>})
    \cup Default("rename_list",
           {<<>>, <<"NAME", "TO", "NAME">>,
           <<"NAME", ".", "NAME", "TO", "NAME", ".", "NAME">>,
           <<"rename_list", ",", "NAME", "TO", "NAME">>,
           <<"rename_list", ",", "NAME", ".", "NAME", "TO", "NAME", ".", "NAME">>})

TransactionRules ==
    Default("stmt", {<<"describe_stmt">>, <<"use_stmt">>, <<"start_transaction_stmt">>,
           <<"commit_stmt">>, <<"rollback_stmt">>, <<"set_autocommit_stmt">>,
           <<"savepoint_stmt">>, <<"rollback_to_savepoint_stmt">>,
           <<"release_savepoint">>, <<"lock_table_stmt">>})
    \cup Default("describe_stmt", {<<"DESCRIBE", "NAME">>, <<"DESC", "NAME">>})
    \cup Default("use_stmt", {<<"USE", "NAME">>})
    \cup Default("start_transaction_stmt",
           {<<"START", "TRANSACTION">>, <<"BEGINT", "opt_work">>})
    \cup Default("opt_work", {<<>>, <<"WORK">>})
    \cup Default("commit_stmt", {<<"COMMIT", "opt_work", "opt_chain", "opt_release">>})
    \cup Flag("opt_chain", {<<>>, <<"AND", "NO", "CHAIN">>, <<"AND", "CHAIN">>})
    \cup Flag("opt_release", {<<>>, <<"NO", "RELEASE">>, <<"RELEASE">>})
    \cup Default("rollback_stmt",
           {<<"ROLLBACK", "opt_work", "opt_chain", "opt_release">>})
    \cup Default("set_autocommit_stmt", {<<"SET", "AUTOCOMMIT", "COMPARISON", "expr">>})
    \cup Default("savepoint_stmt", {<<"SAVEPOINT", "NAME">>})
    \cup Default("rollback_to_savepoint_stmt",
           {<<"ROLLBACK", "opt_work", "TO", "SAVEPOINT", "NAME">>})
    \cup Default("release_savepoint", {<<"RELEASE", "SAVEPOINT", "NAME">>})
    \cup Default("lock_table_stmt", {<<"LOCK", "TABLES", "lock_table_list">>})
    \cup Default("lock_table_list",
           {<<"lock_table">>, <<"lock_table_list", ",", "lock_table">>})
    \cup Default("lock_table", {<<"NAME", "opt_as_alias", "opt_read_write">>})

LevelRules ==
    Flag("opt_read_write",
           {<<"READ">>, <<"READ", "LOCAL">>, <<"LOW_PRIORITY", "WRITE">>, <<"WRITE">>})
    \cup Default("stmt",
           {<<"unlock_tables">>, <<"set_transaction_stmt">>, <<"create_user_stmt">>,
           <<"drop_user_stmt">>, <<"grant_all_stmt">>})
    \cup Default("unlock_tables", {<<"UNLOCK", "TABLES">>})
    \cup Default("set_transaction_stmt",
           {<<"SET", "opt_trans_level", "TRANSACTION", "ISOLATION", "LEVEL",
           "trans_att">>})
    \cup Flag("opt_trans_level", {<<>>, <<"GLOBAL">>, <<"SESSION">>})
    \cup Flag("trans_att",
           {<<"READ", "UNCOMMITTED">>, <<"READ", "COMMITTED">>,
           <<"REPEATABLE", "READ">>, <<"SERIALIZABLE">>})
    \cup Default("create_user_stmt", {<<"CREATE", "USER", "create_user_list">>})
    \cup Default("create_user_list",
           {<<"create_user">>, <<"create_user_list", ",", "create_user">>})
    \cup Default("create_user",
           {<<"USERVAR">>, <<"USERVAR", "IDENTIFIED", "BY", "STRING">>,
           <<"USERVAR", "IDENTIFIED", "BY", "PASSWORD", "STRING">>})
    \cup Default("drop_user_stmt", {<<"DROP", "USER", "user_list">>})
    \cup Default("user_list", {<<"USERVAR">>, <<"user_list", ",", "USERVAR">>})
    \cup Default("grant_all_stmt",
           {<<"GRANT", "priv_database_list", "ON", "*", ".", "*", "TO",
           "create_user_list", "opt_with_opt">>})
    \cup Default("priv_database_list",
           {<<"priv_database_type">>,
           <<"priv_database_list", ",", "priv_database_type">>})
    \cup Flag("priv_database_type",
           {<<"ALL">>, <<"ALL", "PRIVILEGES">>, <<"SELECT">>, <<"UPDATE">>})

GrantRules ==
    Flag("priv_database_type",
           {<<"INSERT">>, <<"DELETE">>, <<"CREATE">>, <<"DROP">>, <<"INDEX">>,
           <<"ALTER">>, <<"GRANT", "OPTION">>, <<"REFERENCES">>})
    \cup Default("opt_with_opt", {<<>>, <<"WITH", "with_opt">>})
    \cup Default("with_opt",
           {<<"GRANT", "OPTION">>, <<"MAX_QUERIES_PER_HOUR", "expr">>,
           <<"MAX_UPDATES_PER_HOUR", "expr">>, <<"MAX_CONNECTIONS_PER_HOUR", "expr">>,
           <<"MAX_USER_CONNECTIONS", "expr">>})
    \cup Default("stmt", {<<"grant_database_stmt">>, <<"grant_table_stmt">>})
    \cup Default("grant_database_stmt",
           {<<"GRANT", "priv_database_list", "ON", "NAME", ".", "*", "TO",
           "create_user_list", "opt_with_opt">>})
    \cup Default("grant_table_stmt",
           {<<"GRANT", "priv_table_list", "ON", "NAME", ".", "NAME", "TO",
           "create_user_list", "opt_with_opt">>})
    \cup Default("priv_table_list",
           {<<"priv_table_type">>, <<"priv_table_list", ",", "priv_table_type">>})
    \cup Default("priv_table_type",
           {<<"SELECT", "opt_col_names">>, <<"UPDATE", "opt_col_names">>,
           <<"INSERT", "opt_col_names">>, <<"DELETE">>, <<"CREATE">>, <<"DROP">>,
           <<"INDEX">>, <<"ALTER">>, <<"GRANT", "OPTION">>})

MaintenanceRules ==
    Default("stmt",
           {<<"revoke_all_stmt">>, <<"revoke_database_stmt">>, <<"revoke_table_stmt">>,
           <<"rename_user_stmt">>, <<"set_password_stmt">>, <<"analyze_table_stmt">>,
           <<"backup_table_stmt">>, <<"check_table_stmt">>, <<"checksum_table_stmt">>})
    \cup Default("revoke_all_stmt",
           {<<"REVOKE", "priv_database_list", "ON", "*", ".", "*", "FROM",
           "user_list">>})
    \cup Default("revoke_database_stmt",
           {<<"REVOKE", "priv_database_list", "ON", "NAME", ".", "*", "FROM",
           "user_list", "opt_with_opt">>})
    \cup Default("revoke_table_stmt",
           {<<"REVOKE", "priv_table_list", "ON", "NAME", ".", "NAME", "FROM",
           "user_list", "opt_with_opt">>})
    \cup Default("rename_user_stmt", {<<"RENAME", "USER", "utou_list">>})
    \cup Default("utou_list",
           {<<"USERVAR", "TO", "USERVAR">>,
           <<"utou_list", ",", "USERVAR", "TO", "USERVAR">>})
    \cup Default("set_password_stmt",
           {<<"SET", "PASSWORD", "opt_for_user", "COMPARISON", "PASSWORD", "(",
           "STRING", ")">>})
    \cup Default("opt_for_user", {<<>>, <<"FOR", "USERVAR">>})
    \cup Default("analyze_table_stmt",
           {<<"ANALYZE", "analyze_opt", "TABLE", "table_list">>})
    \cup Flag("analyze_opt", {<<>>, <<"LOCAL">>, <<"NO_WRITE_TO_BINLOG">>})
    \cup Default("backup_table_stmt",
           {<<"BACKUP", "TABLE", "table_list", "TO", "STRING">>})
    \cup Default("check_table_stmt", {<<"CHECK", "TABLE", "table_list", "check_opts">>})
    \cup Flag("check_opts",
           {<<>>, <<"QUICK">>, <<"FAST">>, <<"MEDIUM">>, <<"EXTENDED">>, <<"CHANGED">>})
    \cup Default("checksum_table_stmt",
           {<<"CHECKSUM", "TABLE", "table_list", "checksum_opt">>})
    \cup Flag("checksum_opt", {<<>>})

ShowRules ==
    Flag("checksum_opt", {<<"QUICK">>, <<"EXTENDED">>})
    \cup Default("stmt",
           {<<"optimize_table_stmt">>, <<"repair_table_stmt">>,
           <<"restore_table_stmt">>})
    \cup Default("optimize_table_stmt",
           {<<"OPTIMIZE", "analyze_opt", "TABLE", "table_list">>})
    \cup Default("repair_table_stmt",
           {<<"REPAIR", "analyze_opt", "TABLE", "table_list", "repair_opts">>})
    \cup Default("repair_opts",
           {<<>>, <<"repair_opts", "QUICK">>, <<"repair_opts", "EXTENDED">>,
           <<"repair_opts", "USE_FRM">>})
    \cup Default("restore_table_stmt",
           {<<"RESTORE", "TABLE", "table_list", "FROM", "STRING">>})
    \cup Copy("stmt", 1, {<<"show_stmt">>})
    \cup Make("show_stmt", "newShowStmt", "t_show_stmt", <<0, 2, 4, 5>>,
           {<<"SHOW", "opt_full", "TABLES", "opt_from", "opt_like_string">>})
    \cup Default("show_stmt",
           {<<"SHOW", "COLLATION", "opt_like_string">>,
           <<"SHOW", "opt_full", "COLUMNS", "FROM", "NAME", "opt_from",
           "opt_like_string">>, <<"SHOW", "CREATE", "DATABASE", "NAME">>,
           <<"SHOW", "CREATE", "SCHEMA", "NAME">>,
           <<"SHOW", "CREATE", "TABLE", "NAME">>, <<"SHOW", "DATABASE", "NAME">>,
           <<"SHOW", "SCHEMA", "NAME">>, <<"SHOW", "ENGINE", "NAME", "LOGS">>,
           <<"SHOW", "ENGINE", "NAME", "STATUS">>, <<"SHOW", "STORAGE", "ENGINES">>,
           <<"SHOW", "ERRORS", "opt_limit">>, <<"SHOW", "expr", "ERRORS">>,
           <<"SHOW", "GRANTS", "FOR", "USERVAR">>,
           <<"SHOW", "INDEX", "FROM", "NAME", "opt_from">>,
           <<"SHOW", "INNODB", "STATUS">>, <<"SHOW", "opt_bdb", "LOGS">>,
           <<"SHOW", "OPEN", "TABLES", "opt_from", "opt_like_string">>,
           <<"SHOW", "PRIVILEGES">>, <<"SHOW", "opt_full", "PROCESSLIST">>,
           <<"SHOW", "opt_trans_level", "STATUS", "opt_like_string">>,
           <<"SHOW", "TABLE", "STATUS", "opt_from", "opt_like_string">>,
           <<"SHOW", "CHARACTER", "SET", "opt_like_string">>,
           <<"SHOW", "TRIGGERS", "opt_from", "opt_like_expr">>,
           <<"SHOW", "opt_trans_level", "VARIABLES", "opt_like_string">>,
           <<"SHOW", "WARNINGS", "opt_limit">>, <<"SHOW", "expr", "WARNINGS">>})
    \cup Flag("opt_full", {<<>>, <<"FULL">>})
    \cup Nil("opt_from")
    \cup Copy("opt_from", 2, {<<"FROM", "NAME">>})
    \cup Nil("opt_like_string")
    \cup Copy("opt_like_string", 2, {<<"LIKE", "STRING">>})

ServerRules ==
    Default("opt_like_expr", {<<>>, <<"LIKE", "expr">>})
    \cup Default("opt_bdb", {<<>>, <<"BDB">>})
    \cup Default("stmt",
           {<<"cache_index_stmt">>, <<"flush_stmt">>, <<"kill_stmt">>,
           <<"load_index_stmt">>, <<"reset_stmt">>})
    \cup Default("cache_index_stmt",
           {<<"CACHE", "INDEX", "table_index_list", "IN", "NAME">>})
    \cup Default("table_index_list",
           {<<"table_index">>, <<"table_index_list", ",", "table_index">>,
           <<"NAME", "opt_index_key_list", "opt_ignore_leaves">>})
    \cup Default("table_index", {<<"NAME">>, <<"NAME", "opt_index_key", "index_list">>})
    \cup Flag("opt_index_key", {<<>>, <<"INDEX">>, <<"KEY">>})
    \cup Default("flush_stmt", {<<"FLUSH", "analyze_opt", "flush_opt_list">>})
    \cup Default("flush_opt_list",
           {<<"flush_opt">>, <<"flush_opt_list", ",", "flush_opt">>})
    \cup Flag("flush_opt",
           {<<"HOSTS">>, <<"DES_KEY_FILE">>, <<"LOGS">>, <<"PRIVILEGES">>,
           <<"QUERY", "CACHE">>, <<"STATUS">>, <<"TABLE", "NAME">>,
           <<"TABLES", "table_list">>, <<"TABLES", "WITH", "READ", "LOCK">>,
           <<"USER_RESOURCES">>})
    \cup Default("kill_stmt", {<<"KILL", "opt_connection_query", "expr">>})
    \cup Flag("opt_connection_query", {<<>>, <<"CONNECTION">>, <<"QUERY">>})
    \cup Default("load_index_stmt",
           {<<"LOAD", "INDEX", "INTO", "CACHE", "table_index_list">>})
    \cup Default("opt_index_key_list", {<<"opt_index_key", "(", "index_list", ")">>})
    \cup Default("opt_ignore_leaves", {<<>>, <<"IGNORE", "LEAVES">>})
    \cup Default("reset_stmt", {<<"RESET", "reset_opt_list">>})
    \cup Default("reset_opt_list",
           {<<"reset_opt">>, <<"reset_opt_list", ",", "reset_opt">>})

SetRules ==
    Flag("reset_opt", {<<"MASTER">>, <<"QUERY", "CACHE">>, <<"SLAVE">>})
    \cup Default("stmt", {<<"prepare_stmt">>, <<"set_stmt">>})
    \cup Default("prepare_stmt",
           {<<"PREPARE", "NAME", "FROM", "stmt">>,
           <<"EXECUTE", "NAME", "opt_use_name">>, <<"DEALLOCATE", "PREPARE", "NAME">>,
           <<"DROP", "PREPARE", "NAME">>})
    \cup Default("opt_use_name", {<<>>, <<"USING", "user_list">>})
    \cup Default("expr", {<<"?">>})
    \cup Default("set_stmt", {<<"SET", "set_list">>})
    \cup Default("set_list", {<<"set_expr">>, <<"set_list", ",", "set_expr">>})
    \cup Default("set_expr",
           {<<"USERVAR", "COMPARISON", "expr">>, <<"USERVAR", "ASSIGN", "expr">>})
    \cup Nil("opt_length")
    \cup Make("opt_length", "newLength", "t_length", <<2, 0>>, {<<"(", "INTNUM", ")">>})
    \cup Make("opt_length", "newLength", "t_length", <<2, 4>>,
           {<<"(", "INTNUM", ",", "INTNUM", ")">>})
    \cup Flag("opt_binary", {<<>>, <<"BINARY">>})
    \cup Flag("opt_uz", {<<>>, <<"opt_uz", "UNSIGNED">>, <<"opt_uz", "ZEROFILL">>})
    \cup Make("opt_csc", "newOptCsc", "t_opt_csc", <<0, 0, 0>>, {<<>>})
    \cup Update("opt_csc", "Opt_csc", "s1", 4, {<<"opt_csc", "CHAR", "SET", "NAME">>})
    \cup Update("opt_csc", "Opt_csc", "s2", 3, {<<"opt_csc", "COLLATE", "NAME">>})

NumberTypeRules ==
    Make("data_type", "newDatatype", "t_datatype", <<0, 2, 0, 0, 0, 0>>,
           {<<"BIT", "opt_length">>})
    \cup Make("data_type", "newDatatype", "t_datatype", <<0, 2, 3, 0, 0, 0>>,
           {<<"TINYINT", "opt_length", "opt_uz">>,
           <<"SMALLINT", "opt_length", "opt_uz">>,
           <<"MEDIUMINT", "opt_length", "opt_uz">>, <<"INT", "opt_length", "opt_uz">>,
           <<"INTEGER", "opt_length", "opt_uz">>, <<"BIGINT", "opt_length", "opt_uz">>,
           <<"REAL", "opt_length", "opt_uz">>, <<"DOUBLE", "opt_length", "opt_uz">>,
           <<"FLOAT", "opt_length", "opt_uz">>, <<"DECIMAL", "opt_length", "opt_uz">>})
    \cup Make("data_type", "newDatatype", "t_datatype", <<0, 0, 0, 0, 0, 0>>,
           {<<"DATE">>, <<"TIME">>, <<"TIMESTAMP">>, <<"DATETIME">>, <<"YEAR">>})

TextTypeRules ==
    Make("data_type", "newDatatype", "t_datatype", <<0, 2, 0, 3, 0, 0>>,
           {<<"CHAR", "opt_length", "opt_csc">>})
    \cup Make("t", "newLength", "t_datatype", <<2, 0>>, {<<"(", "INTNUM", ")">>})
    \cup Make("data_type", "newDatatype", "t_datatype", <<0, 2, 0, 3, 0, 0>>,
           {<<"VARCHAR", "t", "opt_csc">>})
    \cup Make("data_type", "newDatatype", "t_datatype", <<0, 2, 0, 0, 0, 0>>,
           {<<"BINARY", "opt_length">>})
    \cup Make("data_type", "newDatatype", "t_datatype", <<0, 2, 0, 0, 0, 0>>,
           {<<"VARBINARY", "t">>})
    \cup Make("data_type", "newDatatype", "t_datatype", <<0, 0, 0, 0, 0, 0>>,
           {<<"TINYBLOB">>, <<"BLOB">>, <<"MEDIUMBLOB">>, <<"LONGBLOB">>})
    \cup Make("data_type", "newDatatype", "t_datatype", <<0, 0, 0, 3, 2, 0>>,
           {<<"TINYTEXT", "opt_binary", "opt_csc">>,
           <<"TEXT", "opt_binary", "opt_csc">>,
           <<"MEDIUMTEXT", "opt_binary", "opt_csc">>,
           <<"LONGTEXT", "opt_binary", "opt_csc">>})
    \cup Make("data_type", "newDatatype", "t_datatype", <<0, 0, 0, 5, 0, 3>>,
           {<<"ENUM", "(", "enum_list", ")", "opt_csc">>,
           <<"SET", "(", "enum_list", ")", "opt_csc">>})
    \cup Make("enum_list", "newEnumList", "t_enum_list", <<1, 0>>, {<<"STRING">>})
    \cup Make("enum_list", "newEnumList", "t_enum_list", <<3, 1>>,
           {<<"enum_list", ",", "STRING">>})

ConstantRules ==
    Make("expr", "newColumn", "t_name", <<0, 1, 0>>, {<<"NAME">>})
    \cup Make("expr", "newExpr", "t_name", <<1>>, {<<"USERVAR">>})
    \cup Make("expr", "newColumn", "t_name_name", <<1, 3, 0>>,
           {<<"NAME", ".", "NAME">>})
    \cup Make("expr", "newColumn", "t_name_name", <<1, Lit, 0>>, {<<"NAME", ".", "*">>})
    \cup Make("expr", "newExpr", "t_stringval", <<1>>, {<<"STRING">>})
    \cup Make("expr", "newExpr", "t_intnum", <<1>>, {<<"INTNUM">>})
    \cup Make("expr", "newExpr", "t_approxnum", <<1>>, {<<"APPROXNUM">>})
    \cup Make("expr", "newExpr", "t_bool", <<1>>, {<<"BOOL">>})
    \cup Make("expr", "newExprCal", "t_expr_cal", <<Lit, 0, 0, 1, 3>>,
           {<<"expr", "+", "expr">>, <<"expr", "-", "expr">>, <<"expr", "*", "expr">>,
           <<"expr", "/", "expr">>, <<"expr", "%", "expr">>, <<"expr", "MOD", "expr">>,
           <<"expr", "ANDOP", "expr">>, <<"expr", "OR", "expr">>,
           <<"expr", "XOR", "expr">>})
    \cup Make("expr", "newExprCal", "t_expr_cal", <<Lit, 0, 0, 0, 2>>,
           {<<"-", "expr">>, <<"+", "expr">>})

CompareRules ==
    Make("expr", "newExprCal", "t_expr_cal", <<Lit, 0, 2, 1, 3>>,
           {<<"expr", "COMPARISON", "expr">>})
    \cup Make("expr", "newExprCal", "t_expr_cal", <<Lit, 0, 2, 1, 4>>,
           {<<"expr", "COMPARISON", "(", "select_stmt", ")">>})
    \cup Make("expr", "newExprCal", "t_expr_cal", <<Lit, Lit, 2, 1, 5>>,
           {<<"expr", "COMPARISON", "ANY", "(", "select_stmt", ")">>,
           <<"expr", "COMPARISON", "SOME", "(", "select_stmt", ")">>,
           <<"expr", "COMPARISON", "ALL", "(", "select_stmt", ")">>})
    \cup Make("expr", "newExprCal", "t_expr_cal", <<Lit, 0, 0, 1, 3>>,
           {<<"expr", "|", "expr">>, <<"expr", "&", "expr">>, <<"expr", "^", "expr">>,
           <<"expr", "SHIFT", "expr">>})
    \cup Make("expr", "newExprCal", "t_expr_cal", <<Lit, 0, 0, 0, 2>>,
           {<<"NOT", "expr">>, <<"!", "expr">>})
    \cup NilOf("expr", {<<"USERVAR", "ASSIGN", "expr">>})
    \cup Copy("expr", 2, {<<"(", "expr", ")">>})
    \cup Make("expr", "newExprFunc", "t_expr_func", <<Lit, 1, 0, 0, 0>>,
           {<<"expr", "IS", "NULLX">>, <<"expr", "IS", "NOT", "NULLX">>,
           <<"expr", "IS", "BOOL">>, <<"expr", "IS", "NOT", "BOOL">>})
    \cup Make("expr", "newExprFunc", "t_expr_func", <<Lit, 1, 3, 5, 0>>,
           {<<"expr", "BETWEEN", "expr", "AND", "expr">>})

MemberRules ==
    Make("expr_list", "newExprList", "t_expr_list", <<1, 0>>, {<<"expr">>})
    \cup Make("expr_list", "newExprList", "t_expr_list", <<1, 3>>,
           {<<"expr", ",", "expr_list">>})
    \cup Make("expr_list", "newExprList", "t_expr_list", <<2, 4>>,
           {<<"(", "expr", ",", "expr_list", ")">>})
    \cup Default("opt_expr_list", {<<>>})
    \cup Copy("opt_expr_list", 1, {<<"expr_list">>})
    \cup Make("expr", "newExprCal", "t_expr_cal", <<Lit, 0, 0, 1, 4>>,
           {<<"expr", "IN", "(", "expr_list", ")">>,
           <<"expr", "IN", "(", "select_stmt", ")">>})
    \cup Make("expr", "newExprCal", "t_expr_cal", <<Lit, 0, 0, 2, 6>>,
           {<<"(", "expr_list", ")", "IN", "(", "expr_list", ")">>,
           <<"(", "expr_list", ")", "IN", "(", "select_stmt", ")">>})
    \cup Make("expr", "newExprCal", "t_expr_cal", <<Lit, 0, 0, 1, 5>>,
           {<<"expr", "NOT", "IN", "(", "expr_list", ")">>,
           <<"expr", "NOT", "IN", "(", "select_stmt", ")">>})
    \cup Make("expr", "newExprCal", "t_expr_cal", <<Lit, 0, 0, 2, 7>>,
           {<<"(", "expr_list", ")", "NOT", "IN", "(", "expr_list", ")">>,
           <<"(", "expr_list", ")", "NOT", "IN", "(", "select_stmt", ")">>})
    \cup Make("expr", "newExprCal", "t_expr_cal", <<Lit, 0, 0, 0, 3>>,
           {<<"EXISTS", "(", "select_stmt", ")">>})
    \cup Make("expr", "newExprCal", "t_expr_cal", <<Lit, 0, 0, 0, 4>>,
           {<<"NOT", "EXISTS", "(", "select_stmt", ")">>})
    \cup Make("expr", "newExprCal", "t_expr_cal", <<Lit, 1, 0, 0, 3>>,
           {<<"NAME", "(", "opt_expr_list", ")">>})

AggregateRules ==
    Make("expr", "newExprFunc", "t_expr_func", <<Lit, 0, 0, 0, 0>>,
           {<<"FCOUNT", "(", "*", ")">>})
    \cup Make("expr", "newExprFunc", "t_expr_func", <<Lit, 0, 3, 0, 0>>,
           {<<"FCOUNT", "(", "expr", ")">>, <<"FSUM", "(", "expr", ")">>,
           <<"FAVG", "(", "expr", ")">>, <<"FMIN", "(", "expr", ")">>,
           <<"FMAX", "(", "expr", ")">>, <<"FTRIM", "(", "expr", ")">>,
           <<"FUPPER", "(", "expr", ")">>, <<"FCOALESCE", "(", "expr_list", ")">>})
    \cup Make("expr", "newExprFunc", "t_expr_func", <<Lit, 3, 5, 0, 0>>,
           {<<"FSUBSTRING", "(", "expr", ",", "expr", ")">>,
           <<"FSUBSTRING", "(", "expr", "FROM", "expr", ")">>})
    \cup Make("expr", "newExprFunc", "t_expr_func", <<Lit, 3, 5, 7, 0>>,
           {<<"FSUBSTRING", "(", "expr", ",", "expr", ",", "expr", ")">>,
           <<"FSUBSTRING", "(", "expr", "FROM", "expr", "FOR", "expr", ")">>})
    \cup Make("expr", "newExprFunc", "t_expr_func", <<3, 0, 4, 6, 0>>,
           {<<"FTRIM", "(", "trim_ltb", "expr", "FROM", "expr", ")">>})
    \cup Make("expr", "newExprFunc", "t_expr_func", <<Lit, 0, 3, 5, 0>>,
           {<<"FCAST", "(", "expr", "AS", "date_type", ")">>})
    \cup Literal("trim_ltb", {<<"LEADING">>, <<"TRAILING">>, <<"BOTH">>})

CastRules ==
    Nil("date_type")
    \cup Make("date_type", "newExpr", "t_stringval", <<Local>>,
           {<<"INTEGER">>, <<"STRING">>, <<"DOUBLE">>, <<"FLOAT">>, <<"CHAR">>})
    \cup Make("expr", "newExprFunc", "t_expr_func", <<Lit, 3, 5, 0, 0>>,
           {<<"FDATE_ADD", "(", "expr", ",", "interval_exp", ")">>,
           <<"FDATE_SUB", "(", "expr", ",", "interval_exp", ")">>})
    \cup Make("interval_exp", "newExprFunc", "t_expr_func", <<Lit, 2, 0, 0, 0>>,
           {<<"INTERVAL", "expr", "DAY_HOUR">>,
           <<"INTERVAL", "expr", "DAY_MICROSECOND">>,
           <<"INTERVAL", "expr", "DAY_MINUTE">>, <<"INTERVAL", "expr", "DAY_SECOND">>,
           <<"INTERVAL", "expr", "DAY">>, <<"INTERVAL", "expr", "YEAR_MONTH">>,
           <<"INTERVAL", "expr", "YEAR">>, <<"INTERVAL", "expr", "WEEK">>,
           <<"INTERVAL", "expr", "QUARTER">>})

CaseRules ==
    Make("expr", "newExprFunc", "t_expr_func", <<Lit, 2, 3, 0, 0>>,
           {<<"CASE", "expr", "case_list", "END">>})
    \cup Make("expr", "newExprFunc", "t_expr_func", <<Lit, 2, 3, 5, 0>>,
           {<<"CASE", "expr", "case_list", "ELSE", "expr", "END">>})
    \cup Make("expr", "newExprFunc", "t_expr_func", <<Lit, 0, 2, 0, 0>>,
           {<<"CASE", "case_list", "END">>})
    \cup Make("expr", "newExprFunc", "t_expr_func", <<Lit, 0, 2, 4, 0>>,
           {<<"CASE", "case_list", "ELSE", "expr", "END">>})
    \cup Make("case_list", "newExprFunc", "t_expr_func", <<Lit, 0, 2, 4, 0>>,
           {<<"WHEN", "expr", "THEN", "expr">>})
    \cup Make("case_list", "newExprFunc", "t_expr_func", <<Lit, 0, 3, 5, 1>>,
           {<<"case_list", "WHEN", "expr", "THEN", "expr">>})

\* PatternRulesOneSided drops the left operand of NOT REGEXP too.
PatternRulesOneSided ==
    Make("expr", "newExprCal", "t_expr_cal", <<Lit, 0, 0, 1, 3>>,
           {<<"expr", "LIKE", "expr">>, <<"expr", "REGEXP", "expr">>})
    \cup Make("expr", "newExprCal", "t_expr_cal", <<Lit, 0, 0, 0, 4>>,
           {<<"expr", "NOT", "LIKE", "expr">>})
    \cup Make("expr", "newExprCal", "t_expr_cal", <<Lit, 0, 0, 0, 4>>,
           {<<"expr", "NOT", "REGEXP", "expr">>})
    \cup Default("expr",
           {<<"CURRENT_TIMESTAMP">>, <<"CURRENT_DATE">>, <<"CURRENT_TIME">>,
           <<"BINARY", "expr">>})

PatternRules ==
    Make("expr", "newExprCal", "t_expr_cal", <<Lit, 0, 0, 1, 3>>,
           {<<"expr", "LIKE", "expr">>, <<"expr", "REGEXP", "expr">>})
    \cup Make("expr", "newExprCal", "t_expr_cal", <<Lit, 0, 0, 0, 4>>,
           {<<"expr", "NOT", "LIKE", "expr">>})
    \cup Make("expr", "newExprCal", "t_expr_cal", <<Lit, 0, 0, 1, 4>>,
           {<<"expr", "NOT", "REGEXP", "expr">>})
    \cup Default("expr",
           {<<"CURRENT_TIMESTAMP">>, <<"CURRENT_DATE">>, <<"CURRENT_TIME">>,
           <<"BINARY", "expr">>})

-----------------------------------------------------------------------------
\* The switch, stretch by stretch, and everything a rule mentions.
Sections ==
    <<StatementList, QueryRules, ClauseRules, SelectRules, JoinRules, DeleteRules,
      InsertRules, AssignRules, DatabaseRules, ColumnRules, AttributeRules,
      AlterRules, IndexRules, DropRules, TransactionRules, LevelRules, GrantRules,
      MaintenanceRules, ShowRules, ServerRules, SetRules, NumberTypeRules,
      TextTypeRules, ConstantRules, CompareRules, MemberRules, AggregateRules,
      CastRules, CaseRules, PatternRules>>
Rules == UNION {Sections[k] : k \in DOMAIN Sections}
Symbols ==
    {r.lhs : r \in Rules} \cup {"error"}
        \cup UNION {{r.rhs[i] : i \in DOMAIN r.rhs} : r \in Rules}

=============================================================================
