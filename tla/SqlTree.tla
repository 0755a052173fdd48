------------------------------ MODULE SqlTree -------------------------------
(***************************************************************************)
(* What the parser builds, and what its readers find in it.                 *)
(*                                                                         *)
(* yyparse reduces grammar rules in the order the statement dictates and    *)
(* stacks one YYSTYPE union per symbol.  This module collects, over all     *)
(* statements of any length at once, the values a symbol's union can hold   *)
(* (val) and the values a field of a node can hold (fld).  A value is a     *)
(* pair:                                                                   *)
(*   <<struct, tag>>     a node;                                            *)
(*   Null                a NULL pointer or the number zero;                 *)
(*   Number, Text        a number (intval, subtok), a string (strval);      *)
(*   Dangling            the address of an array of a finished action;      *)
(*   <<"yylval", t>>     a token t that has no value of its own: the union  *)
(*                       is what the last token with a value left in yylval,*)
(*                       zero if there was none in this statement.          *)
(* Each step applies one stretch of the switch of yyuserAction to all the   *)
(* values found so far; after the last stretch comes the first again.  A    *)
(* rule over a token that yylex never returns is never applied.  The tree   *)
(* printer output() is left out: its calls on queries are commented out,    *)
(* and on every other statement it ends in its default case at once.        *)
(***************************************************************************)
EXTENDS SqlGrammar

VARIABLES val, fld, pos

vars == <<val, fld, pos>>

Null == <<"null", "">>
Number == <<"number", "">>
Text == <<"text", "">>
Dangling == <<"dangling", "">>
Stray(token) == <<"yylval", token>>

IsNode(v) == v[1] \in DOMAIN Structs

-----------------------------------------------------------------------------
\* What the scanner leaves in yylval for a token.  The error token that
\* yyrecoverSyntaxError shifts takes the current yylval too.
TokenValue(s) ==
    CASE s \in StringTokens -> {Text}
      [] s \in SubtokTokens -> {Number}
      [] s \in KeywordTokens \cup OperatorTokens \cup FunctionTokens \cup {"error"} ->
             {Stray(s)}
      [] OTHER -> {}

Init ==
    /\ val = [s \in Symbols |-> TokenValue(s)]
    /\ fld = {}
    /\ pos = 1

\* A rule can be reduced once every symbol of its right hand side has a value.
Reducible(r) == \A i \in DOMAIN r.rhs : val[r.rhs[i]] # {}

\* The values of $i, or of a constant argument, in rule r.
Operand(r, i) ==
    CASE i > 0 -> val[r.rhs[i]]
      [] i = 0 -> {Null}
      [] i = Lit -> {Text}
      [] i = Local -> {Dangling}

\* The value of $$: yyuserAction presets it, the action may overwrite it.
\* PresetStale is a switch that forgets to clear it for an empty right hand side.
PresetStale(r) == IF r.rhs = <<>> THEN {Stray("")} ELSE val[r.rhs[1]]
Preset(r) == IF r.rhs = <<>> THEN {Null} ELSE val[r.rhs[1]]

Result(r) ==
    CASE r.act \in {"default", "update"} -> Preset(r)
      [] r.act = "flag" -> {Number}
      [] r.act = "null" -> {Null}
      [] r.act = "literal" -> {Text}
      [] r.act = "copy" -> Operand(r, r.arg[1])
      [] r.act = "make" -> {<<Constructors[r.new].struct, r.tag>>}

\* The fields the action of r writes: a triple of node, field and value.
Stored(r) ==
    CASE r.act = "make" ->
           LET new == Constructors[r.new]
               node == <<new.struct, r.tag>>
           IN  UNION {{<<node, new.fields[k], v>> : v \in Operand(r, r.arg[k])}
                         : k \in DOMAIN r.arg}
                 \cup (IF r.new \in OwnedHeader THEN {<<node, "whcdn", Header>>} ELSE {})
      [] r.act = "update" /\ r.tag # "" ->
           {<<n, r.tag, v>> : n \in val[r.rhs[1]], v \in Operand(r, r.arg[1])}
      [] OTHER -> {}

\* Reduce every reducible rule of one stretch of the switch.
Reduce(section) ==
    LET rules == {r \in section : Reducible(r)}
        new == [s \in {r.lhs : r \in rules} |->
                   UNION {Result(r) : r \in {q \in rules : q.lhs = s}}]
    IN  /\ val' = [s \in DOMAIN new |-> val[s] \cup new[s]] @@ val
        /\ fld' = fld \cup UNION {Stored(r) : r \in rules}

Step(k) ==
    /\ pos = k
    /\ pos' = (k % Len(Sections)) + 1
    /\ Reduce(Sections[k])

Next == \E k \in DOMAIN Sections : Step(k)

Spec == Init /\ [][Next]_vars /\ WF_vars(Next)

-----------------------------------------------------------------------------
\* Expressions the grammar has rules for but no action: their value is the
\* union of their first token.
ValuelessExpressions == {"CURRENT_TIMESTAMP", "CURRENT_DATE", "CURRENT_TIME", "BINARY"}

\* Statements whose rules build no tree, by their first token.
UntreedStatements ==
    {"ANALYZE", "BEGINT", "CHECK", "CREATE", "DELETE", "DESC", "DESCRIBE", "GRANT",
     "KILL", "LOCK", "OPTIMIZE", "RENAME", "REPLACE", "REVOKE", "SET", "SHOW",
     "UNLOCK", "UPDATE", "USE"}

\* Fields a value of the wrong union member reaches, and what is there.
StrayIn(struct, field) ==
    CASE field = "into_list" -> {Stray("INTO")}
      [] struct = "Altertable_stmt" ->
             {Stray(t) : t \in {"ADD", "CHANGE", "DROP", "RENAME", "ORDER"}}
      [] struct = "Stmt" ->
             {Stray(t) : t \in IF field = "data" THEN UntreedStatements ELSE {"error"}}
      [] field \in {"insert_assign_list", "insert_assign_list_from_set"} -> {Text}
      [] struct = "Insert_assign_list" /\ field = "next" -> {Text}
      [] field \in {"data", "args", "lnext", "rnext", "parameter1", "parameter2", "next",
                    "colname", "offset", "row_count", "expr"} ->
             {Stray(t) : t \in ValuelessExpressions}
      [] OTHER -> {}

\* Every field of every node of every statement holds what the struct declares:
\* a Node* field NULL or a node, a char* field NULL or a string, a number field a
\* number or the text atoi turns into one.  The grammar reads each $i through the
\* union member of its choice, so this is about the agreement of 611 actions, the
\* scanner and the constructors; the only strays are the yylval leftovers of the
\* actionless expressions, INTO, ALTER TABLE and untreed statements, the name an
\* INSERT assignment with another comparison than "=" leaves, and the dead local
\* array of CAST.
FieldsHoldTheirType ==
    \A f \in fld :
        LET struct == f[1][1]
            field == f[2]
            v == f[3]
        IN  \/ field \in Structs[struct].node
                 /\ (IsNode(v) \/ v = Null \/ v \in StrayIn(struct, field))
            \/ field \in Structs[struct].char
                 /\ (v \in {Text, Null} \/ (struct = "Expr" /\ v = Dangling))
            \/ field \in Structs[struct].int
                 /\ (v \in {Number, Null}
                       \/ (field \in {"data1", "data2", "partition_num"} /\ v = Text))

\* What the fields of a query tree are declared for: the casts of osgwf_2_lp and, for
\* the clauses it does not plan yet, those of output().
Expression == {"Expr", "Columns", "Expr_cal", "Expr_func"}
Readers ==
    [Query_stmt |-> [select_list |-> {"Select_list"}, from_list |-> {"From_list"},
         where_list |-> {"Where_list"}, groupby_list |-> {"Groupby_list"},
         having_list |-> {"Having_list"}, orderby_list |-> {"Orderby_list"},
         limit_list |-> {"Limit_expr"}, into_list |-> {"Columns"}],
     Select_list |-> [args |-> {"Select_expr"}, next |-> {"Select_list"}],
     Select_expr |-> [colname |-> Expression],
     From_list |-> [args |-> {"Table", "Join", "From_list"}, next |-> {"From_list"},
         whcdn |-> {"Expr_list_header"}],
     Table |-> [subquery |-> {"Query_stmt"}, whcdn |-> {"Expr_list_header"}],
     Join |-> [lnext |-> {"Table", "Join", "From_list"}, rnext |-> {"Table", "From_list"},
         condition |-> {"Condition"}],
     Where_list |-> [next |-> Expression],
     Having_list |-> [next |-> Expression],
     Groupby_list |-> [next |-> {"Groupby_expr"}],
     Orderby_list |-> [next |-> {"Groupby_expr"}],
     Groupby_expr |-> [args |-> Expression, next |-> {"Groupby_expr"}],
     Columns |-> [next |-> {"Columns"}],
     Expr_list |-> [data |-> Expression, next |-> {"Expr_list"}]]

\* Each clause hangs where its reader looks for it: osgwf_2_lp, the one reader of a
\* query tree that is called, casts orderby_list to Orderby_list and its next to
\* Groupby_expr without a look at the nodetype.  One swapped operand in one action,
\* or one swapped assignment in a constructor, breaks it.
ClausesInTheirFields ==
    \A f \in fld :
        f[1][1] \in DOMAIN Readers /\ f[2] \in DOMAIN Readers[f[1][1]] /\ IsNode(f[3])
            => f[3][1] \in Readers[f[1][1]][f[2]]

\* No subtree is lost on the way up: a reduction that builds a query or an
\* expression keeps every node of its right hand side in the node it makes, or is
\* one of the four rules that do not (BINARY e, @v := e, a NOT LIKE b and INTO).
QueryParts ==
    {"select_stmt", "expr", "expr_list", "opt_expr_list", "case_list", "interval_exp",
     "select_expr_list", "select_expr", "table_references", "table_reference",
     "table_factor", "join_table", "join_condition", "opt_join_condition",
     "table_subquery", "opt_where", "opt_groupby", "groupby_list", "opt_having",
     "opt_orderby", "opt_limit", "opt_into_list", "column_list"}
OperandsKept ==
    \A r \in Rules :
        r.lhs \in QueryParts /\ Reducible(r) =>
            \/ r.rhs \in {<<"BINARY", "expr">>, <<"USERVAR", "ASSIGN", "expr">>,
                          <<"expr", "NOT", "LIKE", "expr">>, <<"INTO", "column_list">>}
            \/ \A i \in DOMAIN r.rhs :
                 (\E v \in val[r.rhs[i]] : IsNode(v)) =>
                     \/ \E k \in DOMAIN r.arg : r.arg[k] = i
                     \/ r.act = "default" /\ i = 1

\* The statements of the grammar that no input can be, because yylex has no rule for
\* a token they need, are the ones listed: every other kind of statement can be
\* reduced in the end.
DeadStatements ==
    {"truncate_stmt", "commit_stmt", "rollback_stmt", "set_autocommit_stmt",
     "savepoint_stmt", "rollback_to_savepoint_stmt", "release_savepoint",
     "set_transaction_stmt", "create_user_stmt", "drop_user_stmt", "rename_user_stmt",
     "set_password_stmt", "backup_table_stmt", "checksum_table_stmt",
     "repair_table_stmt", "restore_table_stmt", "cache_index_stmt", "flush_stmt",
     "load_index_stmt", "reset_stmt", "prepare_stmt"}
OnlyDeadStatementsMissing ==
    <>[](\A r \in Rules : r.lhs = "stmt" /\ r.rhs[1] \in {q.lhs : q \in Rules} =>
             (val[r.rhs[1]] = {} <=> r.rhs[1] \in DeadStatements))
=============================================================================
