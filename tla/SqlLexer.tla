------------------------------ MODULE SqlLexer ------------------------------
(***************************************************************************)
(* The token rules of the scanner, src/src/sql/lex.yy.cpp: which token      *)
(* each rule of yylex returns, what it leaves in the global yylval, and     *)
(* how the start conditions change.  Token texts are abstracted to the      *)
(* union member of YYSTYPE the rule writes.                                 *)
(*                                                                         *)
(* A keyword rule returns its token and leaves yylval alone, so the         *)
(* semantic value the parser stacks for it is whatever the last value token *)
(* left there.  The rule of the keyword COMMENT is missing from these sets: *)
(* the start condition of that name is a macro with the value 1 (line       *)
(* 1519), so the rule returns 1, which is the number of no token.           *)
(***************************************************************************)
Keywords_ADD_CHECK ==
    {"ADD", "ALL", "ALTER", "ANALYZE", "AND", "ANDOP", "ANY", "AS", "ASC",
     "AUTO_INCREMENT", "BEFORE", "BETWEEN", "BIGINT", "BINARY", "BIT", "BLOB", "BOTH",
     "BTREE", "BY", "CALL", "CASCADE", "CASE", "CHANGE", "CHAR", "CHECK"}

Keywords_COLLATE_DECLARE ==
    {"COLLATE", "COLUMN", "CONDITION", "CONSTRAINT", "CONTINUE", "CONVERT", "CREATE",
     "CROSS", "CURRENT_DATE", "CURRENT_TIME", "CURRENT_TIMESTAMP", "CURRENT_USER",
     "CURSOR", "DATABASE", "DATABASES", "DAY", "DATE", "DATETIME", "DAY_HOUR",
     "DAY_MICROSECOND", "DAY_MINUTE", "DAY_SECOND", "DECIMAL", "DECLARE"}

Keywords_DEFAULT_FORCE ==
    {"DEFAULT", "DELAYED", "DELETE", "DESC", "DESCRIBE", "DETERMINISTIC", "DISTINCT",
     "DISTINCTROW", "DIV", "DOUBLE", "DROP", "DUAL", "EACH", "ELSE", "ELSEIF", "END",
     "ENUM", "ESCAPED", "EXISTS", "EXIT", "EXPLAIN", "FETCH", "FLOAT", "FOR", "FORCE"}

Keywords_FOREIGN_JOIN ==
    {"FOREIGN", "FROM", "FULLTEXT", "GRANT", "GROUP", "HASH", "HAVING",
     "HIGH_PRIORITY", "HOUR_MICROSECOND", "HOUR_MINUTE", "HOUR_SECOND", "IF", "IGNORE",
     "IN", "INFILE", "INNER", "INOUT", "INSENSITIVE", "INSERT", "INTEGER", "INTERVAL",
     "INTO", "IS", "ITERATE", "JOIN"}

Keywords_INDEX_MINUTE_SECOND ==
    {"INDEX", "KEY", "KEYS", "KILL", "LEADING", "LEAVE", "LEFT", "LIKE", "LIMIT",
     "LINES", "LOAD", "LOCALTIME", "LOCALTIMESTAMP", "LOCK", "LONG", "LONGBLOB",
     "LONGTEXT", "LOOP", "LOW_PRIORITY", "MATCH", "MEDIUMBLOB", "MEDIUMINT",
     "MEDIUMTEXT", "MINUTE_MICROSECOND", "MINUTE_SECOND"}

Keywords_MOD_QUARTER ==
    {"MOD", "MODIFIES", "NATURAL", "NOT", "NO_WRITE_TO_BINLOG", "NULLX", "NUMBER",
     "ON", "DUPLICATE", "OPTIMIZE", "OPTION", "OPTIONALLY", "OR", "ORDER", "OUT",
     "OUTER", "OUTFILE", "PARTITIONED", "PRECISION", "PRIMARY", "PROCEDURE",
     "PROJECTION", "PURGE", "QUICK", "QUARTER"}

Keywords_READ_SOME ==
    {"READ", "READS", "REAL", "REFERENCES", "REGEXP", "RELEASE", "RENAME", "REPEAT",
     "REPLACE", "REQUIRE", "RESTRICT", "RETURN", "REVOKE", "RIGHT", "ROLLUP", "SCHEMA",
     "SCHEMAS", "SECOND_MICROSECOND", "SELECT", "SENSITIVE", "SEPARATOR", "SET",
     "SHOW", "SMALLINT", "SOME"}

Keywords_SONAME_TRAILING ==
    {"SONAME", "SPATIAL", "SPECIFIC", "SQL", "SQLEXCEPTION", "SQLSTATE", "SQLWARNING",
     "SQL_BIG_RESULT", "SQL_CALC_FOUND_ROWS", "SQL_SMALL_RESULT", "SSL", "STARTING",
     "STRAIGHT_JOIN", "TABLE", "TABLES", "TEMPORARY", "TERMINATED", "TEXT", "THEN",
     "TIME", "TIMESTAMP", "TINYINT", "TINYTEXT", "TO", "TRAILING"}

Keywords_TRIGGER_YEAR ==
    {"TRIGGER", "UNDO", "UNION", "UNIQUE", "UNLOCK", "UNSIGNED", "UPDATE", "USAGE",
     "USE", "USING", "UTC_DATE", "UTC_TIME", "UTC_TIMESTAMP", "VALUES", "VARBINARY",
     "VARCHAR", "VARYING", "WHEN", "WHERE", "WEEK", "WHILE", "WITH", "WRITE", "XOR",
     "YEAR"}

\* Keywords_YEAR_MONTH_ZEROFILL lacks the rule of BEGIN.
Keywords_YEAR_MONTH_ZEROFILL ==
    {"YEAR_MONTH", "ZEROFILL"}

Keywords_YEAR_MONTH_BEGINT ==
    {"YEAR_MONTH", "ZEROFILL", "BEGINT"}

\* Every token some rule without a value returns.
KeywordTokens ==
    UNION {Keywords_ADD_CHECK, Keywords_COLLATE_DECLARE, Keywords_DEFAULT_FORCE,
           Keywords_FOREIGN_JOIN, Keywords_INDEX_MINUTE_SECOND,
           Keywords_MOD_QUARTER, Keywords_READ_SOME, Keywords_SONAME_TRAILING,
           Keywords_TRIGGER_YEAR, Keywords_YEAR_MONTH_BEGINT}

\* Rules 246-248, 259-271 and 282: operator characters, && and ||, the
\* functions recognised by the "(" behind their name, and ":=".
OperatorTokens ==
    {"-", "+", "&", "~", "|", "^", "/", "%", "*", "(", ")", ",", ".", ";", "!",
     "ANDOP", "OR", "ASSIGN"}

FunctionTokens ==
    {"FSUBSTRING", "FTRIM", "FDATE_ADD", "FDATE_SUB", "FUPPER", "FCOALESCE",
     "FCAST", "FCONVERT", "FCOUNT", "FSUM", "FAVG", "FMIN", "FMAX"}

\* Numbers, booleans, strings, names and user variables: yylval.strval is set.
StringTokens ==
    {"INTNUM", "APPROXNUM", "BOOL", "STRING", "NAME", "USERVAR"}

\* Comparisons and shifts: yylval.subtok is set.
SubtokTokens == {"COMPARISON", "SHIFT"}

\* The tokens yylex can return.  A grammar rule over any other token can
\* never be reduced.
LexerTokens ==
    KeywordTokens \cup OperatorTokens \cup FunctionTokens
        \cup StringTokens \cup SubtokTokens

=============================================================================
