----------------------------- MODULE SqlSession -----------------------------
(***************************************************************************)
(* The interactive loop of SqlParser::execute: type a text up to its first  *)
(* ";", scan and parse it, and walk the statement list it became.           *)
(*                                                                         *)
(* What the loop carries from one statement to the next is the point here:  *)
(* getparsetreeroot clears parsetreeroot and globalInputText, but the reset *)
(* of globalReadOffset and of errorNumber is commented out, and the start   *)
(* condition of the scanner is a static variable that nobody resets.        *)
(*                                                                         *)
(* A text is a sequence of lexemes of width one ("semicolon" is ";").  The  *)
(* statements are a small part of the grammar: SELECT with an expression    *)
(* that may use BETWEEN ... AND, and USE, whose rule builds no tree.        *)
(***************************************************************************)
EXTENDS Integers, Sequences, FiniteSets

CONSTANTS
    Texts,      \* the texts a user may type; each ends with its only ";"
    MaxErrors   \* bound on errorNumber

Lexemes == {"SELECT", "USE", "a", "BETWEEN", "AND", "/*", "*/", "space", "semicolon"}

ASSUME TextsAssumption ==
    \A t \in Texts : /\ t \in Seq(Lexemes)
                     /\ Len(t) > 0
                     /\ \A i \in DOMAIN t : t[i] = "semicolon" <=> i = Len(t)

VARIABLES
    pc,           \* where SqlParser::execute is
    text,         \* globalInputText
    offset,       \* globalReadOffset
    before,       \* globalReadOffset when the text was typed (history)
    errors,       \* errorNumber when the text was typed (history)
    buf,          \* characters in the scanner's buffer not yet matched
    mode,         \* YY_START
    oldstate,     \* the start condition "/*" saves
    stack,        \* symbols on the parser's stack since the last ";"
    root,         \* parsetreeroot: the sentence of its only statement, or NULL
    errorNumber

sessionVars == <<pc, text, offset, before, errors, buf, mode, oldstate, stack, root, errorNumber>>

NULL == <<>>
NAME == "a"

Expressions == {<<NAME>>, <<NAME, "ANDOP", NAME>>, <<NAME, "BETWEEN", NAME, "AND", NAME>>}
Alias == {<<>>, <<NAME>>}

\* The statements: stmt ';', as the parser's tables accept it.
Sentences ==
    {<<"SELECT">> \o e \o a \o <<"semicolon">> : e \in Expressions, a \in Alias}
        \cup {<<"USE", NAME, "semicolon">>}

Viable(s) == \E q \in Sentences : Len(s) <= Len(q) /\ SubSeq(q, 1, Len(s)) = s

SessionInit ==
    /\ pc = "prompt"
    /\ text = <<>>
    /\ offset = 0 /\ before = 0 /\ errors = 0
    /\ buf = <<>>
    /\ mode = "INITIAL" /\ oldstate = "INITIAL"
    /\ stack = <<>>
    /\ root = NULL
    /\ errorNumber = 0

-----------------------------------------------------------------------------
\* A text is typed; yyparse starts with an empty stack, and with a scanner whose
\* buffer is new because its last answer was the end of the input.
getparsetreeroot(t) ==
    /\ pc = "prompt" /\ errorNumber < MaxErrors
    /\ text' = t
    /\ before' = offset /\ errors' = errorNumber
    /\ root' = NULL
    /\ stack' = <<>>
    /\ pc' = "refill"
    /\ UNCHANGED <<offset, buf, mode, oldstate, errorNumber>>

\* YY_INPUT on the new buffer.  A negative count survives the comparison with the
\* buffer's size only as a huge unsigned one, which realloc refuses: the scanner
\* exits.
readInputForLexer ==
    /\ pc = "refill"
    /\ offset' = Len(text)
    /\ IF Len(text) < offset
       THEN pc' = "exited" /\ UNCHANGED buf
       ELSE pc' = "scan" /\ buf' = SubSeq(text, offset + 1, Len(text))
    /\ UNCHANGED <<text, before, errors, mode, oldstate, stack, root, errorNumber>>

-----------------------------------------------------------------------------
\* The token for a lexeme outside a comment, and the mode it leaves; "" is none.
\* LexedSticky forgets to leave BTWMODE at the AND.
LexedSticky(c) ==
    CASE c = "AND" -> <<IF mode = "BTWMODE" THEN "AND" ELSE "ANDOP", mode>>
      [] c = "BETWEEN" -> <<"BETWEEN", "BTWMODE">>
      [] c = "/*" -> <<"", "COMMENT">>
      [] c = "space" -> <<"", mode>>
      [] OTHER -> <<c, mode>>
Lexed(c) ==
    CASE c = "AND" -> IF mode = "BTWMODE" THEN <<"AND", "INITIAL">> ELSE <<"ANDOP", mode>>
      [] c = "BETWEEN" -> <<"BETWEEN", "BTWMODE">>
      [] c = "/*" -> <<"", "COMMENT">>
      [] c = "space" -> <<"", mode>>
      [] OTHER -> <<c, mode>>

\* Everything in a comment is skipped, a ";" too, up to the end of the comment.
SkipComment ==
    /\ pc = "scan" /\ buf # <<>> /\ mode = "COMMENT"
    /\ mode' = IF Head(buf) = "*/" THEN oldstate ELSE mode
    /\ buf' = Tail(buf)
    /\ UNCHANGED <<pc, text, offset, before, errors, oldstate, stack, root, errorNumber>>

\* Rule 2, stmt_list: stmt ';'.  A text has one ";", so no list gets longer.
ReduceStatement(sentence) ==
    /\ root' = IF errorNumber = 0 THEN sentence ELSE NULL
    /\ UNCHANGED errorNumber

\* Rule 4, stmt_list: error ';'.
ReduceError ==
    /\ root' = NULL
    /\ errorNumber' = errorNumber + 1

\* yyparse shifts a token the tables accept; behind the ";" it reduces.
Shift(token) ==
    LET next == Append(stack, token)
    IN  IF token = "semicolon"
        THEN stack' = <<"stmt_list">> /\ ReduceStatement(next)
        ELSE stack' = next /\ UNCHANGED <<root, errorNumber>>

\* yyrecoverSyntaxError: the stack is dropped for the error token, and so is every
\* token up to a ";".
Recover(token) ==
    IF token = "semicolon"
    THEN stack' = <<"stmt_list">> /\ ReduceError
    ELSE stack' = <<"error">> /\ UNCHANGED <<root, errorNumber>>

yyparse(token) ==
    IF Viable(Append(stack, token)) THEN Shift(token) ELSE Recover(token)

\* yylex matches one lexeme; the parser takes the token, if it is one.
yylex ==
    /\ pc = "scan" /\ buf # <<>> /\ mode # "COMMENT"
    /\ LET lexed == Lexed(Head(buf))
       IN  /\ mode' = lexed[2]
           /\ oldstate' = IF lexed[2] = "COMMENT" THEN mode ELSE oldstate
           /\ IF lexed[1] = ""
              THEN UNCHANGED <<stack, root, errorNumber>>
              ELSE yyparse(lexed[1])
    /\ buf' = Tail(buf)
    /\ UNCHANGED <<pc, text, offset, before, errors>>

\* The end of the input.  After a complete list yyparse accepts; otherwise the end
\* is a syntax error, which recovery gives up on: "SQL parse failed", and NULL.
\* In a comment yylex only prints "unclosed comment" and looks again, for ever.
yyterminateWaits ==
    /\ pc = "scan" /\ buf = <<>> /\ mode # "COMMENT"
    /\ stack = <<"stmt_list">>
    /\ pc' = "execute"
    /\ UNCHANGED <<text, offset, before, errors, buf, mode, oldstate, stack, root, errorNumber>>
yyterminate ==
    /\ pc = "scan" /\ buf = <<>> /\ mode # "COMMENT"
    /\ pc' = "execute"
    /\ root' = IF stack = <<"stmt_list">> THEN root ELSE NULL
    /\ UNCHANGED <<text, offset, before, errors, buf, mode, oldstate, stack, errorNumber>>

-----------------------------------------------------------------------------
\* The walk of the statement list.  A query goes through ast_2_lp, which ends with
\* no plan; the data of a statement without a tree is the zero its first token
\* found in yylval, and its type is read all the same.
execute ==
    /\ pc = "execute"
    /\ pc' = IF root # NULL /\ root[1] = "USE" THEN "crashed" ELSE "prompt"
    /\ UNCHANGED <<text, offset, before, errors, buf, mode, oldstate, stack, root, errorNumber>>

Parse == readInputForLexer \/ SkipComment \/ yylex \/ yyterminate \/ execute

SessionNext == Parse \/ \E t \in Texts : getparsetreeroot(t)

\* The loop runs by itself once a text is there; nobody has to type one.
SessionSpec == SessionInit /\ [][SessionNext]_sessionVars /\ WF_sessionVars(Parse)

-----------------------------------------------------------------------------
\* A reference reading of the whole sequence s, position by position.
InComment(s, i) ==
    \E j \in 1 .. i : s[j] = "/*" /\ ~ \E k \in j + 1 .. i - 1 : s[k] = "*/"
Visible(s) == {i \in DOMAIN s : ~ InComment(s, i) /\ s[i] # "space"}
TokenAt(s, i) ==
    IF s[i] # "AND" THEN s[i]
    ELSE IF \E j \in Visible(s) : /\ j < i /\ s[j] = "BETWEEN"
                                  /\ ~ \E k \in Visible(s) : j < k /\ k < i /\ s[k] = "AND"
         THEN "AND" ELSE "ANDOP"
Tokens(s) ==
    LET seen == Visible(s)
        at(n) == CHOOSE i \in seen : Cardinality({j \in seen : j <= i}) = n
    IN  [n \in 1 .. Cardinality(seen) |-> TokenAt(s, at(n))]

Rest == SubSeq(text, before + 1, Len(text))

\* What getparsetreeroot returns is the tree that a parser without a past would
\* build from the part of the text behind the length of the previous text, as long
\* as no earlier statement had an error, and NULL from then on.  It says what
\* the unreset globals do to later statements, and that nothing else leaks: neither
\* the stack nor BTWMODE nor a saved comment state reaches a statement's tree.
TreeOfTheRest ==
    pc = "execute" =>
        root = IF errors = 0 /\ Tokens(Rest) \in Sentences THEN Tokens(Rest) ELSE NULL

\* Every text typed is answered, unless the program stops over it: the scanner exits
\* if and only if the text is shorter than the one before, the walk of the list may
\* die of a statement without a tree, and yylex never returns from the end of an
\* open comment.
EveryTextAnswered ==
    /\ (pc = "refill") ~> \/ pc \in {"prompt", "crashed", "exited"}
                          \/ pc = "scan" /\ buf = <<>> /\ mode = "COMMENT"
    /\ []((pc = "exited" => Len(text) < before) /\ (pc = "prompt" => Len(text) >= before))
=============================================================================
