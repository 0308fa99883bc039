------------------------------- MODULE Parser -------------------------------
(***************************************************************************)
(* The parser (src/parser.c, src/ast.c): tokens to a tree.  A node is a    *)
(* record with a "type"; its children are fields of it instead of indices  *)
(* into the pool.  Of the pool only the order of its procedure             *)
(* definitions is kept (defs), because find_proc_def and compile_program   *)
(* walk them in that order.                                                *)
(*                                                                         *)
(* A parse function takes the parser's constant part g (tokens, hoisted    *)
(* names) and its moving part r, and returns r with the new position, the  *)
(* definitions and errors met, and the node it built:                      *)
(*   [pos, defs, errors, node], with eager, the number of the definitions  *)
(*   that are those of files it LOADs.                                     *)
(* Keywords and names are compared as written (programs here are in upper  *)
(* case); number literals are integers.                                    *)
(***************************************************************************)
EXTENDS Lexer, Integers, TLC

CONSTANTS MaxHoisted,      \* MAX_HOISTED_PROCS
          MaxEagerLoads,   \* MAX_EAGER_LOADS
          MaxEagerDepth,   \* MAX_EAGER_LOAD_DEPTH
          MaxParams,       \* AST_MAX_PARAMS
          MaxTokens,       \* MAX_EAGER_LOAD_TOKENS, MAX_LOAD_TOKENS, VM_LOAD_MAX_TOKENS
          MaxSnippetTokens, \* MAX_TEMPLATE_TOKENS, VM_RUN_MAX_TOKENS
          MaxLiteralTokens, \* LIST_LITERAL_MAX_TOKENS
          MaxIterations    \* MAX_WHILE_ITERATIONS, FOREVER_MAX_ITERATIONS

(***************************************************************************)
(* BUILTIN_SIGNATURES: the argument kinds of every builtin.                *)
(***************************************************************************)
Sig(kinds, names) == [n \in names |-> kinds]
E  == <<"expr">>
EE == <<"expr", "expr">>
Q  == <<"quoted">>

TurtleSignatures ==
     Sig(E, {"FD", "FORWARD", "BK", "BACK", "RT", "RIGHT", "LT", "LEFT",
             "SETHEADING", "SETH", "SETX", "SETY", "TOWARDS", "SETSPEED", "TELL"})
  @@ Sig(EE, {"SETXY", "DISTANCE"})
  @@ Sig(<<>>, {"GETX", "GETY", "HEADING", "POS", "CANVASSIZE", "MOUSEPOS",
                "MOUSEX", "MOUSEY", "BUTTON?", "PENUP", "PU", "PENDOWN", "PD",
                "HOME", "SPEED", "WHO", "CLEAR", "CS"})
ControlSignatures ==
     Sig(E, {"PRINT", "PR", "TYPE", "THING", "OUTPUT", "THROW", "RUN", "EXECTIME"})
  @@ Sig(EE, {"APPLY"})
  @@ Sig(Q, {"LOCAL", "TEXT", "SHOW"})
  @@ Sig(<<"quoted", "expr">>, {"MAKE"})
  @@ Sig(<<>>, {"NAMES", "PROCEDURES", "STOP"})
  @@ Sig(<<"expr", "block">>, {"REPEAT", "CATCH"})
  @@ Sig(<<"condition", "block">>, {"WHILE"})
  @@ Sig(<<"block">>, {"FOREVER"})
FileSignatures ==
     Sig(E, {"OPENREAD", "OPENWRITE", "OPENAPPEND", "READLINE", "READWORD",
             "READCHAR", "EOF?", "CLOSE"})
  @@ Sig(EE, {"FILEPRINT"})
  @@ Sig(<<>>, {"DIRECTORY", "OFFKEY", "OFFCLICK", "OFFMOUSEMOVE", "OFFKEYUP",
                "OFFRELEASE"})
  @@ Sig(Q, {"DELETEFILE", "LOAD", "SAVE", "SAVEBYTECODE", "LOADBYTECODE",
             "ONKEY", "ONCLICK", "ONMOUSEMOVE", "ONKEYUP", "ONRELEASE", "ERASE"})
CanvasSignatures ==
     Sig(E, {"LABEL", "SETPENWIDTH", "SETPW"})
  @@ Sig(EE, {"ARC", "ERASERECT", "SETCANVASSIZE"})
  @@ Sig(<<"expr", "expr", "expr">>, {"SETPENCOLOR", "SETPC", "SETBACKGROUND", "SETBG"})
  @@ Sig(<<>>, {"FILL", "PLOT", "WRAP", "FENCE", "WINDOW", "CLEAN", "HIDETURTLE",
                "HT", "SHOWTURTLE", "ST"})
ArithmeticSignatures ==
     Sig(E, {"ABS", "SQRT", "RANDOM", "ROUND", "INT", "SIN", "COS", "TAN", "ASIN",
             "ACOS", "ARCTAN", "LN", "LOG", "EXP", "ASCII", "CHAR", "UPPERCASE",
             "LOWERCASE", "BITNOT", "SEC", "CSC", "COT", "ASEC", "ACSC", "ACOT",
             "DEFINED?", "EVAL"})
  @@ Sig(EE, {"POWER", "MOD", "BITAND", "BITOR", "BITXOR", "LSHIFT", "RSHIFT",
              "ARCTAN2", "RANGE"})
  @@ Sig(<<"expr", "expr", "expr">>, {"SPACEDRANGE"})
  @@ Sig(<<>>, {"PI", "RERANDOM", "TIME", "DATE", "MILLISECONDS", "TURTLES",
                "REPCOUNT"})
DataSignatures ==
     Sig(E, {"FIRST", "BUTFIRST", "LAST", "BUTLAST", "COUNT", "EMPTY?", "WORD?",
             "LIST?", "NUMBER?", "ARRAY?", "PICK", "FLATTEN", "PARSE", "PROPLIST",
             "ARRAY"})
  @@ Sig(EE, {"FPUT", "LPUT", "WORD", "SENTENCE", "SE", "LIST", "DOT", "CROSS",
              "MEMBER?", "MAP", "FILTER", "REDUCE", "FOREACH", "GETPROP",
              "REMOVEPROP", "NEW", "ITEM", "FILLARRAY"})
  @@ Sig(<<"expr", "expr", "expr">>, {"SUBST", "SETPROP", "SEND", "SETITEM"})
RunSignatures ==
     Sig(E, {"WAIT", "SETSPRITEFRAME"})
  @@ Sig(EE, {"LAUNCH", "TONE", "ANIMATESPRITE"})
  @@ Sig(Q, {"LOADPIC", "SAVEPIC", "PLAYSOUND", "SETSPRITE"})
  @@ Sig(<<"quoted", "quoted">>, {"LOADSPRITE"})
  @@ Sig(<<"quoted", "quoted", "expr", "expr">>, {"LOADSPRITESHEET"})
  @@ Sig(<<>>, {"WAITKEY", "INPUT", "PAUSE", "CONTINUE", "CO", "CLEARTEXT", "CT",
                "BACKTRACE", "BT", "AWAIT", "YIELD", "STOPSOUND", "STAMPSPRITE"})

BuiltinSignatures ==
  TurtleSignatures @@ ControlSignatures @@ FileSignatures @@ CanvasSignatures
    @@ ArithmeticSignatures @@ DataSignatures @@ RunSignatures

(***************************************************************************)
(* Tokens and errors.                                                      *)
(***************************************************************************)
Kind(g, r) == g.toks[r.pos].k
TextOf(g, r) == g.toks[r.pos].text
AtEnd(g, r) == Kind(g, r) \in {"eof", "error"}
IsWord(t, w) == t.k = "bareword" /\ t.text = w
Sees(g, r, w) == IsWord(g.toks[r.pos], w)

Advance(g, r) == IF AtEnd(g, r) THEN r ELSE [r EXCEPT !.pos = @ + 1]
Report(r, what) == [r EXCEPT !.errors = Append(@, what)]
With(r, node) == [r EXCEPT !.node = node]
Placeholder == [type |-> "num", value |-> 0]

DigitValue == [d \in Digits |-> CHOOSE v \in 0..9 : ToString(v) = d]
RECURSIVE NumberOf(_)
NumberOf(t) == IF t = "" THEN 0
               ELSE 10 * NumberOf(SubSeq(t, 1, Len(t) - 1)) + DigitValue[At(t, Len(t))]
Number(t) == IF \A i \in 1..Len(t) : At(t, i) \in Digits THEN NumberOf(t) ELSE 0

\* The first hoisted procedure of this name.
FindHoisted(g, name) ==
  LET hits == {i \in 1..Len(g.hoisted) : g.hoisted[i].name = name}
  IN  IF hits = {} THEN <<>> ELSE <<g.hoisted[CHOOSE i \in hits : \A j \in hits : i <= j]>>

(***************************************************************************)
(* Expressions and conditions.                                             *)
(***************************************************************************)
\* The functions call each other through ReadAs, which is told what to read next.
RECURSIVE ReadAs(_, _, _)
Expr(g, r) == ReadAs("expr", g, r)
Condition(g, r) == ReadAs("condition", g, r)
Block(g, r) == ReadAs("block", g, r)
Factor(g, r) == ReadAs("factor", g, r)
Statement(g, r) == ReadAs("statement", g, r)

\* The tokens of a list literal up to its "]", as words and nested lists.
\* Quotes and colons stay on the word; a sign is merged onto the token it touches.
RECURSIVE ListItems(_, _, _)
ListItems(g, r, items) ==
  IF Kind(g, r) = "]" THEN With(Advance(g, r), [type |-> "list", items |-> items])
  ELSE IF AtEnd(g, r)
  THEN With(Report(r, "missing closing ]"), [type |-> "list", items |-> items])
  ELSE IF Kind(g, r) = "["
  THEN LET sub == ListItems(g, Advance(g, r), <<>>) IN ListItems(g, sub, Append(items, sub.node))
  ELSE LET t      == g.toks[r.pos]
           next   == g.toks[r.pos + 1]
           glued  == /\ t.k \in {"+", "-"} /\ next.k \notin {"eof", "error", "[", "]"}
                     /\ next.at = t.end     \* never so for a quoted word or a :name
           word   == IF glued THEN next ELSE t
           sigil  == CASE word.k = "quoted" -> "\"" [] word.k = "varref" -> ":" [] OTHER -> ""
           text   == (IF glued THEN t.k ELSE "") \o sigil
                       \o (IF word.k \in {"quoted", "varref", "raw", "number", "bareword"}
                           THEN word.text ELSE word.k)
       IN  ListItems(g, [r EXCEPT !.pos = @ + (IF glued THEN 2 ELSE 1)],
                     Append(items, [type |-> "word", text |-> text]))
ListLiteral(g, r) == ListItems(g, Advance(g, r), <<>>)

\* One argument, of the kind the callee's signature asks for.
Argument(g, r, kind) ==
  CASE kind = "condition" -> Condition(g, r)
    [] kind = "block" -> Block(g, r)
    [] kind = "quoted" ->
         IF Kind(g, r) = "quoted"
         THEN With(Advance(g, r), [type |-> "word", text |-> TextOf(g, r)])
         ELSE With(Report(r, "expected a word"), [type |-> "word", text |-> ""])
    [] OTHER -> Expr(g, r)

RECURSIVE CallArgs(_, _, _, _, _)
CallArgs(g, r, name, kinds, args) ==
  IF kinds = <<>> THEN With(r, [type |-> "call", name |-> name, args |-> args])
  ELSE LET a == Argument(g, r, Head(kinds))
       IN  CallArgs(g, a, name, Tail(kinds), Append(args, a.node))

\* try_parse_call: a builtin first (unless a block would have to stand in a
\* value), then a hoisted procedure; otherwise no call.
CalleeKinds(g, r, valueOnly) ==
  LET name   == TextOf(g, r)
      sig    == BuiltinSignatures[name]
      usable == /\ name \in DOMAIN BuiltinSignatures
                /\ ~valueOnly \/ \A i \in 1..Len(sig) : sig[i] \notin {"block", "condition"}
      proc   == FindHoisted(g, name)
  IN  IF Kind(g, r) # "bareword" THEN <<>>
      ELSE IF usable THEN <<sig>>
      ELSE IF proc # <<>> THEN <<[i \in 1..proc[1].arity |-> "expr"]>> ELSE <<>>
TryCall(g, r, valueOnly) ==
  LET kinds == CalleeKinds(g, r, valueOnly)
  IN  IF kinds # <<>> THEN CallArgs(g, Advance(g, r), TextOf(g, r), kinds[1], <<>>)
      ELSE With(Advance(g, Report(r, "unknown word")), Placeholder)

BarewordValue(g, r) ==
  IF Sees(g, r, "TRUE") \/ Sees(g, r, "FALSE")
  THEN With(Advance(g, r), [type |-> "word", text |-> TextOf(g, r)])
  ELSE TryCall(g, r, TRUE)

\* What is left of a parenthesis: the value read, then ")".
Close(g, r) == IF Kind(g, r) = ")" THEN Advance(g, r) ELSE Report(r, "missing closing )")

ParseFactor(g, r) ==
  CASE Kind(g, r) = "-" -> LET f == Factor(g, Advance(g, r))
                           IN  With(f, [type |-> "neg", of |-> f.node])
    [] Kind(g, r) = "+" -> Factor(g, Advance(g, r))
    [] Kind(g, r) = "(" -> Close(g, Expr(g, Advance(g, r)))
    [] Kind(g, r) = "number" -> With(Advance(g, r), [type |-> "num", value |-> Number(TextOf(g, r))])
    [] Kind(g, r) \in {"quoted", "raw"} ->
         With(Advance(g, r), [type |-> "word", text |-> TextOf(g, r)])
    [] Kind(g, r) = "varref" -> With(Advance(g, r), [type |-> "var", name |-> TextOf(g, r)])
    [] Kind(g, r) = "[" -> ListLiteral(g, r)
    [] Kind(g, r) = "bareword" -> BarewordValue(g, r)
    [] OTHER -> With(Report(r, "expected a value"), Placeholder)

\* Operators of one level associate to the left.
BinOp(op, left, right) == [type |-> "binop", op |-> op, left |-> left, right |-> right]
RECURSIVE TermTail(_, _), ExprTail(_, _)
TermTail(g, r) ==
  IF Kind(g, r) \notin {"*", "/"} THEN r
  ELSE LET f == Factor(g, Advance(g, r))
       IN  TermTail(g, With(f, BinOp(Kind(g, r), r.node, f.node)))
Term(g, r) == TermTail(g, Factor(g, r))
ExprTail(g, r) ==
  IF Kind(g, r) \notin {"+", "-"} THEN r
  ELSE LET t == Term(g, Advance(g, r))
       IN  ExprTail(g, With(t, BinOp(Kind(g, r), r.node, t.node)))
ParseExprValue(g, r) == ExprTail(g, Term(g, r))

Comparison(g, r) ==
  LET left == Expr(g, r)
  IN  IF Kind(g, left) \notin {"<", ">", "=", "<=", ">=", "<>"} THEN left
      ELSE LET right == Expr(g, Advance(g, left))
           IN  With(right, [type |-> "compare", op |-> Kind(g, left),
                            left |-> left.node, right |-> right.node])

RECURSIVE BoolNot(_, _), AndTail(_, _), OrTail(_, _)
BoolNot(g, r) ==
  IF Sees(g, r, "NOT")
  THEN LET b == BoolNot(g, Advance(g, r)) IN With(b, [type |-> "not", of |-> b.node])
  ELSE IF Kind(g, r) = "(" THEN Close(g, Condition(g, Advance(g, r)))
  ELSE Comparison(g, r)
AndTail(g, r) ==
  IF ~Sees(g, r, "AND") THEN r
  ELSE LET b == BoolNot(g, Advance(g, r))
       IN  AndTail(g, With(b, [type |-> "and", left |-> r.node, right |-> b.node]))
BoolAnd(g, r) == AndTail(g, BoolNot(g, r))
OrTail(g, r) ==
  IF ~Sees(g, r, "OR") THEN r
  ELSE LET b == BoolAnd(g, Advance(g, r))
       IN  OrTail(g, With(b, [type |-> "or", left |-> r.node, right |-> b.node]))
ParseBoolOr(g, r) == OrTail(g, BoolAnd(g, r))

(***************************************************************************)
(* Statements.                                                             *)
(***************************************************************************)
\* The statements up to the token that closes them, or to the end of the text.
Closes(g, r, closer) == IF closer = "END" THEN Sees(g, r, "END") ELSE Kind(g, r) = closer
RECURSIVE Statements(_, _, _, _)
Statements(g, r, closer, body) ==
  IF Closes(g, r, closer) \/ AtEnd(g, r)
  THEN With(r, [type |-> "block", body |-> body])
  ELSE LET s == Statement(g, r) IN Statements(g, s, closer, Append(body, s.node))

ParseBlock(g, r) ==
  IF Kind(g, r) # "["
  THEN With(Report(r, "expected [ block ]"), [type |-> "block", body |-> <<>>])
  ELSE LET s == Statements(g, Advance(g, r), "]", <<>>)
       IN  IF Kind(g, s) = "]" THEN Advance(g, s) ELSE Report(s, "missing closing ]")

\* IF and IFELSE: the second block, with or without ELSE, is the optional part.
If(g, r) ==
  LET cond == Condition(g, Advance(g, r))
      then == Block(g, cond)
      other == IF Sees(g, then, "ELSE") THEN Block(g, Advance(g, then))
               ELSE IF Kind(g, then) = "[" THEN Block(g, then)
               ELSE IF Sees(g, r, "IFELSE") THEN Report(then, "expected two [ block ]s")
               ELSE then
      hasElse == Sees(g, then, "ELSE") \/ Kind(g, then) = "["
  IN  With(other, [type |-> "if", cond |-> cond.node, then |-> then.node,
                   else |-> IF hasElse THEN <<other.node>> ELSE <<>>])

For(g, r) ==
  LET open  == Advance(g, r)
      var   == Advance(g, open)
      start == Expr(g, Advance(g, var))
      limit == Expr(g, start)
      step  == IF Kind(g, limit) = "]" THEN limit ELSE Expr(g, limit)
      head  == IF Kind(g, step) = "]" THEN Advance(g, step) ELSE Report(step, "expected ]")
      body  == Block(g, head)
  IN  IF Kind(g, open) # "[" THEN With(Report(open, "expected ["), Placeholder)
      ELSE IF Kind(g, var) # "bareword" THEN With(Report(var, "expected a name"), Placeholder)
      ELSE With(body, [type |-> "for", var |-> TextOf(g, var), start |-> start.node,
                       limit |-> limit.node, block |-> body.node,
                       step |-> IF Kind(g, limit) = "]" THEN <<>> ELSE <<step.node>>])

RECURSIVE Params(_, _, _)
Params(toks, i, names) == IF toks[i].k # "varref" THEN names
                          ELSE Params(toks, i + 1, Append(names, toks[i].text))

\* A quote that is still open at the end of the text.
Unquoted(g, r) == IF Kind(g, r) = "error" THEN Report(r, "missing closing '") ELSE r

\* TO name :p1 ... END.  The node takes its place in the pool before its body's do.
ProcDef(g, r) ==
  LET name   == Advance(g, r)
      params == Params(g.toks, name.pos + 1, <<>>)
      slot   == Len(r.defs) + 1
      inner  == [name EXCEPT !.pos = @ + 1 + Len(params),
                             !.defs = Append(@, Placeholder)]
      body   == Statements(g, inner, "END", <<>>)
      ended  == IF Sees(g, body, "END") THEN Advance(g, body) ELSE Report(body, "missing END")
      def    == [type |-> "proc", name |-> TextOf(g, name), body |-> body.node,
                 params |-> SubSeq(params, 1, IF Len(params) > MaxParams THEN MaxParams
                                              ELSE Len(params))]
  IN  IF Kind(g, name) # "bareword" THEN With(Report(name, "expected a name"), Placeholder)
      ELSE With([ended EXCEPT !.defs[slot] = def], def)

ParseStatement(g, r) ==
  CASE Sees(g, r, "TO") -> ProcDef(g, r)
    [] Sees(g, r, "IF") \/ Sees(g, r, "IFELSE") -> If(g, r)
    [] Sees(g, r, "FOR") -> For(g, r)
    [] OTHER -> TryCall(g, r, FALSE)

\* logo_parse's loop.
ParseProgram(g, r) == Unquoted(g, Statements(g, r, "eof", <<>>))

ReadAs(what, g, r) ==
  CASE what = "program"   -> ParseProgram(g, r)
    [] what = "expr"      -> ParseExprValue(g, r)
    [] what = "condition" -> ParseBoolOr(g, r)
    [] what = "block"     -> ParseBlock(g, r)
    [] what = "factor"    -> ParseFactor(g, r)
    [] what = "statement" -> ParseStatement(g, r)

(***************************************************************************)
(* Hoisting: names and arities of every TO in the text, and in the text of *)
(* every file a LOAD "path of it names, before anything is parsed.         *)
(***************************************************************************)
RECURSIVE SkipPastEnd(_, _)
SkipPastEnd(toks, i) == IF toks[i].k \in {"eof", "error"} THEN i
                        ELSE IF IsWord(toks[i], "END") THEN i + 1 ELSE SkipPastEnd(toks, i + 1)

\* h: [hoisted, loaded]; loaded holds the token sequences of the files followed.
Hoisted(h, name, params) ==
  IF Len(h.hoisted) >= MaxHoisted THEN h
  ELSE [h EXCEPT !.hoisted = Append(@, [name |-> name, arity |-> Len(params)])]

RECURSIVE HoistFrom(_, _, _, _, _)
\* A followed file counts as loaded even when it does not lex.
HoistFile(files, inside, depth, h) ==
  LET kept == [h EXCEPT !.loaded = Append(@, inside)]
  IN  IF inside = <<>> THEN kept ELSE HoistFrom(files, inside, 1, depth, kept)
HoistFrom(files, toks, i, depth, h) ==
  LET word   == toks[i + 1].text
      params == Params(toks, i + 2, <<>>)
      follow == depth < MaxEagerDepth /\ Len(h.loaded) < MaxEagerLoads /\ word \in DOMAIN files
  IN  CASE toks[i].k \in {"eof", "error"} -> h
        [] IsWord(toks[i], "TO") /\ toks[i + 1].k = "bareword" ->
             HoistFrom(files, toks, SkipPastEnd(toks, i + 2 + Len(params)), depth,
                       Hoisted(h, word, params))
        [] IsWord(toks[i], "LOAD") /\ toks[i + 1].k = "quoted" ->
             HoistFrom(files, toks, i + 2, depth,
                       IF follow THEN HoistFile(files, Lex(files[word], MaxTokens), depth + 1, h)
                       ELSE h)
        [] OTHER -> HoistFrom(files, toks, i + 1, depth, h)

\* The procedure nodes of the followed files, built once every name is hoisted.
RECURSIVE BuildFrom(_, _)
BuildFrom(g, r) ==
  IF g.toks = <<>> \/ AtEnd(g, r) THEN r
  ELSE IF Sees(g, r, "TO") /\ g.toks[r.pos + 1].k = "bareword"
  THEN BuildFrom(g, Statement(g, r))
  ELSE BuildFrom(g, Advance(g, r))
RECURSIVE BuildEager(_, _, _)
BuildEager(hoisted, loaded, r) ==
  IF loaded = <<>> THEN r
  ELSE BuildEager(hoisted, Tail(loaded),
                  BuildFrom([toks |-> Head(loaded), hoisted |-> hoisted], [r EXCEPT !.pos = 1]))

(***************************************************************************)
(* logo_parse ("program"), logo_parse_expr ("expr"), which knows no        *)
(* procedures, and logo_parse_condition ("condition"): the result in a     *)
(* sequence of its own, empty when the text has too many tokens or errors. *)
(***************************************************************************)
Fresh == [pos |-> 1, defs |-> <<>>, eager |-> 0, errors |-> <<>>, node |-> Placeholder]
NothingHoisted == [hoisted |-> <<>>, loaded |-> <<>>]
Begun(r) == [r EXCEPT !.pos = 1, !.eager = Len(r.defs)]
ReadFrom(as, toks, h) ==
  ReadAs(as, [toks |-> toks, hoisted |-> h.hoisted], Begun(BuildEager(h.hoisted, h.loaded, Fresh)))
Parse(as, files, toks) ==
  ReadFrom(as, toks, IF as = "program" THEN HoistFrom(files, toks, 1, 0, NothingHoisted)
                                       ELSE NothingHoisted)

Accepted(r) == IF r.errors # <<>> THEN <<>> ELSE <<r>>
Parsed(as, text, files, max) ==
  LET toks == Lex(text, max) IN IF toks = <<>> THEN <<>> ELSE Accepted(Parse(as, files, toks))

\* A list literal's text, each time the virtual machine comes to it: <<>> is an
\* empty list (eval_build_list_literal_from_text).
ReadLiteral(text) == Parsed("expr", text, <<>>, MaxLiteralTokens)
=============================================================================
