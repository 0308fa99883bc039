-------------------------------- MODULE Eval --------------------------------
(***************************************************************************)
(* The tree-walking evaluator (src/eval.c): a function from a state and a  *)
(* tree node to a new state.  It is the language's reference semantics:    *)
(* vm.c's header and tests/test_vm.c hold the virtual machine to it.       *)
(*                                                                         *)
(* s is the app record of Workspace; s.pool is the AstPool whose nodes are *)
(* being evaluated, s.scopes is app->scopes.  files maps paths to texts.   *)
(***************************************************************************)
EXTENDS Workspace, Texts

CONSTANT MaxScopeDepth   \* MAX_SCOPE_DEPTH

Result(s, v) == [s |-> s, v |-> v]
Unwinding(s) == s.stopping \/ s.throwing

\* What exec_call reports besides the value.
Called(s, v, resolved, produced) == [s |-> s, v |-> v, resolved |-> resolved, produced |-> produced]
Done(s) == Called(s, Num(0), TRUE, FALSE)
Produced(s, v) == Called(s, v, TRUE, TRUE)

\* set_var on app->scopes.
Assign(s, name, v) == LET r == SetVar(s, s.scopes, name, v) IN [r.app EXCEPT !.scopes = r.ss]

\* The functions call each other through Eval, which is told what n is taken for.
RECURSIVE Eval(_, _, _, _)
EvalExpr(s, n, files) == Eval("expr", s, n, files)
EvalCondition(s, n, files) == Eval("condition", s, n, files)
ExecCall(s, n, files, want) == Eval(IF want THEN "value call" ELSE "call", s, n, files)
ExecStatement(s, n, files) == Eval("statement", s, n, files)
ExecBlock(s, n, files) == Eval("block", s, n, files)
\* eval_map_value and its kin, which the virtual machine calls too: [app, v, produced].
EvalTemplate(app, name, a, files) ==
  Eval("template", app, [name |-> name, template |-> ValueText(a[1]), elements |-> Elements(a[2])], files)

\* The values of several expressions, left to right: [s, vs].
RECURSIVE EvalArgs(_, _, _)
EvalArgs(s, args, files) ==
  IF args = <<>> THEN [s |-> s, vs |-> <<>>]
  ELSE LET first == EvalExpr(s, Head(args), files)
           rest  == EvalArgs(first.s, Tail(args), files)
       IN  [s |-> rest.s, vs |-> <<first.v>> \o rest.vs]

(***************************************************************************)
(* Procedures.                                                             *)
(***************************************************************************)
\* call_ast_procedure.
CallProcedure(s, def, args, files) ==
  LET pushed == PushScope(s.scopes, MaxScopeDepth, def.name, def.params, args)
      ran    == ExecBlock([s EXCEPT !.scopes = pushed[1]], def.body, files)
  IN  IF pushed = <<>> THEN Done(TooDeep(s))
      ELSE Called([ran EXCEPT !.stopping = FALSE, !.output = <<>>, !.scopes = Front(@)],
                  IF ran.output = <<>> THEN Num(0) ELSE ran.output[1], TRUE, ran.output # <<>>)

UserCall(s, n, files) ==
  LET def  == FindByName(s.pool, n.name)
      args == EvalArgs(s, FirstArgs(n.args), files)
  IN  IF def = <<>> THEN Called(SayLine(s, "I don't know how to " \o n.name), Num(0), FALSE, FALSE)
      ELSE CallProcedure(args.s, def[1], args.vs, files)

ExecApply(s, n, files) ==
  LET args == EvalArgs(s, n.args, files)
      r    == ResolveApply("APPLY", s.pool, ValueText(args.vs[1]), args.vs[2])
  IN  IF r.def = <<>> THEN SayLine(args.s, r.msg)
      ELSE CallProcedure(args.s, r.def[1], r.args, files).s

\* do_send: the inputs are evaluated only when the message is understood; a
\* missing OUTPUT is reported, under the message's name, where a value is wanted.
Unresolved(s, msg) == Called(SayLine(s, msg), EmptyWord, FALSE, FALSE)
CallMethod(s, def, args, message, files, want) ==
  LET Reported(call) == IF want /\ ~call.produced
                        THEN Unresolved(call.s, message \o ": didn't output a value") ELSE call
  IN  IF Len(args) # Len(def.params)
      THEN Unresolved(s, "SEND: wrong number of inputs for message \"" \o message)
      ELSE Reported(CallProcedure(s, def, args, files))
SendTo(s, object, message, n, files, want) ==
  LET method == ResolveMethod(s, s.pool, object, message)
      more   == EvalExpr(s, n.args[3], files)
  IN  IF method.def = <<>> THEN Unresolved(s, method.msg)
      ELSE CallMethod(more.s, method.def[1], SendArgs(object, more.v), message, files, want)
ExecSend(s, n, files, want) ==
  LET who == EvalArgs(s, SubSeq(n.args, 1, 2), files)
  IN  SendTo(who.s, ValueText(who.vs[1]), ValueText(who.vs[2]), n, files, want)

(***************************************************************************)
(* Loops.  Each stops early on STOP, OUTPUT or THROW.                      *)
(***************************************************************************)
RECURSIVE RepeatFrom(_, _, _, _)
RepeatFrom(s, block, times, files) ==
  IF times <= 0 \/ Unwinding(s) THEN s
  ELSE RepeatFrom(ExecBlock(s, block, files), block, times - 1, files)

RECURSIVE WhileFrom(_, _, _, _, _)   \* FOREVER is WHILE without its condition
WhileFrom(s, conds, block, done, files) ==
  LET c == IF conds = <<>> THEN Result(s, TRUE) ELSE EvalCondition(s, conds[1], files)
      b == ExecBlock(c.s, block, files)
  IN  CASE ~c.v -> c.s
        [] c.v /\ done >= MaxIterations ->
             SayLine(c.s, (IF conds = <<>> THEN "FOREVER" ELSE "WHILE")
                            \o ": stopped after too many iterations")
        [] OTHER -> IF Unwinding(b) THEN b ELSE WhileFrom(b, conds, block, done + 1, files)

RECURSIVE ForFrom(_, _, _, _, _, _, _)
ForFrom(s, n, i, limit, step, done, files) ==
  LET b == ExecBlock(Assign(s, n.var, Num(i)), n.block, files)
  IN  CASE (IF step > 0 THEN i > limit ELSE i < limit) -> s
        [] done >= MaxIterations -> SayLine(s, "FOR: stopped after too many iterations")
        [] OTHER -> IF Unwinding(b) THEN b
                    ELSE ForFrom(b, n, i + step, limit, step, done + 1, files)
ExecFor(s, n, files) ==
  LET head  == EvalArgs(s, <<n.start, n.limit>> \o n.step, files)
      start == ToNumber(head.vs[1])
      limit == ToNumber(head.vs[2])
      step  == IF n.step # <<>> THEN ToNumber(head.vs[3]) ELSE IF limit >= start THEN 1 ELSE -1
  IN  IF step = 0 THEN SayLine(head.s, "FOR: step must not be 0")
      ELSE ForFrom(head.s, n, start, limit, step, 0, files)

(***************************************************************************)
(* Templates: the element's source text takes the place of "?" in the      *)
(* template's text, which is read and evaluated again for each element.    *)
(***************************************************************************)
\* A snippet's own pool is in force while it runs.
InPool(s, pool) == [s EXCEPT !.pool = pool]
EvalParsed(s, r, otherwise, files) ==
  LET x == EvalExpr(InPool(s, r[1].defs), r[1].node, files)
  IN  IF r = <<>> THEN Result(s, otherwise) ELSE Result(InPool(x.s, s.pool), x.v)
EvalText(s, text, as, otherwise, files) ==
  EvalParsed(s, Parsed(as, text, files, MaxSnippetTokens), otherwise, files)
RunParsed(s, r, files) ==
  IF r = <<>> THEN s
  ELSE InPool(ExecBlock(InPool(s, r[1].defs), r[1].node, files), s.pool)
RunText(s, text, files, max) == RunParsed(s, Parsed("program", text, files, max), files)

Filled(template, x) == Substitute(template, "?", SourceText(x))
Collected(r, vs) == [s |-> r.s, vs |-> vs]
MapOver(s, template, elements, files) ==
  LET Next(acc, one) == Collected(one, Append(acc.vs, one.v))
  IN  FoldLeft(LAMBDA acc, x :
                 Next(acc, EvalText(acc.s, Filled(template, x), "expr", Num(0), files)),
               [s |-> s, vs |-> <<>>], elements)
FilterOver(s, template, elements, files) ==
  LET Next(acc, x, one) == Collected(one, IF IsTruthy(one.v) THEN Append(acc.vs, x) ELSE acc.vs)
  IN  FoldLeft(LAMBDA acc, x :
                 Next(acc, x, EvalText(acc.s, Filled(template, x), "condition", Num(0), files)),
               [s |-> s, vs |-> <<>>], elements)
ReduceOver(s, template, first, elements, files) ==
  LET Text(v, x) == Substitute(Substitute(template, "?1", SourceText(v)), "?2", SourceText(x))
  IN  FoldLeft(LAMBDA acc, x : EvalText(acc.s, Text(acc.v, x), "expr", acc.v, files),
               Result(s, first), elements)
\* Whatever its list's evaluation left behind, the first element has its turn.
RECURSIVE ForeachFrom(_, _, _, _)
ForeachFrom(s, template, elements, files) ==
  LET Next(one) == IF Unwinding(one) THEN one ELSE ForeachFrom(one, template, Tail(elements), files)
  IN  IF elements = <<>> THEN s
      ELSE Next(RunText(s, Filled(template, Head(elements)), files, MaxSnippetTokens))

GivesValue(r) == Gives(r.s, r.v)
GivesList(r) == Gives(r.s, ListVal(r.vs))
OverElements(s, name, template, elements, files) ==
  CASE name = "MAP"    -> GivesList(MapOver(s, template, elements, files))
    [] name = "FILTER" -> GivesList(FilterOver(s, template, elements, files))
    [] name = "REDUCE" /\ elements = <<>> -> Gives(s, Num(0))
    [] name = "REDUCE" /\ elements # <<>> ->
         GivesValue(ReduceOver(s, template, Head(elements), Tail(elements), files))
    [] OTHER -> GivesNothing(ForeachFrom(s, template, elements, files))

ExecRun(s, n, files) ==
  LET a == EvalExpr(s, n.args[1], files)
  IN  IF a.s.runDepth >= MaxRunDepth THEN SayLine(a.s, "RUN: too deeply nested, ignored")
      ELSE [RunText([a.s EXCEPT !.runDepth = @ + 1], ValueText(a.v), files, MaxSnippetTokens)
              EXCEPT !.runDepth = a.s.runDepth]
ExecLoad(s, path, files) ==
  IF path \notin DOMAIN files THEN SayLine(s, "LOAD: could not read file")
  ELSE RunText(s, files[path], files, MaxTokens)

ExecCatch(s, n, files) ==
  LET tag == EvalExpr(s, n.args[1], files)
  IN  CatchCheck(ExecBlock(tag.s, n.args[2], files), ValueText(tag.v))

\* eval_erase_declare: the name goes, the node stays.
Erase(s, name) ==
  LET i == SelectInSeq(s.pool, LAMBDA p : p.name = name)
  IN  IF i = 0 THEN SayLine(s, "ERASE: no such procedure \"" \o name)
      ELSE [s EXCEPT !.pool[i].name = ""]

(***************************************************************************)
(* exec_call: the builtins by name, anything else a user procedure.        *)
(***************************************************************************)
Operators1 == (ListBuiltins \ {"RANGE"}) \union
                {"THING", "NAMES", "GETPROP", "PROPLIST", "MAP", "FILTER", "REDUCE"}
Commands1 == {"PRINT", "PR", "TYPE", "THROW", "SETPROP", "NEW", "REMOVEPROP", "FOREACH"}
BuiltinCall(a, name, files) ==
  IF name \in TemplateBuiltins THEN EvalTemplate(a.s, name, a.vs, files)
                               ELSE SharedBuiltin(a.s, a.s.scopes, name, a.vs)
Answered(r, name) == IF name \in Operators1 THEN Produced(r.app, r.v) ELSE Done(r.app)

Dispatch(s, n, files, want) ==
  LET a == EvalArgs(s, n.args, files)
  IN  CASE n.name \in Operators1 /\ ~want -> Done(s)   \* a value nobody asks for is not computed
        [] n.name \in Commands1 \/ (n.name \in Operators1 /\ want) ->
             Answered(BuiltinCall(a, n.name, files), n.name)
        [] n.name = "MAKE"      -> LET v == EvalExpr(s, n.args[2], files)
                                   IN  Done(Assign(v.s, n.args[1].text, v.v))
        [] n.name = "LOCAL"     -> LET r == DeclareLocal(s, s.scopes, n.args[1].text)
                                   IN  Done([r.app EXCEPT !.scopes = r.ss])
        [] n.name = "ERASE"     -> Done(Erase(s, n.args[1].text))
        [] n.name = "OUTPUT"    -> Done([a.s EXCEPT !.output = a.vs, !.stopping = TRUE])
        [] n.name = "STOP"      -> Done([s EXCEPT !.stopping = TRUE])
        [] n.name = "REPEAT"    -> LET c == EvalExpr(s, n.args[1], files)
                                   IN  Done(RepeatFrom(c.s, n.args[2], ToNumber(c.v), files))
        [] n.name = "WHILE"     -> Done(WhileFrom(s, <<n.args[1]>>, n.args[2], 0, files))
        [] n.name = "FOREVER"   -> Done(WhileFrom(s, <<>>, n.args[1], 0, files))
        [] n.name = "CATCH"     -> Done(ExecCatch(s, n, files))
        [] n.name = "RUN"       -> Done(ExecRun(s, n, files))
        [] n.name = "APPLY"     -> Done(ExecApply(s, n, files))
        [] n.name = "LOAD"      -> Done(ExecLoad(s, n.args[1].text, files))
        [] n.name = "SEND"      -> ExecSend(s, n, files, want)
        [] OTHER                -> UserCall(s, n, files)

(***************************************************************************)
(* Expressions, conditions, statements.                                    *)
(***************************************************************************)
ExprOf(s, n, files) ==
  LET c == ExecCall(s, n, files, TRUE)
      f == EvalExpr(s, n.of, files)
      o == EvalArgs(s, <<n.left, n.right>>, files)
      b == EvalCondition(s, n, files)
  IN  CASE n.type = "num"   -> Result(s, Num(n.value))
        [] n.type = "word"  -> Result(s, WordVal(n.text))
        [] n.type = "var"   -> Result(s, ValueOf(s, s.scopes, n.name))
        [] n.type = "list"  -> Result(s, LiteralValue(n.items))
        [] n.type = "neg"   -> Result(f.s, Num(-ToNumber(f.v)))
        [] n.type = "binop" ->
             Result(o.s, Num(Arithmetic(n.op, ToNumber(o.vs[1]), ToNumber(o.vs[2]))))
        [] n.type = "call"  ->
             IF c.resolved /\ ~c.produced
             THEN Result(SayLine(c.s, n.name \o ": didn't output a value"), EmptyWord)
             ELSE Result(c.s, c.v)
        [] OTHER -> Result(b.s, Bool(b.v))

\* Both sides of AND and OR are evaluated.
ConditionOf(s, n, files) ==
  LET left  == EvalCondition(s, n.left, files)
      right == EvalCondition(left.s, n.right, files)
      f     == EvalCondition(s, n.of, files)
      o     == EvalArgs(s, <<n.left, n.right>>, files)
      x     == EvalExpr(s, n, files)
  IN  CASE n.type = "not"     -> Result(f.s, ~f.v)
        [] n.type = "and"     -> Result(right.s, left.v /\ right.v)
        [] n.type = "or"      -> Result(right.s, left.v \/ right.v)
        [] n.type = "compare" -> Result(o.s, Compare(n.op, o.vs[1], o.vs[2]))
        [] OTHER              -> Result(x.s, IsTruthy(x.v))

ExecIf(s, n, files) ==
  LET c == EvalCondition(s, n.cond, files)
  IN  CASE c.v -> ExecBlock(c.s, n.then, files)
        [] ~c.v /\ n.else # <<>> -> ExecBlock(c.s, n.else[1], files)
        [] OTHER -> c.s

StatementOf(s, n, files) ==
  CASE n.type = "proc" -> s
    [] n.type = "if"   -> ExecIf(s, n, files)
    [] n.type = "for"  -> ExecFor(s, n, files)
    [] OTHER           -> ExecCall(s, n, files, FALSE).s

RECURSIVE ExecStatements(_, _, _)
\* exec_block: STOP, OUTPUT and THROW end it early.
ExecStatements(s, body, files) ==
  IF body = <<>> THEN s
  ELSE LET one == ExecStatement(s, Head(body), files)
       IN  IF Unwinding(one) THEN one ELSE ExecStatements(one, Tail(body), files)

Eval(what, s, n, files) ==
  CASE what = "expr"       -> ExprOf(s, n, files)
    [] what = "condition"  -> ConditionOf(s, n, files)
    [] what \in {"call", "value call"} -> Dispatch(s, n, files, what = "value call")
    [] what = "statement"  -> StatementOf(s, n, files)
    [] what = "template"   -> OverElements(s, n.name, n.template, n.elements, files)
    [] what = "block"      -> ExecStatements(s, n.body, files)

\* ast_eval: the top level reports an uncaught THROW and goes on after it; a
\* STOP ends the script.
RECURSIVE TopLevel(_, _, _)
AfterStatement(s, rest, files) ==
  IF s.stopping THEN [s EXCEPT !.stopping = FALSE, !.output = <<>>] ELSE TopLevel(s, rest, files)
Heard(s) == IF s.throwing THEN ReportUncaught(s) ELSE s
TopLevel(s, body, files) ==
  IF body = <<>> THEN [s EXCEPT !.output = <<>>]
  ELSE AfterStatement(Heard(ExecStatement(s, Head(body), files)), Tail(body), files)
AstEval(app, r, files) == TopLevel([app EXCEPT !.pool = r.defs], r.node.body, files)
=============================================================================
