------------------------------ MODULE Compiler ------------------------------
(***************************************************************************)
(* The compiler (src/compiler.c): a tree to a chunk of instructions.       *)
(*                                                                         *)
(* The source emits instruction after instruction and goes back to patch   *)
(* the jumps.  Here XCode(n, at, e) is the code of node n when its first   *)
(* instruction has address at, so that every jump target is known from the *)
(* lengths of the pieces; e is what the whole compilation shares:          *)
(*   [files, defs, procs]   files for LOADs in FOREACH templates, the      *)
(*   pool's procedure definitions, and the chunk's procedure table so far. *)
(* A template with a TO adds to the pool: its first instruction carries the *)
(* definitions (graft) until the program is complete.                      *)
(* Addresses count from 0, as pc does.                                     *)
(***************************************************************************)
EXTENDS Parser, Bytecode, FiniteSets
LOCAL INSTANCE SequencesExt   \* FlattenSeq

CONSTANTS MaxInstructions,    \* MAX_INSTRUCTIONS
          MaxPatches,         \* MAX_PENDING_PATCHES
          MaxChunkProcs,      \* MAX_CHUNK_PROCS
          MaxBlockStatements, \* MAX_BLOCK_STATEMENTS
          MaxWordLiterals,    \* MAX_CHUNK_WORD_LITERALS
          MaxListLiterals,    \* MAX_CHUNK_LIST_LITERALS
          MaxLiteralText,     \* MAX_LIST_LITERAL_TEXT
          MaxNestedText,      \* the buffer of a nested list's text
          MaxTemplateText     \* the buffer of a template's text

Instr(op) == [op |-> op, a |-> 0, b |-> 0, text |-> "", num |-> 0, graft |-> <<>>]
OpA(op, a) == [Instr(op) EXCEPT !.a = a]
OpText(op, text) == [Instr(op) EXCEPT !.text = text]
PushNumber(n) == [Instr("PUSH_NUMBER") EXCEPT !.num = n]
Builtin(name, argc) == [OpText("CALL_BUILTIN", name) EXCEPT !.a = argc]

\* A message printed by compiled code.
PrintCode(text) == <<OpText("PUSH_WORD", text), Builtin("PRINT", 1), Instr("POP")>>

\* finish_call: the tail of every call form.
\* Mutant: a call used as a statement leaves its value.
FinishCall_Kept(name, want) == IF want THEN <<OpText("CHECK_OUTPUT", name)>> ELSE <<>>
FinishCall(name, want) == <<IF want THEN OpText("CHECK_OUTPUT", name) ELSE Instr("POP")>>
VoidTail(name, want) == <<Instr("VOID_RESULT")>> \o FinishCall(name, want)

IsMotionCommand(name) ==
  name \in {"FD", "FORWARD", "BK", "BACK", "RT", "RIGHT", "LT", "LEFT", "SETXY",
            "SETHEADING", "SETH", "SETX", "SETY", "HOME", "ARC"}

IsDefined(e, name) == \E i \in 1..Len(e.defs) : e.defs[i].name = name
\* ast_graft: what code adds to the pool, and e for the code that follows it.
Grafted(code) == FlattenSeq([i \in 1..Len(code) |-> code[i].graft])
After(e, code) == [e EXCEPT !.defs = @ \o Grafted(code)]
Ungrafted(code) == [i \in 1..Len(code) |-> [code[i] EXCEPT !.graft = <<>>]]

\* What a buffer of this size holds of a text.
Cut(text, size) == SubSeq(text, 1, IF Len(text) < size THEN Len(text) ELSE size - 1)

\* A list literal back to source text; a word equal to a placeholder becomes
\* what the placeholder stands for (subst: placeholder |-> text).  Of a nested
\* list's text the end is lost when it is too long, but never its bracket.
RECURSIVE RenderItems(_, _)
\* Mutant: the items are not set apart.
RenderItems_Together(items, subst) ==
  IF items = <<>> THEN ""
  ELSE LET x == Head(items)
       IN  (IF x.type = "list"
            THEN "[" \o Cut(RenderItems(x.items, subst), MaxNestedText) \o "]" ELSE x.text)
             \o RenderItems(Tail(items), subst)
RenderItems(items, subst) ==
  IF items = <<>> THEN ""
  ELSE LET x == Head(items)
           t == IF x.type = "list"
                THEN "[" \o Cut(RenderItems(x.items, subst), MaxNestedText) \o "]"
                ELSE IF x.text \in DOMAIN subst THEN subst[x.text] ELSE x.text
       IN  IF Len(items) = 1 THEN t ELSE t \o " " \o RenderItems(Tail(items), subst)

\* A literal's text in the chunk: one that is too long loses its last bracket.
LiteralText(items) ==
  Cut("[" \o Cut(RenderItems(items, <<>>), MaxLiteralText) \o "]", MaxLiteralText)

\* The functions call each other through CodeAs, which is told what n is taken for.
RECURSIVE CodeAs(_, _, _, _)
ExprCode(n, at, e) == CodeAs("expr", n, at, e)
CondCode(n, at, e) == CodeAs("condition", n, at, e)
BlockCode(n, at, e) == CodeAs("block", n, at, e)
StatementCode(n, at, e) == CodeAs("statement", n, at, e)

\* The codes of several expressions, one after the other.
RECURSIVE ArgsCode(_, _, _)
ArgsCode(args, at, e) ==
  IF args = <<>> THEN <<>>
  ELSE LET c == ExprCode(Head(args), at, e) IN c \o ArgsCode(Tail(args), at + Len(c), After(e, c))

(***************************************************************************)
(* The special forms of compile_call.                                      *)
(***************************************************************************)
WhileCode(n, at, e, want) ==
  LET cond == CondCode(n.args[1], at, e)
      body == BlockCode(n.args[2], at + Len(cond) + 1, After(e, cond))
      end  == at + Len(cond) + Len(body) + 3
  IN  cond \o <<OpA("JUMP_IF_FALSE", end)>> \o body
        \o <<OpA("CHECK_THROW", end), OpA("JUMP", at)>> \o VoidTail("WHILE", want)

RepeatCode(n, at, e, want) ==
  LET count == ExprCode(n.args[1], at, e) \o <<Builtin("INT", 1), Instr("REPCOUNT_PUSH")>>
      loop  == at + Len(count)
      body  == BlockCode(n.args[2], loop + 4, After(e, count))
      end   == loop + Len(body) + 9
  IN  count
        \o <<OpA("PEEK", 0), PushNumber(0), Instr("CMP_GT"), OpA("JUMP_IF_FALSE", end)>>
        \o body
        \o <<OpA("CHECK_THROW", end), Instr("REPCOUNT_INCR"), PushNumber(1), Instr("SUB"),
             OpA("JUMP", loop)>>
        \o <<Instr("POP"), Instr("REPCOUNT_POP")>> \o VoidTail("REPEAT", want)

ForeverCode(n, at, e, want) ==
  LET loop == at + 1
      body == BlockCode(n.args[1], loop + 8, e)
      end  == loop + Len(body) + 12
  IN  <<PushNumber(0), OpA("PEEK", 0), PushNumber(MaxIterations), Instr("CMP_GE"),
        OpA("JUMP_IF_FALSE", loop + 8)>>
        \o PrintCode("FOREVER: stopped after too many iterations") \o <<OpA("JUMP", end)>>
        \o body
        \o <<OpA("CHECK_THROW", end), PushNumber(1), Instr("ADD"), OpA("JUMP", loop)>>
        \o <<Instr("POP")>> \o VoidTail("FOREVER", want)

CatchCode(n, at, e, want) ==
  LET tag == ExprCode(n.args[1], at, e)
  IN  tag \o BlockCode(n.args[2], at + Len(tag), After(e, tag)) \o <<Instr("CATCH_CHECK")>>
        \o VoidTail("CATCH", want)

MakeCode(n, at, e, want) ==
  ExprCode(n.args[2], at, e) \o <<OpText("SET_VAR", n.args[1].text)>> \o VoidTail("MAKE", want)

\* LOCAL, ERASE and LOAD: a name known at compile time, and no value.
NameCode(n, want) == <<OpText(n.name, n.args[1].text)>> \o VoidTail(n.name, want)

\* WAIT, PAUSE, ANIMATESPRITE, RUN, LAUNCH, AWAIT, YIELD: an opcode of its
\* own after the arguments, then "no value".
OpcodeCode(n, at, e, want) ==
  ArgsCode(n.args, at, e) \o <<Instr(n.name)>> \o VoidTail(n.name, want)
\* WAITKEY, INPUT, EXECTIME: the same, but the opcode brings a value.
ValueOpcodeCode(n, at, e, want) ==
  ArgsCode(n.args, at, e) \o <<Instr(n.name)>> \o FinishCall(n.name, want)

SendCode(n, at, e, want) ==
  ArgsCode(n.args, at, e) \o <<Instr("SEND"), Instr(IF want THEN "CHECK_SEND_OUTPUT" ELSE "POP")>>
ApplyCode(n, at, e, want) ==
  ArgsCode(n.args, at, e) \o <<Instr("APPLY"), Instr("VOID_DISCARD")>> \o FinishCall("APPLY", want)

(***************************************************************************)
(* MAP, FILTER, REDUCE and FOREACH over a literal template: the template's *)
(* text is read again with its placeholders named after this call site     *)
(* (the address of its code, in place of template_counter), compiled once, *)
(* jumped around and ended by HALT.  <<>> when the text does not parse.    *)
(***************************************************************************)
TemplateBase(start) == "__tmpl" \o ToString(start) \o "__"
Placeholders(name, base) ==
  IF name = "REDUCE" THEN ("?1" :> ":" \o base \o "_1") @@ ("?2" :> ":" \o base \o "_2")
                     ELSE "?" :> ":" \o base

TemplateBody(name, template, base, files) ==
  Parsed(CASE name = "FILTER" -> "condition" [] name = "FOREACH" -> "program" [] OTHER -> "expr",
         Cut(RenderItems(template.items, Placeholders(name, base)), MaxTemplateText),
         files, MaxSnippetTokens)

\* The template's own definitions, those of files it LOADs left out.
OwnDefs(tree) == SubSeq(tree.defs, tree.eager + 1, Len(tree.defs))
\* known: e with these; list: the code of the list, the first of the call.
TemplateCode(n, tree, list, start, known, want) ==
  LET body == CASE n.name = "FILTER"  -> CondCode(tree.node, start, After(known, list))
                [] n.name = "FOREACH" -> BlockCode(tree.node, start, After(known, list))
                [] OTHER              -> ExprCode(tree.node, start, After(known, list))
  IN  [list EXCEPT ![1].graft = OwnDefs(tree) \o @]
        \o <<OpA("JUMP", start + Len(body) + 1)>> \o body \o <<Instr("HALT")>>
        \o <<[OpText(n.name \o "_COMPILED", TemplateBase(start)) EXCEPT !.a = start]>>
        \o FinishCall(n.name, want)
GraftedCode(n, tree, at, start, e, want) ==
  IF tree = <<>> THEN <<>>
  ELSE LET known == [e EXCEPT !.defs = @ \o OwnDefs(tree[1])]
       IN  TemplateCode(n, tree[1], ExprCode(n.args[2], at, known), start, known, want)
TemplateCallCode(n, at, e, want) ==
  LET start == at + Len(ExprCode(n.args[2], at, e)) + 1
  IN  GraftedCode(n, TemplateBody(n.name, n.args[1], TemplateBase(start), e.files),
                  at, start, e, want)

\* Any other callee: a procedure of this pool, or else a builtin.  A
\* procedure that has no address yet is called through -1 and patched later.
CalleeCode(n, e, args, want) ==
  args
    \o (IF IsDefined(After(e, args), n.name)
        THEN <<[OpText("CALL_PROC", n.name) EXCEPT !.a = FindProc(e.procs, n.name),
                                                   !.b = Len(n.args)]>>
        ELSE <<Builtin(n.name, Len(n.args))>>
               \o (IF IsMotionCommand(n.name) THEN <<Instr("MOTION_DELAY")>> ELSE <<>>))
    \o FinishCall(n.name, want)
GenericCallCode(n, at, e, want) == CalleeCode(n, e, ArgsCode(n.args, at, e), want)

OrElse(code, other) == IF code # <<>> THEN code ELSE other
CallCode(n, at, e, want) ==
  CASE n.name = "OUTPUT"  -> ExprCode(n.args[1], at, e) \o <<Instr("OUTPUT")>>
    [] n.name = "STOP"    -> <<Instr("STOP")>>
    [] n.name = "WHILE"   -> WhileCode(n, at, e, want)
    [] n.name = "REPEAT"  -> RepeatCode(n, at, e, want)
    [] n.name = "FOREVER" -> ForeverCode(n, at, e, want)
    [] n.name = "CATCH"   -> CatchCode(n, at, e, want)
    [] n.name = "MAKE"    -> MakeCode(n, at, e, want)
    [] n.name \in {"LOCAL", "ERASE", "LOAD"} -> NameCode(n, want)
    [] n.name \in {"WAIT", "PAUSE", "ANIMATESPRITE", "RUN", "LAUNCH", "AWAIT", "YIELD"} ->
         OpcodeCode(n, at, e, want)
    [] n.name \in {"WAITKEY", "INPUT", "EXECTIME"} -> ValueOpcodeCode(n, at, e, want)
    [] n.name = "SEND"    -> SendCode(n, at, e, want)
    [] n.name = "APPLY"   -> ApplyCode(n, at, e, want)
    [] n.name \in {"MAP", "FILTER", "REDUCE", "FOREACH"} /\ n.args[1].type = "list" ->
         OrElse(TemplateCallCode(n, at, e, want), GenericCallCode(n, at, e, want))
    [] OTHER -> GenericCallCode(n, at, e, want)

(***************************************************************************)
(* Expressions, conditions, IF and FOR.                                    *)
(***************************************************************************)
\* Left operand, right operand, opcode: both operands are always evaluated.
TwoExprs(n, at, e, op) ==
  LET left == ExprCode(n.left, at, e)
  IN  left \o ExprCode(n.right, at + Len(left), After(e, left)) \o <<Instr(op)>>
TwoConds(n, at, e, op) ==
  LET left == CondCode(n.left, at, e)
  IN  left \o CondCode(n.right, at + Len(left), After(e, left)) \o <<Instr(op)>>

CompileExpr(n, at, e) ==
  CASE n.type = "num"   -> <<PushNumber(n.value)>>
    [] n.type = "word"  -> <<OpText("PUSH_WORD", n.text)>>
    [] n.type = "var"   -> <<OpText("PUSH_VAR", n.name)>>
    [] n.type = "binop" -> TwoExprs(n, at, e, BinaryOp[n.op])
    [] n.type = "neg"   -> ExprCode(n.of, at, e) \o <<Instr("NEG")>>
    [] n.type = "call"  -> CallCode(n, at, e, TRUE)
    [] n.type = "list"  -> <<OpText("PUSH_LIST_LITERAL", LiteralText(n.items))>>
    [] OTHER -> <<PushNumber(0)>>

CompileCondition(n, at, e) ==
  CASE n.type = "not"     -> CondCode(n.of, at, e) \o <<Instr("NOT")>>
    [] n.type = "and"     -> TwoConds(n, at, e, "AND")
    [] n.type = "or"      -> TwoConds(n, at, e, "OR")
    [] n.type = "compare" -> TwoExprs(n, at, e, CompareOp[n.op])
    [] OTHER              -> ExprCode(n, at, e)

IfCode(n, at, e) ==
  LET cond  == CondCode(n.cond, at, e)
      then  == BlockCode(n.then, at + Len(cond) + 1, After(e, cond))
      after == at + Len(cond) + 1 + Len(then)
      other == BlockCode(n.else[1], after + 1, After(e, cond \o then))
  IN  IF n.else = <<>>
      THEN cond \o <<OpA("JUMP_IF_FALSE", after)>> \o then
      ELSE cond \o <<OpA("JUMP_IF_FALSE", after + 1)>> \o then
             \o <<OpA("JUMP", after + 1 + Len(other))>> \o other

\* FOR keeps counter, limit and step on the stack, in this order from below.
\* One pass of the loop, ascending (CMP_LE) or descending (CMP_GE).
ForLoopCode(n, at, e, test) ==
  LET body == BlockCode(n.block, at + 4, e)
      end  == at + Len(body) + 12
  IN  <<OpA("PEEK", 2), OpA("PEEK", 2), Instr(test), OpA("JUMP_IF_FALSE", end)>> \o body
        \o <<OpA("CHECK_THROW", end),
             OpA("PEEK", 2), OpA("PEEK", 1), Instr("ADD"), OpA("POKE", 2),
             OpA("PEEK", 2), OpText("SET_VAR", n.var), OpA("JUMP", at)>>

\* Without a step of its own, FOR counts towards its limit.
StepCode(n, at, e) ==
  IF n.step # <<>> THEN ExprCode(n.step[1], at, e)
  ELSE <<OpA("PEEK", 0), OpA("PEEK", 2), Instr("CMP_GE"), OpA("JUMP_IF_FALSE", at + 6),
         PushNumber(1), OpA("JUMP", at + 7), PushNumber(-1)>>
\* From the first assignment of the variable: no loop, the one up or the one down.
ForLoopsCode(n, at, e) ==
  LET asc    == ForLoopCode(n, at + 14, e, "CMP_LE")
      atDesc == at + 15 + Len(asc)
      desc   == ForLoopCode(n, atDesc, After(e, asc), "CMP_GE")
      end    == atDesc + Len(desc)
  IN  <<OpA("PEEK", 2), OpText("SET_VAR", n.var)>>
        \o <<OpA("PEEK", 0), PushNumber(0), Instr("CMP_EQ"), OpA("JUMP_IF_FALSE", at + 10)>>
        \o PrintCode("FOR: step must not be 0") \o <<OpA("JUMP", end)>>
        \o <<OpA("PEEK", 0), PushNumber(0), Instr("CMP_GT"), OpA("JUMP_IF_FALSE", atDesc)>>
        \o asc \o <<OpA("JUMP", end)>> \o desc
        \o <<Instr("POP"), Instr("POP"), Instr("POP")>>
ForCode(n, at, e) ==
  LET bounds == ArgsCode(<<n.start, n.limit>>, at, e)
      head   == bounds \o StepCode(n, at + Len(bounds), After(e, bounds))
  IN  head \o ForLoopsCode(n, at + Len(head), After(e, head))

(***************************************************************************)
(* Statements, blocks and programs.                                        *)
(***************************************************************************)
CompileStatement(n, at, e) ==
  CASE n.type = "proc" -> <<>>
    [] n.type = "if"   -> IfCode(n, at, e)
    [] n.type = "for"  -> ForCode(n, at, e)
    [] OTHER           -> CallCode(n, at, e, FALSE)

\* Every statement is followed by its check.
RECURSIVE StatementsCode(_, _, _, _)
StatementsCode(body, at, e, checks) ==
  IF body = <<>> THEN <<>>
  ELSE LET c == StatementCode(Head(body), at, e) \o <<Head(checks)>>
       IN  c \o StatementsCode(Tail(body), at + Len(c), After(e, c), Tail(checks))

\* A block's own checks are to be patched, as many as its table holds; the rest
\* keep their -1, and those of the blocks inside it have their targets.
Pending == -2
BlockChecks(n) ==
  [i \in 1..Len(n.body) |-> OpA("CHECK_THROW", IF i <= MaxBlockStatements THEN Pending ELSE -1)]

\* Mutant: a THROW leaves the block one instruction too far on.
CompileBlock_PastEnd(n, at, e) ==
  LET code == StatementsCode(n.body, at, e, BlockChecks(n))
  IN  [i \in 1..Len(code) |->
         IF code[i] = OpA("CHECK_THROW", Pending)
         THEN OpA("CHECK_THROW", at + Len(code) + 1) ELSE code[i]]
CompileBlock(n, at, e) ==
  LET code == StatementsCode(n.body, at, e, BlockChecks(n))
  IN  [i \in 1..Len(code) |->
         IF code[i] = OpA("CHECK_THROW", Pending)
         THEN OpA("CHECK_THROW", at + Len(code)) ELSE code[i]]
CompileTopLevel(n, at, e) ==
  StatementsCode(n.body, at, e, [i \in 1..Len(n.body) |-> Instr("CHECK_UNCAUGHT_THROW")])

CodeAs(what, n, at, e) ==
  CASE what = "expr"      -> CompileExpr(n, at, e)
    [] what = "condition" -> CompileCondition(n, at, e)
    [] what = "block"     -> CompileBlock(n, at, e)
    [] what = "statement" -> CompileStatement(n, at, e)
    [] what = "program"   -> CompileTopLevel(n, at, e)

\* Pass 1: the bodies of all definitions in pool order, those included that a
\* body's templates add, each ended by STOP.  A procedure is in the table before
\* its own body is compiled.
RECURSIVE ProcsCode(_, _, _)
ProcCode(d, code, e) == code \o BlockCode(d.body, Len(code), e) \o <<Instr("STOP")>>
ProcsCode(n, code, e) ==
  IF n > Len(e.defs) + Len(Grafted(code)) THEN [code |-> code, e |-> After(e, code)]
  ELSE LET d     == After(e, code).defs[n]
           entry == [name |-> d.name, pc |-> Len(code), params |-> d.params]
           known == IF Len(e.procs) < MaxChunkProcs
                    THEN [e EXCEPT !.procs = Append(@, entry)] ELSE e
       IN  ProcsCode(n + 1, ProcCode(d, code, After(known, code)), known)

\* Pass 2: the pending calls, as many as the patch table holds.
\* Mutant: the last pending call is not patched.
Patched_NotLast(code, procs) ==
  LET pending == {i \in 1..Len(code) : code[i].op = "CALL_PROC" /\ code[i].a = -1}
  IN  [i \in 1..Len(code) |->
         IF i \in pending /\ \E j \in pending : j > i
         THEN [code[i] EXCEPT !.a = FindProc(procs, code[i].text)] ELSE code[i]]
Patched(code, procs) ==
  LET pending == {i \in 1..Len(code) : code[i].op = "CALL_PROC" /\ code[i].a = -1}
      Noted(i) == Cardinality({j \in pending : j < i}) < MaxPatches
  IN  [i \in 1..Len(code) |->
         IF i \in pending /\ Noted(i)
         THEN [code[i] EXCEPT !.a = FindProc(procs, code[i].text)] ELSE code[i]]

\* bytecode_add_word_literal, bytecode_add_list_literal: a literal that finds its
\* table full is the empty one, for the listing and for the virtual machine.
PoolSize == ("PUSH_WORD" :> MaxWordLiterals) @@ ("PUSH_LIST_LITERAL" :> MaxListLiterals)
EmptyLiteral == ("PUSH_WORD" :> "") @@ ("PUSH_LIST_LITERAL" :> "[]")
Uses(code, op) == {i \in 1..Len(code) : code[i].op = op}
PoolFull(code, op) == op \in DOMAIN PoolSize /\ Cardinality(Uses(code, op)) >= PoolSize[op]
Pooled(code) ==
  [i \in 1..Len(code) |->
     IF PoolFull(SubSeq(code, 1, i - 1), code[i].op)
     THEN [code[i] EXCEPT !.text = EmptyLiteral[code[i].op]] ELSE code[i]]

\* bytecode_emit drops what comes after MAX_INSTRUCTIONS.
Truncated(code) == SubSeq(code, 1, IF Len(code) > MaxInstructions THEN MaxInstructions
                                   ELSE Len(code))

\* compile_program, for a parse result r: the main program after pass 1.  What
\* its templates define comes too late for a body: a call of it keeps its -1.
MainProgram(r, pass1) ==
  [procs |-> pass1.e.procs, start |-> Len(pass1.code),
   code  |-> Truncated(Pooled(Ungrafted(
               Patched(pass1.code, pass1.e.procs)
                 \o CodeAs("program", r.node, Len(pass1.code), pass1.e)
                 \o <<Instr("HALT")>>)))]
Compile(files, r) ==
  MainProgram(r, ProcsCode(1, <<>>, [files |-> files, defs |-> r.defs, procs |-> <<>>]))
=============================================================================
