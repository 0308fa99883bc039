--------------------------------- MODULE Vm ---------------------------------
(***************************************************************************)
(* The virtual machine (src/vm.c): one action per group of opcodes.        *)
(*                                                                         *)
(*   app     what the machine shares with the rest of LogoApp (Workspace)  *)
(*   vm      struct Vm: value stack, frames, scopes, REPCOUNTs, and what   *)
(*           the last call reported                                        *)
(*   ctl     the C stack: one activation for each vm_run in progress.      *)
(*           Templates and RUN, EXECTIME and LOAD call vm_run from inside  *)
(*           vm_run, and what their C functions keep in locals is here.    *)
(*   chunks  the main program's chunk, then those of the snippets running  *)
(*   status  "running", "halted", or the opcode that suspended the run     *)
(*                                                                         *)
(* vm_run_depth is Len(ctl) while the machine runs.  Addresses and pc      *)
(* count from 0.                                                           *)
(***************************************************************************)
EXTENDS Workspace, Bytecode, FiniteSets

CONSTANTS MaxVmStack,    \* MAX_VM_STACK
          MaxVmScopes,   \* MAX_VM_SCOPE_DEPTH
          MaxVmFrames,   \* MAX_VM_FRAMES
          Files,         \* the files LOAD can read: path |-> text
          \* What the machine asks of the rest of the program (Engines.tla):
          Translate(_, _),        \* opcode and text to <<chunk>>; <<>>: it does not parse
          LiteralFromText(_),     \* a list literal's text to the list
          TemplateBuiltin(_, _, _)   \* eval.c's MAP, FILTER, REDUCE and FOREACH
ASSUME VmLimits == MaxVmStack \in Nat /\ MaxVmScopes \in Nat /\ MaxVmFrames \in Nat
                     /\ MaxRunDepth \in Nat

VARIABLES app, vm, ctl, chunks, status
vmVars == <<app, vm, ctl, chunks, status>>

FreshVm == [memory |-> <<>>, top |-> 0, frames |-> <<>>, scopes |-> <<>>, repcounts |-> <<>>,
            resolved |-> TRUE, produced |-> FALSE, message |-> ""]
Activation(who, chunk, pc) ==
  [who |-> who, chunk |-> chunk, pc |-> pc, start |-> pc, floor |-> 0,
   vars |-> <<>>, saved |-> <<>>, rest |-> <<>>, result |-> Num(0)]

\* vm_run called on a program's chunk with nothing running.
StartVm(chunk) ==
  /\ app = NewApp
  /\ vm = FreshVm
  /\ ctl = <<Activation("main", 1, chunk.start)>>
  /\ chunks = <<chunk>>
  /\ status = "running"

Depth == Len(ctl)
Top == ctl[Depth]
Chunk == chunks[Top.chunk]
InCode == Top.pc \in 0..(Len(Chunk.code) - 1)
Ins == Chunk.code[Top.pc + 1]
Fetch(ops) == status = "running" /\ InCode /\ Ins.op \in ops

Goto(pc) == ctl' = [ctl EXCEPT ![Depth].pc = pc]
Step == Goto(Top.pc + 1)
Here == UNCHANGED <<chunks, status>>
Becomes(st) == app' = st.app /\ vm' = st.vm

(***************************************************************************)
(* The value stack: the array (memory, as far as it was ever written) and  *)
(* its height (top).  Slots above the top keep what they held.  Popping an *)
(* empty stack gives 0, pushing on a full one does nothing.                *)
(***************************************************************************)
Pushed(m, v) ==
  IF m.top >= MaxVmStack THEN m
  ELSE [m EXCEPT !.top = @ + 1, !.memory = IF m.top < Len(@) THEN [@ EXCEPT ![m.top + 1] = v]
                                           ELSE Append(@, v)]
TopOf(m, depth) == IF m.top > depth THEN m.memory[m.top - depth] ELSE Num(0)
Drop(m, n) == [m EXCEPT !.top = IF @ >= n THEN @ - n ELSE 0]
Args(m, n) == [i \in 1..n |-> TopOf(m, n - i)]
Poked(m, depth, v) == IF m.top > depth THEN [m EXCEPT !.memory[m.top - depth] = v] ELSE m
Reports(m, resolved, produced) == [m EXCEPT !.resolved = resolved, !.produced = produced]

PushValue ==
  /\ Fetch({"PUSH_NUMBER", "PUSH_WORD", "PUSH_VAR", "PUSH_LIST_LITERAL", "PEEK"})
  /\ vm' = Pushed(vm, CASE Ins.op = "PUSH_NUMBER" -> Num(Ins.num)
                        [] Ins.op = "PUSH_WORD"   -> WordVal(Ins.text)
                        [] Ins.op = "PUSH_VAR"    -> ValueOf(app, vm.scopes, Ins.text)
                        [] Ins.op = "PEEK"        -> TopOf(vm, Ins.a)
                        [] OTHER                  -> LiteralFromText(Ins.text))
  /\ Step /\ Here /\ UNCHANGED app

\* bind_template_var and OP_SET_VAR, on a pair [app, vm].
Bind(st, name, v) == LET r == SetVar(st.app, st.vm.scopes, name, v)
                     IN  [app |-> r.app, vm |-> [st.vm EXCEPT !.scopes = r.ss]]
SetVariable ==
  /\ Fetch({"SET_VAR"})
  /\ Becomes(Bind([app |-> app, vm |-> Drop(vm, 1)], Ins.text, TopOf(vm, 0)))
  /\ Step /\ Here

PopOrPoke ==
  /\ Fetch({"POP", "POKE"})
  /\ vm' = IF Ins.op = "POP" THEN Drop(vm, 1) ELSE Poked(Drop(vm, 1), Ins.a, TopOf(vm, 0))
  /\ Step /\ Here /\ UNCHANGED app

(***************************************************************************)
(* Arithmetic, comparison, logic, jumps.                                   *)
(***************************************************************************)
SourceOp(table, op) == CHOOSE o \in DOMAIN table : table[o] = op
ExecArith(op, l, r) == Num(Arithmetic(SourceOp(BinaryOp, op), ToNumber(l), ToNumber(r)))
ExecCompare(op, l, r) == Bool(Compare(SourceOp(CompareOp, op), l, r))

Unary ==
  /\ Fetch({"NEG", "NOT"})
  /\ vm' = Pushed(Drop(vm, 1), IF Ins.op = "NEG" THEN Num(-ToNumber(TopOf(vm, 0)))
                                                 ELSE Bool(~IsTruthy(TopOf(vm, 0))))
  /\ Step /\ Here /\ UNCHANGED app

Binary ==
  /\ Fetch({"ADD", "SUB", "MUL", "DIV", "CMP_LT", "CMP_GT", "CMP_EQ", "CMP_LE", "CMP_GE",
            "CMP_NE", "AND", "OR"})
  /\ LET left  == TopOf(vm, 1)
         right == TopOf(vm, 0)
     IN  vm' = Pushed(Drop(vm, 2),
                 CASE Ins.op = "AND" -> Bool(IsTruthy(left) /\ IsTruthy(right))
                   [] Ins.op = "OR"  -> Bool(IsTruthy(left) \/ IsTruthy(right))
                   [] Ins.op \in {"ADD", "SUB", "MUL", "DIV"} -> ExecArith(Ins.op, left, right)
                   [] OTHER -> ExecCompare(Ins.op, left, right))
  /\ Step /\ Here /\ UNCHANGED app

Jump ==
  /\ Fetch({"JUMP"})
  /\ Goto(Ins.a) /\ Here /\ UNCHANGED <<app, vm>>

JumpIfFalse ==
  /\ Fetch({"JUMP_IF_FALSE"})
  /\ vm' = Drop(vm, 1)
  /\ Goto(IF IsTruthy(TopOf(vm, 0)) THEN Top.pc + 1 ELSE Ins.a)
  /\ Here /\ UNCHANGED app

(***************************************************************************)
(* Builtins: those that need the machine itself, then the shared ones.     *)
(***************************************************************************)
\* Mutant: the level is lowered without looking whether anything is paused.
ExecContinue_BelowZero == [app EXCEPT !.paused = @ - 1]
ExecContinue ==
  IF app.paused > 0 THEN [app EXCEPT !.paused = @ - 1]
  ELSE SayLine(app, "CONTINUE: nothing is paused")
ExecBacktrace ==
  LET names == [i \in 1..Len(vm.scopes) |-> "  " \o vm.scopes[Len(vm.scopes) + 1 - i].name \o "\n"]
  IN  SayLine(Say(app, "BACKTRACE:\n" \o FoldLeft(LAMBDA x, y : x \o y, "", names)), "  (top level)")
Definedp(v) == TrueFalse(FindProcEntry(Chunk.procs, ValueText(v)) # <<>>)
Repcount == Num(IF vm.repcounts = <<>> THEN -1 ELSE vm.repcounts[Len(vm.repcounts)])
SetSpeed(v) == [app EXCEPT !.speed = ToNumber(v)]

VmBuiltin(name, a) ==
  CASE name \in {"CONTINUE", "CO"}  -> GivesNothing(ExecContinue)
    [] name \in {"BACKTRACE", "BT"} -> GivesNothing(ExecBacktrace)
    [] name = "DEFINED?"            -> Gives(app, Definedp(a[1]))
    [] name = "REPCOUNT"            -> Gives(app, Repcount)
    [] name = "SETSPEED"            -> GivesNothing(SetSpeed(a[1]))
    [] name = "SPEED"               -> Gives(app, Num(app.speed))
    [] name \in TemplateBuiltins    -> TemplateBuiltin(app, name, a)
    [] OTHER                        -> SharedBuiltin(app, vm.scopes, name, a)

BuiltinDone(r, m) ==
  Becomes([app |-> r.app, vm |-> Pushed(Reports(m, TRUE, r.produced), r.v)])
CallBuiltin ==
  /\ Fetch({"CALL_BUILTIN"})
  /\ BuiltinDone(VmBuiltin(Ins.text, Args(vm, Ins.a)), Drop(vm, Ins.a))
  /\ Step /\ Here

CheckOutput ==
  /\ Fetch({"CHECK_OUTPUT", "CHECK_SEND_OUTPUT"})
  /\ LET callee == IF Ins.op = "CHECK_OUTPUT" THEN Ins.text ELSE vm.message
     IN  IF vm.resolved /\ ~vm.produced
         THEN Becomes([app |-> SayLine(app, callee \o ": didn't output a value"),
                       vm  |-> Pushed(Drop(vm, 1), EmptyWord)])
         ELSE UNCHANGED <<app, vm>>
  /\ Step /\ Here

VoidResult ==
  /\ Fetch({"VOID_RESULT", "VOID_DISCARD"})
  /\ LET m == IF Ins.op = "VOID_DISCARD" THEN Drop(vm, 1) ELSE vm
     IN  vm' = Pushed(Reports(m, TRUE, FALSE), Num(0))
  /\ Step /\ Here /\ UNCHANGED app

(***************************************************************************)
(* Procedure calls: a frame and a scope are pushed together.               *)
(***************************************************************************)
\* The call itself, operands already popped (m); failed is the machine that goes
\* on after the call when it cannot be entered.
Enter(m, def, args, target, failed) ==
  LET scope == PushScope(m.scopes, MaxVmScopes, def.name, def.params, args)
      Fail(a) == Becomes([app |-> a, vm |-> failed]) /\ Step
  IN  IF Len(m.frames) >= MaxVmFrames THEN Fail(app)
      ELSE IF scope = <<>> THEN Fail(TooDeep(app))
      ELSE /\ vm' = [m EXCEPT !.scopes = scope[1],
                              !.frames = Append(@, [pc |-> Top.pc + 1, base |-> m.top])]
           /\ Goto(target)
           /\ UNCHANGED app
\* A call that is refused before it is entered.
Refuse(m, msg, v) ==
  Becomes([app |-> SayLine(app, msg), vm |-> Pushed(Reports(m, FALSE, FALSE), v)]) /\ Step

CallProc ==
  /\ Fetch({"CALL_PROC"})
  /\ LET def == FindProcEntry(Chunk.procs, Ins.text)
         m   == Drop(vm, Ins.b)
     IN  IF def = <<>> THEN Refuse(m, "I don't know how to " \o Ins.text, Num(0))
         ELSE Enter(m, def[1], Args(vm, Ins.b), Ins.a, Pushed(Reports(m, TRUE, FALSE), Num(0)))
  /\ Here

Send ==
  /\ Fetch({"SEND"})
  /\ LET object  == ValueText(TopOf(vm, 2))
         message == ValueText(TopOf(vm, 1))
         method  == ResolveMethod(app, Chunk.procs, object, message)
         args    == SendArgs(object, TopOf(vm, 0))
         m       == [Drop(vm, 3) EXCEPT !.message = message]
     IN  IF method.def = <<>> THEN Refuse(m, method.msg, EmptyWord)
         ELSE IF Len(args) # Len(method.def[1].params)
         THEN Refuse(m, "SEND: wrong number of inputs for message \"" \o message, EmptyWord)
         ELSE Enter(m, method.def[1], args, method.def[1].pc,
                    Pushed(Reports(m, FALSE, FALSE), EmptyWord))
  /\ Here

\* APPLY leaves the report of the last call alone: OP_VOID_DISCARD follows.
Apply ==
  /\ Fetch({"APPLY"})
  /\ LET r == ResolveApply("APPLY", Chunk.procs, ValueText(TopOf(vm, 1)), TopOf(vm, 0))
         m == Drop(vm, 2)
     IN  IF r.def = <<>>
         THEN /\ Becomes([app |-> SayLine(app, r.msg), vm |-> Pushed(m, Num(0))])
              /\ Step
         ELSE Enter(m, r.def[1], r.args, r.def[1].pc, Pushed(m, Num(0)))
  /\ Here

\* The frame and its scope are left, and what the call had on the stack.
\* Mutants: the scope, or the stack, is forgotten.
Left_ScopeKept(m, frame) == [m EXCEPT !.top = frame.base, !.frames = Front(@)]
Left_StackKept(m, frame) == [m EXCEPT !.frames = Front(@), !.scopes = Front(@)]
Left(m, frame) == [m EXCEPT !.top = frame.base, !.frames = Front(@), !.scopes = Front(@)]

\* exec_return: OUTPUT's value or 0 replaces what the call left on the stack.
Return ==
  /\ Fetch({"OUTPUT", "STOP"})
  /\ LET outputs == Ins.op = "OUTPUT"
         value   == IF outputs THEN TopOf(vm, 0) ELSE Num(0)
         m       == Reports(IF outputs THEN Drop(vm, 1) ELSE vm, TRUE, outputs)
         frame   == vm.frames[Len(vm.frames)]
     IN  IF vm.frames = <<>> THEN vm' = m /\ Goto(-1)
         ELSE /\ vm' = Pushed(Left(m, frame), value)
              /\ Goto(frame.pc)
  /\ Here /\ UNCHANGED app

Local ==
  /\ Fetch({"LOCAL"})
  /\ LET r == DeclareLocal(app, vm.scopes, Ins.text)
     IN  Becomes([app |-> r.app, vm |-> [vm EXCEPT !.scopes = r.ss]])
  /\ Step /\ Here

\* The first entry of that name loses it, in the chunk this code is part of.
EraseProc ==
  /\ Fetch({"ERASE"})
  /\ IF FindProcEntry(Chunk.procs, Ins.text) = <<>>
     THEN /\ app' = SayLine(app, "ERASE: no such procedure \"" \o Ins.text)
          /\ UNCHANGED chunks
     ELSE /\ chunks' = [chunks EXCEPT ![Top.chunk].procs = EraseNamed(@, Ins.text)]
          /\ UNCHANGED app
  /\ Step /\ UNCHANGED <<vm, status>>

(***************************************************************************)
(* THROW and REPEAT's counters.                                            *)
(***************************************************************************)
CheckThrow ==
  /\ Fetch({"CHECK_THROW"})
  /\ Goto(IF app.throwing THEN Ins.a ELSE Top.pc + 1)
  /\ Here /\ UNCHANGED <<app, vm>>

Catch ==
  /\ Fetch({"CATCH_CHECK"})
  /\ Becomes([app |-> CatchCheck(app, ValueText(TopOf(vm, 0))), vm |-> Drop(vm, 1)])
  /\ Step /\ Here

CheckUncaughtThrow ==
  /\ Fetch({"CHECK_UNCAUGHT_THROW"})
  /\ app' = IF app.throwing THEN ReportUncaught(app) ELSE app
  /\ Step /\ Here /\ UNCHANGED vm

CountRepeat ==
  /\ Fetch({"REPCOUNT_PUSH", "REPCOUNT_INCR", "REPCOUNT_POP"})
  /\ LET n == Len(vm.repcounts)
     IN  vm' = CASE Ins.op = "REPCOUNT_PUSH" /\ n < MaxVmScopes -> [vm EXCEPT !.repcounts = Append(@, 1)]
                 [] Ins.op = "REPCOUNT_INCR" /\ n > 0 -> [vm EXCEPT !.repcounts[n] = @ + 1]
                 [] Ins.op = "REPCOUNT_POP" /\ n > 0  -> [vm EXCEPT !.repcounts = Front(@)]
                 [] OTHER -> vm
  /\ Step /\ Here /\ UNCHANGED app

(***************************************************************************)
(* RUN, EXECTIME and LOAD: the text becomes a chunk of its own, run by     *)
(* vm_run again on the same stacks.  EXECTIME's elapsed time is 0 here.    *)
(***************************************************************************)
\* What the opcode leaves when it is through.
SnippetResult(op, m) == IF op = "EXECTIME" THEN Pushed(Reports(m, TRUE, TRUE), Num(0)) ELSE m
SnippetNoun(op) == CASE op = "RUN" -> "the RUN'd snippet's" [] op = "EXECTIME" -> "the timed snippet's"
                     [] OTHER -> "the loaded file's"

SnippetText(op) == IF op # "LOAD" THEN ValueText(TopOf(vm, 0)) ELSE Files[Ins.text]
SnippetRefused(op) == IF op = "LOAD" THEN Ins.text \notin DOMAIN Files
                                    ELSE app.runDepth >= MaxRunDepth
SnippetRefusal(op) ==
  CASE ~SnippetRefused(op) -> ""
    [] SnippetRefused(op) /\ op = "LOAD" -> "LOAD: could not read file"
    [] OTHER -> op \o ": too deeply nested, ignored"
SkipSnippet(op, m) ==
  /\ Becomes([app |-> SayIf(app, SnippetRefusal(op)), vm |-> SnippetResult(op, m)])
  /\ Step /\ UNCHANGED chunks
RunChunk(op, m, chunk) ==
  /\ vm' = m
  /\ app' = IF op = "LOAD" THEN app ELSE [app EXCEPT !.runDepth = @ + 1]
  /\ chunks' = Append(chunks, chunk)
  /\ ctl' = Append(ctl, [Activation(op, Len(chunks) + 1, chunk.start) EXCEPT !.floor = Len(m.frames)])
RunProgram(op, m, program) ==
  IF program = <<>> THEN SkipSnippet(op, m) ELSE RunChunk(op, m, program[1])

StartSnippet ==
  /\ Fetch({"RUN", "EXECTIME", "LOAD"})
  /\ LET op == Ins.op
         m  == IF op = "LOAD" THEN vm ELSE Drop(vm, 1)
     IN  IF SnippetRefused(op) THEN SkipSnippet(op, m)
         ELSE RunProgram(op, m, Translate(op, SnippetText(op)))
  /\ UNCHANGED status

\* vm_run returns: HALT, or a pc outside the code.
Returns == status = "running" /\ (InCode => Ins.op = "HALT")
\* The caller's vm_run goes on after the instruction that called.
Resumed == ctl' = [Front(ctl) EXCEPT ![Depth - 1].pc = @ + 1]
Escaped == Len(vm.frames) < Top.floor   \* OUTPUT or STOP popped a frame of the caller's

\* Mutant: EXECTIME returns without lowering run_depth.
DepthLowered_NotExectime(who, a) == IF who = "RUN" THEN [a EXCEPT !.runDepth = @ - 1] ELSE a
DepthLowered(who, a) == IF who = "LOAD" THEN a ELSE [a EXCEPT !.runDepth = @ - 1]

EndSnippet ==
  /\ Returns /\ Top.who \in {"RUN", "EXECTIME", "LOAD"}
  /\ LET said == SayIf(app, IF Escaped
                            THEN Top.who \o ": OUTPUT/STOP escaping " \o SnippetNoun(Top.who)
                                   \o " own top level is not fully supported" ELSE "")
     IN  app' = DepthLowered(Top.who, said)
  /\ vm' = SnippetResult(Top.who, vm)
  /\ chunks' = Front(chunks)
  /\ Resumed /\ UNCHANGED status

(***************************************************************************)
(* Compiled templates: one vm_run for each element, the element in a       *)
(* variable of its own; what that variable held before is put back.        *)
(***************************************************************************)
Coerced(v) == IF IsWordVal(v) /\ IsNumeral(v[2]) THEN Num(ToNumber(v)) ELSE v

\* Binds what the activation's next pass works on.
BindPass(st, a) ==
  IF a.who = "REDUCE"
  THEN Bind(Bind(st, a.vars[1], a.result), a.vars[2], Coerced(Head(a.rest)))
  ELSE Bind(st, a.vars[1], Coerced(Head(a.rest)))

\* Mutant: the variable goes, whatever it held before.
Restored_Deleted(st, name, saved) == [st EXCEPT !.app = DeleteVar(@, name)]
Restored(st, name, saved) ==
  IF saved # <<>> THEN Bind(st, name, saved[1]) ELSE [st EXCEPT !.app = DeleteVar(@, name)]
\* Mutant: REDUCE's second variable is left behind.
FinishTemplate_SecondKept(st, a) ==
  [Restored(st, a.vars[1], a.saved[1]) EXCEPT
     !.vm = Pushed(Reports(@, TRUE, a.who # "FOREACH"), a.result)]
\* The loop is over: variables restored, result pushed.
FinishTemplate(st, a) ==
  LET one  == Restored(st, a.vars[1], a.saved[1])
      both == IF Len(a.vars) = 1 THEN one ELSE Restored(one, a.vars[2], a.saved[2])
  IN  [both EXCEPT !.vm = Pushed(Reports(@, TRUE, a.who # "FOREACH"), a.result)]

TemplateOf(op) == CASE op = "MAP_COMPILED" -> "MAP" [] op = "FILTER_COMPILED" -> "FILTER"
                    [] op = "REDUCE_COMPILED" -> "REDUCE" [] OTHER -> "FOREACH"

StartTemplate ==
  /\ Fetch({"MAP_COMPILED", "FILTER_COMPILED", "REDUCE_COMPILED", "FOREACH_COMPILED"})
  /\ LET who    == TemplateOf(Ins.op)
         list   == Elements(TopOf(vm, 0))
         folds  == who = "REDUCE" /\ list # <<>>
         vars   == IF who = "REDUCE" THEN <<Ins.text \o "_1", Ins.text \o "_2">> ELSE <<Ins.text>>
         m      == Drop(vm, 1)
         a      == [Activation(who, Top.chunk, Ins.a) EXCEPT
                      !.floor = Len(m.frames), !.vars = vars,
                      !.saved = [i \in 1..Len(vars) |-> Lookup(app, m.scopes, vars[i])],
                      !.rest = IF folds THEN Tail(list) ELSE list,
                      !.result = CASE folds -> Coerced(Head(list))
                                   [] who \in {"MAP", "FILTER"} -> EmptyList
                                   [] OTHER -> Num(0)]
         st     == [app |-> app, vm |-> m]
     IN  IF a.rest = <<>> THEN Becomes(FinishTemplate(st, a)) /\ Step
         ELSE Becomes(BindPass(st, a)) /\ ctl' = Append(ctl, a)
  /\ Here

EndPass ==
  /\ Returns /\ Top.who \in {"MAP", "FILTER", "REDUCE", "FOREACH"}
  /\ LET value == TopOf(vm, 0)
         m     == IF Escaped \/ Top.who = "FOREACH" THEN vm ELSE Drop(vm, 1)
         kept  == CASE Escaped \/ Top.who = "FOREACH" -> Top.result
                    [] Top.who = "MAP" -> ListVal(Append(Top.result[2], value))
                    [] Top.who = "FILTER" -> IF IsTruthy(value)
                                             THEN ListVal(Append(Top.result[2], Head(Top.rest)))
                                             ELSE Top.result
                    [] OTHER -> value
         over  == \/ Escaped \/ Len(Top.rest) = 1
                  \/ Top.who = "FOREACH" /\ (app.stopping \/ app.throwing)
         a     == [Top EXCEPT !.pc = Top.start, !.rest = Tail(@), !.result = kept]
         st    == [app |-> app, vm |-> m]
     IN  IF over THEN Becomes(FinishTemplate(st, a)) /\ Resumed
         ELSE Becomes(BindPass(st, a)) /\ ctl' = [ctl EXCEPT ![Depth] = a]
  /\ Here

EndRun ==
  /\ Returns /\ Top.who = "main"
  /\ status' = "halted" /\ ctl' = <<>>
  /\ UNCHANGED <<app, vm, chunks>>

(***************************************************************************)
(* Suspension: only the outermost vm_run may give up the C stack.          *)
(***************************************************************************)
Suspend == status' = Ins.op
RefuseNested(a) ==
  SayLine(a, Ins.op \o ": not supported inside a MAP/FILTER/REDUCE/FOREACH template, RUN, or LOAD")

Wait ==
  /\ Fetch({"WAIT"})
  /\ vm' = Drop(vm, 1)
  /\ IF Depth > 1 THEN app' = RefuseNested(app) /\ UNCHANGED status
     ELSE /\ IF ToNumber(TopOf(vm, 0)) > 0 THEN Suspend ELSE UNCHANGED status
          /\ UNCHANGED app
  /\ Step /\ UNCHANGED chunks

\* WAITKEY and INPUT: resuming brings the value; when refused it is the empty word.
AskUser ==
  /\ Fetch({"WAITKEY", "INPUT"})
  /\ IF Depth > 1
     THEN /\ Becomes([app |-> RefuseNested(app),
                      vm |-> Reports(Pushed(vm, EmptyWord), TRUE, TRUE)])
          /\ UNCHANGED status
     ELSE Suspend /\ UNCHANGED <<app, vm>>
  /\ Step /\ UNCHANGED chunks

Pause ==
  /\ Fetch({"PAUSE"})
  /\ IF Depth > 1 THEN app' = RefuseNested(app) /\ UNCHANGED status
     ELSE /\ app' = LET level == app.paused + 1
                    IN  SayLine([app EXCEPT !.paused = level],
                          "Paused (level " \o ToString(level) \o "). Type CONTINUE to resume.")
          /\ Suspend
  /\ Step /\ UNCHANGED <<vm, chunks>>

AwaitOrYield ==
  /\ Fetch({"AWAIT", "YIELD"})
  /\ IF Depth > 1 THEN app' = RefuseNested(app) /\ UNCHANGED status
     ELSE Suspend /\ UNCHANGED app
  /\ Step /\ UNCHANGED <<vm, chunks>>

\* exec_launch: a failure leaves a value that nothing pops.
Launch ==
  /\ Fetch({"LAUNCH"})
  /\ LET r == ResolveApply("LAUNCH", Chunk.procs, ValueText(TopOf(vm, 1)), TopOf(vm, 0))
         m == Drop(vm, 2)
     IN  IF Depth > 1 \/ r.def = <<>>
         THEN /\ vm' = Pushed(m, Num(0))
              /\ app' = IF Depth > 1 THEN RefuseNested(app) ELSE SayLine(app, r.msg)
              /\ UNCHANGED status
         ELSE /\ vm' = m
              /\ Suspend /\ UNCHANGED app
  /\ Step /\ UNCHANGED chunks

\* Mutant: the delay is entered again instead of passed.
MotionDelay_Again ==
  /\ Fetch({"MOTION_DELAY"})
  /\ IF Depth > 1 \/ app.speed <= 0 THEN UNCHANGED status ELSE Suspend
  /\ UNCHANGED <<app, vm, ctl, chunks>>
MotionDelay ==
  /\ Fetch({"MOTION_DELAY"})
  /\ IF Depth > 1 \/ app.speed <= 0 THEN UNCHANGED status ELSE Suspend
  /\ Step /\ UNCHANGED <<app, vm, chunks>>

\* vm_resume, and vm_resume_with_key and vm_resume_with_input with a word.
Resume == status' = "running" /\ UNCHANGED <<app, vm, ctl, chunks>>
ResumeWith(word) ==
  /\ status' = "running"
  /\ vm' = Reports(Pushed(vm, WordVal(word)), TRUE, TRUE)
  /\ UNCHANGED <<app, ctl, chunks>>

VmNext ==
  \/ PushValue \/ SetVariable \/ PopOrPoke \/ Unary \/ Binary \/ Jump \/ JumpIfFalse
  \/ CallBuiltin \/ CheckOutput \/ VoidResult \/ CallProc \/ Send \/ Apply \/ Return
  \/ Local \/ EraseProc \/ CheckThrow \/ Catch \/ CheckUncaughtThrow \/ CountRepeat
  \/ StartSnippet \/ EndSnippet \/ StartTemplate \/ EndPass \/ EndRun
  \/ Wait \/ AskUser \/ Pause \/ AwaitOrYield \/ Launch \/ MotionDelay
=============================================================================
