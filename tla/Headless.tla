------------------------------ MODULE Headless ------------------------------
(***************************************************************************)
(* The headless driver (src/headless.c, run_headless_script): reads a      *)
(* script, compiles and runs it to the end, resuming every suspension at   *)
(* once.  WAITKEY and INPUT take a line of standard input, the empty one   *)
(* when there is none left.  The first LAUNCH hands the run over to the    *)
(* agent scheduler, which Agents.tla models.                               *)
(***************************************************************************)
EXTENDS Vm

\* What may be run: records
\*   [text |-> the script, input |-> the lines of standard input,
\*    like |-> texts that must print the same in the tree-walking evaluator]
CONSTANT Scripts

VARIABLES script,    \* what is run
          stdin,     \* the lines not read yet
          exit       \* "": running; or how run_headless_script left its loop
vars == <<app, vm, ctl, chunks, status, script, stdin, exit>>

NoChunk == [procs |-> <<>>, start |-> 0, code |-> <<>>]   \* never run

\* A script that does not lex or parse ends here, before the machine starts.
Load(program) ==
  /\ exit = IF program = <<>> THEN "rejected" ELSE ""
  /\ StartVm(IF program = <<>> THEN NoChunk ELSE program[1])
Init ==
  /\ script \in Scripts /\ stdin = script.input
  /\ Load(Translate("main", script.text))

RunVm == exit = "" /\ VmNext /\ UNCHANGED <<script, stdin, exit>>

ResumeAtOnce ==
  /\ exit = "" /\ status \in {"WAIT", "PAUSE", "MOTION_DELAY"}
  /\ Resume
  /\ UNCHANGED <<script, stdin, exit>>

ReadStdinLine == IF stdin = <<>> THEN "" ELSE Head(stdin)
ResumeWithLine ==
  /\ exit = "" /\ status \in {"WAITKEY", "INPUT"}
  /\ ResumeWith(ReadStdinLine)
  /\ stdin' = IF stdin = <<>> THEN stdin ELSE Tail(stdin)
  /\ UNCHANGED <<script, exit>>

Leave ==
  /\ exit = "" /\ status \in {"halted", "LAUNCH", "AWAIT", "YIELD"}
  /\ exit' = CASE status = "halted" -> "done" [] status = "LAUNCH" -> "agents" [] OTHER -> "error"
  /\ UNCHANGED <<app, vm, ctl, chunks, status, script, stdin>>

\* main returns; nothing is left to do.
Exited == exit # "" /\ UNCHANGED vars

Next == RunVm \/ ResumeAtOnce \/ ResumeWithLine \/ Leave \/ Exited

\* One thread runs the driver and the machine without ever waiting for another:
\* WF_vars(Next), spelled out because Next has a step to take until the exit
\* (which the runs check, as the absence of deadlock).
Fairness == <>(exit # "") \/ []<><<Next>>_vars
Spec == Init /\ [][Next]_vars /\ Fairness

(***************************************************************************)
(* Properties.                                                             *)
(***************************************************************************)
\* The machine's types: heights and depths within their limits, one
\* activation for every vm_run while it runs, one chunk for every snippet.
TypeOK ==
  /\ vm.top \in 0..MaxVmStack /\ vm.top <= Len(vm.memory)
  /\ Len(vm.scopes) <= MaxVmScopes /\ Len(vm.frames) <= MaxVmFrames
  /\ Len(vm.repcounts) <= MaxVmScopes
  /\ \A i \in 1..Len(vm.frames) : vm.frames[i].base \in 0..MaxVmStack
  /\ app.paused \in Nat /\ app.runDepth \in 0..MaxRunDepth
  /\ status = "halted" <=> ctl = <<>>
  /\ \A i \in 1..Len(ctl) : ctl[i].chunk \in 1..Len(chunks)

\* Frames and scopes are pushed and popped together, and a frame's base is
\* never below its caller's, however calls, refused calls, returns out of
\* loops and nested vm_runs follow each other.  (exec_call_proc, exec_send,
\* exec_apply, exec_return.)
CallsAreNested ==
  /\ Len(vm.scopes) = Len(vm.frames)
  /\ \A i \in 1..(Len(vm.frames) - 1) : vm.frames[i].base <= vm.frames[i + 1].base

\* While a procedure runs, nothing touches the stack below its frame's base;
\* when it returns, its value is the one slot on top of that.  (Its caller may
\* be in the middle of an expression, of a FOR or of a template's loop.)
CallerStackUntouched ==
  [][ vm.frames # <<>> =>
        LET base == Last(vm.frames).base IN
        /\ SubSeq(vm'.memory, 1, base) = SubSeq(vm.memory, 1, base)
        /\ vm'.top >= base
        /\ Len(vm'.frames) < Len(vm.frames) => vm'.top = base + 1 ]_vars

\* Between two statements of the main program the value stack is empty: no
\* statement, whichever way it ended, leaves a value or takes one too many.
StatementsBalance ==
  Fetch({"CHECK_UNCAUGHT_THROW"}) /\ Depth = 1 /\ vm.frames = <<>> => vm.top = 0

\* In scripts whose every THROW stands inside a CATCH of its tag, none arrives
\* at the top-level check that reports it as uncaught.  (LANGUAGE.md: "anywhere
\* inside it"; a RUN's snippet is a program with such a check of its own.)
CatchTakesThrow == ~(Fetch({"CHECK_UNCAUGHT_THROW"}) /\ app.throwing)

\* app->run_depth counts the RUNs and EXECTIMEs in progress, also when one is
\* refused, does not parse, is left by a THROW or by a STOP of its caller's.
RunDepthMatches ==
  app.runDepth = Cardinality({i \in 1..Depth : ctl[i].who \in {"RUN", "EXECTIME"}})

\* A template's placeholder exists only while that template runs: the globals
\* that save_var and restore_var manage never outlive their call site, even
\* when it is entered again from inside itself.
IsPlaceholder(name) == SubSeq(name, 1, IF Len(name) < 6 THEN Len(name) ELSE 6) = "__tmpl"
PlaceholdersScoped ==
  \A i \in 1..Len(app.globals) :
    IsPlaceholder(app.globals[i].name) =>
      \E d \in 1..Depth : \E j \in 1..Len(ctl[d].vars) : ctl[d].vars[j] = app.globals[i].name

\* A run that ends leaves nothing of itself behind in the application: no
\* pending THROW for the next command to trip over, no open frame.
EndsClean ==
  exit = "done" => ~app.throwing /\ vm.frames = <<>> /\ Len(chunks) = 1

\* Every run of these scripts ends: refused calls, refused suspensions,
\* failed conversions and unparsable snippets all move on.
ScriptEnds == <>(exit # "")
=============================================================================
