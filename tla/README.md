# LogoMotive: formal models

LogoMotive is a Logo interpreter in C with a GTK4 window. A script is lexed, parsed to an
AST, compiled to bytecode and run by a VM; instead of blocking, the VM returns to the main
loop whenever Logo must wait (`WAIT`, `WAITKEY`, `INPUT`, `PAUSE`, `ANIMATESPRITE`,
`SETSPEED`'s delay), and concurrent turtles (`LAUNCH`, `AWAIT`, `YIELD`) are scheduled
cooperatively. This directory holds TLA+ models of that program, their model-checking runs
and the theorems proved about them.

- [Inventory](#inventory): the parts of the system
- [Modules](#modules): what models what
- [Runs](#runs): what is checked, under which bounds and fairness
- [Disagreements](#disagreements-between-the-code-and-what-is-said-of-it)
- [Proofs](#proofs): what is proved and how
- [Not modelled](#not-modelled-and-abstractions) and the [plan](#plan)

Paths are relative to the repository; the sources are in `src/`.

## Inventory

| Component | Sources | State | Operations | Hard behaviour | What makes it correct |
|---|---|---|---|---|---|
| Concurrent agents | `agent.c`, `agent.h` | `agents[MAX_TURTLES]`: state, VM, turtle, saved throw flag and RUN depth | `scheduler_run`, `spawn_agent`, save/restore | interleaving of agents over shared `LogoApp` fields; a join; two roles of `launch_target_pc` | isolation of the shared fields, one turtle each, round robin, joins resolve, it returns |
| GTK run driver | `ui.c` 899-1513, 1930-1970, 2238-2273 | `g_suspended_run`, `g_suspend_timeout_id`, `g_paused_runs`, five `*_owner` slots, `waiting_for_*`, `pause_depth` | `run_logo_script`, `handle_vm_result`, two timer callbacks, `on_entry_key_pressed`, `fire_handler`, `on_window_destroy` | callbacks in any order, timers, re-entrancy through `MOUSEX`, chunks kept alive across runs, recursion between `handle_vm_result` and `maybe_resume_paused_runs` | no run lost, one thread, wake-ups go to their run, pause levels are a stack, no chunk leaked, freed twice or used after free, waits end |
| Bytecode VM | `vm.c`, `vm.h` | value stack, frames, scopes, `repcount_stack`, `vm_run_depth`, resume pc | one per opcode, `vm_resume*` | unwinding by THROW, STOP and OUTPUT; nested `vm_run`; suspension in the middle of anything | stack balance, scopes in step with frames, suspended = resumed state, agreement with `eval.c` |
| Compiler | `compiler.c` | the chunk under construction, pending patches | `compile_program`, one per AST kind | forward patches, hidden stack slots of loops, THROW checks after calls | every branch leaves one value; the compiled program does what the AST does |
| AST evaluator, shared builtins | `eval.c`, `eval.h` | scopes, throw and output flags | `exec_block`, control structures, `eval_*_value` | it is the oracle the VM is compared with, and shares its builtins | same result as the VM |
| Parser | `parser.c`, `ast.c` | node pool, hoisted procedures, followed LOADs | `logo_parse`, hoisting | arity-directed parsing, cycles of LOADs, token limits | each procedure hoisted once; errors reported; termination |
| Lexer | `lexer.c` | position | `logo_lex` | newlines, comments, token limits | tokens partition the input |
| Chunks, assembler | `bytecode.c` | `BytecodeChunk` | find, erase, (dis)assemble | labels, quoting, limits | assembling a disassembly gives the same chunk |
| Headless driver | `headless.c` | one VM | resume loop, `run_as_agent` | suspensions answered at once | every suspension resumed by the right function |
| Turtles, canvas | `interpreter.c` | `Turtle[10]`, raster | motion, fill | WRAP/FENCE/WINDOW edges; flood fill | positions stay inside; fill covers exactly a region |
| Lists, arrays, properties | `interpreter.c`, `eval.c` | `list_pool`, `plists` | cons, SETITEM, PPROP, SEND | sharing, exhausted pools, prototype chains | no cycle; a chain ends |
| File channels | `interpreter.c` | `file_channels[]`, selected reader and writer | OPEN..., SETREAD, CLOSE | a closed channel that is still selected | a selected channel is open |
| History | `ui.c` 850-898 | `history[]`, `history_pos` | push, recall | the limit | position in range, no entry lost below the limit |
| Editor, menus, highlighting | `ui.c` | widgets | callbacks | none of its own | out of scope |
| Old interpreter | `interpreter.c` | `scopes` | `eval_logo` | busy-wait loops | no longer run by the program |
| Joystick, sound; CLIs | `interpreter.c`, `ui.c`, `main.c`, `tools/` | devices, arguments | I/O | none | out of scope |

How they interact: GTK calls the run driver; the driver calls lexer, parser and compiler and
then `vm_run`; the VM calls the shared builtins and returns a `VmRunResult`;
`handle_vm_result` stores the run where the next callback will find it, or hands it to
`scheduler_run`, which calls `vm_run`/`vm_resume` itself. `LogoApp` is shared by all of them.
The VM calls back into GTK in one place only: reading the mouse drains the main context.

`PROJECT.json` lists, under `hazards`, what can go wrong at which line and the properties
that watch it.

## Modules

| Module | Models |
|---|---|
| `ForkJoin` | what LAUNCH and AWAIT promise, without a scheduler: tasks fork, finish and join |
| `Agents` | `agent.c` and the VM operations that touch the fields agents share |
| `RunDriver` | the run driver of `ui.c`, with the suspending opcodes, handler registration, CONTINUE and the mouse operators of `vm.c` |
| `Lexer`, `Parser` | `lexer.c`; `parser.c` with hoisting: text to tokens to a tree |
| `Bytecode` | what compiler, assembler and VM share of a chunk: its table of procedures, what each opcode takes and puts, and what well-kept code is |
| `Compiler` | `compiler.c`: a tree to a chunk of instructions |
| `Values`, `Texts`, `Workspace` | the values; the conversions from and to text and the operations on words and lists; the part of `LogoApp` (output, variables, property lists, flags) that both engines share |
| `Eval` | `eval.c`, the tree-walking evaluator: a function from a state and a tree to a state. The reference of the VM |
| `Vm` | `vm.c`: one action per group of opcodes |
| `Headless` | `headless.c`: `Vm` in its resume loop, and the properties of the pair |
| `Engines` | `Headless` with the compiler and the evaluator it calls, and the property that compares the two engines |
| `Assembler` | `bytecode.c`: chunk to listing and back |
| `Toolchain` | `ui.c`'s typing, Save Bytecode and Open Bytecode around `Assembler`, and their properties |
| `Lists` | the list pool and the list and array operators of `eval.c`, cell by cell |
| `ListValues` | the tree a variable's value stands for, before and after an operation |
| `MCAgents`, `MCRunDriver`, `MCVm`, `MCToolchain`, `MCLists` | what the model checker needs: history variables, scripts, pieces of text, bounds |
| `AgentsProofs`, `RoundRobinProofs` | theorems about `Agents` |
| `RunDriverProofs`, `SessionProofs`, `HandlerProofs` | theorems about `RunDriver`: chunks; runs, wake-ups and PAUSE; event handlers |
| `VmProofs` | theorems about `Vm` and `Headless` |
| `ListsProofs`, `ListValuesProofs` | theorems about `Lists` and `ListValues` |

The pipeline modules extend each other as the C files call each other:
`Lexer` <- `Parser` <- `Compiler` <- `Assembler` <- `Toolchain`, and
`Parser` <- `Texts` and `Workspace` <- `Eval`. `Vm` <- `Headless` knows the others only through
constants, as `vm.c` knows them through their headers: `Translate` (lex, parse and compile a
text), `TemplateBuiltin` (eval.c's MAP, FILTER, REDUCE and FOREACH), `ListBuiltin`,
`LiteralFromText`, `ValueText`, `IsNumeral` and `NumeralValue`. `Engines` extends both halves and
defines what the configurations give these constants. So one text goes the whole way in one
model: it is lexed, parsed, compiled, run by the VM, and what it prints is compared with what
`Eval` prints for the tree; and `Vm` can be reasoned about without the recursive operators of
the front end.

Operators named `X_Something` directly above an operator `X` are mutated forms of `X`: each
is a plausible bug, and each property is known to fail for one of them.

### Agents

`phase`, `cursor` and `any_ready` are the position of `scheduler_run`'s loops: `Skip` and
`BeginTurn` are the two ways the inner loop meets an agent; `Throw`, `Catch`, `Tell`,
`EnterNested`, `LeaveNested` and `CheckUncaught` are what the agent's program may do in its
turn; `Halted`, `Yielded`, `Awaits`, `Launched` and `Unsupported` are the cases of the
`switch` on its result together with `agent_save_state`; `EndPass` is the join loop and the
`break`. The initial states are those `handle_vm_result`'s LAUNCH case and `run_as_agent`
build, a pending throw included (`(LIST thrower launcher)` goes on to `launcher`).

A throw's tag is the number of the agent that threw, so a leak is visible. The program is
free: the model contains every schedule of these operations, at most `MaxOps` per agent.

`launch` is `vm.launch_target_pc`, which has two uses (where a new agent starts, and where a
running agent leaves the target of its own LAUNCH). `ImplementsForkJoin` is what says they do
not get in each other's way: its refinement mapping takes an agent's code from `launch` until
it has started and from `proc` afterwards.

### RunDriver

`stack` is the C stack: an executing run (`vm`), `scheduler_run` inside a callback
(`agents`), a drain of the main context (`mousex`), and `on_entry_key_pressed` while ONKEY's
handler runs (`key`). GTK dispatches when the stack is empty or a drain is on top. Every
case of `handle_vm_result` is one action that also contains the release of cleared handlers'
chunks at its start and `maybe_resume_paused_runs` at its end (`Returns`): the recursion
between these two C functions becomes a tail call, the paused run replaces the run that
returned on top of the stack.

A chunk is the procedures it defines with their numbers of inputs, or `Freed`; reading a
freed chunk may find anything (`Defines`), and its identity is not reused while something
points to it. `run[r].owns` is `owns_chunk`; `owner` are the five retained-chunk slots;
adoption (`Adopts`), `release_retained_chunk` (`Release`) and `free_suspended_run`
(`OwnChunk`) are the four places chunks are freed from.

A program is a sequence of at most `MaxOps` operations from `ScriptOps` or, for a handler's
run, `HandlerOps`; an operation in `FinalOps` is the last one of its program. These
vocabularies state under which conditions a property holds: where a property fails for the
full vocabulary a run of its own shows it (see below).

### Lexer, Parser and Compiler

Pure operators. C functions that call each other are one recursive operator with a case per
function, as the source declares them forward (`ReadAs` for the parser's, `CodeAs` for the
compiler's, `Eval` for the evaluator's); each case's body is an operator of its own. Text is a TLA+ string of which single characters are taken; a token and a
tree node are records. A parse operator returns the record the C function leaves in its
parser: position, definitions, errors, node. Hoisting is the pass of `parser.c` that follows
`TO...END` and LOADed files, with its limits as constants.

`XCode(n, at, e)` is the code of node `n` when its first instruction has address `at`. The C
code emits and goes back to patch; here a jump's target is computed from the lengths of the
pieces, and only the calls of procedures compiled later are patched afterwards
(`Patched`), as the source does with its pending patches. Template unrolling
(`compile_template_call`) re-renders and re-parses the template with its placeholder replaced
by a fresh variable, and adds its definitions to the pool (`graft`), as the source does.

### Values, Workspace and Eval

A value is a type and a payload; a list's payload is the sequence of its elements, which is
sound because list cells are immutable once built, and that is checked on the pool itself by
`Lists`. The scope stack is an argument of the variable operators (`ScopeStack` in the source):
`Eval` passes `app.scopes`, `Vm` its own.

### Vm and Headless

`vm` is `struct Vm` (value stack with its height, frames, scopes, REPCOUNTs, the two result
flags of the last call). The stack keeps what was above its top, as the array in C does.
`ctl` is the C stack: `vm_run` calls itself for templates, RUN, EXECTIME and LOAD, and what
those C functions hold in locals (the loop's place in its list, the saved variables, the
frame floor) are fields of the activation. `chunks` are the main program's chunk and those of
the snippets that are running. A suspension ends `vm_run` with the opcode in `status`;
`Headless` resumes it by the function `headless.c` uses for it, until the machine halts, hands
over to the agents, or stops on a suspension the driver does not know.

### Assembler and Toolchain

`Disassemble` is the disassembler line by line; `Pass1` and `Pass2` are the two passes of the
assembler, with its error exits. `Toolchain` is an editor: a text grows by pieces and wrappers, is saved as
bytecode (maybe after erasing procedures, for SAVEBYTECODE) and opened again. It also holds an
abstract interpretation of chunks (`Takes`, `Gives`, `Successors`): the heights of the value
stack on every path, throw exits and loop back edges included.

### Lists

`pool` is `list_pool`; cells are taken in order and never given back. A loop that copies or
makes cells is one `Build` step per cell, so that the pool may be exhausted between any two
of them and properties hold in the middle of a construction. A loop's cursor is the first item
of `todo` (`copy`, `front` for BUTLAST, `flat`, `subst`, with the cell it is at); nested
constructions (SUBST, list literals) are a stack of frames. `ListValues` reads a value as a tree
and remembers the trees before an operation; `MCLists` states what each operation means on trees.

## Runs

| Run | Shows |
|---|---|
| `agents` | type, agents fit, distinct turtles, throw and RUN-depth isolation, no lone waiter, round robin, refinement of `ForkJoin`; the scheduler returns, a join that can resolve is followed by a turn |
| `driver_sessions` | no run lost, one thread, wake-ups and the slot agree, strict pause levels, `pause_depth` is the innermost level, nothing after destroy. Vocabulary: CONTINUE only as a program's last operation, no LAUNCH, no mouse |
| `driver_handlers` | every registered event has a chunk that defines its procedure (`HandlersRetained`), and passes the arguments it takes (`HandlerArity`). Vocabulary: scripts register, clear, WAIT and, last, CONTINUE, but do not PAUSE or launch (between ON and its end, a script's event has no chunk); handlers clear, WAIT and PAUSE, and register none; procedures keep their inputs when redefined |
| `driver_chunks` | one owner per chunk (`ChunkOwnership`), and what frees the chunk of a run that lives (`ChunksLetGo`): only that each event whose slot retains it is cleared or redefined, and then only a handler's. With LAUNCH, mouse drains, handlers that PAUSE, scripts that clear or redefine their event and CONTINUE, and the PAUSE limit |
| `driver_live` | callbacks return, waits end, CONTINUE resumes |
| `vm` | frames and scopes in step (`CallsAreNested`), the caller's part of the value stack untouched (`CallerStackUntouched`), statements balanced (`StatementsBalance`), `run_depth` exact (`RunDepthMatches`), placeholders scoped (`PlaceholdersScoped`), nothing left behind (`EndsClean`), every script ends (`ScriptEnds`), and VM and evaluator print the same (`AgreesWithEval`) |
| `front` | every target is an instruction and the right one (`JumpsLand`), one stack height per instruction on all paths (`HeightsAgree`), which literals survive their text form (`LiteralsSurvive`), assembling a listing gives the chunk back, and which names make that fail (`RoundTrips`) |
| `heap` | the pool has no cycle at any moment (`ListsAcyclic`), results mean what they should (`ResultsAgree`), no value changes but through SETITEM and FILLARRAY (`ValuesKept`) |

Bounds. *Agents*: 3 turtles is the least with a launched agent that can launch again, two
agents that await each other and a third that finishes; 2 operations let an agent throw or nest
and then suspend, and `Tells = {0, 2}` moves to the first turtle and past the last one; the
safety properties are theorems, for any bounds. *Driver*: 2 to 4 runs are one
in the slot, two paused and one executing; two handlers are enough to share a chunk and to let
go of it one at a time; a chunk more than the runs leaves one that only a slot holds; two timers
let one be armed while another is pending. `driver_handlers` has 281832 states, `driver_chunks`
1862930; in the latter a handler is paused, its event cleared or redefined by a script, and the
run resumed on the freed chunk (see Disagreements), so `ChunksLetGo` is checked where it matters.

*vm*: the scripts are 12 leaf statements (calls that return, stop, throw or recurse past the
limits, templates, THROW to two tags) inside every pair of enclosing constructs (REPEAT, CATCH,
IF, FOR, a procedure's body, RUN, FOREACH), and scripts of their own for recursion, refused
calls, SEND and prototypes, ERASE, nested templates, LOAD, EXECTIME and every suspension. The
limits that matter are reached: `MaxScopeDepth = MaxVmScopes = 4` by recursion, `MaxRunDepth = 3`
by a RUN of itself, `MaxIterations = 5` by FOREVER, an over-long snippet. The C limits of scopes
differ between the engines (2000 and 200); they are equal here so that outputs are comparable.
Only scripts in which the engines are meant to agree are compared: STOP, OUTPUT and THROW across
a RUN or a FOREACH template are left to `Escaping` scripts, for which `like` is empty, and to the
violation runs.

*front*: the buffer is a sequence of at most three edits, each a piece from `MCPieces` or a
wrapper from `MCWrappers` around what is there: 69067 states, among them every pair of nested
constructs around every statement. The limits of literals are small, so that texts of three edits
exceed them: 10 tokens (`LIST_LITERAL_MAX_TOKENS`, 512 in C), 36 characters of a literal (2048),
18 of a nested list (512), 28 of a template (1024), tables of 3 words and 2 lists (2048 each). The
run meets literals with too many tokens that are short enough, too long ones, nested lists and
templates that are cut, both tables full with a chunk that still opens, and a chunk that is
refused for its literals. `vm` has C's limits for these, which its scripts do not reach.

*heap*: 5 cells and 4 operations on two variables: a nested literal of three cells, a copy that
does not fit, and a SETITEM after any of them. Deeper sharing needs more cells than any two
operations make.

Fidelity. The models' answers were compared with the C program's, built from this source: what
both engines print for each script of `vm` (598), and the listing and its reassembly for 21952 texts
of `front`, under C's limits (all the pieces but the one with four words in a nested list, which is
there for the small limits). They agree, up to the names of template variables
(`template_counter`), the form of large numbers, EXECTIME's time, FD and its like in the
evaluator's console build, and the order of two arguments' effects described below.

Deadlock is checked in `vm`, where the driver always has a step until it exits. It is off
elsewhere: the scheduler terminates, after the window is destroyed nothing is left to do, and
edits and list operations are bounded by the run.

Fairness. `Agents`: weak fairness of `Next`, since `scheduler_run` is a plain loop and a program
of finitely many operations returns. `RunDriver`: weak fairness of VM steps (an executing
program goes on), of the end of a drain and of `on_entry_key_pressed` (they are straight-line
code) and of pending timers (GLib fires them). None for the user: no key, click or script is
ever assumed to come. `Headless`: weak fairness of `Next` (one thread, resumed at once).
`Toolchain` and `Lists` have no liveness.

## Disagreements between the code and what is said of it

Each row is a run whose single property states a comment or a doc; `PROJECT.json` quotes it.

| Run | What happens |
|---|---|
| `off_then_wait` | a handler that clears its own event and waits is resumed on a freed chunk. The same without a WAIT: a handler PAUSEs (`ui.c:1125-1129`), another script clears its event (`ui.c:1078`) or redefines its procedure (`ui.c:1096`), and CONTINUE resumes the handler on what was freed (`ui.c:1266`) |
| `continue_then_wait` | a script that runs CONTINUE and then WAIT occupies the slot while the paused run executes; a WAIT of that one overwrites it |
| `launch_stray` | a refused LAUNCH leaves a value on the stack; inside CATCH it hides the tag, so the CATCH does not take its THROW |
| `throw_through_run` | a THROW in a RUN's snippet is reported as uncaught at the snippet's own top level, whatever CATCH is around the RUN |

Others have no run of their own and are why the vocabularies and scripts of the passing runs are
what they are.

In the driver and the scheduler:

- a launched procedure that throws halts without the uncaught-THROW report (`agent.c:115`), and
  so does an event handler's run (`ui.c:1360`): the flag is still up afterwards;
- a refused PAUSE of an agent stays counted (`vm.c:2286`), and the next CONTINUE resumes nobody;
- an event registered by a handler has no retained chunk (`ui.c:1092`), and between ON... and the
  end of its script, a PAUSE included, an event has no chunk either;
- events drained by MOUSEX run handlers inside the running script (`vm.c:1034`), and a window
  destroyed in a drain does not stop it;
- CONTINUE followed by PAUSE in one script pushes a level that is not higher than the one below;
- a script that is adopted because it redefines a handler's name may give it other inputs
  (missing ones are bound to 0);
- after a LAUNCH the current turtle is that of the last turn.

Between the VM and the evaluator:

- STOP and OUTPUT directly in a FOREACH template or at the top level of a RUN
  (`vm.c:1851-1862`, `1594-1602` say so); `RUN [STOP]` at the top level; a STOP in a dynamic
  FOREACH leaves `stop_requested`;
- an OUTPUT or a STOP outside any procedure ends the script before its uncaught-THROW check:
  after `OUTPUT t` or `IF t = t [STOP]`, where `t` throws, the flag is still up. `exec_return`
  says of this case that it "can't happen for a well-formed compiled program (the compiler only
  ever emits these inside a procedure body)" (`vm.c:1735-1737`); the compiler emits them;
- a runtime template sees the application's scopes, not the VM's locals (`vm.c:1193-1202`), and
  cannot SEND to a method, which a compiled one can. No template, compiled or not, can call a
  procedure of the script: it is parsed with none defined (`parser.c:1347-1371`). The comment of
  `tests/test_vm.c:808-812` and `docs/BYTECODE_VM_DESIGN.md:2093-2095` say that a template's call
  is compiled; both engines print `0 0 0` for it, and the test compares only the two;
- a procedure that a FOREACH template of the main program defines is never compiled, since the
  definitions come first: the VM does not know it where the evaluator does, and its calls keep
  the target -1 although "no top-level call ever needs patching" (`compiler.c:1175-1177`). In a
  procedure's body the same template works, but the definition's source text is read from a
  buffer that is gone by then (`compiler.c:256`, `1155`; the text itself is not modelled);
- nested templates: the inner `?` is replaced with the outer one's value;
- for the same reason a template cannot call the procedure it stands in: the comment in
  `tests/test_vm.c:862-866` expects 24, both engines print 0, and the test compares only the two;
- an operator of two arguments: the VM evaluates them left to right, `eval.c` as two arguments of
  one C call, whose order C does not fix (`FPUT WAITKEY FPUT INPUT []`). `Eval` takes left to
  right; no compared script has two arguments with effects;
- REPCOUNT after a STOP or OUTPUT inside a REPEAT, and outside any REPEAT
  (`COMMAND_REFERENCE.md:379`);
- operators in statement position are evaluated by the VM only; APPLY of `"` finds an erased
  procedure; an ERASE inside a FOREACH template;
- FOR past its limit has no iteration cap (`compiler.c:892`).

In the front end and the assembler:

- `IF (1 + 2) < 4 [...]` is a parse error; `-` after an operand is merged into the sign of the
  next number in lists of arguments; a user's procedure with a builtin's name shadows it
  (`TUTORIAL_III.md:536-538`); two definitions of one name and ERASE erase the first only;
- not every list literal is pushed as it was written. Words that only `'...'` can spell do not
  survive its rendering (`Ordinary`); a nested list's text is cut at 511 characters
  (`compiler.c:181`), which silently gives another list; a literal longer than 2047
  (`compiler.c:795-798`, its last bracket is lost) or of more than 512 tokens
  (`eval.c:3054-3056`) is pushed as the empty list. `eval.c:3047-3051` says that a malformed
  rendering "would mean a real bug in render_list_literal_source itself, not a user-facing error
  case". `LiteralsSurvive` states each exception exactly (`NestedFit`, `WholeFits`). A template's
  text is cut at 1023 (`compiler.c:256`): what is left fails to parse, or means something else;
- a word or list that finds its table of 2048 full is the empty one (`bytecode.c:84`, `91`),
  without a message. For a list `vm.c:2100` reads `list_literals[-1]`, the end of
  `word_literals`: an empty text, unless the chunk also has more than 2044 words. `PoolFull`
  gives the empty list;
- targets stay -1, silently, beyond three limits: jumps not yet patched when the program reaches
  `MAX_INSTRUCTIONS` (`bytecode.c:54`), forward calls after `MAX_PENDING_PATCHES`
  (`compiler.c:95`), and the THROW checks of a block's statements after `MAX_BLOCK_STATEMENTS`
  (`compiler.c:1111`, `1122`);
- the assembler does not read every listing: names like `even?`, duplicate definitions, a
  procedure named START, PROCS or CODE, empty names, words that hold a quote, and numbers of
  seven digits are lost or refused (`Opens` and `SixDigits` state the rest), while
  `docs/CHANGELOG.md:1094-1096` says its own output round-trips unchanged;
- a list literal whose last element is a literal is cut short when the pool is full, without a
  failure of the whole (`eval.c:3023`, `CutShort`), although `interpreter.c:95-97` says the
  operation is abandoned.

## Proofs

Eight modules hold theorems. All are `Spec => []P` (or a refinement, or an action property)
for every value of the constants, under hypotheses that the theorem's statement names. Where a
property needs a hypothesis on what programs do, the same hypothesis is the vocabulary of the
run that checks it, and without it the property is false of the code (the reasons are below).

| Module | Theorems | Hypotheses |
|---|---|---|
| `AgentsProofs` | `TypeCorrect`, `AgentsFit`, `TurtlesDistinct`, `ThrowsIsolated`, `RunDepthsOwn`, `NobodyAwaitsAlone`, `SchedulerImplementsForkJoin` | the assumptions on constants |
| `RoundRobinProofs` | `TurnsGoRound` | the same |
| `RunDriverProofs` | `DriverTypes`, `ChunksHaveOneOwner` | none |
| `SessionProofs` | `NoRunIsLost`, `OneThreadOnly`, `WakeupsServeTheSlot`, `PausesNest`, `DestroyIsFinal` | `SessionVocabulary` |
| | `DepthIsTheInnermost` | `DepthVocabulary` |
| `HandlerProofs` | `HandlersTakeTheirArguments` | `SteadyShapes` |
| | `HandlersStayRetained` | `HandlerVocabulary` |
| | `ChunksGoOnlyWhenLetGo` | none |
| `ListsProofs` | `PoolIsAcyclic` | `LiteralsTyped` |
| `ListValuesProofs` | `SharedValuesAreKept` | `LiteralsTyped` |
| `VmProofs` | `MachineTyped`, `RunDepthIsCounted` | `Assembled`, `EvaluatorKeeps` |
| | `CallsNest`, `StatementsComeOutEven`, `CallersAreSafe` | the same, `WellCoded`, `Unhindered` |
| | `CodeStaysTidy` | `CompilesTidily` |
| | `CompiledRunsAreSafe` | `CompilesTidily`, `EvaluatorKeeps`, `Unhindered` |
| | `RunsEndClean` | the same, `MainChecks` |
| | `PlaceholdersStayScoped` | `CompilesTidily`, `CompilesOwnNames`, `EvaluatorKeeps`, `EvaluatorRestores` |

### The scheduler

`AgentsProofs` (any number of turtles, any program bounds). Assumptions: `MaxTurtles` is
positive, the bounds are naturals, TELL's arguments are turtle indices (the code rejects
others), and `Main`, `NoProc` and the procedures differ. No property is inductive alone.
`IInv` adds:

- `SavedInv`: what is saved for an agent is its own (a throw of its own or none, depth 0,
  because a turn ends only outside nested calls), and `run_depth` is the number of RUNs in
  `nest`: needed for `ThrowIsolation` and `RunDepthIsOwn` across a switch.
- `LoopInv`: in a turn the agent at `cursor` is READY and `any_ready` holds; before `Start`
  there is one agent.
- `PassInv`: in a pass that has given nobody a turn, the agents already passed are not READY
  and no waiting agent could be released. This is the heart of `NoLoneWaiter`: the pass that
  ends the scheduler ran no agent, so its joins release nobody either, and each abandoned
  agent waits for another one.

`SchedulerInvariant` proves `IInv`; the safety theorems follow. `SchedulerImplementsForkJoin`
proves the refinement, step by step: `Launched` is `Fork` or a stutter (no turtle left),
`EndPass` is `Join` of the at most one agent that can be released or a stutter,
`Halted`/`Unsupported` are `Finish`, `Awaits` is `Await`.

`RoundRobinProofs` is about `MCAgents`, whose `served` remembers who has had a turn since an
agent's own last one. `ServedInv` says what the place of the pass (`Gone`) allows: an agent the
pass is past may have been followed only by those between it and the pass; one still to come,
by those after it in the last pass and those before the pass now. An agent that takes its turn
is in neither set of a READY agent, which is the property.

### The run driver

`RunDriverProofs` (any bounds, handlers, procedures and vocabularies, those included for which
other properties fail). `Inv` is `TypeOK`, `ChunkOwnership` and `FreeOwnsNothing` (a freed run
owns nothing): a run that ends frees its chunk unless a slot adopts it, a slot frees what no
other slot holds, and neither can meet a chunk of the other kind.

`SessionProofs`. `SessionInv` adds to the properties what makes them inductive together:

- `StackShape`: below an executing run there is nothing, or `on_entry_key_pressed`; so at most
  one executes.
- `SlotOrStack`: none does while a run is in `g_suspended_run`. This is what the busy tests of
  `run_logo_script` and `fire_handler` establish and each case of `handle_vm_result` has to keep.
- `OnePlace`: `run[r].why` says where a run is (executing, in the slot, paused) and it is
  there once.
- `PauseLevels`: `pause_depth` is below the innermost level only by one, while a run that
  performed CONTINUE returns; a PAUSE in that window would push a level that is not higher.

`SessionVocabulary`: no program reads the mouse (MOUSEX dispatches events inside a run, so that
two execute), and CONTINUE is the last operation of its program: otherwise what it resumes takes
the slot from a WAIT that follows, which is the run `continue_then_wait`.

Its second part is about PAUSE. `ExactLevels`: the levels are 1, 2, ... and `pause_depth` is the last, or one
less while CONTINUE's run returns. `DepthVocabulary` adds: no LAUNCH (an agent's PAUSE raises
`pause_depth` before the scheduler refuses it), and `MaxDepth <= MaxPaused` (a PAUSE that finds
`g_paused_runs` full raises it too, and the level is lost).

`HandlerProofs`. `HandlersTakeTheirArguments` holds for every vocabulary as long as a procedure
keeps its number of inputs when it is redefined (`SteadyShapes`; a slot whose script is adopted
later fires the new definition). Its invariant `RegisteredArity` speaks of all definitions of a
registered name.

For `HandlersStayRetained`, `HandlerInv` says that the slot of each event `Retains` a chunk that
defines its procedure, or a live script `WillAdopt` one. `HandlerVocabulary` is the sessions'
with the disagreements excluded that break this: no ON in a handler (`ui.c:1092`: the event would
have no chunk, or take over a borrowed one), and no PAUSE, LAUNCH or AWAIT in scripts (between ON
and the end of its script an event has no chunk yet). Handlers may PAUSE and clear events: what
is retained concerns the event, whatever becomes of the run that borrows it.

`ChunksGoOnlyWhenLetGo` is about that run, for every vocabulary. The code does free chunks of
runs that live (Disagreements); `ChunksLetGo` says which: a handler's, when every slot that
retains it belongs to an event that is off, or that the script that just ended redefines
(`LetsGo`). So a run that owns its chunk never loses it, and neither does a handler whose chunk is
shared with an event that stays. It is inductive with two parts: `Placed`, each live run is in
one place that its `why` names (weaker than `SessionInv`, since with MOUSEX and CONTINUE anywhere
more than one may execute), so that a step ends at most the run that returns; and `Borrowed`, a
live run that does not own its chunk shares it with a slot as long as the chunk is there.
`RunsKept` says that no step gives a live run another chunk, and `ReleaseKeeps` is the lemma about
`release_retained_chunk` that every case of `handle_vm_result` comes down to.

### The list pool

`ListsProofs`: any size of the pool, any variables, any sizes of arrays. `LiteralsTyped` only
gives types to constants: the words, and literals nested in literals. Acyclicity alone is not
inductive: linking a cell in place closes a cycle unless the cell cannot be reached from what it
is linked to. `HeapInv` says why it cannot, with a *home* for each cell:

- 0: shared for good; it may be reached from any value and only leads to shared cells;
- k: on the chain frame k is building; it leads to shared cells and within the chain;
- -s: a cell of the array that starts at s; it leads to shared cells, and only that array's
  holders reach it.

The homes are not in the model: `HeapInv` says that there are some, and each step moves the
cells it finishes (`Folded`): a chain that is closed becomes part of the one around it, or
shared. `AcyclicKept` is the one lemma about cycles: a step that leaves a closed set of cells as
it is and redirects others only into it or to new cells makes none.

`ListValuesProofs`: the tree a value stands for is defined by recursion over cells, so its first
half shows that on a pool without cycles the recursion has a solution (`SolutionExists`,
`TreesSolve`) and that two pools that agree on a closed set of cells have the same trees there
(`SolutionsAgree`): both argue from `Acyclic`'s own form, a cell of any set of wrong ones that
leads out of it, and so need no induction. The second half shows that what each step writes has a home
other than 0 (`LinkKept`, `FillKept`, `StoreStep`), and so no value of another variable
contains it; for SETITEM and FILLARRAY, only the holders of that array do.

### The virtual machine

`VmProofs` (any limits, scripts, files and builtins). Three things are asked, of three other
parts of the program:

- of the compiler, `CompilesTidily`: each time it is asked (for the script, and for each snippet
  when the machine compiles it) the answer is an assembled chunk, *well kept*, whose calls land.
  `WellKept` (in `Bytecode`) says that there is one stack height for every instruction, from
  wherever it is reached: entry points at 0, the ends of templates at 0 or 1, top-level checks
  at 0. A program that exceeds `MAX_INSTRUCTIONS`, `MAX_PENDING_PATCHES` or
  `MAX_BLOCK_STATEMENTS` is not (`bytecode.c:54`, `compiler.c:95`, `1111`).
  `HeightsAgree` and `JumpsLand` check the same of the compiler in `front`. `CodeStaysTidy`
  carries it to every chunk at every moment: ERASE takes a name away, and the calls that are
  compiled in still land. The other theorems ask for no more than that (`Assembled`,
  `WellCoded`), so they also cover code from another source.
- of the evaluator, `EvaluatorKeeps`: a template that `eval.c` runs leaves `run_depth` as it was.
- of the run, `Unhindered`: the value stack never fills (a push on a full stack is dropped,
  `vm.c`), no OUTPUT or STOP leaves its procedure from inside a snippet or a template (the code
  says that it does not support it, and goes on in the wrong chunk), and no LAUNCH is refused
  (run `launch_stray`). Refused calls, recursion past the limits, THROW through anything,
  unparsable and too deeply nested RUNs, suspensions and ERASE are all covered.

Every action is first shown to be of one of eight kinds (`NextKinds`): in place (the next
address is a successor, what the instruction takes is replaced by what it puts), `Entered`,
`Returned`, `Stopped`, `Began`, `Again`, `Ended`, or the end of the run. `Shaped` (types, the
activations' chunks, `run_depth` as a count) is inductive over these kinds alone, for any code:
`MachineTyped` and `RunDepthIsCounted`.

The stack properties are about heights that no variable holds. `Grounded(g, P)` names them:
`g[d]` is the height at which activation d began and `P[i]` the places (address, height, kind of
code) of chunk i. Then each frame's return address with the height it will find there, each
waiting activation's instruction with the height it waits at, and the running instruction with
`vm.top`, are places of their code, counted from the base below them. `Tracked` says that there
are such `g` and `P`: a call appends a frame, a return finds the place its call left, and an
activation that ends leaves what its kind of code leaves, on its own ground. `CallsAreNested`,
`StatementsBalance` and `CallerStackUntouched` are what this says of bases, of a top-level check
(height 0 on ground 0), and of a step above a base. With the places computed as those that are
reachable, TLC finds `Grounded`, `Assembled` and `EvaluatorKeeps` true in all of the 30678 (of
30703) states of `vm` that are `Ordinary`; the other 25 follow an OUTPUT or a STOP that escapes
a RUN.

`RunsEndClean` (`EndsClean`) asks one more thing of the code of the main program. A THROW travels
as a flag, and what a procedure, a snippet or a template leaves of it is arbitrary: the flag may
be up after anything that runs other code (`MayThrow`; `ThrowsOnlyThere` shows that every other
instruction leaves it, catches or reports it). `Checked(code, R, Q)` says that Q are places of R
that can only be reached past a check, and that the program ends in Q; `MainChecks` says that
the script's code has such R and Q. `Quiet` then follows the main program alone, through the C
stack (`Ceil` of the first activation) and the frames: its first call was made from a place of
R, it goes on in R, and where it rests in Q the flag is down. The hypothesis is the compiler's
check after each top-level statement, and is what an `OUTPUT t` outside any procedure lacks
(Disagreements): without it the property is false. The codes of all the scripts of `vm` have it.

`PlaceholdersStayScoped` (`PlaceholdersScoped`) is about the variables a template's `?` becomes.
`Scoped` is inductive without any of the heights: no global's name occurs twice, no scope holds a
placeholder, an activation binds as many variables as its instruction has (`Slots`: REDUCE two),
a value it saved of a placeholder is that of one which an activation below still holds
(`Borrows`), and every placeholder among the globals is held by some activation (`HeldBy`). So
`restore_var`, when the loop ends or is left, leaves no name that nobody below holds,
also when the template enters itself through a procedure or a RUN, throws, or is abandoned by
STOP. The hypotheses say what the model's types leave open: `CompilesOwnNames`, that no variable,
local or input of the script has the spelling of the compiler's placeholders (a script that does
`MAKE` one itself owns it, and the property is not about it), and `EvaluatorRestores`, that the
templates which eval.c runs leave no placeholder of their own (eval.c is reached through a
constant of the model). TLC finds `Scoped`, `CompilesOwnNames` and `EvaluatorRestores` true in
all 30703 states of `vm`. Neither the stack's limit nor `Unhindered` is needed: this holds
of every run, refused calls and escaping OUTPUTs included.

### What stays with the model checker

- Liveness: `SchedulerReturns`, `AwaitResolves`, `CallbacksReturn`, `WaitEnds`,
  `ContinueResumes`, `ScriptEnds`. TLAPS has neither ENABLED nor the fairness rules.
- `ResultsAgree`: what an operation means is defined by recursion over a list (`MCLists`); a
  proof is an induction over data.
- `AgreesWithEval`, and the properties of `Toolchain`: lexer, parser, compiler, evaluator and
  assembler are written with RECURSIVE operators over trees and texts, as the C functions are
  recursive, and in modules that reach them the prover has no SMT. That `CompilesTidily` holds
  of the compiler is therefore checked, not proved.
- The four disagreements: they are counterexamples.

## Not modelled, and abstractions

- `RunDriver` has no throw flag (it is in `Agents` and `Headless`), no ERASE and no LOAD; a
  submission that does not lex, parse or assemble changes nothing and is not a step. A frame of
  ANIMATESPRITE and a motion delay are each one operation. `pause_depth` is capped by `MaxDepth`.
- `Agents` starts at RUN depth 0: a LAUNCH from a script started inside another's mouse drain
  is not included. An OUTPUT or STOP that escapes a RUN's snippet is not either.
- Programs: names are case-sensitive, numbers are integers and divisions exact, EXECTIME's value is 0. Builtins whose effect is a drawing have their inputs taken and
  nothing else. `Eval` has no WAIT, EXECTIME, RANGE, REPCOUNT, DEFINED?, CONTINUE, BACKTRACE,
  READWORD, READCHAR, LAUNCH or SETSPEED: scripts with these are compared with an equivalent text
  (`like`).
- Texts: CR LF is not normalised, words hold no newline, listings leave out the procedures'
  source texts, the counts of the first comment and the padding of addresses.
- `Lists` has no numbers (atoms like words) and not the word results of FPUT and LPUT onto words.
- History, prompts, wording of messages that no program prints, and redrawing are left out.
- Turtle motion and raster operations: doubles, `sin`, `cos` and `fmod`, and pixels. File
  channels: whole-file snapshots, taken at OPEN and written at CLOSE by one thread. Command
  history: two functions over one array. The old interpreter: not run by the program. Editor,
  menus, highlighting, joystick, sound, command lines: presentation and I/O.

## Plan

Models, runs and theorems are as listed above. What could follow:

1. `Assembler`: what `JumpsLand` says of the labels' resolution alone, for one listing, as a
   theorem, in a module that reaches no RECURSIVE operator.
2. `Lists`: what the operators that copy (BUTLAST, LPUT, SENTENCE) return, as an invariant of
   the chain under construction.
3. A throw flag in `RunDriver`, for the runs that end without a check (`agent.c:115`,
   `ui.c:1360`).
