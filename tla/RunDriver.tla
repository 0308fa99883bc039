----------------------------- MODULE RunDriver -----------------------------
(***************************************************************************)
(* src/ui.c, "Bytecode VM execution": how GTK callbacks start, suspend and *)
(* resume runs of the VM.  A run is a SuspendedRun (its Vm, and the chunk  *)
(* it executes); g_suspended_run holds the one that waits for a timer, a   *)
(* key or a line, g_paused_runs those that PAUSEd, and the *_owner slots   *)
(* keep alive the chunks that registered event handlers name procedures of.*)
(*                                                                         *)
(* The C stack is a sequence of frames: GTK dispatches a callback when it  *)
(* is empty, and also under MOUSEX/MOUSEY/MOUSEPOS/BUTTON?, which drain    *)
(* the main context's pending events inside vm_run.                        *)
(*                                                                         *)
(* A program is any sequence of at most MaxOps of the VM operations these  *)
(* callbacks can tell apart, from a vocabulary the constants give.  A      *)
(* chunk is the procedures it defines, and how many inputs each takes.     *)
(***************************************************************************)
EXTENDS Integers, Sequences, FiniteSets

CONSTANTS
  MaxRuns,      \* bound: SuspendedRuns alive at once
  MaxChunks,    \* bound: chunks alive or still pointed to
  MaxTimers,    \* bound: GLib timers pending at once
  MaxPaused,    \* MAX_PAUSED_RUNS
  MaxDepth,     \* bound: pause_depth
  MaxOps,       \* bound: operations one run performs
  Handlers,     \* the event handler slots in use, among DOMAIN Arity
  Names,        \* procedure names
  NoName,       \* an empty handler field
  Freed,        \* what is at a freed chunk's address
  Shapes,       \* what a script can define: functions from Names to inputs, or NotDefined
  ScriptOps,    \* the operations of scripts
  HandlerOps,   \* the operations of handler procedures
  FinalOps      \* those a program performs only as its last

RunIds == 1 .. MaxRuns
ChunkIds == 1 .. MaxChunks
TimerIds == 1 .. MaxTimers
NoRun == 0
NoChunk == 0
NoTimer == 0
NotDefined == -1

\* How many inputs each event's handler takes: the key; x and y; x, y and button.
Arity == [key |-> 1, click |-> 3, mousemove |-> 2, keyup |-> 1, release |-> 3]

AllOps == {"WAIT", "ANIMATE", "WAITKEY", "INPUT", "PAUSE", "CONTINUE", "LAUNCH", "AWAIT",
           "ON", "OFF", "MOUSEX"}

ASSUME BoundsAssumption ==
  /\ MaxRuns \in Nat /\ MaxChunks \in Nat /\ MaxTimers \in Nat
  /\ MaxPaused \in Nat /\ MaxDepth \in Nat /\ MaxOps \in Nat
ASSUME HandlersAssumption == Handlers \subseteq DOMAIN Arity
ASSUME NamesAssumption == NoName \notin Names
ASSUME ShapesAssumption ==
  Shapes \subseteq [Names -> Int] /\ Freed \notin Shapes
ASSUME OpsAssumption ==
  ScriptOps \subseteq AllOps /\ HandlerOps \subseteq AllOps /\ FinalOps \subseteq AllOps

VARIABLES
  stack,              \* the C stack's frames, innermost last
  slot,               \* g_suspended_run
  timers,             \* the callback of each pending GLib timer
  timeout_id,         \* g_suspend_timeout_id
  waiting_for_key,
  waiting_for_input,
  paused,             \* g_paused_runs, up to g_paused_run_count
  pause_depth,
  handler,            \* onkey_handler, onclick_handler, ...
  owner,              \* g_onkey_owner, g_onclick_owner, ...: their chunk
  chunk,              \* each chunk's procedures, or Freed
  run,                \* each SuspendedRun
  window              \* "open" or "destroyed"

waitVars == <<slot, timers, timeout_id, waiting_for_key, waiting_for_input>>
pauseVars == <<paused, pause_depth>>
chunkVars == <<owner, chunk>>
vars == <<stack, slot, timers, timeout_id, waiting_for_key, waiting_for_input, paused,
          pause_depth, handler, owner, chunk, run, window>>

FreeRun == [chunk |-> NoChunk, owns |-> FALSE, left |-> 0, why |-> "FREE"]
Whys == {"VM", "WAIT", "ANIMATE", "WAITKEY", "INPUT", "PAUSE"}
Live(r) == run[r].why # "FREE"

Frame(kind, r) == [kind |-> kind, run |-> r]
FrameKinds == {"vm", "agents", "mousex", "key"}
Top == stack[Len(stack)]
Below == SubSeq(stack, 1, Len(stack) - 1)
Running(kind, r) == stack # <<>> /\ Top = Frame(kind, r)

Init ==
  /\ stack = <<>>
  /\ slot = NoRun
  /\ timers = [t \in TimerIds |-> "none"] /\ timeout_id = NoTimer
  /\ waiting_for_key = FALSE /\ waiting_for_input = FALSE
  /\ paused = <<>> /\ pause_depth = 0
  /\ handler = [h \in Handlers |-> NoName]
  /\ owner = [h \in Handlers |-> NoChunk]
  /\ chunk = [c \in ChunkIds |-> Freed]
  /\ run = [r \in RunIds |-> FreeRun]
  /\ window = "open"

-----------------------------------------------------------------------------
(* The chunks.                                                             *)

Owners(o) == {o[h] : h \in Handlers} \ {NoChunk}

\* Each slot frees what it lets go of, whether or not another still holds it.
Release_NotShared(owners, own) ==
  /\ owner' = owners
  /\ chunk' = [c \in ChunkIds |->
                 IF c \in {owner[h] : h \in {i \in Handlers : owners[i] # owner[i]}} \cup own
                 THEN Freed ELSE chunk[c]]

\* The owner slots become `owners`: release_retained_chunk frees what no slot
\* holds any more.  A run that ends frees `own` besides.
Release(owners, own) ==
  /\ owner' = owners
  /\ chunk' = [c \in ChunkIds |->
                 IF c \in (Owners(owner) \ Owners(owners)) \cup own THEN Freed ELSE chunk[c]]

\* handle_vm_result first lets go of the chunks of cleared handlers.
Uncleared == [h \in Handlers |-> IF handler[h] = NoName THEN NoChunk ELSE owner[h]]

\* A handler's run frees the chunk it only borrows.
OwnChunk_Always(r) == {run[r].chunk}

\* What free_suspended_run frees besides the Vm.
OwnChunk(r) == IF run[r].owns THEN {run[r].chunk} ELSE {}

\* bytecode_find_proc_entry finds n; in freed memory it may find anything.
Defines(c, n) == n # NoName /\ (chunk[c] # Freed => chunk[c][n] # NotDefined)

\* malloc's choice of a chunk: none that something still points to.
FreshChunk(c) ==
  /\ chunk[c] = Freed
  /\ \A h \in Handlers : owner[h] # c
  /\ \A r \in RunIds : run[r].chunk # c

-----------------------------------------------------------------------------
(* The end of every callback: what handle_vm_result does with a run that   *)
(* returned from the VM, and then maybe_resume_paused_runs.                *)

\* Nothing looks at the paused runs.
Returns_NoResume(r, rec, ps) ==
  paused' = ps /\ stack' = Below /\ run' = [run EXCEPT ![r] = rec]

\* The resumed run stays on g_paused_runs.
Returns_NotPopped(r, rec, ps) ==
  /\ paused' = ps
  /\ IF ps # <<>> /\ ps[Len(ps)].level > pause_depth'
     THEN LET p == ps[Len(ps)].run IN
          /\ stack' = Append(Below, Frame("vm", p))
          /\ run' = [run EXCEPT ![r] = rec, ![p] = [@ EXCEPT !.why = "VM"]]
     ELSE stack' = Below /\ run' = [run EXCEPT ![r] = rec]

\* The run becomes `rec`; the innermost of the paused runs `ps` goes on in its
\* place if pause_depth has dropped below its level.
Returns(r, rec, ps) ==
  IF ps # <<>> /\ ps[Len(ps)].level > pause_depth'
  THEN LET p == ps[Len(ps)].run IN
       /\ paused' = SubSeq(ps, 1, Len(ps) - 1)
       /\ stack' = Append(Below, Frame("vm", p))
       /\ run' = [run EXCEPT ![r] = rec, ![p] = [@ EXCEPT !.why = "VM"]]
  ELSE /\ paused' = ps
       /\ stack' = Below
       /\ run' = [run EXCEPT ![r] = rec]

\* One more operation of run r.
Performs(r, op) ==
  /\ run[r].left > 0
  /\ op \in IF run[r].owns THEN ScriptOps ELSE HandlerOps

Spent(r, op) == [run[r] EXCEPT !.left = IF op \in FinalOps THEN 0 ELSE @ - 1]
Suspends(r, op) == [Spent(r, op) EXCEPT !.why = op]

\* No timer is armed.
SuspendOnTimer_NoTimer(r, op) ==
  /\ Running("vm", r) /\ Performs(r, op)
  /\ slot' = r
  /\ pause_depth' = pause_depth
  /\ Release(Uncleared, {})
  /\ Returns(r, Suspends(r, op), paused)
  /\ UNCHANGED <<timers, timeout_id, waiting_for_key, waiting_for_input, handler, window>>

\* WAIT and SETSPEED's throttle, or ANIMATESPRITE: a timer and the slot.
SuspendOnTimer(r, op) ==
  /\ Running("vm", r) /\ Performs(r, op)
  /\ \E t \in TimerIds :
       /\ timers[t] = "none" /\ \A u \in TimerIds : u < t => timers[u] # "none"
       /\ timers' = [timers EXCEPT ![t] = op]
       /\ timeout_id' = t
  /\ slot' = r
  /\ pause_depth' = pause_depth
  /\ Release(Uncleared, {})
  /\ Returns(r, Suspends(r, op), paused)
  /\ UNCHANGED <<waiting_for_key, waiting_for_input, handler, window>>

SuspendOnKey(r) ==
  /\ Running("vm", r) /\ Performs(r, "WAITKEY")
  /\ slot' = r /\ waiting_for_key' = TRUE
  /\ pause_depth' = pause_depth
  /\ Release(Uncleared, {})
  /\ Returns(r, Suspends(r, "WAITKEY"), paused)
  /\ UNCHANGED <<timers, timeout_id, waiting_for_input, handler, window>>

SuspendOnInput(r) ==
  /\ Running("vm", r) /\ Performs(r, "INPUT")
  /\ slot' = r /\ waiting_for_input' = TRUE
  /\ pause_depth' = pause_depth
  /\ Release(Uncleared, {})
  /\ Returns(r, Suspends(r, "INPUT"), paused)
  /\ UNCHANGED <<timers, timeout_id, waiting_for_key, handler, window>>

\* PAUSE: pushed with the level it raised pause_depth to, or dropped.
Pause(r) ==
  /\ Running("vm", r) /\ Performs(r, "PAUSE") /\ pause_depth < MaxDepth
  /\ pause_depth' = pause_depth + 1
  /\ IF Len(paused) < MaxPaused
     THEN /\ Release(Uncleared, {})
          /\ Returns(r, Suspends(r, "PAUSE"),
                     Append(paused, [run |-> r, level |-> pause_depth']))
     ELSE /\ Release(Uncleared, OwnChunk(r))
          /\ Returns(r, FreeRun, paused)
  /\ UNCHANGED <<waitVars, handler, window>>

\* The slots whose handler is a procedure of a halted script's chunk adopt it.
Adopts(r, h) == run[r].owns /\ Defines(run[r].chunk, handler[h])

\* The script's chunk is freed although a slot adopted it.
Halt_FreesAdopted(r) ==
  /\ Running("vm", r)
  /\ pause_depth' = pause_depth
  /\ Release([h \in Handlers |-> IF Adopts(r, h) THEN run[r].chunk ELSE Uncleared[h]],
             OwnChunk(r))
  /\ Returns(r, FreeRun, paused)
  /\ UNCHANGED <<waitVars, handler, window>>

Halt(r) ==
  /\ Running("vm", r)
  /\ pause_depth' = pause_depth
  /\ Release([h \in Handlers |-> IF Adopts(r, h) THEN run[r].chunk ELSE Uncleared[h]],
             IF \E h \in Handlers : Adopts(r, h) THEN {} ELSE OwnChunk(r))
  /\ Returns(r, FreeRun, paused)
  /\ UNCHANGED <<waitVars, handler, window>>

\* AWAIT and YIELD outside the scheduler: an error, and the end of the run.
AwaitOutside(r) ==
  /\ Running("vm", r) /\ Performs(r, "AWAIT")
  /\ pause_depth' = pause_depth
  /\ Release(Uncleared, OwnChunk(r))
  /\ Returns(r, FreeRun, paused)
  /\ UNCHANGED <<waitVars, handler, window>>

\* LAUNCH: scheduler_run runs every agent to its end, inside this callback.
Launch(r) ==
  /\ Running("vm", r) /\ Performs(r, "LAUNCH")
  /\ Release(Uncleared, {})
  /\ stack' = Append(Below, Frame("agents", r))
  /\ run' = [run EXCEPT ![r] = Spent(r, "LAUNCH")]
  /\ UNCHANGED <<waitVars, pauseVars, handler, window>>

AgentsDone(r) ==
  /\ Running("agents", r)
  /\ pause_depth' = pause_depth
  /\ Release(owner, OwnChunk(r))
  /\ Returns(r, FreeRun, paused)
  /\ UNCHANGED <<waitVars, handler, window>>

-----------------------------------------------------------------------------
(* What a running program, or an agent of it, does without returning.      *)

Executes(r, op) ==
  /\ Running("vm", r) \/ Running("agents", r)
  /\ Performs(r, op)
  /\ run' = [run EXCEPT ![r] = Spent(r, op)]

\* Registration does not look at the number of inputs.
On_AnyArity(r, h, n) ==
  /\ Executes(r, "ON")
  /\ chunk[run[r].chunk] # Freed
  /\ chunk[run[r].chunk][n] # NotDefined
  /\ handler' = [handler EXCEPT ![h] = n]
  /\ UNCHANGED <<stack, waitVars, pauseVars, chunkVars, window>>

\* exec_onkey and its like: the procedure must be one of the run's own chunk.
On(r, h, n) ==
  /\ Executes(r, "ON")
  /\ chunk[run[r].chunk] # Freed
  /\ chunk[run[r].chunk][n] = Arity[h]
  /\ handler' = [handler EXCEPT ![h] = n]
  /\ UNCHANGED <<stack, waitVars, pauseVars, chunkVars, window>>

Off(r, h) ==
  /\ Executes(r, "OFF")
  /\ handler' = [handler EXCEPT ![h] = NoName]
  /\ UNCHANGED <<stack, waitVars, pauseVars, chunkVars, window>>

\* CONTINUE when nothing is paused.
exec_continue_BelowZero(r) ==
  /\ Executes(r, "CONTINUE")
  /\ pause_depth' = pause_depth - 1
  /\ UNCHANGED <<stack, waitVars, paused, handler, chunkVars, window>>

\* CONTINUE ends every PAUSE.
exec_continue_All(r) ==
  /\ Executes(r, "CONTINUE")
  /\ pause_depth' = 0
  /\ UNCHANGED <<stack, waitVars, paused, handler, chunkVars, window>>

exec_continue(r) ==
  /\ Executes(r, "CONTINUE")
  /\ pause_depth' = IF pause_depth > 0 THEN pause_depth - 1 ELSE 0
  /\ UNCHANGED <<stack, waitVars, paused, handler, chunkVars, window>>

\* An agent's PAUSE raises pause_depth before the scheduler turns it down.
AgentPause(r) ==
  /\ Running("agents", r) /\ Executes(r, "PAUSE") /\ pause_depth < MaxDepth
  /\ pause_depth' = pause_depth + 1
  /\ UNCHANGED <<stack, waitVars, paused, handler, chunkVars, window>>

\* MOUSEX and its like: refresh_before_read drains the pending events.
Drain(r) ==
  /\ Executes(r, "MOUSEX")
  /\ stack' = Append(stack, Frame("mousex", NoRun))
  /\ UNCHANGED <<waitVars, pauseVars, handler, chunkVars, window>>

Drained ==
  /\ Running("mousex", NoRun)
  /\ stack' = Below
  /\ UNCHANGED <<waitVars, pauseVars, handler, chunkVars, run, window>>

-----------------------------------------------------------------------------
(* The GTK callbacks.                                                      *)

Dispatching == stack = <<>> \/ Running("mousex", NoRun)
CanDispatch == Dispatching /\ window = "open"

\* A new run r on chunk c starts on top of the frames s.
Starts(r, c, owns, s) ==
  /\ run[r] = FreeRun /\ \A q \in RunIds : q < r => run[q] # FreeRun
  /\ run' = [run EXCEPT ![r] = [chunk |-> c, owns |-> owns, left |-> MaxOps, why |-> "VM"]]
  /\ stack' = Append(s, Frame("vm", r))

\* A script starts while another waits in the slot.
run_logo_script_NeverRefused(shape, s) ==
  /\ \E c \in ChunkIds, r \in RunIds :
       /\ FreshChunk(c) /\ \A d \in ChunkIds : d < c => ~FreshChunk(d)
       /\ chunk' = [chunk EXCEPT ![c] = shape]
       /\ Starts(r, c, TRUE, s)
  /\ UNCHANGED <<waitVars, pauseVars, handler, owner, window>>

\* run_logo_script and run_bytecode_script, refused while the slot is taken.
run_logo_script(shape, s) ==
  /\ slot = NoRun
  /\ \E c \in ChunkIds, r \in RunIds :
       /\ FreshChunk(c) /\ \A d \in ChunkIds : d < c => ~FreshChunk(d)
       /\ chunk' = [chunk EXCEPT ![c] = shape]
       /\ Starts(r, c, TRUE, s)
  /\ UNCHANGED <<waitVars, pauseVars, handler, owner, window>>

\* A file, the editor's Run, or Return in the entry when no handler fires.
Submit(shape) ==
  /\ CanDispatch
  /\ run_logo_script(shape, stack)

\* Events fire while a run is suspended.
Fires_WhileSuspended(h) ==
  owner[h] # NoChunk /\ Defines(owner[h], handler[h])

\* Does the event h start its handler?  Without an owner fire_handler would
\* follow a null pointer: HandlersRetained is about that.
Fires(h) ==
  /\ slot = NoRun
  /\ owner[h] # NoChunk
  /\ Defines(owner[h], handler[h])

fire_handler(h, s) ==
  /\ Fires(h)
  /\ \E r \in RunIds : Starts(r, owner[h], FALSE, s)
  /\ UNCHANGED <<waitVars, pauseVars, handler, chunkVars, window>>

Event(h) ==
  /\ CanDispatch
  /\ h # "key"
  /\ fire_handler(h, stack)

\* ONKEY's handler fires in the middle of on_entry_key_pressed ...
KeyPress ==
  /\ CanDispatch
  /\ ~waiting_for_key /\ ~waiting_for_input
  /\ "key" \in Handlers
  /\ fire_handler("key", Append(stack, Frame("key", NoRun)))

\* ... which goes on, when it was Return, to submit the entry's text.
KeyReturn(shape) ==
  /\ Running("key", NoRun)
  /\ run_logo_script(shape, Below)

KeyDone ==
  /\ Running("key", NoRun)
  /\ stack' = Below
  /\ UNCHANGED <<waitVars, pauseVars, handler, chunkVars, run, window>>

\* The run in the slot goes on.
ResumeSlot ==
  /\ slot # NoRun
  /\ slot' = NoRun
  /\ run' = [run EXCEPT ![slot].why = "VM"]
  /\ stack' = Append(stack, Frame("vm", slot))
  /\ UNCHANGED <<pauseVars, handler, chunkVars, window>>

\* Every later key is still taken for the one WAITKEY waits for.
WaitKeyPress_StillWaiting ==
  /\ CanDispatch /\ waiting_for_key
  /\ ResumeSlot
  /\ UNCHANGED <<timers, timeout_id, waiting_for_key, waiting_for_input>>

WaitKeyPress ==
  /\ CanDispatch /\ waiting_for_key
  /\ waiting_for_key' = FALSE
  /\ ResumeSlot
  /\ UNCHANGED <<timers, timeout_id, waiting_for_input>>

InputReturn ==
  /\ CanDispatch /\ ~waiting_for_key /\ waiting_for_input
  /\ waiting_for_input' = FALSE
  /\ ResumeSlot
  /\ UNCHANGED <<timers, timeout_id, waiting_for_key>>

\* on_wait_timeout and on_animatesprite_timeout.
Timeout(t) ==
  /\ Dispatching /\ timers[t] # "none"
  /\ timers' = [timers EXCEPT ![t] = "none"]
  /\ timeout_id' = NoTimer
  /\ ResumeSlot
  /\ UNCHANGED <<waiting_for_key, waiting_for_input>>

\* The timer of the run that is freed stays armed.
on_window_destroy_TimerStays ==
  /\ CanDispatch
  /\ window' = "destroyed"
  /\ slot' = NoRun
  /\ IF slot = NoRun
     THEN UNCHANGED <<chunk, run>>
     ELSE /\ chunk' = [c \in ChunkIds |-> IF c \in OwnChunk(slot) THEN Freed ELSE chunk[c]]
          /\ run' = [run EXCEPT ![slot] = FreeRun]
  /\ UNCHANGED <<stack, timers, timeout_id, waiting_for_key, waiting_for_input, pauseVars,
                 handler, owner>>

on_window_destroy ==
  /\ CanDispatch
  /\ window' = "destroyed"
  /\ timers' = [t \in TimerIds |-> IF t = timeout_id THEN "none" ELSE timers[t]]
  /\ timeout_id' = NoTimer
  /\ slot' = NoRun
  /\ IF slot = NoRun
     THEN UNCHANGED <<chunk, run>>
     ELSE /\ chunk' = [c \in ChunkIds |-> IF c \in OwnChunk(slot) THEN Freed ELSE chunk[c]]
          /\ run' = [run EXCEPT ![slot] = FreeRun]
  /\ UNCHANGED <<stack, waiting_for_key, waiting_for_input, pauseVars, handler, owner>>

-----------------------------------------------------------------------------
VmStep ==
  \E r \in RunIds :
    \/ \E op \in {"WAIT", "ANIMATE"} : SuspendOnTimer(r, op)
    \/ SuspendOnKey(r) \/ SuspendOnInput(r)
    \/ Pause(r) \/ Halt(r) \/ AwaitOutside(r) \/ Launch(r) \/ AgentsDone(r)
    \/ \E h \in Handlers, n \in Names : On(r, h, n)
    \/ \E h \in Handlers : Off(r, h)
    \/ exec_continue(r) \/ AgentPause(r) \/ Drain(r)

UserStep ==
  \/ \E shape \in Shapes : Submit(shape)
  \/ \E h \in Handlers : Event(h)
  \/ KeyPress \/ WaitKeyPress \/ InputReturn
  \/ on_window_destroy

KeyStep == KeyDone \/ \E shape \in Shapes : KeyReturn(shape)

TimerStep == \E t \in TimerIds : Timeout(t)

Next == VmStep \/ Drained \/ KeyStep \/ UserStep \/ TimerStep

Spec == Init /\ [][Next]_vars

(* The user is under no obligation; timers fire, and callbacks return.     *)
FairSpec == Spec /\ WF_vars(VmStep) /\ WF_vars(Drained) /\ WF_vars(KeyStep) /\ WF_vars(TimerStep)

-----------------------------------------------------------------------------
(* Properties.                                                             *)

\* Every variable has its type.
TypeOK ==
  /\ stack \in Seq([kind : FrameKinds, run : RunIds \cup {NoRun}])
  /\ slot \in RunIds \cup {NoRun}
  /\ timers \in [TimerIds -> {"none", "WAIT", "ANIMATE"}]
  /\ timeout_id \in TimerIds \cup {NoTimer}
  /\ waiting_for_key \in BOOLEAN /\ waiting_for_input \in BOOLEAN
  /\ paused \in Seq([run : RunIds, level : 0 .. MaxDepth])
  /\ pause_depth \in 0 .. MaxDepth
  /\ handler \in [Handlers -> Names \cup {NoName}]
  /\ owner \in [Handlers -> ChunkIds \cup {NoChunk}]
  /\ chunk \in [ChunkIds -> Shapes \cup {Freed}]
  /\ run \in [RunIds -> [chunk : ChunkIds \cup {NoChunk}, owns : BOOLEAN,
                         left : 0 .. MaxOps, why : Whys \cup {"FREE"}]]
  /\ window \in {"open", "destroyed"}

OwnedRuns == {r \in RunIds : Live(r) /\ run[r].owns}

\* A chunk's one owner is either its script's run or the handler slots that
\* adopted it, whatever the program does: no chunk is leaked, and none is
\* freed twice (release_retained_chunk, free_suspended_run, and the HALTED
\* and LAUNCH cases of handle_vm_result each free chunks).
ChunkOwnership ==
  /\ {c \in ChunkIds : chunk[c] # Freed}
       = Owners(owner) \cup {run[r].chunk : r \in OwnedRuns}
  /\ \A r \in OwnedRuns : run[r].chunk \notin Owners(owner)
  /\ \A r, q \in OwnedRuns : r # q => run[r].chunk # run[q].chunk

\* No run executes, or will resume, on a chunk that has been freed (the comments
\* at ui.c:931-934 and 1088-1089).  The code does not keep it: off_then_wait.
NoFreedChunkRuns ==
  \A r \in RunIds : Live(r) => chunk[run[r].chunk] # Freed

\* The event h lets go of its chunk: it is off, or goes to a script that ends.
LetsGo(h) ==
  handler[h] = NoName \/ \E q \in RunIds : Running("vm", q) /\ ~Live(q)' /\ Adopts(q, h)

\* What frees the chunk of a run that goes on, or will (executing, waiting or
\* paused), whatever programs do: only that every event whose slot retains it is
\* off or is redefined by the script that just ended, and then only the chunk of
\* a handler, which borrows it.  A slot that lets go of a chunk another still
\* retains, and the end of any other run, leave it alone (release_retained_chunk,
\* free_suspended_run and the frees of handle_vm_result).
ChunksLetGo ==
  [][\A r \in RunIds : LET c == run[r].chunk IN
       Live(r) /\ Live(r)' /\ chunk'[c] # chunk[c] =>
         /\ ~run[r].owns
         /\ \A h \in Handlers : owner[h] = c => LetsGo(h)]_vars

\* Where a run can be found again.
OnStack(r) == {i \in 1 .. Len(stack) : stack[i].run = r}
OnPaused(r) == {i \in 1 .. Len(paused) : paused[i].run = r}
InSlot(r) == IF slot = r THEN {0} ELSE {}

\* Every live run is in exactly one place: executing, in g_suspended_run or
\* among the paused runs.  None is overwritten there, so none is lost.
NoRunLost ==
  \A r \in RunIds :
    Cardinality(OnStack(r)) + Cardinality(OnPaused(r)) + Cardinality(InSlot(r))
      = IF Live(r) THEN 1 ELSE 0

\* One script thread: while a run waits in g_suspended_run nothing executes,
\* and nothing starts inside a run that is executing.
OneThread ==
  Cardinality({i \in 1 .. Len(stack) : stack[i].kind \in {"vm", "agents"}})
    + (IF slot = NoRun THEN 0 ELSE 1) <= 1

\* What will wake the run in the slot is what it waits for: its own timer and
\* callback, the next key, or the next line; and nothing else is armed.
WakeupsServeSlot ==
  LET waitsFor(why) == slot # NoRun /\ run[slot].why = why IN
  /\ \A t \in TimerIds : timers[t] # "none" => timeout_id = t /\ waitsFor(timers[t])
  /\ \A why \in {"WAIT", "ANIMATE"} : waitsFor(why) => timeout_id # NoTimer
  /\ timeout_id # NoTimer => timers[timeout_id] # "none"
  /\ window = "open" => /\ waiting_for_key <=> waitsFor("WAITKEY")
                        /\ waiting_for_input <=> waitsFor("INPUT")

\* Between callbacks every registered handler can fire: its slot retains a
\* chunk that defines the procedure.
HandlersRetained ==
  CanDispatch /\ slot = NoRun =>
    \A h \in Handlers :
      handler[h] # NoName =>
        /\ owner[h] # NoChunk
        /\ chunk[owner[h]] # Freed
        /\ chunk[owner[h]][handler[h]] # NotDefined

\* fire_handler's argument count is what the procedure takes.
HandlerArity ==
  \A h \in Handlers :
    Fires(h) /\ chunk[owner[h]] # Freed => chunk[owner[h]][handler[h]] = Arity[h]

\* Nested PAUSEs stack: the levels of the paused runs increase, outermost first.
LevelsAreStrict ==
  \A i \in 1 .. Len(paused) - 1 : paused[i].level < paused[i + 1].level

\* Between callbacks pause_depth is the innermost paused run's level, so the
\* next CONTINUE resumes that run and no other.
DepthIsInnermost ==
  stack = <<>> => pause_depth = IF paused = <<>> THEN 0 ELSE paused[Len(paused)].level

\* Once the window is destroyed no timer is left to fire and no run goes on
\* to draw on its canvas.
NothingAfterDestroy ==
  window = "destroyed" =>
    stack = <<>> /\ slot = NoRun /\ \A t \in TimerIds : timers[t] = "none"

\* Every callback returns to the main loop.
CallbacksReturn == []<>(stack = <<>>)

\* A WAIT, a motion delay or a frame of an animation ends.
WaitEnds ==
  \A r \in RunIds :
    (slot = r /\ run[r].why \in {"WAIT", "ANIMATE"}) ~> (slot # r)

\* After a CONTINUE the innermost paused run is resumed.
ContinueResumes ==
  \A r \in RunIds :
    (paused # <<>> /\ paused[Len(paused)].run = r /\ paused[Len(paused)].level > pause_depth)
      ~> Running("vm", r)
=============================================================================
