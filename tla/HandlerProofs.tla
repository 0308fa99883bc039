--------------------------- MODULE HandlerProofs ---------------------------
(***************************************************************************)
(* Theorems about RunDriver: event handlers.  What fires gets the          *)
(* arguments it takes and can be fired again, for the vocabularies they    *)
(* state; and what frees the chunk of a run that lives, for all of them.   *)
(***************************************************************************)
EXTENDS SessionProofs

-----------------------------------------------------------------------------
(* The number of a handler's inputs, for every vocabulary.                 *)

\* A procedure that scripts redefine keeps the number of its inputs.  Without
\* this a handler registered for the old definition fires the new one.
SteadyShapes ==
  \A s, t \in Shapes, n \in Names :
    s[n] # NotDefined /\ t[n] # NotDefined => s[n] = t[n]

\* Whatever chunk defines a registered procedure, it takes the event's inputs.
RegisteredArity ==
  \A h \in Handlers, s \in Shapes :
    handler[h] # NoName /\ s[handler[h]] # NotDefined => s[handler[h]] = Arity[h]

\* A run that can go on has a chunk.
RunsHaveChunks == \A r \in RunIds : run[r].left > 0 => run[r].chunk \in ChunkIds

LEMMA ArityFacts == \A h \in Handlers : Arity[h] # NotDefined
<1>1. \A h \in DOMAIN Arity : Arity[h] # NotDefined
  BY DEF Arity, NotDefined
<1> QED
  BY <1>1, HandlersAssumption

\* A run that returns, and the one that goes on in its place, keep their chunks.
LEMMA ReturnsChunks ==
  ASSUME Inv, NEW r \in RunIds, NEW rec \in RunRecord, NEW ps \in Seq(PausedRecord),
         Returns(r, rec, ps)
  PROVE  \A q \in RunIds : LET was == IF q = r THEN rec ELSE run[q] IN
           run'[q].left = was.left /\ run'[q].chunk = was.chunk
<1>1. run \in [RunIds -> RunRecord]
  BY SessionTypes
<1>2. CASE ps # <<>> /\ ps[Len(ps)].level > pause_depth'
  <2> DEFINE p == ps[Len(ps)].run
  <2>1. p \in RunIds
    <3>1. ps[Len(ps)] \in PausedRecord
      BY <1>2
    <3> QED
      BY <3>1 DEF PausedRecord
  <2>2. run' = [run EXCEPT ![r] = rec, ![p] = [@ EXCEPT !.why = "VM"]]
    BY <1>2 DEF Returns
  <2> HIDE DEF p
  <2> QED
    BY <1>1, <2>1, <2>2 DEF RunRecord
<1>3. CASE ~(ps # <<>> /\ ps[Len(ps)].level > pause_depth')
  <2>1. run' = [run EXCEPT ![r] = rec]
    BY <1>3 DEF Returns
  <2> QED
    BY <1>1, <2>1
<1> QED
  BY <1>2, <1>3

\* Performing an operation leaves a run's chunk alone.
LEMMA SpentChunks ==
  ASSUME Inv, RunsHaveChunks, NEW r \in RunIds, NEW op \in AllOps, Performs(r, op)
  PROVE  /\ Spent(r, op) \in RunRecord /\ Spent(r, op).chunk \in ChunkIds
         /\ op \in Whys => Suspends(r, op) \in RunRecord
         /\ Suspends(r, op).chunk \in ChunkIds
<1>1. run[r].chunk \in ChunkIds
  BY DEF RunsHaveChunks, Performs
<1> QED
  BY <1>1, SpentType DEF Inv

LEMMA FreeHasNothing == FreeRun \in RunRecord /\ ~(FreeRun.left > 0)
BY FreeRunType DEF FreeRun

LEMMA ChunksOfVmStep ==
  ASSUME Inv, RunsHaveChunks, VmStep
  PROVE  RunsHaveChunks'
<1>1. PICK r \in RunIds :
        \/ \E op \in {"WAIT", "ANIMATE"} : SuspendOnTimer(r, op)
        \/ SuspendOnKey(r) \/ SuspendOnInput(r)
        \/ Pause(r) \/ Halt(r) \/ AwaitOutside(r) \/ Launch(r) \/ AgentsDone(r)
        \/ \E h \in Handlers, n \in Names : On(r, h, n)
        \/ \E h \in Handlers : Off(r, h)
        \/ exec_continue(r) \/ AgentPause(r) \/ Drain(r)
  BY DEF VmStep
<1>2. paused \in Seq(PausedRecord) /\ run \in [RunIds -> RunRecord]
  BY SessionTypes
<1>3. ASSUME NEW rec \in RunRecord, NEW ps \in Seq(PausedRecord), Returns(r, rec, ps),
             rec.left > 0 => rec.chunk \in ChunkIds
      PROVE  RunsHaveChunks'
  BY <1>3, ReturnsChunks DEF RunsHaveChunks
<1>4. ASSUME NEW op \in AllOps, Performs(r, op), run' = [run EXCEPT ![r] = Spent(r, op)]
      PROVE  RunsHaveChunks'
  <2> DEFINE rec == Spent(r, op)
  <2>1. rec.chunk \in ChunkIds
    BY <1>4, SpentChunks
  <2>2. run' = [run EXCEPT ![r] = rec]
    BY <1>4
  <2> HIDE DEF rec
  <2> QED
    BY <1>2, <2>1, <2>2 DEF RunsHaveChunks
<1>5. ASSUME NEW op \in AllOps \cap Whys, Performs(r, op), Returns(r, Suspends(r, op), paused)
      PROVE  RunsHaveChunks'
  BY <1>2, <1>3, <1>5, SpentChunks
<1>6. ASSUME Returns(r, FreeRun, paused) PROVE RunsHaveChunks'
  BY <1>2, <1>3, <1>6, FreeHasNothing
<1>7. CASE \/ \E op \in {"WAIT", "ANIMATE"} : SuspendOnTimer(r, op)
           \/ SuspendOnKey(r) \/ SuspendOnInput(r)
  BY <1>5, <1>7 DEF SuspendOnTimer, SuspendOnKey, SuspendOnInput, AllOps, Whys
<1>8. CASE Pause(r)
  <2>1. CASE Len(paused) < MaxPaused
    <3> DEFINE e == [run |-> r, level |-> pause_depth']
    <3>1. e \in PausedRecord
      BY <1>8, SessionTypes, BoundsAssumption DEF PausedRecord, Pause
    <3>2. Append(paused, e) \in Seq(PausedRecord)
      BY <1>2, <3>1, SequenceFacts
    <3>3. Performs(r, "PAUSE") /\ Returns(r, Suspends(r, "PAUSE"), Append(paused, e))
      BY <1>8, <2>1 DEF Pause
    <3>4. "PAUSE" \in AllOps \cap Whys
      BY DEF AllOps, Whys
    <3> QED
      BY <1>3, <3>2, <3>3, <3>4, SpentChunks
  <2>2. CASE ~(Len(paused) < MaxPaused)
    BY <1>6, <1>8, <2>2 DEF Pause
  <2> QED
    BY <2>1, <2>2
<1>9. CASE Halt(r) \/ AwaitOutside(r) \/ AgentsDone(r)
  BY <1>6, <1>9 DEF Halt, AwaitOutside, AgentsDone
<1>10. CASE Launch(r)
  BY <1>4, <1>10 DEF Launch, AllOps
<1>11. CASE \/ \E h \in Handlers, n \in Names : On(r, h, n)
            \/ \E h \in Handlers : Off(r, h)
            \/ exec_continue(r) \/ AgentPause(r) \/ Drain(r)
  BY <1>4, <1>11 DEF On, Off, exec_continue, AgentPause, Drain, Executes, AllOps
<1> QED
  BY <1>1, <1>7, <1>8, <1>9, <1>10, <1>11

\* No step gives a run a chunk that is not one.
LEMMA ChunksOfStep ==
  ASSUME Inv, RunsHaveChunks, [Next]_vars
  PROVE  RunsHaveChunks'
<1>1. run \in [RunIds -> RunRecord]
  BY SessionTypes
<1>2. ASSUME NEW r \in RunIds, NEW c \in ChunkIds, NEW owns, NEW s, Starts(r, c, owns, s)
      PROVE  RunsHaveChunks'
  BY <1>1, <1>2 DEF Starts, RunsHaveChunks
<1>3. ASSUME run' = run \/ \E r \in RunIds : run' = [run EXCEPT ![r].why = "VM"]
                        \/ \E q \in RunIds : run' = [run EXCEPT ![q] = FreeRun]
      PROVE  RunsHaveChunks'
  <2>1. CASE run' = run
    BY <2>1 DEF RunsHaveChunks
  <2>2. CASE \E r \in RunIds : run' = [run EXCEPT ![r].why = "VM"]
    BY <1>1, <2>2 DEF RunsHaveChunks, RunRecord
  <2>3. CASE \E r \in RunIds : run' = [run EXCEPT ![r] = FreeRun]
    BY <1>1, <2>3, FreeHasNothing DEF RunsHaveChunks
  <2> QED
    BY <1>3, <2>1, <2>2, <2>3
<1>4. ASSUME NEW h \in Handlers, NEW s, fire_handler(h, s) PROVE RunsHaveChunks'
  <2>1. owner[h] \in ChunkIds
    BY <1>4 DEF fire_handler, Fires, Inv, TypeOK
  <2> QED
    BY <1>2, <1>4, <2>1 DEF fire_handler
<1>5. CASE Drained \/ KeyStep
  BY <1>2, <1>3, <1>5 DEF Drained, KeyStep, KeyDone, KeyReturn, run_logo_script
<1>6. CASE TimerStep \/ WaitKeyPress \/ InputReturn
  <2>1. slot \in RunIds /\ run' = [run EXCEPT ![slot].why = "VM"]
    BY <1>6, SessionTypes DEF TimerStep, Timeout, WaitKeyPress, InputReturn, ResumeSlot
  <2> QED
    BY <1>3, <2>1
<1>7. CASE on_window_destroy
  BY <1>3, <1>7, SessionTypes DEF on_window_destroy
<1>8. CASE \/ KeyPress \/ \E h \in Handlers : Event(h)
           \/ \E shape \in Shapes : Submit(shape)
  BY <1>2, <1>4, <1>8 DEF KeyPress, Event, Submit, run_logo_script
<1>9. CASE UNCHANGED vars
  BY <1>3, <1>9 DEF vars
<1> QED
  BY <1>5, <1>6, <1>7, <1>8, <1>9, ChunksOfVmStep DEF Next, UserStep

\* Only ONKEY and its like, and their OFF forms, change a handler.
LEMMA HandlersUnchanged ==
  ASSUME [Next]_vars
  PROVE  \/ \E r \in RunIds, h \in Handlers, n \in Names : On(r, h, n)
         \/ \E r \in RunIds, h \in Handlers : Off(r, h)
         \/ handler' = handler
<1>1. CASE VmStep
  BY <1>1 DEF VmStep, SuspendOnTimer, SuspendOnKey, SuspendOnInput, Pause, Halt, AwaitOutside,
              Launch, AgentsDone, exec_continue, AgentPause, Drain
<1>2. CASE Drained \/ KeyStep \/ TimerStep
  BY <1>2 DEF Drained, KeyStep, KeyDone, KeyReturn, run_logo_script, TimerStep, Timeout,
              ResumeSlot
<1>3. CASE UserStep
  BY <1>3 DEF UserStep, Submit, run_logo_script, Event, KeyPress, fire_handler, WaitKeyPress,
              InputReturn, ResumeSlot, on_window_destroy
<1> QED
  BY <1>1, <1>2, <1>3 DEF Next, vars

\* Every step keeps the registered inputs.
LEMMA ArityStep ==
  SteadyShapes =>
    (Inv /\ RunsHaveChunks /\ RegisteredArity /\ [Next]_vars => RegisteredArity')
<1> SUFFICES ASSUME SteadyShapes, Inv, RunsHaveChunks, RegisteredArity, [Next]_vars
             PROVE  RegisteredArity'
  OBVIOUS
<1>1. handler \in [Handlers -> Names \cup {NoName}] /\ chunk \in [ChunkIds -> Shapes \cup {Freed}]
  BY DEF Inv, TypeOK
<1>2. ASSUME NEW r \in RunIds, NEW h \in Handlers, NEW n \in Names, On(r, h, n)
      PROVE  RegisteredArity'
  <2> DEFINE s == chunk[run[r].chunk]
  <2>1. run[r].chunk \in ChunkIds
    BY <1>2 DEF On, Executes, Performs, RunsHaveChunks
  <2>2. s \in Shapes /\ s[n] = Arity[h] /\ handler' = [handler EXCEPT ![h] = n]
    BY <1>1, <1>2, <2>1 DEF On
  <2>3. \A t \in Shapes : t[n] # NotDefined => t[n] = Arity[h]
    BY <2>2, ArityFacts DEF SteadyShapes
  <2> QED
    BY <1>1, <2>2, <2>3 DEF RegisteredArity
<1>3. ASSUME NEW r \in RunIds, NEW h \in Handlers, Off(r, h) PROVE RegisteredArity'
  BY <1>1, <1>3 DEF Off, RegisteredArity
<1>4. CASE handler' = handler
  BY <1>4 DEF RegisteredArity
<1> QED
  BY <1>2, <1>3, <1>4, HandlersUnchanged

\* fire_handler passes as many arguments as the procedure takes, whatever
\* programs do between its registration and the event: for every vocabulary,
\* provided redefinitions keep the number of inputs.
THEOREM HandlersTakeTheirArguments == SteadyShapes => (Spec => []HandlerArity)
<1> SUFFICES ASSUME SteadyShapes PROVE Spec => []HandlerArity
  OBVIOUS
<1>1. Init => RunsHaveChunks /\ RegisteredArity
  BY FreeHasNothing DEF Init, RunsHaveChunks, RegisteredArity
<1>2. Inv /\ RunsHaveChunks /\ RegisteredArity /\ [Next]_vars
        => RunsHaveChunks' /\ RegisteredArity'
  BY ChunksOfStep, ArityStep
<1>3. Inv /\ RegisteredArity => HandlerArity
  <2> SUFFICES ASSUME Inv, RegisteredArity, NEW h \in Handlers,
                      Fires(h), chunk[owner[h]] # Freed
               PROVE  chunk[owner[h]][handler[h]] = Arity[h]
    BY DEF HandlerArity
  <2>1. chunk[owner[h]] \in Shapes
    BY DEF Inv, TypeOK, Fires
  <2>2. handler[h] # NoName /\ chunk[owner[h]][handler[h]] # NotDefined
    BY DEF Fires, Defines
  <2> QED
    BY <2>1, <2>2 DEF RegisteredArity
<1> QED
  BY <1>1, <1>2, <1>3, DriverInvariant, PTL DEF Spec
-----------------------------------------------------------------------------
(* What a handler fires.                                                   *)

\* What is asked of programs: a handler's run does not register handlers (its
\* chunk is retained by a slot that the new one may take over), and no script is
\* cut short by LAUNCH or AWAIT, or set aside by PAUSE, between its registrations
\* and its end, when its chunk is adopted.  Handlers may PAUSE and clear events.
HandlerVocabulary ==
  /\ SessionVocabulary
  /\ "PAUSE" \notin ScriptOps
  /\ "AWAIT" \notin ScriptOps /\ "LAUNCH" \notin ScriptOps
  /\ "ON" \notin HandlerOps

\* An event's slot retains a chunk that defines its handler; or the script that
\* registered it is still to end, and the slot will adopt its chunk.
Retains(h) ==
  /\ owner[h] # NoChunk
  /\ chunk[owner[h]] # Freed
  /\ chunk[owner[h]][handler[h]] # NotDefined
WillAdopt(r, h) == Live(r) /\ run[r].owns /\ chunk[run[r].chunk][handler[h]] # NotDefined
Registered ==
  window = "open" =>
    \A h \in Handlers :
      handler[h] # NoName => Retains(h) \/ \E r \in RunIds : WillAdopt(r, h)

\* Only handlers' runs are paused.
PausedBorrow == \A r \in RunIds : run[r].why = "PAUSE" => ~run[r].owns

\* Only a handler's run has agents.
AgentsBorrow ==
  \A base \in Bases, r \in RunIds : stack = Append(base, Frame("agents", r)) => ~run[r].owns

HandlerInv ==
  /\ PausedBorrow
  /\ Registered
  /\ AgentsBorrow

-----------------------------------------------------------------------------
LEMMA HandlerTypes ==
  ASSUME Inv
  PROVE  /\ handler \in [Handlers -> Names \cup {NoName}]
         /\ owner \in [Handlers -> ChunkIds \cup {NoChunk}]
         /\ chunk \in [ChunkIds -> Shapes \cup {Freed}]
         /\ run \in [RunIds -> RunRecord]
         /\ NoChunk \notin ChunkIds
         /\ \A h \in Handlers : owner[h] # NoChunk => owner[h] \in ChunkIds
BY SessionTypes DEF Inv, TypeOK, ChunkIds, NoChunk

\* The chunks that slots retain, and those that scripts own, are alive and apart.
LEMMA OwnedFacts ==
  ASSUME Inv
  PROVE  /\ \A c \in Owners(owner) : c \in ChunkIds /\ chunk[c] # Freed
         /\ \A r \in RunIds : Live(r) /\ run[r].owns =>
              /\ run[r].chunk \in ChunkIds /\ chunk[run[r].chunk] # Freed
              /\ run[r].chunk \notin Owners(owner)
BY DEF Inv, ChunkOwnership, OwnedRuns

\* No script but the run that executes is alive.
LEMMA OneScript ==
  ASSUME Inv, SessionInv, PausedBorrow, NEW r \in RunIds, Executing(r)
  PROVE  Live(r) /\ \A q \in RunIds : Live(q) /\ run[q].owns => q = r
<1>1. slot = NoRun /\ \A q \in RunIds : Executing(q) <=> q = r
  BY ExecutingFacts
<1>2. \A q \in RunIds : IsPaused(q) => ~run[q].owns
  BY DEF PausedBorrow, SessionInv, OnePlace
<1> QED
  BY <1>1, <1>2, LiveFacts, RunIdsFacts

\* Between callbacks none but the one in the slot is.
LEMMA SlotScript ==
  ASSUME Inv, SessionInv, PausedBorrow, stack \in Bases
  PROVE  /\ \A q \in RunIds : Live(q) /\ run[q].owns => slot = q
         /\ \A q \in RunIds : slot = q => Live(q) /\ run[q].why # "PAUSE"
<1>1. \A q \in RunIds : ~Executing(q)
  BY DispatchFacts
<1>2. \A q \in RunIds : IsPaused(q) <=> run[q].why = "PAUSE"
  BY DEF SessionInv, OnePlace
<1> QED
  BY <1>1, <1>2, LiveFacts DEF PausedBorrow

\* handle_vm_result lets go of no chunk that a handler needs.
LEMMA UnclearedKeeps ==
  ASSUME Inv, NEW own, Release(Uncleared, own), UNCHANGED handler,
         \A h \in Handlers : owner[h] # NoChunk => owner[h] \notin own
  PROVE  /\ Uncleared' = Uncleared /\ owner' = Uncleared
         /\ \A h \in Handlers : handler[h] # NoName /\ Retains(h) => Retains(h)'
         /\ \A c \in ChunkIds : c \notin Owners(owner) \cup own => chunk'[c] = chunk[c]
<1>1. owner' = Uncleared
  BY DEF Release
<1>2. Uncleared' = Uncleared
  BY <1>1 DEF Uncleared
<1>3. \A c \in ChunkIds : chunk'[c] =
        IF c \in (Owners(owner) \ Owners(Uncleared)) \cup own THEN Freed ELSE chunk[c]
  BY DEF Release
<1>4. ASSUME NEW h \in Handlers, handler[h] # NoName, Retains(h) PROVE Retains(h)'
  <2>1. Uncleared[h] = owner[h] /\ owner[h] \in Owners(Uncleared) /\ owner[h] \in ChunkIds
    BY <1>4, HandlerTypes DEF Retains, Uncleared, Owners
  <2>2. chunk'[owner[h]] = chunk[owner[h]]
    BY <1>3, <1>4, <2>1 DEF Retains
  <2> QED
    BY <1>1, <1>4, <2>1, <2>2 DEF Retains
<1> QED
  BY <1>1, <1>2, <1>3, <1>4

\* The run that executes goes on or waits; its handlers are as they were.
LEMMA HandlerKeeps ==
  ASSUME Inv, SessionInv, HandlerInv, NEW r \in RunIds, Executing(r),
         Release(Uncleared, {}), UNCHANGED handler,
         Live(r)', run'[r].chunk = run[r].chunk, run'[r].owns = run[r].owns,
         run'[r].why = "PAUSE" => ~run[r].owns,
         \A q \in RunIds \ {r} : run'[q] = run[q]
  PROVE  Registered' /\ PausedBorrow'
<1>1. /\ \A h \in Handlers : handler[h] # NoName /\ Retains(h) => Retains(h)'
      /\ \A c \in ChunkIds : c \notin Owners(owner) => chunk'[c] = chunk[c]
  BY UnclearedKeeps
<1>2. Live(r) /\ \A q \in RunIds : Live(q) /\ run[q].owns => q = r
  BY OneScript DEF HandlerInv
<1>3. PausedBorrow'
  BY DEF HandlerInv, PausedBorrow
<1>4. Registered'
  <2> SUFFICES ASSUME NEW h \in Handlers, handler[h] # NoName
               PROVE  Retains(h)' \/ WillAdopt(r, h)'
    BY DEF Registered
  <2>1. Retains(h) \/ WillAdopt(r, h)
    <3>1. window = "open"
      BY ExecutingFacts
    <3> QED
      BY <1>2, <3>1 DEF HandlerInv, Registered, WillAdopt
  <2>2. WillAdopt(r, h) => WillAdopt(r, h)'
    BY <1>1, OwnedFacts DEF WillAdopt
  <2> QED
    BY <1>1, <2>1, <2>2
<1> QED
  BY <1>3, <1>4

\* Where the stack has no agents' frame, or none that it did not have.
LEMMA AgentsBorrowKept ==
  ASSUME \/ stack' \in Bases
         \/ \E base \in Bases, r \in RunIds : stack' = Append(base, Frame("vm", r))
  PROVE  AgentsBorrow'
BY AgentFrames DEF AgentsBorrow

\* The run that executes ends; the paused run that may go on is not the same.
LEMMA EndReturn ==
  ASSUME Inv, SessionInv, HandlerInv, NEW r \in RunIds, Executing(r), Below \in Bases,
         Returns(r, FreeRun, paused)
  PROVE  PausedBorrow' /\ AgentsBorrow'
<1>1. run \in [RunIds -> RunRecord] /\ FreeRun.why # "PAUSE"
  BY HandlerTypes, FreeRunType
<1>2. CASE paused # <<>> /\ paused[Len(paused)].level > pause_depth'
  <2> DEFINE p == paused[Len(paused)].run
  <2>1. p \in RunIds
    BY <1>2, SessionTypes
  <2>2. /\ stack' = Append(Below, Frame("vm", p))
        /\ run' = [run EXCEPT ![r] = FreeRun, ![p] = [@ EXCEPT !.why = "VM"]]
    BY <1>2 DEF Returns
  <2> HIDE DEF p
  <2>3. \A q \in RunIds : run'[q].why = "PAUSE" => run'[q] = run[q]
    BY <1>1, <2>1, <2>2 DEF RunRecord
  <2>4. AgentsBorrow'
    BY <2>1, <2>2, AgentsBorrowKept
  <2> QED
    BY <2>3, <2>4 DEF HandlerInv, PausedBorrow
<1>3. CASE ~(paused # <<>> /\ paused[Len(paused)].level > pause_depth')
  <2>1. stack' = Below /\ run' = [run EXCEPT ![r] = FreeRun]
    BY <1>3 DEF Returns
  <2>2. \A q \in RunIds : run'[q].why = "PAUSE" => run'[q] = run[q]
    BY <1>1, <2>1
  <2>3. AgentsBorrow'
    BY <2>1, AgentsBorrowKept
  <2> QED
    BY <2>2, <2>3 DEF HandlerInv, PausedBorrow
<1> QED
  BY <1>2, <1>3
-----------------------------------------------------------------------------
(* The steps.                                                              *)

LEMMA HandlerSuspends ==
  ASSUME Inv, SessionInv, HandlerInv, NEW r \in RunIds,
         \/ \E op \in {"WAIT", "ANIMATE"} : SuspendOnTimer(r, op)
         \/ SuspendOnKey(r) \/ SuspendOnInput(r)
  PROVE  HandlerInv'
<1>1. PICK op \in SlotWhys :
        /\ Running("vm", r) /\ Performs(r, op) /\ Release(Uncleared, {}) /\ UNCHANGED handler
        /\ pause_depth' = pause_depth /\ Returns(r, Suspends(r, op), paused)
  BY DEF SuspendOnTimer, SuspendOnKey, SuspendOnInput, SlotWhys
<1> DEFINE rec == Suspends(r, op)
<1>2. /\ rec.owns = run[r].owns /\ rec.chunk = run[r].chunk
      /\ rec.why = op /\ op # "FREE" /\ op # "PAUSE" /\ run[r].left > 0
  <2>1. op \in AllOps /\ op # "FREE" /\ op # "PAUSE"
    BY DEF SlotWhys, AllOps
  <2> QED
    BY <1>1, <2>1, SpentType DEF Inv, Performs
<1> HIDE DEF rec
<1>3. Executing(r) /\ Below \in Bases
  BY <1>1, RunningFacts DEF SessionInv, RunKinds
<1>4. stack' = Below /\ run' = [run EXCEPT ![r] = rec]
  BY <1>1, <1>2, <1>3, QuietReturn, SessionTypes DEF rec
<1>5. run'[r] = rec /\ \A q \in RunIds \ {r} : run'[q] = run[q]
  BY <1>4, HandlerTypes
<1>6. Live(r)' /\ AgentsBorrow'
  BY <1>2, <1>3, <1>4, <1>5, AgentsBorrowKept DEF Live
<1> QED
  BY <1>1, <1>2, <1>3, <1>5, <1>6, HandlerKeeps DEF HandlerInv

\* A handler's run is set aside, or dropped when there is no room for it.
LEMMA HandlerPauses ==
  ASSUME HandlerVocabulary, Inv, SessionInv, HandlerInv, NEW r \in RunIds, Pause(r)
  PROVE  HandlerInv'
<1>1. /\ Running("vm", r) /\ Performs(r, "PAUSE") /\ UNCHANGED handler
      /\ pause_depth' = pause_depth + 1 /\ pause_depth < MaxDepth
  BY DEF Pause
<1>2. Executing(r) /\ Below \in Bases /\ run[r].left > 0
  BY <1>1, RunningFacts DEF SessionInv, RunKinds, Performs
<1>3. ~run[r].owns
  BY <1>1 DEF Performs, HandlerVocabulary
<1>4. pause_depth' \in 0 .. MaxDepth /\ pause_depth' \in Nat /\ pause_depth' >= pause_depth
  BY <1>1, SessionTypes, BoundsAssumption
<1> DEFINE rec == IF Len(paused) < MaxPaused THEN Suspends(r, "PAUSE") ELSE FreeRun
           e == [run |-> r, level |-> pause_depth']
<1>5. /\ ~rec.owns
      /\ Len(paused) < MaxPaused => rec.chunk = run[r].chunk /\ rec.why = "PAUSE"
  BY <1>1, <1>3, SpentType, FreeRunType DEF Inv, AllOps
<1>6. e \in PausedRecord /\ e.level = pause_depth'
  BY <1>4 DEF PausedRecord
<1>7. /\ Returns(r, rec, IF Len(paused) < MaxPaused THEN Append(paused, e) ELSE paused)
      /\ Release(Uncleared, {})
  BY <1>3 DEF Pause, OwnChunk
<1> HIDE DEF rec, e
<1>8. stack' = Below /\ run' = [run EXCEPT ![r] = rec]
  BY <1>2, <1>4, <1>6, <1>7, QuietReturn
<1>9. run'[r] = rec /\ \A q \in RunIds \ {r} : run'[q] = run[q]
  BY <1>8, HandlerTypes
<1>10. AgentsBorrow'
  BY <1>2, <1>8, AgentsBorrowKept
<1>11. PausedBorrow'
  BY <1>5, <1>9 DEF HandlerInv, PausedBorrow
<1>12. Registered'
  <2>1. /\ \A h \in Handlers : handler[h] # NoName /\ Retains(h) => Retains(h)'
    BY <1>1, <1>7, UnclearedKeeps
  <2>2. window = "open" /\ \A q \in RunIds : ~(Live(q) /\ run[q].owns)
    BY <1>2, <1>3, ExecutingFacts, OneScript DEF HandlerInv
  <2> QED
    BY <1>1, <2>1, <2>2 DEF HandlerInv, Registered, WillAdopt
<1> QED
  BY <1>10, <1>11, <1>12 DEF HandlerInv

\* A script's chunk goes to the handlers it defines; what they had is let go of.
LEMMA HandlerHalts ==
  ASSUME Inv, SessionInv, HandlerInv, NEW r \in RunIds, Halt(r)
  PROVE  HandlerInv'
<1> DEFINE c == run[r].chunk
           owners == [h \in Handlers |-> IF Adopts(r, h) THEN c ELSE Uncleared[h]]
           own == IF \E h \in Handlers : Adopts(r, h) THEN {} ELSE OwnChunk(r)
<1>1. /\ Running("vm", r) /\ Release(owners, own) /\ UNCHANGED handler
      /\ Returns(r, FreeRun, paused)
  BY DEF Halt
<1>2. Executing(r) /\ Below \in Bases
  BY <1>1, RunningFacts DEF SessionInv, RunKinds
<1>3. PausedBorrow' /\ AgentsBorrow'
  BY <1>1, <1>2, EndReturn
<1>4. Live(r) /\ \A q \in RunIds : Live(q) /\ run[q].owns => q = r
  BY <1>2, OneScript DEF HandlerInv
<1>5. run[r].owns => c \in ChunkIds /\ chunk[c] # Freed /\ c \notin Owners(owner)
  BY <1>4, OwnedFacts
<1>6. /\ owner' = owners
      /\ \A d \in ChunkIds : chunk'[d] =
           IF d \in (Owners(owner) \ Owners(owners)) \cup own THEN Freed ELSE chunk[d]
  BY <1>1 DEF Release
<1>7. own \subseteq {c} /\ (own # {} => run[r].owns)
  BY DEF OwnChunk
<1>8. ASSUME NEW h \in Handlers, handler'[h] # NoName PROVE Retains(h)'
  <2>1. handler'[h] = handler[h] /\ handler[h] # NoName
    BY <1>1, <1>8
  <2>2. Retains(h) \/ WillAdopt(r, h)
    <3>1. window = "open"
      BY <1>2, ExecutingFacts
    <3> QED
      BY <1>4, <2>1, <3>1 DEF HandlerInv, Registered, WillAdopt
  <2>3. CASE Adopts(r, h)
    <3>1. run[r].owns /\ chunk[c][handler[h]] # NotDefined /\ own = {}
      BY <1>5, <2>3 DEF Adopts, Defines
    <3>2. owner'[h] = c /\ c # NoChunk /\ chunk'[c] = chunk[c]
      BY <1>5, <1>6, <2>3, <3>1, HandlerTypes
    <3> QED
      BY <1>5, <2>1, <3>1, <3>2 DEF Retains
  <2>4. CASE ~Adopts(r, h)
    <3>1. Retains(h)
      BY <2>1, <2>2, <2>4 DEF WillAdopt, Adopts, Defines
    <3>2. owner'[h] = owner[h] /\ owner[h] \in Owners(owner) /\ owner[h] \in ChunkIds
      BY <1>6, <2>1, <2>4, <3>1, HandlerTypes DEF Uncleared, Retains, Owners
    <3>3. owner[h] \in Owners(owners)
      BY <1>6, <3>1, <3>2 DEF Owners, Retains
    <3>4. chunk'[owner[h]] = chunk[owner[h]]
      BY <1>5, <1>6, <1>7, <3>2, <3>3
    <3> QED
      BY <2>1, <3>1, <3>2, <3>4 DEF Retains
  <2> QED
    BY <2>3, <2>4
<1> QED
  BY <1>3, <1>8 DEF HandlerInv, Registered

\* AWAIT and the end of agents end a handler's run, which owns nothing.
LEMMA HandlerFails ==
  ASSUME HandlerVocabulary, Inv, SessionInv, HandlerInv, NEW r \in RunIds,
         AwaitOutside(r) \/ AgentsDone(r)
  PROVE  HandlerInv'
<1>1. Returns(r, FreeRun, paused) /\ UNCHANGED handler
  BY DEF AwaitOutside, AgentsDone
<1>2. Executing(r) /\ Below \in Bases
  <2>1. \E kind \in RunKinds : Running(kind, r)
    BY DEF AwaitOutside, AgentsDone, RunKinds
  <2> QED
    BY <2>1, RunningFacts DEF SessionInv
<1>3. PausedBorrow' /\ AgentsBorrow'
  BY <1>1, <1>2, EndReturn
<1>4. ~run[r].owns
  <2>1. CASE AwaitOutside(r)
    BY <2>1 DEF AwaitOutside, Performs, HandlerVocabulary
  <2>2. CASE AgentsDone(r)
    <3>1. stack = Append(Below, Frame("agents", r)) /\ Below \in Bases
      BY <2>2, RunningFacts DEF AgentsDone, SessionInv, RunKinds
    <3> QED
      BY <3>1 DEF HandlerInv, AgentsBorrow
  <2> QED
    BY <2>1, <2>2
<1>5. \A h \in Handlers : handler[h] # NoName => Retains(h)
  <2>1. window = "open" /\ \A q \in RunIds : Live(q) /\ run[q].owns => q = r
    BY <1>2, ExecutingFacts, OneScript DEF HandlerInv
  <2> QED
    BY <1>4, <2>1 DEF HandlerInv, Registered, WillAdopt
<1>6. \A h \in Handlers : handler[h] # NoName => Retains(h)'
  <2>1. OwnChunk(r) = {}
    BY <1>4 DEF OwnChunk
  <2>2. CASE AwaitOutside(r)
    BY <1>1, <1>5, <2>1, <2>2, UnclearedKeeps DEF AwaitOutside
  <2>3. CASE AgentsDone(r)
    <3>1. owner' = owner /\ \A c \in ChunkIds : chunk'[c] = chunk[c]
      BY <2>1, <2>3 DEF AgentsDone, Release
    <3> QED
      BY <1>1, <1>5, <3>1, HandlerTypes DEF Retains
  <2> QED
    BY <2>2, <2>3
<1> QED
  BY <1>1, <1>3, <1>6 DEF HandlerInv, Registered

\* A handler's run becomes agents.
LEMMA HandlerLaunches ==
  ASSUME HandlerVocabulary, Inv, SessionInv, HandlerInv, NEW r \in RunIds, Launch(r)
  PROVE  HandlerInv'
<1>1. /\ Running("vm", r) /\ Performs(r, "LAUNCH") /\ Release(Uncleared, {})
      /\ stack' = Append(Below, Frame("agents", r)) /\ run' = [run EXCEPT ![r] = Spent(r, "LAUNCH")]
      /\ UNCHANGED handler
  BY DEF Launch
<1>2. Executing(r) /\ Below \in Bases
  BY <1>1, RunningFacts DEF SessionInv, RunKinds
<1> DEFINE rec == Spent(r, "LAUNCH")
<1>3. /\ rec.owns = run[r].owns /\ rec.chunk = run[r].chunk
      /\ rec.why = run[r].why /\ ~run[r].owns /\ run[r].left > 0
  BY <1>1, SpentType DEF Inv, Performs, HandlerVocabulary, AllOps
<1>4. run'[r] = rec /\ \A q \in RunIds \ {r} : run'[q] = run[q]
  BY <1>1, HandlerTypes
<1> HIDE DEF rec
<1>5. Live(r)' /\ run'[r].why # "PAUSE"
  BY <1>2, <1>3, <1>4, ExecutingFacts DEF Live
<1>6. AgentsBorrow'
  BY <1>1, <1>2, <1>3, <1>4, AgentFrames DEF AgentsBorrow
<1> QED
  BY <1>1, <1>2, <1>3, <1>4, <1>5, <1>6, HandlerKeeps DEF HandlerInv

\* What a run does without returning: only ON and OFF touch the handlers.
LEMMA HandlerExecutes ==
  ASSUME HandlerVocabulary, Inv, SessionInv, HandlerInv, NEW r \in RunIds,
         \/ \E h \in Handlers, n \in Names : On(r, h, n)
         \/ \E h \in Handlers : Off(r, h)
         \/ exec_continue(r) \/ AgentPause(r) \/ Drain(r)
  PROVE  HandlerInv'
<1>1. PICK op \in AllOps :
        /\ Executes(r, op) /\ UNCHANGED <<stack, owner, chunk>>
        /\ \/ \E h \in Handlers, n \in Names : op = "ON" /\ On(r, h, n)
           \/ \E h \in Handlers : op = "OFF" /\ Off(r, h)
           \/ UNCHANGED handler
  BY DEF On, Off, exec_continue, AgentPause, Drain, Executes, Performs, AllOps, pauseVars,
         chunkVars, HandlerVocabulary, SessionVocabulary, UsedOps
<1>2. Executing(r)
  BY <1>1, RunningFacts DEF Executes, SessionInv, RunKinds
<1>3. /\ Live(r) /\ \A q \in RunIds : Live(q) /\ run[q].owns => q = r
      /\ window = "open" /\ run[r].why = "VM"
  BY <1>2, OneScript, ExecutingFacts DEF HandlerInv
<1> DEFINE rec == Spent(r, op)
<1>4. rec.owns = run[r].owns /\ rec.chunk = run[r].chunk /\ rec.why = run[r].why
  BY <1>1, SpentType DEF Inv, Executes
<1>5. run'[r] = rec /\ \A q \in RunIds \ {r} : run'[q] = run[q]
  BY <1>1, HandlerTypes DEF Executes
<1> HIDE DEF rec
<1>6. Live(r)'
  BY <1>3, <1>4, <1>5 DEF Live
<1>7. AgentsBorrow' /\ PausedBorrow'
  BY <1>1, <1>3, <1>4, <1>5 DEF HandlerInv, AgentsBorrow, PausedBorrow
<1>8. \A h \in Handlers : handler[h] # NoName => Retains(h) \/ WillAdopt(r, h)
  BY <1>3 DEF HandlerInv, Registered, WillAdopt
<1>9. \A h \in Handlers : handler'[h] = handler[h] =>
        /\ Retains(h) => Retains(h)'
        /\ WillAdopt(r, h) => WillAdopt(r, h)'
  BY <1>1, <1>4, <1>5, <1>6 DEF Retains, WillAdopt
<1>10. ASSUME NEW h \in Handlers, NEW n \in Names, op = "ON", On(r, h, n) PROVE HandlerInv'
  <2>1. run[r].owns
    BY <1>1, <1>10 DEF Executes, Performs, HandlerVocabulary
  <2>2. handler' = [handler EXCEPT ![h] = n] /\ chunk[run[r].chunk][n] # NotDefined
    BY <1>10, ArityFacts DEF On
  <2>3. WillAdopt(r, h)'
    BY <1>1, <1>4, <1>5, <1>6, <2>1, <2>2, HandlerTypes DEF WillAdopt
  <2>4. Registered'
    BY <1>8, <1>9, <2>2, <2>3, HandlerTypes DEF Registered
  <2> QED
    BY <1>7, <2>4 DEF HandlerInv
<1>11. ASSUME NEW h \in Handlers, op = "OFF", Off(r, h) PROVE HandlerInv'
  <2>1. handler' = [handler EXCEPT ![h] = NoName]
    BY <1>11 DEF Off
  <2>2. Registered'
    BY <1>8, <1>9, <2>1, HandlerTypes DEF Registered
  <2> QED
    BY <1>7, <2>2 DEF HandlerInv
<1>12. CASE UNCHANGED handler
  <2>1. Registered'
    BY <1>8, <1>9, <1>12 DEF Registered
  <2> QED
    BY <1>7, <2>1 DEF HandlerInv
<1> QED
  BY <1>1, <1>10, <1>11, <1>12
\* Before a callback starts a run, every handler is retained.
LEMMA AllRetained ==
  ASSUME Inv, SessionInv, HandlerInv, stack \in Bases, slot = NoRun
  PROVE  window = "open" => \A h \in Handlers : handler[h] # NoName => Retains(h)
<1>1. \A q \in RunIds : ~(Live(q) /\ run[q].owns)
  BY SlotScript, RunIdsFacts DEF HandlerInv
<1> QED
  BY <1>1 DEF HandlerInv, Registered, WillAdopt

LEMMA HandlerSubmits ==
  ASSUME Inv, SessionInv, HandlerInv, NEW shape \in Shapes, NEW base \in Bases,
         stack \in Bases, run_logo_script(shape, base)
  PROVE  HandlerInv'
<1>1. PICK c \in ChunkIds, r \in RunIds :
        FreshChunk(c) /\ chunk' = [chunk EXCEPT ![c] = shape] /\ Starts(r, c, TRUE, base)
  BY DEF run_logo_script
<1>2. slot = NoRun /\ UNCHANGED <<handler, owner, window>>
  BY DEF run_logo_script
<1>3. window = "open" => \A h \in Handlers : handler[h] # NoName => Retains(h)
  BY <1>2, AllRetained
<1>4. run'[r].why = "VM" /\ \A q \in RunIds \ {r} : run'[q] = run[q]
  BY <1>1, HandlerTypes DEF Starts
<1>5. PausedBorrow'
  BY <1>4 DEF HandlerInv, PausedBorrow
<1>6. Registered'
  <2>1. \A h \in Handlers : Retains(h) => Retains(h)'
    BY <1>1, <1>2, HandlerTypes DEF Retains, FreshChunk
  <2> QED
    BY <1>2, <1>3, <2>1 DEF Registered
<1>7. AgentsBorrow'
  BY <1>1, AgentsBorrowKept DEF Starts
<1> QED
  BY <1>5, <1>6, <1>7 DEF HandlerInv

\* fire_handler borrows from a slot.
LEMMA HandlerFires ==
  ASSUME Inv, SessionInv, HandlerInv, NEW h \in Handlers, NEW base \in Bases,
         stack \in Bases, fire_handler(h, base)
  PROVE  HandlerInv'
<1>1. PICK r \in RunIds : Starts(r, owner[h], FALSE, base)
  BY DEF fire_handler
<1>2. slot = NoRun /\ UNCHANGED <<handler, owner, chunk, window>>
  BY DEF fire_handler, Fires, chunkVars
<1>3. window = "open" => \A g \in Handlers : handler[g] # NoName => Retains(g)
  BY <1>2, AllRetained
<1>4. run'[r].why = "VM" /\ \A q \in RunIds \ {r} : run'[q] = run[q]
  BY <1>1, HandlerTypes DEF Starts
<1>5. PausedBorrow'
  BY <1>4 DEF HandlerInv, PausedBorrow
<1>6. Registered'
  BY <1>2, <1>3 DEF Registered, Retains
<1>7. AgentsBorrow'
  BY <1>1, AgentsBorrowKept DEF Starts
<1> QED
  BY <1>5, <1>6, <1>7 DEF HandlerInv

\* The run in the slot goes on with what it had.
LEMMA HandlerResumes ==
  ASSUME Inv, SessionInv, HandlerInv, WaitKeyPress \/ InputReturn \/ TimerStep
  PROVE  HandlerInv'
<1>1. /\ slot # NoRun /\ run' = [run EXCEPT ![slot].why = "VM"] /\ Dispatching
      /\ stack' = Append(stack, Frame("vm", slot))
      /\ UNCHANGED <<handler, owner, chunk, window>>
  BY DEF WaitKeyPress, InputReturn, TimerStep, Timeout, ResumeSlot, CanDispatch, chunkVars
<1>2. slot \in RunIds /\ stack \in Bases
  BY <1>1, SessionTypes, DispatchFacts
<1>3. Live(slot)
  BY <1>2, SlotScript DEF HandlerInv
<1>4. \A q \in RunIds : /\ run'[q].chunk = run[q].chunk /\ run'[q].owns = run[q].owns
                        /\ (Live(q)' <=> Live(q))
                        /\ run'[q].why = "PAUSE" => run[q].why = "PAUSE"
  BY <1>1, <1>2, <1>3, HandlerTypes DEF Live, RunRecord
<1>5. PausedBorrow'
  BY <1>4 DEF HandlerInv, PausedBorrow
<1>6. Registered'
  BY <1>1, <1>4 DEF HandlerInv, Registered, Retains, WillAdopt
<1>7. AgentsBorrow'
  BY <1>1, <1>2, AgentsBorrowKept
<1> QED
  BY <1>5, <1>6, <1>7 DEF HandlerInv

LEMMA HandlerDestroys ==
  ASSUME Inv, SessionInv, HandlerInv, on_window_destroy
  PROVE  HandlerInv'
<1>1. /\ stack = <<>> /\ stack' = stack /\ window' = "destroyed"
      /\ run' = IF slot = NoRun THEN run ELSE [run EXCEPT ![slot] = FreeRun]
  BY DispatchFacts DEF on_window_destroy, CanDispatch
<1>2. PausedBorrow'
  BY <1>1, HandlerTypes, SessionTypes, FreeRunType DEF HandlerInv, PausedBorrow
<1>3. AgentsBorrow'
  BY <1>1, AgentsBorrowKept, DispatchFacts
<1> QED
  BY <1>1, <1>2, <1>3 DEF HandlerInv, Registered

\* A step that leaves the runs, the chunks and the handlers alone.
LEMMA HandlerSame ==
  ASSUME HandlerInv, UNCHANGED <<handler, owner, chunk, run, window>>, AgentsBorrow'
  PROVE  HandlerInv'
BY DEF HandlerInv, PausedBorrow, Registered, Retains, WillAdopt, Live

LEMMA HandlerCallbacks ==
  ASSUME Inv, SessionInv, HandlerInv, Drained \/ KeyStep \/ UserStep \/ TimerStep
  PROVE  HandlerInv'
<1>1. Running("key", NoRun) => stack \in Bases /\ Below \in Bases
  BY TopFacts, DispatchFacts DEF SessionInv
<1>2. CASE Drained \/ KeyDone
  <2>1. stack' \in Bases /\ UNCHANGED <<handler, owner, chunk, run, window>>
    BY <1>1, <1>2, TopFacts DEF Drained, KeyDone, SessionInv, chunkVars
  <2> QED
    BY <2>1, AgentsBorrowKept, HandlerSame
<1>3. ASSUME NEW shape \in Shapes, Submit(shape) \/ KeyReturn(shape) PROVE HandlerInv'
  BY <1>1, <1>3, DispatchFacts, HandlerSubmits DEF Submit, KeyReturn, CanDispatch
<1>4. CASE \E h \in Handlers : Event(h)
  BY <1>4, DispatchFacts, HandlerFires DEF Event, CanDispatch
<1>5. CASE KeyPress
  <2>1. stack = <<>> /\ "key" \in Handlers /\ fire_handler("key", Append(stack, KeyFrame))
    BY <1>5, DispatchFacts DEF KeyPress, CanDispatch, KeyFrame
  <2>2. Append(stack, KeyFrame) = <<KeyFrame>>
    BY <2>1
  <2> QED
    BY <2>1, <2>2, DispatchFacts, HandlerFires
<1> QED
  BY <1>2, <1>3, <1>4, <1>5, HandlerResumes, HandlerDestroys DEF KeyStep, UserStep

-----------------------------------------------------------------------------
LEMMA HandlerInit == Init => HandlerInv
<1> SUFFICES ASSUME Init PROVE HandlerInv
  OBVIOUS
<1>1. /\ stack = <<>> /\ \A h \in Handlers : handler[h] = NoName
      /\ \A r \in RunIds : run[r].why = "FREE"
  BY FreeRunType DEF Init
<1>2. \A base \in Bases, r \in RunIds : stack # Append(base, Frame("agents", r))
  BY <1>1, AgentFrames DEF Bases
<1> QED
  BY <1>1, <1>2 DEF HandlerInv, Registered, PausedBorrow, AgentsBorrow

\* Every step keeps the invariant.
LEMMA HandlerInvStep ==
  HandlerVocabulary => (Inv /\ SessionInv /\ HandlerInv /\ [Next]_vars => HandlerInv')
<1> SUFFICES ASSUME HandlerVocabulary, Inv, SessionInv, HandlerInv, [Next]_vars
             PROVE  HandlerInv'
  OBVIOUS
<1>1. CASE VmStep
  BY <1>1, HandlerSuspends, HandlerPauses, HandlerHalts, HandlerFails, HandlerLaunches,
     HandlerExecutes DEF VmStep
<1>2. CASE Drained \/ KeyStep \/ UserStep \/ TimerStep
  BY <1>2, HandlerCallbacks
<1>3. CASE UNCHANGED vars
  BY <1>3, HandlerSame DEF vars, HandlerInv, AgentsBorrow
<1> QED
  BY <1>1, <1>2, <1>3 DEF Next

\* What handlers need, together: the inductive invariant of handlers.
THEOREM HandlerInvariant == HandlerVocabulary => (Spec => []HandlerInv)
<1> SUFFICES ASSUME HandlerVocabulary PROVE Spec => []HandlerInv
  OBVIOUS
<1>1. Spec => []SessionInv
  BY SessionInvariant DEF HandlerVocabulary
<1>2. Inv /\ SessionInv /\ HandlerInv /\ [Next]_vars => HandlerInv'
  BY HandlerInvStep
<1> QED
  BY <1>1, <1>2, HandlerInit, DriverInvariant, PTL DEF Spec

\* Between callbacks every registered handler can fire: its slot retains a live
\* chunk that defines it, so fire_handler follows no null pointer and finds the
\* procedure ON registered.
THEOREM HandlersStayRetained == HandlerVocabulary => (Spec => []HandlersRetained)
<1> SUFFICES ASSUME HandlerVocabulary PROVE Spec => []HandlersRetained
  OBVIOUS
<1>1. Inv /\ SessionInv /\ HandlerInv => HandlersRetained
  BY AllRetained, DispatchFacts DEF HandlersRetained, CanDispatch, Retains
<1>2. Spec => []SessionInv
  BY SessionInvariant DEF HandlerVocabulary
<1> QED
  BY <1>1, <1>2, HandlerInvariant, DriverInvariant, PTL

-----------------------------------------------------------------------------
(* The chunk of a run that lives, for every vocabulary.                    *)

\* Where runs are, as far as it holds whatever programs do.  On the C stack:
\* frames of different runs, which execute.
HasRun(s, r) == \E i \in 1 .. Len(s) : s[i].kind \in RunKinds /\ s[i].run = r
Frames(s, runs) ==
  /\ \A i \in 1 .. Len(s) :
       s[i].kind \in RunKinds => s[i].run \in RunIds /\ runs[s[i].run].why = "VM"
  /\ \A i, j \in 1 .. Len(s) :
       s[i].kind \in RunKinds /\ s[j].kind \in RunKinds /\ s[i].run = s[j].run => i = j

\* Among the paused runs: each once.
Parked(ps, runs) ==
  /\ \A i \in 1 .. Len(ps) : runs[ps[i].run].why = "PAUSE"
  /\ \A i, j \in 1 .. Len(ps) : ps[i].run = ps[j].run => i = j

Placed ==
  /\ Frames(stack, run)
  /\ slot # NoRun => run[slot].why \in SlotWhys
  /\ Parked(paused, run)

\* A live run has a chunk; one that only borrows it shares it with a slot, as
\* long as the chunk is there.
Borrowed ==
  \A r \in RunIds : Live(r) =>
    /\ run[r].chunk \in ChunkIds
    /\ ~run[r].owns /\ chunk[run[r].chunk] # Freed => run[r].chunk \in Owners(owner)

LEMMA ButLast ==
  ASSUME NEW S, NEW s \in Seq(S), s # <<>>
  PROVE  LET b == SubSeq(s, 1, Len(s) - 1) IN
         /\ b \in Seq(S) /\ Len(b) = Len(s) - 1 /\ \A i \in 1 .. Len(b) : b[i] = s[i]
         /\ s[Len(s)] \in S /\ Len(s) \in 1 .. Len(s) /\ Len(s) \in Nat
         /\ \A i \in 1 .. Len(b) : i \in 1 .. Len(s) /\ i # Len(s)
<1> DEFINE b == SubSeq(s, 1, Len(s) - 1)
<1>1. Len(s) \in 1 .. Len(s) /\ Len(s) \in Nat /\ s[Len(s)] \in S
  OBVIOUS
<1>2. b \in Seq(S)
  BY SequenceFacts
<1>3. PICK n \in Nat : n = Len(s) - 1 /\ n + 1 = Len(s)
  BY <1>1
<1>4. \A i \in 1 .. n : s[i] \in S
  BY <1>3
<1>5. Len(b) = IF 1 <= n THEN n - 1 + 1 ELSE 0
  BY <1>3, <1>4, SubSeqProperties
<1>6. Len(b) = Len(s) - 1
  BY <1>3, <1>5
<1>7. \A i \in 1 .. Len(s) - 1 : b[i] = s[i]
  BY <1>1
<1> HIDE DEF b
<1> QED
  BY <1>1, <1>2, <1>6, <1>7 DEF b

LEMMA FramesPop ==
  ASSUME NEW s \in Seq(FrameRecord), NEW runs, s # <<>>, Frames(s, runs)
  PROVE  LET below == SubSeq(s, 1, Len(s) - 1)  top == s[Len(s)] IN
         /\ below \in Seq(FrameRecord) /\ top \in FrameRecord /\ Frames(below, runs)
         /\ top.kind \in RunKinds =>
              top.run \in RunIds /\ runs[top.run].why = "VM" /\ ~HasRun(below, top.run)
<1> DEFINE below == SubSeq(s, 1, Len(s) - 1)
<1>1. /\ below \in Seq(FrameRecord) /\ \A i \in 1 .. Len(below) : below[i] = s[i]
      /\ \A i \in 1 .. Len(below) : i \in 1 .. Len(s) /\ i # Len(s)
      /\ Len(s) \in 1 .. Len(s) /\ s[Len(s)] \in FrameRecord
  BY ButLast
<1> HIDE DEF below
<1> QED
  BY <1>1 DEF Frames, HasRun, below

LEMMA FramesPush ==
  ASSUME NEW s \in Seq(FrameRecord), NEW runs, NEW f \in FrameRecord, Frames(s, runs),
         f.kind \in RunKinds =>
           f.run \in RunIds /\ runs[f.run].why = "VM" /\ ~HasRun(s, f.run)
  PROVE  Frames(Append(s, f), runs)
<1> DEFINE t == Append(s, f)
<1>1. /\ Len(t) = Len(s) + 1 /\ Len(s) \in Nat /\ t[Len(t)] = f
      /\ \A i \in 1 .. Len(s) : t[i] = s[i]
  OBVIOUS
<1> HIDE DEF t
<1>2. \A i \in 1 .. Len(t) : i = Len(t) \/ i \in 1 .. Len(s)
  BY <1>1
<1> QED
  BY <1>1, <1>2 DEF Frames, HasRun, t

\* Frames remain right as long as the runs they have keep executing.
LEMMA FramesKeep ==
  ASSUME NEW s, NEW runs, NEW runs2, Frames(s, runs),
         \A q \in RunIds : HasRun(s, q) => runs2[q].why = "VM"
  PROVE  Frames(s, runs2)
BY DEF Frames, HasRun

LEMMA FramesWhy ==
  ASSUME NEW s, NEW runs, Frames(s, runs), NEW q \in RunIds, HasRun(s, q)
  PROVE  runs[q].why = "VM"
BY DEF Frames, HasRun

\* What a callback's return leaves where it was, and the run it goes on with.
LEMMA ReturnPlaces ==
  ASSUME Inv, Placed, NEW kind \in RunKinds, NEW r \in RunIds, Running(kind, r),
         NEW rec \in RunRecord, rec.why # "VM", NEW ps, Returns(r, rec, ps),
         \/ ps = paused
         \/ /\ rec.why = "PAUSE"
            /\ \E e \in PausedRecord : e.run = r /\ e.level = pause_depth' /\ ps = Append(paused, e),
         slot' = slot \/ (slot' = r /\ rec.why \in SlotWhys)
  PROVE  /\ Placed' /\ run[r].why = "VM" /\ run'[r] = rec
         /\ \A q \in RunIds \ {r} : /\ run'[q].chunk = run[q].chunk
                                    /\ run'[q].owns = run[q].owns
                                    /\ Live(q)' <=> Live(q)
<1>1. /\ run \in [RunIds -> RunRecord] /\ stack \in Seq(FrameRecord)
      /\ paused \in Seq(PausedRecord) /\ slot \in RunIds \cup {NoRun} /\ NoRun \notin RunIds
  BY SessionTypes, RunIdsFacts, TypeSplit DEF Inv, RunTypeOK
<1>2. /\ Below \in Seq(FrameRecord) /\ Frames(Below, run)
      /\ run[r].why = "VM" /\ ~HasRun(Below, r)
  <2>1. stack # <<>> /\ stack[Len(stack)] = Frame(kind, r)
    BY DEF Running, Top
  <2> QED
    BY <1>1, <2>1, FramesPop DEF Below, Placed, Frame
<1>3. slot # r /\ \A i \in 1 .. Len(paused) : paused[i].run # r
  BY <1>1, <1>2 DEF Placed, Parked, SlotWhys
<1>4. \A q \in RunIds : HasRun(Below, q) => run[q].why = "VM" /\ q # r
  BY <1>2, FramesWhy
<1>5. CASE ps = paused /\ paused # <<>> /\ paused[Len(paused)].level > pause_depth'
  <2> DEFINE p == paused[Len(paused)].run
  <2>1. p \in RunIds /\ p # r /\ run[p].why = "PAUSE"
    BY <1>1, <1>3, <1>5, SessionTypes DEF Placed, Parked
  <2>2. /\ paused' = SubSeq(paused, 1, Len(paused) - 1)
        /\ stack' = Append(Below, Frame("vm", p))
        /\ run' = [run EXCEPT ![r] = rec, ![p] = [@ EXCEPT !.why = "VM"]]
    BY <1>5 DEF Returns
  <2>3. /\ \A i \in 1 .. Len(paused') : /\ paused'[i] = paused[i]
                                        /\ i \in 1 .. Len(paused) /\ i # Len(paused)
        /\ Len(paused) \in 1 .. Len(paused)
    BY <1>1, <1>5, <2>2, ButLast
  <2>4. \A i \in 1 .. Len(paused') : paused'[i].run \in RunIds /\ paused'[i].run # p
    BY <1>1, <2>3, SessionTypes DEF Placed, Parked
  <2> HIDE DEF p
  <2>5. /\ run'[r] = rec /\ run'[p].why = "VM"
        /\ run'[p].chunk = run[p].chunk /\ run'[p].owns = run[p].owns
        /\ \A q \in RunIds \ {r, p} : run'[q] = run[q]
    BY <1>1, <2>1, <2>2 DEF RunRecord
  <2>6. Frames(Below, run')
    BY <1>2, <1>4, <2>1, <2>5, FramesKeep
  <2>7. Frames(stack', run')
    <3>1. /\ Frame("vm", p) \in FrameRecord
          /\ Frame("vm", p).run = p /\ ~HasRun(Below, p)
      BY <1>4, <2>1, BaseFacts DEF RunKinds, Frame
    <3> QED
      BY <1>2, <2>1, <2>2, <2>5, <2>6, <3>1, FramesPush
  <2>8. Parked(paused', run')
    BY <1>3, <2>3, <2>4, <2>5 DEF Placed, Parked
  <2>9. slot' # NoRun => run'[slot'].why \in SlotWhys
    BY <1>1, <1>3, <2>1, <2>5 DEF Placed, SlotWhys
  <2> QED
    BY <1>2, <2>1, <2>5, <2>7, <2>8, <2>9 DEF Placed, Live
<1>6. CASE ~(ps # <<>> /\ ps[Len(ps)].level > pause_depth')
  <2>1. paused' = ps /\ stack' = Below /\ run' = [run EXCEPT ![r] = rec]
    BY <1>6 DEF Returns
  <2>2. run'[r] = rec /\ \A q \in RunIds \ {r} : run'[q] = run[q]
    BY <1>1, <2>1
  <2>3. Frames(stack', run')
    <3>1. \A q \in RunIds : HasRun(Below, q) => run'[q].why = "VM"
      BY <1>4, <2>2
    <3>2. Frames(Below, run')
      BY <1>2, <3>1, FramesKeep
    <3> QED
      BY <2>1, <3>2
  <2>4. Parked(paused', run')
    <3>1. \A i \in 1 .. Len(paused) : paused[i].run \in RunIds \ {r}
      BY <1>3, SessionTypes
    <3>2. CASE ps = paused
      BY <2>1, <2>2, <3>1, <3>2 DEF Placed, Parked
    <3>3. ASSUME NEW e \in PausedRecord, e.run = r, ps = Append(paused, e), rec.why = "PAUSE"
          PROVE  Parked(ps, run')
      <4>1. /\ Len(ps) = Len(paused) + 1 /\ Len(paused) \in Nat /\ ps[Len(ps)] = e
            /\ \A i \in 1 .. Len(paused) : ps[i] = paused[i]
        BY <1>1, <3>3
      <4>2. \A i \in 1 .. Len(ps) : i = Len(ps) \/ i \in 1 .. Len(paused)
        BY <4>1
      <4> QED
        BY <2>2, <3>1, <3>3, <4>1, <4>2 DEF Placed, Parked
    <3> QED
      BY <2>1, <3>2, <3>3
  <2>5. slot' # NoRun => run'[slot'].why \in SlotWhys
    BY <1>1, <1>3, <2>2 DEF Placed
  <2> QED
    BY <1>2, <2>2, <2>3, <2>4, <2>5 DEF Placed, Live
<1>7. ASSUME NEW e \in PausedRecord, e.level = pause_depth', ps = Append(paused, e)
      PROVE  ~(ps # <<>> /\ ps[Len(ps)].level > pause_depth')
  <2>1. ps[Len(ps)] = e /\ e.level \in Int
    BY <1>1, <1>7, BoundsAssumption DEF PausedRecord
  <2> QED
    BY <1>7, <2>1
<1> QED
  BY <1>5, <1>6, <1>7

\* The C stack gets a frame on top, of a run that was nowhere on it.
LEMMA PushPlaces ==
  ASSUME Inv, Placed, NEW s \in Seq(FrameRecord), Frames(s, run), NEW kind \in RunKinds,
         NEW q \in RunIds, run[q].why # "VM", run[q].why # "PAUSE",
         stack' = Append(s, Frame(kind, q)), run'[q].why = "VM",
         \A p \in RunIds \ {q} : run'[p] = run[p],
         slot' = NoRun \/ (slot' = slot /\ slot # q), paused' = paused
  PROVE  Placed'
<1>1. \A p \in RunIds : HasRun(s, p) => run[p].why = "VM" /\ p # q
  BY FramesWhy
<1>2. Frames(s, run')
  BY <1>1, FramesKeep
<1>3. Frames(stack', run')
  <2>1. /\ Frame(kind, q) \in FrameRecord /\ Frame(kind, q).run = q /\ ~HasRun(s, q)
    BY <1>1, BaseFacts DEF Frame
  <2> QED
    BY <1>2, <2>1, FramesPush
<1>4. Parked(paused', run')
  <2>1. \A i \in 1 .. Len(paused) : paused[i].run \in RunIds \ {q}
    BY SessionTypes DEF Placed, Parked
  <2> QED
    BY <2>1 DEF Placed, Parked
<1>5. slot' # NoRun => run'[slot'].why \in SlotWhys
  BY SessionTypes DEF Placed
<1> QED
  BY <1>3, <1>4, <1>5 DEF Placed

\* The C stack becomes s, which has no other runs, and none is moved.
LEMMA SamePlaces ==
  ASSUME Inv, Placed, NEW s, Frames(s, run), stack' = s,
         \A q \in RunIds : run'[q].why = run[q].why,
         slot' = slot, paused' = paused
  PROVE  Placed'
<1>1. Frames(stack', run')
  BY FramesWhy, FramesKeep
<1>2. Parked(paused', run')
  BY SessionTypes DEF Placed, Parked
<1> QED
  BY <1>1, <1>2, SessionTypes DEF Placed

-----------------------------------------------------------------------------
(* What a step may do to the chunk of a run that lives.                    *)

\* A run that lives after a step lived before it, on the same chunk.
RunsKept ==
  \A q \in RunIds : Live(q)' =>
    Live(q) /\ run'[q].chunk = run[q].chunk /\ run'[q].owns = run[q].owns

\* What ChunksLetGo allows a step.
ChunksKept ==
  \A r \in RunIds : LET c == run[r].chunk IN
    Live(r) /\ Live(r)' /\ chunk'[c] # chunk[c] =>
      /\ ~run[r].owns
      /\ \A h \in Handlers : owner[h] = c => LetsGo(h)

\* The owner slots let go of chunks, and run r, if it ends, of its own.
LEMMA ReleaseKeeps ==
  ASSUME Inv, Borrowed, RunsKept, NEW r \in RunIds,
         NEW owners, NEW own, Release(owners, own),
         own = {} \/ (own = OwnChunk(r) /\ ~Live(r)'),
         \A h \in Handlers : owners[h] = owner[h] \/ LetsGo(h)
  PROVE  Borrowed' /\ ChunksKept
<1>1. /\ chunk \in [ChunkIds -> Shapes \cup {Freed}] /\ NoChunk \notin ChunkIds
      /\ \A c \in Owners(owner) : c \in ChunkIds
      /\ owner' = owners
      /\ \A c \in ChunkIds : chunk'[c] =
           IF c \in (Owners(owner) \ Owners(owners)) \cup own THEN Freed ELSE chunk[c]
  BY HandlerTypes, OwnedFacts DEF Release
<1>2. ASSUME NEW q \in RunIds, Live(q), Live(q)', chunk'[run[q].chunk] # chunk[run[q].chunk]
      PROVE  ~run[q].owns /\ run[q].chunk \in Owners(owner) \ Owners(owners)
  <2> DEFINE c == run[q].chunk
  <2>1. c \in ChunkIds /\ chunk[c] # Freed
        /\ c \in (Owners(owner) \ Owners(owners)) \cup own
    BY <1>1, <1>2 DEF Borrowed
  <2>2. ~run[q].owns => c \in Owners(owner)
    BY <1>2, <2>1 DEF Borrowed
  <2>3. run[q].owns => c \notin Owners(owner)
    BY <1>2, OwnedFacts
  <2>4. c \notin own
    <3> SUFFICES ASSUME c \in own PROVE FALSE
      OBVIOUS
    <3>1. run[r].owns /\ c = run[r].chunk /\ q # r
      BY <1>2 DEF OwnChunk
    <3>2. Live(r)
      BY <3>1 DEF Inv, FreeOwnsNothing, Live
    <3>3. c \notin Owners(owner)
      BY <3>1, <3>2, OwnedFacts
    <3> QED
      BY <1>2, <2>2, <3>1, <3>2, <3>3 DEF Inv, ChunkOwnership, OwnedRuns
  <2> QED
    BY <2>1, <2>2, <2>3, <2>4
<1>3. ChunksKept
  <2> SUFFICES ASSUME NEW q \in RunIds, Live(q), Live(q)',
                      chunk'[run[q].chunk] # chunk[run[q].chunk]
               PROVE  /\ ~run[q].owns
                      /\ \A h \in Handlers : owner[h] = run[q].chunk => LetsGo(h)
    BY DEF ChunksKept
  <2>1. ~run[q].owns /\ run[q].chunk \in Owners(owner) \ Owners(owners)
    BY <1>2
  <2>2. ASSUME NEW h \in Handlers, owner[h] = run[q].chunk PROVE owners[h] # owner[h]
    BY <2>1, <2>2 DEF Owners
  <2> QED
    BY <2>1, <2>2
<1>4. Borrowed'
  <2> SUFFICES ASSUME NEW q \in RunIds, Live(q)'
               PROVE  /\ run'[q].chunk \in ChunkIds
                      /\ ~run'[q].owns /\ chunk'[run'[q].chunk] # Freed
                           => run'[q].chunk \in Owners(owner)'
    BY DEF Borrowed
  <2>1. Live(q) /\ run'[q].chunk = run[q].chunk /\ run'[q].owns = run[q].owns
    BY DEF RunsKept
  <2>2. run[q].chunk \in ChunkIds
    BY <2>1 DEF Borrowed
  <2>3. ASSUME ~run[q].owns, chunk'[run[q].chunk] # Freed PROVE run[q].chunk \in Owners(owners)
    <3>1. chunk[run[q].chunk] # Freed /\ run[q].chunk \notin Owners(owner) \ Owners(owners)
      BY <1>1, <2>2, <2>3
    <3> QED
      BY <2>1, <2>3, <3>1 DEF Borrowed
  <2>4. Owners(owner)' = Owners(owners)
    BY <1>1 DEF Owners
  <2> QED
    BY <2>1, <2>2, <2>3, <2>4
<1> QED
  BY <1>3, <1>4

\* handle_vm_result's own letting go is of events that are off.
LEMMA UnclearedLetGo == \A h \in Handlers : Uncleared[h] = owner[h] \/ LetsGo(h)
BY DEF Uncleared, LetsGo

\* A step that leaves the chunks and the owner slots alone.
LEMMA SameChunks ==
  ASSUME Borrowed, RunsKept, UNCHANGED chunkVars
  PROVE  Borrowed' /\ ChunksKept
<1>1. ChunksKept
  BY DEF ChunksKept, chunkVars
<1>2. Owners(owner)' = Owners(owner)
  BY DEF Owners, chunkVars
<1> QED
  BY <1>1, <1>2 DEF Borrowed, RunsKept, chunkVars

-----------------------------------------------------------------------------
(* The steps, once more.                                                   *)

\* Runs and chunks where they are, and whose they are.
ChunksInv == Inv /\ Placed /\ Borrowed

LEMMA SuspendChunks ==
  ASSUME ChunksInv, NEW r \in RunIds,
         \/ \E op \in {"WAIT", "ANIMATE"} : SuspendOnTimer(r, op)
         \/ SuspendOnKey(r) \/ SuspendOnInput(r)
  PROVE  Placed' /\ Borrowed' /\ ChunksKept
<1> USE DEF ChunksInv
<1>1. PICK op \in SlotWhys :
        /\ Running("vm", r) /\ Performs(r, op) /\ Release(Uncleared, {})
        /\ slot' = r /\ Returns(r, Suspends(r, op), paused)
  BY DEF SuspendOnTimer, SuspendOnKey, SuspendOnInput, SlotWhys
<1> DEFINE rec == Suspends(r, op)
<1>2. /\ rec \in RunRecord /\ rec.owns = run[r].owns /\ rec.chunk = run[r].chunk
      /\ rec.why = op /\ op # "VM" /\ op # "FREE"
  BY <1>1, SpentType DEF Inv, AllOps, Whys, SlotWhys
<1> HIDE DEF rec
<1>3. /\ Placed' /\ run[r].why = "VM" /\ run'[r] = rec
      /\ \A q \in RunIds \ {r} : /\ run'[q].chunk = run[q].chunk
                                 /\ run'[q].owns = run[q].owns
                                 /\ Live(q)' <=> Live(q)
  BY <1>1, <1>2, ReturnPlaces DEF RunKinds, rec
<1>4. RunsKept
  BY <1>2, <1>3 DEF RunsKept, Live
<1> QED
  BY <1>1, <1>3, <1>4, UnclearedLetGo, ReleaseKeeps

LEMMA PauseChunks ==
  ASSUME ChunksInv, NEW r \in RunIds, Pause(r)
  PROVE  Placed' /\ Borrowed' /\ ChunksKept
<1> USE DEF ChunksInv
<1>1. /\ Running("vm", r) /\ Performs(r, "PAUSE") /\ slot' = slot
      /\ pause_depth' \in 0 .. MaxDepth
  BY SessionTypes, BoundsAssumption DEF Pause, waitVars
<1> DEFINE fits == Len(paused) < MaxPaused
           rec == IF fits THEN Suspends(r, "PAUSE") ELSE FreeRun
           e == [run |-> r, level |-> pause_depth']
<1>2. /\ rec \in RunRecord
      /\ fits => rec.owns = run[r].owns /\ rec.chunk = run[r].chunk /\ rec.why = "PAUSE"
      /\ ~fits => rec.why = "FREE"
  BY <1>1, SpentType, FreeRunType DEF Inv, AllOps, Whys
<1>3. e \in PausedRecord /\ e.run = r /\ e.level = pause_depth'
  BY <1>1 DEF PausedRecord
<1>4. /\ Returns(r, rec, IF fits THEN Append(paused, e) ELSE paused)
      /\ Release(Uncleared, IF fits THEN {} ELSE OwnChunk(r))
  BY DEF Pause
<1> HIDE DEF rec, e
<1>5. /\ Placed' /\ run[r].why = "VM" /\ run'[r] = rec
      /\ \A q \in RunIds \ {r} : /\ run'[q].chunk = run[q].chunk
                                 /\ run'[q].owns = run[q].owns
                                 /\ Live(q)' <=> Live(q)
  BY <1>1, <1>2, <1>3, <1>4, ReturnPlaces DEF RunKinds
<1>6. RunsKept /\ (~fits => ~Live(r)')
  BY <1>2, <1>5 DEF RunsKept, Live
<1> QED
  BY <1>4, <1>5, <1>6, UnclearedLetGo, ReleaseKeeps

\* A run ends; at a script's own end slots may adopt its chunk.
LEMMA EndChunks ==
  ASSUME ChunksInv, NEW r \in RunIds, Halt(r) \/ AwaitOutside(r) \/ AgentsDone(r)
  PROVE  Placed' /\ Borrowed' /\ ChunksKept
<1> USE DEF ChunksInv
<1>1. PICK kind \in RunKinds :
        Running(kind, r) /\ Returns(r, FreeRun, paused) /\ slot' = slot
  BY DEF Halt, AwaitOutside, AgentsDone, RunKinds, waitVars
<1>2. /\ Placed' /\ run[r].why = "VM" /\ run'[r] = FreeRun
      /\ \A q \in RunIds \ {r} : /\ run'[q].chunk = run[q].chunk
                                 /\ run'[q].owns = run[q].owns
                                 /\ Live(q)' <=> Live(q)
  BY <1>1, FreeRunType, ReturnPlaces
<1>3. RunsKept /\ ~Live(r)'
  BY <1>2, FreeRunType DEF RunsKept, Live
<1>4. CASE Halt(r)
  <2> DEFINE owners == [h \in Handlers |-> IF Adopts(r, h) THEN run[r].chunk ELSE Uncleared[h]]
             own == IF \E h \in Handlers : Adopts(r, h) THEN {} ELSE OwnChunk(r)
  <2>1. Release(owners, own) /\ Running("vm", r)
    BY <1>4 DEF Halt
  <2>2. \A h \in Handlers : owners[h] = owner[h] \/ LetsGo(h)
    BY <1>3, <2>1, UnclearedLetGo DEF LetsGo
  <2>3. own = {} \/ own = OwnChunk(r)
    OBVIOUS
  <2> HIDE DEF owners, own
  <2> QED
    BY <1>2, <1>3, <2>1, <2>2, <2>3, ReleaseKeeps
<1>5. CASE AwaitOutside(r)
  BY <1>2, <1>3, <1>5, UnclearedLetGo, ReleaseKeeps DEF AwaitOutside
<1>6. CASE AgentsDone(r)
  BY <1>2, <1>3, <1>6, ReleaseKeeps DEF AgentsDone
<1> QED
  BY <1>4, <1>5, <1>6

LEMMA LaunchChunks ==
  ASSUME ChunksInv, NEW r \in RunIds, Launch(r)
  PROVE  Placed' /\ Borrowed' /\ ChunksKept
<1> USE DEF ChunksInv
<1>1. /\ Running("vm", r) /\ Performs(r, "LAUNCH") /\ Release(Uncleared, {})
      /\ stack' = Append(Below, Frame("agents", r)) /\ slot' = slot /\ paused' = paused
      /\ run' = [run EXCEPT ![r] = Spent(r, "LAUNCH")]
  BY DEF Launch, waitVars, pauseVars
<1> DEFINE rec == Spent(r, "LAUNCH")
<1>2. rec.owns = run[r].owns /\ rec.chunk = run[r].chunk /\ rec.why = run[r].why
  BY <1>1, SpentType DEF Inv, AllOps
<1> HIDE DEF rec
<1>3. run'[r] = rec /\ \A q \in RunIds \ {r} : run'[q] = run[q]
  BY <1>1, HandlerTypes DEF rec
<1>4. RunsKept
  BY <1>2, <1>3 DEF RunsKept, Live
<1>5. Frames(stack', run)
  <2>1. stack \in Seq(FrameRecord) /\ stack # <<>> /\ stack[Len(stack)] = Frame("vm", r)
    BY <1>1, TypeSplit DEF Inv, RunTypeOK, Running, Top
  <2>2. /\ Below \in Seq(FrameRecord) /\ Frames(Below, run)
        /\ run[r].why = "VM" /\ ~HasRun(Below, r)
    BY <2>1, FramesPop DEF Below, Placed, Frame, RunKinds
  <2>3. Frame("agents", r) \in FrameRecord /\ Frame("agents", r).run = r
    BY BaseFacts DEF RunKinds, Frame
  <2> QED
    BY <1>1, <2>2, <2>3, FramesPush
<1>6. Placed'
  BY <1>1, <1>2, <1>3, <1>5, SamePlaces
<1> QED
  BY <1>1, <1>4, <1>6, UnclearedLetGo, ReleaseKeeps

\* A frame that is no run's comes or goes.
LEMMA OtherFrames ==
  ASSUME ChunksInv
  PROVE  /\ Frames(Append(stack, Frame("mousex", NoRun)), run)
         /\ Frames(Append(stack, KeyFrame), run) /\ Append(stack, KeyFrame) \in Seq(FrameRecord)
         /\ stack # <<>> => Frames(Below, run) /\ Below \in Seq(FrameRecord)
<1>1. stack \in Seq(FrameRecord) /\ Frames(stack, run)
  BY TypeSplit DEF ChunksInv, Inv, RunTypeOK, Placed
<1>2. /\ Frame("mousex", NoRun) \in FrameRecord /\ KeyFrame \in FrameRecord
      /\ Frame("mousex", NoRun).kind \notin RunKinds /\ KeyFrame.kind \notin RunKinds
  BY FrameType DEF KeyFrame, Frame, FrameKinds, RunKinds
<1>3. stack # <<>> => Frames(Below, run) /\ Below \in Seq(FrameRecord)
  BY <1>1, FramesPop DEF Below
<1> QED
  BY <1>1, <1>2, <1>3, FramesPush, SequenceFacts

LEMMA ExecuteChunks ==
  ASSUME ChunksInv, NEW r \in RunIds,
         \/ \E h \in Handlers, n \in Names : On(r, h, n)
         \/ \E h \in Handlers : Off(r, h)
         \/ exec_continue(r) \/ AgentPause(r) \/ Drain(r)
  PROVE  Placed' /\ Borrowed' /\ ChunksKept
<1> USE DEF ChunksInv
<1>1. PICK op \in AllOps :
        /\ Executes(r, op) /\ UNCHANGED chunkVars /\ slot' = slot /\ paused' = paused
        /\ stack' = stack \/ stack' = Append(stack, Frame("mousex", NoRun))
  BY DEF On, Off, exec_continue, AgentPause, Drain, AllOps, waitVars, pauseVars
<1> DEFINE rec == Spent(r, op)
<1>2. rec.owns = run[r].owns /\ rec.chunk = run[r].chunk /\ rec.why = run[r].why
  BY <1>1, SpentType DEF Inv, Executes
<1>3. run'[r] = rec /\ \A q \in RunIds \ {r} : run'[q] = run[q]
  BY <1>1, HandlerTypes DEF Executes
<1> HIDE DEF rec
<1>4. RunsKept
  BY <1>2, <1>3 DEF RunsKept, Live
<1>5. Placed'
  BY <1>1, <1>2, <1>3, OtherFrames, SamePlaces DEF Placed
<1> QED
  BY <1>1, <1>4, <1>5, SameChunks

\* A frame that is no run's is popped.
LEMMA PopChunks ==
  ASSUME ChunksInv, Drained \/ KeyDone
  PROVE  Placed' /\ Borrowed' /\ ChunksKept
<1> USE DEF ChunksInv
<1>1. /\ stack # <<>> /\ stack' = Below /\ UNCHANGED chunkVars /\ run' = run
      /\ slot' = slot /\ paused' = paused
  BY DEF Drained, KeyDone, Running, waitVars, pauseVars
<1>2. Frames(Below, run)
  BY <1>1, OtherFrames
<1>3. RunsKept
  BY <1>1 DEF RunsKept, Live
<1>4. Placed'
  BY <1>1, <1>2, SamePlaces
<1> QED
  BY <1>1, <1>3, <1>4, SameChunks

\* A script's run is new, and so is its chunk: no run was on it.
LEMMA ScriptChunks ==
  ASSUME ChunksInv, NEW shape \in Shapes, NEW s \in Seq(FrameRecord), Frames(s, run),
         run_logo_script(shape, s)
  PROVE  Placed' /\ Borrowed' /\ ChunksKept
<1> USE DEF ChunksInv
<1>1. PICK c \in ChunkIds, r \in RunIds :
        /\ FreshChunk(c) /\ chunk' = [chunk EXCEPT ![c] = shape]
        /\ Starts(r, c, TRUE, s)
  BY DEF run_logo_script
<1>2. owner' = owner /\ slot' = NoRun /\ paused' = paused
  BY DEF run_logo_script, waitVars, pauseVars
<1>3. /\ run[r] = FreeRun /\ stack' = Append(s, Frame("vm", r))
      /\ run'[r].chunk = c /\ run'[r].owns /\ run'[r].why = "VM"
      /\ \A q \in RunIds \ {r} : run'[q] = run[q]
  BY <1>1, HandlerTypes DEF Starts
<1>4. Placed'
  BY <1>2, <1>3, FreeRunType, PushPlaces DEF RunKinds
<1>5. \A q \in RunIds : Live(q) => run[q].chunk \in ChunkIds /\ run[q].chunk # c
  BY <1>1 DEF Borrowed, FreshChunk
<1>6. \A d \in ChunkIds : d # c => chunk'[d] = chunk[d]
  BY <1>1, HandlerTypes
<1>7. ChunksKept
  BY <1>5, <1>6 DEF ChunksKept
<1>8. Owners(owner)' = Owners(owner)
  BY <1>2 DEF Owners
<1>9. \A q \in RunIds \ {r} : Live(q)' <=> Live(q)
  BY <1>3 DEF Live
<1>10. Borrowed'
  BY <1>3, <1>5, <1>6, <1>8, <1>9 DEF Borrowed
<1> QED
  BY <1>4, <1>7, <1>10

\* A handler's run is new, on the chunk its event's slot retains.
LEMMA FireChunks ==
  ASSUME ChunksInv, NEW h \in Handlers, NEW s \in Seq(FrameRecord), Frames(s, run),
         fire_handler(h, s)
  PROVE  Placed' /\ Borrowed' /\ ChunksKept
<1> USE DEF ChunksInv
<1>1. PICK r \in RunIds : Starts(r, owner[h], FALSE, s)
  BY DEF fire_handler
<1>2. /\ owner' = owner /\ chunk' = chunk /\ slot' = NoRun /\ paused' = paused
      /\ owner[h] # NoChunk
  BY DEF fire_handler, Fires, waitVars, pauseVars, chunkVars
<1>3. /\ run[r] = FreeRun /\ stack' = Append(s, Frame("vm", r))
      /\ run'[r].chunk = owner[h] /\ run'[r].why = "VM"
      /\ \A q \in RunIds \ {r} : run'[q] = run[q]
  BY <1>1, HandlerTypes DEF Starts
<1>4. Placed'
  BY <1>2, <1>3, FreeRunType, PushPlaces DEF RunKinds
<1>5. ChunksKept
  BY <1>2 DEF ChunksKept
<1>6. Owners(owner)' = Owners(owner) /\ owner[h] \in Owners(owner) /\ owner[h] \in ChunkIds
  BY <1>2, OwnedFacts DEF Owners
<1>7. \A q \in RunIds \ {r} : Live(q)' <=> Live(q)
  BY <1>3 DEF Live
<1>8. Borrowed'
  BY <1>2, <1>3, <1>6, <1>7 DEF Borrowed
<1> QED
  BY <1>4, <1>5, <1>8

\* The run in the slot goes on, on its own chunk.
LEMMA ResumeChunks ==
  ASSUME ChunksInv, WaitKeyPress \/ InputReturn \/ TimerStep
  PROVE  Placed' /\ Borrowed' /\ ChunksKept
<1> USE DEF ChunksInv
<1>1. /\ slot \in RunIds /\ slot' = NoRun /\ UNCHANGED chunkVars /\ paused' = paused
      /\ run' = [run EXCEPT ![slot].why = "VM"]
      /\ stack' = Append(stack, Frame("vm", slot))
  BY SessionTypes DEF WaitKeyPress, InputReturn, TimerStep, Timeout, ResumeSlot, pauseVars
<1>2. run[slot].why # "VM" /\ run[slot].why # "PAUSE" /\ run[slot].why # "FREE"
  BY <1>1, RunIdsFacts DEF Placed, SlotWhys
<1>3. /\ run'[slot].why = "VM" /\ run'[slot].chunk = run[slot].chunk
      /\ run'[slot].owns = run[slot].owns
      /\ \A q \in RunIds \ {slot} : run'[q] = run[q]
  BY <1>1, HandlerTypes DEF RunRecord
<1>4. stack \in Seq(FrameRecord) /\ Frames(stack, run)
  BY TypeSplit DEF Inv, RunTypeOK, Placed
<1>5. Placed'
  BY <1>1, <1>2, <1>3, <1>4, PushPlaces DEF RunKinds
<1>6. RunsKept
  BY <1>2, <1>3 DEF RunsKept, Live
<1> QED
  BY <1>1, <1>5, <1>6, SameChunks

\* The window goes, and the run in the slot with it.
LEMMA DestroyChunks ==
  ASSUME ChunksInv, on_window_destroy
  PROVE  Placed' /\ Borrowed' /\ ChunksKept
<1> USE DEF ChunksInv
<1>1. slot' = NoRun /\ paused' = paused /\ stack' = stack /\ owner' = owner
  BY DEF on_window_destroy, pauseVars
<1>2. CASE slot = NoRun
  <2>1. chunk' = chunk /\ run' = run
    BY <1>2 DEF on_window_destroy
  <2>2. RunsKept
    BY <2>1 DEF RunsKept, Live
  <2>3. Placed'
    BY <1>1, <1>2, <2>1, SamePlaces DEF Placed
  <2> QED
    BY <1>1, <2>1, <2>2, <2>3, SameChunks DEF chunkVars
<1>3. CASE slot # NoRun
  <2>1. PICK r \in RunIds : r = slot
    BY <1>3, SessionTypes
  <2>2. /\ run' = [run EXCEPT ![r] = FreeRun]
        /\ chunk' = [c \in ChunkIds |-> IF c \in OwnChunk(r) THEN Freed ELSE chunk[c]]
    BY <1>3, <2>1 DEF on_window_destroy
  <2>3. run'[r] = FreeRun /\ \A q \in RunIds \ {r} : run'[q] = run[q]
    BY <2>2, HandlerTypes
  <2>4. run[r].why \in SlotWhys
    BY <1>3, <2>1 DEF Placed
  <2>5. Frames(stack, run')
    <3>1. \A q \in RunIds : HasRun(stack, q) => run[q].why = "VM" /\ q # r
      BY <2>4, FramesWhy DEF Placed, SlotWhys
    <3> QED
      BY <2>3, <3>1, FramesKeep DEF Placed
  <2>6. Parked(paused, run')
    <3>1. \A i \in 1 .. Len(paused) : paused[i].run \in RunIds \ {r}
      BY <2>4, SessionTypes DEF Placed, Parked, SlotWhys
    <3> QED
      BY <2>3, <3>1 DEF Placed, Parked
  <2>7. Placed'
    BY <1>1, <2>5, <2>6 DEF Placed
  <2>8. RunsKept /\ ~Live(r)'
    BY <2>3, FreeRunType DEF RunsKept, Live
  <2>9. Release(owner, OwnChunk(r))
    BY <1>1, <2>2 DEF Release
  <2> QED
    BY <2>1, <2>7, <2>8, <2>9, ReleaseKeeps
<1> QED
  BY <1>2, <1>3

LEMMA ChunksInit == Init => Placed /\ Borrowed
<1> SUFFICES ASSUME Init PROVE Placed /\ Borrowed
  OBVIOUS
<1>1. stack = <<>> /\ slot = NoRun /\ paused = <<>> /\ \A r \in RunIds : ~Live(r)
  BY FreeRunType DEF Init, Live
<1>2. Placed
  BY <1>1 DEF Placed, Frames, Parked
<1> QED
  BY <1>1, <1>2 DEF Borrowed

\* Every step keeps the invariant, and lets go of no chunk that it may not.
LEMMA ChunksStep == ChunksInv /\ [Next]_vars => Placed' /\ Borrowed' /\ ChunksKept
<1> SUFFICES ASSUME ChunksInv, [Next]_vars PROVE Placed' /\ Borrowed' /\ ChunksKept
  OBVIOUS
<1>1. CASE VmStep
  BY <1>1, SuspendChunks, PauseChunks, EndChunks, LaunchChunks, ExecuteChunks DEF VmStep
<1>2. CASE Drained \/ KeyStep
  <2>1. ASSUME NEW shape \in Shapes, KeyReturn(shape) PROVE Placed' /\ Borrowed' /\ ChunksKept
    <3>1. Frames(Below, run) /\ Below \in Seq(FrameRecord) /\ run_logo_script(shape, Below)
      BY <2>1, OtherFrames DEF KeyReturn, Running
    <3> QED
      BY <3>1, ScriptChunks
  <2> QED
    BY <1>2, <2>1, PopChunks DEF KeyStep
<1>3. CASE UserStep
  <2>1. /\ stack \in Seq(FrameRecord) /\ Frames(stack, run)
        /\ Append(stack, KeyFrame) \in Seq(FrameRecord) /\ Frames(Append(stack, KeyFrame), run)
    BY TypeSplit, OtherFrames DEF ChunksInv, Inv, RunTypeOK, Placed
  <2>2. CASE \E shape \in Shapes : Submit(shape)
    BY <2>1, <2>2, ScriptChunks DEF Submit
  <2>3. CASE \E h \in Handlers : Event(h)
    BY <2>1, <2>3, FireChunks DEF Event
  <2>4. CASE KeyPress
    BY <2>1, <2>4, FireChunks DEF KeyPress, KeyFrame
  <2> QED
    BY <1>3, <2>2, <2>3, <2>4, ResumeChunks, DestroyChunks DEF UserStep
<1>4. CASE TimerStep
  BY <1>4, ResumeChunks
<1>5. CASE UNCHANGED vars
  <2>1. UNCHANGED chunkVars /\ run' = run /\ stack' = stack /\ slot' = slot /\ paused' = paused
    BY <1>5 DEF vars, chunkVars
  <2>2. RunsKept
    BY <2>1 DEF RunsKept, Live
  <2>3. Placed'
    BY <2>1, SamePlaces DEF ChunksInv, Placed
  <2> QED
    BY <2>1, <2>2, <2>3, SameChunks DEF ChunksInv
<1> QED
  BY <1>1, <1>2, <1>3, <1>4, <1>5 DEF Next

\* Nothing frees the chunk of a run that goes on or will, executing, waiting or
\* paused, but that every event whose slot retains it is off or is redefined by
\* the script that just ended; and then it is a handler's, which borrows it.  So
\* a release of a shared chunk, a run's end, a LAUNCH, a refused PAUSE and a
\* closed window free nothing that another run executes: for every vocabulary,
\* events in the middle of runs and CONTINUE anywhere included.
THEOREM ChunksGoOnlyWhenLetGo == Spec => ChunksLetGo
<1>1. Inv /\ Placed /\ Borrowed /\ [Next]_vars => Placed' /\ Borrowed' /\ ChunksKept
  BY ChunksStep DEF ChunksInv
<1>2. Spec => [](Placed /\ Borrowed)
  BY <1>1, ChunksInit, DriverInvariant, PTL DEF Spec
<1>3. Spec => [][ChunksKept]_vars
  BY <1>1, <1>2, DriverInvariant, PTL DEF Spec
<1> QED
  BY <1>3, PTL DEF ChunksLetGo, ChunksKept

=============================================================================
