------------------------------- MODULE Agents -------------------------------
(***************************************************************************)
(* src/agent.c: the synchronous cooperative scheduler behind LAUNCH, AWAIT *)
(* and YIELD.  scheduler_run() keeps an array of agents, gives every READY *)
(* one a turn per pass, and swaps the LogoApp fields the VM reads and      *)
(* writes directly (throw_requested/throw_tag, run_depth, current_turtle)  *)
(* in and out around each turn.                                            *)
(*                                                                         *)
(* A turn is one vm_run/vm_resume call.  What the Logo program does in it  *)
(* is free: any sequence of the VM operations that touch a shared field    *)
(* (THROW, CATCH, TELL, RUN, LOAD or a template), then any result.         *)
(*                                                                         *)
(* Data abstractions: THROW's tag is the number of the agent that threw it *)
(* (so a flag that leaks into another agent's turn is recognised); a       *)
(* launch target stands for the pc and the argument scope LAUNCH resolved. *)
(***************************************************************************)
EXTENDS Integers, Sequences, FiniteSets

CONSTANTS
  MaxTurtles,     \* MAX_TURTLES
  MaxRunDepth,    \* MAX_RUN_DEPTH, RUN's recursion cap
  MaxOps,         \* bound: VM operations one agent's program performs
  MaxNest,        \* bound: depth of nested vm_run calls in a turn
  Tells,          \* the arguments the program gives to TELL
  Procs,          \* what LAUNCH can name
  Main,           \* the code the initial agent is in
  NoProc          \* no code: calloc's zero

ASSUME MaxTurtlesAssumption == MaxTurtles \in Nat \ {0}
ASSUME BoundsAssumption == MaxRunDepth \in Nat /\ MaxOps \in Nat /\ MaxNest \in Nat
ASSUME TellsAssumption == Tells \subseteq 0 .. MaxTurtles - 1
ASSUME CodeAssumption == Main \notin Procs /\ NoProc \notin Procs \cup {Main}

AgentIds == 0 .. MaxTurtles - 1
NoThrow == -1

AgentStates == {"UNUSED", "READY", "WAITING_JOIN", "FINISHED"}
NestKinds == {"RUN", "LOAD", "TEMPLATE"}

VARIABLES
  \* the LogoApp fields every agent's turn shares
  throw,            \* throw_requested and throw_tag: NoThrow, or who threw
  run_depth,
  current_turtle,
  turtle_count,
  \* scheduler_run's locals
  phase,            \* "start", "pass" (between turns), "turn", "done"
  cursor,           \* i, the agent this pass has come to
  any_ready,
  agent_count,
  \* the Agent structs, agents[MAX_TURTLES]
  state,
  started,
  turtle_index,
  saved_throw,
  saved_depth,
  launch,           \* vm.launch_target_pc and vm.launch_scope
  \* the VMs
  proc,             \* the code each agent's vm is in
  nest,             \* the nested vm_run calls of the running turn, outermost first
  ops_left,         \* what is left of MaxOps
  from_script       \* is the initial agent a script (not an event handler's run)?

appVars == <<throw, run_depth, current_turtle, turtle_count>>
loopVars == <<phase, cursor, any_ready>>
agentVars == <<agent_count, state, started, turtle_index, launch>>
savedVars == <<saved_throw, saved_depth>>
vmVars == <<proc, nest, ops_left>>
vars == <<throw, run_depth, current_turtle, turtle_count, phase, cursor, any_ready,
          agent_count, state, started, turtle_index, saved_throw, saved_depth, launch,
          proc, nest, ops_left, from_script>>

-----------------------------------------------------------------------------
(* handle_vm_result's LAUNCH case builds the initial agent from a run that *)
(* is suspended on its first LAUNCH, wherever that run's turtle is.  A     *)
(* throw can be pending: (LIST thrower launcher) evaluates on after a      *)
(* procedure that threw.                                                   *)
Init ==
  /\ throw \in {NoThrow, 0}
  /\ run_depth = 0
  /\ turtle_count \in 1 .. MaxTurtles
  /\ current_turtle \in 0 .. turtle_count - 1
  /\ phase = "start" /\ cursor = 0 /\ any_ready = FALSE
  /\ agent_count = 1
  /\ state = [i \in AgentIds |-> IF i = 0 THEN "READY" ELSE "UNUSED"]
  /\ started = [i \in AgentIds |-> i = 0]
  /\ turtle_index = [i \in AgentIds |-> IF i = 0 THEN current_turtle ELSE 0]
  /\ saved_throw = [i \in AgentIds |-> IF i = 0 THEN throw ELSE NoThrow]
  /\ saved_depth = [i \in AgentIds |-> 0]
  /\ \E p \in Procs : launch = [i \in AgentIds |-> IF i = 0 THEN p ELSE NoProc]
  /\ proc = [i \in AgentIds |-> IF i = 0 THEN Main ELSE NoProc]
  /\ nest = <<>>
  /\ ops_left = [i \in AgentIds |-> MaxOps]
  /\ from_script \in BOOLEAN

(* spawn_agent: the next unused turtle and the next slot of agents[], or   *)
(* nothing but a message when every turtle is taken.  `launches` is launch *)
(* after the launching agent has left its own target in its vm.            *)
CanSpawn_OffByOne == turtle_count <= MaxTurtles

CanSpawn == turtle_count < MaxTurtles

\* The new agent's turtle is not counted as taken.
spawn_agent_TurtleNotTaken(launches, target) ==
  IF CanSpawn
  THEN /\ turtle_index' = [turtle_index EXCEPT ![agent_count] = turtle_count]
       /\ launch' = [launches EXCEPT ![agent_count] = target]
       /\ state' = [state EXCEPT ![agent_count] = "READY"]
       /\ agent_count' = agent_count + 1
       /\ UNCHANGED turtle_count
  ELSE /\ launch' = launches
       /\ UNCHANGED <<turtle_index, turtle_count, state, agent_count>>

\* The new agent's turtle is the one with the agent's own number.
spawn_agent_TurtleOfSlot(launches, target) ==
  IF CanSpawn
  THEN /\ turtle_index' = [turtle_index EXCEPT ![agent_count] = agent_count]
       /\ turtle_count' = turtle_count + 1
       /\ launch' = [launches EXCEPT ![agent_count] = target]
       /\ state' = [state EXCEPT ![agent_count] = "READY"]
       /\ agent_count' = agent_count + 1
  ELSE /\ launch' = launches
       /\ UNCHANGED <<turtle_index, turtle_count, state, agent_count>>

spawn_agent(launches, target) ==
  IF CanSpawn
  THEN /\ turtle_index' = [turtle_index EXCEPT ![agent_count] = turtle_count]
       /\ turtle_count' = turtle_count + 1
       /\ launch' = [launches EXCEPT ![agent_count] = target]
       /\ state' = [state EXCEPT ![agent_count] = "READY"]
       /\ agent_count' = agent_count + 1
  ELSE /\ launch' = launches
       /\ UNCHANGED <<turtle_index, turtle_count, state, agent_count>>

(* The one launch that is already pending when scheduler_run is called.    *)
Start ==
  /\ phase = "start"
  /\ spawn_agent(launch, launch[0])
  /\ phase' = "pass"
  /\ UNCHANGED <<throw, run_depth, current_turtle, cursor, any_ready, started,
                 saved_throw, saved_depth, proc, nest, ops_left, from_script>>

(* `if (a->state != AGENT_READY) continue;`                                *)
Skip ==
  /\ phase = "pass" /\ cursor < agent_count
  /\ state[cursor] # "READY"
  /\ cursor' = cursor + 1
  /\ UNCHANGED <<appVars, phase, any_ready, agentVars, savedVars, vmVars, from_script>>

(* agent_restore_state.                                                    *)
agent_restore_state_KeepsThrow(a) ==
  /\ run_depth' = saved_depth[a]
  /\ current_turtle' = turtle_index[a]
  /\ UNCHANGED throw

agent_restore_state(a) ==
  /\ throw' = saved_throw[a]
  /\ run_depth' = saved_depth[a]
  /\ current_turtle' = turtle_index[a]

\* Every turn enters the launch target, as if none had been started.
BeginTurn_ForgetsStarted ==
  /\ phase = "pass" /\ cursor < agent_count
  /\ state[cursor] = "READY"
  /\ any_ready' = TRUE
  /\ agent_restore_state(cursor)
  /\ proc' = [proc EXCEPT ![cursor] = launch[cursor]]
  /\ started' = [started EXCEPT ![cursor] = FALSE]
  /\ phase' = "turn"
  /\ UNCHANGED <<turtle_count, cursor, agent_count, state, turtle_index, launch,
                 savedVars, nest, ops_left, from_script>>

(* A READY agent's turn begins: the first one enters its launch target,    *)
(* any later one resumes where it was.                                     *)
BeginTurn ==
  /\ phase = "pass" /\ cursor < agent_count
  /\ state[cursor] = "READY"
  /\ any_ready' = TRUE
  /\ agent_restore_state(cursor)
  /\ started' = [started EXCEPT ![cursor] = TRUE]
  /\ proc' = IF started[cursor] THEN proc
             ELSE [proc EXCEPT ![cursor] = launch[cursor]]
  /\ phase' = "turn"
  /\ UNCHANGED <<turtle_count, cursor, agent_count, state, turtle_index, launch,
                 savedVars, nest, ops_left, from_script>>

-----------------------------------------------------------------------------
(* What the running agent's program does to the shared fields.             *)

\* One more operation of the running agent's program.
Spend ==
  /\ ops_left[cursor] > 0
  /\ ops_left' = [ops_left EXCEPT ![cursor] = @ - 1]

\* Nothing changes but the shared field the operation writes, and ops_left.
OnlyTheVm ==
  UNCHANGED <<phase, cursor, any_ready, agentVars, savedVars, proc, from_script>>

Throw ==
  /\ phase = "turn" /\ Spend
  /\ throw' = cursor
  /\ UNCHANGED <<run_depth, current_turtle, turtle_count, nest>> /\ OnlyTheVm

\* The end of a CATCH block: clears a throw of the CATCH's own tag.
Catch(tag) ==
  /\ phase = "turn" /\ Spend
  /\ throw' = IF throw = tag THEN NoThrow ELSE throw
  /\ UNCHANGED <<run_depth, current_turtle, turtle_count, nest>> /\ OnlyTheVm

\* TELL creates every turtle up to n, and makes n the current one.
Tell(n) ==
  /\ phase = "turn" /\ Spend
  /\ turtle_count' = IF n >= turtle_count THEN n + 1 ELSE turtle_count
  /\ current_turtle' = n
  /\ UNCHANGED <<throw, run_depth, nest>> /\ OnlyTheVm

\* exec_run (and EXECTIME), exec_load or a compiled template calls vm_run
\* recursively; only RUN counts, and is capped, in run_depth.
EnterNested(kind) ==
  /\ phase = "turn" /\ Spend
  /\ Len(nest) < MaxNest
  /\ kind = "RUN" => run_depth < MaxRunDepth
  /\ run_depth' = IF kind = "RUN" THEN run_depth + 1 ELSE run_depth
  /\ nest' = Append(nest, kind)
  /\ UNCHANGED <<throw, current_turtle, turtle_count>> /\ OnlyTheVm

\* The early return of a failing RUN leaves its level counted.
LeaveNested_StillCounted ==
  /\ phase = "turn" /\ nest # <<>>
  /\ throw' = IF nest[Len(nest)] = "TEMPLATE" THEN throw ELSE NoThrow
  /\ nest' = SubSeq(nest, 1, Len(nest) - 1)
  /\ UNCHANGED <<run_depth, current_turtle, turtle_count, ops_left>> /\ OnlyTheVm

\* The recursive call returns.  A RUN or LOAD snippet is a program of its
\* own: its last statement is followed by OP_CHECK_UNCAUGHT_THROW.
LeaveNested ==
  /\ phase = "turn" /\ nest # <<>>
  /\ LET kind == nest[Len(nest)] IN
       /\ run_depth' = IF kind = "RUN" THEN run_depth - 1 ELSE run_depth
       /\ throw' = IF kind = "TEMPLATE" THEN throw ELSE NoThrow
  /\ nest' = SubSeq(nest, 1, Len(nest) - 1)
  /\ UNCHANGED <<current_turtle, turtle_count, ops_left>> /\ OnlyTheVm

\* Between the top-level statements of the script LAUNCH was reached from.
CheckUncaught ==
  /\ phase = "turn" /\ cursor = 0 /\ from_script /\ nest = <<>>
  /\ throw # NoThrow
  /\ throw' = NoThrow
  /\ UNCHANGED <<run_depth, current_turtle, turtle_count, nest, ops_left>> /\ OnlyTheVm

-----------------------------------------------------------------------------
(* The results of a turn.  Every suspending opcode refuses to suspend when *)
(* vm_run_depth > 1, so a turn ends only outside nested calls.             *)

\* Every turn starts the pass over.
EndTurn_RestartsPass ==
  /\ phase = "turn" /\ nest = <<>>
  /\ saved_throw' = [saved_throw EXCEPT ![cursor] = throw]
  /\ saved_depth' = [saved_depth EXCEPT ![cursor] = run_depth]
  /\ phase' = "pass"
  /\ cursor' = 0
  /\ UNCHANGED <<throw, run_depth, current_turtle, any_ready, started, proc, nest,
                 from_script>>

\* agent_save_state, and on to the next agent of the pass.
EndTurn ==
  /\ phase = "turn" /\ nest = <<>>
  /\ saved_throw' = [saved_throw EXCEPT ![cursor] = throw]
  /\ saved_depth' = [saved_depth EXCEPT ![cursor] = run_depth]
  /\ phase' = "pass"
  /\ cursor' = cursor + 1
  /\ UNCHANGED <<throw, run_depth, current_turtle, any_ready, started, proc, nest,
                 from_script>>

Becomes(s) ==
  /\ state' = [state EXCEPT ![cursor] = s]
  /\ UNCHANGED <<agent_count, turtle_index, turtle_count, launch>>

\* A script halts after its last OP_CHECK_UNCAUGHT_THROW; a launched
\* procedure, or a handler's, by its OP_STOP, throw or no throw.
Halted ==
  /\ EndTurn
  /\ cursor = 0 /\ from_script => throw = NoThrow
  /\ Becomes("FINISHED")
  /\ UNCHANGED ops_left

\* YIELD, and SETSPEED's motion delay: READY again, from the next pass on.
Yielded == EndTurn /\ Spend /\ Becomes("READY")

Awaits == EndTurn /\ Spend /\ Becomes("WAITING_JOIN")

\* WAIT, WAITKEY, INPUT, PAUSE or ANIMATESPRITE: the agent is stopped.
Unsupported == EndTurn /\ Spend /\ Becomes("FINISHED")

\* LAUNCH leaves its target in the launching agent's own vm, suspends, and
\* never blocks its caller.
Launched(p) ==
  /\ EndTurn /\ Spend
  /\ spawn_agent([launch EXCEPT ![cursor] = p], p)

-----------------------------------------------------------------------------
\* An agent that awaits is one of those it awaits.
every_other_agent_finished_AndItself(w) ==
  \A j \in 0 .. agent_count - 1 : state[j] = "FINISHED"

every_other_agent_finished(w) ==
  \A j \in 0 .. agent_count - 1 : j = w \/ state[j] = "FINISHED"

(* After a pass, AWAITs resolve, and the scheduler makes another pass or   *)
(* returns.                                                                *)
EndPassThen(again) ==
  /\ phase = "pass" /\ cursor = agent_count
  /\ state' = [i \in AgentIds |->
                 IF state[i] = "WAITING_JOIN" /\ every_other_agent_finished(i)
                 THEN "READY" ELSE state[i]]
  /\ phase' = IF again THEN "pass" ELSE "done"
  /\ cursor' = 0
  /\ any_ready' = FALSE
  /\ UNCHANGED <<appVars, agent_count, started, turtle_index, launch, savedVars, vmVars,
                 from_script>>

\* Again while somebody has not finished.
EndPass_WhileUnfinished ==
  EndPassThen(\E i \in AgentIds : state[i] \in {"READY", "WAITING_JOIN"})

\* Again while somebody is READY, asked before the joins.
EndPass_AskedBeforeJoins == EndPassThen(\E i \in AgentIds : state[i] = "READY")

\* Again if some agent had a turn in the pass.
EndPass == EndPassThen(any_ready)

Next ==
  \/ Start \/ Skip \/ BeginTurn
  \/ Throw \/ LeaveNested \/ CheckUncaught
  \/ \E tag \in AgentIds : Catch(tag)
  \/ \E n \in Tells : Tell(n)
  \/ \E kind \in NestKinds : EnterNested(kind)
  \/ Halted \/ Yielded \/ Awaits \/ Unsupported
  \/ \E p \in Procs : Launched(p)
  \/ EndPass

Spec == Init /\ [][Next]_vars

(* The scheduler is a loop that nothing else interrupts, and every VM      *)
(* operation of a program that performs MaxOps of them returns.            *)
FairSpec == Spec /\ WF_vars(Next)

-----------------------------------------------------------------------------
(* Properties.                                                             *)

\* Every variable has its type; the indices of agents[] stay inside it.
TypeOK ==
  /\ throw \in AgentIds \cup {NoThrow}
  /\ run_depth \in 0 .. MaxRunDepth
  /\ turtle_count \in 1 .. MaxTurtles
  /\ current_turtle \in 0 .. turtle_count - 1
  /\ phase \in {"start", "pass", "turn", "done"}
  /\ agent_count \in 1 .. MaxTurtles
  /\ cursor \in 0 .. agent_count
  /\ any_ready \in BOOLEAN
  /\ state \in [AgentIds -> AgentStates]
  /\ started \in [AgentIds -> BOOLEAN]
  /\ turtle_index \in [AgentIds -> AgentIds]
  /\ saved_throw \in [AgentIds -> AgentIds \cup {NoThrow}]
  /\ saved_depth \in [AgentIds -> 0 .. MaxRunDepth]
  /\ launch \in [AgentIds -> Procs \cup {NoProc}]
  /\ proc \in [AgentIds -> Procs \cup {Main, NoProc}]
  /\ nest \in Seq(NestKinds)
  /\ ops_left \in [AgentIds -> 0 .. MaxOps]
  /\ from_script \in BOOLEAN

\* agents[] needs no bound of its own (agent.c:78-81): there is never an agent
\* without a turtle of its own, so the turtle check in spawn_agent also keeps
\* agent_count within MAX_TURTLES, whatever turtles TELL creates meanwhile.
AgentsFitTurtles ==
  /\ agent_count <= turtle_count
  /\ \A i \in AgentIds : i < agent_count <=> state[i] # "UNUSED"

\* No two agents ever steer the same turtle as their own, and each agent's
\* turtle exists (CONCURRENT_AGENTS_DESIGN.md, decision 2).
DistinctTurtles ==
  \A i, j \in 0 .. agent_count - 1 :
    /\ turtle_index[i] < turtle_count
    /\ i # j => turtle_index[i] # turtle_index[j]

\* A throw one agent has pending is never seen by another agent's code: what
\* OP_CHECK_THROW and OP_CATCH_CHECK read in a turn is the agent's own.
ThrowIsolation ==
  phase = "turn" => throw \in {NoThrow, cursor}

\* How many of the nested calls are RUN's.
RunNesting(s) == Cardinality({k \in 1 .. Len(s) : s[k] = "RUN"})

\* RUN's recursion cap counts the running agent's own nesting, all of it and
\* nobody else's.
RunDepthIsOwn ==
  phase = "turn" => run_depth = RunNesting(nest)

\* When scheduler_run gives up on agents, at least two await each other: one
\* AWAIT on its own is always resolved, whenever the last of the others
\* finishes within a pass.
NoLoneWaiter ==
  phase = "done" =>
    \A i \in AgentIds :
      /\ state[i] # "READY"
      /\ state[i] = "WAITING_JOIN" =>
           \E j \in AgentIds \ {i} : state[j] = "WAITING_JOIN"

\* scheduler_run returns: it does not spin on agents that cannot go on.
SchedulerReturns == <>(phase = "done")

\* An AWAIT whose condition has come true is followed by a turn of the agent.
AwaitResolves ==
  \A i \in AgentIds :
    (state[i] = "WAITING_JOIN" /\ every_other_agent_finished(i))
      ~> (phase = "turn" /\ cursor = i)

\* The scheduler implements fork and join.
ForkJoinStatus(s) ==
  CASE s = "UNUSED" -> "none"
    [] s = "READY" -> "active"
    [] s = "WAITING_JOIN" -> "joining"
    [] s = "FINISHED" -> "done"

FJ == INSTANCE ForkJoin WITH
        Capacity <- MaxTurtles,
        count <- agent_count,
        status <- [i \in AgentIds |-> ForkJoinStatus(state[i])],
        code <- [i \in AgentIds |-> IF started[i] THEN proc[i] ELSE launch[i]]

\* Every behaviour of the scheduler is one of ForkJoin: agents come from LAUNCH
\* alone, each runs the procedure its own LAUNCH named however often that agent
\* or its parent launches again, and AWAIT returns only when all others are done.
ImplementsForkJoin == FJ!FJSpec
=============================================================================
