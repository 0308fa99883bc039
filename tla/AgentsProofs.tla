---------------------------- MODULE AgentsProofs ----------------------------
(***************************************************************************)
(* Proofs about Agents, for any number of turtles, programs of any length  *)
(* and any procedures: the safety properties the runs of MCAgents check on *)
(* three turtles, and that the scheduler implements ForkJoin.              *)
(*                                                                         *)
(* None of the properties is inductive alone.  The strengthening IInv adds *)
(* what each one leans on: a suspended agent's saved fields are its own,   *)
(* nested vm_runs exist only in a turn, and while a pass has given nobody  *)
(* a turn yet, the agents it has gone past are not READY and no waiting    *)
(* agent is the only unfinished one.                                       *)
(***************************************************************************)
EXTENDS Agents, FiniteSetTheorems, TLAPS

\* Where scheduler_run's loop can be.
LoopInv ==
  /\ phase # "turn" => nest = <<>>
  /\ phase = "turn" => /\ cursor < agent_count
                       /\ state[cursor] = "READY"
                       /\ any_ready
  /\ phase = "start" => /\ agent_count = 1 /\ cursor = 0 /\ ~any_ready
                        /\ launch[0] \in Procs
                        /\ state[0] = "READY"
                        /\ \A i \in AgentIds : state[i] # "WAITING_JOIN"

\* What a pass that has given nobody a turn knows so far.
PassInv ==
  phase = "pass" /\ ~any_ready =>
    /\ \A i \in AgentIds : i < cursor => state[i] # "READY"
    /\ \A i \in AgentIds :
         state[i] = "WAITING_JOIN" => ~every_other_agent_finished(i)

\* A suspended agent's saved fields are its own.
SavedInv ==
  /\ \A i \in AgentIds : saved_throw[i] \in {NoThrow, i} /\ saved_depth[i] = 0
  /\ run_depth = RunNesting(nest)

Parts ==
  /\ TypeOK
  /\ AgentsFitTurtles
  /\ DistinctTurtles
  /\ ThrowIsolation
  /\ NoLoneWaiter

IInv == Parts /\ LoopInv /\ PassInv /\ SavedInv

-----------------------------------------------------------------------------
\* The number of RUNs among the nested calls: none, one more, one less.
LEMMA RunNestingFinite ==
  ASSUME NEW s \in Seq(NestKinds)
  PROVE  /\ IsFiniteSet({k \in 1 .. Len(s) : s[k] = "RUN"})
         /\ RunNesting(s) \in Nat
<1>1. Len(s) \in Nat
  OBVIOUS
<1>2. IsFiniteSet(1 .. Len(s))
  BY <1>1, FS_Interval
<1>3. {k \in 1 .. Len(s) : s[k] = "RUN"} \in SUBSET (1 .. Len(s))
  OBVIOUS
<1>4. IsFiniteSet({k \in 1 .. Len(s) : s[k] = "RUN"})
  BY <1>2, <1>3, FS_Subset
<1> QED
  BY <1>4, FS_CardinalityType DEF RunNesting

LEMMA RunNestingEmpty == RunNesting(<<>>) = 0
<1>1. {k \in 1 .. Len(<<>>) : <<>>[k] = "RUN"} = {}
  OBVIOUS
<1> QED
  BY <1>1, FS_EmptySet DEF RunNesting

LEMMA RunNestingAppend ==
  ASSUME NEW s \in Seq(NestKinds), NEW kind \in NestKinds
  PROVE  RunNesting(Append(s, kind)) =
           IF kind = "RUN" THEN RunNesting(s) + 1 ELSE RunNesting(s)
<1> DEFINE Runs(t) == {k \in 1 .. Len(t) : t[k] = "RUN"}
<1>1. IsFiniteSet(Runs(s))
  BY RunNestingFinite
<1>2. Len(s) \in Nat /\ Len(s) + 1 \notin Runs(s)
  OBVIOUS
<1>3. CASE kind = "RUN"
  <2>1. Runs(Append(s, kind)) = Runs(s) \cup {Len(s) + 1}
    BY <1>3
  <2> QED
    BY <1>1, <1>2, <1>3, <2>1, FS_AddElement DEF RunNesting
<1>4. CASE kind # "RUN"
  <2>1. Runs(Append(s, kind)) = Runs(s)
    BY <1>4
  <2> QED
    BY <1>4, <2>1 DEF RunNesting
<1> QED
  BY <1>3, <1>4

LEMMA RunNestingFront ==
  ASSUME NEW s \in Seq(NestKinds), s # <<>>
  PROVE  RunNesting(SubSeq(s, 1, Len(s) - 1)) =
           IF s[Len(s)] = "RUN" THEN RunNesting(s) - 1 ELSE RunNesting(s)
<1> DEFINE front == SubSeq(s, 1, Len(s) - 1)
           last == s[Len(s)]
<1>1. front \in Seq(NestKinds) /\ last \in NestKinds
  OBVIOUS
<1>2. s = Append(front, last)
  OBVIOUS
<1>3. RunNesting(front) \in Nat
  BY <1>1, RunNestingFinite
<1>4. RunNesting(s) = IF last = "RUN" THEN RunNesting(front) + 1 ELSE RunNesting(front)
  BY <1>1, <1>2, RunNestingAppend
<1> QED
  BY <1>3, <1>4

-----------------------------------------------------------------------------
LEMMA AgentIdsFacts ==
  /\ 0 \in AgentIds
  /\ AgentIds \subseteq Nat
  /\ MaxTurtles \in Nat \ {0}
  /\ \A i \in AgentIds : i < MaxTurtles
  /\ \A i \in Nat : i < MaxTurtles => i \in AgentIds
  /\ NoThrow \notin AgentIds
BY MaxTurtlesAssumption DEF AgentIds, NoThrow

\* The integers of the state and their order, without the intervals.
LEMMA TypeFacts ==
  ASSUME TypeOK
  PROVE  /\ agent_count \in Nat /\ 1 <= agent_count /\ agent_count <= MaxTurtles
         /\ turtle_count \in Nat /\ 1 <= turtle_count /\ turtle_count <= MaxTurtles
         /\ cursor \in Nat /\ cursor <= agent_count
         /\ current_turtle \in Nat /\ current_turtle < turtle_count
         /\ \A i \in AgentIds : turtle_index[i] \in Nat
         /\ \A i \in Nat : i < agent_count => i \in AgentIds
<1>1. MaxTurtles \in Nat /\ agent_count \in 1 .. MaxTurtles /\ cursor \in 0 .. agent_count
  BY AgentIdsFacts DEF TypeOK
<1>2. turtle_count \in 1 .. MaxTurtles /\ current_turtle \in 0 .. turtle_count - 1
  BY DEF TypeOK
<1>3. agent_count \in Nat /\ 1 <= agent_count /\ agent_count <= MaxTurtles
  BY <1>1
<1>4. turtle_count \in Nat /\ 1 <= turtle_count /\ turtle_count <= MaxTurtles
  BY <1>1, <1>2
<1>5. cursor \in Nat /\ cursor <= agent_count
  BY <1>1, <1>3
<1>6. current_turtle \in Nat /\ current_turtle < turtle_count
  BY <1>2, <1>4
<1>7. \A i \in AgentIds : turtle_index[i] \in Nat
  BY AgentIdsFacts DEF TypeOK
<1>8. \A i \in Nat : i < agent_count => i \in AgentIds
  BY <1>1, <1>3, AgentIdsFacts
<1> QED
  BY <1>3, <1>4, <1>5, <1>6, <1>7, <1>8

LEMMA InitInvariant == Init => IInv
<1> SUFFICES ASSUME Init PROVE IInv
  OBVIOUS
<1> USE AgentIdsFacts
<1>1. TypeOK
  <2>1. current_turtle \in AgentIds /\ turtle_count \in 1 .. MaxTurtles
    BY DEF Init, AgentIds
  <2>2. nest \in Seq(NestKinds)
    BY DEF Init
  <2>3. 0 \in 0 .. MaxRunDepth /\ MaxOps \in 0 .. MaxOps
    BY BoundsAssumption
  <2>4. started \in [AgentIds -> BOOLEAN]
    BY Zenon DEF Init
  <2>5. /\ state \in [AgentIds -> AgentStates]
        /\ turtle_index \in [AgentIds -> AgentIds]
        /\ saved_throw \in [AgentIds -> AgentIds \cup {NoThrow}]
    BY <2>1 DEF Init, AgentStates
  <2>6. /\ launch \in [AgentIds -> Procs \cup {NoProc}]
        /\ proc \in [AgentIds -> Procs \cup {Main, NoProc}]
    BY DEF Init
  <2>7. /\ saved_depth \in [AgentIds -> 0 .. MaxRunDepth]
        /\ ops_left \in [AgentIds -> 0 .. MaxOps]
    BY <2>3 DEF Init
  <2> QED
    BY <2>1, <2>2, <2>3, <2>4, <2>5, <2>6, <2>7 DEF Init, TypeOK
<1>2. AgentsFitTurtles /\ DistinctTurtles
  BY DEF Init, AgentsFitTurtles, DistinctTurtles
<1>3. ThrowIsolation /\ NoLoneWaiter /\ LoopInv /\ PassInv
  BY DEF Init, ThrowIsolation, NoLoneWaiter, LoopInv, PassInv
<1>4. SavedInv
  BY RunNestingEmpty DEF Init, SavedInv
<1> QED
  BY <1>1, <1>2, <1>3, <1>4 DEF IInv, Parts

\* What spawn_agent does to agents[] and to the turtles, whoever launches.
LEMMA SpawnInvariant ==
  ASSUME TypeOK, AgentsFitTurtles, DistinctTurtles,
         NEW launches \in [AgentIds -> Procs \cup {NoProc}], NEW target \in Procs,
         spawn_agent(launches, target)
  PROVE  /\ agent_count' \in 1 .. MaxTurtles
         /\ turtle_count' \in 1 .. MaxTurtles
         /\ turtle_count <= turtle_count' /\ agent_count <= agent_count'
         /\ launch' \in [AgentIds -> Procs \cup {NoProc}]
         /\ state' \in [AgentIds -> AgentStates]
         /\ turtle_index' \in [AgentIds -> AgentIds]
         /\ \A i \in AgentIds : i < agent_count => state'[i] = state[i]
         /\ \A i \in AgentIds : state'[i] \in {state[i], "READY"}
         /\ AgentsFitTurtles'
         /\ DistinctTurtles'
<1> USE AgentIdsFacts
<1>1. CASE CanSpawn
  <2>1. /\ turtle_count \in AgentIds /\ agent_count \in AgentIds
        /\ turtle_count < MaxTurtles
    BY <1>1 DEF TypeOK, AgentsFitTurtles, CanSpawn
  <2>2. /\ turtle_index' = [turtle_index EXCEPT ![agent_count] = turtle_count]
        /\ turtle_count' = turtle_count + 1
        /\ launch' = [launches EXCEPT ![agent_count] = target]
        /\ state' = [state EXCEPT ![agent_count] = "READY"]
        /\ agent_count' = agent_count + 1
    BY <1>1 DEF spawn_agent
  <2>3. AgentsFitTurtles'
    BY <2>1, <2>2 DEF AgentsFitTurtles, TypeOK, AgentStates
  <2>4. DistinctTurtles'
    <3>1. SUFFICES ASSUME NEW i \in 0 .. agent_count, NEW j \in 0 .. agent_count
                   PROVE  /\ turtle_index'[i] < turtle_count'
                          /\ i # j => turtle_index'[i] # turtle_index'[j]
      BY <2>1, <2>2 DEF DistinctTurtles
    <3>2. i \in AgentIds /\ j \in AgentIds
      BY <2>1
    <3>3. \A k \in AgentIds : k < agent_count => turtle_index'[k] = turtle_index[k]
      BY <2>1, <2>2 DEF TypeOK
    <3>4. turtle_index'[agent_count] = turtle_count
      BY <2>1, <2>2 DEF TypeOK
    <3>5. \A k \in AgentIds : k < agent_count => turtle_index[k] < turtle_count
      BY <2>1 DEF DistinctTurtles
    <3>6. (i < agent_count \/ i = agent_count) /\ (j < agent_count \/ j = agent_count)
      BY <2>1
    <3>7. i < agent_count /\ j < agent_count /\ i # j => turtle_index[i] # turtle_index[j]
      BY <2>1, <3>2 DEF DistinctTurtles
    <3>8. turtle_index[i] \in Nat /\ turtle_index[j] \in Nat
      BY <3>2 DEF TypeOK
    <3> QED
      BY <2>1, <2>2, <3>2, <3>3, <3>4, <3>5, <3>6, <3>7, <3>8
  <2> QED
    BY <2>1, <2>2, <2>3, <2>4 DEF TypeOK, AgentStates, AgentsFitTurtles
<1>2. CASE ~CanSpawn
  BY <1>2 DEF spawn_agent, TypeOK, AgentsFitTurtles, DistinctTurtles
<1> QED
  BY <1>1, <1>2

-----------------------------------------------------------------------------
(* One lemma per action of the scheduler loop; the operations of a running *)
(* program come together, they leave the loop alone.                       *)

LEMMA StartStep == ASSUME IInv, Start PROVE IInv'
<1> USE AgentIdsFacts DEF IInv, Parts
<1>1. spawn_agent(launch, launch[0]) /\ launch[0] \in Procs
  BY DEF Start, LoopInv
<1>2. launch \in [AgentIds -> Procs \cup {NoProc}]
  BY DEF TypeOK
<1>3. /\ agent_count' \in 1 .. MaxTurtles
      /\ turtle_count' \in 1 .. MaxTurtles
      /\ turtle_count <= turtle_count' /\ agent_count <= agent_count'
      /\ launch' \in [AgentIds -> Procs \cup {NoProc}]
      /\ state' \in [AgentIds -> AgentStates]
      /\ turtle_index' \in [AgentIds -> AgentIds]
      /\ \A i \in AgentIds : state'[i] \in {state[i], "READY"}
      /\ AgentsFitTurtles' /\ DistinctTurtles'
  BY <1>1, <1>2, SpawnInvariant
<1>4. TypeOK'
  <2>1. current_turtle' \in 0 .. turtle_count' - 1 /\ cursor' \in 0 .. agent_count'
    BY <1>3, TypeFacts DEF Start
  <2> QED
    BY <1>3, <2>1 DEF Start, TypeOK
<1>5. ThrowIsolation' /\ NoLoneWaiter'
  BY DEF Start, ThrowIsolation, NoLoneWaiter
<1>6. LoopInv' /\ SavedInv'
  BY DEF Start, LoopInv, SavedInv
<1>7. PassInv'
  BY <1>3 DEF Start, PassInv, LoopInv, TypeOK
<1> QED
  BY <1>3, <1>4, <1>5, <1>6, <1>7

LEMMA SkipStep == ASSUME IInv, Skip PROVE IInv'
<1> USE AgentIdsFacts DEF IInv, Parts, Skip, appVars, agentVars, savedVars, vmVars
<1>1. TypeOK'
  BY DEF TypeOK
<1>2. AgentsFitTurtles' /\ DistinctTurtles' /\ ThrowIsolation' /\ NoLoneWaiter'
  BY DEF AgentsFitTurtles, DistinctTurtles, ThrowIsolation, NoLoneWaiter
<1>3. LoopInv' /\ SavedInv'
  BY DEF LoopInv, SavedInv
<1>4. PassInv'
  BY DEF PassInv, every_other_agent_finished, TypeOK
<1> QED
  BY <1>1, <1>2, <1>3, <1>4

LEMMA BeginTurnStep == ASSUME IInv, BeginTurn PROVE IInv'
<1> USE AgentIdsFacts DEF IInv, Parts, BeginTurn, agent_restore_state, savedVars
<1>0. cursor \in AgentIds
  BY DEF TypeOK
<1>1. TypeOK'
  <2>1. started' \in [AgentIds -> BOOLEAN]
    BY <1>0, Zenon DEF TypeOK
  <2>2. proc' \in [AgentIds -> Procs \cup {Main, NoProc}]
    BY <1>0 DEF TypeOK
  <2>3. current_turtle' \in 0 .. turtle_count' - 1
    BY <1>0 DEF TypeOK, DistinctTurtles
  <2>4. throw' \in AgentIds \cup {NoThrow} /\ run_depth' \in 0 .. MaxRunDepth
    BY <1>0 DEF TypeOK
  <2> QED
    BY <2>1, <2>2, <2>3, <2>4 DEF TypeOK
<1>2. AgentsFitTurtles' /\ DistinctTurtles' /\ NoLoneWaiter'
  BY DEF AgentsFitTurtles, DistinctTurtles, NoLoneWaiter
<1>3. ThrowIsolation' /\ LoopInv' /\ PassInv'
  BY <1>0 DEF ThrowIsolation, SavedInv, LoopInv, PassInv
<1>4. SavedInv'
  BY <1>0, RunNestingEmpty DEF SavedInv, LoopInv
<1> QED
  BY <1>1, <1>2, <1>3, <1>4

\* The operations of the running agent's program.
VmStep ==
  \/ Throw \/ LeaveNested \/ CheckUncaught
  \/ \E tag \in AgentIds : Catch(tag)
  \/ \E n \in Tells : Tell(n)
  \/ \E kind \in NestKinds : EnterNested(kind)

\* They leave the agents and the loop alone, whatever they do to the rest.
LEMMA VmStepFrame ==
  ASSUME IInv, VmStep
  PROVE  /\ phase = "turn" /\ cursor \in AgentIds
         /\ UNCHANGED <<phase, cursor, any_ready, agent_count, state, started,
                        turtle_index, launch, saved_throw, saved_depth, proc, from_script>>
<1>1. phase = "turn"
  BY DEF VmStep, Throw, LeaveNested, CheckUncaught, Catch, Tell, EnterNested
<1>2. OnlyTheVm
  BY DEF VmStep, Throw, LeaveNested, CheckUncaught, Catch, Tell, EnterNested
<1>3. cursor \in AgentIds
  BY <1>1, AgentIdsFacts DEF IInv, Parts, LoopInv, TypeOK
<1> QED
  BY <1>1, <1>2, <1>3 DEF OnlyTheVm, agentVars, savedVars

\* What each of them does to the fields it touches.
VmFields ==
  /\ throw' \in {NoThrow, cursor}
  /\ turtle_count' \in 1 .. MaxTurtles /\ turtle_count <= turtle_count'
  /\ current_turtle' \in 0 .. turtle_count' - 1
  /\ nest' \in Seq(NestKinds)
  /\ run_depth' \in 0 .. MaxRunDepth
  /\ run_depth' = RunNesting(nest')
  /\ ops_left' \in [AgentIds -> 0 .. MaxOps]

LEMMA VmStepFields == ASSUME IInv, VmStep PROVE VmFields
<1> USE AgentIdsFacts DEF IInv, Parts, VmFields
<1>1. phase = "turn" /\ cursor \in AgentIds
  BY VmStepFrame
<1>2. /\ throw \in {NoThrow, cursor} /\ run_depth = RunNesting(nest)
      /\ run_depth \in 0 .. MaxRunDepth /\ nest \in Seq(NestKinds)
      /\ turtle_count \in 1 .. MaxTurtles /\ current_turtle \in 0 .. turtle_count - 1
      /\ ops_left \in [AgentIds -> 0 .. MaxOps]
  BY <1>1 DEF ThrowIsolation, SavedInv, TypeOK
<1>3. Spend => ops_left' \in [AgentIds -> 0 .. MaxOps]
  BY <1>1, <1>2, BoundsAssumption DEF Spend
<1>4. CASE Throw
  BY <1>2, <1>3, <1>4 DEF Throw
<1>5. ASSUME NEW tag \in AgentIds, Catch(tag) PROVE VmFields
  BY <1>2, <1>3, <1>5 DEF Catch
<1>6. ASSUME NEW n \in Tells, Tell(n) PROVE VmFields
  BY <1>2, <1>3, <1>6, TellsAssumption DEF Tell
<1>7. ASSUME NEW kind \in NestKinds, EnterNested(kind) PROVE VmFields
  <2>1. nest' = Append(nest, kind) /\ nest' \in Seq(NestKinds)
    BY <1>2, <1>7 DEF EnterNested
  <2>2. RunNesting(nest') = IF kind = "RUN" THEN RunNesting(nest) + 1 ELSE RunNesting(nest)
    BY <1>2, <2>1, RunNestingAppend
  <2> QED
    BY <1>2, <1>3, <1>7, <2>1, <2>2, BoundsAssumption DEF EnterNested
<1>8. CASE LeaveNested
  <2> DEFINE kind == nest[Len(nest)]
  <2>1. nest # <<>> /\ nest' = SubSeq(nest, 1, Len(nest) - 1)
    BY <1>8 DEF LeaveNested
  <2>2. nest' \in Seq(NestKinds)
    BY <1>2, <2>1
  <2>3. RunNesting(nest') = IF kind = "RUN" THEN RunNesting(nest) - 1 ELSE RunNesting(nest)
    BY <1>2, <2>1, RunNestingFront
  <2>4. RunNesting(nest') \in Nat
    BY <2>2, RunNestingFinite
  <2>5. run_depth' = IF kind = "RUN" THEN run_depth - 1 ELSE run_depth
    BY <1>8 DEF LeaveNested
  <2> QED
    BY <1>2, <1>8, <2>2, <2>3, <2>4, <2>5, BoundsAssumption DEF LeaveNested
<1>9. CASE CheckUncaught
  BY <1>2, <1>9 DEF CheckUncaught
<1> QED
  BY <1>4, <1>5, <1>6, <1>7, <1>8, <1>9 DEF VmStep

LEMMA VmStepStep == ASSUME IInv, VmStep PROVE IInv'
<1> USE AgentIdsFacts DEF IInv, Parts, VmFields
<1>1. /\ phase = "turn" /\ cursor \in AgentIds
      /\ UNCHANGED <<phase, cursor, any_ready, agent_count, state, started,
                     turtle_index, launch, saved_throw, saved_depth, proc, from_script>>
  BY VmStepFrame
<1>2. VmFields
  BY VmStepFields
<1>3. TypeOK'
  BY <1>1, <1>2 DEF TypeOK
<1>4. AgentsFitTurtles' /\ ThrowIsolation' /\ NoLoneWaiter'
  BY <1>1, <1>2 DEF AgentsFitTurtles, ThrowIsolation, NoLoneWaiter, TypeOK
<1>5. DistinctTurtles'
  <2>1. \A i \in 0 .. agent_count - 1 : i \in AgentIds
    BY TypeFacts
  <2>2. \A i \in 0 .. agent_count - 1 : turtle_index[i] < turtle_count'
    BY <1>2, <2>1, TypeFacts DEF DistinctTurtles
  <2> QED
    BY <1>1, <2>2 DEF DistinctTurtles
<1>6. LoopInv' /\ PassInv' /\ SavedInv'
  BY <1>1, <1>2 DEF LoopInv, PassInv, SavedInv
<1> QED
  BY <1>3, <1>4, <1>5, <1>6

-----------------------------------------------------------------------------
\* The end of a turn, whatever its result, as far as the saved fields go.
LEMMA EndTurnFacts ==
  ASSUME IInv, EndTurn
  PROVE  /\ phase = "turn" /\ phase' = "pass"
         /\ cursor \in AgentIds /\ cursor < agent_count /\ cursor' = cursor + 1
         /\ any_ready /\ any_ready'
         /\ saved_throw' \in [AgentIds -> AgentIds \cup {NoThrow}]
         /\ saved_depth' \in [AgentIds -> 0 .. MaxRunDepth]
         /\ UNCHANGED <<throw, run_depth, current_turtle, started, proc, nest, from_script>>
         /\ SavedInv'
<1> USE AgentIdsFacts DEF IInv, Parts
<1>1. /\ phase = "turn" /\ cursor \in AgentIds /\ cursor < agent_count /\ any_ready
      /\ nest = <<>>
  BY DEF EndTurn, LoopInv, TypeOK
<1>2. throw \in {NoThrow, cursor} /\ run_depth = 0
  BY <1>1, RunNestingEmpty DEF ThrowIsolation, SavedInv
<1>3. SavedInv'
  BY <1>1, <1>2, RunNestingEmpty DEF EndTurn, SavedInv, TypeOK
<1> QED
  BY <1>1, <1>2, <1>3 DEF EndTurn, TypeOK

\* A turn that only changes the state of the agent whose turn it was.
LEMMA BecomesStep ==
  ASSUME IInv, EndTurn, NEW s \in AgentStates \ {"UNUSED"}, Becomes(s),
         ops_left' \in [AgentIds -> 0 .. MaxOps]
  PROVE  IInv'
<1> USE AgentIdsFacts DEF IInv, Parts, Becomes
<1>1. /\ phase = "turn" /\ phase' = "pass"
      /\ cursor \in AgentIds /\ cursor < agent_count /\ cursor' = cursor + 1
      /\ any_ready /\ any_ready'
      /\ saved_throw' \in [AgentIds -> AgentIds \cup {NoThrow}]
      /\ saved_depth' \in [AgentIds -> 0 .. MaxRunDepth]
      /\ UNCHANGED <<throw, run_depth, current_turtle, started, proc, nest, from_script>>
      /\ SavedInv'
  BY EndTurnFacts
<1>2. state' \in [AgentIds -> AgentStates]
  BY <1>1 DEF TypeOK
<1>3. TypeOK'
  <2>1. cursor' \in 0 .. agent_count'
    BY <1>1, TypeFacts
  <2> QED
    BY <1>1, <1>2, <2>1 DEF TypeOK
<1>4. AgentsFitTurtles'
  BY <1>1 DEF AgentsFitTurtles, TypeOK
<1>5. DistinctTurtles' /\ ThrowIsolation' /\ NoLoneWaiter'
  BY <1>1 DEF DistinctTurtles, ThrowIsolation, NoLoneWaiter
<1>6. nest = <<>>
  BY DEF EndTurn
<1>7. LoopInv' /\ PassInv'
  BY <1>1, <1>6 DEF LoopInv, PassInv
<1> QED
  BY <1>1, <1>3, <1>4, <1>5, <1>7

LEMMA SpendType ==
  ASSUME TypeOK, cursor \in AgentIds, Spend
  PROVE  ops_left' \in [AgentIds -> 0 .. MaxOps]
BY BoundsAssumption DEF Spend, TypeOK

LEMMA HaltedStep == ASSUME IInv, Halted PROVE IInv'
<1>1. EndTurn /\ Becomes("FINISHED") /\ ops_left' \in [AgentIds -> 0 .. MaxOps]
  BY DEF Halted, IInv, Parts, TypeOK
<1> QED
  BY <1>1, BecomesStep DEF AgentStates

LEMMA SuspendedStep ==
  ASSUME IInv, Yielded \/ Awaits \/ Unsupported PROVE IInv'
<1>1. PICK s \in AgentStates \ {"UNUSED"} : Becomes(s)
  BY DEF Yielded, Awaits, Unsupported, AgentStates
<1>2. EndTurn /\ Spend
  BY DEF Yielded, Awaits, Unsupported
<1>3. cursor \in AgentIds
  BY <1>2, EndTurnFacts
<1> QED
  BY <1>1, <1>2, <1>3, SpendType, BecomesStep DEF IInv, Parts

LEMMA LaunchedStep == ASSUME IInv, NEW p \in Procs, Launched(p) PROVE IInv'
<1> USE AgentIdsFacts DEF IInv, Parts
<1>1. EndTurn /\ Spend /\ spawn_agent([launch EXCEPT ![cursor] = p], p)
  BY DEF Launched
<1>2. /\ phase = "turn" /\ phase' = "pass"
      /\ cursor \in AgentIds /\ cursor < agent_count /\ cursor' = cursor + 1
      /\ any_ready /\ any_ready'
      /\ saved_throw' \in [AgentIds -> AgentIds \cup {NoThrow}]
      /\ saved_depth' \in [AgentIds -> 0 .. MaxRunDepth]
      /\ UNCHANGED <<throw, run_depth, current_turtle, started, proc, nest, from_script>>
      /\ SavedInv'
  BY <1>1, EndTurnFacts
<1>3. [launch EXCEPT ![cursor] = p] \in [AgentIds -> Procs \cup {NoProc}]
  BY <1>2 DEF TypeOK
<1>4. /\ agent_count' \in 1 .. MaxTurtles
      /\ turtle_count' \in 1 .. MaxTurtles
      /\ turtle_count <= turtle_count' /\ agent_count <= agent_count'
      /\ launch' \in [AgentIds -> Procs \cup {NoProc}]
      /\ state' \in [AgentIds -> AgentStates]
      /\ turtle_index' \in [AgentIds -> AgentIds]
      /\ AgentsFitTurtles' /\ DistinctTurtles'
  BY <1>1, <1>3, SpawnInvariant
<1>5. ops_left' \in [AgentIds -> 0 .. MaxOps]
  BY <1>1, <1>2, SpendType
<1>6. TypeOK'
  <2>1. current_turtle' \in 0 .. turtle_count' - 1 /\ cursor' \in 0 .. agent_count'
    BY <1>2, <1>4, TypeFacts
  <2> QED
    BY <1>2, <1>4, <1>5, <2>1 DEF TypeOK
<1>7. nest = <<>>
  BY <1>1 DEF EndTurn
<1>8. ThrowIsolation' /\ NoLoneWaiter' /\ LoopInv' /\ PassInv'
  BY <1>2, <1>7 DEF ThrowIsolation, NoLoneWaiter, LoopInv, PassInv
<1> QED
  BY <1>2, <1>4, <1>6, <1>8

LEMMA EndPassStep == ASSUME IInv, EndPass PROVE IInv'
<1> USE AgentIdsFacts DEF IInv, Parts, EndPass, EndPassThen, appVars, savedVars, vmVars
<1>1. /\ phase = "pass" /\ cursor = agent_count /\ nest = <<>>
      /\ cursor' = 0 /\ any_ready' = FALSE
  BY DEF LoopInv
<1>2. /\ state' \in [AgentIds -> AgentStates]
      /\ \A i \in AgentIds : state'[i] \in {state[i], "READY"}
      /\ \A i \in AgentIds : state'[i] = "WAITING_JOIN" =>
           state[i] = "WAITING_JOIN" /\ ~every_other_agent_finished(i)
      /\ \A i \in AgentIds : state[i] # "WAITING_JOIN" => state'[i] = state[i]
  BY DEF TypeOK, AgentStates
<1>3. TypeOK'
  <2>1. cursor' \in 0 .. agent_count' /\ phase' \in {"pass", "done"}
    BY <1>1, TypeFacts
  <2> QED
    BY <1>1, <1>2, <2>1 DEF TypeOK
<1>4. AgentsFitTurtles'
  BY <1>2 DEF AgentsFitTurtles, TypeOK
<1>5. DistinctTurtles' /\ ThrowIsolation' /\ LoopInv' /\ SavedInv'
  BY <1>1 DEF DistinctTurtles, ThrowIsolation, LoopInv, SavedInv
\* Whoever still waits after the joins still has an unfinished peer.
<1>6. \A i \in AgentIds : state'[i] = "WAITING_JOIN" => ~every_other_agent_finished(i)'
  <2>1. SUFFICES ASSUME NEW i \in AgentIds, state'[i] = "WAITING_JOIN"
                 PROVE  ~every_other_agent_finished(i)'
    OBVIOUS
  <2>2. PICK j \in 0 .. agent_count - 1 : j # i /\ state[j] # "FINISHED"
    BY <1>2, <2>1 DEF every_other_agent_finished
  <2>3. j \in AgentIds
    BY DEF TypeOK
  <2>4. state'[j] # "FINISHED"
    BY <1>2, <2>2, <2>3
  <2> QED
    BY <2>2, <2>4 DEF every_other_agent_finished
<1>7. PassInv'
  BY <1>1, <1>6 DEF PassInv
<1>8. NoLoneWaiter'
  <2>1. SUFFICES ASSUME phase' = "done", NEW i \in AgentIds
                 PROVE  /\ state'[i] # "READY"
                        /\ state'[i] = "WAITING_JOIN" =>
                             \E j \in AgentIds \ {i} : state'[j] = "WAITING_JOIN"
    BY DEF NoLoneWaiter
  <2>2. ~any_ready
    BY <2>1 DEF TypeOK
  \* The pass found nobody READY, and no AWAIT that could resolve.
  <2>3. \A k \in AgentIds : state[k] # "READY" /\ state'[k] = state[k]
    BY <1>1, <1>2, <2>2 DEF PassInv, AgentsFitTurtles, TypeOK
  <2>4. ASSUME state'[i] = "WAITING_JOIN"
        PROVE  \E j \in AgentIds \ {i} : state'[j] = "WAITING_JOIN"
    <3>1. PICK j \in 0 .. agent_count - 1 : j # i /\ state[j] # "FINISHED"
      BY <1>1, <2>2, <2>3, <2>4 DEF PassInv, every_other_agent_finished
    <3>2. j \in AgentIds /\ state[j] # "UNUSED"
      BY DEF AgentsFitTurtles, TypeOK
    <3> QED
      BY <2>3, <3>1, <3>2 DEF TypeOK, AgentStates
  <2> QED
    BY <2>3, <2>4
<1> QED
  BY <1>3, <1>4, <1>5, <1>7, <1>8

-----------------------------------------------------------------------------
LEMMA Invariance == IInv /\ [Next]_vars => IInv'
<1> SUFFICES ASSUME IInv, [Next]_vars PROVE IInv'
  OBVIOUS
<1>1. CASE Start
  BY <1>1, StartStep
<1>2. CASE Skip
  BY <1>2, SkipStep
<1>3. CASE BeginTurn
  BY <1>3, BeginTurnStep
<1>4. CASE VmStep
  BY <1>4, VmStepStep
<1>5. CASE Halted
  BY <1>5, HaltedStep
<1>6. CASE Yielded \/ Awaits \/ Unsupported
  BY <1>6, SuspendedStep
<1>7. ASSUME NEW p \in Procs, Launched(p) PROVE IInv'
  BY <1>7, LaunchedStep
<1>8. CASE EndPass
  BY <1>8, EndPassStep
<1>9. CASE UNCHANGED vars
  BY <1>9 DEF vars, IInv, Parts, TypeOK, AgentsFitTurtles, DistinctTurtles,
     ThrowIsolation, NoLoneWaiter, LoopInv, PassInv, SavedInv, every_other_agent_finished
<1> QED
  BY <1>1, <1>2, <1>3, <1>4, <1>5, <1>6, <1>7, <1>8, <1>9 DEF Next, VmStep

\* The strengthened invariant of the scheduler.
THEOREM SchedulerInvariant == Spec => []IInv
BY InitInvariant, Invariance, PTL DEF Spec

\* Type correctness: in particular the scheduler's index never leaves agents[].
THEOREM TypeCorrect == Spec => []TypeOK
<1>1. IInv => TypeOK
  BY DEF IInv, Parts
<1> QED
  BY <1>1, SchedulerInvariant, PTL

\* agents[MAX_TURTLES] never overflows: an agent always has a turtle to itself,
\* whatever TELL does to turtle_count between the launches.
THEOREM AgentsFit == Spec => []AgentsFitTurtles
<1>1. IInv => AgentsFitTurtles
  BY DEF IInv, Parts
<1> QED
  BY <1>1, SchedulerInvariant, PTL

\* No two agents own the same turtle.
THEOREM TurtlesDistinct == Spec => []DistinctTurtles
<1>1. IInv => DistinctTurtles
  BY DEF IInv, Parts
<1> QED
  BY <1>1, SchedulerInvariant, PTL

\* An agent's pending throw is never seen in another agent's turn.
THEOREM ThrowsIsolated == Spec => []ThrowIsolation
<1>1. IInv => ThrowIsolation
  BY DEF IInv, Parts
<1> QED
  BY <1>1, SchedulerInvariant, PTL

\* RUN's cap counts the running agent's own nesting.
THEOREM RunDepthsOwn == Spec => []RunDepthIsOwn
<1>1. IInv => RunDepthIsOwn
  BY DEF IInv, SavedInv, RunDepthIsOwn
<1> QED
  BY <1>1, SchedulerInvariant, PTL

\* An agent whose AWAIT could resolve is never abandoned.
THEOREM NobodyAwaitsAlone == Spec => []NoLoneWaiter
<1>1. IInv => NoLoneWaiter
  BY DEF IInv, Parts
<1> QED
  BY <1>1, SchedulerInvariant, PTL

-----------------------------------------------------------------------------
(* The scheduler implements fork and join.  The mapping needs one more     *)
(* fact: only agents that exist have started, and a running one has.       *)
StartedInv ==
  /\ \A i \in AgentIds : state[i] = "UNUSED" => ~started[i]
  /\ phase = "turn" => started[cursor]

LEMMA StartedInit == Init => StartedInv
BY AgentIdsFacts DEF Init, StartedInv

LEMMA StartedStep == ASSUME IInv, StartedInv, [Next]_vars PROVE StartedInv'
<1> USE AgentIdsFacts DEF IInv, Parts, StartedInv
<1>0. /\ agent_count \in Nat
      /\ \A i \in Nat : i < agent_count => i \in AgentIds
      /\ cursor \in Nat
  BY TypeFacts
<1>1. ASSUME NEW launches, NEW target, spawn_agent(launches, target)
      PROVE  \A i \in AgentIds : state'[i] = "UNUSED" => state[i] = "UNUSED"
  BY <1>1 DEF spawn_agent, TypeOK
<1>2. CASE Start
  BY <1>1, <1>2 DEF Start
<1>3. CASE Skip
  BY <1>3 DEF Skip, agentVars
<1>4. CASE BeginTurn
  <2>1. cursor \in AgentIds /\ state[cursor] = "READY"
    BY <1>0, <1>4 DEF BeginTurn
  <2>2. started' = [started EXCEPT ![cursor] = TRUE] /\ UNCHANGED <<state, cursor>>
    BY <1>4 DEF BeginTurn
  <2>3. started \in [AgentIds -> BOOLEAN]
    BY DEF TypeOK
  <2>4. \A i \in AgentIds \ {cursor} : started'[i] = started[i]
    BY <2>2, <2>3
  <2>5. started'[cursor]
    BY <2>1, <2>2, <2>3
  <2> QED
    BY <2>1, <2>2, <2>4, <2>5
<1>5. CASE VmStep
  BY <1>5, VmStepFrame
<1>6. ASSUME NEW s \in AgentStates \ {"UNUSED"}, EndTurn, Becomes(s) PROVE StartedInv'
  <2>1. \A i \in AgentIds : state'[i] = "UNUSED" => state[i] = "UNUSED"
    BY <1>6 DEF Becomes, TypeOK
  <2> QED
    BY <1>6, <2>1, EndTurnFacts
<1>7. CASE Halted \/ Yielded \/ Awaits \/ Unsupported
  BY <1>6, <1>7 DEF Halted, Yielded, Awaits, Unsupported, AgentStates
<1>8. ASSUME NEW p \in Procs, Launched(p) PROVE StartedInv'
  BY <1>1, <1>8, EndTurnFacts DEF Launched
<1>9. CASE EndPass
  BY <1>9 DEF EndPass, EndPassThen
<1>10. CASE UNCHANGED vars
  BY <1>10 DEF vars
<1> QED
  BY <1>2, <1>3, <1>4, <1>5, <1>7, <1>8, <1>9, <1>10 DEF Next, VmStep

statusBar == [i \in AgentIds |-> ForkJoinStatus(state[i])]
codeBar == [i \in AgentIds |-> IF started[i] THEN proc[i] ELSE launch[i]]

LEMMA StatusOf ==
  /\ ForkJoinStatus("UNUSED") = "none"
  /\ ForkJoinStatus("READY") = "active"
  /\ ForkJoinStatus("WAITING_JOIN") = "joining"
  /\ ForkJoinStatus("FINISHED") = "done"
BY DEF ForkJoinStatus

LEMMA ForkJoinInit == Init => FJ!FJInit
<1> SUFFICES ASSUME Init PROVE FJ!FJInit
  OBVIOUS
<1>1. statusBar = [t \in FJ!Tasks |-> IF t = 0 THEN "active" ELSE "none"]
  BY StatusOf DEF Init, FJ!Tasks, AgentIds, statusBar
<1>2. codeBar = [t \in FJ!Tasks |-> IF t = 0 THEN Main ELSE NoProc]
  <2>1. \A i \in AgentIds : started[i] <=> i = 0
    BY Zenon DEF Init
  <2> QED
    BY <2>1, AgentIdsFacts DEF Init, FJ!Tasks, AgentIds, codeBar
<1> QED
  BY <1>1, <1>2 DEF Init, FJ!FJInit, statusBar, codeBar

\* A launch, the first or a later one, is a Fork, or nothing when no turtle is
\* left; the launcher's own record is free to change once it has started.
LEMMA SpawnForks ==
  ASSUME IInv, StartedInv, NEW t \in AgentIds, state[t] = "READY",
         NEW p \in Procs, NEW launches \in [AgentIds -> Procs \cup {NoProc}],
         \A i \in AgentIds : i # t \/ ~started[t] => launches[i] = launch[i],
         spawn_agent(launches, p), UNCHANGED <<started, proc>>
  PROVE  [FJ!FJNext]_(FJ!fjVars)
<1> USE AgentIdsFacts DEF IInv, Parts
<1>1. CASE CanSpawn
  <2>1. /\ agent_count \in AgentIds /\ agent_count < MaxTurtles
        /\ state[agent_count] = "UNUSED" /\ ~started[agent_count] /\ t # agent_count
    BY <1>1, TypeFacts DEF CanSpawn, AgentsFitTurtles, StartedInv
  <2>2. /\ launch' = [launches EXCEPT ![agent_count] = p]
        /\ state' = [state EXCEPT ![agent_count] = "READY"]
        /\ agent_count' = agent_count + 1
    BY <1>1 DEF spawn_agent
  <2>3. statusBar' = [statusBar EXCEPT ![agent_count] = "active"]
    BY <2>1, <2>2, StatusOf DEF statusBar, TypeOK
  <2>4. codeBar' = [codeBar EXCEPT ![agent_count] = p]
    <3>1. \A i \in AgentIds \ {agent_count} : codeBar'[i] = codeBar[i]
      BY <2>1, <2>2 DEF codeBar
    <3>2. codeBar'[agent_count] = p
      BY <2>1, <2>2 DEF codeBar
    <3> QED
      BY <2>1, <3>1, <3>2 DEF codeBar
  <2>5. statusBar[t] = "active"
    BY StatusOf DEF statusBar
  <2>6. FJ!Fork(t, p)
    BY <2>1, <2>2, <2>3, <2>4, <2>5 DEF FJ!Fork, statusBar, codeBar
  <2> QED
    BY <2>6 DEF FJ!FJNext, FJ!Tasks, AgentIds
<1>2. CASE ~CanSpawn
  <2>1. launch' = launches /\ UNCHANGED <<state, agent_count>>
    BY <1>2 DEF spawn_agent
  <2>2. codeBar' = codeBar
    BY <2>1 DEF codeBar
  <2> QED
    BY <2>1, <2>2 DEF FJ!fjVars, codeBar
<1> QED
  BY <1>1, <1>2

\* A turn that only changes the running agent's state.
LEMMA BecomesMaps ==
  ASSUME IInv, EndTurn, NEW s \in {"READY", "WAITING_JOIN", "FINISHED"}, Becomes(s)
  PROVE  [FJ!FJNext]_(FJ!fjVars)
<1> USE AgentIdsFacts DEF IInv, Parts
<1>1. /\ cursor \in AgentIds /\ state[cursor] = "READY"
      /\ UNCHANGED <<started, proc, launch, agent_count>>
      /\ state' = [state EXCEPT ![cursor] = s]
  BY EndTurnFacts DEF Becomes, LoopInv
<1>2. statusBar' = [statusBar EXCEPT ![cursor] = ForkJoinStatus(s)]
  BY <1>1 DEF statusBar, TypeOK
<1>3. statusBar[cursor] = "active" /\ codeBar' = codeBar
  BY <1>1, StatusOf DEF statusBar, codeBar
<1>4. CASE s = "READY"
  <2>1. statusBar' = statusBar
    BY <1>2, <1>3, <1>4, StatusOf DEF statusBar
  <2> QED
    BY <1>1, <1>3, <2>1 DEF FJ!fjVars, statusBar, codeBar
<1>5. CASE s = "WAITING_JOIN"
  <2>1. FJ!Await(cursor)
    BY <1>1, <1>2, <1>3, <1>5, StatusOf DEF FJ!Await, statusBar, codeBar
  <2> QED
    BY <1>1, <2>1 DEF FJ!FJNext, FJ!Tasks, AgentIds
<1>6. CASE s = "FINISHED"
  <2>1. FJ!Finish(cursor)
    BY <1>1, <1>2, <1>3, <1>6, StatusOf DEF FJ!Finish, statusBar, codeBar
  <2> QED
    BY <1>1, <2>1 DEF FJ!FJNext, FJ!Tasks, AgentIds
<1> QED
  BY <1>4, <1>5, <1>6

\* The joins after a pass: at most one agent's AWAIT resolves, because two
\* that wait are each unfinished for the other.
LEMMA EndPassMaps ==
  ASSUME IInv, EndPass
  PROVE  [FJ!FJNext]_(FJ!fjVars)
<1> USE AgentIdsFacts DEF IInv, Parts
<1>0. UNCHANGED <<started, proc, launch, agent_count>> /\ codeBar' = codeBar
  BY DEF EndPass, EndPassThen, vmVars, codeBar
<1>1. state' = [i \in AgentIds |->
                  IF state[i] = "WAITING_JOIN" /\ every_other_agent_finished(i)
                  THEN "READY" ELSE state[i]]
  BY DEF EndPass, EndPassThen
<1>2. CASE \E i \in AgentIds : state[i] = "WAITING_JOIN" /\ every_other_agent_finished(i)
  <2>1. PICK i \in AgentIds : state[i] = "WAITING_JOIN" /\ every_other_agent_finished(i)
    BY <1>2
  <2>2. \A j \in AgentIds \ {i} : state[j] \in {"FINISHED", "UNUSED"}
    <3>1. SUFFICES ASSUME NEW j \in AgentIds \ {i} PROVE state[j] \in {"FINISHED", "UNUSED"}
      OBVIOUS
    <3>2. CASE j < agent_count
      BY <2>1, <3>2, TypeFacts DEF every_other_agent_finished
    <3>3. CASE ~(j < agent_count)
      BY <3>3 DEF AgentsFitTurtles
    <3> QED
      BY <3>2, <3>3
  <2>3. state' = [state EXCEPT ![i] = "READY"]
    <3>1. state = [j \in AgentIds |-> state[j]]
      BY DEF TypeOK
    <3>2. i \in AgentIds /\ state'[i] = "READY"
      BY <1>1, <2>1
    <3>3. \A j \in AgentIds \ {i} : state'[j] = state[j]
      BY <1>1, <2>2
    <3> QED
      BY <1>1, <3>1, <3>2, <3>3
  <2>4. statusBar' = [statusBar EXCEPT ![i] = "active"]
    BY <2>3, StatusOf DEF statusBar, TypeOK
  <2>5. statusBar[i] = "joining" /\ \A j \in AgentIds \ {i} : statusBar[j] \in {"none", "done"}
    BY <2>1, <2>2, StatusOf DEF statusBar
  <2>6. FJ!Tasks = AgentIds
    BY DEF FJ!Tasks, AgentIds
  <2>7. FJ!Join(i)
    BY <1>0, <2>4, <2>5, <2>6 DEF FJ!Join, statusBar, codeBar
  <2> QED
    BY <2>6, <2>7 DEF FJ!FJNext
<1>3. CASE ~\E i \in AgentIds : state[i] = "WAITING_JOIN" /\ every_other_agent_finished(i)
  <2>1. state' = state
    BY <1>1, <1>3 DEF TypeOK
  <2> QED
    BY <1>0, <2>1 DEF FJ!fjVars, codeBar
<1> QED
  BY <1>2, <1>3

LEMMA ForkJoinStep ==
  IInv /\ StartedInv /\ [Next]_vars => [FJ!FJNext]_(FJ!fjVars)
<1> SUFFICES ASSUME IInv, StartedInv, [Next]_vars PROVE [FJ!FJNext]_(FJ!fjVars)
  OBVIOUS
<1> USE AgentIdsFacts DEF IInv, Parts
<1>1. ASSUME UNCHANGED <<agent_count, state>>, codeBar' = codeBar
      PROVE  [FJ!FJNext]_(FJ!fjVars)
  BY <1>1 DEF FJ!fjVars, codeBar
<1>2. launch \in [AgentIds -> Procs \cup {NoProc}]
  BY DEF TypeOK
<1>3. CASE Start
  <2>1. /\ spawn_agent(launch, launch[0]) /\ launch[0] \in Procs /\ state[0] = "READY"
        /\ UNCHANGED <<started, proc>>
    BY <1>3 DEF Start, LoopInv
  <2> QED
    BY <1>2, <2>1, SpawnForks
<1>4. CASE Skip
  BY <1>1, <1>4 DEF Skip, agentVars, vmVars, codeBar
<1>5. CASE BeginTurn
  <2>1. /\ cursor \in AgentIds /\ UNCHANGED <<agent_count, state, launch>>
        /\ started' = [started EXCEPT ![cursor] = TRUE]
        /\ proc' = IF started[cursor] THEN proc
                   ELSE [proc EXCEPT ![cursor] = launch[cursor]]
    BY <1>5, TypeFacts DEF BeginTurn
  <2>2. /\ started \in [AgentIds -> BOOLEAN]
        /\ proc \in [AgentIds -> Procs \cup {Main, NoProc}]
    BY DEF TypeOK
  <2>3. \A i \in AgentIds : codeBar'[i] = codeBar[i]
    <3>1. SUFFICES ASSUME NEW i \in AgentIds PROVE codeBar'[i] = codeBar[i]
      OBVIOUS
    <3>2. CASE i = cursor
      BY <2>1, <2>2, <3>2 DEF codeBar
    <3>3. CASE i # cursor
      <4>1. started'[i] = started[i] /\ proc'[i] = proc[i]
        BY <2>1, <2>2, <3>3
      <4> QED
        BY <2>1, <4>1 DEF codeBar
    <3> QED
      BY <3>2, <3>3
  <2> QED
    BY <1>1, <2>1, <2>3 DEF codeBar
<1>6. CASE VmStep
  BY <1>1, <1>6, VmStepFrame DEF codeBar
<1>7. CASE Halted \/ Yielded \/ Awaits \/ Unsupported
  BY <1>7, BecomesMaps DEF Halted, Yielded, Awaits, Unsupported
<1>8. ASSUME NEW p \in Procs, Launched(p) PROVE [FJ!FJNext]_(FJ!fjVars)
  <2>1. /\ phase = "turn" /\ cursor \in AgentIds /\ UNCHANGED <<started, proc>>
        /\ spawn_agent([launch EXCEPT ![cursor] = p], p)
    BY <1>8, EndTurnFacts DEF Launched
  <2>2. started[cursor] /\ state[cursor] = "READY"
    BY <2>1 DEF StartedInv, LoopInv
  <2>3. /\ [launch EXCEPT ![cursor] = p] \in [AgentIds -> Procs \cup {NoProc}]
        /\ \A i \in AgentIds : i # cursor => [launch EXCEPT ![cursor] = p][i] = launch[i]
    BY <1>2
  <2> QED
    BY <2>1, <2>2, <2>3, SpawnForks
<1>9. CASE EndPass
  BY <1>9, EndPassMaps
<1>10. CASE UNCHANGED vars
  BY <1>1, <1>10 DEF vars, codeBar
<1> QED
  BY <1>3, <1>4, <1>5, <1>6, <1>7, <1>8, <1>9, <1>10 DEF Next, VmStep

\* The round-robin scheduler implements fork and join, for any number of
\* turtles: agents come from LAUNCH alone and each runs what its LAUNCH named,
\* and an AWAIT returns only once every other agent has finished.
THEOREM SchedulerImplementsForkJoin == Spec => ImplementsForkJoin
<1>1. Init => IInv /\ StartedInv
  BY InitInvariant, StartedInit
<1>2. IInv /\ StartedInv /\ [Next]_vars => (IInv /\ StartedInv)'
  BY Invariance, StartedStep
<1> QED
  BY <1>1, <1>2, ForkJoinInit, ForkJoinStep, PTL DEF Spec, ImplementsForkJoin, FJ!FJSpec
=============================================================================
