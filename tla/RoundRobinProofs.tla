------------------------- MODULE RoundRobinProofs -------------------------
(***************************************************************************)
(* Proof that the scheduler of Agents is a round robin, for any number of  *)
(* agents: MCAgents' history variable, `served`, and what the place of the *)
(* pass says about it.                                                     *)
(***************************************************************************)
EXTENDS MCAgents, AgentsProofs

\* The agents below this one are behind the pass.
Gone == IF phase = "turn" THEN cursor + 1 ELSE cursor

\* Since i's own last turn j can have had one, the pass having come to g: when
\* the pass is past i, it has met j in between; when it is yet to come to i, it
\* has met j already, or met it after i in the last pass.
MayServe(i, j, g) ==
  /\ i < g => i < j /\ j < g
  /\ i >= g => i < j \/ j < g

ServedInv ==
  \A i \in AgentIds :
    /\ served[i] \subseteq AgentIds
    /\ state[i] = "READY" => \A j \in served[i] : MayServe(i, j, Gone)

-----------------------------------------------------------------------------
\* Where the pass is.
LEMMA GoneFacts ==
  ASSUME IInv
  PROVE  /\ cursor \in Nat /\ agent_count \in Nat /\ Gone \in Nat
         /\ AgentIds \subseteq Nat
         /\ phase = "turn" => cursor \in AgentIds
         /\ \A i \in AgentIds : state[i] = "READY" => i < agent_count
BY TypeFacts, AgentIdsFacts DEF IInv, Parts, LoopInv, AgentsFitTurtles, Gone

\* A step that begins no turn: an agent that is READY in the same state as
\* before is served by nobody.
LEMMA ServedKept ==
  ASSUME IInv, ServedInv, MCNext, ~(phase' = "turn" /\ phase # "turn"),
         Gone' \in Nat,
         \/ Gone' = Gone
         \/ Gone' = Gone + 1 /\ (Gone \in AgentIds => state[Gone] # "READY")
         \/ Gone' = 0 /\ Gone = agent_count
  PROVE  ServedInv'
<1>1. \A i \in AgentIds : served'[i] = IF state'[i] # state[i] THEN {} ELSE served[i]
  BY DEF MCNext
<1>2. ASSUME NEW i \in AgentIds, state'[i] = "READY", NEW j \in served'[i]
      PROVE  MayServe(i, j, Gone')
  <2>1. state[i] = "READY" /\ j \in served[i] /\ j \in AgentIds
    BY <1>1, <1>2 DEF ServedInv
  <2>2. MayServe(i, j, Gone)
    BY <2>1 DEF ServedInv
  <2>3. i \in Nat /\ j \in Nat /\ Gone \in Nat /\ i < agent_count
    BY <2>1, GoneFacts
  <2>4. CASE Gone' = Gone
    BY <2>2, <2>4
  <2>5. CASE Gone' = Gone + 1 /\ (Gone \in AgentIds => state[Gone] # "READY")
    <3>1. i # Gone
      BY <2>1, <2>5
    <3> QED
      BY <2>2, <2>3, <2>5, <3>1 DEF MayServe
  <2>6. CASE Gone' = 0 /\ Gone = agent_count
    BY <2>2, <2>3, <2>6 DEF MayServe
  <2> QED
    BY <2>4, <2>5, <2>6
<1>3. \A i \in AgentIds : served'[i] \subseteq AgentIds
  BY <1>1 DEF ServedInv
<1> QED
  BY <1>2, <1>3 DEF ServedInv

\* A turn begins: its agent starts anew, and it serves the others.
LEMMA ServedTurn ==
  ASSUME IInv, ServedInv, MCNext, BeginTurn
  PROVE  ServedInv'
<1>1. phase = "pass" /\ phase' = "turn" /\ UNCHANGED <<cursor, state>>
  BY DEF BeginTurn
<1>2. \A i \in AgentIds : served'[i] = IF i = cursor THEN {} ELSE served[i] \cup {cursor}
  BY <1>1 DEF MCNext
<1>3. cursor \in Nat /\ cursor \in AgentIds /\ Gone = cursor /\ Gone' = cursor + 1
  BY <1>1, TypeFacts DEF BeginTurn, IInv, Parts, Gone
<1>4. ASSUME NEW i \in AgentIds, state'[i] = "READY", NEW j \in served'[i]
      PROVE  MayServe(i, j, Gone')
  <2>1. i # cursor /\ (j = cursor \/ j \in served[i])
    BY <1>2, <1>4
  <2>2. j \in AgentIds /\ j \in Nat /\ i \in Nat
    BY <1>3, <2>1, AgentIdsFacts DEF ServedInv
  <2>3. j # cursor => MayServe(i, j, cursor)
    BY <1>1, <1>3, <1>4, <2>1 DEF ServedInv
  <2>4. MayServe(i, j, cursor + 1)
    <3>1. CASE j = cursor
      BY <1>3, <2>1, <2>2, <3>1 DEF MayServe
    <3>2. CASE j # cursor
      BY <1>3, <2>1, <2>2, <2>3, <3>2 DEF MayServe
    <3> QED
      BY <3>1, <3>2
  <2> QED
    BY <1>3, <2>4
<1>5. \A i \in AgentIds : served'[i] \subseteq AgentIds
  BY <1>2, <1>3 DEF ServedInv
<1> QED
  BY <1>4, <1>5 DEF ServedInv

\* Every step keeps what the place of the pass says.
LEMMA ServedStep == IInv /\ ServedInv /\ [MCNext]_mcVars => ServedInv'
<1> SUFFICES ASSUME IInv, ServedInv, [MCNext]_mcVars PROVE ServedInv'
  OBVIOUS
<1> USE GoneFacts
<1>1. CASE UNCHANGED mcVars
  BY <1>1 DEF mcVars, vars, ServedInv, Gone
<1>2. ASSUME MCNext, BeginTurn PROVE ServedInv'
  BY <1>2, ServedTurn
<1>3. ASSUME MCNext, Start \/ VmStep PROVE ServedInv'
  <2>1. Gone' = Gone /\ ~(phase' = "turn" /\ phase # "turn")
    BY <1>3, VmStepFrame DEF Start, Gone
  <2> QED
    BY <1>3, <2>1, ServedKept
<1>4. ASSUME MCNext, EndTurn PROVE ServedInv'
  <2>1. Gone' = Gone /\ phase' = "pass"
    BY <1>4 DEF EndTurn, Gone
  <2> QED
    BY <1>4, <2>1, ServedKept
<1>5. ASSUME MCNext, Skip PROVE ServedInv'
  <2>1. Gone' = Gone + 1 /\ state[Gone] # "READY" /\ phase' = "pass"
    BY <1>5 DEF Skip, Gone
  <2> QED
    BY <1>5, <2>1, ServedKept
<1>6. ASSUME MCNext, EndPass PROVE ServedInv'
  <2>1. Gone' = 0 /\ Gone = agent_count /\ phase' # "turn"
    BY <1>6 DEF EndPass, EndPassThen, Gone
  <2> QED
    BY <1>6, <2>1, ServedKept
<1>7. CASE MCNext
  <2>1. \/ Start \/ Skip \/ BeginTurn \/ VmStep \/ EndTurn \/ EndPass
    BY <1>7 DEF MCNext, Next, VmStep, Halted, Yielded, Awaits, Unsupported, Launched
  <2> QED
    BY <1>2, <1>3, <1>4, <1>5, <1>6, <1>7, <2>1
<1> QED
  BY <1>1, <1>7

LEMMA ServedInit == MCInit => IInv /\ ServedInv
BY InitInvariant DEF MCInit, ServedInv

\* YIELD, LAUNCH and a motion delay hand over to every other READY agent:
\* scheduler_run gives no agent a second turn while one that was READY all
\* along waits for its next.
THEOREM TurnsGoRound == MCSpec => RoundRobin
<1>1. IInv /\ [MCNext]_mcVars => IInv'
  <2>1. [MCNext]_mcVars => [Next]_vars
    BY DEF MCNext, mcVars
  <2> QED
    BY <2>1, Invariance
<1>2. IInv /\ ServedInv =>
        \A i \in AgentIds :
          phase = "pass" /\ phase' = "turn" /\ state[i] = "READY" /\ i # cursor
            => cursor \notin served[i]
  <2> SUFFICES ASSUME IInv, ServedInv, NEW i \in AgentIds,
                      phase = "pass", state[i] = "READY", i # cursor, cursor \in served[i]
               PROVE  FALSE
    OBVIOUS
  <2>1. MayServe(i, cursor, cursor)
    BY DEF ServedInv, Gone
  <2> QED
    BY <2>1, GoneFacts DEF MayServe
<1> QED
  BY <1>1, <1>2, ServedInit, ServedStep, PTL DEF MCSpec, RoundRobin
=============================================================================
