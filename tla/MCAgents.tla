------------------------------ MODULE MCAgents ------------------------------
(***************************************************************************)
(* Model checking Agents.  One history variable: `served`, for each agent, *)
(* the agents that have had a turn since it last had one itself or became  *)
(* READY.                                                                  *)
(***************************************************************************)
EXTENDS Agents

VARIABLE served

mcVars == <<vars, served>>

MCInit == Init /\ served = [i \in AgentIds |-> {}]

MCNext ==
  /\ Next
  /\ served' = [i \in AgentIds |->
       IF phase' = "turn" /\ phase # "turn"
       THEN IF i = cursor THEN {} ELSE served[i] \cup {cursor}
       ELSE IF state'[i] # state[i] THEN {} ELSE served[i]]

MCSpec == MCInit /\ [][MCNext]_mcVars

(* FairSpec with the history variable. *)
MCFairSpec == MCSpec /\ WF_vars(Next)

\* Round robin: between two turns of one agent, every other agent that was
\* READY all along has had a turn; YIELD and LAUNCH hand over to all of them.
RoundRobin ==
  [][\A i \in AgentIds :
       phase = "pass" /\ phase' = "turn" /\ state[i] = "READY" /\ i # cursor
         => cursor \notin served[i]]_mcVars
=============================================================================
