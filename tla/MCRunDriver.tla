---------------------------- MODULE MCRunDriver ----------------------------
(***************************************************************************)
(* Model checking RunDriver: what the scripts of each run can define.  The *)
(* procedures are f and g.                                                 *)
(***************************************************************************)
EXTENDS RunDriver

CONSTANTS f, g

Defining(fInputs, gInputs) ==
  [n \in Names |-> CASE n = f -> fInputs [] n = g -> gInputs]

Neither == Defining(NotDefined, NotDefined)

\* f handles keys wherever it is defined; no script defines g.
KeyScripts == {Neither, Defining(Arity.key, NotDefined)}

\* f handles keys and g clicks, wherever they are defined.
SteadyScripts ==
  {Neither, Defining(Arity.key, NotDefined), Defining(NotDefined, Arity.click),
   Defining(Arity.key, Arity.click)}

\* Scripts that define both, f, or neither.
FewScripts == KeyScripts \cup {Defining(Arity.key, Arity.click)}
=============================================================================
