---------------------------- MODULE ListValues -----------------------------
(***************************************************************************)
(* What a variable's value means: a tree of words and sequences, read from *)
(* the cells of Lists.  `before` is every variable's tree at the start of  *)
(* the last operation.                                                     *)
(***************************************************************************)
EXTENDS Lists

CONSTANT MaxOps   \* operations in a run
VARIABLES before, ops

\* A word has the "word" form, a list or an array holds its elements' trees.
Trees(cells) ==
  LET tree[h \in 0..Len(cells)] ==
        IF h = 0 THEN <<>>
        ELSE <<IF cells[h].type = "list" THEN <<"list", tree[cells[h].sub]>>
               ELSE <<"word", cells[h].word>>>> \o tree[cells[h].next]
  IN  tree
Tree(cells, v) ==
  LET trees == Trees(cells)
  IN  CASE IsListVal(v) -> <<"list", trees[v[2]]>>
        [] IsArray(v)   -> <<"array", [i \in 1..v[3] |-> trees[v[2] + i - 1][1]]>>
        [] OTHER        -> v
VarTrees == [v \in Vars |-> Tree(pool, vars[v])]

TracedInit == Init /\ before = VarTrees /\ ops = 0
TracedNext ==
  \/ Command /\ ops < MaxOps /\ before' = VarTrees /\ ops' = ops + 1
  \/ (Build \/ Close) /\ UNCHANGED <<before, ops>>
TracedSpec == TracedInit /\ [][TracedNext]_<<listVars, before, ops>>

\* No operation disturbs a value it does not return, neither while its cells
\* are being linked nor when it gives up half-way: what is shared stays as it
\* was.  Only SETITEM and FILLARRAY change a value, through every variable
\* that holds the array.
Aliases(v) == /\ op.name \in {"setitem", "fillarray"}
              /\ IsArray(vars[v]) /\ vars[v] = vars[op.target]
ValuesKept ==
  \A v \in Vars : (v # op.target \/ ~Idle) /\ ~Aliases(v) => Tree(pool, vars[v]) = before[v]
=============================================================================
