-------------------------- MODULE ListValuesProofs --------------------------
(***************************************************************************)
(* No list operation changes a value it does not return, for any pool size *)
(* and any number of operations: ValuesKept.  ListsProofs has the heap's   *)
(* invariant; here is what it means for the trees that values stand for.   *)
(***************************************************************************)
EXTENDS ListValues, ListsProofs

(***************************************************************************)
(* Trees.  The recursion that defines them has a solution because the pool *)
(* has no cycle, and the solution at a cell only depends on the cells it   *)
(* leads to.                                                               *)
(***************************************************************************)
TreeAt(cells, f, c) ==
  IF c = 0 THEN <<>>
  ELSE <<IF cells[c].type = "list" THEN <<"list", f[cells[c].sub]>>
         ELSE <<"word", cells[c].word>>>> \o f[cells[c].next]

ClosedIn(cells, closed) ==
  /\ closed \subseteq 1..Len(cells)
  /\ \A c \in closed : cells[c].next \in closed \cup {0} /\ cells[c].sub \in closed \cup {0}
\* f is the recursion's solution on a closed set of cells.
Solves(cells, closed, f) ==
  /\ ClosedIn(cells, closed)
  /\ \A c \in closed \cup {0} : f[c] = TreeAt(cells, f, c)
WellFormed(cells) == Len(cells) \in Nat /\ Acyclic(cells) /\ ClosedIn(cells, 1..Len(cells))

\* Two pools that agree on some cells have the same trees there: the set of
\* cells where they differ would have one that leads out of it.
LEMMA SolutionsAgree ==
  ASSUME NEW cells, NEW cells2, Acyclic(cells), NEW C, NEW C2, NEW f, NEW f2,
         Solves(cells, C, f), Solves(cells2, C2, f2),
         \A c \in C \cap C2 : cells2[c] = cells[c]
  PROVE  \A c \in (C \cap C2) \cup {0} : f2[c] = f[c]
<1> DEFINE wrong == {c \in C \cap C2 : f2[c] # f[c]}
<1>1. f[0] = <<>> /\ f2[0] = <<>> BY DEF Solves, TreeAt
<1>2. SUFFICES ASSUME wrong # {} PROVE FALSE BY <1>1
<1>3. wrong \in SUBSET (1..Len(cells)) BY DEF Solves, ClosedIn
<1>4. PICK c \in wrong : cells[c].next \notin wrong /\ cells[c].sub \notin wrong
  BY <1>2, <1>3 DEF Acyclic
<1>5. c \in C /\ c \in C2 /\ f2[c] # f[c] /\ cells2[c] = cells[c] /\ c # 0
  BY <1>3, <1>4
<1>6. /\ cells[c].next \in C \cup {0} /\ cells[c].next \in C2 \cup {0}
      /\ cells[c].sub \in C \cup {0} /\ cells[c].sub \in C2 \cup {0}
  BY <1>5 DEF Solves, ClosedIn
<1>7. f2[cells[c].next] = f[cells[c].next] /\ f2[cells[c].sub] = f[cells[c].sub]
  BY <1>1, <1>4, <1>6
<1>8. f[c] = TreeAt(cells, f, c) /\ f2[c] = TreeAt(cells2, f2, c) BY <1>5 DEF Solves
<1>9. TreeAt(cells2, f2, c) = TreeAt(cells, f, c) BY <1>5, <1>7 DEF TreeAt
<1> QED BY <1>5, <1>8, <1>9

\* The recursion has a solution at each cell: the same argument on the set of
\* cells where it has none.
LEMMA SolutionExists ==
  ASSUME NEW cells, WellFormed(cells), NEW d \in 1..Len(cells)
  PROVE  \E C, f : d \in C /\ Solves(cells, C, f)
<1> DEFINE unsolved == {c \in 1..Len(cells) : ~\E C, f : c \in C /\ Solves(cells, C, f)}
<1>1. SUFFICES ASSUME unsolved # {} PROVE FALSE OBVIOUS
<1>2. PICK c \in unsolved : cells[c].next \notin unsolved /\ cells[c].sub \notin unsolved
  BY <1>1 DEF WellFormed, Acyclic
<1>3. c \in 1..Len(cells) /\ c # 0 /\ cells[c].next \in 0..Len(cells) /\ cells[c].sub \in 0..Len(cells)
  BY <1>2 DEF WellFormed, ClosedIn
<1>4. \E f : Solves(cells, {}, f)
  <2> DEFINE f == [x \in {0} |-> <<>>]
  <2>1. f[0] = TreeAt(cells, f, 0) BY DEF TreeAt
  <2> HIDE DEF f
  <2>2. Solves(cells, {}, f) BY <2>1 DEF Solves, ClosedIn
  <2> QED BY <2>2
<1>5. ASSUME NEW x \in 0..Len(cells), x \notin unsolved
      PROVE  \E C, f : x \in C \cup {0} /\ Solves(cells, C, f)
  <2>1. CASE x = 0 BY <1>4, <2>1
  <2>2. CASE x # 0
    <3>1. x \in 1..Len(cells) BY <1>5, <2>2 DEF WellFormed
    <3> QED BY <1>5, <3>1
  <2> QED BY <2>1, <2>2
<1>6. PICK C1, f1 : cells[c].next \in C1 \cup {0} /\ Solves(cells, C1, f1)
  BY <1>2, <1>3, <1>5
<1>7. PICK C2, f2 : cells[c].sub \in C2 \cup {0} /\ Solves(cells, C2, f2)
  BY <1>2, <1>3, <1>5
<1> HIDE DEF unsolved
<1>8. \A x \in (C1 \cap C2) \cup {0} : f2[x] = f1[x]
  BY <1>6, <1>7, SolutionsAgree DEF WellFormed
<1> DEFINE C == C1 \cup C2 \cup {c}
           g == [x \in C1 \cup C2 \cup {0} |-> IF x \in C1 \cup {0} THEN f1[x] ELSE f2[x]]
           f == [x \in C \cup {0} |-> IF x \in C1 \cup C2 \cup {0} THEN g[x]
                                      ELSE TreeAt(cells, g, x)]
<1>9. ClosedIn(cells, C) BY <1>3, <1>6, <1>7 DEF Solves, ClosedIn
<1>10. /\ \A x \in C1 \cup {0} : g[x] = f1[x]
       /\ \A x \in C2 \cup {0} : g[x] = f2[x]
  BY <1>8
<1>11. \A x \in C1 \cup C2 \cup {0} : f[x] = g[x] OBVIOUS
<1> HIDE DEF g
<1>12. ASSUME NEW x \in C1 \cup {0} PROVE f[x] = TreeAt(cells, f, x)
  <2>1. f[x] = TreeAt(cells, f1, x) BY <1>6, <1>10, <1>11 DEF Solves
  <2>2. x # 0 => /\ cells[x].next \in C1 \cup {0} /\ cells[x].sub \in C1 \cup {0}
    BY <1>6 DEF Solves, ClosedIn
  <2>3. x # 0 => f[cells[x].next] = f1[cells[x].next] /\ f[cells[x].sub] = f1[cells[x].sub]
    BY <1>10, <1>11, <2>2
  <2> HIDE DEF f
  <2> QED BY <2>1, <2>3 DEF TreeAt
<1>13. ASSUME NEW x \in C2 PROVE f[x] = TreeAt(cells, f, x)
  <2>1. f[x] = TreeAt(cells, f2, x) BY <1>7, <1>10, <1>11 DEF Solves
  <2>2. /\ cells[x].next \in C2 \cup {0} /\ cells[x].sub \in C2 \cup {0}
    BY <1>7 DEF Solves, ClosedIn
  <2>3. f[cells[x].next] = f2[cells[x].next] /\ f[cells[x].sub] = f2[cells[x].sub]
    BY <1>10, <1>11, <2>2
  <2> HIDE DEF f
  <2> QED BY <2>1, <2>3 DEF TreeAt
<1>14. f[c] = TreeAt(cells, f, c)
  <2>1. CASE c \in C1 \cup C2 BY <1>12, <1>13, <2>1
  <2>2. CASE c \notin C1 \cup C2
    <3>1. f[c] = TreeAt(cells, g, c) BY <1>3, <2>2
    <3>2. f[cells[c].next] = g[cells[c].next] /\ f[cells[c].sub] = g[cells[c].sub]
      BY <1>6, <1>7, <1>11
    <3> HIDE DEF f
    <3> QED BY <3>1, <3>2 DEF TreeAt
  <2> QED BY <2>1, <2>2
<1> HIDE DEF f
<1>15. Solves(cells, C, f) BY <1>9, <1>12, <1>13, <1>14 DEF Solves
<1> QED BY <1>2, <1>15 DEF unsolved

\* The trees of a pool without cycles are what their definition says.
LEMMA TreesSolve ==
  ASSUME NEW cells, WellFormed(cells)
  PROVE  Solves(cells, 1..Len(cells), Trees(cells))
<1> DEFINE D    == 0..Len(cells)
           with(c) == CHOOSE p : c \in p[1] /\ Solves(cells, p[1], p[2])
           sol(f)  == f = [c \in D |-> TreeAt(cells, f, c)]
           whole   == [c \in D |-> IF c = 0 THEN <<>> ELSE with(c)[2][c]]
<1>1. ASSUME NEW c \in 1..Len(cells)
      PROVE  c \in with(c)[1] /\ Solves(cells, with(c)[1], with(c)[2])
  <2>1. PICK C, f : c \in C /\ Solves(cells, C, f) BY SolutionExists
  <2> DEFINE p == <<C, f>>
  <2>2. c \in p[1] /\ Solves(cells, p[1], p[2]) BY <2>1
  <2> HIDE DEF p
  <2> QED BY <2>2
<1> HIDE DEF with
<1>2. whole[0] = <<>> /\ \A c \in 1..Len(cells) : whole[c] = with(c)[2][c]
  BY DEF WellFormed
<1>3. ASSUME NEW c \in 1..Len(cells), NEW x \in with(c)[1] \cup {0}
      PROVE  whole[x] = with(c)[2][x]
  <2>1. Solves(cells, with(c)[1], with(c)[2]) BY <1>1
  <2>2. CASE x = 0 BY <1>2, <2>1, <2>2 DEF Solves, TreeAt
  <2>3. CASE x # 0
    <3>1. x \in 1..Len(cells) /\ x \in with(c)[1] BY <1>3, <2>1, <2>3 DEF Solves, ClosedIn
    <3>2. x \in with(x)[1] /\ Solves(cells, with(x)[1], with(x)[2]) BY <1>1, <3>1
    <3>3. with(x)[2][x] = with(c)[2][x]
      BY <2>1, <3>1, <3>2, SolutionsAgree DEF WellFormed
    <3> QED BY <1>2, <3>1, <3>3
  <2> QED BY <2>2, <2>3
<1> HIDE DEF whole
<1>4. ASSUME NEW c \in D PROVE whole[c] = TreeAt(cells, whole, c)
  <2>1. CASE c = 0 BY <1>2, <2>1 DEF TreeAt
  <2>2. CASE c # 0
    <3>1. c \in 1..Len(cells) BY <2>2 DEF WellFormed
    <3>2. c \in with(c)[1] /\ Solves(cells, with(c)[1], with(c)[2]) BY <1>1, <3>1
    <3>3. whole[c] = TreeAt(cells, with(c)[2], c) BY <1>3, <3>1, <3>2 DEF Solves
    <3>4. cells[c].next \in with(c)[1] \cup {0} /\ cells[c].sub \in with(c)[1] \cup {0}
      BY <3>2 DEF Solves, ClosedIn
    <3>5. /\ whole[cells[c].next] = with(c)[2][cells[c].next]
          /\ whole[cells[c].sub] = with(c)[2][cells[c].sub]
      BY <1>3, <3>1, <3>4
    <3> QED BY <2>2, <3>3, <3>5 DEF TreeAt
  <2> QED BY <2>1, <2>2
<1>5. whole = [c \in D |-> TreeAt(cells, whole, c)]
  <2>1. whole = [c \in D |-> whole[c]] BY DEF whole
  <2> HIDE DEF D
  <2> QED BY <1>4, <2>1
<1>6. sol(whole) BY <1>5
<1>7. Trees(cells) = CHOOSE f : sol(f)
  BY DEF Trees, TreeAt
<1> HIDE DEF sol
<1>8. sol(Trees(cells)) BY <1>6, <1>7
<1>9. \A c \in D : Trees(cells)[c] = TreeAt(cells, Trees(cells), c)
  <2> DEFINE f == Trees(cells)
  <2>1. f = [c \in D |-> TreeAt(cells, f, c)] BY <1>8 DEF sol
  <2> HIDE DEF f, D
  <2>2. \A c \in D : f[c] = TreeAt(cells, f, c) BY <2>1
  <2> QED BY <2>2 DEF f
<1>10. \A c \in (1..Len(cells)) \cup {0} : c \in D BY DEF WellFormed
<1> QED BY <1>9, <1>10 DEF Solves, WellFormed

\* The heap's invariant is what trees need.
LEMMA HeapWellFormed ==
  ASSUME NEW cells, NEW h, CellsOK(cells, h)
  PROVE  WellFormed(cells)
<1>1. Len(cells) \in Nat /\ Acyclic(cells) /\ h \in [1..Len(cells) -> Int] BY DEF CellsOK
<1>2. ASSUME NEW c \in 1..Len(cells)
      PROVE  cells[c].next \in (1..Len(cells)) \cup {0} /\ cells[c].sub \in (1..Len(cells)) \cup {0}
  BY <1>1 DEF CellsOK, Near, Shared, AtHome
<1> QED BY <1>1, <1>2 DEF WellFormed, ClosedIn

(***************************************************************************)
(* Values.                                                                 *)
(***************************************************************************)
\* What is for good, shared cells and those of arrays, stays as it is, except
\* for some cells.
KeptBut(cells, h, cells2, hits) ==
  \A c \in 1..Len(cells) : h[c] <= 0 /\ c \notin hits => c \in 1..Len(cells2) /\ cells2[c] = cells[c]

\* A value whose cells are not hit keeps its tree.
LEMMA TreeKept ==
  ASSUME NEW cells, NEW h, CellsOK(cells, h), NEW cells2, WellFormed(cells2),
         NEW hits, KeptBut(cells, h, cells2, hits), \A c \in hits : ~AtHome(h, c, 0),
         NEW v, ValueOK(v, h), IsArray(v) => ArrayCells(v) \cap hits = {}
  PROVE  Tree(cells2, v) = Tree(cells, v)
<1> DEFINE C == {c \in 1..Len(cells) : h[c] = 0} \cup (IF IsArray(v) THEN ArrayCells(v) ELSE {})
           f  == Trees(cells)
           f2 == Trees(cells2)
<1>1. /\ Len(cells) \in Nat /\ Acyclic(cells) /\ h \in [1..Len(cells) -> Int]
      /\ \A c \in 1..Len(cells) : Near(h, c, cells[c].next) /\ Near(h, c, cells[c].sub)
  BY DEF CellsOK
<1>2. ASSUME IsArray(v), NEW c \in ArrayCells(v)
      PROVE  c \in 1..Len(cells) /\ h[c] < 0 /\ c \notin hits
  BY <1>1, <1>2 DEF ValueOK, Value, IsArray, AtHome
<1>3. ASSUME NEW c \in C
      PROVE  c \in 1..Len(cells) /\ c \in 1..Len(cells2) /\ h[c] <= 0 /\ cells2[c] = cells[c]
  BY <1>1, <1>2 DEF KeptBut, AtHome
<1>4. ASSUME NEW c \in C, NEW d, Near(h, c, d) PROVE d \in C \cup {0}
  BY <1>1, <1>3, <1>4 DEF Near, Shared, AtHome
<1>5. ASSUME NEW c \in C PROVE cells[c].next \in C \cup {0} /\ cells[c].sub \in C \cup {0}
  BY <1>1, <1>3, <1>4
<1>6. Solves(cells, 1..Len(cells), f) /\ Solves(cells2, 1..Len(cells2), f2)
  BY HeapWellFormed, TreesSolve
<1> HIDE DEF C, f, f2
<1>7. ClosedIn(cells, C) BY <1>3, <1>5 DEF ClosedIn
<1>8. Solves(cells, C, f) BY <1>3, <1>6, <1>7 DEF Solves
<1>9. \A c \in C \cup {0} : f2[c] = f[c]
  <2> DEFINE C2 == 1..Len(cells2)
  <2>1. Solves(cells2, C2, f2) BY <1>6
  <2>2. \A c \in C : c \in C2 BY <1>3
  <2> HIDE DEF C2
  <2>3. \A c \in C \cap C2 : cells2[c] = cells[c] BY <1>3
  <2>4. \A c \in (C \cap C2) \cup {0} : f2[c] = f[c]
    BY <1>1, <1>8, <2>1, <2>3, SolutionsAgree
  <2> QED BY <2>2, <2>4
<1>10. CASE IsListVal(v)
  <2>1. v[2] \in C \cup {0} BY <1>1, <1>10 DEF C, ValueOK, Shared, AtHome
  <2>2. ~IsArray(v) BY <1>10 DEF IsArray, IsListVal
  <2>3. Tree(cells, v) = <<"list", f[v[2]]>> /\ Tree(cells2, v) = <<"list", f2[v[2]]>>
    BY <1>10, <2>2 DEF Tree, f, f2
  <2> QED BY <1>9, <2>1, <2>3
<1>11. CASE IsArray(v)
  <2>1. ~IsListVal(v) BY <1>11 DEF IsArray, IsListVal
  <2>2. ASSUME NEW i \in 1..v[3] PROVE f2[v[2] + i - 1] = f[v[2] + i - 1]
    <3>1. v[2] \in Nat /\ v[3] \in Nat BY <1>11 DEF ValueOK, Value, IsArray
    <3>2. v[2] + i - 1 \in ArrayCells(v) BY <3>1 DEF ArrayCells
    <3>3. v[2] + i - 1 \in C BY <1>11, <3>2 DEF C
    <3> QED BY <1>9, <3>3
  <2>3. /\ Tree(cells, v) = <<"array", [i \in 1..v[3] |-> f[v[2] + i - 1][1]]>>
        /\ Tree(cells2, v) = <<"array", [i \in 1..v[3] |-> f2[v[2] + i - 1][1]]>>
    BY <1>11, <2>1 DEF Tree, f, f2
  <2>4. [i \in 1..v[3] |-> f[v[2] + i - 1][1]] = [i \in 1..v[3] |-> f2[v[2] + i - 1][1]]
    BY <2>2
  <2> QED BY <2>3, <2>4
<1>12. CASE ~IsListVal(v) /\ ~IsArray(v)
  BY <1>12 DEF Tree
<1> QED BY <1>10, <1>11, <1>12

(***************************************************************************)
(* Constructions: what they link or fill is no shared cell.                *)
(***************************************************************************)
LEMMA LinkKept ==
  ASSUME NEW cells, NEW h, CellsOK(cells, h), NEW f, NEW cell, NEW k \in Nat, k > 0,
         f.slot = 0 \/ AtHome(h, f.slot, k)
  PROVE  KeptBut(cells, h, Linked(cells, f, cell), {})
<1>1. cells \in Seq(Node) /\ Len(cells) \in Nat /\ h \in [1..Len(cells) -> Int] BY DEF CellsOK
<1>2. CASE f.slot = 0
  <2>1. Linked(cells, f, cell) = Append(cells, cell) BY <1>2 DEF Linked
  <2>2. /\ Len(Append(cells, cell)) = Len(cells) + 1
        /\ \A c \in 1..Len(cells) : Append(cells, cell)[c] = cells[c]
    BY <1>1
  <2> QED BY <1>1, <2>1, <2>2 DEF KeptBut
<1>3. CASE f.slot # 0
  <2> DEFINE changed == WithNext(cells, f.slot, Len(cells) + 1)
  <2>1. f.slot \in 1..Len(cells) /\ h[f.slot] > 0 BY <1>1, <1>3 DEF AtHome
  <2>2. changed \in Seq(Node) /\ Len(changed) = Len(cells)
    BY <1>1, <2>1, NextChanged
  <2>3. \A c \in 1..Len(cells) : c # f.slot => changed[c] = cells[c]
    BY <1>1 DEF WithNext
  <2>4. Linked(cells, f, cell) = Append(changed, cell) BY <1>3 DEF Linked, WithNext
  <2> HIDE DEF changed
  <2>5. /\ Len(Append(changed, cell)) = Len(cells) + 1
        /\ \A c \in 1..Len(cells) : Append(changed, cell)[c] = changed[c]
    BY <1>1, <2>2
  <2> QED BY <1>1, <2>1, <2>3, <2>4, <2>5 DEF KeptBut
<1> QED BY <1>2, <1>3

\* An empty sublist is filled in: that of a cell still on a chain.
LEMMA FillKept ==
  ASSUME NEW cells, NEW h, CellsOK(cells, h), NEW c0, NEW k \in Nat, k > 0, AtHome(h, c0, k),
         NEW d \in Nat
  PROVE  KeptBut(cells, h, WithSub(cells, c0, d), {})
<1>1. cells \in Seq(Node) /\ Len(cells) \in Nat /\ h \in [1..Len(cells) -> Int] BY DEF CellsOK
<1>2. c0 \in 1..Len(cells) /\ h[c0] > 0 BY <1>1 DEF AtHome
<1>3. Len(WithSub(cells, c0, d)) = Len(cells) BY <1>1, <1>2, SubChanged
<1>4. \A c \in 1..Len(cells) : c # c0 => WithSub(cells, c0, d)[c] = cells[c]
  BY <1>1 DEF WithSub
<1>5. \A c \in 1..Len(cells) : h[c] <= 0 => c # c0 BY <1>1, <1>2
<1> QED BY <1>3, <1>4, <1>5 DEF KeptBut

LEMMA SameKept ==
  ASSUME NEW cells, NEW h
  PROVE  KeptBut(cells, h, cells, {})
BY DEF KeptBut

\* The variables at a step of a construction: as they were, or it is over and
\* its target has its value.
OnlyResult == vars' = vars \/ (frames' = <<>> /\ \E v : vars' = [vars EXCEPT ![op.target] = v])

\* The pool is full.
LEMMA ExhaustedStep ==
  ASSUME Exhausted
  PROVE  UNCHANGED op /\ pool' = pool /\ OnlyResult
BY DEF Exhausted, Finish, OnlyResult

\* Any step of a construction.
LEMMA ConstructionStep ==
  ASSUME NEW h, CellsOK(pool, h), FramesOK(frames, h, op.name), Build \/ Close
  PROVE  UNCHANGED op /\ OnlyResult /\ KeptBut(pool, h, pool', {})
<1> DEFINE n     == Len(frames)
           f     == Innermost
           outer == Others[Len(Others)]
<1>1. frames # <<>> BY DEF Build, Close
<1>2. /\ n \in Nat /\ n > 0 /\ FrameOK(f, n, h, op.name)
      /\ f.then[1] # "result" => n - 1 \in 1..n /\ outer = frames[n - 1]
  BY <1>1, Nesting
<1>3. f.then[1] # "result" => n - 1 \in Nat /\ n - 1 > 0 /\ FrameOK(outer, n - 1, h, op.name)
  BY <1>2 DEF FramesOK
<1> HIDE DEF n
<1>4. ASSUME NEW cell, pool' = Linked(pool, Innermost, cell)
      PROVE  KeptBut(pool, h, pool', {})
  BY <1>2, <1>4, LinkKept DEF FrameOK
<1>5. ASSUME NEW cell, NEW rest, AppendCell(cell, rest)
      PROVE  UNCHANGED op /\ OnlyResult /\ KeptBut(pool, h, pool', {})
  <2>1. CASE ~HasRoom BY <1>5, <2>1, ExhaustedStep, SameKept DEF AppendCell
  <2>2. CASE HasRoom BY <1>4, <1>5, <2>2 DEF AppendCell, OnlyResult
  <2> QED BY <2>1, <2>2
<1>6. CASE Exhausted BY <1>6, ExhaustedStep, SameKept
<1>7. CASE UNCHANGED <<pool, vars, op>> BY <1>7, SameKept DEF OnlyResult
<1>8. CASE Finish(<<"list", f.head>>) /\ UNCHANGED pool
  BY <1>8, SameKept DEF Finish, OnlyResult
<1>9. CASE /\ f.then[1] = "fill" /\ pool' = [pool EXCEPT ![f.then[2]].sub = f.head]
           /\ UNCHANGED <<vars, op>>
  <2>1. f.then[1] # "result" BY <1>9
  <2>2. AtHome(h, f.then[2], n - 1) /\ f.head \in Nat BY <1>2, <1>9 DEF FrameOK, FrameType
  <2>3. pool' = WithSub(pool, f.then[2], f.head) BY <1>9 DEF WithSub
  <2>4. KeptBut(pool, h, pool', {}) BY <1>3, <2>1, <2>2, <2>3, FillKept
  <2> QED BY <1>9, <2>4 DEF OnlyResult
<1>10. CASE /\ f.then[1] # "result" /\ pool' = Linked(pool, outer, ValueToNode(<<"list", f.head>>))
            /\ UNCHANGED <<vars, op>>
  <2>1. outer.slot = 0 \/ AtHome(h, outer.slot, n - 1) BY <1>3, <1>10 DEF FrameOK
  <2> HIDE DEF outer, f
  <2>2. KeptBut(pool, h, pool', {}) BY <1>3, <1>10, <2>1, LinkKept
  <2> QED BY <1>10, <2>2 DEF OnlyResult
<1>11. CASE pool' = Linked(pool, Innermost, ValueToNode(<<"list", 0>>)) /\ UNCHANGED <<vars, op>>
  BY <1>4, <1>11 DEF OnlyResult
<1>12. CASE Build
  <2> DEFINE item == Head(Innermost.todo)
             rest == Tail(Innermost.todo)
             next == pool[item[2]].next
  <2>1. \/ \E cell, more : AppendCell(cell, more)
        \/ Exhausted
        \/ UNCHANGED <<pool, vars, op>>
        \/ pool' = Linked(pool, Innermost, ValueToNode(<<"list", 0>>)) /\ UNCHANGED <<vars, op>>
    BY <1>12, Zenon DEF Build
  <2> QED BY <1>5, <1>6, <1>7, <1>11, <2>1
<1>13. CASE Close
  <2>1. \/ Finish(<<"list", f.head>>) /\ UNCHANGED pool
        \/ /\ f.then[1] = "fill" /\ pool' = [pool EXCEPT ![f.then[2]].sub = f.head]
           /\ UNCHANGED <<vars, op>>
        \/ Exhausted
        \/ /\ f.then[1] # "result" /\ pool' = Linked(pool, outer, ValueToNode(<<"list", f.head>>))
           /\ UNCHANGED <<vars, op>>
    BY <1>13 DEF Close
  <2> QED BY <1>6, <1>8, <1>9, <1>10, <2>1
<1> QED BY <1>12, <1>13

(***************************************************************************)
(* Operations.                                                             *)
(***************************************************************************)
Stores == {"setitem", "fillarray"}

\* An operation adds cells at the end, and gives its target a value or starts
\* a construction.
Grows(cells2) == KeptBut(pool, [c \in 1..Len(pool) |-> 0], cells2, {})
Operated ==
  /\ Grows(pool')
  /\ \/ frames' = <<>> /\ \E v : vars' = [vars EXCEPT ![op'.target] = v]
     \/ vars' = vars /\ op'.name \notin Stores

\* An operation done at once, and one that starts a construction.
LEMMA Given ==
  ASSUME NEW name, NEW t, NEW args, Begin(name, t, args), NEW cells, Grows(cells),
         (\E v : Give(t, v, cells)) \/ GiveUp(t, cells)
  PROVE  Operated
BY DEF Begin, Give, GiveUp, Idle, Operated

LEMMA Started ==
  ASSUME NEW name, NEW t, NEW args, Begin(name, t, args), name \notin Stores,
         NEW cells, Grows(cells), NEW todo, BuildFrom(todo, cells)
  PROVE  Operated
BY DEF Begin, BuildFrom, Operated

\* Cells added at the end.
LEMMA OneMore ==
  ASSUME NEW cells \in Seq(Node), NEW cell, pool \in Seq(Node), Grows(cells)
  PROVE  Grows(Append(cells, cell))
<1>1. /\ Len(cells) \in Nat /\ Len(pool) \in Nat /\ Len(Append(cells, cell)) = Len(cells) + 1
      /\ \A c \in 1..Len(cells) : Append(cells, cell)[c] = cells[c]
  OBVIOUS
<1> QED BY <1>1 DEF Grows, KeptBut

LEMMA ManyMore ==
  ASSUME NEW more \in Seq(Node), pool \in Seq(Node)
  PROVE  Grows(pool \o more)
<1>1. /\ Len(pool) \in Nat /\ Len(more) \in Nat /\ Len(pool \o more) = Len(pool) + Len(more)
      /\ \A c \in 1..Len(pool) : (pool \o more)[c] = pool[c]
  OBVIOUS
<1> QED BY <1>1 DEF Grows, KeptBut

\* Each operation adds cells at most, but for SETITEM and FILLARRAY.
LEMMA PlainStep ==
  ASSUME NEW t \in Vars, NEW a \in Vars, NEW b \in Vars,
         \/ \E l \in Literals : BuildLiteral(t, l)
         \/ \E w \in Atoms : AssignWord(t, w)
         \/ Assign(t, a) \/ First(t, a) \/ ButFirst(t, a) \/ ButLast(t, a)
         \/ Sentence(t, a, b) \/ WrapPair(t, a, b)
         \/ \E c \in Vars : Subst(t, a, b, c)
         \/ \E n \in Sizes : Item(t, n, a)
  PROVE  Operated
<1>1. Grows(pool) BY SameKept DEF Grows
<1>2. /\ "literal" \notin Stores /\ "butlast" \notin Stores /\ "sentence" \notin Stores
      /\ "list" \notin Stores /\ "subst" \notin Stores
  BY DEF Stores
<1>3. CASE \E l \in Literals : BuildLiteral(t, l)
  BY <1>1, <1>2, <1>3, Started DEF BuildLiteral
<1>4. CASE \E w \in Atoms : AssignWord(t, w)
  BY <1>1, <1>4, Given DEF AssignWord
<1>5. CASE Assign(t, a) \/ First(t, a) \/ ButFirst(t, a)
  BY <1>1, <1>5, Given DEF Assign, First, ButFirst
<1>6. CASE ButLast(t, a)
  BY <1>1, <1>2, <1>6, Started DEF ButLast
<1>7. CASE Sentence(t, a, b) \/ WrapPair(t, a, b)
  BY <1>1, <1>2, <1>7, Started DEF Sentence, WrapPair
<1>8. CASE \E c \in Vars : Subst(t, a, b, c)
  BY <1>1, <1>2, <1>8, Started DEF Subst
<1>9. CASE \E n \in Sizes : Item(t, n, a)
  BY <1>1, <1>9, Given DEF Item
<1> QED BY <1>3, <1>4, <1>5, <1>6, <1>7, <1>8, <1>9

LEMMA GrowingStep ==
  ASSUME LiteralsTyped, NEW h, CellsOK(pool, h), VarsOK(vars, h), Settled(h),
         NEW t \in Vars, NEW a \in Vars, NEW b \in Vars,
         Flatten(t, a) \/ Fput(t, a, b) \/ Lput(t, a, b)
  PROVE  Operated
<1>1. Grows(pool) /\ pool \in Seq(Node) BY SameKept DEF Grows, CellsOK
<1>2. ASSUME NEW v \in Vars PROVE OwnCell(vars[v]) \in Seq(Node) /\ Grows(OwnCell(vars[v]))
  <2>1. OwnCell(vars[v]) \in Seq(Node) BY OwnCellAdded DEF VarsOK, CellsOK
  <2>2. Grows(OwnCell(vars[v])) BY <1>1, OneMore DEF OwnCell
  <2> QED BY <2>1, <2>2
<1>3. "flatten" \notin Stores /\ "fput" \notin Stores /\ "lput" \notin Stores BY DEF Stores
<1>4. CASE Flatten(t, a)
  <2>1. \/ BuildFrom(Walk("flat", vars[a][2]), pool)
        \/ GiveUp(t, pool)
        \/ BuildFrom(<<<<"flat", Len(pool) + 1>>>>, OwnCell(vars[a]))
    BY <1>4 DEF Flatten
  <2>2. Begin("flatten", t, <<a>>) BY <1>4 DEF Flatten
  <2> QED BY <1>1, <1>2, <1>3, <2>1, <2>2, Given, Started
<1>5. CASE Lput(t, a, b)
  <2>1. \/ BuildFrom(Walk("copy", vars[b][2]) \o <<<<"value", vars[a]>>>>, pool)
        \/ GiveUp(t, pool)
        \/ BuildFrom(<<<<"copy", Len(pool) + 1>>, <<"value", vars[a]>>>>, OwnCell(vars[b]))
    BY <1>5 DEF Lput
  <2>2. Begin("lput", t, <<a, b>>) BY <1>5 DEF Lput
  <2> QED BY <1>1, <1>2, <1>3, <2>1, <2>2, Given, Started
<1>6. CASE Fput(t, a, b)
  <2>1. Begin("fput", t, <<a, b>>) BY <1>6 DEF Fput
  <2>2. \E cells \in {pool, OwnCell(vars[b])} :
          \/ GiveUp(t, cells)
          \/ \E v, cell : Give(t, v, Append(cells, cell))
    BY <1>6 DEF Fput
  <2>3. PICK cells \in {pool, OwnCell(vars[b])} :
          \/ GiveUp(t, cells)
          \/ \E v, cell : Give(t, v, Append(cells, cell))
    BY <2>2
  <2>4. cells \in Seq(Node) /\ Grows(cells) BY <1>1, <1>2
  <2>5. \A cell : Grows(Append(cells, cell)) BY <1>1, <2>4, OneMore
  <2> QED BY <2>1, <2>3, <2>4, <2>5, Given
<1> QED BY <1>4, <1>5, <1>6

LEMMA ArrayStep ==
  ASSUME LiteralsTyped, pool \in Seq(Node), NEW t \in Vars, NEW size \in Sizes, Array(t, size)
  PROVE  Operated
<1> DEFINE node == ValueToNode(<<"list", 0>>)
           room == MaxNodes - Len(pool)
           s    == IF size < room THEN size ELSE room
           more == [i \in 1..s |-> node]
<1>1. /\ Begin("array", t, <<size>>)
      /\ \/ Give(t, EmptyWord, pool)
         \/ GiveUp(t, pool \o more)
         \/ Give(t, <<"array", Len(pool) + 1, size>>, pool \o more)
  BY DEF Array
<1>2. s \in Int BY SizesAssumption, NodesAssumption
<1>3. node \in Node
  <2>1. <<"list", 0>> \in Value BY DEF Value
  <2> QED BY <2>1, NodeOfValue
<1> HIDE DEF s, node
<1>4. more \in Seq(Node)
  <2>1. CASE s > 0
    <3>1. s \in Nat BY <1>2, <2>1
    <3> QED BY <1>3, <3>1
  <2>2. CASE ~(s > 0)
    <3>1. 1..s = {} BY <1>2, <2>2
    <3>2. more = <<>> BY <3>1
    <3> HIDE DEF more
    <3> QED BY <3>2
  <2> QED BY <2>1, <2>2
<1> HIDE DEF more
<1>5. Grows(pool) /\ Grows(pool \o more) BY <1>4, SameKept, ManyMore DEF Grows
<1> QED BY <1>1, <1>5, Given

\* SETITEM and FILLARRAY change cells of the target's array only.
LEMMA StoreStep ==
  ASSUME NEW h, CellsOK(pool, h), VarsOK(vars, h), NEW a \in Vars, NEW x \in Vars,
         NEW name, NEW indices, StoreAt(name, a, indices, x)
  PROVE  LET hits == Hits(vars[a], indices)
         IN  /\ KeptBut(pool, h, pool', hits)
             /\ \A c \in hits : ~AtHome(h, c, 0)
             /\ \A w \in Vars : IsArray(vars[w]) /\ vars[w] # vars[a] =>
                                  ArrayCells(vars[w]) \cap hits = {}
<1> DEFINE hits == Hits(vars[a], indices)
<1>1. Len(pool) \in Nat BY DEF CellsOK
<1>2. KeptBut(pool, h, pool', hits)
  <2> DEFINE stored == [i \in 1..Len(pool) |-> IF i \in hits THEN Stored(pool[i], vars[x])
                                               ELSE pool[i]]
  <2>1. pool' = pool \/ pool' = stored BY DEF StoreAt
  <2>2. Len(stored) = Len(pool) BY <1>1
  <2>3. \A i \in 1..Len(pool) : i \notin hits => stored[i] = pool[i] OBVIOUS
  <2> HIDE DEF stored, hits
  <2> QED BY <2>1, <2>2, <2>3 DEF KeptBut
<1>3. \A w \in Vars : ValueOK(vars[w], h) /\ vars[w] \in Value BY DEF VarsOK
<1>4. ASSUME NEW c \in hits
      PROVE  IsArray(vars[a]) /\ AtHome(h, c, -vars[a][2]) /\ vars[a][2] \in Nat /\ vars[a][2] > 0
  <2>1. IsArray(vars[a]) /\ \E i \in 1..vars[a][3] : c = vars[a][2] + i - 1
    BY <1>4 DEF Hits
  <2>2. vars[a][2] \in Nat /\ vars[a][3] \in Nat BY <1>3, <2>1 DEF Value, IsArray
  <2>3. c \in ArrayCells(vars[a]) BY <2>1, <2>2 DEF ArrayCells
  <2> QED BY <1>3, <2>1, <2>2, <2>3 DEF ValueOK
<1> HIDE DEF hits
<1>5. \A c \in hits : ~AtHome(h, c, 0) BY <1>4 DEF AtHome
<1>6. ASSUME NEW w \in Vars, IsArray(vars[w]), vars[w] # vars[a], NEW c \in hits,
             c \in ArrayCells(vars[w])
      PROVE  FALSE
  <2>1. AtHome(h, c, -vars[w][2]) BY <1>3, <1>6 DEF ValueOK
  <2>2. vars[w][2] \in Nat BY <1>3, <1>6 DEF Value, IsArray
  <2>3. vars[w][2] = vars[a][2] BY <1>4, <2>1, <2>2 DEF AtHome
  <2>4. SameArray(vars[w], vars[a]) BY DEF VarsOK
  <2> QED BY <1>4, <1>6, <2>3, <2>4 DEF SameArray
<1> QED BY <1>2, <1>5, <1>6 DEF hits

\* A command comes between constructions.
LEMMA CommandsBegin ==
  ASSUME Command
  PROVE  frames = <<>>
<1>1. PICK t \in Vars, a \in Vars, b \in Vars :
        \/ \E l \in Literals : BuildLiteral(t, l)
        \/ \E w \in Atoms : AssignWord(t, w)
        \/ \E n \in Sizes : Array(t, n) \/ SetItem(t, n, a) \/ Item(t, n, a)
        \/ Assign(t, a) \/ First(t, a) \/ ButFirst(t, a) \/ ButLast(t, a) \/ Flatten(t, a)
        \/ Fput(t, a, b) \/ Lput(t, a, b) \/ Sentence(t, a, b) \/ WrapPair(t, a, b)
        \/ FillArray(t, a)
        \/ \E c \in Vars : Subst(t, a, b, c)
  BY DEF Command
<1>2. \E name, target, args : Begin(name, target, args)
  BY <1>1, Zenon DEF BuildLiteral, AssignWord, Array, SetItem, FillArray, StoreAt, Item, Assign,
    First, ButFirst, ButLast, Flatten, Fput, Lput, Sentence, WrapPair, Subst
<1> QED BY <1>2 DEF Begin, Idle

\* What a command does to the values, one way or the other.
LEMMA CommandStep ==
  ASSUME LiteralsTyped, NEW h, CellsOK(pool, h), VarsOK(vars, h), Settled(h), Command
  PROVE  \/ Operated
         \/ \E name \in Stores, a \in Vars, x \in Vars : \E indices : StoreAt(name, a, indices, x)
<1>1. PICK t \in Vars, a \in Vars, b \in Vars :
        \/ \E l \in Literals : BuildLiteral(t, l)
        \/ \E w \in Atoms : AssignWord(t, w)
        \/ \E n \in Sizes : Array(t, n) \/ SetItem(t, n, a) \/ Item(t, n, a)
        \/ Assign(t, a) \/ First(t, a) \/ ButFirst(t, a) \/ ButLast(t, a) \/ Flatten(t, a)
        \/ Fput(t, a, b) \/ Lput(t, a, b) \/ Sentence(t, a, b) \/ WrapPair(t, a, b)
        \/ FillArray(t, a)
        \/ \E c \in Vars : Subst(t, a, b, c)
  BY DEF Command
<1>2. "setitem" \in Stores /\ "fillarray" \in Stores BY DEF Stores
<1>3. pool \in Seq(Node) BY DEF CellsOK
<1>4. CASE \E n \in Sizes : Array(t, n) BY <1>3, <1>4, ArrayStep
<1>5. CASE \E n \in Sizes : SetItem(t, n, a) BY <1>2, <1>5 DEF SetItem
<1>6. CASE FillArray(t, a) BY <1>2, <1>6 DEF FillArray
<1>7. CASE Flatten(t, a) \/ Fput(t, a, b) \/ Lput(t, a, b) BY <1>7, GrowingStep
<1> QED BY <1>1, <1>4, <1>5, <1>6, <1>7, PlainStep

(***************************************************************************)
(* The property.                                                           *)
(***************************************************************************)
TracedInv ==
  /\ HeapInv
  /\ frames # <<>> => op.name \notin Stores
  /\ ValuesKept

\* Every step keeps the invariant.
LEMMA TracedNextInv ==
  ASSUME LiteralsTyped, TracedInv, TracedNext
  PROVE  TracedInv'
<1>1. HeapInv /\ HeapInv'
  <2>1. Next BY DEF TracedNext, Next
  <2> QED BY <2>1, HeapNext DEF TracedInv
<1>2. PICK h : CellsOK(pool, h) /\ VarsOK(vars, h) /\ FramesOK(frames, h, op.name)
  BY <1>1 DEF HeapInv
<1>3. WellFormed(pool') BY <1>1, HeapWellFormed DEF HeapInv
<1>4. \A v \in Vars : ValueOK(vars[v], h) /\ vars \in [Vars -> Value] BY <1>2 DEF VarsOK
<1>5. ASSUME KeptBut(pool, h, pool', {}), NEW v \in Vars
      PROVE  Tree(pool', vars[v]) = Tree(pool, vars[v])
  <2>1. \A c \in {} : ~AtHome(h, c, 0) OBVIOUS
  <2>2. ArrayCells(vars[v]) \cap {} = {} OBVIOUS
  <2> QED BY <1>2, <1>3, <1>4, <1>5, <2>1, <2>2, TreeKept
<1>6. CASE (Build \/ Close) /\ UNCHANGED <<before, ops>>
  <2>1. UNCHANGED op /\ OnlyResult /\ KeptBut(pool, h, pool', {})
    BY <1>2, <1>6, ConstructionStep
  <2>2. op.name \notin Stores /\ ~Idle BY <1>6 DEF TracedInv, Build, Close, Idle
  <2>3. \A v \in Vars : Tree(pool, vars[v]) = before[v]
    BY <2>2 DEF TracedInv, ValuesKept, Aliases, Stores
  <2>4. ASSUME NEW v \in Vars, (v # op.target \/ ~Idle)' PROVE Tree(pool', vars'[v]) = before'[v]
    <3>1. vars'[v] = vars[v] BY <1>4, <2>1, <2>4 DEF OnlyResult, Idle
    <3> QED BY <1>5, <1>6, <2>1, <2>3, <3>1
  <2>5. ValuesKept' BY <2>4 DEF ValuesKept
  <2> QED BY <1>1, <2>1, <2>2, <2>5 DEF TracedInv
<1>7. CASE Command /\ before' = VarTrees
  <2>1. frames = <<>> BY <1>7, CommandsBegin
  <2>2. Settled(h) BY <1>2, <2>1 DEF FramesOK, Settled, CellsOK
  <2>3. \A v \in Vars : before'[v] = Tree(pool, vars[v]) BY <1>7 DEF VarTrees
  <2>4. CASE Operated
    <3>1. KeptBut(pool, h, pool', {}) BY <1>2, <2>2, <2>4 DEF Operated, Grows, KeptBut
    <3>2. ASSUME NEW v \in Vars, (v # op.target \/ ~Idle)'
          PROVE  vars'[v] = vars[v]
      BY <1>4, <2>4, <3>2 DEF Operated, Idle
    <3>3. ValuesKept' BY <1>5, <2>3, <3>1, <3>2 DEF ValuesKept
    <3>4. frames' # <<>> => op'.name \notin Stores BY <2>4 DEF Operated
    <3> QED BY <1>1, <3>3, <3>4 DEF TracedInv
  <2>5. ASSUME NEW name \in Stores, NEW a \in Vars, NEW x \in Vars, NEW indices,
               StoreAt(name, a, indices, x)
        PROVE  TracedInv'
    <3> DEFINE hits == Hits(vars[a], indices)
    <3>1. /\ KeptBut(pool, h, pool', hits)
          /\ \A c \in hits : ~AtHome(h, c, 0)
          /\ \A w \in Vars : IsArray(vars[w]) /\ vars[w] # vars[a] =>
                               ArrayCells(vars[w]) \cap hits = {}
      BY <1>2, <2>5, StoreStep
    <3>2. op'.target = a /\ op'.name \in Stores /\ vars' = vars /\ frames' = <<>>
      BY <2>1, <2>5 DEF StoreAt, Begin
    <3> HIDE DEF hits
    <3>3. ASSUME NEW v \in Vars, ~Aliases(v)' PROVE Tree(pool', vars'[v]) = before'[v]
      <4>1. IsArray(vars[v]) => vars[v] # vars[a]
        BY <3>2, <3>3 DEF Aliases, Stores
      <4>2. Tree(pool', vars[v]) = Tree(pool, vars[v])
        BY <1>2, <1>3, <1>4, <3>1, <4>1, TreeKept
      <4> QED BY <2>3, <3>2, <4>2
    <3>4. ValuesKept' BY <3>3 DEF ValuesKept
    <3> QED BY <1>1, <3>2, <3>4 DEF TracedInv
  <2> QED BY <1>2, <1>7, <2>2, <2>4, <2>5, CommandStep
<1> QED BY <1>6, <1>7 DEF TracedNext

\* No operation disturbs a value it does not return: the trees of all other
\* variables stay as they were while cells are linked, and when the operation
\* gives up half-way.  SETITEM and FILLARRAY change the variables that hold
\* the array they store in, and no other.
THEOREM SharedValuesAreKept ==
  ASSUME LiteralsTyped
  PROVE  TracedSpec => []ValuesKept
<1>1. TracedInit => TracedInv
  <2>1. ASSUME TracedInit PROVE TracedInv
    <3>1. HeapInv BY <2>1, HeapInit DEF TracedInit
    <3>2. \A v \in Vars : Tree(pool, vars[v]) = before[v] BY <2>1 DEF TracedInit, VarTrees
    <3> QED BY <2>1, <3>1, <3>2 DEF TracedInit, Init, TracedInv, ValuesKept
  <2> QED BY <2>1
<1>2. TracedInv /\ [TracedNext]_<<listVars, before, ops>> => TracedInv'
  <2>1. CASE TracedNext BY <2>1, TracedNextInv
  <2>2. CASE UNCHANGED <<listVars, before, ops>>
    <3>1. UNCHANGED listVars BY <2>2
    <3>2. HeapInv => HeapInv' BY <3>1, HeapNext
    <3>3. UNCHANGED <<pool, vars, op, frames, before>> BY <2>2 DEF listVars
    <3> QED BY <3>2, <3>3 DEF TracedInv, ValuesKept, Aliases, Idle
  <2> QED BY <2>1, <2>2
<1>3. TracedInv => ValuesKept BY DEF TracedInv
<1> QED BY <1>1, <1>2, <1>3, PTL DEF TracedSpec

=============================================================================
