------------------------------- MODULE Lists -------------------------------
(***************************************************************************)
(* The list pool (app->list_pool) and the operations that build lists in   *)
(* it (src/eval.c).  Cells are taken one after the other and never given   *)
(* back.  A list is the index of its first cell, 0 for the empty one (the  *)
(* source's -1; cells count from 1 here); its cells are linked by next.    *)
(* Copies share their sublists.  An array is a run of cells of its own and *)
(* the only thing that is ever changed in place.                           *)
(*                                                                         *)
(* A loop that walks, copies or makes cells is a Build step for each of    *)
(* them, its cursor an item of the chain's `todo`; the recursion of SUBST  *)
(* and of list literals is the stack of frames.  Every operation is the    *)
(* value of a MAKE: its result goes to the target.                         *)
(* Numbers are left out (they are atoms like words), and so is the result  *)
(* of FPUT and LPUT onto a word, which takes no cell (Values.tla has it).  *)
(***************************************************************************)
EXTENDS Integers, Sequences

CONSTANTS MaxNodes,    \* MAX_LIST_NODES
          Vars,        \* variable names
          Atoms,       \* words
          Literals,    \* list literals: sequences of <<"word", w>> and <<"list", sequence>>
          Sizes        \* inputs of ARRAY

ASSUME NodesAssumption == MaxNodes \in Nat
ASSUME SizesAssumption == Sizes \subseteq Int

VARIABLES pool,     \* the cells taken so far
          vars,     \* each variable's value: <<"word", w>>, <<"list", head>>, <<"array", start, size>>
          op,       \* the last operation: [name, target, args]
          frames,   \* the chains it is building, the innermost last
          full      \* it has reported "list storage full"
listVars == <<pool, vars, op, frames, full>>

EmptyWord == <<"word", "">>
IsListVal(v) == v[1] = "list"
IsArray(v) == v[1] = "array"

(***************************************************************************)
(* Cells.                                                                  *)
(***************************************************************************)
\* node_to_value and value_to_node: an array has no word, so that "" is stored.
NodeToValue(c) == IF c.type = "list" THEN <<"list", c.sub>> ELSE <<"word", c.word>>
ValueToNode(v) == CASE IsListVal(v) -> [type |-> "list", word |-> "", sub |-> v[2], next |-> 0]
                    [] IsArray(v)   -> [type |-> "word", word |-> "", sub |-> 0, next |-> 0]
                    [] OTHER        -> [type |-> "word", word |-> v[2], sub |-> 0, next |-> 0]
\* A copied cell.  Mutant: a copied list keeps its cells but not its sublist.
NodeCopy_Shallow(c) == [c EXCEPT !.next = 0, !.sub = 0]
NodeCopy(c) == [c EXCEPT !.next = 0]
HasRoom == Len(pool) < MaxNodes

\* eval_value_to_text of a list's elements, and of a value.
ElementsText(cells, head) ==
  LET text[h \in 0..Len(cells)] ==
        IF h = 0 THEN ""
        ELSE (IF cells[h].type = "list" THEN "[" \o text[cells[h].sub] \o "]" ELSE cells[h].word)
               \o (IF cells[h].next = 0 THEN "" ELSE " " \o text[cells[h].next])
  IN  text[head]
ValueText(cells, v) == IF IsListVal(v) THEN ElementsText(cells, v[2]) ELSE v[2]

(***************************************************************************)
(* Building.  A frame is [todo, head, slot, then]: what is still to be     *)
(* appended, the chain so far, the cell whose next comes next (0: the      *)
(* head), and what the finished chain is for.  What is still to be         *)
(* appended: a value, the cell of a nested literal, or the rest of a list  *)
(* from a cursor on: copied, copied but for its last cell (BUTLAST),       *)
(* its leaves (FLATTEN) or its cells replaced (SUBST).                     *)
(***************************************************************************)
Walk(kind, h) == IF h = 0 THEN <<>> ELSE <<<<kind, h>>>>
WalkFront(cells, h) == IF h = 0 \/ cells[h].next = 0 THEN <<>> ELSE <<<<"front", h>>>>
Frame(todo, then) == [todo |-> todo, head |-> 0, slot |-> 0, then |-> then]
Innermost == frames[Len(frames)]
Others == SubSeq(frames, 1, Len(frames) - 1)

\* The new cell (the pool's next one) is linked to the end of a frame's chain.
\* Mutant: the new cell points back to the first one.
Linked_Ring(cells, f, cell) ==
  IF f.slot = 0 THEN Append(cells, cell)
  ELSE Append([cells EXCEPT ![f.slot].next = Len(cells) + 1], [cell EXCEPT !.next = f.head])
Linked(cells, f, cell) ==
  IF f.slot = 0 THEN Append(cells, cell)
  ELSE Append([cells EXCEPT ![f.slot].next = Len(cells) + 1], cell)
Advanced(f, new) == [f EXCEPT !.head = IF f.slot = 0 THEN new ELSE @, !.slot = new]

\* The elements of a literal.
LiteralItems(l) ==
  [i \in 1..Len(l) |-> IF l[i][1] = "list" THEN <<"literal", l[i][2]>> ELSE <<"value", l[i]>>]

Finish(v) == /\ vars' = [vars EXCEPT ![op.target] = v]
             /\ frames' = <<>>
             /\ UNCHANGED op

\* list_pool_exhausted: the operation gives "", but for a literal within a
\* literal, whose cell keeps the empty list and whose caller goes on.
Exhausted ==
  /\ full' = TRUE
  /\ IF Innermost.then[1] = "fill" THEN frames' = Others /\ UNCHANGED <<vars, op>>
     ELSE Finish(EmptyWord)
  /\ UNCHANGED pool

\* One more cell at the end of the innermost chain.
AppendCell(cell, rest) ==
  IF ~HasRoom THEN Exhausted
  ELSE /\ pool' = Linked(pool, Innermost, cell)
       /\ frames' = Append(Others, Advanced([Innermost EXCEPT !.todo = rest], Len(pool) + 1))
       /\ UNCHANGED <<vars, op, full>>

\* SUBST compares an element with the old value by their texts.
Matches(c) == ValueText(pool, NodeToValue(c)) = ValueText(pool, vars[op.args[1]])

Build ==
  /\ frames # <<>> /\ Innermost.todo # <<>>
  /\ LET item == Head(Innermost.todo)
         rest == Tail(Innermost.todo)
         cell == pool[item[2]]
         on   == Walk(item[1], cell.next) \o rest
         new  == Len(pool) + 1
         Push(todo, f) == frames' = Others \o <<[Innermost EXCEPT !.todo = todo], f>>
     IN  \/ item[1] = "value" /\ AppendCell(ValueToNode(item[2]), rest)
         \/ item[1] = "copy" /\ AppendCell(NodeCopy(cell), on)
         \/ item[1] = "front" /\ AppendCell(NodeCopy(cell), WalkFront(pool, cell.next) \o rest)
         \/ item[1] = "flat" /\ cell.type # "list" /\ AppendCell(NodeCopy(cell), on)
         \/ /\ item[1] = "flat" /\ cell.type = "list"   \* a sublist leaves no cell
            /\ frames' = Append(Others, [Innermost EXCEPT !.todo = Walk("flat", cell.sub) \o on])
            /\ UNCHANGED <<pool, vars, op, full>>
         \/ item[1] = "subst" /\ Matches(cell) /\ AppendCell(ValueToNode(vars[op.args[2]]), on)
         \/ /\ item[1] = "subst" /\ ~Matches(cell) /\ cell.type # "list"
            /\ AppendCell(ValueToNode(NodeToValue(cell)), on)
         \/ /\ item[1] = "subst" /\ ~Matches(cell) /\ cell.type = "list"   \* the sublist first
            /\ Push(on, Frame(Walk("subst", cell.sub), <<"wrap">>))
            /\ UNCHANGED <<pool, vars, op, full>>
         \/ /\ item[1] = "literal" /\ ~HasRoom /\ Exhausted
         \/ /\ item[1] = "literal" /\ HasRoom   \* the cell first, its list afterwards
            /\ pool' = Linked(pool, Innermost, ValueToNode(<<"list", 0>>))
            /\ frames' = Others \o <<Advanced([Innermost EXCEPT !.todo = rest], new),
                                     Frame(LiteralItems(item[2]), <<"fill", new>>)>>
            /\ UNCHANGED <<vars, op, full>>

\* A chain is complete.
Close ==
  /\ frames # <<>> /\ Innermost.todo = <<>>
  /\ LET f     == Innermost
         outer == Others[Len(Others)]
     IN  CASE f.then[1] = "result" -> Finish(<<"list", f.head>>) /\ UNCHANGED <<pool, full>>
           [] f.then[1] = "fill" ->
                /\ pool' = [pool EXCEPT ![f.then[2]].sub = f.head]
                /\ frames' = Others /\ UNCHANGED <<vars, op, full>>
           [] OTHER ->
                IF ~HasRoom THEN Exhausted
                ELSE /\ pool' = Linked(pool, outer, ValueToNode(<<"list", f.head>>))
                     /\ frames' = Append(SubSeq(Others, 1, Len(Others) - 1),
                                         Advanced(outer, Len(pool) + 1))
                     /\ UNCHANGED <<vars, op, full>>

(***************************************************************************)
(* Operations.  Their inputs are variables.                                *)
(***************************************************************************)
Idle == frames = <<>>
Begin(name, target, args) ==
  /\ Idle
  /\ op' = [name |-> name, target |-> target, args |-> args]
\* An operation that is done at once, with value v and cells taken on the way.
Give(target, v, cells) ==
  /\ vars' = [vars EXCEPT ![target] = v]
  /\ pool' = cells /\ full' = FALSE /\ UNCHANGED frames
GiveUp(target, cells) ==
  /\ vars' = [vars EXCEPT ![target] = EmptyWord]
  /\ pool' = cells /\ full' = TRUE /\ UNCHANGED frames
BuildFrom(todo, cells) ==
  /\ frames' = <<Frame(todo, <<"result">>)>>
  /\ pool' = cells /\ full' = FALSE /\ UNCHANGED vars

\* A value that is no list is first put into a cell of its own.
OwnCell(v) == Append(pool, ValueToNode(v))

BuildLiteral(t, l) == Begin("literal", t, <<l>>) /\ BuildFrom(LiteralItems(l), pool)

Assign(t, a) == Begin("assign", t, <<a>>) /\ Give(t, vars[a], pool)
AssignWord(t, w) == Begin("word", t, <<w>>) /\ Give(t, <<"word", w>>, pool)

First(t, a) == /\ Begin("first", t, <<a>>) /\ IsListVal(vars[a])
               /\ Give(t, IF vars[a][2] = 0 THEN EmptyWord ELSE NodeToValue(pool[vars[a][2]]), pool)
ButFirst(t, a) ==
  /\ Begin("butfirst", t, <<a>>) /\ IsListVal(vars[a])
  /\ Give(t, <<"list", IF vars[a][2] = 0 THEN 0 ELSE pool[vars[a][2]].next>>, pool)
\* Mutant: the list's own last cell is cut off.
ButLast_InPlace(t, a) ==
  /\ Begin("butlast", t, <<a>>) /\ IsListVal(vars[a])
  /\ LET head == vars[a][2]
         next == [h \in 1..Len(pool) |-> pool[h].next]
         butLast[h \in 1..Len(pool)] == IF next[next[h]] = 0 THEN h ELSE butLast[next[h]]
     IN  IF head = 0 \/ next[head] = 0 THEN Give(t, <<"list", 0>>, pool)
         ELSE Give(t, <<"list", head>>, [pool EXCEPT ![butLast[head]].next = 0])
ButLast(t, a) ==
  /\ Begin("butlast", t, <<a>>) /\ IsListVal(vars[a])
  /\ BuildFrom(WalkFront(pool, vars[a][2]), pool)

Fput(t, x, a) ==
  /\ Begin("fput", t, <<x, a>>) /\ vars[a][1] # "word"
  /\ LET list  == IsListVal(vars[a])
         cells == IF list THEN pool ELSE OwnCell(vars[a])
         head  == IF list THEN vars[a][2] ELSE Len(cells)
     IN  IF ~list /\ ~HasRoom THEN GiveUp(t, pool)
         ELSE IF Len(cells) >= MaxNodes THEN GiveUp(t, cells)
         ELSE Give(t, <<"list", Len(cells) + 1>>,
                   Append(cells, [ValueToNode(vars[x]) EXCEPT !.next = head]))
Lput(t, x, a) ==
  /\ Begin("lput", t, <<x, a>>) /\ vars[a][1] # "word"
  /\ IF IsListVal(vars[a])
     THEN BuildFrom(Walk("copy", vars[a][2]) \o <<<<"value", vars[x]>>>>, pool)
     ELSE IF ~HasRoom THEN GiveUp(t, pool)
     ELSE BuildFrom(<<<<"copy", Len(pool) + 1>>, <<"value", vars[x]>>>>, OwnCell(vars[a]))

Parts(v) == IF IsListVal(v) THEN Walk("copy", v[2]) ELSE <<<<"value", v>>>>
Sentence(t, a, b) ==
  Begin("sentence", t, <<a, b>>) /\ BuildFrom(Parts(vars[a]) \o Parts(vars[b]), pool)
WrapPair(t, a, b) ==
  Begin("list", t, <<a, b>>) /\ BuildFrom(<<<<"value", vars[a]>>, <<"value", vars[b]>>>>, pool)

Flatten(t, a) ==
  /\ Begin("flatten", t, <<a>>)
  /\ IF IsListVal(vars[a]) THEN BuildFrom(Walk("flat", vars[a][2]), pool)
     ELSE IF ~HasRoom THEN GiveUp(t, pool)
     ELSE BuildFrom(<<<<"flat", Len(pool) + 1>>>>, OwnCell(vars[a]))

Subst(t, old, new, a) ==
  /\ Begin("subst", t, <<old, new, a>>) /\ IsListVal(vars[a]) /\ ~IsArray(vars[old])
  /\ BuildFrom(Walk("subst", vars[a][2]), pool)

(***************************************************************************)
(* Arrays.                                                                 *)
(***************************************************************************)
Array(t, size) ==
  /\ Begin("array", t, <<size>>)
  /\ LET room  == MaxNodes - Len(pool)
         cells == pool \o [i \in 1..(IF size < room THEN size ELSE room) |-> ValueToNode(<<"list", 0>>)]
     IN  IF size < 1 THEN Give(t, EmptyWord, pool)
         ELSE IF size > room THEN GiveUp(t, cells)
         ELSE Give(t, <<"array", Len(pool) + 1, size>>, cells)

\* eval_array_store_cell: a cell's next stays.
Stored(c, v) == [ValueToNode(v) EXCEPT !.next = c.next]
\* The cells an in-place store hits: those of the indices of an array variable.
Hits(v, indices) == IF IsArray(v) THEN {v[2] + i - 1 : i \in indices \intersect (1..v[3])} ELSE {}
StoreAt(name, a, indices, x) ==
  /\ Begin(name, a, <<a, indices, x>>)
  /\ pool' = IF IsArray(vars[x]) THEN pool
             ELSE [i \in 1..Len(pool) |-> IF i \in Hits(vars[a], indices)
                                          THEN Stored(pool[i], vars[x]) ELSE pool[i]]
  /\ full' = FALSE /\ UNCHANGED <<vars, frames>>
SetItem(a, i, x) == StoreAt("setitem", a, {i}, x)
FillArray(a, x) == StoreAt("fillarray", a, 1..MaxNodes, x)
Item(t, i, a) ==
  /\ Begin("item", t, <<i, a>>) /\ IsArray(vars[a])
  /\ Give(t, IF i \in 1..vars[a][3] THEN NodeToValue(pool[vars[a][2] + i - 1]) ELSE EmptyWord, pool)

Init == /\ pool = <<>> /\ vars = [v \in Vars |-> EmptyWord]
        /\ op = [name |-> "word", target |-> CHOOSE v \in Vars : TRUE, args |-> <<"">>]
        /\ frames = <<>> /\ full = FALSE

Command ==
  \E t, a, b \in Vars :
    \/ \E l \in Literals : BuildLiteral(t, l)
    \/ \E w \in Atoms : AssignWord(t, w)
    \/ \E n \in Sizes : Array(t, n) \/ SetItem(t, n, a) \/ Item(t, n, a)
    \/ Assign(t, a) \/ First(t, a) \/ ButFirst(t, a) \/ ButLast(t, a) \/ Flatten(t, a)
    \/ Fput(t, a, b) \/ Lput(t, a, b) \/ Sentence(t, a, b) \/ WrapPair(t, a, b)
    \/ FillArray(t, a)
    \/ \E c \in Vars : Subst(t, a, b, c)
Next == Build \/ Close \/ Command
Spec == Init /\ [][Next]_listVars

\* No cell reaches itself: every set of cells has one whose successor and
\* sublist are outside it.
Acyclic(cells) ==
  \A some \in SUBSET (1..Len(cells)) :
    some # {} => \E c \in some : cells[c].next \notin some /\ cells[c].sub \notin some

\* The pool has no cycle at any moment of a construction, whatever lists its
\* cells are part of: the loops over node->next and the recursions over
\* sublist_head (eval.c) terminate.
ListsAcyclic == Acyclic(pool)
=============================================================================
