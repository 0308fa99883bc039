---------------------------- MODULE ListsProofs -----------------------------
(***************************************************************************)
(* The list pool never has a cycle, for any pool size, any variables and   *)
(* any literals: ListsAcyclic.                                             *)
(*                                                                         *)
(* A construction links cells in place, so that the property needs to know *)
(* which cells can still change.  Every cell has a home: 0 when the cell   *)
(* is shared for good, k when it belongs to the chain of frame k, -s when  *)
(* it is a cell of the array that starts at s.  A cell only leads to       *)
(* shared cells, or within the chain it belongs to; variables only hold    *)
(* shared cells and arrays; and what is linked or stored in place is never *)
(* shared.                                                                 *)
(***************************************************************************)
EXTENDS Lists, SequenceTheorems, TLAPS

CONSTANTS Words, Nested   \* the words, and the literals with those inside them

(***************************************************************************)
(* Types.                                                                  *)
(***************************************************************************)
LiteralsTyped ==
  /\ Vars # {} /\ Atoms \subseteq Words /\ "" \in Words
  /\ Literals \subseteq Nested
  /\ Nested \subseteq Seq(({"word"} \X Words) \cup ({"list"} \X Nested))

Node == [type : {"word", "list"}, word : Words, sub : Nat, next : Nat]
Value == ({"word"} \X Words) \cup ({"list"} \X Nat) \cup ({"array"} \X Nat \X Nat)
Walks == {"copy", "front", "flat", "subst"}
TodoItem == (Walks \X Nat) \cup ({"value"} \X Value) \cup ({"literal"} \X Nested)
Purpose == {<<"result">>, <<"wrap">>} \cup ({"fill"} \X Nat)
FrameType == [todo : Seq(TodoItem), head : Nat, slot : Nat, then : Purpose]

(***************************************************************************)
(* Homes.                                                                  *)
(***************************************************************************)
AtHome(h, c, k) == c \in DOMAIN h /\ h[c] = k
Shared(h, c) == c = 0 \/ AtHome(h, c, 0)
Near(h, c, d) == Shared(h, d) \/ (h[c] > 0 /\ AtHome(h, d, h[c]))

CellsOK(cells, h) ==
  /\ cells \in Seq(Node) /\ Acyclic(cells)
  /\ h \in [1..Len(cells) -> Int]
  /\ \A c \in 1..Len(cells) : /\ -h[c] <= Len(cells)
                              /\ Near(h, c, cells[c].next) /\ Near(h, c, cells[c].sub)

ArrayCells(v) == v[2]..(v[2] + v[3] - 1)
ValueOK(v, h) ==
  /\ v \in Value
  /\ IsListVal(v) => Shared(h, v[2])
  /\ IsArray(v) => v[2] > 0 /\ v[3] > 0 /\ \A c \in ArrayCells(v) : AtHome(h, c, -v[2])
\* Two variables hold the same array, or arrays of different cells.
SameArray(v, w) == IsArray(v) /\ IsArray(w) /\ v[2] = w[2] => v = w
VarsOK(vs, h) ==
  /\ vs \in [Vars -> Value]
  /\ \A v \in Vars : ValueOK(vs[v], h)
  /\ \A v, w \in Vars : SameArray(vs[v], vs[w])

TodoOK(todo, h, name) ==
  /\ todo \in Seq(TodoItem)
  /\ \A i \in 1..Len(todo) :
       /\ todo[i][1] \in Walks => AtHome(h, todo[i][2], 0)
       /\ todo[i][1] = "subst" => name = "subst"
       /\ todo[i][1] = "value" /\ IsListVal(todo[i][2]) => Shared(h, todo[i][2][2])

\* Frame k of a construction.
FrameOK(f, k, h, name) ==
  /\ f \in FrameType
  /\ TodoOK(f.todo, h, name)
  /\ f.head = 0 \/ AtHome(h, f.head, k)
  /\ f.slot = 0 \/ AtHome(h, f.slot, k)
  /\ f.then[1] = "result" <=> k = 1
  /\ f.then[1] = "fill" => AtHome(h, f.then[2], k - 1)
FramesOK(frs, h, name) ==
  /\ frs \in Seq(FrameType)
  /\ \A k \in 1..Len(frs) : FrameOK(frs[k], k, h, name)
  /\ \A c \in DOMAIN h : h[c] <= Len(frs)

OpOK == /\ op.target \in Vars
        /\ op.name = "subst" => op.args[1] \in Vars /\ op.args[2] \in Vars
HeapInv ==
  /\ OpOK
  /\ \E h : CellsOK(pool, h) /\ VarsOK(vars, h) /\ FramesOK(frames, h, op.name)

(***************************************************************************)
(* Cells.                                                                  *)
(***************************************************************************)
\* What a step may do to the cells: those of a closed set stay as they are,
\* new ones lead into it, and the others may only be redirected into it or to
\* new ones.
LEMMA AcyclicKept ==
  ASSUME NEW cells, NEW cells2, NEW closed,
         Len(cells) \in Nat, Len(cells2) \in Nat, Len(cells) <= Len(cells2), Acyclic(cells),
         closed \subseteq 1..Len(cells),
         \A c \in closed : /\ cells2[c].next = cells[c].next /\ cells2[c].sub = cells[c].sub
                           /\ cells[c].next \in closed \cup {0} /\ cells[c].sub \in closed \cup {0},
         \A c \in 1..Len(cells2) : c > Len(cells) =>
           cells2[c].next \in closed \cup {0} /\ cells2[c].sub \in closed \cup {0},
         \A c \in 1..Len(cells) :
           /\ \/ cells2[c].next = cells[c].next
              \/ cells2[c].next \in closed \cup {0} \cup (Len(cells) + 1)..Len(cells2)
           /\ \/ cells2[c].sub = cells[c].sub
              \/ cells2[c].sub \in closed \cup {0} \cup (Len(cells) + 1)..Len(cells2)
  PROVE  Acyclic(cells2)
<1> SUFFICES ASSUME NEW some \in SUBSET (1..Len(cells2)), some # {}
             PROVE  \E c \in some : cells2[c].next \notin some /\ cells2[c].sub \notin some
  BY DEF Acyclic
<1>0. 0 \notin some OBVIOUS
<1>1. CASE some \cap closed # {}
  <2>1. some \cap closed \in SUBSET (1..Len(cells)) OBVIOUS
  <2>2. PICK c \in some \cap closed :
          cells[c].next \notin some \cap closed /\ cells[c].sub \notin some \cap closed
    BY <1>1, <2>1 DEF Acyclic
  <2> QED BY <1>0, <2>2
<1>2. CASE some \cap closed = {} /\ \E c \in some : c > Len(cells)
  BY <1>0, <1>2
<1>3. CASE some \cap closed = {} /\ \A c \in some : c <= Len(cells)
  <2>1. some \in SUBSET (1..Len(cells)) BY <1>3
  <2>2. PICK c \in some : cells[c].next \notin some /\ cells[c].sub \notin some
    BY <2>1 DEF Acyclic
  <2> QED BY <1>0, <1>3, <2>1, <2>2
<1> QED BY <1>1, <1>2, <1>3


\* The homes after a step: the chains above frame k become part of it (k = 0:
\* everything becomes shared), and so do the new cells up to n.
Folded(h, n, k) ==
  [c \in 1..n |-> IF c \notin DOMAIN h THEN k ELSE IF h[c] > k THEN k ELSE h[c]]
\* Shared cells and those of arrays stay so.
Keeps(h, h2) == \A c \in DOMAIN h : h[c] <= 0 => AtHome(h2, c, h[c])

\* Folding keeps what is shared and what belongs to arrays or to outer chains.
LEMMA FoldedHomes ==
  ASSUME NEW m \in Nat, NEW n \in Nat, m <= n, NEW k \in Nat, NEW h \in [1..m -> Int]
  PROVE  /\ Folded(h, n, k) \in [1..n -> Int]
         /\ Keeps(h, Folded(h, n, k))
         /\ \A c : Shared(h, c) => Shared(Folded(h, n, k), c)
         /\ \A c, j : AtHome(h, c, j) /\ j <= k => AtHome(Folded(h, n, k), c, j)
         /\ \A c, j : AtHome(h, c, j) /\ j >= k => AtHome(Folded(h, n, k), c, k)
         /\ \A c \in 1..n : c > m => AtHome(Folded(h, n, k), c, k)
         /\ \A c \in 1..n : Folded(h, n, k)[c] <= k
BY DEF Folded, Keeps, Shared, AtHome

\* What a cell leads to stays near it when chains are folded.
LEMMA NearFolded ==
  ASSUME NEW m \in Nat, NEW n \in Nat, m <= n, NEW k \in Nat, NEW h \in [1..m -> Int],
         NEW c \in 1..m, NEW d, Near(h, c, d)
  PROVE  Near(Folded(h, n, k), c, d)
BY DEF Folded, Near, Shared, AtHome

\* Changing one link of a cell.
WithNext(cells, c0, d) == [cells EXCEPT ![c0].next = d]
WithSub(cells, c0, d) == [cells EXCEPT ![c0].sub = d]
\* A cell's next is changed: all else is as it was.
LEMMA NextChanged ==
  ASSUME NEW cells \in Seq(Node), NEW c0 \in 1..Len(cells), NEW d \in Nat
  PROVE  /\ WithNext(cells, c0, d) \in Seq(Node)
         /\ Len(WithNext(cells, c0, d)) = Len(cells)
         /\ \A c \in 1..Len(cells) :
              /\ WithNext(cells, c0, d)[c].sub = cells[c].sub
              /\ WithNext(cells, c0, d)[c].next = IF c = c0 THEN d ELSE cells[c].next
<1> DEFINE node == [cells[c0] EXCEPT !.next = d]
           changed == WithNext(cells, c0, d)
<1>0. cells[c0] \in Node OBVIOUS
<1>1. /\ node \in Node /\ node.next = d /\ node.sub = cells[c0].sub
  BY <1>0 DEF Node
<1>2. cells \in [1..Len(cells) -> Node] OBVIOUS
<1>3. changed = [cells EXCEPT ![c0] = node] BY <1>2 DEF WithNext
<1> HIDE DEF node, changed
<1>4. changed \in Seq(Node) /\ Len(changed) = Len(cells) BY <1>1, <1>2, <1>3
<1>5. \A c \in 1..Len(cells) : changed[c] = IF c = c0 THEN node ELSE cells[c] BY <1>2, <1>3
<1> QED BY <1>1, <1>4, <1>5 DEF changed

\* The same for its sublist.
LEMMA SubChanged ==
  ASSUME NEW cells \in Seq(Node), NEW c0 \in 1..Len(cells), NEW d \in Nat
  PROVE  /\ WithSub(cells, c0, d) \in Seq(Node)
         /\ Len(WithSub(cells, c0, d)) = Len(cells)
         /\ \A c \in 1..Len(cells) :
              /\ WithSub(cells, c0, d)[c].next = cells[c].next
              /\ WithSub(cells, c0, d)[c].sub = IF c = c0 THEN d ELSE cells[c].sub
<1> DEFINE node == [cells[c0] EXCEPT !.sub = d]
           changed == WithSub(cells, c0, d)
<1>0. cells[c0] \in Node OBVIOUS
<1>1. /\ node \in Node /\ node.sub = d /\ node.next = cells[c0].next
  BY <1>0 DEF Node
<1>2. cells \in [1..Len(cells) -> Node] OBVIOUS
<1>3. changed = [cells EXCEPT ![c0] = node] BY <1>2 DEF WithSub
<1> HIDE DEF node, changed
<1>4. changed \in Seq(Node) /\ Len(changed) = Len(cells) BY <1>1, <1>2, <1>3
<1>5. \A c \in 1..Len(cells) : changed[c] = IF c = c0 THEN node ELSE cells[c] BY <1>2, <1>3
<1> QED BY <1>1, <1>4, <1>5 DEF changed

\* Linking adds one cell and changes one link at most.
LEMMA LinkedCells ==
  ASSUME NEW cells \in Seq(Node), NEW f, f.slot = 0 \/ f.slot \in 1..Len(cells),
         NEW cell \in Node
  PROVE  /\ Linked(cells, f, cell) \in Seq(Node)
         /\ Len(Linked(cells, f, cell)) = Len(cells) + 1
         /\ Linked(cells, f, cell)[Len(cells) + 1] = cell
         /\ \A c \in 1..Len(cells) :
              /\ Linked(cells, f, cell)[c].sub = cells[c].sub
              /\ Linked(cells, f, cell)[c].next =
                   IF f.slot # 0 /\ c = f.slot THEN Len(cells) + 1 ELSE cells[c].next
<1>1. CASE f.slot = 0
  BY <1>1 DEF Linked
<1>2. CASE f.slot # 0
  <2> DEFINE changed == WithNext(cells, f.slot, Len(cells) + 1)
  <2>1. /\ changed \in Seq(Node) /\ Len(changed) = Len(cells)
        /\ \A c \in 1..Len(cells) :
             /\ changed[c].sub = cells[c].sub
             /\ changed[c].next = IF c = f.slot THEN Len(cells) + 1 ELSE cells[c].next
    <3>1. f.slot \in 1..Len(cells) /\ Len(cells) + 1 \in Nat BY <1>2
    <3> QED BY <3>1, NextChanged
  <2>2. Linked(cells, f, cell) = Append(changed, cell) BY <1>2 DEF Linked, WithNext
  <2> HIDE DEF changed
  <2> QED BY <1>2, <2>1, <2>2
<1> QED BY <1>1, <1>2

\* A new cell at the end of a chain of frame k, or (slot = 0) on its own.
LEMMA CellLinked ==
  ASSUME NEW cells, NEW h, CellsOK(cells, h), NEW k \in Nat, NEW f, NEW cell \in Node,
         f.slot = 0 \/ (k > 0 /\ AtHome(h, f.slot, k)),
         Shared(h, cell.next), Shared(h, cell.sub) \/ AtHome(h, cell.sub, k + 1)
  PROVE  /\ CellsOK(Linked(cells, f, cell), Folded(h, Len(cells) + 1, k))
         /\ Len(Linked(cells, f, cell)) = Len(cells) + 1
<1> DEFINE cells2 == Linked(cells, f, cell)
           h2     == Folded(h, Len(cells) + 1, k)
           closed == {c \in 1..Len(cells) : h[c] = 0 \/ h[c] = k + 1}
<1>1. /\ cells \in Seq(Node) /\ Len(cells) \in Nat /\ h \in [1..Len(cells) -> Int]
      /\ Acyclic(cells)
      /\ \A c \in 1..Len(cells) : Near(h, c, cells[c].next) /\ Near(h, c, cells[c].sub)
  BY DEF CellsOK
<1>2. /\ cells2 \in Seq(Node) /\ Len(cells2) = Len(cells) + 1
      /\ cells2[Len(cells) + 1] = cell
      /\ \A c \in 1..Len(cells) :
           /\ cells2[c].sub = cells[c].sub
           /\ cells2[c].next = IF f.slot # 0 /\ c = f.slot THEN Len(cells) + 1 ELSE cells[c].next
  BY <1>1, LinkedCells DEF AtHome
<1> HIDE DEF cells2
<1>3. Acyclic(cells2)
  <2>1. \A c \in closed : /\ cells2[c].next = cells[c].next /\ cells2[c].sub = cells[c].sub
                          /\ cells[c].next \in closed \cup {0} /\ cells[c].sub \in closed \cup {0}
    BY <1>1, <1>2 DEF Near, Shared, AtHome
  <2>2. cell.next \in closed \cup {0} /\ cell.sub \in closed \cup {0}
    BY <1>1 DEF Shared, AtHome
  <2>3. closed \subseteq 1..Len(cells) OBVIOUS
  <2> HIDE DEF closed
  <2>4. \A c \in 1..Len(cells2) : c > Len(cells) =>
           cells2[c].next \in closed \cup {0} /\ cells2[c].sub \in closed \cup {0}
    BY <1>1, <1>2, <2>2
  <2>5. \A c \in 1..Len(cells) :
           /\ \/ cells2[c].next = cells[c].next
              \/ cells2[c].next \in closed \cup {0} \cup (Len(cells) + 1)..Len(cells2)
           /\ \/ cells2[c].sub = cells[c].sub
              \/ cells2[c].sub \in closed \cup {0} \cup (Len(cells) + 1)..Len(cells2)
    BY <1>1, <1>2
  <2>6. Len(cells2) \in Nat /\ Len(cells) <= Len(cells2) BY <1>1, <1>2
  <2> QED BY <1>1, <2>1, <2>3, <2>4, <2>5, <2>6, AcyclicKept
<1>4. Len(cells) + 1 \in Nat /\ Len(cells) <= Len(cells) + 1 BY <1>1
<1>5. /\ h2 \in [1..(Len(cells) + 1) -> Int]
      /\ \A c : Shared(h, c) => Shared(h2, c)
      /\ \A c, j : AtHome(h, c, j) /\ j <= k => AtHome(h2, c, j)
      /\ \A c, j : AtHome(h, c, j) /\ j >= k => AtHome(h2, c, k)
      /\ \A c \in 1..(Len(cells) + 1) : c > Len(cells) => AtHome(h2, c, k)
  BY <1>1, <1>4, FoldedHomes
<1>6. \A d : \A c \in 1..Len(cells) : Near(h, c, d) => Near(h2, c, d)
  BY <1>1, <1>4, NearFolded
<1>7. \A c \in 1..(Len(cells) + 1) : -h2[c] <= Len(cells) + 1
  BY <1>1 DEF Folded, CellsOK
<1> HIDE DEF h2
<1>8. AtHome(h2, Len(cells) + 1, k) BY <1>1, <1>5
<1>9. \A c \in 1..Len(cells) : Near(h2, c, cells2[c].next) /\ Near(h2, c, cells2[c].sub)
  <2> TAKE c \in 1..Len(cells)
  <2>1. f.slot # 0 /\ c = f.slot => h2[c] = k
    BY <1>1, <1>5 DEF AtHome
  <2> QED BY <1>1, <1>2, <1>6, <1>8, <2>1 DEF Near
<1>10. Near(h2, Len(cells) + 1, cell.next) /\ Near(h2, Len(cells) + 1, cell.sub)
  <2>1. Shared(h2, cell.next) BY <1>5
  <2>2. Shared(h2, cell.sub) \/ AtHome(h2, cell.sub, k) BY <1>5
  <2>3. k > 0 \/ k = 0 OBVIOUS
  <2> QED BY <1>8, <2>1, <2>2, <2>3 DEF Near, AtHome, Shared
<1>11. \A c \in 1..(Len(cells) + 1) : c \in 1..Len(cells) \/ c = Len(cells) + 1 BY <1>1
<1>12. CellsOK(cells2, h2)
  BY <1>2, <1>3, <1>5, <1>7, <1>9, <1>10, <1>11 DEF CellsOK
<1> QED BY <1>2, <1>12 DEF cells2, h2

\* The list of a nested literal, built by frame k + 1, is put into its cell.
LEMMA CellFilled ==
  ASSUME NEW cells, NEW h, CellsOK(cells, h), NEW k \in Nat, k > 0,
         NEW c0, AtHome(h, c0, k), NEW head \in Nat, head = 0 \/ AtHome(h, head, k + 1)
  PROVE  /\ CellsOK(WithSub(cells, c0, head), Folded(h, Len(cells), k))
         /\ Len(WithSub(cells, c0, head)) = Len(cells)
<1> DEFINE cells2 == WithSub(cells, c0, head)
           h2     == Folded(h, Len(cells), k)
           closed == {c \in 1..Len(cells) : h[c] = 0 \/ h[c] = k + 1}
<1>1. /\ cells \in Seq(Node) /\ Len(cells) \in Nat /\ h \in [1..Len(cells) -> Int]
      /\ Acyclic(cells)
      /\ \A c \in 1..Len(cells) : Near(h, c, cells[c].next) /\ Near(h, c, cells[c].sub)
  BY DEF CellsOK
<1>2. /\ cells2 \in Seq(Node) /\ Len(cells2) = Len(cells)
      /\ \A c \in 1..Len(cells) : /\ cells2[c].next = cells[c].next
                                  /\ cells2[c].sub = IF c = c0 THEN head ELSE cells[c].sub
  BY <1>1, SubChanged DEF AtHome
<1> HIDE DEF cells2
<1>3. Acyclic(cells2)
  <2>1. \A c \in closed : /\ cells2[c].next = cells[c].next /\ cells2[c].sub = cells[c].sub
                          /\ cells[c].next \in closed \cup {0} /\ cells[c].sub \in closed \cup {0}
    BY <1>1, <1>2 DEF Near, Shared, AtHome
  <2>2. head \in closed \cup {0} BY <1>1 DEF AtHome
  <2>3. closed \subseteq 1..Len(cells) OBVIOUS
  <2> HIDE DEF closed
  <2>4. \A c \in 1..Len(cells2) : c > Len(cells) =>
           cells2[c].next \in closed \cup {0} /\ cells2[c].sub \in closed \cup {0}
    BY <1>1, <1>2
  <2>5. \A c \in 1..Len(cells) :
           /\ \/ cells2[c].next = cells[c].next
              \/ cells2[c].next \in closed \cup {0} \cup (Len(cells) + 1)..Len(cells2)
           /\ \/ cells2[c].sub = cells[c].sub
              \/ cells2[c].sub \in closed \cup {0} \cup (Len(cells) + 1)..Len(cells2)
    BY <1>1, <1>2, <2>2
  <2>6. Len(cells2) \in Nat /\ Len(cells) <= Len(cells2) BY <1>1, <1>2
  <2> QED BY <1>1, <2>1, <2>3, <2>4, <2>5, <2>6, AcyclicKept
<1>4. /\ h2 \in [1..Len(cells) -> Int]
      /\ \A c, j : AtHome(h, c, j) /\ j >= k => AtHome(h2, c, k)
  BY <1>1, FoldedHomes
<1>5. \A d : \A c \in 1..Len(cells) : Near(h, c, d) => Near(h2, c, d)
  <2>1. Len(cells) <= Len(cells) BY <1>1
  <2> QED BY <1>1, <2>1, NearFolded
<1>6. \A c \in 1..Len(cells) : -h2[c] <= Len(cells)
  BY <1>1 DEF Folded, CellsOK
<1> HIDE DEF h2
<1>7. AtHome(h2, c0, k) /\ (head = 0 \/ AtHome(h2, head, k)) BY <1>4
<1>8. \A c \in 1..Len(cells) : Near(h2, c, cells2[c].next) /\ Near(h2, c, cells2[c].sub)
  <2> TAKE c \in 1..Len(cells)
  <2>1. CASE c = c0 BY <1>1, <1>2, <1>5, <1>7, <2>1 DEF Near, Shared, AtHome
  <2>2. CASE c # c0 BY <1>1, <1>2, <1>5, <2>2
  <2> QED BY <2>1, <2>2
<1>9. CellsOK(cells2, h2) BY <1>2, <1>3, <1>4, <1>6, <1>8 DEF CellsOK
<1> QED BY <1>2, <1>9 DEF cells2, h2

\* Giving up a chain, or ending one, without a new cell.
LEMMA CellsFolded ==
  ASSUME NEW cells, NEW h, CellsOK(cells, h), NEW k \in Nat
  PROVE  CellsOK(cells, Folded(h, Len(cells), k))
<1>1. cells \in Seq(Node) /\ Len(cells) \in Nat /\ h \in [1..Len(cells) -> Int]
  BY DEF CellsOK
<1>2. Folded(h, Len(cells), k) \in [1..Len(cells) -> Int]
  BY <1>1, FoldedHomes
<1>3. \A c \in 1..Len(cells) : -Folded(h, Len(cells), k)[c] <= Len(cells)
  BY <1>1 DEF Folded, CellsOK
<1>4. \A d : \A c \in 1..Len(cells) : Near(h, c, d) => Near(Folded(h, Len(cells), k), c, d)
  BY <1>1, NearFolded
<1> QED BY <1>1, <1>2, <1>3, <1>4 DEF CellsOK

(***************************************************************************)
(* Values, and what is still to be appended.                               *)
(***************************************************************************)
LEMMA ValueKept ==
  ASSUME NEW h, NEW h2, Keeps(h, h2), NEW v, ValueOK(v, h)
  PROVE  ValueOK(v, h2)
<1>1. v \in Value BY DEF ValueOK
<1>2. CASE IsListVal(v)
  <2>1. ~IsArray(v) BY <1>2 DEF IsListVal, IsArray
  <2> QED BY <1>1, <1>2, <2>1 DEF ValueOK, Shared, AtHome, Keeps
<1>3. CASE IsArray(v)
  <2>1. ~IsListVal(v) BY <1>3 DEF IsListVal, IsArray
  <2>2. v[2] \in Nat BY <1>1, <1>3 DEF Value, IsArray
  <2>3. ASSUME NEW c \in ArrayCells(v) PROVE AtHome(h2, c, -v[2])
    <3>1. c \in DOMAIN h /\ h[c] = -v[2] BY <1>3 DEF ValueOK, AtHome
    <3> QED BY <2>2, <3>1 DEF Keeps
  <2> QED BY <1>1, <1>3, <2>1, <2>3 DEF ValueOK
<1> QED BY <1>1, <1>2, <1>3 DEF ValueOK

\* Variables only refer to cells whose home stays.
LEMMA VarsKept ==
  ASSUME NEW h, NEW h2, Keeps(h, h2), NEW vs, VarsOK(vs, h)
  PROVE  VarsOK(vs, h2)
BY ValueKept DEF VarsOK

\* A variable is given a value: no array, or one that it or another had.
LEMMA VarsGiven ==
  ASSUME NEW h, NEW vs, VarsOK(vs, h), NEW t \in Vars, NEW v, ValueOK(v, h),
         \A w \in Vars : SameArray(v, vs[w]) /\ SameArray(vs[w], v)
  PROVE  VarsOK([vs EXCEPT ![t] = v], h)
<1> DEFINE vs2 == [vs EXCEPT ![t] = v]
<1>1. vs \in [Vars -> Value] /\ v \in Value BY DEF VarsOK, ValueOK
<1>2. vs2 \in [Vars -> Value] /\ \A w \in Vars : vs2[w] = IF w = t THEN v ELSE vs[w]
  BY <1>1
<1> HIDE DEF vs2
<1>3. \A w \in Vars : ValueOK(vs2[w], h) BY <1>2 DEF VarsOK
<1>4. SameArray(v, v) BY DEF SameArray
<1>5. \A w, x \in Vars : SameArray(vs2[w], vs2[x]) BY <1>2, <1>4 DEF VarsOK
<1> QED BY <1>2, <1>3, <1>5 DEF VarsOK, vs2

\* Values that are no arrays.
LEMMA WordsAndLists ==
  ASSUME LiteralsTyped, NEW h
  PROVE  /\ \A w \in Words : ValueOK(<<"word", w>>, h)
         /\ ValueOK(EmptyWord, h) /\ EmptyWord \in Value
         /\ \A d \in Nat : Shared(h, d) => ValueOK(<<"list", d>>, h)
         /\ \A v, w : ~IsArray(v) => SameArray(v, w) /\ SameArray(w, v)
         /\ ~IsArray(EmptyWord) /\ \A d : ~IsArray(<<"list", d>>) /\ ~IsArray(<<"word", d>>)
BY DEF LiteralsTyped, ValueOK, Value, IsListVal, IsArray, EmptyWord, SameArray

\* value_to_node leads to the value's list, and node_to_value gives it back.
LEMMA NodeOfValue ==
  ASSUME LiteralsTyped, NEW v \in Value
  PROVE  /\ ValueToNode(v) \in Node /\ ValueToNode(v).next = 0
         /\ ValueToNode(v).sub = IF IsListVal(v) THEN v[2] ELSE 0
BY DEF LiteralsTyped, Value, ValueToNode, Node, IsListVal, IsArray

LEMMA ValueOfNode ==
  ASSUME NEW c \in Node, NEW h, Shared(h, c.sub)
  PROVE  ValueOK(NodeToValue(c), h) /\ NodeToValue(c) \in Value /\ ~IsArray(NodeToValue(c))
BY DEF NodeToValue, Node, Value, ValueOK, IsListVal, IsArray

\* Cursors are at shared cells, so that they stay valid when chains are folded.
LEMMA TodoKept ==
  ASSUME NEW h, NEW h2, Keeps(h, h2), NEW todo, NEW name, TodoOK(todo, h, name)
  PROVE  TodoOK(todo, h2, name)
BY DEF TodoOK, Keeps, AtHome, Shared

LEMMA TodoEmpty ==
  ASSUME NEW h, NEW name
  PROVE  TodoOK(<<>>, h, name)
BY DEF TodoOK

\* The first item and the rest.
LEMMA TodoTail ==
  ASSUME NEW h, NEW todo, NEW name, TodoOK(todo, h, name), todo # <<>>
  PROVE  /\ TodoOK(Tail(todo), h, name)
         /\ Head(todo) \in TodoItem
         /\ Head(todo)[1] \in Walks => AtHome(h, Head(todo)[2], 0)
         /\ Head(todo)[1] = "subst" => name = "subst"
         /\ Head(todo)[1] = "value" /\ IsListVal(Head(todo)[2]) => Shared(h, Head(todo)[2][2])
<1>1. todo \in Seq(TodoItem) /\ Len(todo) \in Nat /\ Len(todo) >= 1 BY DEF TodoOK
<1>2. Head(todo) = todo[1] /\ 1 \in 1..Len(todo) BY <1>1
<1>3. /\ Tail(todo) \in Seq(TodoItem) /\ Len(Tail(todo)) = Len(todo) - 1
      /\ \A i \in 1..(Len(todo) - 1) : Tail(todo)[i] = todo[i + 1] /\ i + 1 \in 1..Len(todo)
  BY <1>1
<1> QED BY <1>1, <1>2, <1>3 DEF TodoOK

LEMMA TodoConcat ==
  ASSUME NEW h, NEW name, NEW s, TodoOK(s, h, name), NEW t, TodoOK(t, h, name)
  PROVE  TodoOK(s \o t, h, name)
<1>1. s \in Seq(TodoItem) /\ t \in Seq(TodoItem) BY DEF TodoOK
<1>2. /\ s \o t \in Seq(TodoItem) /\ Len(s \o t) = Len(s) + Len(t)
      /\ \A i \in 1..(Len(s) + Len(t)) :
           \/ i \in 1..Len(s) /\ (s \o t)[i] = s[i]
           \/ i - Len(s) \in 1..Len(t) /\ (s \o t)[i] = t[i - Len(s)]
  BY <1>1
<1> QED BY <1>2 DEF TodoOK

\* A cursor set on a shared list.
LEMMA TodoWalk ==
  ASSUME NEW h, NEW name, NEW kind \in Walks, kind = "subst" => name = "subst",
         NEW d \in Nat, Shared(h, d)
  PROVE  TodoOK(Walk(kind, d), h, name)
<1>1. CASE d = 0 BY <1>1, TodoEmpty DEF Walk
<1>2. CASE d # 0
  <2>1. Walk(kind, d) = <<<<kind, d>>>> /\ AtHome(h, d, 0) BY <1>2 DEF Walk, Shared
  <2>2. <<kind, d>> \in TodoItem BY DEF TodoItem
  <2>3. kind # "value" BY DEF Walks
  <2> QED BY <2>1, <2>2, <2>3 DEF TodoOK
<1> QED BY <1>1, <1>2

LEMMA TodoWalkFront ==
  ASSUME NEW h, NEW name, NEW cells, NEW d \in Nat, Shared(h, d)
  PROVE  TodoOK(WalkFront(cells, d), h, name)
<1>1. WalkFront(cells, d) = <<>> \/ (d # 0 /\ WalkFront(cells, d) = Walk("front", d))
  BY DEF WalkFront, Walk
<1>2. TodoOK(Walk("front", d), h, name) BY TodoWalk DEF Walks
<1> QED BY <1>1, <1>2, TodoEmpty

LEMMA TodoValue ==
  ASSUME NEW h, NEW name, NEW v, ValueOK(v, h)
  PROVE  TodoOK(<<<<"value", v>>>>, h, name)
<1>1. <<"value", v>> \in TodoItem BY DEF ValueOK, TodoItem
<1> QED BY <1>1 DEF TodoOK, Walks, ValueOK

LEMMA TodoPair ==
  ASSUME NEW h, NEW name, NEW v, ValueOK(v, h), NEW w, ValueOK(w, h)
  PROVE  TodoOK(<<<<"value", v>>, <<"value", w>>>>, h, name)
<1>1. <<"value", v>> \in TodoItem /\ <<"value", w>> \in TodoItem BY DEF ValueOK, TodoItem
<1> QED BY <1>1 DEF TodoOK, Walks, ValueOK

\* The items of a literal need no cell.
LEMMA TodoLiteral ==
  ASSUME LiteralsTyped, NEW l \in Nested, NEW h, NEW name
  PROVE  TodoOK(LiteralItems(l), h, name)
<1> DEFINE todo == LiteralItems(l)
<1>0. l \in Seq(({"word"} \X Words) \cup ({"list"} \X Nested))
  BY DEF LiteralsTyped
<1>1. l \in Seq(({"word"} \X Words) \cup ({"list"} \X Nested)) /\ Len(l) \in Nat
  BY <1>0
<1>2. \A i \in 1..Len(l) :
        IF l[i][1] = "list" THEN l[i][2] \in Nested ELSE l[i] \in {"word"} \X Words
  BY <1>1
<1>3. \A i \in 1..Len(l) : todo[i] = IF l[i][1] = "list" THEN <<"literal", l[i][2]>>
                                     ELSE <<"value", l[i]>>
  BY DEF LiteralItems
<1> HIDE DEF todo
<1>4. ASSUME NEW i \in 1..Len(l)
      PROVE  /\ todo[i] \in TodoItem
             /\ todo[i][1] \notin Walks
             /\ todo[i][1] = "value" => ~IsListVal(todo[i][2])
  <2>1. CASE l[i][1] = "list"
    <3>1. l[i][2] \in Nested /\ todo[i] = <<"literal", l[i][2]>> BY <1>2, <1>3, <2>1
    <3> QED BY <3>1 DEF TodoItem, Walks
  <2>2. CASE l[i][1] # "list"
    <3>1. l[i] \in {"word"} \X Words /\ todo[i] = <<"value", l[i]>> BY <1>2, <1>3, <2>2
    <3>2. l[i] \in Value /\ ~IsListVal(l[i]) BY <3>1 DEF Value, IsListVal
    <3> QED BY <3>1, <3>2 DEF TodoItem, Walks
  <2> QED BY <2>1, <2>2
<1>5. Len(todo) = Len(l) /\ todo = [i \in 1..Len(l) |-> todo[i]]
  BY <1>1 DEF todo, LiteralItems
<1>7. todo \in Seq(TodoItem) BY <1>1, <1>4, <1>5
<1>6. "subst" \in Walks BY DEF Walks
<1> QED BY <1>4, <1>5, <1>6, <1>7 DEF TodoOK, todo

(***************************************************************************)
(* Frames.                                                                 *)
(***************************************************************************)
\* The frames up to the k-th are not disturbed when the others are folded
\* into it.
LEMMA FramesKept ==
  ASSUME NEW m \in Nat, NEW n \in Nat, m <= n, NEW h \in [1..m -> Int],
         NEW frs, NEW name, FramesOK(frs, h, name), NEW k \in Nat, k <= Len(frs)
  PROVE  /\ \A j \in 1..k : FrameOK(frs[j], j, Folded(h, n, k), name)
         /\ \A c \in DOMAIN Folded(h, n, k) : Folded(h, n, k)[c] <= k
<1> DEFINE h2 == Folded(h, n, k)
<1>1. /\ h2 \in [1..n -> Int] /\ Keeps(h, h2)
      /\ \A c, j : AtHome(h, c, j) /\ j <= k => AtHome(h2, c, j)
      /\ \A c \in 1..n : h2[c] <= k
  BY FoldedHomes
<1>2. frs \in Seq(FrameType) /\ Len(frs) \in Nat BY DEF FramesOK
<1> HIDE DEF h2
<1>3. ASSUME NEW j \in 1..k PROVE FrameOK(frs[j], j, h2, name)
  <2>1. FrameOK(frs[j], j, h, name) BY <1>2 DEF FramesOK
  <2>2. j <= k /\ j - 1 <= k OBVIOUS
  <2>3. TodoOK(frs[j].todo, h2, name) BY <1>1, <2>1, TodoKept DEF FrameOK
  <2> QED BY <1>1, <2>1, <2>2, <2>3 DEF FrameOK
<1> QED BY <1>1, <1>3 DEF h2

\* A frame whose chain has a new last cell, or whose items are other ones.
LEMMA FrameAdvanced ==
  ASSUME NEW f, NEW k, NEW h, NEW name, FrameOK(f, k, h, name),
         NEW new \in Nat, AtHome(h, new, k)
  PROVE  FrameOK(Advanced(f, new), k, h, name)
<1>1. f \in FrameType BY DEF FrameOK
<1>2. /\ Advanced(f, new) \in FrameType
      /\ Advanced(f, new).todo = f.todo
      /\ Advanced(f, new).head = IF f.slot = 0 THEN new ELSE f.head
      /\ Advanced(f, new).slot = new
      /\ Advanced(f, new).then = f.then
  BY <1>1 DEF Advanced, FrameType
<1> QED BY <1>2 DEF FrameOK

LEMMA FrameTodo ==
  ASSUME NEW f, NEW k, NEW h, NEW name, FrameOK(f, k, h, name),
         NEW rest, TodoOK(rest, h, name)
  PROVE  FrameOK([f EXCEPT !.todo = rest], k, h, name)
<1>1. f \in FrameType /\ rest \in Seq(TodoItem) BY DEF FrameOK, TodoOK
<1>2. /\ [f EXCEPT !.todo = rest] \in FrameType /\ [f EXCEPT !.todo = rest].todo = rest
      /\ [f EXCEPT !.todo = rest].head = f.head
      /\ [f EXCEPT !.todo = rest].slot = f.slot
      /\ [f EXCEPT !.todo = rest].then = f.then
  BY <1>1 DEF FrameType
<1> QED BY <1>2 DEF FrameOK

\* A frame that is opened at the top of the stack.
LEMMA FrameNew ==
  ASSUME NEW k, NEW h, NEW name, NEW todo, TodoOK(todo, h, name), NEW then \in Purpose,
         then[1] = "result" <=> k = 1,
         then[1] = "fill" => AtHome(h, then[2], k - 1)
  PROVE  FrameOK(Frame(todo, then), k, h, name)
<1>1. /\ Frame(todo, then) \in FrameType /\ Frame(todo, then).todo = todo
      /\ Frame(todo, then).head = 0 /\ Frame(todo, then).slot = 0
      /\ Frame(todo, then).then = then
  BY DEF Frame, FrameType, TodoOK
<1> QED BY <1>1 DEF FrameOK

\* A sequence without its last element.
LEMMA FrontProperties ==
  ASSUME NEW S, NEW s \in Seq(S), s # <<>>
  PROVE  /\ Len(s) \in Nat /\ Len(s) >= 1
         /\ SubSeq(s, 1, Len(s) - 1) \in Seq(S)
         /\ Len(SubSeq(s, 1, Len(s) - 1)) = Len(s) - 1
         /\ \A j \in 1..(Len(s) - 1) : SubSeq(s, 1, Len(s) - 1)[j] = s[j]
         /\ s[Len(s)] \in S
<1>1. Len(s) \in Nat /\ Len(s) >= 1 OBVIOUS
<1>2. PICK n \in Nat : n = Len(s) - 1 BY <1>1
<1>3. 1 \in Int /\ n \in Int /\ \A j \in 1..n : s[j] \in S BY <1>1, <1>2
<1>4. /\ SubSeq(s, 1, n) \in Seq(S)
      /\ Len(SubSeq(s, 1, n)) = IF 1 <= n THEN n - 1 + 1 ELSE 0
      /\ \A j \in 1..(n - 1 + 1) : SubSeq(s, 1, n)[j] = s[1 + j - 1]
  BY <1>3, SubSeqProperties
<1>5. /\ Len(SubSeq(s, 1, n)) = n
      /\ \A j \in 1..n : SubSeq(s, 1, n)[j] = s[j]
  BY <1>4
<1> QED BY <1>1, <1>2, <1>4, <1>5

\* The frames around the innermost one.
LEMMA Nesting ==
  ASSUME NEW h, FramesOK(frames, h, op.name), frames # <<>>
  PROVE  /\ Len(frames) \in Nat /\ Len(frames) >= 1 /\ frames \in Seq(FrameType)
         /\ FrameOK(Innermost, Len(frames), h, op.name)
         /\ Innermost = frames[Len(frames)]
         /\ Others \in Seq(FrameType) /\ Len(Others) = Len(frames) - 1
         /\ \A j \in 1..(Len(frames) - 1) : Others[j] = frames[j]
         /\ Innermost.then[1] # "result" =>
              /\ Len(frames) - 1 >= 1
              /\ Others[Len(Others)] = frames[Len(frames) - 1]
<1>1. frames \in Seq(FrameType) BY DEF FramesOK
<1>2. /\ Len(frames) \in Nat /\ Len(frames) >= 1
      /\ Others \in Seq(FrameType) /\ Len(Others) = Len(frames) - 1
      /\ \A j \in 1..(Len(frames) - 1) : Others[j] = frames[j]
  BY <1>1, FrontProperties DEF Others
<1>3. FrameOK(Innermost, Len(frames), h, op.name) /\ Innermost = frames[Len(frames)]
  BY <1>2 DEF FramesOK, Innermost
<1>4. ASSUME Innermost.then[1] # "result" PROVE Len(frames) - 1 >= 1
  <2>1. Len(frames) # 1 BY <1>3, <1>4, Zenon DEF FrameOK
  <2> QED BY <1>2, <2>1
<1>5. Len(frames) - 1 >= 1 => Others[Len(Others)] = frames[Len(frames) - 1]
  <2>1. Len(frames) - 1 >= 1 => Len(frames) - 1 \in 1..(Len(frames) - 1) BY <1>2
  <2> QED BY <1>2, <2>1
<1> QED BY <1>1, <1>2, <1>3, <1>4, <1>5

(***************************************************************************)
(* The steps of a construction.                                            *)
(***************************************************************************)
\* An operation ends: what it built becomes shared.
LEMMA FinishKeeps ==
  ASSUME LiteralsTyped, OpOK, NEW h, CellsOK(pool, h), VarsOK(vars, h),
         FramesOK(frames, h, op.name), NEW v, Finish(v), pool' = pool,
         ValueOK(v, Folded(h, Len(pool), 0)), ~IsArray(v)
  PROVE  HeapInv'
<1> DEFINE h2 == Folded(h, Len(pool), 0)
<1>1. Len(pool) \in Nat /\ h \in [1..Len(pool) -> Int] /\ Len(pool) <= Len(pool)
  BY DEF CellsOK
<1>2. CellsOK(pool, h2) BY CellsFolded
<1>3. Keeps(h, h2) BY <1>1, FoldedHomes
<1>4. VarsOK(vars', h2)
  <2>1. VarsOK(vars, h2) BY <1>3, VarsKept
  <2>2. \A w \in Vars : SameArray(v, vars[w]) /\ SameArray(vars[w], v)
    BY WordsAndLists
  <2>3. op.target \in Vars BY DEF OpOK
  <2> HIDE DEF h2
  <2> QED BY <2>1, <2>2, <2>3, VarsGiven DEF Finish, h2
<1>5. FramesOK(frames', h2, op.name)
  <2>1. frames' = <<>> BY DEF Finish
  <2>2. \A c \in DOMAIN h2 : h2[c] <= 0 BY <1>1, FoldedHomes
  <2> QED BY <2>1, <2>2 DEF FramesOK
<1>6. op' = op BY DEF Finish
<1> HIDE DEF h2
<1> QED BY <1>2, <1>4, <1>5, <1>6 DEF HeapInv, OpOK

\* The pool is full: the chains, or the innermost, are given up.
LEMMA ExhaustedKeeps ==
  ASSUME LiteralsTyped, OpOK, NEW h, CellsOK(pool, h), VarsOK(vars, h),
         FramesOK(frames, h, op.name), frames # <<>>, Exhausted
  PROVE  HeapInv'
<1>1. CASE Innermost.then[1] = "fill"
  <2> DEFINE n  == Len(frames)
             h2 == Folded(h, Len(pool), n - 1)
  <2>1. /\ n \in Nat /\ n - 1 \in Nat /\ n - 1 <= n
        /\ Others \in Seq(FrameType) /\ Len(Others) = n - 1
        /\ \A j \in 1..(n - 1) : Others[j] = frames[j]
    BY Nesting
  <2>2. Len(pool) \in Nat /\ h \in [1..Len(pool) -> Int] /\ Len(pool) <= Len(pool)
    BY DEF CellsOK
  <2>3. pool' = pool /\ vars' = vars /\ op' = op /\ frames' = Others
    BY <1>1 DEF Exhausted
  <2>4. CellsOK(pool, h2) BY <2>1, CellsFolded
  <2>5. VarsOK(vars, h2) BY <2>1, <2>2, FoldedHomes, VarsKept
  <2>6. /\ \A j \in 1..(n - 1) : FrameOK(frames[j], j, h2, op.name)
        /\ \A c \in DOMAIN h2 : h2[c] <= n - 1
    BY <2>1, <2>2, FramesKept
  <2> HIDE DEF n, h2
  <2>7. FramesOK(Others, h2, op.name) BY <2>1, <2>6 DEF FramesOK
  <2> QED BY <2>3, <2>4, <2>5, <2>7 DEF HeapInv, OpOK
<1>2. CASE Innermost.then[1] # "fill"
  <2>1. Finish(EmptyWord) /\ pool' = pool BY <1>2 DEF Exhausted
  <2> QED BY <2>1, FinishKeeps, WordsAndLists
<1> QED BY <1>1, <1>2

\* One more cell at the end of the innermost chain.
LEMMA AppendKeeps ==
  ASSUME LiteralsTyped, OpOK, NEW h, CellsOK(pool, h), VarsOK(vars, h),
         FramesOK(frames, h, op.name), frames # <<>>,
         NEW cell \in Node, cell.next = 0, Shared(h, cell.sub),
         NEW rest, TodoOK(rest, h, op.name), AppendCell(cell, rest)
  PROVE  HeapInv'
<1>1. CASE ~HasRoom
  BY <1>1, ExhaustedKeeps DEF AppendCell
<1>2. CASE HasRoom
  <2> DEFINE n  == Len(frames)
             h2 == Folded(h, Len(pool) + 1, n)
             f2 == Advanced([Innermost EXCEPT !.todo = rest], Len(pool) + 1)
  <2>1. /\ n \in Nat /\ n >= 1 /\ n <= n
        /\ FrameOK(Innermost, n, h, op.name) /\ Innermost = frames[n]
        /\ Others \in Seq(FrameType) /\ Len(Others) = n - 1
        /\ \A j \in 1..(n - 1) : Others[j] = frames[j]
    BY Nesting
  <2>2. /\ Len(pool) \in Nat /\ Len(pool) + 1 \in Nat /\ Len(pool) <= Len(pool) + 1
        /\ h \in [1..Len(pool) -> Int]
    BY DEF CellsOK
  <2>3. /\ pool' = Linked(pool, Innermost, cell) /\ frames' = Append(Others, f2)
        /\ vars' = vars /\ op' = op
    BY <1>2 DEF AppendCell
  <2>4. CellsOK(pool', h2)
    <3>1. Innermost.slot = 0 \/ (n > 0 /\ AtHome(h, Innermost.slot, n))
      BY <2>1 DEF FrameOK
    <3>2. Shared(h, cell.next) BY DEF Shared
    <3> QED BY <2>1, <2>3, <3>1, <3>2, CellLinked
  <2>5. Keeps(h, h2) /\ AtHome(h2, Len(pool) + 1, n)
    <3>1. Len(pool) + 1 \in 1..(Len(pool) + 1) /\ Len(pool) + 1 > Len(pool) BY <2>2
    <3> QED BY <2>1, <2>2, <3>1, FoldedHomes
  <2>6. VarsOK(vars, h2) BY <2>5, VarsKept
  <2>7. /\ \A j \in 1..n : FrameOK(frames[j], j, h2, op.name)
        /\ \A c \in DOMAIN h2 : h2[c] <= n
    BY <2>1, <2>2, FramesKept
  <2> HIDE DEF n, h2
  <2>8. FrameOK(f2, n, h2, op.name)
    <3>1. FrameOK(Innermost, n, h2, op.name) BY <2>1, <2>7
    <3>2. TodoOK(rest, h2, op.name) BY <2>5, TodoKept
    <3> QED BY <2>2, <2>5, <3>1, <3>2, FrameTodo, FrameAdvanced
  <2>9. FramesOK(frames', h2, op.name)
    <3>1. f2 \in FrameType BY <2>8 DEF FrameOK
    <3> HIDE DEF f2
    <3>2. /\ frames' \in Seq(FrameType) /\ Len(frames') = n /\ frames'[n] = f2
          /\ \A j \in 1..(n - 1) : frames'[j] = frames[j]
      BY <2>1, <2>3, <3>1
    <3>3. \A j \in 1..n : j = n \/ j \in 1..(n - 1) BY <2>1
    <3> QED BY <2>7, <2>8, <3>2, <3>3 DEF FramesOK
  <2> QED BY <2>3, <2>4, <2>6, <2>9 DEF HeapInv, OpOK
<1> QED BY <1>1, <1>2

\* Where a cursor stands.
LEMMA CursorCell ==
  ASSUME NEW cells, NEW h, CellsOK(cells, h), NEW c, AtHome(h, c, 0)
  PROVE  cells[c] \in Node /\ Shared(h, cells[c].next) /\ Shared(h, cells[c].sub)
<1>1. c \in 1..Len(cells) /\ cells \in Seq(Node) BY DEF CellsOK, AtHome
<1>2. Near(h, c, cells[c].next) /\ Near(h, c, cells[c].sub) BY <1>1 DEF CellsOK
<1> QED BY <1>1, <1>2 DEF Near, Shared, AtHome

\* Frame k + 1 is opened (k > 0): frames' and homes of the step.
LEMMA FramesPushed ==
  ASSUME NEW frs \in Seq(FrameType), NEW h, NEW name, NEW f, NEW g,
         \A j \in 1..Len(frs) : FrameOK(frs[j], j, h, name),
         FrameOK(f, Len(frs) + 1, h, name), FrameOK(g, Len(frs) + 2, h, name),
         \A c \in DOMAIN h : h[c] <= Len(frs) + 1, h \in [DOMAIN h -> Int]
  PROVE  FramesOK(frs \o <<f, g>>, h, name)
<1>1. f \in FrameType /\ g \in FrameType /\ Len(frs) \in Nat BY DEF FrameOK
<1>2. /\ frs \o <<f, g>> \in Seq(FrameType) /\ Len(frs \o <<f, g>>) = Len(frs) + 2
      /\ \A j \in 1..Len(frs) : (frs \o <<f, g>>)[j] = frs[j]
      /\ (frs \o <<f, g>>)[Len(frs) + 1] = f
      /\ (frs \o <<f, g>>)[Len(frs) + 2] = g
  BY <1>1
<1>3. \A j \in 1..(Len(frs) + 2) : j \in 1..Len(frs) \/ j = Len(frs) + 1 \/ j = Len(frs) + 2
  BY <1>1
<1>4. \A c \in DOMAIN h : h[c] <= Len(frs) + 2 BY <1>1
<1> QED BY <1>2, <1>3, <1>4 DEF FramesOK

\* The innermost frame is replaced.
LEMMA FramesReplaced ==
  ASSUME NEW frs \in Seq(FrameType), NEW h, NEW name, NEW f,
         \A j \in 1..Len(frs) : FrameOK(frs[j], j, h, name),
         FrameOK(f, Len(frs) + 1, h, name),
         \A c \in DOMAIN h : h[c] <= Len(frs) + 1
  PROVE  FramesOK(Append(frs, f), h, name)
<1>1. f \in FrameType /\ Len(frs) \in Nat BY DEF FrameOK
<1>2. /\ Append(frs, f) \in Seq(FrameType) /\ Len(Append(frs, f)) = Len(frs) + 1
      /\ \A j \in 1..Len(frs) : Append(frs, f)[j] = frs[j]
      /\ Append(frs, f)[Len(frs) + 1] = f
  BY <1>1
<1>3. \A j \in 1..(Len(frs) + 1) : j \in 1..Len(frs) \/ j = Len(frs) + 1
  BY <1>1
<1> QED BY <1>2, <1>3 DEF FramesOK

\* The cell of a nested literal, and the frame that builds its list.
LEMMA LiteralKeeps ==
  ASSUME LiteralsTyped, OpOK, NEW h, CellsOK(pool, h), VarsOK(vars, h),
         FramesOK(frames, h, op.name), frames # <<>>,
         NEW rest, TodoOK(rest, h, op.name), NEW l \in Nested,
         pool' = Linked(pool, Innermost, ValueToNode(<<"list", 0>>)),
         frames' = Others \o <<Advanced([Innermost EXCEPT !.todo = rest], Len(pool) + 1),
                               Frame(LiteralItems(l), <<"fill", Len(pool) + 1>>)>>,
         UNCHANGED <<vars, op>>
  PROVE  HeapInv'
<1> DEFINE n    == Len(frames)
           cell == ValueToNode(<<"list", 0>>)
           h2   == Folded(h, Len(pool) + 1, n)
           f2   == Advanced([Innermost EXCEPT !.todo = rest], Len(pool) + 1)
           g    == Frame(LiteralItems(l), <<"fill", Len(pool) + 1>>)
<1>1. /\ n \in Nat /\ n >= 1 /\ n <= n
      /\ FrameOK(Innermost, n, h, op.name) /\ Innermost = frames[n]
      /\ Others \in Seq(FrameType) /\ Len(Others) = n - 1
      /\ \A j \in 1..(n - 1) : Others[j] = frames[j]
  BY Nesting
<1>2. /\ Len(pool) \in Nat /\ Len(pool) + 1 \in Nat /\ Len(pool) <= Len(pool) + 1
      /\ h \in [1..Len(pool) -> Int]
  BY DEF CellsOK
<1>3. CellsOK(pool', h2)
  <2>1. <<"list", 0>> \in Value /\ IsListVal(<<"list", 0>>) BY DEF Value, IsListVal
  <2>2. cell \in Node /\ cell.next = 0 /\ cell.sub = 0
    BY <2>1, NodeOfValue
  <2> HIDE DEF cell
  <2>3. Innermost.slot = 0 \/ (n > 0 /\ AtHome(h, Innermost.slot, n))
    BY <1>1 DEF FrameOK
  <2>4. Shared(h, cell.next) /\ Shared(h, cell.sub) BY <2>2 DEF Shared
  <2>5. pool' = Linked(pool, Innermost, cell) BY DEF cell
  <2> QED BY <1>1, <2>2, <2>3, <2>4, <2>5, CellLinked
<1>4. Keeps(h, h2) /\ AtHome(h2, Len(pool) + 1, n) /\ h2 \in [1..(Len(pool) + 1) -> Int]
  <2>1. Len(pool) + 1 \in 1..(Len(pool) + 1) /\ Len(pool) + 1 > Len(pool) BY <1>2
  <2> QED BY <1>1, <1>2, <2>1, FoldedHomes
<1>5. VarsOK(vars, h2) BY <1>4, VarsKept
<1>6. /\ \A j \in 1..n : FrameOK(frames[j], j, h2, op.name)
      /\ \A c \in DOMAIN h2 : h2[c] <= n
  BY <1>1, <1>2, FramesKept
<1> HIDE DEF n, h2
<1>7. FrameOK(f2, n, h2, op.name)
  <2>1. FrameOK(Innermost, n, h2, op.name) BY <1>1, <1>6
  <2>2. TodoOK(rest, h2, op.name) BY <1>4, TodoKept
  <2> QED BY <1>2, <1>4, <2>1, <2>2, FrameTodo, FrameAdvanced
<1>8. FrameOK(g, n + 1, h2, op.name)
  <2>1. TodoOK(LiteralItems(l), h2, op.name) BY TodoLiteral
  <2> DEFINE then == <<"fill", Len(pool) + 1>>
  <2>2. then \in Purpose BY <1>2 DEF Purpose
  <2>3. PICK m \in Nat : m = n + 1 /\ m # 1 /\ m - 1 = n BY <1>1
  <2>4. then[1] # "result" /\ then[2] = Len(pool) + 1 OBVIOUS
  <2>5. g = Frame(LiteralItems(l), then) OBVIOUS
  <2> HIDE DEF then, g
  <2>6. AtHome(h2, then[2], m - 1) BY <1>4, <2>3, <2>4
  <2>7. then[1] = "result" <=> m = 1 BY <2>3, <2>4, Zenon
  <2>8. FrameOK(g, m, h2, op.name) BY <2>1, <2>2, <2>5, <2>6, <2>7, FrameNew
  <2> QED BY <2>3, <2>8
<1>9. FramesOK(frames', h2, op.name)
  <2>1. /\ Len(Others) + 1 = n /\ Len(Others) + 2 = n + 1
        /\ \A j \in 1..Len(Others) : j \in 1..n /\ Others[j] = frames[j]
    BY <1>1
  <2>2. frames' = Others \o <<f2, g>> OBVIOUS
  <2> HIDE DEF f2, g
  <2>3. h2 \in [DOMAIN h2 -> Int] BY <1>4
  <2>4. \A j \in 1..Len(Others) : FrameOK(Others[j], j, h2, op.name) BY <1>6, <2>1
  <2>5. /\ FrameOK(f2, Len(Others) + 1, h2, op.name) /\ FrameOK(g, Len(Others) + 2, h2, op.name)
        /\ \A c \in DOMAIN h2 : h2[c] <= Len(Others) + 1
    BY <1>6, <1>7, <1>8, <2>1
  <2> QED BY <1>1, <2>2, <2>3, <2>4, <2>5, FramesPushed
<1> QED BY <1>3, <1>5, <1>9 DEF HeapInv, OpOK

\* Every step of a construction ...
LEMMA BuildKeeps ==
  ASSUME LiteralsTyped, HeapInv, Build
  PROVE  HeapInv'
<1>0. PICK h : CellsOK(pool, h) /\ VarsOK(vars, h) /\ FramesOK(frames, h, op.name)
  BY DEF HeapInv
<1> DEFINE n    == Len(frames)
           item == Head(Innermost.todo)
           rest == Tail(Innermost.todo)
           cell == pool[item[2]]
           on   == Walk(item[1], cell.next) \o rest
<1>1. OpOK /\ frames # <<>> /\ Innermost.todo # <<>> BY DEF HeapInv, Build
<1>2. /\ n \in Nat /\ n >= 1 /\ frames \in Seq(FrameType)
      /\ FrameOK(Innermost, n, h, op.name) /\ Innermost = frames[n]
      /\ Others \in Seq(FrameType) /\ Len(Others) = n - 1
      /\ \A j \in 1..(n - 1) : Others[j] = frames[j]
  BY <1>0, <1>1, Nesting
<1>3. /\ TodoOK(rest, h, op.name) /\ item \in TodoItem
      /\ item[1] \in Walks => AtHome(h, item[2], 0)
      /\ item[1] = "subst" => op.name = "subst"
      /\ item[1] = "value" /\ IsListVal(item[2]) => Shared(h, item[2][2])
  BY <1>1, <1>2, TodoTail DEF FrameOK
<1> HIDE DEF item, rest
<1>4. /\ item[1] = "value" => item[2] \in Value
      /\ item[1] = "literal" => item[2] \in Nested
  BY <1>3 DEF TodoItem, Walks
<1>5. ASSUME item[1] \in Walks
      PROVE  /\ cell \in Node /\ cell.next \in Nat /\ cell.sub \in Nat
             /\ Shared(h, cell.next) /\ Shared(h, cell.sub)
             /\ TodoOK(on, h, op.name)
  <2>1. cell \in Node /\ Shared(h, cell.next) /\ Shared(h, cell.sub)
    BY <1>0, <1>3, <1>5, CursorCell
  <2>2. cell.next \in Nat /\ cell.sub \in Nat BY <2>1 DEF Node
  <2> HIDE DEF cell
  <2>3. TodoOK(Walk(item[1], cell.next), h, op.name) BY <1>3, <1>5, <2>1, <2>2, TodoWalk
  <2> QED BY <1>3, <2>1, <2>2, <2>3, TodoConcat
<1> HIDE DEF cell, on
<1>6. ASSUME item[1] \in Walks
      PROVE  NodeCopy(cell) \in Node /\ NodeCopy(cell).next = 0 /\ Shared(h, NodeCopy(cell).sub)
  BY <1>5, <1>6 DEF NodeCopy, Node
<1>7. ASSUME NEW v, ValueOK(v, h)
      PROVE  /\ ValueToNode(v) \in Node /\ ValueToNode(v).next = 0
             /\ Shared(h, ValueToNode(v).sub)
  <2>1. v \in Value /\ (IsListVal(v) => Shared(h, v[2])) BY <1>7 DEF ValueOK
  <2> QED BY <2>1, NodeOfValue DEF Shared
<1>8. /\ "copy" \in Walks /\ "front" \in Walks /\ "flat" \in Walks /\ "subst" \in Walks
  BY DEF Walks
<1>a. CASE item[1] = "value" /\ AppendCell(ValueToNode(item[2]), rest)
  <2>1. /\ ValueToNode(item[2]) \in Node /\ ValueToNode(item[2]).next = 0
        /\ Shared(h, ValueToNode(item[2]).sub)
    BY <1>3, <1>4, <1>a, NodeOfValue DEF Shared
  <2> QED BY <1>0, <1>1, <1>3, <1>a, <2>1, AppendKeeps
<1>b. CASE (item[1] = "copy" \/ item[1] = "flat") /\ AppendCell(NodeCopy(cell), on)
  <2>1. item[1] \in Walks BY <1>8, <1>b
  <2> QED BY <1>0, <1>1, <1>5, <1>6, <1>b, <2>1, AppendKeeps
<1>c. CASE item[1] = "front" /\ AppendCell(NodeCopy(cell), WalkFront(pool, cell.next) \o rest)
  <2>1. item[1] \in Walks BY <1>8, <1>c
  <2>2. TodoOK(WalkFront(pool, cell.next) \o rest, h, op.name)
    BY <1>3, <1>5, <2>1, TodoWalkFront, TodoConcat
  <2> QED BY <1>0, <1>1, <1>6, <1>c, <2>1, <2>2, AppendKeeps
<1>d. CASE /\ item[1] = "flat"
           /\ frames' = Append(Others, [Innermost EXCEPT !.todo = Walk("flat", cell.sub) \o on])
           /\ UNCHANGED <<pool, vars, op, full>>
  <2>1. item[1] \in Walks BY <1>8, <1>d
  <2>2. TodoOK(Walk("flat", cell.sub), h, op.name)
    BY <1>5, <1>8, <2>1, TodoWalk
  <2>3. TodoOK(Walk("flat", cell.sub) \o on, h, op.name) BY <1>5, <2>1, <2>2, TodoConcat
  <2>4. FrameOK([Innermost EXCEPT !.todo = Walk("flat", cell.sub) \o on], n, h, op.name)
    BY <1>2, <2>3, FrameTodo
  <2>5. \A j \in 1..Len(Others) : FrameOK(Others[j], j, h, op.name)
    BY <1>0, <1>2 DEF FramesOK
  <2>6. Len(Others) + 1 = n /\ \A c \in DOMAIN h : h[c] <= n BY <1>0, <1>2 DEF FramesOK
  <2>7. FramesOK(frames', h, op.name) BY <1>2, <1>d, <2>4, <2>5, <2>6, FramesReplaced
  <2> QED BY <1>0, <1>1, <1>d, <2>7 DEF HeapInv, OpOK
<1>e. CASE item[1] = "subst" /\ AppendCell(ValueToNode(vars[op.args[2]]), on)
  <2>1. item[1] \in Walks BY <1>8, <1>e
  <2>2. ValueOK(vars[op.args[2]], h) BY <1>0, <1>1, <1>3, <1>e DEF OpOK, VarsOK
  <2> QED BY <1>0, <1>1, <1>5, <1>7, <1>e, <2>1, <2>2, AppendKeeps
<1>f. CASE item[1] = "subst" /\ AppendCell(ValueToNode(NodeToValue(cell)), on)
  <2>1. item[1] \in Walks BY <1>8, <1>f
  <2>2. ValueOK(NodeToValue(cell), h) BY <1>5, <2>1, ValueOfNode
  <2> QED BY <1>0, <1>1, <1>5, <1>7, <1>f, <2>1, <2>2, AppendKeeps
<1>g. CASE /\ item[1] = "subst"
           /\ frames' = Others \o <<[Innermost EXCEPT !.todo = on],
                                    Frame(Walk("subst", cell.sub), <<"wrap">>)>>
           /\ UNCHANGED <<pool, vars, op, full>>
  <2>1. item[1] \in Walks BY <1>8, <1>g
  <2>2. TodoOK(Walk("subst", cell.sub), h, op.name)
    BY <1>3, <1>5, <1>8, <1>g, <2>1, TodoWalk
  <2>3. FrameOK([Innermost EXCEPT !.todo = on], n, h, op.name)
    BY <1>2, <1>5, <2>1, FrameTodo
  <2>4. FrameOK(Frame(Walk("subst", cell.sub), <<"wrap">>), n + 1, h, op.name)
    <3>1. <<"wrap">> \in Purpose /\ n + 1 # 1 BY <1>2 DEF Purpose
    <3>2. <<"wrap">>[1] # "result" /\ <<"wrap">>[1] # "fill" OBVIOUS
    <3> QED BY <2>2, <3>1, <3>2, FrameNew
  <2>5. \A j \in 1..Len(Others) : FrameOK(Others[j], j, h, op.name)
    BY <1>0, <1>2 DEF FramesOK
  <2>6. /\ Len(Others) + 1 = n /\ Len(Others) + 2 = n + 1
        /\ \A c \in DOMAIN h : h[c] <= n
    BY <1>0, <1>2 DEF FramesOK
  <2>7. h \in [DOMAIN h -> Int] BY <1>0 DEF CellsOK
  <2>8. FramesOK(frames', h, op.name)
    BY <1>2, <1>g, <2>3, <2>4, <2>5, <2>6, <2>7, FramesPushed
  <2> QED BY <1>0, <1>1, <1>g, <2>8 DEF HeapInv, OpOK
<1>h. CASE item[1] = "literal" /\ Exhausted
  BY <1>0, <1>1, <1>h, ExhaustedKeeps
<1>i. CASE /\ item[1] = "literal"
           /\ pool' = Linked(pool, Innermost, ValueToNode(<<"list", 0>>))
           /\ frames' = Others \o <<Advanced([Innermost EXCEPT !.todo = rest], Len(pool) + 1),
                                    Frame(LiteralItems(item[2]), <<"fill", Len(pool) + 1>>)>>
           /\ UNCHANGED <<vars, op, full>>
  <2>1. item[2] \in Nested BY <1>4, <1>i
  <2> QED BY <1>0, <1>1, <1>3, <1>i, <2>1, LiteralKeeps
<1> QED
  BY <1>a, <1>b, <1>c, <1>d, <1>e, <1>f, <1>g, <1>h, <1>i DEF Build, item, rest, cell, on

\* ... and every end of a chain keeps the homes.
LEMMA CloseKeeps ==
  ASSUME LiteralsTyped, HeapInv, Close
  PROVE  HeapInv'
<1>0. PICK h : CellsOK(pool, h) /\ VarsOK(vars, h) /\ FramesOK(frames, h, op.name)
  BY DEF HeapInv
<1> DEFINE n     == Len(frames)
           f     == Innermost
           outer == Others[Len(Others)]
           k     == n - 1
<1>1. OpOK /\ frames # <<>> BY DEF HeapInv, Close
<1>2. /\ n \in Nat /\ n >= 1 /\ frames \in Seq(FrameType)
      /\ FrameOK(f, n, h, op.name) /\ f = frames[n]
      /\ Others \in Seq(FrameType) /\ Len(Others) = k
      /\ \A j \in 1..k : Others[j] = frames[j]
      /\ f.then[1] # "result" => k >= 1 /\ outer = frames[k]
  BY <1>0, <1>1, Nesting
<1>3. /\ Len(pool) \in Nat /\ Len(pool) + 1 \in Nat /\ Len(pool) <= Len(pool) + 1
      /\ Len(pool) <= Len(pool) /\ h \in [1..Len(pool) -> Int]
  BY <1>0 DEF CellsOK
<1>4. f.head \in Nat /\ (f.head = 0 \/ AtHome(h, f.head, n)) BY <1>2 DEF FrameOK, FrameType
<1>5. k \in Nat /\ k <= n /\ k + 1 = n BY <1>2
<1>a. CASE f.then[1] = "result" /\ Finish(<<"list", f.head>>) /\ UNCHANGED <<pool, full>>
  <2> DEFINE h2 == Folded(h, Len(pool), 0)
  <2>1. Shared(h2, f.head)
    <3>1. n >= 0 /\ 0 \in Nat BY <1>2
    <3>2. AtHome(h, f.head, n) => AtHome(h2, f.head, 0) BY <1>3, <3>1, FoldedHomes
    <3> QED BY <1>4, <3>2 DEF Shared
  <2> HIDE DEF h2, f
  <2>2. ValueOK(<<"list", f.head>>, h2) /\ ~IsArray(<<"list", f.head>>)
    BY <1>4, <2>1, WordsAndLists
  <2> QED BY <1>0, <1>1, <1>a, <2>2, FinishKeeps DEF h2
<1>b. CASE /\ f.then[1] = "fill"
           /\ pool' = [pool EXCEPT ![f.then[2]].sub = f.head]
           /\ frames' = Others /\ UNCHANGED <<vars, op, full>>
  <2> DEFINE h2 == Folded(h, Len(pool), k)
  <2>1. k > 0 /\ AtHome(h, f.then[2], k) /\ (f.head = 0 \/ AtHome(h, f.head, k + 1))
    BY <1>2, <1>4, <1>5, <1>b DEF FrameOK
  <2>2. pool' = WithSub(pool, f.then[2], f.head) BY <1>b DEF WithSub
  <2>3. CellsOK(pool', h2) BY <1>0, <1>4, <1>5, <2>1, <2>2, CellFilled
  <2>4. VarsOK(vars, h2) BY <1>0, <1>3, <1>5, FoldedHomes, VarsKept
  <2>5. /\ \A j \in 1..k : FrameOK(frames[j], j, h2, op.name)
        /\ \A c \in DOMAIN h2 : h2[c] <= k
    BY <1>0, <1>3, <1>5, FramesKept
  <2> HIDE DEF h2, k
  <2>6. FramesOK(Others, h2, op.name) BY <1>2, <2>5 DEF FramesOK
  <2> QED BY <1>1, <1>b, <2>3, <2>4, <2>6 DEF HeapInv, OpOK
<1>c. CASE ~HasRoom /\ Exhausted
  BY <1>0, <1>1, <1>c, ExhaustedKeeps
<1>d. CASE /\ f.then[1] # "result"
           /\ pool' = Linked(pool, outer, ValueToNode(<<"list", f.head>>))
           /\ frames' = Append(SubSeq(Others, 1, Len(Others) - 1), Advanced(outer, Len(pool) + 1))
           /\ UNCHANGED <<vars, op, full>>
  <2> DEFINE cell  == ValueToNode(<<"list", f.head>>)
             h2    == Folded(h, Len(pool) + 1, k)
             f2    == Advanced(outer, Len(pool) + 1)
             above == SubSeq(Others, 1, Len(Others) - 1)
  <2>1. k > 0 /\ k \in 1..k /\ outer = frames[k] BY <1>2, <1>5, <1>d
  <2>2. FrameOK(outer, k, h, op.name) BY <1>0, <1>2, <2>1 DEF FramesOK
  <2>3. CellsOK(pool', h2)
    <3>1. <<"list", f.head>> \in Value /\ IsListVal(<<"list", f.head>>)
      BY <1>4 DEF Value, IsListVal
    <3>2. cell \in Node /\ cell.next = 0 /\ cell.sub = f.head
      BY <3>1, NodeOfValue
    <3> HIDE DEF cell
    <3>3. outer.slot = 0 \/ (k > 0 /\ AtHome(h, outer.slot, k)) BY <2>1, <2>2 DEF FrameOK
    <3>4. Shared(h, cell.next) /\ (Shared(h, cell.sub) \/ AtHome(h, cell.sub, k + 1))
      BY <1>4, <1>5, <3>2 DEF Shared
    <3>5. pool' = Linked(pool, outer, cell) BY <1>d DEF cell
    <3> HIDE DEF k, outer
    <3> QED BY <1>0, <1>5, <3>2, <3>3, <3>4, <3>5, CellLinked
  <2>4. Keeps(h, h2) /\ AtHome(h2, Len(pool) + 1, k)
    <3>1. Len(pool) + 1 \in 1..(Len(pool) + 1) /\ Len(pool) + 1 > Len(pool) BY <1>3
    <3> QED BY <1>3, <1>5, <3>1, FoldedHomes
  <2>5. VarsOK(vars, h2) BY <1>0, <2>4, VarsKept
  <2>6. /\ \A j \in 1..k : FrameOK(frames[j], j, h2, op.name)
        /\ \A c \in DOMAIN h2 : h2[c] <= k
    BY <1>0, <1>3, <1>5, FramesKept
  <2> HIDE DEF h2, k, outer
  <2>7. FrameOK(f2, k, h2, op.name) BY <1>3, <2>1, <2>4, <2>6, FrameAdvanced
  <2>8. /\ above \in Seq(FrameType) /\ Len(above) = k - 1
        /\ \A j \in 1..(k - 1) : above[j] = frames[j]
    <3>1. Others # <<>> BY <1>2, <2>1
    <3>2. /\ above \in Seq(FrameType) /\ Len(above) = k - 1
          /\ \A j \in 1..(k - 1) : above[j] = Others[j]
      BY <1>2, <3>1, FrontProperties
    <3>3. \A j \in 1..(k - 1) : j \in 1..k BY <1>5
    <3> QED BY <1>2, <3>2, <3>3
  <2>9. frames' = Append(above, f2) BY <1>d
  <2> HIDE DEF above, f2
  <2>10. FramesOK(frames', h2, op.name)
    <3>1. Len(above) + 1 = k /\ \A j \in 1..Len(above) : j \in 1..k /\ above[j] = frames[j]
      BY <1>5, <2>8
    <3>2. \A j \in 1..Len(above) : FrameOK(above[j], j, h2, op.name) BY <2>6, <3>1
    <3>3. FrameOK(f2, Len(above) + 1, h2, op.name) /\ \A c \in DOMAIN h2 : h2[c] <= Len(above) + 1
      BY <2>6, <2>7, <3>1
    <3> QED BY <2>8, <2>9, <3>2, <3>3, FramesReplaced
  <2> QED BY <1>1, <1>d, <2>3, <2>5, <2>10 DEF HeapInv, OpOK
<1> QED BY <1>a, <1>b, <1>c, <1>d DEF Close

(***************************************************************************)
(* Operations.                                                             *)
(***************************************************************************)
\* Nothing is being built: no cell belongs to a chain.
Settled(h) == \A c \in DOMAIN h : h[c] <= 0

\* A cell on its own that leads to shared ones, and is shared itself.
LEMMA CellAdded ==
  ASSUME NEW cells, NEW h, CellsOK(cells, h), Settled(h),
         NEW cell \in Node, Shared(h, cell.next), Shared(h, cell.sub)
  PROVE  LET h2 == Folded(h, Len(cells) + 1, 0)
         IN  /\ CellsOK(Append(cells, cell), h2) /\ Len(Append(cells, cell)) = Len(cells) + 1
             /\ Keeps(h, h2) /\ Settled(h2) /\ AtHome(h2, Len(cells) + 1, 0)
             /\ \A c : Shared(h, c) => Shared(h2, c)
<1> DEFINE h2 == Folded(h, Len(cells) + 1, 0)
           f  == [slot |-> 0]
<1>1. /\ Len(cells) \in Nat /\ Len(cells) + 1 \in Nat /\ Len(cells) <= Len(cells) + 1
      /\ h \in [1..Len(cells) -> Int]
  BY DEF CellsOK
<1>2. Append(cells, cell) = Linked(cells, f, cell) /\ f.slot = 0 BY DEF Linked
<1>3. 0 \in Nat /\ Len(cells) + 1 \in 1..(Len(cells) + 1) /\ Len(cells) + 1 > Len(cells) BY <1>1
<1>4. /\ h2 \in [1..(Len(cells) + 1) -> Int] /\ Keeps(h, h2)
      /\ \A c : Shared(h, c) => Shared(h2, c)
      /\ AtHome(h2, Len(cells) + 1, 0) /\ \A c \in 1..(Len(cells) + 1) : h2[c] <= 0
  BY <1>1, <1>3, FoldedHomes
<1> HIDE DEF f
<1>5. CellsOK(Append(cells, cell), h2) /\ Len(Append(cells, cell)) = Len(cells) + 1
  BY <1>2, <1>3, CellLinked
<1> QED BY <1>4, <1>5 DEF Settled

\* The cells of a new array.
LEMMA ArrayAdded ==
  ASSUME NEW cells, NEW h, CellsOK(cells, h), Settled(h), NEW more \in Seq(Node),
         \A i \in 1..Len(more) : more[i].next = 0 /\ more[i].sub = 0
  PROVE  \E h2 : /\ CellsOK(cells \o more, h2) /\ Keeps(h, h2) /\ Settled(h2)
                 /\ \A c \in (Len(cells) + 1)..(Len(cells) + Len(more)) :
                      AtHome(h2, c, -(Len(cells) + 1))
<1> DEFINE cells2 == cells \o more
           h2     == [c \in 1..(Len(cells) + Len(more)) |->
                        IF c <= Len(cells) THEN h[c] ELSE -(Len(cells) + 1)]
<1>1. /\ cells \in Seq(Node) /\ Len(cells) \in Nat /\ Len(more) \in Nat
      /\ h \in [1..Len(cells) -> Int] /\ Acyclic(cells)
      /\ \A c \in 1..Len(cells) : /\ -h[c] <= Len(cells) /\ h[c] <= 0
                                  /\ Near(h, c, cells[c].next) /\ Near(h, c, cells[c].sub)
                                  /\ cells[c].next \in Nat /\ cells[c].sub \in Nat
  <2>1. \A c \in 1..Len(cells) : cells[c] \in Node BY DEF CellsOK
  <2> QED BY <2>1 DEF CellsOK, Settled, Node
<1>2. /\ cells2 \in Seq(Node) /\ Len(cells2) = Len(cells) + Len(more)
      /\ \A c \in 1..Len(cells) : cells2[c] = cells[c]
      /\ \A c \in 1..Len(cells2) : c > Len(cells) => cells2[c].next = 0 /\ cells2[c].sub = 0
  <2>1. cells2 \in Seq(Node) /\ Len(cells2) = Len(cells) + Len(more)
    BY <1>1
  <2>2. ASSUME NEW c \in 1..Len(cells2), c > Len(cells)
        PROVE  cells2[c] = more[c - Len(cells)] /\ c - Len(cells) \in 1..Len(more)
    BY <1>1, <2>1, <2>2
  <2> QED BY <1>1, <2>1, <2>2
<1> HIDE DEF cells2
<1>3. /\ h2 \in [1..Len(cells2) -> Int] /\ Keeps(h, h2) /\ Settled(h2)
      /\ \A c \in (Len(cells) + 1)..(Len(cells) + Len(more)) : AtHome(h2, c, -(Len(cells) + 1))
      /\ \A c \in 1..Len(cells2) : -h2[c] <= Len(cells2)
  <2>1. \A c \in 1..Len(cells2) :
          h2[c] = IF c <= Len(cells) THEN h[c] ELSE -(Len(cells) + 1)
    BY <1>2
  <2>2. \A c \in 1..Len(cells2) : c <= Len(cells) => c \in 1..Len(cells) BY <1>1, <1>2
  <2>3. h2 \in [1..Len(cells2) -> Int] BY <1>1, <1>2
  <2>4. \A c \in 1..Len(cells) : c \in 1..Len(cells2) /\ h2[c] = h[c] BY <1>1, <1>2, <2>1
  <2> HIDE DEF h2
  <2>5. Keeps(h, h2) BY <1>1, <2>3, <2>4 DEF Keeps, AtHome
  <2>6. Settled(h2) BY <1>1, <2>1, <2>2, <2>3 DEF Settled
  <2>7. \A c \in 1..Len(cells2) : -h2[c] <= Len(cells2)
    BY <1>1, <1>2, <2>1, <2>2
  <2>8. \A c \in (Len(cells) + 1)..(Len(cells) + Len(more)) : AtHome(h2, c, -(Len(cells) + 1))
    BY <1>1, <1>2, <2>1, <2>3 DEF AtHome
  <2> QED BY <2>3, <2>5, <2>6, <2>7, <2>8
<1>4. \A c : Shared(h, c) => Shared(h2, c)
  BY <1>1, <1>2, <1>3 DEF Shared, AtHome, Keeps
<1> HIDE DEF h2
<1>a. \A c \in 1..Len(cells) : Shared(h, cells[c].next) /\ Shared(h, cells[c].sub)
  BY <1>1 DEF Near
<1>5. \A c \in 1..Len(cells2) : Near(h2, c, cells2[c].next) /\ Near(h2, c, cells2[c].sub)
  <2>1. \A c \in 1..Len(cells) : Near(h2, c, cells2[c].next) /\ Near(h2, c, cells2[c].sub)
    BY <1>2, <1>4, <1>a DEF Near
  <2>2. \A c \in 1..Len(cells2) : c > Len(cells) =>
          Near(h2, c, cells2[c].next) /\ Near(h2, c, cells2[c].sub)
    BY <1>2 DEF Near, Shared
  <2>3. \A c \in 1..Len(cells2) : c > Len(cells) \/ c \in 1..Len(cells) BY <1>1, <1>2
  <2> QED BY <2>1, <2>2, <2>3
<1>6. Acyclic(cells2)
  <2> DEFINE closed == 1..Len(cells)
  <2>1. \A c \in closed : /\ cells2[c].next = cells[c].next /\ cells2[c].sub = cells[c].sub
                          /\ cells[c].next \in closed \cup {0} /\ cells[c].sub \in closed \cup {0}
    BY <1>1, <1>2 DEF Near, Shared, AtHome
  <2>2. closed \subseteq 1..Len(cells) OBVIOUS
  <2>3. \A c \in 1..Len(cells) :
           /\ \/ cells2[c].next = cells[c].next
              \/ cells2[c].next \in closed \cup {0} \cup (Len(cells) + 1)..Len(cells2)
           /\ \/ cells2[c].sub = cells[c].sub
              \/ cells2[c].sub \in closed \cup {0} \cup (Len(cells) + 1)..Len(cells2)
    BY <1>2
  <2>4. \A c \in 1..Len(cells2) : c > Len(cells) =>
           cells2[c].next \in closed \cup {0} /\ cells2[c].sub \in closed \cup {0}
    BY <1>2
  <2>5. Len(cells2) \in Nat /\ Len(cells) <= Len(cells2) BY <1>1, <1>2
  <2> HIDE DEF closed
  <2> QED BY <1>1, <2>1, <2>2, <2>3, <2>4, <2>5, AcyclicKept
<1>7. CellsOK(cells2, h2) BY <1>2, <1>3, <1>5, <1>6 DEF CellsOK
<1> QED BY <1>3, <1>7 DEF cells2

\* A value is stored into cells that are not shared.
LEMMA CellsStored ==
  ASSUME LiteralsTyped, NEW cells, NEW h, CellsOK(cells, h), NEW hits,
         \A c \in hits : ~AtHome(h, c, 0),
         NEW v, ValueOK(v, h)
  PROVE  CellsOK([i \in 1..Len(cells) |-> IF i \in hits THEN Stored(cells[i], v) ELSE cells[i]], h)
<1> DEFINE cells2 == [i \in 1..Len(cells) |-> IF i \in hits THEN Stored(cells[i], v) ELSE cells[i]]
           closed == {c \in 1..Len(cells) : h[c] = 0}
           node   == ValueToNode(v)
<1>1. /\ cells \in Seq(Node) /\ Len(cells) \in Nat /\ h \in [1..Len(cells) -> Int]
      /\ Acyclic(cells)
      /\ \A c \in 1..Len(cells) : /\ Near(h, c, cells[c].next) /\ Near(h, c, cells[c].sub)
                                  /\ cells[c] \in Node
  BY DEF CellsOK
<1>2. node \in Node /\ Shared(h, node.sub)
  <2>1. v \in Value /\ (IsListVal(v) => Shared(h, v[2])) BY DEF ValueOK
  <2> QED BY <2>1, NodeOfValue DEF Shared
<1>3. \A c \in 1..Len(cells) : /\ Stored(cells[c], v) \in Node
                               /\ Stored(cells[c], v).next = cells[c].next
                               /\ Stored(cells[c], v).sub = node.sub
  BY <1>1, <1>2 DEF Stored, Node
<1> HIDE DEF node
<1>4. /\ cells2 \in Seq(Node) /\ Len(cells2) = Len(cells)
      /\ \A c \in 1..Len(cells) :
           /\ cells2[c].next = cells[c].next
           /\ cells2[c].sub = IF c \in hits THEN node.sub ELSE cells[c].sub
  <2>1. \A c \in 1..Len(cells) : cells2[c] \in Node BY <1>1, <1>3
  <2>2. cells2 \in Seq(Node) /\ Len(cells2) = Len(cells) BY <1>1, <2>1
  <2> QED BY <1>3, <2>2
<1> HIDE DEF cells2
<1>5. Acyclic(cells2)
  <2>1. \A c \in closed : /\ cells2[c].next = cells[c].next /\ cells2[c].sub = cells[c].sub
                          /\ cells[c].next \in closed \cup {0} /\ cells[c].sub \in closed \cup {0}
    BY <1>1, <1>4 DEF Near, Shared, AtHome
  <2>2. closed \subseteq 1..Len(cells) /\ node.sub \in closed \cup {0}
    BY <1>1, <1>2 DEF Shared, AtHome
  <2> HIDE DEF closed
  <2>3. \A c \in 1..Len(cells) :
           /\ \/ cells2[c].next = cells[c].next
              \/ cells2[c].next \in closed \cup {0} \cup (Len(cells) + 1)..Len(cells2)
           /\ \/ cells2[c].sub = cells[c].sub
              \/ cells2[c].sub \in closed \cup {0} \cup (Len(cells) + 1)..Len(cells2)
    BY <1>4, <2>2
  <2>4. \A c \in 1..Len(cells2) : c > Len(cells) =>
           cells2[c].next \in closed \cup {0} /\ cells2[c].sub \in closed \cup {0}
    BY <1>1, <1>4
  <2>5. Len(cells2) \in Nat /\ Len(cells) <= Len(cells2) BY <1>1, <1>4
  <2> QED BY <1>1, <2>1, <2>2, <2>3, <2>4, <2>5, AcyclicKept
<1>6. \A c \in 1..Len(cells) : Near(h, c, cells2[c].next) /\ Near(h, c, cells2[c].sub)
  BY <1>1, <1>2, <1>4 DEF Near
<1> QED BY <1>1, <1>4, <1>5, <1>6 DEF CellsOK, cells2

\* The state in which an operation starts, and its record.
LEMMA Begun ==
  ASSUME NEW name, NEW t \in Vars, NEW args, Begin(name, t, args),
         name = "subst" => args[1] \in Vars /\ args[2] \in Vars
  PROVE  frames = <<>> /\ OpOK' /\ op'.name = name
BY DEF Begin, Idle, OpOK

\* Between operations no cell belongs to a chain.
LEMMA IdleHomes ==
  ASSUME HeapInv, frames = <<>>
  PROVE  \E h : CellsOK(pool, h) /\ VarsOK(vars, h) /\ Settled(h)
<1>1. PICK h : CellsOK(pool, h) /\ VarsOK(vars, h) /\ FramesOK(frames, h, op.name)
  BY DEF HeapInv
<1>2. Settled(h) BY <1>1 DEF FramesOK, Settled
<1> QED BY <1>1, <1>2

\* An operation that is done at once, gives up or starts a construction.
LEMMA GiveKeeps ==
  ASSUME LiteralsTyped, OpOK', frames = <<>>, NEW h, VarsOK(vars, h),
         NEW h2, Keeps(h, h2), NEW cells, CellsOK(cells, h2), Settled(h2),
         NEW t \in Vars, NEW v, ValueOK(v, h2),
         \A w \in Vars : SameArray(v, vars[w]) /\ SameArray(vars[w], v),
         Give(t, v, cells)
  PROVE  HeapInv'
<1>1. pool' = cells /\ frames' = <<>> /\ vars' = [vars EXCEPT ![t] = v] BY DEF Give
<1>2. VarsOK(vars, h2) BY VarsKept
<1>3. VarsOK(vars', h2) BY <1>1, <1>2, VarsGiven
<1>4. FramesOK(frames', h2, op'.name) BY <1>1 DEF FramesOK, Settled
<1> QED BY <1>1, <1>3, <1>4 DEF HeapInv

\* The same for a value that is no array.
LEMMA GivePlainKeeps ==
  ASSUME LiteralsTyped, OpOK', frames = <<>>, NEW h, VarsOK(vars, h),
         NEW h2, Keeps(h, h2), NEW cells, CellsOK(cells, h2), Settled(h2),
         NEW t \in Vars, NEW v, ValueOK(v, h2), ~IsArray(v), Give(t, v, cells)
  PROVE  HeapInv'
BY WordsAndLists, GiveKeeps

LEMMA GiveUpKeeps ==
  ASSUME LiteralsTyped, OpOK', frames = <<>>, NEW h, VarsOK(vars, h),
         NEW h2, Keeps(h, h2), NEW cells, CellsOK(cells, h2), Settled(h2),
         NEW t \in Vars, GiveUp(t, cells)
  PROVE  HeapInv'
<1>1. pool' = cells /\ frames' = <<>> /\ vars' = [vars EXCEPT ![t] = EmptyWord] BY DEF GiveUp
<1>2. VarsOK(vars, h2) BY VarsKept
<1>3. VarsOK(vars', h2) BY <1>1, <1>2, VarsGiven, WordsAndLists
<1>4. FramesOK(frames', h2, op'.name) BY <1>1 DEF FramesOK, Settled
<1> QED BY <1>1, <1>3, <1>4 DEF HeapInv

LEMMA BuildFromKeeps ==
  ASSUME LiteralsTyped, OpOK', NEW h, VarsOK(vars, h),
         NEW h2, Keeps(h, h2), NEW cells, CellsOK(cells, h2), Settled(h2),
         NEW todo, TodoOK(todo, h2, op'.name), BuildFrom(todo, cells)
  PROVE  HeapInv'
<1> DEFINE f == Frame(todo, <<"result">>)
<1>1. pool' = cells /\ frames' = <<f>> /\ vars' = vars BY DEF BuildFrom
<1>2. VarsOK(vars, h2) BY VarsKept
<1>3. FrameOK(f, 1, h2, op'.name)
  <2> DEFINE then == <<"result">>
  <2>1. then \in Purpose /\ then[1] = "result" /\ then[1] # "fill" BY DEF Purpose
  <2>2. f = Frame(todo, then) OBVIOUS
  <2> HIDE DEF then, f
  <2> QED BY <2>1, <2>2, FrameNew
<1>4. f \in FrameType BY <1>3 DEF FrameOK
<1> HIDE DEF f
<1>5. <<f>> \in Seq(FrameType) /\ Len(<<f>>) = 1 /\ <<f>>[1] = f BY <1>4
<1>6. h2 \in [DOMAIN h2 -> Int] /\ \A c \in DOMAIN h2 : h2[c] <= 0 BY DEF CellsOK, Settled
<1>7. \A c \in DOMAIN h2 : h2[c] <= 1 BY <1>6
<1>8. FramesOK(<<f>>, h2, op'.name) BY <1>3, <1>5, <1>7 DEF FramesOK
<1> QED BY <1>1, <1>2, <1>8 DEF HeapInv

LEMMA KeepsSelf ==
  ASSUME NEW h
  PROVE  Keeps(h, h)
BY DEF Keeps, AtHome

\* Operations on the cells there are.
LEMMA PlainCommands ==
  ASSUME LiteralsTyped, HeapInv, NEW t \in Vars, NEW a \in Vars, NEW b \in Vars,
         \/ \E l \in Literals : BuildLiteral(t, l)
         \/ \E w \in Atoms : AssignWord(t, w)
         \/ Assign(t, a) \/ First(t, a) \/ ButFirst(t, a) \/ ButLast(t, a)
         \/ Sentence(t, a, b) \/ WrapPair(t, a, b)
         \/ \E c \in Vars : Subst(t, a, b, c)
         \/ \E n \in Sizes : Item(t, n, a)
  PROVE  HeapInv'
<1>1. frames = <<>>
  BY DEF BuildLiteral, AssignWord, Assign, First, ButFirst, ButLast, Sentence, WrapPair, Subst,
         Item, Begin, Idle
<1>2. PICK h : CellsOK(pool, h) /\ VarsOK(vars, h) /\ Settled(h) BY <1>1, IdleHomes
<1>3. Keeps(h, h) BY KeepsSelf
<1>4. \A v \in Vars : /\ ValueOK(vars[v], h) /\ vars[v] \in Value
                      /\ IsListVal(vars[v]) => vars[v][2] \in Nat /\ Shared(h, vars[v][2])
                      /\ \A w \in Vars : SameArray(vars[v], vars[w]) /\ SameArray(vars[w], vars[v])
  <2>1. \A v \in Vars : ValueOK(vars[v], h) /\ vars[v] \in Value BY <1>2 DEF VarsOK
  <2>2. \A v \in Vars : IsListVal(vars[v]) => vars[v][2] \in Nat
    BY <2>1 DEF Value, IsListVal
  <2> QED BY <1>2, <2>1, <2>2 DEF VarsOK, ValueOK
<1>5. ASSUME NEW v \in Vars, IsListVal(vars[v]), vars[v][2] # 0
      PROVE  /\ pool[vars[v][2]] \in Node /\ Shared(h, pool[vars[v][2]].sub)
             /\ Shared(h, pool[vars[v][2]].next) /\ pool[vars[v][2]].next \in Nat
  <2>1. AtHome(h, vars[v][2], 0) BY <1>4, <1>5 DEF Shared
  <2>2. pool[vars[v][2]] \in Node BY <1>2, <2>1, CursorCell
  <2> QED BY <1>2, <2>1, <2>2, CursorCell DEF Node
<1>a. ASSUME NEW l \in Literals, BuildLiteral(t, l) PROVE HeapInv'
  <2>1. OpOK' /\ op'.name = "literal" BY <1>a, Begun DEF BuildLiteral
  <2>2. l \in Nested BY DEF LiteralsTyped
  <2>3. TodoOK(LiteralItems(l), h, op'.name) BY <2>2, TodoLiteral
  <2> QED BY <1>2, <1>3, <1>a, <2>1, <2>3, BuildFromKeeps DEF BuildLiteral
<1>b. ASSUME NEW w \in Atoms, AssignWord(t, w) PROVE HeapInv'
  <2>1. OpOK' /\ op'.name = "word" BY <1>b, Begun DEF AssignWord
  <2>2. w \in Words BY DEF LiteralsTyped
  <2>3. ValueOK(<<"word", w>>, h) /\ ~IsArray(<<"word", w>>) BY <2>2, WordsAndLists
  <2> QED BY <1>1, <1>2, <1>3, <1>b, <2>1, <2>3, GivePlainKeeps DEF AssignWord
<1>c. CASE Assign(t, a)
  <2>1. OpOK' BY <1>c, Begun DEF Assign
  <2> QED BY <1>1, <1>2, <1>3, <1>4, <1>c, <2>1, GiveKeeps DEF Assign
<1>d. CASE First(t, a)
  <2> DEFINE v == IF vars[a][2] = 0 THEN EmptyWord ELSE NodeToValue(pool[vars[a][2]])
  <2>1. OpOK' BY <1>d, Begun DEF First
  <2>2. IsListVal(vars[a]) /\ Give(t, v, pool) BY <1>d DEF First
  <2>3. ValueOK(v, h) /\ ~IsArray(v) BY <1>5, <2>2, ValueOfNode, WordsAndLists
  <2> HIDE DEF v
  <2> QED BY <1>1, <1>2, <1>3, <2>1, <2>2, <2>3, GivePlainKeeps
<1>e. CASE ButFirst(t, a)
  <2> DEFINE d == IF vars[a][2] = 0 THEN 0 ELSE pool[vars[a][2]].next
             v == <<"list", d>>
  <2>1. OpOK' BY <1>e, Begun DEF ButFirst
  <2>2. IsListVal(vars[a]) /\ Give(t, v, pool) BY <1>e DEF ButFirst
  <2>3. d \in Nat /\ Shared(h, d) BY <1>5, <2>2 DEF Shared
  <2> HIDE DEF d
  <2>4. ValueOK(v, h) /\ ~IsArray(v) BY <2>3, WordsAndLists
  <2> HIDE DEF v
  <2> QED BY <1>1, <1>2, <1>3, <2>1, <2>2, <2>4, GivePlainKeeps
<1>f. CASE ButLast(t, a)
  <2>1. OpOK' BY <1>f, Begun DEF ButLast
  <2>2. TodoOK(WalkFront(pool, vars[a][2]), h, op'.name)
    BY <1>4, <1>f, TodoWalkFront DEF ButLast
  <2> QED BY <1>2, <1>3, <1>f, <2>1, <2>2, BuildFromKeeps DEF ButLast
<1>g. CASE Sentence(t, a, b)
  <2>1. OpOK' BY <1>g, Begun DEF Sentence
  <2>2. "copy" \in Walks /\ "copy" # "subst" BY DEF Walks
  <2>3. ASSUME NEW v \in Vars PROVE TodoOK(Parts(vars[v]), h, op'.name)
    <3>1. CASE IsListVal(vars[v]) BY <1>4, <2>2, <3>1, TodoWalk DEF Parts
    <3>2. CASE ~IsListVal(vars[v]) BY <1>4, <3>2, TodoValue DEF Parts
    <3> QED BY <3>1, <3>2
  <2>4. TodoOK(Parts(vars[a]) \o Parts(vars[b]), h, op'.name) BY <2>3, TodoConcat
  <2> QED BY <1>2, <1>3, <1>g, <2>1, <2>4, BuildFromKeeps DEF Sentence
<1>h. CASE WrapPair(t, a, b)
  <2>1. OpOK' BY <1>h, Begun DEF WrapPair
  <2>2. TodoOK(<<<<"value", vars[a]>>, <<"value", vars[b]>>>>, h, op'.name)
    BY <1>4, TodoPair
  <2> QED BY <1>2, <1>3, <1>h, <2>1, <2>2, BuildFromKeeps DEF WrapPair
<1>i. ASSUME NEW c \in Vars, Subst(t, a, b, c) PROVE HeapInv'
  <2>1. OpOK' /\ op'.name = "subst"
    <3> DEFINE args == <<a, b, c>>
    <3>1. args[1] \in Vars /\ args[2] \in Vars OBVIOUS
    <3>2. Begin("subst", t, args) BY <1>i DEF Subst
    <3> HIDE DEF args
    <3> QED BY <3>1, <3>2, Begun
  <2>2. "subst" \in Walks BY DEF Walks
  <2>3. TodoOK(Walk("subst", vars[c][2]), h, op'.name)
    BY <1>4, <1>i, <2>1, <2>2, TodoWalk DEF Subst
  <2> QED BY <1>2, <1>3, <1>i, <2>1, <2>3, BuildFromKeeps DEF Subst
<1>j. ASSUME NEW n \in Sizes, Item(t, n, a) PROVE HeapInv'
  <2> DEFINE c == vars[a][2] + n - 1
             v == IF n \in 1..vars[a][3] THEN NodeToValue(pool[c]) ELSE EmptyWord
  <2>1. OpOK' BY <1>j, Begun DEF Item
  <2>2. IsArray(vars[a]) /\ Give(t, v, pool) BY <1>j DEF Item
  <2>3. ASSUME n \in 1..vars[a][3] PROVE pool[c] \in Node /\ Shared(h, pool[c].sub)
    <3>1. vars[a][2] \in Nat /\ vars[a][3] \in Nat BY <1>4, <2>2 DEF Value, IsArray
    <3>2. c \in ArrayCells(vars[a]) BY <2>3, <3>1 DEF ArrayCells
    <3>a. vars[a][2] > 0 /\ AtHome(h, c, -vars[a][2])
      BY <1>4, <2>2, <3>2 DEF ValueOK
    <3>3. c \in 1..Len(pool) /\ h[c] <= 0 BY <1>2, <3>a DEF CellsOK, Settled, AtHome
    <3>4. Near(h, c, pool[c].sub) /\ pool[c] \in Node /\ h \in [1..Len(pool) -> Int]
      BY <1>2, <3>3 DEF CellsOK
    <3> QED BY <3>3, <3>4 DEF Near
  <2> HIDE DEF c
  <2>4. ValueOK(v, h) /\ ~IsArray(v) BY <2>3, ValueOfNode, WordsAndLists
  <2> HIDE DEF v
  <2> QED BY <1>1, <1>2, <1>3, <2>1, <2>2, <2>4, GivePlainKeeps
<1> QED BY <1>a, <1>b, <1>c, <1>d, <1>e, <1>f, <1>g, <1>h, <1>i, <1>j

\* A cell of its own for a value that is no list.
LEMMA OwnCellAdded ==
  ASSUME LiteralsTyped, NEW h, CellsOK(pool, h), Settled(h), NEW v, ValueOK(v, h)
  PROVE  LET h2 == Folded(h, Len(pool) + 1, 0)
         IN  /\ CellsOK(OwnCell(v), h2) /\ Len(OwnCell(v)) = Len(pool) + 1
             /\ Keeps(h, h2) /\ Settled(h2) /\ AtHome(h2, Len(pool) + 1, 0)
<1>1. v \in Value /\ (IsListVal(v) => Shared(h, v[2])) BY DEF ValueOK
<1>2. /\ ValueToNode(v) \in Node /\ Shared(h, ValueToNode(v).next)
      /\ Shared(h, ValueToNode(v).sub)
  BY <1>1, NodeOfValue DEF Shared
<1> QED BY <1>2, CellAdded DEF OwnCell

\* Operations that take cells at once: FPUT, and the others on values that
\* are no lists.
LEMMA GrowingCommands ==
  ASSUME LiteralsTyped, HeapInv, NEW t \in Vars, NEW a \in Vars, NEW b \in Vars,
         Flatten(t, a) \/ Fput(t, a, b) \/ Lput(t, a, b)
  PROVE  HeapInv'
<1>1. frames = <<>> BY DEF Flatten, Fput, Lput, Begin, Idle
<1>2. PICK h : CellsOK(pool, h) /\ VarsOK(vars, h) /\ Settled(h) BY <1>1, IdleHomes
<1>3. Keeps(h, h) /\ Len(pool) \in Nat /\ Len(pool) + 1 \in Nat /\ Len(pool) + 1 # 0
  BY <1>2, KeepsSelf DEF CellsOK
<1>4. \A v \in Vars : /\ ValueOK(vars[v], h)
                      /\ IsListVal(vars[v]) => vars[v][2] \in Nat /\ Shared(h, vars[v][2])
  <2>1. \A v \in Vars : ValueOK(vars[v], h) /\ vars[v] \in Value BY <1>2 DEF VarsOK
  <2>2. \A v \in Vars : IsListVal(vars[v]) => vars[v][2] \in Nat
    BY <2>1 DEF Value, IsListVal
  <2> QED BY <2>1, <2>2 DEF ValueOK
<1> DEFINE h2 == Folded(h, Len(pool) + 1, 0)
<1>5. ASSUME NEW v \in Vars
      PROVE  /\ CellsOK(OwnCell(vars[v]), h2) /\ Len(OwnCell(vars[v])) = Len(pool) + 1
             /\ Keeps(h, h2) /\ Settled(h2) /\ AtHome(h2, Len(pool) + 1, 0)
  BY <1>2, <1>4, OwnCellAdded
<1> HIDE DEF h2
<1>6. "flat" \in Walks /\ "flat" # "subst" /\ "copy" \in Walks /\ "copy" # "subst"
  BY DEF Walks
<1>a. CASE Flatten(t, a)
  <2>1. OpOK' BY <1>a, Begun DEF Flatten
  <2>2. CASE IsListVal(vars[a])
    <3>1. TodoOK(Walk("flat", vars[a][2]), h, op'.name) BY <1>4, <1>6, <2>2, TodoWalk
    <3> QED BY <1>2, <1>3, <1>a, <2>1, <2>2, <3>1, BuildFromKeeps DEF Flatten
  <2>3. CASE ~IsListVal(vars[a]) /\ ~HasRoom
    BY <1>1, <1>2, <1>3, <1>a, <2>1, <2>3, GiveUpKeeps DEF Flatten
  <2>4. CASE ~IsListVal(vars[a]) /\ HasRoom
    <3>1. Walk("flat", Len(pool) + 1) = <<<<"flat", Len(pool) + 1>>>> BY <1>3 DEF Walk
    <3>2. Shared(h2, Len(pool) + 1) BY <1>5 DEF Shared
    <3>3. TodoOK(<<<<"flat", Len(pool) + 1>>>>, h2, op'.name)
      BY <1>3, <1>6, <3>1, <3>2, TodoWalk
    <3>4. BuildFrom(<<<<"flat", Len(pool) + 1>>>>, OwnCell(vars[a])) BY <1>a, <2>4 DEF Flatten
    <3> QED BY <1>2, <1>5, <2>1, <3>3, <3>4, BuildFromKeeps
  <2> QED BY <2>2, <2>3, <2>4
<1>b. CASE Lput(t, a, b)
  <2>1. OpOK' BY <1>b, Begun DEF Lput
  <2>2. CASE IsListVal(vars[b])
    <3>1. TodoOK(Walk("copy", vars[b][2]), h, op'.name) BY <1>4, <1>6, <2>2, TodoWalk
    <3>2. TodoOK(<<<<"value", vars[a]>>>>, h, op'.name) BY <1>4, TodoValue
    <3>3. TodoOK(Walk("copy", vars[b][2]) \o <<<<"value", vars[a]>>>>, h, op'.name)
      BY <3>1, <3>2, TodoConcat
    <3> QED BY <1>2, <1>3, <1>b, <2>1, <2>2, <3>3, BuildFromKeeps DEF Lput
  <2>3. CASE ~IsListVal(vars[b]) /\ ~HasRoom
    BY <1>1, <1>2, <1>3, <1>b, <2>1, <2>3, GiveUpKeeps DEF Lput
  <2>4. CASE ~IsListVal(vars[b]) /\ HasRoom
    <3> DEFINE todo == <<<<"copy", Len(pool) + 1>>, <<"value", vars[a]>>>>
    <3>1. ValueOK(vars[a], h2) BY <1>4, <1>5, ValueKept
    <3>2. TodoOK(todo, h2, op'.name)
      <4>1. <<"copy", Len(pool) + 1>> \in TodoItem BY <1>3, <1>6 DEF TodoItem
      <4>2. <<"value", vars[a]>> \in TodoItem BY <3>1 DEF ValueOK, TodoItem
      <4>3. /\ todo \in Seq(TodoItem) /\ Len(todo) = 2
            /\ todo[1] = <<"copy", Len(pool) + 1>> /\ todo[2] = <<"value", vars[a]>>
        BY <4>1, <4>2
      <4>4. \A i \in 1..2 : i = 1 \/ i = 2 OBVIOUS
      <4>5. "value" \notin Walks /\ "value" # "subst" BY DEF Walks
      <4> HIDE DEF todo
      <4> QED BY <1>5, <1>6, <3>1, <4>3, <4>4, <4>5 DEF TodoOK, ValueOK
    <3>3. BuildFrom(todo, OwnCell(vars[b])) BY <1>b, <2>4 DEF Lput
    <3> HIDE DEF todo
    <3> QED BY <1>2, <1>5, <2>1, <3>2, <3>3, BuildFromKeeps
  <2> QED BY <2>2, <2>3, <2>4
<1>c. CASE Fput(t, a, b)
  <2>1. OpOK' BY <1>c, Begun DEF Fput
  <2>2. ASSUME NEW h3, NEW cells, CellsOK(cells, h3), Settled(h3), Keeps(h, h3),
               NEW head \in Nat, Shared(h3, head),
               Give(t, <<"list", Len(cells) + 1>>,
                    Append(cells, [ValueToNode(vars[a]) EXCEPT !.next = head]))
        PROVE  HeapInv'
    <3> DEFINE node == ValueToNode(vars[a])
               cell == [node EXCEPT !.next = head]
               h4   == Folded(h3, Len(cells) + 1, 0)
               v    == <<"list", Len(cells) + 1>>
    <3>1. ValueOK(vars[a], h3) BY <1>4, <2>2, ValueKept
    <3>2. node \in Node /\ Shared(h3, node.sub)
      <4>1. vars[a] \in Value /\ (IsListVal(vars[a]) => Shared(h3, vars[a][2]))
        BY <3>1 DEF ValueOK
      <4> QED BY <4>1, NodeOfValue DEF Shared
    <3>3. cell \in Node /\ Shared(h3, cell.next) /\ Shared(h3, cell.sub)
      BY <2>2, <3>2 DEF Node
    <3> HIDE DEF cell
    <3>4. CellsOK(Append(cells, cell), h4) /\ Settled(h4) /\ Keeps(h3, h4)
          /\ AtHome(h4, Len(cells) + 1, 0)
      BY <2>2, <3>3, CellAdded
    <3>5. Keeps(h, h4) BY <2>2, <3>4 DEF Keeps, AtHome
    <3>6. Len(cells) + 1 \in Nat BY <2>2 DEF CellsOK
    <3>7. ValueOK(v, h4) /\ ~IsArray(v)
      BY <3>4, <3>6, WordsAndLists DEF Shared
    <3>8. Give(t, v, Append(cells, cell)) BY <2>2 DEF cell
    <3> HIDE DEF h4, v
    <3> QED BY <1>1, <1>2, <2>1, <3>4, <3>5, <3>7, <3>8, GivePlainKeeps
  <2>3. CASE IsListVal(vars[b])
    <3>1. \/ GiveUp(t, pool)
          \/ Give(t, <<"list", Len(pool) + 1>>,
                  Append(pool, [ValueToNode(vars[a]) EXCEPT !.next = vars[b][2]]))
      BY <1>c, <2>3 DEF Fput
    <3>2. CASE GiveUp(t, pool)
      BY <1>1, <1>2, <1>3, <2>1, <3>2, GiveUpKeeps
    <3> QED BY <1>2, <1>3, <1>4, <2>2, <2>3, <3>1, <3>2
  <2>4. CASE ~IsListVal(vars[b])
    <3> DEFINE cells == OwnCell(vars[b])
    <3>1. \/ GiveUp(t, pool)
          \/ GiveUp(t, cells)
          \/ Give(t, <<"list", Len(cells) + 1>>,
                  Append(cells, [ValueToNode(vars[a]) EXCEPT !.next = Len(cells)]))
      BY <1>c, <2>4 DEF Fput
    <3>2. /\ CellsOK(cells, h2) /\ Len(cells) \in Nat /\ Shared(h2, Len(cells))
          /\ Keeps(h, h2) /\ Settled(h2)
      BY <1>3, <1>5 DEF Shared
    <3> HIDE DEF cells
    <3>3. CASE GiveUp(t, pool)
      BY <1>1, <1>2, <1>3, <2>1, <3>3, GiveUpKeeps
    <3>4. CASE GiveUp(t, cells)
      BY <1>1, <1>2, <2>1, <3>2, <3>4, GiveUpKeeps
    <3> QED BY <2>2, <3>1, <3>2, <3>3, <3>4
  <2> QED BY <2>3, <2>4
<1> QED BY <1>a, <1>b, <1>c

\* ARRAY: the new cells are those of no other array.
LEMMA ArrayKeeps ==
  ASSUME LiteralsTyped, HeapInv, NEW t \in Vars, NEW size \in Sizes, Array(t, size)
  PROVE  HeapInv'
<1>1. frames = <<>> BY DEF Array, Begin, Idle
<1>2. PICK h : CellsOK(pool, h) /\ VarsOK(vars, h) /\ Settled(h) BY <1>1, IdleHomes
<1>3. /\ Keeps(h, h) /\ Len(pool) \in Nat /\ h \in [1..Len(pool) -> Int] /\ OpOK'
      /\ size \in Int
  BY <1>2, KeepsSelf, Begun, SizesAssumption DEF CellsOK, Array
<1> DEFINE node == ValueToNode(<<"list", 0>>)
           room == MaxNodes - Len(pool)
           s    == IF size < room THEN size ELSE room
           more == [i \in 1..s |-> node]
           v    == <<"array", Len(pool) + 1, size>>
<1>4. room \in Int /\ s \in Int /\ (size <= room => s = size) BY <1>3, NodesAssumption
<1>5. node \in Node /\ node.next = 0 /\ node.sub = 0
  <2>1. <<"list", 0>> \in Value /\ IsListVal(<<"list", 0>>) BY DEF Value, IsListVal
  <2> QED BY <2>1, NodeOfValue
<1>6. \/ Give(t, EmptyWord, pool)
      \/ GiveUp(t, pool \o more)
      \/ size >= 1 /\ s = size /\ Give(t, v, pool \o more)
  BY <1>3, <1>4 DEF Array
<1> HIDE DEF node, s, room
<1>7. /\ more \in Seq(Node) /\ Len(more) = IF s > 0 THEN s ELSE 0
      /\ \A i \in 1..Len(more) : more[i].next = 0 /\ more[i].sub = 0
  <2>1. CASE s > 0
    <3>1. s \in Nat BY <1>4, <2>1
    <3>2. more \in Seq(Node) /\ Len(more) = s BY <1>5, <3>1
    <3> QED BY <1>5, <2>1, <3>2
  <2>2. CASE ~(s > 0)
    <3>1. 1..s = {} BY <1>4, <2>2
    <3>2. more = <<>> BY <3>1
    <3> HIDE DEF more
    <3> QED BY <2>2, <3>2
  <2> QED BY <2>1, <2>2
<1> HIDE DEF more
<1>8. PICK h2 : /\ CellsOK(pool \o more, h2) /\ Keeps(h, h2) /\ Settled(h2)
                /\ \A c \in (Len(pool) + 1)..(Len(pool) + Len(more)) :
                     AtHome(h2, c, -(Len(pool) + 1))
  BY <1>2, <1>7, ArrayAdded
<1>a. CASE Give(t, EmptyWord, pool)
  BY <1>1, <1>2, <1>3, <1>a, WordsAndLists, GivePlainKeeps
<1>b. CASE GiveUp(t, pool \o more)
  BY <1>1, <1>2, <1>3, <1>8, <1>b, GiveUpKeeps
<1>c. CASE size >= 1 /\ s = size /\ Give(t, v, pool \o more)
  <2>1. size \in Nat /\ size > 0 /\ Len(more) = size /\ Len(pool) + 1 \in Nat /\ Len(pool) + 1 > 0
    BY <1>3, <1>7, <1>c
  <2>2. IsArray(v) /\ ~IsListVal(v) /\ v \in Value /\ v[2] = Len(pool) + 1 /\ v[3] = size
    BY <2>1 DEF Value, IsArray, IsListVal
  <2> HIDE DEF v
  <2>3. ValueOK(v, h2)
    <3>1. ArrayCells(v) = (Len(pool) + 1)..(Len(pool) + Len(more))
      BY <2>1, <2>2, <1>3 DEF ArrayCells
    <3> QED BY <1>8, <2>1, <2>2, <3>1 DEF ValueOK
  <2>4. ASSUME NEW w \in Vars, IsArray(vars[w]) PROVE vars[w][2] # Len(pool) + 1
    <3>1. vars[w] \in Value /\ ValueOK(vars[w], h) BY <1>2 DEF VarsOK
    <3>2. vars[w][2] \in Nat /\ vars[w][3] \in Nat BY <2>4, <3>1 DEF Value, IsArray
    <3>3. vars[w][2] \in ArrayCells(vars[w]) BY <2>4, <3>1, <3>2 DEF ValueOK, ArrayCells
    <3>4. vars[w][2] \in DOMAIN h BY <2>4, <3>1, <3>3 DEF ValueOK, AtHome
    <3> QED BY <1>3, <3>4
  <2>5. \A w \in Vars : SameArray(v, vars[w]) /\ SameArray(vars[w], v)
    BY <2>2, <2>4 DEF SameArray
  <2> QED BY <1>1, <1>2, <1>3, <1>8, <1>c, <2>3, <2>5, GiveKeeps
<1> QED BY <1>6, <1>a, <1>b, <1>c

\* SETITEM and FILLARRAY.
LEMMA StoreKeeps ==
  ASSUME LiteralsTyped, HeapInv, NEW a \in Vars, NEW x \in Vars, NEW name, name # "subst",
         NEW indices, StoreAt(name, a, indices, x)
  PROVE  HeapInv'
<1>1. frames = <<>> BY DEF StoreAt, Begin, Idle
<1>2. PICK h : CellsOK(pool, h) /\ VarsOK(vars, h) /\ Settled(h) BY <1>1, IdleHomes
<1>3. OpOK' /\ vars' = vars /\ frames' = <<>> BY <1>1, Begun DEF StoreAt
<1>4. \A c \in Hits(vars[a], indices) : ~AtHome(h, c, 0)
  <2> SUFFICES ASSUME IsArray(vars[a]), NEW i \in indices \cap (1..vars[a][3])
               PROVE  ~AtHome(h, vars[a][2] + i - 1, 0)
    BY DEF Hits
  <2>1. vars[a] \in Value /\ ValueOK(vars[a], h) BY <1>2 DEF VarsOK
  <2>2. vars[a][2] \in Nat /\ vars[a][3] \in Nat BY <2>1 DEF Value, IsArray
  <2>3. vars[a][2] + i - 1 \in ArrayCells(vars[a]) BY <2>2 DEF ArrayCells
  <2>4. AtHome(h, vars[a][2] + i - 1, -vars[a][2]) /\ vars[a][2] > 0
    BY <2>1, <2>3 DEF ValueOK
  <2> QED BY <2>2, <2>4 DEF AtHome
<1>5. CellsOK(pool', h)
  <2>1. CASE IsArray(vars[x]) BY <1>2, <2>1 DEF StoreAt
  <2>2. CASE ~IsArray(vars[x])
    <3>1. ValueOK(vars[x], h) BY <1>2 DEF VarsOK
    <3> QED BY <1>2, <1>4, <2>2, <3>1, CellsStored DEF StoreAt
  <2> QED BY <2>1, <2>2
<1>6. FramesOK(frames', h, op'.name) BY <1>2, <1>3 DEF FramesOK, Settled
<1> QED BY <1>2, <1>3, <1>5, <1>6 DEF HeapInv

(***************************************************************************)
(* The invariant.                                                          *)
(***************************************************************************)
LEMMA HeapInit ==
  ASSUME LiteralsTyped, Init
  PROVE  HeapInv
<1> DEFINE h == [c \in 1..Len(pool) |-> 0]
<1>1. pool = <<>> /\ Len(pool) = 0 /\ frames = <<>> BY DEF Init
<1>2. \A some \in SUBSET (1..0) : some = {} OBVIOUS
<1>3. CellsOK(pool, h)
  <2>1. Acyclic(pool) BY <1>1, <1>2 DEF Acyclic
  <2>2. pool \in Seq(Node) /\ h \in [1..Len(pool) -> Int] /\ \A c \in 1..Len(pool) : FALSE
    BY <1>1
  <2> HIDE DEF h
  <2> QED BY <2>1, <2>2 DEF CellsOK
<1>4. VarsOK(vars, h)
  <2>1. ValueOK(EmptyWord, h) /\ EmptyWord \in Value /\ ~IsArray(EmptyWord) BY WordsAndLists
  <2>2. vars = [v \in Vars |-> EmptyWord] BY DEF Init
  <2> HIDE DEF h
  <2> QED BY <2>1, <2>2 DEF VarsOK, SameArray
<1>5. FramesOK(frames, h, op.name)
  <2>1. \A c \in DOMAIN h : FALSE BY <1>1
  <2> HIDE DEF h
  <2> QED BY <1>1, <2>1 DEF FramesOK
<1>6. OpOK BY DEF Init, OpOK, LiteralsTyped
<1> QED BY <1>3, <1>4, <1>5, <1>6 DEF HeapInv

\* Every step keeps the homes.
LEMMA HeapNext ==
  ASSUME LiteralsTyped, HeapInv, [Next]_listVars
  PROVE  HeapInv'
<1>1. CASE Build BY <1>1, BuildKeeps
<1>2. CASE Close BY <1>2, CloseKeeps
<1>3. CASE Command
  <2>1. PICK t \in Vars, a \in Vars, b \in Vars :
          \/ \E l \in Literals : BuildLiteral(t, l)
          \/ \E w \in Atoms : AssignWord(t, w)
          \/ \E n \in Sizes : Array(t, n) \/ SetItem(t, n, a) \/ Item(t, n, a)
          \/ Assign(t, a) \/ First(t, a) \/ ButFirst(t, a) \/ ButLast(t, a) \/ Flatten(t, a)
          \/ Fput(t, a, b) \/ Lput(t, a, b) \/ Sentence(t, a, b) \/ WrapPair(t, a, b)
          \/ FillArray(t, a)
          \/ \E c \in Vars : Subst(t, a, b, c)
    BY <1>3 DEF Command
  <2>2. CASE \E n \in Sizes : Array(t, n) BY <2>2, ArrayKeeps
  <2>3. CASE \E n \in Sizes : SetItem(t, n, a)
    <3>1. PICK n \in Sizes : SetItem(t, n, a) BY <2>3
    <3>2. "setitem" # "subst" OBVIOUS
    <3> QED BY <3>1, <3>2, StoreKeeps DEF SetItem
  <2>4. CASE FillArray(t, a)
    <3>1. "fillarray" # "subst" OBVIOUS
    <3> QED BY <2>4, <3>1, StoreKeeps DEF FillArray
  <2>5. CASE Flatten(t, a) \/ Fput(t, a, b) \/ Lput(t, a, b) BY <2>5, GrowingCommands
  <2> QED BY <2>1, <2>2, <2>3, <2>4, <2>5, PlainCommands
<1>4. CASE UNCHANGED listVars
  BY <1>4 DEF listVars, HeapInv, OpOK
<1> QED BY <1>1, <1>2, <1>3, <1>4 DEF Next

\* Every cell has a home, for every size of the pool: shared cells lead to
\* shared ones only, what is being linked belongs to one chain, and no two
\* arrays have a cell in common.
THEOREM HeapInvariant ==
  ASSUME LiteralsTyped
  PROVE  Spec => []HeapInv
<1>1. Init => HeapInv BY HeapInit
<1>2. HeapInv /\ [Next]_listVars => HeapInv' BY HeapNext
<1> QED BY <1>1, <1>2, PTL DEF Spec

\* The pool has no cycle at any moment, in the middle of a construction or
\* after one that the pool was too small for: the loops over node->next and
\* the recursions over sublist_head (eval.c) come to an end.
THEOREM PoolIsAcyclic ==
  ASSUME LiteralsTyped
  PROVE  Spec => []ListsAcyclic
<1>1. HeapInv => ListsAcyclic BY DEF HeapInv, CellsOK, ListsAcyclic
<1> QED BY <1>1, HeapInvariant, PTL

=============================================================================
