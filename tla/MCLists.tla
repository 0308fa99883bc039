------------------------------ MODULE MCLists ------------------------------
(***************************************************************************)
(* Lists against what the operations mean: each operation as an operation  *)
(* on the trees of its inputs.                                             *)
(***************************************************************************)
EXTENDS ListValues
Seqs == INSTANCE SequencesExt

SomeLiterals == {<<>>, <<<<"word", "q">>, <<"list", <<<<"word", "p">>>>>>>>}

(***************************************************************************)
(* The meaning of an operation.                                            *)
(***************************************************************************)
Elem(t) == IF IsArray(t) THEN EmptyWord ELSE t
Elems(t) == IF IsListVal(t) THEN t[2] ELSE <<Elem(t)>>
RECURSIVE Text(_), Atomised(_), Replaced(_, _, _)
Text(t) ==
  IF ~IsListVal(t) THEN t[2]
  ELSE Seqs!FoldLeftDomain(LAMBDA text, i :
         text \o (IF i = 1 THEN "" ELSE " ")
              \o (IF IsListVal(t[2][i]) THEN "[" \o Text(t[2][i]) \o "]" ELSE Text(t[2][i])), "", t[2])
Atomised(s) ==
  Seqs!FlattenSeq([i \in DOMAIN s |-> IF IsListVal(s[i]) THEN Atomised(s[i][2]) ELSE <<s[i]>>])
Replaced(s, old, new) ==
  [i \in DOMAIN s |-> CASE Text(s[i]) = Text(old) -> Elem(new)
                        [] IsListVal(s[i]) -> <<"list", Replaced(s[i][2], old, new)>>
                        [] OTHER -> s[i]]

Meaning ==
  LET v(i) == before[op.args[i]]
      list(s) == <<"list", s>>
  IN  CASE op.name = "literal"  -> list(op.args[1])
        [] op.name = "assign"   -> v(1)
        [] op.name = "word"     -> <<"word", op.args[1]>>
        [] op.name = "first"    -> IF v(1)[2] = <<>> THEN EmptyWord ELSE Head(v(1)[2])
        [] op.name = "butfirst" -> list(IF v(1)[2] = <<>> THEN <<>> ELSE Tail(v(1)[2]))
        [] op.name = "butlast"  -> list(IF v(1)[2] = <<>> THEN <<>> ELSE Seqs!Front(v(1)[2]))
        [] op.name = "fput"     -> list(<<Elem(v(1))>> \o Elems(v(2)))
        [] op.name = "lput"     -> list(Append(Elems(v(2)), Elem(v(1))))
        [] op.name = "sentence" -> list(Elems(v(1)) \o Elems(v(2)))
        [] op.name = "list"     -> list(<<Elem(v(1)), Elem(v(2))>>)
        [] op.name = "flatten"  -> list(Atomised(Elems(v(1))))
        [] op.name = "subst"    -> list(Replaced(v(3)[2], v(1), v(2)))
        [] op.name = "array"    -> IF op.args[1] < 1 THEN EmptyWord
                                   ELSE <<"array", [i \in 1..op.args[1] |-> list(<<>>)]>>
        [] op.name = "item"     -> IF op.args[1] \in DOMAIN v(2)[2] THEN v(2)[2][op.args[1]]
                                   ELSE EmptyWord
        [] OTHER ->   \* SETITEM and FILLARRAY
             IF IsArray(v(1)) /\ ~IsArray(v(3))
             THEN <<"array", [i \in DOMAIN v(1)[2] |-> IF i \in op.args[2] THEN v(3) ELSE v(1)[2][i]]>>
             ELSE v(1)

(***************************************************************************)
(* Properties.                                                             *)
(***************************************************************************)
\* A list operation returns what it means, whatever cells its inputs share,
\* or "" when the pool is full (eval_list_build_* and their callers, eval.c).
\* A literal that ends in a literal is cut short instead (eval.c:3024).
CutShort == /\ op.name = "literal"
            /\ LET l == op.args[1] IN l # <<>> /\ l[Len(l)][1] = "list"
ResultsAgree ==
  Idle => IF full THEN vars[op.target] = EmptyWord \/ CutShort
          ELSE Tree(pool, vars[op.target]) = Meaning
=============================================================================
