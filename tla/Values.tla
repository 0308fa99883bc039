------------------------------- MODULE Values -------------------------------
(***************************************************************************)
(* Values and the operations on them that eval.c shares between the two    *)
(* engines.  A value is a pair of its type and its payload:                *)
(*   <<"num", n>>   <<"word", text>>   <<"list", elements>>                *)
(* with integers for numbers (programs here divide without remainder) and  *)
(* the sequence of its elements for a list: list nodes are never changed   *)
(* once built, which Lists.tla checks on the node pool itself.             *)
(*                                                                         *)
(* How a value is written and how a word is read as a number are           *)
(* parameters here; Texts.tla has the definitions of both.                 *)
(***************************************************************************)
EXTENDS Integers, Sequences

CONSTANTS ValueText(_),      \* eval_value_to_text
          IsNumeral(_),      \* eval_word_is_entirely_a_number
          NumeralValue(_)    \* strtod

Num(n) == <<"num", n>>
WordVal(t) == <<"word", t>>
ListVal(elements) == <<"list", elements>>
Bool(b) == Num(IF b THEN 1 ELSE 0)
TrueFalse(b) == WordVal(IF b THEN "TRUE" ELSE "FALSE")
IsNum(v) == v[1] = "num"
IsWordVal(v) == v[1] = "word"
IsList(v) == v[1] = "list"
EmptyWord == WordVal("")
EmptyList == ListVal(<<>>)

ToNumber(v) == CASE IsNum(v)     -> v[2]
                 [] IsWordVal(v) -> NumeralValue(v[2])
                 [] OTHER        -> 0

IsTruthy(v) == CASE IsNum(v)  -> v[2] # 0
                 [] IsList(v) -> v[2] # <<>>
                 [] OTHER     -> v[2] \notin {"", "FALSE"}

ValuesEqual(a, b) == IF IsNum(a) /\ IsNum(b) THEN a[2] = b[2] ELSE ValueText(a) = ValueText(b)

Arithmetic(op, l, r) == CASE op = "+" -> l + r [] op = "-" -> l - r [] op = "*" -> l * r
                          [] OTHER    -> IF r = 0 THEN 0 ELSE l \div r
Compare(op, a, b) ==
  IF ~IsNum(a) \/ ~IsNum(b)
  THEN \/ op = "=" /\ ValuesEqual(a, b)
       \/ op = "<>" /\ ~ValuesEqual(a, b)
  ELSE CASE op = "<" -> a[2] < b[2] [] op = ">" -> a[2] > b[2] [] op = "=" -> a[2] = b[2]
         [] op = "<=" -> a[2] <= b[2] [] op = ">=" -> a[2] >= b[2] [] OTHER -> a[2] # b[2]

\* The elements an operation walks: a value that is no list counts as one.
Elements(v) == IF IsList(v) THEN v[2] ELSE <<v>>
=============================================================================
