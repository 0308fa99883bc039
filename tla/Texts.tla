------------------------------- MODULE Texts --------------------------------
(***************************************************************************)
(* How values are written and read, and the operations on lists and words  *)
(* (src/eval.c).  PrintedText, ReadsAsNumber, NumberRead, ListOperation and *)
(* LiteralRead are what the constants ValueText, IsNumeral, NumeralValue,  *)
(* ListBuiltin and LiteralFromText of the other modules stand for.         *)
(***************************************************************************)
EXTENDS Parser, Values, SequencesExt

(***************************************************************************)
(* Text.                                                                   *)
(***************************************************************************)
RECURSIVE Joined(_)
Joined(texts) == CASE texts = <<>>    -> ""
                   [] Len(texts) = 1 -> texts[1]
                   [] OTHER          -> Head(texts) \o " " \o Joined(Tail(texts))

RECURSIVE PrintedText(_)
ElementText(v) == IF IsList(v) THEN "[" \o PrintedText(v) \o "]" ELSE PrintedText(v)
PrintedText(v) == CASE IsNum(v)  -> ToString(v[2])
                    [] IsList(v) -> Joined([i \in 1..Len(v[2]) |-> ElementText(v[2][i])])
                    [] OTHER     -> v[2]

\* strtod on an integer: where the numeral that starts the word ends.
NumeralEnd(t) == SkipOver(t, IF At(t, 1) \in {"-", "+"} THEN 2 ELSE 1, Digits)
NumberRead(t) == LET digits == SubSeq(t, IF At(t, 1) \in {"-", "+"} THEN 2 ELSE 1,
                                      NumeralEnd(t) - 1)
                 IN  IF At(t, 1) = "-" THEN -NumberOf(digits) ELSE NumberOf(digits)
ReadsAsNumber(t) == t # "" /\ t \notin {"-", "+"} /\ NumeralEnd(t) > Len(t)

\* A value as source text, for a template it is substituted into.
SourceText(v) == CASE IsList(v) -> "[" \o ValueText(v) \o "]"
                   [] IsWordVal(v) /\ ~IsNumeral(v[2]) -> "'" \o v[2] \o "'"
                   [] OTHER -> ValueText(v)

\* The whitespace-delimited words of a text.
RECURSIVE WordsFrom(_, _)
WordsFrom(t, i) == LET j == SkipOver(t, i, Space)
                       k == SkipTo(t, j, Space \union {""})
                   IN  IF At(t, j) = "" THEN <<>> ELSE <<SubSeq(t, j, k - 1)>> \o WordsFrom(t, k)
Substitute(template, placeholder, text) ==
  LET words == WordsFrom(template, 1)
  IN  Joined([i \in 1..Len(words) |-> IF words[i] = placeholder THEN text ELSE words[i]])

(***************************************************************************)
(* List and word operations: [v, msg], msg the message printed, if any.    *)
(***************************************************************************)
Plain(v) == [v |-> v, msg |-> ""]
Refused(msg) == [v |-> EmptyWord, msg |-> msg]
OutOfRange == Refused("ITEM: index out of range")

IsEmpty(v) == ~IsNum(v) /\ Len(v[2]) = 0
FirstOf(v) == CASE IsNum(v)      -> v
                [] IsEmpty(v)    -> EmptyWord
                [] IsList(v)     -> Head(v[2])
                [] OTHER         -> WordVal(At(v[2], 1))
LastOf(v) == CASE IsNum(v)      -> v
               [] IsEmpty(v)    -> EmptyWord
               [] IsList(v)     -> v[2][Len(v[2])]
               [] OTHER         -> WordVal(At(v[2], Len(v[2])))
ButFirst(v) == CASE IsNum(v)  -> EmptyList
                 [] IsList(v) -> ListVal(SubSeq(v[2], 2, Len(v[2])))
                 [] OTHER     -> WordVal(SubSeq(v[2], 2, Len(v[2])))
ButLast(v) == CASE IsNum(v)  -> EmptyList
                [] IsList(v) -> ListVal(SubSeq(v[2], 1, Len(v[2]) - 1))
                [] OTHER     -> WordVal(SubSeq(v[2], 1, Len(v[2]) - 1))

Fput(x, v) == CASE IsWordVal(v) /\ IsList(x) -> Refused("FPUT: can't add a list to a word")
                [] IsWordVal(v) -> Plain(WordVal(ValueText(x) \o v[2]))
                [] OTHER        -> Plain(ListVal(<<x>> \o Elements(v)))
Lput(x, v) == CASE IsWordVal(v) /\ IsList(x) -> Refused("LPUT: can't add a list to a word")
                [] IsWordVal(v) -> Plain(WordVal(v[2] \o ValueText(x)))
                [] OTHER        -> Plain(ListVal(Elements(v) \o <<x>>))
SentenceOf(a, b) == ListVal(Elements(a) \o Elements(b))
WordOf(a, b) == IF IsList(a) \/ IsList(b) THEN Refused("WORD: expected words, not a list")
                ELSE Plain(WordVal(ValueText(a) \o ValueText(b)))
CountOf(v) == IF IsNum(v) THEN 1 ELSE Len(v[2])

Item(i, v) == CASE IsNum(v) -> IF ToNumber(i) = 1 THEN Plain(v) ELSE OutOfRange
                [] ToNumber(i) \notin 1..Len(v[2]) -> OutOfRange
                [] IsList(v) -> Plain(v[2][ToNumber(i)])
                [] OTHER     -> Plain(WordVal(At(v[2], ToNumber(i))))
IsMember(x, v) ==
  CASE IsList(v)    -> \E i \in 1..Len(v[2]) : ValuesEqual(x, v[2][i])
    [] IsWordVal(v) -> LET t == ValueText(x)
                       IN  \E i \in 1..(Len(v[2]) - Len(t) + 1) : SubSeq(v[2], i, i + Len(t) - 1) = t
    [] OTHER        -> ValuesEqual(x, v)
RangeOf(from, to) == LET d == IF from <= to THEN 1 ELSE -1
                     IN  ListVal([i \in 1..((to - from) * d + 1) |-> Num(from + d * (i - 1))])

RECURSIVE Flat(_)
Flat(elements) == FlattenSeq([i \in 1..Len(elements) |->
                    IF IsList(elements[i]) THEN Flat(elements[i][2]) ELSE <<elements[i]>>])
FlattenOf(v) == ListVal(Flat(Elements(v)))
ParseOf(v) == LET words == WordsFrom(ValueText(v), 1)
              IN  ListVal([i \in 1..Len(words) |-> WordVal(words[i])])
RECURSIVE Subst(_, _, _)
Subst(old, new, v) ==
  CASE ValuesEqual(v, old) -> new
    [] IsList(v)           -> ListVal([i \in 1..Len(v[2]) |-> Subst(old, new, v[2][i])])
    [] OTHER               -> v
SubstOf(old, new, v) ==    \* a list itself is rebuilt, never replaced
  IF IsList(v) THEN ListVal([i \in 1..Len(v[2]) |-> Subst(old, new, v[2][i])])
  ELSE Subst(old, new, v)

\* call_builtin's list and word operations.
ListOperation(name, a) ==
  CASE name = "FIRST"    -> Plain(FirstOf(a[1]))
    [] name = "BUTFIRST" -> Plain(ButFirst(a[1]))
    [] name = "LAST"     -> Plain(LastOf(a[1]))
    [] name = "BUTLAST"  -> Plain(ButLast(a[1]))
    [] name = "COUNT"    -> Plain(Num(CountOf(a[1])))
    [] name = "EMPTY?"   -> Plain(TrueFalse(IsEmpty(a[1])))
    [] name = "WORD?"    -> Plain(TrueFalse(IsWordVal(a[1])))
    [] name = "LIST?"    -> Plain(TrueFalse(IsList(a[1])))
    [] name = "NUMBER?"  -> Plain(TrueFalse(IsNum(a[1])))
    [] name = "FLATTEN"  -> Plain(FlattenOf(a[1]))
    [] name = "PARSE"    -> Plain(ParseOf(a[1]))
    [] name = "FPUT"     -> Fput(a[1], a[2])
    [] name = "LPUT"     -> Lput(a[1], a[2])
    [] name = "WORD"     -> WordOf(a[1], a[2])
    [] name \in {"SENTENCE", "SE"} -> Plain(SentenceOf(a[1], a[2]))
    [] name = "LIST"     -> Plain(ListVal(<<a[1], a[2]>>))
    [] name = "ITEM"     -> Item(a[1], a[2])
    [] name = "MEMBER?"  -> Plain(TrueFalse(IsMember(a[1], a[2])))
    [] name = "SUBST"    -> Plain(SubstOf(a[1], a[2], a[3]))
    [] name = "RANGE"    -> Plain(RangeOf(ToNumber(a[1]), ToNumber(a[2])))
    [] OTHER             -> Plain(Num(ToNumber(a[1])))          \* INT

(***************************************************************************)
(* A list literal: words with their spelling, and nested lists.            *)
(***************************************************************************)
RECURSIVE LiteralValue(_)
LiteralValue(items) ==
  ListVal([i \in 1..Len(items) |-> IF items[i].type = "list" THEN LiteralValue(items[i].items)
                                   ELSE WordVal(items[i].text)])
\* From its source text, as the virtual machine keeps it.
LiteralOf(r) == IF r = <<>> THEN EmptyList ELSE LiteralValue(r[1].node.items)
LiteralRead(text) == LiteralOf(ReadLiteral(text))
=============================================================================
