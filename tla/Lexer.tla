------------------------------- MODULE Lexer -------------------------------
(***************************************************************************)
(* The tokenizer (src/lexer.c).  Source text is a string, read one         *)
(* character at a time; a token is a record                                *)
(*   [k |-> kind, text |-> its text without its sigil,                     *)
(*    at |-> where the text starts, end |-> the position after the token]  *)
(* The kind of a punctuation token is its spelling ("[", "<=", "-", ...).  *)
(***************************************************************************)
EXTENDS Naturals, Sequences

Space == {" ", "\n", "\t"}
Digits == {"0", "1", "2", "3", "4", "5", "6", "7", "8", "9"}
Letters == {"a", "b", "c", "d", "e", "f", "g", "h", "i", "j", "k", "l", "m",
            "n", "o", "p", "q", "r", "s", "t", "u", "v", "w", "x", "y", "z",
            "A", "B", "C", "D", "E", "F", "G", "H", "I", "J", "K", "L", "M",
            "N", "O", "P", "Q", "R", "S", "T", "U", "V", "W", "X", "Y", "Z"}
Punctuation == {"[", "]", "(", ")", "+", "*", "/", "-", "="}
Operators == {"<=", ">=", "<>", "<", ">"}

\* The character at position i, "" at the end of the text (C's '\0').
At(s, i) == IF i \in 1..Len(s) THEN SubSeq(s, i, i) ELSE ""

NameChars == Letters \union Digits \union {"_"}
BarewordEnd == Space \union {"", "[", "]"}   \* !is_bareword_char

\* The first position from i on with a character outside C, or inside Stop.
RECURSIVE SkipOver(_, _, _)
SkipOver(s, i, C) == IF At(s, i) \in C THEN SkipOver(s, i + 1, C) ELSE i
RECURSIVE SkipTo(_, _, _)
SkipTo(s, i, Stop) == IF At(s, i) \in Stop THEN i ELSE SkipTo(s, i + 1, Stop)

\* Whitespace, and comments from ";" to the end of their line.
RECURSIVE SkipInsignificant(_, _)
SkipInsignificant(s, i) ==
  LET j == SkipOver(s, i, Space)
  IN  IF At(s, j) = ";"
      THEN SkipInsignificant(s, SkipTo(s, j, {"", "\n"}))
      ELSE j

\* A number is digits with at most one dot in them.
NumberEnd(s, i) ==
  LET j == SkipOver(s, i, Digits)
  IN  IF At(s, j) = "." THEN SkipOver(s, j + 1, Digits) ELSE j

Token(k, s, from, to, end) ==
  [k |-> k, text |-> SubSeq(s, from, to - 1), at |-> from, end |-> end]

\* The token that starts at position i, where the text neither ends nor is blank.
TokenAt(s, i) ==
  LET c    == At(s, i)
      two  == c \o At(s, i + 1)
      word == SkipTo(s, i + 1, BarewordEnd)
      name == SkipOver(s, i + 1, NameChars)
      raw  == SkipTo(s, i + 1, {"", "'"})
  IN  CASE c \in Punctuation -> Token(c, s, i, i + 1, i + 1)
        [] two \in Operators /\ Len(two) = 2 -> Token(two, s, i, i + 2, i + 2)
        [] c \in Operators -> Token(c, s, i, i + 1, i + 1)
        [] c = "\"" -> Token("quoted", s, i + 1, word, word)
        [] c = "'" -> IF At(s, raw) = "'" THEN Token("raw", s, i + 1, raw, raw + 1)
                                          ELSE Token("error", s, i + 1, raw, raw)
        [] c = ":" -> Token("varref", s, i + 1, name, name)
        [] c \in Digits \/ (c = "." /\ At(s, i + 1) \in Digits) ->
             LET e == NumberEnd(s, i) IN Token("number", s, i, e, e)
        [] OTHER -> Token("bareword", s, i, word, word)

RECURSIVE TokensFrom(_, _)
TokensFrom(s, i) ==
  LET j == SkipInsignificant(s, i)
  IN  IF At(s, j) = "" THEN <<Token("eof", s, j, j, j)>>
      ELSE LET t == TokenAt(s, j)
           IN  IF t.k = "error" THEN <<t>> ELSE <<t>> \o TokensFrom(s, t.end)

\* logo_lex: the tokens of s, the last of them "eof" or "error"; the empty
\* sequence stands for its -1, more than max tokens.
Lex(s, max) == LET toks == TokensFrom(s, 1)
               IN  IF Len(toks) > max THEN <<>> ELSE toks
=============================================================================
