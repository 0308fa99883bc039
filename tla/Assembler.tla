----------------------------- MODULE Assembler -----------------------------
(***************************************************************************)
(* Chunks as text (src/bytecode.c): the disassembler's listing, and the    *)
(* assembler that reads it in two passes.  A listing is a sequence of      *)
(* lines.  Left out: the counts in the first comment, the padding of the   *)
(* address column and the procedures' source texts, which are copied line  *)
(* by line.  Opcode names carry their OP_ only here.                       *)
(***************************************************************************)
EXTENDS Compiler

Named     == {"PUSH_VAR", "SET_VAR", "CHECK_OUTPUT", "LOCAL", "ERASE", "LOAD"}
Depths    == {"PEEK", "POKE"}
Plain     == {"POP", "ADD", "SUB", "MUL", "DIV", "NEG", "CMP_LT", "CMP_GT", "CMP_EQ", "CMP_LE",
              "CMP_GE", "CMP_NE", "NOT", "AND", "OR", "OUTPUT", "STOP", "HALT", "VOID_RESULT",
              "SEND", "CHECK_SEND_OUTPUT", "APPLY", "VOID_DISCARD", "RUN", "EXECTIME",
              "CATCH_CHECK", "CHECK_UNCAUGHT_THROW", "REPCOUNT_PUSH", "REPCOUNT_INCR",
              "REPCOUNT_POP", "WAIT", "WAITKEY", "INPUT", "PAUSE", "ANIMATESPRITE", "LAUNCH",
              "AWAIT", "YIELD", "MOTION_DELAY"}
OpCodes == Named \union Jumps \union Depths \union Templates \union Plain
             \union {"PUSH_NUMBER", "PUSH_WORD", "PUSH_LIST_LITERAL", "CALL_BUILTIN", "CALL_PROC"}

(***************************************************************************)
(* bytecode_disassemble.                                                   *)
(***************************************************************************)
\* The number %g writes: six significant digits, a tie to the even one.
RECURSIVE SixDigits(_)
SixDigits(n) ==
  IF n < 0 THEN -SixDigits(-n)
  ELSE IF n < 1000000 THEN n
  ELSE LET scale[k \in Nat] == IF n \div 10 ^ k < 1000000 THEN 10 ^ k ELSE scale[k + 1]
           unit == scale[1]
           down == n \div unit
           rest == 2 * (n % unit)
       IN  unit * (IF rest > unit \/ (rest = unit /\ down % 2 = 1) THEN down + 1 ELSE down)

RECURSIVE Joined(_, _)
Joined(words, between) ==
  IF words = <<>> THEN ""
  ELSE Head(words) \o (IF Len(words) = 1 THEN "" ELSE between \o Joined(Tail(words), between))

Operands(i) ==
  CASE i.op = "PUSH_NUMBER" -> " " \o ToString(SixDigits(i.num))
    [] i.op = "PUSH_WORD" -> " \"" \o i.text \o "\""
    [] i.op \in Named \union {"PUSH_LIST_LITERAL"} -> " " \o i.text
    [] i.op \in Jumps -> " @" \o ToString(i.a)
    [] i.op \in Depths -> " depth=" \o ToString(i.a)
    [] i.op = "CALL_BUILTIN" -> " " \o i.text \o " argc=" \o ToString(i.a)
    [] i.op = "CALL_PROC" -> " " \o i.text \o " @" \o ToString(i.a) \o " argc=" \o ToString(i.b)
    [] i.op \in Templates -> " @" \o ToString(i.a) \o " tmpl=" \o i.text
    [] OTHER -> ""

HeaderLine(p) ==
  "  " \o p.name \o " start=@" \o ToString(p.pc) \o " argc=" \o ToString(Len(p.params))
    \o " params=(" \o Joined(p.params, " ") \o ")"
InstrLine(code, pc) ==
  "  " \o ToString(pc) \o ": OP_" \o code[pc + 1].op \o Operands(code[pc + 1])

\* Erased procedures are in neither list.
Live(procs) == SelectSeq(procs, LAMBDA p : p.name # "")
\* The label lines before the instruction at pc.
LabelLines(procs, pc) ==
  LET here == SelectSeq(Live(procs), LAMBDA p : p.pc = pc)
  IN  [i \in 1..Len(here) |-> here[i].name \o ":"]
RECURSIVE CodeLines(_, _)
CodeLines(chunk, pc) ==
  IF pc >= Len(chunk.code) THEN <<>>
  ELSE LabelLines(chunk.procs, pc) \o <<InstrLine(chunk.code, pc)>> \o CodeLines(chunk, pc + 1)

Disassemble(chunk) ==
  LET live == Live(chunk.procs)
  IN  <<"START: @" \o ToString(chunk.start)>>
        \o (IF chunk.procs = <<>> THEN <<>> ELSE <<"PROCS:">>)
        \o [i \in 1..Len(live) |-> HeaderLine(live[i])]
        \o <<"CODE:">> \o CodeLines(chunk, 0)

(***************************************************************************)
(* Reading one line.  A reader takes the text that is left and gives what   *)
(* it read and what is left after it; a token "" means there is none.      *)
(***************************************************************************)
Blank == {" ", "\t"}
Rest(s, i) == SubSeq(s, i, Len(s))
SkipWs(s) == Rest(s, SkipOver(s, 1, Blank))
StartsWith(s, key) == SubSeq(s, 1, IF Len(key) < Len(s) THEN Len(key) ELSE Len(s)) = key

ParseToken(s) ==
  LET t == SkipWs(s)
      j == SkipTo(t, 1, Blank \union {""})
  IN  [tok |-> SubSeq(t, 1, j - 1), rest |-> Rest(t, j)]
ParseQuoted(s) ==
  LET t == SkipWs(s)
      j == SkipTo(t, 2, {"", "\""})
  IN  IF At(t, 1) = "\"" /\ At(t, j) = "\""
      THEN <<[tok |-> SubSeq(t, 2, j - 1), rest |-> Rest(t, j + 1)]>> ELSE <<>>
\* key=value: the token after the key.
ParseKv(s, key) ==
  LET t == SkipWs(s)
  IN  IF StartsWith(t, key) /\ At(t, Len(key) + 1) \notin Blank
      THEN ParseToken(Rest(t, Len(key) + 1)) ELSE [tok |-> "", rest |-> s]
AtEndOf(s) == SkipWs(s) = ""

IsInteger(t) ==
  LET d == IF At(t, 1) = "-" THEN Rest(t, 2) ELSE t
  IN  d # "" /\ SkipOver(d, 1, Digits) > Len(d)
IntegerOf(t) == IF At(t, 1) = "-" THEN -NumberOf(Rest(t, 2)) ELSE NumberOf(t)

\* "@N", or a label: what it stands for, in a sequence of its own.
ResolveTarget(tok, labels) ==
  IF At(tok, 1) = "@"
  THEN IF IsInteger(Rest(tok, 2)) THEN <<IntegerOf(Rest(tok, 2))>> ELSE <<>>
  ELSE IF tok \in DOMAIN labels THEN <<labels[tok]>> ELSE <<>>

\* An identifier, a colon, and nothing else.
LabelEnd(s) == SkipOver(s, 1, NameChars)
IsLabelLine(s) ==
  /\ At(s, 1) \in NameChars \ Digits
  /\ At(s, LabelEnd(s)) = ":" /\ AtEndOf(Rest(s, LabelEnd(s) + 1))
LabelOf(s) == SubSeq(s, 1, LabelEnd(s) - 1)

\* The address column, which is never trusted.
StripPcPrefix(s) ==
  LET t == SkipWs(Rest(s, SkipOver(s, 1, Digits)))
  IN  IF At(s, 1) \in Digits /\ At(t, 1) = ":" THEN SkipWs(Rest(t, 2)) ELSE s

(***************************************************************************)
(* One instruction: the operands of its opcode and nothing after them.      *)
(***************************************************************************)
\* An instruction when all that was to be read was there.
Read(ok, rest, instr) == IF ok /\ AtEndOf(rest) THEN <<instr>> ELSE <<>>

ParseOperands(op, s, labels) ==
  LET one    == ParseToken(s)
      target == ResolveTarget(one.tok, labels)
      argc   == ParseKv(one.rest, "argc=")
      depth  == ParseKv(s, "depth=")
      word   == ParseQuoted(s)
      second == ParseToken(one.rest)
      callee == ResolveTarget(second.tok, labels)
      count  == ParseKv(second.rest, "argc=")
      tmpl   == ParseKv(one.rest, "tmpl=")
  IN  CASE op = "PUSH_NUMBER" ->
             Read(IsInteger(one.tok), one.rest, PushNumber(IntegerOf(one.tok)))
        [] op = "PUSH_WORD" ->
             IF word = <<>> THEN <<>> ELSE Read(TRUE, word[1].rest, OpText(op, word[1].tok))
        [] op \in Named -> Read(one.tok # "", one.rest, OpText(op, one.tok))
        [] op \in Jumps -> Read(target # <<>>, one.rest, OpA(op, target[1]))
        [] op = "CALL_BUILTIN" ->
             Read(one.tok # "" /\ IsInteger(argc.tok), argc.rest,
                  Builtin(one.tok, IntegerOf(argc.tok)))
        [] op = "CALL_PROC" ->
             Read(callee # <<>> /\ IsInteger(count.tok), count.rest,
                  [OpText(op, one.tok) EXCEPT !.a = callee[1], !.b = IntegerOf(count.tok)])
        [] op = "PUSH_LIST_LITERAL" -> Read(~AtEndOf(s), "", OpText(op, SkipWs(s)))
        [] op \in Depths -> Read(IsInteger(depth.tok), depth.rest, OpA(op, IntegerOf(depth.tok)))
        [] op \in Templates ->
             Read(target # <<>> /\ tmpl.tok # "", tmpl.rest,
                  [OpText(op, tmpl.tok) EXCEPT !.a = target[1]])
        [] OTHER -> Read(TRUE, s, Instr(op))

ParseInstr(line, labels) ==
  LET m   == ParseToken(StripPcPrefix(line))
      ops == {op \in OpCodes : m.tok = "OP_" \o op}
  IN  IF ops = {} THEN <<>> ELSE ParseOperands(CHOOSE op \in ops : TRUE, m.rest, labels)

(***************************************************************************)
(* bytecode_assemble.  Pass 1 reads the headers and finds the labels.       *)
(***************************************************************************)
RECURSIVE WordsOf(_)
WordsOf(s) == LET t == ParseToken(s) IN IF t.tok = "" THEN <<>> ELSE <<t.tok>> \o WordsOf(t.rest)

\* name start=@N argc=N params=(a b): the entry, its address to be found yet.
ParseHeader(s) ==
  LET name   == ParseToken(s)
      start  == ParseKv(name.rest, "start=")
      argc   == ParseKv(start.rest, "argc=")
      params == SkipWs(argc.rest)
      close  == SkipTo(params, 1, {"", ")"})
      names  == WordsOf(SubSeq(params, 9, close - 1))
      ok     == /\ name.tok # "" /\ start.tok # "" /\ IsInteger(argc.tok)
                /\ StartsWith(params, "params=(") /\ At(params, close) = ")"
                /\ AtEndOf(Rest(params, close + 1))
                /\ Len(names) = IntegerOf(argc.tok) /\ Len(names) <= MaxParams
  IN  IF ok THEN <<[name |-> name.tok, pc |-> -1, params |-> names]>> ELSE <<>>

\* p: [mode, ok, start, procs, labels, pc, code, lines]; code tells whether a
\* CODE: was met, lines are those after the last of them.
Bad(p) == [p EXCEPT !.ok = FALSE]
\* Mutant: a label line takes an address like an instruction.
LabelLine_Counted(p, name) ==
  IF name \in DOMAIN p.labels THEN Bad(p)
  ELSE [p EXCEPT !.labels = (name :> p.pc) @@ @, !.pc = @ + 1]
LabelLine(p, name) ==
  IF name \in DOMAIN p.labels THEN Bad(p) ELSE [p EXCEPT !.labels = (name :> p.pc) @@ @]

Pass1Line(p, line) ==
  LET s      == SkipWs(line)
      start  == ParseToken(Rest(s, 7))
      header == ParseHeader(s)
  IN  CASE s = "" \/ At(s, 1) = ";" -> p
        [] StartsWith(s, "START:") ->
             IF p.start # "" \/ start.tok = "" \/ ~AtEndOf(start.rest) THEN Bad(p)
             ELSE [p EXCEPT !.start = start.tok]
        [] s = "PROCS:" -> [p EXCEPT !.mode = "PROCS"]
        [] s = "CODE:"  -> [p EXCEPT !.mode = "CODE", !.code = TRUE, !.lines = <<>>]
        [] p.mode = "CODE" -> IF IsLabelLine(s) THEN LabelLine(p, LabelOf(s))
                              ELSE [p EXCEPT !.pc = @ + 1]
        [] p.mode = "PROCS" /\ header # <<>> /\ Len(p.procs) < MaxChunkProcs ->
             [p EXCEPT !.procs = Append(@, header[1])]
        [] OTHER -> Bad(p)

\* The lines of the code are kept for pass 2.
KeepLine(p, line) == IF SkipWs(line) = "CODE:" THEN p ELSE [p EXCEPT !.lines = Append(@, line)]
RECURSIVE Pass1(_, _)
Pass1(lines, p) ==
  IF lines = <<>> \/ ~p.ok THEN p
  ELSE Pass1(Tail(lines), KeepLine(Pass1Line(p, Head(lines)), Head(lines)))

\* Pass 2: an instruction for every line that is neither blank nor a label, in a
\* sequence of its own; <<>> when one of them cannot be read.
RECURSIVE Pass2(_, _, _)
Emit(i, lines, labels, code) ==
  IF i = <<>> THEN <<>>
  ELSE IF Len(code) >= MaxInstructions \/ PoolFull(code, i[1].op) THEN <<>>
  ELSE Pass2(lines, labels, Append(code, i[1]))
Pass2(lines, labels, code) ==
  IF lines = <<>> THEN <<code>>
  ELSE LET s == SkipWs(Head(lines))
       IN  IF s = "" \/ At(s, 1) = ";" \/ IsLabelLine(s) THEN Pass2(Tail(lines), labels, code)
           ELSE Emit(ParseInstr(s, labels), Tail(lines), labels, code)

\* The chunk in a sequence of its own, or <<>> when the listing is refused.
Assembled(p, start, code) ==
  IF \/ ~p.ok \/ ~p.code \/ start = <<>> \/ code = <<>>
     \/ \E i \in 1..Len(p.procs) : p.procs[i].name \notin DOMAIN p.labels
  THEN <<>>
  ELSE <<[procs |-> [i \in 1..Len(p.procs) |->
                       [p.procs[i] EXCEPT !.pc = p.labels[p.procs[i].name]]],
          start |-> start[1], code |-> code[1]]>>
SecondPass(p) == Assembled(p, ResolveTarget(p.start, p.labels), Pass2(p.lines, p.labels, <<>>))
Assemble(listing) ==
  SecondPass(Pass1(listing, [mode |-> "", ok |-> TRUE, start |-> "", procs |-> <<>>,
                             labels |-> <<>>, pc |-> 0, code |-> FALSE, lines |-> <<>>]))
=============================================================================
