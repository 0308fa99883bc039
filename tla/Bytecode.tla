------------------------------ MODULE Bytecode ------------------------------
(***************************************************************************)
(* What the compiler, the assembler and the virtual machine share of a     *)
(* chunk (src/bytecode.c, src/vm.c):                                       *)
(*   [code |-> instructions, procs |-> [name, pc, params] of its           *)
(*    procedures, start |-> where the main program begins]                 *)
(* Addresses count from 0.  And what well-kept code is: code in which      *)
(* every instruction has one stack height, whichever way it is reached.    *)
(***************************************************************************)
EXTENDS Integers, Sequences, TLC

\* The first entry of the chunk's table with this name, if any.
FindProcEntry(procs, name) ==
  LET hits == {i \in 1..Len(procs) : procs[i].name = name}
  IN  IF hits = {} THEN <<>> ELSE <<procs[CHOOSE i \in hits : \A j \in hits : i <= j]>>
FindProc(procs, name) ==
  LET p == FindProcEntry(procs, name) IN IF p = <<>> THEN -1 ELSE p[1].pc
\* bytecode_erase_proc: that entry loses its name.
EraseNamed(procs, name) ==
  [i \in 1..Len(procs) |->
     IF procs[i].name = name /\ \A j \in 1..(i - 1) : procs[j].name # name
     THEN [procs[i] EXCEPT !.name = ""] ELSE procs[i]]

(***************************************************************************)
(* Opcodes.                                                                *)
(***************************************************************************)
BinaryOp == ("+" :> "ADD") @@ ("-" :> "SUB") @@ ("*" :> "MUL") @@ ("/" :> "DIV")
CompareOp == ("<" :> "CMP_LT") @@ (">" :> "CMP_GT") @@ ("=" :> "CMP_EQ")
               @@ ("<=" :> "CMP_LE") @@ (">=" :> "CMP_GE") @@ ("<>" :> "CMP_NE")


Jumps     == {"JUMP", "JUMP_IF_FALSE", "CHECK_THROW"}
Templates == {"MAP_COMPILED", "FILTER_COMPILED", "REDUCE_COMPILED", "FOREACH_COMPILED"}

\* What an instruction takes from the value stack and puts there; one that looks
\* at or below the top without popping (CHECK_OUTPUT, PEEK, POKE) takes what it
\* looks at and puts it back.
Takes(i) ==
  CASE i.op \in {"SET_VAR", "POP", "NEG", "NOT", "JUMP_IF_FALSE", "OUTPUT", "VOID_DISCARD",
                 "RUN", "EXECTIME", "CATCH_CHECK", "WAIT", "CHECK_OUTPUT",
                 "CHECK_SEND_OUTPUT"} \union Templates -> 1
    [] i.op \in {"ADD", "SUB", "MUL", "DIV", "CMP_LT", "CMP_GT", "CMP_EQ", "CMP_LE", "CMP_GE",
                 "CMP_NE", "AND", "OR", "APPLY", "ANIMATESPRITE", "LAUNCH"} -> 2
    [] i.op = "SEND" -> 3
    [] i.op = "CALL_BUILTIN" -> i.a
    [] i.op = "CALL_PROC" -> i.b
    [] i.op = "PEEK" -> i.a + 1
    [] i.op = "POKE" -> i.a + 2
    [] OTHER -> 0
Puts(i) ==
  CASE i.op \in {"PUSH_NUMBER", "PUSH_WORD", "PUSH_VAR", "PUSH_LIST_LITERAL", "NEG", "NOT",
                 "ADD", "SUB", "MUL", "DIV", "CMP_LT", "CMP_GT", "CMP_EQ", "CMP_LE", "CMP_GE",
                 "CMP_NE", "AND", "OR", "CALL_BUILTIN", "CALL_PROC", "SEND", "APPLY",
                 "VOID_RESULT", "VOID_DISCARD", "EXECTIME", "WAITKEY", "INPUT", "CHECK_OUTPUT",
                 "CHECK_SEND_OUTPUT"} \union Templates -> 1
    [] i.op = "PEEK" -> i.a + 2
    [] i.op = "POKE" -> i.a + 1
    [] OTHER -> 0
Successors(i, pc) ==
  CASE i.op \in {"OUTPUT", "STOP", "HALT"} -> {}
    [] i.op = "JUMP" -> {i.a}
    [] i.op \in {"JUMP_IF_FALSE", "CHECK_THROW"} -> {pc + 1, i.a}
    [] OTHER -> {pc + 1}

(***************************************************************************)
(* Well-kept code.  A place is <<address, height, kind>>: height counts    *)
(* from where the procedure, the template or the program began, and kind   *)
(* says which of these the address is part of ("value": the template of a  *)
(* MAP, FILTER or REDUCE; "block": that of a FOREACH).                     *)
(***************************************************************************)
Kinds == {"program", "procedure", "block", "value"}
InsAt(c, place) == c.code[place[1] + 1]
Entries(c) ==
  {<<c.start, 0, "program">>}
    \union {<<c.procs[i].pc, 0, "procedure">> : i \in 1..Len(c.procs)}
    \union {<<c.code[i].a, 0, IF c.code[i].op = "FOREACH_COMPILED" THEN "block" ELSE "value">> :
              i \in {j \in 1..Len(c.code) : c.code[j].op \in Templates}}
\* Where the machine can be after the instruction at a place, calls passed over.
Onward(c, place) ==
  LET i == InsAt(c, place)
  IN  {<<pc, place[2] - Takes(i) + Puts(i), place[3]>> : pc \in Successors(i, place[1])}

\* A value template ends with its value, everything else with an empty stack,
\* and that is what a top-level statement begins with.
EndsWell(i, place) ==
  /\ i.op = "HALT" => /\ place[3] # "procedure"
                      /\ place[2] = IF place[3] = "value" THEN 1 ELSE 0
  /\ i.op = "CHECK_UNCAUGHT_THROW" => place[2] = 0

WellKept(c, places) ==
  /\ places \subseteq (0..(Len(c.code) - 1)) \X Nat \X Kinds
  /\ Entries(c) \subseteq places
  /\ \A x, y \in places : x[1] = y[1] => x = y
  /\ \A x \in places : /\ InsAt(c, x).a \in Int
                       /\ Takes(InsAt(c, x)) \in 0..x[2]
                       /\ Onward(c, x) \subseteq places
                       /\ EndsWell(InsAt(c, x), x)

\* A call's address is that of the procedure it names (or named: ""), unless the
\* name is in no entry.
CallsLand(c) ==
  \A i \in 1..Len(c.code) : c.code[i].op = "CALL_PROC" =>
    \/ \E j \in 1..Len(c.procs) :
         c.procs[j].pc = c.code[i].a /\ c.procs[j].name \in {c.code[i].text, ""}
    \/ c.code[i].a = -1 /\ \A j \in 1..Len(c.procs) : c.procs[j].name # c.code[i].text
=============================================================================
