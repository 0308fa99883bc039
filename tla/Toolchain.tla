----------------------------- MODULE Toolchain -----------------------------
(***************************************************************************)
(* From the editor to a bytecode file and back (src/ui.c): a text is typed, *)
(* File > Save Bytecode lexes, parses, compiles and disassembles it, File   *)
(* > Open Bytecode assembles the file again.  A program that saves itself   *)
(* (SAVEBYTECODE, src/vm.c) may have erased procedures of its own first.    *)
(***************************************************************************)
EXTENDS Assembler

CONSTANTS Pieces,      \* what may be typed at the end of the text
          Wrappers,    \* pairs <<before, after>> the text may be put between
          MaxEdits

VARIABLES text, edits,
          tree,      \* the parse result, in a sequence of its own
          chunk,     \* the chunk of the text, in a sequence of its own
          listing,   \* the bytecode file
          opened,    \* what the assembler made of it, <<>> when it refused
          phase      \* "editing", "rejected", "saved", "opened"
vars == <<text, edits, tree, chunk, listing, opened, phase>>

Init == /\ text = "" /\ edits = 0 /\ phase = "editing"
        /\ tree = <<>> /\ chunk = <<>> /\ listing = <<>> /\ opened = <<>>

Edit(t) == /\ phase = "editing" /\ edits < MaxEdits
           /\ text' = t /\ edits' = edits + 1
           /\ UNCHANGED <<tree, chunk, listing, opened, phase>>
Type == \E piece \in Pieces : Edit(text \o piece)
Wrap == \E w \in Wrappers : Edit(w[1] \o text \o w[2])

\* action_save_bytecode: nothing is written for a text with errors.
SaveBytecode ==
  /\ phase = "editing"
  /\ tree' = Parsed("program", text, <<>>, MaxTokens)
  /\ IF tree' = <<>> THEN phase' = "rejected" /\ UNCHANGED <<chunk, listing>>
     ELSE /\ phase' = "saved"
          /\ chunk' = <<Compile(<<>>, tree'[1])>>
          /\ listing' = Disassemble(chunk'[1])
  /\ UNCHANGED <<text, edits, opened>>

\* The program erases a procedure, then saves itself.
EraseAndSave ==
  /\ phase = "saved"
  /\ \E p \in {chunk[1].procs[i] : i \in 1..Len(chunk[1].procs)} :
       /\ p.name # ""
       /\ chunk' = <<[chunk[1] EXCEPT !.procs = EraseNamed(@, p.name)]>>
       /\ listing' = Disassemble(chunk'[1])
  /\ UNCHANGED <<text, edits, tree, opened, phase>>

\* on_bytecode_open_response, run_bytecode_script, exec_loadbytecode.
OpenBytecode ==
  /\ phase = "saved" /\ phase' = "opened"
  /\ opened' = Assemble(listing)
  /\ UNCHANGED <<text, edits, tree, chunk, listing>>

Next == Type \/ Wrap \/ SaveBytecode \/ EraseAndSave \/ OpenBytecode
Spec == Init /\ [][Next]_vars

(***************************************************************************)
(* Properties.                                                             *)
(***************************************************************************)
Saved == phase = "saved"   \* there is a chunk to be looked at
Code == chunk[1].code
\* Every jump, call, template and entry address is that of an instruction, a
\* call's that of the procedure it names, however often a name is defined,
\* wherever (a template's text included) and whether it was called before or
\* after its definition: only a call of a name that is in no entry keeps the
\* placeholder of the backpatching.  (pending patches, compile_block's checks.)
JumpsLand ==
  Saved =>
    LET Inside(pc) == pc \in 0..(Len(Code) - 1)
    IN  /\ \A entry \in Entries(chunk[1]) : Inside(entry[1])
        /\ \A i \in 1..Len(Code) : Code[i].op \in Jumps \union Templates => Inside(Code[i].a)
        /\ CallsLand(chunk[1])

\* All places that the code can come to, from those in new.
RECURSIVE Reached(_, _)
Reached(old, new) ==
  IF new = {} THEN old
  ELSE LET all  == old \union new
           next == UNION {Onward(chunk[1], x) : x \in new}
       IN  Reached(all, {x \in next : x[1] \in 0..(Len(Code) - 1) /\ x[2] \in 0..20} \ all)

\* On every path the value stack has one height at each instruction, never less
\* than the instruction takes: what an early exit by THROW, a loop or a branch
\* leaves is what the other paths leave.  A program ends with an empty stack, a
\* template with its value, a top-level statement where it began; no procedure
\* runs into the code of another.  (compile_call, compile_for,
\* compile_template_call, compile_program.)
HeightsAgree == Saved => WellKept(chunk[1], Reached({}, Entries(chunk[1])))

\* A list literal that a top-level call takes is the same list once it was
\* rendered into text for the chunk and the text is read again, if and only if
\* the text and its tokens fit.  A nested list whose text does not fit loses its
\* end, and the list is another one (render_list_literal_source's sub); in any
\* other way too long a list is empty (MAX_LIST_LITERAL_TEXT,
\* LIST_LITERAL_MAX_TOKENS).  Lists with words that only a raw '...' can spell
\* are left out: they are rendered without their quotes.
Awkward == Space \union {"[", "]", "'", ";"}
RECURSIVE Ordinary(_)
Ordinary(list) ==
  \A i \in 1..Len(list.items) :
    LET x == list.items[i] IN
    IF x.type = "list" THEN Ordinary(x)
    ELSE x.text # "" /\ \A j \in 1..Len(x.text) : At(x.text, j) \notin Awkward
TopLevelLists ==
  LET calls == {s \in {tree[1].node.body[i] : i \in 1..Len(tree[1].node.body)} : s.type = "call"}
      args  == UNION {{c.args[j] : j \in 1..Len(c.args)} : c \in calls}
  IN  {n \in args : n.type = "list"}
RECURSIVE NestedFit(_)
NestedFit(list) ==
  \A i \in 1..Len(list.items) :
    LET x == list.items[i] IN
    x.type = "list" => NestedFit(x) /\ Len(RenderItems(x.items, <<>>)) < MaxNestedText
WholeFits(list) ==
  LET whole == "[" \o RenderItems(list.items, <<>>) \o "]"
  IN  Len(whole) < MaxLiteralText /\ Lex(whole, MaxLiteralTokens) # <<>>
LiteralsSurvive ==
  Saved => \A list \in TopLevelLists :
              LET again == ReadLiteral(LiteralText(list.items)) IN
              Ordinary(list) =>
                /\ (NestedFit(list) /\ WholeFits(list)) <=> (again # <<>> /\ again[1].node = list)
                /\ NestedFit(list) /\ ~WholeFits(list) => again = <<>>

\* A saved file that opens at all is the program that was saved, without its
\* erased procedures and with numbers of six digits; and it opens whenever the
\* names in it are distinct identifiers, other than the section names, no quoted
\* word holds a quote, and its literals have room in their tables: one too many
\* is empty in the chunk, and refused by the assembler.
Identifier(t) == /\ t # "" /\ At(t, 1) \notin Digits
                 /\ \A i \in 1..Len(t) : At(t, i) \in NameChars
                 /\ t \notin {"START", "PROCS", "CODE"}
AsSaved(c) ==
  [c EXCEPT !.procs = Live(@),
            !.code = [i \in 1..Len(@) |-> [@[i] EXCEPT !.num = SixDigits(@)]]]
Opens(c) ==
  /\ \A i, j \in 1..Len(Live(c.procs)) :
       /\ i # j => Live(c.procs)[i].name # Live(c.procs)[j].name
       /\ Identifier(Live(c.procs)[i].name)
       /\ "" \notin {Live(c.procs)[i].params[k] : k \in 1..Len(Live(c.procs)[i].params)}
  /\ \A i \in 1..Len(c.code) :
       /\ c.code[i].op \in Named => c.code[i].text # ""
       /\ c.code[i].op = "PUSH_WORD" =>
            \A j \in 1..Len(c.code[i].text) : At(c.code[i].text, j) # "\""
  /\ \A op \in DOMAIN PoolSize : Cardinality(Uses(c.code, op)) <= PoolSize[op]
RoundTrips ==
  phase = "opened" =>
    /\ opened # <<>> => opened[1] = AsSaved(chunk[1])
    /\ Opens(chunk[1]) => opened # <<>>
=============================================================================
