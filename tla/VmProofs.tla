------------------------------ MODULE VmProofs ------------------------------
(***************************************************************************)
(* Theorems about Headless and Vm: the machine's types, its nested vm_runs *)
(* and its value stack, for every limit, script and file, and whatever the *)
(* compiler and the evaluator answer that satisfies:                       *)
(*                                                                         *)
(*   CompilesTidily   its answers are assembled, well-kept code (Bytecode: *)
(*                    one stack height for every instruction) whose calls  *)
(*                    land where the procedure is.  Assembled and          *)
(*                    WellCoded say the same of the chunks that are there. *)
(*   EvaluatorKeeps   the templates eval.c runs leave run_depth as it was. *)
(*   Unhindered       the value stack never fills, no OUTPUT or STOP       *)
(*                    leaves its procedure from inside a snippet or a      *)
(*                    template, no LAUNCH is refused: in each of these     *)
(*                    cases the code can give the properties up.           *)
(*   MainChecks       the main program's code checks for an uncaught THROW *)
(*                    wherever one can arrive (RunsEndClean).              *)
(*   CompilesOwnNames, EvaluatorRestores                                   *)
(*                    the code's own names are no placeholders, and what   *)
(*                    eval.c runs leaves none behind                       *)
(*                    (PlaceholdersStayScoped).                            *)
(*                                                                         *)
(* A step is one of a few kinds (NextKinds): in place, a call, a return, a *)
(* vm_run that begins, goes round or ends.  The invariant (Tracked) gives  *)
(* every activation the height it began at and every place where one of    *)
(* them goes on a place of its code; each kind of step keeps it.           *)
(***************************************************************************)
EXTENDS Headless, SequenceTheorems, FiniteSetTheorems, WellFoundedInduction, TLAPS

-----------------------------------------------------------------------------
(* Sequences whose elements have no type of their own.                     *)

Elems(s) == {s[i] : i \in DOMAIN s}
IsSeq(s) == s \in Seq(Elems(s))

LEMMA AnySeq ==
  ASSUME NEW S, NEW s \in Seq(S)
  PROVE  /\ IsSeq(s)
         /\ Len(s) \in Nat
         /\ DOMAIN s = 1..Len(s)
<1>1. DOMAIN s = 1..Len(s) /\ Len(s) \in Nat
  OBVIOUS
<1>2. \A i \in 1..Len(s) : s[i] \in Elems(s)
  BY <1>1 DEF Elems
<1>3. s \in Seq(Elems(s))
  BY <1>1, <1>2, IsASeq, SeqDef
<1> QED
  BY <1>1, <1>3 DEF IsSeq

LEMMA SeqShape ==
  ASSUME NEW s, IsSeq(s)
  PROVE  Len(s) \in Nat /\ DOMAIN s = 1..Len(s) /\ s = [i \in 1..Len(s) |-> s[i]]
<1> s \in Seq(Elems(s))
  BY DEF IsSeq
<1> QED
  OBVIOUS

LEMMA EmptyIsSeq == IsSeq(<<>>) /\ Len(<<>>) = 0
<1>1. <<>> \in Seq({})
  OBVIOUS
<1> QED
  BY <1>1, AnySeq

LEMMA MadeSeq ==
  ASSUME NEW n \in Nat, NEW s, DOMAIN s = 1..n, s = [i \in DOMAIN s |-> s[i]]
  PROVE  IsSeq(s) /\ Len(s) = n
<1>1. s \in [1..n -> Elems(s)]
  BY DEF Elems
<1>2. s \in Seq(Elems(s)) /\ Len(s) = n
  BY <1>1, SeqDef
<1> QED
  BY <1>2 DEF IsSeq

LEMMA AppendSeq ==
  ASSUME NEW s, NEW x, IsSeq(s)
  PROVE  /\ IsSeq(Append(s, x))
         /\ Len(Append(s, x)) = Len(s) + 1
         /\ Append(s, x)[Len(s) + 1] = x
         /\ \A i \in 1..Len(s) : Append(s, x)[i] = s[i]
<1> DEFINE S == Elems(s) \union {x}
<1>1. s \in Seq(S)
  BY SeqShape DEF IsSeq, Elems
<1> HIDE DEF S
<1>2. x \in S
  BY DEF S
<1>3. Append(s, x) \in Seq(S)
  BY <1>1, <1>2
<1>4. IsSeq(Append(s, x))
  BY <1>3, AnySeq
<1> QED
  BY <1>1, <1>2, <1>4

LEMMA FrontSeq ==
  ASSUME NEW s, IsSeq(s), s # <<>>
  PROVE  /\ IsSeq(Front(s))
         /\ Len(s) \in Nat \ {0}
         /\ Len(Front(s)) = Len(s) - 1
         /\ \A i \in 1..(Len(s) - 1) : Front(s)[i] = s[i]
<1> DEFINE S == Elems(s)
<1>1. s \in Seq(S)
  BY DEF IsSeq
<1> HIDE DEF S
<1>2. Len(s) \in Nat \ {0}
  BY <1>1, EmptySeq
<1>3. PICK n \in Nat : n = Len(s) - 1
  BY <1>2
<1>4. Front(s) = SubSeq(s, 1, n)
  BY <1>3 DEF Front
<1>5. SubSeq(s, 1, n) \in Seq(S) /\ Len(SubSeq(s, 1, n)) = n
  BY <1>1, <1>2, <1>3
<1>6. \A i \in 1..n : SubSeq(s, 1, n)[i] = s[i]
  BY <1>1, <1>2, <1>3
<1>7. IsSeq(Front(s))
  BY <1>4, <1>5, AnySeq
<1> QED
  BY <1>2, <1>3, <1>4, <1>5, <1>6, <1>7

Altered(s, k, x) == [s EXCEPT ![k] = x]

LEMMA AlteredSeq ==
  ASSUME NEW s, NEW k, NEW x, IsSeq(s)
  PROVE  /\ IsSeq(Altered(s, k, x))
         /\ Len(Altered(s, k, x)) = Len(s)
         /\ \A i \in 1..Len(s) : Altered(s, k, x)[i] = IF i = k THEN x ELSE s[i]
<1> DEFINE t == Altered(s, k, x)
<1>1. Len(s) \in Nat /\ DOMAIN s = 1..Len(s)
  BY SeqShape
<1>2. DOMAIN t = 1..Len(s) /\ t = [i \in DOMAIN t |-> t[i]]
  BY <1>1 DEF Altered
<1>3. \A i \in 1..Len(s) : t[i] = IF i = k THEN x ELSE s[i]
  BY <1>1 DEF Altered
<1> HIDE DEF t
<1>4. IsSeq(t) /\ Len(t) = Len(s)
  BY <1>1, <1>2, MadeSeq
<1> QED
  BY <1>3, <1>4 DEF t

LEMMA LeastIndex ==
  ASSUME NEW n \in Nat, NEW hits, hits \subseteq 1..n, hits # {}
  PROVE  \E x \in hits : \A y \in hits : x <= y
<1> DEFINE R == OpToRel(<, Nat)
<1>1. hits \subseteq Nat
  OBVIOUS
<1>2. \A x, y \in Nat : (<<y, x>> \in R) <=> y < x
  BY DEF OpToRel
<1>3. IsWellFoundedOn(R, Nat)
  BY NatLessThanWellFounded
<1> HIDE DEF R
<1>4. PICK x \in hits : \A y \in hits : ~(<<y, x>> \in R)
  BY <1>1, <1>3, WFMin
<1>5. ASSUME NEW y \in hits PROVE x <= y
  <2>1. x \in Nat /\ y \in Nat
    BY <1>1
  <2>2. ~(y < x)
    BY <2>1, <1>2, <1>4
  <2> QED
    BY <2>1, <2>2
<1> QED
  BY <1>5

LEMMA KeptDomain ==
  ASSUME NEW s, NEW t, IsSeq(s), DOMAIN t = DOMAIN s, t = [i \in DOMAIN t |-> t[i]]
  PROVE  IsSeq(t) /\ Len(t) = Len(s)
BY SeqShape, MadeSeq

-----------------------------------------------------------------------------
(* LogoApp: what the builtins leave of it.                                 *)

AppFields == {"out", "globals", "plists", "throwing", "tag", "stopping", "output", "scopes",
              "runDepth", "paused", "speed", "pool"}
AppShape(a) == DOMAIN a = AppFields /\ a.paused \in Nat /\ a.runDepth \in 0..MaxRunDepth
Keeps(a, b) == DOMAIN b = AppFields /\ b.paused = a.paused /\ b.runDepth = a.runDepth
SameDepth(a, b) == AppShape(b) /\ b.runDepth = a.runDepth

LEMMA KeepsShape ==
  ASSUME NEW a, NEW b, AppShape(a), Keeps(a, b)
  PROVE  AppShape(b) /\ SameDepth(a, b)
BY DEF AppShape, Keeps, SameDepth

LEMMA KeepsSelf ==
  ASSUME NEW a, AppShape(a)
  PROVE  Keeps(a, a)
BY DEF AppShape, Keeps

LEMMA KeepsTwice ==
  ASSUME NEW a, NEW b, NEW c, Keeps(a, b), Keeps(b, c)
  PROVE  Keeps(a, c)
BY DEF Keeps

LEMMA SayKeeps ==
  ASSUME NEW a, NEW text, AppShape(a)
  PROVE  Keeps(a, Say(a, text)) /\ Keeps(a, SayLine(a, text)) /\ Keeps(a, SayIf(a, text))
BY DEF AppShape, Keeps, AppFields, Say, SayLine, SayIf

LEMMA ThrowKeeps ==
  ASSUME NEW a, NEW tag, AppShape(a)
  PROVE  /\ Keeps(a, Throw(a, tag)) /\ Keeps(a, CatchCheck(a, tag)) 
         /\ Keeps(a, ReportUncaught(a)) /\ Keeps(a, TooDeep(a))
BY DEF AppShape, Keeps, AppFields, Say, SayLine, Throw, CatchCheck, ReportUncaught, TooDeep

LEMMA SetVarKeeps ==
  ASSUME NEW a, NEW ss, NEW name, NEW v, AppShape(a), IsSeq(ss)
  PROVE  /\ Keeps(a, SetVar(a, ss, name, v).app)
         /\ IsSeq(SetVar(a, ss, name, v).ss)
         /\ Len(SetVar(a, ss, name, v).ss) = Len(ss)
<1> DEFINE s == HoldingScope(ss, name)
           g == VarIndex(a.globals, name)
           r == SetVar(a, ss, name, v)
           bound == [ss EXCEPT ![s].vars[VarIndex(ss[s].vars, name)].val = v]
           said == SayLine(a, "MAKE: too many variables defined, not set")
<1>1. r = CASE s > 0 -> [app |-> a, ss |-> bound]
            [] s = 0 /\ g > 0 -> [app |-> [a EXCEPT !.globals[g].val = v], ss |-> ss]
            [] s = 0 /\ g = 0 /\ Len(a.globals) < MaxVariables ->
                 [app |-> [a EXCEPT !.globals = Append(@, [name |-> name, val |-> v])], ss |-> ss]
            [] OTHER -> [app |-> said, ss |-> ss]
  BY DEF SetVar
<1>2. DOMAIN bound = DOMAIN ss /\ bound = [i \in DOMAIN bound |-> bound[i]]
  OBVIOUS
<1>3. IsSeq(bound) /\ Len(bound) = Len(ss)
  BY <1>2, KeptDomain
<1>4. Keeps(a, said) /\ Keeps(a, a)
  BY SayKeeps, KeepsSelf
<1>5. /\ Keeps(a, [a EXCEPT !.globals[g].val = v])
      /\ Keeps(a, [a EXCEPT !.globals = Append(@, [name |-> name, val |-> v])])
  BY DEF AppShape, Keeps, AppFields
<1> HIDE DEF s, g, bound, said
<1>6. CASE s > 0
  BY <1>1, <1>3, <1>4, <1>6
<1>7. CASE ~(s > 0)
  BY <1>1, <1>4, <1>5, <1>7
<1> QED
  BY <1>6, <1>7

LEMMA DeclareLocalKeeps ==
  ASSUME NEW a, NEW ss, NEW name, AppShape(a), IsSeq(ss)
  PROVE  /\ Keeps(a, DeclareLocal(a, ss, name).app)
         /\ IsSeq(DeclareLocal(a, ss, name).ss)
         /\ Len(DeclareLocal(a, ss, name).ss) = Len(ss)
<1> DEFINE top == Len(ss)
           r == DeclareLocal(a, ss, name)
           more == [ss EXCEPT ![top].vars = Append(@, [name |-> name, val |-> Num(0)])]
           outside == SayLine(a, "LOCAL: can only be used inside a procedure")
           many == SayLine(a, "LOCAL: too many local variables")
<1>1. \/ r = [app |-> outside, ss |-> ss]
      \/ r = [app |-> a, ss |-> ss]
      \/ r = [app |-> many, ss |-> ss]
      \/ r = [app |-> a, ss |-> more]
  <2> DEFINE held == VarIndex(ss[top].vars, name) > 0
             no == Len(ss[top].vars) >= MaxLocals
  <2>1. r = CASE top = 0 -> [app |-> outside, ss |-> ss]
              [] top > 0 /\ held -> [app |-> a, ss |-> ss]
              [] top > 0 /\ no -> [app |-> many, ss |-> ss]
              [] OTHER -> [app |-> a, ss |-> more]
    BY DEF DeclareLocal
  <2>2. top \in Nat
    BY SeqShape
  <2> HIDE DEF r, outside, many, more, held, no, top
  <2> QED
    BY <2>1, <2>2
<1>2. DOMAIN more = DOMAIN ss /\ more = [i \in DOMAIN more |-> more[i]]
  OBVIOUS
<1>3. IsSeq(more) /\ Len(more) = Len(ss)
  BY <1>2, KeptDomain
<1>4. Keeps(a, outside) /\ Keeps(a, many) /\ Keeps(a, a)
  BY SayKeeps, KeepsSelf
<1> HIDE DEF r, outside, many, more
<1> QED
  BY <1>1, <1>3, <1>4 DEF r

LEMMA DeleteVarKeeps ==
  ASSUME NEW a, NEW name, AppShape(a)
  PROVE  Keeps(a, DeleteVar(a, name))
BY KeepsSelf DEF AppShape, Keeps, AppFields, DeleteVar

LEMMA PropsKeep ==
  ASSUME NEW a, NEW plist, NEW key, NEW v, AppShape(a)
  PROVE  Keeps(a, SetProp(a, plist, key, v)) /\ Keeps(a, RemoveProp(a, plist, key))
<1> DEFINE i == PropIndex(a, plist, key)
           full == SayLine(a, "SETPROP: too many properties defined, not set")
<1>1. \/ SetProp(a, plist, key, v) = [a EXCEPT !.plists[i].val = v]
      \/ SetProp(a, plist, key, v) =
           [a EXCEPT !.plists = Append(@, [plist |-> plist, key |-> key, val |-> v])]
      \/ SetProp(a, plist, key, v) = full
  BY DEF SetProp
<1>2. /\ Keeps(a, [a EXCEPT !.plists[i].val = v])
      /\ Keeps(a, [a EXCEPT !.plists = Append(@, [plist |-> plist, key |-> key, val |-> v])])
  BY DEF AppShape, Keeps, AppFields
<1>3. Keeps(a, full) /\ Keeps(a, a)
  BY SayKeeps, KeepsSelf
<1>4. \/ RemoveProp(a, plist, key) = a
      \/ RemoveProp(a, plist, key) = [a EXCEPT !.plists = Front([@ EXCEPT ![i] = Last(a.plists)])]
  BY DEF RemoveProp
<1>5. Keeps(a, [a EXCEPT !.plists = Front([@ EXCEPT ![i] = Last(a.plists)])])
  BY DEF AppShape, Keeps, AppFields
<1> HIDE DEF i, full
<1> QED
  BY <1>1, <1>2, <1>3, <1>4, <1>5

\* The shared builtins read and write output, variables, properties and the
\* pending THROW.
LEMMA SharedBuiltinKeeps ==
  ASSUME NEW a, NEW ss, NEW name, NEW args, AppShape(a)
  PROVE  Keeps(a, SharedBuiltin(a, ss, name, args).app)
<1> DEFINE r == SharedBuiltin(a, ss, name, args)
<1>1. CASE name \in ListBuiltins
  <2>1. r = GivesOr(a, ListBuiltin(name, args))
    BY <1>1 DEF SharedBuiltin, ListBuiltins
  <2> QED
    BY <2>1, SayKeeps DEF GivesOr, Gives
<1>2. CASE name \notin ListBuiltins
  <2>1. \/ r.app = SayLine(a, ValueText(args[1])) \/ r.app = Say(a, ValueText(args[1]))
        \/ r.app = a \/ r.app = Throw(a, ValueText(args[1]))
        \/ r.app = SetProp(a, ValueText(args[1]), ValueText(args[2]), args[3])
        \/ r.app = SetProp(a, ValueText(args[1]), "prototype", args[2])
        \/ r.app = RemoveProp(a, ValueText(args[1]), ValueText(args[2]))
    BY <1>2 DEF SharedBuiltin, Gives, GivesNothing
  <2> QED
    BY <2>1, SayKeeps, KeepsSelf, ThrowKeeps, PropsKeep
<1> QED
  BY <1>1, <1>2

-----------------------------------------------------------------------------
(* struct Vm: what the helpers leave of it.                                *)

VmFields == {"memory", "top", "frames", "scopes", "repcounts", "resolved", "produced", "message"}
VmShape(m) ==
  /\ DOMAIN m = VmFields
  /\ IsSeq(m.memory) /\ m.top \in Nat /\ m.top <= MaxVmStack /\ m.top <= Len(m.memory)
  /\ IsSeq(m.frames) /\ Len(m.frames) <= MaxVmFrames
  /\ \A i \in 1..Len(m.frames) : /\ m.frames[i].base \in Nat
                                 /\ m.frames[i].base <= MaxVmStack
                                 /\ m.frames[i].base <= Len(m.memory)
  /\ IsSeq(m.scopes) /\ Len(m.scopes) = Len(m.frames) /\ Len(m.scopes) <= MaxVmScopes
  /\ IsSeq(m.repcounts) /\ Len(m.repcounts) <= MaxVmScopes

\* The machine n has m's frames, and its stack is m's up to the height h.
Touches(m, n, h) ==
  /\ VmShape(n) /\ n.frames = m.frames
  /\ Len(n.memory) >= Len(m.memory)
  /\ \A i \in 1..h : n.memory[i] = m.memory[i]

LEMMA TouchesTwice ==
  ASSUME NEW m, NEW n, NEW o, NEW h \in Int, NEW k \in Int, NEW l \in Int, l <= h, l <= k,
         VmShape(m), Touches(m, n, h), Touches(n, o, k)
  PROVE  Touches(m, o, l)
<1>1. Len(m.memory) \in Nat /\ Len(n.memory) \in Nat /\ Len(o.memory) \in Nat
  BY SeqShape DEF Touches, VmShape
<1>2. \A i \in 1..l : o.memory[i] = m.memory[i]
  BY DEF Touches
<1> QED
  BY <1>1, <1>2 DEF Touches

LEMMA PushedTouches ==
  ASSUME NEW m, NEW v, VmShape(m)
  PROVE  /\ Touches(m, Pushed(m, v), m.top)
         /\ m.top < MaxVmStack => Pushed(m, v).top = m.top + 1
<1> DEFINE p == Pushed(m, v)
           over == Altered(m.memory, m.top + 1, v)
           memory == IF m.top < Len(m.memory) THEN over ELSE Append(m.memory, v)
<1>0. Len(m.memory) \in Nat /\ m.top \in Nat /\ MaxVmStack \in Nat
  BY SeqShape, VmLimits DEF VmShape
<1>1. IsSeq(over) /\ Len(over) = Len(m.memory) /\ \A i \in 1..m.top : over[i] = m.memory[i]
  <2>1. /\ IsSeq(over) /\ Len(over) = Len(m.memory)
        /\ \A i \in 1..Len(m.memory) : over[i] = IF i = m.top + 1 THEN v ELSE m.memory[i]
    BY AlteredSeq DEF VmShape
  <2> QED
    BY <2>1, <1>0 DEF VmShape
<1>2. /\ IsSeq(Append(m.memory, v)) /\ Len(Append(m.memory, v)) = Len(m.memory) + 1
      /\ \A i \in 1..m.top : Append(m.memory, v)[i] = m.memory[i]
  BY <1>0, AppendSeq DEF VmShape
<1>3. /\ IsSeq(memory) /\ Len(memory) >= Len(m.memory) /\ m.top + 1 <= Len(memory)
      /\ Len(memory) \in Nat
      /\ \A i \in 1..m.top : memory[i] = m.memory[i]
  BY <1>0, <1>1, <1>2 DEF VmShape
<1>4. p = IF m.top >= MaxVmStack THEN m ELSE [m EXCEPT !.top = @ + 1, !.memory = memory]
  BY DEF Pushed, Altered
<1> HIDE DEF p, over, memory
<1>5. CASE m.top >= MaxVmStack
  BY <1>0, <1>4, <1>5 DEF Touches, p
<1>6. CASE ~(m.top >= MaxVmStack)
  <2>1. /\ DOMAIN p = VmFields /\ p.top = m.top + 1 /\ p.memory = memory
        /\ p.frames = m.frames /\ p.scopes = m.scopes /\ p.repcounts = m.repcounts
    BY <1>4, <1>6 DEF VmShape, VmFields
  <2>2. VmShape(p)
    BY <2>1, <1>0, <1>3, <1>6 DEF VmShape
  <2> QED
    BY <2>1, <2>2, <1>3 DEF Touches, p
<1> QED
  BY <1>5, <1>6

LEMMA DropTouches ==
  ASSUME NEW m, NEW n \in Nat, VmShape(m)
  PROVE  /\ Touches(m, Drop(m, n), m.top)
         /\ Drop(m, n).top \in Nat /\ Drop(m, n).top <= m.top
         /\ n <= m.top => Drop(m, n).top = m.top - n
         /\ Drop(m, n).memory = m.memory
<1> DEFINE d == Drop(m, n)
<1>0. Len(m.memory) \in Nat /\ m.top \in Nat /\ MaxVmStack \in Nat
  BY SeqShape, VmLimits DEF VmShape
<1>1. /\ DOMAIN d = VmFields /\ d.top = (IF m.top >= n THEN m.top - n ELSE 0)
      /\ d.memory = m.memory
      /\ d.frames = m.frames /\ d.scopes = m.scopes /\ d.repcounts = m.repcounts
  BY DEF Drop, VmShape, VmFields
<1> HIDE DEF d
<1>2. d.top \in Nat /\ d.top <= m.top
  BY <1>0, <1>1
<1>3. VmShape(d)
  BY <1>0, <1>1, <1>2 DEF VmShape
<1> QED
  BY <1>0, <1>1, <1>2, <1>3 DEF Touches, d

LEMMA ReportsTouch ==
  ASSUME NEW m, NEW resolved, NEW produced, VmShape(m)
  PROVE  /\ Touches(m, Reports(m, resolved, produced), m.top)
         /\ Reports(m, resolved, produced).top = m.top
         /\ Reports(m, resolved, produced).memory = m.memory
<1> DEFINE d == Reports(m, resolved, produced)
<1>0. Len(m.memory) \in Nat
  BY SeqShape DEF VmShape
<1>1. /\ DOMAIN d = VmFields /\ d.top = m.top /\ d.memory = m.memory
      /\ d.frames = m.frames /\ d.scopes = m.scopes /\ d.repcounts = m.repcounts
  BY DEF Reports, VmShape, VmFields
<1> HIDE DEF d
<1>3. VmShape(d)
  BY <1>1 DEF VmShape
<1> QED
  BY <1>0, <1>1, <1>3 DEF Touches, d

LEMMA PokedTouches ==
  ASSUME NEW m, NEW depth \in Int, NEW v, VmShape(m)
  PROVE  /\ Touches(m, Poked(m, depth, v), m.top - depth - 1)
         /\ Poked(m, depth, v).top = m.top
<1> DEFINE d == Poked(m, depth, v)
           over == Altered(m.memory, m.top - depth, v)
<1>0. Len(m.memory) \in Nat /\ m.top \in Nat
  BY SeqShape DEF VmShape
<1>1. CASE m.top > depth
  <2>1. /\ IsSeq(over) /\ Len(over) = Len(m.memory)
        /\ \A i \in 1..Len(m.memory) : over[i] = IF i = m.top - depth THEN v ELSE m.memory[i]
    BY AlteredSeq DEF VmShape
  <2>2. /\ DOMAIN d = VmFields /\ d.top = m.top /\ d.memory = over
        /\ d.frames = m.frames /\ d.scopes = m.scopes /\ d.repcounts = m.repcounts
    BY <1>1 DEF Poked, VmShape, VmFields, Altered
  <2>4. over = [m.memory EXCEPT ![m.top - depth] = v] /\ DOMAIN m.memory = 1..Len(m.memory)
    BY SeqShape DEF VmShape, Altered
  <2> HIDE DEF over
  <2>5. \A i \in 1..(m.top - depth - 1) : over[i] = m.memory[i]
    <3> SUFFICES ASSUME NEW i \in 1..(m.top - depth - 1) PROVE over[i] = m.memory[i]
      OBVIOUS
    <3>1. CASE i <= Len(m.memory)
      BY <3>1, <2>1, <1>0
    <3>2. CASE ~(i <= Len(m.memory))
      BY <3>2, <2>4, <1>0
    <3> QED
      BY <3>1, <3>2
  <2> HIDE DEF d
  <2>3. VmShape(d)
    BY <2>1, <2>2 DEF VmShape
  <2> QED
    BY <1>0, <2>1, <2>2, <2>3, <2>5 DEF Touches, d
<1>2. CASE ~(m.top > depth)
  <2>1. d = m
    BY <1>2 DEF Poked
  <2> QED
    BY <1>0, <2>1 DEF Touches
<1> QED
  BY <1>1, <1>2

LEMMA BindTouches ==
  ASSUME NEW st, NEW name, NEW v, AppShape(st.app), VmShape(st.vm)
  PROVE  /\ Keeps(st.app, Bind(st, name, v).app)
         /\ Touches(st.vm, Bind(st, name, v).vm, st.vm.top)
         /\ Bind(st, name, v).vm.top = st.vm.top
<1> DEFINE m == st.vm
           r == SetVar(st.app, m.scopes, name, v)
           n == [m EXCEPT !.scopes = r.ss]
           b == Bind(st, name, v)
<1>1. Keeps(st.app, r.app) /\ IsSeq(r.ss) /\ Len(r.ss) = Len(m.scopes)
  BY SetVarKeeps DEF VmShape
<1>2. b = [app |-> r.app, vm |-> n]
  BY DEF Bind
<1> HIDE DEF r
<1>3. /\ DOMAIN n = VmFields /\ n.top = m.top /\ n.memory = m.memory /\ n.scopes = r.ss
      /\ n.frames = m.frames /\ n.repcounts = m.repcounts
  BY DEF VmShape, VmFields
<1> HIDE DEF n
<1>4. VmShape(n)
  BY <1>1, <1>3 DEF VmShape
<1>5. Len(m.memory) \in Nat
  BY SeqShape DEF VmShape
<1>6. Touches(m, n, m.top)
  BY <1>3, <1>4, <1>5 DEF Touches
<1> HIDE DEF b
<1> QED
  BY <1>1, <1>2, <1>3, <1>6 DEF b

-----------------------------------------------------------------------------
(* Opcodes by what they do to the value stack and where they go.           *)

Plainly == {"PUSH_NUMBER", "PUSH_WORD", "PUSH_VAR", "PUSH_LIST_LITERAL", "VOID_RESULT",
            "WAITKEY", "INPUT"}
Taking == {"SET_VAR", "POP", "JUMP_IF_FALSE", "CATCH_CHECK", "WAIT", "RUN"}
Mapping == {"NEG", "NOT", "VOID_DISCARD", "EXECTIME", "CHECK_OUTPUT", "CHECK_SEND_OUTPUT"}
             \union Templates
Pairing == {"ADD", "SUB", "MUL", "DIV", "CMP_LT", "CMP_GT", "CMP_EQ", "CMP_LE", "CMP_GE",
            "CMP_NE", "AND", "OR", "APPLY"}
Neutral == {"JUMP", "LOCAL", "ERASE", "CHECK_THROW", "CHECK_UNCAUGHT_THROW", "REPCOUNT_PUSH",
            "REPCOUNT_INCR", "REPCOUNT_POP", "LOAD", "PAUSE", "AWAIT", "YIELD", "MOTION_DELAY"}

LEMMA StackEffects ==
  ASSUME NEW i
  PROVE  /\ i.op \in Plainly => Takes(i) = 0 /\ Puts(i) = 1
         /\ i.op \in Taking => Takes(i) = 1 /\ Puts(i) = 0
         /\ i.op \in Mapping => Takes(i) = 1 /\ Puts(i) = 1
         /\ i.op \in Pairing => Takes(i) = 2 /\ Puts(i) = 1
         /\ i.op \in Neutral => Takes(i) = 0 /\ Puts(i) = 0
         /\ i.op = "LAUNCH" => Takes(i) = 2 /\ Puts(i) = 0
         /\ i.op = "SEND" => Takes(i) = 3 /\ Puts(i) = 1
         /\ i.op = "PEEK" => Takes(i) = i.a + 1 /\ Puts(i) = i.a + 2
         /\ i.op = "POKE" => Takes(i) = i.a + 2 /\ Puts(i) = i.a + 1
         /\ i.op = "CALL_BUILTIN" => Takes(i) = i.a /\ Puts(i) = 1
         /\ i.op = "CALL_PROC" => Takes(i) = i.b /\ Puts(i) = 1
<1>1. i.op \in Plainly => Takes(i) = 0 /\ Puts(i) = 1
  BY DEF Plainly, Takes, Puts, Templates
<1>2. i.op \in Taking => Takes(i) = 1 /\ Puts(i) = 0
  BY DEF Taking, Takes, Puts, Templates
<1>3. i.op \in Mapping => Takes(i) = 1 /\ Puts(i) = 1
  BY DEF Mapping, Takes, Puts, Templates
<1>4. i.op \in Pairing => Takes(i) = 2 /\ Puts(i) = 1
  BY DEF Pairing, Takes, Puts, Templates
<1>5. i.op \in Neutral => Takes(i) = 0 /\ Puts(i) = 0
  BY DEF Neutral, Takes, Puts, Templates
<1>6. i.op = "LAUNCH" => Takes(i) = 2 /\ Puts(i) = 0
  BY DEF Takes, Puts, Templates
<1>7. i.op = "SEND" => Takes(i) = 3 /\ Puts(i) = 1
  BY DEF Takes, Puts, Templates
<1>8. i.op = "PEEK" => Takes(i) = i.a + 1 /\ Puts(i) = i.a + 2
  BY DEF Takes, Puts, Templates
<1>9. i.op = "POKE" => Takes(i) = i.a + 2 /\ Puts(i) = i.a + 1
  BY DEF Takes, Puts, Templates
<1>10. i.op = "CALL_BUILTIN" => Takes(i) = i.a /\ Puts(i) = 1
  BY DEF Takes, Puts, Templates
<1>11. i.op = "CALL_PROC" => Takes(i) = i.b /\ Puts(i) = 1
  BY DEF Takes, Puts, Templates
<1> QED
  BY <1>1, <1>2, <1>3, <1>4, <1>5, <1>6, <1>7, <1>8, <1>9, <1>10, <1>11

LEMMA GoesOn ==
  ASSUME NEW i, NEW pc,
         i.op \notin {"OUTPUT", "STOP", "HALT", "JUMP"}
  PROVE  pc + 1 \in Successors(i, pc)
BY DEF Successors

-----------------------------------------------------------------------------
(* The kinds of step.  Most instructions work in place: the next address   *)
(* is a successor, the frames stay, and when there was on the stack what   *)
(* the instruction takes, it leaves what it puts.                          *)

\* An assembled chunk: what the compiler or the assembler makes.
AssembledChunk(c) ==
  /\ DOMAIN c = {"code", "procs", "start"} /\ IsSeq(c.code) /\ IsSeq(c.procs)
  /\ \A i \in 1..Len(c.code) : /\ c.code[i].a \in Int /\ c.code[i].b \in Int
                               /\ c.code[i].op \in {"CALL_BUILTIN", "PEEK", "POKE"}
                                    => c.code[i].a \in Nat
                               /\ c.code[i].op = "CALL_PROC" => c.code[i].b \in Nat
  /\ \A i \in 1..Len(c.procs) : DOMAIN c.procs[i] = {"name", "pc", "params"}

\* ERASE takes a name out of a chunk's table; code and addresses stay.
SameCode(c, d) == d.code = c.code /\ Entries(d) = Entries(c)
ChunksKept == /\ IsSeq(chunks') /\ Len(chunks') = Len(chunks)
              /\ \A i \in 1..Len(chunks) : SameCode(chunks[i], chunks'[i])

\* An exception to what LAUNCH takes and puts: a LAUNCH that is refused.
Launchable ==
  /\ Depth = 1
  /\ ResolveApply("LAUNCH", Chunk.procs, ValueText(TopOf(vm, 1)), TopOf(vm, 0)).def # <<>>

Owed(st) == IF st \in {"WAITKEY", "INPUT"} THEN 1 ELSE 0   \* what resuming brings
Settled == /\ Takes(Ins) \in 0..vm.top /\ vm.top < MaxVmStack
           /\ Ins.op = "LAUNCH" => Launchable

Ready == /\ status = "running" /\ VmShape(vm) /\ AppShape(app)
         /\ IsSeq(chunks) /\ Top.chunk \in 1..Len(chunks) /\ AssembledChunk(Chunk)

InPlace ==
  /\ status = "running" /\ InCode /\ status' # "halted" /\ status' \in {"running", Ins.op}
  /\ \E pc \in Successors(Ins, Top.pc) : Goto(pc)
  /\ ChunksKept /\ SameDepth(app, app') /\ Touches(vm, vm', 0)
  /\ Settled => /\ vm'.top + Owed(status') = vm.top - Takes(Ins) + Puts(Ins)
                /\ Touches(vm, vm', vm.top - Takes(Ins))

LEMMA ReadyFacts ==
  ASSUME Ready
  PROVE  /\ vm.top \in Nat /\ MaxVmStack \in Nat /\ Len(vm.memory) \in Nat
         /\ Keeps(app, app) /\ SameDepth(app, app) /\ Touches(vm, vm, 0) /\ Touches(vm, vm, vm.top)
         /\ InCode => /\ Ins.a \in Int /\ Ins.b \in Int
                      /\ Ins.op \in {"CALL_BUILTIN", "PEEK", "POKE"} => Ins.a \in Nat
                      /\ Ins.op = "CALL_PROC" => Ins.b \in Nat
         /\ Owed("running") = 0
         /\ UNCHANGED chunks => ChunksKept
<1>1. vm.top \in Nat /\ MaxVmStack \in Nat /\ Len(vm.memory) \in Nat
  BY SeqShape, VmLimits DEF Ready, VmShape
<1>2. Touches(vm, vm, 0) /\ Touches(vm, vm, vm.top)
  BY <1>1 DEF Ready, Touches
<1>3. Keeps(app, app) /\ SameDepth(app, app)
  BY KeepsSelf DEF Ready, SameDepth
<1>4. ASSUME InCode PROVE Top.pc + 1 \in 1..Len(Chunk.code)
  <2>1. Len(Chunk.code) \in Nat
    BY SeqShape DEF Ready, AssembledChunk
  <2> QED
    BY <2>1, <1>4 DEF InCode
<1>5. InCode => /\ Ins.a \in Int /\ Ins.b \in Int
                /\ Ins.op \in {"CALL_BUILTIN", "PEEK", "POKE"} => Ins.a \in Nat
                /\ Ins.op = "CALL_PROC" => Ins.b \in Nat
  BY <1>4 DEF Ready, AssembledChunk, Ins
<1>6. UNCHANGED chunks => ChunksKept
  BY DEF Ready, ChunksKept, SameCode
<1> QED
  BY <1>1, <1>2, <1>3, <1>5, <1>6 DEF Owed

\* What most of these instructions come to.
LEMMA StepsInPlace ==
  ASSUME Ready, InCode, Step, ChunksKept, SameDepth(app, app'),
         status' # "halted", status' \in {"running", Ins.op},
         Ins.op \notin {"OUTPUT", "STOP", "HALT", "JUMP"},
         Touches(vm, vm', 0),
         Settled => /\ vm'.top + Owed(status') = vm.top - Takes(Ins) + Puts(Ins)
                    /\ Touches(vm, vm', vm.top - Takes(Ins))
  PROVE  InPlace
<1>1. Top.pc + 1 \in Successors(Ins, Top.pc)
  BY GoesOn
<1> QED
  BY <1>1 DEF InPlace, Ready, Step

\* One value is pushed on what n slots are taken from.
LEMMA PushAfterDrop ==
  ASSUME NEW m, NEW n \in Nat, NEW v, VmShape(m)
  PROVE  /\ Touches(m, Pushed(Drop(m, n), v), 0)
         /\ n <= m.top /\ m.top < MaxVmStack =>
              /\ Pushed(Drop(m, n), v).top = m.top - n + 1
              /\ Touches(m, Pushed(Drop(m, n), v), m.top - n)
<1> DEFINE d == Drop(m, n)
           p == Pushed(d, v)
<1>1. /\ Touches(m, d, m.top) /\ d.top \in Nat /\ d.top <= m.top
      /\ n <= m.top => d.top = m.top - n
  BY DropTouches
<1>2. VmShape(d) /\ m.top \in Nat /\ MaxVmStack \in Nat
  BY <1>1, VmLimits DEF Touches, VmShape
<1> HIDE DEF d
<1>3. Touches(d, p, d.top) /\ (d.top < MaxVmStack => p.top = d.top + 1)
  BY <1>2, PushedTouches
<1> HIDE DEF p
<1>4. Touches(m, p, 0)
  BY <1>1, <1>2, <1>3, TouchesTwice
<1>5. ASSUME n <= m.top, m.top < MaxVmStack
      PROVE  p.top = m.top - n + 1 /\ Touches(m, p, m.top - n)
  <2>1. d.top = m.top - n /\ d.top < MaxVmStack
    BY <1>1, <1>2, <1>5
  <2>2. m.top - n \in Int /\ m.top - n <= m.top /\ m.top - n <= d.top
    BY <2>1, <1>2, <1>5
  <2> QED
    BY <2>1, <2>2, <1>1, <1>2, <1>3, TouchesTwice
<1> QED
  BY <1>4, <1>5 DEF p, d

\* The same with a report of what the instruction did.
LEMMA PushAfterReport ==
  ASSUME NEW m, NEW n \in Nat, NEW v, NEW x, NEW y, VmShape(m)
  PROVE  /\ Touches(m, Pushed(Reports(Drop(m, n), x, y), v), 0)
         /\ n <= m.top /\ m.top < MaxVmStack =>
              /\ Pushed(Reports(Drop(m, n), x, y), v).top = m.top - n + 1
              /\ Touches(m, Pushed(Reports(Drop(m, n), x, y), v), m.top - n)
<1> DEFINE e == Drop(m, n)
           d == Reports(e, x, y)
           p == Pushed(d, v)
<1>1. /\ Touches(m, e, m.top) /\ e.top \in Nat /\ e.top <= m.top
      /\ n <= m.top => e.top = m.top - n
  BY DropTouches
<1>2. VmShape(e) /\ m.top \in Nat /\ MaxVmStack \in Nat
  BY <1>1, VmLimits DEF Touches, VmShape
<1> HIDE DEF e
<1>3. Touches(e, d, e.top) /\ d.top = e.top
  BY <1>2, ReportsTouch
<1>4. VmShape(d)
  BY <1>3 DEF Touches
<1> HIDE DEF d
<1>5. Touches(d, p, d.top) /\ (d.top < MaxVmStack => p.top = d.top + 1)
  BY <1>4, PushedTouches
<1> HIDE DEF p
<1>6. Touches(e, p, e.top)
  BY <1>1, <1>2, <1>3, <1>5, TouchesTwice
<1>7. Touches(m, p, 0)
  BY <1>1, <1>2, <1>6, TouchesTwice
<1>8. ASSUME n <= m.top, m.top < MaxVmStack
      PROVE  p.top = m.top - n + 1 /\ Touches(m, p, m.top - n)
  <2>1. d.top = m.top - n /\ d.top < MaxVmStack
    BY <1>1, <1>2, <1>3, <1>8
  <2>2. m.top - n \in Int /\ m.top - n <= m.top /\ m.top - n <= e.top
    BY <2>1, <1>2, <1>3, <1>8
  <2> QED
    BY <2>1, <2>2, <1>1, <1>2, <1>5, <1>6, TouchesTwice
<1> QED
  BY <1>7, <1>8 DEF p, d, e

-----------------------------------------------------------------------------
(* Instructions that work in place.                                        *)

LEMMA PushValueInPlace == ASSUME Ready, PushValue PROVE InPlace
<1> DEFINE v == CASE Ins.op = "PUSH_NUMBER" -> Num(Ins.num)
                  [] Ins.op = "PUSH_WORD"   -> WordVal(Ins.text)
                  [] Ins.op = "PUSH_VAR"    -> ValueOf(app, vm.scopes, Ins.text)
                  [] Ins.op = "PEEK"        -> TopOf(vm, Ins.a)
                  [] OTHER                  -> LiteralFromText(Ins.text)
<1>1. /\ InCode /\ vm' = Pushed(vm, v) /\ Step /\ UNCHANGED <<app, chunks, status>>
      /\ Ins.op \in Plainly \union {"PEEK"} /\ Ins.op \notin {"OUTPUT", "STOP", "HALT", "JUMP"}
      /\ status' = "running"
  BY DEF PushValue, Fetch, Here, Plainly, Ready
<1> HIDE DEF v
<1>2. /\ Touches(vm, vm', vm.top) /\ (vm.top < MaxVmStack => vm'.top = vm.top + 1)
  BY <1>1, PushedTouches DEF Ready
<1>3. Touches(vm, vm', 0)
  BY <1>2, ReadyFacts DEF Touches
<1>4. Puts(Ins) = Takes(Ins) + 1 /\ (Takes(Ins) \in 0..vm.top => Takes(Ins) \in Nat)
  BY <1>1, StackEffects, ReadyFacts
<1>5. ASSUME Settled
      PROVE  /\ vm'.top + Owed(status') = vm.top - Takes(Ins) + Puts(Ins)
             /\ Touches(vm, vm', vm.top - Takes(Ins))
  <2>1. Takes(Ins) \in Nat /\ Takes(Ins) <= vm.top /\ vm.top < MaxVmStack
    BY <1>5, ReadyFacts DEF Settled
  <2>2. vm'.top + Owed(status') = vm.top - Takes(Ins) + Puts(Ins)
    BY <2>1, <1>1, <1>2, <1>4, ReadyFacts
  <2>3. Touches(vm, vm', vm.top - Takes(Ins))
    BY <2>1, <1>2, ReadyFacts DEF Touches
  <2> QED
    BY <2>2, <2>3
<1> QED
  BY <1>1, <1>3, <1>5, StepsInPlace, ReadyFacts

LEMMA SetVariableInPlace == ASSUME Ready, SetVariable PROVE InPlace
<1> DEFINE d == Drop(vm, 1)
           name == Ins.text
           v == TopOf(vm, 0)
           st == [app |-> app, vm |-> d]
           b == Bind(st, name, v)
<1>1. /\ InCode /\ app' = b.app /\ vm' = b.vm /\ Step /\ UNCHANGED <<chunks, status>>
      /\ Ins.op \in Taking /\ Ins.op \notin {"OUTPUT", "STOP", "HALT", "JUMP", "LAUNCH"}
      /\ status' = "running"
  BY DEF SetVariable, Fetch, Here, Becomes, Taking, Ready
<1>2. Touches(vm, d, vm.top) /\ (1 <= vm.top => d.top = vm.top - 1) /\ d.top \in Nat /\ d.top <= vm.top
  BY DropTouches DEF Ready
<1> HIDE DEF d
<1>3. Keeps(app, b.app) /\ Touches(d, b.vm, d.top) /\ b.vm.top = d.top
  <2>1. st.app = app /\ st.vm = d
    OBVIOUS
  <2>2. AppShape(st.app) /\ VmShape(st.vm)
    BY <1>2, <2>1 DEF Ready, Touches
  <2> HIDE DEF name, v, st
  <2> QED
    BY <2>1, <2>2, BindTouches
<1> HIDE DEF b
<1>4. Touches(vm, vm', d.top) /\ Touches(vm, vm', 0)
  BY <1>1, <1>2, <1>3, ReadyFacts, TouchesTwice DEF Ready
<1>5. Takes(Ins) = 1 /\ Puts(Ins) = 0
  BY <1>1, StackEffects
<1>6. SameDepth(app, app')
  BY <1>1, <1>3, KeepsShape DEF Ready
<1>7. ASSUME Settled
      PROVE  /\ vm'.top + Owed(status') = vm.top - Takes(Ins) + Puts(Ins)
             /\ Touches(vm, vm', vm.top - Takes(Ins))
  BY <1>7, <1>1, <1>2, <1>3, <1>4, <1>5, ReadyFacts DEF Settled
<1> QED
  BY <1>1, <1>4, <1>6, <1>7, StepsInPlace, ReadyFacts

LEMMA PopOrPokeInPlace == ASSUME Ready, PopOrPoke PROVE InPlace
<1> DEFINE d == Drop(vm, 1)
           p == Poked(d, Ins.a, TopOf(vm, 0))
<1>1. /\ InCode /\ vm' = (IF Ins.op = "POP" THEN d ELSE p) /\ Step /\ UNCHANGED <<app, chunks, status>>
      /\ Ins.op \in {"POP", "POKE"} /\ Ins.op \notin {"OUTPUT", "STOP", "HALT", "JUMP", "LAUNCH"}
      /\ status' = "running"
  BY DEF PopOrPoke, Fetch, Here, Ready
<1>2. Touches(vm, d, vm.top) /\ (1 <= vm.top => d.top = vm.top - 1) /\ d.top \in Nat /\ d.top <= vm.top
  BY DropTouches DEF Ready
<1> HIDE DEF d
<1>3. Touches(d, p, d.top - Ins.a - 1) /\ p.top = d.top
  BY <1>1, <1>2, ReadyFacts, PokedTouches DEF Touches
<1> HIDE DEF p
<1>4. Ins.op = "POP" => Takes(Ins) = 1 /\ Puts(Ins) = 0
  BY StackEffects DEF Taking
<1>5. Ins.op = "POKE" => Takes(Ins) = Ins.a + 2 /\ Puts(Ins) = Ins.a + 1
  BY StackEffects
<1>6. Touches(vm, d, 0) /\ Touches(vm, p, 0)
  BY <1>1, <1>2, <1>3, ReadyFacts DEF Touches
<1>7. ASSUME Settled, Ins.op = "POP"
      PROVE  /\ vm'.top + Owed(status') = vm.top - Takes(Ins) + Puts(Ins)
             /\ Touches(vm, vm', vm.top - Takes(Ins))
  BY <1>7, <1>1, <1>2, <1>4, ReadyFacts DEF Settled, Touches
<1>8. ASSUME Settled, Ins.op = "POKE"
      PROVE  /\ vm'.top + Owed(status') = vm.top - Takes(Ins) + Puts(Ins)
             /\ Touches(vm, vm', vm.top - Takes(Ins))
  <2>1. /\ Ins.a \in Nat /\ Ins.a + 2 <= vm.top /\ vm' = p
        /\ Takes(Ins) = Ins.a + 2 /\ Puts(Ins) = Ins.a + 1
    BY <1>8, <1>1, <1>5, ReadyFacts DEF Settled
  <2>2. d.top = vm.top - 1 /\ vm.top - Takes(Ins) = d.top - Ins.a - 1
    BY <1>2, <2>1, ReadyFacts
  <2>3. d.top - Ins.a - 1 \in Int /\ vm.top \in Int /\ d.top - Ins.a - 1 <= vm.top
    BY <2>1, <2>2, ReadyFacts
  <2>4. Touches(vm, p, d.top - Ins.a - 1)
    BY <2>3, <1>2, <1>3, TouchesTwice DEF Ready
  <2> QED
    BY <2>1, <2>2, <2>4, <1>1, <1>3, ReadyFacts
<1>9. Touches(vm, vm', 0)
  BY <1>1, <1>6
<1> QED
  BY <1>1, <1>7, <1>8, <1>9, StepsInPlace, ReadyFacts

\* A step that is refused where the machine stands, or goes on from there.
Calm == Step /\ ChunksKept /\ SameDepth(app, app')
          /\ status' # "halted" /\ status' \in {"running", Ins.op}
          /\ Ins.op \notin {"OUTPUT", "STOP", "HALT", "JUMP"}

LEMMA PushesInPlace ==
  ASSUME Ready, InCode, Calm, Owed(status') = 0, NEW n \in Nat, NEW v,
         Takes(Ins) = n, Puts(Ins) = 1, vm' = Pushed(Drop(vm, n), v)
  PROVE  InPlace
<1>1. /\ Touches(vm, vm', 0)
      /\ n <= vm.top /\ vm.top < MaxVmStack => vm'.top = vm.top - n + 1 /\ Touches(vm, vm', vm.top - n)
  BY PushAfterDrop DEF Ready
<1>2. Settled => n <= vm.top /\ vm.top < MaxVmStack
  BY ReadyFacts DEF Settled
<1>3. Settled => /\ vm'.top + Owed(status') = vm.top - Takes(Ins) + Puts(Ins)
                 /\ Touches(vm, vm', vm.top - Takes(Ins))
  BY <1>1, <1>2, ReadyFacts
<1> QED
  BY <1>1, <1>3, StepsInPlace DEF Calm

LEMMA ReportsInPlace ==
  ASSUME Ready, InCode, Calm, Owed(status') = 0, NEW n \in Nat, NEW v, NEW x, NEW y,
         Takes(Ins) = n, Puts(Ins) = 1, vm' = Pushed(Reports(Drop(vm, n), x, y), v)
  PROVE  InPlace
<1>1. /\ Touches(vm, vm', 0)
      /\ n <= vm.top /\ vm.top < MaxVmStack => vm'.top = vm.top - n + 1 /\ Touches(vm, vm', vm.top - n)
  BY PushAfterReport DEF Ready
<1>2. Settled => n <= vm.top /\ vm.top < MaxVmStack
  BY ReadyFacts DEF Settled
<1>3. Settled => /\ vm'.top + Owed(status') = vm.top - Takes(Ins) + Puts(Ins)
                 /\ Touches(vm, vm', vm.top - Takes(Ins))
  BY <1>1, <1>2, ReadyFacts
<1> QED
  BY <1>1, <1>3, StepsInPlace DEF Calm

LEMMA ReportedInPlace ==
  ASSUME Ready, InCode, Calm, Owed(status') = 0, NEW v, NEW x, NEW y,
         Takes(Ins) = 0, Puts(Ins) = 1, vm' = Pushed(Reports(vm, x, y), v)
  PROVE  InPlace
<1> DEFINE d == Reports(vm, x, y)
<1>1. Touches(vm, d, vm.top) /\ d.top = vm.top
  BY ReportsTouch DEF Ready
<1>2. VmShape(d)
  BY <1>1 DEF Touches
<1> HIDE DEF d
<1>3. Touches(d, vm', d.top) /\ (d.top < MaxVmStack => vm'.top = d.top + 1)
  BY <1>2, PushedTouches DEF d
<1>4. Touches(vm, vm', vm.top)
  BY <1>1, <1>3, ReadyFacts, TouchesTwice DEF Ready
<1>5. Touches(vm, vm', 0)
  BY <1>4, ReadyFacts DEF Touches
<1>6. Settled => /\ vm'.top + Owed(status') = vm.top - Takes(Ins) + Puts(Ins)
                 /\ Touches(vm, vm', vm.top - Takes(Ins))
  BY <1>1, <1>3, <1>4, ReadyFacts DEF Settled
<1> QED
  BY <1>5, <1>6, StepsInPlace DEF Calm

LEMMA DropsInPlace ==
  ASSUME Ready, InCode, Calm, Owed(status') = 0, NEW n \in Nat,
         Takes(Ins) = n, Puts(Ins) = 0, vm' = Drop(vm, n)
  PROVE  InPlace
<1>1. /\ Touches(vm, vm', vm.top)
      /\ n <= vm.top => vm'.top = vm.top - n
  BY DropTouches DEF Ready
<1>2. Settled => n <= vm.top /\ vm.top < MaxVmStack
  BY ReadyFacts DEF Settled
<1>3. Touches(vm, vm', 0) /\ Touches(vm, vm', vm.top - n)
  BY <1>1, ReadyFacts DEF Touches
<1>4. Settled => /\ vm'.top + Owed(status') = vm.top - Takes(Ins) + Puts(Ins)
                 /\ Touches(vm, vm', vm.top - Takes(Ins))
  BY <1>1, <1>2, <1>3, ReadyFacts
<1> QED
  BY <1>3, <1>4, StepsInPlace DEF Calm

\* The value stack keeps its height and all that the instruction does not take.
LEMMA StaysInPlace ==
  ASSUME Ready, InCode, Calm, Takes(Ins) \in Nat, Puts(Ins) - Owed(status') = Takes(Ins),
         Puts(Ins) \in Nat, Touches(vm, vm', vm.top), vm'.top = vm.top
  PROVE  InPlace
<1>1. Owed(status') \in Nat
  BY DEF Owed
<1>2. Touches(vm, vm', 0) /\ (Settled => Touches(vm, vm', vm.top - Takes(Ins)))
  BY ReadyFacts DEF Touches
<1>3. vm'.top + Owed(status') = vm.top - Takes(Ins) + Puts(Ins)
  BY <1>1, ReadyFacts
<1> QED
  BY <1>2, <1>3, StepsInPlace DEF Calm

LEMMA UnaryInPlace == ASSUME Ready, Unary PROVE InPlace
<1> DEFINE v == IF Ins.op = "NEG" THEN Num(-ToNumber(TopOf(vm, 0))) ELSE Bool(~IsTruthy(TopOf(vm, 0)))
<1>1. /\ InCode /\ vm' = Pushed(Drop(vm, 1), v) /\ Step /\ UNCHANGED <<app, chunks, status>>
      /\ Ins.op \in Mapping /\ Ins.op \notin {"OUTPUT", "STOP", "HALT", "JUMP"} /\ status' = "running"
  BY DEF Unary, Fetch, Here, Mapping, Ready
<1> HIDE DEF v
<1>2. Calm /\ Owed(status') = 0
  BY <1>1, ReadyFacts DEF Calm
<1>3. Takes(Ins) = 1 /\ Puts(Ins) = 1
  BY <1>1, StackEffects
<1> QED
  BY <1>1, <1>2, <1>3, PushesInPlace

LEMMA BinaryInPlace == ASSUME Ready, Binary PROVE InPlace
<1> DEFINE left  == TopOf(vm, 1)
           right == TopOf(vm, 0)
           v == CASE Ins.op = "AND" -> Bool(IsTruthy(left) /\ IsTruthy(right))
                  [] Ins.op = "OR"  -> Bool(IsTruthy(left) \/ IsTruthy(right))
                  [] Ins.op \in {"ADD", "SUB", "MUL", "DIV"} -> ExecArith(Ins.op, left, right)
                  [] OTHER -> ExecCompare(Ins.op, left, right)
<1>1. /\ InCode /\ vm' = Pushed(Drop(vm, 2), v) /\ Step /\ UNCHANGED <<app, chunks, status>>
      /\ Ins.op \in Pairing /\ Ins.op \notin {"OUTPUT", "STOP", "HALT", "JUMP"} /\ status' = "running"
  BY DEF Binary, Fetch, Here, Pairing, Ready
<1> HIDE DEF v
<1>2. Calm /\ Owed(status') = 0
  BY <1>1, ReadyFacts DEF Calm
<1>3. Takes(Ins) = 2 /\ Puts(Ins) = 1
  BY <1>1, StackEffects
<1> QED
  BY <1>1, <1>2, <1>3, PushesInPlace

LEMMA CallBuiltinInPlace ==
  ASSUME Ready, CallBuiltin,
         Fetch({"CALL_BUILTIN"}) /\ Ins.text \in TemplateBuiltins => SameDepth(app, app')
  PROVE  InPlace
<1> DEFINE a == Args(vm, Ins.a)
           r == VmBuiltin(Ins.text, a)
<1>1. /\ InCode /\ Fetch({"CALL_BUILTIN"}) /\ Step /\ UNCHANGED <<chunks, status>>
      /\ vm' = Pushed(Reports(Drop(vm, Ins.a), TRUE, r.produced), r.v) /\ app' = r.app
      /\ Ins.op = "CALL_BUILTIN" /\ Ins.op \notin {"OUTPUT", "STOP", "HALT", "JUMP"}
      /\ status' = "running"
  BY DEF CallBuiltin, BuiltinDone, Becomes, Fetch, Here, Ready
<1>2. SameDepth(app, app')
  <2>1. CASE Ins.text \in TemplateBuiltins
    BY <2>1, <1>1
  <2>2. CASE Ins.text \notin TemplateBuiltins
    <3> DEFINE other == SharedBuiltin(app, vm.scopes, Ins.text, a).app
    <3>1. r.app \in {ExecContinue, ExecBacktrace, app, SetSpeed(a[1]), other}
      BY <2>2 DEF VmBuiltin, Gives, GivesNothing
    <3>2. SameDepth(app, ExecContinue)
      <4>1. CASE app.paused > 0
        BY <4>1 DEF Ready, ExecContinue, SameDepth, AppShape, AppFields
      <4>2. CASE ~(app.paused > 0)
        <5>1. ExecContinue = SayLine(app, "CONTINUE: nothing is paused")
          BY <4>2 DEF ExecContinue
        <5> QED
          BY <5>1, SayKeeps, KeepsShape DEF Ready
      <4> QED
        BY <4>1, <4>2
    <3>3. Keeps(app, ExecBacktrace)
      <4>1. PICK text : ExecBacktrace = SayLine(Say(app, text), "  (top level)")
        BY Zenon DEF ExecBacktrace
      <4>2. Keeps(app, Say(app, text))
        BY SayKeeps DEF Ready
      <4>3. AppShape(Say(app, text))
        BY <4>2, KeepsShape DEF Ready
      <4> QED
        BY <4>1, <4>2, <4>3, SayKeeps, KeepsTwice
    <3>4. Keeps(app, SetSpeed(a[1]))
      BY DEF Ready, SetSpeed, Keeps, AppShape, AppFields
    <3>5. Keeps(app, other)
      BY SharedBuiltinKeeps DEF Ready
    <3> HIDE DEF other, a, r
    <3> QED
      BY <1>1, <3>1, <3>2, <3>3, <3>4, <3>5, KeepsShape, ReadyFacts DEF Ready
  <2> QED
    BY <2>1, <2>2
<1> HIDE DEF r
<1>3. Calm /\ Owed(status') = 0
  BY <1>1, <1>2, ReadyFacts DEF Calm
<1>4. Takes(Ins) = Ins.a /\ Puts(Ins) = 1 /\ Ins.a \in Nat
  BY <1>1, StackEffects, ReadyFacts
<1> QED
  BY <1>1, <1>3, <1>4, ReportsInPlace

LEMMA CheckOutputInPlace == ASSUME Ready, CheckOutput PROVE InPlace
<1>1. /\ InCode /\ Step /\ UNCHANGED <<chunks, status>>
      /\ Ins.op \in Mapping /\ Ins.op \notin {"OUTPUT", "STOP", "HALT", "JUMP"} /\ status' = "running"
      /\ \/ /\ vm' = Pushed(Drop(vm, 1), EmptyWord)
            /\ \E text : app' = SayLine(app, text)
         \/ UNCHANGED <<app, vm>>
  BY DEF CheckOutput, Becomes, Fetch, Here, Mapping, Ready
<1>2. SameDepth(app, app')
  BY <1>1, SayKeeps, KeepsShape, ReadyFacts DEF Ready
<1>3. Calm /\ Owed(status') = 0
  BY <1>1, <1>2, ReadyFacts DEF Calm
<1>4. Takes(Ins) = 1 /\ Puts(Ins) = 1
  BY <1>1, StackEffects
<1>5. CASE vm' = Pushed(Drop(vm, 1), EmptyWord)
  BY <1>1, <1>3, <1>4, <1>5, PushesInPlace
<1>6. CASE UNCHANGED vm
  BY <1>1, <1>3, <1>4, <1>6, StaysInPlace, ReadyFacts
<1> QED
  BY <1>1, <1>5, <1>6

LEMMA VoidResultInPlace == ASSUME Ready, VoidResult PROVE InPlace
<1>1. /\ InCode /\ Step /\ UNCHANGED <<app, chunks, status>>
      /\ Ins.op \in {"VOID_RESULT", "VOID_DISCARD"}
      /\ Ins.op \notin {"OUTPUT", "STOP", "HALT", "JUMP"} /\ status' = "running"
      /\ Ins.op = "VOID_DISCARD" => vm' = Pushed(Reports(Drop(vm, 1), TRUE, FALSE), Num(0))
      /\ Ins.op = "VOID_RESULT" => vm' = Pushed(Reports(vm, TRUE, FALSE), Num(0))
  BY DEF VoidResult, Fetch, Here, Ready
<1>2. Calm /\ Owed(status') = 0
  BY <1>1, ReadyFacts DEF Calm
<1>3. CASE Ins.op = "VOID_DISCARD"
  <2>1. Takes(Ins) = 1 /\ Puts(Ins) = 1
    BY <1>3, StackEffects DEF Mapping
  <2> QED
    BY <1>1, <1>2, <1>3, <2>1, ReportsInPlace
<1>4. CASE Ins.op = "VOID_RESULT"
  <2>1. Takes(Ins) = 0 /\ Puts(Ins) = 1
    BY <1>4, StackEffects DEF Plainly
  <2> QED
    BY <1>1, <1>2, <1>4, <2>1, ReportedInPlace
<1> QED
  BY <1>1, <1>3, <1>4

LEMMA LocalInPlace == ASSUME Ready, Local PROVE InPlace
<1> DEFINE r == DeclareLocal(app, vm.scopes, Ins.text)
           n == [vm EXCEPT !.scopes = r.ss]
<1>1. /\ InCode /\ Step /\ UNCHANGED <<chunks, status>> /\ app' = r.app /\ vm' = n
      /\ Ins.op \in Neutral /\ Ins.op \notin {"OUTPUT", "STOP", "HALT", "JUMP"} /\ status' = "running"
  BY DEF Local, Becomes, Fetch, Here, Neutral, Ready
<1>2. Keeps(app, r.app) /\ IsSeq(r.ss) /\ Len(r.ss) = Len(vm.scopes)
  BY DeclareLocalKeeps DEF Ready, VmShape
<1> HIDE DEF r
<1>3. /\ DOMAIN n = VmFields /\ n.top = vm.top /\ n.memory = vm.memory /\ n.scopes = r.ss
      /\ n.frames = vm.frames /\ n.repcounts = vm.repcounts
  BY DEF Ready, VmShape, VmFields
<1> HIDE DEF n
<1>4. VmShape(n)
  BY <1>2, <1>3 DEF Ready, VmShape
<1>5. Touches(vm, n, vm.top)
  BY <1>3, <1>4, ReadyFacts DEF Touches
<1>6. SameDepth(app, app')
  BY <1>1, <1>2, KeepsShape DEF Ready
<1>7. Calm /\ Owed(status') = 0
  BY <1>1, <1>6, ReadyFacts DEF Calm
<1>8. Takes(Ins) = 0 /\ Puts(Ins) = 0
  BY <1>1, StackEffects
<1> QED
  BY <1>1, <1>3, <1>5, <1>7, <1>8, StaysInPlace

\* Whatever ERASE does to the names, the addresses stay.
LEMMA EraseKeepsEntries ==
  ASSUME NEW c, NEW name, NEW d, AssembledChunk(c),
         d = [c EXCEPT !.procs = EraseNamed(c.procs, name)]
  PROVE  SameCode(c, d)
<1> DEFINE erased == EraseNamed(c.procs, name)
<1>1. Len(c.procs) \in Nat /\ DOMAIN c.procs = 1..Len(c.procs)
  BY SeqShape DEF AssembledChunk
<1>2. DOMAIN erased = 1..Len(c.procs) /\ erased = [i \in DOMAIN erased |-> erased[i]]
  BY DEF EraseNamed
<1>3. Len(erased) = Len(c.procs)
  BY <1>1, <1>2, MadeSeq
<1>4. \A i \in 1..Len(c.procs) : erased[i].pc = c.procs[i].pc
  BY DEF EraseNamed, AssembledChunk
<1>5. d.code = c.code /\ d.procs = erased /\ d.start = c.start
  BY DEF AssembledChunk
<1> HIDE DEF erased
<1>6. {<<d.procs[i].pc, 0, "procedure">> : i \in 1..Len(d.procs)}
        = {<<c.procs[i].pc, 0, "procedure">> : i \in 1..Len(c.procs)}
  BY <1>3, <1>4, <1>5
<1> QED
  BY <1>5, <1>6 DEF SameCode, Entries

LEMMA EraseProcInPlace == ASSUME Ready, EraseProc PROVE InPlace
<1>1. /\ InCode /\ Step /\ UNCHANGED <<vm, status>>
      /\ Ins.op \in Neutral /\ Ins.op \notin {"OUTPUT", "STOP", "HALT", "JUMP"} /\ status' = "running"
  BY DEF EraseProc, Fetch, Neutral, Ready
<1>2. SameDepth(app, app')
  <2>1. app' = app \/ \E text : app' = SayLine(app, text)
    BY DEF EraseProc
  <2> QED
    BY <2>1, SayKeeps, KeepsShape, ReadyFacts DEF Ready
<1>3. ChunksKept
  <2>1. CASE UNCHANGED chunks
    BY <2>1, ReadyFacts
  <2>2. CASE chunks' = [chunks EXCEPT ![Top.chunk].procs = EraseNamed(@, Ins.text)]
    <3> DEFINE c == [Chunk EXCEPT !.procs = EraseNamed(Chunk.procs, Ins.text)]
    <3>1. SameCode(Chunk, c)
      BY EraseKeepsEntries DEF Ready
    <3>2. chunks' = Altered(chunks, Top.chunk, c)
      BY <2>2 DEF Altered, Chunk
    <3> HIDE DEF c
    <3>3. /\ IsSeq(chunks') /\ Len(chunks') = Len(chunks)
          /\ \A i \in 1..Len(chunks) : chunks'[i] = IF i = Top.chunk THEN c ELSE chunks[i]
      BY <3>2, AlteredSeq DEF Ready
    <3> QED
      BY <3>1, <3>3 DEF ChunksKept, SameCode, Chunk
  <2> QED
    BY <2>1, <2>2 DEF EraseProc
<1>4. Calm /\ Owed(status') = 0
  BY <1>1, <1>2, <1>3, ReadyFacts DEF Calm
<1>5. Takes(Ins) = 0 /\ Puts(Ins) = 0
  BY <1>1, StackEffects
<1> QED
  BY <1>1, <1>4, <1>5, StaysInPlace, ReadyFacts

LEMMA JumpInPlace == ASSUME Ready, Jump PROVE InPlace
<1>1. /\ InCode /\ UNCHANGED <<app, vm, chunks, status>> /\ Goto(Ins.a) /\ Ins.op = "JUMP"
      /\ status' = "running"
  BY DEF Jump, Fetch, Here, Ready
<1>2. Ins.a \in Successors(Ins, Top.pc)
  BY <1>1 DEF Successors
<1>3. Takes(Ins) = 0 /\ Puts(Ins) = 0
  BY <1>1, StackEffects DEF Neutral
<1>4. Settled => /\ vm'.top + Owed(status') = vm.top - Takes(Ins) + Puts(Ins)
                 /\ Touches(vm, vm', vm.top - Takes(Ins))
  BY <1>1, <1>3, ReadyFacts
<1> QED
  BY <1>1, <1>2, <1>4, ReadyFacts DEF InPlace, Ready

LEMMA CheckThrowInPlace == ASSUME Ready, CheckThrow PROVE InPlace
<1>1. /\ InCode /\ UNCHANGED <<app, vm, chunks, status>> /\ Ins.op = "CHECK_THROW"
      /\ \E pc \in {Top.pc + 1, Ins.a} : Goto(pc)
      /\ status' = "running"
  BY DEF CheckThrow, Fetch, Here, Ready
<1>2. Successors(Ins, Top.pc) = {Top.pc + 1, Ins.a}
  BY <1>1 DEF Successors
<1>3. Takes(Ins) = 0 /\ Puts(Ins) = 0
  BY <1>1, StackEffects DEF Neutral
<1>4. Settled => /\ vm'.top + Owed(status') = vm.top - Takes(Ins) + Puts(Ins)
                 /\ Touches(vm, vm', vm.top - Takes(Ins))
  BY <1>1, <1>3, ReadyFacts
<1> QED
  BY <1>1, <1>2, <1>4, ReadyFacts DEF InPlace, Ready

LEMMA JumpIfFalseInPlace == ASSUME Ready, JumpIfFalse PROVE InPlace
<1>1. /\ InCode /\ UNCHANGED <<app, chunks, status>> /\ Ins.op = "JUMP_IF_FALSE"
      /\ vm' = Drop(vm, 1) /\ status' = "running"
      /\ \E pc \in {Top.pc + 1, Ins.a} : Goto(pc)
  BY DEF JumpIfFalse, Fetch, Here, Ready
<1>2. Successors(Ins, Top.pc) = {Top.pc + 1, Ins.a}
  BY <1>1 DEF Successors
<1>3. Takes(Ins) = 1 /\ Puts(Ins) = 0
  BY <1>1, StackEffects DEF Taking
<1>4. Touches(vm, vm', vm.top) /\ (1 <= vm.top => vm'.top = vm.top - 1)
  BY <1>1, DropTouches DEF Ready
<1>5. Settled => 1 <= vm.top
  BY <1>3, ReadyFacts DEF Settled
<1>6. Touches(vm, vm', 0) /\ Touches(vm, vm', vm.top - 1)
  BY <1>4, ReadyFacts DEF Touches
<1>7. Settled => /\ vm'.top + Owed(status') = vm.top - Takes(Ins) + Puts(Ins)
                 /\ Touches(vm, vm', vm.top - Takes(Ins))
  BY <1>1, <1>3, <1>4, <1>5, <1>6, ReadyFacts
<1> QED
  BY <1>1, <1>2, <1>6, <1>7, ReadyFacts DEF InPlace, Ready

LEMMA CatchInPlace == ASSUME Ready, Catch PROVE InPlace
<1>1. /\ InCode /\ UNCHANGED <<chunks, status>> /\ Step /\ Ins.op = "CATCH_CHECK"
      /\ vm' = Drop(vm, 1) /\ status' = "running"
      /\ app' = CatchCheck(app, ValueText(TopOf(vm, 0)))
  BY DEF Catch, Becomes, Fetch, Here, Ready
<1>2. SameDepth(app, app')
  BY <1>1, ThrowKeeps, KeepsShape DEF Ready
<1>3. Calm /\ Owed(status') = 0
  BY <1>1, <1>2, ReadyFacts DEF Calm
<1>4. Takes(Ins) = 1 /\ Puts(Ins) = 0
  BY <1>1, StackEffects DEF Taking
<1> QED
  BY <1>1, <1>3, <1>4, DropsInPlace

LEMMA CheckUncaughtThrowInPlace == ASSUME Ready, CheckUncaughtThrow PROVE InPlace
<1>1. /\ InCode /\ UNCHANGED <<vm, chunks, status>> /\ Step /\ Ins.op = "CHECK_UNCAUGHT_THROW"
      /\ status' = "running" /\ (app' = app \/ app' = ReportUncaught(app))
  BY DEF CheckUncaughtThrow, Fetch, Here, Ready
<1>2. SameDepth(app, app')
  BY <1>1, ThrowKeeps, KeepsShape, ReadyFacts DEF Ready
<1>3. Calm /\ Owed(status') = 0
  BY <1>1, <1>2, ReadyFacts DEF Calm
<1>4. Takes(Ins) = 0 /\ Puts(Ins) = 0
  BY <1>1, StackEffects DEF Neutral
<1> QED
  BY <1>1, <1>3, <1>4, StaysInPlace, ReadyFacts

LEMMA CountRepeatInPlace == ASSUME Ready, CountRepeat PROVE InPlace
<1> DEFINE n == Len(vm.repcounts)
           more == Append(vm.repcounts, 1)
           counted == Altered(vm.repcounts, n, vm.repcounts[n] + 1)
           fewer == Front(vm.repcounts)
<1>1. /\ InCode /\ UNCHANGED <<app, chunks, status>> /\ Step /\ Ins.op \in Neutral
      /\ Ins.op \notin {"OUTPUT", "STOP", "HALT", "JUMP"} /\ status' = "running"
      /\ \/ vm' = vm
         \/ n < MaxVmScopes /\ vm' = [vm EXCEPT !.repcounts = more]
         \/ vm' = [vm EXCEPT !.repcounts = counted]
         \/ n > 0 /\ vm' = [vm EXCEPT !.repcounts = fewer]
  BY DEF CountRepeat, Fetch, Here, Ready, Neutral, Altered
<1>2. n \in Nat /\ MaxVmScopes \in Nat /\ IsSeq(vm.repcounts) /\ n <= MaxVmScopes
  BY SeqShape, VmLimits DEF Ready, VmShape
<1>3. IsSeq(more) /\ Len(more) = n + 1
  BY <1>2, AppendSeq
<1>4. IsSeq(counted) /\ Len(counted) = n
  BY <1>2, AlteredSeq
<1>5. n > 0 => IsSeq(fewer) /\ Len(fewer) = n - 1
  BY <1>2, FrontSeq, EmptyIsSeq
<1> HIDE DEF more, counted, fewer, n
<1>6. Touches(vm, vm', vm.top) /\ vm'.top = vm.top
  <2>1. ASSUME NEW r, IsSeq(r), Len(r) <= MaxVmScopes, vm' = [vm EXCEPT !.repcounts = r]
        PROVE  Touches(vm, vm', vm.top) /\ vm'.top = vm.top
    <3>1. /\ DOMAIN vm' = VmFields /\ vm'.top = vm.top /\ vm'.memory = vm.memory
          /\ vm'.scopes = vm.scopes /\ vm'.frames = vm.frames /\ vm'.repcounts = r
      BY <2>1 DEF Ready, VmShape, VmFields
    <3>2. VmShape(vm')
      BY <2>1, <3>1 DEF Ready, VmShape
    <3> QED
      BY <3>1, <3>2, ReadyFacts DEF Touches
  <2> QED
    BY <1>1, <1>2, <1>3, <1>4, <1>5, <2>1, ReadyFacts
<1>7. Calm /\ Owed(status') = 0
  BY <1>1, ReadyFacts DEF Calm
<1>8. Takes(Ins) = 0 /\ Puts(Ins) = 0
  BY <1>1, StackEffects
<1> QED
  BY <1>1, <1>6, <1>7, <1>8, StaysInPlace

LEMMA RefuseNestedKeeps ==
  ASSUME Ready
  PROVE  SameDepth(app, RefuseNested(app))
BY SayKeeps, KeepsShape DEF Ready, RefuseNested

LEMMA WaitInPlace == ASSUME Ready, Wait PROVE InPlace
<1>1. /\ InCode /\ UNCHANGED chunks /\ Step /\ Ins.op = "WAIT" /\ vm' = Drop(vm, 1)
      /\ status' \in {"running", "WAIT"}
      /\ app' = app \/ app' = RefuseNested(app)
  BY DEF Wait, Fetch, Suspend, Ready
<1>2. SameDepth(app, app')
  BY <1>1, RefuseNestedKeeps, ReadyFacts
<1>3. Calm /\ Owed(status') = 0
  BY <1>1, <1>2, ReadyFacts DEF Calm, Owed
<1>4. Takes(Ins) = 1 /\ Puts(Ins) = 0
  BY <1>1, StackEffects DEF Taking
<1> QED
  BY <1>1, <1>3, <1>4, DropsInPlace

LEMMA AskUserInPlace == ASSUME Ready, AskUser PROVE InPlace
<1>1. /\ InCode /\ UNCHANGED chunks /\ Step /\ Ins.op \in {"WAITKEY", "INPUT"}
      /\ \/ /\ app' = RefuseNested(app) /\ status' = "running"
            /\ vm' = Reports(Pushed(vm, EmptyWord), TRUE, TRUE)
         \/ status' = Ins.op /\ UNCHANGED <<app, vm>>
  BY DEF AskUser, Fetch, Suspend, Becomes, Ready
<1>2. SameDepth(app, app')
  BY <1>1, RefuseNestedKeeps, ReadyFacts
<1>3. Calm
  BY <1>1, <1>2, ReadyFacts DEF Calm
<1>4. Takes(Ins) = 0 /\ Puts(Ins) = 1
  BY <1>1, StackEffects DEF Plainly
<1>5. CASE status' = Ins.op /\ UNCHANGED <<app, vm>>
  <2>1. Owed(status') = 1
    BY <1>1, <1>5 DEF Owed
  <2> QED
    BY <2>1, <1>1, <1>3, <1>4, <1>5, StaysInPlace, ReadyFacts
<1>6. CASE status' = "running" /\ vm' = Reports(Pushed(vm, EmptyWord), TRUE, TRUE)
  <2> DEFINE p == Pushed(vm, EmptyWord)
  <2>1. Touches(vm, p, vm.top) /\ (vm.top < MaxVmStack => p.top = vm.top + 1)
    BY PushedTouches DEF Ready
  <2>2. VmShape(p)
    BY <2>1 DEF Touches
  <2> HIDE DEF p
  <2>3. Touches(p, vm', p.top) /\ vm'.top = p.top /\ p.top \in Nat /\ vm'.memory = p.memory
    BY <2>2, <1>6, ReportsTouch DEF p, VmShape
  <2>4. Touches(vm, vm', vm.top) /\ Touches(vm, vm', 0)
    BY <2>1, <2>2, <2>3, ReadyFacts DEF Touches
  <2>5. Settled => /\ vm'.top + Owed(status') = vm.top - Takes(Ins) + Puts(Ins)
                   /\ Touches(vm, vm', vm.top - Takes(Ins))
    <3>1. vm.top - Takes(Ins) = vm.top
      BY <1>4, ReadyFacts
    <3>2. Settled => vm.top < MaxVmStack
      BY DEF Settled
    <3>3. Settled => vm'.top + Owed(status') = vm.top - Takes(Ins) + Puts(Ins)
      <4>1. Owed(status') = 0
        BY <1>6, ReadyFacts
      <4>2. Settled => vm'.top = vm.top + 1
        BY <2>1, <2>3, <3>2
      <4> QED
        BY <4>1, <4>2, <1>4, ReadyFacts
    <3> QED
      BY <3>1, <3>3, <2>4
  <2> QED
    BY <1>1, <1>3, <2>4, <2>5, StepsInPlace DEF Calm
<1> QED
  BY <1>1, <1>5, <1>6

LEMMA PauseInPlace == ASSUME Ready, Pause PROVE InPlace
<1>1. /\ InCode /\ UNCHANGED <<vm, chunks>> /\ Step /\ Ins.op = "PAUSE"
      /\ status' \in {"running", "PAUSE"}
      /\ \/ app' = RefuseNested(app)
         \/ \E text : app' = SayLine([app EXCEPT !.paused = app.paused + 1], text)
  BY DEF Pause, Fetch, Suspend, Ready
<1>2. SameDepth(app, app')
  <2>1. AppShape([app EXCEPT !.paused = app.paused + 1]) 
    BY DEF Ready, AppShape, AppFields
  <2>2. SameDepth(app, [app EXCEPT !.paused = app.paused + 1]) 
    BY <2>1 DEF Ready, AppShape, AppFields, SameDepth
  <2> DEFINE b == [app EXCEPT !.paused = app.paused + 1]
  <2> HIDE DEF b
  <2>3. \A text : SameDepth(b, SayLine(b, text))
    BY <2>1, SayKeeps, KeepsShape DEF b
  <2>4. \A text : SameDepth(app, SayLine(b, text))
    BY <2>2, <2>3 DEF b, SameDepth
  <2> QED
    BY <1>1, <2>4, RefuseNestedKeeps DEF b
<1>3. Calm /\ Owed(status') = 0
  BY <1>1, <1>2, ReadyFacts DEF Calm, Owed
<1>4. Takes(Ins) = 0 /\ Puts(Ins) = 0
  BY <1>1, StackEffects DEF Neutral
<1> QED
  BY <1>1, <1>3, <1>4, StaysInPlace, ReadyFacts

LEMMA AwaitOrYieldInPlace == ASSUME Ready, AwaitOrYield PROVE InPlace
<1>1. /\ InCode /\ UNCHANGED <<vm, chunks>> /\ Step /\ Ins.op \in {"AWAIT", "YIELD"}
      /\ status' \in {"running", "AWAIT", "YIELD"} /\ status' \in {"running", Ins.op}
      /\ app' = app \/ app' = RefuseNested(app)
  BY DEF AwaitOrYield, Fetch, Suspend, Ready
<1>2. SameDepth(app, app')
  BY <1>1, RefuseNestedKeeps, ReadyFacts
<1>3. Calm /\ Owed(status') = 0
  BY <1>1, <1>2, ReadyFacts DEF Calm, Owed
<1>4. Takes(Ins) = 0 /\ Puts(Ins) = 0
  BY <1>1, StackEffects DEF Neutral
<1> QED
  BY <1>1, <1>3, <1>4, StaysInPlace, ReadyFacts

LEMMA MotionDelayInPlace == ASSUME Ready, MotionDelay PROVE InPlace
<1>1. /\ InCode /\ UNCHANGED <<app, vm, chunks>> /\ Step /\ Ins.op = "MOTION_DELAY"
      /\ status' \in {"running", "MOTION_DELAY"}
  BY DEF MotionDelay, Fetch, Suspend, Ready
<1>2. Calm /\ Owed(status') = 0
  BY <1>1, ReadyFacts DEF Calm, Owed
<1>3. Takes(Ins) = 0 /\ Puts(Ins) = 0
  BY <1>1, StackEffects DEF Neutral
<1> QED
  BY <1>1, <1>2, <1>3, StaysInPlace, ReadyFacts

LEMMA LaunchInPlace == ASSUME Ready, Launch PROVE InPlace
<1> DEFINE d == Drop(vm, 2)
<1>1. /\ InCode /\ UNCHANGED chunks /\ Step /\ Ins.op = "LAUNCH"
      /\ status' \in {"running", "LAUNCH"}
      /\ \/ vm' = Pushed(d, Num(0)) /\ ~Launchable
         \/ vm' = d
      /\ app' = app \/ \E text : app' = SayLine(app, text)
  <2> DEFINE r == ResolveApply("LAUNCH", Chunk.procs, ValueText(TopOf(vm, 1)), TopOf(vm, 0))
             fails == Depth > 1 \/ r.def = <<>>
  <2>1. /\ InCode /\ UNCHANGED chunks /\ Step /\ Ins.op = "LAUNCH" /\ status = "running"
        /\ IF fails THEN /\ vm' = Pushed(d, Num(0))
                         /\ app' = (IF Depth > 1 THEN RefuseNested(app) ELSE SayLine(app, r.msg))
                         /\ UNCHANGED status
                    ELSE /\ vm' = d
                         /\ Suspend /\ UNCHANGED app
    BY DEF Launch, Fetch, Ready
  <2>2. fails => ~Launchable
    BY DEF Launchable
  <2>3. \E text : RefuseNested(app) = SayLine(app, text)
    BY DEF RefuseNested
  <2> HIDE DEF d, fails
  <2> QED
    BY <2>1, <2>2, <2>3 DEF Suspend
<1>2. SameDepth(app, app')
  BY <1>1, SayKeeps, KeepsShape, ReadyFacts DEF Ready
<1>3. Calm /\ Owed(status') = 0
  BY <1>1, <1>2, ReadyFacts DEF Calm, Owed
<1>4. Takes(Ins) = 2 /\ Puts(Ins) = 0
  BY <1>1, StackEffects
<1>5. CASE vm' = d
  BY <1>1, <1>3, <1>4, <1>5, DropsInPlace
<1>6. CASE vm' = Pushed(d, Num(0)) /\ ~Launchable
  <2>1. Touches(vm, vm', 0)
    BY <1>6, PushAfterDrop DEF Ready
  <2>2. ~Settled
    BY <1>1, <1>6 DEF Settled
  <2> QED
    BY <1>1, <1>3, <2>1, <2>2, StepsInPlace DEF Calm
<1> QED
  BY <1>1, <1>5, <1>6

-----------------------------------------------------------------------------
(* Calls.                                                                  *)

LEMMA FindByNameFinds ==
  ASSUME NEW procs, NEW name, IsSeq(procs), FindByName(procs, name) # <<>>
  PROVE  \E j \in 1..Len(procs) : FindByName(procs, name)[1] = procs[j]
<1> DEFINE hits == {i \in 1..Len(procs) : procs[i].name = name}
           i == SelectInSeq(procs, LAMBDA p : p.name = name)
<1>1. i = IF hits # {} THEN Min(hits) ELSE 0
  BY DEF SelectInSeq
<1>2. i # 0 /\ FindByName(procs, name) = <<procs[i]>>
  BY DEF FindByName
<1> HIDE DEF i
<1>3. hits # {} /\ i = Min(hits)
  BY <1>1, <1>2
<1>4. Len(procs) \in Nat
  BY SeqShape
<1>5. \E x \in hits : \A y \in hits : x <= y
  BY <1>3, <1>4, LeastIndex
<1>6. Min(hits) \in hits
  BY <1>5 DEF Min
<1>7. i \in 1..Len(procs)
  BY <1>3, <1>6
<1> QED
  BY <1>2, <1>7

LEMMA MethodIsProcedure ==
  ASSUME NEW a, NEW procs, NEW object, NEW message, IsSeq(procs),
         ResolveMethod(a, procs, object, message).def # <<>>
  PROVE  \E j \in 1..Len(procs) : ResolveMethod(a, procs, object, message).def[1] = procs[j]
<1> DEFINE value == ResolveMessage(a, object, message)
           named == IF value = <<>> THEN <<>>
                    ELSE IF IsWordVal(value[1]) THEN FindByName(procs, value[1][2]) ELSE <<>>
           r == ResolveMethod(a, procs, object, message)
<1>1. r.def = <<>> \/ r.def = named
  BY DEF ResolveMethod
<1>2. named # <<>>
  BY <1>1
<1>3. \E name : named = FindByName(procs, name)
  BY <1>2
<1> QED
  BY <1>1, <1>2, <1>3, FindByNameFinds

LEMMA AppliedIsProcedure ==
  ASSUME NEW who, NEW procs, NEW name, NEW list, IsSeq(procs),
         ResolveApply(who, procs, name, list).def # <<>>
  PROVE  \E j \in 1..Len(procs) : ResolveApply(who, procs, name, list).def[1] = procs[j]
<1> DEFINE named == FindByName(procs, name)
           r == ResolveApply(who, procs, name, list)
<1>1. r.def = <<>> \/ r.def = named
  BY DEF ResolveApply
<1> QED
  BY <1>1, FindByNameFinds

\* A call that is entered pushes a frame and a scope; any other leaves failed.
LEMMA EnterOrFail ==
  ASSUME Ready, NEW m, NEW def, NEW args, NEW target, NEW failed, VmShape(m),
         Enter(m, def, args, target, failed)
  PROVE  \/ Step /\ vm' = failed /\ (app' = app \/ app' = TooDeep(app))
         \/ /\ Goto(target) /\ UNCHANGED app /\ VmShape(vm')
            /\ vm'.memory = m.memory /\ vm'.top = m.top
            /\ vm'.frames = Append(m.frames, [pc |-> Top.pc + 1, base |-> m.top])
<1> DEFINE scope == PushScope(m.scopes, MaxVmScopes, def.name, def.params, args)
           frame == [pc |-> Top.pc + 1, base |-> m.top]
           frames == Append(m.frames, frame)
<1>1. CASE Len(m.frames) >= MaxVmFrames
  BY <1>1 DEF Enter, Becomes
<1>2. CASE ~(Len(m.frames) >= MaxVmFrames) /\ scope = <<>>
  BY <1>2 DEF Enter, Becomes
<1>3. CASE ~(Len(m.frames) >= MaxVmFrames) /\ scope # <<>>
  <2>1. /\ vm' = [m EXCEPT !.scopes = scope[1], !.frames = frames]
        /\ Goto(target) /\ UNCHANGED app
    BY <1>3 DEF Enter
  <2>2. PICK new : scope[1] = Append(m.scopes, new) /\ ~(Len(m.scopes) >= MaxVmScopes)
    BY <1>3 DEF PushScope
  <2>3. /\ Len(m.frames) \in Nat /\ Len(m.scopes) \in Nat /\ m.top \in Nat
        /\ MaxVmScopes \in Nat /\ MaxVmFrames \in Nat /\ Len(m.memory) \in Nat
    BY SeqShape, VmLimits DEF VmShape
  <2>4. /\ IsSeq(scope[1]) /\ Len(scope[1]) = Len(m.scopes) + 1
    BY <2>2, AppendSeq DEF VmShape
  <2>5. /\ IsSeq(frames) /\ Len(frames) = Len(m.frames) + 1 /\ frames[Len(m.frames) + 1] = frame
        /\ \A i \in 1..Len(m.frames) : frames[i] = m.frames[i]
    BY AppendSeq DEF VmShape
  <2>6. frame.base = m.top
    OBVIOUS
  <2> HIDE DEF scope, frames, frame
  <2>7. /\ DOMAIN vm' = VmFields /\ vm'.top = m.top /\ vm'.memory = m.memory
        /\ vm'.scopes = scope[1] /\ vm'.frames = frames /\ vm'.repcounts = m.repcounts
    BY <2>1 DEF VmShape, VmFields
  <2>8. \A i \in 1..Len(frames) : /\ frames[i].base \in Nat
                                  /\ frames[i].base <= MaxVmStack
                                  /\ frames[i].base <= Len(m.memory)
    <3> SUFFICES ASSUME NEW i \in 1..Len(frames)
                 PROVE  /\ frames[i].base \in Nat
                        /\ frames[i].base <= MaxVmStack
                        /\ frames[i].base <= Len(m.memory)
      OBVIOUS
    <3>1. CASE i = Len(m.frames) + 1
      BY <3>1, <2>5, <2>6 DEF VmShape
    <3>2. CASE i \in 1..Len(m.frames)
      BY <3>2, <2>5 DEF VmShape
    <3> QED
      BY <3>1, <3>2, <2>3, <2>5
  <2>9. VmShape(vm')
    BY <2>2, <2>3, <2>4, <2>5, <2>7, <2>8, <1>3 DEF VmShape
  <2> QED
    BY <2>1, <2>7, <2>9 DEF frames, frame
<1> QED
  BY <1>1, <1>2, <1>3

\* A procedure is entered: its frame keeps the height it began at.
Entered ==
  /\ status = "running" /\ InCode /\ UNCHANGED <<app, chunks, status>>
  /\ Ins.op \in {"CALL_PROC", "SEND", "APPLY"}
  /\ \E t : /\ Goto(t)
            /\ CallsLand(Chunk) => \E j \in 1..Len(Chunk.procs) : Chunk.procs[j].pc = t
  /\ VmShape(vm') /\ vm'.memory = vm.memory
  /\ vm'.frames = Append(vm.frames, [pc |-> Top.pc + 1, base |-> vm'.top])
  /\ Settled => vm'.top = vm.top - Takes(Ins)

\* A call is refused, or fails to be entered, in place.
LEMMA RefusedInPlace ==
  ASSUME Ready, InCode, Step, UNCHANGED <<chunks, status>>,
         app' = app \/ \E text : app' = SayLine(app, text),
         Ins.op \in {"CALL_PROC", "SEND", "APPLY"},
         NEW n \in Nat, NEW m, NEW v, Takes(Ins) = n, VmShape(m), Touches(vm, m, vm.top),
         m.memory = vm.memory, m.top = Drop(vm, n).top,
         vm' = Pushed(m, v) \/ \E x, y : vm' = Pushed(Reports(m, x, y), v)
  PROVE  InPlace
<1>1. /\ Drop(vm, n).top \in Nat /\ Drop(vm, n).top <= vm.top
      /\ n <= vm.top => Drop(vm, n).top = vm.top - n
  BY DropTouches DEF Ready
<1>2. PICK e : /\ vm' = Pushed(e, v) /\ VmShape(e) /\ Touches(m, e, m.top) /\ e.top = m.top
  <2>1. Touches(m, m, m.top)
    BY SeqShape DEF Touches, VmShape
  <2>2. \A x, y : /\ VmShape(Reports(m, x, y)) /\ Touches(m, Reports(m, x, y), m.top)
                  /\ Reports(m, x, y).top = m.top
    BY ReportsTouch DEF Touches
  <2> QED
    BY <2>1, <2>2
<1>3. Touches(e, vm', e.top) /\ (e.top < MaxVmStack => vm'.top = e.top + 1)
  BY <1>2, PushedTouches
<1>4. Touches(vm, e, m.top)
  BY <1>1, <1>2, ReadyFacts, TouchesTwice DEF Ready
<1>5. Touches(vm, vm', m.top)
  BY <1>1, <1>2, <1>3, <1>4, ReadyFacts, TouchesTwice DEF Ready
<1>6. Touches(vm, vm', 0)
  BY <1>1, <1>5, ReadyFacts DEF Touches
<1>7. status' = "running" /\ Owed(status') = 0
  BY ReadyFacts DEF Ready
<1>8. Puts(Ins) = 1
  BY StackEffects DEF Pairing
<1>9. ASSUME Settled
      PROVE  /\ vm'.top + Owed(status') = vm.top - Takes(Ins) + Puts(Ins)
             /\ Touches(vm, vm', vm.top - Takes(Ins))
  <2>1. n <= vm.top /\ vm.top < MaxVmStack
    BY <1>9, ReadyFacts DEF Settled
  <2>2. m.top = vm.top - n /\ vm'.top = vm.top - n + 1
    BY <2>1, <1>1, <1>2, <1>3, ReadyFacts
  <2> QED
    BY <2>2, <1>5, <1>7, <1>8, ReadyFacts
<1>10. SameDepth(app, app')
  BY SayKeeps, KeepsShape, ReadyFacts DEF Ready
<1> QED
  BY <1>6, <1>7, <1>9, <1>10, StepsInPlace, ReadyFacts

\* What the three calls have in common: a refusal, or Enter on the operands dropped.
LEMMA CallKinds ==
  ASSUME Ready, InCode, UNCHANGED <<chunks, status>>, Ins.op \in {"CALL_PROC", "SEND", "APPLY"},
         NEW n \in Nat, NEW m, NEW v, Takes(Ins) = n, VmShape(m), Touches(vm, m, vm.top),
         m.memory = vm.memory, m.top = Drop(vm, n).top, m.frames = vm.frames,
         NEW def, NEW args, NEW target, NEW failed,
         \/ Step /\ vm' = failed /\ (app' = app \/ \E text : app' = SayLine(app, text))
         \/ /\ Enter(m, def, args, target, failed)
            /\ CallsLand(Chunk) => \E j \in 1..Len(Chunk.procs) : Chunk.procs[j].pc = target,
         failed = Pushed(m, v) \/ \E x, y : failed = Pushed(Reports(m, x, y), v)
  PROVE  InPlace \/ Entered
<1>1. CASE Step /\ vm' = failed /\ (app' = app \/ \E text : app' = SayLine(app, text))
  BY <1>1, RefusedInPlace
<1>2. CASE /\ Enter(m, def, args, target, failed)
           /\ CallsLand(Chunk) => \E j \in 1..Len(Chunk.procs) : Chunk.procs[j].pc = target
  <2>1. CASE Step /\ vm' = failed /\ (app' = app \/ app' = TooDeep(app))
    <3>1. app' = app \/ \E text : app' = SayLine(app, text)
      BY <2>1 DEF TooDeep
    <3> QED
      BY <2>1, <3>1, RefusedInPlace
  <2>2. CASE /\ Goto(target) /\ UNCHANGED app /\ VmShape(vm')
             /\ vm'.memory = m.memory /\ vm'.top = m.top
             /\ vm'.frames = Append(m.frames, [pc |-> Top.pc + 1, base |-> m.top])
    <3>1. Settled => vm'.top = vm.top - Takes(Ins)
      BY <2>2, DropTouches, ReadyFacts DEF Ready, Settled
    <3>2. vm'.frames = Append(vm.frames, [pc |-> Top.pc + 1, base |-> vm'.top])
      BY <2>2
    <3> QED
      BY <1>2, <2>2, <3>1, <3>2 DEF Entered, Ready
  <2> QED
    BY <1>2, <2>1, <2>2, EnterOrFail
<1> QED
  BY <1>1, <1>2

LEMMA CallProcKinds == ASSUME Ready, CallProc PROVE InPlace \/ Entered
<1> DEFINE def == FindProcEntry(Chunk.procs, Ins.text)
           n == Ins.b
           m == Drop(vm, n)
           args == Args(vm, n)
<1>1. InCode /\ UNCHANGED <<chunks, status>> /\ Ins.op = "CALL_PROC"
  BY DEF CallProc, Fetch, Here
<1>2. n \in Nat /\ Takes(Ins) = n
  BY <1>1, ReadyFacts, StackEffects
<1>3. /\ Touches(vm, m, vm.top) /\ m.memory = vm.memory /\ VmShape(m) /\ m.frames = vm.frames
  BY <1>2, DropTouches DEF Ready, Touches
<1>4. CASE def = <<>>
  <2> DEFINE failed == Pushed(Reports(m, FALSE, FALSE), Num(0))
  <2>1. Step /\ vm' = failed /\ \E text : app' = SayLine(app, text)
    BY <1>4 DEF CallProc, Refuse, Becomes
  <2> HIDE DEF m, n
  <2> QED
    BY <1>1, <1>2, <1>3, <2>1, CallKinds DEF m
<1>5. CASE def # <<>>
  <2> DEFINE failed == Pushed(Reports(m, TRUE, FALSE), Num(0))
  <2>1. Enter(m, def[1], args, Ins.a, failed)
    BY <1>5 DEF CallProc
  <2>2. CallsLand(Chunk) => \E j \in 1..Len(Chunk.procs) : Chunk.procs[j].pc = Ins.a
    <3>1. \E j \in 1..Len(Chunk.procs) : Chunk.procs[j].name = Ins.text
      BY <1>5 DEF FindProcEntry
    <3>2. Top.pc + 1 \in 1..Len(Chunk.code) /\ Chunk.code[Top.pc + 1] = Ins
      <4>1. Len(Chunk.code) \in Nat
        BY SeqShape DEF Ready, AssembledChunk
      <4> QED
        BY <1>1, <4>1 DEF InCode, Ins
    <3> QED
      BY <1>1, <3>1, <3>2 DEF CallsLand
  <2> HIDE DEF m, n, def, args
  <2> QED
    BY <1>1, <1>2, <1>3, <2>1, <2>2, CallKinds DEF m
<1> QED
  BY <1>4, <1>5

LEMMA SendKinds == ASSUME Ready, Send PROVE InPlace \/ Entered
<1> DEFINE object  == ValueText(TopOf(vm, 2))
           message == ValueText(TopOf(vm, 1))
           method  == ResolveMethod(app, Chunk.procs, object, message)
           args    == SendArgs(object, TopOf(vm, 0))
           d       == Drop(vm, 3)
           m       == [d EXCEPT !.message = message]
<1>1. InCode /\ UNCHANGED <<chunks, status>> /\ Ins.op = "SEND"
  BY DEF Send, Fetch, Here
<1>2. Takes(Ins) = 3
  BY <1>1, StackEffects
<1>3. /\ Touches(vm, m, vm.top) /\ m.memory = vm.memory /\ VmShape(m) /\ m.frames = vm.frames
      /\ m.top = Drop(vm, 3).top
  <2>1. Touches(vm, d, vm.top) /\ d.memory = vm.memory /\ VmShape(d) /\ d.frames = vm.frames
    BY DropTouches DEF Ready, Touches
  <2> HIDE DEF d
  <2>2. /\ DOMAIN m = VmFields /\ m.top = d.top /\ m.memory = d.memory
        /\ m.scopes = d.scopes /\ m.frames = d.frames /\ m.repcounts = d.repcounts
    BY <2>1 DEF VmShape, VmFields
  <2> HIDE DEF m
  <2>3. VmShape(m)
    BY <2>1, <2>2 DEF VmShape
  <2> QED
    BY <2>1, <2>2, <2>3, ReadyFacts DEF Touches, d
<1> DEFINE failed == Pushed(Reports(m, FALSE, FALSE), EmptyWord)
<1>4. CASE method.def = <<>> \/ Len(args) # Len(method.def[1].params)
  <2>1. Step /\ vm' = failed /\ \E text : app' = SayLine(app, text)
    BY <1>4 DEF Send, Refuse, Becomes
  <2> HIDE DEF m, d
  <2> QED
    BY <1>1, <1>2, <1>3, <2>1, CallKinds
<1>5. CASE ~(method.def = <<>> \/ Len(args) # Len(method.def[1].params))
  <2>1. Enter(m, method.def[1], args, method.def[1].pc, failed)
    BY <1>5 DEF Send
  <2>2. \E j \in 1..Len(Chunk.procs) : Chunk.procs[j].pc = method.def[1].pc
    <3>1. \E j \in 1..Len(Chunk.procs) : method.def[1] = Chunk.procs[j]
      BY <1>5, MethodIsProcedure DEF Ready, AssembledChunk
    <3> HIDE DEF method
    <3> QED
      BY <3>1
  <2> HIDE DEF m, d, method, args
  <2> QED
    BY <1>1, <1>2, <1>3, <2>1, <2>2, CallKinds
<1> QED
  BY <1>4, <1>5

LEMMA ApplyKinds == ASSUME Ready, Apply PROVE InPlace \/ Entered
<1> DEFINE r == ResolveApply("APPLY", Chunk.procs, ValueText(TopOf(vm, 1)), TopOf(vm, 0))
           m == Drop(vm, 2)
           failed == Pushed(m, Num(0))
<1>1. InCode /\ UNCHANGED <<chunks, status>> /\ Ins.op = "APPLY"
  BY DEF Apply, Fetch, Here
<1>2. Takes(Ins) = 2
  BY <1>1, StackEffects DEF Pairing
<1>3. /\ Touches(vm, m, vm.top) /\ m.memory = vm.memory /\ VmShape(m) /\ m.frames = vm.frames
  BY DropTouches DEF Ready, Touches
<1>4. CASE r.def = <<>>
  <2>1. Step /\ vm' = failed /\ \E text : app' = SayLine(app, text)
    BY <1>4 DEF Apply, Becomes
  <2> HIDE DEF m
  <2> QED
    BY <1>1, <1>2, <1>3, <2>1, CallKinds DEF m
<1>5. CASE r.def # <<>>
  <2>1. Enter(m, r.def[1], r.args, r.def[1].pc, failed)
    BY <1>5 DEF Apply
  <2>2. \E j \in 1..Len(Chunk.procs) : Chunk.procs[j].pc = r.def[1].pc
    <3>1. \E j \in 1..Len(Chunk.procs) : r.def[1] = Chunk.procs[j]
      BY <1>5, AppliedIsProcedure DEF Ready, AssembledChunk
    <3> HIDE DEF r
    <3> QED
      BY <3>1
  <2> HIDE DEF m, r
  <2> QED
    BY <1>1, <1>2, <1>3, <2>1, <2>2, CallKinds DEF m
<1> QED
  BY <1>4, <1>5

-----------------------------------------------------------------------------
(* Returns.                                                                *)

\* OUTPUT or STOP leaves a procedure: its value is all that is left of the call.
Returned ==
  /\ status = "running" /\ InCode /\ UNCHANGED <<app, chunks, status>>
  /\ Ins.op \in {"OUTPUT", "STOP"} /\ vm.frames # <<>>
  /\ VmShape(vm') /\ vm'.frames = Front(vm.frames)
  /\ Goto(vm.frames[Len(vm.frames)].pc)
  /\ LET base == vm.frames[Len(vm.frames)].base
     IN  /\ \A i \in 1..base : vm'.memory[i] = vm.memory[i]
         /\ base < MaxVmStack => vm'.top = base + 1

\* OUTPUT or STOP outside any procedure.
Stopped ==
  /\ status = "running" /\ InCode /\ UNCHANGED <<app, chunks, status>>
  /\ Ins.op \in {"OUTPUT", "STOP"} /\ vm.frames = <<>>
  /\ VmShape(vm') /\ vm'.frames = vm.frames /\ Goto(-1)

LEMMA LeftShape ==
  ASSUME NEW m, VmShape(m), m.frames # <<>>
  PROVE  LET n == Left(m, m.frames[Len(m.frames)])
         IN  /\ VmShape(n) /\ n.frames = Front(m.frames) /\ n.memory = m.memory
             /\ n.top = m.frames[Len(m.frames)].base
<1> DEFINE frame == m.frames[Len(m.frames)]
           n == Left(m, frame)
<1>1. /\ IsSeq(Front(m.frames)) /\ Len(m.frames) \in Nat \ {0}
      /\ Len(Front(m.frames)) = Len(m.frames) - 1
      /\ \A i \in 1..(Len(m.frames) - 1) : Front(m.frames)[i] = m.frames[i]
  BY FrontSeq DEF VmShape
<1>2. m.scopes # <<>>
  BY <1>1, EmptyIsSeq DEF VmShape
<1>3. IsSeq(Front(m.scopes)) /\ Len(Front(m.scopes)) = Len(m.frames) - 1
  BY <1>2, FrontSeq DEF VmShape
<1>4. /\ DOMAIN n = VmFields /\ n.top = frame.base /\ n.memory = m.memory
      /\ n.frames = Front(m.frames) /\ n.scopes = Front(m.scopes) /\ n.repcounts = m.repcounts
  BY DEF Left, VmShape, VmFields
<1>5. frame.base \in Nat /\ frame.base <= MaxVmStack /\ frame.base <= Len(m.memory)
  BY <1>1 DEF VmShape
<1>6. \A i \in 1..Len(Front(m.frames)) : /\ Front(m.frames)[i].base \in Nat
                                         /\ Front(m.frames)[i].base <= MaxVmStack
                                         /\ Front(m.frames)[i].base <= Len(m.memory)
  BY <1>1 DEF VmShape
<1>7. /\ Len(m.frames) - 1 <= MaxVmFrames /\ Len(m.frames) - 1 <= MaxVmScopes
  BY <1>1, VmLimits DEF VmShape
<1> HIDE DEF n, frame
<1>8. VmShape(n)
  BY <1>1, <1>3, <1>4, <1>5, <1>6, <1>7 DEF VmShape
<1> QED
  BY <1>4, <1>8 DEF n, frame

LEMMA ReturnKinds == ASSUME Ready, Return PROVE Returned \/ Stopped
<1> DEFINE outputs == Ins.op = "OUTPUT"
           value   == IF outputs THEN TopOf(vm, 0) ELSE Num(0)
           e       == IF outputs THEN Drop(vm, 1) ELSE vm
           m       == Reports(e, TRUE, outputs)
           frame   == vm.frames[Len(vm.frames)]
<1>1. /\ status = "running" /\ InCode /\ Ins.op \in {"OUTPUT", "STOP"}
      /\ UNCHANGED <<app, chunks, status>>
      /\ IF vm.frames = <<>> THEN vm' = m /\ Goto(-1)
         ELSE vm' = Pushed(Left(m, frame), value) /\ Goto(frame.pc)
  BY DEF Return, Fetch, Here
<1>2. VmShape(e) /\ e.frames = vm.frames /\ e.memory = vm.memory
  BY DropTouches DEF Ready, Touches
<1> HIDE DEF e, value, outputs
<1>3. VmShape(m) /\ m.frames = vm.frames /\ m.memory = vm.memory
  <2>1. Touches(e, m, e.top) /\ m.memory = e.memory
    BY <1>2, ReportsTouch
  <2> HIDE DEF m
  <2> QED
    BY <1>2, <2>1 DEF Touches
<1> HIDE DEF m
<1>4. CASE vm.frames = <<>>
  BY <1>1, <1>3, <1>4 DEF Stopped
<1>5. CASE vm.frames # <<>>
  <2> DEFINE n == Left(m, frame)
  <2>1. VmShape(n) /\ n.frames = Front(vm.frames) /\ n.memory = vm.memory /\ n.top = frame.base
    BY <1>3, <1>5, LeftShape
  <2> HIDE DEF n
  <2>2. /\ Touches(n, Pushed(n, value), n.top)
        /\ n.top < MaxVmStack => Pushed(n, value).top = n.top + 1
    BY <2>1, PushedTouches
  <2>3. vm' = Pushed(n, value) /\ Goto(frame.pc)
    BY <1>1, <1>5 DEF n
  <2> HIDE DEF frame
  <2>4. /\ VmShape(vm') /\ vm'.frames = Front(vm.frames)
        /\ \A i \in 1..frame.base : vm'.memory[i] = vm.memory[i]
        /\ frame.base < MaxVmStack => vm'.top = frame.base + 1
    BY <2>1, <2>2, <2>3 DEF Touches
  <2> QED
    BY <1>1, <1>5, <2>3, <2>4 DEF Returned, frame
<1> QED
  BY <1>4, <1>5

-----------------------------------------------------------------------------
(* Snippets and templates: a vm_run begins, goes round again, or ends.     *)

SnippetOps == {"RUN", "EXECTIME", "LOAD"}
LoopOps == {"MAP", "FILTER", "REDUCE", "FOREACH"}
ActivationFields == {"who", "chunk", "pc", "start", "floor", "vars", "saved", "rest", "result"}

\* A vm_run inside the vm_run in progress.
Began ==
  /\ status = "running" /\ InCode /\ UNCHANGED status
  /\ VmShape(vm') /\ vm'.frames = vm.frames
  /\ Settled => vm'.top = vm.top - Takes(Ins) /\ Touches(vm, vm', vm.top - Takes(Ins))
  /\ \E a : /\ ctl' = Append(ctl, a) /\ DOMAIN a = ActivationFields
            /\ a.pc = a.start /\ a.floor = Len(vm.frames)
            /\ \/ /\ Ins.op \in SnippetOps /\ a.who = Ins.op /\ a.chunk = Len(chunks) + 1
                  /\ \E c : chunks' = Append(chunks, c) /\ a.start = c.start
                  /\ AppShape(app')
                  /\ app'.runDepth = IF a.who = "LOAD" THEN app.runDepth ELSE app.runDepth + 1
               \/ /\ Ins.op \in Templates /\ a.who = TemplateOf(Ins.op) /\ a.who \in LoopOps
                  /\ a.chunk = Top.chunk /\ a.start = Ins.a
                  /\ UNCHANGED chunks /\ SameDepth(app, app')

\* What a vm_run has left when it is through, and what its instruction makes of it.
Leaves(who) == IF who \in {"MAP", "FILTER", "REDUCE"} THEN 1 ELSE 0
Brings(who) == IF who \in {"RUN", "LOAD"} THEN 0 ELSE 1

\* The inner vm_run is through.
Ended ==
  /\ Returns /\ Top.who \in SnippetOps \union LoopOps /\ Resumed /\ UNCHANGED status
  /\ VmShape(vm') /\ vm'.frames = vm.frames
  /\ ~Escaped /\ Leaves(Top.who) <= vm.top /\ vm.top < MaxVmStack =>
       /\ vm'.top = vm.top - Leaves(Top.who) + Brings(Top.who)
       /\ Touches(vm, vm', vm.top - Leaves(Top.who))
  /\ DOMAIN app' = AppFields /\ app'.paused = app.paused
  /\ app'.runDepth = IF Top.who \in {"RUN", "EXECTIME"} THEN app.runDepth - 1 ELSE app.runDepth
  /\ chunks' = IF Top.who \in SnippetOps THEN Front(chunks) ELSE chunks

\* The template's next pass.
Again ==
  /\ Returns /\ Top.who \in LoopOps /\ ~Escaped /\ UNCHANGED <<chunks, status>>
  /\ SameDepth(app, app') /\ VmShape(vm') /\ vm'.frames = vm.frames
  /\ Leaves(Top.who) <= vm.top =>
       /\ vm'.top = vm.top - Leaves(Top.who)
       /\ Touches(vm, vm', vm.top - Leaves(Top.who))
  /\ \E a : /\ ctl' = [ctl EXCEPT ![Depth] = a] /\ DOMAIN a = DOMAIN Top
            /\ DOMAIN Top = ActivationFields => a.pc = Top.start
            /\ a.start = Top.start /\ a.who = Top.who /\ a.chunk = Top.chunk /\ a.floor = Top.floor

LEMMA SnippetSkipped ==
  ASSUME Ready, InCode, Ins.op \in SnippetOps, NEW m, UNCHANGED status,
         m = (IF Ins.op = "LOAD" THEN vm ELSE Drop(vm, 1)), SkipSnippet(Ins.op, m)
  PROVE  InPlace
<1>1. Step /\ UNCHANGED <<chunks, status>> /\ vm' = SnippetResult(Ins.op, m) /\ status' = "running"
      /\ app' = SayIf(app, SnippetRefusal(Ins.op))
  BY DEF SkipSnippet, Becomes, Ready
<1>2. SameDepth(app, app')
  BY <1>1, SayKeeps, KeepsShape DEF Ready
<1>3. Calm /\ Owed(status') = 0
  BY <1>1, <1>2, ReadyFacts DEF Calm, SnippetOps
<1>4. CASE Ins.op = "LOAD"
  <2>1. Takes(Ins) = 0 /\ Puts(Ins) = 0
    BY <1>4, StackEffects DEF Neutral
  <2>2. vm' = vm
    BY <1>1, <1>4 DEF SnippetResult
  <2> QED
    BY <1>3, <2>1, <2>2, StaysInPlace, ReadyFacts
<1>5. CASE Ins.op = "RUN"
  <2>1. Takes(Ins) = 1 /\ Puts(Ins) = 0
    BY <1>5, StackEffects DEF Taking
  <2>2. vm' = Drop(vm, 1)
    BY <1>1, <1>5 DEF SnippetResult
  <2> QED
    BY <1>3, <2>1, <2>2, DropsInPlace
<1>6. CASE Ins.op = "EXECTIME"
  <2>1. Takes(Ins) = 1 /\ Puts(Ins) = 1
    BY <1>6, StackEffects DEF Mapping
  <2>2. vm' = Pushed(Reports(Drop(vm, 1), TRUE, TRUE), Num(0))
    BY <1>1, <1>6 DEF SnippetResult
  <2> QED
    BY <1>3, <2>1, <2>2, ReportsInPlace
<1> QED
  BY <1>4, <1>5, <1>6 DEF SnippetOps

LEMMA SnippetRun ==
  ASSUME Ready, InCode, Ins.op \in SnippetOps, NEW m, NEW c, UNCHANGED status,
         m = (IF Ins.op = "LOAD" THEN vm ELSE Drop(vm, 1)),
         ~SnippetRefused(Ins.op), RunChunk(Ins.op, m, c)
  PROVE  Began
<1> DEFINE a == [Activation(Ins.op, Len(chunks) + 1, c.start) EXCEPT !.floor = Len(m.frames)]
<1>1. /\ ctl' = Append(ctl, a) /\ chunks' = Append(chunks, c) /\ vm' = m
      /\ app' = IF Ins.op = "LOAD" THEN app ELSE [app EXCEPT !.runDepth = @ + 1]
  BY DEF RunChunk
<1>2. /\ DOMAIN a = ActivationFields /\ a.pc = c.start /\ a.start = c.start /\ a.who = Ins.op
      /\ a.chunk = Len(chunks) + 1 /\ a.floor = Len(m.frames)
  BY DEF Activation, ActivationFields
<1>3. AppShape(app') /\ app'.runDepth = IF Ins.op = "LOAD" THEN app.runDepth ELSE app.runDepth + 1
  <2>1. CASE Ins.op = "LOAD"
    BY <2>1, <1>1 DEF Ready
  <2>2. CASE Ins.op # "LOAD"
    <3>1. ~(app.runDepth >= MaxRunDepth)
      BY <2>2 DEF SnippetRefused
    <3>2. /\ DOMAIN app' = AppFields /\ app'.paused = app.paused /\ app'.runDepth = app.runDepth + 1
      BY <2>2, <1>1 DEF Ready, AppShape, AppFields
    <3> QED
      BY <2>2, <3>1, <3>2, VmLimits DEF Ready, AppShape
  <2> QED
    BY <2>1, <2>2
<1>4. /\ VmShape(m) /\ Touches(vm, m, vm.top) /\ m.frames = vm.frames
      /\ Takes(Ins) \in 0..vm.top => m.top = vm.top - Takes(Ins)
  <2>1. CASE Ins.op = "LOAD"
    <3>1. Takes(Ins) = 0
      BY <2>1, StackEffects DEF Neutral
    <3> QED
      BY <2>1, <3>1, ReadyFacts DEF Ready
  <2>2. CASE Ins.op # "LOAD"
    <3>1. Takes(Ins) = 1
      BY <2>2, StackEffects DEF Taking, Mapping, SnippetOps
    <3>2. m = Drop(vm, 1)
      BY <2>2
    <3>3. /\ Touches(vm, m, vm.top) /\ (1 <= vm.top => m.top = vm.top - 1)
      BY <3>2, DropTouches DEF Ready
    <3> QED
      BY <3>1, <3>3, ReadyFacts DEF Touches
  <2> QED
    BY <2>1, <2>2
<1> HIDE DEF a
<1>5. Settled => vm'.top = vm.top - Takes(Ins) /\ Touches(vm, vm', vm.top - Takes(Ins))
  <2> SUFFICES ASSUME Settled
               PROVE  vm'.top = vm.top - Takes(Ins) /\ Touches(vm, vm', vm.top - Takes(Ins))
    OBVIOUS
  <2>1. Takes(Ins) \in 0..vm.top /\ vm' = m
    BY <1>1 DEF Settled
  <2>2. Touches(vm, vm', vm.top - Takes(Ins))
    BY <2>1, <1>4, ReadyFacts DEF Touches
  <2> QED
    BY <2>1, <2>2, <1>4
<1> QED
  BY <1>1, <1>2, <1>3, <1>4, <1>5 DEF Began, Ready

LEMMA StartSnippetKinds == ASSUME Ready, StartSnippet PROVE InPlace \/ Began
<1> DEFINE m == IF Ins.op = "LOAD" THEN vm ELSE Drop(vm, 1)
           p == Translate(Ins.op, SnippetText(Ins.op))
<1>1. /\ InCode /\ Ins.op \in SnippetOps /\ UNCHANGED status
      /\ IF SnippetRefused(Ins.op) THEN SkipSnippet(Ins.op, m) ELSE RunProgram(Ins.op, m, p)
  BY DEF StartSnippet, Fetch, SnippetOps
<1>2. CASE SkipSnippet(Ins.op, m)
  BY <1>1, <1>2, SnippetSkipped
<1>3. CASE ~SnippetRefused(Ins.op) /\ RunChunk(Ins.op, m, p[1])
  BY <1>1, <1>3, SnippetRun
<1> QED
  BY <1>1, <1>2, <1>3 DEF RunProgram

\* What the lemmas below say of a pair [app, vm] after binding variables.
Bound(a, m, st) == \E b, n : /\ st = [app |-> b, vm |-> n]
                             /\ Keeps(a, b) /\ Touches(m, n, m.top) /\ n.top = m.top

LEMMA BoundSelf ==
  ASSUME NEW a, NEW m, AppShape(a), VmShape(m)
  PROVE  Bound(a, m, [app |-> a, vm |-> m])
<1>1. Keeps(a, a) /\ Touches(m, m, m.top)
  BY KeepsSelf, SeqShape DEF Touches, VmShape
<1> QED
  BY <1>1 DEF Bound

LEMMA BoundFacts ==
  ASSUME NEW a, NEW m, NEW st, AppShape(a), VmShape(m), Bound(a, m, st)
  PROVE  /\ AppShape(st.app) /\ VmShape(st.vm) /\ SameDepth(a, st.app) /\ Keeps(a, st.app)
         /\ Touches(m, st.vm, m.top) /\ st.vm.top = m.top /\ st.vm.frames = m.frames
         /\ st = [app |-> st.app, vm |-> st.vm]
<1>1. PICK b, n : /\ st = [app |-> b, vm |-> n]
                  /\ Keeps(a, b) /\ Touches(m, n, m.top) /\ n.top = m.top
  BY DEF Bound
<1>2. st.app = b /\ st.vm = n
  BY <1>1
<1>3. AppShape(b) /\ SameDepth(a, b)
  BY <1>1, KeepsShape
<1> QED
  BY <1>1, <1>2, <1>3 DEF Touches

LEMMA BoundTwice ==
  ASSUME NEW a, NEW m, NEW st, NEW b, NEW n, AppShape(a), VmShape(m), Bound(a, m, st),
         Keeps(st.app, b), Touches(st.vm, n, st.vm.top), n.top = st.vm.top
  PROVE  Bound(a, m, [app |-> b, vm |-> n])
<1>1. /\ Touches(m, st.vm, m.top) /\ st.vm.top = m.top /\ Keeps(a, st.app)
  BY BoundFacts
<1>2. m.top \in Nat
  BY DEF VmShape
<1>3. Touches(m, n, m.top)
  BY <1>1, <1>2, TouchesTwice
<1>4. Keeps(a, b)
  BY <1>1, KeepsTwice
<1> QED
  BY <1>1, <1>3, <1>4 DEF Bound

LEMMA BindBound ==
  ASSUME NEW a, NEW m, NEW st, NEW name, NEW v, AppShape(a), VmShape(m), Bound(a, m, st)
  PROVE  Bound(a, m, Bind(st, name, v))
<1> DEFINE r == Bind(st, name, v)
<1>1. AppShape(st.app) /\ VmShape(st.vm)
  BY BoundFacts
<1>2. Keeps(st.app, r.app) /\ Touches(st.vm, r.vm, st.vm.top) /\ r.vm.top = st.vm.top
  BY <1>1, BindTouches
<1>3. r = [app |-> r.app, vm |-> r.vm]
  BY DEF Bind
<1> HIDE DEF r
<1>4. Bound(a, m, [app |-> r.app, vm |-> r.vm])
  BY <1>2, BoundTwice
<1> QED
  BY <1>3, <1>4 DEF r

LEMMA RestoredBound ==
  ASSUME NEW a, NEW m, NEW st, NEW name, NEW saved, AppShape(a), VmShape(m), Bound(a, m, st)
  PROVE  Bound(a, m, Restored(st, name, saved))
<1> DEFINE d == DeleteVar(st.app, name)
<1>1. /\ AppShape(st.app) /\ VmShape(st.vm) /\ st = [app |-> st.app, vm |-> st.vm]
  BY BoundFacts
<1>2. CASE saved # <<>>
  BY <1>2, BindBound DEF Restored
<1>3. CASE saved = <<>>
  <2>1. Restored(st, name, saved) = [st EXCEPT !.app = d]
    BY <1>3 DEF Restored
  <2>2. Keeps(st.app, d)
    BY <1>1, DeleteVarKeeps
  <2> HIDE DEF d
  <2>3. [st EXCEPT !.app = d] = [app |-> d, vm |-> st.vm]
    BY <1>1
  <2>4. Touches(st.vm, st.vm, st.vm.top)
    BY <1>1, SeqShape DEF Touches, VmShape
  <2>5. Bound(a, m, [app |-> d, vm |-> st.vm])
    BY <2>2, <2>4, BoundTwice
  <2> QED
    BY <2>1, <2>3, <2>5
<1> QED
  BY <1>2, <1>3

LEMMA BindPassBound ==
  ASSUME NEW a, NEW m, NEW st, NEW t, AppShape(a), VmShape(m), Bound(a, m, st)
  PROVE  Bound(a, m, BindPass(st, t))
<1>1. \A name, v : Bound(a, m, Bind(st, name, v))
  BY BindBound
<1>2. \A name, v, other, w : Bound(a, m, Bind(Bind(st, name, v), other, w))
  BY <1>1, BindBound
<1> QED
  BY <1>1, <1>2, Zenon DEF BindPass

\* The end of a loop: its result is pushed on the stack as it finds it.
LEMMA FinishTemplateDoes ==
  ASSUME NEW a, NEW m, NEW st, NEW t, AppShape(a), VmShape(m), st = [app |-> a, vm |-> m]
  PROVE  LET r == FinishTemplate(st, t)
         IN  /\ Keeps(a, r.app) /\ Touches(m, r.vm, m.top)
             /\ m.top < MaxVmStack => r.vm.top = m.top + 1
<1> DEFINE one  == Restored(st, t.vars[1], t.saved[1])
           two  == Restored(one, t.vars[2], t.saved[2])
           both == IF Len(t.vars) = 1 THEN one ELSE two
           done == t.who # "FOREACH"
           e    == Reports(both.vm, TRUE, done)
           r    == FinishTemplate(st, t)
<1>1. Bound(a, m, st)
  BY BoundSelf
<1>2. Bound(a, m, one)
  BY <1>1, RestoredBound
<1> HIDE DEF one
<1>3. Bound(a, m, two)
  BY <1>2, RestoredBound
<1>4. Bound(a, m, both)
  BY <1>2, <1>3
<1>5. r = [both EXCEPT !.vm = Pushed(e, t.result)]
  BY DEF FinishTemplate, one
<1> HIDE DEF two, both, r, done
<1>6. /\ Keeps(a, both.app) /\ Touches(m, both.vm, m.top) /\ both.vm.top = m.top
      /\ VmShape(both.vm) /\ both = [app |-> both.app, vm |-> both.vm]
  BY <1>4, BoundFacts
<1>7. /\ Touches(both.vm, e, both.vm.top) /\ e.top = both.vm.top
  BY <1>6, ReportsTouch
<1>8. VmShape(e)
  BY <1>7 DEF Touches
<1> HIDE DEF e
<1>9. /\ Touches(e, Pushed(e, t.result), e.top)
      /\ e.top < MaxVmStack => Pushed(e, t.result).top = e.top + 1
  BY <1>8, PushedTouches
<1>10. r.app = both.app /\ r.vm = Pushed(e, t.result)
  BY <1>5, <1>6
<1>11. m.top \in Nat
  BY DEF VmShape
<1>12. Touches(m, e, m.top)
  BY <1>6, <1>7, <1>11, TouchesTwice
<1>13. Touches(m, r.vm, m.top)
  BY <1>6, <1>7, <1>9, <1>10, <1>11, <1>12, TouchesTwice
<1> QED
  BY <1>6, <1>7, <1>9, <1>10, <1>13 DEF r

LEMMA StartTemplateKinds == ASSUME Ready, StartTemplate PROVE InPlace \/ Began
<1> DEFINE who   == TemplateOf(Ins.op)
           list  == Elements(TopOf(vm, 0))
           folds == who = "REDUCE" /\ list # <<>>
           names == IF who = "REDUCE" THEN <<Ins.text \o "_1", Ins.text \o "_2">> ELSE <<Ins.text>>
           m     == Drop(vm, 1)
           saved == [i \in 1..Len(names) |-> Lookup(app, m.scopes, names[i])]
           rest  == IF folds THEN Tail(list) ELSE list
           result == CASE folds -> Coerced(Head(list))
                       [] who \in {"MAP", "FILTER"} -> EmptyList
                       [] OTHER -> Num(0)
           a     == [Activation(who, Top.chunk, Ins.a) EXCEPT
                       !.floor = Len(m.frames), !.vars = names, !.saved = saved, !.rest = rest,
                       !.result = result]
           st    == [app |-> app, vm |-> m]
<1>1. /\ InCode /\ UNCHANGED <<chunks, status>> /\ Ins.op \in Templates
      /\ IF a.rest = <<>> THEN Becomes(FinishTemplate(st, a)) /\ Step
         ELSE Becomes(BindPass(st, a)) /\ ctl' = Append(ctl, a)
  BY DEF StartTemplate, Fetch, Here, Templates
<1> HIDE DEF list, folds, names, saved, rest, result
<1>2. /\ DOMAIN a = ActivationFields /\ a.pc = Ins.a /\ a.start = Ins.a /\ a.who = who
      /\ a.chunk = Top.chunk /\ a.floor = Len(m.frames)
  BY DEF Activation, ActivationFields
<1>3. who \in LoopOps
  BY DEF TemplateOf, LoopOps
<1>4. Takes(Ins) = 1 /\ Puts(Ins) = 1
  BY <1>1, StackEffects DEF Mapping
<1>5. /\ Touches(vm, m, vm.top) /\ (1 <= vm.top => m.top = vm.top - 1) /\ m.top \in Nat
      /\ m.top <= vm.top
  BY DropTouches DEF Ready
<1>6. VmShape(m) /\ m.frames = vm.frames
  BY <1>5 DEF Touches
<1> HIDE DEF m, a, who
<1>7. CASE Becomes(FinishTemplate(st, a)) /\ Step
  <2> DEFINE r == FinishTemplate(st, a)
  <2>1. /\ Keeps(app, r.app) /\ Touches(m, r.vm, m.top)
        /\ m.top < MaxVmStack => r.vm.top = m.top + 1
    BY <1>6, FinishTemplateDoes DEF Ready
  <2> HIDE DEF r
  <2>2. app' = r.app /\ vm' = r.vm
    BY <1>7 DEF Becomes, r
  <2>3. SameDepth(app, app')
    BY <2>1, <2>2, KeepsShape DEF Ready
  <2>4. status' = "running" /\ Owed(status') = 0 /\ Ins.op \notin {"OUTPUT", "STOP", "HALT", "JUMP"}
    BY <1>1, ReadyFacts DEF Ready, Templates
  <2>5. Touches(vm, vm', m.top)
    BY <1>5, <2>1, <2>2, ReadyFacts, TouchesTwice DEF Ready
  <2>6. Touches(vm, vm', 0)
    BY <1>5, <2>5 DEF Touches
  <2>7. Settled => /\ vm'.top + Owed(status') = vm.top - Takes(Ins) + Puts(Ins)
                   /\ Touches(vm, vm', vm.top - Takes(Ins))
    <3> SUFFICES ASSUME Settled
                 PROVE  /\ vm'.top + Owed(status') = vm.top - Takes(Ins) + Puts(Ins)
                        /\ Touches(vm, vm', vm.top - Takes(Ins))
      OBVIOUS
    <3>1. 1 <= vm.top /\ vm.top < MaxVmStack
      BY <1>4, ReadyFacts DEF Settled
    <3>2. m.top = vm.top - 1 /\ m.top < MaxVmStack
      BY <3>1, <1>5, ReadyFacts
    <3>3. vm'.top = m.top + 1 /\ vm.top - Takes(Ins) = m.top
      BY <3>2, <1>4, <2>1, <2>2
    <3> QED
      BY <3>2, <3>3, <2>4, <2>5, <1>4, ReadyFacts
  <2> QED
    BY <1>1, <1>7, <2>3, <2>4, <2>6, <2>7, StepsInPlace, ReadyFacts
<1>8. CASE Becomes(BindPass(st, a)) /\ ctl' = Append(ctl, a)
  <2> DEFINE r == BindPass(st, a)
  <2>1. Bound(app, m, r)
    BY <1>6, BoundSelf, BindPassBound DEF Ready
  <2> HIDE DEF r
  <2>2. /\ VmShape(r.vm) /\ SameDepth(app, r.app) /\ Touches(m, r.vm, m.top)
        /\ r.vm.top = m.top /\ r.vm.frames = m.frames
    BY <1>6, <2>1, BoundFacts DEF Ready
  <2>3. app' = r.app /\ vm' = r.vm
    BY <1>8 DEF Becomes, r
  <2>4. Touches(vm, vm', m.top)
    BY <1>5, <2>2, <2>3, ReadyFacts, TouchesTwice DEF Ready
  <2>5. Settled => vm'.top = vm.top - Takes(Ins) /\ Touches(vm, vm', vm.top - Takes(Ins))
    <3> SUFFICES ASSUME Settled
                 PROVE  vm'.top = vm.top - Takes(Ins) /\ Touches(vm, vm', vm.top - Takes(Ins))
      OBVIOUS
    <3>1. 1 <= vm.top
      BY <1>4, ReadyFacts DEF Settled
    <3>2. vm.top - Takes(Ins) = m.top
      BY <3>1, <1>4, <1>5, ReadyFacts
    <3> QED
      BY <3>2, <2>2, <2>3, <2>4
  <2>6. /\ ctl' = Append(ctl, a) /\ a.pc = a.start /\ a.floor = Len(vm.frames)
        /\ a.who \in LoopOps /\ a.who = TemplateOf(Ins.op) /\ a.start = Ins.a
    BY <1>2, <1>3, <1>6, <1>8 DEF who
  <2> QED
    BY <1>1, <1>2, <1>6, <2>2, <2>3, <2>5, <2>6 DEF Began, Ready
<1> QED
  BY <1>1, <1>7, <1>8

LEMMA EndSnippetKinds ==
  ASSUME VmShape(vm), AppShape(app), EndSnippet
  PROVE  Ended
<1> DEFINE text == IF Escaped
                   THEN Top.who \o ": OUTPUT/STOP escaping " \o SnippetNoun(Top.who)
                          \o " own top level is not fully supported" ELSE ""
           said == SayIf(app, text)
<1>1. /\ Returns /\ Top.who \in SnippetOps /\ Resumed /\ UNCHANGED status /\ chunks' = Front(chunks)
      /\ app' = DepthLowered(Top.who, said) /\ vm' = SnippetResult(Top.who, vm)
  BY DEF EndSnippet, SnippetOps
<1> HIDE DEF text
<1>2. Keeps(app, said)
  BY SayKeeps
<1> HIDE DEF said
<1>3. /\ DOMAIN app' = AppFields /\ app'.paused = app.paused
      /\ app'.runDepth = IF Top.who \in {"RUN", "EXECTIME"} THEN app.runDepth - 1 ELSE app.runDepth
  BY <1>1, <1>2 DEF DepthLowered, Keeps, AppFields, SnippetOps
<1>4. /\ Touches(vm, vm, vm.top) /\ vm.top \in Nat
  BY SeqShape DEF Touches, VmShape
<1>5. Leaves(Top.who) = 0
  BY <1>1 DEF Leaves, SnippetOps
<1>6. CASE Top.who # "EXECTIME"
  <2>1. vm' = vm /\ Brings(Top.who) = 0
    BY <1>1, <1>6 DEF SnippetResult, Brings, SnippetOps
  <2> QED
    BY <2>1, <1>1, <1>3, <1>4, <1>5 DEF Ended
<1>7. CASE Top.who = "EXECTIME"
  <2> DEFINE e == Reports(vm, TRUE, TRUE)
  <2>1. Touches(vm, e, vm.top) /\ e.top = vm.top
    BY ReportsTouch
  <2>2. VmShape(e)
    BY <2>1 DEF Touches
  <2>3. vm' = Pushed(e, Num(0)) /\ Brings(Top.who) = 1
    BY <1>1, <1>7 DEF SnippetResult, Brings
  <2> HIDE DEF e
  <2>4. Touches(e, vm', e.top) /\ (e.top < MaxVmStack => vm'.top = e.top + 1)
    BY <2>2, <2>3, PushedTouches
  <2>5. Touches(vm, vm', vm.top)
    BY <1>4, <2>1, <2>4, TouchesTwice
  <2>6. VmShape(vm') /\ vm'.frames = vm.frames
    BY <2>5 DEF Touches
  <2>7. vm.top < MaxVmStack => vm'.top = vm.top - 0 + 1 /\ Touches(vm, vm', vm.top - 0)
    BY <1>4, <2>1, <2>4, <2>5
  <2> QED
    BY <2>3, <2>6, <2>7, <1>1, <1>3, <1>5 DEF Ended
<1> QED
  BY <1>6, <1>7

LEMMA EndPassKinds ==
  ASSUME VmShape(vm), AppShape(app), EndPass
  PROVE  Ended \/ Again
<1> DEFINE value == TopOf(vm, 0)
           asIs  == Escaped \/ Top.who = "FOREACH"
           m     == IF asIs THEN vm ELSE Drop(vm, 1)
           kept  == CASE Escaped \/ Top.who = "FOREACH" -> Top.result
                      [] Top.who = "MAP" -> ListVal(Append(Top.result[2], value))
                      [] Top.who = "FILTER" -> IF IsTruthy(value)
                                               THEN ListVal(Append(Top.result[2], Head(Top.rest)))
                                               ELSE Top.result
                      [] OTHER -> value
           over  == \/ Escaped \/ Len(Top.rest) = 1
                    \/ Top.who = "FOREACH" /\ (app.stopping \/ app.throwing)
           a     == [Top EXCEPT !.pc = Top.start, !.rest = Tail(@), !.result = kept]
           st    == [app |-> app, vm |-> m]
<1>1. /\ Returns /\ Top.who \in LoopOps /\ UNCHANGED <<chunks, status>>
      /\ IF over THEN Becomes(FinishTemplate(st, a)) /\ Resumed
         ELSE Becomes(BindPass(st, a)) /\ ctl' = [ctl EXCEPT ![Depth] = a]
  BY DEF EndPass, Here, LoopOps
<1> HIDE DEF kept
<1>2. /\ DOMAIN a = DOMAIN Top /\ (DOMAIN Top = ActivationFields => a.pc = Top.start)
      /\ a.start = Top.start /\ a.who = Top.who /\ a.chunk = Top.chunk /\ a.floor = Top.floor
  BY DEF ActivationFields
<1>3. Escaped => over
  OBVIOUS
<1>4. vm.top \in Nat /\ Touches(vm, vm, vm.top)
  BY SeqShape DEF Touches, VmShape
<1>5. /\ Touches(vm, m, vm.top) /\ VmShape(m) /\ m.frames = vm.frames /\ m.top \in Nat /\ m.top <= vm.top
      /\ ~Escaped /\ Leaves(Top.who) <= vm.top => m.top = vm.top - Leaves(Top.who)
  <2>1. CASE asIs
    <3>1. ~Escaped => Leaves(Top.who) = 0
      BY <2>1 DEF Leaves
    <3>2. m = vm
      BY <2>1
    <3> QED
      BY <3>1, <3>2, <1>4
  <2>2. CASE ~asIs
    <3>1. Leaves(Top.who) = 1
      BY <2>2, <1>1 DEF Leaves, LoopOps
    <3>2. m = Drop(vm, 1)
      BY <2>2
    <3>3. /\ Touches(vm, m, vm.top) /\ m.top \in Nat /\ m.top <= vm.top
          /\ 1 <= vm.top => m.top = vm.top - 1
      BY <3>2, DropTouches
    <3>4. VmShape(m) /\ m.frames = vm.frames
      BY <3>3 DEF Touches
    <3> QED
      BY <3>1, <3>3, <3>4
  <2> QED
    BY <2>1, <2>2
<1> HIDE DEF m, a, asIs
<1>6. CASE over
  <2> DEFINE r == FinishTemplate(st, a)
  <2>1. /\ Keeps(app, r.app) /\ Touches(m, r.vm, m.top)
        /\ m.top < MaxVmStack => r.vm.top = m.top + 1
    BY <1>5, FinishTemplateDoes
  <2> HIDE DEF r
  <2>2. app' = r.app /\ vm' = r.vm /\ Resumed
    BY <1>1, <1>6 DEF Becomes, r
  <2>3. Touches(vm, vm', m.top)
    BY <1>4, <1>5, <2>1, <2>2, TouchesTwice
  <2>4. VmShape(vm') /\ vm'.frames = vm.frames
    BY <2>3 DEF Touches
  <2>5. Brings(Top.who) = 1 /\ Top.who \notin {"RUN", "EXECTIME"} /\ Top.who \notin SnippetOps
    BY <1>1 DEF Brings, LoopOps, SnippetOps
  <2>6. ~Escaped /\ Leaves(Top.who) <= vm.top /\ vm.top < MaxVmStack =>
          /\ vm'.top = vm.top - Leaves(Top.who) + Brings(Top.who)
          /\ Touches(vm, vm', vm.top - Leaves(Top.who))
    <3> SUFFICES ASSUME ~Escaped, Leaves(Top.who) <= vm.top, vm.top < MaxVmStack
                 PROVE  /\ vm'.top = vm.top - Leaves(Top.who) + Brings(Top.who)
                        /\ Touches(vm, vm', vm.top - Leaves(Top.who))
      OBVIOUS
    <3>1. m.top = vm.top - Leaves(Top.who) /\ MaxVmStack \in Nat
      BY <1>5, VmLimits
    <3>2. m.top < MaxVmStack
      BY <3>1, <1>4, <1>5
    <3> QED
      BY <3>1, <3>2, <2>1, <2>2, <2>3, <2>5
  <2>7. /\ DOMAIN app' = AppFields /\ app'.paused = app.paused /\ app'.runDepth = app.runDepth
    BY <2>1, <2>2 DEF Keeps
  <2> QED
    BY <1>1, <2>2, <2>4, <2>5, <2>6, <2>7 DEF Ended
<1>7. CASE ~over
  <2> DEFINE r == BindPass(st, a)
  <2>1. Bound(app, m, r)
    BY <1>5, BoundSelf, BindPassBound
  <2> HIDE DEF r
  <2>2. /\ VmShape(r.vm) /\ SameDepth(app, r.app) /\ Touches(m, r.vm, m.top)
        /\ r.vm.top = m.top /\ r.vm.frames = m.frames
    BY <1>5, <2>1, BoundFacts
  <2>3. app' = r.app /\ vm' = r.vm /\ ctl' = [ctl EXCEPT ![Depth] = a] /\ ~Escaped
    BY <1>1, <1>3, <1>7 DEF Becomes, r
  <2>4. Touches(vm, vm', m.top)
    BY <1>4, <1>5, <2>2, <2>3, TouchesTwice
  <2>5. Leaves(Top.who) <= vm.top =>
          /\ vm'.top = vm.top - Leaves(Top.who)
          /\ Touches(vm, vm', vm.top - Leaves(Top.who))
    BY <1>5, <2>2, <2>3, <2>4
  <2> HIDE DEF over
  <2> QED
    BY <1>1, <1>2, <1>5, <2>2, <2>3, <2>5 DEF Again
<1> QED
  BY <1>6, <1>7

-----------------------------------------------------------------------------
(* The C stack: one activation for every vm_run, each on the chunk of the  *)
(* one that began it, or on the next one.                                  *)

CtlShape(c, n) ==
  /\ IsSeq(c) /\ n \in Nat
  /\ \A d \in 1..Len(c) :
       /\ DOMAIN c[d] = ActivationFields
       /\ c[d].chunk \in 1..n
       /\ d = 1 => c[d].who = "main"
       /\ d > 1 => \/ c[d].who \in SnippetOps /\ c[d].chunk = c[d - 1].chunk + 1
                   \/ c[d].who \in LoopOps /\ c[d].chunk = c[d - 1].chunk
       /\ d = Len(c) => c[d].chunk = n
  /\ \A d, e \in 1..Len(c) : d <= e => c[d].chunk <= c[e].chunk

LEMMA AlteredCtl ==
  ASSUME NEW c, NEW n, NEW d, NEW x, CtlShape(c, n), d \in 1..Len(c),
         DOMAIN x = ActivationFields, x.who = c[d].who, x.chunk = c[d].chunk
  PROVE  CtlShape(Altered(c, d, x), n)
<1> DEFINE t == Altered(c, d, x)
<1>1. IsSeq(t) /\ Len(t) = Len(c) /\ \A i \in 1..Len(c) : t[i] = IF i = d THEN x ELSE c[i]
  BY AlteredSeq DEF CtlShape
<1> HIDE DEF t
<1>2. \A i \in 1..Len(c) : /\ DOMAIN t[i] = ActivationFields
                           /\ t[i].chunk = c[i].chunk /\ t[i].who = c[i].who
  BY <1>1 DEF CtlShape
<1>3. Len(c) \in Nat
  BY SeqShape DEF CtlShape
<1>4. ASSUME NEW i \in 1..Len(c)
      PROVE  /\ DOMAIN t[i] = ActivationFields
             /\ t[i].chunk \in 1..n
             /\ i = 1 => t[i].who = "main"
             /\ i > 1 => \/ t[i].who \in SnippetOps /\ t[i].chunk = t[i - 1].chunk + 1
                         \/ t[i].who \in LoopOps /\ t[i].chunk = t[i - 1].chunk
             /\ i = Len(c) => t[i].chunk = n
  <2>1. i > 1 => i - 1 \in 1..Len(c)
    BY <1>3
  <2> QED
    BY <2>1, <1>2 DEF CtlShape
<1>5. \A i, e \in 1..Len(c) : i <= e => t[i].chunk <= t[e].chunk
  BY <1>2 DEF CtlShape
<1> QED
  BY <1>1, <1>4, <1>5 DEF CtlShape, t

LEMMA AppendCtl ==
  ASSUME NEW c, NEW n, NEW m, NEW x, CtlShape(c, n), c # <<>>, m \in Nat,
         DOMAIN x = ActivationFields, x.chunk = m,
         \/ x.who \in SnippetOps /\ m = n + 1
         \/ x.who \in LoopOps /\ m = n
  PROVE  CtlShape(Append(c, x), m)
<1> DEFINE t == Append(c, x)
           k == Len(c)
<1>1. IsSeq(t) /\ Len(t) = k + 1 /\ t[k + 1] = x /\ \A i \in 1..k : t[i] = c[i]
  BY AppendSeq DEF CtlShape
<1>2. k \in Nat \ {0} /\ n \in Nat
  BY SeqShape, EmptySeq DEF CtlShape, IsSeq
<1>3. c[k].chunk = n /\ \A i \in 1..k : c[i].chunk \in 1..n
  BY <1>2 DEF CtlShape
<1> HIDE DEF t
<1>4. ASSUME NEW i \in 1..(k + 1)
      PROVE  /\ DOMAIN t[i] = ActivationFields
             /\ t[i].chunk \in 1..m
             /\ i = 1 => t[i].who = "main"
             /\ i > 1 => \/ t[i].who \in SnippetOps /\ t[i].chunk = t[i - 1].chunk + 1
                         \/ t[i].who \in LoopOps /\ t[i].chunk = t[i - 1].chunk
             /\ i = k + 1 => t[i].chunk = m
  <2>1. CASE i = k + 1
    <3>1. t[i] = x /\ t[i - 1] = c[k] /\ i > 1 /\ i # 1
      BY <2>1, <1>1, <1>2
    <3> QED
      BY <2>1, <3>1, <1>2, <1>3
  <2>2. CASE i \in 1..k
    <3>1. t[i] = c[i] /\ i # k + 1 /\ (i > 1 => t[i - 1] = c[i - 1])
      BY <2>2, <1>1, <1>2
    <3>2. t[i].chunk \in 1..m
      BY <2>2, <3>1, <1>2, <1>3
    <3> QED
      BY <2>2, <3>1, <3>2 DEF CtlShape
  <2> QED
    BY <2>1, <2>2, <1>2
<1>5. ASSUME NEW i \in 1..(k + 1), NEW e \in 1..(k + 1), i <= e
      PROVE  t[i].chunk <= t[e].chunk
  <2>1. CASE e = k + 1
    BY <2>1, <1>1, <1>2, <1>4
  <2>2. CASE e \in 1..k
    <3>1. i \in 1..k
      BY <2>2, <1>2, <1>5
    <3> QED
      BY <2>2, <3>1, <1>1, <1>5 DEF CtlShape
  <2> QED
    BY <2>1, <2>2, <1>2
<1> QED
  BY <1>1, <1>4, <1>5 DEF CtlShape, t

LEMMA FrontCtl ==
  ASSUME NEW c, NEW n, NEW k, CtlShape(c, n), k = Len(c), k > 1
  PROVE  /\ c[k].who \in SnippetOps \union LoopOps
         /\ CtlShape(Front(c), IF c[k].who \in SnippetOps THEN n - 1 ELSE n)
         /\ Len(Front(c)) = k - 1 /\ k \in Nat
         /\ \A i \in 1..(k - 1) : Front(c)[i] = c[i]
<1> DEFINE t == Front(c)
           m == IF c[k].who \in SnippetOps THEN n - 1 ELSE n
<1>1. k \in Nat /\ n \in Nat /\ c # <<>>
  BY SeqShape, EmptyIsSeq DEF CtlShape
<1>2. IsSeq(t) /\ Len(t) = k - 1 /\ \A i \in 1..(k - 1) : t[i] = c[i]
  BY <1>1, FrontSeq DEF CtlShape
<1> HIDE DEF t
<1>3. /\ k \in 1..Len(c) /\ k - 1 \in 1..Len(c) /\ c[k].chunk = n
      /\ \/ c[k].who \in SnippetOps /\ c[k].chunk = c[k - 1].chunk + 1
         \/ c[k].who \in LoopOps /\ c[k].chunk = c[k - 1].chunk
      /\ c[k - 1].chunk \in 1..n
  BY <1>1 DEF CtlShape
<1>4. SnippetOps \cap LoopOps = {}
  BY DEF SnippetOps, LoopOps
<1>5. c[k - 1].chunk = m /\ m \in Nat
  BY <1>1, <1>3, <1>4
<1>6. \A i \in 1..(k - 1) : c[i].chunk \in 1..m
  <2> SUFFICES ASSUME NEW i \in 1..(k - 1) PROVE c[i].chunk \in 1..m
    OBVIOUS
  <2>1. i \in 1..Len(c) /\ i <= k - 1
    BY <1>1
  <2>2. c[i].chunk \in 1..n /\ c[i].chunk <= c[k - 1].chunk
    BY <2>1, <1>3 DEF CtlShape
  <2> QED
    BY <2>2, <1>1, <1>5
<1> HIDE DEF m
<1>7. ASSUME NEW i \in 1..(k - 1)
      PROVE  /\ DOMAIN t[i] = ActivationFields
             /\ t[i].chunk \in 1..m
             /\ i = 1 => t[i].who = "main"
             /\ i > 1 => \/ t[i].who \in SnippetOps /\ t[i].chunk = t[i - 1].chunk + 1
                         \/ t[i].who \in LoopOps /\ t[i].chunk = t[i - 1].chunk
             /\ i = k - 1 => t[i].chunk = m
  <2>1. i \in 1..Len(c) /\ t[i] = c[i] /\ (i > 1 => t[i - 1] = c[i - 1])
    BY <1>1, <1>2
  <2> QED
    BY <2>1, <1>5, <1>6 DEF CtlShape
<1>8. \A i, e \in 1..(k - 1) : i <= e => t[i].chunk <= t[e].chunk
  BY <1>1, <1>2 DEF CtlShape
<1>9. CtlShape(t, m)
  BY <1>2, <1>5, <1>7, <1>8 DEF CtlShape
<1> QED
  BY <1>1, <1>2, <1>3, <1>9 DEF t, m

-----------------------------------------------------------------------------
(* run_depth counts activations.                                           *)

Counted(c) == {i \in 1..Len(c) : c[i].who \in {"RUN", "EXECTIME"}}

LEMMA CountedFinite ==
  ASSUME NEW c, IsSeq(c)
  PROVE  IsFiniteSet(Counted(c)) /\ Cardinality(Counted(c)) \in Nat
<1>1. IsFiniteSet(1..Len(c))
  BY SeqShape, FS_Interval
<1>2. Counted(c) \subseteq 1..Len(c)
  BY DEF Counted
<1>3. IsFiniteSet(Counted(c))
  BY <1>1, <1>2, FS_Subset
<1> QED
  BY <1>3, FS_CardinalityType

LEMMA AlteredCount ==
  ASSUME NEW c, NEW d, NEW x, IsSeq(c), d \in 1..Len(c), x.who = c[d].who
  PROVE  Counted(Altered(c, d, x)) = Counted(c)
<1> DEFINE t == Altered(c, d, x)
<1>1. Len(t) = Len(c) /\ \A i \in 1..Len(c) : t[i] = IF i = d THEN x ELSE c[i]
  BY AlteredSeq
<1> HIDE DEF t
<1>2. \A i \in 1..Len(c) : t[i].who = c[i].who
  BY <1>1
<1>3. Counted(t) = Counted(c)
  BY <1>1, <1>2 DEF Counted
<1> QED
  BY <1>3 DEF t

LEMMA AppendCount ==
  ASSUME NEW c, NEW x, IsSeq(c)
  PROVE  Cardinality(Counted(Append(c, x))) =
           IF x.who \in {"RUN", "EXECTIME"} THEN Cardinality(Counted(c)) + 1
                                            ELSE Cardinality(Counted(c))
<1> DEFINE t == Append(c, x)
           k == Len(c)
<1>1. Len(t) = k + 1 /\ t[k + 1] = x /\ k \in Nat /\ \A i \in 1..k : t[i] = c[i]
  BY AppendSeq, SeqShape
<1> HIDE DEF t
<1>2. k + 1 \notin Counted(c)
  BY <1>1 DEF Counted
<1>3. CASE x.who \in {"RUN", "EXECTIME"}
  <2>1. Counted(t) = Counted(c) \union {k + 1}
    BY <1>1, <1>3 DEF Counted
  <2> QED
    BY <2>1, <1>2, <1>3, CountedFinite, FS_AddElement DEF t
<1>4. CASE x.who \notin {"RUN", "EXECTIME"}
  <2>1. Counted(t) = Counted(c)
    BY <1>1, <1>4 DEF Counted
  <2> QED
    BY <2>1, <1>4 DEF t
<1> QED
  BY <1>3, <1>4

LEMMA FrontCount ==
  ASSUME NEW c, IsSeq(c), c # <<>>
  PROVE  Cardinality(Counted(Front(c))) =
           IF c[Len(c)].who \in {"RUN", "EXECTIME"} THEN Cardinality(Counted(c)) - 1
                                                    ELSE Cardinality(Counted(c))
<1> DEFINE t == Front(c)
           k == Len(c)
<1>1. k \in Nat \ {0} /\ IsSeq(t) /\ Len(t) = k - 1 /\ \A i \in 1..(k - 1) : t[i] = c[i]
  BY FrontSeq
<1> HIDE DEF t
<1>2. k \notin Counted(t)
  BY <1>1 DEF Counted
<1>3. CASE c[k].who \in {"RUN", "EXECTIME"}
  <2>1. Counted(c) = Counted(t) \union {k}
    BY <1>1, <1>3 DEF Counted
  <2>2. IsFiniteSet(Counted(t)) /\ Cardinality(Counted(t)) \in Nat
    BY <1>1, CountedFinite
  <2>3. Cardinality(Counted(c)) = Cardinality(Counted(t)) + 1
    BY <2>1, <2>2, <1>2, FS_AddElement
  <2> QED
    BY <2>2, <2>3, <1>3 DEF t
<1>4. CASE c[k].who \notin {"RUN", "EXECTIME"}
  <2>1. Counted(t) = Counted(c)
    BY <1>1, <1>4 DEF Counted
  <2> QED
    BY <2>1, <1>4 DEF t
<1> QED
  BY <1>3, <1>4

-----------------------------------------------------------------------------
(* What the machine looks like between two steps, whatever the code.       *)

Shaped ==
  /\ VmShape(vm) /\ AppShape(app) /\ IsSeq(chunks) /\ CtlShape(ctl, Len(chunks))
  /\ (status = "halted") <=> (ctl = <<>>)
  /\ app.runDepth = Cardinality(Counted(ctl))

\* The compiler makes assembled chunks.
Assembled == \A i \in 1..Len(chunks) : AssembledChunk(chunks[i])
\* MAP, FILTER, REDUCE and FOREACH of a template that is not a literal run in
\* eval.c, which leaves run_depth as it was (and a PAUSE level).
EvaluatorKeeps == Fetch({"CALL_BUILTIN"}) /\ Ins.text \in TemplateBuiltins => SameDepth(app, app')

LEMMA ShapedFacts ==
  ASSUME Shaped, status # "halted"
  PROVE  /\ Depth \in Nat \ {0} /\ Depth \in 1..Len(ctl) /\ ctl # <<>> /\ IsSeq(ctl)
         /\ DOMAIN Top = ActivationFields
         /\ Top.chunk = Len(chunks) /\ Top.chunk \in 1..Len(chunks)
         /\ Len(chunks) \in Nat \ {0}
         /\ Top.who = "main" <=> Depth = 1
         /\ Assembled /\ status = "running" => Ready
<1>1. ctl # <<>> /\ IsSeq(ctl)
  BY DEF Shaped, CtlShape
<1>2. Depth \in Nat \ {0} /\ Depth \in 1..Len(ctl)
  BY <1>1, SeqShape, EmptySeq DEF Depth, IsSeq
<1>3. /\ DOMAIN Top = ActivationFields
      /\ Top.chunk = Len(chunks) /\ Top.chunk \in 1..Len(chunks)
  BY <1>2 DEF Shaped, CtlShape, Top, Depth
<1>4. Len(chunks) \in Nat \ {0}
  BY <1>3, SeqShape DEF Shaped
<1>5. Top.who = "main" <=> Depth = 1
  <2>1. Depth = 1 => Top.who = "main"
    BY <1>2 DEF Shaped, CtlShape, Top, Depth
  <2>2. ASSUME Depth # 1 PROVE Top.who \in SnippetOps \union LoopOps
    <3>1. Depth > 1 /\ Depth \in 1..Len(ctl)
      BY <1>2, <2>2
    <3>2. ctl[Depth].who \in SnippetOps \union LoopOps
      BY <3>1 DEF Shaped, CtlShape
    <3> QED
      BY <3>2 DEF Top
  <2> QED
    BY <2>1, <2>2 DEF SnippetOps, LoopOps
<1>6. Assembled /\ status = "running" => Ready
  BY <1>3 DEF Shaped, Assembled, Ready, Chunk
<1> QED
  BY <1>1, <1>2, <1>3, <1>4, <1>5, <1>6

LEMMA GotoAlters ==
  ASSUME Shaped, status # "halted", NEW pc, Goto(pc)
  PROVE  \E x : /\ ctl' = Altered(ctl, Depth, x) /\ DOMAIN x = ActivationFields
                /\ x.pc = pc /\ x.who = Top.who /\ x.chunk = Top.chunk
                /\ x.start = Top.start /\ x.floor = Top.floor
<1> DEFINE x == [ctl[Depth] EXCEPT !.pc = pc]
<1>1. DOMAIN ctl[Depth] = ActivationFields
  BY ShapedFacts DEF Top
<1>2. ctl' = [ctl EXCEPT ![Depth] = x]
  BY DEF Goto
<1>3. /\ DOMAIN x = ActivationFields
      /\ x.pc = pc /\ x.who = Top.who /\ x.chunk = Top.chunk
      /\ x.start = Top.start /\ x.floor = Top.floor
  BY <1>1 DEF ActivationFields, Top
<1> HIDE DEF x
<1> QED
  BY <1>2, <1>3 DEF Altered

LEMMA ResumedAlters ==
  ASSUME Shaped, Depth > 1, status # "halted", Resumed
  PROVE  \E x : /\ ctl' = Altered(Front(ctl), Depth - 1, x) /\ DOMAIN x = ActivationFields
                /\ x.pc = ctl[Depth - 1].pc + 1 /\ x.who = ctl[Depth - 1].who
                /\ x.chunk = ctl[Depth - 1].chunk
                /\ x.start = ctl[Depth - 1].start /\ x.floor = ctl[Depth - 1].floor
<1> DEFINE e == Depth - 1
           x == [ctl[e] EXCEPT !.pc = ctl[e].pc + 1]
<1>0. Depth = Len(ctl) /\ CtlShape(ctl, Len(chunks))
  BY DEF Depth, Shaped
<1>1. e \in 1..(Depth - 1) /\ e \in 1..Len(ctl)
  BY ShapedFacts, <1>0
<1>2. Front(ctl)[e] = ctl[e]
  <2> DEFINE k == Len(ctl)
  <2>1. \A i \in 1..(k - 1) : Front(ctl)[i] = ctl[i]
    BY <1>0, FrontCtl
  <2> QED
    BY <2>1, <1>0, <1>1
<1>3. DOMAIN ctl[e] = ActivationFields
  BY <1>0, <1>1 DEF CtlShape
<1>4. ctl' = [Front(ctl) EXCEPT ![e] = x]
  BY <1>2 DEF Resumed
<1>5. /\ DOMAIN x = ActivationFields
      /\ x.pc = ctl[e].pc + 1 /\ x.who = ctl[e].who /\ x.chunk = ctl[e].chunk
      /\ x.start = ctl[e].start /\ x.floor = ctl[e].floor
  BY <1>3 DEF ActivationFields
<1> HIDE DEF x
<1> QED
  BY <1>4, <1>5 DEF Altered

\* An activation that goes on where it stood, by any of the kinds of step.
LEMMA ShapedByGoto ==
  ASSUME Shaped, status # "halted", NEW pc, Goto(pc), status' # "halted",
         IsSeq(chunks'), Len(chunks') = Len(chunks), VmShape(vm'), SameDepth(app, app')
  PROVE  Shaped'
<1>1. PICK x : /\ ctl' = Altered(ctl, Depth, x) /\ DOMAIN x = ActivationFields
               /\ x.who = Top.who /\ x.chunk = Top.chunk
  BY GotoAlters
<1>2. CtlShape(ctl, Len(chunks)) /\ Depth \in 1..Len(ctl) /\ IsSeq(ctl)
  BY ShapedFacts DEF Shaped
<1>3. CtlShape(ctl', Len(chunks'))
  BY <1>1, <1>2, AlteredCtl DEF Top
<1>4. Counted(ctl') = Counted(ctl)
  BY <1>1, <1>2, AlteredCount DEF Top
<1>5. ctl' # <<>>
  <2>1. Len(ctl') = Len(ctl)
    BY <1>1, <1>2, AlteredSeq
  <2> QED
    BY <2>1, <1>2, EmptyIsSeq
<1> QED
  BY <1>3, <1>4, <1>5 DEF Shaped, SameDepth

LEMMA ShapedBegan ==
  ASSUME Shaped, Began
  PROVE  Shaped'
<1>1. status # "halted" /\ status' # "halted" /\ VmShape(vm')
  BY DEF Began
<1>2. PICK a : /\ ctl' = Append(ctl, a) /\ DOMAIN a = ActivationFields
            /\ \/ /\ Ins.op \in SnippetOps /\ a.who = Ins.op /\ a.chunk = Len(chunks) + 1
                  /\ \E c : chunks' = Append(chunks, c) /\ a.start = c.start
                  /\ AppShape(app')
                  /\ app'.runDepth = IF a.who = "LOAD" THEN app.runDepth ELSE app.runDepth + 1
               \/ /\ Ins.op \in Templates /\ a.who = TemplateOf(Ins.op) /\ a.who \in LoopOps
                  /\ a.chunk = Top.chunk /\ a.start = Ins.a
                  /\ UNCHANGED chunks /\ SameDepth(app, app')
  BY DEF Began
<1>3. CtlShape(ctl, Len(chunks)) /\ ctl # <<>> /\ IsSeq(ctl) /\ Len(chunks) \in Nat /\ IsSeq(chunks)
  BY <1>1, ShapedFacts DEF Shaped
<1>4. /\ IsSeq(chunks') /\ CtlShape(ctl', Len(chunks')) /\ AppShape(app')
      /\ app'.runDepth = IF a.who \in {"RUN", "EXECTIME"} THEN app.runDepth + 1 ELSE app.runDepth
  <2>1. CASE Ins.op \in SnippetOps /\ a.who = Ins.op /\ a.chunk = Len(chunks) + 1
               /\ (\E c : chunks' = Append(chunks, c)) /\ AppShape(app')
               /\ app'.runDepth = IF a.who = "LOAD" THEN app.runDepth ELSE app.runDepth + 1
    <3>1. IsSeq(chunks') /\ Len(chunks') = Len(chunks) + 1
      BY <2>1, <1>3, AppendSeq
    <3>2. CtlShape(ctl', Len(chunks'))
      BY <2>1, <3>1, <1>2, <1>3, AppendCtl
    <3> QED
      BY <2>1, <3>1, <3>2 DEF SnippetOps
  <2>2. CASE a.who \in LoopOps /\ a.chunk = Top.chunk /\ UNCHANGED chunks /\ SameDepth(app, app')
    <3>1. a.chunk = Len(chunks)
      BY <2>2, <1>1, ShapedFacts
    <3>2. CtlShape(ctl', Len(chunks'))
      BY <2>2, <3>1, <1>2, <1>3, AppendCtl
    <3> QED
      BY <2>2, <3>2, <1>3 DEF LoopOps, SameDepth
  <2> QED
    BY <1>2, <2>1, <2>2
<1>5. app'.runDepth = Cardinality(Counted(ctl'))
  BY <1>2, <1>3, <1>4, AppendCount DEF Shaped
<1>6. ctl' # <<>>
  BY <1>2, <1>3, AppendSeq, EmptyIsSeq, SeqShape
<1> QED
  BY <1>1, <1>4, <1>5, <1>6 DEF Shaped

LEMMA ShapedEnded ==
  ASSUME Shaped, Ended
  PROVE  Shaped' /\ Depth > 1
<1>1. status = "running" /\ status' = "running" /\ VmShape(vm') /\ Resumed
      /\ Top.who \in SnippetOps \union LoopOps
  BY DEF Ended, Returns
<1>2. Depth > 1 /\ Depth = Len(ctl) /\ CtlShape(ctl, Len(chunks)) /\ IsSeq(ctl) /\ ctl # <<>>
      /\ Len(chunks) \in Nat \ {0} /\ IsSeq(chunks) /\ Depth \in Nat
  <2>1. /\ Depth \in Nat \ {0} /\ ctl # <<>> /\ IsSeq(ctl) /\ Len(chunks) \in Nat \ {0}
        /\ Top.who = "main" <=> Depth = 1
    BY <1>1, ShapedFacts
  <2>2. Top.who # "main"
    BY <1>1 DEF SnippetOps, LoopOps
  <2>3. CtlShape(ctl, Len(chunks)) /\ IsSeq(chunks) /\ Depth = Len(ctl)
    BY DEF Shaped, Depth
  <2> QED
    BY <2>1, <2>2, <2>3
<1> DEFINE n == IF Top.who \in SnippetOps THEN Len(chunks) - 1 ELSE Len(chunks)
           f == Front(ctl)
<1>3. CtlShape(f, n) /\ Len(f) = Depth - 1 /\ \A i \in 1..(Depth - 1) : f[i] = ctl[i]
  BY <1>2, FrontCtl DEF Top
<1>4. PICK x : /\ ctl' = Altered(f, Depth - 1, x) /\ DOMAIN x = ActivationFields
               /\ x.who = ctl[Depth - 1].who /\ x.chunk = ctl[Depth - 1].chunk
  BY <1>1, <1>2, ResumedAlters
<1>5. IsSeq(chunks') /\ Len(chunks') = n
  <2>1. chunks # <<>>
    BY <1>2, EmptyIsSeq
  <2>2. IsSeq(Front(chunks)) /\ Len(Front(chunks)) = Len(chunks) - 1
    BY <1>2, <2>1, FrontSeq
  <2> QED
    BY <2>2, <1>2 DEF Ended
<1>6. Cardinality(Counted(f)) = app'.runDepth
  BY <1>2, FrontCount DEF Top, Ended, Shaped
<1> HIDE DEF f, n
<1>7. Depth - 1 \in 1..Len(f) /\ IsSeq(f) /\ f[Depth - 1] = ctl[Depth - 1]
  BY <1>2, <1>3 DEF CtlShape
<1>8. CtlShape(ctl', n)
  BY <1>3, <1>4, <1>7, AlteredCtl
<1>9. Counted(ctl') = Counted(f)
  BY <1>4, <1>7, AlteredCount
<1>10. AppShape(app')
  <2>1. Cardinality(Counted(f)) \in Nat
    BY <1>7, CountedFinite
  <2>2. app'.runDepth \in Nat /\ app'.runDepth <= app.runDepth
    BY <1>6, <2>1 DEF Ended, Shaped, AppShape
  <2> QED
    BY <2>2, VmLimits DEF Ended, Shaped, AppShape
<1>11. ctl' # <<>>
  BY <1>4, <1>7, AlteredSeq, EmptyIsSeq
<1> QED
  BY <1>1, <1>2, <1>5, <1>6, <1>8, <1>9, <1>10, <1>11 DEF Shaped

LEMMA ShapedAgain ==
  ASSUME Shaped, Again
  PROVE  Shaped'
<1>1. /\ status = "running" /\ status' = "running" /\ VmShape(vm') /\ UNCHANGED chunks
      /\ SameDepth(app, app')
  BY DEF Again, Returns
<1>2. CtlShape(ctl, Len(chunks)) /\ Depth \in 1..Len(ctl) /\ IsSeq(ctl) /\ DOMAIN Top = ActivationFields
  BY <1>1, ShapedFacts DEF Shaped
<1>3. PICK x : /\ ctl' = Altered(ctl, Depth, x) /\ DOMAIN x = ActivationFields
               /\ x.who = Top.who /\ x.chunk = Top.chunk
  BY <1>2 DEF Again, Altered
<1>4. CtlShape(ctl', Len(chunks'))
  BY <1>1, <1>2, <1>3, AlteredCtl DEF Top
<1>5. Counted(ctl') = Counted(ctl)
  BY <1>2, <1>3, AlteredCount DEF Top
<1>6. ctl' # <<>>
  BY <1>2, <1>3, AlteredSeq, EmptyIsSeq
<1> QED
  BY <1>1, <1>4, <1>5, <1>6 DEF Shaped, SameDepth

LEMMA NextRuns == ASSUME VmNext PROVE status = "running"
  BY DEF VmNext, PushValue, SetVariable, PopOrPoke, Unary, Binary, Jump, JumpIfFalse, CallBuiltin,
         CheckOutput, VoidResult, CallProc, Send, Apply, Return, Local, EraseProc, CheckThrow,
         Catch, CheckUncaughtThrow, CountRepeat, StartSnippet, EndSnippet, StartTemplate, EndPass,
         EndRun, Wait, AskUser, Pause, AwaitOrYield, Launch, MotionDelay, Fetch, Returns

\* Every step of the machine is of one of these kinds.
LEMMA NextKinds ==
  ASSUME Shaped, Assembled, EvaluatorKeeps, VmNext
  PROVE  InPlace \/ Entered \/ Returned \/ Stopped \/ Began \/ Ended \/ Again \/ EndRun
<1>1. status = "running"
  BY NextRuns
<1>2. Ready
  BY <1>1, ShapedFacts
<1>3. CASE PushValue \/ SetVariable \/ PopOrPoke \/ Unary \/ Binary \/ Jump \/ JumpIfFalse
             \/ CheckOutput \/ VoidResult
  BY <1>2, <1>3, PushValueInPlace, SetVariableInPlace, PopOrPokeInPlace, UnaryInPlace,
     BinaryInPlace, JumpInPlace, JumpIfFalseInPlace, CheckOutputInPlace, VoidResultInPlace
<1>4. CASE CallBuiltin
  BY <1>2, <1>4, CallBuiltinInPlace DEF EvaluatorKeeps
<1>5. CASE CallProc \/ Send \/ Apply
  BY <1>2, <1>5, CallProcKinds, SendKinds, ApplyKinds
<1>6. CASE Return
  BY <1>2, <1>6, ReturnKinds
<1>7. CASE Local \/ EraseProc \/ CheckThrow \/ Catch \/ CheckUncaughtThrow \/ CountRepeat
  BY <1>2, <1>7, LocalInPlace, EraseProcInPlace, CheckThrowInPlace, CatchInPlace,
     CheckUncaughtThrowInPlace, CountRepeatInPlace
<1>8. CASE StartSnippet \/ StartTemplate
  BY <1>2, <1>8, StartSnippetKinds, StartTemplateKinds
<1>9. CASE EndSnippet \/ EndPass
  BY <1>9, EndSnippetKinds, EndPassKinds DEF Shaped
<1>10. CASE Wait \/ AskUser \/ Pause \/ AwaitOrYield \/ Launch \/ MotionDelay
  BY <1>2, <1>10, WaitInPlace, AskUserInPlace, PauseInPlace, AwaitOrYieldInPlace, LaunchInPlace,
     MotionDelayInPlace
<1> QED
  BY <1>3, <1>4, <1>5, <1>6, <1>7, <1>8, <1>9, <1>10 DEF VmNext

LEMMA ShapedInit ==
  ASSUME Init
  PROVE  Shaped
<1>1. PICK c : StartVm(c)
  BY DEF Init, Load
<1> DEFINE a == Activation("main", 1, c.start)
<1>2. /\ app = NewApp /\ vm = FreshVm /\ ctl = <<a>> /\ chunks = <<c>> /\ status = "running"
  BY <1>1 DEF StartVm
<1>3. VmShape(vm)
  <2>1. /\ DOMAIN vm = VmFields /\ vm.memory = <<>> /\ vm.top = 0 /\ vm.frames = <<>>
        /\ vm.scopes = <<>> /\ vm.repcounts = <<>>
    BY <1>2 DEF FreshVm, VmFields
  <2> QED
    BY <2>1, EmptyIsSeq, VmLimits DEF VmShape
<1>4. AppShape(app) /\ app.runDepth = 0
  <2>1. DOMAIN app = AppFields
    BY <1>2 DEF NewApp, AppFields
  <2>2. app.paused = 0 /\ app.runDepth = 0
    BY <1>2 DEF NewApp
  <2> QED
    BY <2>1, <2>2, VmLimits DEF AppShape
<1>5. a.who = "main" /\ a.chunk = 1 /\ DOMAIN a = ActivationFields
  BY DEF Activation, ActivationFields
<1> HIDE DEF a
<1>6. IsSeq(chunks) /\ Len(chunks) = 1 /\ IsSeq(ctl) /\ Len(ctl) = 1 /\ ctl[1] = a
  <2>1. <<c>> \in Seq({c}) /\ <<a>> \in Seq({a})
    OBVIOUS
  <2> QED
    BY <2>1, <1>2, AnySeq
<1>7. CtlShape(ctl, Len(chunks))
  BY <1>5, <1>6 DEF CtlShape
<1>8. Counted(ctl) = {}
  BY <1>5, <1>6 DEF Counted
<1>9. ctl # <<>>
  BY <1>6, EmptyIsSeq
<1> QED
  BY <1>2, <1>3, <1>4, <1>6, <1>7, <1>8, <1>9, FS_EmptySet DEF Shaped

LEMMA ShapedNext ==
  ASSUME Shaped, Assembled, EvaluatorKeeps, [Next]_vars
  PROVE  Shaped'
<1>1. CASE RunVm
  <2>1. VmNext
    BY <1>1 DEF RunVm
  <2>2. status = "running" /\ IsSeq(chunks)
    BY <2>1, NextRuns DEF Shaped
  <2>3. Ready /\ SameDepth(app, app)
    BY <2>2, ShapedFacts, ReadyFacts
  <2>4. CASE InPlace
    BY <2>2, <2>4, ShapedByGoto DEF InPlace, ChunksKept, Touches
  <2>5. CASE Entered \/ Returned \/ Stopped
    <3>1. /\ \E pc : Goto(pc)
          /\ UNCHANGED <<app, chunks, status>> /\ VmShape(vm')
      BY <2>5 DEF Entered, Returned, Stopped
    <3> QED
      BY <3>1, <2>2, <2>3, ShapedByGoto
  <2>6. CASE Began \/ Ended \/ Again
    BY <2>6, ShapedBegan, ShapedEnded, ShapedAgain
  <2>7. CASE EndRun
    <3>1. /\ status' = "halted" /\ ctl' = <<>> /\ UNCHANGED <<app, vm, chunks>> /\ Depth = 1
      BY <2>2, <2>7, ShapedFacts DEF EndRun
    <3>2. CtlShape(ctl', Len(chunks')) /\ Counted(ctl') = {}
      BY <3>1, EmptyIsSeq, SeqShape DEF CtlShape, Counted, Shaped
    <3>3. Cardinality(Counted(ctl)) = 0
      <4>1. Len(ctl) = 1 /\ ctl[1].who = "main"
        BY <3>1, <2>2, ShapedFacts DEF Depth, Top
      <4>2. Counted(ctl) = {}
        BY <4>1 DEF Counted
      <4> QED
        BY <4>2, FS_EmptySet
    <3> QED
      BY <3>1, <3>2, <3>3, FS_EmptySet DEF Shaped
  <2> QED
    BY <2>1, <2>4, <2>5, <2>6, <2>7, NextKinds
<1>2. CASE ResumeAtOnce
  BY <1>2 DEF ResumeAtOnce, Resume, Shaped
<1>3. CASE ResumeWithLine
  <2>1. PICK v : /\ status \in {"WAITKEY", "INPUT"} /\ status' = "running"
                 /\ vm' = Reports(Pushed(vm, v), TRUE, TRUE)
                 /\ UNCHANGED <<app, ctl, chunks>>
    BY <1>3 DEF ResumeWithLine, ResumeWith
  <2> DEFINE p == Pushed(vm, v)
  <2>2. VmShape(p)
    BY PushedTouches DEF Shaped, Touches
  <2> HIDE DEF p
  <2>3. VmShape(vm')
    BY <2>1, <2>2, ReportsTouch DEF Touches, p
  <2> QED
    BY <2>1, <2>3 DEF Shaped
<1>4. CASE Leave \/ Exited \/ UNCHANGED vars
  BY <1>4 DEF Leave, Exited, vars, Shaped
<1> QED
  BY <1>1, <1>2, <1>3, <1>4 DEF Next

LEMMA ShapedImplies ==
  ASSUME Shaped
  PROVE  TypeOK /\ RunDepthMatches
<1>1. TypeOK
  <2>1. VmShape(vm) /\ AppShape(app) /\ (status = "halted" <=> ctl = <<>>)
    BY DEF Shaped
  <2>2. vm.top \in 0..MaxVmStack /\ \A i \in 1..Len(vm.frames) : vm.frames[i].base \in 0..MaxVmStack
    BY <2>1, VmLimits DEF VmShape
  <2>3. \A i \in 1..Len(ctl) : ctl[i].chunk \in 1..Len(chunks)
    BY DEF Shaped, CtlShape
  <2> QED
    BY <2>1, <2>2, <2>3 DEF TypeOK, VmShape, AppShape
<1>2. RunDepthMatches
  BY DEF Shaped, RunDepthMatches, Counted, Depth
<1> QED
  BY <1>1, <1>2

\* Whatever the code, the machine keeps to its types: heights and depths stay
\* within their limits through every call, return, snippet, template and
\* suspension; it is halted when its last vm_run is.
THEOREM MachineTyped ==
  Spec /\ []Assembled /\ [][EvaluatorKeeps]_vars => []TypeOK
<1>1. Init => Shaped
  BY ShapedInit
<1>2. Shaped /\ Assembled /\ [EvaluatorKeeps]_vars /\ [Next]_vars => Shaped'
  <2>1. CASE UNCHANGED vars
    BY <2>1 DEF vars, Shaped
  <2> QED
    BY <2>1, ShapedNext
<1>3. Shaped => TypeOK
  BY ShapedImplies
<1> QED
  BY <1>1, <1>2, <1>3, PTL DEF Spec

\* app->run_depth is the number of RUNs and EXECTIMEs in progress, whichever
\* way each of them begins, is refused or ends.
THEOREM RunDepthIsCounted ==
  Spec /\ []Assembled /\ [][EvaluatorKeeps]_vars => []RunDepthMatches
<1>1. Init => Shaped
  BY ShapedInit
<1>2. Shaped /\ Assembled /\ [EvaluatorKeeps]_vars /\ [Next]_vars => Shaped'
  <2>1. CASE UNCHANGED vars
    BY <2>1 DEF vars, Shaped
  <2> QED
    BY <2>1, ShapedNext
<1>3. Shaped => RunDepthMatches
  BY ShapedImplies
<1> QED
  BY <1>1, <1>2, <1>3, PTL DEF Spec

-----------------------------------------------------------------------------
(* Where the machine stands in well-kept code.                             *)
(*                                                                         *)
(* c: the activations, f: the frames, g: the height each activation began  *)
(* at, P: for each chunk the places of its code.  Activation d's own       *)
(* frames are those above its floor, up to the floor of the next one.      *)

KindOf(who) == CASE who \in {"MAP", "FILTER", "REDUCE"} -> "value"
                 [] who = "FOREACH" -> "block"
                 [] OTHER -> "program"
\* What instruction began an activation.
Beginner(who) == IF who \in SnippetOps THEN {who} ELSE {op \in Templates : TemplateOf(op) = who}
Operands(who) == IF who = "LOAD" THEN 0 ELSE 1

Ceil(c, f, d) == IF d = Len(c) THEN Len(f) ELSE c[d + 1].floor
\* The height that code of activation d counts from while k frames are open, and its kind.
Base(c, f, g, d, k) == IF k > c[d].floor THEN f[k].base ELSE g[d]
KindAt(c, d, k) == IF k > c[d].floor THEN "procedure" ELSE KindOf(c[d].who)

\* Activation d began on ground g[d], and each of its calls goes on at a place of its code.
Stands(c, f, g, P, d) ==
  /\ g[d] \in Nat /\ c[d].floor \in 0..Ceil(c, f, d) /\ Ceil(c, f, d) <= Len(f)
  /\ <<c[d].start, 0, KindOf(c[d].who)>> \in P[c[d].chunk]
  /\ c[d].floor > 0 => f[c[d].floor].base <= g[d]
  /\ \A k \in (c[d].floor + 1)..Ceil(c, f, d) :
       /\ Base(c, f, g, d, k - 1) <= f[k].base
       /\ <<f[k].pc, f[k].base + 1 - Base(c, f, g, d, k - 1), KindAt(c, d, k - 1)>> \in P[c[d].chunk]

\* It waits for the next activation at the instruction that began that one.
Waits(c, f, g, P, d) ==
  LET k == c[d + 1].floor
      b == Base(c, f, g, d, k)
  IN  /\ b <= g[d + 1]
      /\ <<c[d].pc, g[d + 1] + Operands(c[d + 1].who) - b, KindAt(c, d, k)>> \in P[c[d].chunk]

\* The topmost activation, with top slots on the stack and owed ones to come.
Walks(c, f, g, P, top, owed) ==
  LET d == Len(c)
      b == Base(c, f, g, d, Len(f))
  IN  \/ b <= top /\ <<c[d].pc, top + owed - b, KindAt(c, d, Len(f))>> \in P[c[d].chunk]
      \/ d = 1 /\ f = <<>> /\ c[d].pc = -1    \* STOP or OUTPUT at the top level

\* The code at every waiting activation's address is the instruction it waits for.
WaitsAt(c, chs, d) ==
  chs[c[d].chunk].code[c[d].pc + 1].op \in Beginner(c[d + 1].who)

FloorsRise(c) == \A d, e \in 1..Len(c) : d <= e => c[d].floor <= c[e].floor
BasesRise(f) == \A i \in 1..(Len(f) - 1) : f[i].base <= f[i + 1].base

Grounded(g, P) ==
  /\ IsSeq(P) /\ Len(P) = Len(chunks) /\ \A i \in 1..Len(chunks) : WellKept(chunks[i], P[i])
  /\ IsSeq(g) /\ Len(g) = Len(ctl)
  /\ \A d \in 1..Len(ctl) : Stands(ctl, vm.frames, g, P, d)
  /\ \A d \in 1..(Len(ctl) - 1) : Waits(ctl, vm.frames, g, P, d) /\ WaitsAt(ctl, chunks, d)
  /\ ctl # <<>> => ctl[1].floor = 0 /\ g[1] = 0 /\ Walks(ctl, vm.frames, g, P, vm.top, Owed(status))
  /\ ctl = <<>> => vm.frames = <<>>
  /\ FloorsRise(ctl) /\ BasesRise(vm.frames)


\* What is said of an activation depends on these of its fields, and on the
\* frames up to its ceiling.
LEMMA StandsKept ==
  ASSUME NEW c, NEW f, NEW g, NEW P, NEW d, NEW e, NEW h, NEW G, NEW Q,
         e[d].start = c[d].start, e[d].floor = c[d].floor, e[d].who = c[d].who,
         Ceil(e, h, d) = Ceil(c, f, d), Ceil(c, f, d) <= Len(h), Ceil(c, f, d) \in Int,
         G[d] = g[d], Q[e[d].chunk] = P[c[d].chunk],
         \A k \in 1..Ceil(c, f, d) : h[k] = f[k],
         Stands(c, f, g, P, d)
  PROVE  Stands(e, h, G, Q, d)
<1> DEFINE fl == c[d].floor
           top == Ceil(c, f, d)
<1>1. fl \in 0..top /\ fl \in Int /\ top \in Int
  BY DEF Stands
<1>2. \A k \in fl..top : Base(e, h, G, d, k) = Base(c, f, g, d, k) /\ KindAt(e, d, k) = KindAt(c, d, k)
  BY <1>1 DEF Base, KindAt
<1>3. \A k \in (fl + 1)..top : k - 1 \in fl..top /\ h[k] = f[k]
  BY <1>1
<1>4. fl > 0 => h[fl] = f[fl]
  BY <1>1
<1>5. \A k \in (fl + 1)..top :
         /\ Base(e, h, G, d, k - 1) <= h[k].base
         /\ <<h[k].pc, h[k].base + 1 - Base(e, h, G, d, k - 1), KindAt(e, d, k - 1)>> \in Q[e[d].chunk]
  BY <1>2, <1>3 DEF Stands
<1> HIDE DEF fl, top
<1> QED
  BY <1>1, <1>4, <1>5 DEF Stands, fl, top

LEMMA WaitsKept ==
  ASSUME NEW c, NEW f, NEW g, NEW P, NEW d, NEW e, NEW h, NEW G, NEW Q,
         e[d].floor = c[d].floor, e[d].who = c[d].who, e[d].pc = c[d].pc,
         e[d + 1].floor = c[d + 1].floor, e[d + 1].who = c[d + 1].who,
         c[d].floor \in Nat, c[d + 1].floor \in Nat,
         G[d] = g[d], G[d + 1] = g[d + 1], Q[e[d].chunk] = P[c[d].chunk],
         \A k \in 1..c[d + 1].floor : h[k] = f[k],
         Waits(c, f, g, P, d)
  PROVE  Waits(e, h, G, Q, d)
<1> DEFINE k == c[d + 1].floor
<1>1. Base(e, h, G, d, k) = Base(c, f, g, d, k) /\ KindAt(e, d, k) = KindAt(c, d, k)
  BY DEF Base, KindAt
<1> QED
  BY <1>1 DEF Waits

LEMMA SameCodeKept ==
  ASSUME NEW c, NEW e, NEW S, SameCode(c, e), WellKept(c, S)
  PROVE  WellKept(e, S)
<1>1. \A x : InsAt(e, x) = InsAt(c, x) /\ Onward(e, x) = Onward(c, x)
  BY DEF SameCode, InsAt, Onward
<1> QED
  BY <1>1 DEF SameCode, WellKept

\* The code is well kept: in every chunk each instruction has one height,
\* whichever way it is reached, and calls land on procedures.
Live == exit = ""    \* run_headless_script is in its loop
WellCoded ==
  Live => \A i \in 1..Len(chunks) : (\E S : WellKept(chunks[i], S)) /\ CallsLand(chunks[i])

\* The runs the theorems below are about: the value stack never fills, no
\* OUTPUT or STOP leaves a procedure from inside a snippet or a template that
\* it called, and no LAUNCH is refused.
Unhindered ==
  Live => /\ vm.top < MaxVmStack
          /\ Fetch({"OUTPUT", "STOP"}) => Depth = 1 \/ Len(vm.frames) > Top.floor
          /\ Fetch({"LAUNCH"}) => Launchable
Ordinary == WellCoded /\ Unhindered

\* The height the code that runs counts from, and what kind of code it is.
Foot(c, f, g) == Base(c, f, g, Len(c), Len(f))
Kind == KindAt(ctl, Depth, Len(vm.frames))

LEMMA FootFacts ==
  ASSUME Shaped, status # "halted", NEW g, NEW P, Grounded(g, P)
  PROVE  /\ Foot(ctl, vm.frames, g) \in Nat
         /\ Top.floor \in Nat /\ Top.floor <= Len(vm.frames)
         /\ Len(vm.frames) \in Nat /\ vm.top \in Nat
         /\ vm.frames = <<>> <=> Len(vm.frames) = 0
         /\ vm.frames # <<>> => /\ vm.frames[Len(vm.frames)].base <= Foot(ctl, vm.frames, g)
                                /\ vm.frames[Len(vm.frames)].base \in Nat
                                /\ Foot(ctl, vm.frames, g) <= vm.top
<1> DEFINE f == vm.frames
           k == Len(f)
           b == Foot(ctl, f, g)
<1>1. IsSeq(f) /\ k \in Nat /\ vm.top \in Nat /\ (f = <<>> <=> k = 0)
  <2>1. IsSeq(f) /\ vm.top \in Nat
    BY DEF Shaped, VmShape
  <2> QED
    BY <2>1, SeqShape, EmptyIsSeq, EmptySeq DEF IsSeq
<1>2. \A i \in 1..k : f[i].base \in Nat
  BY DEF Shaped, VmShape
<1>3. Depth \in 1..Len(ctl) /\ Depth = Len(ctl) /\ ctl # <<>>
  BY ShapedFacts DEF Depth
<1>4. /\ Stands(ctl, f, g, P, Depth) /\ Walks(ctl, f, g, P, vm.top, Owed(status))
  BY <1>3 DEF Grounded
<1> HIDE DEF f
<1>5. Top.floor \in 0..k /\ g[Depth] \in Nat /\ (Top.floor > 0 => f[Top.floor].base <= g[Depth])
  BY <1>3, <1>4 DEF Stands, Ceil, Top
<1>6. b = IF k > Top.floor THEN f[k].base ELSE g[Depth]
  BY <1>3 DEF Foot, Base, Top
<1> HIDE DEF b
<1>7. b \in Nat
  BY <1>1, <1>2, <1>5, <1>6
<1>8. ASSUME f # <<>>
      PROVE  f[k].base <= b /\ f[k].base \in Nat /\ b <= vm.top
  <2>1. k > 0 /\ f[k].base \in Nat
    BY <1>1, <1>2, <1>8
  <2>2. f[k].base <= b
    BY <2>1, <1>1, <1>5, <1>6
  <2>3. b <= vm.top
    BY <1>3, <1>4, <1>8 DEF Walks, Foot, b
  <2> QED
    BY <2>1, <2>2, <2>3
<1> QED
  BY <1>1, <1>5, <1>7, <1>8 DEF f, b

\* Where the machine runs, the next instruction has what it takes above the
\* ground its code stands on; only a STOP at the top level goes nowhere.
LEMMA CodeFacts ==
  ASSUME Shaped, Assembled, status = "running", NEW g, NEW P, Grounded(g, P), Live, Ordinary
  PROVE  \/ Depth = 1 /\ vm.frames = <<>> /\ Top.pc = -1 /\ ~InCode
         \/ /\ InCode /\ Settled /\ Foot(ctl, vm.frames, g) <= vm.top /\ Kind \in Kinds
            /\ Takes(Ins) \in Nat /\ Takes(Ins) <= vm.top - Foot(ctl, vm.frames, g)
            /\ EndsWell(Ins, <<Top.pc, vm.top - Foot(ctl, vm.frames, g), Kind>>)
            /\ Top.pc \in Int
            /\ <<Top.pc, vm.top - Foot(ctl, vm.frames, g), Kind>> \in P[Top.chunk]
            /\ \A pc \in Successors(Ins, Top.pc) :
                 <<pc, vm.top - Foot(ctl, vm.frames, g) - Takes(Ins) + Puts(Ins), Kind>>
                   \in P[Top.chunk]
<1> DEFINE b == Foot(ctl, vm.frames, g)
           here == <<Top.pc, vm.top - b, Kind>>
           S == P[Top.chunk]
<1>1. Walks(ctl, vm.frames, g, P, vm.top, Owed(status)) /\ Owed(status) = 0
  BY ShapedFacts DEF Grounded, Owed
<1>2. WellKept(Chunk, S) /\ Top.chunk \in 1..Len(chunks)
  BY ShapedFacts DEF Grounded, Chunk
<1>3. b \in Nat /\ vm.top \in Nat
  BY FootFacts
<1>4. CASE Depth = 1 /\ vm.frames = <<>> /\ Top.pc = -1
  <2>1. Len(Chunk.code) \in Nat
    BY ShapedFacts, SeqShape DEF Ready, AssembledChunk
  <2>2. ~InCode
    BY <1>4, <2>1 DEF InCode
  <2> QED
    BY <1>4, <2>2
<1>5. CASE ~(Depth = 1 /\ vm.frames = <<>> /\ Top.pc = -1)
  <2>1. /\ b <= vm.top
        /\ <<ctl[Len(ctl)].pc, vm.top + Owed(status) - b, KindAt(ctl, Len(ctl), Len(vm.frames))>>
             \in P[ctl[Len(ctl)].chunk]
    BY <1>1, <1>5 DEF Walks, Foot, Depth, Top
  <2> HIDE DEF b
  <2>2. vm.top + Owed(status) - b = vm.top - b
    BY <1>1, <1>3
  <2>3. here \in S
    BY <2>1, <2>2 DEF Depth, Top, Kind
  <2> HIDE DEF S
  <2>4. /\ Top.pc \in 0..(Len(Chunk.code) - 1) /\ Kind \in Kinds
    BY <2>3, <1>2 DEF WellKept
  <2>5. InCode /\ InsAt(Chunk, here) = Ins
    BY <2>4 DEF InCode, InsAt, Ins
  <2>6. Takes(Ins) \in 0..(vm.top - b) /\ Onward(Chunk, here) \subseteq S /\ EndsWell(Ins, here)
    BY <2>3, <2>5, <1>2 DEF WellKept
  <2>7. Takes(Ins) \in Nat /\ Takes(Ins) <= vm.top - b /\ Takes(Ins) \in 0..vm.top
    BY <2>6, <1>3
  <2>8. \A pc \in Successors(Ins, Top.pc) :
           <<pc, vm.top - b - Takes(Ins) + Puts(Ins), Kind>> \in S
    BY <2>5, <2>6 DEF Onward
  <2>9. Settled
    BY <2>5, <2>7 DEF Settled, Ordinary, WellCoded, Unhindered, Fetch
  <2> QED
    BY <2>1, <2>3, <2>4, <2>5, <2>6, <2>7, <2>8, <2>9 DEF b, S, here
<1> QED
  BY <1>4, <1>5

\* A step of the topmost activation, seen from the others.
LEMMA GroundedOnTop ==
  ASSUME Shaped, status # "halted", NEW g, NEW P, Grounded(g, P), NEW x,
         ctl' = Altered(ctl, Depth, x),
         x.who = Top.who, x.chunk = Top.chunk, x.start = Top.start, x.floor = Top.floor,
         IsSeq(chunks'), Len(chunks') = Len(chunks),
         \A i \in 1..Len(chunks) : SameCode(chunks[i], chunks'[i]),
         Top.floor <= Len(vm'.frames), Len(vm'.frames) \in Nat,
         \A k \in 1..Top.floor : vm'.frames[k] = vm.frames[k],
         Stands(ctl', vm'.frames, g, P, Depth),
         Walks(ctl', vm'.frames, g, P, vm'.top, Owed(status')),
         BasesRise(vm'.frames)
  PROVE  Grounded(g, P)'
<1> DEFINE D == Depth
           f == vm'.frames
<1>1. D \in Nat \ {0} /\ D = Len(ctl) /\ D \in 1..Len(ctl) /\ IsSeq(ctl) /\ Top = ctl[D] /\ ctl # <<>>
  BY ShapedFacts DEF Depth, Top
<1>2. IsSeq(ctl') /\ Len(ctl') = D /\ \A i \in 1..D : ctl'[i] = IF i = D THEN x ELSE ctl[i]
  BY <1>1, AlteredSeq
<1>3. \A i \in 1..D : /\ ctl'[i].who = ctl[i].who /\ ctl'[i].chunk = ctl[i].chunk
                      /\ ctl'[i].start = ctl[i].start /\ ctl'[i].floor = ctl[i].floor
                      /\ i < D => ctl'[i] = ctl[i]
  BY <1>1, <1>2
<1>4. \A i \in 1..D : ctl[i].floor \in Nat /\ ctl[i].floor <= Top.floor
  <2>2. ASSUME NEW i \in 1..D PROVE ctl[i].floor \in Nat /\ ctl[i].floor <= Top.floor
    <3>1. i <= D /\ ctl[i].floor <= ctl[D].floor
      BY <1>1 DEF Grounded, FloorsRise
    <3>2. Stands(ctl, vm.frames, g, P, i)
      BY <1>1 DEF Grounded
    <3> QED
      BY <1>1, <3>1, <3>2 DEF Stands
  <2> QED
    BY <2>2
<1>5. ASSUME NEW d \in 1..(D - 1)
      PROVE  /\ Stands(ctl', f, g, P, d) /\ Waits(ctl', f, g, P, d) /\ WaitsAt(ctl', chunks', d)
  <2>1. d \in 1..D /\ d + 1 \in 1..D /\ d # D /\ d < D
    BY <1>1
  <2>2. /\ Stands(ctl, vm.frames, g, P, d) /\ Waits(ctl, vm.frames, g, P, d)
        /\ WaitsAt(ctl, chunks, d)
    BY <1>1, <2>1 DEF Grounded
  <2>3. ctl[d + 1].floor \in Nat /\ ctl[d + 1].floor <= Top.floor /\ ctl[d].floor \in Nat
        /\ Top.floor \in Nat
    BY <2>1, <1>1, <1>4
  <2>4. /\ Ceil(ctl, vm.frames, d) = ctl[d + 1].floor /\ Ceil(ctl', f, d) = ctl[d + 1].floor
    BY <2>1, <1>1, <1>2, <1>3 DEF Ceil
  <2>5. \A k \in 1..ctl[d + 1].floor : f[k] = vm.frames[k]
    BY <2>3
  <2>6. ctl[d + 1].floor <= Len(f)
    BY <2>3
  <2>7. Stands(ctl', f, g, P, d)
    BY <2>1, <2>2, <2>3, <2>4, <2>5, <2>6, <1>3, StandsKept
  <2>8. Waits(ctl', f, g, P, d)
    BY <2>1, <2>2, <2>3, <2>5, <1>3, WaitsKept
  <2>9. WaitsAt(ctl', chunks', d)
    <3>1. ctl[d].chunk \in 1..Len(chunks)
      BY <2>1, <1>1 DEF Shaped, CtlShape
    <3> QED
      BY <2>1, <2>2, <3>1, <1>3 DEF WaitsAt, SameCode
  <2> QED
    BY <2>7, <2>8, <2>9
<1>6. \A i \in 1..Len(chunks') : WellKept(chunks'[i], P[i])
  BY SameCodeKept DEF Grounded
<1>7. \A d \in 1..D : Stands(ctl', f, g, P, d)
  BY <1>1, <1>5
<1>8. FloorsRise(ctl')
  BY <1>2, <1>3, <1>1 DEF Grounded, FloorsRise
<1>9. ctl' # <<>> /\ ctl'[1].floor = 0
  BY <1>1, <1>2, <1>3, EmptyIsSeq DEF Grounded
<1> QED
  BY <1>1, <1>2, <1>5, <1>6, <1>7, <1>8, <1>9 DEF Grounded

LEMMA PutsSome ==
  ASSUME NEW i, i.op \in {"PEEK", "POKE"} => i.a \in Nat
  PROVE  Puts(i) \in Nat
<1>1. CASE i.op = "PEEK"
  BY <1>1, StackEffects
<1>2. CASE i.op = "POKE"
  BY <1>2, StackEffects
<1>3. CASE i.op \notin {"PEEK", "POKE"}
  BY <1>3 DEF Puts
<1> QED
  BY <1>1, <1>2, <1>3

\* While a procedure runs, the step leaves its caller's part of the stack alone.
Untouched ==
  vm.frames # <<>> =>
    /\ \A i \in 1..vm.frames[Len(vm.frames)].base : vm'.memory[i] = vm.memory[i]
    /\ vm'.top >= vm.frames[Len(vm.frames)].base
    /\ Len(vm'.frames) < Len(vm.frames) => vm'.top = vm.frames[Len(vm.frames)].base + 1

LEMMA UntouchedAbove ==
  ASSUME Shaped, status # "halted", NEW g, NEW P, Grounded(g, P),
         NEW h \in Int, Touches(vm, vm', h), Foot(ctl, vm.frames, g) <= h,
         vm'.top \in Int, Foot(ctl, vm.frames, g) <= vm'.top
  PROVE  Untouched
<1> DEFINE base == vm.frames[Len(vm.frames)].base
           b == Foot(ctl, vm.frames, g)
<1>1. SUFFICES ASSUME vm.frames # <<>>
               PROVE  /\ \A i \in 1..base : vm'.memory[i] = vm.memory[i]
                      /\ vm'.top >= base
                      /\ ~(Len(vm'.frames) < Len(vm.frames))
  BY DEF Untouched
<1>2. base <= b /\ base \in Nat /\ b \in Nat /\ Len(vm.frames) \in Nat
  BY <1>1, FootFacts
<1>3. vm'.frames = vm.frames /\ \A i \in 1..h : vm'.memory[i] = vm.memory[i]
  BY DEF Touches
<1> HIDE DEF base, b
<1>4. base <= h /\ base <= vm'.top
  BY <1>2 DEF b
<1>5. \A i \in 1..base : vm'.memory[i] = vm.memory[i]
  BY <1>2, <1>3, <1>4
<1> QED
  BY <1>2, <1>3, <1>4, <1>5

\* The topmost activation goes on, in the frames it was in.
LEMMA GroundedGoesOn ==
  ASSUME Shaped, status # "halted", NEW g, NEW P, Grounded(g, P), NEW x,
         ctl' = Altered(ctl, Depth, x),
         x.who = Top.who, x.chunk = Top.chunk, x.start = Top.start, x.floor = Top.floor,
         IsSeq(chunks'), Len(chunks') = Len(chunks),
         \A i \in 1..Len(chunks) : SameCode(chunks[i], chunks'[i]),
         vm'.frames = vm.frames,
         \/ /\ Foot(ctl, vm.frames, g) <= vm'.top
            /\ <<x.pc, vm'.top + Owed(status') - Foot(ctl, vm.frames, g), Kind>> \in P[Top.chunk]
         \/ Depth = 1 /\ vm.frames = <<>> /\ x.pc = -1
  PROVE  Grounded(g, P)'
<1> DEFINE D == Depth
           f == vm.frames
<1>1. D \in Nat \ {0} /\ D = Len(ctl) /\ D \in 1..Len(ctl) /\ IsSeq(ctl) /\ Top = ctl[D]
  BY ShapedFacts DEF Depth, Top
<1>2. Len(ctl') = D /\ ctl'[D] = x
  BY <1>1, AlteredSeq
<1>3. Stands(ctl, f, g, P, D) /\ BasesRise(f)
  BY <1>1 DEF Grounded
<1>4. Top.floor \in Nat /\ Top.floor <= Len(f) /\ Len(f) \in Nat
  BY FootFacts
<1>5. Ceil(ctl', f, D) = Len(f) /\ Ceil(ctl, f, D) = Len(f)
  BY <1>1, <1>2 DEF Ceil
<1>6. Stands(ctl', f, g, P, D)
  BY <1>1, <1>2, <1>3, <1>4, <1>5, StandsKept
<1>7. /\ Base(ctl', f, g, D, Len(f)) = Foot(ctl, f, g)
      /\ KindAt(ctl', D, Len(f)) = Kind
  BY <1>1, <1>2 DEF Base, KindAt, Foot, Kind, Top
<1>8. Walks(ctl', f, g, P, vm'.top, Owed(status'))
  BY <1>1, <1>2, <1>7 DEF Walks
<1> QED
  BY <1>3, <1>4, <1>6, <1>8, GroundedOnTop

LEMMA GroundedInPlace ==
  ASSUME Shaped, Assembled, NEW g, NEW P, Grounded(g, P), Live, Ordinary, InPlace
  PROVE  Grounded(g, P)' /\ Untouched
<1> DEFINE b == Foot(ctl, vm.frames, g)
           t == Takes(Ins)
           p == Puts(Ins)
<1>1. status = "running" /\ InCode /\ status' # "halted" /\ status' \in {"running", Ins.op}
  BY DEF InPlace
<1>2. /\ Settled /\ b <= vm.top /\ t \in Nat /\ t <= vm.top - b
      /\ \A pc \in Successors(Ins, Top.pc) : <<pc, vm.top - b - t + p, Kind>> \in P[Top.chunk]
  BY <1>1, CodeFacts
<1>3. PICK pc \in Successors(Ins, Top.pc) : Goto(pc)
  BY DEF InPlace
<1>4. PICK x : /\ ctl' = Altered(ctl, Depth, x) /\ x.pc = pc /\ x.who = Top.who
               /\ x.chunk = Top.chunk /\ x.start = Top.start /\ x.floor = Top.floor
  BY <1>1, <1>3, GotoAlters
<1>5. /\ vm'.top + Owed(status') = vm.top - t + p /\ Touches(vm, vm', vm.top - t)
      /\ IsSeq(chunks') /\ Len(chunks') = Len(chunks)
      /\ \A i \in 1..Len(chunks) : SameCode(chunks[i], chunks'[i])
  BY <1>2 DEF InPlace, ChunksKept
<1>6. b \in Nat /\ vm.top \in Nat /\ vm'.top \in Nat /\ vm'.frames = vm.frames
  BY <1>1, <1>5, FootFacts DEF Touches, VmShape
<1>7. p \in Nat /\ Owed(status') \in {0, 1} /\ Owed(status') <= p
  <2>1. Ready
    BY <1>1, ShapedFacts
  <2>2. p \in Nat
    BY <1>1, <2>1, ReadyFacts, PutsSome
  <2>3. CASE status' \in {"WAITKEY", "INPUT"}
    <3>1. p = 1 /\ Owed(status') = 1
      BY <1>1, <2>3, StackEffects DEF Plainly, Owed
    <3> QED
      BY <3>1
  <2>4. CASE status' \notin {"WAITKEY", "INPUT"}
    <3>1. Owed(status') = 0
      BY <2>4 DEF Owed
    <3> QED
      BY <3>1, <2>2
  <2> QED
    BY <2>3, <2>4, <2>2
<1> HIDE DEF b, t, p
<1>8. b <= vm'.top /\ vm'.top + Owed(status') - b = vm.top - b - t + p
  <2> DEFINE n == vm'.top
             o == Owed(status')
  <2>1. /\ n + o = vm.top - t + p /\ n \in Nat /\ vm.top \in Nat /\ b \in Nat /\ t \in Nat /\ p \in Nat
        /\ o \in Int /\ o <= p /\ t <= vm.top - b
    BY <1>2, <1>5, <1>6, <1>7
  <2> HIDE DEF n, o
  <2>2. b <= n /\ n + o - b = vm.top - b - t + p
    BY <2>1
  <2> QED
    BY <2>2 DEF n, o
<1>9. Grounded(g, P)'
  <2>1. <<x.pc, vm'.top + Owed(status') - b, Kind>> \in P[Top.chunk]
    BY <1>2, <1>4, <1>8
  <2> QED
    BY <1>1, <1>4, <1>5, <1>6, <1>8, <2>1, GroundedGoesOn DEF b
<1>10. Untouched
  <2>1. vm.top - t \in Int /\ b <= vm.top - t
    BY <1>2, <1>6
  <2> QED
    BY <2>1, <1>1, <1>5, <1>6, <1>8, UntouchedAbove DEF b
<1> QED
  BY <1>9, <1>10

LEMMA GroundedStopped ==
  ASSUME Shaped, Assembled, NEW g, NEW P, Grounded(g, P), Live, Ordinary, Stopped
  PROVE  Grounded(g, P)' /\ Untouched
<1>1. /\ status = "running" /\ UNCHANGED <<app, chunks, status>> /\ vm.frames = <<>>
      /\ vm'.frames = vm.frames /\ Goto(-1) /\ Fetch({"OUTPUT", "STOP"})
  BY DEF Stopped, Fetch
<1>2. Depth = 1
  <2>1. Len(vm.frames) = 0 /\ Top.floor \in Nat
    BY <1>1, FootFacts
  <2> QED
    BY <1>1, <2>1 DEF Ordinary, WellCoded, Unhindered
<1>3. PICK x : /\ ctl' = Altered(ctl, Depth, x) /\ x.pc = -1 /\ x.who = Top.who
               /\ x.chunk = Top.chunk /\ x.start = Top.start /\ x.floor = Top.floor
  BY <1>1, GotoAlters
<1>4. IsSeq(chunks') /\ Len(chunks') = Len(chunks)
      /\ \A i \in 1..Len(chunks) : SameCode(chunks[i], chunks'[i])
  BY <1>1 DEF SameCode, Shaped
<1>5. Grounded(g, P)'
  BY <1>1, <1>2, <1>3, <1>4, GroundedGoesOn
<1> QED
  BY <1>1, <1>5 DEF Untouched

LEMMA GroundedEntered ==
  ASSUME Shaped, Assembled, NEW g, NEW P, Grounded(g, P), Live, Ordinary, Entered
  PROVE  Grounded(g, P)' /\ Untouched
<1> DEFINE D == Depth
           f == vm.frames
           h == vm'.frames
           k == Len(f)
           b == Foot(ctl, f, g)
           n == vm'.top
<1>1. /\ status = "running" /\ status' = "running" /\ InCode /\ UNCHANGED chunks
      /\ Ins.op \in {"CALL_PROC", "SEND", "APPLY"} /\ vm'.memory = vm.memory /\ VmShape(vm')
  BY DEF Entered
<1>2. /\ Settled /\ b <= vm.top /\ Takes(Ins) \in Nat /\ Takes(Ins) <= vm.top - b
      /\ \A pc \in Successors(Ins, Top.pc) :
           <<pc, vm.top - b - Takes(Ins) + Puts(Ins), Kind>> \in P[Top.chunk]
  BY <1>1, CodeFacts
<1>3. PICK t : /\ Goto(t)
               /\ CallsLand(Chunk) => \E j \in 1..Len(Chunk.procs) : Chunk.procs[j].pc = t
  BY DEF Entered
<1>4. PICK x : /\ ctl' = Altered(ctl, D, x) /\ x.pc = t /\ x.who = Top.who
               /\ x.chunk = Top.chunk /\ x.start = Top.start /\ x.floor = Top.floor
  BY <1>1, <1>3, GotoAlters
<1>5. /\ D \in Nat \ {0} /\ D = Len(ctl) /\ D \in 1..Len(ctl) /\ IsSeq(ctl) /\ Top = ctl[D]
      /\ Top.chunk \in 1..Len(chunks)
  BY <1>1, ShapedFacts DEF Depth, Top
<1>6. /\ b \in Nat /\ vm.top \in Nat /\ k \in Nat /\ Top.floor \in Nat /\ Top.floor <= k
      /\ f # <<>> => f[k].base <= b /\ f[k].base \in Nat
      /\ f = <<>> <=> k = 0
  BY <1>1, FootFacts
<1>7. n = vm.top - Takes(Ins) /\ b <= n /\ n \in Nat
  <2>1. n = vm.top - Takes(Ins)
    BY <1>2 DEF Entered
  <2> HIDE DEF n, b
  <2> QED
    BY <2>1, <1>2, <1>6
<1>8. /\ IsSeq(h) /\ Len(h) = k + 1 /\ h[k + 1].pc = Top.pc + 1 /\ h[k + 1].base = n
      /\ \A i \in 1..k : h[i] = f[i]
  BY AppendSeq DEF Entered, Shaped, VmShape
<1>9. <<Top.pc + 1, n + 1 - b, Kind>> \in P[Top.chunk]
  <2>1. Puts(Ins) = 1 /\ Top.pc + 1 \in Successors(Ins, Top.pc)
    BY <1>1, StackEffects, GoesOn DEF Pairing
  <2>2. vm.top - b - Takes(Ins) + Puts(Ins) = n + 1 - b
    <3> HIDE DEF n, b
    <3> QED
      BY <2>1, <1>2, <1>6, <1>7
  <2> QED
    BY <2>1, <2>2, <1>2
<1>10. <<t, 0, "procedure">> \in P[Top.chunk]
  <2>1. CallsLand(Chunk)
    BY <1>5 DEF Ordinary, WellCoded, Unhindered, Chunk
  <2>2. <<t, 0, "procedure">> \in Entries(Chunk)
    BY <1>3, <2>1 DEF Entries
  <2>3. WellKept(Chunk, P[Top.chunk])
    BY <1>5 DEF Grounded, Chunk
  <2> QED
    BY <2>2, <2>3 DEF WellKept
<1>11. Len(ctl') = D /\ ctl'[D] = x
  BY <1>4, <1>5, AlteredSeq
<1>12. Stands(ctl, f, g, P, D) /\ BasesRise(f)
  BY <1>5 DEF Grounded
<1> HIDE DEF D, k, n
<1>13. b = (IF k > Top.floor THEN f[k].base ELSE g[D]) /\ Kind = KindAt(ctl, D, k)
  BY <1>5 DEF Foot, Base, Kind, k, D
<1>14. Stands(ctl', h, g, P, D)
  <2>1. Ceil(ctl', h, D) = k + 1 /\ Ceil(ctl, f, D) = k
    BY <1>5, <1>8, <1>11 DEF Ceil, k
  <2>2. \A i \in Top.floor..k : /\ Base(ctl', h, g, D, i) = Base(ctl, f, g, D, i)
                                /\ KindAt(ctl', D, i) = KindAt(ctl, D, i)
    BY <1>4, <1>5, <1>6, <1>8, <1>11 DEF Base, KindAt
  <2>3. Base(ctl', h, g, D, k) = b /\ KindAt(ctl', D, k) = Kind
    BY <2>2, <1>5, <1>6, <1>13 DEF Base
  <2>4. \A i \in (Top.floor + 1)..k :
           /\ Base(ctl', h, g, D, i - 1) <= h[i].base
           /\ <<h[i].pc, h[i].base + 1 - Base(ctl', h, g, D, i - 1), KindAt(ctl', D, i - 1)>>
                \in P[Top.chunk]
    <3> SUFFICES ASSUME NEW i \in (Top.floor + 1)..k
                 PROVE  /\ Base(ctl', h, g, D, i - 1) <= h[i].base
                        /\ <<h[i].pc, h[i].base + 1 - Base(ctl', h, g, D, i - 1),
                             KindAt(ctl', D, i - 1)>> \in P[Top.chunk]
      OBVIOUS
    <3>1. i - 1 \in Top.floor..k /\ h[i] = f[i]
      BY <1>6, <1>8
    <3>2. /\ Base(ctl, f, g, D, i - 1) <= f[i].base
          /\ <<f[i].pc, f[i].base + 1 - Base(ctl, f, g, D, i - 1), KindAt(ctl, D, i - 1)>>
                \in P[Top.chunk]
      BY <1>5, <1>12, <2>1 DEF Stands
    <3> QED
      BY <3>1, <3>2, <2>2
  <2>5. Top.floor > 0 => h[Top.floor] = f[Top.floor]
    BY <1>6, <1>8
  <2>6. \A i \in (Top.floor + 1)..(k + 1) :
           /\ Base(ctl', h, g, D, i - 1) <= h[i].base
           /\ <<h[i].pc, h[i].base + 1 - Base(ctl', h, g, D, i - 1), KindAt(ctl', D, i - 1)>>
                \in P[Top.chunk]
    <3> SUFFICES ASSUME NEW i \in (Top.floor + 1)..(k + 1), i = k + 1
                 PROVE  /\ Base(ctl', h, g, D, i - 1) <= h[i].base
                        /\ <<h[i].pc, h[i].base + 1 - Base(ctl', h, g, D, i - 1),
                             KindAt(ctl', D, i - 1)>> \in P[Top.chunk]
      BY <2>4, <1>6
    <3>1. i - 1 = k
      BY <1>6
    <3>2. h[i].pc = Top.pc + 1 /\ h[i].base = n /\ Base(ctl', h, g, D, i - 1) = b
          /\ KindAt(ctl', D, i - 1) = Kind
      BY <3>1, <2>3, <1>8
    <3> QED
      BY <3>2, <1>7, <1>9
  <2>7. Top.floor \in 0..(k + 1) /\ k + 1 <= Len(h)
    BY <1>6, <1>8
  <2>8. /\ g[D] \in Nat /\ <<Top.start, 0, KindOf(Top.who)>> \in P[Top.chunk]
        /\ Top.floor > 0 => f[Top.floor].base <= g[D]
    BY <1>5, <1>12 DEF Stands
  <2> HIDE DEF f, h
  <2> QED
    BY <1>4, <1>11, <2>1, <2>5, <2>6, <2>7, <2>8 DEF Stands
<1>15. Walks(ctl', h, g, P, n, Owed(status'))
  <2>1. Owed(status') = 0
    BY <1>1 DEF Owed
  <2>2. k + 1 > x.floor
    BY <1>4, <1>6
  <2>3. Base(ctl', h, g, D, k + 1) = n /\ KindAt(ctl', D, k + 1) = "procedure"
    BY <2>2, <1>8, <1>11 DEF Base, KindAt
  <2>4. n <= n /\ n + 0 - n = 0
    BY <1>7
  <2>5. x.pc = t /\ x.chunk = Top.chunk
    BY <1>4
  <2> QED
    BY <2>1, <2>3, <2>4, <2>5, <1>8, <1>10, <1>11 DEF Walks
<1>16. BasesRise(h)
  <2> SUFFICES ASSUME NEW i \in 1..(Len(h) - 1) PROVE h[i].base <= h[i + 1].base
    BY DEF BasesRise
  <2>1. CASE i = k
    <3>1. f # <<>> /\ h[k] = f[k]
      BY <2>1, <1>6, <1>8
    <3> QED
      BY <3>1, <2>1, <1>6, <1>7, <1>8
  <2>2. CASE i # k
    <3>1. i \in 1..(k - 1) /\ i \in 1..k /\ i + 1 \in 1..k
      <4> HIDE DEF h, f
      <4> QED
        BY <2>2, <1>6, <1>8
    <3>2. h[i] = f[i] /\ h[i + 1] = f[i + 1]
      BY <3>1, <1>8
    <3> QED
      BY <3>1, <3>2, <1>12 DEF BasesRise, k
  <2> QED
    BY <2>1, <2>2
<1>17. Grounded(g, P)'
  <2>1. IsSeq(chunks') /\ Len(chunks') = Len(chunks)
        /\ \A i \in 1..Len(chunks) : SameCode(chunks[i], chunks'[i])
    BY <1>1 DEF SameCode, Shaped
  <2>2. /\ Top.floor <= Len(h) /\ Len(h) \in Nat
        /\ \A i \in 1..Top.floor : h[i] = f[i]
    BY <1>6, <1>8
  <2>3. status # "halted"
    BY <1>1
  <2> QED
    BY <1>4, <1>14, <1>15, <1>16, <2>1, <2>2, <2>3, GroundedOnTop DEF D, n
<1>18. Untouched
  <2>1. ~(Len(h) < Len(f))
    BY <1>6, <1>8 DEF k
  <2>2. f # <<>> => n >= f[k].base
    BY <1>6, <1>7
  <2> QED
    BY <2>1, <2>2, <1>1 DEF Untouched, n, k
<1> QED
  BY <1>17, <1>18

LEMMA GroundedReturned ==
  ASSUME Shaped, Assembled, NEW g, NEW P, Grounded(g, P), Live, Ordinary, Returned
  PROVE  Grounded(g, P)' /\ Untouched
<1> DEFINE D == Depth
           f == vm.frames
           h == vm'.frames
           k == Len(f)
           b == Foot(ctl, f, g)
           n == vm'.top
<1>1. /\ status = "running" /\ status' = "running" /\ InCode /\ UNCHANGED chunks
      /\ Fetch({"OUTPUT", "STOP"}) /\ Goto(f[k].pc) /\ f # <<>> /\ h = Front(f)
      /\ \A i \in 1..f[k].base : vm'.memory[i] = vm.memory[i]
      /\ f[k].base < MaxVmStack => n = f[k].base + 1
  BY DEF Returned, Fetch
<1>2. b <= vm.top
  BY <1>1, CodeFacts
<1>3. PICK x : /\ ctl' = Altered(ctl, D, x) /\ x.pc = f[k].pc /\ x.who = Top.who
               /\ x.chunk = Top.chunk /\ x.start = Top.start /\ x.floor = Top.floor
  BY <1>1, GotoAlters
<1>4. /\ D \in Nat \ {0} /\ D = Len(ctl) /\ D \in 1..Len(ctl) /\ IsSeq(ctl) /\ Top = ctl[D]
  BY <1>1, ShapedFacts DEF Depth, Top
<1>5. /\ b \in Nat /\ vm.top \in Nat /\ k \in Nat \ {0} /\ Top.floor \in Nat /\ Top.floor <= k
      /\ f[k].base <= b /\ f[k].base \in Nat
  BY <1>1, FootFacts
<1>6. k > Top.floor
  <2>1. CASE D = 1
    <3>1. Top.floor = 0
      BY <2>1, <1>4 DEF Grounded
    <3> QED
      BY <3>1, <1>5
  <2>2. CASE D # 1
    BY <2>2, <1>1 DEF Ordinary, WellCoded, Unhindered
  <2> QED
    BY <2>1, <2>2
<1>7. n = f[k].base + 1
  <2>1. vm.top < MaxVmStack /\ MaxVmStack \in Nat
    BY VmLimits DEF Ordinary, WellCoded, Unhindered
  <2> HIDE DEF n, k, f, b
  <2> QED
    BY <2>1, <1>1, <1>2, <1>5
<1>8. /\ IsSeq(h) /\ Len(h) = k - 1 /\ \A i \in 1..(k - 1) : h[i] = f[i]
  BY <1>1, FrontSeq DEF Shaped, VmShape
<1>9. Len(ctl') = D /\ ctl'[D] = x
  BY <1>3, <1>4, AlteredSeq
<1>10. Stands(ctl, f, g, P, D) /\ BasesRise(f)
  BY <1>4 DEF Grounded
<1>11. Ceil(ctl', h, D) = k - 1 /\ Ceil(ctl, f, D) = k
  BY <1>4, <1>8, <1>9 DEF Ceil
<1> HIDE DEF D, k, n
<1>12. \A i \in Top.floor..(k - 1) : /\ Base(ctl', h, g, D, i) = Base(ctl, f, g, D, i)
                                     /\ KindAt(ctl', D, i) = KindAt(ctl, D, i)
  BY <1>3, <1>4, <1>5, <1>8, <1>9 DEF Base, KindAt
<1>13. \A i \in (Top.floor + 1)..k :
         /\ Base(ctl, f, g, D, i - 1) <= f[i].base
         /\ <<f[i].pc, f[i].base + 1 - Base(ctl, f, g, D, i - 1), KindAt(ctl, D, i - 1)>>
              \in P[Top.chunk]
  BY <1>4, <1>10, <1>11 DEF Stands
<1>14. Stands(ctl', h, g, P, D)
  <2>1. \A i \in (Top.floor + 1)..(k - 1) :
           /\ Base(ctl', h, g, D, i - 1) <= h[i].base
           /\ <<h[i].pc, h[i].base + 1 - Base(ctl', h, g, D, i - 1), KindAt(ctl', D, i - 1)>>
                \in P[Top.chunk]
    <3> SUFFICES ASSUME NEW i \in (Top.floor + 1)..(k - 1)
                 PROVE  /\ Base(ctl', h, g, D, i - 1) <= h[i].base
                        /\ <<h[i].pc, h[i].base + 1 - Base(ctl', h, g, D, i - 1),
                             KindAt(ctl', D, i - 1)>> \in P[Top.chunk]
      OBVIOUS
    <3>1. i - 1 \in Top.floor..(k - 1) /\ i \in (Top.floor + 1)..k /\ i \in 1..(k - 1)
      BY <1>5
    <3>2. h[i] = f[i]
      BY <3>1, <1>8
    <3> QED
      BY <3>1, <3>2, <1>12, <1>13
  <2>2. Top.floor > 0 => h[Top.floor] = f[Top.floor]
    BY <1>5, <1>6, <1>8
  <2>3. Top.floor \in 0..(k - 1) /\ k - 1 <= Len(h)
    BY <1>5, <1>6, <1>8
  <2>4. /\ g[D] \in Nat /\ <<Top.start, 0, KindOf(Top.who)>> \in P[Top.chunk]
        /\ Top.floor > 0 => f[Top.floor].base <= g[D]
    BY <1>4, <1>10 DEF Stands
  <2> HIDE DEF f, h
  <2> QED
    BY <1>3, <1>9, <1>11, <2>1, <2>2, <2>3, <2>4 DEF Stands
<1>15. Walks(ctl', h, g, P, n, Owed(status'))
  <2> DEFINE c == Base(ctl, f, g, D, k - 1)
  <2>1. Owed(status') = 0
    BY <1>1 DEF Owed
  <2>2. k \in (Top.floor + 1)..k /\ k - 1 \in Top.floor..(k - 1)
    BY <1>5, <1>6
  <2>3. c <= f[k].base /\ <<f[k].pc, f[k].base + 1 - c, KindAt(ctl, D, k - 1)>> \in P[Top.chunk]
    BY <2>2, <1>13
  <2>4. Base(ctl', h, g, D, k - 1) = c /\ KindAt(ctl', D, k - 1) = KindAt(ctl, D, k - 1)
    BY <2>2, <1>12
  <2>5. c \in Nat
    <3>1. CASE k - 1 > Top.floor
      <4>1. k - 1 \in 1..Len(f)
        BY <3>1, <1>5 DEF k
      <4>2. f[k - 1].base \in Nat
        BY <4>1 DEF Shaped, VmShape
      <4> QED
        BY <3>1, <4>2, <1>4 DEF Base
    <3>2. CASE ~(k - 1 > Top.floor)
      BY <3>2, <1>4, <1>10 DEF Base, Stands
    <3> QED
      BY <3>1, <3>2
  <2> HIDE DEF c
  <2>6. c <= n /\ n + 0 - c = f[k].base + 1 - c
    BY <2>3, <2>5, <1>5, <1>7
  <2>7. x.pc = f[k].pc /\ x.chunk = Top.chunk
    BY <1>3
  <2> QED
    BY <2>1, <2>3, <2>4, <2>6, <2>7, <1>8, <1>9 DEF Walks
<1>16. BasesRise(h)
  <2> SUFFICES ASSUME NEW i \in 1..(Len(h) - 1) PROVE h[i].base <= h[i + 1].base
    BY DEF BasesRise
  <2>1. i \in 1..(k - 1) /\ i + 1 \in 1..(k - 1)
    <3> HIDE DEF h, f
    <3> QED
      BY <1>5, <1>8
  <2>2. h[i] = f[i] /\ h[i + 1] = f[i + 1]
    BY <2>1, <1>8
  <2> QED
    BY <2>1, <2>2, <1>10 DEF BasesRise, k
<1>17. Grounded(g, P)'
  <2>1. IsSeq(chunks') /\ Len(chunks') = Len(chunks)
        /\ \A i \in 1..Len(chunks) : SameCode(chunks[i], chunks'[i])
    BY <1>1 DEF SameCode, Shaped
  <2>2. /\ Top.floor <= Len(h) /\ Len(h) \in Nat
        /\ \A i \in 1..Top.floor : h[i] = f[i]
    BY <1>5, <1>6, <1>8
  <2>3. status # "halted"
    BY <1>1
  <2> QED
    BY <1>3, <1>14, <1>15, <1>16, <2>1, <2>2, <2>3, GroundedOnTop DEF D, n
<1>18. Untouched
  <2>1. n >= f[k].base
    BY <1>5, <1>7
  <2> QED
    BY <2>1, <1>1, <1>7 DEF Untouched, n, k
<1> QED
  BY <1>17, <1>18

\* Where a vm_run returns: in its own code, with what its kind of code leaves.
LEMMA ReturnsOnGround ==
  ASSUME Shaped, Assembled, NEW g, NEW P, Grounded(g, P), Live, Ordinary, Returns
  PROVE  \/ Depth = 1 /\ vm.frames = <<>>
         \/ /\ Len(vm.frames) = Top.floor
            /\ Foot(ctl, vm.frames, g) = g[Depth] /\ g[Depth] \in Nat
            /\ Kind = KindOf(Top.who)
            /\ vm.top = g[Depth] + Leaves(Top.who)
<1> DEFINE b == Foot(ctl, vm.frames, g)
           k == Len(vm.frames)
<1>1. status = "running" /\ (InCode => Ins.op = "HALT")
  BY DEF Returns
<1>2. SUFFICES ASSUME ~(Depth = 1 /\ vm.frames = <<>>)
               PROVE  /\ k = Top.floor /\ b = g[Depth] /\ g[Depth] \in Nat
                      /\ Kind = KindOf(Top.who) /\ vm.top = g[Depth] + Leaves(Top.who)
  OBVIOUS
<1>3. EndsWell(Ins, <<Top.pc, vm.top - b, Kind>>) /\ InCode /\ b <= vm.top
  BY <1>1, <1>2, CodeFacts
<1>4. Kind # "procedure" /\ vm.top - b = IF Kind = "value" THEN 1 ELSE 0
  BY <1>1, <1>3 DEF EndsWell
<1>5. b \in Nat /\ vm.top \in Nat /\ k \in Nat /\ Top.floor \in Nat /\ Top.floor <= k
  BY <1>1, FootFacts
<1>6. ~(k > Top.floor) /\ Kind = KindOf(Top.who)
  BY <1>4 DEF Kind, KindAt, Top
<1>7. k = Top.floor
  BY <1>5, <1>6
<1>8. b = g[Depth]
  BY <1>6 DEF Foot, Base, Depth, Top
<1>9. g[Depth] \in Nat
  BY <1>5, <1>8
<1>10. Leaves(Top.who) = IF Kind = "value" THEN 1 ELSE 0
  BY <1>6 DEF Leaves, KindOf
<1> HIDE DEF b
<1>11. vm.top = g[Depth] + Leaves(Top.who)
  BY <1>4, <1>5, <1>8, <1>9, <1>10
<1> QED
  BY <1>6, <1>7, <1>8, <1>9, <1>11

LEMMA GroundedAgain ==
  ASSUME Shaped, Assembled, NEW g, NEW P, Grounded(g, P), Live, Ordinary, Again
  PROVE  Grounded(g, P)' /\ Untouched
<1> DEFINE D == Depth
           b == Foot(ctl, vm.frames, g)
<1>1. /\ Returns /\ status = "running" /\ status' = "running" /\ UNCHANGED chunks
      /\ vm'.frames = vm.frames /\ Top.who \in LoopOps
  BY DEF Again, Returns
<1>2. /\ D \in 1..Len(ctl) /\ D = Len(ctl) /\ Top = ctl[D] /\ DOMAIN Top = ActivationFields
      /\ Top.who = "main" <=> Depth = 1
  BY <1>1, ShapedFacts DEF Depth, Top
<1>3. /\ b = g[D] /\ g[D] \in Nat /\ Kind = KindOf(Top.who) /\ vm.top = g[D] + Leaves(Top.who)
  BY <1>1, <1>2, ReturnsOnGround DEF LoopOps
<1>4. Leaves(Top.who) \in Nat
  BY DEF Leaves
<1>5. vm'.top = g[D] /\ Touches(vm, vm', g[D])
  <2> DEFINE l == Leaves(Top.who)
  <2>1. l <= vm.top /\ vm.top - l = g[D]
    <3> HIDE DEF l
    <3> QED
      BY <1>3, <1>4 DEF l
  <2>2. l <= vm.top => vm'.top = vm.top - l /\ Touches(vm, vm', vm.top - l)
    BY DEF Again
  <2> HIDE DEF l
  <2> QED
    BY <2>1, <2>2
<1>6. PICK x : /\ ctl' = Altered(ctl, D, x) /\ x.pc = Top.start /\ x.who = Top.who
               /\ x.chunk = Top.chunk /\ x.start = Top.start /\ x.floor = Top.floor
  BY <1>2 DEF Again, Altered
<1>7. <<Top.start, 0, KindOf(Top.who)>> \in P[Top.chunk]
  BY <1>2 DEF Grounded, Stands
<1>8. Owed(status') = 0 /\ vm'.top + 0 - b = 0 /\ b <= vm'.top
  <2>1. Owed(status') = 0
    BY <1>1 DEF Owed
  <2> HIDE DEF b
  <2> QED
    BY <2>1, <1>3, <1>5
<1>9. Grounded(g, P)'
  <2>1. IsSeq(chunks') /\ Len(chunks') = Len(chunks)
        /\ \A i \in 1..Len(chunks) : SameCode(chunks[i], chunks'[i])
    BY <1>1 DEF SameCode, Shaped
  <2>2. <<x.pc, vm'.top + Owed(status') - b, Kind>> \in P[Top.chunk]
    BY <1>3, <1>6, <1>7, <1>8
  <2>3. status # "halted"
    BY <1>1
  <2> QED
    BY <1>1, <1>6, <1>8, <2>1, <2>2, <2>3, GroundedGoesOn
<1>10. Untouched
  <2>1. b <= g[D] /\ g[D] \in Int /\ vm'.top \in Int
    BY <1>3, <1>5
  <2> QED
    BY <2>1, <1>1, <1>5, <1>8, UntouchedAbove
<1> QED
  BY <1>9, <1>10

LEMMA GroundedEndRun ==
  ASSUME Shaped, Assembled, NEW g, NEW P, Grounded(g, P), Live, Ordinary, EndRun
  PROVE  Grounded(<<>>, P)' /\ Untouched
<1>1. /\ Returns /\ status = "running" /\ Top.who = "main" /\ ctl' = <<>>
      /\ UNCHANGED <<app, vm, chunks>>
  BY DEF EndRun, Returns
<1>2. Depth = 1 /\ Depth \in 1..Len(ctl)
  BY <1>1, ShapedFacts
<1>3. Top.floor = 0
  <2>1. ctl # <<>>
    BY <1>1, ShapedFacts
  <2> QED
    BY <1>2, <2>1 DEF Grounded, Top
<1>4. vm.frames = <<>>
  <2>1. CASE Len(vm.frames) = Top.floor
    BY <2>1, <1>1, <1>3, FootFacts
  <2> QED
    BY <2>1, <1>1, ReturnsOnGround
<1>5. Len(ctl') = 0 /\ Len(<<>>) = 0 /\ IsSeq(<<>>)
  BY <1>1, EmptyIsSeq
<1>6. BasesRise(vm'.frames)
  BY <1>1, <1>4, EmptyIsSeq DEF BasesRise
<1>7. FloorsRise(ctl')
  BY <1>5 DEF FloorsRise
<1> QED
  BY <1>1, <1>4, <1>5, <1>6, <1>7 DEF Grounded, Untouched

\* An activation begins on what its instruction leaves.
LEMMA GroundedBegun ==
  ASSUME Shaped, Assembled, NEW g, NEW P, Grounded(g, P), Live, Ordinary, status = "running", InCode,
         NEW a, ctl' = Append(ctl, a), a.pc = a.start, a.floor = Len(vm.frames),
         Ins.op \in Beginner(a.who), vm'.frames = vm.frames,
         NEW n, vm'.top = n, n \in Nat, n + Operands(a.who) = vm.top,
         Foot(ctl, vm.frames, g) <= n, status' = "running",
         IsSeq(chunks'), NEW Q, IsSeq(Q), Len(Q) = Len(chunks'), Len(chunks') >= Len(chunks),
         \A i \in 1..Len(chunks') : WellKept(chunks'[i], Q[i]),
         \A i \in 1..Len(chunks) : chunks'[i] = chunks[i] /\ Q[i] = P[i],
         <<a.start, 0, KindOf(a.who)>> \in Q[a.chunk]
  PROVE  Grounded(Append(g, n), Q)'
<1> DEFINE D == Depth
           f == vm.frames
           k == Len(f)
           b == Foot(ctl, f, g)
           c == ctl'
           G == Append(g, n)
<1>1. D \in Nat \ {0} /\ D = Len(ctl) /\ D \in 1..Len(ctl) /\ IsSeq(ctl) /\ Top = ctl[D] /\ ctl # <<>>
      /\ Top.chunk \in 1..Len(chunks)
  BY ShapedFacts DEF Depth, Top
<1>2. IsSeq(c) /\ Len(c) = D + 1 /\ c[D + 1] = a /\ \A i \in 1..D : c[i] = ctl[i]
  BY <1>1, AppendSeq
<1>3. IsSeq(G) /\ Len(G) = D + 1 /\ G[D + 1] = n /\ \A i \in 1..D : G[i] = g[i]
  BY <1>1, AppendSeq DEF Grounded
<1>4. /\ b \in Nat /\ vm.top \in Nat /\ k \in Nat /\ Top.floor \in Nat /\ Top.floor <= k
      /\ f # <<>> => f[k].base <= b /\ f[k].base \in Nat
      /\ f = <<>> <=> k = 0
  BY FootFacts
<1>5. \A i \in 1..D : /\ Stands(ctl, f, g, P, i) /\ ctl[i].floor \in Nat /\ ctl[i].floor <= k
                      /\ ctl[i].chunk \in 1..Len(chunks)
  <2> SUFFICES ASSUME NEW i \in 1..D
               PROVE  /\ Stands(ctl, f, g, P, i) /\ ctl[i].floor \in Nat /\ ctl[i].floor <= k
                      /\ ctl[i].chunk \in 1..Len(chunks)
    OBVIOUS
  <2>1. Stands(ctl, f, g, P, i) /\ ctl[i].floor <= ctl[D].floor
    BY <1>1 DEF Grounded, FloorsRise
  <2>2. ctl[i].floor \in Nat
    BY <2>1 DEF Stands
  <2>3. ctl[i].chunk \in 1..Len(chunks)
    BY <1>1 DEF Shaped, CtlShape
  <2> QED
    BY <2>1, <2>2, <2>3, <1>1, <1>4
<1> HIDE DEF D, k, c, G
<1>6. \A i \in 1..D : Ceil(c, f, i) = Ceil(ctl, f, i) /\ Ceil(ctl, f, i) \in Nat /\ Ceil(ctl, f, i) <= Len(f)
  <2> SUFFICES ASSUME NEW i \in 1..D
               PROVE  Ceil(c, f, i) = Ceil(ctl, f, i) /\ Ceil(ctl, f, i) \in Nat /\ Ceil(ctl, f, i) <= Len(f)
    OBVIOUS
  <2>1. CASE i = D
    <3>1. i # Len(c) /\ i = Len(ctl)
      BY <2>1, <1>1, <1>2
    <3>2. Ceil(ctl, f, i) = k /\ Ceil(c, f, i) = a.floor
      BY <3>1, <2>1, <1>1, <1>2 DEF Ceil, k
    <3> QED
      BY <3>2, <1>4 DEF k
  <2>2. CASE i # D
    <3>1. i # Len(c) /\ i # Len(ctl) /\ i + 1 \in 1..D
      BY <2>2, <1>1, <1>2
    <3>2. Ceil(ctl, f, i) = ctl[i + 1].floor /\ Ceil(c, f, i) = ctl[i + 1].floor
      BY <3>1, <1>2 DEF Ceil
    <3> QED
      BY <3>1, <3>2, <1>5 DEF k
  <2> QED
    BY <2>1, <2>2
<1>7. ASSUME NEW i \in 1..D PROVE Stands(c, f, G, Q, i)
  <2>1. c[i] = ctl[i] /\ G[i] = g[i] /\ Q[c[i].chunk] = P[ctl[i].chunk]
    BY <1>2, <1>3, <1>5
  <2>2. Stands(ctl, f, g, P, i) /\ Ceil(c, f, i) = Ceil(ctl, f, i) /\ Ceil(ctl, f, i) \in Int
        /\ Ceil(ctl, f, i) <= Len(f)
    BY <1>5, <1>6
  <2> HIDE DEF f
  <2> QED
    BY <2>1, <2>2, StandsKept
<1>8. Stands(c, f, G, Q, D + 1)
  <2>1. Ceil(c, f, D + 1) = k
    BY <1>2 DEF Ceil, k
  <2>2. k > 0 => f[k].base <= n
    BY <1>4
  <2>3. \A i \in (k + 1)..k : FALSE
    BY <1>4
  <2>4. k \in 0..k /\ k = Len(f)
    BY <1>4 DEF k
  <2>5. c[D + 1] = a /\ a.floor = k /\ G[D + 1] = n
    BY <1>2, <1>3 DEF k
  <2> HIDE DEF f, k
  <2> QED
    BY <2>1, <2>2, <2>3, <2>4, <2>5 DEF Stands
<1>9. Waits(c, f, G, Q, D) /\ WaitsAt(c, chunks', D)
  <2>1. <<Top.pc, vm.top - b, Kind>> \in P[Top.chunk]
    BY CodeFacts
  <2>2. Base(c, f, G, D, k) = b /\ KindAt(c, D, k) = Kind
    BY <1>1, <1>2, <1>3 DEF Base, KindAt, Foot, Kind, D, k
  <2>3. c[D] = Top /\ c[D + 1] = a /\ G[D + 1] = n
    BY <1>1, <1>2, <1>3
  <2>4. Waits(c, f, G, Q, D)
    <3> DEFINE o == Operands(a.who)
    <3>1. Q[Top.chunk] = P[Top.chunk] /\ n + o = vm.top /\ o \in Nat
      BY <1>1 DEF Operands
    <3> HIDE DEF b, o
    <3>2. n + o - b = vm.top - b
      BY <3>1, <1>4
    <3>3. <<Top.pc, n + o - b, Kind>> \in Q[Top.chunk]
      BY <2>1, <3>1, <3>2, Zenon
    <3> QED
      BY <2>2, <2>3, <3>3 DEF Waits, b, k, o
  <2>5. WaitsAt(c, chunks', D)
    BY <2>3, <1>1 DEF WaitsAt, Ins, Chunk
  <2> QED
    BY <2>4, <2>5
<1>10. ASSUME NEW i \in 1..(D - 1) PROVE Waits(c, f, G, Q, i) /\ WaitsAt(c, chunks', i)
  <2>1. i \in 1..D /\ i + 1 \in 1..D
    BY <1>1
  <2>2. Waits(ctl, f, g, P, i) /\ WaitsAt(ctl, chunks, i)
    BY <1>1 DEF Grounded
  <2>3. c[i] = ctl[i] /\ c[i + 1] = ctl[i + 1] /\ G[i] = g[i] /\ G[i + 1] = g[i + 1]
        /\ Q[c[i].chunk] = P[ctl[i].chunk] /\ chunks'[ctl[i].chunk] = chunks[ctl[i].chunk]
    BY <2>1, <1>2, <1>3, <1>5
  <2>4. Waits(c, f, G, Q, i)
    <3>1. ctl[i].floor \in Nat /\ ctl[i + 1].floor \in Nat
      BY <2>1, <1>5
    <3> HIDE DEF f
    <3> QED
      BY <2>2, <2>3, <3>1, WaitsKept
  <2>5. WaitsAt(c, chunks', i)
    BY <2>2, <2>3 DEF WaitsAt
  <2> QED
    BY <2>4, <2>5
<1>11. Walks(c, f, G, Q, n, Owed(status'))
  <2>1. Owed(status') = 0 /\ n + 0 - n = 0
    BY DEF Owed
  <2>2. ~(k > a.floor)
    BY <1>4 DEF k
  <2>3. Base(c, f, G, D + 1, k) = n /\ KindAt(c, D + 1, k) = KindOf(a.who)
    BY <2>2, <1>2, <1>3 DEF Base, KindAt
  <2>4. <<c[D + 1].pc, n + Owed(status') - n, KindOf(a.who)>> \in Q[c[D + 1].chunk]
    BY <2>1, <1>2
  <2>5. n <= n
    OBVIOUS
  <2> HIDE DEF f
  <2> QED
    BY <2>3, <2>4, <2>5, <1>2, Zenon DEF Walks, k
<1>12. FloorsRise(c)
  <2> SUFFICES ASSUME NEW i \in 1..(D + 1), NEW e \in 1..(D + 1), i <= e
               PROVE  c[i].floor <= c[e].floor
    BY <1>2 DEF FloorsRise
  <2>1. CASE e \in 1..D
    <3>1. i \in 1..D
      BY <2>1, <1>1
    <3> QED
      BY <2>1, <3>1, <1>1, <1>2 DEF Grounded, FloorsRise
  <2>2. CASE e = D + 1 /\ i \in 1..D
    BY <2>2, <1>2, <1>5 DEF k
  <2>3. CASE e = D + 1 /\ i = D + 1
    BY <2>3, <1>2, <1>4 DEF k
  <2> QED
    BY <2>1, <2>2, <2>3, <1>1
<1>13. \A i \in 1..(D + 1) : Stands(c, f, G, Q, i)
  BY <1>7, <1>8, <1>1
<1>14. \A i \in 1..D : Waits(c, f, G, Q, i) /\ WaitsAt(c, chunks', i)
  BY <1>9, <1>10, <1>1
<1>15. c # <<>> /\ c[1].floor = 0 /\ G[1] = 0
  <2>1. 1 \in 1..D
    BY <1>1
  <2> QED
    BY <2>1, <1>1, <1>2, <1>3, EmptyIsSeq DEF Grounded
<1>16. D + 1 - 1 = D
  BY <1>1
<1>17. BasesRise(vm'.frames)
  BY DEF Grounded
<1>18. /\ IsSeq(G) /\ Len(G) = Len(c) /\ Len(c) - 1 = D /\ Len(c) = D + 1
  BY <1>1, <1>2, <1>3, <1>16
<1>19. vm'.frames = f /\ vm'.top = n /\ c = ctl'
  BY DEF c
<1> HIDE DEF f
<1> QED
  BY <1>11, <1>12, <1>13, <1>14, <1>15, <1>17, <1>18, <1>19 DEF Grounded, G

\* What an instruction that begins an activation takes, and what the activation brings.
LEMMA BeginnerFacts ==
  ASSUME NEW i, NEW who, i.op \in Beginner(who), who \in SnippetOps \union LoopOps
  PROVE  /\ Takes(i) = Operands(who) /\ Puts(i) = Brings(who)
         /\ i.op \notin {"OUTPUT", "STOP", "HALT", "JUMP"}
<1>1. CASE who \in SnippetOps
  <2>1. i.op = who
    BY <1>1 DEF Beginner
  <2>2. CASE who = "RUN"
    BY <2>1, <2>2, StackEffects DEF Taking, Operands, Brings
  <2>3. CASE who = "EXECTIME"
    BY <2>1, <2>3, StackEffects DEF Mapping, Operands, Brings
  <2>4. CASE who = "LOAD"
    BY <2>1, <2>4, StackEffects DEF Neutral, Operands, Brings
  <2> QED
    BY <1>1, <2>2, <2>3, <2>4, <2>1 DEF SnippetOps
<1>2. CASE who \in LoopOps
  <2>1. who \notin SnippetOps /\ who \notin {"RUN", "LOAD"}
    BY <1>2 DEF LoopOps, SnippetOps
  <2>2. i.op \in Templates
    BY <2>1 DEF Beginner
  <2>3. Takes(i) = 1 /\ Puts(i) = 1
    BY <2>2, StackEffects DEF Mapping
  <2>4. Operands(who) = 1 /\ Brings(who) = 1
    BY <2>1 DEF Operands, Brings
  <2> QED
    BY <2>2, <2>3, <2>4 DEF Templates
<1> QED
  BY <1>1, <1>2

LEMMA GroundedBegan ==
  ASSUME Shaped, Assembled, NEW g, NEW P, Grounded(g, P), Live, Ordinary, Began, Shaped', Live', Ordinary'
  PROVE  (\E G, Q : Grounded(G, Q)') /\ Untouched
<1> DEFINE b == Foot(ctl, vm.frames, g)
           t == Takes(Ins)
<1>0. PICK n : n = vm'.top
  OBVIOUS
<1>1. /\ status = "running" /\ status' = "running" /\ InCode /\ VmShape(vm') /\ vm'.frames = vm.frames
      /\ Settled => n = vm.top - t /\ Touches(vm, vm', vm.top - t)
  BY <1>0 DEF Began
<1>2. /\ Settled /\ b <= vm.top /\ t \in Nat /\ t <= vm.top - b
  BY <1>1, CodeFacts
<1>3. b \in Nat /\ vm.top \in Nat /\ n \in Nat
  BY <1>0, <1>1, FootFacts DEF VmShape
<1>4. n = vm.top - t /\ Touches(vm, vm', vm.top - t)
  BY <1>1, <1>2
<1> HIDE DEF b, t
<1>5. b <= n /\ n + t = vm.top /\ vm.top - t \in Int /\ b <= vm.top - t
  BY <1>2, <1>3, <1>4
<1>6. Untouched
  BY <1>0, <1>1, <1>3, <1>4, <1>5, UntouchedAbove DEF b
<1>7. PICK a : /\ ctl' = Append(ctl, a) /\ a.pc = a.start /\ a.floor = Len(vm.frames)
               /\ \/ /\ Ins.op \in SnippetOps /\ a.who = Ins.op /\ a.chunk = Len(chunks) + 1
                     /\ \E c : chunks' = Append(chunks, c) /\ a.start = c.start
                  \/ /\ Ins.op \in Templates /\ a.who = TemplateOf(Ins.op) /\ a.who \in LoopOps
                     /\ a.chunk = Top.chunk /\ a.start = Ins.a /\ UNCHANGED chunks
  BY DEF Began
<1>8. /\ IsSeq(chunks) /\ IsSeq(chunks') /\ Len(chunks) \in Nat
      /\ IsSeq(P) /\ Len(P) = Len(chunks) /\ \A i \in 1..Len(chunks) : WellKept(chunks[i], P[i])
  BY SeqShape DEF Shaped, Grounded
<1>9. CASE /\ Ins.op \in SnippetOps /\ a.who = Ins.op /\ a.chunk = Len(chunks) + 1
           /\ \E c : chunks' = Append(chunks, c) /\ a.start = c.start
  <2>1. PICK c : chunks' = Append(chunks, c) /\ a.start = c.start
    BY <1>9
  <2>2. /\ Len(chunks') = Len(chunks) + 1 /\ chunks'[Len(chunks) + 1] = c
        /\ \A i \in 1..Len(chunks) : chunks'[i] = chunks[i]
    BY <2>1, <1>8, AppendSeq
  <2>3. PICK S : WellKept(c, S)
    BY <1>8, <2>2 DEF Ordinary, WellCoded, Unhindered
  <2>10. PICK Q : Q = Append(P, S)
    OBVIOUS
  <2>4. /\ IsSeq(Q) /\ Len(Q) = Len(chunks) + 1 /\ Q[Len(chunks) + 1] = S
        /\ \A i \in 1..Len(chunks) : Q[i] = P[i]
    BY <1>8, <2>10, AppendSeq
  <2>5. \A i \in 1..Len(chunks') : WellKept(chunks'[i], Q[i])
    <3> SUFFICES ASSUME NEW i \in 1..(Len(chunks) + 1) PROVE WellKept(chunks'[i], Q[i])
      BY <2>2
    <3>1. CASE i = Len(chunks) + 1
      BY <3>1, <2>2, <2>3, <2>4
    <3>2. CASE i \in 1..Len(chunks)
      BY <3>2, <1>8, <2>2, <2>4
    <3> QED
      BY <3>1, <3>2, <1>8
  <2>6. <<a.start, 0, KindOf(a.who)>> \in Q[a.chunk]
    <3>1. KindOf(a.who) = "program"
      BY <1>9 DEF KindOf, SnippetOps
    <3>2. <<c.start, 0, "program">> \in S
      BY <2>3 DEF WellKept, Entries
    <3> QED
      BY <3>1, <3>2, <2>1, <2>4, <1>9
  <2>7. Ins.op \in Beginner(a.who) /\ a.who \in SnippetOps \union LoopOps
    BY <1>9 DEF Beginner
  <2>8. n + Operands(a.who) = vm.top
    BY <2>7, <1>5, BeginnerFacts DEF t
  <2>9. Grounded(Append(g, n), Q)'
    <3>1. Len(Q) = Len(chunks') /\ Len(chunks') >= Len(chunks)
      BY <1>8, <2>2, <2>4
    <3> QED
      BY <1>0, <1>1, <1>3, <1>5, <1>7, <1>8, <2>2, <2>4, <2>5, <2>6, <2>7, <2>8, <3>1, GroundedBegun
         DEF b
  <2> QED
    BY <2>9, <1>6
<1>10. CASE /\ Ins.op \in Templates /\ a.who = TemplateOf(Ins.op) /\ a.who \in LoopOps
            /\ a.chunk = Top.chunk /\ a.start = Ins.a /\ UNCHANGED chunks
  <2>1. Top.chunk \in 1..Len(chunks) /\ Chunk = chunks[Top.chunk] /\ Ready
    BY <1>1, ShapedFacts DEF Chunk
  <2>2. <<a.start, 0, KindOf(a.who)>> \in P[a.chunk]
    <3>1. Top.pc + 1 \in 1..Len(Chunk.code) /\ Chunk.code[Top.pc + 1] = Ins
      <4>1. Len(Chunk.code) \in Nat
        BY <2>1, SeqShape DEF Ready, AssembledChunk
      <4> QED
        BY <1>1, <4>1 DEF InCode, Ins
    <3>2. <<Ins.a, 0, IF Ins.op = "FOREACH_COMPILED" THEN "block" ELSE "value">> \in Entries(Chunk)
      BY <1>10, <3>1 DEF Entries
    <3>3. KindOf(a.who) = IF Ins.op = "FOREACH_COMPILED" THEN "block" ELSE "value"
      BY <1>10 DEF KindOf, TemplateOf, Templates
    <3>4. Entries(Chunk) \subseteq P[Top.chunk]
      BY <1>8, <2>1 DEF WellKept
    <3> QED
      BY <3>2, <3>3, <3>4, <1>10
  <2>3. Ins.op \in Beginner(a.who) /\ a.who \in SnippetOps \union LoopOps
    BY <1>10 DEF Beginner, LoopOps, SnippetOps
  <2>4. n + Operands(a.who) = vm.top
    BY <2>3, <1>5, BeginnerFacts DEF t
  <2>5. Grounded(Append(g, n), P)'
    <3>1. Len(P) = Len(chunks') /\ Len(chunks') >= Len(chunks)
          /\ (\A i \in 1..Len(chunks') : WellKept(chunks'[i], P[i]))
          /\ \A i \in 1..Len(chunks) : chunks'[i] = chunks[i]
      BY <1>8, <1>10
    <3> QED
      BY <1>0, <1>1, <1>3, <1>5, <1>7, <1>8, <2>2, <2>3, <2>4, <3>1, GroundedBegun DEF b
  <2> QED
    BY <2>5, <1>6
<1> QED
  BY <1>7, <1>9, <1>10

\* The activation below goes on after the instruction it waited at.
LEMMA GroundedEnded ==
  ASSUME Shaped, Assembled, NEW g, NEW P, Grounded(g, P), Live, Ordinary, Ended, Shaped'
  PROVE  (\E G, Q : Grounded(G, Q)') /\ Untouched
<1> DEFINE D == Depth
           e == Depth - 1
           f == vm.frames
           k == Len(f)
           who == Top.who
           c == ctl'
           n == IF who \in SnippetOps THEN Len(chunks) - 1 ELSE Len(chunks)
<1>1. /\ Returns /\ status = "running" /\ status' = "running" /\ who \in SnippetOps \union LoopOps
      /\ Resumed /\ VmShape(vm') /\ vm'.frames = f
      /\ chunks' = IF who \in SnippetOps THEN Front(chunks) ELSE chunks
  BY DEF Ended, Returns
<1>2. /\ D \in Nat /\ D > 1 /\ D = Len(ctl) /\ D \in 1..Len(ctl) /\ e \in 1..D /\ e + 1 = D /\ IsSeq(ctl)
      /\ Top = ctl[D] /\ ctl # <<>> /\ CtlShape(ctl, Len(chunks)) /\ Len(chunks) \in Nat \ {0}
  <2>1. /\ D \in Nat \ {0} /\ D \in 1..Len(ctl) /\ IsSeq(ctl) /\ ctl # <<>> /\ Len(chunks) \in Nat \ {0}
    BY <1>1, ShapedFacts
  <2>2. D > 1
    BY <1>1, ShapedEnded
  <2> QED
    BY <2>1, <2>2 DEF Depth, Top, Shaped
<1>3. /\ k = Top.floor /\ Foot(ctl, f, g) = g[D] /\ g[D] \in Nat /\ vm.top = g[D] + Leaves(who)
  <2>1. ~(Depth = 1)
    BY <1>2
  <2> QED
    BY <1>1, <2>1, ReturnsOnGround
<1>4. /\ vm'.top = g[D] + Brings(who) /\ Touches(vm, vm', g[D]) /\ Brings(who) \in Nat /\ Leaves(who) \in Nat
  <2> DEFINE l == Leaves(who)
             s == Brings(who)
  <2>1. l \in Nat /\ s \in Nat
    BY DEF Leaves, Brings
  <2>2. ~Escaped
    <3>1. k \in Nat
      BY <1>1, FootFacts
    <3> QED
      BY <1>3, <3>1 DEF Escaped
  <2>3. vm.top < MaxVmStack
    BY DEF Ordinary, WellCoded, Unhindered
  <2>4. l <= vm.top => vm'.top = vm.top - l + s /\ Touches(vm, vm', vm.top - l)
    BY <2>2, <2>3 DEF Ended
  <2> HIDE DEF l, s
  <2>5. vm.top = g[D] + l
    BY <1>3 DEF l
  <2>6. l <= vm.top /\ vm.top - l = g[D]
    BY <2>1, <2>5, <1>3
  <2> QED
    BY <2>1, <2>4, <2>6 DEF l, s
<1> HIDE DEF D, e, k, n
<1>5. PICK x : /\ c = Altered(Front(ctl), e, x) /\ x.pc = ctl[e].pc + 1 /\ x.who = ctl[e].who
               /\ x.chunk = ctl[e].chunk /\ x.start = ctl[e].start /\ x.floor = ctl[e].floor
  <2>1. status # "halted"
    BY <1>1
  <2> QED
    BY <1>1, <1>2, <2>1, ResumedAlters DEF e, D
<1>6. /\ IsSeq(Front(ctl)) /\ Len(Front(ctl)) = e /\ \A i \in 1..e : Front(ctl)[i] = ctl[i]
  BY <1>2, FrontSeq DEF e, D
<1>7. /\ IsSeq(c) /\ Len(c) = e /\ c[e] = x /\ \A i \in 1..e : i # e => c[i] = ctl[i]
  BY <1>2, <1>5, <1>6, AlteredSeq
<1>8. \A i \in 1..e : /\ c[i].who = ctl[i].who /\ c[i].chunk = ctl[i].chunk
                      /\ c[i].start = ctl[i].start /\ c[i].floor = ctl[i].floor
  BY <1>5, <1>7
<1>9. PICK G : G = Front(g)
  OBVIOUS
<1>10. IsSeq(G) /\ Len(G) = e /\ \A i \in 1..e : G[i] = g[i]
  <2>1. IsSeq(g) /\ Len(g) = D
    BY <1>2 DEF Grounded
  <2>2. g # <<>>
    BY <2>1, <1>2, EmptyIsSeq
  <2> QED
    BY <2>1, <2>2, <1>2, <1>9, FrontSeq DEF e
<1>11. PICK Q : Q = IF who \in SnippetOps THEN Front(P) ELSE P
  OBVIOUS
<1>12. /\ IsSeq(chunks') /\ IsSeq(Q) /\ Len(chunks') = n /\ Len(Q) = n /\ n \in 0..Len(chunks)
       /\ \A i \in 1..n : chunks'[i] = chunks[i] /\ Q[i] = P[i]
  <2>1. IsSeq(chunks) /\ IsSeq(P) /\ Len(P) = Len(chunks)
    BY DEF Shaped, Grounded
  <2>2. chunks # <<>> /\ P # <<>>
    BY <2>1, <1>2, EmptyIsSeq
  <2>3. /\ IsSeq(Front(chunks)) /\ Len(Front(chunks)) = Len(chunks) - 1
        /\ \A i \in 1..(Len(chunks) - 1) : Front(chunks)[i] = chunks[i]
        /\ IsSeq(Front(P)) /\ Len(Front(P)) = Len(chunks) - 1
        /\ \A i \in 1..(Len(chunks) - 1) : Front(P)[i] = P[i]
    BY <2>1, <2>2, FrontSeq
  <2>4. CASE who \in SnippetOps
    BY <2>3, <2>4, <1>1, <1>2, <1>11 DEF n
  <2>5. CASE who \notin SnippetOps
    BY <2>1, <2>5, <1>1, <1>2, <1>11 DEF n
  <2> QED
    BY <2>4, <2>5
<1>13. \A i \in 1..e : c[i].chunk \in 1..n /\ Q[c[i].chunk] = P[ctl[i].chunk]
                       /\ chunks'[c[i].chunk] = chunks[ctl[i].chunk]
  <2>1. CtlShape(c, n)
    BY <1>12 DEF Shaped
  <2> QED
    BY <2>1, <1>7, <1>8, <1>12 DEF CtlShape
<1>14. \A i \in 1..e : /\ Stands(ctl, f, g, P, i) /\ Waits(ctl, f, g, P, i) /\ WaitsAt(ctl, chunks, i)
                       /\ ctl[i].floor \in Nat /\ ctl[i + 1].floor \in Nat
                       /\ Ceil(ctl, f, i) = ctl[i + 1].floor /\ ctl[i + 1].floor <= Len(f)
  <2> SUFFICES ASSUME NEW i \in 1..e
               PROVE  /\ Stands(ctl, f, g, P, i) /\ Waits(ctl, f, g, P, i) /\ WaitsAt(ctl, chunks, i)
                      /\ ctl[i].floor \in Nat /\ ctl[i + 1].floor \in Nat
                      /\ Ceil(ctl, f, i) = ctl[i + 1].floor /\ ctl[i + 1].floor <= Len(f)
    OBVIOUS
  <2>1. i \in 1..Len(ctl) /\ i + 1 \in 1..Len(ctl) /\ i \in 1..(Len(ctl) - 1) /\ i # Len(ctl)
    BY <1>2
  <2>2. /\ Stands(ctl, f, g, P, i) /\ Stands(ctl, f, g, P, i + 1)
        /\ Waits(ctl, f, g, P, i) /\ WaitsAt(ctl, chunks, i)
    BY <2>1 DEF Grounded
  <2>3. Ceil(ctl, f, i) = ctl[i + 1].floor
    BY <2>1 DEF Ceil
  <2> QED
    BY <2>2, <2>3 DEF Stands
<1>15. \A i \in 1..e : Ceil(c, f, i) = Ceil(ctl, f, i)
  <2> SUFFICES ASSUME NEW i \in 1..e PROVE Ceil(c, f, i) = Ceil(ctl, f, i)
    OBVIOUS
  <2>1. CASE i = e
    BY <2>1, <1>2, <1>3, <1>7, <1>14 DEF Ceil, k
  <2>2. CASE i # e
    <3>1. i + 1 \in 1..e /\ i # Len(c)
      BY <2>2, <1>2, <1>7
    <3> QED
      BY <3>1, <1>8, <1>14 DEF Ceil
  <2> QED
    BY <2>1, <2>2
<1>16. \A i \in 1..e : Stands(c, f, G, Q, i)
  <2> SUFFICES ASSUME NEW i \in 1..e PROVE Stands(c, f, G, Q, i)
    OBVIOUS
  <2>1. /\ Stands(ctl, f, g, P, i) /\ Ceil(c, f, i) = Ceil(ctl, f, i) /\ Ceil(ctl, f, i) \in Int
        /\ Ceil(ctl, f, i) <= Len(f)
    BY <1>14, <1>15
  <2>2. /\ c[i].who = ctl[i].who /\ c[i].start = ctl[i].start /\ c[i].floor = ctl[i].floor
        /\ G[i] = g[i] /\ Q[c[i].chunk] = P[ctl[i].chunk]
    BY <1>8, <1>10, <1>13
  <2> HIDE DEF c, f
  <2> QED
    BY <2>1, <2>2, StandsKept
<1>17. \A i \in 1..(e - 1) : Waits(c, f, G, Q, i) /\ WaitsAt(c, chunks', i)
  <2> SUFFICES ASSUME NEW i \in 1..(e - 1) PROVE Waits(c, f, G, Q, i) /\ WaitsAt(c, chunks', i)
    OBVIOUS
  <2>1. i \in 1..e /\ i + 1 \in 1..e /\ i # e
    BY <1>2
  <2>2. /\ c[i] = ctl[i] /\ c[i + 1].floor = ctl[i + 1].floor /\ c[i + 1].who = ctl[i + 1].who
        /\ G[i] = g[i] /\ G[i + 1] = g[i + 1] /\ Q[c[i].chunk] = P[ctl[i].chunk]
        /\ chunks'[c[i].chunk] = chunks[ctl[i].chunk]
    BY <2>1, <1>7, <1>8, <1>10, <1>13
  <2>3. /\ Waits(ctl, f, g, P, i) /\ WaitsAt(ctl, chunks, i)
        /\ ctl[i].floor \in Nat /\ ctl[i + 1].floor \in Nat
    BY <2>1, <1>14
  <2>4. WaitsAt(c, chunks', i)
    BY <2>2, <2>3 DEF WaitsAt
  <2> HIDE DEF c, f
  <2>5. Waits(c, f, G, Q, i)
    BY <2>2, <2>3, WaitsKept
  <2> QED
    BY <2>4, <2>5
<1>18. Walks(c, f, G, Q, vm'.top, Owed(status'))
  <2> DEFINE b == Base(ctl, f, g, e, k)
             y == <<ctl[e].pc, g[D] + Operands(who) - b, KindAt(ctl, e, k)>>
             code == chunks[ctl[e].chunk]
             i == InsAt(code, y)
  <2>1. ctl[e + 1] = Top /\ ctl[e + 1].floor = k /\ g[e + 1] = g[D] /\ e \in 1..e
    BY <1>2, <1>3
  <2>2. b <= g[D] /\ y \in P[ctl[e].chunk] /\ i.op \in Beginner(who)
    BY <2>1, <1>14 DEF Waits, WaitsAt, InsAt
  <2>3. WellKept(code, P[ctl[e].chunk])
    BY <1>2, <1>12 DEF Grounded, CtlShape
  <2>4. /\ Takes(i) = Operands(who) /\ Puts(i) = Brings(who)
        /\ i.op \notin {"OUTPUT", "STOP", "HALT", "JUMP"}
    BY <2>2, <1>1, BeginnerFacts
  <2>5. Onward(code, y) \subseteq P[ctl[e].chunk]
    BY <2>2, <2>3 DEF WellKept
  <2>6. ctl[e].pc + 1 \in Successors(i, y[1])
    BY <2>4, GoesOn
  <2>7. <<ctl[e].pc + 1, y[2] - Takes(i) + Puts(i), y[3]>> \in Onward(code, y)
    BY <2>6 DEF Onward
  <2>8. b \in Nat
    <3>1. CASE k > ctl[e].floor
      <4>1. k \in 1..Len(f)
        BY <2>1, <3>1, <1>14 DEF k
      <4>2. f[k].base \in Nat
        BY <4>1 DEF Shaped, VmShape
      <4> QED
        BY <3>1, <4>2 DEF Base
    <3>2. CASE ~(k > ctl[e].floor)
      BY <2>1, <3>2, <1>14 DEF Base, Stands
    <3> QED
      BY <3>1, <3>2
  <2>9. Operands(who) \in Nat
    BY DEF Operands
  <2>10. y[2] - Takes(i) + Puts(i) = vm'.top - b /\ b <= vm'.top
    <3> DEFINE o == Operands(who)
               s == Brings(who)
    <3>1. y[2] = g[D] + o - b /\ Takes(i) = o /\ Puts(i) = s /\ vm'.top = g[D] + s
      BY <2>4, <1>4
    <3>2. o \in Nat /\ s \in Nat /\ g[D] \in Nat
      BY <2>9, <1>3, <1>4
    <3> HIDE DEF o, s, b, i, y
    <3> QED
      BY <3>1, <3>2, <2>2, <2>8
  <2>11. <<ctl[e].pc + 1, vm'.top - b, KindAt(ctl, e, k)>> \in P[ctl[e].chunk]
    <3>1. y[3] = KindAt(ctl, e, k)
      OBVIOUS
    <3> HIDE DEF y, i, b, code
    <3> QED
      BY <2>5, <2>7, <2>10, <3>1
  <2>12. Base(c, f, G, e, k) = b /\ KindAt(c, e, k) = KindAt(ctl, e, k)
    BY <2>1, <1>8, <1>10 DEF Base, KindAt
  <2>13. Owed(status') = 0
    BY <1>1 DEF Owed
  <2>14. vm'.top + 0 - b = vm'.top - b
    <3>1. vm'.top \in Nat
      BY <1>1 DEF VmShape
    <3> HIDE DEF b
    <3> QED
      BY <3>1, <2>8
  <2>15. c[e].pc = ctl[e].pc + 1 /\ Q[c[e].chunk] = P[ctl[e].chunk]
    BY <2>1, <1>5, <1>7, <1>13
  <2>16. <<c[e].pc, vm'.top + Owed(status') - b, KindAt(c, e, k)>> \in Q[c[e].chunk]
    <3> HIDE DEF b, c
    <3> QED
      BY <2>11, <2>12, <2>13, <2>14, <2>15
  <2> HIDE DEF b, c, f
  <2>17. k = Len(f) /\ Len(c) = e
    BY <1>7 DEF k
  <2> QED
    BY <2>10, <2>12, <2>16, <2>17 DEF Walks
<1>19. FloorsRise(c) /\ BasesRise(f) /\ c[1].floor = 0 /\ G[1] = 0 /\ c # <<>>
  <2>1. 1 \in 1..e
    BY <1>2
  <2>2. FloorsRise(c)
    BY <1>2, <1>7, <1>8 DEF Grounded, FloorsRise
  <2>3. c # <<>>
    BY <1>7, <1>2, EmptyIsSeq
  <2> QED
    BY <2>1, <2>2, <2>3, <1>2, <1>8, <1>10 DEF Grounded
<1>20. \A i \in 1..n : WellKept(chunks'[i], Q[i])
  BY <1>2, <1>12 DEF Grounded
<1>21. Grounded(G, Q)'
  <2>1. c = ctl' /\ vm'.frames = f /\ e - 1 = Len(c) - 1
    BY <1>1, <1>7
  <2> HIDE DEF c, f
  <2> QED
    BY <2>1, <1>7, <1>10, <1>12, <1>16, <1>17, <1>18, <1>19, <1>20 DEF Grounded
<1>22. Untouched
  <2>1. g[D] <= vm'.top /\ vm'.top \in Int /\ g[D] \in Int /\ status # "halted" /\ g[D] <= g[D]
    BY <1>1, <1>3, <1>4
  <2> HIDE DEF f
  <2> QED
    BY <2>1, <1>3, <1>4, UntouchedAbove DEF f
<1> QED
  BY <1>21, <1>22

LEMMA GroundedResumed ==
  ASSUME Shaped, NEW g, NEW P, Grounded(g, P), Live, Ordinary, ResumeAtOnce \/ ResumeWithLine
  PROVE  Grounded(g, P)' /\ Untouched
<1> DEFINE b == Foot(ctl, vm.frames, g)
           o == Owed(status)
<1>1. /\ status \in {"WAIT", "PAUSE", "MOTION_DELAY", "WAITKEY", "INPUT"} /\ status' = "running"
      /\ UNCHANGED <<ctl, chunks>>
  BY DEF ResumeAtOnce, ResumeWithLine, Resume, ResumeWith
<1>2. b \in Nat /\ vm.top \in Nat /\ ctl # <<>>
  BY <1>1, FootFacts, ShapedFacts
<1>3. /\ vm'.top = vm.top + o /\ vm'.frames = vm.frames /\ Touches(vm, vm', vm.top) /\ o \in Nat
  <2>1. CASE ResumeAtOnce
    <3>1. vm' = vm /\ o = 0
      BY <2>1 DEF ResumeAtOnce, Resume, Owed
    <3>2. Touches(vm, vm, vm.top)
      BY SeqShape DEF Touches, Shaped, VmShape
    <3> QED
      BY <3>1, <3>2, <1>2
  <2>2. CASE ResumeWithLine
    <3>1. PICK v : vm' = Reports(Pushed(vm, v), TRUE, TRUE)
      BY <2>2 DEF ResumeWithLine, ResumeWith
    <3>2. o = 1
      BY <2>2 DEF ResumeWithLine, Owed
    <3> DEFINE p == Pushed(vm, v)
    <3>3. Touches(vm, p, vm.top) /\ p.top = vm.top + 1
      BY PushedTouches DEF Shaped, Ordinary, WellCoded, Unhindered
    <3> HIDE DEF p, o
    <3>4. Touches(p, vm', p.top) /\ vm'.top = p.top /\ vm'.frames = p.frames
      <4>1. VmShape(p) /\ vm' = Reports(p, TRUE, TRUE)
        BY <3>1, <3>3 DEF p, Touches
      <4>2. Touches(p, vm', p.top) /\ vm'.top = p.top
        BY <4>1, ReportsTouch
      <4> QED
        BY <4>2 DEF Touches
    <3>5. VmShape(vm) /\ vm.top <= p.top /\ vm.top \in Int /\ p.top \in Int
      BY <3>3, <1>2 DEF Shaped
    <3>6. Touches(vm, vm', vm.top)
      BY <3>3, <3>4, <3>5, TouchesTwice
    <3> QED
      BY <3>2, <3>3, <3>4, <3>6 DEF Touches
  <2> QED
    BY <2>1, <2>2
<1>4. Walks(ctl, vm.frames, g, P, vm'.top, Owed(status'))
  <2>1. Walks(ctl, vm.frames, g, P, vm.top, o)
    BY <1>2 DEF Grounded
  <2>2. Owed(status') = 0
    BY <1>1 DEF Owed
  <2> DEFINE n == vm'.top
  <2>3. n + 0 - b = vm.top + o - b /\ (b <= vm.top => b <= n)
    <3> HIDE DEF n, b, o
    <3>1. n = vm.top + o
      BY <1>3 DEF n
    <3> QED
      BY <3>1, <1>2, <1>3
  <2> HIDE DEF n, o
  <2> QED
    BY <2>1, <2>2, <2>3 DEF Walks, Foot, n
<1>5. Grounded(g, P)'
  BY <1>1, <1>2, <1>3, <1>4 DEF Grounded
<1>6. Untouched
  <2>1. vm.frames # <<>> => vm.frames[Len(vm.frames)].base <= b
                            /\ vm.frames[Len(vm.frames)].base \in Nat /\ b <= vm.top
    BY <1>1, FootFacts
  <2>2. /\ vm'.top \in Nat /\ vm.top <= vm'.top /\ vm'.frames = vm.frames
        /\ \A i \in 1..vm.top : vm'.memory[i] = vm.memory[i]
    <3> HIDE DEF o
    <3> QED
      BY <1>2, <1>3 DEF Touches
  <2>3. ~(Len(vm'.frames) < Len(vm.frames))
    <3>1. Len(vm.frames) \in Nat
      BY SeqShape DEF Shaped, VmShape
    <3> QED
      BY <3>1, <2>2
  <2> DEFINE base == vm.frames[Len(vm.frames)].base
  <2> HIDE DEF b, base
  <2>4. vm.frames # <<>> => base \in Nat /\ base <= vm.top /\ vm'.top >= base
    BY <2>1, <2>2, <1>2 DEF base
  <2>5. vm.frames # <<>> => \A i \in 1..base : vm'.memory[i] = vm.memory[i]
    BY <2>2, <2>4, <1>2
  <2> QED
    BY <2>3, <2>4, <2>5 DEF Untouched, base
<1> QED
  BY <1>5, <1>6

\* What holds of the machine when no step moves it.
LEMMA GroundedStill ==
  ASSUME Shaped, NEW g, NEW P, Grounded(g, P), UNCHANGED vm
  PROVE  Untouched
<1>1. CASE status = "halted"
  <2>1. vm.frames = <<>>
    BY <1>1 DEF Shaped, Grounded
  <2> QED
    BY <2>1 DEF Untouched
<1>2. CASE status # "halted"
  <2> DEFINE base == vm.frames[Len(vm.frames)].base
             b == Foot(ctl, vm.frames, g)
  <2>1. vm.frames # <<>> => base <= b /\ base \in Nat /\ b <= vm.top
    BY <1>2, FootFacts
  <2>2. b \in Nat /\ vm.top \in Nat /\ ~(Len(vm.frames) < Len(vm.frames))
    BY <1>2, FootFacts
  <2> HIDE DEF base, b
  <2>3. vm.frames # <<>> => vm.top >= base
    BY <2>1, <2>2
  <2> QED
    BY <2>2, <2>3 DEF Untouched, base
<1> QED
  BY <1>1, <1>2

LEMMA GroundedCalls ==
  ASSUME Shaped, NEW g, NEW P, Grounded(g, P)
  PROVE  CallsAreNested
BY DEF Shaped, VmShape, Grounded, BasesRise, CallsAreNested

\* The inductive invariant: in a run, there are such grounds and places.
Tracked ==
  /\ Live => \E g, P : Grounded(g, P)
  /\ ~Live => CallsAreNested /\ (status = "running" => vm.top = 0)

LEMMA TrackedInit ==
  ASSUME Init, Ordinary
  PROVE  Tracked
<1>1. PICK c : StartVm(c)
  BY DEF Init, Load
<1> DEFINE a == Activation("main", 1, c.start)
<1>2. /\ vm = FreshVm /\ ctl = <<a>> /\ chunks = <<c>> /\ status = "running"
  BY <1>1 DEF StartVm
<1>3. /\ vm.top = 0 /\ vm.frames = <<>> /\ vm.scopes = <<>>
  BY <1>2 DEF FreshVm
<1>4. a.who = "main" /\ a.chunk = 1 /\ a.pc = c.start /\ a.start = c.start /\ a.floor = 0
  BY DEF Activation
<1> HIDE DEF a
<1>5. CallsAreNested
  BY <1>3, EmptyIsSeq DEF CallsAreNested
<1>6. ASSUME Live PROVE \E g, P : Grounded(g, P)
  <2>1. IsSeq(chunks) /\ Len(chunks) = 1 /\ chunks[1] = c /\ Len(ctl) = 1 /\ ctl[1] = a /\ ctl # <<>>
    <3>1. <<c>> \in Seq({c}) /\ IsSeq(<<>>)
      BY EmptyIsSeq
    <3> QED
      BY <3>1, <1>2, AnySeq
  <2>2. PICK S : WellKept(c, S)
    BY <2>1, <1>6 DEF Ordinary, WellCoded, Unhindered
  <2>3. PICK P : P = <<S>>
    OBVIOUS
  <2>4. PICK g : g = <<0>>
    OBVIOUS
  <2>5. /\ IsSeq(P) /\ Len(P) = 1 /\ P[1] = S /\ IsSeq(g) /\ Len(g) = 1 /\ g[1] = 0
    <3>1. <<S>> \in Seq({S}) /\ <<0>> \in Seq({0})
      OBVIOUS
    <3> QED
      BY <3>1, <2>3, <2>4, AnySeq
  <2>6. Len(vm.frames) = 0
    BY <1>3, EmptyIsSeq
  <2>7. KindOf("main") = "program" /\ <<c.start, 0, "program">> \in S
    BY <2>2 DEF KindOf, WellKept, Entries
  <2>8. Stands(ctl, vm.frames, g, P, 1)
    <3>1. Ceil(ctl, vm.frames, 1) = 0
      BY <2>1, <2>6 DEF Ceil
    <3> QED
      BY <3>1, <2>1, <2>5, <2>6, <2>7, <1>4 DEF Stands
  <2>9. Walks(ctl, vm.frames, g, P, vm.top, Owed(status))
    <3>1. Base(ctl, vm.frames, g, 1, 0) = 0 /\ KindAt(ctl, 1, 0) = "program"
      BY <2>1, <2>5, <2>7, <1>4 DEF Base, KindAt
    <3>2. Owed(status) = 0
      BY <1>2 DEF Owed
    <3>3. <<ctl[1].pc, 0, "program">> \in P[ctl[1].chunk]
      BY <2>1, <2>5, <2>7, <1>4
    <3> QED
      BY <3>1, <3>2, <3>3, <2>1, <2>6, <1>3 DEF Walks
  <2>10. FloorsRise(ctl) /\ BasesRise(vm.frames)
    BY <2>1, <2>6, <1>4 DEF FloorsRise, BasesRise
  <2>11. Grounded(g, P)
    BY <2>1, <2>2, <2>5, <2>8, <2>9, <2>10, <1>4 DEF Grounded
  <2> QED
    BY <2>11
<1> QED
  BY <1>3, <1>5, <1>6 DEF Tracked

LEMMA TrackedRuns ==
  ASSUME Shaped, Assembled, EvaluatorKeeps, Ordinary, NEW g, NEW P, Grounded(g, P), Live, RunVm,
         Shaped', Ordinary'
  PROVE  (\E G, Q : Grounded(G, Q)') /\ Untouched
<1>1. VmNext /\ Live'
  BY DEF RunVm, Live
<1>2. CASE InPlace
  BY <1>2, GroundedInPlace
<1>3. CASE Entered
  BY <1>3, GroundedEntered
<1>4. CASE Returned
  BY <1>4, GroundedReturned
<1>5. CASE Stopped
  BY <1>5, GroundedStopped
<1>6. CASE Began
  BY <1>1, <1>6, GroundedBegan
<1>7. CASE Ended
  BY <1>7, GroundedEnded
<1>8. CASE Again
  BY <1>8, GroundedAgain
<1>9. CASE EndRun
  BY <1>9, GroundedEndRun
<1> QED
  BY <1>1, <1>2, <1>3, <1>4, <1>5, <1>6, <1>7, <1>8, <1>9, NextKinds

LEMMA TrackedNext ==
  ASSUME Shaped, Assembled, EvaluatorKeeps, Ordinary, Tracked, Next, Shaped', Ordinary'
  PROVE  Tracked' /\ (Untouched \/ UNCHANGED vars)
<1>1. CASE RunVm
  <2>1. Live /\ Live'
    BY <1>1 DEF RunVm, Live
  <2>2. PICK g, P : Grounded(g, P)
    BY <2>1 DEF Tracked
  <2>3. (\E G, Q : Grounded(G, Q)') /\ Untouched
    BY <1>1, <2>1, <2>2, TrackedRuns
  <2> QED
    BY <2>1, <2>3 DEF Tracked
<1>2. CASE ResumeAtOnce \/ ResumeWithLine
  <2>1. Live /\ Live'
    BY <1>2 DEF ResumeAtOnce, ResumeWithLine, Live
  <2>2. PICK g, P : Grounded(g, P)
    BY <2>1 DEF Tracked
  <2>3. Grounded(g, P)' /\ Untouched
    BY <1>2, <2>1, <2>2, GroundedResumed
  <2> QED
    BY <2>1, <2>3 DEF Tracked
<1>3. CASE Leave
  <2>1. /\ Live /\ status # "running" /\ UNCHANGED <<app, vm, ctl, chunks, status>>
    BY <1>3 DEF Leave, Live
  <2>2. ~Live'
    BY <1>3 DEF Leave, Live
  <2>3. PICK g, P : Grounded(g, P)
    BY <2>1 DEF Tracked
  <2>4. CallsAreNested /\ Untouched
    BY <2>1, <2>3, GroundedCalls, GroundedStill
  <2>5. CallsAreNested'
    BY <2>1, <2>4 DEF CallsAreNested
  <2> QED
    BY <2>1, <2>2, <2>4, <2>5 DEF Tracked
<1>4. CASE Exited
  <2>1. ~Live /\ UNCHANGED vars /\ UNCHANGED <<vm, status, exit>>
    BY <1>4 DEF Exited, vars, Live
  <2>2. CallsAreNested /\ (status = "running" => vm.top = 0)
    BY <2>1 DEF Tracked
  <2>3. CallsAreNested' /\ (status' = "running" => vm'.top = 0) /\ ~Live'
    BY <2>1, <2>2 DEF CallsAreNested, Live
  <2> QED
    BY <2>1, <2>3 DEF Tracked
<1> QED
  BY <1>1, <1>2, <1>3, <1>4 DEF Next

LEMMA TrackedStays == Tracked /\ UNCHANGED vars => Tracked'
<1> SUFFICES ASSUME Tracked, UNCHANGED vars PROVE Tracked'
  OBVIOUS
<1>1. UNCHANGED <<app, vm, ctl, chunks, status, exit>>
  BY DEF vars
<1>2. (Live' <=> Live) /\ (CallsAreNested' <=> CallsAreNested)
  BY <1>1 DEF Live, CallsAreNested
<1>3. \A g, P : Grounded(g, P) => Grounded(g, P)'
  BY <1>1 DEF Grounded
<1> QED
  BY <1>1, <1>2, <1>3 DEF Tracked

LEMMA TrackedCalls ==
  ASSUME Shaped, Tracked
  PROVE  CallsAreNested
BY GroundedCalls DEF Tracked

LEMMA TrackedBalance ==
  ASSUME Shaped, Assembled, Ordinary, Tracked
  PROVE  StatementsBalance
<1> SUFFICES ASSUME Fetch({"CHECK_UNCAUGHT_THROW"}), Depth = 1, vm.frames = <<>>
             PROVE  vm.top = 0
  BY DEF StatementsBalance
<1>1. status = "running" /\ InCode /\ Ins.op = "CHECK_UNCAUGHT_THROW"
  BY DEF Fetch
<1>2. CASE ~Live
  BY <1>1, <1>2 DEF Tracked
<1>3. CASE Live
  <2>1. PICK g, P : Grounded(g, P)
    BY <1>3 DEF Tracked
  <2> DEFINE b == Foot(ctl, vm.frames, g)
  <2>2. EndsWell(Ins, <<Top.pc, vm.top - b, Kind>>) /\ b <= vm.top
    BY <1>1, <1>3, <2>1, CodeFacts
  <2>3. vm.top - b = 0
    BY <1>1, <2>2 DEF EndsWell
  <2>4. b \in Nat /\ vm.top \in Nat /\ Top.floor \in Nat /\ Len(vm.frames) = 0
    BY <1>1, <2>1, FootFacts
  <2>5. ctl # <<>>
    BY <1>1, ShapedFacts
  <2>6. b = g[1] /\ g[1] = 0
    BY <2>1, <2>4, <2>5 DEF Foot, Base, Depth, Top, Grounded
  <2> HIDE DEF b
  <2> QED
    BY <2>3, <2>4, <2>6
<1> QED
  BY <1>2, <1>3

\* The first n elements are the same.
LEMMA SamePrefix ==
  ASSUME NEW s, NEW t, NEW n \in Nat, IsSeq(s), IsSeq(t), n <= Len(s), n <= Len(t),
         \A i \in 1..n : s[i] = t[i]
  PROVE  SubSeq(s, 1, n) = SubSeq(t, 1, n)
<1>1. PICK S : s \in Seq(S)
  BY DEF IsSeq
<1>2. PICK T : t \in Seq(T)
  BY DEF IsSeq
<1>3. SubSeq(s, 1, n) = [i \in 1..n |-> s[i]]
  BY <1>1
<1>4. SubSeq(t, 1, n) = [i \in 1..n |-> t[i]]
  BY <1>2
<1> QED
  BY <1>3, <1>4

LEMMA UntouchedSays ==
  ASSUME Shaped, Shaped', Untouched
  PROVE  vm.frames # <<>> =>
           LET base == Last(vm.frames).base IN
           /\ SubSeq(vm'.memory, 1, base) = SubSeq(vm.memory, 1, base)
           /\ vm'.top >= base
           /\ Len(vm'.frames) < Len(vm.frames) => vm'.top = base + 1
<1> SUFFICES ASSUME vm.frames # <<>>
             PROVE  LET base == Last(vm.frames).base IN
                    /\ SubSeq(vm'.memory, 1, base) = SubSeq(vm.memory, 1, base)
                    /\ vm'.top >= base
                    /\ Len(vm'.frames) < Len(vm.frames) => vm'.top = base + 1
  OBVIOUS
<1> DEFINE base == vm.frames[Len(vm.frames)].base
           m == vm.memory
           o == vm'.memory
<1>1. /\ \A i \in 1..base : o[i] = m[i]
      /\ vm'.top >= base
      /\ Len(vm'.frames) < Len(vm.frames) => vm'.top = base + 1
  BY DEF Untouched
<1>2. IsSeq(vm.frames) /\ IsSeq(m) /\ IsSeq(o) /\ vm'.top <= Len(o) /\ vm'.top \in Nat
  BY DEF Shaped, VmShape
<1>3. Len(vm.frames) \in 1..Len(vm.frames)
  BY <1>2, SeqShape, EmptySeq DEF IsSeq
<1>4. base \in Nat /\ base <= Len(m)
  BY <1>3 DEF Shaped, VmShape
<1>5. Len(o) \in Nat
  BY <1>2, SeqShape
<1>6. Last(vm.frames).base = base
  BY DEF Last
<1> HIDE DEF base, m, o
<1>7. SubSeq(o, 1, base) = SubSeq(m, 1, base)
  BY <1>1, <1>2, <1>4, <1>5, SamePrefix
<1> QED
  BY <1>1, <1>6, <1>7 DEF m, o

\* In ordinary runs frames and scopes come and go together and no call begins
\* below its caller's part of the stack, through every procedure, method,
\* APPLY, snippet and template, whichever way each of them is left.
THEOREM CallsNest ==
  Spec /\ []Assembled /\ [][EvaluatorKeeps]_vars /\ []Ordinary => []CallsAreNested
<1>1. Init /\ Ordinary => Shaped /\ Tracked
  BY ShapedInit, TrackedInit
<1>2. Shaped /\ Tracked /\ Assembled /\ Ordinary /\ Ordinary' /\ [EvaluatorKeeps]_vars /\ [Next]_vars
        => Shaped' /\ Tracked'
  <2>1. CASE UNCHANGED vars
    BY <2>1, TrackedStays DEF vars, Shaped
  <2> QED
    BY <2>1, ShapedNext, TrackedNext
<1>3. Shaped /\ Tracked => CallsAreNested
  BY TrackedCalls
<1> QED
  BY <1>1, <1>2, <1>3, PTL DEF Spec

\* In ordinary runs the value stack is empty whenever the main program stands
\* between two statements: what the compiler's code takes and puts, and what
\* calls, snippets and templates leave, comes out even.
THEOREM StatementsComeOutEven ==
  Spec /\ []Assembled /\ [][EvaluatorKeeps]_vars /\ []Ordinary => []StatementsBalance
<1>1. Init /\ Ordinary => Shaped /\ Tracked
  BY ShapedInit, TrackedInit
<1>2. Shaped /\ Tracked /\ Assembled /\ Ordinary /\ Ordinary' /\ [EvaluatorKeeps]_vars /\ [Next]_vars
        => Shaped' /\ Tracked'
  <2>1. CASE UNCHANGED vars
    BY <2>1, TrackedStays DEF vars, Shaped
  <2> QED
    BY <2>1, ShapedNext, TrackedNext
<1>3. Shaped /\ Tracked /\ Assembled /\ Ordinary => StatementsBalance
  BY TrackedBalance
<1> QED
  BY <1>1, <1>2, <1>3, PTL DEF Spec

\* In ordinary runs no step of a procedure, of what it calls or of a snippet or
\* a template it runs, touches the stack below its base, and its return leaves
\* one value there: an expression, a FOR or a template's loop in the middle of
\* which it was called finds what it had put aside.
THEOREM CallersAreSafe ==
  Spec /\ []Assembled /\ [][EvaluatorKeeps]_vars /\ []Ordinary => CallerStackUntouched
<1>1. Init /\ Ordinary => Shaped /\ Tracked
  BY ShapedInit, TrackedInit
<1>2. Shaped /\ Tracked /\ Assembled /\ Ordinary /\ Ordinary' /\ [EvaluatorKeeps]_vars /\ [Next]_vars
        => Shaped' /\ Tracked'
  <2>1. CASE UNCHANGED vars
    BY <2>1, TrackedStays DEF vars, Shaped
  <2> QED
    BY <2>1, ShapedNext, TrackedNext
<1>3. Shaped /\ Tracked /\ Assembled /\ Ordinary /\ Ordinary' /\ [EvaluatorKeeps]_vars /\ [Next]_vars
        => [vm.frames # <<>> =>
              LET base == Last(vm.frames).base IN
              /\ SubSeq(vm'.memory, 1, base) = SubSeq(vm.memory, 1, base)
              /\ vm'.top >= base
              /\ Len(vm'.frames) < Len(vm.frames) => vm'.top = base + 1]_vars
  <2> SUFFICES ASSUME Shaped, Tracked, Assembled, Ordinary, Ordinary', EvaluatorKeeps, Next,
                      ~UNCHANGED vars
               PROVE  vm.frames # <<>> =>
                        LET base == Last(vm.frames).base IN
                        /\ SubSeq(vm'.memory, 1, base) = SubSeq(vm.memory, 1, base)
                        /\ vm'.top >= base
                        /\ Len(vm'.frames) < Len(vm.frames) => vm'.top = base + 1
    OBVIOUS
  <2>1. Shaped'
    BY ShapedNext
  <2>2. Untouched
    BY <2>1, TrackedNext
  <2> QED
    BY <2>1, <2>2, UntouchedSays
<1> QED
  BY <1>1, <1>2, <1>3, PTL DEF Spec, CallerStackUntouched

-----------------------------------------------------------------------------
(* The code the machine runs stays as the compiler made it: chunks come    *)
(* and go with their snippets, and ERASE takes only names away.            *)

Nameless == ""    \* what ERASE leaves of a name
Tidy(c) ==
  /\ AssembledChunk(c) /\ (\E S : WellKept(c, S)) /\ CallsLand(c)
  /\ \A i \in 1..Len(c.code) : c.code[i].op = "CALL_PROC" => c.code[i].text # Nameless

\* What the compiler answers for, each time it is asked: assembled, well-kept
\* code whose calls land.
Answers(op, text) == Translate(op, text) # <<>> => Tidy(Translate(op, text)[1])
Compiling == Fetch(SnippetOps) /\ ~SnippetRefused(Ins.op)
CompilesTidily ==
  /\ Answers("main", script.text)
  /\ Compiling => Answers(Ins.op, SnippetText(Ins.op))

TidyCode ==
  /\ IsSeq(chunks)
  /\ \A i \in 1..Len(chunks) : AssembledChunk(chunks[i]) /\ (Live => Tidy(chunks[i]))

LEMMA EraseTidy ==
  ASSUME NEW c, NEW name, NEW d, AssembledChunk(c),
         d = [c EXCEPT !.procs = EraseNamed(c.procs, name)]
  PROVE  AssembledChunk(d) /\ (Tidy(c) => Tidy(d))
<1> DEFINE erased == EraseNamed(c.procs, name)
<1>1. Len(c.procs) \in Nat /\ DOMAIN c.procs = 1..Len(c.procs)
  BY SeqShape DEF AssembledChunk
<1>2. DOMAIN erased = 1..Len(c.procs) /\ erased = [i \in DOMAIN erased |-> erased[i]]
  BY DEF EraseNamed
<1>3. IsSeq(erased) /\ Len(erased) = Len(c.procs)
  BY <1>1, <1>2, MadeSeq
<1>4. \A i \in 1..Len(c.procs) : /\ erased[i].pc = c.procs[i].pc
                                 /\ DOMAIN erased[i] = {"name", "pc", "params"}
                                 /\ erased[i].name \in {c.procs[i].name, Nameless}
  <2> SUFFICES ASSUME NEW i \in 1..Len(c.procs)
               PROVE  /\ erased[i].pc = c.procs[i].pc
                      /\ DOMAIN erased[i] = {"name", "pc", "params"}
                      /\ erased[i].name \in {c.procs[i].name, Nameless}
    OBVIOUS
  <2>1. erased[i] = c.procs[i] \/ erased[i] = [c.procs[i] EXCEPT !.name = Nameless]
    BY DEF EraseNamed, Nameless
  <2>2. DOMAIN c.procs[i] = {"name", "pc", "params"}
    BY DEF AssembledChunk
  <2> HIDE DEF erased
  <2> QED
    BY <2>1, <2>2
<1>5. d.code = c.code /\ d.procs = erased /\ d.start = c.start /\ DOMAIN d = {"code", "procs", "start"}
  BY DEF AssembledChunk
<1> HIDE DEF erased
<1>6. AssembledChunk(d)
  BY <1>3, <1>4, <1>5 DEF AssembledChunk
<1>7. ASSUME Tidy(c) PROVE Tidy(d)
  <2>1. \E S : WellKept(d, S)
    <3>1. SameCode(c, d)
      BY EraseKeepsEntries
    <3>2. PICK S : WellKept(c, S)
      BY <1>7 DEF Tidy
    <3>3. WellKept(d, S)
      BY <3>1, <3>2, SameCodeKept
    <3> QED
      BY <3>3
  <2>2. CallsLand(d)
    <3> SUFFICES ASSUME NEW i \in 1..Len(c.code), c.code[i].op = "CALL_PROC"
                 PROVE  \/ \E j \in 1..Len(d.procs) :
                             d.procs[j].pc = c.code[i].a /\ d.procs[j].name \in {c.code[i].text, Nameless}
                        \/ c.code[i].a = -1 /\ \A j \in 1..Len(d.procs) : d.procs[j].name # c.code[i].text
      BY <1>5 DEF CallsLand, Nameless
    <3>1. c.code[i].text # Nameless
      BY <1>7 DEF Tidy
    <3>2. \/ \E j \in 1..Len(c.procs) :
               c.procs[j].pc = c.code[i].a /\ c.procs[j].name \in {c.code[i].text, Nameless}
          \/ c.code[i].a = -1 /\ \A j \in 1..Len(c.procs) : c.procs[j].name # c.code[i].text
      BY <1>7 DEF Tidy, CallsLand, Nameless
    <3> HIDE DEF Nameless
    <3> QED
      BY <3>1, <3>2, <1>3, <1>4, <1>5
  <2> QED
    BY <2>1, <2>2, <1>5, <1>6, <1>7 DEF Tidy
<1> QED
  BY <1>6, <1>7

LEMMA ChunksNext ==
  ASSUME VmNext
  PROVE  \/ UNCHANGED chunks
         \/ chunks' = Front(chunks)
         \/ /\ Compiling /\ Translate(Ins.op, SnippetText(Ins.op)) # <<>>
            /\ chunks' = Append(chunks, Translate(Ins.op, SnippetText(Ins.op))[1])
         \/ \E name : chunks' = [chunks EXCEPT ![Top.chunk] = [chunks[Top.chunk] EXCEPT !.procs =
                                    EraseNamed(chunks[Top.chunk].procs, name)]]
<1>1. CASE PushValue \/ SetVariable \/ PopOrPoke \/ Unary \/ Binary \/ Jump \/ JumpIfFalse
             \/ CallBuiltin \/ CheckOutput \/ VoidResult \/ CallProc \/ Send \/ Apply \/ Return
             \/ Local \/ CheckThrow \/ Catch \/ CheckUncaughtThrow \/ CountRepeat
             \/ StartTemplate \/ EndPass
  BY <1>1, Zenon DEF PushValue, SetVariable, PopOrPoke, Unary, Binary, Jump, JumpIfFalse,
     CallBuiltin, CheckOutput, VoidResult, CallProc, Send, Apply, Return, Local, CheckThrow, Catch,
     CheckUncaughtThrow, CountRepeat, StartTemplate, EndPass, Here
<1>2. CASE EndRun \/ Wait \/ AskUser \/ Pause \/ AwaitOrYield \/ Launch \/ MotionDelay
  BY <1>2 DEF EndRun, Wait, AskUser, Pause, AwaitOrYield, Launch, MotionDelay
<1>3. CASE EndSnippet
  BY <1>3 DEF EndSnippet
<1>4. CASE EraseProc
  BY <1>4 DEF EraseProc
<1>5. CASE StartSnippet
  <2> DEFINE op == Ins.op
             m == IF op = "LOAD" THEN vm ELSE Drop(vm, 1)
             program == Translate(op, SnippetText(op))
  <2>1. SkipSnippet(op, m) \/ (Compiling /\ RunProgram(op, m, program))
    BY <1>5, Zenon DEF StartSnippet, Compiling, SnippetOps
  <2>2. SkipSnippet(op, m) => UNCHANGED chunks
    BY DEF SkipSnippet
  <2>3. RunProgram(op, m, program) /\ program = <<>> => UNCHANGED chunks
    BY DEF RunProgram, SkipSnippet
  <2>4. RunProgram(op, m, program) /\ program # <<>> => chunks' = Append(chunks, program[1])
    BY DEF RunProgram, RunChunk
  <2> QED
    BY <2>1, <2>2, <2>3, <2>4
<1> QED
  BY <1>1, <1>2, <1>3, <1>4, <1>5 DEF VmNext

LEMMA TidyInit ==
  ASSUME CompilesTidily, Init
  PROVE  TidyCode
<1> DEFINE program == Translate("main", script.text)
           c == IF program = <<>> THEN NoChunk ELSE program[1]
<1>1. StartVm(c) /\ exit = IF program = <<>> THEN "rejected" ELSE ""
  BY DEF Init, Load
<1>2. chunks = <<c>>
  BY <1>1 DEF StartVm
<1>3. IsSeq(chunks) /\ Len(chunks) = 1 /\ chunks[1] = c
  <2>1. <<c>> \in Seq({c})
    OBVIOUS
  <2> QED
    BY <2>1, <1>2, AnySeq
<1>4. CASE program = <<>>
  <2>1. ~Live
    BY <1>1, <1>4 DEF Live
  <2>2. AssembledChunk(NoChunk)
    <3>1. DOMAIN NoChunk = {"code", "procs", "start"} /\ NoChunk.code = <<>> /\ NoChunk.procs = <<>>
      BY DEF NoChunk
    <3> QED
      BY <3>1, EmptyIsSeq DEF AssembledChunk
  <2> QED
    BY <2>1, <2>2, <1>3, <1>4 DEF TidyCode
<1>5. CASE program # <<>>
  <2>1. Tidy(c)
    BY <1>5 DEF CompilesTidily, Answers
  <2> QED
    BY <2>1, <1>3 DEF TidyCode, Tidy
<1> QED
  BY <1>4, <1>5

LEMMA TidyNext ==
  ASSUME CompilesTidily, TidyCode, [Next]_vars
  PROVE  TidyCode'
<1>1. CASE RunVm
  <2>1. VmNext /\ Live /\ Live'
    BY <1>1 DEF RunVm, Live
  <2>2. IsSeq(chunks) /\ Len(chunks) \in Nat /\ \A i \in 1..Len(chunks) : Tidy(chunks[i])
    BY <2>1, SeqShape DEF TidyCode
  <2> SUFFICES IsSeq(chunks') /\ \A i \in 1..Len(chunks') : Tidy(chunks'[i])
    BY DEF TidyCode, Tidy
  <2>3. CASE UNCHANGED chunks
    BY <2>2, <2>3
  <2>4. CASE chunks' = Front(chunks)
    <3>1. CASE chunks = <<>>
      <4>1. Front(chunks) = <<>>
        BY <3>1 DEF Front
      <4> QED
        BY <4>1, <2>4, EmptyIsSeq
    <3>2. CASE chunks # <<>>
      <4>1. /\ IsSeq(Front(chunks)) /\ Len(Front(chunks)) = Len(chunks) - 1
            /\ \A i \in 1..(Len(chunks) - 1) : Front(chunks)[i] = chunks[i]
        BY <2>2, <3>2, FrontSeq
      <4> QED
        BY <4>1, <2>2, <2>4
    <3> QED
      BY <3>1, <3>2
  <2>5. ASSUME Compiling, Translate(Ins.op, SnippetText(Ins.op)) # <<>>,
               chunks' = Append(chunks, Translate(Ins.op, SnippetText(Ins.op))[1])
        PROVE  IsSeq(chunks') /\ \A i \in 1..Len(chunks') : Tidy(chunks'[i])
    <3> DEFINE c == Translate(Ins.op, SnippetText(Ins.op))[1]
    <3>1. Tidy(c)
      BY <2>5 DEF CompilesTidily, Answers
    <3> HIDE DEF c
    <3>2. /\ IsSeq(Append(chunks, c)) /\ Len(Append(chunks, c)) = Len(chunks) + 1
          /\ Append(chunks, c)[Len(chunks) + 1] = c
          /\ \A i \in 1..Len(chunks) : Append(chunks, c)[i] = chunks[i]
      BY <2>2, AppendSeq
    <3>3. chunks' = Append(chunks, c)
      BY <2>5 DEF c
    <3>4. \A i \in 1..(Len(chunks) + 1) : i = Len(chunks) + 1 \/ i \in 1..Len(chunks)
      BY <2>2
    <3> QED
      BY <2>2, <3>1, <3>2, <3>3, <3>4
  <2>6. ASSUME NEW name,
               chunks' = [chunks EXCEPT ![Top.chunk] = [chunks[Top.chunk] EXCEPT !.procs =
                            EraseNamed(chunks[Top.chunk].procs, name)]]
        PROVE  IsSeq(chunks') /\ \A i \in 1..Len(chunks') : Tidy(chunks'[i])
    <3> DEFINE k == Top.chunk
               d == [chunks[k] EXCEPT !.procs = EraseNamed(chunks[k].procs, name)]
    <3>1. chunks' = Altered(chunks, k, d)
      BY <2>6 DEF Altered
    <3>2. k \in 1..Len(chunks) => Tidy(d)
      <4> DEFINE c == chunks[k]
      <4>1. k \in 1..Len(chunks) => Tidy(c) /\ AssembledChunk(c)
        BY <2>2 DEF Tidy
      <4>2. d = [c EXCEPT !.procs = EraseNamed(c.procs, name)]
        OBVIOUS
      <4> HIDE DEF c, d, k
      <4> QED
        BY <4>1, <4>2, EraseTidy
    <3> HIDE DEF k, d
    <3>3. /\ IsSeq(chunks') /\ Len(chunks') = Len(chunks)
          /\ \A i \in 1..Len(chunks) : chunks'[i] = IF i = k THEN d ELSE chunks[i]
      BY <2>2, <3>1, AlteredSeq
    <3> QED
      BY <2>2, <3>2, <3>3
  <2> QED
    BY <2>1, <2>3, <2>4, <2>5, <2>6, ChunksNext
<1>2. CASE ResumeAtOnce \/ ResumeWithLine
  <2>1. UNCHANGED chunks /\ Live' = Live
    BY <1>2 DEF ResumeAtOnce, ResumeWithLine, Resume, ResumeWith, Live
  <2> QED
    BY <2>1 DEF TidyCode
<1>3. CASE Leave
  <2>1. UNCHANGED chunks /\ ~Live'
    BY <1>3 DEF Leave, Live
  <2> QED
    BY <2>1 DEF TidyCode
<1>4. CASE Exited \/ UNCHANGED vars
  <2>1. UNCHANGED chunks /\ Live' = Live
    BY <1>4 DEF Exited, vars, Live
  <2> QED
    BY <2>1 DEF TidyCode
<1> QED
  BY <1>1, <1>2, <1>3, <1>4 DEF Next

\* If what the compiler makes of the script, and of each snippet when it is its
\* turn, is assembled, well kept and its calls land, then so is all code the
\* machine ever runs, whatever snippets come and go and whatever procedures are
\* ERASEd while calls to them are compiled in.
THEOREM CodeStaysTidy == Spec /\ []CompilesTidily => []Assembled /\ []WellCoded
<1>1. Init /\ CompilesTidily => TidyCode
  BY TidyInit
<1>2. TidyCode /\ CompilesTidily /\ [Next]_vars => TidyCode'
  BY TidyNext
<1>3. TidyCode => Assembled /\ WellCoded
  BY DEF TidyCode, Assembled, WellCoded, Tidy
<1> QED
  BY <1>1, <1>2, <1>3, PTL DEF Spec

\* The theorems above about runs, of the compiler instead of the code: while it
\* compiles tidily and nothing hinders the run, calls nest, statements come out
\* even, and callers keep their part of the stack.
THEOREM CompiledRunsAreSafe ==
  Spec /\ []CompilesTidily /\ [][EvaluatorKeeps]_vars /\ []Unhindered
    => []TypeOK /\ []CallsAreNested /\ []StatementsBalance /\ CallerStackUntouched
<1>1. WellCoded /\ Unhindered => Ordinary
  BY DEF Ordinary
<1> QED
  BY <1>1, CodeStaysTidy, MachineTyped, CallsNest, StatementsComeOutEven, CallersAreSafe, PTL

-----------------------------------------------------------------------------
(* The pending THROW: what the instructions of the main program leave of   *)
(* it.                                                                     *)

\* The pending THROW is in b what it was in a.
Pends(a, b) == b.throwing = a.throwing

LEMMA SayPends ==
  ASSUME NEW a, NEW text, AppShape(a)
  PROVE  Pends(a, Say(a, text)) /\ Pends(a, SayLine(a, text)) /\ Pends(a, SayIf(a, text))
BY DEF AppShape, Pends, AppFields, Say, SayLine, SayIf

LEMMA SetVarPends ==
  ASSUME NEW a, NEW ss, NEW name, NEW v, AppShape(a)
  PROVE  Pends(a, SetVar(a, ss, name, v).app)
<1> DEFINE g == VarIndex(a.globals, name)
           said == SayLine(a, "MAKE: too many variables defined, not set")
           old == [a EXCEPT !.globals[g].val = v]
           more == [a EXCEPT !.globals = Append(@, [name |-> name, val |-> v])]
<1>1. SetVar(a, ss, name, v).app \in {a, old, more, said}
  BY DEF SetVar
<1>2. Pends(a, said) /\ Pends(a, a)
  BY SayPends DEF Pends
<1>3. Pends(a, old) /\ Pends(a, more)
  BY DEF AppShape, Pends, AppFields
<1> HIDE DEF old, more, said
<1> QED
  BY <1>1, <1>2, <1>3

LEMMA DeclareLocalPends ==
  ASSUME NEW a, NEW ss, NEW name, AppShape(a)
  PROVE  Pends(a, DeclareLocal(a, ss, name).app)
<1> DEFINE outside == SayLine(a, "LOCAL: can only be used inside a procedure")
           many == SayLine(a, "LOCAL: too many local variables")
<1>1. DeclareLocal(a, ss, name).app \in {a, outside, many}
  BY DEF DeclareLocal
<1>2. Pends(a, outside) /\ Pends(a, many) /\ Pends(a, a)
  BY SayPends DEF Pends
<1> HIDE DEF outside, many
<1> QED
  BY <1>1, <1>2

LEMMA PropsPend ==
  ASSUME NEW a, NEW plist, NEW key, NEW v, AppShape(a)
  PROVE  Pends(a, SetProp(a, plist, key, v)) /\ Pends(a, RemoveProp(a, plist, key))
<1> DEFINE i == PropIndex(a, plist, key)
           full == SayLine(a, "SETPROP: too many properties defined, not set")
<1>1. \/ SetProp(a, plist, key, v) = [a EXCEPT !.plists[i].val = v]
      \/ SetProp(a, plist, key, v) =
           [a EXCEPT !.plists = Append(@, [plist |-> plist, key |-> key, val |-> v])]
      \/ SetProp(a, plist, key, v) = full
  BY DEF SetProp
<1>2. /\ Pends(a, [a EXCEPT !.plists[i].val = v])
      /\ Pends(a, [a EXCEPT !.plists = Append(@, [plist |-> plist, key |-> key, val |-> v])])
  BY DEF AppShape, Pends, AppFields
<1>3. Pends(a, full) /\ Pends(a, a)
  BY SayPends DEF Pends
<1>4. \/ RemoveProp(a, plist, key) = a
      \/ RemoveProp(a, plist, key) = [a EXCEPT !.plists = Front([@ EXCEPT ![i] = Last(a.plists)])]
  BY DEF RemoveProp
<1>5. Pends(a, [a EXCEPT !.plists = Front([@ EXCEPT ![i] = Last(a.plists)])])
  BY DEF AppShape, Pends, AppFields
<1> HIDE DEF i, full
<1> QED
  BY <1>1, <1>2, <1>3, <1>4, <1>5

\* THROW is the only shared builtin that throws.
LEMMA SharedBuiltinPends ==
  ASSUME NEW a, NEW ss, NEW name, NEW args, AppShape(a), name # "THROW"
  PROVE  Pends(a, SharedBuiltin(a, ss, name, args).app)
<1> DEFINE r == SharedBuiltin(a, ss, name, args)
<1>1. CASE name \in ListBuiltins
  <2>1. r = GivesOr(a, ListBuiltin(name, args))
    BY <1>1 DEF SharedBuiltin, ListBuiltins
  <2> QED
    BY <2>1, SayPends DEF GivesOr, Gives
<1>2. CASE name \notin ListBuiltins
  <2>1. \/ r.app = SayLine(a, ValueText(args[1])) \/ r.app = Say(a, ValueText(args[1]))
        \/ r.app = a
        \/ r.app = SetProp(a, ValueText(args[1]), ValueText(args[2]), args[3])
        \/ r.app = SetProp(a, ValueText(args[1]), "prototype", args[2])
        \/ r.app = RemoveProp(a, ValueText(args[1]), ValueText(args[2]))
    BY <1>2 DEF SharedBuiltin, Gives, GivesNothing
  <2> QED
    BY <2>1, SayPends, PropsPend DEF Pends
<1> QED
  BY <1>1, <1>2

\* Those of the machine's own do not throw either; eval.c's templates may.
LEMMA VmBuiltinPends ==
  ASSUME NEW name, NEW args, AppShape(app), name # "THROW", name \notin TemplateBuiltins
  PROVE  Pends(app, VmBuiltin(name, args).app)
<1> DEFINE other == SharedBuiltin(app, vm.scopes, name, args).app
           r == VmBuiltin(name, args)
<1>1. r.app \in {ExecContinue, ExecBacktrace, app, SetSpeed(args[1]), other}
  BY DEF VmBuiltin, Gives, GivesNothing
<1>2. Pends(app, ExecContinue)
  <2>1. CASE app.paused > 0
    BY <2>1 DEF ExecContinue, Pends, AppShape, AppFields
  <2>2. CASE ~(app.paused > 0)
    <3>1. ExecContinue = SayLine(app, "CONTINUE: nothing is paused")
      BY <2>2 DEF ExecContinue
    <3> QED
      BY <3>1, SayPends
  <2> QED
    BY <2>1, <2>2
<1>3. Pends(app, ExecBacktrace)
  <2>1. PICK text : ExecBacktrace = SayLine(Say(app, text), "  (top level)")
    BY Zenon DEF ExecBacktrace
  <2>2. AppShape(Say(app, text)) /\ Pends(app, Say(app, text))
    BY SayKeeps, KeepsShape, SayPends
  <2>3. Pends(Say(app, text), SayLine(Say(app, text), "  (top level)"))
    BY <2>2, SayPends
  <2> QED
    BY <2>1, <2>2, <2>3 DEF Pends
<1>4. Pends(app, SetSpeed(args[1]))
  BY DEF SetSpeed, Pends, AppShape, AppFields
<1>5. Pends(app, other)
  BY SharedBuiltinPends
<1>6. Pends(app, app)
  BY DEF Pends
<1> HIDE DEF other, r
<1> QED
  BY <1>1, <1>2, <1>3, <1>4, <1>5, <1>6 DEF r

Callers == {"CALL_PROC", "SEND", "APPLY"}
\* After these a THROW can be pending that was not before: they run other code.
MayThrow(i) ==
  \/ i.op \in Callers \union SnippetOps \union Templates
  \/ i.op = "CALL_BUILTIN" /\ i.text \in TemplateBuiltins \union {"THROW"}

\* The others leave it, or catch or report it.
LEMMA ThrowsOnlyThere ==
  ASSUME Ready, VmNext, InPlace, ~MayThrow(Ins)
  PROVE  /\ app'.throwing => app.throwing
         /\ Ins.op = "CHECK_UNCAUGHT_THROW" => ~app'.throwing
         /\ Ins.op = "CHECK_THROW" /\ app.throwing => Goto(Ins.a)
<1>1. /\ InCode /\ status = "running" /\ AppShape(app)
      /\ Ins.op \notin {"OUTPUT", "STOP", "HALT"}
      /\ Ins.op \notin Callers \union SnippetOps \union Templates
  BY DEF InPlace, Ready, MayThrow, Successors
<1> DEFINE same == UNCHANGED app /\ Ins.op # "CHECK_UNCAUGHT_THROW" /\ Ins.op # "CHECK_THROW"
           kept == Pends(app, app') /\ Ins.op # "CHECK_UNCAUGHT_THROW" /\ Ins.op # "CHECK_THROW"
<1>2. CASE PushValue \/ PopOrPoke \/ Unary \/ Binary \/ Jump \/ JumpIfFalse \/ VoidResult
             \/ CountRepeat \/ MotionDelay
  <2>1. same
    BY <1>2 DEF PushValue, PopOrPoke, Unary, Binary, Jump, JumpIfFalse, VoidResult, CountRepeat,
       MotionDelay, Fetch
  <2> QED
    BY <2>1
<1>3. CASE SetVariable
  <2>1. PICK ss, name, v : app' = SetVar(app, ss, name, v).app
    BY <1>3 DEF SetVariable, Becomes, Bind
  <2>2. kept
    BY <1>1, <1>3, <2>1, SetVarPends DEF SetVariable, Fetch
  <2> QED
    BY <2>2 DEF Pends
<1>4. CASE CallBuiltin
  <2>1. app' = VmBuiltin(Ins.text, Args(vm, Ins.a)).app /\ Ins.op = "CALL_BUILTIN"
    BY <1>4 DEF CallBuiltin, BuiltinDone, Becomes, Fetch
  <2>2. Ins.text # "THROW" /\ Ins.text \notin TemplateBuiltins
    BY <2>1 DEF MayThrow
  <2>3. kept
    BY <1>1, <2>1, <2>2, VmBuiltinPends
  <2> QED
    BY <2>3 DEF Pends
<1>5. CASE CheckOutput
  <2>1. (\E text : app' = SayLine(app, text)) \/ app' = app
    BY <1>5, Zenon DEF CheckOutput, Becomes
  <2>2. Pends(app, app) /\ \A text : Pends(app, SayLine(app, text))
    BY <1>1, SayPends DEF Pends
  <2>3. Pends(app, app')
    <3>1. CASE app' = app
      BY <2>2, <3>1
    <3>2. CASE \E text : app' = SayLine(app, text)
      BY <2>2, <3>2
    <3> QED
      BY <2>1, <3>1, <3>2
  <2>4. Ins.op # "CHECK_UNCAUGHT_THROW" /\ Ins.op # "CHECK_THROW"
    BY <1>5 DEF CheckOutput, Fetch
  <2> QED
    BY <2>3, <2>4 DEF Pends
<1>6. CASE CallProc \/ Send \/ Apply \/ Return \/ StartSnippet \/ StartTemplate
  BY <1>1, <1>6 DEF CallProc, Send, Apply, Return, StartSnippet, StartTemplate, Fetch, Callers,
     SnippetOps, Templates
<1>7. CASE EndSnippet \/ EndPass \/ EndRun
  BY <1>1, <1>7 DEF EndSnippet, EndPass, EndRun, Returns
<1>8. CASE Local
  <2>1. kept
    BY <1>1, <1>8, DeclareLocalPends DEF Local, Becomes, Fetch
  <2> QED
    BY <2>1 DEF Pends
<1>9. CASE EraseProc
  <2>1. kept
    BY <1>1, <1>9, SayPends DEF EraseProc, Fetch, Pends
  <2> QED
    BY <2>1 DEF Pends
<1>10. CASE CheckThrow
  BY <1>10 DEF CheckThrow, Fetch
<1>11. CASE Catch
  <2>1. Ins.op = "CATCH_CHECK" /\ \E tag : app' = CatchCheck(app, tag)
    BY <1>11 DEF Catch, Fetch, Becomes
  <2>2. app'.throwing => app.throwing
    BY <1>1, <2>1 DEF CatchCheck, AppShape, AppFields
  <2> QED
    BY <2>1, <2>2
<1>12. CASE CheckUncaughtThrow
  <2>1. Ins.op = "CHECK_UNCAUGHT_THROW" /\ app' = IF app.throwing THEN ReportUncaught(app) ELSE app
    BY <1>12 DEF CheckUncaughtThrow, Fetch
  <2>2. ~ReportUncaught(app).throwing
    <3>1. DOMAIN SayLine(app, "THROW: no CATCH found for \"" \o app.tag) = AppFields
      BY <1>1, SayKeeps DEF Keeps
    <3> QED
      BY <3>1 DEF ReportUncaught, AppFields
  <2> QED
    BY <2>1, <2>2
<1>13. CASE Wait \/ AskUser \/ Pause \/ AwaitOrYield \/ Launch
  <2>1. Ins.op # "CHECK_UNCAUGHT_THROW" /\ Ins.op # "CHECK_THROW"
    BY <1>13 DEF Wait, AskUser, Pause, AwaitOrYield, Launch, Fetch
  <2>2. \/ app' = app \/ app' = RefuseNested(app)
        \/ \E text : app' = SayLine(app, text)
        \/ \E text, level : app' = SayLine([app EXCEPT !.paused = level], text)
    BY <1>13, Zenon DEF Wait, AskUser, Pause, AwaitOrYield, Launch, Becomes
  <2>3. \E text : RefuseNested(app) = SayLine(app, text)
    BY DEF RefuseNested
  <2>4. \A text : Pends(app, SayLine(app, text))
    BY <1>1, SayPends
  <2>5. \A text, level : Pends(app, SayLine([app EXCEPT !.paused = level], text))
    BY <1>1 DEF Pends, SayLine, Say, AppShape, AppFields
  <2>6. Pends(app, app')
    <3>1. CASE app' = app
      BY <3>1 DEF Pends
    <3>2. CASE app' = RefuseNested(app)
      BY <2>3, <2>4, <3>2
    <3>3. CASE \E text : app' = SayLine(app, text)
      BY <2>4, <3>3
    <3>4. CASE \E text, level : app' = SayLine([app EXCEPT !.paused = level], text)
      BY <2>5, <3>4
    <3> QED
      BY <2>2, <3>1, <3>2, <3>3, <3>4
  <2> QED
    BY <2>1, <2>6 DEF Pends
<1> QED
  BY <1>2, <1>3, <1>4, <1>5, <1>6, <1>7, <1>8, <1>9, <1>10, <1>11, <1>12, <1>13 DEF VmNext

\* R: where the main program can stand, Q: where no THROW is pending then.  A
\* place is in Q only if each way there either goes past a check that reports
\* the THROW, or past one that would have jumped, or comes from Q without one;
\* and the main program ends in Q.
Checked(code, R, Q) ==
  /\ R \subseteq 0..(Len(code) - 1) /\ Q \subseteq R
  /\ \A pc \in R :
       /\ code[pc + 1].op \in {"OUTPUT", "STOP", "HALT"} => pc \in Q
       /\ Successors(code[pc + 1], pc) \subseteq R
       /\ \A to \in Successors(code[pc + 1], pc) \cap Q :
            \/ code[pc + 1].op = "CHECK_UNCAUGHT_THROW"
            \/ code[pc + 1].op = "CHECK_THROW" /\ to # code[pc + 1].a
            \/ pc \in Q /\ ~MayThrow(code[pc + 1])

\* The main program stands in R, or will when its first call returns; a STOP or
\* OUTPUT outside any procedure ends it.
StandsIn(c, f, code, R) ==
  /\ c[1].chunk = 1
  /\ Ceil(c, f, 1) > 0 => \E p \in R : f[1].pc = p + 1 /\ code[p + 1].op \in Callers
  /\ Ceil(c, f, 1) = 0 => c[1].pc \in R \/ (Len(c) = 1 /\ c[1].pc = -1)
Resting(c, f, Q) == Len(c) = 1 /\ Len(f) = 0 /\ c[1].pc \in Q \union {-1}

Quiet(R, Q) ==
  /\ Checked(chunks[1].code, R, Q)
  /\ ctl # <<>> => StandsIn(ctl, vm.frames, chunks[1].code, R)
  /\ Resting(ctl, vm.frames, Q) => ~app.throwing
  /\ ctl = <<>> => ~app.throwing /\ vm.frames = <<>> /\ Len(chunks) = 1

\* Where a THROW may come back from, one may be pending.
LEMMA ThrowsLeaveQ ==
  ASSUME NEW code, NEW R, NEW Q, Checked(code, R, Q), NEW pc \in R,
         MayThrow(code[pc + 1]), code[pc + 1].op # "CALL_BUILTIN"
  PROVE  pc + 1 \in R /\ pc + 1 \notin Q \union {-1}
<1> DEFINE i == code[pc + 1]
<1>1. i.op \in Callers \union SnippetOps \union Templates
  BY DEF MayThrow
<1>2. Successors(i, pc) = {pc + 1} /\ i.op # "CHECK_UNCAUGHT_THROW" /\ i.op # "CHECK_THROW"
  BY <1>1 DEF Callers, SnippetOps, Templates, Successors
<1>3. pc \in Int /\ pc >= 0
  BY DEF Checked
<1> HIDE DEF i
<1>4. Successors(i, pc) \subseteq R
  BY DEF Checked, i
<1>5. pc + 1 \notin Q
  <2> SUFFICES ASSUME pc + 1 \in Q PROVE FALSE
    OBVIOUS
  <2>1. pc + 1 \in Successors(i, pc) \cap Q
    BY <1>2
  <2>2. MayThrow(i)
    BY DEF i
  <2>3. \/ i.op = "CHECK_UNCAUGHT_THROW"
        \/ i.op = "CHECK_THROW" /\ pc + 1 # i.a
        \/ pc \in Q /\ ~MayThrow(i)
    BY <2>1 DEF Checked, i
  <2> QED
    BY <1>2, <2>2, <2>3
<1> QED
  BY <1>2, <1>3, <1>4, <1>5

\* The main program's part of the C stack and of the frames.
LEMMA MainFacts ==
  ASSUME Shaped, status # "halted", NEW g, NEW P, Grounded(g, P)
  PROVE  LET k == Ceil(ctl, vm.frames, 1) IN
         /\ k \in Nat /\ k <= Len(vm.frames) /\ Len(vm.frames) \in Nat /\ IsSeq(vm.frames)
         /\ vm.frames = <<>> <=> Len(vm.frames) = 0
         /\ ctl # <<>> /\ IsSeq(ctl) /\ Depth = Len(ctl) /\ Depth \in Nat \ {0}
         /\ 1 \in 1..Len(ctl)
         /\ Depth = 1 => k = Len(vm.frames) /\ Top = ctl[1]
         /\ Depth > 1 => k = ctl[2].floor /\ k <= Top.floor /\ 2 \in 1..Len(ctl)
         /\ Top.floor \in Nat /\ Top.floor <= Len(vm.frames)
<1> DEFINE k == Ceil(ctl, vm.frames, 1)
<1>1. /\ Depth \in Nat \ {0} /\ ctl # <<>> /\ IsSeq(ctl) /\ Depth = Len(ctl)
      /\ 1 \in 1..Len(ctl)
  BY ShapedFacts DEF Depth
<1>2. /\ Top.floor \in Nat /\ Top.floor <= Len(vm.frames) /\ Len(vm.frames) \in Nat
      /\ vm.frames = <<>> <=> Len(vm.frames) = 0
  BY FootFacts
<1>3. Depth = 1 => k = Len(vm.frames) /\ Top = ctl[1]
  BY <1>1 DEF Ceil, Top
<1>4. ASSUME Depth > 1
      PROVE  k = ctl[2].floor /\ k <= Top.floor /\ 2 \in 1..Len(ctl)
  <2>1. 2 \in 1..Len(ctl) /\ 2 <= Depth /\ Depth \in 1..Len(ctl)
    BY <1>1, <1>4
  <2>2. ctl[2].floor <= ctl[Depth].floor
    BY <2>1 DEF Grounded, FloorsRise
  <2> QED
    BY <1>1, <1>4, <2>1, <2>2 DEF Ceil, Top
<1>5. Stands(ctl, vm.frames, g, P, 1)
  BY <1>1 DEF Grounded
<1>6. k \in Nat
  <2>1. CASE Depth = 1
    BY <1>2, <1>3, <2>1
  <2>2. CASE Depth > 1
    <3>1. Stands(ctl, vm.frames, g, P, 2)
      BY <1>4, <2>2 DEF Grounded
    <3>2. ctl[2].floor \in Nat
      BY <3>1 DEF Stands
    <3> QED
      BY <1>4, <2>2, <3>2
  <2> QED
    BY <1>1, <2>1, <2>2
<1>7. k <= Len(vm.frames)
  BY <1>5 DEF Stands
<1>8. IsSeq(vm.frames)
  BY DEF Shaped, VmShape
<1> HIDE DEF k
<1> QED
  BY <1>1, <1>2, <1>3, <1>4, <1>6, <1>7, <1>8 DEF k

LEMMA MainHere ==
  ASSUME Shaped, status # "halted", NEW g, NEW P, Grounded(g, P), NEW R, NEW Q, Quiet(R, Q)
  PROVE  /\ Depth > 1 /\ Ceil(ctl, vm.frames, 1) = 0 => ctl[1].pc \in R
         /\ Depth = 1 /\ vm.frames = <<>> /\ InCode =>
              Top.pc \in R /\ Ins = chunks[1].code[Top.pc + 1] /\ (Top.pc \in Q => ~app.throwing)
         /\ Depth = 1 /\ vm.frames = <<>> /\ ~InCode => ~app.throwing
<1> DEFINE k == Ceil(ctl, vm.frames, 1)
           code == chunks[1].code
<1>1. /\ k \in Nat /\ Depth = Len(ctl) /\ ctl # <<>>
      /\ vm.frames = <<>> <=> Len(vm.frames) = 0
      /\ Depth = 1 => k = Len(vm.frames) /\ Top = ctl[1]
  BY MainFacts
<1>2. /\ ctl[1].chunk = 1
      /\ k = 0 => ctl[1].pc \in R \/ (Len(ctl) = 1 /\ ctl[1].pc = -1)
  BY <1>1 DEF Quiet, StandsIn
<1>3. R \subseteq 0..(Len(code) - 1)
  BY DEF Quiet, Checked
<1>4. Resting(ctl, vm.frames, Q) => ~app.throwing
  BY DEF Quiet
<1> HIDE DEF k
<1>5. ASSUME Depth = 1, vm.frames = <<>>
      PROVE  /\ InCode => Top.pc \in R /\ Ins = chunks[1].code[Top.pc + 1]
                            /\ (Top.pc \in Q => ~app.throwing)
             /\ ~InCode => ~app.throwing
  <2>1. k = 0 /\ Top = ctl[1] /\ Chunk = chunks[1] /\ Ins = code[Top.pc + 1]
    BY <1>1, <1>2, <1>5 DEF Chunk, Ins
  <2>2. InCode <=> Top.pc \in 0..(Len(code) - 1)
    BY <2>1 DEF InCode
  <2>3. Top.pc \in Q \union {-1} => ~app.throwing
    BY <1>1, <1>4, <1>5, <2>1 DEF Resting
  <2>4. Top.pc \in R \/ Top.pc = -1
    BY <1>2, <2>1
  <2>5. ~(-1 \in 0..(Len(code) - 1))
    BY SMT
  <2>6. InCode => Top.pc \in R
    BY <2>2, <2>4, <2>5
  <2>7. ~InCode => Top.pc = -1
    BY <1>3, <2>2, <2>4
  <2> QED
    BY <2>1, <2>3, <2>6, <2>7
<1> QED
  BY <1>1, <1>2, <1>5 DEF k

\* What keeps the invariant while the machine runs.
LEMMA QuietKept ==
  ASSUME NEW R, NEW Q, Quiet(R, Q), ctl # <<>>, ctl' # <<>>,
         chunks'[1].code = chunks[1].code, ctl'[1].chunk = ctl[1].chunk,
         Ceil(ctl, vm.frames, 1) \in Nat,
         \/ /\ Ceil(ctl', vm'.frames, 1) = Ceil(ctl, vm.frames, 1)
            /\ Ceil(ctl, vm.frames, 1) > 0 => vm'.frames[1].pc = vm.frames[1].pc
         \/ /\ Ceil(ctl', vm'.frames, 1) > 0
            /\ \E p \in R : vm'.frames[1].pc = p + 1 /\ chunks[1].code[p + 1].op \in Callers
         \/ Ceil(ctl', vm'.frames, 1) = 0,
         Ceil(ctl', vm'.frames, 1) = 0 => ctl'[1].pc \in R \/ (Len(ctl') = 1 /\ ctl'[1].pc = -1),
         Resting(ctl', vm'.frames, Q) => ~app'.throwing
  PROVE  Quiet(R, Q)'
<1> DEFINE k == Ceil(ctl, vm.frames, 1)
           j == Ceil(ctl', vm'.frames, 1)
           code == chunks[1].code
           p1 == vm.frames[1].pc
           q1 == vm'.frames[1].pc
           Called(x) == \E p \in R : x = p + 1 /\ code[p + 1].op \in Callers
<1>1. ctl[1].chunk = 1 /\ (k > 0 => Called(p1))
  BY DEF Quiet, StandsIn
<1>2. j > 0 => Called(q1)
  <2>1. CASE j = k /\ (k > 0 => q1 = p1)
    BY <1>1, <2>1
  <2>2. CASE Called(q1)
    BY <2>2
  <2>3. CASE j = 0
    BY <2>3
  <2> QED
    BY <2>1, <2>2, <2>3
<1>3. StandsIn(ctl', vm'.frames, chunks'[1].code, R)
  BY <1>1, <1>2 DEF StandsIn
<1>4. Checked(chunks'[1].code, R, Q)
  BY DEF Quiet
<1> QED
  BY <1>3, <1>4 DEF Quiet

\* The machine goes on elsewhere in the same activation.
LEMMA MainGoes ==
  ASSUME Shaped, status # "halted", NEW g, NEW P, Grounded(g, P), NEW Q, NEW pc, Goto(pc)
  PROVE  /\ Len(ctl') = Len(ctl) /\ ctl' # <<>> /\ ctl'[1].chunk = ctl[1].chunk
         /\ Depth = 1 => ctl'[1].pc = pc /\ Ceil(ctl', vm'.frames, 1) = Len(vm'.frames)
         /\ Depth > 1 => /\ ctl'[1].pc = ctl[1].pc
                         /\ Ceil(ctl', vm'.frames, 1) = Ceil(ctl, vm.frames, 1)
                         /\ ~Resting(ctl', vm'.frames, Q)
<1>1. PICK x : /\ ctl' = Altered(ctl, Depth, x) /\ x.pc = pc /\ x.chunk = Top.chunk
               /\ x.floor = Top.floor
  BY GotoAlters
<1>2. /\ IsSeq(ctl) /\ Depth = Len(ctl) /\ Depth \in Nat \ {0} /\ 1 \in 1..Len(ctl)
      /\ Depth > 1 => 2 \in 1..Len(ctl)
  BY MainFacts
<1>3. /\ IsSeq(ctl') /\ Len(ctl') = Len(ctl)
      /\ \A i \in 1..Len(ctl) : ctl'[i] = IF i = Depth THEN x ELSE ctl[i]
  BY <1>1, <1>2, AlteredSeq
<1>4. ctl' # <<>>
  BY <1>2, <1>3, EmptyIsSeq
<1>5. Depth = 1 => Top = ctl[1] /\ ctl'[1] = x
  BY <1>2, <1>3 DEF Top
<1>6. Depth > 1 => ctl'[1] = ctl[1] /\ ctl'[2].floor = ctl[2].floor
  BY <1>1, <1>2, <1>3 DEF Top
<1>7. Depth = 1 => Ceil(ctl', vm'.frames, 1) = Len(vm'.frames)
  BY <1>2, <1>3 DEF Ceil
<1>8. Depth > 1 => Ceil(ctl', vm'.frames, 1) = Ceil(ctl, vm.frames, 1)
  BY <1>2, <1>3, <1>6 DEF Ceil
<1>9. Depth > 1 => ~Resting(ctl', vm'.frames, Q)
  BY <1>2, <1>3 DEF Resting
<1> QED
  BY <1>1, <1>2, <1>3, <1>4, <1>5, <1>6, <1>7, <1>8, <1>9

LEMMA QuietInPlace ==
  ASSUME Shaped, Assembled, EvaluatorKeeps, NEW g, NEW P, Grounded(g, P), NEW R, NEW Q, Quiet(R, Q),
         VmNext, InPlace
  PROVE  Quiet(R, Q)'
<1> DEFINE k == Ceil(ctl, vm.frames, 1)
           code == chunks[1].code
<1>1. /\ status = "running" /\ status # "halted" /\ InCode /\ Ready
      /\ vm'.frames = vm.frames /\ ChunksKept
  BY ShapedFacts DEF InPlace, Touches
<1>2. PICK pc \in Successors(Ins, Top.pc) : Goto(pc)
  BY DEF InPlace
<1>3. /\ k \in Nat /\ Depth = Len(ctl) /\ ctl # <<>> /\ Depth \in Nat \ {0}
      /\ vm.frames = <<>> <=> Len(vm.frames) = 0
      /\ Depth = 1 => k = Len(vm.frames) /\ Top = ctl[1]
  BY <1>1, MainFacts
<1>4. /\ Len(ctl') = Len(ctl) /\ ctl' # <<>> /\ ctl'[1].chunk = ctl[1].chunk
      /\ Depth = 1 => ctl'[1].pc = pc /\ Ceil(ctl', vm'.frames, 1) = Len(vm'.frames)
      /\ Depth > 1 => /\ ctl'[1].pc = ctl[1].pc
                      /\ Ceil(ctl', vm'.frames, 1) = Ceil(ctl, vm.frames, 1)
                      /\ ~Resting(ctl', vm'.frames, Q)
  BY <1>1, <1>2, MainGoes
<1>5. chunks'[1].code = code
  BY <1>1, ShapedFacts DEF ChunksKept, SameCode
<1>6. Ceil(ctl', vm'.frames, 1) = k
  BY <1>1, <1>3, <1>4
<1> HIDE DEF k, code
<1>7. ASSUME Depth = 1, vm.frames = <<>>
      PROVE  pc \in R /\ (pc \in Q => ~app'.throwing)
  <2>1. Top.pc \in R /\ Ins = code[Top.pc + 1] /\ (Top.pc \in Q => ~app.throwing)
    BY <1>1, <1>7, MainHere DEF code
  <2>2. Checked(code, R, Q)
    BY DEF Quiet, code
  <2>3. /\ pc \in R
        /\ pc \in Q => \/ Ins.op = "CHECK_UNCAUGHT_THROW"
                       \/ Ins.op = "CHECK_THROW" /\ pc # Ins.a
                       \/ Top.pc \in Q /\ ~MayThrow(Ins)
    BY <1>2, <2>1, <2>2 DEF Checked
  <2>4. Ins.op = "CHECK_UNCAUGHT_THROW" \/ Ins.op = "CHECK_THROW" => ~MayThrow(Ins)
    BY DEF MayThrow, Callers, SnippetOps, Templates
  <2>5. ~MayThrow(Ins) => /\ app'.throwing => app.throwing
                          /\ Ins.op = "CHECK_UNCAUGHT_THROW" => ~app'.throwing
                          /\ Ins.op = "CHECK_THROW" /\ app.throwing => Goto(Ins.a)
    BY <1>1, ThrowsOnlyThere
  <2>6. Goto(Ins.a) => pc = Ins.a
    <3> SUFFICES ASSUME Goto(Ins.a) PROVE pc = Ins.a
      OBVIOUS
    <3>1. PICK a : a = Ins.a
      OBVIOUS
    <3>2. Goto(a)
      BY <3>1
    <3>3. ctl'[1].pc = a
      BY <3>2, <1>1, <1>7, MainGoes
    <3> QED
      BY <3>1, <3>3, <1>4, <1>7
  <2> QED
    BY <2>1, <2>3, <2>4, <2>5, <2>6
<1>8. k = 0 => ctl'[1].pc \in R
  <2>1. CASE Depth = 1
    BY <2>1, <1>3, <1>4, <1>7
  <2>2. CASE Depth > 1
    BY <2>2, <1>1, <1>4, MainHere DEF k
  <2> QED
    BY <1>3, <2>1, <2>2
<1>9. Resting(ctl', vm'.frames, Q) => ~app'.throwing
  <2> SUFFICES ASSUME Resting(ctl', vm'.frames, Q) PROVE ~app'.throwing
    OBVIOUS
  <2>1. Depth = 1
    BY <1>3, <1>4
  <2>2. vm.frames = <<>> /\ pc \in Q \union {-1}
    BY <1>1, <1>3, <1>4, <2>1 DEF Resting
  <2>3. -1 \notin R
    BY DEF Quiet, Checked
  <2> QED
    BY <1>7, <2>1, <2>2, <2>3
<1> QED
  BY <1>1, <1>3, <1>4, <1>5, <1>6, <1>8, <1>9, QuietKept DEF k, code

LEMMA QuietEntered ==
  ASSUME Shaped, Shaped', NEW g, NEW P, Grounded(g, P), NEW R, NEW Q, Quiet(R, Q), Entered
  PROVE  Quiet(R, Q)'
<1> DEFINE k == Ceil(ctl, vm.frames, 1)
           code == chunks[1].code
           f == vm.frames
           h == vm'.frames
<1>1. /\ status = "running" /\ status # "halted" /\ InCode /\ UNCHANGED <<app, chunks, status>>
      /\ Ins.op \in Callers
  BY DEF Entered, Callers
<1>2. PICK pc : Goto(pc)
  BY DEF Entered
<1>3. /\ k \in Nat /\ Depth = Len(ctl) /\ ctl # <<>> /\ Depth \in Nat \ {0} /\ k <= Len(f)
      /\ f = <<>> <=> Len(f) = 0
      /\ IsSeq(f) /\ Len(f) \in Nat
      /\ Depth = 1 => k = Len(f) /\ Top = ctl[1]
  BY <1>1, MainFacts
<1>4. /\ Len(ctl') = Len(ctl) /\ ctl' # <<>> /\ ctl'[1].chunk = ctl[1].chunk
      /\ Depth = 1 => ctl'[1].pc = pc /\ Ceil(ctl', h, 1) = Len(h)
      /\ Depth > 1 => /\ ctl'[1].pc = ctl[1].pc
                      /\ Ceil(ctl', h, 1) = Ceil(ctl, f, 1)
                      /\ ~Resting(ctl', h, Q)
  BY <1>1, <1>2, MainGoes
<1>5. PICK x : x.pc = Top.pc + 1 /\ h = Append(f, x)
  BY DEF Entered
<1>6. /\ IsSeq(h) /\ Len(h) = Len(f) + 1 /\ h[Len(f) + 1] = x /\ \A i \in 1..Len(f) : h[i] = f[i]
  BY <1>3, <1>5, AppendSeq
<1>7. ~Resting(ctl', h, Q)
  BY <1>3, <1>6 DEF Resting
<1>8. chunks'[1].code = code
  BY <1>1
<1>9. Ceil(ctl', h, 1) = 0 => ctl'[1].pc \in R
  <2> SUFFICES ASSUME Ceil(ctl', h, 1) = 0 PROVE ctl'[1].pc \in R
    OBVIOUS
  <2>1. Depth > 1 /\ k = 0
    BY <1>3, <1>4, <1>6
  <2> QED
    BY <1>1, <1>4, <2>1, MainHere
<1>10. \/ Ceil(ctl', h, 1) = k /\ (k > 0 => h[1].pc = f[1].pc)
       \/ /\ Ceil(ctl', h, 1) > 0
          /\ \E p \in R : h[1].pc = p + 1 /\ code[p + 1].op \in Callers
  <2>1. CASE Depth > 1
    BY <2>1, <1>3, <1>4, <1>6
  <2>2. CASE Depth = 1 /\ f = <<>>
    <3>1. Top.pc \in R /\ Ins = code[Top.pc + 1]
      BY <1>1, <2>2, MainHere
    <3>2. h[1].pc = Top.pc + 1
      BY <1>3, <1>5, <1>6, <2>2
    <3>3. Ceil(ctl', h, 1) > 0
      BY <1>3, <1>4, <1>6, <2>2
    <3> QED
      BY <1>1, <3>1, <3>2, <3>3
  <2>3. CASE Depth = 1 /\ f # <<>>
    <3>1. k > 0 /\ 1 \in 1..Len(f)
      BY <1>3, <2>3
    <3>2. \E p \in R : f[1].pc = p + 1 /\ code[p + 1].op \in Callers
      BY <1>3, <3>1 DEF Quiet, StandsIn
    <3>3. h[1] = f[1] /\ Ceil(ctl', h, 1) > 0
      BY <1>3, <1>4, <1>6, <2>3, <3>1
    <3> QED
      BY <3>2, <3>3
  <2> QED
    BY <1>3, <2>1, <2>2, <2>3
<1> HIDE DEF code
<1> QED
  BY <1>3, <1>4, <1>7, <1>8, <1>9, <1>10, QuietKept DEF code

LEMMA QuietReturned ==
  ASSUME Shaped, NEW g, NEW P, Grounded(g, P), Live, Unhindered, NEW R, NEW Q, Quiet(R, Q), Returned
  PROVE  Quiet(R, Q)'
<1> DEFINE k == Ceil(ctl, vm.frames, 1)
           code == chunks[1].code
           f == vm.frames
           h == vm'.frames
           n == Len(f)
<1>1. /\ status = "running" /\ status # "halted" /\ UNCHANGED <<app, chunks, status>>
      /\ f # <<>> /\ h = Front(f) /\ Goto(f[n].pc)
  BY DEF Returned
<1>2. PICK pc : pc = f[n].pc
  OBVIOUS
<1>3. Goto(pc)
  BY <1>1, <1>2
<1>4. /\ k \in Nat /\ Depth = Len(ctl) /\ ctl # <<>> /\ Depth \in Nat \ {0} /\ k <= n
      /\ IsSeq(f) /\ n \in Nat /\ (f = <<>> <=> n = 0)
      /\ Depth = 1 => k = n /\ Top = ctl[1]
      /\ Depth > 1 => k <= Top.floor /\ Top.floor \in Nat
  BY <1>1, MainFacts
<1>5. /\ Len(ctl') = Len(ctl) /\ ctl' # <<>> /\ ctl'[1].chunk = ctl[1].chunk
      /\ Depth = 1 => ctl'[1].pc = pc /\ Ceil(ctl', h, 1) = Len(h)
      /\ Depth > 1 => /\ ctl'[1].pc = ctl[1].pc
                      /\ Ceil(ctl', h, 1) = Ceil(ctl, f, 1)
                      /\ ~Resting(ctl', h, Q)
  BY <1>1, <1>3, MainGoes
<1>6. /\ Len(h) = n - 1 /\ \A i \in 1..(n - 1) : h[i] = f[i]
  BY <1>1, <1>4, FrontSeq
<1>7. chunks'[1].code = code
  BY <1>1
<1>8. CASE Depth > 1
  <2>1. n > Top.floor
    <3>1. Fetch({"OUTPUT", "STOP"})
      BY DEF Returned, Fetch
    <3> QED
      BY <3>1, <1>8 DEF Unhindered
  <2>2. k <= n - 1
    BY <1>4, <1>8, <2>1
  <2>3. k > 0 => h[1].pc = f[1].pc
    BY <1>4, <1>6, <2>2
  <2>4. k = 0 => ctl'[1].pc \in R
    BY <1>1, <1>5, <1>8, MainHere
  <2> HIDE DEF code
  <2> QED
    BY <1>4, <1>5, <1>7, <1>8, <2>3, <2>4, QuietKept DEF code
<1>9. CASE Depth = 1
  <2>1. k > 0 /\ 1 \in 1..n
    BY <1>1, <1>4, <1>9
  <2>2. PICK p \in R : f[1].pc = p + 1 /\ code[p + 1].op \in Callers
    BY <1>4, <2>1 DEF Quiet, StandsIn
  <2>3. CASE n = 1
    <3>1. pc = p + 1 /\ Ceil(ctl', h, 1) = 0
      BY <1>2, <1>4, <1>5, <1>6, <1>9, <2>2, <2>3
    <3>2. MayThrow(code[p + 1]) /\ code[p + 1].op # "CALL_BUILTIN" /\ Checked(code, R, Q)
      BY <2>2 DEF MayThrow, Callers, Quiet
    <3> HIDE DEF code
    <3>3. p + 1 \in R /\ p + 1 \notin Q \union {-1}
      BY <3>2, ThrowsLeaveQ
    <3>4. ctl'[1].pc \in R /\ ~Resting(ctl', h, Q)
      BY <1>5, <1>9, <3>1, <3>3 DEF Resting
    <3> QED
      BY <1>4, <1>5, <1>7, <3>1, <3>4, QuietKept DEF code
  <2>4. CASE n > 1
    <3>1. Ceil(ctl', h, 1) > 0 /\ h[1].pc = f[1].pc /\ Len(h) > 0
      BY <1>4, <1>5, <1>6, <1>9, <2>4
    <3>2. ~Resting(ctl', h, Q)
      BY <3>1 DEF Resting
    <3>3. Ceil(ctl', h, 1) # 0
      BY <1>4, <1>5, <1>6, <1>9, <2>4
    <3> HIDE DEF code
    <3> QED
      BY <1>4, <1>5, <1>7, <2>2, <3>1, <3>2, <3>3, QuietKept DEF code
  <2>5. n = 1 \/ n > 1
    <3>1. n \in Nat /\ n # 0
      BY <1>1, <1>4
    <3> HIDE DEF n
    <3> QED
      BY <3>1
  <2> QED
    BY <2>3, <2>4, <2>5, Zenon
<1> QED
  BY <1>4, <1>8, <1>9

LEMMA QuietStopped ==
  ASSUME Shaped, NEW g, NEW P, Grounded(g, P), Live, Unhindered, NEW R, NEW Q, Quiet(R, Q), Stopped
  PROVE  Quiet(R, Q)'
<1> DEFINE k == Ceil(ctl, vm.frames, 1)
           code == chunks[1].code
<1>1. /\ status = "running" /\ status # "halted" /\ InCode /\ UNCHANGED <<app, chunks, status>>
      /\ vm.frames = <<>> /\ vm'.frames = vm.frames /\ Goto(-1) /\ Ins.op \in {"OUTPUT", "STOP"}
  BY DEF Stopped
<1>2. /\ k \in Nat /\ Depth = Len(ctl) /\ ctl # <<>> /\ Depth \in Nat \ {0}
      /\ Len(vm.frames) = 0
      /\ Depth = 1 => k = 0
      /\ Top.floor \in Nat
  BY <1>1, MainFacts
<1>3. Depth = 1
  <2>1. Fetch({"OUTPUT", "STOP"})
    BY <1>1 DEF Fetch
  <2>2. Depth = 1 \/ Len(vm.frames) > Top.floor
    BY <2>1 DEF Unhindered
  <2> QED
    BY <1>2, <2>2
<1>4. PICK pc : pc = -1
  OBVIOUS
<1>5. /\ Len(ctl') = Len(ctl) /\ ctl' # <<>> /\ ctl'[1].chunk = ctl[1].chunk
      /\ ctl'[1].pc = pc /\ Ceil(ctl', vm'.frames, 1) = Len(vm'.frames)
  BY <1>1, <1>3, <1>4, MainGoes
<1>6. ~app'.throwing
  <2>1. Top.pc \in R /\ Ins = code[Top.pc + 1] /\ (Top.pc \in Q => ~app.throwing)
    BY <1>1, <1>3, MainHere
  <2>2. Top.pc \in Q
    BY <1>1, <2>1 DEF Quiet, Checked
  <2> QED
    BY <1>1, <2>1, <2>2
<1>7. chunks'[1].code = code
  BY <1>1
<1> HIDE DEF code
<1> QED
  BY <1>1, <1>2, <1>3, <1>4, <1>5, <1>6, <1>7, QuietKept DEF code

LEMMA QuietAgain ==
  ASSUME Shaped, NEW g, NEW P, Grounded(g, P), NEW R, NEW Q, Quiet(R, Q), Again
  PROVE  Quiet(R, Q)'
<1> DEFINE k == Ceil(ctl, vm.frames, 1)
           code == chunks[1].code
<1>1. /\ status # "halted" /\ UNCHANGED chunks /\ vm'.frames = vm.frames /\ Top.who \in LoopOps
  BY DEF Again, Returns
<1>2. /\ k \in Nat /\ Depth = Len(ctl) /\ ctl # <<>> /\ Depth \in Nat \ {0} /\ IsSeq(ctl)
      /\ Depth > 1 => 2 \in 1..Len(ctl)
      /\ 1 \in 1..Len(ctl)
  BY <1>1, MainFacts
<1>3. Depth > 1
  <2>1. Top.who # "main"
    BY <1>1 DEF LoopOps
  <2> QED
    BY <1>1, <1>2, <2>1, ShapedFacts
<1>4. PICK x : ctl' = Altered(ctl, Depth, x) /\ x.chunk = Top.chunk /\ x.floor = Top.floor
  BY DEF Again, Altered
<1>5. /\ IsSeq(ctl') /\ Len(ctl') = Len(ctl)
      /\ \A i \in 1..Len(ctl) : ctl'[i] = IF i = Depth THEN x ELSE ctl[i]
  BY <1>2, <1>4, AlteredSeq
<1>6. ctl'[1] = ctl[1] /\ ctl'[2].floor = ctl[2].floor /\ Len(ctl') # 1
  BY <1>2, <1>3, <1>4, <1>5 DEF Top
<1>7. Ceil(ctl', vm'.frames, 1) = k /\ ctl' # <<>> /\ ~Resting(ctl', vm'.frames, Q)
  BY <1>1, <1>2, <1>3, <1>5, <1>6, EmptyIsSeq DEF Ceil, Resting
<1>8. k = 0 => ctl'[1].pc \in R
  BY <1>1, <1>3, <1>6, MainHere
<1>9. chunks'[1].code = code
  BY <1>1
<1> HIDE DEF code
<1> QED
  BY <1>1, <1>2, <1>6, <1>7, <1>8, <1>9, QuietKept DEF code

LEMMA QuietBegan ==
  ASSUME Shaped, NEW g, NEW P, Grounded(g, P), NEW R, NEW Q, Quiet(R, Q), Began
  PROVE  Quiet(R, Q)'
<1> DEFINE k == Ceil(ctl, vm.frames, 1)
           code == chunks[1].code
<1>1. /\ status = "running" /\ status # "halted" /\ InCode /\ vm'.frames = vm.frames
  BY DEF Began
<1>2. PICK a : /\ ctl' = Append(ctl, a) /\ a.floor = Len(vm.frames)
               /\ (\E c : chunks' = Append(chunks, c)) \/ UNCHANGED chunks
  BY DEF Began
<1>3. /\ k \in Nat /\ Depth = Len(ctl) /\ ctl # <<>> /\ Depth \in Nat \ {0} /\ IsSeq(ctl)
      /\ Depth = 1 => k = Len(vm.frames) /\ Top = ctl[1]
      /\ Depth > 1 => k = ctl[2].floor /\ 2 \in 1..Len(ctl)
      /\ 1 \in 1..Len(ctl)
      /\ vm.frames = <<>> <=> Len(vm.frames) = 0
  BY <1>1, MainFacts
<1>4. /\ IsSeq(ctl') /\ Len(ctl') = Len(ctl) + 1 /\ ctl'[Len(ctl) + 1] = a
      /\ \A i \in 1..Len(ctl) : ctl'[i] = ctl[i]
  BY <1>2, <1>3, AppendSeq
<1>5. ctl'[1] = ctl[1] /\ ctl'[2].floor = k /\ Len(ctl') > 1
  <2>1. CASE Depth = 1
    BY <1>2, <1>3, <1>4, <2>1
  <2>2. CASE Depth > 1
    BY <1>3, <1>4, <2>2
  <2> QED
    BY <1>3, <2>1, <2>2
<1>6. Ceil(ctl', vm'.frames, 1) = k /\ ctl' # <<>> /\ ~Resting(ctl', vm'.frames, Q)
  <2>1. 1 # Len(ctl') /\ 1 + 1 = 2
    BY <1>3, <1>4
  <2> QED
    BY <1>4, <1>5, <2>1, EmptyIsSeq DEF Ceil, Resting
<1>7. k = 0 => ctl'[1].pc \in R
  <2>1. CASE Depth = 1
    BY <1>1, <1>3, <1>5, <2>1, MainHere
  <2>2. CASE Depth > 1
    BY <1>1, <1>5, <2>2, MainHere
  <2> QED
    BY <1>3, <2>1, <2>2
<1>8. chunks'[1].code = code
  <2>1. IsSeq(chunks) /\ 1 \in 1..Len(chunks)
    BY <1>1, ShapedFacts DEF Shaped
  <2>2. CASE UNCHANGED chunks
    BY <2>2
  <2>3. ASSUME NEW c, chunks' = Append(chunks, c) PROVE chunks'[1] = chunks[1]
    BY <2>1, <2>3, AppendSeq
  <2> QED
    BY <1>2, <2>2, <2>3
<1> HIDE DEF code
<1> QED
  BY <1>1, <1>3, <1>5, <1>6, <1>7, <1>8, QuietKept DEF code

LEMMA BeginnersThrow ==
  ASSUME NEW who \in SnippetOps \union LoopOps, NEW i, i.op \in Beginner(who)
  PROVE  MayThrow(i) /\ i.op # "CALL_BUILTIN"
BY DEF Beginner, MayThrow, SnippetOps, Templates

LEMMA QuietEnded ==
  ASSUME Shaped, Shaped', Assembled, NEW g, NEW P, Grounded(g, P), Live, Ordinary,
         NEW R, NEW Q, Quiet(R, Q), Ended
  PROVE  Quiet(R, Q)'
<1> DEFINE k == Ceil(ctl, vm.frames, 1)
           code == chunks[1].code
           D == Depth
<1>1. /\ Returns /\ status # "halted" /\ status' # "halted" /\ vm'.frames = vm.frames
      /\ Resumed /\ Top.who \in SnippetOps \union LoopOps
      /\ chunks' = Front(chunks) \/ UNCHANGED chunks
  BY DEF Ended, Returns
<1>2. D > 1
  BY ShapedEnded
<1>3. /\ k \in Nat /\ D = Len(ctl) /\ ctl # <<>> /\ D \in Nat \ {0} /\ IsSeq(ctl)
      /\ k = ctl[2].floor /\ 2 \in 1..Len(ctl) /\ 1 \in 1..Len(ctl)
      /\ Len(vm.frames) \in Nat
  BY <1>1, <1>2, MainFacts
<1>4. Len(vm.frames) = Top.floor
  BY <1>1, <1>2, ReturnsOnGround
<1>5. PICK x : /\ ctl' = Altered(Front(ctl), D - 1, x)
               /\ x.pc = ctl[D - 1].pc + 1 /\ x.chunk = ctl[D - 1].chunk
               /\ x.floor = ctl[D - 1].floor
  BY <1>1, <1>2, ResumedAlters
<1>6. /\ IsSeq(ctl') /\ Len(ctl') = D - 1
      /\ \A i \in 1..(D - 1) : ctl'[i] = IF i = D - 1 THEN x ELSE ctl[i]
  <2>1. /\ IsSeq(Front(ctl)) /\ Len(Front(ctl)) = D - 1
        /\ \A i \in 1..(D - 1) : Front(ctl)[i] = ctl[i]
    BY <1>3, FrontSeq
  <2> QED
    BY <1>5, <2>1, AlteredSeq
<1>7. ctl' # <<>> /\ ctl'[1].chunk = ctl[1].chunk
  <2>1. ctl' # <<>>
    BY <1>2, <1>3, <1>6, EmptyIsSeq
  <2>2. ctl'[1].chunk = ctl[1].chunk
    BY <1>2, <1>3, <1>5, <1>6
  <2> QED
    BY <2>1, <2>2
<1>8. chunks'[1].code = code
  <2>1. CASE UNCHANGED chunks
    BY <2>1
  <2>2. CASE chunks' = Front(chunks)
    <3>1. IsSeq(chunks) /\ chunks # <<>> /\ Len(chunks) \in Nat
      BY <1>1, ShapedFacts, EmptyIsSeq DEF Shaped
    <3>2. Len(chunks') = Len(chunks) - 1 /\ \A i \in 1..(Len(chunks) - 1) : chunks'[i] = chunks[i]
      BY <2>2, <3>1, FrontSeq
    <3>3. ctl'[1].chunk \in 1..Len(chunks')
      <4>1. CtlShape(ctl', Len(chunks')) /\ 1 \in 1..Len(ctl')
        BY <1>2, <1>3, <1>6 DEF Shaped
      <4> QED
        BY <4>1 DEF CtlShape
    <3> QED
      BY <3>1, <3>2, <3>3
  <2> QED
    BY <1>1, <2>1, <2>2
<1>9. CASE D = 2
  <2>1. /\ Ceil(ctl', vm'.frames, 1) = k /\ ctl'[1].pc = ctl[1].pc + 1
    <3>1. Top = ctl[2] /\ Len(ctl') = 1
      BY <1>3, <1>6, <1>9 DEF Top
    <3>2. Ceil(ctl', vm'.frames, 1) = Len(vm.frames)
      BY <1>1, <3>1 DEF Ceil
    <3>3. ctl'[1].pc = ctl[1].pc + 1
      BY <1>5, <1>6, <1>9
    <3> QED
      BY <1>3, <1>4, <3>1, <3>2, <3>3
  <2>2. ASSUME k = 0 PROVE ctl'[1].pc \in R /\ ctl'[1].pc \notin Q \union {-1}
    <3>1. ctl[1].pc \in R /\ ctl[1].chunk = 1 /\ Checked(code, R, Q)
      BY <1>1, <1>2, <1>3, <2>2, MainHere DEF Quiet, StandsIn
    <3>2. PICK pc \in R : pc = ctl[1].pc
      BY <3>1
    <3>3. code[pc + 1].op \in Beginner(Top.who)
      <4>1. WaitsAt(ctl, chunks, 1)
        BY <1>3, <1>9 DEF Grounded
      <4>2. Top = ctl[1 + 1]
        BY <1>3, <1>9 DEF Top
      <4> QED
        BY <3>1, <3>2, <4>1, <4>2 DEF WaitsAt
    <3>4. MayThrow(code[pc + 1]) /\ code[pc + 1].op # "CALL_BUILTIN"
      BY <1>1, <3>3, BeginnersThrow
    <3> HIDE DEF code
    <3>5. pc + 1 \in R /\ pc + 1 \notin Q \union {-1}
      BY <3>1, <3>4, ThrowsLeaveQ
    <3> QED
      BY <2>1, <3>2, <3>5
  <2>3. ~Resting(ctl', vm'.frames, Q)
    <3> SUFFICES ASSUME Resting(ctl', vm'.frames, Q) PROVE FALSE
      OBVIOUS
    <3>1. Len(vm.frames) = 0 /\ ctl'[1].pc \in Q \union {-1} /\ Len(ctl') = 1
      BY <1>1 DEF Resting
    <3>2. k = 0
      BY <1>1, <2>1, <3>1 DEF Ceil
    <3> QED
      BY <2>2, <3>1, <3>2
  <2> HIDE DEF code
  <2> QED
    BY <1>1, <1>3, <1>7, <1>8, <2>1, <2>2, <2>3, QuietKept DEF code
<1>10. CASE D > 2
  <2>1. ctl'[1] = ctl[1] /\ ctl'[2].floor = ctl[2].floor /\ Len(ctl') # 1
    BY <1>3, <1>5, <1>6, <1>10
  <2>2. Ceil(ctl', vm'.frames, 1) = k /\ ~Resting(ctl', vm'.frames, Q)
    BY <1>3, <2>1 DEF Ceil, Resting
  <2>3. k = 0 => ctl'[1].pc \in R
    BY <1>1, <1>2, <2>1, MainHere
  <2> HIDE DEF code
  <2> QED
    BY <1>1, <1>3, <1>7, <1>8, <2>2, <2>3, QuietKept DEF code
<1> QED
  BY <1>2, <1>3, <1>9, <1>10

LEMMA QuietEndRun ==
  ASSUME Shaped, Assembled, NEW g, NEW P, Grounded(g, P), Live, Ordinary,
         NEW R, NEW Q, Quiet(R, Q), EndRun
  PROVE  Quiet(R, Q)'
<1>1. /\ Returns /\ status # "halted" /\ ctl' = <<>> /\ UNCHANGED <<app, vm, chunks>>
      /\ Top.who = "main"
  BY DEF EndRun, Returns
<1>2. vm.frames = <<>>
  <2>1. Grounded(<<>>, P)'
    BY GroundedEndRun
  <2> QED
    BY <1>1, <2>1 DEF Grounded
<1>3. Depth = 1 /\ Top = ctl[1] /\ ctl # <<>> /\ Len(chunks) = 1
  <2>1. Depth = 1 /\ Top.chunk = Len(chunks)
    BY <1>1, ShapedFacts
  <2>2. Top = ctl[1] /\ ctl # <<>>
    BY <1>1, <2>1, MainFacts
  <2> QED
    BY <2>1, <2>2 DEF Quiet, StandsIn
<1>4. ~app.throwing
  <2>1. CASE InCode
    <3>1. Top.pc \in R /\ Ins = chunks[1].code[Top.pc + 1] /\ (Top.pc \in Q => ~app.throwing)
      BY <1>1, <1>2, <1>3, <2>1, MainHere
    <3>2. Ins.op = "HALT"
      BY <1>1, <2>1 DEF Returns
    <3> QED
      BY <3>1, <3>2 DEF Quiet, Checked
  <2>2. CASE ~InCode
    BY <1>1, <1>2, <1>3, <2>2, MainHere
  <2> QED
    BY <2>1, <2>2
<1>5. ~Resting(ctl', vm'.frames, Q)
  BY <1>1, EmptyIsSeq DEF Resting
<1>6. Checked(chunks'[1].code, R, Q)
  BY <1>1 DEF Quiet
<1> QED
  BY <1>1, <1>2, <1>3, <1>4, <1>5, <1>6 DEF Quiet

\* The main program's code checks for a THROW wherever one can arrive.
MainChecks ==
  Translate("main", script.text) # <<>> =>
    LET c == Translate("main", script.text)[1]
    IN  \E R, Q : c.start \in Q /\ Checked(c.code, R, Q)

\* The inductive invariant.
Orderly ==
  /\ Live => \E R, Q : Quiet(R, Q)
  /\ ~Live => EndsClean

LEMMA OrderlyInit ==
  ASSUME Init, MainChecks
  PROVE  Orderly
<1> DEFINE program == Translate("main", script.text)
           c == IF program = <<>> THEN NoChunk ELSE program[1]
           a == Activation("main", 1, c.start)
<1>1. StartVm(c) /\ exit = IF program = <<>> THEN "rejected" ELSE ""
  BY DEF Init, Load
<1>2. /\ app = NewApp /\ vm = FreshVm /\ ctl = <<a>> /\ chunks = <<c>>
  BY <1>1 DEF StartVm
<1>3. a.chunk = 1 /\ a.pc = c.start
  BY DEF Activation
<1>4. ~app.throwing /\ vm.frames = <<>>
  BY <1>2 DEF NewApp, FreshVm
<1>5. CASE program = <<>>
  <2>1. ~Live
    BY <1>1, <1>5 DEF Live
  <2>2. exit # "done"
    BY <1>1, <1>5
  <2> QED
    BY <2>1, <2>2 DEF Orderly, EndsClean
<1>6. CASE program # <<>>
  <2>1. PICK R, Q : c.start \in Q /\ Checked(c.code, R, Q)
    BY <1>6 DEF MainChecks
  <2> HIDE DEF a, c
  <2>2. Len(chunks) = 1 /\ chunks[1] = c /\ Len(ctl) = 1 /\ ctl[1] = a /\ ctl # <<>>
    <3>1. <<c>> \in Seq({c}) /\ <<a>> \in Seq({a})
      OBVIOUS
    <3> QED
      BY <3>1, <1>2, AnySeq, EmptyIsSeq
  <2>3. Len(vm.frames) = 0
    BY <1>4, EmptyIsSeq
  <2>4. Ceil(ctl, vm.frames, 1) = 0
    BY <2>2, <2>3 DEF Ceil
  <2>5. c.start \in R
    BY <2>1 DEF Checked
  <2>6. StandsIn(ctl, vm.frames, chunks[1].code, R)
    BY <1>3, <2>2, <2>4, <2>5 DEF StandsIn
  <2>7. Quiet(R, Q)
    BY <1>4, <2>1, <2>2, <2>6 DEF Quiet
  <2>8. Live
    BY <1>1, <1>6 DEF Live
  <2> QED
    BY <2>7, <2>8 DEF Orderly
<1> QED
  BY <1>5, <1>6

LEMMA OrderlyRuns ==
  ASSUME Shaped, Shaped', Assembled, EvaluatorKeeps, Ordinary, Tracked, Orderly, RunVm
  PROVE  Orderly'
<1>1. VmNext /\ Live /\ Live'
  BY DEF RunVm, Live
<1>2. PICK R, Q : Quiet(R, Q)
  BY <1>1 DEF Orderly
<1>3. PICK g, P : Grounded(g, P)
  BY <1>1 DEF Tracked
<1>4. Unhindered
  BY DEF Ordinary
<1>5. Quiet(R, Q)'
  <2>1. CASE InPlace
    BY <1>1, <1>2, <1>3, <2>1, QuietInPlace
  <2>2. CASE Entered
    BY <1>2, <1>3, <2>2, QuietEntered
  <2>3. CASE Returned
    BY <1>1, <1>2, <1>3, <1>4, <2>3, QuietReturned
  <2>4. CASE Stopped
    BY <1>1, <1>2, <1>3, <1>4, <2>4, QuietStopped
  <2>5. CASE Began
    BY <1>2, <1>3, <2>5, QuietBegan
  <2>6. CASE Ended
    BY <1>1, <1>2, <1>3, <2>6, QuietEnded
  <2>7. CASE Again
    BY <1>2, <1>3, <2>7, QuietAgain
  <2>8. CASE EndRun
    BY <1>1, <1>2, <1>3, <2>8, QuietEndRun
  <2> QED
    BY <1>1, <2>1, <2>2, <2>3, <2>4, <2>5, <2>6, <2>7, <2>8, NextKinds
<1> QED
  BY <1>1, <1>5 DEF Orderly

LEMMA OrderlyNext ==
  ASSUME Shaped, Shaped', Assembled, EvaluatorKeeps, Ordinary, Tracked, Orderly, Next
  PROVE  Orderly'
<1>1. CASE RunVm
  BY <1>1, OrderlyRuns
<1>2. CASE ResumeAtOnce \/ ResumeWithLine
  <2>1. UNCHANGED <<app, ctl, chunks, exit>> /\ Live /\ Live'
    BY <1>2 DEF ResumeAtOnce, ResumeWithLine, Resume, ResumeWith, Live
  <2>2. vm'.frames = vm.frames
    <3>1. CASE ResumeAtOnce
      BY <3>1 DEF ResumeAtOnce, Resume
    <3>2. CASE ResumeWithLine
      <4>1. PICK v : vm' = Reports(Pushed(vm, v), TRUE, TRUE)
        BY <3>2 DEF ResumeWithLine, ResumeWith
      <4> DEFINE p == Pushed(vm, v)
      <4>2. VmShape(p) /\ p.frames = vm.frames
        BY PushedTouches DEF Shaped, Touches
      <4> HIDE DEF p
      <4>3. vm' = Reports(p, TRUE, TRUE)
        BY <4>1 DEF p
      <4>4. Reports(p, TRUE, TRUE).frames = p.frames
        BY DEF Reports
      <4> QED
        BY <4>2, <4>3, <4>4
    <3> QED
      BY <1>2, <3>1, <3>2
  <2>3. PICK R, Q : Quiet(R, Q)
    BY <2>1 DEF Orderly
  <2>4. Quiet(R, Q)'
    BY <2>1, <2>2, <2>3 DEF Quiet
  <2> QED
    BY <2>1, <2>4 DEF Orderly
<1>3. CASE Leave
  <2>1. UNCHANGED <<app, vm, ctl, chunks, status>> /\ Live /\ ~Live'
    BY <1>3 DEF Leave, Live
  <2>2. PICK R, Q : Quiet(R, Q)
    BY <2>1 DEF Orderly
  <2>3. exit' = "done" => status = "halted"
    BY <1>3 DEF Leave
  <2>4. status = "halted" => ctl = <<>>
    BY DEF Shaped
  <2>5. EndsClean'
    BY <2>1, <2>2, <2>3, <2>4 DEF Quiet, EndsClean
  <2> QED
    BY <2>1, <2>5 DEF Orderly
<1>4. CASE Exited
  <2>1. ~Live /\ UNCHANGED <<app, vm, chunks, exit>>
    BY <1>4 DEF Exited, vars, Live
  <2>2. EndsClean' /\ ~Live'
    BY <2>1 DEF Orderly, EndsClean, Live
  <2> QED
    BY <2>2 DEF Orderly
<1> QED
  BY <1>1, <1>2, <1>3, <1>4 DEF Next

LEMMA OrderlyStays == Orderly /\ UNCHANGED vars => Orderly'
<1> SUFFICES ASSUME Orderly, UNCHANGED vars PROVE Orderly'
  OBVIOUS
<1>1. UNCHANGED <<app, vm, ctl, chunks, status, exit>>
  BY DEF vars
<1>2. (Live' <=> Live) /\ (EndsClean' <=> EndsClean)
  BY <1>1 DEF Live, EndsClean
<1>3. \A R, Q : Quiet(R, Q) => Quiet(R, Q)'
  BY <1>1 DEF Quiet
<1> QED
  BY <1>1, <1>2, <1>3 DEF Orderly

LEMMA OrderlyIsClean == Orderly => EndsClean
<1>1. Live => exit # "done"
  BY DEF Live
<1> QED
  BY <1>1 DEF Orderly, EndsClean

\* A run that ends leaves no THROW pending for the next command, no frame open
\* and no snippet's code behind, whichever procedure, snippet or template threw
\* and was not caught.  What it takes is that the main program's code checks
\* wherever a THROW can arrive: an OUTPUT outside any procedure, which exec_return
\* lets end the program, must not come right after a call.
THEOREM RunsEndClean ==
  Spec /\ MainChecks /\ []CompilesTidily /\ [][EvaluatorKeeps]_vars /\ []Unhindered => []EndsClean
<1>1. WellCoded /\ Unhindered => Ordinary
  BY DEF Ordinary
<1>2. Init /\ MainChecks /\ Ordinary => Shaped /\ Tracked /\ Orderly
  BY ShapedInit, TrackedInit, OrderlyInit
<1>3. Shaped /\ Tracked /\ Orderly /\ Assembled /\ Ordinary /\ Ordinary' /\ [EvaluatorKeeps]_vars
        /\ [Next]_vars => Shaped' /\ Tracked' /\ Orderly'
  <2>1. CASE UNCHANGED vars
    BY <2>1, TrackedStays, OrderlyStays DEF vars, Shaped
  <2>2. ASSUME Shaped, Tracked, Orderly, Assembled, Ordinary, Ordinary', EvaluatorKeeps, Next
        PROVE  Shaped' /\ Tracked' /\ Orderly'
    BY <2>2, ShapedNext, TrackedNext, OrderlyNext
  <2> QED
    BY <2>1, <2>2
<1>4. Orderly => EndsClean
  BY OrderlyIsClean
<1> QED
  BY <1>1, <1>2, <1>3, <1>4, CodeStaysTidy, PTL DEF Spec

-----------------------------------------------------------------------------
(* Names: which the global variables and the scopes hold, and what the     *)
(* functions that write them leave of it.                                  *)

Named(gs) == {gs[i].name : i \in 1..Len(gs)}
\* The globals: no name twice.
Neat(gs) ==
  /\ IsSeq(gs)
  /\ \A i \in 1..Len(gs) : DOMAIN gs[i] = {"name", "val"}
  /\ \A i, j \in 1..Len(gs) : gs[i].name = gs[j].name => i = j
\* The variables of a scope: none of them a placeholder.
PlainVars(vs) ==
  /\ IsSeq(vs)
  /\ \A j \in 1..Len(vs) : DOMAIN vs[j] = {"name", "val"} /\ ~IsPlaceholder(vs[j].name)
PlainScope(s) == DOMAIN s = {"name", "vars"} /\ PlainVars(s.vars)
Plain(ss) == IsSeq(ss) /\ \A i \in 1..Len(ss) : PlainScope(ss[i])

LEMMA VarIndexFinds ==
  ASSUME NEW vs, NEW name, IsSeq(vs)
  PROVE  /\ VarIndex(vs, name) # 0 => /\ VarIndex(vs, name) \in 1..Len(vs)
                                      /\ vs[VarIndex(vs, name)].name = name
         /\ VarIndex(vs, name) = 0 => \A i \in 1..Len(vs) : vs[i].name # name
<1> DEFINE hits == {i \in 1..Len(vs) : vs[i].name = name}
           i == VarIndex(vs, name)
<1>1. i = IF hits # {} THEN Min(hits) ELSE 0
  BY DEF VarIndex, SelectInSeq
<1>2. Len(vs) \in Nat
  BY SeqShape
<1> HIDE DEF i
<1>3. ASSUME hits # {} PROVE i \in hits /\ i # 0
  <2>1. \E x \in hits : \A y \in hits : x <= y
    BY <1>2, <1>3, LeastIndex
  <2>2. Min(hits) \in hits
    BY <2>1 DEF Min
  <2>3. i \in hits
    BY <2>2, <1>1, <1>3
  <2>4. i \in 1..Len(vs)
    BY <2>3
  <2> QED
    BY <2>3, <2>4, <1>2
<1>4. hits = {} => i = 0
  BY <1>1
<1> QED
  BY <1>3, <1>4 DEF i

\* A placeholder that is bound is a global.
LEMMA LookupFinds ==
  ASSUME NEW a, NEW ss, NEW name, IsSeq(a.globals), Plain(ss), IsPlaceholder(name),
         Lookup(a, ss, name) # <<>>
  PROVE  name \in Named(a.globals)
<1> DEFINE hits == {i \in 1..Len(ss) : VarIndex(ss[i].vars, name) > 0}
           s == HoldingScope(ss, name)
           g == VarIndex(a.globals, name)
<1>1. s = IF hits # {} THEN Max(hits) ELSE 0
  BY DEF HoldingScope, SelectLastInSeq
<1>2. hits = {}
  <2> SUFFICES ASSUME NEW i \in 1..Len(ss) PROVE ~(VarIndex(ss[i].vars, name) > 0)
    OBVIOUS
  <2>1. PlainVars(ss[i].vars)
    BY DEF Plain, PlainScope
  <2>2. VarIndex(ss[i].vars, name) # 0 =>
          /\ VarIndex(ss[i].vars, name) \in 1..Len(ss[i].vars)
          /\ ss[i].vars[VarIndex(ss[i].vars, name)].name = name
    BY <2>1, VarIndexFinds DEF PlainVars
  <2>3. VarIndex(ss[i].vars, name) = 0
    BY <2>1, <2>2 DEF PlainVars
  <2> QED
    BY <2>3
<1>3. s = 0
  BY <1>1, <1>2
<1>4. Lookup(a, ss, name) = IF s > 0 THEN <<ss[s].vars[VarIndex(ss[s].vars, name)].val>>
                            ELSE IF g > 0 THEN <<a.globals[g].val>> ELSE <<>>
  BY DEF Lookup
<1> HIDE DEF s, g
<1>5. g # 0
  BY <1>3, <1>4
<1> QED
  BY <1>5, VarIndexFinds DEF Named, g

\* Giving a variable another value leaves the names.
Valued(vs, k, v) == [vs EXCEPT ![k].val = v]

LEMMA ValuedNames ==
  ASSUME NEW vs, NEW k, NEW v, IsSeq(vs),
         \A i \in 1..Len(vs) : DOMAIN vs[i] = {"name", "val"}
  PROVE  /\ IsSeq(Valued(vs, k, v)) /\ Len(Valued(vs, k, v)) = Len(vs)
         /\ \A i \in 1..Len(vs) : /\ DOMAIN Valued(vs, k, v)[i] = {"name", "val"}
                                  /\ Valued(vs, k, v)[i].name = vs[i].name
<1> DEFINE x == [vs[k] EXCEPT !.val = v]
<1>1. Valued(vs, k, v) = Altered(vs, k, x)
  BY DEF Valued, Altered
<1>2. k \in 1..Len(vs) => DOMAIN x = {"name", "val"} /\ x.name = vs[k].name
  OBVIOUS
<1> HIDE DEF x
<1>3. /\ IsSeq(Altered(vs, k, x)) /\ Len(Altered(vs, k, x)) = Len(vs)
      /\ \A i \in 1..Len(vs) : Altered(vs, k, x)[i] = IF i = k THEN x ELSE vs[i]
  BY AlteredSeq
<1> QED
  BY <1>1, <1>2, <1>3

LEMMA ValuedNeat ==
  ASSUME NEW gs, NEW k, NEW v, Neat(gs)
  PROVE  Neat(Valued(gs, k, v)) /\ Named(Valued(gs, k, v)) = Named(gs)
<1>1. /\ IsSeq(Valued(gs, k, v)) /\ Len(Valued(gs, k, v)) = Len(gs)
      /\ \A i \in 1..Len(gs) : /\ DOMAIN Valued(gs, k, v)[i] = {"name", "val"}
                               /\ Valued(gs, k, v)[i].name = gs[i].name
  BY ValuedNames DEF Neat
<1> QED
  BY <1>1 DEF Neat, Named

LEMMA ValuedPlain ==
  ASSUME NEW vs, NEW k, NEW v, PlainVars(vs)
  PROVE  PlainVars(Valued(vs, k, v))
<1>1. /\ IsSeq(Valued(vs, k, v)) /\ Len(Valued(vs, k, v)) = Len(vs)
      /\ \A i \in 1..Len(vs) : /\ DOMAIN Valued(vs, k, v)[i] = {"name", "val"}
                               /\ Valued(vs, k, v)[i].name = vs[i].name
  BY ValuedNames DEF PlainVars
<1> QED
  BY <1>1 DEF PlainVars

\* A scope of its own name with other variables.
LEMMA RescopedPlain ==
  ASSUME NEW ss, NEW s, NEW vs, Plain(ss), s \in 1..Len(ss) => PlainVars(vs)
  PROVE  Plain([ss EXCEPT ![s].vars = vs])
<1> DEFINE x == [ss[s] EXCEPT !.vars = vs]
<1>1. [ss EXCEPT ![s].vars = vs] = Altered(ss, s, x)
  BY DEF Altered
<1>2. s \in 1..Len(ss) => PlainScope(x)
  BY DEF Plain, PlainScope
<1> HIDE DEF x
<1>3. /\ IsSeq(Altered(ss, s, x)) /\ Len(Altered(ss, s, x)) = Len(ss)
      /\ \A i \in 1..Len(ss) : Altered(ss, s, x)[i] = IF i = s THEN x ELSE ss[i]
  BY AlteredSeq DEF Plain
<1>4. Plain(Altered(ss, s, x))
  BY <1>2, <1>3 DEF Plain
<1> QED
  BY <1>1, <1>4

LEMMA AppendNeat ==
  ASSUME NEW gs, NEW name, NEW v, Neat(gs), name \notin Named(gs)
  PROVE  /\ Neat(Append(gs, [name |-> name, val |-> v]))
         /\ Named(Append(gs, [name |-> name, val |-> v])) = Named(gs) \union {name}
<1> DEFINE x == [name |-> name, val |-> v]
           t == Append(gs, x)
           k == Len(gs)
<1>1. IsSeq(t) /\ Len(t) = k + 1 /\ t[k + 1] = x /\ \A i \in 1..k : t[i] = gs[i]
  BY AppendSeq DEF Neat
<1>2. k \in Nat
  BY SeqShape DEF Neat
<1>3. DOMAIN x = {"name", "val"} /\ x.name = name
  OBVIOUS
<1> HIDE DEF x, t, k
<1>4. \A i \in 1..(k + 1) : i = k + 1 \/ i \in 1..k
  BY <1>2
<1>5. k + 1 \in 1..(k + 1) /\ 1..k \subseteq 1..(k + 1)
  BY <1>2
<1>6. \A i \in 1..(k + 1) : DOMAIN t[i] = {"name", "val"}
  BY <1>1, <1>3, <1>4 DEF Neat, k
<1>7. \A i \in 1..k : gs[i].name # name
  BY DEF Named, k
<1>8. \A i, j \in 1..(k + 1) : t[i].name = t[j].name => i = j
  BY <1>1, <1>3, <1>4, <1>7 DEF Neat, k
<1>9. Named(t) = Named(gs) \union {name}
  <2>1. ASSUME NEW n \in Named(t) PROVE n \in Named(gs) \union {name}
    BY <1>1, <1>3, <1>4 DEF Named, k
  <2>2. ASSUME NEW n \in Named(gs) \union {name} PROVE n \in Named(t)
    BY <1>1, <1>3, <1>5 DEF Named, k
  <2> QED
    BY <2>1, <2>2
<1> QED
  BY <1>1, <1>6, <1>8, <1>9 DEF Neat, t, x

\* set_var binds its name, and no placeholder in a scope.
LEMMA SetVarNames ==
  ASSUME NEW a, NEW ss, NEW name, NEW v, DOMAIN a = AppFields, Neat(a.globals), Plain(ss)
  PROVE  /\ DOMAIN SetVar(a, ss, name, v).app = AppFields
         /\ Neat(SetVar(a, ss, name, v).app.globals)
         /\ Named(SetVar(a, ss, name, v).app.globals) \subseteq Named(a.globals) \union {name}
         /\ Plain(SetVar(a, ss, name, v).ss)
<1> DEFINE s == HoldingScope(ss, name)
           g == VarIndex(a.globals, name)
           r == SetVar(a, ss, name, v)
           bound == [ss EXCEPT ![s].vars[VarIndex(ss[s].vars, name)].val = v]
           old == [a EXCEPT !.globals[g].val = v]
           gs == Append(a.globals, [name |-> name, val |-> v])
           more == [a EXCEPT !.globals = gs]
           said == SayLine(a, "MAKE: too many variables defined, not set")
<1>1. r = CASE s > 0 -> [app |-> a, ss |-> bound]
            [] s = 0 /\ g > 0 -> [app |-> old, ss |-> ss]
            [] s = 0 /\ g = 0 /\ Len(a.globals) < MaxVariables -> [app |-> more, ss |-> ss]
            [] OTHER -> [app |-> said, ss |-> ss]
  BY DEF SetVar
<1>2. Plain(bound)
  <2> DEFINE vs == Valued(ss[s].vars, VarIndex(ss[s].vars, name), v)
  <2>1. bound = [ss EXCEPT ![s].vars = vs]
    BY DEF Valued
  <2>2. s \in 1..Len(ss) => PlainVars(vs)
    BY ValuedPlain DEF Plain, PlainScope
  <2> HIDE DEF vs, bound, s
  <2>3. Plain([ss EXCEPT ![s].vars = vs])
    BY <2>2, RescopedPlain
  <2> QED
    BY <2>1, <2>3
<1>3. /\ DOMAIN old = AppFields /\ Neat(old.globals) /\ Named(old.globals) = Named(a.globals)
  <2>1. old.globals = Valued(a.globals, g, v) /\ DOMAIN old = AppFields
    BY DEF Valued, AppFields
  <2> HIDE DEF old, g
  <2> QED
    BY <2>1, ValuedNeat
<1>4. g = 0 => /\ DOMAIN more = AppFields /\ Neat(more.globals)
               /\ Named(more.globals) = Named(a.globals) \union {name}
  <2>1. more.globals = gs /\ DOMAIN more = AppFields
    BY DEF AppFields
  <2> HIDE DEF more
  <2>2. g = 0 => name \notin Named(a.globals)
    BY VarIndexFinds DEF Neat, Named
  <2> QED
    BY <2>1, <2>2, AppendNeat
<1>5. DOMAIN said = AppFields /\ said.globals = a.globals
  BY DEF SayLine, Say, AppFields
<1> HIDE DEF s, g, bound, old, more, said, r
<1>6. CASE s > 0
  BY <1>1, <1>2, <1>6 DEF r
<1>7. CASE ~(s > 0)
  <2>1. \/ r = [app |-> old, ss |-> ss]
        \/ g = 0 /\ r = [app |-> more, ss |-> ss]
        \/ r = [app |-> said, ss |-> ss]
    BY <1>1, <1>7
  <2> QED
    BY <2>1, <1>3, <1>4, <1>5 DEF r
<1> QED
  BY <1>6, <1>7

LEMMA AppendPlainVars ==
  ASSUME NEW vs, NEW name, NEW v, PlainVars(vs), ~IsPlaceholder(name)
  PROVE  PlainVars(Append(vs, [name |-> name, val |-> v]))
<1> DEFINE x == [name |-> name, val |-> v]
           t == Append(vs, x)
           k == Len(vs)
<1>1. IsSeq(t) /\ Len(t) = k + 1 /\ t[k + 1] = x /\ \A i \in 1..k : t[i] = vs[i]
  BY AppendSeq DEF PlainVars
<1>2. k \in Nat
  BY SeqShape DEF PlainVars
<1>3. DOMAIN x = {"name", "val"} /\ ~IsPlaceholder(x.name)
  OBVIOUS
<1> HIDE DEF x, t, k
<1>4. \A i \in 1..(k + 1) : i = k + 1 \/ i \in 1..k
  BY <1>2
<1>5. \A i \in 1..(k + 1) : DOMAIN t[i] = {"name", "val"} /\ ~IsPlaceholder(t[i].name)
  BY <1>1, <1>3, <1>4 DEF PlainVars, k
<1> QED
  BY <1>1, <1>5 DEF PlainVars, t, x

LEMMA DeclareLocalNames ==
  ASSUME NEW a, NEW ss, NEW name, DOMAIN a = AppFields, Plain(ss), ~IsPlaceholder(name)
  PROVE  /\ DeclareLocal(a, ss, name).app.globals = a.globals
         /\ Plain(DeclareLocal(a, ss, name).ss)
<1> DEFINE top == Len(ss)
           r == DeclareLocal(a, ss, name)
           vs == Append(ss[top].vars, [name |-> name, val |-> Num(0)])
           more == [ss EXCEPT ![top].vars = vs]
           outside == SayLine(a, "LOCAL: can only be used inside a procedure")
           many == SayLine(a, "LOCAL: too many local variables")
<1>1. r.app \in {a, outside, many} /\ r.ss \in {ss, more}
  BY DEF DeclareLocal
<1>2. outside.globals = a.globals /\ many.globals = a.globals
  BY DEF SayLine, Say, AppFields
<1>3. top \in 1..Len(ss) => PlainVars(vs)
  <2>1. top \in 1..Len(ss) => PlainVars(ss[top].vars)
    BY DEF Plain, PlainScope
  <2> HIDE DEF top
  <2> QED
    BY <2>1, AppendPlainVars
<1> HIDE DEF top, r, vs, outside, many
<1>4. Plain(more)
  BY <1>3, RescopedPlain
<1> HIDE DEF more
<1> QED
  BY <1>1, <1>2, <1>4 DEF r

\* The call's scope holds its inputs.
LEMMA PushScopePlain ==
  ASSUME NEW ss, NEW capacity, NEW name, NEW params, NEW args, Plain(ss), IsSeq(params),
         \A j \in 1..Len(params) : ~IsPlaceholder(params[j]),
         PushScope(ss, capacity, name, params, args) # <<>>
  PROVE  Plain(PushScope(ss, capacity, name, params, args)[1])
<1> DEFINE vs == [i \in 1..Len(params) |-> [name |-> params[i],
                                            val |-> IF i <= Len(args) THEN args[i] ELSE Num(0)]]
           x == [name |-> name, vars |-> vs]
           t == Append(ss, x)
           k == Len(ss)
<1>1. PushScope(ss, capacity, name, params, args)[1] = t
  BY DEF PushScope
<1>2. Len(params) \in Nat /\ k \in Nat
  BY SeqShape DEF Plain
<1>3. DOMAIN vs = 1..Len(params) /\ vs = [i \in DOMAIN vs |-> vs[i]]
  OBVIOUS
<1>4. \A j \in 1..Len(params) : DOMAIN vs[j] = {"name", "val"} /\ vs[j].name = params[j]
  OBVIOUS
<1>5. DOMAIN x = {"name", "vars"} /\ x.vars = vs
  OBVIOUS
<1> HIDE DEF vs
<1>6. PlainVars(vs)
  <2>1. IsSeq(vs) /\ Len(vs) = Len(params)
    BY <1>2, <1>3, MadeSeq
  <2> QED
    BY <2>1, <1>4 DEF PlainVars
<1>7. PlainScope(x)
  BY <1>5, <1>6 DEF PlainScope
<1> HIDE DEF x
<1>8. IsSeq(t) /\ Len(t) = k + 1 /\ t[k + 1] = x /\ \A i \in 1..k : t[i] = ss[i]
  BY AppendSeq DEF Plain
<1> HIDE DEF t, k
<1>9. \A i \in 1..(k + 1) : i = k + 1 \/ i \in 1..k
  BY <1>2
<1>10. \A i \in 1..(k + 1) : PlainScope(t[i])
  BY <1>7, <1>8, <1>9 DEF Plain, k
<1> QED
  BY <1>1, <1>8, <1>10 DEF Plain

\* What is deleted is gone: its place is the last one's, whose name is another.
LEMMA DeleteVarNames ==
  ASSUME NEW a, NEW name, DOMAIN a = AppFields, Neat(a.globals)
  PROVE  /\ DOMAIN DeleteVar(a, name) = AppFields
         /\ Neat(DeleteVar(a, name).globals)
         /\ Named(DeleteVar(a, name).globals) \subseteq Named(a.globals) \ {name}
<1> DEFINE gs == a.globals
           g == VarIndex(gs, name)
           k == Len(gs)
           t == Altered(gs, g, gs[k])
           b == DeleteVar(a, name)
<1>1. k \in Nat /\ IsSeq(gs)
  BY SeqShape DEF Neat
<1>2. CASE g = 0
  <2>1. b = a
    BY <1>2 DEF DeleteVar
  <2>2. \A i \in 1..k : gs[i].name # name
    BY <1>1, <1>2, VarIndexFinds
  <2>3. name \notin Named(gs)
    BY <2>2 DEF Named
  <2> QED
    BY <2>1, <2>3
<1>3. CASE g # 0
  <2>1. g \in 1..k /\ gs[g].name = name
    BY <1>1, <1>3, VarIndexFinds
  <2>2. Last(gs) = gs[k]
    BY DEF Last
  <2>3. b = [a EXCEPT !.globals = Front(t)]
    BY <1>3, <2>2 DEF DeleteVar, Altered
  <2>4. DOMAIN b = AppFields /\ b.globals = Front(t)
    BY <2>3 DEF AppFields
  <2>5. IsSeq(t) /\ Len(t) = k /\ \A i \in 1..k : t[i] = IF i = g THEN gs[k] ELSE gs[i]
    BY <1>1, AlteredSeq
  <2> HIDE DEF t, b, g
  <2>6. k > 0 /\ k \in 1..k
    BY <1>1, <2>1
  <2>7. t # <<>>
    BY <2>5, <2>6, EmptyIsSeq
  <2>8. /\ IsSeq(Front(t)) /\ Len(Front(t)) = k - 1
        /\ \A i \in 1..(k - 1) : Front(t)[i] = t[i]
    BY <2>5, <2>7, FrontSeq
  <2> DEFINE f == Front(t)
  <2>9. ASSUME NEW i \in 1..(k - 1)
        PROVE  \E p \in 1..k : f[i] = gs[p] /\ p # g /\ (p = i \/ (p = k /\ i = g))
    <3>1. i \in 1..k /\ i # k
      BY <1>1
    <3>2. f[i] = IF i = g THEN gs[k] ELSE gs[i]
      BY <3>1, <2>5, <2>8
    <3> QED
      BY <3>1, <3>2, <2>6
  <2> HIDE DEF f, k, gs
  <2>10. \A i \in 1..(k - 1) : DOMAIN f[i] = {"name", "val"} /\ f[i].name \in Named(gs) \ {name}
    <3> SUFFICES ASSUME NEW i \in 1..(k - 1)
                 PROVE  DOMAIN f[i] = {"name", "val"} /\ f[i].name \in Named(gs) \ {name}
      OBVIOUS
    <3>1. PICK p \in 1..k : f[i] = gs[p] /\ p # g
      BY <2>9
    <3>2. gs[p].name # name
      BY <2>1, <3>1 DEF Neat, k, gs
    <3> QED
      BY <3>1, <3>2 DEF Neat, Named, k, gs
  <2>11. ASSUME NEW i \in 1..(k - 1), NEW j \in 1..(k - 1), f[i].name = f[j].name
         PROVE  i = j
    <3>1. PICK p \in 1..k : f[i] = gs[p] /\ p # g /\ (p = i \/ (p = k /\ i = g))
      BY <2>9
    <3>2. PICK q \in 1..k : f[j] = gs[q] /\ q # g /\ (q = j \/ (q = k /\ j = g))
      BY <2>9
    <3>3. p = q
      BY <2>11, <3>1, <3>2 DEF Neat, k, gs
    <3>4. i # k /\ j # k
      BY <1>1
    <3> QED
      BY <3>1, <3>2, <3>3, <3>4
  <2>12. Neat(f)
    BY <2>8, <2>10, <2>11 DEF Neat, f
  <2>13. Named(f) \subseteq Named(gs) \ {name}
    <3>1. Named(f) = {f[i].name : i \in 1..(k - 1)}
      BY <2>8 DEF Named, f
    <3> QED
      BY <3>1, <2>10
  <2> QED
    BY <2>4, <2>12, <2>13 DEF f, b, gs
<1> QED
  BY <1>2, <1>3

LEMMA FrontPlain ==
  ASSUME NEW ss, Plain(ss)
  PROVE  Plain(Front(ss))
<1>1. CASE ss = <<>>
  <2>1. Front(ss) = <<>>
    BY <1>1 DEF Front
  <2> QED
    BY <2>1, EmptyIsSeq DEF Plain
<1>2. CASE ss # <<>>
  <2>1. /\ IsSeq(Front(ss)) /\ Len(ss) \in Nat \ {0} /\ Len(Front(ss)) = Len(ss) - 1
        /\ \A i \in 1..(Len(ss) - 1) : Front(ss)[i] = ss[i]
    BY <1>2, FrontSeq DEF Plain
  <2>2. 1..(Len(ss) - 1) \subseteq 1..Len(ss)
    BY <2>1
  <2> QED
    BY <2>1, <2>2 DEF Plain
<1> QED
  BY <1>1, <1>2

\* A pair [app, vm] whose names are in order.
Tame(st) ==
  /\ DOMAIN st = {"app", "vm"} /\ DOMAIN st.app = AppFields /\ DOMAIN st.vm = VmFields
  /\ Neat(st.app.globals) /\ Plain(st.vm.scopes)
Globals(st) == Named(st.app.globals)

LEMMA BindNames ==
  ASSUME NEW st, NEW name, NEW v, Tame(st)
  PROVE  Tame(Bind(st, name, v)) /\ Globals(Bind(st, name, v)) \subseteq Globals(st) \union {name}
<1> DEFINE m == st.vm
           r == SetVar(st.app, m.scopes, name, v)
           n == [m EXCEPT !.scopes = r.ss]
           b == Bind(st, name, v)
<1>1. /\ DOMAIN r.app = AppFields /\ Neat(r.app.globals) /\ Plain(r.ss)
      /\ Named(r.app.globals) \subseteq Named(st.app.globals) \union {name}
  BY SetVarNames DEF Tame
<1>2. b = [app |-> r.app, vm |-> n]
  BY DEF Bind
<1> HIDE DEF r
<1>3. DOMAIN n = VmFields /\ n.scopes = r.ss
  BY DEF Tame, VmFields
<1> HIDE DEF n
<1>4. DOMAIN b = {"app", "vm"} /\ b.app = r.app /\ b.vm = n
  BY <1>2
<1> HIDE DEF b
<1>5. Tame(b) /\ Globals(b) \subseteq Globals(st) \union {name}
  BY <1>1, <1>3, <1>4 DEF Tame, Globals
<1> QED
  BY <1>5 DEF b

\* restore_var: the name is there afterwards only if it was bound before.
LEMMA RestoredNames ==
  ASSUME NEW st, NEW name, NEW saved, Tame(st)
  PROVE  /\ Tame(Restored(st, name, saved))
         /\ \A n \in Globals(Restored(st, name, saved)) :
              IF n = name THEN saved # <<>> ELSE n \in Globals(st)
<1> DEFINE r == Restored(st, name, saved)
<1>1. CASE saved # <<>>
  <2>1. \E v : r = Bind(st, name, v)
    BY <1>1 DEF Restored
  <2>2. Tame(r) /\ Globals(r) \subseteq Globals(st) \union {name}
    BY <2>1, BindNames
  <2> QED
    BY <1>1, <2>2
<1>2. CASE saved = <<>>
  <2> DEFINE d == DeleteVar(st.app, name)
  <2>1. DOMAIN d = AppFields /\ Neat(d.globals) /\ Named(d.globals) \subseteq Named(st.app.globals) \ {name}
    BY DeleteVarNames DEF Tame
  <2>2. r = [st EXCEPT !.app = d]
    BY <1>2 DEF Restored
  <2> HIDE DEF d
  <2>3. DOMAIN r = {"app", "vm"} /\ r.app = d /\ r.vm = st.vm
    BY <2>2 DEF Tame
  <2> HIDE DEF r
  <2>4. Tame(r) /\ Globals(r) \subseteq Globals(st) \ {name}
    BY <2>1, <2>3 DEF Tame, Globals
  <2> QED
    BY <2>4 DEF r
<1> QED
  BY <1>1, <1>2

\* How many variables each kind of vm_run binds.
Slots(who) == IF who = "REDUCE" THEN 2 ELSE IF who \in LoopOps THEN 1 ELSE 0

LEMMA BindPassNames ==
  ASSUME NEW st, NEW t, Tame(st), t.who \in LoopOps, Len(t.vars) = Slots(t.who)
  PROVE  /\ Tame(BindPass(st, t))
         /\ \A n \in Globals(BindPass(st, t)) :
              n \in Globals(st) \/ \E j \in 1..Len(t.vars) : t.vars[j] = n
<1> DEFINE r == BindPass(st, t)
<1>1. CASE t.who = "REDUCE"
  <2>1. PICK v, w : r = Bind(Bind(st, t.vars[1], v), t.vars[2], w)
    BY <1>1 DEF BindPass
  <2> DEFINE one == Bind(st, t.vars[1], v)
  <2>2. Tame(one) /\ Globals(one) \subseteq Globals(st) \union {t.vars[1]}
    BY BindNames
  <2>3. r = Bind(one, t.vars[2], w)
    BY <2>1
  <2> HIDE DEF one, r
  <2>4. Tame(r) /\ Globals(r) \subseteq Globals(one) \union {t.vars[2]}
    BY <2>2, <2>3, BindNames
  <2>5. 1 \in 1..Len(t.vars) /\ 2 \in 1..Len(t.vars)
    BY <1>1 DEF Slots
  <2> QED
    BY <2>2, <2>4, <2>5 DEF r
<1>2. CASE t.who # "REDUCE"
  <2>1. PICK v : r = Bind(st, t.vars[1], v)
    BY <1>2 DEF BindPass
  <2> HIDE DEF r
  <2>2. Tame(r) /\ Globals(r) \subseteq Globals(st) \union {t.vars[1]}
    BY <2>1, BindNames
  <2>3. 1 \in 1..Len(t.vars)
    BY <1>2 DEF Slots
  <2> QED
    BY <2>2, <2>3 DEF r
<1> QED
  BY <1>1, <1>2

\* The stack's operations have nothing to do with names.
LEMMA StackNames ==
  ASSUME NEW m, NEW v, DOMAIN m = VmFields
  PROVE  DOMAIN Pushed(m, v) = VmFields /\ Pushed(m, v).scopes = m.scopes
BY DEF Pushed, VmFields

LEMMA DropNames ==
  ASSUME NEW m, NEW n, DOMAIN m = VmFields
  PROVE  DOMAIN Drop(m, n) = VmFields /\ Drop(m, n).scopes = m.scopes
BY DEF Drop, VmFields

LEMMA ReportsNames ==
  ASSUME NEW m, NEW x, NEW y, DOMAIN m = VmFields
  PROVE  DOMAIN Reports(m, x, y) = VmFields /\ Reports(m, x, y).scopes = m.scopes
BY DEF Reports, VmFields

LEMMA PokedNames ==
  ASSUME NEW m, NEW d, NEW v, DOMAIN m = VmFields
  PROVE  DOMAIN Poked(m, d, v) = VmFields /\ Poked(m, d, v).scopes = m.scopes
BY DEF Poked, VmFields

\* After the loop, what it bound is there only if it was before.
LEMMA FinishTemplateNames ==
  ASSUME NEW st, NEW t, Tame(st), t.who \in LoopOps, Len(t.vars) = Slots(t.who)
  PROVE  LET r == FinishTemplate(st, t)
         IN  /\ Tame(r)
             /\ \A n \in Globals(r) :
                  \/ \E j \in 1..Len(t.vars) : t.vars[j] = n /\ t.saved[j] # <<>>
                  \/ n \in Globals(st) /\ \A j \in 1..Len(t.vars) : t.vars[j] # n
<1> DEFINE one  == Restored(st, t.vars[1], t.saved[1])
           two  == Restored(one, t.vars[2], t.saved[2])
           both == IF Len(t.vars) = 1 THEN one ELSE two
           e    == Reports(both.vm, TRUE, t.who # "FOREACH")
           r    == FinishTemplate(st, t)
           fine(n) == \/ \E j \in 1..Len(t.vars) : t.vars[j] = n /\ t.saved[j] # <<>>
                      \/ n \in Globals(st) /\ \A j \in 1..Len(t.vars) : t.vars[j] # n
<1>1. /\ Tame(one)
      /\ \A n \in Globals(one) : IF n = t.vars[1] THEN t.saved[1] # <<>> ELSE n \in Globals(st)
  BY RestoredNames
<1>2. r = [both EXCEPT !.vm = Pushed(e, t.result)]
  BY DEF FinishTemplate
<1> HIDE DEF one
<1>3. /\ Tame(two)
      /\ \A n \in Globals(two) : IF n = t.vars[2] THEN t.saved[2] # <<>> ELSE n \in Globals(one)
  BY <1>1, RestoredNames
<1> HIDE DEF two
<1>4. Tame(both) /\ \A n \in Globals(both) : fine(n)
  <2>1. CASE t.who = "REDUCE"
    <3>1. Len(t.vars) = 2
      BY <2>1 DEF Slots
    <3>2. both = two
      BY <3>1
    <3>3. \A j \in 1..2 : j = 1 \/ j = 2
      OBVIOUS
    <3>4. \A n \in Globals(two) : fine(n)
      <4> SUFFICES ASSUME NEW n \in Globals(two) PROVE fine(n)
        OBVIOUS
      <4>1. CASE n = t.vars[2]
        BY <4>1, <1>3, <3>1
      <4>2. CASE n # t.vars[2]
        <5>1. n \in Globals(one)
          BY <4>2, <1>3
        <5>2. CASE n = t.vars[1]
          BY <5>1, <5>2, <1>1, <3>1
        <5>3. CASE n # t.vars[1]
          BY <5>1, <5>3, <4>2, <1>1, <3>1, <3>3
        <5> QED
          BY <5>2, <5>3
      <4> QED
        BY <4>1, <4>2
    <3> QED
      BY <1>3, <3>2, <3>4
  <2>2. CASE t.who # "REDUCE"
    <3>1. Len(t.vars) = 1
      BY <2>2 DEF Slots
    <3>2. both = one
      BY <3>1
    <3>3. \A j \in 1..1 : j = 1
      OBVIOUS
    <3>4. \A n \in Globals(one) : fine(n)
      BY <1>1, <3>1, <3>3
    <3> QED
      BY <1>1, <3>2, <3>4
  <2> QED
    BY <2>1, <2>2
<1> HIDE DEF both
<1>5. DOMAIN e = VmFields /\ e.scopes = both.vm.scopes
  BY <1>4, ReportsNames DEF Tame
<1> HIDE DEF e
<1>6. DOMAIN Pushed(e, t.result) = VmFields /\ Pushed(e, t.result).scopes = both.vm.scopes
  BY <1>5, StackNames
<1>7. DOMAIN r = {"app", "vm"} /\ r.app = both.app /\ r.vm = Pushed(e, t.result)
  BY <1>2, <1>4 DEF Tame
<1> HIDE DEF r, fine
<1>8. Tame(r) /\ Globals(r) = Globals(both)
  BY <1>4, <1>6, <1>7 DEF Tame, Globals
<1>9. \A n \in Globals(r) : fine(n)
  BY <1>4, <1>8
<1> QED
  BY <1>8, <1>9 DEF r, fine

\* The builtins the engines share read variables and write none.
LEMMA SayNames ==
  ASSUME NEW a, NEW text, DOMAIN a = AppFields
  PROVE  /\ Say(a, text).globals = a.globals /\ SayLine(a, text).globals = a.globals
         /\ SayIf(a, text).globals = a.globals
         /\ DOMAIN Say(a, text) = AppFields /\ DOMAIN SayLine(a, text) = AppFields
         /\ DOMAIN SayIf(a, text) = AppFields
BY DEF Say, SayLine, SayIf, AppFields

LEMMA PropsNames ==
  ASSUME NEW a, NEW plist, NEW key, NEW v, DOMAIN a = AppFields
  PROVE  /\ SetProp(a, plist, key, v).globals = a.globals
         /\ RemoveProp(a, plist, key).globals = a.globals
<1> DEFINE i == PropIndex(a, plist, key)
           full == SayLine(a, "SETPROP: too many properties defined, not set")
<1>1. \/ SetProp(a, plist, key, v) = [a EXCEPT !.plists[i].val = v]
      \/ SetProp(a, plist, key, v) =
           [a EXCEPT !.plists = Append(@, [plist |-> plist, key |-> key, val |-> v])]
      \/ SetProp(a, plist, key, v) = full
  BY DEF SetProp
<1>2. /\ [a EXCEPT !.plists[i].val = v].globals = a.globals
      /\ [a EXCEPT !.plists = Append(@, [plist |-> plist, key |-> key, val |-> v])].globals = a.globals
  BY DEF AppFields
<1>3. full.globals = a.globals
  BY SayNames
<1>4. \/ RemoveProp(a, plist, key) = a
      \/ RemoveProp(a, plist, key) = [a EXCEPT !.plists = Front([@ EXCEPT ![i] = Last(a.plists)])]
  BY DEF RemoveProp
<1>5. [a EXCEPT !.plists = Front([@ EXCEPT ![i] = Last(a.plists)])].globals = a.globals
  BY DEF AppFields
<1> HIDE DEF i, full
<1> QED
  BY <1>1, <1>2, <1>3, <1>4, <1>5

LEMMA SharedBuiltinNames ==
  ASSUME NEW a, NEW ss, NEW name, NEW args, DOMAIN a = AppFields
  PROVE  SharedBuiltin(a, ss, name, args).app.globals = a.globals
<1> DEFINE r == SharedBuiltin(a, ss, name, args)
<1>1. CASE name \in ListBuiltins
  <2>1. r = GivesOr(a, ListBuiltin(name, args))
    BY <1>1 DEF SharedBuiltin, ListBuiltins
  <2> QED
    BY <2>1, SayNames DEF GivesOr, Gives
<1>2. CASE name \notin ListBuiltins
  <2>1. \/ r.app = SayLine(a, ValueText(args[1])) \/ r.app = Say(a, ValueText(args[1]))
        \/ r.app = a \/ r.app = Throw(a, ValueText(args[1]))
        \/ r.app = SetProp(a, ValueText(args[1]), ValueText(args[2]), args[3])
        \/ r.app = SetProp(a, ValueText(args[1]), "prototype", args[2])
        \/ r.app = RemoveProp(a, ValueText(args[1]), ValueText(args[2]))
    BY <1>2 DEF SharedBuiltin, Gives, GivesNothing
  <2>2. \A tag : Throw(a, tag).globals = a.globals
    BY DEF Throw, AppFields
  <2> QED
    BY <2>1, <2>2, SayNames, PropsNames
<1> QED
  BY <1>1, <1>2

LEMMA VmBuiltinNames ==
  ASSUME NEW name, NEW args, AppShape(app), name \notin TemplateBuiltins
  PROVE  VmBuiltin(name, args).app.globals = app.globals
<1> DEFINE other == SharedBuiltin(app, vm.scopes, name, args).app
           r == VmBuiltin(name, args)
<1>0. DOMAIN app = AppFields
  BY DEF AppShape
<1>1. r.app \in {ExecContinue, ExecBacktrace, app, SetSpeed(args[1]), other}
  BY DEF VmBuiltin, Gives, GivesNothing
<1>2. ExecContinue.globals = app.globals
  <2>1. [app EXCEPT !.paused = @ - 1].globals = app.globals
    BY <1>0 DEF AppFields
  <2>2. SayLine(app, "CONTINUE: nothing is paused").globals = app.globals
    BY <1>0, SayNames
  <2> QED
    BY <2>1, <2>2 DEF ExecContinue
<1>3. ExecBacktrace.globals = app.globals
  <2>1. PICK text : ExecBacktrace = SayLine(Say(app, text), "  (top level)")
    BY Zenon DEF ExecBacktrace
  <2>2. DOMAIN Say(app, text) = AppFields /\ Say(app, text).globals = app.globals
    BY <1>0, SayNames
  <2>3. SayLine(Say(app, text), "  (top level)").globals = Say(app, text).globals
    BY <2>2, SayNames
  <2> QED
    BY <2>1, <2>2, <2>3
<1>4. SetSpeed(args[1]).globals = app.globals
  BY <1>0 DEF SetSpeed, AppFields
<1>5. other.globals = app.globals
  BY <1>0, SharedBuiltinNames
<1> HIDE DEF other, r
<1> QED
  BY <1>1, <1>2, <1>3, <1>4, <1>5 DEF r

-----------------------------------------------------------------------------
(* Placeholders: who holds them.                                           *)

\* One of the first d activations binds the name.
Holds(c, d, n) == \E e \in 1..d : \E j \in 1..Len(c[e].vars) : c[e].vars[j] = n
\* What an activation will put back belongs to one below it.
Borrows(c, d) ==
  /\ Len(c[d].vars) = Slots(c[d].who)
  /\ \A j \in 1..Len(c[d].vars) :
       IsPlaceholder(c[d].vars[j]) /\ c[d].saved[j] # <<>> => Holds(c, d - 1, c[d].vars[j])
HeldBy(gs, c) == \A n \in Named(gs) : IsPlaceholder(n) => Holds(c, Len(c), n)

\* The inductive invariant.
Scoped ==
  /\ Neat(app.globals) /\ Plain(vm.scopes)
  /\ \A d \in 1..Len(ctl) : Borrows(ctl, d)
  /\ HeldBy(app.globals, ctl)

Alike(c, t, k) ==
  \A i \in 1..k : t[i].who = c[i].who /\ t[i].vars = c[i].vars /\ t[i].saved = c[i].saved

LEMMA AlikeHolds ==
  ASSUME NEW c, NEW t, NEW k \in Nat, Alike(c, t, k)
  PROVE  /\ \A d \in 0..k : \A n : Holds(c, d, n) => Holds(t, d, n)
         /\ \A d \in 1..k : Borrows(c, d) => Borrows(t, d)
<1>1. ASSUME NEW d \in 0..k, NEW n, Holds(c, d, n) PROVE Holds(t, d, n)
  <2>1. PICK e \in 1..d : \E j \in 1..Len(c[e].vars) : c[e].vars[j] = n
    BY <1>1 DEF Holds
  <2>2. e \in 1..k
    OBVIOUS
  <2>3. t[e].vars = c[e].vars
    BY <2>2 DEF Alike
  <2> QED
    BY <2>1, <2>3 DEF Holds
<1>2. ASSUME NEW d \in 1..k, Borrows(c, d) PROVE Borrows(t, d)
  <2>1. t[d].who = c[d].who /\ t[d].vars = c[d].vars /\ t[d].saved = c[d].saved
    BY DEF Alike
  <2>2. d - 1 \in 0..k
    OBVIOUS
  <2>3. \A n : Holds(c, d - 1, n) => Holds(t, d - 1, n)
    BY <1>1, <2>2
  <2> QED
    BY <1>2, <2>1, <2>3 DEF Borrows
<1> QED
  BY <1>1, <1>2

\* An activation goes on: with another pc, or with its next pass.
LEMMA ScopedGoesOn ==
  ASSUME Shaped, Scoped, status # "halted", NEW x, ctl' = Altered(ctl, Depth, x),
         x.who = Top.who, x.vars = Top.vars, x.saved = Top.saved,
         Neat(app'.globals), Plain(vm'.scopes), HeldBy(app'.globals, ctl)
  PROVE  Scoped'
<1>1. IsSeq(ctl) /\ Len(ctl) \in Nat /\ Depth \in 1..Len(ctl)
  BY ShapedFacts, SeqShape
<1>2. Len(ctl') = Len(ctl) /\ \A i \in 1..Len(ctl) : ctl'[i] = IF i = Depth THEN x ELSE ctl[i]
  BY <1>1, AlteredSeq
<1>3. Alike(ctl, ctl', Len(ctl))
  BY <1>2 DEF Alike, Top
<1>4. PICK k \in Nat : k = Len(ctl) /\ k = Len(ctl')
  BY <1>1, <1>2
<1>5. PICK t : t = ctl'
  OBVIOUS
<1>6. Alike(ctl, t, k) /\ Len(t) = k
  BY <1>3, <1>4, <1>5
<1>7. \A n : Holds(ctl, k, n) => Holds(t, k, n)
  BY <1>6, AlikeHolds
<1>8. \A d \in 1..k : Borrows(t, d)
  BY <1>4, <1>6, AlikeHolds DEF Scoped
<1>9. HeldBy(app'.globals, ctl')
  BY <1>4, <1>5, <1>7 DEF HeldBy
<1>10. \A d \in 1..Len(ctl') : Borrows(ctl', d)
  BY <1>4, <1>5, <1>8
<1> QED
  BY <1>9, <1>10 DEF Scoped

LEMMA ScopedByGoto ==
  ASSUME Shaped, Scoped, status # "halted", NEW pc, Goto(pc),
         Neat(app'.globals), Plain(vm'.scopes), HeldBy(app'.globals, ctl)
  PROVE  Scoped'
<1> DEFINE x == [ctl[Depth] EXCEPT !.pc = pc]
<1>1. ctl' = Altered(ctl, Depth, x)
  BY DEF Goto, Altered
<1>2. x.who = Top.who /\ x.vars = Top.vars /\ x.saved = Top.saved
  <2>1. DOMAIN ctl[Depth] = ActivationFields
    BY ShapedFacts DEF Top
  <2> QED
    BY <2>1 DEF ActivationFields, Top
<1> HIDE DEF x
<1> QED
  BY <1>1, <1>2, ScopedGoesOn

\* Most instructions write no variable.
LEMMA ScopedStill ==
  ASSUME Shaped, Scoped, status # "halted", NEW pc, Goto(pc),
         app'.globals = app.globals, vm'.scopes = vm.scopes
  PROVE  Scoped'
<1>1. Neat(app'.globals) /\ Plain(vm'.scopes) /\ HeldBy(app'.globals, ctl)
  BY DEF Scoped
<1> QED
  BY <1>1, ScopedByGoto

LEMMA ScopedBegan ==
  ASSUME Shaped, Scoped, status # "halted", NEW a, ctl' = Append(ctl, a),
         Neat(app'.globals), Plain(vm'.scopes), Len(a.vars) = Slots(a.who),
         \A j \in 1..Len(a.vars) :
           IsPlaceholder(a.vars[j]) /\ a.saved[j] # <<>> => Holds(ctl, Depth, a.vars[j]),
         \A n \in Named(app'.globals) : IsPlaceholder(n) =>
           Holds(ctl, Depth, n) \/ \E j \in 1..Len(a.vars) : a.vars[j] = n
  PROVE  Scoped'
<1>1. PICK k \in Nat : k = Len(ctl) /\ k = Depth
  BY SeqShape DEF Shaped, CtlShape, Depth
<1>2. PICK t : t = ctl'
  OBVIOUS
<1>3. Len(t) = k + 1 /\ t[k + 1] = a /\ \A i \in 1..k : t[i] = ctl[i]
  <2>1. IsSeq(ctl) /\ t = Append(ctl, a)
    BY <1>2 DEF Shaped, CtlShape
  <2>2. /\ Len(Append(ctl, a)) = Len(ctl) + 1 /\ Append(ctl, a)[Len(ctl) + 1] = a
        /\ \A i \in 1..Len(ctl) : Append(ctl, a)[i] = ctl[i]
    BY <2>1, AppendSeq
  <2> QED
    BY <1>1, <2>1, <2>2
<1>4. Alike(ctl, t, k)
  BY <1>3 DEF Alike
<1>5. \A n : Holds(ctl, k, n) => Holds(t, k, n)
  BY <1>4, AlikeHolds
<1>6. \A d \in 1..k : Borrows(t, d)
  BY <1>1, <1>4, AlikeHolds DEF Scoped
<1>7. Borrows(t, k + 1)
  <2>1. k + 1 - 1 = k
    BY <1>1
  <2> QED
    BY <2>1, <1>1, <1>3, <1>5 DEF Borrows
<1>8. ASSUME NEW n, Holds(ctl, k, n) \/ \E j \in 1..Len(a.vars) : a.vars[j] = n
      PROVE  Holds(t, k + 1, n)
  <2>1. CASE Holds(ctl, k, n)
    <3>1. Holds(t, k, n)
      BY <2>1, <1>5
    <3>2. 1..k \subseteq 1..(k + 1)
      BY <1>1
    <3> QED
      BY <3>1, <3>2 DEF Holds
  <2>2. CASE \E j \in 1..Len(a.vars) : a.vars[j] = n
    <3>1. k + 1 \in 1..(k + 1)
      BY <1>1
    <3> QED
      BY <2>2, <3>1, <1>3 DEF Holds
  <2> QED
    BY <1>8, <2>1, <2>2
<1>9. HeldBy(app'.globals, t)
  BY <1>1, <1>3, <1>8 DEF HeldBy
<1>10. \A d \in 1..(k + 1) : d = k + 1 \/ d \in 1..k
  BY <1>1
<1>11. \A d \in 1..Len(t) : Borrows(t, d)
  BY <1>3, <1>6, <1>7, <1>10
<1> QED
  BY <1>2, <1>9, <1>11 DEF Scoped

LEMMA ScopedEnded ==
  ASSUME Shaped, Scoped, status # "halted", Depth > 1, Resumed,
         Neat(app'.globals), Plain(vm'.scopes),
         \A n \in Named(app'.globals) : IsPlaceholder(n) => Holds(ctl, Depth - 1, n)
  PROVE  Scoped'
<1>1. PICK k \in Nat : k + 1 = Len(ctl) /\ k = Depth - 1 /\ k \in 1..k
  <2>1. Depth \in Nat /\ Depth = Len(ctl)
    BY ShapedFacts DEF Depth
  <2>2. Depth - 1 \in Nat /\ Depth - 1 \in 1..(Depth - 1)
    BY <2>1
  <2> QED
    BY <2>1, <2>2
<1>2. PICK t : t = ctl'
  OBVIOUS
<1> DEFINE x == [Front(ctl)[k] EXCEPT !.pc = @ + 1]
<1>3. IsSeq(Front(ctl)) /\ Len(Front(ctl)) = k /\ \A i \in 1..k : Front(ctl)[i] = ctl[i]
  <2>1. IsSeq(ctl) /\ ctl # <<>> /\ Len(ctl) - 1 = k
    BY <1>1, ShapedFacts
  <2> QED
    BY <2>1, FrontSeq
<1>4. t = Altered(Front(ctl), k, x)
  BY <1>1, <1>2 DEF Resumed, Altered
<1>5. x.who = ctl[k].who /\ x.vars = ctl[k].vars /\ x.saved = ctl[k].saved
  <2>1. k \in 1..Len(ctl)
    BY <1>1
  <2>2. DOMAIN ctl[k] = ActivationFields
    BY <2>1 DEF Shaped, CtlShape
  <2> QED
    BY <2>2, <1>1, <1>3 DEF ActivationFields
<1> HIDE DEF x
<1>6. Len(t) = k /\ \A i \in 1..k : t[i] = IF i = k THEN x ELSE Front(ctl)[i]
  BY <1>3, <1>4, AlteredSeq
<1>7. Alike(ctl, t, k)
  BY <1>3, <1>5, <1>6 DEF Alike
<1>8. \A n : Holds(ctl, k, n) => Holds(t, k, n)
  BY <1>7, AlikeHolds
<1>9. \A d \in 1..k : Borrows(t, d)
  <2>1. 1..k \subseteq 1..Len(ctl)
    BY <1>1
  <2> QED
    BY <2>1, <1>7, AlikeHolds DEF Scoped
<1>10. HeldBy(app'.globals, t)
  BY <1>1, <1>6, <1>8 DEF HeldBy
<1> QED
  BY <1>2, <1>6, <1>9, <1>10 DEF Scoped

\* What a loop that ends does to the names, seen from the activations below it.
LEMMA FinishHeld ==
  ASSUME NEW st, NEW t, NEW c, NEW k \in Nat, Tame(st), t.who \in LoopOps,
         Len(t.vars) = Slots(t.who),
         \A j \in 1..Len(t.vars) : IsPlaceholder(t.vars[j]) /\ t.saved[j] # <<>> => Holds(c, k, t.vars[j]),
         \A n \in Globals(st) : IsPlaceholder(n) =>
           Holds(c, k, n) \/ \E j \in 1..Len(t.vars) : t.vars[j] = n
  PROVE  /\ Tame(FinishTemplate(st, t))
         /\ \A n \in Globals(FinishTemplate(st, t)) : IsPlaceholder(n) => Holds(c, k, n)
<1> DEFINE r == FinishTemplate(st, t)
<1>1. /\ Tame(r)
      /\ \A n \in Globals(r) : \/ \E j \in 1..Len(t.vars) : t.vars[j] = n /\ t.saved[j] # <<>>
                               \/ n \in Globals(st) /\ \A j \in 1..Len(t.vars) : t.vars[j] # n
  BY FinishTemplateNames
<1> HIDE DEF r
<1>2. ASSUME NEW n \in Globals(r), IsPlaceholder(n) PROVE Holds(c, k, n)
  <2>1. CASE \E j \in 1..Len(t.vars) : t.vars[j] = n /\ t.saved[j] # <<>>
    BY <1>2, <2>1
  <2>2. CASE n \in Globals(st) /\ \A j \in 1..Len(t.vars) : t.vars[j] # n
    BY <1>2, <2>2
  <2> QED
    BY <1>1, <2>1, <2>2
<1> QED
  BY <1>1, <1>2 DEF r

-----------------------------------------------------------------------------
(* Placeholders: what each instruction does to them.                       *)

\* The code's own variables, locals and inputs are no placeholders.
OwnNames(c) ==
  /\ \A i \in 1..Len(c.code) : c.code[i].op \in {"SET_VAR", "LOCAL"} => ~IsPlaceholder(c.code[i].text)
  /\ \A p \in 1..Len(c.procs) : /\ IsSeq(c.procs[p].params)
                                /\ \A j \in 1..Len(c.procs[p].params) :
                                     ~IsPlaceholder(c.procs[p].params[j])
OwnCode == \A i \in 1..Len(chunks) : OwnNames(chunks[i])
NamesItsOwn(op, text) == Translate(op, text) # <<>> => OwnNames(Translate(op, text)[1])
CompilesOwnNames ==
  /\ NamesItsOwn("main", script.text)
  /\ Compiling => NamesItsOwn(Ins.op, SnippetText(Ins.op))

\* The templates eval.c runs leave no placeholder either.
EvaluatorRestores ==
  Fetch({"CALL_BUILTIN"}) /\ Ins.text \in TemplateBuiltins =>
    /\ Neat(app'.globals)
    /\ \A n \in Named(app'.globals) : IsPlaceholder(n) => n \in Named(app.globals)

Still == /\ app'.globals = app.globals /\ vm'.scopes = vm.scopes
         /\ \E pc : Goto(pc)

LEMMA StillOnStack ==
  ASSUME Ready,
         PushValue \/ PopOrPoke \/ Unary \/ Binary \/ Jump \/ JumpIfFalse \/ VoidResult
           \/ CountRepeat \/ CheckThrow \/ MotionDelay
  PROVE  Still
<1> USE DEF Step, Here
<1>0. DOMAIN vm = VmFields
  BY DEF Ready, VmShape
<1>1. \A v : Pushed(vm, v).scopes = vm.scopes
  BY <1>0, StackNames
<1>2. \A n : DOMAIN Drop(vm, n) = VmFields /\ Drop(vm, n).scopes = vm.scopes
  BY <1>0, DropNames
<1>3. \A n, v : Pushed(Drop(vm, n), v).scopes = vm.scopes
  BY <1>2, StackNames
<1>4. CASE PushValue
  BY <1>1, <1>4, Zenon DEF PushValue, Still
<1>5. CASE PopOrPoke
  <2>1. \A d, v : Poked(Drop(vm, 1), d, v).scopes = vm.scopes
    BY <1>2, PokedNames
  <2>2. UNCHANGED app /\ \E pc : Goto(pc)
    BY <1>5, Zenon DEF PopOrPoke
  <2>3. \/ vm' = Drop(vm, 1)
        \/ \E d, v : vm' = Poked(Drop(vm, 1), d, v)
    BY <1>5, Zenon DEF PopOrPoke
  <2> QED
    BY <2>1, <2>2, <2>3, <1>2 DEF Still
<1>6. CASE Unary
  BY <1>3, <1>6, Zenon DEF Unary, Still
<1>7. CASE Binary
  BY <1>3, <1>7, Zenon DEF Binary, Still
<1>8. CASE Jump
  BY <1>8, Zenon DEF Jump, Still
<1>9. CASE JumpIfFalse
  BY <1>2, <1>9, Zenon DEF JumpIfFalse, Still
<1>10. CASE VoidResult
  <2> DEFINE m == IF Ins.op = "VOID_DISCARD" THEN Drop(vm, 1) ELSE vm
  <2>1. DOMAIN m = VmFields /\ m.scopes = vm.scopes
    BY <1>0, <1>2
  <2>2. vm' = Pushed(Reports(m, TRUE, FALSE), Num(0)) /\ UNCHANGED app /\ \E pc : Goto(pc)
    BY <1>10, Zenon DEF VoidResult
  <2> HIDE DEF m
  <2>3. DOMAIN Reports(m, TRUE, FALSE) = VmFields /\ Reports(m, TRUE, FALSE).scopes = m.scopes
    BY <2>1, ReportsNames
  <2>4. Pushed(Reports(m, TRUE, FALSE), Num(0)).scopes = m.scopes
    BY <2>3, StackNames
  <2> QED
    BY <2>1, <2>2, <2>4 DEF Still
<1>11. CASE CountRepeat
  <2>1. UNCHANGED app /\ \E pc : Goto(pc)
    BY <1>11, Zenon DEF CountRepeat
  <2>2. vm'.scopes = vm.scopes
    BY <1>0, <1>11 DEF CountRepeat, VmFields
  <2> QED
    BY <2>1, <2>2 DEF Still
<1>12. CASE CheckThrow
  BY <1>12, Zenon DEF CheckThrow, Still
<1>13. CASE MotionDelay
  BY <1>13, Zenon DEF MotionDelay, Still
<1> QED
  BY <1>4, <1>5, <1>6, <1>7, <1>8, <1>9, <1>10, <1>11, <1>12, <1>13

LEMMA StillSaying ==
  ASSUME Ready,
         CheckOutput \/ EraseProc \/ Catch \/ CheckUncaughtThrow \/ Wait \/ AskUser \/ Pause
           \/ AwaitOrYield \/ Launch
  PROVE  Still
<1> USE DEF Step
<1>0. DOMAIN vm = VmFields /\ DOMAIN app = AppFields
  BY DEF Ready, VmShape, AppShape
<1>1. \A n : DOMAIN Drop(vm, n) = VmFields /\ Drop(vm, n).scopes = vm.scopes
  BY <1>0, DropNames
<1>2. \A n, v : Pushed(Drop(vm, n), v).scopes = vm.scopes
  BY <1>1, StackNames
<1>3. \A v : DOMAIN Pushed(vm, v) = VmFields /\ Pushed(vm, v).scopes = vm.scopes
  BY <1>0, StackNames
<1>4. \A text : SayLine(app, text).globals = app.globals
  BY <1>0, SayNames
<1>5. RefuseNested(app).globals = app.globals
  BY <1>4 DEF RefuseNested
<1>6. CASE CheckOutput
  <2>1. \/ UNCHANGED <<app, vm>>
        \/ \E text, v : app' = SayLine(app, text) /\ vm' = Pushed(Drop(vm, 1), v)
    BY <1>6, Zenon DEF CheckOutput, Becomes
  <2>2. \E pc : Goto(pc)
    BY <1>6, Zenon DEF CheckOutput
  <2> QED
    BY <1>2, <1>4, <2>1, <2>2 DEF Still
<1>7. CASE EraseProc
  <2>1. UNCHANGED vm /\ (UNCHANGED app \/ \E text : app' = SayLine(app, text))
    BY <1>7 DEF EraseProc
  <2>2. \E pc : Goto(pc)
    BY <1>7, Zenon DEF EraseProc
  <2> QED
    BY <1>4, <2>1, <2>2 DEF Still
<1>8. CASE Catch
  <2>1. \A tag : CatchCheck(app, tag).globals = app.globals
    BY <1>0 DEF CatchCheck, AppFields
  <2>2. vm' = Drop(vm, 1) /\ \E tag : app' = CatchCheck(app, tag)
    BY <1>8 DEF Catch, Becomes
  <2>3. \E pc : Goto(pc)
    BY <1>8, Zenon DEF Catch
  <2> QED
    BY <1>1, <2>1, <2>2, <2>3 DEF Still
<1>9. CASE CheckUncaughtThrow
  <2>1. ReportUncaught(app).globals = app.globals
    <3> DEFINE said == SayLine(app, "THROW: no CATCH found for \"" \o app.tag)
    <3>1. DOMAIN said = AppFields /\ said.globals = app.globals
      BY <1>0, SayNames
    <3>2. ReportUncaught(app) = [said EXCEPT !.throwing = FALSE]
      BY DEF ReportUncaught
    <3> HIDE DEF said
    <3> QED
      BY <3>1, <3>2 DEF AppFields
  <2>2. UNCHANGED vm /\ \E pc : Goto(pc)
    BY <1>9, Zenon DEF CheckUncaughtThrow
  <2>3. UNCHANGED app \/ app' = ReportUncaught(app)
    BY <1>9 DEF CheckUncaughtThrow
  <2> QED
    BY <2>1, <2>2, <2>3 DEF Still
<1>10. CASE Wait
  <2>1. vm' = Drop(vm, 1) /\ \E pc : Goto(pc)
    BY <1>10, Zenon DEF Wait
  <2>2. UNCHANGED app \/ app' = RefuseNested(app)
    BY <1>10, Zenon DEF Wait
  <2> QED
    BY <1>1, <1>5, <2>1, <2>2 DEF Still
<1>11. CASE AskUser
  <2>1. \E pc : Goto(pc)
    BY <1>11, Zenon DEF AskUser
  <2>2. \/ UNCHANGED <<app, vm>>
        \/ app' = RefuseNested(app) /\ vm' = Reports(Pushed(vm, EmptyWord), TRUE, TRUE)
    BY <1>11, Zenon DEF AskUser, Becomes
  <2>3. Reports(Pushed(vm, EmptyWord), TRUE, TRUE).scopes = vm.scopes
    <3> DEFINE p == Pushed(vm, EmptyWord)
    <3>1. DOMAIN p = VmFields /\ p.scopes = vm.scopes
      BY <1>3
    <3> HIDE DEF p
    <3>2. Reports(p, TRUE, TRUE).scopes = vm.scopes
      BY <3>1, ReportsNames
    <3> QED
      BY <3>2 DEF p
  <2> QED
    BY <1>5, <2>1, <2>2, <2>3 DEF Still
<1>12. CASE Pause
  <2>1. UNCHANGED vm /\ \E pc : Goto(pc)
    BY <1>12, Zenon DEF Pause
  <2>2. \/ app' = RefuseNested(app)
        \/ \E text, level : app' = SayLine([app EXCEPT !.paused = level], text)
    BY <1>12, Zenon DEF Pause
  <2>3. \A text, level : SayLine([app EXCEPT !.paused = level], text).globals = app.globals
    BY <1>0 DEF SayLine, Say, AppFields
  <2> QED
    BY <1>5, <2>1, <2>2, <2>3 DEF Still
<1>13. CASE AwaitOrYield
  <2>1. UNCHANGED vm /\ \E pc : Goto(pc)
    BY <1>13, Zenon DEF AwaitOrYield
  <2>2. UNCHANGED app \/ app' = RefuseNested(app)
    BY <1>13, Zenon DEF AwaitOrYield
  <2> QED
    BY <1>5, <2>1, <2>2 DEF Still
<1>14. CASE Launch
  <2>1. \E pc : Goto(pc)
    BY <1>14, Zenon DEF Launch
  <2>2. \/ vm' = Pushed(Drop(vm, 2), Num(0))
        \/ vm' = Drop(vm, 2)
    BY <1>14, Zenon DEF Launch
  <2>3. UNCHANGED app \/ app' = RefuseNested(app) \/ \E text : app' = SayLine(app, text)
    BY <1>14, Zenon DEF Launch
  <2> QED
    BY <1>1, <1>2, <1>4, <1>5, <2>1, <2>2, <2>3 DEF Still
<1> QED
  BY <1>6, <1>7, <1>8, <1>9, <1>10, <1>11, <1>12, <1>13, <1>14

\* Where the machine is: the places its lemmas speak of.
LEMMA ScopedHere ==
  ASSUME Shaped, Scoped, status = "running"
  PROVE  /\ DOMAIN app = AppFields /\ DOMAIN vm = VmFields /\ IsSeq(ctl)
         /\ Depth = Len(ctl) /\ Depth \in Nat \ {0} /\ Depth \in 1..Len(ctl)
         /\ Borrows(ctl, Depth) /\ Top = ctl[Depth]
         /\ Tame([app |-> app, vm |-> vm])
<1>1. DOMAIN app = AppFields /\ DOMAIN vm = VmFields
  BY DEF Shaped, AppShape, VmShape
<1>2. Depth = Len(ctl) /\ Depth \in Nat \ {0} /\ Depth \in 1..Len(ctl) /\ IsSeq(ctl)
  BY ShapedFacts DEF Depth
<1> QED
  BY <1>1, <1>2 DEF Scoped, Tame, Top

LEMMA ScopedVariables ==
  ASSUME Shaped, Scoped, Ready, OwnNames(Chunk), SetVariable \/ Local
  PROVE  Scoped'
<1> USE DEF Step, Here
<1>1. ~IsPlaceholder(Ins.text)
  <2>1. InCode /\ Ins.op \in {"SET_VAR", "LOCAL"}
    BY DEF SetVariable, Local, Fetch
  <2>2. Len(Chunk.code) \in Nat
    BY SeqShape DEF Ready, AssembledChunk
  <2>3. Top.pc + 1 \in 1..Len(Chunk.code)
    BY <2>1, <2>2 DEF InCode
  <2> QED
    BY <2>1, <2>3 DEF OwnNames, Ins
<1>2. Tame([app |-> app, vm |-> vm]) /\ DOMAIN app = AppFields /\ DOMAIN vm = VmFields
  BY ScopedHere DEF Ready
<1>3. CASE SetVariable
  <2> DEFINE st == [app |-> app, vm |-> Drop(vm, 1)]
  <2>1. PICK v : Becomes(Bind(st, Ins.text, v)) /\ Step
    BY <1>3, Zenon DEF SetVariable
  <2>2. Tame(st) /\ Globals(st) = Named(app.globals)
    BY <1>2, DropNames DEF Tame, Globals
  <2> DEFINE b == Bind(st, Ins.text, v)
  <2> HIDE DEF st
  <2>3. Tame(b) /\ Globals(b) \subseteq Globals(st) \union {Ins.text}
    BY <2>2, BindNames
  <2> HIDE DEF b
  <2>4. app' = b.app /\ vm' = b.vm /\ Goto(Top.pc + 1)
    BY <2>1 DEF Becomes, b, st
  <2>5. Neat(app'.globals) /\ Plain(vm'.scopes)
    BY <2>3, <2>4 DEF Tame
  <2>6. HeldBy(app'.globals, ctl)
    BY <1>1, <2>2, <2>3, <2>4 DEF HeldBy, Scoped, Globals
  <2> QED
    BY <2>4, <2>5, <2>6, ScopedByGoto DEF Ready
<1>4. CASE Local
  <2> DEFINE r == DeclareLocal(app, vm.scopes, Ins.text)
  <2>1. /\ app' = r.app /\ vm' = [vm EXCEPT !.scopes = r.ss] /\ Goto(Top.pc + 1)
    BY <1>4 DEF Local, Becomes
  <2>2. r.app.globals = app.globals /\ Plain(r.ss)
    BY <1>1, <1>2, DeclareLocalNames DEF Scoped
  <2> HIDE DEF r
  <2>3. vm'.scopes = r.ss
    BY <1>2, <2>1 DEF VmFields
  <2>4. Neat(app'.globals) /\ Plain(vm'.scopes) /\ HeldBy(app'.globals, ctl)
    BY <2>1, <2>2, <2>3 DEF Scoped
  <2> QED
    BY <2>1, <2>4, ScopedByGoto DEF Ready
<1> QED
  BY <1>3, <1>4

LEMMA ScopedBuiltin ==
  ASSUME Shaped, Scoped, Ready, EvaluatorRestores, CallBuiltin
  PROVE  Scoped'
<1> USE DEF Step, Here
<1> DEFINE r == VmBuiltin(Ins.text, Args(vm, Ins.a))
           d == Drop(vm, Ins.a)
           e == Reports(d, TRUE, r.produced)
<1>1. /\ Fetch({"CALL_BUILTIN"}) /\ app' = r.app /\ vm' = Pushed(e, r.v) /\ Goto(Top.pc + 1)
  BY DEF CallBuiltin, BuiltinDone, Becomes
<1>2. DOMAIN vm = VmFields /\ AppShape(app)
  BY DEF Ready, VmShape
<1>3. DOMAIN d = VmFields /\ d.scopes = vm.scopes
  BY <1>2, DropNames
<1> HIDE DEF d
<1>4. DOMAIN e = VmFields /\ e.scopes = d.scopes
  BY <1>3, ReportsNames
<1> HIDE DEF e
<1>5. vm'.scopes = vm.scopes
  BY <1>1, <1>3, <1>4, StackNames
<1>6. CASE Ins.text \notin TemplateBuiltins
  <2>1. r.app.globals = app.globals
    BY <1>2, <1>6, VmBuiltinNames
  <2> HIDE DEF r
  <2> QED
    BY <1>1, <1>5, <2>1, ScopedStill DEF Ready
<1>7. CASE Ins.text \in TemplateBuiltins
  <2> HIDE DEF r
  <2>1. /\ Neat(app'.globals)
        /\ \A n \in Named(app'.globals) : IsPlaceholder(n) => n \in Named(app.globals)
    BY <1>1, <1>7 DEF EvaluatorRestores
  <2>2. HeldBy(app'.globals, ctl)
    BY <2>1 DEF HeldBy, Scoped
  <2>3. Plain(vm'.scopes)
    BY <1>5 DEF Scoped
  <2> QED
    BY <1>1, <2>1, <2>2, <2>3, ScopedByGoto DEF Ready
<1> QED
  BY <1>6, <1>7

LEMMA FindProcEntryFinds ==
  ASSUME NEW procs, NEW name, IsSeq(procs), FindProcEntry(procs, name) # <<>>
  PROVE  \E j \in 1..Len(procs) : FindProcEntry(procs, name)[1] = procs[j]
<1> DEFINE hits == {i \in 1..Len(procs) : procs[i].name = name}
           i == CHOOSE i \in hits : \A j \in hits : i <= j
<1>1. FindProcEntry(procs, name) = IF hits = {} THEN <<>> ELSE <<procs[i]>>
  BY DEF FindProcEntry
<1>2. hits # {} /\ Len(procs) \in Nat
  BY <1>1, SeqShape
<1>3. \E x \in hits : \A y \in hits : x <= y
  BY <1>2, LeastIndex
<1>4. i \in hits
  BY <1>3
<1>5. i \in 1..Len(procs)
  BY <1>4
<1> HIDE DEF i
<1> QED
  BY <1>1, <1>2, <1>5

Callable(def) == /\ IsSeq(def.params)
                 /\ \A j \in 1..Len(def.params) : ~IsPlaceholder(def.params[j])
\* What a call leaves, whether or not it is entered.
CallLeaves == /\ app'.globals = app.globals /\ Plain(vm'.scopes)
              /\ \E pc : Goto(pc)

LEMMA CallLeft ==
  ASSUME Shaped, Scoped, status # "halted", CallLeaves
  PROVE  Scoped'
<1>1. Neat(app'.globals) /\ Plain(vm'.scopes) /\ HeldBy(app'.globals, ctl)
  BY DEF CallLeaves, Scoped
<1>2. PICK pc : Goto(pc)
  BY DEF CallLeaves
<1> QED
  BY <1>1, <1>2, ScopedByGoto

LEMMA EnterNames ==
  ASSUME DOMAIN app = AppFields, NEW m, NEW def, NEW args, NEW target, NEW failed,
         DOMAIN m = VmFields, Plain(m.scopes), Plain(failed.scopes), Callable(def),
         Enter(m, def, args, target, failed)
  PROVE  CallLeaves
<1> USE DEF Step
<1> DEFINE scope == PushScope(m.scopes, MaxVmScopes, def.name, def.params, args)
<1>1. \/ /\ app' = app \/ app' = TooDeep(app)
         /\ vm' = failed /\ Goto(Top.pc + 1)
      \/ /\ scope # <<>> /\ UNCHANGED app /\ Goto(target)
         /\ vm' = [m EXCEPT !.scopes = scope[1],
                            !.frames = Append(@, [pc |-> Top.pc + 1, base |-> m.top])]
  BY Zenon DEF Enter, Becomes
<1>2. TooDeep(app).globals = app.globals
  BY SayNames DEF TooDeep
<1>3. scope # <<>> => Plain(scope[1])
  BY PushScopePlain DEF Callable
<1> HIDE DEF scope
<1>4. [m EXCEPT !.scopes = scope[1],
                !.frames = Append(@, [pc |-> Top.pc + 1, base |-> m.top])].scopes = scope[1]
  BY DEF VmFields
<1> QED
  BY <1>1, <1>2, <1>3, <1>4 DEF CallLeaves

LEMMA ScopedCalls ==
  ASSUME Shaped, Scoped, Ready, OwnNames(Chunk), CallProc \/ Send \/ Apply
  PROVE  Scoped'
<1> USE DEF Step
<1>1. DOMAIN app = AppFields /\ DOMAIN vm = VmFields /\ Plain(vm.scopes)
  BY DEF Ready, VmShape, AppShape, Scoped
<1>2. \A n : DOMAIN Drop(vm, n) = VmFields /\ Drop(vm, n).scopes = vm.scopes
  BY <1>1, DropNames
<1>3. \A text : SayLine(app, text).globals = app.globals
  BY <1>1, SayNames
<1>4. IsSeq(Chunk.procs) /\ \A p \in 1..Len(Chunk.procs) : Callable(Chunk.procs[p])
  BY DEF Ready, AssembledChunk, OwnNames, Callable
<1>5. ASSUME NEW m, DOMAIN m = VmFields, Plain(m.scopes)
      PROVE  \A x, y, v : Plain(Pushed(m, v).scopes) /\ Plain(Pushed(Reports(m, x, y), v).scopes)
  BY <1>5, StackNames, ReportsNames
<1>6. ASSUME NEW m, NEW msg, NEW v, DOMAIN m = VmFields, Plain(m.scopes), Refuse(m, msg, v)
      PROVE  CallLeaves
  BY <1>3, <1>5, <1>6 DEF Refuse, Becomes, CallLeaves
<1>7. CASE CallProc
  <2> DEFINE def == FindProcEntry(Chunk.procs, Ins.text)
             m == Drop(vm, Ins.b)
             args == Args(vm, Ins.b)
             failed == Pushed(Reports(m, TRUE, FALSE), Num(0))
  <2>1. \/ \E msg, v : Refuse(m, msg, v)
        \/ def # <<>> /\ Enter(m, def[1], args, Ins.a, failed)
    BY <1>7, Zenon DEF CallProc
  <2>2. def # <<>> => Callable(def[1])
    <3>1. def # <<>> => \E j \in 1..Len(Chunk.procs) : def[1] = Chunk.procs[j]
      BY <1>4, FindByNameFinds, FindProcEntryFinds
    <3> QED
      BY <3>1, <1>4
  <2>3. DOMAIN m = VmFields /\ Plain(m.scopes)
    BY <1>1, <1>2
  <2>4. Plain(failed.scopes)
    BY <2>3, <1>5
  <2> HIDE DEF m, def, args, failed
  <2>5. CallLeaves
    BY <1>1, <1>6, <2>1, <2>2, <2>3, <2>4, EnterNames
  <2> QED
    BY <2>5, CallLeft DEF Ready
<1>8. CASE Send
  <2> DEFINE object  == ValueText(TopOf(vm, 2))
             message == ValueText(TopOf(vm, 1))
             method  == ResolveMethod(app, Chunk.procs, object, message)
             args    == SendArgs(object, TopOf(vm, 0))
             d       == Drop(vm, 3)
             m       == [d EXCEPT !.message = message]
             failed  == Pushed(Reports(m, FALSE, FALSE), EmptyWord)
  <2>1. \/ \E msg, v : Refuse(m, msg, v)
        \/ method.def # <<>> /\ Enter(m, method.def[1], args, method.def[1].pc, failed)
    BY <1>8, Zenon DEF Send
  <2>2. method.def # <<>> => Callable(method.def[1])
    <3>1. method.def # <<>> => \E j \in 1..Len(Chunk.procs) : method.def[1] = Chunk.procs[j]
      BY <1>4, MethodIsProcedure
    <3> HIDE DEF method
    <3> QED
      BY <3>1, <1>4
  <2>3. DOMAIN m = VmFields /\ Plain(m.scopes)
    <3>1. DOMAIN d = VmFields /\ d.scopes = vm.scopes
      BY <1>2
    <3> HIDE DEF d
    <3> QED
      BY <1>1, <3>1 DEF VmFields
  <2>4. Plain(failed.scopes)
    BY <2>3, <1>5
  <2> HIDE DEF m, method, args, failed
  <2>5. CallLeaves
    BY <1>1, <1>6, <2>1, <2>2, <2>3, <2>4, EnterNames
  <2> QED
    BY <2>5, CallLeft DEF Ready
<1>9. CASE Apply
  <2> DEFINE r == ResolveApply("APPLY", Chunk.procs, ValueText(TopOf(vm, 1)), TopOf(vm, 0))
             m == Drop(vm, 2)
             failed == Pushed(m, Num(0))
  <2>1. \/ app' = SayLine(app, r.msg) /\ vm' = failed /\ Goto(Top.pc + 1)
        \/ r.def # <<>> /\ Enter(m, r.def[1], r.args, r.def[1].pc, failed)
    BY <1>9, Zenon DEF Apply, Becomes
  <2>2. r.def # <<>> => Callable(r.def[1])
    <3>1. r.def # <<>> => \E j \in 1..Len(Chunk.procs) : r.def[1] = Chunk.procs[j]
      BY <1>4, AppliedIsProcedure
    <3> HIDE DEF r
    <3> QED
      BY <3>1, <1>4
  <2>3. DOMAIN m = VmFields /\ Plain(m.scopes)
    BY <1>1, <1>2
  <2>4. Plain(failed.scopes)
    BY <2>3, <1>5
  <2> HIDE DEF m, r, failed
  <2>5. ASSUME app' = SayLine(app, r.msg), vm' = failed, Goto(Top.pc + 1) PROVE CallLeaves
    BY <1>3, <2>4, <2>5 DEF CallLeaves
  <2>6. ASSUME r.def # <<>>, Enter(m, r.def[1], r.args, r.def[1].pc, failed) PROVE CallLeaves
    BY <1>1, <2>2, <2>3, <2>4, <2>6, EnterNames
  <2> QED
    BY <2>1, <2>5, <2>6, CallLeft DEF Ready
<1> QED
  BY <1>7, <1>8, <1>9

LEMMA ScopedReturns ==
  ASSUME Shaped, Scoped, Ready, Return
  PROVE  Scoped'
<1> DEFINE outputs == Ins.op = "OUTPUT"
           value   == IF outputs THEN TopOf(vm, 0) ELSE Num(0)
           e       == IF outputs THEN Drop(vm, 1) ELSE vm
           m       == Reports(e, TRUE, outputs)
           frame   == vm.frames[Len(vm.frames)]
           left    == Left(m, frame)
<1>1. /\ UNCHANGED app
      /\ \/ vm' = m /\ Goto(-1)
         \/ vm' = Pushed(left, value) /\ Goto(frame.pc)
  BY Zenon DEF Return
<1>2. DOMAIN vm = VmFields /\ Plain(vm.scopes)
  BY DEF Ready, VmShape, Scoped
<1>3. DOMAIN e = VmFields /\ e.scopes = vm.scopes
  BY <1>2, DropNames
<1> HIDE DEF e, outputs, value, frame
<1>4. DOMAIN m = VmFields /\ m.scopes = vm.scopes
  BY <1>3, ReportsNames
<1> HIDE DEF m
<1>5. DOMAIN left = VmFields /\ left.scopes = Front(vm.scopes)
  BY <1>4 DEF Left, VmFields
<1> HIDE DEF left
<1>6. Pushed(left, value).scopes = Front(vm.scopes)
  BY <1>5, StackNames
<1>7. Plain(Front(vm.scopes))
  BY <1>2, FrontPlain
<1>8. CallLeaves
  BY <1>1, <1>2, <1>4, <1>6, <1>7 DEF CallLeaves
<1> QED
  BY <1>8, CallLeft DEF Ready

LEMMA ScopedStartSnippet ==
  ASSUME Shaped, Scoped, Ready, StartSnippet
  PROVE  Scoped'
<1> USE DEF Step
<1> DEFINE op == Ins.op
           m == IF op = "LOAD" THEN vm ELSE Drop(vm, 1)
           program == Translate(op, SnippetText(op))
<1>1. /\ op \in SnippetOps
      /\ SkipSnippet(op, m) \/ (program # <<>> /\ RunChunk(op, m, program[1]))
  BY Zenon DEF StartSnippet, Fetch, RunProgram, SnippetOps
<1>2. DOMAIN app = AppFields /\ DOMAIN vm = VmFields
  BY DEF Ready, VmShape, AppShape
<1>3. DOMAIN m = VmFields /\ m.scopes = vm.scopes
  BY <1>2, DropNames
<1> HIDE DEF m, program
<1>4. CASE SkipSnippet(op, m)
  <2> DEFINE e == Reports(m, TRUE, TRUE)
  <2>1. /\ app' = SayIf(app, SnippetRefusal(op)) /\ Goto(Top.pc + 1)
        /\ vm' = IF op = "EXECTIME" THEN Pushed(e, Num(0)) ELSE m
    BY <1>4 DEF SkipSnippet, SnippetResult, Becomes
  <2>2. DOMAIN e = VmFields /\ e.scopes = m.scopes
    BY <1>3, ReportsNames
  <2> HIDE DEF e
  <2>3. vm'.scopes = vm.scopes
    BY <1>3, <2>1, <2>2, StackNames
  <2>4. app'.globals = app.globals
    BY <1>2, <2>1, SayNames
  <2> QED
    BY <2>1, <2>3, <2>4, ScopedStill DEF Ready
<1>5. CASE program # <<>> /\ RunChunk(op, m, program[1])
  <2> DEFINE a == [Activation(op, Len(chunks) + 1, program[1].start) EXCEPT !.floor = Len(m.frames)]
  <2>1. /\ vm' = m /\ ctl' = Append(ctl, a)
        /\ app' = IF op = "LOAD" THEN app ELSE [app EXCEPT !.runDepth = @ + 1]
    BY <1>5 DEF RunChunk
  <2>2. a.who = op /\ a.vars = <<>>
    BY DEF Activation
  <2> HIDE DEF a
  <2>3. Slots(a.who) = 0 /\ Len(a.vars) = 0
    BY <1>1, <2>2, EmptyIsSeq DEF Slots, SnippetOps, LoopOps
  <2>4. app'.globals = app.globals /\ vm'.scopes = vm.scopes
    BY <1>2, <1>3, <2>1 DEF AppFields
  <2>5. /\ Neat(app'.globals) /\ Plain(vm'.scopes)
        /\ \A n \in Named(app'.globals) : IsPlaceholder(n) => Holds(ctl, Depth, n)
    BY <2>4 DEF Scoped, HeldBy, Depth
  <2> QED
    BY <2>1, <2>3, <2>5, ScopedBegan DEF Ready
<1> QED
  BY <1>1, <1>4, <1>5

LEMMA ScopedEndSnippet ==
  ASSUME Shaped, Scoped, EndSnippet
  PROVE  Scoped'
<1> DEFINE said == SayIf(app, IF Escaped
                              THEN Top.who \o ": OUTPUT/STOP escaping " \o SnippetNoun(Top.who)
                                     \o " own top level is not fully supported" ELSE "")
<1>1. /\ status = "running" /\ Top.who \in SnippetOps /\ Resumed
      /\ app' = DepthLowered(Top.who, said) /\ vm' = SnippetResult(Top.who, vm)
  BY DEF EndSnippet, Returns, SnippetOps
<1>2. /\ DOMAIN app = AppFields /\ DOMAIN vm = VmFields /\ Depth = Len(ctl) /\ Depth \in 1..Len(ctl)
      /\ Depth \in Nat \ {0} /\ Borrows(ctl, Depth) /\ Top = ctl[Depth]
  BY <1>1, ScopedHere
<1>3. DOMAIN said = AppFields /\ said.globals = app.globals
  BY <1>2, SayNames
<1> HIDE DEF said
<1>4. app'.globals = app.globals
  BY <1>1, <1>3 DEF DepthLowered, AppFields
<1>5. vm'.scopes = vm.scopes
  <2> DEFINE e == Reports(vm, TRUE, TRUE)
  <2>1. vm' = IF Top.who = "EXECTIME" THEN Pushed(e, Num(0)) ELSE vm
    BY <1>1 DEF SnippetResult
  <2>2. DOMAIN e = VmFields /\ e.scopes = vm.scopes
    BY <1>2, ReportsNames
  <2> HIDE DEF e
  <2> QED
    BY <2>1, <2>2, StackNames
<1>6. Depth > 1
  <2>1. Top.who # "main"
    BY <1>1 DEF SnippetOps
  <2>2. Depth # 1
    BY <2>1, <1>1, ShapedFacts
  <2> QED
    BY <1>2, <2>2
<1>7. Len(ctl[Depth].vars) = 0
  BY <1>1, <1>2 DEF Borrows, Slots, SnippetOps, LoopOps
<1>8. ASSUME NEW n \in Named(app'.globals), IsPlaceholder(n) PROVE Holds(ctl, Depth - 1, n)
  <2>1. Holds(ctl, Depth, n)
    BY <1>2, <1>4, <1>8 DEF Scoped, HeldBy
  <2>2. PICK d \in 1..Depth : \E j \in 1..Len(ctl[d].vars) : ctl[d].vars[j] = n
    BY <2>1 DEF Holds
  <2>3. d # Depth
    BY <1>7, <2>2
  <2>4. d \in 1..(Depth - 1)
    BY <1>2, <2>3
  <2> QED
    BY <2>2, <2>4 DEF Holds
<1>9. Neat(app'.globals) /\ Plain(vm'.scopes)
  BY <1>4, <1>5 DEF Scoped
<1> QED
  BY <1>1, <1>6, <1>8, <1>9, ScopedEnded

LEMMA ScopedStartTemplate ==
  ASSUME Shaped, Scoped, Ready, StartTemplate
  PROVE  Scoped'
<1> USE DEF Step
<1> DEFINE who   == TemplateOf(Ins.op)
           list  == Elements(TopOf(vm, 0))
           folds == who = "REDUCE" /\ list # <<>>
           names == IF who = "REDUCE" THEN <<Ins.text \o "_1", Ins.text \o "_2">> ELSE <<Ins.text>>
           m     == Drop(vm, 1)
           saved == [i \in 1..Len(names) |-> Lookup(app, m.scopes, names[i])]
           rest  == IF folds THEN Tail(list) ELSE list
           result == CASE folds -> Coerced(Head(list))
                       [] who \in {"MAP", "FILTER"} -> EmptyList
                       [] OTHER -> Num(0)
           a     == [Activation(who, Top.chunk, Ins.a) EXCEPT
                       !.floor = Len(m.frames), !.vars = names, !.saved = saved, !.rest = rest,
                       !.result = result]
           st    == [app |-> app, vm |-> m]
<1>1. IF a.rest = <<>> THEN Becomes(FinishTemplate(st, a)) /\ Goto(Top.pc + 1)
      ELSE Becomes(BindPass(st, a)) /\ ctl' = Append(ctl, a)
  BY DEF StartTemplate
<1> HIDE DEF list, folds, rest, result
<1>2. a.who = who /\ a.vars = names /\ a.saved = saved
  BY DEF Activation
<1>3. who \in LoopOps
  BY DEF TemplateOf, LoopOps
<1>4. Len(names) = Slots(who)
  BY <1>3 DEF Slots
<1>5. \A j \in 1..Len(names) : saved[j] = Lookup(app, m.scopes, names[j])
  OBVIOUS
<1>6. DOMAIN app = AppFields /\ DOMAIN vm = VmFields
  BY DEF Ready, VmShape, AppShape
<1>7. DOMAIN m = VmFields /\ m.scopes = vm.scopes
  BY <1>6, DropNames
<1> HIDE DEF a, names, saved, m, who
<1>8. Tame(st) /\ Globals(st) = Named(app.globals)
  BY <1>6, <1>7 DEF Scoped, Tame, Globals
<1>9. Depth = Len(ctl) /\ Depth \in Nat
  BY ScopedHere DEF Ready
<1>10. \A j \in 1..Len(a.vars) :
         IsPlaceholder(a.vars[j]) /\ a.saved[j] # <<>> => Holds(ctl, Depth, a.vars[j])
  <2> SUFFICES ASSUME NEW j \in 1..Len(names), IsPlaceholder(names[j]), saved[j] # <<>>
               PROVE  Holds(ctl, Depth, names[j])
    BY <1>2
  <2>1. Lookup(app, vm.scopes, names[j]) # <<>>
    BY <1>5, <1>7
  <2>2. names[j] \in Named(app.globals)
    BY <2>1, LookupFinds DEF Scoped, Neat
  <2> QED
    BY <2>2, <1>9 DEF Scoped, HeldBy
<1>11. \A n \in Globals(st) : IsPlaceholder(n) => Holds(ctl, Depth, n)
  BY <1>8, <1>9 DEF Scoped, HeldBy
<1>12. a.who \in LoopOps /\ Len(a.vars) = Slots(a.who)
  BY <1>2, <1>3, <1>4
<1> HIDE DEF st
<1>13. CASE Becomes(FinishTemplate(st, a)) /\ Goto(Top.pc + 1)
  <2> DEFINE r == FinishTemplate(st, a)
  <2>1. Tame(r) /\ \A n \in Globals(r) : IsPlaceholder(n) => Holds(ctl, Depth, n)
    BY <1>8, <1>9, <1>10, <1>11, <1>12, FinishHeld
  <2>2. app' = r.app /\ vm' = r.vm
    BY <1>13 DEF Becomes
  <2> HIDE DEF r
  <2>3. Neat(app'.globals) /\ Plain(vm'.scopes) /\ HeldBy(app'.globals, ctl)
    BY <1>9, <2>1, <2>2 DEF Tame, Globals, HeldBy
  <2> QED
    BY <1>13, <2>3, ScopedByGoto DEF Ready
<1>14. CASE Becomes(BindPass(st, a)) /\ ctl' = Append(ctl, a)
  <2> DEFINE r == BindPass(st, a)
  <2>1. Tame(r) /\ \A n \in Globals(r) : n \in Globals(st) \/ \E j \in 1..Len(a.vars) : a.vars[j] = n
    BY <1>8, <1>12, BindPassNames
  <2>2. app' = r.app /\ vm' = r.vm
    BY <1>14 DEF Becomes
  <2> HIDE DEF r
  <2>3. Neat(app'.globals) /\ Plain(vm'.scopes)
    BY <2>1, <2>2 DEF Tame
  <2>4. \A n \in Named(app'.globals) : IsPlaceholder(n) =>
          Holds(ctl, Depth, n) \/ \E j \in 1..Len(a.vars) : a.vars[j] = n
    BY <1>11, <2>1, <2>2 DEF Globals
  <2> QED
    BY <1>10, <1>12, <1>14, <2>3, <2>4, ScopedBegan DEF Ready
<1> QED
  BY <1>1, <1>13, <1>14

LEMMA ScopedEndPass ==
  ASSUME Shaped, Scoped, EndPass
  PROVE  Scoped'
<1> DEFINE value == TopOf(vm, 0)
           asIs  == Escaped \/ Top.who = "FOREACH"
           m     == IF asIs THEN vm ELSE Drop(vm, 1)
           kept  == CASE Escaped \/ Top.who = "FOREACH" -> Top.result
                      [] Top.who = "MAP" -> ListVal(Append(Top.result[2], value))
                      [] Top.who = "FILTER" -> IF IsTruthy(value)
                                               THEN ListVal(Append(Top.result[2], Head(Top.rest)))
                                               ELSE Top.result
                      [] OTHER -> value
           a     == [Top EXCEPT !.pc = Top.start, !.rest = Tail(@), !.result = kept]
           st    == [app |-> app, vm |-> m]
<1>1. /\ status = "running" /\ Top.who \in LoopOps
      /\ \/ Becomes(FinishTemplate(st, a)) /\ Resumed
         \/ Becomes(BindPass(st, a)) /\ ctl' = [ctl EXCEPT ![Depth] = a]
  BY DEF EndPass, Returns, LoopOps
<1>2. /\ DOMAIN app = AppFields /\ DOMAIN vm = VmFields /\ Depth = Len(ctl) /\ Depth \in 1..Len(ctl)
      /\ Depth \in Nat \ {0} /\ Borrows(ctl, Depth) /\ Top = ctl[Depth]
  BY <1>1, ScopedHere
<1>3. DOMAIN m = VmFields /\ m.scopes = vm.scopes
  BY <1>2, DropNames
<1> HIDE DEF m, kept
<1>4. a.who = Top.who /\ a.vars = Top.vars /\ a.saved = Top.saved
  <2>1. DOMAIN Top = ActivationFields
    BY <1>1, ShapedFacts
  <2> QED
    BY <2>1 DEF ActivationFields
<1> HIDE DEF a
<1>5. Tame(st) /\ Globals(st) = Named(app.globals)
  BY <1>2, <1>3 DEF Scoped, Tame, Globals
<1> HIDE DEF st
<1>6. a.who \in LoopOps /\ Len(a.vars) = Slots(a.who)
  BY <1>1, <1>2, <1>4 DEF Borrows
<1>7. PICK k \in Nat : k = Depth - 1
  BY <1>2
<1>8. \A j \in 1..Len(a.vars) :
        IsPlaceholder(a.vars[j]) /\ a.saved[j] # <<>> => Holds(ctl, k, a.vars[j])
  BY <1>2, <1>4, <1>7 DEF Borrows
<1>9. ASSUME NEW n \in Globals(st), IsPlaceholder(n) PROVE Holds(ctl, Depth, n)
  BY <1>2, <1>5, <1>9 DEF Scoped, HeldBy
<1>10. CASE Becomes(FinishTemplate(st, a)) /\ Resumed
  <2> DEFINE r == FinishTemplate(st, a)
  <2>1. ASSUME NEW n \in Globals(st), IsPlaceholder(n)
        PROVE  Holds(ctl, k, n) \/ \E j \in 1..Len(a.vars) : a.vars[j] = n
    <3>1. PICK d \in 1..Depth : \E j \in 1..Len(ctl[d].vars) : ctl[d].vars[j] = n
      BY <1>9, <2>1 DEF Holds
    <3>2. CASE d = Depth
      BY <3>1, <3>2, <1>2, <1>4
    <3>3. CASE d # Depth
      <4>1. d \in 1..k
        BY <3>3, <1>2, <1>7
      <4> QED
        BY <3>1, <4>1 DEF Holds
    <3> QED
      BY <3>2, <3>3
  <2>2. Tame(r) /\ \A n \in Globals(r) : IsPlaceholder(n) => Holds(ctl, k, n)
    BY <1>5, <1>6, <1>8, <2>1, FinishHeld
  <2>3. app' = r.app /\ vm' = r.vm
    BY <1>10 DEF Becomes
  <2> HIDE DEF r
  <2>4. Neat(app'.globals) /\ Plain(vm'.scopes)
    BY <2>2, <2>3 DEF Tame
  <2>5. \A n \in Named(app'.globals) : IsPlaceholder(n) => Holds(ctl, Depth - 1, n)
    BY <1>7, <2>2, <2>3 DEF Globals
  <2>6. Depth > 1
    <3>1. Top.who # "main"
      BY <1>1 DEF LoopOps
    <3>2. Depth # 1
      BY <3>1, <1>1, ShapedFacts
    <3> QED
      BY <1>2, <3>2
  <2> QED
    BY <1>1, <1>10, <2>4, <2>5, <2>6, ScopedEnded
<1>11. CASE Becomes(BindPass(st, a)) /\ ctl' = [ctl EXCEPT ![Depth] = a]
  <2> DEFINE r == BindPass(st, a)
  <2>1. Tame(r) /\ \A n \in Globals(r) : n \in Globals(st) \/ \E j \in 1..Len(a.vars) : a.vars[j] = n
    BY <1>5, <1>6, BindPassNames
  <2>2. app' = r.app /\ vm' = r.vm
    BY <1>11 DEF Becomes
  <2> HIDE DEF r
  <2>3. Neat(app'.globals) /\ Plain(vm'.scopes)
    BY <2>1, <2>2 DEF Tame
  <2>4. \A n : (\E j \in 1..Len(a.vars) : a.vars[j] = n) => Holds(ctl, Depth, n)
    BY <1>2, <1>4 DEF Holds
  <2>5. HeldBy(app'.globals, ctl)
    BY <1>2, <1>9, <2>1, <2>2, <2>4 DEF HeldBy, Globals
  <2>6. ctl' = Altered(ctl, Depth, a)
    BY <1>11 DEF Altered
  <2> QED
    BY <1>1, <1>4, <2>3, <2>5, <2>6, ScopedGoesOn
<1> QED
  BY <1>1, <1>10, <1>11

LEMMA ScopedEndRun ==
  ASSUME Shaped, Scoped, EndRun
  PROVE  Scoped'
<1>1. status = "running" /\ Top.who = "main" /\ ctl' = <<>> /\ UNCHANGED <<app, vm>>
  BY DEF EndRun, Returns
<1>2. Depth = 1 /\ Depth = Len(ctl) /\ Borrows(ctl, 1) /\ Top = ctl[1]
  BY <1>1, ShapedFacts, ScopedHere
<1>3. Len(ctl[1].vars) = 0
  BY <1>1, <1>2 DEF Borrows, Slots, LoopOps
<1>4. \A n : ~Holds(ctl, 1, n)
  <2>1. \A e \in 1..1 : e = 1
    OBVIOUS
  <2> QED
    BY <2>1, <1>3 DEF Holds
<1>5. HeldBy(app'.globals, ctl')
  BY <1>1, <1>2, <1>4 DEF Scoped, HeldBy
<1>6. Len(ctl') = 0
  BY <1>1, EmptyIsSeq
<1> QED
  BY <1>1, <1>5, <1>6 DEF Scoped

LEMMA ScopedInit ==
  ASSUME Init
  PROVE  Scoped
<1>1. PICK c : StartVm(c)
  BY DEF Init, Load
<1> DEFINE a == Activation("main", 1, c.start)
<1>2. app = NewApp /\ vm = FreshVm /\ ctl = <<a>>
  BY <1>1 DEF StartVm
<1>3. app.globals = <<>> /\ vm.scopes = <<>>
  BY <1>2 DEF NewApp, FreshVm
<1>4. a.who = "main" /\ a.vars = <<>>
  BY DEF Activation
<1> HIDE DEF a
<1>5. Len(ctl) = 1 /\ ctl[1] = a
  BY <1>2
<1>6. Neat(app.globals) /\ Plain(vm.scopes)
  BY <1>3, EmptyIsSeq DEF Neat, Plain
<1>7. HeldBy(app.globals, ctl)
  BY <1>3, EmptyIsSeq DEF HeldBy, Named
<1>8. Borrows(ctl, 1)
  <2>1. Len(ctl[1].vars) = 0 /\ Slots(ctl[1].who) = 0
    BY <1>4, <1>5, EmptyIsSeq DEF Slots, LoopOps
  <2> QED
    BY <2>1 DEF Borrows
<1> QED
  BY <1>5, <1>6, <1>7, <1>8 DEF Scoped

LEMMA ScopedRuns ==
  ASSUME Shaped, Scoped, Assembled, OwnCode, EvaluatorRestores, VmNext
  PROVE  Scoped'
<1>1. status = "running"
  BY NextRuns
<1>2. Ready /\ OwnNames(Chunk)
  BY <1>1, ShapedFacts DEF OwnCode, Chunk
<1>3. ASSUME Still PROVE Scoped'
  BY <1>1, <1>3, ScopedStill DEF Still
<1>4. CASE PushValue \/ PopOrPoke \/ Unary \/ Binary \/ Jump \/ JumpIfFalse \/ VoidResult
             \/ CountRepeat \/ CheckThrow \/ MotionDelay
  BY <1>2, <1>3, <1>4, StillOnStack
<1>5. CASE CheckOutput \/ EraseProc \/ Catch \/ CheckUncaughtThrow \/ Wait \/ AskUser \/ Pause
             \/ AwaitOrYield \/ Launch
  BY <1>2, <1>3, <1>5, StillSaying
<1>6. CASE SetVariable \/ Local \/ CallBuiltin \/ CallProc \/ Send \/ Apply \/ Return
  BY <1>2, <1>6, ScopedVariables, ScopedBuiltin, ScopedCalls, ScopedReturns
<1>7. CASE StartSnippet \/ EndSnippet \/ StartTemplate \/ EndPass \/ EndRun
  BY <1>2, <1>7, ScopedStartSnippet, ScopedEndSnippet, ScopedStartTemplate, ScopedEndPass,
     ScopedEndRun
<1> QED
  BY <1>4, <1>5, <1>6, <1>7 DEF VmNext

LEMMA ScopedNext ==
  ASSUME Shaped, Scoped, Assembled, OwnCode, EvaluatorRestores, Next
  PROVE  Scoped'
<1>1. CASE RunVm
  BY <1>1, ScopedRuns DEF RunVm
<1>2. CASE ResumeWithLine
  <2>1. PICK v : vm' = Reports(Pushed(vm, v), TRUE, TRUE) /\ UNCHANGED <<app, ctl>>
    BY <1>2 DEF ResumeWithLine, ResumeWith
  <2>2. DOMAIN vm = VmFields
    BY DEF Shaped, VmShape
  <2> DEFINE p == Pushed(vm, v)
  <2>3. DOMAIN p = VmFields /\ p.scopes = vm.scopes
    BY <2>2, StackNames
  <2> HIDE DEF p
  <2>4. Reports(p, TRUE, TRUE).scopes = vm.scopes
    BY <2>3, ReportsNames
  <2> QED
    BY <2>1, <2>4 DEF Scoped, p
<1>3. CASE ResumeAtOnce \/ Leave \/ Exited
  <2>1. UNCHANGED <<app, vm, ctl>>
    BY <1>3 DEF ResumeAtOnce, Resume, Leave, Exited, vars
  <2> QED
    BY <2>1 DEF Scoped
<1> QED
  BY <1>1, <1>2, <1>3 DEF Next

LEMMA ScopedStays == Scoped /\ UNCHANGED vars => Scoped'
  BY DEF Scoped, vars

LEMMA ScopedIsScoped == Scoped => PlaceholdersScoped
<1> SUFFICES ASSUME Scoped, NEW i \in 1..Len(app.globals), IsPlaceholder(app.globals[i].name)
             PROVE  \E d \in 1..Depth : \E j \in 1..Len(ctl[d].vars) :
                      ctl[d].vars[j] = app.globals[i].name
  BY DEF PlaceholdersScoped
<1>1. app.globals[i].name \in Named(app.globals)
  BY DEF Named
<1>2. Holds(ctl, Len(ctl), app.globals[i].name)
  BY <1>1 DEF Scoped, HeldBy
<1> QED
  BY <1>2 DEF Holds, Depth

\* The code keeps to its own names as chunks come and go and procedures are erased.
LEMMA OwnInit ==
  ASSUME CompilesOwnNames, Init
  PROVE  OwnCode
<1> DEFINE program == Translate("main", script.text)
           c == IF program = <<>> THEN NoChunk ELSE program[1]
<1>1. chunks = <<c>>
  BY DEF Init, Load, StartVm
<1>2. Len(chunks) = 1 /\ chunks[1] = c
  <2> HIDE DEF c
  <2> QED
    BY <1>1
<1>3. OwnNames(c)
  <2>1. CASE program = <<>>
    <3>1. NoChunk.code = <<>> /\ NoChunk.procs = <<>>
      BY DEF NoChunk
    <3> QED
      BY <2>1, <3>1, EmptyIsSeq DEF OwnNames
  <2>2. CASE program # <<>>
    BY <2>2 DEF CompilesOwnNames, NamesItsOwn
  <2> QED
    BY <2>1, <2>2
<1> QED
  BY <1>2, <1>3 DEF OwnCode

LEMMA EraseOwn ==
  ASSUME NEW c, NEW name, NEW d, AssembledChunk(c), OwnNames(c),
         d = [c EXCEPT !.procs = EraseNamed(c.procs, name)]
  PROVE  OwnNames(d)
<1> DEFINE erased == EraseNamed(c.procs, name)
<1>1. Len(c.procs) \in Nat /\ DOMAIN c.procs = 1..Len(c.procs)
  BY SeqShape DEF AssembledChunk
<1>2. DOMAIN erased = 1..Len(c.procs) /\ erased = [i \in DOMAIN erased |-> erased[i]]
  BY DEF EraseNamed
<1>3. Len(erased) = Len(c.procs)
  BY <1>1, <1>2, MadeSeq
<1>4. \A i \in 1..Len(c.procs) : erased[i].params = c.procs[i].params
  BY DEF EraseNamed, AssembledChunk
<1>5. d.code = c.code /\ d.procs = erased
  BY DEF AssembledChunk
<1> HIDE DEF erased
<1> QED
  BY <1>3, <1>4, <1>5 DEF OwnNames

LEMMA OwnNext ==
  ASSUME CompilesOwnNames, OwnCode, IsSeq(chunks), Assembled, [Next]_vars
  PROVE  OwnCode'
<1>1. CASE RunVm
  <2>1. VmNext
    BY <1>1 DEF RunVm
  <2>2. Len(chunks) \in Nat
    BY SeqShape
  <2>3. CASE UNCHANGED chunks
    BY <2>3 DEF OwnCode
  <2>4. CASE chunks' = Front(chunks)
    <3>1. CASE chunks = <<>>
      <4>1. Front(chunks) = <<>>
        BY <3>1 DEF Front
      <4> QED
        BY <4>1, <2>4, EmptyIsSeq DEF OwnCode
    <3>2. CASE chunks # <<>>
      <4>1. /\ Len(Front(chunks)) = Len(chunks) - 1
            /\ \A i \in 1..(Len(chunks) - 1) : Front(chunks)[i] = chunks[i]
        BY <3>2, FrontSeq
      <4>2. 1..(Len(chunks) - 1) \subseteq 1..Len(chunks)
        BY <2>2
      <4> QED
        BY <4>1, <4>2, <2>4 DEF OwnCode
    <3> QED
      BY <3>1, <3>2
  <2>5. ASSUME Compiling, Translate(Ins.op, SnippetText(Ins.op)) # <<>>,
               chunks' = Append(chunks, Translate(Ins.op, SnippetText(Ins.op))[1])
        PROVE  OwnCode'
    <3> DEFINE c == Translate(Ins.op, SnippetText(Ins.op))[1]
    <3>1. OwnNames(c)
      BY <2>5 DEF CompilesOwnNames, NamesItsOwn
    <3> HIDE DEF c
    <3>2. /\ Len(Append(chunks, c)) = Len(chunks) + 1
          /\ Append(chunks, c)[Len(chunks) + 1] = c
          /\ \A i \in 1..Len(chunks) : Append(chunks, c)[i] = chunks[i]
      BY AppendSeq
    <3>3. chunks' = Append(chunks, c)
      BY <2>5 DEF c
    <3>4. \A i \in 1..(Len(chunks) + 1) : i = Len(chunks) + 1 \/ i \in 1..Len(chunks)
      BY <2>2
    <3> QED
      BY <3>1, <3>2, <3>3, <3>4 DEF OwnCode
  <2>6. ASSUME NEW name,
               chunks' = [chunks EXCEPT ![Top.chunk] = [chunks[Top.chunk] EXCEPT !.procs =
                            EraseNamed(chunks[Top.chunk].procs, name)]]
        PROVE  OwnCode'
    <3> DEFINE k == Top.chunk
               c == chunks[k]
               d == [c EXCEPT !.procs = EraseNamed(c.procs, name)]
    <3>1. chunks' = Altered(chunks, k, d)
      BY <2>6 DEF Altered
    <3>2. k \in 1..Len(chunks) => OwnNames(c) /\ AssembledChunk(c)
      BY DEF OwnCode, Assembled
    <3>3. k \in 1..Len(chunks) => OwnNames(d)
      <4> HIDE DEF c, k
      <4> QED
        BY <3>2, EraseOwn
    <3> HIDE DEF k, d
    <3>4. /\ Len(chunks') = Len(chunks)
          /\ \A i \in 1..Len(chunks) : chunks'[i] = IF i = k THEN d ELSE chunks[i]
      BY <3>1, AlteredSeq
    <3> QED
      BY <3>3, <3>4 DEF OwnCode
  <2> QED
    BY <2>1, <2>3, <2>4, <2>5, <2>6, ChunksNext
<1>2. CASE ResumeAtOnce \/ ResumeWithLine \/ Leave \/ Exited \/ UNCHANGED vars
  <2>1. UNCHANGED chunks
    BY <1>2 DEF ResumeAtOnce, ResumeWithLine, Resume, ResumeWith, Leave, Exited, vars
  <2> QED
    BY <2>1 DEF OwnCode
<1> QED
  BY <1>1, <1>2 DEF Next

\* A template's placeholder exists only while a vm_run of that template is in
\* progress, however templates nest, enter themselves again through procedures
\* and snippets, and are left: save_var and restore_var put back exactly what an
\* activation further down still holds.
THEOREM PlaceholdersStayScoped ==
  Spec /\ []CompilesTidily /\ []CompilesOwnNames /\ [][EvaluatorKeeps]_vars
       /\ [][EvaluatorRestores]_vars => []PlaceholdersScoped
<1>1. Init /\ CompilesOwnNames => Shaped /\ Scoped /\ OwnCode
  BY ShapedInit, ScopedInit, OwnInit
<1>2. Shaped /\ Scoped /\ OwnCode /\ Assembled /\ CompilesOwnNames /\ [EvaluatorKeeps]_vars
        /\ [EvaluatorRestores]_vars /\ [Next]_vars => Shaped' /\ Scoped' /\ OwnCode'
  <2> SUFFICES ASSUME Shaped, Scoped, OwnCode, Assembled, CompilesOwnNames, [EvaluatorKeeps]_vars,
                      [EvaluatorRestores]_vars, [Next]_vars
               PROVE  Shaped' /\ Scoped' /\ OwnCode'
    OBVIOUS
  <2>1. OwnCode'
    BY OwnNext DEF Shaped
  <2>2. CASE UNCHANGED vars
    BY <2>1, <2>2, ScopedStays DEF vars, Shaped
  <2>3. CASE ~UNCHANGED vars
    BY <2>1, <2>3, ShapedNext, ScopedNext
  <2> QED
    BY <2>2, <2>3
<1>3. Scoped => PlaceholdersScoped
  BY ScopedIsScoped
<1> QED
  BY <1>1, <1>2, <1>3, CodeStaysTidy, PTL DEF Spec

=============================================================================
