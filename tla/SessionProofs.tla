--------------------------- MODULE SessionProofs ---------------------------
(***************************************************************************)
(* Theorems about RunDriver: where a run can be, what wakes it, and how    *)
(* PAUSEs nest.  They hold for every number of runs, timers, chunks and    *)
(* handlers and for every vocabulary in which no program reads the mouse   *)
(* (which dispatches events inside a run) and CONTINUE is the last thing a *)
(* program does (what it resumes starts only when the program returns).    *)
(***************************************************************************)
EXTENDS RunDriverProofs, SequenceTheorems, FiniteSetTheorems

UsedOps == ScriptOps \cup HandlerOps

\* What is asked of programs.  Each half is needed: see the README for what
\* MOUSEX does, and the run continue_then_wait for CONTINUE.
SessionVocabulary ==
  /\ "MOUSEX" \notin UsedOps
  /\ "CONTINUE" \in UsedOps => "CONTINUE" \in FinalOps

-----------------------------------------------------------------------------
(* The invariant.                                                          *)

\* What is below an executing run: nothing, or on_entry_key_pressed.
KeyFrame == Frame("key", NoRun)
Bases == {<<>>, <<KeyFrame>>}
RunKinds == {"vm", "agents"}

Holds(s, r) == \E base \in Bases, kind \in RunKinds : s = Append(base, Frame(kind, r))
Executing(r) == Holds(stack, r)

\* At most one run executes.
StackShape == stack \in Bases \/ \E r \in RunIds : Executing(r)

\* None does while one is in the slot.
SlotOrStack == slot # NoRun => stack \in Bases

\* A run's `why` says where it is, and it is there once.
SlotWhys == {"WAIT", "ANIMATE", "WAITKEY", "INPUT"}
IsPaused(r) == \E i \in 1 .. Len(paused) : paused[i].run = r
OnePlace ==
  /\ \A r \in RunIds : run[r].why = "VM" <=> Executing(r)
  /\ \A r \in RunIds : run[r].why \in SlotWhys <=> slot = r
  /\ \A r \in RunIds : run[r].why = "PAUSE" <=> IsPaused(r)
  /\ \A i, j \in 1 .. Len(paused) : paused[i].run = paused[j].run => i = j

\* pause_depth is below the innermost level only after a CONTINUE, by one, and
\* until the run that performed it returns.
Finishing == \E r \in RunIds : Executing(r) /\ run[r].left = 0
PauseLevels ==
  paused # <<>> /\ pause_depth < paused[Len(paused)].level =>
    pause_depth = paused[Len(paused)].level - 1 /\ Finishing

SessionInv ==
  /\ StackShape
  /\ SlotOrStack
  /\ OnePlace
  /\ PauseLevels
  /\ LevelsAreStrict
  /\ WakeupsServeSlot
  /\ NothingAfterDestroy

-----------------------------------------------------------------------------
(* The stack.                                                              *)

LEMMA RunIdsFacts == \A r \in RunIds : r \in Nat /\ r # NoRun
BY BoundsAssumption DEF RunIds, NoRun

\* Frames, and the stacks they are put on.
LEMMA BaseFacts ==
  /\ KeyFrame \in FrameRecord /\ Bases \subseteq Seq(FrameRecord)
  /\ \A kind \in RunKinds, r \in RunIds : Frame(kind, r) \in FrameRecord
<1>1. KeyFrame \in FrameRecord
  BY DEF KeyFrame, Frame, FrameRecord, FrameKinds
<1>2. ASSUME NEW kind \in RunKinds, NEW r \in RunIds PROVE Frame(kind, r) \in FrameRecord
  BY FrameType DEF RunKinds, FrameKinds
<1> HIDE DEF KeyFrame
<1>3. <<>> \in Seq(FrameRecord) /\ <<KeyFrame>> \in Seq(FrameRecord)
  BY <1>1
<1> QED
  BY <1>1, <1>2, <1>3 DEF Bases

\* A frame put on a base is on top of it.
LEMMA PushFacts ==
  ASSUME NEW base \in Bases, NEW f \in FrameRecord
  PROVE  /\ Append(base, f) # <<>>
         /\ Append(base, f)[Len(Append(base, f))] = f
         /\ SubSeq(Append(base, f), 1, Len(Append(base, f)) - 1) = base
         /\ f # KeyFrame => Append(base, f) \notin Bases
         /\ \A b \in Bases, g \in FrameRecord :
              Append(base, f) = Append(b, g) => base = b /\ f = g
<1>1. base \in Seq(FrameRecord) /\ KeyFrame \in FrameRecord /\ <<>> \in Seq(FrameRecord)
      /\ Bases \subseteq Seq(FrameRecord)
  BY BaseFacts DEF Bases
<1>2. /\ Append(base, f) # <<>>
      /\ Append(base, f)[Len(Append(base, f))] = f
      /\ SubSeq(Append(base, f), 1, Len(Append(base, f)) - 1) = base
  BY <1>1
<1>3. Append(<<>>, KeyFrame) = <<KeyFrame>>
  BY <1>1
<1>4. \A b \in Bases, g \in FrameRecord :
        Append(base, f) = Append(b, g) => base = b /\ f = g
  BY <1>1, AppendInjective
<1>5. f # KeyFrame => Append(base, f) # <<KeyFrame>>
  BY <1>1, <1>3, <1>4 DEF Bases
<1> QED
  BY <1>2, <1>4, <1>5 DEF Bases

\* A stack holds at most one run, above its base.
LEMMA HoldsFacts ==
  ASSUME NEW base \in Bases, NEW kind \in RunKinds, NEW r \in RunIds
  PROVE  /\ Holds(Append(base, Frame(kind, r)), r)
         /\ \A q \in RunIds : Holds(Append(base, Frame(kind, r)), q) => q = r
         /\ \A q \in RunIds : ~Holds(base, q)
         /\ Append(base, Frame(kind, r)) \notin Bases
<1>1. Holds(Append(base, Frame(kind, r)), r)
  BY DEF Holds
<1>2. ASSUME NEW k \in RunKinds, NEW q \in RunIds
      PROVE  Frame(k, q) \in FrameRecord /\ Frame(k, q) # KeyFrame
  BY BaseFacts DEF Frame, KeyFrame, RunKinds
<1>3. ASSUME NEW q \in RunIds, Holds(Append(base, Frame(kind, r)), q) PROVE q = r
  <2>1. PICK b \in Bases, k \in RunKinds : Append(base, Frame(kind, r)) = Append(b, Frame(k, q))
    BY <1>3 DEF Holds
  <2>2. Frame(kind, r) = Frame(k, q)
    BY <1>2, <2>1, PushFacts
  <2> QED
    BY <2>2 DEF Frame
<1>4. ASSUME NEW c \in Bases, NEW k \in RunKinds, NEW q \in RunIds
      PROVE  Append(c, Frame(k, q)) \notin Bases
  BY <1>2, PushFacts
<1> QED
  BY <1>1, <1>3, <1>4 DEF Holds

\* The agents' frame of a run is no other frame.
LEMMA AgentFrames ==
  ASSUME NEW base \in Bases, NEW r \in RunIds
  PROVE  /\ Append(base, Frame("agents", r)) \notin Bases
         /\ \A b \in Bases, q \in RunIds :
              /\ Append(base, Frame("agents", r)) # Append(b, Frame("vm", q))
              /\ Append(base, Frame("agents", r)) = Append(b, Frame("agents", q)) => r = q
<1>1. Append(base, Frame("agents", r)) \notin Bases
  BY HoldsFacts DEF RunKinds
<1>2. ASSUME NEW b \in Bases, NEW q \in RunIds, NEW kind \in RunKinds,
             Append(base, Frame("agents", r)) = Append(b, Frame(kind, q))
      PROVE  kind = "agents" /\ r = q
  <2>1. Frame("agents", r) \in FrameRecord /\ Frame(kind, q) \in FrameRecord
    BY BaseFacts DEF RunKinds
  <2>2. Frame("agents", r) = Frame(kind, q)
    BY <1>2, <2>1, PushFacts
  <2> QED
    BY <2>2 DEF Frame
<1> QED
  BY <1>1, <1>2 DEF RunKinds

\* What a running frame says about the stack.
LEMMA RunningFacts ==
  ASSUME StackShape, NEW kind \in RunKinds, NEW r \in RunIds, Running(kind, r)
  PROVE  /\ Executing(r) /\ Below \in Bases /\ stack # <<>> /\ stack \notin Bases
         /\ stack = Append(Below, Frame(kind, r))
<1>1. stack \notin Bases
  <2>1. <<KeyFrame>>[Len(<<KeyFrame>>)] = KeyFrame
    OBVIOUS
  <2>2. Frame(kind, r) # KeyFrame
    BY DEF Frame, KeyFrame, RunKinds
  <2> QED
    BY <2>1, <2>2 DEF Running, Top, Bases
<1>2. PICK q \in RunIds, base \in Bases, k \in RunKinds : stack = Append(base, Frame(k, q))
  BY <1>1 DEF StackShape, Executing, Holds
<1>3. Top = Frame(k, q) /\ Below = base /\ stack # <<>>
  BY <1>2, BaseFacts, PushFacts DEF Top, Below
<1>4. Frame(kind, r) = Frame(k, q)
  BY <1>3 DEF Running
<1> QED
  BY <1>1, <1>2, <1>3, <1>4 DEF Executing, Holds

\* No other frame is ever on top but on_entry_key_pressed's.
LEMMA TopFacts ==
  ASSUME StackShape
  PROVE  /\ ~Running("mousex", NoRun)
         /\ Running("key", NoRun) => stack = <<KeyFrame>> /\ Below = <<>>
<1>1. CASE stack = <<>>
  BY <1>1 DEF Running
<1>2. CASE stack = <<KeyFrame>>
  <2>1. Top = KeyFrame /\ Below = <<>>
    BY <1>2 DEF Top, Below
  <2> QED
    BY <1>2, <2>1 DEF Running, Frame, KeyFrame
<1>3. ASSUME NEW r \in RunIds, Executing(r)
      PROVE  ~Running("mousex", NoRun) /\ ~Running("key", NoRun)
  <2>1. PICK base \in Bases, kind \in RunKinds : stack = Append(base, Frame(kind, r))
    BY <1>3 DEF Executing, Holds
  <2>2. Top = Frame(kind, r)
    BY <2>1, BaseFacts, PushFacts DEF Top
  <2> QED
    BY <2>2 DEF Running, Frame, RunKinds
<1> QED
  BY <1>1, <1>2, <1>3 DEF StackShape, Bases

\* A step that leaves the stack a base, or puts one run on one.
LEMMA IdleStack ==
  ASSUME stack' \in Bases
  PROVE  StackShape' /\ \A q \in RunIds : ~Executing(q)'
BY HoldsFacts, BaseFacts DEF StackShape, Executing, RunKinds

LEMMA RunStack ==
  ASSUME NEW base \in Bases, NEW kind \in RunKinds, NEW r \in RunIds,
         stack' = Append(base, Frame(kind, r))
  PROVE  /\ StackShape' /\ stack' # <<>> /\ stack' \notin Bases
         /\ \A q \in RunIds : Executing(q)' <=> q = r
<1>1. stack' # <<>>
  BY PushFacts, BaseFacts
<1>2. /\ Holds(stack', r) /\ stack' \notin Bases
      /\ \A q \in RunIds : Holds(stack', q) => q = r
  BY HoldsFacts
<1> QED
  BY <1>1, <1>2 DEF StackShape, Executing

\* One run executes.
LEMMA ExecutingFacts ==
  ASSUME Inv, SessionInv, NEW r \in RunIds, Executing(r)
  PROVE  /\ stack \notin Bases /\ stack # <<>> /\ slot = NoRun /\ window = "open"
         /\ run[r].why = "VM" /\ ~IsPaused(r)
         /\ \A q \in RunIds : Executing(q) <=> q = r
<1>1. PICK base \in Bases, kind \in RunKinds : stack = Append(base, Frame(kind, r))
  BY DEF Executing, Holds
<1>2. stack \notin Bases /\ \A q \in RunIds : Executing(q) <=> q = r
  BY <1>1, HoldsFacts DEF Executing
<1>3. stack # <<>>
  BY <1>2 DEF Bases
<1>4. slot = NoRun
  BY <1>2 DEF SessionInv, SlotOrStack
<1>5. window = "open"
  BY <1>3 DEF SessionInv, NothingAfterDestroy, Inv, TypeOK
<1>6. run[r].why = "VM" /\ ~IsPaused(r)
  BY DEF SessionInv, OnePlace
<1> QED
  BY <1>2, <1>3, <1>4, <1>5, <1>6

\* The types of what a return changes.
LEMMA SessionTypes ==
  ASSUME Inv
  PROVE  /\ run \in [RunIds -> RunRecord]
         /\ paused \in Seq(PausedRecord)
         /\ \A i \in 1 .. Len(paused) :
              /\ paused[i] \in PausedRecord
              /\ paused[i].run \in RunIds /\ paused[i].level \in Nat
         /\ Len(paused) \in Nat /\ (paused # <<>> => Len(paused) \in 1 .. Len(paused))
         /\ pause_depth \in Nat /\ slot \in RunIds \cup {NoRun}
<1>1. run \in [RunIds -> RunRecord] /\ paused \in Seq(PausedRecord)
  BY TypeSplit DEF Inv, RunTypeOK
<1>2. \A i \in 1 .. Len(paused) : paused[i] \in PausedRecord
  BY <1>1
<1>3. Len(paused) \in Nat /\ (paused # <<>> => Len(paused) \in 1 .. Len(paused))
  BY <1>1
<1>4. pause_depth \in Nat /\ slot \in RunIds \cup {NoRun}
  BY BoundsAssumption DEF Inv, TypeOK
<1> QED
  BY <1>1, <1>2, <1>3, <1>4, BoundsAssumption DEF PausedRecord

\* While a run has operations left, no paused run is due.
LEMMA NotDue ==
  ASSUME Inv, SessionInv, NEW r \in RunIds, Executing(r), run[r].left > 0
  PROVE  paused # <<>> => paused[Len(paused)].level <= pause_depth
<1>1. ~Finishing
  <2>1. run[r].left # 0
    <3>1. run[r].left \in 0 .. MaxOps
      BY DEF Inv, TypeOK
    <3> QED
      BY <3>1, BoundsAssumption
  <2> QED
    BY <2>1, ExecutingFacts DEF Finishing
<1>2. paused # <<>> => paused[Len(paused)].level \in Int
  BY SessionTypes
<1>3. pause_depth \in Int
  BY DEF Inv, TypeOK
<1> QED
  BY <1>1, <1>2, <1>3 DEF SessionInv, PauseLevels

\* A run with operations left returns and is kept or dropped: nothing resumes.
LEMMA QuietReturn ==
  ASSUME Inv, SessionInv, NEW r \in RunIds, Executing(r), run[r].left > 0, NEW rec,
         pause_depth' >= pause_depth, pause_depth' \in Nat,
         NEW ps, Returns(r, rec, ps),
         \/ ps = paused
         \/ \E e \in PausedRecord : e.level = pause_depth' /\ ps = Append(paused, e)
  PROVE  stack' = Below /\ paused' = ps /\ run' = [run EXCEPT ![r] = rec]
<1>1. ~(ps # <<>> /\ ps[Len(ps)].level > pause_depth')
  <2>1. CASE ps = paused
    BY <2>1, NotDue, SessionTypes
  <2>2. ASSUME NEW e \in PausedRecord, e.level = pause_depth', ps = Append(paused, e)
        PROVE  ps[Len(ps)].level = pause_depth'
    BY <2>2, SessionTypes
  <2> QED
    BY <2>1, <2>2
<1> QED
  BY <1>1 DEF Returns

\* With the slot empty, only the wake-ups matter to their invariants.
LEMMA WaitsUnchanged ==
  ASSUME Inv, SessionInv, slot = NoRun, UNCHANGED waitVars, UNCHANGED window, window = "open"
  PROVE  WakeupsServeSlot' /\ NothingAfterDestroy'
BY DEF SessionInv, WakeupsServeSlot, NothingAfterDestroy, waitVars

\* The paused runs but the last.
LEMMA PoppedFacts ==
  ASSUME Inv, SessionInv, paused # <<>>, paused' = SubSeq(paused, 1, Len(paused) - 1)
  PROVE  /\ Len(paused') = Len(paused) - 1
         /\ \A i \in 1 .. Len(paused') : paused'[i] = paused[i]
         /\ LevelsAreStrict'
         /\ \A q \in RunIds : IsPaused(q)' <=> IsPaused(q) /\ q # paused[Len(paused)].run
         /\ \A i, j \in 1 .. Len(paused') : paused'[i].run = paused'[j].run => i = j
         /\ paused' # <<>> =>
              paused'[Len(paused')].level < paused[Len(paused)].level
<1>1. Len(paused) \in Nat \ {0}
  BY SessionTypes
<1>2. Len(paused') = Len(paused) - 1 /\ \A i \in 1 .. Len(paused') : paused'[i] = paused[i]
  <2>1. PICK n \in Nat : n = Len(paused) - 1 /\ n + 1 = Len(paused)
    BY <1>1
  <2>2. \A i \in 1 .. n : paused[i] \in PausedRecord
    BY <2>1, SessionTypes
  <2>3. /\ Len(paused') = IF 1 <= n THEN n - 1 + 1 ELSE 0
        /\ \A i \in 1 .. n - 1 + 1 : paused'[i] = paused[1 + i - 1]
    BY <2>1, <2>2, SubSeqProperties
  <2>4. Len(paused') = n
    BY <2>3
  <2>5. \A i \in 1 .. n : paused'[i] = paused[i]
    <3> SUFFICES ASSUME NEW i \in 1 .. n PROVE paused'[i] = paused[i]
      OBVIOUS
    <3>1. i \in 1 .. n - 1 + 1 /\ 1 + i - 1 = i
      OBVIOUS
    <3> QED
      BY <2>3, <3>1
  <2> QED
    BY <2>1, <2>4, <2>5
<1>3. LevelsAreStrict'
  BY <1>1, <1>2 DEF LevelsAreStrict, SessionInv
<1>4. \A i, j \in 1 .. Len(paused) : paused[i].run = paused[j].run => i = j
  BY DEF SessionInv, OnePlace
<1>5. \A q \in RunIds : IsPaused(q)' <=> IsPaused(q) /\ q # paused[Len(paused)].run
  BY <1>1, <1>2, <1>4 DEF IsPaused
<1>6. paused' # <<>> => Len(paused') > 0
  BY <1>1, <1>2, SessionTypes, SequenceFacts
<1>8. \A i, j \in 1 .. Len(paused') : paused'[i].run = paused'[j].run => i = j
  BY <1>1, <1>2, <1>4
<1>7. paused' # <<>> => paused'[Len(paused')].level < paused[Len(paused)].level
  BY <1>1, <1>2, <1>6 DEF LevelsAreStrict, SessionInv
<1> QED
  BY <1>2, <1>3, <1>5, <1>7, <1>8

-----------------------------------------------------------------------------
(* The steps.                                                              *)

\* A run ends: the innermost paused run goes on in its place if it is due.
LEMMA EndReturns ==
  ASSUME Inv, SessionInv, NEW r \in RunIds, Executing(r), Below \in Bases,
         Returns(r, FreeRun, paused), pause_depth' \in Nat, pause_depth' >= pause_depth,
         UNCHANGED waitVars, UNCHANGED window
  PROVE  SessionInv'
<1>1. /\ slot = NoRun /\ slot' = NoRun /\ window = "open"
      /\ run[r].why = "VM" /\ ~IsPaused(r) /\ \A q \in RunIds : Executing(q) <=> q = r
  BY ExecutingFacts DEF waitVars
<1>2. WakeupsServeSlot' /\ NothingAfterDestroy'
  BY <1>1, WaitsUnchanged
<1>3. SlotOrStack'
  BY <1>1 DEF SlotOrStack
<1>4. /\ \A q \in RunIds : run[q].why = "VM" <=> q = r
      /\ \A q \in RunIds : run[q].why \notin SlotWhys
      /\ \A q \in RunIds : run[q].why = "PAUSE" <=> IsPaused(q)
      /\ \A i, j \in 1 .. Len(paused) : paused[i].run = paused[j].run => i = j
  BY <1>1, RunIdsFacts DEF SessionInv, OnePlace
<1> DEFINE Due == paused # <<>> /\ paused[Len(paused)].level > pause_depth'
<1>5. CASE Due
  <2> DEFINE p == paused[Len(paused)].run
  <2>1. /\ paused # <<>> /\ Len(paused) \in 1 .. Len(paused)
        /\ p \in RunIds /\ IsPaused(p)
    BY <1>5, SessionTypes DEF IsPaused
  <2>2. p # r /\ run[p].why = "PAUSE"
    BY <1>1, <1>4, <2>1
  <2>3. /\ paused' = SubSeq(paused, 1, Len(paused) - 1)
        /\ stack' = Append(Below, Frame("vm", p))
        /\ run' = [run EXCEPT ![r] = FreeRun, ![p] = [@ EXCEPT !.why = "VM"]]
    BY <1>5 DEF Returns
  <2> HIDE DEF p
  <2>4. /\ StackShape' /\ \A q \in RunIds : Executing(q)' <=> q = p
    BY <2>1, <2>3, RunStack DEF RunKinds
  <2>5. /\ run'[p].why = "VM" /\ run'[r].why = "FREE"
        /\ \A q \in RunIds \ {p, r} : run'[q] = run[q]
    BY <2>1, <2>2, <2>3, SessionTypes, FreeRunType DEF RunRecord
  <2>6. /\ LevelsAreStrict'
        /\ \A q \in RunIds : IsPaused(q)' <=> IsPaused(q) /\ q # p
        /\ \A i, j \in 1 .. Len(paused') : paused'[i].run = paused'[j].run => i = j
        /\ paused' # <<>> => paused'[Len(paused')].level < paused[Len(paused)].level
    BY <2>1, <2>3, PoppedFacts DEF p
  <2>7. /\ \A q \in RunIds : run'[q].why = "VM" <=> Executing(q)'
        /\ \A q \in RunIds : run'[q].why \notin SlotWhys
        /\ \A q \in RunIds : run'[q].why = "PAUSE" <=> IsPaused(q)'
    BY <1>1, <1>4, <2>4, <2>5, <2>6 DEF SlotWhys
  <2>8. OnePlace'
    BY <1>1, <2>6, <2>7, RunIdsFacts DEF OnePlace
  <2>9. PauseLevels'
    <3>1. pause_depth >= paused[Len(paused)].level - 1
      BY <2>1, SessionTypes DEF SessionInv, PauseLevels
    <3>2. paused' # <<>> => paused'[Len(paused')].level \in Nat
      BY <2>1, <2>3, PoppedFacts, SessionTypes, SequenceFacts
    <3>3. paused' # <<>> => pause_depth' >= paused'[Len(paused')].level
      BY <2>1, <2>6, <3>1, <3>2, SessionTypes
    <3> QED
      BY <3>2, <3>3 DEF PauseLevels
  <2> QED
    BY <1>2, <1>3, <2>4, <2>6, <2>8, <2>9 DEF SessionInv
<1>6. CASE ~Due
  <2>1. paused' = paused /\ stack' = Below /\ run' = [run EXCEPT ![r] = FreeRun]
    BY <1>6 DEF Returns
  <2>2. StackShape' /\ \A q \in RunIds : ~Executing(q)'
    BY <2>1, IdleStack
  <2>3. run'[r].why = "FREE" /\ \A q \in RunIds \ {r} : run'[q] = run[q]
    BY <2>1, SessionTypes, FreeRunType
  <2>4. \A q \in RunIds : IsPaused(q)' <=> IsPaused(q)
    BY <2>1 DEF IsPaused
  <2>5. OnePlace'
    BY <1>1, <1>4, <2>1, <2>2, <2>3, <2>4, RunIdsFacts DEF OnePlace, SlotWhys
  <2>6. LevelsAreStrict'
    BY <2>1 DEF SessionInv, LevelsAreStrict
  <2>7. PauseLevels'
    BY <1>6, <2>1, SessionTypes DEF PauseLevels
  <2> QED
    BY <1>2, <1>3, <2>2, <2>5, <2>6, <2>7 DEF SessionInv
<1> QED
  BY <1>5, <1>6

\* With the slot empty and the window open, nothing is armed.
LEMMA NothingArmed ==
  ASSUME Inv, SessionInv, slot = NoRun, window = "open"
  PROVE  /\ \A t \in TimerIds : timers[t] = "none"
         /\ timeout_id = NoTimer /\ waiting_for_key = FALSE /\ waiting_for_input = FALSE
<1>1. \A t \in TimerIds : timers[t] = "none"
  BY DEF SessionInv, WakeupsServeSlot
<1>2. timeout_id \in TimerIds \cup {NoTimer}
      /\ waiting_for_key \in BOOLEAN /\ waiting_for_input \in BOOLEAN
  BY DEF Inv, TypeOK
<1>3. timeout_id = NoTimer
  BY <1>1, <1>2 DEF SessionInv, WakeupsServeSlot
<1>4. ~waiting_for_key /\ ~waiting_for_input
  BY DEF SessionInv, WakeupsServeSlot
<1> QED
  BY <1>1, <1>2, <1>3, <1>4

\* A run is suspended and g_suspended_run takes it.
LEMMA TakesSlot ==
  ASSUME Inv, SessionInv, NEW r \in RunIds, Executing(r), Below \in Bases,
         NEW op \in SlotWhys, Performs(r, op), Returns(r, Suspends(r, op), paused),
         pause_depth' = pause_depth, slot' = r
  PROVE  /\ StackShape' /\ OnePlace' /\ SlotOrStack' /\ PauseLevels' /\ LevelsAreStrict'
         /\ stack' \in Bases /\ run'[r].why = op /\ r # NoRun
<1>1. /\ slot = NoRun /\ run[r].why = "VM" /\ ~IsPaused(r)
      /\ \A q \in RunIds : Executing(q) <=> q = r
  BY ExecutingFacts
<1>2. op \in AllOps /\ Suspends(r, op).why = op /\ run[r].left > 0
  <2>1. op \in AllOps
    BY DEF SlotWhys, AllOps
  <2> QED
    BY <2>1, SpentType DEF Inv, Performs
<1> DEFINE rec == Suspends(r, op)
<1> HIDE DEF rec
<1>3. stack' = Below /\ paused' = paused /\ run' = [run EXCEPT ![r] = rec]
  BY <1>2, QuietReturn, SessionTypes DEF rec
<1>4. run'[r].why = op /\ \A q \in RunIds \ {r} : run'[q] = run[q]
  BY <1>2, <1>3, SessionTypes DEF rec
<1>5. StackShape' /\ \A q \in RunIds : ~Executing(q)'
  BY <1>3, IdleStack
<1>6. \A q \in RunIds : IsPaused(q)' <=> IsPaused(q)
  BY <1>3 DEF IsPaused
<1>7. OnePlace'
  <2>1. /\ \A q \in RunIds : run[q].why = "VM" <=> q = r
        /\ \A q \in RunIds : run[q].why \notin SlotWhys
        /\ \A q \in RunIds : run[q].why = "PAUSE" <=> IsPaused(q)
        /\ \A i, j \in 1 .. Len(paused) : paused[i].run = paused[j].run => i = j
    BY <1>1, RunIdsFacts DEF SessionInv, OnePlace
  <2>2. op # "VM" /\ op # "PAUSE"
    BY DEF SlotWhys
  <2>3. \A q \in RunIds : run'[q].why \in SlotWhys <=> slot' = q
    BY <1>4, <2>1
  <2>4. \A q \in RunIds : run'[q].why = "PAUSE" <=> IsPaused(q)'
    BY <1>1, <1>4, <1>6, <2>1, <2>2
  <2>5. \A q \in RunIds : run'[q].why = "VM" <=> Executing(q)'
    BY <1>4, <1>5, <2>1, <2>2
  <2> QED
    BY <1>3, <2>1, <2>3, <2>4, <2>5 DEF OnePlace
<1>8. PauseLevels'
  <2>1. paused # <<>> => paused[Len(paused)].level <= pause_depth
    BY <1>2, NotDue
  <2> QED
    BY <1>3, <2>1, SessionTypes DEF PauseLevels
<1>9. LevelsAreStrict' /\ SlotOrStack' /\ stack' \in Bases
  BY <1>3 DEF SessionInv, LevelsAreStrict, SlotOrStack
<1> QED
  BY <1>4, <1>5, <1>7, <1>8, <1>9, RunIdsFacts

LEMMA SessionSuspends ==
  ASSUME Inv, SessionInv, NEW r \in RunIds,
         \/ \E op \in {"WAIT", "ANIMATE"} : SuspendOnTimer(r, op)
         \/ SuspendOnKey(r) \/ SuspendOnInput(r)
  PROVE  SessionInv'
<1>1. Executing(r) /\ Below \in Bases
  BY RunningFacts DEF SuspendOnTimer, SuspendOnKey, SuspendOnInput, SessionInv, RunKinds
<1>2. slot = NoRun /\ window = "open"
  BY <1>1, ExecutingFacts
<1>3. /\ \A t \in TimerIds : timers[t] = "none"
      /\ timeout_id = NoTimer /\ waiting_for_key = FALSE /\ waiting_for_input = FALSE
  BY <1>2, NothingArmed
<1>4. timers \in [TimerIds -> {"none", "WAIT", "ANIMATE"}] /\ NoTimer \notin TimerIds
  BY DEF Inv, TypeOK, TimerIds, NoTimer
<1>5. ASSUME NEW op \in {"WAIT", "ANIMATE"}, SuspendOnTimer(r, op) PROVE SessionInv'
  <2>1. /\ StackShape' /\ OnePlace' /\ SlotOrStack' /\ PauseLevels' /\ LevelsAreStrict'
        /\ run'[r].why = op /\ r # NoRun
    <3>1. op \in SlotWhys
      BY DEF SlotWhys
    <3> QED
      BY <1>1, <1>5, <3>1, TakesSlot DEF SuspendOnTimer
  <2>2. PICK t \in TimerIds : timers' = [timers EXCEPT ![t] = op] /\ timeout_id' = t
    BY <1>5 DEF SuspendOnTimer
  <2>3. slot' = r /\ UNCHANGED <<waiting_for_key, waiting_for_input, window>>
    BY <1>5 DEF SuspendOnTimer
  <2>4. timers'[t] = op /\ \A u \in TimerIds \ {t} : timers'[u] = "none"
    BY <1>3, <1>4, <2>2
  <2>5. WakeupsServeSlot'
    BY <1>3, <1>4, <2>1, <2>2, <2>3, <2>4 DEF WakeupsServeSlot
  <2>6. NothingAfterDestroy'
    BY <1>2, <2>3 DEF NothingAfterDestroy
  <2> QED
    BY <2>1, <2>5, <2>6 DEF SessionInv
<1>6. CASE SuspendOnKey(r)
  <2>1. /\ StackShape' /\ OnePlace' /\ SlotOrStack' /\ PauseLevels' /\ LevelsAreStrict'
        /\ run'[r].why = "WAITKEY" /\ r # NoRun
    BY <1>1, <1>6, TakesSlot DEF SuspendOnKey, SlotWhys
  <2>2. /\ slot' = r /\ waiting_for_key' = TRUE
        /\ UNCHANGED <<timers, timeout_id, waiting_for_input, window>>
    BY <1>6 DEF SuspendOnKey
  <2>3. WakeupsServeSlot' /\ NothingAfterDestroy'
    BY <1>2, <1>3, <2>1, <2>2 DEF WakeupsServeSlot, NothingAfterDestroy
  <2> QED
    BY <2>1, <2>3 DEF SessionInv
<1>7. CASE SuspendOnInput(r)
  <2>1. /\ StackShape' /\ OnePlace' /\ SlotOrStack' /\ PauseLevels' /\ LevelsAreStrict'
        /\ run'[r].why = "INPUT" /\ r # NoRun
    BY <1>1, <1>7, TakesSlot DEF SuspendOnInput, SlotWhys
  <2>2. /\ slot' = r /\ waiting_for_input' = TRUE
        /\ UNCHANGED <<timers, timeout_id, waiting_for_key, window>>
    BY <1>7 DEF SuspendOnInput
  <2>3. WakeupsServeSlot' /\ NothingAfterDestroy'
    BY <1>2, <1>3, <2>1, <2>2 DEF WakeupsServeSlot, NothingAfterDestroy
  <2> QED
    BY <2>1, <2>3 DEF SessionInv
<1> QED
  BY <1>5, <1>6, <1>7

\* PAUSE keeps the run at a level above the others, or drops it.
LEMMA SessionPauses ==
  ASSUME Inv, SessionInv, NEW r \in RunIds, Pause(r)
  PROVE  SessionInv'
<1>1. Executing(r) /\ Below \in Bases
  BY RunningFacts DEF Pause, SessionInv, RunKinds
<1>2. /\ run[r].left > 0 /\ Performs(r, "PAUSE")
      /\ pause_depth' = pause_depth + 1 /\ pause_depth' \in Nat
      /\ pause_depth' \in 0 .. MaxDepth
      /\ UNCHANGED waitVars /\ UNCHANGED window
  BY SessionTypes, BoundsAssumption DEF Pause, Performs
<1>3. /\ slot = NoRun /\ slot' = NoRun /\ window = "open" /\ run[r].why = "VM" /\ ~IsPaused(r)
      /\ \A q \in RunIds : Executing(q) <=> q = r
  BY <1>1, <1>2, ExecutingFacts DEF waitVars
<1>4. CASE Len(paused) < MaxPaused
  <2> DEFINE e == [run |-> r, level |-> pause_depth']
             rec == Suspends(r, "PAUSE")
  <2>1. e \in PausedRecord /\ e.level = pause_depth' /\ e.run = r
    BY <1>2 DEF PausedRecord
  <2>2. Returns(r, rec, Append(paused, e))
    BY <1>4 DEF Pause
  <2>3. rec.why = "PAUSE"
    BY <1>2, SpentType DEF AllOps, Inv
  <2> HIDE DEF e, rec
  <2>4. /\ stack' = Below /\ paused' = Append(paused, e)
        /\ run' = [run EXCEPT ![r] = rec]
    <3>1. pause_depth' >= pause_depth
      BY <1>2, SessionTypes
    <3> QED
      BY <1>1, <1>2, <2>1, <2>2, <3>1, QuietReturn
  <2>5. /\ Len(paused') = Len(paused) + 1 /\ paused'[Len(paused')] = e
        /\ \A i \in 1 .. Len(paused) : paused'[i] = paused[i]
    BY <2>1, <2>4, SessionTypes
  <2>6. run'[r].why = "PAUSE" /\ \A q \in RunIds \ {r} : run'[q] = run[q]
    BY <2>3, <2>4, SessionTypes
  <2>7. StackShape' /\ \A q \in RunIds : ~Executing(q)'
    BY <1>1, <2>4, IdleStack
  <2>8. \A q \in RunIds : IsPaused(q)' <=> IsPaused(q) \/ q = r
    BY <2>1, <2>5, SessionTypes DEF IsPaused
  <2>9. OnePlace'
    <3>1. /\ \A q \in RunIds : run[q].why = "VM" <=> q = r
          /\ \A q \in RunIds : run[q].why \notin SlotWhys
          /\ \A q \in RunIds : run[q].why = "PAUSE" <=> IsPaused(q)
          /\ \A i, j \in 1 .. Len(paused) : paused[i].run = paused[j].run => i = j
      BY <1>3, RunIdsFacts DEF SessionInv, OnePlace
    <3>2. /\ \A q \in RunIds : run'[q].why = "VM" <=> Executing(q)'
          /\ \A q \in RunIds : run'[q].why \in SlotWhys <=> slot' = q
          /\ \A q \in RunIds : run'[q].why = "PAUSE" <=> IsPaused(q)'
      BY <1>3, <2>6, <2>7, <2>8, <3>1, RunIdsFacts DEF SlotWhys
    <3>3. ASSUME NEW i \in 1 .. Len(paused'), NEW j \in 1 .. Len(paused'),
                 paused'[i].run = paused'[j].run
          PROVE  i = j
      <4>1. \A k \in 1 .. Len(paused) : paused[k].run # r
        BY <1>3 DEF IsPaused
      <4> QED
        BY <2>1, <2>5, <3>1, <3>3, <4>1, SessionTypes
    <3> QED
      BY <3>2, <3>3 DEF OnePlace
  <2>10. LevelsAreStrict'
    <3>1. paused # <<>> => paused[Len(paused)].level < e.level
      BY <1>1, <1>2, <2>1, NotDue, SessionTypes
    <3>2. ASSUME NEW i \in 1 .. Len(paused') - 1
          PROVE  paused'[i].level < paused'[i + 1].level
      <4>1. CASE i = Len(paused)
        <5>1. paused # <<>>
          BY <2>5, <4>1, SessionTypes
        <5> QED
          BY <2>5, <3>1, <4>1, <5>1, SessionTypes
      <4>2. CASE i # Len(paused)
        <5>1. i \in 1 .. Len(paused) - 1 /\ i \in 1 .. Len(paused)
              /\ i + 1 \in 1 .. Len(paused)
          BY <2>5, <4>2, SessionTypes
        <5> QED
          BY <2>5, <5>1 DEF SessionInv, LevelsAreStrict
      <4> QED
        BY <4>1, <4>2
    <3> QED
      BY <3>2 DEF LevelsAreStrict
  <2>11. PauseLevels'
    BY <1>2, <2>1, <2>5 DEF PauseLevels
  <2>12. WakeupsServeSlot' /\ NothingAfterDestroy' /\ SlotOrStack'
    BY <1>2, <1>3, WaitsUnchanged DEF SlotOrStack
  <2> QED
    BY <2>7, <2>9, <2>10, <2>11, <2>12 DEF SessionInv
<1>5. CASE ~(Len(paused) < MaxPaused)
  <2>1. Returns(r, FreeRun, paused) /\ pause_depth' >= pause_depth
    BY <1>2, <1>5, SessionTypes DEF Pause
  <2> QED
    BY <1>1, <1>2, <2>1, EndReturns
<1> QED
  BY <1>4, <1>5

LEMMA SessionEnds ==
  ASSUME Inv, SessionInv, NEW r \in RunIds, Halt(r) \/ AwaitOutside(r) \/ AgentsDone(r)
  PROVE  SessionInv'
<1>1. Executing(r) /\ Below \in Bases
  BY RunningFacts DEF Halt, AwaitOutside, AgentsDone, SessionInv, RunKinds
<1>2. /\ Returns(r, FreeRun, paused) /\ pause_depth' = pause_depth
      /\ UNCHANGED waitVars /\ UNCHANGED window
  BY DEF Halt, AwaitOutside, AgentsDone
<1>3. pause_depth' \in Nat /\ pause_depth' >= pause_depth
  BY <1>2, SessionTypes
<1> QED
  BY <1>1, <1>2, <1>3, EndReturns

\* A step of an executing run that changes no more than what it has left, its
\* own frame's kind, and pause_depth.
LEMMA SessionGoesOn ==
  ASSUME Inv, SessionInv, NEW r \in RunIds, Executing(r), NEW op \in AllOps, Performs(r, op),
         run' = [run EXCEPT ![r] = Spent(r, op)], UNCHANGED paused,
         stack' = stack \/ \E kind \in RunKinds, base \in Bases :
                             stack' = Append(base, Frame(kind, r)),
         UNCHANGED waitVars, UNCHANGED window, pause_depth' \in Nat,
         \/ pause_depth' >= pause_depth
         \/ op \in FinalOps /\ pause_depth' = pause_depth - 1
  PROVE  SessionInv'
<1>1. /\ slot = NoRun /\ slot' = NoRun /\ window = "open" /\ stack \notin Bases
      /\ run[r].why = "VM" /\ \A q \in RunIds : Executing(q) <=> q = r
  BY ExecutingFacts DEF waitVars
<1>2. StackShape' /\ \A q \in RunIds : Executing(q)' <=> q = r
  <2>1. CASE stack' = stack
    BY <1>1, <2>1 DEF StackShape, Executing
  <2>2. CASE stack' # stack
    BY <2>2, RunStack
  <2> QED
    BY <2>1, <2>2
<1>3. /\ Spent(r, op).why = run[r].why
      /\ op \in FinalOps => Spent(r, op).left = 0
  <2>1. op \in FinalOps => Spent(r, op).left = 0
    BY SessionTypes DEF Spent, RunRecord
  <2> QED
    BY <2>1, SpentType DEF Inv
<1> DEFINE rec == Spent(r, op)
<1>4. run' = [run EXCEPT ![r] = rec] /\ rec.why = "VM" /\ (op \in FinalOps => rec.left = 0)
  BY <1>1, <1>3
<1> HIDE DEF rec
<1>5. /\ \A q \in RunIds : run'[q].why = run[q].why
      /\ op \in FinalOps => run'[r].left = 0
  BY <1>1, <1>4, SessionTypes
<1>6. \A q \in RunIds : IsPaused(q)' <=> IsPaused(q)
  BY DEF IsPaused
<1>7. OnePlace'
  BY <1>1, <1>2, <1>5, <1>6 DEF SessionInv, OnePlace
<1>8. PauseLevels'
  <2>1. paused # <<>> => paused[Len(paused)].level <= pause_depth
    BY NotDue DEF Performs
  <2>2. CASE pause_depth' >= pause_depth
    BY <2>1, <2>2, SessionTypes DEF PauseLevels
  <2>3. CASE op \in FinalOps /\ pause_depth' = pause_depth - 1
    <3>1. Finishing'
      BY <1>2, <1>5, <2>3 DEF Finishing
    <3> QED
      BY <2>1, <2>3, <3>1, SessionTypes DEF PauseLevels
  <2> QED
    BY <2>2, <2>3
<1>9. WakeupsServeSlot' /\ NothingAfterDestroy' /\ SlotOrStack' /\ LevelsAreStrict'
  BY <1>1, WaitsUnchanged DEF SlotOrStack, LevelsAreStrict, SessionInv
<1> QED
  BY <1>2, <1>7, <1>8, <1>9 DEF SessionInv

\* The operations of a program.
LEMMA SessionExecutes ==
  ASSUME SessionVocabulary, Inv, SessionInv, NEW r \in RunIds,
         \/ \E h \in Handlers, n \in Names : On(r, h, n)
         \/ \E h \in Handlers : Off(r, h)
         \/ exec_continue(r) \/ AgentPause(r) \/ Drain(r) \/ Launch(r)
  PROVE  SessionInv'
<1>1. CASE Launch(r)
  <2>1. Executing(r) /\ Below \in Bases
    BY <1>1, RunningFacts DEF Launch, SessionInv, RunKinds
  <2>2. /\ Performs(r, "LAUNCH") /\ run' = [run EXCEPT ![r] = Spent(r, "LAUNCH")]
        /\ stack' = Append(Below, Frame("agents", r))
        /\ UNCHANGED waitVars /\ UNCHANGED window
        /\ paused' = paused /\ pause_depth' = pause_depth
    BY <1>1 DEF Launch, pauseVars
  <2>3. "LAUNCH" \in AllOps /\ "agents" \in RunKinds
    BY DEF AllOps, RunKinds
  <2>4. pause_depth' \in Nat /\ pause_depth' >= pause_depth
    BY <2>2, SessionTypes
  <2> QED
    BY <2>1, <2>2, <2>3, <2>4, SessionGoesOn
<1>2. ASSUME NEW op \in AllOps, Executes(r, op), UNCHANGED <<stack, paused>>,
             UNCHANGED waitVars, UNCHANGED window, pause_depth' \in Nat,
             \/ pause_depth' >= pause_depth
             \/ op \in FinalOps /\ pause_depth' = pause_depth - 1
      PROVE  SessionInv'
  <2>1. Executing(r)
    BY <1>2, RunningFacts DEF Executes, SessionInv, RunKinds
  <2> QED
    BY <1>2, <2>1, SessionGoesOn DEF Executes
<1>3. CASE \E h \in Handlers, n \in Names : On(r, h, n)
  <2>1. /\ Executes(r, "ON") /\ UNCHANGED <<stack, paused>> /\ UNCHANGED waitVars
        /\ UNCHANGED window /\ pause_depth' = pause_depth
    BY <1>3 DEF On, pauseVars
  <2> QED
    BY <1>2, <2>1, SessionTypes DEF AllOps
<1>4. CASE \E h \in Handlers : Off(r, h)
  <2>1. /\ Executes(r, "OFF") /\ UNCHANGED <<stack, paused>> /\ UNCHANGED waitVars
        /\ UNCHANGED window /\ pause_depth' = pause_depth
    BY <1>4 DEF Off, pauseVars
  <2> QED
    BY <1>2, <2>1, SessionTypes DEF AllOps
<1>5. CASE exec_continue(r)
  <2>1. /\ Executes(r, "CONTINUE") /\ UNCHANGED <<stack, paused>> /\ UNCHANGED waitVars
        /\ UNCHANGED window
        /\ pause_depth' = IF pause_depth > 0 THEN pause_depth - 1 ELSE 0
    BY <1>5 DEF exec_continue
  <2>2. "CONTINUE" \in UsedOps
    BY <2>1 DEF Executes, Performs, UsedOps
  <2>3. "CONTINUE" \in FinalOps /\ "CONTINUE" \in AllOps
    BY <2>2 DEF SessionVocabulary, AllOps
  <2>4. pause_depth' \in Nat /\ (pause_depth' = pause_depth - 1 \/ pause_depth' >= pause_depth)
    BY <2>1, SessionTypes
  <2> QED
    BY <1>2, <2>1, <2>3, <2>4
<1>6. CASE AgentPause(r)
  <2>1. /\ Executes(r, "PAUSE") /\ UNCHANGED <<stack, paused>> /\ UNCHANGED waitVars
        /\ UNCHANGED window /\ pause_depth' = pause_depth + 1
    BY <1>6 DEF AgentPause
  <2> QED
    BY <1>2, <2>1, SessionTypes DEF AllOps
<1>7. CASE Drain(r)
  BY <1>7 DEF Drain, Executes, Performs, SessionVocabulary, UsedOps
<1> QED
  BY <1>1, <1>3, <1>4, <1>5, <1>6, <1>7

\* A new run executes where none did.
LEMMA SessionStarts ==
  ASSUME Inv, SessionInv, stack \in Bases, slot = NoRun, window = "open",
         NEW base \in Bases, NEW r \in RunIds, NEW c \in ChunkIds \cup {NoChunk},
         NEW owns \in BOOLEAN, Starts(r, c, owns, base),
         UNCHANGED waitVars, UNCHANGED pauseVars, UNCHANGED window
  PROVE  SessionInv'
<1> DEFINE rec == [chunk |-> c, owns |-> owns, left |-> MaxOps, why |-> "VM"]
<1>1. /\ run[r].why = "FREE" /\ run' = [run EXCEPT ![r] = rec]
      /\ stack' = Append(base, Frame("vm", r))
  BY FreeRunType DEF Starts
<1>2. rec.why = "VM"
  OBVIOUS
<1> HIDE DEF rec
<1>3. run'[r].why = "VM" /\ \A q \in RunIds \ {r} : run'[q] = run[q]
  BY <1>1, <1>2, SessionTypes
<1>4. StackShape' /\ \A q \in RunIds : Executing(q)' <=> q = r
  BY <1>1, RunStack DEF RunKinds
<1>5. \A q \in RunIds : ~Executing(q)
  BY HoldsFacts, BaseFacts DEF Executing, RunKinds
<1>6. paused' = paused /\ pause_depth' = pause_depth /\ slot' = NoRun
      /\ \A q \in RunIds : IsPaused(q)' <=> IsPaused(q)
  BY DEF pauseVars, waitVars, IsPaused
<1>7. OnePlace'
  <2>1. /\ \A q \in RunIds : run[q].why # "VM"
        /\ \A q \in RunIds : run[q].why \notin SlotWhys
        /\ \A q \in RunIds : run[q].why = "PAUSE" <=> IsPaused(q)
        /\ \A i, j \in 1 .. Len(paused) : paused[i].run = paused[j].run => i = j
    BY <1>5, RunIdsFacts DEF SessionInv, OnePlace
  <2>2. \A q \in RunIds : run'[q].why = "VM" <=> Executing(q)'
    BY <1>3, <1>4, <2>1
  <2>3. \A q \in RunIds : run'[q].why \in SlotWhys <=> slot' = q
    BY <1>3, <1>6, <2>1, RunIdsFacts DEF SlotWhys
  <2>4. \A q \in RunIds : run'[q].why = "PAUSE" <=> IsPaused(q)'
    BY <1>1, <1>3, <1>6, <2>1
  <2> QED
    BY <1>6, <2>1, <2>2, <2>3, <2>4 DEF OnePlace
<1>8. PauseLevels'
  BY <1>5, <1>6 DEF SessionInv, PauseLevels, Finishing
<1>9. WakeupsServeSlot' /\ NothingAfterDestroy' /\ SlotOrStack' /\ LevelsAreStrict'
  BY <1>6, WaitsUnchanged DEF SlotOrStack, LevelsAreStrict, SessionInv
<1> QED
  BY <1>4, <1>7, <1>8, <1>9 DEF SessionInv

\* GTK dispatches only from the main loop: nothing drains its events.
LEMMA DispatchFacts ==
  ASSUME SessionInv
  PROVE  /\ Dispatching => stack = <<>>
         /\ \A q \in RunIds : stack \in Bases => ~Executing(q)
         /\ <<>> \in Bases /\ <<KeyFrame>> \in Bases
<1>1. Dispatching => stack = <<>>
  BY TopFacts DEF Dispatching, SessionInv
<1>2. \A q \in RunIds : stack \in Bases => ~Executing(q)
  BY HoldsFacts, BaseFacts DEF Executing, RunKinds
<1> QED
  BY <1>1, <1>2 DEF Bases

LEMMA SessionSubmits ==
  ASSUME Inv, SessionInv, NEW shape \in Shapes, Submit(shape) \/ KeyReturn(shape)
  PROVE  SessionInv'
<1>1. PICK base \in Bases : stack \in Bases /\ window = "open" /\ run_logo_script(shape, base)
  <2>1. CASE Submit(shape)
    BY <2>1, DispatchFacts DEF Submit, CanDispatch
  <2>2. CASE KeyReturn(shape)
    <3>1. stack = <<KeyFrame>> /\ Below = <<>>
      BY <2>2, TopFacts DEF KeyReturn, SessionInv
    <3>2. window = "open"
      BY <3>1 DEF SessionInv, NothingAfterDestroy, Inv, TypeOK
    <3> QED
      BY <2>2, <3>1, <3>2, DispatchFacts DEF KeyReturn
  <2> QED
    BY <2>1, <2>2
<1>2. PICK c \in ChunkIds, r \in RunIds : Starts(r, c, TRUE, base)
  BY <1>1 DEF run_logo_script
<1> QED
  BY <1>1, <1>2, SessionStarts DEF run_logo_script

LEMMA SessionFires ==
  ASSUME Inv, SessionInv, KeyPress \/ \E h \in Handlers : Event(h)
  PROVE  SessionInv'
<1>1. PICK base \in Bases, h \in Handlers :
        stack \in Bases /\ window = "open" /\ fire_handler(h, base)
  <2>1. CASE KeyPress
    <3>1. stack = <<>> /\ window = "open"
          /\ "key" \in Handlers /\ fire_handler("key", Append(stack, KeyFrame))
      BY <2>1, DispatchFacts DEF KeyPress, CanDispatch, KeyFrame
    <3>2. Append(stack, KeyFrame) = <<KeyFrame>>
      BY <3>1
    <3> QED
      BY <3>1, <3>2, DispatchFacts
  <2>2. CASE \E h \in Handlers : Event(h)
    BY <2>2, DispatchFacts DEF Event, CanDispatch
  <2> QED
    BY <2>1, <2>2
<1>2. PICK r \in RunIds : Starts(r, owner[h], FALSE, base)
  BY <1>1 DEF fire_handler
<1>3. owner[h] \in ChunkIds \cup {NoChunk}
  BY DEF Inv, TypeOK
<1> QED
  BY <1>1, <1>2, <1>3, SessionStarts DEF fire_handler, Fires

\* The run in the slot executes again: its wake-up is the only one.
LEMMA SessionResumes ==
  ASSUME Inv, SessionInv, WaitKeyPress \/ InputReturn \/ \E t \in TimerIds : Timeout(t)
  PROVE  SessionInv'
<1>1. /\ slot # NoRun /\ slot' = NoRun /\ run' = [run EXCEPT ![slot].why = "VM"]
      /\ stack' = Append(stack, Frame("vm", slot))
      /\ UNCHANGED pauseVars /\ UNCHANGED window
      /\ Dispatching
  BY DEF WaitKeyPress, InputReturn, Timeout, ResumeSlot, CanDispatch
<1>2. stack \in Bases /\ slot \in RunIds /\ \A q \in RunIds : ~Executing(q)
  BY <1>1, DispatchFacts DEF Inv, TypeOK
<1>3. window = "open"
  BY <1>1 DEF SessionInv, NothingAfterDestroy, Inv, TypeOK
<1>4. StackShape' /\ \A q \in RunIds : Executing(q)' <=> q = slot
  BY <1>1, <1>2, RunStack DEF RunKinds
<1>5. run'[slot].why = "VM" /\ \A q \in RunIds \ {slot} : run'[q] = run[q]
  BY <1>1, <1>2, SessionTypes DEF RunRecord
<1>6. paused' = paused /\ pause_depth' = pause_depth
      /\ \A q \in RunIds : IsPaused(q)' <=> IsPaused(q)
  BY <1>1 DEF pauseVars, IsPaused
<1>7. OnePlace'
  <2>1. /\ \A q \in RunIds : run[q].why # "VM"
        /\ \A q \in RunIds : run[q].why \in SlotWhys <=> slot = q
        /\ \A q \in RunIds : run[q].why = "PAUSE" <=> IsPaused(q)
        /\ \A i, j \in 1 .. Len(paused) : paused[i].run = paused[j].run => i = j
    BY <1>2 DEF SessionInv, OnePlace
  <2>2. \A q \in RunIds : run'[q].why = "VM" <=> Executing(q)'
    BY <1>4, <1>5, <2>1
  <2>3. \A q \in RunIds : run'[q].why \in SlotWhys <=> slot' = q
    BY <1>1, <1>5, <2>1, RunIdsFacts DEF SlotWhys
  <2>4. \A q \in RunIds : run'[q].why = "PAUSE" <=> IsPaused(q)'
    BY <1>2, <1>5, <1>6, <2>1 DEF SlotWhys
  <2> QED
    BY <1>6, <2>1, <2>2, <2>3, <2>4 DEF OnePlace
<1>8. PauseLevels'
  BY <1>2, <1>6 DEF SessionInv, PauseLevels, Finishing
<1>9. SlotOrStack' /\ LevelsAreStrict' /\ NothingAfterDestroy'
  BY <1>1, <1>3, <1>6 DEF SlotOrStack, LevelsAreStrict, SessionInv, NothingAfterDestroy
<1>10. WakeupsServeSlot'
  <2>1. /\ timers \in [TimerIds -> {"none", "WAIT", "ANIMATE"}]
        /\ timeout_id \in TimerIds \cup {NoTimer} /\ NoTimer \notin TimerIds
        /\ waiting_for_key \in BOOLEAN /\ waiting_for_input \in BOOLEAN
    BY DEF Inv, TypeOK, TimerIds, NoTimer
  <2>2. /\ \A t \in TimerIds : timers[t] # "none" =>
             timeout_id = t /\ run[slot].why = timers[t]
        /\ timeout_id # NoTimer => timers[timeout_id] # "none"
        /\ waiting_for_key <=> run[slot].why = "WAITKEY"
        /\ waiting_for_input <=> run[slot].why = "INPUT"
    BY <1>1, <1>3 DEF SessionInv, WakeupsServeSlot
  <2>3. /\ \A t \in TimerIds : timers'[t] = "none"
        /\ timeout_id' = NoTimer /\ ~waiting_for_key' /\ ~waiting_for_input'
    <3>1. CASE WaitKeyPress
      <4>1. run[slot].why = "WAITKEY" /\ ~waiting_for_key' /\ ~waiting_for_input
            /\ UNCHANGED <<timers, timeout_id, waiting_for_input>>
        BY <2>2, <3>1 DEF WaitKeyPress
      <4>2. \A t \in TimerIds : timers[t] = "none"
        BY <2>1, <2>2, <4>1
      <4> QED
        BY <2>1, <2>2, <4>1, <4>2
    <3>2. CASE InputReturn
      <4>1. run[slot].why = "INPUT" /\ ~waiting_for_key /\ ~waiting_for_input'
            /\ UNCHANGED <<timers, timeout_id, waiting_for_key>>
        BY <2>2, <3>2 DEF InputReturn
      <4>2. \A t \in TimerIds : timers[t] = "none"
        BY <2>1, <2>2, <4>1
      <4> QED
        BY <2>1, <2>2, <4>1, <4>2
    <3>3. ASSUME NEW t \in TimerIds, Timeout(t)
          PROVE  /\ \A u \in TimerIds : timers'[u] = "none"
                 /\ timeout_id' = NoTimer /\ ~waiting_for_key' /\ ~waiting_for_input'
      <4>1. /\ timers[t] # "none" /\ timers' = [timers EXCEPT ![t] = "none"]
            /\ timeout_id' = NoTimer /\ UNCHANGED <<waiting_for_key, waiting_for_input>>
        BY <3>3 DEF Timeout
      <4>2. run[slot].why \in {"WAIT", "ANIMATE"} /\ timeout_id = t
        BY <2>1, <2>2, <4>1
      <4>3. ~waiting_for_key /\ ~waiting_for_input
        BY <2>2, <4>2
      <4>4. \A u \in TimerIds : timers'[u] = "none"
        BY <2>1, <2>2, <4>1, <4>2
      <4> QED
        BY <4>1, <4>3, <4>4
    <3> QED
      BY <3>1, <3>2, <3>3
  <2> QED
    BY <1>1, <2>3 DEF WakeupsServeSlot
<1> QED
  BY <1>4, <1>7, <1>8, <1>9, <1>10 DEF SessionInv

LEMMA SessionKeyDone ==
  ASSUME Inv, SessionInv, Drained \/ KeyDone
  PROVE  SessionInv'
<1>1. KeyDone /\ stack = <<KeyFrame>> /\ stack' = <<>>
  BY TopFacts DEF Drained, KeyDone, SessionInv
<1>2. UNCHANGED waitVars /\ UNCHANGED <<paused, pause_depth, run, window>>
  BY <1>1 DEF KeyDone, pauseVars
<1>3. stack \in Bases /\ stack' \in Bases
  BY <1>1, DispatchFacts
<1>4. /\ \A q \in RunIds : ~Executing(q)
      /\ StackShape' /\ \A q \in RunIds : ~Executing(q)'
  BY <1>3, IdleStack, DispatchFacts
<1>5. OnePlace'
  BY <1>2, <1>4 DEF SessionInv, OnePlace, IsPaused, waitVars
<1>6. PauseLevels' /\ LevelsAreStrict' /\ SlotOrStack'
  BY <1>2, <1>3, <1>4
     DEF SessionInv, PauseLevels, LevelsAreStrict, Finishing, SlotOrStack
<1>7. WakeupsServeSlot'
  BY <1>2 DEF SessionInv, WakeupsServeSlot, waitVars
<1>8. NothingAfterDestroy'
  BY <1>1, <1>2 DEF SessionInv, NothingAfterDestroy
<1> QED
  BY <1>4, <1>5, <1>6, <1>7, <1>8 DEF SessionInv

\* The window's end takes the run in the slot and its timer with it.
LEMMA SessionDestroys ==
  ASSUME Inv, SessionInv, on_window_destroy
  PROVE  SessionInv'
<1>1. /\ stack = <<>> /\ stack' = stack /\ window' = "destroyed"
      /\ timers' = [t \in TimerIds |-> IF t = timeout_id THEN "none" ELSE timers[t]]
      /\ timeout_id' = NoTimer /\ slot' = NoRun
      /\ run' = IF slot = NoRun THEN run ELSE [run EXCEPT ![slot] = FreeRun]
      /\ paused' = paused /\ pause_depth' = pause_depth
  BY DispatchFacts DEF on_window_destroy, CanDispatch, pauseVars
<1>2. StackShape' /\ \A q \in RunIds : ~Executing(q) /\ ~Executing(q)'
  BY <1>1, IdleStack, DispatchFacts
<1>3. \A t \in TimerIds : timers'[t] = "none"
  <2>1. timers \in [TimerIds -> {"none", "WAIT", "ANIMATE"}]
    BY DEF Inv, TypeOK
  <2> QED
    BY <1>1, <2>1 DEF SessionInv, WakeupsServeSlot
<1>4. \A q \in RunIds : /\ q = slot => run'[q].why = "FREE"
                        /\ q # slot => run'[q] = run[q]
  BY <1>1, SessionTypes, FreeRunType, RunIdsFacts
<1>5. OnePlace'
  <2>1. /\ \A q \in RunIds : run[q].why # "VM"
        /\ \A q \in RunIds : run[q].why \in SlotWhys <=> slot = q
        /\ \A q \in RunIds : run[q].why = "PAUSE" <=> IsPaused(q)
        /\ \A i, j \in 1 .. Len(paused) : paused[i].run = paused[j].run => i = j
    BY <1>2 DEF SessionInv, OnePlace
  <2>2. \A q \in RunIds : IsPaused(q)' <=> IsPaused(q)
    BY <1>1 DEF IsPaused
  <2>3. \A q \in RunIds : run'[q].why = "VM" <=> Executing(q)'
    BY <1>2, <1>4, <2>1
  <2>4. \A q \in RunIds : run'[q].why \in SlotWhys <=> slot' = q
    BY <1>1, <1>4, <2>1, RunIdsFacts DEF SlotWhys
  <2>5. \A q \in RunIds : run'[q].why = "PAUSE" <=> IsPaused(q)'
    BY <1>4, <2>1, <2>2 DEF SlotWhys
  <2> QED
    BY <1>1, <2>1, <2>3, <2>4, <2>5 DEF OnePlace
<1>6. PauseLevels' /\ LevelsAreStrict' /\ SlotOrStack' /\ NothingAfterDestroy'
  BY <1>1, <1>2, <1>3
     DEF SessionInv, PauseLevels, LevelsAreStrict, Finishing, SlotOrStack, NothingAfterDestroy
<1>7. WakeupsServeSlot'
  BY <1>1, <1>3 DEF WakeupsServeSlot
<1> QED
  BY <1>2, <1>5, <1>6, <1>7 DEF SessionInv
-----------------------------------------------------------------------------
(* The invariant holds.                                                    *)

\* At the start nothing runs.
LEMMA SessionInit == Init => SessionInv
<1> SUFFICES ASSUME Init PROVE SessionInv
  OBVIOUS
<1>1. /\ stack = <<>> /\ slot = NoRun /\ paused = <<>> /\ timeout_id = NoTimer
      /\ \A t \in TimerIds : timers[t] = "none"
      /\ waiting_for_key = FALSE /\ waiting_for_input = FALSE /\ window = "open"
  BY DEF Init
<1>2. \A r \in RunIds : run[r].why = "FREE"
  BY FreeRunType DEF Init
<1>3. stack \in Bases /\ \A r \in RunIds : ~Executing(r)
  BY <1>1, HoldsFacts, BaseFacts DEF Bases, Executing, RunKinds
<1>4. \A r \in RunIds : ~IsPaused(r)
  BY <1>1 DEF IsPaused
<1>5. \A i, j \in 1 .. Len(paused) : i = j
  BY <1>1
<1>6. OnePlace
  BY <1>1, <1>2, <1>3, <1>4, <1>5, RunIdsFacts DEF OnePlace, SlotWhys
<1>7. WakeupsServeSlot /\ NothingAfterDestroy
  BY <1>1 DEF WakeupsServeSlot, NothingAfterDestroy
<1>8. StackShape /\ SlotOrStack /\ PauseLevels /\ LevelsAreStrict
  BY <1>1, <1>3 DEF StackShape, SlotOrStack, PauseLevels, LevelsAreStrict
<1> QED
  BY <1>6, <1>7, <1>8 DEF SessionInv

LEMMA SessionStutters ==
  ASSUME SessionInv, UNCHANGED vars
  PROVE  SessionInv'
<1>1. StackShape' /\ SlotOrStack' /\ OnePlace' /\ PauseLevels'
  BY DEF SessionInv, vars, StackShape, SlotOrStack, OnePlace, PauseLevels, Executing,
         IsPaused, Finishing
<1>2. LevelsAreStrict' /\ WakeupsServeSlot' /\ NothingAfterDestroy'
  BY DEF SessionInv, vars, LevelsAreStrict, WakeupsServeSlot, NothingAfterDestroy
<1> QED
  BY <1>1, <1>2 DEF SessionInv

LEMMA SessionStep == SessionVocabulary => (Inv /\ SessionInv /\ [Next]_vars => SessionInv')
<1> SUFFICES ASSUME SessionVocabulary, Inv, SessionInv, [Next]_vars PROVE SessionInv'
  OBVIOUS
<1>1. CASE VmStep
  BY <1>1, SessionSuspends, SessionPauses, SessionEnds, SessionExecutes DEF VmStep
<1>2. CASE Drained \/ KeyStep
  BY <1>2, SessionKeyDone, SessionSubmits DEF KeyStep
<1>3. CASE UserStep
  BY <1>3, SessionSubmits, SessionFires, SessionResumes, SessionDestroys DEF UserStep
<1>4. CASE TimerStep
  BY <1>4, SessionResumes DEF TimerStep
<1>5. CASE UNCHANGED vars
  BY <1>5, SessionStutters
<1> QED
  BY <1>1, <1>2, <1>3, <1>4, <1>5 DEF Next

\* Where runs are, what wakes them and how PAUSEs nest, together: the
\* inductive invariant of sessions.
THEOREM SessionInvariant == SessionVocabulary => (Spec => []SessionInv)
<1> SUFFICES ASSUME SessionVocabulary PROVE Spec => []SessionInv
  OBVIOUS
<1>1. Inv /\ SessionInv /\ [Next]_vars => SessionInv'
  BY SessionStep
<1> QED
  BY <1>1, SessionInit, DriverInvariant, PTL DEF Spec
-----------------------------------------------------------------------------
(* What it says.                                                           *)

\* The places of a run on the stack and among the paused runs: none, or one.
LEMMA StackPlaces ==
  ASSUME Inv, SessionInv, NEW r \in RunIds
  PROVE  /\ Executing(r) => OnStack(r) = {Len(stack)}
         /\ ~Executing(r) => OnStack(r) = {}
<1>1. \A base \in Bases : \A i \in 1 .. Len(base) : base[i].run # r
  BY RunIdsFacts DEF Bases, KeyFrame, Frame
<1>2. ASSUME NEW base \in Bases, NEW kind \in RunKinds, NEW q \in RunIds,
             stack = Append(base, Frame(kind, q))
      PROVE  OnStack(r) = IF q = r THEN {Len(stack)} ELSE {}
  <2>1. base \in Seq(FrameRecord) /\ Frame(kind, q) \in FrameRecord
    BY BaseFacts
  <2>2. /\ Len(stack) = Len(base) + 1 /\ Len(base) \in Nat
        /\ \A i \in 1 .. Len(base) : stack[i] = base[i]
        /\ stack[Len(stack)] = Frame(kind, q)
    BY <1>2, <2>1
  <2>3. \A i \in 1 .. Len(stack) : stack[i].run = r <=> i = Len(stack) /\ q = r
    BY <1>1, <2>2 DEF Frame
  <2> QED
    BY <2>2, <2>3 DEF OnStack
<1>3. ASSUME Executing(r) PROVE OnStack(r) = {Len(stack)}
  BY <1>2, <1>3 DEF Executing, Holds
<1>4. ASSUME ~Executing(r) PROVE OnStack(r) = {}
  <2>1. CASE stack \in Bases
    BY <1>1, <2>1 DEF OnStack
  <2>2. CASE \E q \in RunIds : Executing(q)
    BY <1>2, <1>4, <2>2 DEF Executing, Holds
  <2> QED
    BY <2>1, <2>2 DEF SessionInv, StackShape
<1> QED
  BY <1>3, <1>4

LEMMA PausedPlaces ==
  ASSUME SessionInv, NEW r \in RunIds
  PROVE  /\ IsPaused(r) => \E i : OnPaused(r) = {i}
         /\ ~IsPaused(r) => OnPaused(r) = {}
<1>1. ASSUME IsPaused(r) PROVE \E i : OnPaused(r) = {i}
  <2>1. PICK i \in 1 .. Len(paused) : paused[i].run = r
    BY <1>1 DEF IsPaused
  <2>2. \A j \in 1 .. Len(paused) : paused[j].run = r <=> j = i
    BY <2>1 DEF SessionInv, OnePlace
  <2>3. OnPaused(r) = {i}
    BY <2>1, <2>2 DEF OnPaused
  <2> QED
    BY <2>3
<1>2. ~IsPaused(r) => OnPaused(r) = {}
  BY DEF IsPaused, OnPaused
<1> QED
  BY <1>1, <1>2

\* A live run is executing, suspended or paused.
LEMMA LiveFacts ==
  ASSUME Inv, SessionInv, NEW r \in RunIds
  PROVE  /\ Live(r) <=> Executing(r) \/ IsPaused(r) \/ slot = r
         /\ ~(Executing(r) /\ IsPaused(r)) /\ ~(Executing(r) /\ slot = r)
         /\ ~(IsPaused(r) /\ slot = r)
<1>1. /\ run[r].why = "VM" <=> Executing(r)
      /\ run[r].why \in SlotWhys <=> slot = r
      /\ run[r].why = "PAUSE" <=> IsPaused(r)
  BY DEF SessionInv, OnePlace
<1>2. run[r].why \in {"VM", "PAUSE", "FREE"} \cup SlotWhys
  BY DEF Inv, TypeOK, Whys, SlotWhys
<1> QED
  BY <1>1, <1>2 DEF Live, SlotWhys

LEMMA RunsHavePlaces == Inv /\ SessionInv => NoRunLost
<1> SUFFICES ASSUME Inv, SessionInv, NEW r \in RunIds
             PROVE  Cardinality(OnStack(r)) + Cardinality(OnPaused(r)) + Cardinality(InSlot(r))
                      = IF Live(r) THEN 1 ELSE 0
  BY DEF NoRunLost
<1>1. /\ Cardinality(OnStack(r)) = IF Executing(r) THEN 1 ELSE 0
      /\ Cardinality(OnPaused(r)) = IF IsPaused(r) THEN 1 ELSE 0
      /\ Cardinality(InSlot(r)) = IF slot = r THEN 1 ELSE 0
  BY StackPlaces, PausedPlaces, FS_EmptySet, FS_Singleton DEF InSlot
<1> QED
  BY <1>1, LiveFacts

LEMMA RunsAreOne == Inv /\ SessionInv => OneThread
<1> SUFFICES ASSUME Inv, SessionInv PROVE OneThread
  OBVIOUS
<1> DEFINE At == {i \in 1 .. Len(stack) : stack[i].kind \in {"vm", "agents"}}
<1>1. \A base \in Bases : \A i \in 1 .. Len(base) : base[i].kind \notin RunKinds
  BY DEF Bases, KeyFrame, Frame, RunKinds
<1>2. CASE stack \in Bases
  <2>1. At = {}
    BY <1>1, <1>2 DEF RunKinds
  <2> QED
    BY <2>1, FS_EmptySet DEF OneThread
<1>3. CASE \E r \in RunIds : Executing(r)
  <2>1. PICK base \in Bases, kind \in RunKinds, r \in RunIds : stack = Append(base, Frame(kind, r))
    BY <1>3 DEF Executing, Holds
  <2>2. base \in Seq(FrameRecord) /\ Frame(kind, r) \in FrameRecord
    BY BaseFacts
  <2>3. /\ Len(stack) = Len(base) + 1 /\ Len(base) \in Nat
        /\ \A i \in 1 .. Len(base) : stack[i] = base[i]
        /\ stack[Len(stack)] = Frame(kind, r)
    BY <2>1, <2>2
  <2>4. \A i \in 1 .. Len(stack) : stack[i].kind \in RunKinds <=> i = Len(stack)
    BY <1>1, <2>3 DEF Frame
  <2>5. At = {Len(stack)}
    BY <2>3, <2>4 DEF RunKinds
  <2>6. Cardinality(At) = 1
    BY <2>5, FS_Singleton
  <2>7. slot = NoRun
    BY <1>3, ExecutingFacts
  <2> QED
    BY <2>6, <2>7 DEF OneThread
<1> QED
  BY <1>2, <1>3 DEF SessionInv, StackShape

\* A run is never lost: while it lives it is executing, in g_suspended_run or
\* on g_paused_runs, and in one of these once (handle_vm_result overwrites no
\* other run's place; maybe_resume_paused_runs takes what it resumes off).
THEOREM NoRunIsLost == SessionVocabulary => (Spec => []NoRunLost)
<1> SUFFICES ASSUME SessionVocabulary PROVE Spec => []NoRunLost
  OBVIOUS
<1> QED
  BY RunsHavePlaces, DriverInvariant, SessionInvariant, PTL

\* Script code is one thread: callbacks may come in any order, yet at most one
\* run executes or waits in g_suspended_run (the refusals of run_logo_script,
\* fire_handler and the two waiting flags are enough).
THEOREM OneThreadOnly == SessionVocabulary => (Spec => []OneThread)
<1> SUFFICES ASSUME SessionVocabulary PROVE Spec => []OneThread
  OBVIOUS
<1> QED
  BY RunsAreOne, DriverInvariant, SessionInvariant, PTL

\* What can wake the run in g_suspended_run is what it waits for: no timer of an
\* earlier wait fires for it, and neither does a key or a line it did not ask for.
THEOREM WakeupsServeTheSlot == SessionVocabulary => (Spec => []WakeupsServeSlot)
<1> SUFFICES ASSUME SessionVocabulary PROVE Spec => []WakeupsServeSlot
  OBVIOUS
<1>1. SessionInv => WakeupsServeSlot
  BY DEF SessionInv
<1> QED
  BY <1>1, SessionInvariant, PTL

\* PAUSEs nest: each paused run has a level above those paused before it.
THEOREM PausesNest == SessionVocabulary => (Spec => []LevelsAreStrict)
<1> SUFFICES ASSUME SessionVocabulary PROVE Spec => []LevelsAreStrict
  OBVIOUS
<1>1. SessionInv => LevelsAreStrict
  BY DEF SessionInv
<1> QED
  BY <1>1, SessionInvariant, PTL

\* on_window_destroy leaves nothing that could run: no frame, no suspended run
\* and no timer, then or at any later time.
THEOREM DestroyIsFinal == SessionVocabulary => (Spec => []NothingAfterDestroy)
<1> SUFFICES ASSUME SessionVocabulary PROVE Spec => []NothingAfterDestroy
  OBVIOUS
<1>1. SessionInv => NothingAfterDestroy
  BY DEF SessionInv
<1> QED
  BY <1>1, SessionInvariant, PTL

-----------------------------------------------------------------------------
(***************************************************************************)
(* pause_depth and the paused runs agree, for programs that do not LAUNCH  *)
(* (an agent's PAUSE raises pause_depth for good before the scheduler      *)
(* turns it down) and while g_paused_runs has room for every PAUSE (one    *)
(* that finds it full raises pause_depth too).                             *)
(***************************************************************************)
DepthVocabulary ==
  /\ SessionVocabulary
  /\ "LAUNCH" \notin UsedOps
  /\ MaxDepth <= MaxPaused

\* No agent runs.
NoAgents == \A base \in Bases, r \in RunIds : stack # Append(base, Frame("agents", r))

\* The levels of the paused runs are 1, 2, ...; pause_depth is the last, or one
\* less while the run that performed CONTINUE returns.
ExactLevels ==
  /\ \A i \in 1 .. Len(paused) : paused[i].level = i
  /\ \/ Len(paused) = pause_depth
     \/ Len(paused) = pause_depth + 1 /\ Finishing

PauseInv == NoAgents /\ ExactLevels

-----------------------------------------------------------------------------
\* No step but LAUNCH puts agents on the stack.
LEMMA NoAgentsKept ==
  ASSUME NoAgents,
         \/ stack' = stack
         \/ stack' \in Bases
         \/ \E base \in Bases, r \in RunIds : stack' = Append(base, Frame("vm", r))
  PROVE  NoAgents'
BY AgentFrames DEF NoAgents

\* While a run has operations left, or none executes, pause_depth is exact.
LEMMA ExactWhileRunning ==
  ASSUME Inv, SessionInv, PauseInv,
         stack \in Bases \/ \E r \in RunIds : Executing(r) /\ run[r].left > 0
  PROVE  Len(paused) = pause_depth
<1>1. ~Finishing
  <2>1. CASE stack \in Bases
    BY <2>1, DispatchFacts DEF Finishing
  <2>2. CASE \E r \in RunIds : Executing(r) /\ run[r].left > 0
    BY <2>2, ExecutingFacts DEF Finishing
  <2> QED
    BY <2>1, <2>2
<1> QED
  BY <1>1 DEF PauseInv, ExactLevels

LEMMA ExactKept ==
  ASSUME PauseInv, Len(paused) = pause_depth, UNCHANGED <<paused, pause_depth>>
  PROVE  ExactLevels'
BY DEF PauseInv, ExactLevels

LEMMA PauseSuspends ==
  ASSUME Inv, SessionInv, PauseInv, NEW r \in RunIds,
         \/ \E op \in {"WAIT", "ANIMATE"} : SuspendOnTimer(r, op)
         \/ SuspendOnKey(r) \/ SuspendOnInput(r)
  PROVE  PauseInv'
<1>1. PICK op \in SlotWhys :
        /\ Running("vm", r) /\ Performs(r, op) /\ pause_depth' = pause_depth
        /\ Returns(r, Suspends(r, op), paused)
  BY DEF SuspendOnTimer, SuspendOnKey, SuspendOnInput, SlotWhys
<1>2. Executing(r) /\ Below \in Bases /\ run[r].left > 0
  BY <1>1, RunningFacts DEF SessionInv, RunKinds, Performs
<1>3. stack' = Below /\ paused' = paused
  BY <1>1, <1>2, QuietReturn, SessionTypes
<1> QED
  BY <1>1, <1>2, <1>3, ExactWhileRunning, ExactKept, NoAgentsKept DEF PauseInv

\* PAUSE adds the next level.
LEMMA PausePauses ==
  ASSUME DepthVocabulary, Inv, SessionInv, PauseInv, NEW r \in RunIds, Pause(r)
  PROVE  PauseInv'
<1>1. Executing(r) /\ Below \in Bases
  BY RunningFacts DEF Pause, SessionInv, RunKinds
<1>2. /\ run[r].left > 0 /\ pause_depth' = pause_depth + 1 /\ pause_depth < MaxDepth
      /\ pause_depth' \in Nat /\ pause_depth' \in 0 .. MaxDepth
  BY SessionTypes, BoundsAssumption DEF Pause, Performs
<1>3. Len(paused) = pause_depth
  BY <1>1, <1>2, ExactWhileRunning
<1>4. Len(paused) < MaxPaused
  BY <1>2, <1>3, SessionTypes, BoundsAssumption DEF DepthVocabulary
<1> DEFINE e == [run |-> r, level |-> pause_depth']
<1>5. e \in PausedRecord /\ e.level = pause_depth'
  BY <1>2 DEF PausedRecord
<1>6. Returns(r, Suspends(r, "PAUSE"), Append(paused, e))
  BY <1>4 DEF Pause
<1> HIDE DEF e
<1>7. stack' = Below /\ paused' = Append(paused, e)
  <2>1. pause_depth' >= pause_depth
    BY <1>2, SessionTypes
  <2> QED
    BY <1>1, <1>2, <1>5, <1>6, <2>1, QuietReturn
<1>8. /\ Len(paused') = Len(paused) + 1 /\ paused'[Len(paused')] = e
      /\ \A i \in 1 .. Len(paused) : paused'[i] = paused[i]
  BY <1>5, <1>7, SessionTypes
<1>9. ExactLevels'
  <2>1. Len(paused') = pause_depth'
    BY <1>2, <1>3, <1>8
  <2>2. \A i \in 1 .. Len(paused') : paused'[i].level = i
    <3> SUFFICES ASSUME NEW i \in 1 .. Len(paused') PROVE paused'[i].level = i
      OBVIOUS
    <3>1. CASE i = Len(paused')
      BY <1>5, <1>8, <2>1, <3>1
    <3>2. CASE i # Len(paused')
      <4>1. i \in 1 .. Len(paused)
        BY <1>8, <3>2, SessionTypes
      <4> QED
        BY <1>8, <4>1 DEF PauseInv, ExactLevels
    <3> QED
      BY <3>1, <3>2
  <2> QED
    BY <2>1, <2>2 DEF ExactLevels
<1> QED
  BY <1>1, <1>7, <1>9, NoAgentsKept DEF PauseInv

\* A return, which may resume the innermost paused run.
LEMMA PauseEnds ==
  ASSUME Inv, SessionInv, PauseInv, NEW r \in RunIds, Halt(r) \/ AwaitOutside(r)
  PROVE  PauseInv'
<1>1. Below \in Bases /\ Returns(r, FreeRun, paused) /\ pause_depth' = pause_depth
  BY RunningFacts DEF Halt, AwaitOutside, SessionInv, RunKinds
<1>2. /\ \A i \in 1 .. Len(paused) : paused[i].level = i
      /\ Len(paused) = pause_depth \/ Len(paused) = pause_depth + 1
      /\ Len(paused) \in Nat /\ pause_depth \in Nat
      /\ paused # <<>> => Len(paused) \in 1 .. Len(paused)
  BY SessionTypes DEF PauseInv, ExactLevels
<1>3. CASE paused # <<>> /\ paused[Len(paused)].level > pause_depth'
  <2>1. /\ paused' = SubSeq(paused, 1, Len(paused) - 1)
        /\ stack' = Append(Below, Frame("vm", paused[Len(paused)].run))
        /\ paused[Len(paused)].run \in RunIds
    BY <1>1, <1>2, <1>3, SessionTypes DEF Returns
  <2>2. Len(paused') = Len(paused) - 1 /\ \A i \in 1 .. Len(paused') : paused'[i] = paused[i]
    BY <1>3, <2>1, PoppedFacts
  <2>3. Len(paused') = pause_depth'
    BY <1>1, <1>2, <1>3, <2>2
  <2>4. \A i \in 1 .. Len(paused') : paused'[i].level = i
    BY <1>2, <2>2
  <2> QED
    BY <1>1, <2>1, <2>3, <2>4, NoAgentsKept DEF PauseInv, ExactLevels
<1>4. CASE ~(paused # <<>> /\ paused[Len(paused)].level > pause_depth')
  <2>1. paused' = paused /\ stack' = Below
    BY <1>1, <1>4 DEF Returns
  <2>2. Len(paused) = pause_depth
    <3>1. CASE paused = <<>>
      BY <1>2, <3>1
    <3>2. CASE paused # <<>>
      BY <1>1, <1>2, <1>4, <3>2
    <3> QED
      BY <3>1, <3>2
  <2> QED
    BY <1>1, <2>1, <2>2, ExactKept, NoAgentsKept DEF PauseInv
<1> QED
  BY <1>3, <1>4
\* The operations of a program.
LEMMA PauseExecutes ==
  ASSUME DepthVocabulary, Inv, SessionInv, PauseInv, NEW r \in RunIds,
         \/ \E h \in Handlers, n \in Names : On(r, h, n)
         \/ \E h \in Handlers : Off(r, h)
         \/ exec_continue(r) \/ AgentPause(r) \/ Drain(r) \/ Launch(r) \/ AgentsDone(r)
  PROVE  PauseInv'
<1>1. ~Running("agents", r)
  BY RunningFacts DEF SessionInv, RunKinds, PauseInv, NoAgents
<1>2. /\ ~AgentPause(r) /\ ~AgentsDone(r)
      /\ ~Launch(r) /\ ~Drain(r)
  BY <1>1 DEF AgentPause, AgentsDone, Launch, Drain, Executes, Performs, DepthVocabulary,
              SessionVocabulary, UsedOps
<1>3. ASSUME NEW op \in AllOps, Executes(r, op), UNCHANGED <<stack, paused>>,
             \/ pause_depth' = pause_depth
             \/ op = "CONTINUE" /\ pause_depth' = IF pause_depth > 0 THEN pause_depth - 1 ELSE 0
      PROVE  PauseInv'
  <2>1. Executing(r) /\ run[r].left > 0
    BY <1>3, RunningFacts DEF Executes, SessionInv, RunKinds, Performs
  <2>2. Len(paused) = pause_depth
    BY <2>1, ExactWhileRunning
  <2>3. CASE pause_depth' = pause_depth
    BY <1>3, <2>2, <2>3, ExactKept, NoAgentsKept DEF PauseInv
  <2>4. CASE op = "CONTINUE" /\ pause_depth > 0 /\ pause_depth' = pause_depth - 1
    <3>1. op \in FinalOps
      BY <1>3, <2>4 DEF Executes, Performs, UsedOps, DepthVocabulary, SessionVocabulary
    <3>2. run'[r].left = 0
      <4>1. Spent(r, op).left = 0
        BY <3>1, SessionTypes DEF Spent, RunRecord
      <4> QED
        BY <1>3, <4>1, SessionTypes DEF Executes
    <3>3. Finishing'
      BY <1>3, <2>1, <3>2 DEF Finishing, Executing
    <3>4. Len(paused') = pause_depth' + 1
      BY <1>3, <2>2, <2>4, SessionTypes
    <3>5. ExactLevels'
      BY <1>3, <3>3, <3>4 DEF ExactLevels, PauseInv
    <3> QED
      BY <1>3, <3>5, NoAgentsKept DEF PauseInv
  <2>5. pause_depth > 0 \/ pause_depth = 0
    BY SessionTypes
  <2> QED
    BY <1>3, <2>3, <2>4, <2>5
<1>4. CASE \E h \in Handlers, n \in Names : On(r, h, n)
  <2>1. Executes(r, "ON") /\ UNCHANGED <<stack, paused>> /\ pause_depth' = pause_depth
    BY <1>4 DEF On, pauseVars
  <2> QED
    BY <1>3, <2>1 DEF AllOps
<1>5. CASE \E h \in Handlers : Off(r, h)
  <2>1. Executes(r, "OFF") /\ UNCHANGED <<stack, paused>> /\ pause_depth' = pause_depth
    BY <1>5 DEF Off, pauseVars
  <2> QED
    BY <1>3, <2>1 DEF AllOps
<1>6. CASE exec_continue(r)
  BY <1>3, <1>6 DEF exec_continue, AllOps
<1> QED
  BY <1>2, <1>4, <1>5, <1>6

\* Callbacks dispatched from the main loop leave g_paused_runs alone.
LEMMA PauseDispatches ==
  ASSUME Inv, SessionInv, PauseInv, stack \in Bases, UNCHANGED <<paused, pause_depth>>,
         \/ stack' \in Bases
         \/ \E base \in Bases, r \in RunIds : stack' = Append(base, Frame("vm", r))
  PROVE  PauseInv'
BY ExactWhileRunning, ExactKept, NoAgentsKept DEF PauseInv

\* Callbacks do not touch the levels.
LEMMA PauseCallbacks ==
  ASSUME Inv, SessionInv, PauseInv, Drained \/ KeyStep \/ UserStep \/ TimerStep
  PROVE  PauseInv'
<1>1. ASSUME NEW base \in Bases, stack \in Bases, UNCHANGED pauseVars,
             \E r \in RunIds, c \in ChunkIds \cup {NoChunk}, owns \in BOOLEAN : Starts(r, c, owns, base)
      PROVE  PauseInv'
  BY <1>1, PauseDispatches DEF Starts, pauseVars
<1>2. Running("key", NoRun) => stack \in Bases /\ Below \in Bases
  BY TopFacts, DispatchFacts DEF SessionInv
<1>3. CASE Drained \/ KeyDone
  <2>1. stack' \in Bases /\ stack \in Bases /\ UNCHANGED pauseVars
    BY <1>2, <1>3, TopFacts DEF Drained, KeyDone, SessionInv
  <2> QED
    BY <2>1, PauseDispatches DEF pauseVars
<1>4. ASSUME NEW shape \in Shapes, Submit(shape) \/ KeyReturn(shape) PROVE PauseInv'
  <2>1. PICK base \in Bases : stack \in Bases /\ run_logo_script(shape, base)
    BY <1>2, <1>4, DispatchFacts DEF Submit, KeyReturn, CanDispatch
  <2> QED
    BY <1>1, <2>1 DEF run_logo_script
<1>5. ASSUME NEW h \in Handlers, NEW base \in Bases, stack \in Bases, fire_handler(h, base)
      PROVE  PauseInv'
  <2>1. owner[h] \in ChunkIds \cup {NoChunk}
    BY DEF Inv, TypeOK
  <2> QED
    BY <1>1, <1>5, <2>1 DEF fire_handler
<1>6. CASE \E h \in Handlers : Event(h)
  BY <1>5, <1>6, DispatchFacts DEF Event, CanDispatch
<1>7. CASE KeyPress
  <2>1. stack = <<>> /\ "key" \in Handlers /\ fire_handler("key", Append(stack, KeyFrame))
    BY <1>7, DispatchFacts DEF KeyPress, CanDispatch, KeyFrame
  <2>2. Append(stack, KeyFrame) = <<KeyFrame>>
    BY <2>1
  <2> QED
    BY <1>5, <2>1, <2>2, DispatchFacts
<1>8. CASE WaitKeyPress \/ InputReturn \/ TimerStep
  <2>1. /\ slot # NoRun /\ Dispatching /\ UNCHANGED pauseVars
        /\ stack' = Append(stack, Frame("vm", slot))
    BY <1>8 DEF WaitKeyPress, InputReturn, TimerStep, Timeout, ResumeSlot, CanDispatch
  <2>2. slot \in RunIds /\ stack \in Bases
    BY <2>1, SessionTypes, DispatchFacts
  <2> QED
    BY <2>1, <2>2, PauseDispatches DEF pauseVars
<1>9. CASE on_window_destroy
  <2>1. stack = <<>> /\ stack' = stack /\ UNCHANGED pauseVars
    BY <1>9, DispatchFacts DEF on_window_destroy, CanDispatch
  <2> QED
    BY <2>1, PauseDispatches, DispatchFacts DEF pauseVars
<1> QED
  BY <1>3, <1>4, <1>6, <1>7, <1>8, <1>9 DEF KeyStep, UserStep

-----------------------------------------------------------------------------
LEMMA PauseInit == Init => PauseInv
<1> SUFFICES ASSUME Init PROVE PauseInv
  OBVIOUS
<1>1. stack = <<>> /\ paused = <<>> /\ pause_depth = 0
  BY DEF Init
<1>2. \A base \in Bases, r \in RunIds : Append(base, Frame("agents", r)) # <<>>
  BY PushFacts, BaseFacts DEF RunKinds
<1> QED
  BY <1>1, <1>2 DEF PauseInv, NoAgents, ExactLevels

\* Every step keeps the invariant.
LEMMA PauseInvStep ==
  DepthVocabulary => (Inv /\ SessionInv /\ PauseInv /\ [Next]_vars => PauseInv')
<1> SUFFICES ASSUME DepthVocabulary, Inv, SessionInv, PauseInv, [Next]_vars PROVE PauseInv'
  OBVIOUS
<1>1. CASE VmStep
  BY <1>1, PauseSuspends, PausePauses, PauseEnds, PauseExecutes DEF VmStep
<1>2. CASE Drained \/ KeyStep \/ UserStep \/ TimerStep
  BY <1>2, PauseCallbacks
<1>3. CASE UNCHANGED vars
  BY <1>3 DEF vars, PauseInv, NoAgents, ExactLevels, Finishing, Executing
<1> QED
  BY <1>1, <1>2, <1>3 DEF Next

\* PAUSE and CONTINUE count levels without a gap: the inductive invariant of
\* pause_depth.
THEOREM PauseInvariant == DepthVocabulary => (Spec => []PauseInv)
<1> SUFFICES ASSUME DepthVocabulary PROVE Spec => []PauseInv
  OBVIOUS
<1>1. SessionVocabulary
  BY DEF DepthVocabulary
<1>2. Spec => []SessionInv
  BY <1>1, SessionInvariant
<1>3. Inv /\ SessionInv /\ PauseInv /\ [Next]_vars => PauseInv'
  BY PauseInvStep
<1> QED
  BY <1>2, <1>3, PauseInit, DriverInvariant, PTL DEF Spec

\* Between callbacks pause_depth is the level of the innermost paused run: one
\* CONTINUE resumes that run, and no run is left that no CONTINUE can reach.
THEOREM DepthIsTheInnermost == DepthVocabulary => (Spec => []DepthIsInnermost)
<1> SUFFICES ASSUME DepthVocabulary PROVE Spec => []DepthIsInnermost
  OBVIOUS
<1>1. Inv /\ SessionInv /\ PauseInv => DepthIsInnermost
  <2> SUFFICES ASSUME Inv, SessionInv, PauseInv, stack = <<>>
               PROVE  pause_depth = IF paused = <<>> THEN 0 ELSE paused[Len(paused)].level
    BY DEF DepthIsInnermost
  <2>1. Len(paused) = pause_depth
    BY ExactWhileRunning, DispatchFacts
  <2>2. paused # <<>> => paused[Len(paused)].level = Len(paused)
    BY SessionTypes DEF PauseInv, ExactLevels
  <2> QED
    BY <2>1, <2>2
<1>2. Spec => []SessionInv
  BY SessionInvariant DEF DepthVocabulary
<1> QED
  BY <1>1, <1>2, PauseInvariant, DriverInvariant, PTL
=============================================================================
