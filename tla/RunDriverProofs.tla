-------------------------- MODULE RunDriverProofs --------------------------
(***************************************************************************)
(* Theorems about RunDriver: the types of its variables, and who owns a    *)
(* chunk.  Both hold for every vocabulary of operations, those with which  *)
(* other properties fail included.                                         *)
(***************************************************************************)
EXTENDS RunDriver, TLAPS

RunRecord == [chunk : ChunkIds \cup {NoChunk}, owns : BOOLEAN,
              left : 0 .. MaxOps, why : Whys \cup {"FREE"}]
FrameRecord == [kind : FrameKinds, run : RunIds \cup {NoRun}]
PausedRecord == [run : RunIds, level : 0 .. MaxDepth]

\* A freed run owns no chunk.
FreeOwnsNothing == \A r \in RunIds : run[r].why = "FREE" => ~run[r].owns

\* The inductive invariant: an end of a run may free what it owns, and no more.
Inv == TypeOK /\ FreeOwnsNothing /\ ChunkOwnership

LiveChunks == {c \in ChunkIds : chunk[c] # Freed}
Owning == {r \in RunIds : run[r].owns}
OwnedChunks == {run[r].chunk : r \in Owning}

\* What ChunkOwnership says, without Live.
OneOwnerEach ==
  /\ LiveChunks = Owners(owner) \cup OwnedChunks
  /\ \A r \in Owning : run[r].chunk \notin Owners(owner)
  /\ \A r, q \in Owning : r # q => run[r].chunk # run[q].chunk

-----------------------------------------------------------------------------
LEMMA OwnershipIs == FreeOwnsNothing => (ChunkOwnership <=> OneOwnerEach)
<1> SUFFICES ASSUME FreeOwnsNothing PROVE ChunkOwnership <=> OneOwnerEach
  OBVIOUS
<1>1. OwnedRuns = Owning
  BY DEF OwnedRuns, Owning, FreeOwnsNothing, Live
<1> QED
  BY <1>1 DEF ChunkOwnership, OneOwnerEach, LiveChunks, OwnedChunks

LEMMA FreeRunType == FreeRun \in RunRecord /\ FreeRun.owns = FALSE /\ FreeRun.why = "FREE"
BY BoundsAssumption DEF FreeRun, RunRecord

LEMMA SpentType ==
  ASSUME TypeOK, NEW r \in RunIds, NEW op \in AllOps, Performs(r, op)
  PROVE  /\ Spent(r, op) \in RunRecord
         /\ Spent(r, op).owns = run[r].owns
         /\ Spent(r, op).chunk = run[r].chunk
         /\ Spent(r, op).why = run[r].why
         /\ op \in Whys => Suspends(r, op) \in RunRecord
         /\ Suspends(r, op).owns = run[r].owns
         /\ Suspends(r, op).chunk = run[r].chunk
         /\ Suspends(r, op).why = op
<1>1. run[r] \in RunRecord
  BY DEF TypeOK, RunRecord
<1>2. 0 \in 0 .. MaxOps /\ run[r].left - 1 \in 0 .. MaxOps
  BY <1>1, BoundsAssumption DEF RunRecord, Performs
<1> QED
  BY <1>1, <1>2 DEF RunRecord, Spent, Suspends

\* The stack and the paused runs keep their types as their last is taken or
\* another is put on.
LEMMA SequenceFacts ==
  ASSUME NEW S, NEW s \in Seq(S), NEW e \in S
  PROVE  /\ Append(s, e) \in Seq(S)
         /\ s # <<>> => s[Len(s)] \in S /\ SubSeq(s, 1, Len(s) - 1) \in Seq(S)
OBVIOUS

LEMMA FrameType ==
  ASSUME NEW kind \in FrameKinds, NEW r \in RunIds \cup {NoRun}
  PROVE  Frame(kind, r) \in FrameRecord
BY DEF Frame, FrameRecord

\* A return keeps who owns what, but for what it makes of the run itself.
LEMMA ReturnsFacts ==
  ASSUME TypeOK, NEW r \in RunIds, NEW rec \in RunRecord, NEW ps \in Seq(PausedRecord),
         stack # <<>>, Returns(r, rec, ps)
  PROVE  /\ stack' \in Seq(FrameRecord)
         /\ paused' \in Seq(PausedRecord)
         /\ run' \in [RunIds -> RunRecord]
         /\ \A q \in RunIds \ {r} :
              run'[q].owns = run[q].owns /\ run'[q].chunk = run[q].chunk
         /\ run'[r].owns = rec.owns /\ run'[r].chunk = rec.chunk
         /\ FreeOwnsNothing /\ (rec.why = "FREE" => ~rec.owns) => FreeOwnsNothing'
<1>1. /\ stack \in Seq(FrameRecord)
      /\ run \in [RunIds -> RunRecord]
  BY DEF TypeOK, FrameRecord, RunRecord
<1>2. Below \in Seq(FrameRecord)
  BY <1>1 DEF Below
<1>3. CASE ps # <<>> /\ ps[Len(ps)].level > pause_depth'
  <2> DEFINE p == ps[Len(ps)].run
  <2>1. p \in RunIds /\ SubSeq(ps, 1, Len(ps) - 1) \in Seq(PausedRecord)
    <3>1. ps[Len(ps)] \in PausedRecord /\ SubSeq(ps, 1, Len(ps) - 1) \in Seq(PausedRecord)
      BY <1>3
    <3> QED
      BY <3>1 DEF PausedRecord
  <2>2. /\ paused' = SubSeq(ps, 1, Len(ps) - 1)
        /\ stack' = Append(Below, Frame("vm", p))
        /\ run' = [run EXCEPT ![r] = rec, ![p] = [@ EXCEPT !.why = "VM"]]
    BY <1>3 DEF Returns
  <2> HIDE DEF p
  <2>3. stack' \in Seq(FrameRecord)
    <3>1. Frame("vm", p) \in FrameRecord
      BY <2>1 DEF Frame, FrameRecord, FrameKinds
    <3> QED
      BY <1>2, <2>2, <3>1
  <2>4. run' \in [RunIds -> RunRecord]
    BY <1>1, <2>1, <2>2 DEF RunRecord, Whys
  <2>5. /\ \A q \in RunIds \ {r} :
             run'[q].owns = run[q].owns /\ run'[q].chunk = run[q].chunk
        /\ run'[r].owns = rec.owns /\ run'[r].chunk = rec.chunk
    BY <1>1, <2>1, <2>2 DEF RunRecord
  <2>6. ASSUME FreeOwnsNothing, rec.why = "FREE" => ~rec.owns PROVE FreeOwnsNothing'
    <3>1. \A q \in RunIds \ {r, p} : run'[q] = run[q]
      BY <1>1, <2>1, <2>2
    <3>2. run'[p].why = "VM" /\ (r # p => run'[r] = rec)
      BY <1>1, <2>1, <2>2 DEF RunRecord
    <3> QED
      BY <2>6, <3>1, <3>2 DEF FreeOwnsNothing
  <2> QED
    BY <2>1, <2>2, <2>3, <2>4, <2>5, <2>6
<1>4. CASE ~(ps # <<>> /\ ps[Len(ps)].level > pause_depth')
  <2>1. paused' = ps /\ stack' = Below /\ run' = [run EXCEPT ![r] = rec]
    BY <1>4 DEF Returns
  <2> QED
    BY <1>1, <1>2, <2>1 DEF FreeOwnsNothing
<1> QED
  BY <1>3, <1>4

-----------------------------------------------------------------------------
(* Who owns a chunk.                                                       *)

\* The owner slots let go of chunks and the run keeps its own.
LEMMA KeepsOwnership ==
  ASSUME Inv, FreeOwnsNothing',
         NEW owners \in [Handlers -> ChunkIds \cup {NoChunk}], Release(owners, {}),
         Owners(owners) \subseteq Owners(owner),
         \A q \in RunIds : run'[q].owns = run[q].owns /\ run'[q].chunk = run[q].chunk
  PROVE  ChunkOwnership'
<1>1. /\ LiveChunks = Owners(owner) \cup OwnedChunks
      /\ \A r \in Owning : run[r].chunk \notin Owners(owner)
      /\ \A r, q \in Owning : r # q => run[r].chunk # run[q].chunk
  BY OwnershipIs DEF Inv, OneOwnerEach
<1>2. Owning' = Owning /\ OwnedChunks' = OwnedChunks
  BY DEF Owning, OwnedChunks
<1>3. Owners(owner)' = Owners(owners)
  BY DEF Release, Owners
<1>4. LiveChunks' = LiveChunks \ (Owners(owner) \ Owners(owners))
  BY DEF Release, LiveChunks
<1>5. OwnedChunks \cap Owners(owner) = {}
  BY <1>1 DEF OwnedChunks
<1>6. LiveChunks' = Owners(owner)' \cup OwnedChunks'
  BY <1>1, <1>2, <1>3, <1>4, <1>5
<1>7. /\ \A r \in Owning' : run'[r].chunk \notin Owners(owner)'
      /\ \A r, q \in Owning' : r # q => run'[r].chunk # run'[q].chunk
  BY <1>1, <1>2, <1>3 DEF Owning
<1>8. OneOwnerEach'
  BY <1>6, <1>7 DEF OneOwnerEach
<1> QED
  BY <1>8, OwnershipIs, PTL

\* Run r ends: it frees its own chunk, or leaves it to slots that adopt it.
LEMMA EndsOwnership ==
  ASSUME Inv, FreeOwnsNothing', NEW r \in RunIds,
         NEW owners \in [Handlers -> ChunkIds \cup {NoChunk}], NEW own, Release(owners, own),
         \/ own = OwnChunk(r) /\ Owners(owners) \subseteq Owners(owner)
         \/ /\ own = {} /\ run[r].owns
            /\ run[r].chunk \in Owners(owners)
            /\ Owners(owners) \subseteq Owners(owner) \cup {run[r].chunk},
         ~run'[r].owns,
         \A q \in RunIds \ {r} : run'[q].owns = run[q].owns /\ run'[q].chunk = run[q].chunk
  PROVE  ChunkOwnership'
<1>1. /\ LiveChunks = Owners(owner) \cup OwnedChunks
      /\ \A q \in Owning : run[q].chunk \notin Owners(owner)
      /\ \A p, q \in Owning : p # q => run[p].chunk # run[q].chunk
  BY OwnershipIs DEF Inv, OneOwnerEach
<1>2. Owning' = Owning \ {r}
  BY DEF Owning
<1>3. OwnedChunks' = {run[q].chunk : q \in Owning \ {r}}
  BY <1>2 DEF Owning, OwnedChunks
<1>4. OwnedChunks' = OwnedChunks \ OwnChunk(r)
  BY <1>1, <1>3 DEF OwnedChunks, OwnChunk, Owning
<1>5. Owners(owner)' = Owners(owners)
  BY DEF Release, Owners
<1>6. LiveChunks' = LiveChunks \ ((Owners(owner) \ Owners(owners)) \cup own)
  BY DEF Release, LiveChunks
<1>7. OwnedChunks \cap Owners(owner) = {}
  BY <1>1 DEF OwnedChunks
<1>8. OwnChunk(r) \subseteq OwnedChunks
  BY DEF OwnChunk, OwnedChunks, Owning
<1>9. LiveChunks' = Owners(owner)' \cup OwnedChunks'
  <2>1. CASE own = OwnChunk(r) /\ Owners(owners) \subseteq Owners(owner)
    BY <1>1, <1>4, <1>5, <1>6, <1>7, <1>8, <2>1
  <2>2. CASE /\ own = {} /\ run[r].owns
             /\ run[r].chunk \in Owners(owners)
             /\ Owners(owners) \subseteq Owners(owner) \cup {run[r].chunk}
    <3>1. OwnChunk(r) = {run[r].chunk}
      BY <2>2 DEF OwnChunk
    <3> QED
      BY <1>1, <1>4, <1>5, <1>6, <1>7, <1>8, <2>2, <3>1
  <2> QED
    BY <2>1, <2>2
<1>10. \A q \in Owning' : run'[q].chunk \notin Owners(owner)'
  <2>1. SUFFICES ASSUME NEW q \in Owning \ {r} PROVE run[q].chunk \notin Owners(owners)
    BY <1>2, <1>5 DEF Owning
  <2>2. run[q].chunk \notin Owners(owner) /\ (run[r].owns => run[q].chunk # run[r].chunk)
    BY <1>1 DEF Owning
  <2> QED
    BY <2>2
<1>11. \A p, q \in Owning' : p # q => run'[p].chunk # run'[q].chunk
  BY <1>1, <1>2 DEF Owning
<1>12. OneOwnerEach'
  BY <1>9, <1>10, <1>11 DEF OneOwnerEach
<1> QED
  BY <1>12, OwnershipIs, PTL

\* Nothing about chunks, owners and runs' ownership changes.
LEMMA SameOwnership ==
  ASSUME Inv, FreeOwnsNothing', UNCHANGED chunkVars,
         \A q \in RunIds : run'[q].owns = run[q].owns /\ run'[q].chunk = run[q].chunk
  PROVE  ChunkOwnership'
<1>1. Owning' = Owning /\ OwnedChunks' = OwnedChunks
  BY DEF Owning, OwnedChunks
<1>2. /\ LiveChunks = Owners(owner) \cup OwnedChunks
      /\ \A r \in Owning : run[r].chunk \notin Owners(owner)
      /\ \A r, q \in Owning : r # q => run[r].chunk # run[q].chunk
  BY OwnershipIs DEF Inv, OneOwnerEach
<1>3. LiveChunks' = LiveChunks /\ Owners(owner)' = Owners(owner)
  BY DEF chunkVars, LiveChunks, Owners
<1>4. OneOwnerEach'
  BY <1>1, <1>2, <1>3 DEF Owning, OneOwnerEach
<1> QED
  BY <1>4, OwnershipIs, PTL

-----------------------------------------------------------------------------
(* The steps.                                                              *)

\* The conjuncts of TypeOK that a return or a release disturbs, and the rest.
RunTypeOK ==
  /\ stack \in Seq(FrameRecord)
  /\ paused \in Seq(PausedRecord)
  /\ owner \in [Handlers -> ChunkIds \cup {NoChunk}]
  /\ chunk \in [ChunkIds -> Shapes \cup {Freed}]
  /\ run \in [RunIds -> RunRecord]

WaitTypeOK ==
  /\ slot \in RunIds \cup {NoRun}
  /\ timers \in [TimerIds -> {"none", "WAIT", "ANIMATE"}]
  /\ timeout_id \in TimerIds \cup {NoTimer}
  /\ waiting_for_key \in BOOLEAN /\ waiting_for_input \in BOOLEAN

RestTypeOK ==
  /\ pause_depth \in 0 .. MaxDepth
  /\ handler \in [Handlers -> Names \cup {NoName}]
  /\ window \in {"open", "destroyed"}

LEMMA TypeSplit == TypeOK <=> RunTypeOK /\ WaitTypeOK /\ RestTypeOK
BY DEF TypeOK, RunTypeOK, WaitTypeOK, RestTypeOK, FrameRecord, PausedRecord, RunRecord

LEMMA InitInv == Init => Inv
<1> SUFFICES ASSUME Init PROVE Inv
  OBVIOUS
<1> USE BoundsAssumption DEF Init
<1>1. run \in [RunIds -> RunRecord] /\ \A r \in RunIds : run[r] = FreeRun
  BY FreeRunType
<1>2. RunTypeOK
  BY <1>1 DEF RunTypeOK
<1>3. WaitTypeOK /\ RestTypeOK
  <2>1. waiting_for_key \in BOOLEAN /\ waiting_for_input \in BOOLEAN
    OBVIOUS
  <2>2. pause_depth \in 0 .. MaxDepth /\ handler \in [Handlers -> Names \cup {NoName}]
    OBVIOUS
  <2>3. /\ timers \in [TimerIds -> {"none", "WAIT", "ANIMATE"}]
        /\ timeout_id \in TimerIds \cup {NoTimer} /\ slot \in RunIds \cup {NoRun}
    OBVIOUS
  <2> QED
    BY <2>1, <2>2, <2>3 DEF WaitTypeOK, RestTypeOK
<1>4. FreeOwnsNothing
  BY <1>1, FreeRunType DEF FreeOwnsNothing
<1>5. Owning = {} /\ OwnedChunks = {}
  BY <1>1, FreeRunType DEF Owning, OwnedChunks
<1>6. Owners(owner) = {} /\ LiveChunks = {}
  BY DEF Owners, LiveChunks
<1>7. OneOwnerEach
  BY <1>5, <1>6 DEF OneOwnerEach
<1> QED
  BY <1>2, <1>3, <1>4, <1>7, TypeSplit, OwnershipIs DEF Inv

LEMMA UnclearedFacts ==
  ASSUME TypeOK
  PROVE  /\ Uncleared \in [Handlers -> ChunkIds \cup {NoChunk}]
         /\ Owners(Uncleared) \subseteq Owners(owner)
<1>1. owner \in [Handlers -> ChunkIds \cup {NoChunk}]
  BY DEF TypeOK
<1> QED
  BY <1>1 DEF Uncleared, Owners

LEMMA ReleaseType ==
  ASSUME TypeOK, NEW own,
         NEW owners \in [Handlers -> ChunkIds \cup {NoChunk}], Release(owners, own)
  PROVE  /\ owner' \in [Handlers -> ChunkIds \cup {NoChunk}]
         /\ chunk' \in [ChunkIds -> Shapes \cup {Freed}]
BY DEF TypeOK, Release

\* handle_vm_result keeps a run that suspended.
LEMMA KeepsRun ==
  ASSUME Inv, NEW r \in RunIds, NEW op \in AllOps, op \in Whys, Performs(r, op),
         stack # <<>>, NEW ps \in Seq(PausedRecord),
         Release(Uncleared, {}), Returns(r, Suspends(r, op), ps)
  PROVE  RunTypeOK' /\ FreeOwnsNothing' /\ ChunkOwnership'
<1> USE DEF Inv
<1>1. /\ Suspends(r, op) \in RunRecord
      /\ Suspends(r, op).owns = run[r].owns /\ Suspends(r, op).chunk = run[r].chunk
      /\ Suspends(r, op).why # "FREE"
  BY SpentType DEF AllOps
<1> DEFINE rec == Suspends(r, op)
<1> HIDE DEF rec
<1>2. rec \in RunRecord /\ Returns(r, rec, ps) /\ rec.why # "FREE"
      /\ rec.owns = run[r].owns /\ rec.chunk = run[r].chunk
  BY <1>1 DEF rec
<1>3. /\ stack' \in Seq(FrameRecord) /\ paused' \in Seq(PausedRecord)
      /\ run' \in [RunIds -> RunRecord]
      /\ \A q \in RunIds : run'[q].owns = run[q].owns /\ run'[q].chunk = run[q].chunk
      /\ FreeOwnsNothing'
  BY <1>2, ReturnsFacts
<1>4. ChunkOwnership'
  BY <1>3, UnclearedFacts, KeepsOwnership
<1> QED
  BY <1>3, <1>4, UnclearedFacts, ReleaseType DEF RunTypeOK

\* It frees a run that ended.
LEMMA EndsRun ==
  ASSUME Inv, NEW r \in RunIds, stack # <<>>,
         NEW owners \in [Handlers -> ChunkIds \cup {NoChunk}], NEW own, Release(owners, own),
         \/ own = OwnChunk(r) /\ Owners(owners) \subseteq Owners(owner)
         \/ /\ own = {} /\ run[r].owns
            /\ run[r].chunk \in Owners(owners)
            /\ Owners(owners) \subseteq Owners(owner) \cup {run[r].chunk},
         Returns(r, FreeRun, paused)
  PROVE  RunTypeOK' /\ FreeOwnsNothing' /\ ChunkOwnership'
<1> USE DEF Inv
<1>1. paused \in Seq(PausedRecord)
  BY DEF TypeOK, PausedRecord
<1>2. /\ stack' \in Seq(FrameRecord) /\ paused' \in Seq(PausedRecord)
      /\ run' \in [RunIds -> RunRecord]
      /\ \A q \in RunIds \ {r} : run'[q].owns = run[q].owns /\ run'[q].chunk = run[q].chunk
      /\ ~run'[r].owns
      /\ FreeOwnsNothing'
  BY <1>1, FreeRunType, ReturnsFacts
<1>3. ChunkOwnership'
  BY <1>2, EndsOwnership
<1> QED
  BY <1>2, <1>3, ReleaseType DEF RunTypeOK

\* A step that leaves chunks and owners alone, and of the runs who owns what.
LEMMA LeavesChunks ==
  ASSUME Inv, UNCHANGED chunkVars, run' \in [RunIds -> RunRecord],
         stack' \in Seq(FrameRecord), paused' \in Seq(PausedRecord),
         \A q \in RunIds : run'[q].owns = run[q].owns /\ run'[q].chunk = run[q].chunk,
         \A q \in RunIds : run'[q].why = "FREE" => run[q].why = "FREE"
  PROVE  RunTypeOK' /\ FreeOwnsNothing' /\ ChunkOwnership'
<1>1. FreeOwnsNothing'
  BY DEF Inv, FreeOwnsNothing
<1>2. RunTypeOK'
  BY DEF RunTypeOK, Inv, TypeOK, chunkVars
<1> QED
  BY <1>1, <1>2, SameOwnership

LEMMA InvFacts ==
  Inv => /\ RunTypeOK /\ WaitTypeOK /\ RestTypeOK /\ FreeOwnsNothing /\ ChunkOwnership
         /\ \A k \in FrameKinds, r \in RunIds \cup {NoRun} : Running(k, r) => stack # <<>>
BY TypeSplit DEF Inv, Running

\* The steps in which a run returns to handle_vm_result and is kept.
LEMMA SuspendSteps ==
  ASSUME Inv, NEW r \in RunIds,
         \/ \E op \in {"WAIT", "ANIMATE"} : SuspendOnTimer(r, op)
         \/ SuspendOnKey(r) \/ SuspendOnInput(r)
  PROVE  Inv'
<1> USE InvFacts
<1>0. paused \in Seq(PausedRecord)
  BY DEF RunTypeOK
<1>1. ASSUME NEW op \in {"WAIT", "ANIMATE"}, SuspendOnTimer(r, op) PROVE Inv'
  <2>1. RunTypeOK' /\ FreeOwnsNothing' /\ ChunkOwnership'
    <3>1. op \in AllOps /\ op \in Whys
      BY DEF AllOps, Whys
    <3> QED
      BY <1>0, <1>1, <3>1, KeepsRun DEF SuspendOnTimer, Running
  <2>2. WaitTypeOK' /\ RestTypeOK'
    BY <1>1 DEF SuspendOnTimer, WaitTypeOK, RestTypeOK
  <2> QED
    BY <2>1, <2>2, TypeSplit, PTL DEF Inv
<1>2. CASE SuspendOnKey(r)
  <2>1. RunTypeOK' /\ FreeOwnsNothing' /\ ChunkOwnership'
    BY <1>0, <1>2, KeepsRun DEF SuspendOnKey, Running, AllOps, Whys
  <2>2. WaitTypeOK' /\ RestTypeOK'
    BY <1>2 DEF SuspendOnKey, WaitTypeOK, RestTypeOK
  <2> QED
    BY <2>1, <2>2, TypeSplit, PTL DEF Inv
<1>3. CASE SuspendOnInput(r)
  <2>1. RunTypeOK' /\ FreeOwnsNothing' /\ ChunkOwnership'
    BY <1>0, <1>3, KeepsRun DEF SuspendOnInput, Running, AllOps, Whys
  <2>2. WaitTypeOK' /\ RestTypeOK'
    BY <1>3 DEF SuspendOnInput, WaitTypeOK, RestTypeOK
  <2> QED
    BY <2>1, <2>2, TypeSplit, PTL DEF Inv
<1> QED
  BY <1>1, <1>2, <1>3

\* PAUSE keeps the run or drops it.
LEMMA PauseStep ==
  ASSUME Inv, NEW r \in RunIds, Pause(r)
  PROVE  Inv'
<1> USE InvFacts
<1>1. /\ stack # <<>> /\ Performs(r, "PAUSE")
      /\ pause_depth < MaxDepth /\ pause_depth' = pause_depth + 1
      /\ UNCHANGED <<waitVars, handler, window>>
  BY DEF Pause, Running
<1>2. pause_depth' \in 0 .. MaxDepth
  BY <1>1, BoundsAssumption DEF RestTypeOK
<1>3. WaitTypeOK' /\ RestTypeOK'
  BY <1>1, <1>2 DEF WaitTypeOK, RestTypeOK, waitVars
<1>4. CASE Len(paused) < MaxPaused
  <2> DEFINE e == [run |-> r, level |-> pause_depth']
  <2>1. Append(paused, e) \in Seq(PausedRecord)
    <3>1. e \in PausedRecord /\ paused \in Seq(PausedRecord)
      BY <1>2 DEF PausedRecord, RunTypeOK
    <3> QED
      BY <3>1, SequenceFacts
  <2>2. Release(Uncleared, {}) /\ Returns(r, Suspends(r, "PAUSE"), Append(paused, e))
    BY <1>4 DEF Pause
  <2> HIDE DEF e
  <2>3. RunTypeOK' /\ FreeOwnsNothing' /\ ChunkOwnership'
    BY <1>1, <2>1, <2>2, KeepsRun DEF AllOps, Whys
  <2> QED
    BY <1>3, <2>3, TypeSplit, PTL DEF Inv
<1>5. CASE ~(Len(paused) < MaxPaused)
  <2>1. Release(Uncleared, OwnChunk(r)) /\ Returns(r, FreeRun, paused)
    BY <1>5 DEF Pause
  <2>2. RunTypeOK' /\ FreeOwnsNothing' /\ ChunkOwnership'
    BY <1>1, <2>1, EndsRun, UnclearedFacts DEF Inv
  <2> QED
    BY <1>3, <2>2, TypeSplit, PTL DEF Inv
<1> QED
  BY <1>4, <1>5

\* HALTED: the run ends, and its chunk is freed or adopted.
LEMMA HaltStep ==
  ASSUME Inv, NEW r \in RunIds, Halt(r)
  PROVE  Inv'
<1> USE InvFacts
<1> DEFINE owners == [h \in Handlers |->
                        IF Adopts(r, h) THEN run[r].chunk ELSE Uncleared[h]]
<1>1. stack # <<>> /\ Returns(r, FreeRun, paused)
      /\ UNCHANGED <<waitVars, handler, window, pause_depth>>
  BY DEF Halt, Running
<1>2. WaitTypeOK' /\ RestTypeOK'
  BY <1>1 DEF WaitTypeOK, RestTypeOK, waitVars
<1>3. Uncleared \in [Handlers -> ChunkIds \cup {NoChunk}]
      /\ Owners(Uncleared) \subseteq Owners(owner)
  BY UnclearedFacts DEF Inv
<1>4. run[r].chunk \in ChunkIds \cup {NoChunk}
  BY DEF RunTypeOK, RunRecord
<1>5. owners \in [Handlers -> ChunkIds \cup {NoChunk}]
  BY <1>3, <1>4
<1>6. CASE \E h \in Handlers : Adopts(r, h)
  <2>1. Release(owners, {})
    BY <1>6 DEF Halt
  <2>2. PICK h \in Handlers : Adopts(r, h)
    BY <1>6
  <2>3. run[r].owns
    BY <2>2 DEF Adopts
  <2>4. run[r].chunk # NoChunk
    <3>1. run[r].chunk \in LiveChunks
      BY <2>3, OwnershipIs DEF OneOwnerEach, OwnedChunks, Owning
    <3> QED
      BY <3>1 DEF LiveChunks, ChunkIds, NoChunk
  <2>5. owners[h] = run[r].chunk
    BY <2>2
  <2>6. run[r].chunk \in Owners(owners)
    BY <2>4, <2>5 DEF Owners
  <2>7. Owners(owners) \subseteq Owners(owner) \cup {run[r].chunk}
    <3>1. \A i \in Handlers : owners[i] = run[r].chunk \/ owners[i] = Uncleared[i]
      OBVIOUS
    <3> QED
      BY <1>3, <3>1 DEF Owners
  <2> HIDE DEF owners
  <2>8. RunTypeOK' /\ FreeOwnsNothing' /\ ChunkOwnership'
    BY <1>1, <1>5, <2>1, <2>3, <2>6, <2>7, EndsRun
  <2> QED
    BY <1>2, <2>8, TypeSplit, PTL DEF Inv
<1>7. CASE ~\E h \in Handlers : Adopts(r, h)
  <2>1. owners = Uncleared
    BY <1>3, <1>7
  <2>2. Release(Uncleared, OwnChunk(r))
    BY <1>7, <2>1 DEF Halt
  <2>3. RunTypeOK' /\ FreeOwnsNothing' /\ ChunkOwnership'
    BY <1>1, <1>3, <2>2, EndsRun
  <2> QED
    BY <1>2, <2>3, TypeSplit, PTL DEF Inv
<1> QED
  BY <1>6, <1>7

\* The other ends of a run.
LEMMA EndSteps ==
  ASSUME Inv, NEW r \in RunIds, AwaitOutside(r) \/ AgentsDone(r)
  PROVE  Inv'
<1> USE InvFacts
<1>1. /\ stack # <<>> /\ Returns(r, FreeRun, paused)
      /\ UNCHANGED <<waitVars, handler, window, pause_depth>>
      /\ Release(Uncleared, OwnChunk(r)) \/ Release(owner, OwnChunk(r))
  BY DEF AwaitOutside, AgentsDone, Running
<1>2. WaitTypeOK' /\ RestTypeOK'
  BY <1>1 DEF WaitTypeOK, RestTypeOK, waitVars
<1>3. owner \in [Handlers -> ChunkIds \cup {NoChunk}]
  BY DEF RunTypeOK
<1>4. RunTypeOK' /\ FreeOwnsNothing' /\ ChunkOwnership'
  BY <1>1, <1>3, EndsRun, UnclearedFacts DEF Inv
<1> QED
  BY <1>2, <1>4, TypeSplit, PTL DEF Inv

\* LAUNCH hands the run over to the scheduler.
LEMMA LaunchStep ==
  ASSUME Inv, NEW r \in RunIds, Launch(r)
  PROVE  Inv'
<1> USE InvFacts
<1> DEFINE rec == Spent(r, "LAUNCH")
<1>1. /\ stack # <<>> /\ Release(Uncleared, {})
      /\ stack' = Append(Below, Frame("agents", r))
      /\ run' = [run EXCEPT ![r] = rec]
      /\ UNCHANGED <<waitVars, pauseVars, handler, window>>
  BY DEF Launch, Running
<1>2. rec \in RunRecord /\ rec.owns = run[r].owns /\ rec.chunk = run[r].chunk
      /\ rec.why = run[r].why
  BY SpentType DEF Launch, Inv, AllOps
<1> HIDE DEF rec
<1>3. /\ run \in [RunIds -> RunRecord] /\ run' \in [RunIds -> RunRecord]
      /\ \A q \in RunIds : run'[q].owns = run[q].owns /\ run'[q].chunk = run[q].chunk
      /\ \A q \in RunIds : run'[q].why = run[q].why
  BY <1>1, <1>2 DEF RunTypeOK
<1>4. FreeOwnsNothing'
  BY <1>3 DEF FreeOwnsNothing
<1>5. ChunkOwnership'
  BY <1>1, <1>3, <1>4, UnclearedFacts, KeepsOwnership DEF Inv
<1>6. stack' \in Seq(FrameRecord)
  <2>1. Frame("agents", r) \in FrameRecord
    BY FrameType DEF FrameKinds
  <2>2. Below \in Seq(FrameRecord)
    BY <1>1, SequenceFacts DEF RunTypeOK, Below
  <2> QED
    BY <1>1, <2>1, <2>2
<1>7. RunTypeOK'
  BY <1>1, <1>3, <1>6, UnclearedFacts, ReleaseType DEF RunTypeOK, Inv, pauseVars
<1>8. WaitTypeOK' /\ RestTypeOK'
  BY <1>1 DEF WaitTypeOK, RestTypeOK, waitVars, pauseVars
<1> QED
  BY <1>4, <1>5, <1>7, <1>8, TypeSplit, PTL DEF Inv

\* What a program does while it runs.
LEMMA ExecuteSteps ==
  ASSUME Inv, NEW r \in RunIds,
         \/ \E h \in Handlers, n \in Names : On(r, h, n)
         \/ \E h \in Handlers : Off(r, h)
         \/ exec_continue(r) \/ AgentPause(r) \/ Drain(r)
  PROVE  Inv'
<1> USE InvFacts
<1>1. PICK op \in AllOps : Executes(r, op)
  BY DEF On, Off, exec_continue, AgentPause, Drain, AllOps
<1>2. /\ run \in [RunIds -> RunRecord] /\ run' \in [RunIds -> RunRecord]
      /\ \A q \in RunIds : run'[q].owns = run[q].owns /\ run'[q].chunk = run[q].chunk
      /\ \A q \in RunIds : run'[q].why = run[q].why
  <2>1. Performs(r, op) /\ run' = [run EXCEPT ![r] = Spent(r, op)]
    BY <1>1 DEF Executes
  <2> DEFINE rec == Spent(r, op)
  <2>2. rec \in RunRecord /\ rec.owns = run[r].owns /\ rec.chunk = run[r].chunk
        /\ rec.why = run[r].why
    BY <2>1, SpentType DEF Inv
  <2> HIDE DEF rec
  <2>3. run' = [run EXCEPT ![r] = rec]
    BY <2>1 DEF rec
  <2> QED
    BY <2>2, <2>3 DEF RunTypeOK
<1>3. UNCHANGED <<waitVars, paused, chunkVars, window>>
  BY DEF On, Off, exec_continue, AgentPause, Drain, pauseVars
<1>4. stack' \in Seq(FrameRecord)
  <2>1. Frame("mousex", NoRun) \in FrameRecord
    BY FrameType DEF FrameKinds
  <2>2. stack' = stack \/ stack' = Append(stack, Frame("mousex", NoRun))
    BY DEF On, Off, exec_continue, AgentPause, Drain
  <2> QED
    BY <2>1, <2>2, SequenceFacts DEF RunTypeOK
<1>5. RestTypeOK'
  <2>1. CASE \E h \in Handlers, n \in Names : On(r, h, n)
    BY <2>1 DEF On, RestTypeOK, pauseVars
  <2>2. CASE \E h \in Handlers : Off(r, h)
    BY <2>2 DEF Off, RestTypeOK, pauseVars
  <2>3. CASE exec_continue(r)
    BY <2>3, BoundsAssumption DEF exec_continue, RestTypeOK
  <2>4. CASE AgentPause(r)
    BY <2>4, BoundsAssumption DEF AgentPause, RestTypeOK
  <2>5. CASE Drain(r)
    BY <2>5 DEF Drain, RestTypeOK, pauseVars
  <2> QED
    BY <2>1, <2>2, <2>3, <2>4, <2>5
<1>6. WaitTypeOK'
  BY <1>3 DEF WaitTypeOK, waitVars
<1>7. RunTypeOK' /\ FreeOwnsNothing' /\ ChunkOwnership'
  BY <1>2, <1>3, <1>4, LeavesChunks DEF RunTypeOK
<1> QED
  BY <1>5, <1>6, <1>7, TypeSplit, PTL DEF Inv

\* Frames that only come off the stack.
LEMMA PopSteps ==
  ASSUME Inv, Drained \/ KeyDone
  PROVE  Inv'
<1> USE InvFacts
<1>1. /\ stack # <<>> /\ stack' = Below
      /\ UNCHANGED <<waitVars, pauseVars, handler, chunkVars, run, window>>
  BY DEF Drained, KeyDone, Running
<1>2. stack' \in Seq(FrameRecord)
  BY <1>1, SequenceFacts DEF RunTypeOK, Below
<1>3. WaitTypeOK' /\ RestTypeOK'
  BY <1>1 DEF WaitTypeOK, RestTypeOK, waitVars, pauseVars
<1>4. RunTypeOK' /\ FreeOwnsNothing' /\ ChunkOwnership'
  BY <1>1, <1>2, LeavesChunks DEF RunTypeOK, pauseVars
<1> QED
  BY <1>3, <1>4, TypeSplit, PTL DEF Inv

\* The run in the slot goes on.
LEMMA ResumeSteps ==
  ASSUME Inv, WaitKeyPress \/ InputReturn \/ \E t \in TimerIds : Timeout(t)
  PROVE  Inv'
<1> USE InvFacts
<1>1. ResumeSlot
  BY DEF WaitKeyPress, InputReturn, Timeout
<1>2. slot \in RunIds
  BY <1>1 DEF ResumeSlot, WaitTypeOK
<1>3. /\ run' = [run EXCEPT ![slot].why = "VM"]
      /\ stack' = Append(stack, Frame("vm", slot))
      /\ UNCHANGED <<pauseVars, handler, chunkVars, window>>
      /\ slot' = NoRun
  BY <1>1 DEF ResumeSlot
<1>4. /\ run' \in [RunIds -> RunRecord]
      /\ \A q \in RunIds : run'[q].owns = run[q].owns /\ run'[q].chunk = run[q].chunk
      /\ \A q \in RunIds : run'[q].why = "FREE" => run[q].why = "FREE"
  BY <1>2, <1>3 DEF RunTypeOK, RunRecord, Whys
<1>5. stack' \in Seq(FrameRecord)
  <2>1. Frame("vm", slot) \in FrameRecord
    BY <1>2, FrameType DEF FrameKinds
  <2> QED
    BY <1>3, <2>1, SequenceFacts DEF RunTypeOK
<1>6. WaitTypeOK'
  <2>1. slot' \in RunIds \cup {NoRun}
    BY <1>3
  <2> QED
    BY <2>1 DEF WaitTypeOK, WaitKeyPress, InputReturn, Timeout
<1>7. RestTypeOK'
  BY <1>3 DEF RestTypeOK, pauseVars
<1>8. RunTypeOK' /\ FreeOwnsNothing' /\ ChunkOwnership'
  BY <1>3, <1>4, <1>5, LeavesChunks DEF RunTypeOK, pauseVars
<1> QED
  BY <1>6, <1>7, <1>8, TypeSplit, PTL DEF Inv

\* A script starts on a chunk of its own.
LEMMA ScriptStarts ==
  ASSUME Inv, NEW shape \in Shapes, NEW s \in Seq(FrameRecord), run_logo_script(shape, s)
  PROVE  Inv'
<1> USE InvFacts
<1>1. PICK c \in ChunkIds, r \in RunIds :
        /\ FreshChunk(c)
        /\ chunk' = [chunk EXCEPT ![c] = shape]
        /\ Starts(r, c, TRUE, s)
  BY DEF run_logo_script
<1>2. UNCHANGED <<waitVars, pauseVars, handler, owner, window>>
  BY DEF run_logo_script
<1> DEFINE rec == [chunk |-> c, owns |-> TRUE, left |-> MaxOps, why |-> "VM"]
<1>3. /\ run[r] = FreeRun /\ run' = [run EXCEPT ![r] = rec]
      /\ stack' = Append(s, Frame("vm", r))
  BY <1>1 DEF Starts
<1>4. rec \in RunRecord /\ rec.owns /\ rec.chunk = c /\ rec.why = "VM"
  BY BoundsAssumption DEF RunRecord, Whys
<1> HIDE DEF rec
<1>5. /\ run \in [RunIds -> RunRecord] /\ run' \in [RunIds -> RunRecord]
      /\ run'[r] = rec /\ \A q \in RunIds \ {r} : run'[q] = run[q]
  BY <1>3, <1>4 DEF RunTypeOK
<1>6. FreeOwnsNothing'
  BY <1>4, <1>5 DEF FreeOwnsNothing
<1>7. RunTypeOK'
  <2>1. Frame("vm", r) \in FrameRecord
    BY FrameType DEF FrameKinds
  <2>2. stack' \in Seq(FrameRecord)
    BY <1>3, <2>1, SequenceFacts
  <2> QED
    BY <1>1, <1>2, <1>5, <2>2 DEF RunTypeOK, pauseVars
<1>8. WaitTypeOK' /\ RestTypeOK'
  BY <1>2 DEF WaitTypeOK, RestTypeOK, waitVars, pauseVars
<1>9. Owning' = Owning \cup {r} /\ r \notin Owning
  BY <1>3, <1>4, <1>5, FreeRunType DEF Owning
<1>10. OwnedChunks' = OwnedChunks \cup {c}
  BY <1>4, <1>5, <1>9 DEF OwnedChunks, Owning
<1>11. LiveChunks' = LiveChunks \cup {c} /\ Owners(owner)' = Owners(owner)
  BY <1>1, <1>2, ShapesAssumption DEF LiveChunks, Owners, RunTypeOK
<1>12. c \notin Owners(owner) /\ \A q \in Owning : run[q].chunk # c
  BY <1>1 DEF FreshChunk, Owners, Owning
<1>13. OneOwnerEach
  BY OwnershipIs
<1>14. OneOwnerEach'
  <2>1. LiveChunks' = Owners(owner)' \cup OwnedChunks'
    BY <1>10, <1>11, <1>13 DEF OneOwnerEach
  <2>2. \A q \in Owning' : run'[q].chunk \notin Owners(owner)'
    BY <1>4, <1>5, <1>9, <1>11, <1>12, <1>13 DEF OneOwnerEach, Owning
  <2>3. \A p, q \in Owning' : p # q => run'[p].chunk # run'[q].chunk
    BY <1>4, <1>5, <1>9, <1>12, <1>13 DEF OneOwnerEach, Owning
  <2> QED
    BY <2>1, <2>2, <2>3 DEF OneOwnerEach
<1> QED
  BY <1>6, <1>7, <1>8, <1>14, TypeSplit, OwnershipIs, PTL DEF Inv

\* A handler starts on a chunk it borrows.
LEMMA HandlerStarts ==
  ASSUME Inv, NEW h \in Handlers, NEW s \in Seq(FrameRecord), fire_handler(h, s)
  PROVE  Inv'
<1> USE InvFacts
<1>1. PICK r \in RunIds : Starts(r, owner[h], FALSE, s)
  BY DEF fire_handler
<1>2. UNCHANGED <<waitVars, pauseVars, handler, chunkVars, window>>
  BY DEF fire_handler
<1> DEFINE rec == [chunk |-> owner[h], owns |-> FALSE, left |-> MaxOps, why |-> "VM"]
<1>3. /\ run[r] = FreeRun /\ run' = [run EXCEPT ![r] = rec]
      /\ stack' = Append(s, Frame("vm", r))
  BY <1>1 DEF Starts
<1>4. rec \in RunRecord /\ ~rec.owns
  BY BoundsAssumption DEF RunRecord, Whys, RunTypeOK
<1> HIDE DEF rec
<1>5. /\ run \in [RunIds -> RunRecord] /\ run' \in [RunIds -> RunRecord]
      /\ run'[r] = rec /\ \A q \in RunIds \ {r} : run'[q] = run[q]
  BY <1>3, <1>4 DEF RunTypeOK
<1>6. FreeOwnsNothing'
  BY <1>4, <1>5 DEF FreeOwnsNothing
<1>7. RunTypeOK'
  <2>1. Frame("vm", r) \in FrameRecord
    BY FrameType DEF FrameKinds
  <2>2. stack' \in Seq(FrameRecord)
    BY <1>3, <2>1, SequenceFacts
  <2> QED
    BY <1>2, <1>5, <2>2 DEF RunTypeOK, pauseVars, chunkVars
<1>8. WaitTypeOK' /\ RestTypeOK'
  BY <1>2 DEF WaitTypeOK, RestTypeOK, waitVars, pauseVars
<1>9. Owning' = Owning /\ \A q \in Owning : run'[q].chunk = run[q].chunk
  BY <1>3, <1>4, <1>5, FreeRunType DEF Owning
<1>10. OwnedChunks' = OwnedChunks
  BY <1>9 DEF OwnedChunks
<1>11. LiveChunks' = LiveChunks /\ Owners(owner)' = Owners(owner)
  BY <1>2 DEF LiveChunks, Owners, chunkVars
<1>12. OneOwnerEach
  BY OwnershipIs
<1>13. OneOwnerEach'
  BY <1>9, <1>10, <1>11, <1>12 DEF OneOwnerEach
<1> QED
  BY <1>6, <1>7, <1>8, <1>13, TypeSplit, OwnershipIs, PTL DEF Inv

\* The window's end frees the run in the slot.
LEMMA DestroyStep ==
  ASSUME Inv, on_window_destroy
  PROVE  Inv'
<1> USE InvFacts DEF on_window_destroy
<1>1. WaitTypeOK'
  BY DEF WaitTypeOK
<1>2. RestTypeOK'
  BY DEF RestTypeOK, pauseVars
<1>3. stack' \in Seq(FrameRecord) /\ paused' \in Seq(PausedRecord)
  BY DEF RunTypeOK, pauseVars
<1>4. CASE slot = NoRun
  <2>1. UNCHANGED chunkVars /\ run' = run
    BY <1>4 DEF chunkVars
  <2>2. RunTypeOK' /\ FreeOwnsNothing' /\ ChunkOwnership'
    BY <1>3, <2>1, LeavesChunks DEF RunTypeOK
  <2> QED
    BY <1>1, <1>2, <2>2, TypeSplit, PTL DEF Inv
<1>5. CASE slot # NoRun
  <2>1. slot \in RunIds
    BY <1>5 DEF WaitTypeOK
  <2>2. Release(owner, OwnChunk(slot)) /\ run' = [run EXCEPT ![slot] = FreeRun]
    BY <1>5 DEF Release
  <2>3. /\ run' \in [RunIds -> RunRecord] /\ ~run'[slot].owns
        /\ \A q \in RunIds \ {slot} : run'[q] = run[q]
    BY <2>1, <2>2, FreeRunType DEF RunTypeOK
  <2>4. owner \in [Handlers -> ChunkIds \cup {NoChunk}]
    BY DEF RunTypeOK
  <2>5. FreeOwnsNothing'
    BY <2>3 DEF FreeOwnsNothing
  <2>6. ChunkOwnership'
    BY <2>1, <2>2, <2>3, <2>4, <2>5, EndsOwnership
  <2>7. RunTypeOK'
    BY <1>3, <2>2, <2>3, <2>4, ReleaseType DEF RunTypeOK, Inv
  <2> QED
    BY <1>1, <1>2, <2>5, <2>6, <2>7, TypeSplit, PTL DEF Inv
<1> QED
  BY <1>4, <1>5

-----------------------------------------------------------------------------
LEMMA InvStep == Inv /\ [Next]_vars => Inv'
<1> SUFFICES ASSUME Inv, [Next]_vars PROVE Inv'
  OBVIOUS
<1> USE InvFacts
<1>1. stack \in Seq(FrameRecord)
  BY DEF RunTypeOK
<1>2. CASE VmStep
  BY <1>2, SuspendSteps, PauseStep, HaltStep, EndSteps, LaunchStep, ExecuteSteps DEF VmStep
<1>3. CASE Drained \/ KeyDone
  BY <1>3, PopSteps
<1>4. ASSUME NEW shape \in Shapes, Submit(shape) \/ KeyReturn(shape) PROVE Inv'
  <2>1. CASE Submit(shape)
    BY <1>1, <2>1, ScriptStarts DEF Submit
  <2>2. CASE KeyReturn(shape)
    <3>1. Below \in Seq(FrameRecord)
      BY <1>1, <2>2, SequenceFacts DEF KeyReturn, Running, Below
    <3> QED
      BY <2>2, <3>1, ScriptStarts DEF KeyReturn
  <2> QED
    BY <1>4, <2>1, <2>2
<1>5. ASSUME NEW h \in Handlers, Event(h) PROVE Inv'
  BY <1>1, <1>5, HandlerStarts DEF Event
<1>6. CASE KeyPress
  <2>1. Frame("key", NoRun) \in FrameRecord
    BY FrameType DEF FrameKinds
  <2>2. Append(stack, Frame("key", NoRun)) \in Seq(FrameRecord)
    BY <1>1, <2>1, SequenceFacts
  <2> QED
    BY <1>6, <2>2, HandlerStarts DEF KeyPress
<1>7. CASE WaitKeyPress \/ InputReturn \/ TimerStep
  BY <1>7, ResumeSteps DEF TimerStep
<1>8. CASE on_window_destroy
  BY <1>8, DestroyStep
<1>9. CASE UNCHANGED vars
  <2>1. UNCHANGED chunkVars /\ run' = run /\ UNCHANGED <<stack, paused>>
    BY <1>9 DEF vars, chunkVars
  <2>2. RunTypeOK' /\ FreeOwnsNothing' /\ ChunkOwnership'
    BY <2>1, LeavesChunks DEF RunTypeOK
  <2>3. WaitTypeOK' /\ RestTypeOK'
    BY <1>9 DEF vars, WaitTypeOK, RestTypeOK
  <2> QED
    BY <2>2, <2>3, TypeSplit, PTL DEF Inv
<1> QED
  BY <1>2, <1>3, <1>4, <1>5, <1>6, <1>7, <1>8, <1>9 DEF Next, UserStep, KeyStep

\* The inductive invariant of the run driver: types, freed runs own nothing,
\* and one owner for each chunk.
THEOREM DriverInvariant == Spec => []Inv
BY InitInv, InvStep, PTL DEF Spec

\* Every variable keeps its type, whatever callbacks and programs do.
THEOREM DriverTypes == Spec => []TypeOK
<1>1. Inv => TypeOK
  BY DEF Inv
<1> QED
  BY <1>1, DriverInvariant, PTL

\* No chunk is leaked and none is freed twice: each live chunk belongs to its
\* script's run or to the handler slots that adopted it, for any number of
\* runs, handlers and procedures and for every operation a program can perform
\* (release_retained_chunk and the frees of handle_vm_result).
THEOREM ChunksHaveOneOwner == Spec => []ChunkOwnership
<1>1. Inv => ChunkOwnership
  BY DEF Inv
<1> QED
  BY <1>1, DriverInvariant, PTL
=============================================================================
