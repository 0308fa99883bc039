----------------------------- MODULE Workspace -----------------------------
(***************************************************************************)
(* What the two engines share of LogoApp: the output text, the variables,  *)
(* the property lists, the pending THROW, the STOP and OUTPUT flags of the *)
(* tree-walking evaluator, and RUN's and PAUSE's depth counters; and the   *)
(* builtins that read and write them (eval.c's exposed *_value functions,  *)
(* interpreter.c's variable functions).                                    *)
(*                                                                         *)
(* The scope stack is an argument of its own (ScopeStack in the source):   *)
(* the evaluator passes app->scopes, the virtual machine its own.          *)
(***************************************************************************)
EXTENDS Values, SequencesExt, TLC

CONSTANTS MaxVariables,      \* MAX_VARIABLES
          MaxLocals,         \* MAX_PARAMS: a procedure's inputs, and its locals
          MaxPlistEntries,   \* MAX_PLIST_ENTRIES
          MaxPrototypeChain, \* MAX_PROTOTYPE_CHAIN_DEPTH
          MaxRunDepth,       \* MAX_RUN_DEPTH
          ListBuiltin(_, _)  \* the list and word operations (Texts.tla): [v, msg]

NewApp == [out |-> "", globals |-> <<>>, plists |-> <<>>, throwing |-> FALSE, tag |-> "",
           stopping |-> FALSE, output |-> <<>>, scopes |-> <<>>, runDepth |-> 0, paused |-> 0,
           speed |-> 0,
           pool |-> <<>>]   \* the procedures of the tree being evaluated

Say(app, text) == [app EXCEPT !.out = @ \o text]
SayLine(app, text) == Say(app, text \o "\n")
SayIf(app, msg) == IF msg = "" THEN app ELSE SayLine(app, msg)

(***************************************************************************)
(* Variables: the scopes from the innermost outward, then the globals.     *)
(***************************************************************************)
VarIndex(vars, name) == SelectInSeq(vars, LAMBDA x : x.name = name)
HoldingScope(ss, name) == SelectLastInSeq(ss, LAMBDA sc : VarIndex(sc.vars, name) > 0)

\* find_var: the value in a sequence of its own, empty when nothing is bound.
Lookup(app, ss, name) ==
  LET s == HoldingScope(ss, name)
      g == VarIndex(app.globals, name)
  IN  IF s > 0 THEN <<ss[s].vars[VarIndex(ss[s].vars, name)].val>>
      ELSE IF g > 0 THEN <<app.globals[g].val>> ELSE <<>>
ValueOf(app, ss, name) == LET v == Lookup(app, ss, name) IN IF v = <<>> THEN Num(0) ELSE v[1]

\* set_var and its kin: the binding find_var finds, or else a new global.
SetVar(app, ss, name, v) ==
  LET s == HoldingScope(ss, name)
      g == VarIndex(app.globals, name)
  IN  CASE s > 0 -> [app |-> app, ss |-> [ss EXCEPT ![s].vars[VarIndex(ss[s].vars, name)].val = v]]
        [] s = 0 /\ g > 0 -> [app |-> [app EXCEPT !.globals[g].val = v], ss |-> ss]
        [] s = 0 /\ g = 0 /\ Len(app.globals) < MaxVariables ->
             [app |-> [app EXCEPT !.globals = Append(@, [name |-> name, val |-> v])], ss |-> ss]
        [] OTHER -> [app |-> SayLine(app, "MAKE: too many variables defined, not set"), ss |-> ss]

\* eval_delete_var: the last global takes the deleted one's place.
DeleteVar(app, name) ==
  LET g == VarIndex(app.globals, name)
  IN  IF g = 0 THEN app
      ELSE [app EXCEPT !.globals = Front([@ EXCEPT ![g] = Last(app.globals)])]

\* eval_push_scope_for_call: <<>> when the stack is full.
PushScope(ss, capacity, name, params, args) ==
  IF Len(ss) >= capacity THEN <<>>
  ELSE <<Append(ss, [name |-> name,
                     vars |-> [i \in 1..Len(params) |->
                                 [name |-> params[i],
                                  val  |-> IF i <= Len(args) THEN args[i] ELSE Num(0)]]])>>
TooDeep(app) == SayLine(app, "Recursion too deep, call ignored")

\* eval_local_declare.
DeclareLocal(app, ss, name) ==
  LET top == Len(ss) IN
  CASE top = 0 -> [app |-> SayLine(app, "LOCAL: can only be used inside a procedure"), ss |-> ss]
    [] top > 0 /\ VarIndex(ss[top].vars, name) > 0 -> [app |-> app, ss |-> ss]
    [] top > 0 /\ Len(ss[top].vars) >= MaxLocals ->
         [app |-> SayLine(app, "LOCAL: too many local variables"), ss |-> ss]
    [] OTHER -> [app |-> app,
                 ss |-> [ss EXCEPT ![top].vars = Append(@, [name |-> name, val |-> Num(0)])]]

(***************************************************************************)
(* Property lists and the objects built on them.                           *)
(***************************************************************************)
PropIndex(app, plist, key) == SelectInSeq(app.plists, LAMBDA e : e.plist = plist /\ e.key = key)
GetProp(app, plist, key) == LET i == PropIndex(app, plist, key)
                            IN  IF i = 0 THEN EmptyList ELSE app.plists[i].val
SetProp(app, plist, key, v) ==
  LET i == PropIndex(app, plist, key)
  IN  CASE i > 0 -> [app EXCEPT !.plists[i].val = v]
        [] i = 0 /\ Len(app.plists) < MaxPlistEntries ->
             [app EXCEPT !.plists = Append(@, [plist |-> plist, key |-> key, val |-> v])]
        [] OTHER -> SayLine(app, "SETPROP: too many properties defined, not set")
RemoveProp(app, plist, key) ==
  LET i == PropIndex(app, plist, key)
  IN  IF i = 0 THEN app ELSE [app EXCEPT !.plists = Front([@ EXCEPT ![i] = Last(app.plists)])]
PropList(app, plist) ==
  LET own == SelectSeq(app.plists, LAMBDA e : e.plist = plist)
  IN  ListVal(FlattenSeq([i \in 1..Len(own) |-> <<WordVal(own[i].key), own[i].val>>]))

\* eval_resolve_message: the nearest of at most MaxPrototypeChain objects that
\* has the message answers it; <<>> if none does.
Prototype(app, object) ==
  LET up == PropIndex(app, object, "prototype")
  IN  CASE up = 0 -> <<>>
        [] OTHER  -> IF IsWordVal(app.plists[up].val) THEN <<app.plists[up].val[2]>> ELSE <<>>
ResolveMessage(app, object, message) ==
  LET chain[n \in 0..(MaxPrototypeChain - 1)] ==
        CASE n = 0 -> <<object>>
          [] n > 0 -> IF chain[n - 1] = <<>> THEN <<>> ELSE Prototype(app, chain[n - 1][1])
      Own(n)  == IF chain[n] = <<>> THEN 0 ELSE PropIndex(app, chain[n][1], message)
      holders == {n \in DOMAIN chain : Own(n) > 0}
  IN  IF holders = {} THEN <<>> ELSE <<app.plists[Own(Min(holders))].val>>

\* A procedure by name among those defined: the first one, in a sequence.
FindByName(procs, name) == LET i == SelectInSeq(procs, LAMBDA p : p.name = name)
                           IN  IF i = 0 THEN <<>> ELSE <<procs[i]>>

\* Resolving a method: [def, msg], def empty when msg tells why.
ResolveMethod(app, procs, object, message) ==
  LET value == ResolveMessage(app, object, message)
      named == IF value = <<>> THEN <<>>
               ELSE IF IsWordVal(value[1]) THEN FindByName(procs, value[1][2]) ELSE <<>>
      Fail(msg) == [def |-> <<>>, msg |-> "SEND: " \o msg]
  IN  CASE value = <<>> -> Fail(object \o " does not understand " \o message)
        [] value # <<>> /\ named = <<>> -> Fail(message \o " is not a method on " \o object)
        [] named # <<>> /\ named[1].params = <<>> ->
             Fail(named[1].name \o " must take :self as its first input")
        [] OTHER -> [def |-> named, msg |-> ""]
FirstArgs(args) == SubSeq(args, 1, IF Len(args) > MaxLocals THEN MaxLocals ELSE Len(args))
SendArgs(object, arglist) == FirstArgs(<<WordVal(object)>> \o Elements(arglist))

\* The procedure and inputs of APPLY and LAUNCH: [def, args, msg].
ResolveApply(who, procs, name, arglist) ==
  LET named == FindByName(procs, name)
      args  == FirstArgs(Elements(arglist))
      Fail(msg) == [def |-> <<>>, args |-> <<>>, msg |-> who \o ": " \o msg \o " \"" \o name]
  IN  CASE named = <<>> -> Fail("no such procedure")
        [] named # <<>> /\ Len(named[1].params) # Len(args) ->
             Fail("wrong number of inputs for procedure")
        [] OTHER -> [def |-> named, args |-> args, msg |-> ""]

(***************************************************************************)
(* THROW.                                                                  *)
(***************************************************************************)
Throw(app, tag) == [app EXCEPT !.throwing = TRUE, !.tag = tag]
CatchCheck(app, tag) == [app EXCEPT !.throwing = @ /\ app.tag # tag]
\* Mutant: the THROW is reported and stays pending.
ReportUncaught_StillThrowing(app) == SayLine(app, "THROW: no CATCH found for \"" \o app.tag)
ReportUncaught(app) ==
  [SayLine(app, "THROW: no CATCH found for \"" \o app.tag) EXCEPT !.throwing = FALSE]

(***************************************************************************)
(* The builtins both engines dispatch to: [app, v, produced].              *)
(***************************************************************************)
Gives(app, v) == [app |-> app, v |-> v, produced |-> TRUE]
GivesOr(app, r) == Gives(SayIf(app, r.msg), r.v)
GivesNothing(app) == [app |-> app, v |-> Num(0), produced |-> FALSE]

ListBuiltins == {"FIRST", "BUTFIRST", "LAST", "BUTLAST", "COUNT", "EMPTY?", "WORD?", "LIST?",
                 "NUMBER?", "FLATTEN", "PARSE", "FPUT", "LPUT", "WORD", "SENTENCE", "SE", "LIST",
                 "ITEM", "MEMBER?", "SUBST", "RANGE", "INT"}
Names(app) == ListVal([i \in 1..Len(app.globals) |-> WordVal(app.globals[i].name)])

TemplateBuiltins == {"MAP", "FILTER", "REDUCE", "FOREACH"}   \* eval.c's own loops
SharedBuiltin(app, ss, name, a) ==
  CASE name \in ListBuiltins     -> GivesOr(app, ListBuiltin(name, a))
    [] name \in {"PRINT", "PR"}  -> GivesNothing(SayLine(app, ValueText(a[1])))
    [] name = "TYPE"             -> GivesNothing(Say(app, ValueText(a[1])))
    [] name = "THING"            -> Gives(app, ValueOf(app, ss, ValueText(a[1])))
    [] name = "NAMES"            -> Gives(app, Names(app))
    [] name = "THROW"            -> GivesNothing(Throw(app, ValueText(a[1])))
    [] name = "SETPROP"          -> GivesNothing(SetProp(app, ValueText(a[1]), ValueText(a[2]), a[3]))
    [] name = "NEW"              -> GivesNothing(SetProp(app, ValueText(a[1]), "prototype", a[2]))
    [] name = "GETPROP"          -> Gives(app, GetProp(app, ValueText(a[1]), ValueText(a[2])))
    [] name = "REMOVEPROP"       -> GivesNothing(RemoveProp(app, ValueText(a[1]), ValueText(a[2])))
    [] name = "PROPLIST"         -> Gives(app, PropList(app, ValueText(a[1])))
    [] OTHER                     -> GivesNothing(app)
=============================================================================
