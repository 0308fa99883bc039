-------------------------------- MODULE MCVm --------------------------------
(***************************************************************************)
(* The headless driver on families of scripts: every leaf statement inside *)
(* every pair of enclosing constructs, and scripts of their own for the    *)
(* interplay of recursion, templates, objects, LOAD, input and erasure.    *)
(***************************************************************************)
EXTENDS Engines

MCFiles == "f" :> "TO g OUTPUT 2 END PRINT g" @@ "bad" :> "PRINT (1"

Prelude == "TO p :x OUTPUT :x + 1 END TO s :x IF :x > 0 [STOP] PRINT 5 END TO t THROW \"x END "

\* A script that both engines run; one that only resembles a text which needs
\* no driver; one that only the virtual machine is asked about.
Plainly(text) == [text |-> text, input |-> <<>>, like |-> {text}]
Fed(text, input, like) == [text |-> text, input |-> input, like |-> {like}]
Alone(text) == [text |-> text, input |-> <<>>, like |-> {}]

(***************************************************************************)
(* Leaves within two wrappers.  In a template or a RUN only statements that *)
(* end normally: STOP, OUTPUT and THROW across them are what LANGUAGE.md    *)
(* leaves open or Vm_* runs show to differ.                                 *)
(***************************************************************************)
CalmLeaves == {"PRINT p 1", "s 0", "PRINT s 1", "MAKE \"a :a + 1 PRINT :a"}
Leaves == CalmLeaves \union
  {"s 1", "t", "PRINT t", "THROW \"x", "THROW \"y", "PRINT MAP [? + 1] [1 2]", "STOP", "OUTPUT 3"}
Blocks == {<<"", "">>, <<"REPEAT 2 [", "]">>, <<"CATCH \"x [", "]">>,
           <<"IF 1 = 2 [] [", "]">>, <<"FOR [i 1 2] [", "]">>}
Body == {<<"TO q ", " END q PRINT 7">>}
Snippets == {<<"FOREACH [", "] [1 2]">>, <<"RUN [", "]">>}

Around(w, text) == w[1] \o text \o w[2]
Within(outer, inner, leaves) ==
  {Plainly(Prelude \o Around(w, Around(v, leaf) \o " PRINT 3") \o " PRINT 4") :
     w \in outer, v \in inner, leaf \in leaves}
Nested ==
  Within(Blocks \union Body, Blocks \union Body, Leaves)
    \union Within(Blocks \union Body, Snippets, CalmLeaves)
    \union Within(Snippets, Blocks \union Snippets, CalmLeaves)

(***************************************************************************)
(* Calls, objects, templates, definitions, files.                          *)
(***************************************************************************)
Calls ==
  {"TO r :n PRINT :n r :n + 1 PRINT :n END r 0",
   "TO r :n OUTPUT 1 + r :n + 1 END PRINT r 0",
   "TO a :n IF :n = 0 [OUTPUT 0] OUTPUT 1 + b :n - 1 END TO b :n OUTPUT a :n END PRINT a 1 PRINT b 1",
   "TO q :x LOCAL \"y MAKE \"y :x MAKE \"x 9 PRINT :y PRINT :x END MAKE \"y 5 q 3 PRINT :y PRINT :x LOCAL \"z",
   "TO q PRINT :h END TO w :h q MAKE \"h 2 q END w 1 PRINT :h",
   "TO q OUTPUT 1 END PRINT q ERASE \"q PRINT q ERASE \"q",
   "TO q :x FOR [i 1 3] [IF :i = 2 [OUTPUT :i + :x]] END PRINT 1 + q 10 PRINT FPUT q 1 [5]",
   "TO q REPEAT 3 [REPEAT 3 [STOP] PRINT 8] END REPEAT 2 [q PRINT 1]",
   "APPLY \"s [0] APPLY \"s [] APPLY \"nosuch [] PRINT 1",
   "TO q APPLY \"s [0] APPLY \"r [1 2] END TO r :a :b PRINT :a + :b END TO s :x PRINT :x END q",
   "TO q :n IF :n > 0 [APPLY \"q FPUT :n - 1 [] PRINT :n] END q 2",
   "CATCH \"x [CATCH \"y [THROW \"x] PRINT 1] PRINT 2",
   "CATCH \"x [REPEAT 2 [FOR [i 1 2] [CATCH \"y [THROW \"y PRINT 0] THROW \"x] PRINT 1]] PRINT 2",
   "TO q CATCH \"y [t] PRINT 1 END TO t THROW \"x END CATCH \"x [q] q PRINT 2"}
Objects ==
  {"SETPROP \"o \"m \"f TO f :self :n OUTPUT :n + 1 END PRINT SEND \"o \"m [2] PRINT SEND \"o \"m [] SEND \"o \"k []",
   "NEW \"c \"o SETPROP \"o \"m \"f TO f :self PRINT :self END SEND \"c \"m [] PRINT SEND \"c \"m []",
   "NEW \"o \"o SEND \"o \"m [] SETPROP \"o \"k \"nosuch SEND \"o \"k [] PRINT PROPLIST \"o",
   "TO f OUTPUT 1 END SETPROP \"o \"m \"f PRINT SEND \"o \"m [] REMOVEPROP \"o \"m PRINT GETPROP \"o \"m"}
TemplateScripts ==
  {"PRINT MAP [? * 2] [1 2 3] PRINT FILTER [? > 1] [1 2 3] PRINT REDUCE [?1 - ?2] [9 2 3]",
   "PRINT MAP [FIRST ?] [[1 2] [3]] PRINT FILTER [NOT ? = 2 AND ? > 0] [1 2 3]",
   "PRINT MAP [REDUCE [?1 + ?2] ?] [[1 2] [3]] PRINT REDUCE [?1 + ?2] [] PRINT MAP [? + 1] []",
   "MAKE \"f [? + 1] PRINT MAP :f [1 2] FOREACH [PRINT ?] [a b] FOREACH [PRINT ?] 7",
   "MAKE \"l [1 2] FOREACH [MAKE \"l FPUT ? :l PRINT :l] :l PRINT :l",
   "PRINT MAP [* 2] [1 2] PRINT FILTER [? >] [1 2]",
   "TO q :k OUTPUT FIRST MAP [:k + ?] [1 2] END PRINT q 10 PRINT NAMES",
   "TO q FOREACH [TO p :n PRINT :n + ? END p 1] [1 2] END q FOREACH [] [3] q",
   "FOREACH [IF ? = 2 [THROW \"x] PRINT ?] [1 2 3] CATCH \"x [FOREACH [THROW \"x] [1 2]] PRINT 3"}
Loops ==
  {"MAKE \"i 0 WHILE NOT :i = 2 [MAKE \"i :i + 1 PRINT :i]",
   "FOREVER [PRINT 1]", "TO q FOREVER [MAKE \"n :n + 1 IF :n > 2 [STOP]] END q PRINT :n",
   "FOR [i 3 1] [PRINT :i] FOR [i 1 5 2] [PRINT :i] FOR [i 1 2 0] [PRINT :i]",
   "REPEAT 0 [PRINT 1] REPEAT -1 [PRINT 2] IF 1 < 2 OR 3 < 2 [PRINT -(2 - 5)]",
   "FOR [i 1 2] [FOR [j :i 2] [PRINT :i * 10 + :j]] PRINT 6 / 3"}
Files1 == {"LOAD \"f PRINT g", "LOAD \"nofile PRINT 1", "CATCH \"x [LOAD \"f] PRINT g",
           "MAKE \"r [RUN :r] RUN :r PRINT 1", "RUN [PRINT (] RUN [] PRINT 1"}

(***************************************************************************)
(* Scripts that suspend, or use what the evaluator lacks, and what they     *)
(* must print.                                                             *)
(***************************************************************************)
Suspending ==
  {Fed("SETPROP \"o \"m \"f TO f :self :n IF :n = 0 [OUTPUT 1] OUTPUT REDUCE [?1 + ?2] MAP [(SEND \"o \"m FPUT :n - 1 []) + ?] [1 2] END PRINT SEND \"o \"m [2]",
       <<>>, "PRINT 13"),   \* the evaluator finds no method from inside a template
   Fed("FOREACH [TO p PRINT 7 END p] [1 2] p", <<>>,
       "TO p END ERASE \"p p p p"),   \* p is never compiled
   Fed("PRINT 1 WAIT 5 WAIT 0 PRINT 2", <<>>, "PRINT 1 PRINT 2"),
   Fed("REPEAT 2 [PRINT FPUT WAITKEY FPUT INPUT []]", <<"a", "b", "c">>, "PRINT [a b] PRINT FPUT \"c FPUT \" []"),
   Fed("TO q :x OUTPUT :x + INPUT END PRINT q 1 + q 2", <<"5", "7">>, "PRINT 15"),
   Fed("PRINT 1 PAUSE PRINT 2 CONTINUE CONTINUE", <<>>,
       "PRINT 1 PRINT 'Paused (level 1). Type CONTINUE to resume.' PRINT 2 PRINT 'CONTINUE: nothing is paused'"),
   Fed("FOR [i 1 2] [CATCH \"x [WAIT 1 THROW \"x] PRINT :i]", <<>>, "PRINT 1 PRINT 2"),
   Fed("SETSPEED 1 REPEAT 2 [FD 1 PRINT SPEED]", <<>>, "PRINT 1 PRINT 1"),
   Fed("TYPE EXECTIME [PRINT 1] PRINT EXECTIME [PRINT (]", <<>>, "PRINT 1 TYPE 0 PRINT 0"),
   Fed("REPEAT 2 [REPEAT 2 [PRINT REPCOUNT] PRINT REPCOUNT] PRINT REPCOUNT", <<>>,
       "PRINT 1 PRINT 2 PRINT 1 PRINT 1 PRINT 2 PRINT 2 PRINT -1"),
   Fed("TO q OUTPUT DEFINED? \"q END PRINT q ERASE \"q PRINT DEFINED? \"q", <<>>, "PRINT \"TRUE PRINT \"FALSE"),
   Fed("TO q BACKTRACE END TO r q END r", <<>>,
       "PRINT 'BACKTRACE:' PRINT '  q' PRINT '  r' PRINT '  (top level)'")}
Refusal(op) == "PRINT '" \o op \o ": not supported inside a MAP/FILTER/REDUCE/FOREACH template, RUN, or LOAD' "
Nestedly ==
  {Fed("RUN [" \o op \o " PRINT 1] PRINT 2", <<>>, Refusal(op) \o "PRINT 1 PRINT 2") : op \in {"PAUSE", "AWAIT", "YIELD"}}
    \union {Fed("FOREACH [WAIT 1 PRINT ?] [1 2]", <<>>,
                Refusal("WAIT") \o "PRINT 1 " \o Refusal("WAIT") \o "PRINT 2"),
            Fed("RUN [PRINT INPUT] PRINT 2", <<"a">>, Refusal("INPUT") \o "PRINT \" PRINT 2"),
            Fed("SETSPEED 1 RUN [FD 1 PRINT 1] PRINT 2", <<>>, "PRINT 1 PRINT 2")}
Handed == {Alone("TO q PRINT 1 END LAUNCH \"q [] PRINT 2"), Alone("PRINT 1 AWAIT"), Alone("YIELD"),
           Alone("PRINT (1")}
\* STOP and OUTPUT that leave a snippet's own top level for its caller's frame.
Escaping == {Alone("RUN [STOP] PRINT 1"), Alone("TO q RUN [OUTPUT 1] PRINT 2 END PRINT 1 + q PRINT 3")}

\* For the runs that show where the code departs from its documents.
FailedLaunch == {Alone("CATCH \"x [LAUNCH \"nosuch [] THROW \"x] PRINT 1")}
CaughtThrows == {Alone("TO t THROW \"x END CATCH \"x [REPEAT 2 [t] PRINT 1] PRINT 2"),
                 Alone("CATCH \"x [RUN [THROW \"x PRINT 1] PRINT 2] PRINT 3")}

MCScripts ==
  Nested \union Suspending \union Nestedly \union Handed \union Escaping
    \union {Plainly(text) : text \in Calls \union Objects \union TemplateScripts \union Loops \union Files1}
=============================================================================
