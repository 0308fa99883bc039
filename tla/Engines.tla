------------------------------ MODULE Engines ------------------------------
(***************************************************************************)
(* The headless program put together: the driver and the virtual machine   *)
(* (Headless.tla) with the lexer, the parser, the compiler and the tree-   *)
(* walking evaluator, which the machine calls for a template that is not a *)
(* literal.  A configuration gives the machine's constants:                *)
(*   Translate <- Translation         TemplateBuiltin <- TemplateBuiltinOf *)
(*   LiteralFromText <- LiteralRead   ListBuiltin <- ListOperation         *)
(*   ValueText <- PrintedText         IsNumeral <- ReadsAsNumber           *)
(*   NumeralValue <- NumberRead                                            *)
(***************************************************************************)
EXTENDS Headless, Compiler, Eval

\* The main program and a loaded file have room for more tokens than a snippet.
SnippetLimit(op) == IF op \in {"main", "LOAD"} THEN MaxTokens ELSE MaxSnippetTokens
Translation(op, text) ==
  LET r == Parsed("program", text, Files, SnippetLimit(op))
  IN  IF r = <<>> THEN <<>> ELSE <<Compile(Files, r[1])>>

TemplateBuiltinOf(a, name, args) == EvalTemplate(a, name, args, Files)

\* A script prints through the compiler and the virtual machine what the
\* tree-walking evaluator prints for it (or for a text given as equivalent):
\* across calls, loops, templates, CATCH, objects, RUN and LOAD nested in each
\* other.  (eval.c and vm.c: two engines behind one language.)
EvalOutput(text) == AstEval(NewApp, Parsed("program", text, Files, MaxTokens)[1], Files).out
AgreesWithEval == exit = "done" => \A text \in script.like : app.out = EvalOutput(text)
=============================================================================
