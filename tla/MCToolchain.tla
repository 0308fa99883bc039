---------------------------- MODULE MCToolchain ----------------------------
(* Texts put together from these pieces and wrappers. *)
EXTENDS Toolchain

MCPieces ==
  {"PRINT p 1 ", "q ", "TO p :n END ", "OUTPUT 1 ", "STOP ", "PRINT SEND \"o \"m [] ", "THROW \"x ",
   "PRINT 1234567 ", "FD INPUT ", "-", "3", "\"q", ":v", "'r s'", "[b]",
   "PRINT [[one two three four] 5] "}
MCWrappers ==
  {<<"REPEAT 2 [", "] ">>, <<"FOR [i 1 3] [", "] ">>, <<"FOR [i 1 p 3 2] [", "] ">>,
   <<"IF 1 < 2 [", "] ">>, <<"WHILE NOT 1 = 2 [", "] ">>, <<"FOREVER [", "] ">>,
   <<"CATCH \"x [", "] ">>, <<"TO p :n ", "END ">>, <<"TO q ", "END ">>, <<"TO even? ", "END ">>,
   <<"FOREACH [", "] [1 2] ">>, <<"PRINT MAP [", "] [1] ">>, <<"PRINT [", "] ">>}
=============================================================================
