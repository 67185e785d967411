----------------------------- MODULE MCEventRepl -----------------------------
(***************************************************************************)
(* Text for EventRepl.  MCPieces holds lines: every piece ends in white    *)
(* space, and white space follows every symbol.  MCCut cuts symbols, and   *)
(* MCTight has a list right behind a symbol.                               *)
(***************************************************************************)
EXTENDS EventRepl

MCPieces == {<<"s", "w">>, <<"o", "w">>, <<"c", "w">>, <<"b", "w">>,
             <<"o", "s", "w", "c", "w", "s", "w">>,
             <<"s", "w", "b", "w", "s", "w">>}

MCCut == {<<"s">>, <<"s", "w">>}

MCTight == {<<"s", "o", "s">>, <<"s", "c", "w">>}
==============================================================================
