----------------------------- MODULE MCConsole -----------------------------
(* Two consoles of three rows of two cells, a screen of two rows.          *)
EXTENDS Console

MCStrings == {<<"\n", "x", "\n">>}
=============================================================================
