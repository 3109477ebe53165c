----------------------------- MODULE MCConsole -----------------------------
(* A console of a few small rows. *)
EXTENDS Console

\* The end of a path and the blank behind it, as in every prompt.
MCPrompt == <<"/", " ">>

\* No output, a message as commands print them, and a file that has a tab.
MCOutputs == {<<>>, <<"newline", "o">>, <<"o", "tab", "o">>}
=============================================================================
