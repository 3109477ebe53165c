------------------------------ MODULE MCShell ------------------------------
(* Model values for the configuration of Shell, and memory for its strings. *)
EXTENDS Shell, Strings

CONSTANTS a, b \* two names

\* A name, a name in the folder above, and a name in a folder.
TypedPaths == {<<a>>, <<b>>, <<"..", a>>, <<b, a>>, <<"..">>}

\* A zero, a blank, a dot, a slash and a digit, which is also the letter of words.
SomeBytes == {NUL, BLANK, DOT, SLASH, FirstDigit + 1}
SomeNumbers == {-1, 0, 1, 10, 101}

\* The commands of Shell work with a cleared memory; its other contents are there for the
\* functions of Strings, before the first command.
MCInit == ShellInit /\ StringsInit
MCNext ==
  \/ memory = Cleared /\ ShellNext /\ UNCHANGED memory
  \/ ShellInit /\ FillByte /\ UNCHANGED shellVars
MCSpec == MCInit /\ [][MCNext]_<<shellVars, memory>>
=============================================================================
