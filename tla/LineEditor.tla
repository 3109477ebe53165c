----------------------------- MODULE LineEditor -----------------------------
(***************************************************************************)
(* What the console promises whoever types at it, free of buffers, cursors *)
(* and interrupts: the line is made by keys taken in the order they were   *)
(* typed, each at most once; a key not taken in time may be lost.          *)
(***************************************************************************)
EXTENDS Integers, Sequences

CONSTANTS Letters, \* keys that add a character
          Back, Enter,
          Keys     \* all keys

VARIABLES typed, \* every key typed so far
          taken, \* how far in typed the line has got
          line   \* numbers of the keys the line consists of

lineVars == <<typed, taken, line>>

Init == typed = <<>> /\ taken = 0 /\ line = <<>>

Type == (\E k \in Keys : typed' = Append(typed, k)) /\ UNCHANGED <<taken, line>>

\* What key number n makes of a line.
Edited(n) ==
  CASE typed[n] \in Letters -> Append(line, n)
    [] typed[n] = Back      -> IF line = <<>> THEN line ELSE SubSeq(line, 1, Len(line) - 1)
    [] typed[n] = Enter     -> <<>>
    [] OTHER                -> line

Take ==
  /\ \E n \in taken + 1 .. Len(typed) : taken' = n /\ line' = Edited(n)
  /\ UNCHANGED typed

Next == Type \/ Take

Spec == Init /\ [][Next]_lineVars
=============================================================================
