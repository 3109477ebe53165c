------------------------------ MODULE Console ------------------------------
(***************************************************************************)
(* The console: the keyboard interrupt of keyboard.c, the shell's input    *)
(* loop with its line editor (user-shell.c, user-buffer.c) and the         *)
(* character frame it echoes to (charframe.c), with what is on the screen. *)
(* The interrupt can come between any two steps of the loop; a syscall is  *)
(* one step.  Arrow keys move the frame's cursor inside the interrupt.     *)
(***************************************************************************)
EXTENDS Integers, SequencesExt

CONSTANTS TEXT_WIDTH,  \* 128 in the build
          TEXT_HEIGHT, \* 48
          Prompt,      \* the characters of "user@OSBINLADEN: ", the path, and " "
          Outputs,     \* what commands print
          MaxTyped     \* bound of the model on the keys typed

VARIABLES shift_pressed, keyboard_buffer, keyboard_input_on,
          frame,      \* charBuffer and pos of charframe.c, and the glyph on every cell of the screen
          userBuffer, \* main_state.userBuffer up to userBufferPos; the rest of it is zero
          buffen,     \* the character main fetched
          pc,         \* where main is
          typed,      \* history: the keys that came while the keyboard was on
          taken       \* history: the number of the last of them that inputChar was given

keyboardVars == <<shift_pressed, keyboard_buffer, keyboard_input_on>>
shellVars    == <<userBuffer, buffen, pc, taken>>
consoleVars  == <<keyboardVars, frame, shellVars, typed>>

TEXT_SIZE == TEXT_WIDTH * TEXT_HEIGHT
Cells     == 0 .. TEXT_SIZE - 1

\* A character, with the number of the key it comes from (0 for what programs print).
Char(c, n) == [c |-> c, n |-> n]
NUL        == Char("", 0)

Cursor == Char("|", 0)

\* Characters are classes: "x" and "X" stand for what a key gives without and with
\* shift, "o" for what programs print.
Printable == {"x", "X", "o", "/", " "}

\* The classes of scancodes keyboard_isr tells apart: "dead" is a key that the map
\* has no character for, as Ctrl.
Keys == {"x", "newline", "backspace", "tab", "left", "right", "shift", "unshift", "dead"}

\* The last tab stop is the end of the screen.  No name in a path has a newline.
ASSUME ConsoleAssumption ==
  /\ TEXT_WIDTH \in Nat \ {0} /\ TEXT_HEIGHT \in Nat \ {0} /\ TEXT_SIZE % 4 = 0
  /\ Prompt \in Seq(Printable)
  /\ Outputs \subseteq Seq(Printable \cup {"newline", "tab"})
  /\ MaxTyped \in Nat

Steps == {"activate", "prompt", "draw", "fetch", "input", "echo", "command", "newline"}

ConsoleInit ==
  /\ shift_pressed = FALSE
  /\ keyboard_buffer = NUL
  /\ keyboard_input_on = FALSE
  /\ frame = [charBuffer |-> [i \in Cells |-> NUL], pos |-> 0, screen |-> [i \in Cells |-> NUL]]
  /\ userBuffer = <<>>
  /\ buffen = NUL
  /\ pc = "activate"
  /\ typed = <<>>
  /\ taken = 0

-----------------------------------------------------------------------------
(* charframe.c *)

\* What draw_char_at shows for a character.
Glyph(ch) == IF ch.c \in Printable \cup {"|"} /\ ch.c # " " THEN ch ELSE NUL

next_row_index(pos) == (pos \div TEXT_WIDTH + 1) * TEXT_WIDTH
next_tab_index(pos) == (pos \div 4 + 1) * 4

Stored(f, ch, pos) == [f EXCEPT !.charBuffer[f.pos] = ch, !.pos = pos]

\* Seeded fault: the cursor stays where it is.
BackspaceInPlace(f) == IF f.pos = 0 THEN f ELSE [f EXCEPT !.charBuffer[f.pos - 1] = NUL]

\* A printable character before the cursor is erased.  Otherwise the cursor goes
\* back over zeroes: to the newline or tab it finds, which is erased, or behind
\* another character; without any it leaves the buffer at its beginning.
handle_backspace(f) ==
  LET there == {i \in 0 .. f.pos : f.charBuffer[i] # NUL}
      last  == Max(there)
  IN  IF f.pos = 0 THEN f
      ELSE IF f.charBuffer[f.pos - 1].c \in Printable
      THEN [f EXCEPT !.charBuffer[f.pos - 1] = NUL, !.pos = f.pos - 1]
      ELSE IF there = {} THEN [f EXCEPT !.pos = -1]
      ELSE IF f.charBuffer[last].c \in {"newline", "tab"}
      THEN [f EXCEPT !.charBuffer[last] = NUL, !.pos = last]
      ELSE [f EXCEPT !.pos = last + 1]

key_handler(f, ch) ==
  CASE ch.c = "newline"        -> Stored(f, ch, next_row_index(f.pos))
    [] ch.c = "tab"        -> Stored(f, ch, next_tab_index(f.pos))
    [] ch.c = "backspace"        -> handle_backspace(f)
    [] ch.c \in Printable -> Stored(f, ch, f.pos + 1)
    [] OTHER              -> f

\* buffered_draw: the cells the cursor passed are drawn, the one it comes to is
\* not.  A cursor that has left the buffer is not followed any further.
putchar(f, ch) ==
  LET g     == key_handler(f, ch)
      drawn == IF g.pos > f.pos THEN f.pos .. g.pos - 1 ELSE g.pos + 1 .. f.pos
  IN  IF f.pos \notin Cells THEN f
      ELSE [g EXCEPT !.screen = [i \in Cells |-> IF i \in drawn THEN Glyph(g.charBuffer[i])
                                                ELSE f.screen[i]]]

puts(f, chars) ==
  LET after[k \in 0 .. Len(chars)] ==
        IF k = 0 THEN f ELSE putchar(after[k - 1], Char(chars[k], 0))
  IN  after[Len(chars)]

\* What lies outside the buffer can be any character.
At(f, i) == IF i \in Cells THEN {f.charBuffer[i]} ELSE {NUL, Char("/", 0)}

\* The arrows copy the character they come to over the one they leave.
handle_left_arrow(f) ==
  LET to == f.pos - 1
  IN  {IF ch.c = "/" \/ f.pos \notin Cells THEN f
       ELSE IF to \notin Cells THEN [f EXCEPT !.pos = to]
       ELSE [f EXCEPT !.pos = to, !.charBuffer[to + 1] = f.charBuffer[to],
                      !.screen[to + 1] = Glyph(f.charBuffer[to])] : ch \in At(f, f.pos - 2)}

handle_right_arrow(f) ==
  LET to == f.pos + 1
  IN  {IF ch = NUL \/ f.pos \notin Cells THEN f
       ELSE [f EXCEPT !.pos = to, !.charBuffer[to - 1] = ch, !.screen[to - 1] = Glyph(ch)] :
         ch \in At(f, to)}

-----------------------------------------------------------------------------
(* keyboard_isr *)

Mapped(key) ==
  IF key = "dead" THEN NUL
  ELSE Char(IF key = "x" /\ shift_pressed THEN "X" ELSE key, Len(typed) + 1)

keyboard_isr(key) ==
  /\ keyboard_input_on
  /\ Len(typed) < MaxTyped
  /\ typed' = Append(typed, key)
  /\ \/ /\ key \in {"shift", "unshift"}
        /\ shift_pressed' = (key = "shift")
        /\ UNCHANGED <<keyboard_buffer, frame>>
     \/ /\ key = "left"
        /\ frame' \in handle_left_arrow(frame)
        /\ UNCHANGED <<shift_pressed, keyboard_buffer>>
     \/ /\ key = "right"
        /\ frame' \in handle_right_arrow(frame)
        /\ UNCHANGED <<shift_pressed, keyboard_buffer>>
     \/ /\ key \notin {"shift", "unshift", "left", "right"}
        /\ keyboard_buffer' = Mapped(key)
        /\ UNCHANGED <<shift_pressed, frame>>
  /\ UNCHANGED <<keyboard_input_on, shellVars>>

-----------------------------------------------------------------------------
(* main of the shell *)

\* reset_user_buffer and syscall 7.
keyboard_state_activate ==
  /\ pc = "activate"
  /\ keyboard_input_on' = TRUE
  /\ userBuffer' = <<>>
  /\ pc' = "prompt"
  /\ UNCHANGED <<shift_pressed, keyboard_buffer, frame, buffen, taken, typed>>

PrintPrompt ==
  /\ pc = "prompt"
  /\ frame' = puts(frame, Prompt)
  /\ pc' = "draw"
  /\ UNCHANGED <<keyboardVars, userBuffer, buffen, taken, typed>>

\* Seeded fault: in the second half of a second nothing is drawn.
BlinkGlyphs == {Cursor, frame.screen[frame.pos]}

\* The cursor is drawn in the first half of every second, a blank in the other.
CursorGlyphs == {Cursor, NUL}

\* Syscall 8.
draw_cursor ==
  /\ pc = "draw"
  /\ IF frame.pos \in Cells
     THEN \E glyph \in CursorGlyphs : frame' = [frame EXCEPT !.screen[frame.pos] = glyph]
     ELSE UNCHANGED frame
  /\ pc' = "fetch"
  /\ UNCHANGED <<keyboardVars, userBuffer, buffen, taken, typed>>

\* Seeded fault: the buffer keeps the character.
KeptBuffer == keyboard_buffer

\* What get_keyboard_buffer leaves in the buffer.
FlushedBuffer == NUL

\* Syscall 4.
get_keyboard_buffer ==
  /\ pc = "fetch"
  /\ buffen' = keyboard_buffer
  /\ keyboard_buffer' = FlushedBuffer
  /\ pc' = "input"
  /\ UNCHANGED <<shift_pressed, keyboard_input_on, frame, userBuffer, taken, typed>>

\* The character is put in the line, or taken from it, before it is echoed.
inputChar ==
  /\ pc = "input"
  /\ taken' = IF buffen = NUL THEN taken ELSE buffen.n
  /\ CASE buffen.c = "newline" ->
            userBuffer' = Append(userBuffer, buffen) /\ pc' = "command"
       [] buffen.c \in Printable \cup {"tab"} ->
            userBuffer' = Append(userBuffer, buffen) /\ pc' = "echo"
       [] buffen.c = "backspace" /\ userBuffer # <<>> ->
            userBuffer' = Front(userBuffer) /\ pc' = "echo"
       [] OTHER ->
            pc' = "draw" /\ UNCHANGED userBuffer
  /\ UNCHANGED <<keyboardVars, frame, buffen, typed>>

\* Syscall 5.  For a tab the shell sends the byte behind it, which is zero.
Echo ==
  /\ pc = "echo"
  /\ frame' = putchar(frame, IF buffen.c = "tab" THEN NUL ELSE buffen)
  /\ pc' = "draw"
  /\ UNCHANGED <<keyboardVars, userBuffer, buffen, taken, typed>>

\* The commands of a line that has a word: each prints something or, as clear,
\* empties frame and screen.
Cleared ==
  IF frame.pos \notin Cells THEN frame
  ELSE [charBuffer |-> [i \in Cells |-> NUL], pos |-> 0, screen |-> [i \in Cells |-> NUL]]

cmdHandler ==
  /\ pc = "command"
  /\ IF \E k \in DOMAIN userBuffer : userBuffer[k].c \in Printable
     THEN frame' \in {puts(frame, out) : out \in Outputs} \cup {Cleared}
     ELSE UNCHANGED frame
  /\ userBuffer' = <<>>
  /\ pc' = "newline"
  /\ UNCHANGED <<keyboardVars, buffen, taken, typed>>

EchoNewline ==
  /\ pc = "newline"
  /\ frame' = putchar(frame, Char("newline", 0))
  /\ pc' = "prompt"
  /\ UNCHANGED <<keyboardVars, userBuffer, buffen, taken, typed>>

ConsoleNext ==
  \/ \E key \in Keys : keyboard_isr(key)
  \/ keyboard_state_activate
  \/ PrintPrompt
  \/ draw_cursor
  \/ get_keyboard_buffer
  \/ inputChar
  \/ Echo
  \/ cmdHandler
  \/ EchoNewline

ConsoleSpec == ConsoleInit /\ [][ConsoleNext]_consoleVars

-----------------------------------------------------------------------------
(* Properties *)

Chars == [c : Printable \cup {"", "newline", "tab", "backspace", "|"}, n : 0 .. MaxTyped]

\* Type invariant of the console's state.
ConsoleTypeOK ==
  /\ shift_pressed \in BOOLEAN /\ keyboard_input_on \in BOOLEAN
  /\ keyboard_buffer \in Chars /\ buffen \in Chars
  /\ frame.charBuffer \in [Cells -> Chars] /\ frame.screen \in [Cells -> Chars]
  /\ frame.pos \in -1 .. TEXT_SIZE
  /\ userBuffer \in Seq(Chars)
  /\ pc \in Steps
  /\ taken \in 0 .. Len(typed)

\* The numbers of the keys that characters come from.
Numbers(chars) == [k \in DOMAIN chars |-> chars[k].n]

\* The line by its keys; it is over when its newline is in.
LineTyped ==
  IF userBuffer # <<>> /\ Last(userBuffer).c = "newline" THEN <<>> ELSE Numbers(userBuffer)

Line == INSTANCE LineEditor WITH
  Letters <- {"x", "tab"},
  Back    <- "backspace",
  Enter   <- "newline",
  line    <- LineTyped

\* Refinement: whatever the interrupt comes between, the line is made by keys in
\* the order they were typed, none of them twice; a second key before the shell
\* fetches the first one replaces it (keyboard.c 60, 88).
ImplementsLineEditor == Line!Spec

\* So far nobody has used a tab, which the line keeps and the frame never gets,
\* or an arrow, which the line does not know about; and the cursor is on screen.
Plain == (\A k \in DOMAIN typed : typed[k] \notin {"tab", "left", "right"}) /\ frame.pos \in Cells

\* Whenever the shell looks for input, the prompt and the line, as it will be
\* given to the commands, are what stands before the cursor: backspace stops at
\* the prompt and goes back over the ends of rows (charframe.c 51, user-buffer.c
\* 139), and command output and clear come before the next prompt.
FrameShowsLine ==
  Plain /\ pc \in {"draw", "fetch", "input"} =>
    LET shown == [k \in DOMAIN Prompt |-> Char(Prompt[k], 0)] \o userBuffer
    IN  /\ frame.pos >= Len(shown)
        /\ \A k \in DOMAIN shown : frame.charBuffer[frame.pos - Len(shown) + k - 1] = shown[k]

\* What is on the screen is what the frame holds, with the cursor or a blank where
\* the cursor is: buffered_draw leaves the cell it backs on to, and draw_cursor,
\* which alone cleans it, leaves its own mark for others to clean (charframe.c
\* 128, 146).
ScreenShowsFrame ==
  Plain /\ pc = "fetch" =>
    \A i \in Cells : IF i = frame.pos THEN frame.screen[i] \in {Cursor, NUL}
                     ELSE frame.screen[i] = Glyph(frame.charBuffer[i])

\* The invariants of the frame and its screen, whose types say that the cursor leaves the
\* screen at most by one cell to either side before the frame is given up.
ConsoleInv == ConsoleTypeOK /\ ScreenShowsFrame
=============================================================================
