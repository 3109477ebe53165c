--------------------------- MODULE ConsoleProofs ---------------------------
(***************************************************************************)
(* The console implements LineEditor, on a screen of any size, with any    *)
(* prompt, any commands and any number of keys: wherever the keyboard      *)
(* interrupt comes in the shell's loop, the line is made of keys in the    *)
(* order they were typed, each at most once.  The frame shows that line    *)
(* behind the prompt and the screen what the frame holds.                  *)
(***************************************************************************)
EXTENDS Console, Lemmas, SequenceTheorems, TLAPS

-----------------------------------------------------------------------------
(* The numbers of characters *)

\* What a key can put in the buffer.
KeyChars == [c : {"x", "X", "newline", "backspace", "tab"}, n : Nat]

\* The numbers are as many as the characters.
LEMMA NumbersType ==
  ASSUME NEW s \in Seq(KeyChars)
  PROVE  /\ Numbers(s) \in Seq(Nat)
         /\ Len(Numbers(s)) = Len(s)
         /\ \A k \in 1 .. Len(s) : Numbers(s)[k] = s[k].n
<1>1. DOMAIN s = 1 .. Len(s) /\ Len(s) \in Nat  OBVIOUS
<1>2. \A k \in 1 .. Len(s) : s[k].n \in Nat
  <2>1. \A k \in 1 .. Len(s) : s[k] \in KeyChars  OBVIOUS
  <2>2. \A ch \in KeyChars : ch.n \in Nat  BY DEF KeyChars
  <2> QED  BY <2>1, <2>2
<1>3. Numbers(s) = [k \in 1 .. Len(s) |-> s[k].n]  BY <1>1 DEF Numbers
<1>4. Numbers(s) \in [1 .. Len(s) -> Nat]  BY <1>2, <1>3
<1>5. Numbers(s) \in Seq(Nat)  BY <1>1, <1>4
<1>6. DOMAIN Numbers(s) = 1 .. Len(Numbers(s)) /\ Len(Numbers(s)) \in Nat  BY <1>5
<1>7. Len(Numbers(s)) = Len(s)  BY <1>1, <1>3, <1>5, <1>6
<1> QED  BY <1>3, <1>5, <1>7

\* A character more gives its number more.
LEMMA NumbersAppend ==
  ASSUME NEW s \in Seq(KeyChars), NEW ch \in KeyChars
  PROVE  Numbers(Append(s, ch)) = Append(Numbers(s), ch.n)
<1>1. Append(s, ch) \in Seq(KeyChars) /\ Len(Append(s, ch)) = Len(s) + 1  OBVIOUS
<1>2. ch.n \in Nat  BY DEF KeyChars
<1>3. /\ Numbers(s) \in Seq(Nat) /\ Len(Numbers(s)) = Len(s)
      /\ \A k \in 1 .. Len(s) : Numbers(s)[k] = s[k].n
  BY NumbersType
<1>4. /\ Numbers(Append(s, ch)) \in Seq(Nat) /\ Len(Numbers(Append(s, ch))) = Len(s) + 1
      /\ \A k \in 1 .. Len(s) + 1 : Numbers(Append(s, ch))[k] = Append(s, ch)[k].n
  BY <1>1, NumbersType
<1>5. Append(Numbers(s), ch.n) \in Seq(Nat) /\ Len(Append(Numbers(s), ch.n)) = Len(s) + 1
  BY <1>2, <1>3
<1>6. ASSUME NEW k \in 1 .. Len(s) + 1
      PROVE  Numbers(Append(s, ch))[k] = Append(Numbers(s), ch.n)[k]
  <2>1. Numbers(Append(s, ch))[k] = Append(s, ch)[k].n  BY <1>4
  <2>2. CASE k = Len(s) + 1
    <3>1. Append(s, ch)[k] = ch  BY <2>2
    <3>2. Append(Numbers(s), ch.n)[k] = ch.n  BY <1>2, <1>3, <2>2
    <3> QED  BY <2>1, <3>1, <3>2
  <2>3. CASE k \in 1 .. Len(s)
    <3>1. Append(s, ch)[k] = s[k]  BY <2>3
    <3>2. Append(Numbers(s), ch.n)[k] = Numbers(s)[k]  BY <1>2, <1>3, <2>3
    <3> QED  BY <1>3, <2>1, <2>3, <3>1, <3>2
  <2>4. k = Len(s) + 1 \/ k \in 1 .. Len(s)
    <3>1. Len(s) \in Nat  OBVIOUS
    <3> QED  BY <3>1
  <2> QED  BY <2>2, <2>3, <2>4, Zenon
<1> QED  BY <1>4, <1>5, <1>6, SeqEqual

\* What is before the last character.
LEMMA FrontOf ==
  ASSUME NEW S, NEW s \in Seq(S), s # <<>>
  PROVE  /\ Len(s) \in Nat \ {0} /\ Front(s) \in Seq(S) /\ Len(Front(s)) = Len(s) - 1
         /\ \A k \in 1 .. Len(s) - 1 : Front(s)[k] = s[k]
         /\ Front(s) = SubSeq(s, 1, Len(s) - 1)
<1>1. Front(s) = SubSeq(s, 1, Len(s) - 1)  BY DEF Front
<1>2. Len(s) \in Nat \ {0}  BY EmptySeq
<1> DEFINE m == Len(s) - 1
<1>3. m \in Nat /\ \A k \in 1 .. m : s[k] \in S  BY <1>2
<1> HIDE DEF m
<1>4. /\ SubSeq(s, 1, m) \in Seq(S)
      /\ Len(SubSeq(s, 1, m)) = IF 1 <= m THEN m - 1 + 1 ELSE 0
      /\ \A k \in 1 .. m - 1 + 1 : SubSeq(s, 1, m)[k] = s[1 + k - 1]
  <2>1. 1 \in Int /\ m \in Int  BY <1>3
  <2> QED  BY <1>3, <2>1, SubSeqProperties
<1>5. Len(SubSeq(s, 1, m)) = m  BY <1>3, <1>4
<1>6. ASSUME NEW k \in 1 .. m PROVE SubSeq(s, 1, m)[k] = s[k]
  <2>1. k \in 1 .. m - 1 + 1 /\ 1 + k - 1 = k  BY <1>3
  <2> QED  BY <1>4, <2>1
<1> QED  BY <1>1, <1>2, <1>4, <1>5, <1>6 DEF m

\* A character less gives a number less.
LEMMA NumbersFront ==
  ASSUME NEW s \in Seq(KeyChars), s # <<>>
  PROVE  Numbers(Front(s)) = SubSeq(Numbers(s), 1, Len(Numbers(s)) - 1)
<1>1. /\ Len(s) \in Nat \ {0} /\ Front(s) \in Seq(KeyChars) /\ Len(Front(s)) = Len(s) - 1
      /\ \A k \in 1 .. Len(s) - 1 : Front(s)[k] = s[k]
  BY FrontOf
<1>2. /\ Numbers(s) \in Seq(Nat) /\ Len(Numbers(s)) = Len(s)
      /\ \A k \in 1 .. Len(s) : Numbers(s)[k] = s[k].n
  BY NumbersType
<1>3. /\ Numbers(Front(s)) \in Seq(Nat) /\ Len(Numbers(Front(s))) = Len(s) - 1
      /\ \A k \in 1 .. Len(s) - 1 : Numbers(Front(s))[k] = Front(s)[k].n
  BY <1>1, NumbersType
<1>4. Numbers(s) # <<>>
  <2>1. Len(<<>>) = 0  OBVIOUS
  <2> QED  BY <1>1, <1>2, <2>1
<1> DEFINE t == Front(Numbers(s))
<1>5. /\ t \in Seq(Nat) /\ Len(t) = Len(s) - 1
      /\ \A k \in 1 .. Len(s) - 1 : t[k] = Numbers(s)[k]
      /\ t = SubSeq(Numbers(s), 1, Len(Numbers(s)) - 1)
  BY <1>2, <1>4, FrontOf
<1> HIDE DEF t
<1>6. \A k \in 1 .. Len(s) - 1 : Numbers(Front(s))[k] = t[k]
  <2> SUFFICES ASSUME NEW k \in 1 .. Len(s) - 1 PROVE Numbers(Front(s))[k] = t[k]  OBVIOUS
  <2>1. k \in 1 .. Len(s)  BY <1>1
  <2> QED  BY <1>1, <1>2, <1>3, <1>5, <2>1
<1>7. Numbers(Front(s)) = t  BY <1>3, <1>5, <1>6, SeqEqual
<1> QED  BY <1>5, <1>7

\* No characters have no numbers.
LEMMA NumbersEmpty == Numbers(<<>>) = <<>>
<1>1. <<>> \in Seq(KeyChars) /\ Len(<<>>) = 0  OBVIOUS
<1>2. Numbers(<<>>) \in Seq(Nat) /\ Len(Numbers(<<>>)) = 0  BY <1>1, NumbersType
<1> QED  BY <1>2, EmptySeq

-----------------------------------------------------------------------------
(* The invariant *)

\* The character comes from the key of its number.
Typed(ch) ==
  /\ ch \in KeyChars
  /\ ch.n \in 1 .. Len(typed)
  /\ \/ typed[ch.n] = "x" /\ ch.c \in {"x", "X"}
     \/ typed[ch.n] = ch.c /\ ch.c \in {"newline", "backspace", "tab"}

\* A character that waits in the buffer, or has been fetched, is of a key that came
\* after all that have been taken; the one in the buffer after the one fetched.
KeysInOrder ==
  /\ keyboard_buffer # NUL => Typed(keyboard_buffer) /\ taken < keyboard_buffer.n
  /\ pc = "input" /\ buffen # NUL => Typed(buffen) /\ taken < buffen.n
  /\ pc = "input" /\ buffen # NUL /\ keyboard_buffer # NUL => buffen.n < keyboard_buffer.n

\* A newline is in the line only between its being taken and the command.
NewlineEndsLine ==
  /\ userBuffer \in Seq(KeyChars)
  /\ pc = "command" => userBuffer # <<>> /\ userBuffer[Len(userBuffer)].c = "newline"
  /\ pc # "command" => \A k \in 1 .. Len(userBuffer) : userBuffer[k].c # "newline"
  /\ pc \in {"activate", "newline", "prompt"} => userBuffer = <<>>

LineInv ==
  /\ typed \in Seq(Keys)
  /\ taken \in 0 .. Len(typed)
  /\ KeysInOrder
  /\ NewlineEndsLine

\* Outside a command the line is all of the buffer; in one it is empty already.
LEMMA LineOpen ==
  ASSUME NewlineEndsLine
  PROVE  LineTyped = IF pc = "command" THEN <<>> ELSE Numbers(userBuffer)
<1>1. userBuffer \in Seq(KeyChars)  BY DEF NewlineEndsLine
<1>2. userBuffer # <<>> => /\ Len(userBuffer) \in 1 .. Len(userBuffer)
                           /\ Last(userBuffer) = userBuffer[Len(userBuffer)]
  BY <1>1 DEF Last
<1> QED  BY <1>2 DEF NewlineEndsLine, LineTyped

\* The same after a step.
LEMMA LineOpenNext ==
  ASSUME NewlineEndsLine'
  PROVE  LineTyped' = IF pc' = "command" THEN <<>> ELSE Numbers(userBuffer')
<1>1. userBuffer' \in Seq(KeyChars)  BY DEF NewlineEndsLine
<1>2. userBuffer' # <<>> => /\ Len(userBuffer') \in 1 .. Len(userBuffer')
                            /\ Last(userBuffer') = userBuffer'[Len(userBuffer')]
  BY <1>1 DEF Last
<1> QED  BY <1>2 DEF NewlineEndsLine, LineTyped

\* The invariant holds initially.
LEMMA LineStart == ConsoleInit => LineInv /\ Line!Init
<1> SUFFICES ASSUME ConsoleInit PROVE LineInv /\ Line!Init  OBVIOUS
<1>1. typed = <<>> /\ taken = 0 /\ userBuffer = <<>> /\ pc = "activate" /\ keyboard_buffer = NUL
  BY DEF ConsoleInit
<1>2. typed \in Seq(Keys) /\ Len(typed) = 0 /\ taken \in 0 .. Len(typed)  BY <1>1
<1>3. KeysInOrder  BY <1>1 DEF KeysInOrder
<1>4. userBuffer \in Seq(KeyChars) /\ Len(userBuffer) = 0  BY <1>1
<1>5. NewlineEndsLine  BY <1>1, <1>4 DEF NewlineEndsLine
<1>6. LineTyped = <<>>  BY <1>1, <1>5, LineOpen, NumbersEmpty
<1> QED  BY <1>1, <1>2, <1>3, <1>5, <1>6 DEF LineInv, Line!Init

-----------------------------------------------------------------------------
(* The steps *)

\* A key that comes is a key typed: those that came before stay as they were.
LEMMA KeyTypes ==
  ASSUME LineInv, NEW key \in Keys, keyboard_isr(key)
  PROVE  LineInv' /\ Line!Type
<1>1. /\ typed' = Append(typed, key)
      /\ UNCHANGED <<userBuffer, buffen, pc, taken>>
  BY DEF keyboard_isr, shellVars
<1>2. /\ typed \in Seq(Keys) /\ taken \in 0 .. Len(typed) /\ KeysInOrder /\ NewlineEndsLine
  BY DEF LineInv
<1>3. /\ typed' \in Seq(Keys) /\ Len(typed') = Len(typed) + 1 /\ Len(typed) \in Nat
      /\ \A k \in 1 .. Len(typed) : typed'[k] = typed[k]
      /\ typed'[Len(typed) + 1] = key
  BY <1>1, <1>2
<1>4. ASSUME NEW ch, Typed(ch) PROVE ch.n \in 1 .. Len(typed) /\ Typed(ch)'
  BY <1>3, <1>4 DEF Typed
<1>5. \/ keyboard_buffer' \in {keyboard_buffer, NUL}
      \/ Typed(keyboard_buffer)' /\ keyboard_buffer'.n = Len(typed) + 1
  <2>1. CASE key \in {"shift", "unshift", "left", "right"}
    <3>1. keyboard_buffer' = keyboard_buffer  BY <2>1 DEF keyboard_isr
    <3> QED  BY <3>1
  <2>2. CASE key = "dead"
    <3>1. keyboard_buffer' = NUL  BY <2>2 DEF keyboard_isr, Mapped
    <3> QED  BY <3>1
  <2>3. CASE key \in {"x", "newline", "backspace", "tab"}
    <3> DEFINE c == IF key = "x" /\ shift_pressed THEN "X" ELSE key
    <3>1. keyboard_buffer' = Char(c, Len(typed) + 1)  BY <2>3 DEF keyboard_isr, Mapped
    <3>2. (key = "x" => c = "x" \/ c = "X") /\ (key # "x" => c = key)  OBVIOUS
    <3> HIDE DEF c
    <3>3. \/ key = "x" /\ c \in {"x", "X"}
          \/ key = c /\ c \in {"newline", "backspace", "tab"}
      BY <2>3, <3>2
    <3>4. c \in {"x", "X", "newline", "backspace", "tab"}  BY <3>3
    <3>5. keyboard_buffer' = [c |-> c, n |-> Len(typed) + 1]  BY <3>1 DEF Char
    <3>6. keyboard_buffer' \in KeyChars /\ keyboard_buffer'.n = Len(typed) + 1
          /\ keyboard_buffer'.c = c
      BY <1>3, <3>4, <3>5 DEF KeyChars
    <3> QED  BY <1>3, <3>3, <3>6 DEF Typed
  <2> QED  BY <2>1, <2>2, <2>3 DEF Keys
<1>6. NUL' = NUL  BY DEF NUL, Char
<1>7. KeysInOrder'
  <2>1. keyboard_buffer' # NUL => Typed(keyboard_buffer)' /\ taken < keyboard_buffer'.n
    BY <1>2, <1>3, <1>4, <1>5 DEF KeysInOrder
  <2>2. pc = "input" /\ buffen # NUL => Typed(buffen)' /\ taken < buffen.n
    BY <1>1, <1>2, <1>4 DEF KeysInOrder
  <2>3. pc = "input" /\ buffen # NUL /\ keyboard_buffer' # NUL => buffen.n < keyboard_buffer'.n
    BY <1>2, <1>3, <1>4, <1>5 DEF KeysInOrder
  <2> QED  BY <1>1, <1>6, <2>1, <2>2, <2>3 DEF KeysInOrder
<1>8. NewlineEndsLine'  BY <1>1, <1>2 DEF NewlineEndsLine
<1>9. LineTyped' = LineTyped  BY <1>1, <1>2, <1>8, LineOpen, LineOpenNext
<1> QED  BY <1>1, <1>2, <1>3, <1>7, <1>8, <1>9 DEF LineInv, Line!Type

\* What the loop does besides taking a character leaves the keys and the line alone.
LEMMA OthersStutter ==
  ASSUME LineInv,
         \/ keyboard_state_activate \/ PrintPrompt \/ draw_cursor \/ get_keyboard_buffer
         \/ Echo \/ cmdHandler \/ EchoNewline
  PROVE  LineInv' /\ UNCHANGED <<typed, taken, LineTyped>>
<1>1. /\ typed \in Seq(Keys) /\ taken \in 0 .. Len(typed) /\ KeysInOrder /\ NewlineEndsLine
  BY DEF LineInv
<1>2. UNCHANGED <<typed, taken>>
  BY DEF keyboard_state_activate, PrintPrompt, draw_cursor, get_keyboard_buffer, Echo, cmdHandler,
         EchoNewline
<1>3. NUL' = NUL  BY DEF NUL, Char
<1>4. \/ UNCHANGED keyboard_buffer /\ pc' # "input"
      \/ pc' = "input" /\ keyboard_buffer' = NUL /\ buffen' = keyboard_buffer
  BY DEF keyboard_state_activate, PrintPrompt, draw_cursor, get_keyboard_buffer, Echo, cmdHandler,
         EchoNewline, keyboardVars, FlushedBuffer
<1>5. KeysInOrder'  BY <1>1, <1>2, <1>3, <1>4 DEF KeysInOrder, Typed
<1>6. \/ userBuffer' = userBuffer /\ pc # "command" /\ pc' \notin {"command", "activate", "newline"}
                                  /\ (pc' = "prompt" => userBuffer = <<>>)
      \/ userBuffer' = <<>> /\ pc \in {"activate", "command"} /\ pc' # "command"
  BY <1>1 DEF keyboard_state_activate, PrintPrompt, draw_cursor, get_keyboard_buffer, Echo,
              cmdHandler, EchoNewline, NewlineEndsLine
<1>7. <<>> \in Seq(KeyChars) /\ Len(<<>>) = 0  OBVIOUS
<1>8. NewlineEndsLine'
  <2>1. CASE /\ userBuffer' = userBuffer /\ pc # "command"
             /\ pc' \notin {"command", "activate", "newline"}
             /\ (pc' = "prompt" => userBuffer = <<>>)
    BY <1>1, <2>1 DEF NewlineEndsLine
  <2>2. CASE userBuffer' = <<>> /\ pc' # "command"
    <3>1. userBuffer' \in Seq(KeyChars) /\ \A k \in 1 .. Len(userBuffer') : FALSE  BY <1>7, <2>2
    <3> QED  BY <2>2, <3>1 DEF NewlineEndsLine
  <2> QED  BY <1>6, <2>1, <2>2
<1>9. LineTyped' = LineTyped
  BY <1>1, <1>6, <1>8, LineOpen, LineOpenNext, NumbersEmpty DEF NewlineEndsLine
<1> QED  BY <1>1, <1>2, <1>5, <1>8, <1>9 DEF LineInv

\* Taking a character edits the line as its key says; without one nothing changes.
LEMMA InputTakes ==
  ASSUME LineInv, inputChar
  PROVE  LineInv' /\ (Line!Take \/ UNCHANGED <<typed, taken, LineTyped>>)
<1>1. /\ typed \in Seq(Keys) /\ taken \in 0 .. Len(typed) /\ KeysInOrder /\ NewlineEndsLine
  BY DEF LineInv
<1>2. /\ pc = "input" /\ typed' = typed /\ keyboard_buffer' = keyboard_buffer /\ buffen' = buffen
  BY DEF inputChar, keyboardVars
<1>3. LineTyped = Numbers(userBuffer) /\ userBuffer \in Seq(KeyChars)
      /\ \A k \in 1 .. Len(userBuffer) : userBuffer[k].c # "newline"
  BY <1>1, <1>2, LineOpen DEF NewlineEndsLine
<1>4. NUL' = NUL  BY DEF NUL, Char
<1>5. CASE buffen = NUL
  <2>1. buffen.c = ""  BY <1>5 DEF NUL, Char
  <2>2. taken' = taken /\ pc' = "draw" /\ userBuffer' = userBuffer
    BY <1>5, <2>1 DEF inputChar, Printable
  <2>3. KeysInOrder'  BY <1>1, <1>2, <1>4, <2>2 DEF KeysInOrder, Typed
  <2>4. NewlineEndsLine'  BY <1>3, <2>2 DEF NewlineEndsLine
  <2>5. LineTyped' = LineTyped  BY <1>3, <2>2, <2>4, LineOpenNext
  <2> QED  BY <1>1, <1>2, <2>2, <2>3, <2>4, <2>5 DEF LineInv
<1>6. CASE buffen # NUL
  <2>1. Typed(buffen) /\ taken < buffen.n /\ taken' = buffen.n
        /\ (keyboard_buffer # NUL => buffen.n < keyboard_buffer.n)
    BY <1>1, <1>2, <1>6 DEF KeysInOrder, inputChar
  <2>2. buffen \in KeyChars /\ buffen.n \in 1 .. Len(typed)  BY <2>1 DEF Typed
  <2>3. pc' # "input"  BY DEF inputChar
  <2>4. KeysInOrder'  BY <1>1, <1>2, <1>4, <2>1, <2>3 DEF KeysInOrder, Typed
  <2>5. taken' \in 0 .. Len(typed)' /\ buffen.n \in taken + 1 .. Len(typed)
    BY <1>1, <1>2, <2>1, <2>2
  <2>6. NewlineEndsLine' /\ LineTyped' = Line!Edited(buffen.n)
    <3>1. CASE buffen.c = "newline"
      <4>1. userBuffer' = Append(userBuffer, buffen) /\ pc' = "command"
        BY <3>1 DEF inputChar, Printable
      <4>2. /\ userBuffer' \in Seq(KeyChars) /\ userBuffer' # <<>>
            /\ userBuffer'[Len(userBuffer')] = buffen
        BY <1>3, <2>2, <4>1
      <4>3. NewlineEndsLine'  BY <3>1, <4>1, <4>2 DEF NewlineEndsLine
      <4>4. typed[buffen.n] = "newline"  BY <2>1, <3>1 DEF Typed
      <4> QED  BY <4>1, <4>3, <4>4, LineOpenNext DEF Line!Edited
    <3>2. CASE buffen.c \in {"x", "X", "tab"}
      <4>1. userBuffer' = Append(userBuffer, buffen) /\ pc' = "echo"
        BY <3>2 DEF inputChar, Printable
      <4>2. /\ userBuffer' \in Seq(KeyChars) /\ Len(userBuffer') = Len(userBuffer) + 1
            /\ \A k \in 1 .. Len(userBuffer) : userBuffer'[k] = userBuffer[k]
            /\ userBuffer'[Len(userBuffer) + 1] = buffen
        BY <1>3, <2>2, <4>1
      <4>3. \A k \in 1 .. Len(userBuffer') : userBuffer'[k].c # "newline"
        BY <1>3, <3>2, <4>2
      <4>4. NewlineEndsLine'  BY <4>1, <4>2, <4>3 DEF NewlineEndsLine
      <4>5. typed[buffen.n] \in {"x", "tab"}  BY <2>1, <3>2 DEF Typed
      <4>6. LineTyped' = Append(LineTyped, buffen.n)
        BY <1>3, <2>2, <4>1, <4>4, LineOpenNext, NumbersAppend
      <4> QED  BY <4>4, <4>5, <4>6 DEF Line!Edited
    <3>3. CASE buffen.c = "backspace" /\ userBuffer # <<>>
      <4>1. userBuffer' = Front(userBuffer) /\ pc' = "echo"
        BY <3>3 DEF inputChar, Printable
      <4>2. /\ userBuffer' \in Seq(KeyChars) /\ Len(userBuffer') = Len(userBuffer) - 1
            /\ Len(userBuffer) \in Nat
            /\ \A k \in 1 .. Len(userBuffer) - 1 : userBuffer'[k] = userBuffer[k]
        BY <1>3, <3>3, <4>1, FrontOf
      <4>3. \A k \in 1 .. Len(userBuffer') : userBuffer'[k].c # "newline"
        BY <1>3, <4>2
      <4>4. NewlineEndsLine'  BY <4>1, <4>2, <4>3 DEF NewlineEndsLine
      <4>5. typed[buffen.n] = "backspace"  BY <2>1, <3>3 DEF Typed
      <4>6. LineTyped' = SubSeq(LineTyped, 1, Len(LineTyped) - 1)
        BY <1>3, <3>3, <4>1, <4>4, LineOpenNext, NumbersFront
      <4>7. LineTyped # <<>>
        <5>1. Len(Numbers(userBuffer)) = Len(userBuffer) /\ Len(userBuffer) # 0
          BY <1>3, <3>3, NumbersType, EmptySeq
        <5>2. Len(<<>>) = 0  OBVIOUS
        <5> QED  BY <1>3, <5>1, <5>2
      <4> QED  BY <4>4, <4>5, <4>6, <4>7 DEF Line!Edited
    <3>4. CASE buffen.c = "backspace" /\ userBuffer = <<>>
      <4>1. userBuffer' = userBuffer /\ pc' = "draw"  BY <3>4 DEF inputChar, Printable
      <4>2. NewlineEndsLine'  BY <1>3, <4>1 DEF NewlineEndsLine
      <4>3. typed[buffen.n] = "backspace"  BY <2>1, <3>4 DEF Typed
      <4>4. LineTyped' = LineTyped /\ LineTyped = <<>>
        BY <1>3, <3>4, <4>1, <4>2, LineOpenNext, NumbersEmpty
      <4> QED  BY <4>2, <4>3, <4>4 DEF Line!Edited
    <3> QED  BY <2>1, <3>1, <3>2, <3>3, <3>4 DEF Typed
  <2>7. Line!Take  BY <1>2, <2>1, <2>5, <2>6 DEF Line!Take
  <2> QED  BY <1>1, <1>2, <2>4, <2>5, <2>6, <2>7 DEF LineInv
<1> QED  BY <1>5, <1>6

\* Every step is one of the line editor's, or none of its business.
LEMMA LineSteps ==
  LineInv /\ [ConsoleNext]_consoleVars => LineInv' /\ [Line!Next]_Line!lineVars
<1> SUFFICES ASSUME LineInv, [ConsoleNext]_consoleVars
             PROVE  LineInv' /\ [Line!Next]_Line!lineVars
  OBVIOUS
<1>1. ASSUME NEW key \in Keys, keyboard_isr(key) PROVE LineInv' /\ Line!Type
  BY <1>1, KeyTypes
<1>2. CASE \/ keyboard_state_activate \/ PrintPrompt \/ draw_cursor \/ get_keyboard_buffer
           \/ Echo \/ cmdHandler \/ EchoNewline
  BY <1>2, OthersStutter DEF Line!lineVars
<1>3. CASE inputChar  BY <1>3, InputTakes DEF Line!Next, Line!lineVars
<1>4. CASE UNCHANGED consoleVars
  <2>1. UNCHANGED <<keyboard_buffer, userBuffer, buffen, pc, typed, taken>>
    BY <1>4 DEF consoleVars, keyboardVars, shellVars
  <2>2. LineInv'
    BY <2>1 DEF LineInv, KeysInOrder, NewlineEndsLine, Typed, NUL, Char
  <2>3. LineTyped' = LineTyped  BY <2>1 DEF LineTyped
  <2> QED  BY <2>1, <2>2, <2>3 DEF Line!lineVars
<1> QED  BY <1>1, <1>2, <1>3, <1>4 DEF ConsoleNext, Line!Next

\* Whatever the interrupt comes between, the line is made by keys in the order
\* they were typed, none of them twice (keyboard.c 60, 88; user-buffer.c).
THEOREM ConsoleImplementsLineEditor == ConsoleSpec => ImplementsLineEditor
<1>1. ConsoleInit => LineInv /\ Line!Init  BY LineStart
<1>2. LineInv /\ [ConsoleNext]_consoleVars => LineInv' /\ [Line!Next]_Line!lineVars
  BY LineSteps
<1> QED  BY <1>1, <1>2, PTL DEF ConsoleSpec, ImplementsLineEditor, Line!Spec

-----------------------------------------------------------------------------
(* Characters and cells *)

\* The character of a byte of zero is none that the frame does anything with.
LEMMA NulIs ==
  /\ NUL \in Chars /\ NUL.n = 0 /\ Cursor \in Chars
  /\ NUL.c \notin Printable \cup {"newline", "tab", "backspace", "|"}
<1>1. NUL.c \notin Printable \cup {"newline", "tab", "backspace", "|"}
  BY DEF NUL, Char, Printable
<1>2. NUL \in Chars /\ NUL.n = 0 /\ Cursor \in Chars
  BY ConsoleAssumption DEF NUL, Cursor, Char, Chars
<1> QED  BY <1>1, <1>2

\* What is shown for a character is a character.
LEMMA GlyphIs ==
  ASSUME NEW ch \in Chars
  PROVE  Glyph(ch) \in Chars
BY NulIs DEF Glyph

\* The cells are natural numbers.
LEMMA CellsAre == TEXT_SIZE \in Nat \ {0} /\ Cells \subseteq Nat /\ \A i \in Cells : i < TEXT_SIZE
BY ConsoleAssumption, SMT DEF TEXT_SIZE, Cells

\* The next tab stop is on the screen or at its end.
LEMMA TabStops ==
  ASSUME NEW pos \in Cells
  PROVE  next_tab_index(pos) \in pos + 1 .. TEXT_SIZE
<1>1. TEXT_SIZE % 4 = 0 /\ pos \in Nat /\ pos < TEXT_SIZE
  BY ConsoleAssumption, CellsAre
<1> QED  BY <1>1, CellsAre, SMT DEF next_tab_index

\* The next row is on the screen or at its end.
LEMMA RowStarts ==
  ASSUME NEW pos \in Cells
  PROVE  next_row_index(pos) \in pos + 1 .. TEXT_SIZE
<1>1. TEXT_WIDTH \in Nat \ {0} /\ TEXT_HEIGHT \in Nat \ {0}  BY ConsoleAssumption
<1>2. pos \in Nat /\ pos < TEXT_WIDTH * TEXT_HEIGHT  BY CellsAre DEF TEXT_SIZE
<1> DEFINE q == pos \div TEXT_WIDTH
<1>3. /\ q \in Nat /\ pos % TEXT_WIDTH \in 0 .. TEXT_WIDTH - 1
      /\ pos = TEXT_WIDTH * q + (pos % TEXT_WIDTH)
  BY <1>1, <1>2, DivMod
<1> HIDE DEF q
<1>4. q < TEXT_HEIGHT
  <2> SUFFICES ASSUME q >= TEXT_HEIGHT PROVE FALSE  BY <1>1, <1>3
  <2>1. TEXT_WIDTH * q >= TEXT_WIDTH * TEXT_HEIGHT  BY <1>1, <1>3, SMT
  <2> QED  BY <1>1, <1>2, <1>3, <2>1, SMT
<1>5. (q + 1) * TEXT_WIDTH = TEXT_WIDTH * q + TEXT_WIDTH /\ (q + 1) * TEXT_WIDTH \in Nat
  BY <1>1, <1>3, SMT
<1>6. (q + 1) * TEXT_WIDTH <= TEXT_WIDTH * TEXT_HEIGHT  BY <1>1, <1>3, <1>4, SMT
<1> QED
  BY <1>1, <1>2, <1>3, <1>5, <1>6, CellsAre DEF next_row_index, TEXT_SIZE, q

-----------------------------------------------------------------------------
(* The frame *)

Frames == [charBuffer : [Cells -> Chars], pos : -1 .. TEXT_SIZE, screen : [Cells -> Chars]]

\* From the cursor on the frame is empty, and what is before it is on the screen.
Clean(f) ==
  \A i \in Cells : /\ i >= f.pos => f.charBuffer[i] = NUL
                   /\ i # f.pos => f.screen[i] = Glyph(f.charBuffer[i])

\* g is f after a character: it has been put where the cursor was, or taken from where
\* the cursor comes to, and everything behind is empty as before.
Typing(f, g)  == g.pos > f.pos /\ \A i \in Cells \ {f.pos} : g.charBuffer[i] = f.charBuffer[i]
Erasing(f, g) ==
  /\ g.pos <= f.pos
  /\ \A i \in Cells \ {g.pos} : g.charBuffer[i] = f.charBuffer[i]
  /\ \A i \in Cells : i >= g.pos => g.charBuffer[i] = NUL

\* A character put in a cell, and the cursor somewhere.
CellSet(f, x, ch, p) == [f EXCEPT !.charBuffer[x] = ch, !.pos = p]

\* Putting a character in a cell changes that cell and the position.
LEMMA CellSetIs ==
  ASSUME NEW f \in Frames, NEW x \in Cells, NEW ch \in Chars, NEW p \in -1 .. TEXT_SIZE
  PROVE  /\ CellSet(f, x, ch, p) \in Frames /\ CellSet(f, x, ch, p).pos = p
         /\ CellSet(f, x, ch, p).screen = f.screen
         /\ \A i \in Cells : CellSet(f, x, ch, p).charBuffer[i] = IF i = x THEN ch ELSE f.charBuffer[i]
BY DEF Frames, CellSet

\* Storing a character puts it where the cursor is.
LEMMA StoredIs ==
  ASSUME NEW f \in Frames, f.pos \in Cells, NEW ch \in Chars, NEW p \in -1 .. TEXT_SIZE
  PROVE  /\ Stored(f, ch, p) \in Frames /\ Stored(f, ch, p).pos = p
         /\ Stored(f, ch, p).screen = f.screen
         /\ \A i \in Cells : Stored(f, ch, p).charBuffer[i] = IF i = f.pos THEN ch ELSE f.charBuffer[i]
BY DEF Frames, Stored

\* Backspace keeps the frame a frame; one that is empty from the cursor on stays so.
LEMMA BackspaceIs ==
  ASSUME NEW f \in Frames, f.pos \in Cells, NEW g, g = handle_backspace(f)
  PROVE  /\ g \in Frames /\ g.screen = f.screen
         /\ Clean(f) => g = f \/ Erasing(f, g)
<1>1. /\ f.charBuffer \in [Cells -> Chars] /\ f.pos \in Nat /\ f.pos < TEXT_SIZE
      /\ TEXT_SIZE \in Nat /\ Cells = 0 .. TEXT_SIZE - 1
  BY CellsAre DEF Frames, Cells
<1> DEFINE there == {i \in 0 .. f.pos : f.charBuffer[i] # NUL}
           last  == Max(there)
<1>2. CASE f.pos = 0
  BY <1>2 DEF handle_backspace
<1>3. CASE f.pos # 0 /\ f.charBuffer[f.pos - 1].c \in Printable
  <2>1. g = CellSet(f, f.pos - 1, NUL, f.pos - 1)
    BY <1>3 DEF handle_backspace, CellSet
  <2>2. f.pos - 1 \in Cells /\ f.pos - 1 \in -1 .. TEXT_SIZE
    BY <1>1, <1>3
  <2>3. /\ g \in Frames /\ g.screen = f.screen /\ g.pos = f.pos - 1
        /\ \A i \in Cells : g.charBuffer[i] = IF i = f.pos - 1 THEN NUL ELSE f.charBuffer[i]
    BY <2>1, <2>2, NulIs, CellSetIs
  <2>4. Clean(f) => Erasing(f, g)
    BY <1>1, <2>3 DEF Clean, Erasing
  <2> QED  BY <2>3, <2>4
<1>4. CASE f.pos # 0 /\ f.charBuffer[f.pos - 1].c \notin Printable /\ there = {}
  <2>1. g = [f EXCEPT !.pos = -1]
    BY <1>4 DEF handle_backspace
  <2>2. g \in Frames /\ g.screen = f.screen /\ g.pos = -1 /\ g.charBuffer = f.charBuffer
    BY <1>1, <2>1 DEF Frames
  <2>3. \A i \in Cells : i <= f.pos => f.charBuffer[i] = NUL
    BY <1>1, <1>4
  <2>4. Clean(f) => Erasing(f, g)
    BY <1>1, <2>2, <2>3 DEF Clean, Erasing
  <2> QED  BY <2>2, <2>4
<1>5. CASE f.pos # 0 /\ f.charBuffer[f.pos - 1].c \notin Printable /\ there # {}
  <2>1. last \in there /\ \A i \in there : i <= last
    BY <1>1, <1>5, MaxIsGreatest
  <2>2. g = IF f.charBuffer[last].c \in {"newline", "tab"}
            THEN [f EXCEPT !.charBuffer[last] = NUL, !.pos = last]
            ELSE [f EXCEPT !.pos = last + 1]
    BY <1>5 DEF handle_backspace
  <2> HIDE DEF last
  <2>3. /\ last \in Cells /\ last <= f.pos /\ f.charBuffer[last] # NUL
        /\ last \in -1 .. TEXT_SIZE /\ last + 1 \in -1 .. TEXT_SIZE /\ last \in Nat
    BY <1>1, <2>1
  <2>4. \A i \in Cells : i > last /\ i <= f.pos => f.charBuffer[i] = NUL
    BY <1>1, <2>1, <2>3
  <2>5. CASE f.charBuffer[last].c \in {"newline", "tab"}
    <3>1. g = CellSet(f, last, NUL, last)
      BY <2>2, <2>5 DEF CellSet
    <3>2. /\ g \in Frames /\ g.screen = f.screen /\ g.pos = last
          /\ \A i \in Cells : g.charBuffer[i] = IF i = last THEN NUL ELSE f.charBuffer[i]
      BY <2>3, <3>1, NulIs, CellSetIs
    <3>3. Clean(f) => Erasing(f, g)
      BY <1>1, <2>3, <2>4, <3>2 DEF Clean, Erasing
    <3> QED  BY <3>2, <3>3
  <2>6. CASE f.charBuffer[last].c \notin {"newline", "tab"}
    <3>1. g = [f EXCEPT !.pos = last + 1]
      BY <2>2, <2>6
    <3>2. /\ g \in Frames /\ g.screen = f.screen /\ g.pos = last + 1
          /\ g.charBuffer = f.charBuffer
      BY <2>3, <3>1 DEF Frames
    <3>3. Clean(f) => last < f.pos
      BY <1>1, <2>3 DEF Clean
    <3>4. Clean(f) => Erasing(f, g)
      BY <1>1, <2>3, <2>4, <3>2, <3>3 DEF Clean, Erasing
    <3> QED  BY <3>2, <3>4
  <2> QED  BY <2>5, <2>6
<1> QED  BY <1>2, <1>3, <1>4, <1>5

\* A character keeps the frame a frame, and types or erases if it does anything.
LEMMA KeyHandled ==
  ASSUME NEW f \in Frames, f.pos \in Cells, NEW ch \in Chars, NEW g, g = key_handler(f, ch)
  PROVE  /\ g \in Frames /\ g.screen = f.screen
         /\ Clean(f) => g = f \/ Typing(f, g) \/ Erasing(f, g)
<1>1. f.pos \in Nat /\ f.pos < TEXT_SIZE
  BY CellsAre
<1>2. ASSUME NEW p \in f.pos + 1 .. TEXT_SIZE, g = Stored(f, ch, p)
      PROVE  g \in Frames /\ g.screen = f.screen /\ Typing(f, g)
  <2>1. p \in -1 .. TEXT_SIZE /\ p > f.pos
    BY <1>1
  <2>2. /\ g \in Frames /\ g.screen = f.screen /\ g.pos = p
        /\ \A i \in Cells : g.charBuffer[i] = IF i = f.pos THEN ch ELSE f.charBuffer[i]
    BY <1>2, <2>1, StoredIs
  <2> QED  BY <2>1, <2>2 DEF Typing
<1>3. CASE ch.c = "newline"
  <2>1. g = Stored(f, ch, next_row_index(f.pos))
    BY <1>3 DEF key_handler, Printable
  <2> QED  BY <1>2, <2>1, RowStarts
<1>4. CASE ch.c = "tab"
  <2>1. g = Stored(f, ch, next_tab_index(f.pos))
    BY <1>4 DEF key_handler, Printable
  <2> QED  BY <1>2, <2>1, TabStops
<1>5. CASE ch.c = "backspace"
  <2>1. g = handle_backspace(f)
    BY <1>5 DEF key_handler, Printable
  <2> QED  BY <2>1, BackspaceIs
<1>6. CASE ch.c \in Printable
  <2>1. g = Stored(f, ch, f.pos + 1)
    BY <1>6 DEF key_handler, Printable
  <2>2. f.pos + 1 \in f.pos + 1 .. TEXT_SIZE
    BY <1>1, CellsAre
  <2> QED  BY <1>2, <2>1, <2>2
<1>7. CASE ch.c \notin Printable \cup {"newline", "tab", "backspace"}
  BY <1>7 DEF key_handler
<1> QED  BY <1>3, <1>4, <1>5, <1>6, <1>7

\* On the screen the frame is clean.
CleanOnScreen(f) == f.pos \in Cells => Clean(f)

\* A character that is put is handled, and drawn where the cursor passed.
LEMMA PutIs ==
  ASSUME NEW f \in Frames, NEW ch \in Chars, NEW g, g = putchar(f, ch)
  PROVE  /\ f.pos \notin Cells => g = f
         /\ f.pos \in Cells => /\ g.pos = key_handler(f, ch).pos
                               /\ g.charBuffer = key_handler(f, ch).charBuffer
         /\ g \in Frames
         /\ CleanOnScreen(f) => CleanOnScreen(g)
<1>1. CASE f.pos \notin Cells
  BY <1>1 DEF putchar
<1>2. CASE f.pos \in Cells
  <2> DEFINE h     == key_handler(f, ch)
             drawn == IF h.pos > f.pos THEN f.pos .. h.pos - 1 ELSE h.pos + 1 .. f.pos
             shown == [i \in Cells |-> IF i \in drawn THEN Glyph(h.charBuffer[i]) ELSE f.screen[i]]
  <2>1. g = [h EXCEPT !.screen = shown]
    BY <1>2 DEF putchar
  <2>2. /\ h \in Frames /\ h.screen = f.screen
        /\ Clean(f) => h = f \/ Typing(f, h) \/ Erasing(f, h)
    BY <1>2, KeyHandled
  <2> HIDE DEF h
  <2>3. h.charBuffer \in [Cells -> Chars] /\ f.screen \in [Cells -> Chars]
        /\ f.charBuffer \in [Cells -> Chars] /\ h.pos \in Int /\ f.pos \in Nat
    BY <1>2, <2>2, CellsAre DEF Frames
  <2>4. \A i \in Cells : (IF i \in drawn THEN Glyph(h.charBuffer[i]) ELSE f.screen[i]) \in Chars
    BY <2>3, GlyphIs
  <2>5. shown \in [Cells -> Chars]
    BY <2>4
  <2>6. \A i \in Cells : shown[i] = IF i \in drawn THEN Glyph(h.charBuffer[i]) ELSE f.screen[i]
    OBVIOUS
  <2> HIDE DEF shown
  <2>7. /\ g \in Frames /\ g.pos = h.pos /\ g.charBuffer = h.charBuffer /\ g.screen = shown
    BY <2>1, <2>2, <2>5 DEF Frames
  <2>8. ASSUME Clean(f), g.pos \in Cells PROVE Clean(g)
    <3> SUFFICES ASSUME NEW i \in Cells
                 PROVE  /\ i >= h.pos => h.charBuffer[i] = NUL
                        /\ i # h.pos => shown[i] = Glyph(h.charBuffer[i])
      BY <2>7 DEF Clean
    <3>1. i \in Nat
      BY CellsAre
    <3>2. i >= f.pos => f.charBuffer[i] = NUL
      BY <2>8 DEF Clean
    <3>3. i # f.pos => f.screen[i] = Glyph(f.charBuffer[i])
      BY <2>8 DEF Clean
    <3>4. CASE h = f
      BY <2>3, <2>6, <3>1, <3>2, <3>3, <3>4
    <3>5. CASE Typing(f, h)
      <4>1. h.pos > f.pos /\ (i # f.pos => h.charBuffer[i] = f.charBuffer[i])
        BY <3>5 DEF Typing
      <4> QED  BY <2>3, <2>6, <3>1, <3>2, <3>3, <4>1
    <3>6. CASE Erasing(f, h)
      <4>1. /\ h.pos <= f.pos /\ (i # h.pos => h.charBuffer[i] = f.charBuffer[i])
            /\ i >= h.pos => h.charBuffer[i] = NUL
        BY <3>6 DEF Erasing
      <4> QED  BY <2>3, <2>6, <3>1, <3>2, <3>3, <4>1
    <3> QED  BY <2>2, <2>8, <3>4, <3>5, <3>6
  <2> QED  BY <1>2, <2>7, <2>8 DEF CleanOnScreen, h
<1> QED  BY <1>1, <1>2

\* What programs print.
Printed == Printable \cup {"newline", "tab"}

\* It is made of characters.
LEMMA PrintedAre == \A c \in Printed : Char(c, 0) \in Chars
<1>1. 0 \in 0 .. MaxTyped
  BY ConsoleAssumption
<1> QED  BY <1>1, Zenon DEF Printed, Char, Chars

\* The frames of a text that is put, character by character.
PutsSteps(a, f, chars) ==
  /\ a[0] = f
  /\ \A k \in 0 .. Len(chars) - 1 : a[k + 1] = putchar(a[k], Char(chars[k + 1], 0))

\* A text is put character by character.
LEMMA PutsAre ==
  ASSUME NEW f \in Frames, NEW chars \in Seq(Printed)
  PROVE  \E a \in [0 .. Len(chars) -> Frames] :
           PutsSteps(a, f, chars) /\ puts(f, chars) = a[Len(chars)]
<1> DEFINE N == Len(chars)
           next(k, g) == IF k < N THEN putchar(g, Char(chars[k + 1], 0)) ELSE g
           F == [p \in (0 .. N) \X Frames |-> next(p[1], p[2])]
<1>1. N \in Nat /\ \A k \in 1 .. N : chars[k] \in Printed
  OBVIOUS
<1>2. \A k \in 1 .. N : Char(chars[k], 0) \in Chars
  BY <1>1, PrintedAre
<1>3. ASSUME NEW k \in 0 .. N, NEW g \in Frames PROVE next(k, g) \in Frames
  <2>1. CASE k < N
    <3>1. k + 1 \in 1 .. N
      BY <1>1, <2>1
    <3>2. Char(chars[k + 1], 0) \in Chars
      BY <1>2, <3>1
    <3>3. putchar(g, Char(chars[k + 1], 0)) \in Frames
      BY <3>2, PutIs
    <3> QED  BY <2>1, <3>3
  <2>2. CASE ~(k < N)
    BY <2>2
  <2> QED  BY <2>1, <2>2
<1>4. F \in StepMaps(N, Frames)
  <2> HIDE DEF next, N
  <2> QED  BY <1>3 DEF StepMaps
<1> HIDE DEF F
<1>5. PICK a \in [0 .. N -> Frames] : Iterates(a, N, f, F)
  <2> HIDE DEF N
  <2> QED  BY <1>1, <1>4, Iterated
<1>6. /\ a[0] = f
      /\ \A k \in 0 .. N - 1 : a[k + 1] = putchar(a[k], Char(chars[k + 1], 0))
  <2>1. a[0] = f /\ \A k \in 0 .. N - 1 : a[k + 1] = F[<<k, a[k]>>]
    BY <1>5 DEF Iterates
  <2>2. ASSUME NEW k \in 0 .. N - 1
        PROVE  F[<<k, a[k]>>] = putchar(a[k], Char(chars[k + 1], 0))
    <3>1. k \in 0 .. N /\ k < N /\ a[k] \in Frames
      BY <1>1, <1>5
    <3>2. F[<<k, a[k]>>] = next(k, a[k])
      <4> HIDE DEF next
      <4> QED  BY <3>1 DEF F
    <3> QED  BY <3>1, <3>2
  <2> QED  BY <2>1, <2>2
<1> DEFINE Rec(h) ==
             h = [k \in 0 .. N |-> IF k = 0 THEN f ELSE putchar(h[k - 1], Char(chars[k], 0))]
<1>7. Rec(a)
  <2>1. ASSUME NEW k \in 0 .. N
        PROVE  a[k] = IF k = 0 THEN f ELSE putchar(a[k - 1], Char(chars[k], 0))
    <3>1. CASE k = 0
      BY <1>6, <3>1
    <3>2. CASE k # 0
      <4>1. k - 1 \in 0 .. N - 1 /\ (k - 1) + 1 = k
        BY <1>1, <3>2
      <4> QED  BY <1>6, <3>2, <4>1
    <3> QED  BY <3>1, <3>2
  <2> HIDE DEF N
  <2> QED  BY <2>1
<1> DEFINE r == CHOOSE h : Rec(h)
<1>8. Rec(r)
  BY <1>7
<1>9. puts(f, chars) = r[N]
  BY DEF puts
<1> HIDE DEF r
<1>10. r[N] = a[N]
  <2> DEFINE E == {k \in 0 .. N : r[k] = a[k]}
  <2>1. \A k \in 0 .. N : r[k] = IF k = 0 THEN f ELSE putchar(r[k - 1], Char(chars[k], 0))
    <3> HIDE DEF N
    <3> QED  BY <1>8
  <2>2. 0 \in E
    BY <1>1, <1>6, <2>1
  <2>3. ASSUME NEW k \in 0 .. N - 1, k \in E PROVE k + 1 \in E
    <3>1. k + 1 \in 0 .. N /\ k + 1 # 0 /\ (k + 1) - 1 = k
      BY <1>1
    <3>2. r[k + 1] = putchar(r[k], Char(chars[k + 1], 0))
      BY <2>1, <3>1
    <3> QED  BY <1>6, <2>3, <3>1, <3>2
  <2>4. E \in SUBSET (0 .. N)
    OBVIOUS
  <2> HIDE DEF E, N
  <2>5. E = 0 .. N
    BY <1>1, <2>2, <2>3, <2>4, AllUpTo
  <2> QED  BY <1>1, <2>5 DEF E
<1> QED  BY <1>5, <1>6, <1>9, <1>10 DEF PutsSteps

\* Putting a text keeps the frame a frame, and clean.
LEMMA PutsKeep ==
  ASSUME NEW f \in Frames, NEW chars \in Seq(Printed)
  PROVE  /\ puts(f, chars) \in Frames
         /\ CleanOnScreen(f) => CleanOnScreen(puts(f, chars))
<1> DEFINE N == Len(chars)
<1>1. PICK a \in [0 .. N -> Frames] : PutsSteps(a, f, chars) /\ puts(f, chars) = a[N]
  BY PutsAre
<1>2. N \in Nat /\ \A k \in 1 .. N : Char(chars[k], 0) \in Chars
  <2>1. N \in Nat /\ \A k \in 1 .. N : chars[k] \in Printed
    OBVIOUS
  <2> QED  BY <2>1, PrintedAre
<1>3. ASSUME CleanOnScreen(f) PROVE CleanOnScreen(a[N])
  <2> DEFINE E == {k \in 0 .. N : CleanOnScreen(a[k])}
  <2>1. 0 \in E
    BY <1>1, <1>2, <1>3 DEF PutsSteps
  <2>2. ASSUME NEW k \in 0 .. N - 1, k \in E PROVE k + 1 \in E
    <3>1. k + 1 \in 0 .. N /\ k + 1 \in 1 .. N /\ a[k] \in Frames
      BY <1>1, <1>2
    <3>2. a[k + 1] = putchar(a[k], Char(chars[k + 1], 0)) /\ Char(chars[k + 1], 0) \in Chars
      BY <1>1, <1>2, <3>1 DEF PutsSteps
    <3> QED  BY <2>2, <3>1, <3>2, PutIs
  <2>3. E \in SUBSET (0 .. N)
    OBVIOUS
  <2> HIDE DEF E, N
  <2>4. E = 0 .. N
    BY <1>2, <2>1, <2>2, <2>3, AllUpTo
  <2> QED  BY <1>2, <2>4 DEF E
<1> QED  BY <1>1, <1>2, <1>3

\* Off the screen no text is put.
LEMMA PutsOffScreen ==
  ASSUME NEW f \in Frames, f.pos \notin Cells, NEW chars \in Seq(Printed)
  PROVE  puts(f, chars) = f
<1> DEFINE N == Len(chars)
<1>1. PICK a \in [0 .. N -> Frames] : PutsSteps(a, f, chars) /\ puts(f, chars) = a[N]
  BY PutsAre
<1>2. N \in Nat
  OBVIOUS
<1> DEFINE E == {k \in 0 .. N : a[k] = f}
<1>3. 0 \in E
  BY <1>1, <1>2 DEF PutsSteps
<1>4. ASSUME NEW k \in 0 .. N - 1, k \in E PROVE k + 1 \in E
  <2>1. k + 1 \in 0 .. N /\ a[k] = f
    BY <1>2, <1>4
  <2>2. a[k + 1] = putchar(f, Char(chars[k + 1], 0))
    BY <1>1, <2>1 DEF PutsSteps
  <2> QED  BY <2>1, <2>2 DEF putchar
<1>5. E \in SUBSET (0 .. N)
  OBVIOUS
<1> HIDE DEF E, N
<1>6. E = 0 .. N
  BY <1>2, <1>3, <1>4, <1>5, AllUpTo
<1> QED  BY <1>1, <1>2, <1>6 DEF E

-----------------------------------------------------------------------------
(* The line in the frame *)

\* The first n characters of s stand before the cursor.
Shows(f, s, n) ==
  f.pos >= n /\ \A j \in 1 .. n : f.charBuffer[f.pos - n + j - 1] = s[j]

\* A printable character is stored.
LEMMA PrintableHandled ==
  ASSUME NEW f, NEW ch, ch.c \in Printable
  PROVE  key_handler(f, ch) = Stored(f, ch, f.pos + 1)
BY DEF key_handler, Printable

\* A printable character that is put stands behind what stood before the cursor.
LEMMA PutShows ==
  ASSUME NEW f \in Frames, f.pos \in Cells, NEW s, NEW n \in Nat, Shows(f, s, n),
         s[n + 1] \in Chars, s[n + 1].c \in Printable, NEW g, g = putchar(f, s[n + 1])
  PROVE  Shows(g, s, n + 1)
<1> DEFINE ch == s[n + 1]
<1>0. ch \in Chars /\ ch.c \in Printable /\ g = putchar(f, ch)
  OBVIOUS
<1> HIDE DEF ch
<1>1. key_handler(f, ch) = Stored(f, ch, f.pos + 1)
  BY <1>0, PrintableHandled
<1>2. f.pos \in Nat /\ f.pos < TEXT_SIZE /\ TEXT_SIZE \in Nat /\ f.pos + 1 \in -1 .. TEXT_SIZE
  <2>1. f.pos \in Nat /\ f.pos < TEXT_SIZE /\ TEXT_SIZE \in Nat
    BY CellsAre
  <2> QED  BY <2>1
<1>3. /\ g.pos = key_handler(f, ch).pos
      /\ g.charBuffer = key_handler(f, ch).charBuffer
  BY <1>0, PutIs
<1>4. /\ g.pos = f.pos + 1
      /\ \A i \in Cells : g.charBuffer[i] = IF i = f.pos THEN ch ELSE f.charBuffer[i]
  BY <1>0, <1>1, <1>2, <1>3, StoredIs
<1>5. f.pos >= n /\ \A j \in 1 .. n : f.charBuffer[f.pos - n + j - 1] = s[j]
  BY DEF Shows
<1>6. ASSUME NEW j \in 1 .. n + 1 PROVE g.charBuffer[g.pos - (n + 1) + j - 1] = s[j]
  <2>1. CASE j = n + 1
    <3>1. g.pos - (n + 1) + j - 1 = f.pos
      <4>1. g.pos = f.pos + 1 /\ j = n + 1 /\ f.pos \in Nat /\ n \in Nat
        BY <1>2, <1>4, <2>1
      <4> QED  BY <4>1
    <3> QED  BY <1>4, <2>1, <3>1 DEF ch
  <2>2. CASE j # n + 1
    <3>1. j \in 1 .. n /\ g.pos - (n + 1) + j - 1 = f.pos - n + j - 1
      BY <1>2, <1>4, <2>2
    <3>2. f.pos - n + j - 1 \in Cells /\ f.pos - n + j - 1 # f.pos
      BY <1>2, <1>5, <3>1 DEF Cells
    <3> QED  BY <1>4, <1>5, <3>1, <3>2
  <2> QED  BY <2>1, <2>2
<1> QED  BY <1>2, <1>4, <1>5, <1>6 DEF Shows

\* A printable character before the cursor, and what stands before it.
Erasable(f, s, n) ==
  /\ f.pos > n /\ f.charBuffer[f.pos - 1].c \in Printable
  /\ \A j \in 1 .. n : f.charBuffer[f.pos - n + j - 2] = s[j]

\* Backspace takes the character that stands before the cursor.
LEMMA EraseShows ==
  ASSUME NEW f \in Frames, f.pos \in Cells, NEW s, NEW n \in Nat, Erasable(f, s, n),
         NEW ch \in Chars, ch.c = "backspace", NEW g, g = putchar(f, ch)
  PROVE  Shows(g, s, n)
<1>1. key_handler(f, ch) = handle_backspace(f)
  BY DEF key_handler, Printable
<1>2. f.pos \in Nat /\ f.pos < TEXT_SIZE /\ TEXT_SIZE \in Nat /\ f.pos > n
  BY CellsAre DEF Erasable
<1>3. handle_backspace(f) = CellSet(f, f.pos - 1, NUL, f.pos - 1)
  BY <1>2 DEF handle_backspace, CellSet, Erasable
<1>4. /\ g.pos = f.pos - 1
      /\ \A i \in Cells : g.charBuffer[i] = IF i = f.pos - 1 THEN NUL ELSE f.charBuffer[i]
  <2>1. f.pos - 1 \in Cells /\ f.pos - 1 \in -1 .. TEXT_SIZE
    BY <1>2 DEF Cells
  <2>2. g.pos = handle_backspace(f).pos /\ g.charBuffer = handle_backspace(f).charBuffer
    BY <1>1, PutIs
  <2> DEFINE p == f.pos - 1
  <2> HIDE DEF p
  <2>3. p \in Cells /\ p \in -1 .. TEXT_SIZE /\ NUL \in Chars
    BY <2>1, NulIs DEF p
  <2>4. /\ CellSet(f, p, NUL, p).pos = p
        /\ \A i \in Cells : CellSet(f, p, NUL, p).charBuffer[i] = IF i = p THEN NUL ELSE f.charBuffer[i]
    BY <2>3, CellSetIs
  <2> QED  BY <1>3, <2>2, <2>4 DEF p
<1>5. ASSUME NEW j \in 1 .. n PROVE g.charBuffer[g.pos - n + j - 1] = s[j]
  <2>1. g.pos - n + j - 1 = f.pos - n + j - 2
    BY <1>2, <1>4
  <2>2. f.pos - n + j - 2 \in Cells /\ f.pos - n + j - 2 # f.pos - 1
    BY <1>2 DEF Cells
  <2> QED  BY <1>4, <2>1, <2>2 DEF Erasable
<1> QED  BY <1>2, <1>4, <1>5 DEF Shows

\* The characters of the prompt.
PromptChars == [k \in DOMAIN Prompt |-> Char(Prompt[k], 0)]

\* They are printable.
LEMMA PromptIs ==
  /\ Prompt \in Seq(Printed) /\ PromptChars \in Seq(Chars) /\ Len(PromptChars) = Len(Prompt)
  /\ \A k \in 1 .. Len(Prompt) : /\ PromptChars[k] = Char(Prompt[k], 0)
                                 /\ PromptChars[k] \in Chars /\ PromptChars[k].c \in Printable
<1>1. Prompt \in Seq(Printable)
  BY ConsoleAssumption
<1>2. \A k \in 1 .. Len(Prompt) : Prompt[k] \in Printable /\ Prompt[k] \in Printed
  BY <1>1 DEF Printed
<1>3. \A k \in 1 .. Len(Prompt) : Char(Prompt[k], 0) \in Chars /\ Char(Prompt[k], 0).c = Prompt[k]
  BY <1>2, PrintedAre DEF Char
<1>4. Len(Prompt) \in Nat /\ DOMAIN Prompt = 1 .. Len(Prompt)
  BY <1>1
<1>5. Prompt \in Seq(Printed)
  BY <1>1, <1>2, <1>4
<1>6. PromptChars = [k \in 1 .. Len(Prompt) |-> Char(Prompt[k], 0)]
  BY <1>4 DEF PromptChars
<1>7. PromptChars \in [1 .. Len(Prompt) -> Chars]
  BY <1>3, <1>6
<1>8. PromptChars \in Seq(Chars) /\ Len(PromptChars) = Len(Prompt)
  <2>1. PromptChars \in Seq(Chars)
    BY <1>4, <1>7
  <2>2. DOMAIN PromptChars = 1 .. Len(PromptChars) /\ Len(PromptChars) \in Nat
    BY <2>1
  <2>3. Len(PromptChars) = Len(Prompt)
    BY <1>4, <1>6, <2>1, <2>2
  <2> QED  BY <2>1, <2>3
<1> QED  BY <1>2, <1>3, <1>5, <1>6, <1>8

\* The prompt that is put stands before the cursor.
LEMMA PromptShown ==
  ASSUME NEW f \in Frames, f.pos \in Cells, puts(f, Prompt).pos \in Cells
  PROVE  Shows(puts(f, Prompt), PromptChars, Len(Prompt))
<1> DEFINE N == Len(Prompt)
<1>1. PICK a \in [0 .. N -> Frames] : PutsSteps(a, f, Prompt) /\ puts(f, Prompt) = a[N]
  BY PromptIs, PutsAre
<1>2. N \in Nat
  BY PromptIs
<1> DEFINE E == {k \in 0 .. N : a[k].pos \in Cells => Shows(a[k], PromptChars, k)}
<1>3. 0 \in E
  <2>1. a[0] = f
    BY <1>1 DEF PutsSteps
  <2>2. f.pos \in Nat
    BY CellsAre
  <2>3. f.pos >= 0 /\ \A j \in 1 .. 0 : FALSE
    BY <2>2
  <2> QED  BY <1>2, <2>1, <2>3 DEF Shows
<1>4. ASSUME NEW k \in 0 .. N - 1, k \in E PROVE k + 1 \in E
  <2>1. k + 1 \in 0 .. N /\ k + 1 \in 1 .. N /\ a[k] \in Frames /\ k \in Nat
    BY <1>1, <1>2
  <2>2. a[k + 1] = putchar(a[k], PromptChars[k + 1])
    BY <1>1, <2>1, PromptIs DEF PutsSteps
  <2>3. PromptChars[k + 1] \in Chars /\ PromptChars[k + 1].c \in Printable
    BY <2>1, PromptIs
  <2>4. ASSUME a[k + 1].pos \in Cells PROVE Shows(a[k + 1], PromptChars, k + 1)
    <3>1. a[k].pos \in Cells
      BY <2>1, <2>2, <2>3, <2>4, PutIs
    <3>2. Shows(a[k], PromptChars, k)
      BY <1>4, <3>1
    <3> QED  BY <2>1, <2>2, <2>3, <3>1, <3>2, PutShows
  <2> QED  BY <2>1, <2>4
<1>5. E \in SUBSET (0 .. N)
  OBVIOUS
<1> HIDE DEF E, N
<1>6. E = 0 .. N
  BY <1>2, <1>3, <1>4, <1>5, AllUpTo
<1> QED  BY <1>1, <1>2, <1>6 DEF E, N

-----------------------------------------------------------------------------
(* The invariant of the frame *)

ConsoleTypes ==
  /\ shift_pressed \in BOOLEAN /\ keyboard_input_on \in BOOLEAN
  /\ keyboard_buffer \in Chars /\ buffen \in Chars
  /\ frame \in Frames
  /\ userBuffer \in Seq(Chars)
  /\ pc \in Steps
  /\ Len(typed) <= MaxTyped

\* What the shell means to have before the cursor.
Shown == PromptChars \o userBuffer

\* Prompt and line stand before the cursor; at an echo what it is to add or to take
\* makes the difference.
LineShown ==
  /\ pc \in {"draw", "fetch", "input", "echo"} =>
       \A k \in 1 .. Len(userBuffer) : userBuffer[k].c \in Printable
  /\ pc \in {"draw", "fetch", "input"} => Shows(frame, Shown, Len(Shown))
  /\ pc = "echo" =>
       \/ /\ buffen.c \in Printable
          /\ userBuffer # <<>> /\ userBuffer[Len(userBuffer)] = buffen
          /\ Shows(frame, Shown, Len(Shown) - 1)
       \/ /\ buffen.c = "backspace"
          /\ Erasable(frame, Shown, Len(Shown))

CursorDrawn == pc = "fetch" => frame.screen[frame.pos] \in {Cursor, NUL}

FrameInv == ConsoleTypes /\ (Plain => Clean(frame) /\ CursorDrawn /\ LineShown)

\* Prompt and line, and where each of their characters is.
LEMMA ShownIs ==
  ASSUME NEW s \in Seq(Chars)
  PROVE  /\ PromptChars \o s \in Seq(Chars) /\ Len(PromptChars \o s) = Len(Prompt) + Len(s)
         /\ Len(Prompt) \in Nat /\ Len(s) \in Nat
         /\ \A j \in 1 .. Len(Prompt) : (PromptChars \o s)[j] = PromptChars[j]
         /\ \A k \in 1 .. Len(s) : (PromptChars \o s)[Len(Prompt) + k] = s[k]
<1>1. /\ PromptChars \in Seq(Chars) /\ Len(PromptChars) = Len(Prompt) /\ Len(Prompt) \in Nat
      /\ Len(s) \in Nat
  BY PromptIs
<1>2. /\ PromptChars \o s \in Seq(Chars) /\ Len(PromptChars \o s) = Len(PromptChars) + Len(s)
      /\ \A j \in 1 .. Len(PromptChars) + Len(s) :
           (PromptChars \o s)[j] = IF j <= Len(PromptChars) THEN PromptChars[j]
                                   ELSE s[j - Len(PromptChars)]
  BY <1>1, ConcatProperties
<1>3. ASSUME NEW k \in 1 .. Len(s) PROVE (PromptChars \o s)[Len(Prompt) + k] = s[k]
  <2>1. Len(Prompt) + k \in 1 .. Len(PromptChars) + Len(s) /\ ~(Len(Prompt) + k <= Len(PromptChars))
        /\ (Len(Prompt) + k) - Len(PromptChars) = k
    BY <1>1
  <2> QED  BY <1>2, <2>1
<1>4. ASSUME NEW j \in 1 .. Len(Prompt) PROVE (PromptChars \o s)[j] = PromptChars[j]
  <2>1. j \in 1 .. Len(PromptChars) + Len(s) /\ j <= Len(PromptChars)
    BY <1>1
  <2> QED  BY <1>2, <2>1
<1> QED  BY <1>1, <1>2, <1>3, <1>4

\* A history that is plain now was plain before, and the cursor was on the screen.
LEMMA PlainEarlier ==
  ASSUME typed \in Seq(Keys), typed' = typed \/ \E key \in Keys : typed' = Append(typed, key),
         frame'.pos \in Cells => frame.pos \in Cells, Plain'
  PROVE  /\ Plain /\ frame.pos \in Cells /\ frame'.pos \in Cells
         /\ \A k \in 1 .. Len(typed') : typed'[k] \notin {"tab", "left", "right"}
<1>1. frame'.pos \in Cells /\ frame.pos \in Cells
  BY DEF Plain, Cells, TEXT_SIZE
<1>2. \A k \in DOMAIN typed' : typed'[k] \notin {"tab", "left", "right"}
  BY DEF Plain
<1>3. DOMAIN typed' = 1 .. Len(typed')
  BY DEF Plain
<1>4. \A k \in DOMAIN typed : k \in DOMAIN typed' /\ typed'[k] = typed[k]
  OBVIOUS
<1> QED  BY <1>1, <1>2, <1>3, <1>4 DEF Plain

\* The arrows keep the frame a frame.
LEMMA ArrowsAre ==
  ASSUME NEW f \in Frames, NEW g \in handle_left_arrow(f) \cup handle_right_arrow(f)
  PROVE  g \in Frames /\ (g.pos \in Cells => f.pos \in Cells)
<1>1. CASE f.pos \notin Cells
  BY <1>1 DEF handle_left_arrow, handle_right_arrow
<1>2. CASE f.pos \in Cells
  <2>1. f.pos \in Nat /\ f.pos < TEXT_SIZE /\ TEXT_SIZE \in Nat
    BY <1>2, CellsAre
  <2> DEFINE moved(x, p, ch) == [f EXCEPT !.pos = p, !.charBuffer[x] = ch, !.screen[x] = Glyph(ch)]
  <2>2. ASSUME NEW x \in Cells, NEW p \in -1 .. TEXT_SIZE, NEW ch \in Chars
        PROVE  moved(x, p, ch) \in Frames
    BY GlyphIs DEF Frames
  <2>3. ASSUME NEW p \in -1 .. TEXT_SIZE PROVE [f EXCEPT !.pos = p] \in Frames
    BY DEF Frames
  <2>4. \A i \in Cells : f.charBuffer[i] \in Chars
    BY DEF Frames
  <2>5. CASE g \in handle_left_arrow(f)
    <3> DEFINE to == f.pos - 1
    <3>1. \/ g = f
          \/ g = [f EXCEPT !.pos = to]
          \/ to \in Cells /\ g = moved(to + 1, to, f.charBuffer[to])
      BY <2>5 DEF handle_left_arrow
    <3>2. to \in -1 .. TEXT_SIZE /\ to + 1 \in Cells
      BY <1>2, <2>1
    <3> HIDE DEF to, moved
    <3> QED  BY <1>2, <2>2, <2>3, <2>4, <3>1, <3>2
  <2>6. CASE g \in handle_right_arrow(f)
    <3> DEFINE to == f.pos + 1
    <3>1. PICK ch \in At(f, to) :
            \/ g = f
            \/ g = moved(to - 1, to, ch)
      BY <2>6 DEF handle_right_arrow
    <3>2. Char("/", 0) \in Chars
      BY PrintedAre DEF Printed, Printable
    <3>3. ch \in Chars
      BY <2>4, <3>2, NulIs DEF At
    <3>4. to \in -1 .. TEXT_SIZE /\ to - 1 \in Cells
      BY <1>2, <2>1
    <3> HIDE DEF to, moved
    <3> QED  BY <1>2, <2>2, <3>1, <3>3, <3>4
  <2> QED  BY <2>5, <2>6
<1> QED  BY <1>1, <1>2

\* A key that comes leaves prompt and line in the frame.
LEMMA KeyKeepsFrame ==
  ASSUME LineInv, FrameInv, NEW key \in Keys, keyboard_isr(key)
  PROVE  FrameInv'
<1>1. /\ typed' = Append(typed, key) /\ Len(typed) < MaxTyped /\ typed \in Seq(Keys)
      /\ UNCHANGED <<keyboard_input_on, userBuffer, buffen, pc, taken>>
  BY DEF keyboard_isr, shellVars, LineInv
<1>2. Len(typed) + 1 \in 0 .. MaxTyped /\ Len(typed') = Len(typed) + 1
  BY <1>1, ConsoleAssumption
<1>3. keyboard_buffer' \in Chars
  <2>1. CASE key \in {"shift", "unshift", "left", "right"}
    BY <2>1 DEF keyboard_isr, FrameInv, ConsoleTypes
  <2>2. CASE key \notin {"shift", "unshift", "left", "right"}
    <3>1. keyboard_buffer' = Mapped(key)
      BY <2>2 DEF keyboard_isr
    <3>2. CASE key = "dead"
      BY <3>1, <3>2, NulIs DEF Mapped
    <3>3. CASE key \in {"x", "newline", "backspace", "tab"}
      <4> DEFINE c == IF key = "x" /\ shift_pressed THEN "X" ELSE key
      <4>1. keyboard_buffer' = Char(c, Len(typed) + 1)
        BY <3>1, <3>3 DEF Mapped
      <4>2. c \in {"x", "X", "newline", "backspace", "tab"}
        BY <3>3
      <4> HIDE DEF c
      <4>3. c \in Printable \cup {"", "newline", "tab", "backspace", "|"}
        BY <4>2, Zenon DEF Printable
      <4> QED  BY <1>2, <4>1, <4>3 DEF Char, Chars
    <3> QED  BY <2>2, <3>2, <3>3 DEF Keys
  <2> QED  BY <2>1, <2>2
<1>4. shift_pressed' \in BOOLEAN
  BY DEF keyboard_isr, FrameInv, ConsoleTypes
<1>5. frame' \in Frames /\ (frame'.pos \in Cells => frame.pos \in Cells)
  BY ArrowsAre DEF keyboard_isr, FrameInv, ConsoleTypes
<1>6. ConsoleTypes'
  BY <1>1, <1>2, <1>3, <1>4, <1>5 DEF FrameInv, ConsoleTypes
<1>7. ASSUME Plain' PROVE Clean(frame') /\ CursorDrawn' /\ LineShown'
  <2>1. /\ Plain /\ \A k \in 1 .. Len(typed') : typed'[k] \notin {"tab", "left", "right"}
    BY <1>1, <1>5, <1>7, PlainEarlier
  <2>2. key \notin {"left", "right"}
    <3>1. Len(typed') \in 1 .. Len(typed') /\ typed'[Len(typed')] = key
      BY <1>1, <1>2
    <3> QED  BY <2>1, <3>1
  <2>3. frame' = frame
    BY <2>2 DEF keyboard_isr
  <2> QED
    BY <1>1, <2>1, <2>3 DEF FrameInv, CursorDrawn, LineShown, Shown, Shows, Erasable
<1> QED  BY <1>6, <1>7 DEF FrameInv

\* What stands before the cursor is compared character by character.
LEMMA ShowsSame ==
  ASSUME NEW f, NEW s, NEW n \in Nat, Shows(f, s, n), NEW g, g.pos = f.pos,
         g.charBuffer = f.charBuffer, NEW t, \A j \in 1 .. n : t[j] = s[j]
  PROVE  Shows(g, t, n)
BY DEF Shows

\* The shell asks for the keyboard before anything is in the frame.
LEMMA ActivateKeepsFrame ==
  ASSUME LineInv, FrameInv, keyboard_state_activate
  PROVE  FrameInv'
<1>1. /\ UNCHANGED <<shift_pressed, keyboard_buffer, frame, buffen, taken, typed>>
      /\ keyboard_input_on' = TRUE /\ userBuffer' = <<>> /\ pc' = "prompt"
  BY DEF keyboard_state_activate
<1>2. ConsoleTypes'
  BY <1>1 DEF FrameInv, ConsoleTypes, Steps
<1>3. Plain' => Plain
  BY <1>1 DEF Plain
<1> QED  BY <1>1, <1>2, <1>3 DEF FrameInv, CursorDrawn, LineShown

\* The prompt is put where the cursor is.
LEMMA PromptKeepsFrame ==
  ASSUME LineInv, FrameInv, PrintPrompt
  PROVE  FrameInv'
<1>1. /\ UNCHANGED <<keyboardVars, userBuffer, buffen, taken, typed>>
      /\ pc = "prompt" /\ frame' = puts(frame, Prompt) /\ pc' = "draw"
  BY DEF PrintPrompt
<1>2. frame \in Frames /\ typed \in Seq(Keys) /\ userBuffer = <<>>
  BY <1>1 DEF FrameInv, ConsoleTypes, LineInv, NewlineEndsLine
<1>3. /\ frame' \in Frames
      /\ CleanOnScreen(frame) => CleanOnScreen(frame')
      /\ frame'.pos \in Cells => frame.pos \in Cells
  <2>1. CASE frame.pos \in Cells
    BY <1>1, <1>2, <2>1, PromptIs, PutsKeep
  <2>2. CASE frame.pos \notin Cells
    <3>1. frame' = frame
      BY <1>1, <1>2, <2>2, PromptIs, PutsOffScreen
    <3> QED  BY <1>2, <3>1
  <2> QED  BY <2>1, <2>2
<1>4. ConsoleTypes'
  BY <1>1, <1>3 DEF FrameInv, ConsoleTypes, Steps, keyboardVars
<1>5. ASSUME Plain' PROVE Clean(frame') /\ CursorDrawn' /\ LineShown'
  <2>1. Plain /\ frame.pos \in Cells /\ frame'.pos \in Cells
    BY <1>1, <1>2, <1>3, <1>5, PlainEarlier
  <2>2. Clean(frame')
    BY <1>3, <2>1 DEF FrameInv, CleanOnScreen
  <2>3. Shows(frame', PromptChars, Len(Prompt))
    BY <1>1, <1>2, <2>1, PromptShown
  <2>4. <<>> \in Seq(Chars) /\ Len(<<>>) = 0
    OBVIOUS
  <2>5. /\ Shown' = PromptChars \o <<>> /\ Len(PromptChars \o <<>>) = Len(Prompt)
        /\ Len(Prompt) \in Nat
        /\ \A j \in 1 .. Len(Prompt) : (PromptChars \o <<>>)[j] = PromptChars[j]
    <3> DEFINE s == userBuffer
    <3>1. Shown' = PromptChars \o s /\ s = <<>>
      BY <1>1, <1>2 DEF Shown
    <3>2. s \in Seq(Chars) /\ Len(s) = 0
      BY <2>4, <3>1
    <3> HIDE DEF s
    <3>3. /\ Len(PromptChars \o s) = Len(Prompt) + Len(s) /\ Len(Prompt) \in Nat
          /\ \A j \in 1 .. Len(Prompt) : (PromptChars \o s)[j] = PromptChars[j]
      BY <3>2, ShownIs
    <3> QED  BY <3>1, <3>2, <3>3
  <2>6. Shows(frame', Shown', Len(Shown'))
    BY <2>3, <2>5, ShowsSame
  <2>7. \A k \in 1 .. Len(userBuffer') : FALSE
    BY <1>1, <1>2, <2>4
  <2> QED  BY <1>1, <2>2, <2>6, <2>7 DEF CursorDrawn, LineShown
<1> QED  BY <1>4, <1>5 DEF FrameInv

\* Drawing the cursor changes what is on the screen in its place.
LEMMA DrawKeepsFrame ==
  ASSUME LineInv, FrameInv, draw_cursor
  PROVE  FrameInv'
<1>1. /\ UNCHANGED <<keyboardVars, userBuffer, buffen, taken, typed>>
      /\ pc = "draw" /\ pc' = "fetch"
  BY DEF draw_cursor
<1>2. frame \in Frames
  BY DEF FrameInv, ConsoleTypes
<1>3. /\ frame' \in Frames /\ frame'.pos = frame.pos /\ frame'.charBuffer = frame.charBuffer
      /\ \A i \in Cells : i # frame.pos => frame'.screen[i] = frame.screen[i]
      /\ frame.pos \in Cells => frame'.screen[frame.pos] \in {Cursor, NUL}
  <2>1. CASE frame.pos \notin Cells
    <3>1. frame' = frame
      BY <2>1 DEF draw_cursor
    <3> QED  BY <1>2, <2>1, <3>1
  <2>2. CASE frame.pos \in Cells
    <3>1. PICK glyph \in {Cursor, NUL} : frame' = [frame EXCEPT !.screen[frame.pos] = glyph]
      BY <2>2 DEF draw_cursor, CursorGlyphs
    <3>2. glyph \in Chars
      BY NulIs
    <3> QED  BY <1>2, <2>2, <3>1, <3>2 DEF Frames
  <2> QED  BY <2>1, <2>2
<1>4. ConsoleTypes'
  BY <1>1, <1>3 DEF FrameInv, ConsoleTypes, Steps, keyboardVars
<1>5. ASSUME Plain' PROVE Clean(frame') /\ CursorDrawn' /\ LineShown'
  <2>1. Plain /\ frame.pos \in Cells
    BY <1>1, <1>3, <1>5 DEF Plain, Cells, TEXT_SIZE
  <2>2. Clean(frame')
    BY <1>3, <2>1 DEF FrameInv, Clean
  <2>3. /\ \A k \in 1 .. Len(userBuffer) : userBuffer[k].c \in Printable
        /\ Shows(frame, Shown, Len(Shown))
    BY <1>1, <2>1 DEF FrameInv, LineShown
  <2>4. Shown' = Shown /\ Len(Shown) \in Nat
    <3>1. userBuffer \in Seq(Chars)
      BY DEF FrameInv, ConsoleTypes
    <3> QED  BY <1>1, <3>1, ShownIs DEF Shown
  <2>5. Shows(frame', Shown, Len(Shown))
    BY <1>3, <2>3, <2>4, ShowsSame
  <2> QED  BY <1>1, <1>3, <2>1, <2>2, <2>3, <2>4, <2>5 DEF CursorDrawn, LineShown
<1> QED  BY <1>4, <1>5 DEF FrameInv

\* Fetching a character does not touch the frame.
LEMMA FetchKeepsFrame ==
  ASSUME LineInv, FrameInv, get_keyboard_buffer
  PROVE  FrameInv'
<1>1. /\ UNCHANGED <<shift_pressed, keyboard_input_on, frame, userBuffer, taken, typed>>
      /\ pc = "fetch" /\ pc' = "input" /\ buffen' = keyboard_buffer /\ keyboard_buffer' = NUL
  BY DEF get_keyboard_buffer, FlushedBuffer
<1>2. ConsoleTypes'
  BY <1>1, NulIs DEF FrameInv, ConsoleTypes, Steps
<1>3. Plain' => Plain
  BY <1>1 DEF Plain
<1>4. LineShown => LineShown'
  BY <1>1 DEF LineShown, Shown
<1> QED  BY <1>1, <1>2, <1>3, <1>4 DEF FrameInv, CursorDrawn

\* A character that is taken is put in the line, or one taken from it, before the frame
\* shows it.
LEMMA InputKeepsFrame ==
  ASSUME LineInv, FrameInv, inputChar
  PROVE  FrameInv'
<1>1. /\ UNCHANGED <<keyboardVars, frame, buffen, typed>>
      /\ pc = "input"
  BY DEF inputChar
<1>2. /\ frame \in Frames /\ userBuffer \in Seq(Chars) /\ buffen \in Chars /\ typed \in Seq(Keys)
      /\ buffen # NUL => Typed(buffen)
  BY <1>1 DEF FrameInv, ConsoleTypes, LineInv, KeysInOrder
<1>3. \/ buffen.c = "newline" /\ userBuffer' = Append(userBuffer, buffen) /\ pc' = "command"
      \/ /\ buffen.c \in Printable \cup {"tab"}
         /\ userBuffer' = Append(userBuffer, buffen) /\ pc' = "echo"
      \/ /\ buffen.c = "backspace" /\ userBuffer # <<>>
         /\ userBuffer' = Front(userBuffer) /\ pc' = "echo"
      \/ pc' = "draw" /\ userBuffer' = userBuffer
  BY Zenon DEF inputChar, Printable
<1>4. /\ Len(userBuffer) \in Nat
      /\ Append(userBuffer, buffen) \in Seq(Chars)
      /\ Len(Append(userBuffer, buffen)) = Len(userBuffer) + 1
      /\ Append(userBuffer, buffen) # <<>>
      /\ Append(userBuffer, buffen)[Len(userBuffer) + 1] = buffen
      /\ \A k \in 1 .. Len(userBuffer) : Append(userBuffer, buffen)[k] = userBuffer[k]
  BY <1>2
<1>5. userBuffer # <<>> =>
        /\ Len(userBuffer) \in Nat \ {0} /\ Front(userBuffer) \in Seq(Chars)
        /\ Len(Front(userBuffer)) = Len(userBuffer) - 1
        /\ \A k \in 1 .. Len(userBuffer) - 1 : Front(userBuffer)[k] = userBuffer[k]
  BY <1>2, FrontOf
<1>6. userBuffer' \in Seq(Chars) /\ pc' \in Steps
  BY <1>2, <1>3, <1>4, <1>5 DEF Steps
<1>7. ConsoleTypes'
  BY <1>1, <1>6 DEF FrameInv, ConsoleTypes, keyboardVars
<1>8. ASSUME Plain' PROVE Clean(frame') /\ CursorDrawn' /\ LineShown'
  <2>1. /\ Plain /\ frame.pos \in Cells
        /\ \A k \in 1 .. Len(typed) : typed[k] \notin {"tab", "left", "right"}
    <3>1. frame'.pos \in Cells => frame.pos \in Cells
      BY <1>1
    <3> QED  BY <1>1, <1>2, <1>8, <3>1, PlainEarlier
  <2>2. /\ Clean(frame)
        /\ \A k \in 1 .. Len(userBuffer) : userBuffer[k].c \in Printable
        /\ Shows(frame, Shown, Len(Shown))
    BY <1>1, <2>1 DEF FrameInv, LineShown
  <2>3. /\ Len(Shown) = Len(Prompt) + Len(userBuffer) /\ Len(Shown) \in Nat
        /\ Len(Prompt) \in Nat
        /\ \A j \in 1 .. Len(Prompt) : Shown[j] = PromptChars[j]
        /\ \A k \in 1 .. Len(userBuffer) : Shown[Len(Prompt) + k] = userBuffer[k]
    BY <1>2, ShownIs DEF Shown
  <2>4. /\ Len(Shown') = Len(Prompt) + Len(userBuffer')
        /\ \A j \in 1 .. Len(Prompt) : Shown'[j] = PromptChars[j]
        /\ \A k \in 1 .. Len(userBuffer') : Shown'[Len(Prompt) + k] = userBuffer'[k]
    BY <1>6, ShownIs DEF Shown
  <2>5. CASE buffen.c = "newline" /\ userBuffer' = Append(userBuffer, buffen) /\ pc' = "command"
    BY <1>1, <2>2, <2>5 DEF CursorDrawn, LineShown
  <2>6. CASE /\ buffen.c \in Printable \cup {"tab"}
             /\ userBuffer' = Append(userBuffer, buffen) /\ pc' = "echo"
    <3>1. buffen.c \in Printable
      <4>1. buffen # NUL
        BY <2>6, NulIs
      <4>2. buffen.n \in 1 .. Len(typed) /\ (buffen.c = "tab" => typed[buffen.n] = "tab")
        BY <1>2, <4>1 DEF Typed
      <4> QED  BY <2>1, <2>6, <4>2
    <3>2. Len(Shown') - 1 = Len(Shown) /\ Len(userBuffer') = Len(userBuffer) + 1
      BY <1>4, <2>3, <2>4, <2>6
    <3>3. ASSUME NEW j \in 1 .. Len(Shown) PROVE Shown'[j] = Shown[j]
      <4>1. CASE j \in 1 .. Len(Prompt)
        BY <2>3, <2>4, <4>1
      <4>2. CASE j \notin 1 .. Len(Prompt)
        <5> DEFINE k == j - Len(Prompt)
        <5>1. k \in 1 .. Len(userBuffer) /\ Len(Prompt) + k = j /\ k \in 1 .. Len(userBuffer')
          BY <1>4, <2>3, <3>2, <4>2
        <5> HIDE DEF k
        <5>2. userBuffer'[k] = userBuffer[k]
          BY <1>4, <2>6, <5>1
        <5>3. Shown[Len(Prompt) + k] = userBuffer[k] /\ Shown'[Len(Prompt) + k] = userBuffer'[k]
          BY <2>3, <2>4, <5>1
        <5> QED  BY <5>1, <5>2, <5>3
      <4> QED  BY <4>1, <4>2
    <3>4. Shows(frame', Shown', Len(Shown') - 1)
      BY <1>1, <2>2, <2>3, <3>2, <3>3, ShowsSame
    <3>5. \A k \in 1 .. Len(userBuffer') : userBuffer'[k].c \in Printable
      <4> SUFFICES ASSUME NEW k \in 1 .. Len(userBuffer') PROVE userBuffer'[k].c \in Printable
        OBVIOUS
      <4>1. CASE k = Len(userBuffer) + 1
        BY <1>4, <2>6, <3>1, <4>1
      <4>2. CASE k # Len(userBuffer) + 1
        <5>1. k \in 1 .. Len(userBuffer)
          BY <1>4, <3>2, <4>2
        <5> QED  BY <1>4, <2>2, <2>6, <5>1
      <4> QED  BY <4>1, <4>2
    <3>6. userBuffer' # <<>> /\ userBuffer'[Len(userBuffer')] = buffen
      BY <1>4, <2>6, <3>2
    <3> QED  BY <1>1, <2>2, <2>6, <3>1, <3>4, <3>5, <3>6 DEF CursorDrawn, LineShown
  <2>7. CASE /\ buffen.c = "backspace" /\ userBuffer # <<>>
             /\ userBuffer' = Front(userBuffer) /\ pc' = "echo"
    <3>1. /\ Len(userBuffer) \in Nat \ {0} /\ Len(userBuffer') = Len(userBuffer) - 1
          /\ \A k \in 1 .. Len(userBuffer') : userBuffer'[k] = userBuffer[k]
          /\ Len(Shown) = Len(Shown') + 1 /\ Len(Shown') \in Nat
      <4>1. /\ Len(userBuffer) \in Nat \ {0} /\ Len(userBuffer') = Len(userBuffer) - 1
            /\ \A k \in 1 .. Len(userBuffer) - 1 : userBuffer'[k] = userBuffer[k]
        BY <1>5, <2>7
      <4>2. /\ Len(Shown) = Len(Prompt) + Len(userBuffer) /\ Len(Prompt) \in Nat
            /\ Len(Shown') = Len(Prompt) + Len(userBuffer')
        BY <2>3, <2>4
      <4>3. Len(Shown) = Len(Shown') + 1 /\ Len(Shown') \in Nat
        BY <4>1, <4>2
      <4> QED  BY <4>1, <4>3
    <3>2. ASSUME NEW j \in 1 .. Len(Shown') PROVE Shown'[j] = Shown[j]
      <4>1. CASE j \in 1 .. Len(Prompt)
        BY <2>3, <2>4, <4>1
      <4>2. CASE j \notin 1 .. Len(Prompt)
        <5> DEFINE k == j - Len(Prompt)
        <5>1. k \in 1 .. Len(userBuffer') /\ Len(Prompt) + k = j /\ k \in 1 .. Len(userBuffer)
          BY <2>3, <2>4, <3>1, <4>2
        <5> HIDE DEF k
        <5>2. userBuffer'[k] = userBuffer[k]
          BY <3>1, <5>1
        <5>3. Shown[Len(Prompt) + k] = userBuffer[k] /\ Shown'[Len(Prompt) + k] = userBuffer'[k]
          BY <2>3, <2>4, <5>1
        <5> QED  BY <5>1, <5>2, <5>3
      <4> QED  BY <4>1, <4>2
    <3>3. Erasable(frame, Shown', Len(Shown'))
      <4> DEFINE n == Len(Shown')
      <4>1. n \in Nat /\ Len(Shown) = n + 1
        BY <3>1
      <4>2. /\ frame.pos >= n + 1
            /\ \A j \in 1 .. n + 1 : frame.charBuffer[frame.pos - (n + 1) + j - 1] = Shown[j]
        BY <2>2, <4>1 DEF Shows
      <4>3. Shown[n + 1].c \in Printable
        <5>1. n + 1 = Len(Prompt) + Len(userBuffer) /\ Len(userBuffer) \in 1 .. Len(userBuffer)
          <6>1. Len(Shown) = Len(Prompt) + Len(userBuffer) /\ Len(userBuffer) \in Nat \ {0}
            BY <2>3, <3>1
          <6>2. Len(Shown) = n + 1
            BY <4>1
          <6> QED  BY <6>1, <6>2
        <5>2. Shown[n + 1] = userBuffer[Len(userBuffer)]
          BY <2>3, <5>1
        <5> QED  BY <2>2, <5>1, <5>2
      <4> HIDE DEF n
      <4>4. frame.pos \in Nat
        BY <2>1, CellsAre
      <4>5. frame.charBuffer[frame.pos - 1] = Shown[n + 1] /\ frame.pos > n
        <5>1. n + 1 \in 1 .. n + 1 /\ frame.pos - (n + 1) + (n + 1) - 1 = frame.pos - 1
          BY <4>1, <4>4
        <5> QED  BY <4>1, <4>2, <4>4, <5>1
      <4>6. ASSUME NEW j \in 1 .. n PROVE frame.charBuffer[frame.pos - n + j - 2] = Shown'[j]
        <5>1. j \in 1 .. n + 1 /\ frame.pos - (n + 1) + j - 1 = frame.pos - n + j - 2
          BY <4>1, <4>4
        <5>2. Shown'[j] = Shown[j]
          BY <3>2 DEF n
        <5> QED  BY <4>2, <5>1, <5>2
      <4> QED  BY <4>3, <4>5, <4>6 DEF Erasable, n
    <3>4. \A k \in 1 .. Len(userBuffer') : userBuffer'[k].c \in Printable
      BY <2>2, <3>1
    <3> QED  BY <1>1, <2>2, <2>7, <3>3, <3>4 DEF CursorDrawn, LineShown
  <2>8. CASE pc' = "draw" /\ userBuffer' = userBuffer
    <3>1. Shown' = Shown
      BY <2>8 DEF Shown
    <3> QED  BY <1>1, <2>2, <2>8, <3>1 DEF CursorDrawn, LineShown
  <2> QED  BY <1>3, <2>5, <2>6, <2>7, <2>8
<1> QED  BY <1>7, <1>8 DEF FrameInv

\* The echo makes the frame show what the line is.
LEMMA EchoKeepsFrame ==
  ASSUME LineInv, FrameInv, Echo
  PROVE  FrameInv'
<1> DEFINE ch == IF buffen.c = "tab" THEN NUL ELSE buffen
<1>1. /\ UNCHANGED <<keyboardVars, userBuffer, buffen, taken, typed>>
      /\ pc = "echo" /\ pc' = "draw" /\ frame' = putchar(frame, ch)
  BY DEF Echo
<1>2. /\ frame \in Frames /\ userBuffer \in Seq(Chars) /\ buffen \in Chars /\ typed \in Seq(Keys)
      /\ ch \in Chars
  BY NulIs DEF FrameInv, ConsoleTypes, LineInv
<1>3. /\ frame' \in Frames
      /\ CleanOnScreen(frame) => CleanOnScreen(frame')
      /\ frame.pos \notin Cells => frame' = frame
  <2> HIDE DEF ch
  <2> QED  BY <1>1, <1>2, PutIs
<1>4. ConsoleTypes'
  BY <1>1, <1>3 DEF FrameInv, ConsoleTypes, Steps, keyboardVars
<1>5. ASSUME Plain' PROVE Clean(frame') /\ CursorDrawn' /\ LineShown'
  <2>1. Plain /\ frame.pos \in Cells /\ frame'.pos \in Cells
    <3>1. frame'.pos \in Cells => frame.pos \in Cells
      BY <1>3
    <3> QED  BY <1>1, <1>2, <1>5, <3>1, PlainEarlier
  <2>2. Clean(frame')
    BY <1>3, <2>1 DEF FrameInv, CleanOnScreen
  <2>3. Shown' = Shown /\ Len(Shown) \in Nat /\ Len(Shown) = Len(Prompt) + Len(userBuffer)
        /\ Len(Prompt) \in Nat
        /\ \A k \in 1 .. Len(userBuffer) : Shown[Len(Prompt) + k] = userBuffer[k]
    BY <1>1, <1>2, ShownIs DEF Shown
  <2>4. /\ \A k \in 1 .. Len(userBuffer) : userBuffer[k].c \in Printable
        /\ \/ /\ buffen.c \in Printable
              /\ userBuffer # <<>> /\ userBuffer[Len(userBuffer)] = buffen
              /\ Shows(frame, Shown, Len(Shown) - 1)
           \/ buffen.c = "backspace" /\ Erasable(frame, Shown, Len(Shown))
    BY <1>1, <2>1 DEF FrameInv, LineShown
  <2>5. ch = buffen
    BY <2>4, Zenon DEF Printable
  <2> HIDE DEF ch
  <2>6. CASE /\ buffen.c \in Printable
             /\ userBuffer # <<>> /\ userBuffer[Len(userBuffer)] = buffen
             /\ Shows(frame, Shown, Len(Shown) - 1)
    <3> DEFINE n == Len(Shown) - 1
    <3>1. Len(userBuffer) \in Nat \ {0}
      BY <1>2, <2>6, EmptySeq
    <3>2. n \in Nat /\ n + 1 = Len(Shown) /\ n + 1 = Len(Prompt) + Len(userBuffer)
          /\ Len(userBuffer) \in 1 .. Len(userBuffer)
      BY <2>3, <3>1
    <3>3. Shows(frame, Shown, n)
      BY <2>6
    <3> HIDE DEF n
    <3>4. Shown[n + 1] = buffen
      BY <2>3, <2>6, <3>2
    <3>5. Shows(frame', Shown, n + 1)
      BY <1>1, <1>2, <2>1, <2>5, <2>6, <3>2, <3>3, <3>4, PutShows
    <3> QED  BY <1>1, <2>2, <2>3, <2>4, <3>2, <3>5 DEF CursorDrawn, LineShown
  <2>7. CASE buffen.c = "backspace" /\ Erasable(frame, Shown, Len(Shown))
    <3>1. Shows(frame', Shown, Len(Shown))
      BY <1>1, <1>2, <2>1, <2>3, <2>5, <2>7, EraseShows
    <3> QED  BY <1>1, <2>2, <2>3, <2>4, <3>1 DEF CursorDrawn, LineShown
  <2> QED  BY <2>4, <2>6, <2>7
<1> QED  BY <1>4, <1>5 DEF FrameInv

\* A command prints or clears; the line is gone.
LEMMA CommandKeepsFrame ==
  ASSUME LineInv, FrameInv, cmdHandler
  PROVE  FrameInv'
<1>1. /\ UNCHANGED <<keyboardVars, buffen, taken, typed>>
      /\ pc = "command" /\ pc' = "newline" /\ userBuffer' = <<>>
      /\ \/ frame' = frame
         \/ \E out \in Outputs : frame' = puts(frame, out)
         \/ frame' = Cleared
  BY DEF cmdHandler
<1>2. frame \in Frames /\ typed \in Seq(Keys)
  BY DEF FrameInv, ConsoleTypes, LineInv
<1>3. /\ frame' \in Frames
      /\ CleanOnScreen(frame) => CleanOnScreen(frame')
      /\ frame'.pos \in Cells => frame.pos \in Cells
  <2>1. CASE frame' = frame
    BY <1>2, <2>1
  <2>2. ASSUME NEW out \in Outputs, frame' = puts(frame, out)
        PROVE  /\ frame' \in Frames
               /\ CleanOnScreen(frame) => CleanOnScreen(frame')
               /\ frame'.pos \in Cells => frame.pos \in Cells
    <3>1. out \in Seq(Printed)
      BY ConsoleAssumption DEF Printed
    <3>2. CASE frame.pos \in Cells
      BY <1>2, <2>2, <3>1, <3>2, PutsKeep
    <3>3. CASE frame.pos \notin Cells
      <4>1. frame' = frame
        BY <1>2, <2>2, <3>1, <3>3, PutsOffScreen
      <4> QED  BY <1>2, <4>1
    <3> QED  BY <3>2, <3>3
  <2>3. CASE frame' = Cleared
    <3>1. CASE frame.pos \notin Cells
      BY <1>2, <2>3, <3>1 DEF Cleared
    <3>2. CASE frame.pos \in Cells
      <4>1. frame' = [charBuffer |-> [i \in Cells |-> NUL], pos |-> 0,
                      screen |-> [i \in Cells |-> NUL]]
        BY <2>3, <3>2 DEF Cleared
      <4>2. 0 \in -1 .. TEXT_SIZE
        BY CellsAre
      <4>3. Glyph(NUL) = NUL
        BY NulIs DEF Glyph
      <4>4. frame' \in Frames
        BY <4>1, <4>2, NulIs DEF Frames
      <4>5. Clean(frame')
        BY <4>1, <4>3 DEF Clean
      <4> QED  BY <3>2, <4>4, <4>5 DEF CleanOnScreen
    <3> QED  BY <3>1, <3>2
  <2> QED  BY <1>1, <2>1, <2>2, <2>3
<1>4. ConsoleTypes'
  BY <1>1, <1>3 DEF FrameInv, ConsoleTypes, Steps, keyboardVars
<1>5. ASSUME Plain' PROVE Clean(frame') /\ CursorDrawn' /\ LineShown'
  <2>1. Plain /\ frame.pos \in Cells /\ frame'.pos \in Cells
    BY <1>1, <1>2, <1>3, <1>5, PlainEarlier
  <2> QED  BY <1>1, <1>3, <2>1 DEF FrameInv, CleanOnScreen, CursorDrawn, LineShown
<1> QED  BY <1>4, <1>5 DEF FrameInv

\* After a command the next row is begun.
LEMMA NewlineKeepsFrame ==
  ASSUME LineInv, FrameInv, EchoNewline
  PROVE  FrameInv'
<1>1. /\ UNCHANGED <<keyboardVars, userBuffer, buffen, taken, typed>>
      /\ pc = "newline" /\ pc' = "prompt" /\ frame' = putchar(frame, Char("newline", 0))
  BY DEF EchoNewline
<1>2. /\ frame \in Frames /\ typed \in Seq(Keys) /\ Char("newline", 0) \in Chars
  BY PrintedAre DEF FrameInv, ConsoleTypes, LineInv, Printed
<1>3. /\ frame' \in Frames
      /\ CleanOnScreen(frame) => CleanOnScreen(frame')
      /\ frame.pos \notin Cells => frame' = frame
  BY <1>1, <1>2, PutIs
<1>4. ConsoleTypes'
  BY <1>1, <1>3 DEF FrameInv, ConsoleTypes, Steps, keyboardVars
<1>5. ASSUME Plain' PROVE Clean(frame') /\ CursorDrawn' /\ LineShown'
  <2>1. Plain /\ frame.pos \in Cells /\ frame'.pos \in Cells
    <3>1. frame'.pos \in Cells => frame.pos \in Cells
      BY <1>3
    <3> QED  BY <1>1, <1>2, <1>5, <3>1, PlainEarlier
  <2> QED  BY <1>1, <1>3, <2>1 DEF FrameInv, CleanOnScreen, CursorDrawn, LineShown
<1> QED  BY <1>4, <1>5 DEF FrameInv

\* An empty console has an empty frame.
LEMMA FrameStart == ConsoleInit => FrameInv
<1> SUFFICES ASSUME ConsoleInit PROVE FrameInv  OBVIOUS
<1>1. frame = [charBuffer |-> [i \in Cells |-> NUL], pos |-> 0, screen |-> [i \in Cells |-> NUL]]
      /\ typed = <<>> /\ userBuffer = <<>> /\ keyboard_buffer = NUL /\ buffen = NUL
      /\ shift_pressed = FALSE /\ keyboard_input_on = FALSE /\ pc = "activate"
  BY DEF ConsoleInit
<1>2. frame \in Frames
  <2>1. 0 \in -1 .. TEXT_SIZE
    BY CellsAre
  <2> QED  BY <1>1, <2>1, NulIs DEF Frames
<1>3. Len(typed) <= MaxTyped /\ userBuffer \in Seq(Chars)
  BY <1>1, ConsoleAssumption
<1>4. Clean(frame)
  <2>1. Glyph(NUL) = NUL
    BY NulIs DEF Glyph
  <2> QED  BY <1>1, <2>1 DEF Clean
<1> QED  BY <1>1, <1>2, <1>3, <1>4, NulIs DEF FrameInv, ConsoleTypes, Steps, CursorDrawn, LineShown

\* Every step keeps both invariants.
LEMMA FrameStep ==
  LineInv /\ FrameInv /\ [ConsoleNext]_consoleVars => FrameInv'
<1> SUFFICES ASSUME LineInv, FrameInv, [ConsoleNext]_consoleVars PROVE FrameInv'  OBVIOUS
<1>1. ASSUME NEW key \in Keys, keyboard_isr(key) PROVE FrameInv'
  BY <1>1, KeyKeepsFrame
<1>2. CASE UNCHANGED consoleVars
  BY <1>2 DEF consoleVars, keyboardVars, shellVars, FrameInv, ConsoleTypes, Plain, CursorDrawn,
     LineShown, Shown
<1> QED
  BY <1>1, <1>2, ActivateKeepsFrame, PromptKeepsFrame, DrawKeepsFrame, FetchKeepsFrame,
     InputKeepsFrame, EchoKeepsFrame, CommandKeepsFrame, NewlineKeepsFrame DEF ConsoleNext

\* They say what the run checks of types and screen.
LEMMA FrameIsConsoleInv == LineInv /\ FrameInv => ConsoleInv
<1> SUFFICES ASSUME LineInv, FrameInv PROVE ConsoleInv  OBVIOUS
<1>1. ConsoleTypeOK
  BY DEF LineInv, FrameInv, ConsoleTypes, Frames, ConsoleTypeOK
<1>2. ScreenShowsFrame
  BY DEF FrameInv, Clean, CursorDrawn, ScreenShowsFrame
<1> QED  BY <1>1, <1>2 DEF ConsoleInv

\* They say that prompt and line stand before the cursor.
LEMMA FrameIsLine == FrameInv => FrameShowsLine
<1> SUFFICES ASSUME FrameInv, Plain, pc \in {"draw", "fetch", "input"}
             PROVE  /\ frame.pos >= Len(Shown)
                    /\ \A k \in DOMAIN Shown : frame.charBuffer[frame.pos - Len(Shown) + k - 1] = Shown[k]
  BY DEF FrameShowsLine, Shown, PromptChars
<1>1. Shows(frame, Shown, Len(Shown))
  BY DEF FrameInv, LineShown
<1>2. DOMAIN Shown = 1 .. Len(Shown)
  <2>1. Shown \in Seq(Chars)
    BY ShownIs DEF Shown, FrameInv, ConsoleTypes
  <2> QED  BY <2>1
<1> QED  BY <1>1, <1>2 DEF Shows

\* Types, and that the screen shows what the frame holds (charframe.c 128, 146).
THEOREM ConsoleInvariant == ConsoleSpec => []ConsoleInv
BY LineStart, LineSteps, FrameStart, FrameStep, FrameIsConsoleInv, PTL DEF ConsoleSpec

\* Until the first tab or arrow and while the cursor is on the screen, prompt and line stand
\* before the cursor whenever the shell looks for input (charframe.c 51, user-buffer.c 139).
THEOREM ConsoleFrameShowsLine == ConsoleSpec => []FrameShowsLine
BY LineStart, LineSteps, FrameStart, FrameStep, FrameIsLine, PTL DEF ConsoleSpec
=============================================================================
