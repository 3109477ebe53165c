------------------------------ MODULE Strings ------------------------------
(***************************************************************************)
(* The library of string.c, working on a memory of a few bytes, and the    *)
(* functions of the shell that take lines, paths and file names apart      *)
(* (user-buffer.c, shell_cmd.c).  A string is what stands in memory from   *)
(* an address to the next zero, here the sequence of its bytes.            *)
(***************************************************************************)
EXTENDS Integers, SequencesExt

CONSTANTS Size,        \* bytes of the memory
          ByteValues,  \* what a byte of it holds
          Numbers,     \* what intToStr is given
          STRLEN_RANGE \* strlen returns a uint8_t: 256 in the build

Chars   == 0 .. 255
INT_MAX == 2147483647

ASSUME StringsAssumption ==
  /\ Size \in Nat \ {0}
  /\ ByteValues \subseteq Chars
  /\ Numbers \subseteq -INT_MAX - 1 .. INT_MAX
  /\ STRLEN_RANGE \in Nat \ {0}

VARIABLE memory

Addresses == 0 .. Size - 1

NUL   == 0
BLANK == 32 \* and newline and tab
DOT   == 46
SLASH == 47 \* and backslash

FirstDigit == 48

\* Is there a string at s, and what is it.
Terminated(m, s) == \E i \in s .. Size - 1 : m[i] = NUL

StringAt(m, s) ==
  [k \in 1 .. Min({i \in s .. Size - 1 : m[i] = NUL}) - s |-> m[s + k - 1]]

-----------------------------------------------------------------------------
(* string.c: memory *)

memset(m, s, c, n) == [i \in Addresses |-> IF i \in s .. s + n - 1 THEN c % 256 ELSE m[i]]

\* A byte after the other: a loop over the offsets in this order.
CopyBytes(m, dest, src, order) ==
  LET after[k \in 0 .. Len(order)] ==
        IF k = 0 THEN m
        ELSE LET before == after[k - 1] IN [before EXCEPT ![dest + order[k]] = before[src + order[k]]]
  IN  after[Len(order)]

Upwards(n) == [k \in 1 .. n |-> k - 1]

memcpy(m, dest, src, n) == CopyBytes(m, dest, src, Upwards(n))

memmove(m, dest, src, n) ==
  IF dest < src THEN CopyBytes(m, dest, src, Upwards(n))
  ELSE CopyBytes(m, dest, src, Reverse(Upwards(n)))

\* Of the first n bytes of two sequences.
memcmp(s1, s2, n) ==
  LET differ == {i \in 1 .. n : s1[i] # s2[i]}
  IN  IF differ = {} THEN 0 ELSE IF s1[Min(differ)] < s2[Min(differ)] THEN -1 ELSE 1

-----------------------------------------------------------------------------
(* string.c: strings *)

strlen(str) == Len(str) % STRLEN_RANGE

isStrEqual(str1, str2) == strlen(str1) = strlen(str2) /\ memcmp(str1, str2, strlen(str1)) = 0

\* Does copying the string at s2 to the end of the one at s1 ever meet its zero: it does
\* not if that is where the first byte goes.
CatEnds(m, s1, s2) == StringAt(m, s2) = <<>> \/ s1 + Len(StringAt(m, s1)) # s2 + Len(StringAt(m, s2))

strcat(m, s1, s2) ==
  LET end == s1 + Len(StringAt(m, s1))
      n   == Len(StringAt(m, s2))
  IN  [CopyBytes(m, end, s2, Upwards(n)) EXCEPT ![end + n] = NUL]

strToInt(str) == FoldLeft(LAMBDA res, c : res * 10 + (c - FirstDigit), 0, str)

\* The digits are found from the lowest on and then turned round; a negative number has none.
intToStr(num) ==
  LET digits[n \in Nat] == IF n = 0 THEN <<>> ELSE <<FirstDigit + (n % 10)>> \o digits[n \div 10]
  IN  IF num = 0 THEN <<FirstDigit>> ELSE IF num < 0 THEN <<>> ELSE Reverse(digits[num])

-----------------------------------------------------------------------------
(* user-buffer.c and shell_cmd.c *)

isBlank(c) == c \in {BLANK, NUL}

\* Seeded fault: blanks are not skipped.
Stay(m, readPointer) == readPointer

SkipBlanks(m, readPointer) == Min({i \in readPointer .. Size - 1 : ~isBlank(m[i]) \/ m[i] = NUL})

\* The next word of the line at address 0, and where the line is read on.
get_next_word(m, readPointer) ==
  LET first == SkipBlanks(m, readPointer)
      next  == Min({i \in first .. Size - 1 : isBlank(m[i])})
  IN  [currentWord |-> SubSeq([k \in 1 .. Size |-> m[k - 1]], first + 1, next), readPointer |-> next]

\* What cmdHandler reads in turn, until a word is empty.
WordsRead(m) ==
  LET from[rp \in Addresses] ==
        LET next == get_next_word(m, rp)
        IN  IF next.currentWord = <<>> THEN <<>> ELSE <<next.currentWord>> \o from[next.readPointer]
  IN  from[0]

\* The bytes before the first one of a set.
Before(str, stop) == SubSeq(str, 1, Min({i \in DOMAIN str : str[i] \in stop} \cup {Len(str) + 1}) - 1)

get_parent(path) == Before(path, {SLASH})

\* The path behind its first name.
Onward(path) == SubSeq(path, strlen(get_parent(path)) + 2, Len(path))

\* The folders get_final_parent_cluster looks up on the way, those get_deep_folder_cluster
\* does.
FoldersOnWay(path) ==
  LET way[p \in Seq(Chars)] ==
        IF isStrEqual(get_parent(p), p) THEN <<>> ELSE <<get_parent(p)>> \o way[Onward(p)]
  IN  way[path]

FoldersOfGoal(path) ==
  LET way[p \in Seq(Chars)] ==
        IF p = <<>> THEN <<>>
        ELSE IF isStrEqual(p, get_parent(p)) THEN <<p>> ELSE <<get_parent(p)>> \o way[Onward(p)]
  IN  way[path]

\* The string is followed by zeroes: the words the shell takes from a line are.
parse_filename(file) ==
  LET name == Before(SubSeq(file, 1, strlen(file)), {DOT})
  IN  [name |-> name,
       ext  |-> IF Len(name) = strlen(file) THEN <<>>
                ELSE SubSeq(file, Len(name) + 2, Min({Len(name) + 4, Len(file)}))]

\* The last name of a path, a slash at the end being skipped.
get_only_filename(path) ==
  LET candidate[p \in Seq(Chars)] ==
        LET rest == SubSeq(p, Len(get_parent(p)) + 2, Len(p))
        IN  IF rest = <<>> THEN get_parent(p) ELSE candidate[rest]
  IN  parse_filename(candidate[path])

-----------------------------------------------------------------------------
(* Any content of the memory: what lines were typed and what calls were made before *)

Cleared == [i \in Addresses |-> NUL] \* as reset_user_buffer leaves its memory

StringsInit == memory = Cleared

FillByte ==
  \E i \in Addresses, c \in ByteValues \ {NUL} :
    /\ \A k \in i .. Size - 1 : memory[k] = NUL
    /\ memory' = [memory EXCEPT ![i] = c]

StringsSpec == StringsInit /\ [][FillByte]_memory

-----------------------------------------------------------------------------
(* What they are for *)

\* The numbers of a set, the least first.
InOrder(S) ==
  [k \in 1 .. Cardinality(S) |-> CHOOSE i \in S : Cardinality({j \in S : j < i}) = k - 1]

\* The names between the slashes of a path.
NamesIn(path) ==
  LET cuts == InOrder({i \in DOMAIN path : path[i] = SLASH} \cup {0, Len(path) + 1})
  IN  [k \in 1 .. Len(cuts) - 1 |-> SubSeq(path, cuts[k] + 1, cuts[k + 1] - 1)]

\* The words of a line: where what is no blank begins, and all of it.
Beginnings(line) == {i \in DOMAIN line : line[i] # BLANK /\ (i > 1 => line[i - 1] = BLANK)}

Words(line) ==
  LET begins == InOrder(Beginnings(line))
      end(i) == Max({j \in i .. Len(line) : \A k \in i .. j : line[k] # BLANK})
  IN  [k \in 1 .. Len(begins) |-> SubSeq(line, begins[k], end(begins[k]))]

-----------------------------------------------------------------------------
(* Properties *)

Fits(s, n) == s + n <= Size

MemmoveCopies ==
  \A dest, src \in Addresses, n \in 0 .. Size :
    Fits(dest, n) /\ Fits(src, n) =>
      LET moved == [i \in Addresses |-> IF i \in dest .. dest + n - 1 THEN memory[src + (i - dest)]
                                        ELSE memory[i]]
      IN  /\ memmove(memory, dest, src, n) = moved
          /\ dest \notin src + 1 .. src + n - 1 => memcpy(memory, dest, src, n) = moved

CatAppends ==
  \A s1, s2 \in {s \in Addresses : Terminated(memory, s)} :
    \E a \in {StringAt(memory, s1)}, b \in {StringAt(memory, s2)} :
      CatEnds(memory, s1, s2) /\ Fits(s1, Len(a) + Len(b) + 1) =>
        \E m \in {strcat(memory, s1, s2)} :
          /\ Terminated(m, s1) /\ StringAt(m, s1) = a \o b
          /\ \A i \in Addresses \ (s1 + Len(a) .. s1 + Len(a) + Len(b)) : m[i] = memory[i]

\* However its ranges overlap, memmove leaves at the target what was at the source; memcpy
\* does where the target does not begin inside the source; and strcat makes the
\* concatenation, even where it runs into the string it appends.  Nothing else changes
\* (string.c 5-67).
CopiesWhole == MemmoveCopies /\ CatAppends

\* isStrEqual tells strings apart that are not as long as strlen can count, and never
\* an equal one from another; memcmp orders them (string.c 20-31, 47-72).
ComparesStrings ==
  \A s1, s2 \in {s \in Addresses : Terminated(memory, s)} :
    \E a \in {StringAt(memory, s1)}, b \in {StringAt(memory, s2)} :
      /\ a = b => isStrEqual(a, b)
      /\ Len(a) < STRLEN_RANGE /\ Len(b) < STRLEN_RANGE /\ isStrEqual(a, b) => a = b
      /\ \A n \in 0 .. Len(a) : n <= Len(b) => memcmp(a, b, n) + memcmp(b, a, n) = 0

\* The buffer is cleared before a line is typed into it.
WordsInOrder ==
  Terminated(memory, 0) =>
    \E line \in {StringAt(memory, 0)} :
      WordsRead(memset(memory, Len(line), NUL, Size - Len(line))) = Words(line)

\* The name of a file ends at its first dot, three bytes after it are the rest.
FileNamed(file, last) ==
  IF DOT \notin {last[k] : k \in DOMAIN last} THEN file = [name |-> last, ext |-> <<>>]
  ELSE /\ DOT \notin {file.name[k] : k \in DOMAIN file.name}
       /\ IsPrefix(file.name \o <<DOT>> \o file.ext, last)
       /\ Len(file.ext) < 3 => Len(last) = Len(file.name) + 1 + Len(file.ext)

PathsTakenApart ==
  \A s \in {a \in Addresses : Terminated(memory, a)} :
    \E path \in {StringAt(memory, s)} :
      /\ Len(path) <= STRLEN_RANGE
      /\ \A k \in DOMAIN NamesIn(path) : Len(NamesIn(path)[k]) \in 1 .. STRLEN_RANGE - 1
      =>
        /\ FoldersOnWay(path) = Front(NamesIn(path))
        /\ FoldersOfGoal(path) = NamesIn(path)
        /\ FileNamed(get_only_filename(path), Last(NamesIn(path)))

\* Nine digits always are a number that an int holds.
NumbersReadBack ==
  /\ \A num \in Numbers : num >= 0 => strToInt(intToStr(num)) = num
  /\ \A s \in {a \in Addresses : Terminated(memory, a)} :
       \E str \in {StringAt(memory, s)} :
         /\ \A k \in DOMAIN str : str[k] \in FirstDigit .. FirstDigit + 9
         /\ Len(str) \in 1 .. 9 /\ (str[1] = FirstDigit => Len(str) = 1)
         => intToStr(strToInt(str)) = str

\* The shell takes apart what is typed as it is meant: cmdHandler gets the words of a line
\* one by one, all of them and in order, however many blanks are between them
\* (user-buffer.c 26-38), compared with its commands and copied; a path without an empty
\* name, and not too long for strlen, is split at its slashes, by three functions that each
\* look for them anew (shell_cmd.c 16-113); and the pid that kill is given is the one ps
\* shows (string.c 74-105, user-buffer.c 106-109).
LineUnderstood ==
  CopiesWhole /\ ComparesStrings /\ WordsInOrder /\ PathsTakenApart /\ NumbersReadBack
=============================================================================
