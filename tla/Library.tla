------------------------------ MODULE Library -------------------------------
(***************************************************************************)
(* The C library that lab4's kernel and processes share (lib.c) and its    *)
(* uses in process.c: the memory and string routines over a small memory,  *)
(* snprintf() into it, a process's panic() buffer, and the console.        *)
(* A byte is its unsigned value.                                           *)
(***************************************************************************)
EXTENDS Console, Printf

CONSTANTS
  MemSize,     \* bytes of memory
  Letters,     \* what they may hold at first, besides NUL
  Filler,      \* one of these, all over the memory snprintf() is called on
  Sizes,       \* sizes of snprintf()'s buffer, which starts at 1
  Widths, Precisions, Args,  \* directives and their arguments: words ...
  Strings      \* ... and strings

VARIABLES
  mem,         \* the memory
  call         \* the last call: function, arguments, result

libVars == <<mem, call>>
vars == <<libVars, consoleVars>>

Addr == 0 .. MemSize - 1
NoCall == [fn |-> "none"]

-----------------------------------------------------------------------------
\* Memory.

\* A loop that copies byte i for each i of order, in that order.
Copy(m, dst, src, order) ==
  FoldLeft(LAMBDA x, i : [x EXCEPT ![dst + i] = x[src + i]], m, order)

Upward(n)   == [i \in 1 .. n |-> i - 1]
Downward(n) == [i \in 1 .. n |-> n - i]

memcpy(m, dst, src, n) == Copy(m, dst, src, Upward(n))

\* From the end when the destination begins inside the source.
memmove(m, dst, src, n) ==
  IF src < dst /\ src + n > dst THEN Copy(m, dst, src, Downward(n))
  ELSE Copy(m, dst, src, Upward(n))

-----------------------------------------------------------------------------
\* Strings.  Those without a NUL are read past the memory, which no caller does.

Terminated(m, s) == \E i \in Addr : i >= s /\ m[i] = NUL

strlen(m, s) ==
  LET n[i \in Addr] == IF m[i] = NUL THEN 0 ELSE 1 + n[i + 1] IN n[s]

strnlen(m, s, maxlen) ==
  LET n[i \in 0 .. maxlen] ==
        IF i = maxlen THEN 0 ELSE IF m[s + i] = NUL THEN 0 ELSE 1 + n[i + 1]
  IN  n[0]

(* Mutant: characters are compared as signed.                                  *)
StrcmpSigned(m, a, b) ==
  LET signed(x) == IF x >= 128 THEN x - 256 ELSE x
      sign(x, y) == IF x > y THEN 1 ELSE IF x < y THEN -1 ELSE 0
      from[i \in 0 .. MemSize - 1] ==
        IF m[a + i] # NUL /\ m[b + i] # NUL /\ m[a + i] = m[b + i] THEN from[i + 1]
        ELSE sign(signed(m[a + i]), signed(m[b + i]))
  IN  from[0]

strcmp(m, a, b) ==
  LET sign(x, y) == IF x > y THEN 1 ELSE IF x < y THEN -1 ELSE 0
      from[i \in 0 .. MemSize - 1] ==
        IF m[a + i] # NUL /\ m[b + i] # NUL /\ m[a + i] = m[b + i] THEN from[i + 1]
        ELSE sign(m[a + i], m[b + i])
  IN  from[0]

\* The address found; -1 stands for NULL.
strchr(m, s, c) ==
  LET at[i \in Addr] == IF m[i] # NUL /\ m[i] # c THEN at[i + 1] ELSE i
  IN  IF m[at[s]] = c THEN at[s] ELSE -1

strcpy(m, dst, src) == Copy(m, dst, src, Upward(strlen(m, src) + 1))

-----------------------------------------------------------------------------
\* snprintf().

string_putc(sp, c) ==
  IF sp.s < sp.end THEN [sp EXCEPT !.mem[sp.s] = c, !.s = @ + 1] ELSE sp

(* Mutant: the buffer of size 0 is not told apart.                             *)
VsnprintfUnguarded(m, s, size, out) ==
  LET sp == FoldLeft(string_putc, [mem |-> m, s |-> s, end |-> s + size - 1], out)
  IN  [mem |-> [sp.mem EXCEPT ![sp.s] = NUL], ret |-> sp.s - s]

\* The memory after the call, and the result: characters written.
vsnprintf(m, s, size, out) ==
  LET sp == FoldLeft(string_putc, [mem |-> m, s |-> s, end |-> s + size - 1], out)
  IN  IF size = 0 THEN [mem |-> m, ret |-> 0]
      ELSE [mem |-> [sp.mem EXCEPT ![sp.s] = NUL], ret |-> sp.s - s]

\* process.c: the buffer of panic(), all of memory but the last byte.
BufSize == MemSize - 1

Header == PANIC \o Colon

Store(m, at, text) ==
  [i \in Addr |-> IF i \in at .. at + Len(text) - 1 THEN text[i - at + 1] ELSE m[i]]

\* The newline replaces the last character of a full buffer.
EndLine(m, len) ==
  IF m[len - 1] = NL THEN m
  ELSE Store(m, len - (IF len = BufSize - 1 THEN 1 ELSE 0), <<NL, NUL>>)

panic_buffer(m, out) ==
  LET body == vsnprintf(Store(m, 0, Header), Len(Header), BufSize - Len(Header), out)
  IN  EndLine(body.mem, body.ret + Len(Header))

-----------------------------------------------------------------------------
\* Calls.  Each is made on the memory the run starts with.

Called(record, m) ==
  /\ call' = record /\ mem' = m
  /\ UNCHANGED consoleVars

Within(a, n) == a + n <= MemSize

Disjoint(a, b, n) == a + n <= b \/ b + n <= a

Memcpy(dst, src, n) ==
  /\ Within(dst, n) /\ Within(src, n) /\ Disjoint(dst, src, n)
  /\ Called([fn |-> "move", dst |-> dst, src |-> src, n |-> n], memcpy(mem, dst, src, n))

Memmove(dst, src, n) ==
  /\ Within(dst, n) /\ Within(src, n)
  /\ Called([fn |-> "move", dst |-> dst, src |-> src, n |-> n], memmove(mem, dst, src, n))

Strcpy(dst, src) ==
  /\ Terminated(mem, src)
  /\ LET n == strlen(mem, src) + 1
     IN  /\ Within(dst, n) /\ Disjoint(dst, src, n)
         /\ Called([fn |-> "move", dst |-> dst, src |-> src, n |-> n],
                   strcpy(mem, dst, src))

\* Formatting does not read memory: one content will do, but not NUL, so that
\* each NUL stored, or not stored, shows.
ASSUME FillerAssumption == Filler \in Letters /\ Filler # NUL
Scratch == mem = [i \in Addr |-> Filler]

Snprintf(s, size, d, arg) ==
  /\ Within(s, size)
  /\ LET out == printer_vprintf(d, arg)
         v   == vsnprintf(mem, s, size, out)
     IN  Called([fn |-> "snprintf", s |-> s, size |-> size, d |-> d, arg |-> arg,
                 out |-> out, ret |-> v.ret], v.mem)

PanicBuffer(out) ==
  Called([fn |-> "panic", out |-> out], panic_buffer(mem, out))

Init ==
  /\ mem \in [Addr -> Letters \union {NUL}]
  /\ call = NoCall
  /\ ConsoleInit

MemoryCalls ==
  \/ \E dst, src \in Addr, n \in 0 .. MemSize : Memcpy(dst, src, n) \/ Memmove(dst, src, n)
  \/ \E dst, src \in Addr : Strcpy(dst, src)

FormatCalls ==
  \/ \E d \in Directives(Widths, Precisions), size \in Sizes :
       \E arg \in IF d.conv = "s" THEN Strings ELSE Args : Snprintf(1, size, d, arg)
  \/ \E n \in 0 .. MemSize + 1, end \in {<<>>, <<NL>>} : PanicBuffer(Times(65, n) \o end)

Next ==
  /\ call = NoCall
  /\ \/ ConsoleInit /\ (MemoryCalls \/ (Scratch /\ FormatCalls))
     \/ Scratch /\ ConsoleNext /\ UNCHANGED libVars

Spec == Init /\ [][Next]_vars

-----------------------------------------------------------------------------
\* Properties.

\* memcpy, memmove and strcpy put the bytes that were at the source, all of
\* them, at the destination, overlapping or not, and touch nothing else.
MovesWhole ==
  call'.fn = "move" =>
    mem' = [i \in Addr |->
              IF i \in call'.dst .. call'.dst + call'.n - 1
              THEN mem[call'.src + i - call'.dst] ELSE mem[i]]

\* The string at s, as a sequence.
String(m, s) == SubSeq([i \in 1 .. MemSize - s |-> m[s + i - 1]], 1, strlen(m, s))

\* a comes before b: the first place where they differ, the end of a string
\* being smaller than any character, and characters being unsigned.
Before(a, b) ==
  \E k \in 0 .. Len(a) :
    /\ k < Len(b) /\ SubSeq(a, 1, k) = SubSeq(b, 1, k)
    /\ IF k = Len(a) THEN TRUE ELSE a[k + 1] < b[k + 1]

\* The string routines read what a string is, up to its first NUL.
StringsRead ==
  call = NoCall =>
    \A s \in {x \in Addr : Terminated(mem, x)} :
      LET str == String(mem, s)
      IN  /\ NUL \notin Range(str) /\ mem[s + Len(str)] = NUL
          /\ \A k \in 0 .. MemSize - s :
               strnlen(mem, s, k) = IF k < Len(str) THEN k ELSE Len(str)
          /\ \A t \in {x \in Addr : Terminated(mem, x)} :
               /\ (strcmp(mem, s, t) = -1) <=> Before(str, String(mem, t))
               /\ (strcmp(mem, s, t) = 0) <=> str = String(mem, t)
          /\ \A c \in Letters \union {NUL} :
               IF c \in Range(str) \union {NUL}
               THEN /\ mem[strchr(mem, s, c)] = c
                    /\ \A i \in s .. strchr(mem, s, c) - 1 : mem[i] # c
               ELSE strchr(mem, s, c) = -1

\* snprintf() leaves a string in the buffer, the output or as much of its
\* beginning as the buffer holds, and nothing outside; for size 0, nothing.
SnprintfFits ==
  call'.fn = "snprintf" =>
    /\ \A i \in Addr : i \notin call'.s .. call'.s + call'.size - 1 => mem'[i] = mem[i]
    /\ call'.size > 0 =>
         LET text == UpTo(call'.out, call'.size - 1)
         IN  /\ call'.ret = Len(text) /\ mem'[call'.s + Len(text)] = NUL
             /\ \A i \in 1 .. Len(text) : mem'[call'.s + i - 1] = text[i]

\* The buffer of a process's panic() is a string that begins with the header,
\* ends its line, keeps what fits of the message, and stays inside the buffer.
PanicBufferHolds ==
  call'.fn = "panic" =>
    LET text == String(mem', 0)
    IN  /\ Terminated(mem', 0) /\ mem'[BufSize] = mem[BufSize]
        /\ Last(text) = NL /\ UpTo(text, Len(Header)) = Header
        /\ Len(text) < BufSize
        /\ Header \o UpTo(call'.out, Len(text) - Len(Header) - 1) = Front(text)

\* Copies, snprintf() and the panic buffer store what they should, to the last
\* byte and the NUL, and not one byte outside.
StoresExact == [][MovesWhole /\ SnprintfFits /\ PanicBufferHolds]_vars

DigitValue(c) == IF c >= 97 THEN c - 87 ELSE IF c >= 65 THEN c - 55 ELSE c - 48

IsDigit(c) == c \in 48 .. 57 \/ c \in 65 .. 70 \/ c \in 97 .. 102

\* A width widens, never cuts: the field has exactly the width, unless what is
\* printed without one is longer, and the filling is where the flags say.
FieldFilled ==
  call.fn = "snprintf" =>
    LET narrow == printer_vprintf([call.d EXCEPT !.width = -1], call.arg)
        n == Len(narrow)
    IN  /\ Len(call.out) = IF call.d.width > n THEN call.d.width ELSE n
        /\ "-" \in call.d.flags => UpTo(call.out, n) = narrow
        /\ "-" \notin call.d.flags /\ ("0" \notin call.d.flags \/ ~Numeric(call.d)) =>
             SubSeq(call.out, Len(call.out) - n + 1, Len(call.out)) = narrow

\* Whatever flags, width and precision do to a number, its digits read back as
\* the argument cut to its type's width, with a minus in front iff negative.
NumbersReadBack ==
  /\ FieldFilled
  /\ call.fn = "snprintf" /\ Numeric(call.d) =>
    LET digits == SelectSeq(call.out, IsDigit)
        read   == FoldLeft(LAMBDA acc, c : acc * Base(call.d) + DigitValue(c), 0, digits)
        value  == Value(call.d, call.arg)
    IN  /\ digits # <<>>
        /\ IF 45 \in Range(call.out) THEN read = -value /\ value < 0 ELSE read = value
=============================================================================
