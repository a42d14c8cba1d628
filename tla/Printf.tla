------------------------------- MODULE Printf -------------------------------
(***************************************************************************)
(* printer_vprintf() of lab4's lib.c: what one conversion directive prints *)
(* for its argument.  A directive is what the loop over the format string  *)
(* has read: flags, width, precision, the `l' or `z', the conversion.      *)
(* Characters are their codes, so that '\0' ends a string.                 *)
(***************************************************************************)
EXTENDS Integers, Sequences

CONSTANTS IntBits, LongBits, PtrBits   \* widths of int, long and pointers (32, 64, 64)

ASSUME WidthsAssumption ==
  /\ {IntBits, LongBits, PtrBits} \subseteq Nat \ {0}
  /\ IntBits <= LongBits /\ PtrBits <= LongBits

NUL   == 0
SPACE == 32

Flags == {"#", "0", "-", " ", "+"}
Conversions == {"d", "u", "x", "X", "p", "s", "c", "%"}

\* -1 stands for no width and no precision.  A width from an argument may be
\* negative, a precision is raised to 0.
Directives(widths, precisions) ==
  [flags : SUBSET Flags, width : widths, precision : precisions,
   long : BOOLEAN, conv : Conversions]

Numeric(d) == d.conv \in {"d", "u", "x", "X", "p"}
Base(d)    == IF d.conv \in {"x", "X", "p"} THEN 16 ELSE 10
Bits(d)    == IF d.conv = "p" THEN PtrBits ELSE IF d.long THEN LongBits ELSE IntBits

\* The argument's word read as d.conv reads it.
Value(d, word) ==
  LET bits == word % 2^Bits(d)
  IN  IF d.conv = "d" /\ bits >= 2^(Bits(d) - 1) THEN bits - 2^Bits(d) ELSE bits

\* The digits of val, most significant first; at least one.
fill_numbuf(base, upper) ==
  LET digit(x) == x + (IF x < 10 THEN 48 ELSE IF upper THEN 55 ELSE 87)
      digits[val \in Nat] ==
        IF val < base THEN <<digit(val)>>
        ELSE digits[val \div base] \o <<digit(val % base)>>
  IN  digits

(* Mutant: the digits of a negative number are those of its word.             *)
MagnitudeRaw(d, word) == word % 2^Bits(d)

\* `num': a negative number is negated, as an unsigned long.
Magnitude(d, word) ==
  IF Value(d, word) < 0 THEN -Value(d, word) ELSE Value(d, word)

UpTo(s, n) == SubSeq(s, 1, IF n < Len(s) THEN n ELSE Len(s))

\* `data': digits, the string, or the one character (none when it is '\0').
Data(d, arg) ==
  CASE Numeric(d) -> fill_numbuf(Base(d), d.conv = "X")[Magnitude(d, arg)]
    [] d.conv = "s" -> IF d.precision >= 0 THEN UpTo(arg, d.precision) ELSE arg
    [] d.conv = "c" -> LET c == arg % 256
                       IN  IF c = NUL \/ d.precision = 0 THEN <<>> ELSE <<c>>
    [] d.conv = "%" -> IF d.precision = 0 THEN <<>> ELSE <<37>>

Prefix(d, arg) ==
  CASE d.conv = "d" -> IF Value(d, arg) < 0 THEN <<45>>
                       ELSE IF "+" \in d.flags THEN <<43>>
                       ELSE IF " " \in d.flags THEN <<SPACE>> ELSE <<>>
    [] d.conv = "p" -> <<48, 120>>
    [] d.conv \in {"x", "X"} /\ "#" \in d.flags /\ Magnitude(d, arg) # 0 ->
         <<48, IF d.conv = "x" THEN 120 ELSE 88>>
    [] OTHER -> <<>>

Times(c, n) == [i \in 1 .. IF n > 0 THEN n ELSE 0 |-> c]

\* How many zeros stand between prefix and digits (if positive).
Zeros(d, arg) ==
  IF ~Numeric(d) THEN 0
  ELSE IF d.precision >= 0 THEN d.precision - Len(Data(d, arg))
  ELSE IF "0" \in d.flags /\ "-" \notin d.flags
       THEN d.width - Len(Data(d, arg)) - Len(Prefix(d, arg))
  ELSE 0

\* Everything the directive hands to p->putc, in order.
printer_vprintf(d, arg) ==
  LET body == Prefix(d, arg) \o Times(48, Zeros(d, arg)) \o Data(d, arg)
      pad  == Times(SPACE, d.width - Len(body))
  IN  IF "-" \in d.flags THEN body \o pad ELSE pad \o body
=============================================================================
