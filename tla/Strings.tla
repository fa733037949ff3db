------------------------------ MODULE Strings ------------------------------
(***************************************************************************)
(* lib/string.c and lib/printfmt.c.  Memory m is a function from addresses *)
(* to character codes and a C string in it ends at a 0; where only the     *)
(* text matters it is a sequence of codes.  The width of a machine integer *)
(* and the size of a block are parameters, so that they can be small.      *)
(***************************************************************************)
EXTENDS Integers, Sequences, FiniteSets, FiniteSetsExt, SequencesExt

NUL == 0
TAB == 9
Space == 32
Percent == 37
Plus == 43
Minus == 45
Digit0 == 48
SmallA == 97
BigA == 65

Signed(x, bits) ==
  LET u == x % 2 ^ bits IN IF u >= 2 ^ (bits - 1) THEN u - 2 ^ bits ELSE u
-----------------------------------------------------------------------------
(* Strings in memory.                                                       *)

strnlen(m, s, size) == Min({n \in 0 .. size : n = size \/ m[s + n] = NUL})
strlen(m, s) == Min({n \in 0 .. Max(DOMAIN m) - s : m[s + n] = NUL})
Text(m, s) == [i \in 1 .. strlen(m, s) |-> m[s + i - 1]]

\* Byte by byte, upwards.
RECURSIVE CopyUp(_, _, _, _)
CopyUp(m, dst, src, n) ==
  IF n = 0 THEN m ELSE CopyUp([m EXCEPT ![dst] = m[src]], dst + 1, src + 1, n - 1)

RECURSIVE CopyDown(_, _, _, _)
CopyDown(m, dst, src, n) ==
  IF n = 0 THEN m ELSE CopyDown([m EXCEPT ![dst + n - 1] = m[src + n - 1]], dst, src, n - 1)

RECURSIVE strcpy(_, _, _)
strcpy(m, dst, src) ==
  LET m2 == [m EXCEPT ![dst] = m[src]]
  IN IF m[src] = NUL THEN m2 ELSE strcpy(m2, dst + 1, src + 1)

strncpy(m, dst, src, size) ==
  LET n == strnlen(m, src, size)
  IN [a \in DOMAIN m |-> IF a \in dst .. dst + size - 1
                         THEN IF a - dst < n THEN m[src + a - dst] ELSE NUL ELSE m[a]]

\* Mutant: the terminating 0 is not counted in size.
strlcpy_full(m, dst, src, size) ==
  LET n == strnlen(m, src, size)
  IN IF size = 0 THEN [m |-> m, ret |-> 0]
     ELSE [m |-> [CopyUp(m, dst, src, n) EXCEPT ![dst + n] = NUL], ret |-> n]

strlcpy(m, dst, src, size) ==
  IF size = 0 THEN [m |-> m, ret |-> 0]
  ELSE LET n == strnlen(m, src, size - 1)
       IN [m |-> [CopyUp(m, dst, src, n) EXCEPT ![dst + n] = NUL], ret |-> n]

\* Codes are unsigned: unsigned char.
RECURSIVE strcmp(_, _, _)
strcmp(m, p, q) ==
  IF m[p] # NUL /\ m[p] = m[q] THEN strcmp(m, p + 1, q + 1) ELSE m[p] - m[q]

RECURSIVE strncmp(_, _, _, _)
strncmp(m, p, q, n) ==
  IF n > 0 /\ m[p] # NUL /\ m[p] = m[q] THEN strncmp(m, p + 1, q + 1, n - 1)
  ELSE IF n = 0 THEN 0 ELSE m[p] - m[q]

strfind(m, s, c) == Min({a \in s .. s + strlen(m, s) : m[a] \in {c, NUL}})
\* -1 stands for the null pointer; the terminating 0 is never found.
strchr(m, s, c) == LET a == strfind(m, s, c) IN IF m[a] = NUL THEN -1 ELSE a

strcconcat(m, str1, str2, final) ==
  LET l1 == strlen(m, str1)  l2 == strlen(m, str2)
  IN [CopyUp(CopyUp(m, final, str1, l1), final + l1, str2, l2) EXCEPT ![final + l1 + l2] = NUL]

\* The terminating 0 is not copied.
str2lower(m, dst, src) ==
  LET n == strlen(m, src)
  IN [a \in DOMAIN m |->
        IF a \notin dst .. dst + n - 1 THEN m[a]
        ELSE LET c == m[src + a - dst] IN IF c \in BigA .. BigA + 25 THEN c + 32 ELSE c]
-----------------------------------------------------------------------------
(* Blocks of memory; w is the size of the blocks of memset and memcpy (8).  *)
(* memset is given a byte: the callers fill with 0.                         *)

memset(m, v, c, n, w) ==
  LET blocks == w * (n \div w)
  IN [a \in DOMAIN m |-> IF a \in v .. v + blocks - 1 \/ a \in v + blocks .. v + n - 1 THEN c ELSE m[a]]

\* A whole block is read before it is written.
RECURSIVE memcpy(_, _, _, _, _)
memcpy(m, dst, src, n, w) ==
  IF n >= w
  THEN memcpy([a \in DOMAIN m |-> IF a \in dst .. dst + w - 1 THEN m[src + a - dst] ELSE m[a]],
              dst + w, src + w, n - w, w)
  ELSE CopyUp(m, dst, src, n)

memmove(m, dst, src, n) ==
  IF src < dst /\ src + n > dst THEN CopyDown(m, dst, src, n) ELSE CopyUp(m, dst, src, n)

memcmp(m, v1, v2, n) ==
  LET d == {i \in 0 .. n - 1 : m[v1 + i] # m[v2 + i]}
  IN IF d = {} THEN 0 ELSE m[v1 + Min(d)] - m[v2 + Min(d)]

memfind(m, s, c, n) == Min({a \in s .. s + n : a = s + n \/ m[a] = c})
-----------------------------------------------------------------------------
(* Numbers and words.                                                       *)

At(s, i) == IF i <= Len(s) THEN s[i] ELSE NUL
Quot(a, b) == IF a >= 0 THEN a \div b ELSE -((-a) \div b)
Rem(a, b) == a - b * Quot(a, b)

\* 99 is no digit of any base.
DigitOf(c) ==
  CASE c \in Digit0 .. Digit0 + 9 -> c - Digit0
    [] c \in SmallA .. SmallA + 25 -> c - SmallA + 10
    [] c \in BigA .. BigA + 25 -> c - BigA + 10
    [] OTHER -> 99

RECURSIVE Digits(_, _, _, _, _)
Digits(s, i, base, val, bits) ==
  IF DigitOf(At(s, i)) >= base THEN [val |-> val, end |-> i]
  ELSE Digits(s, i + 1, base, Signed(val * base + DigitOf(s[i]), bits), bits)

strtol(s, base, bits) ==
  LET i0 == Min({i \in 1 .. Len(s) + 1 : At(s, i) \notin {Space, TAB}})
      neg == At(s, i0) = Minus
      i1 == IF At(s, i0) \in {Plus, Minus} THEN i0 + 1 ELSE i0
      hex == base \in {0, 16} /\ At(s, i1) = Digit0 /\ At(s, i1 + 1) = 120
      octal == base = 0 /\ At(s, i1) = Digit0
      r == CASE hex -> Digits(s, i1 + 2, 16, 0, bits)
             [] ~hex /\ octal -> Digits(s, i1 + 1, 8, 0, bits)
             [] ~hex /\ ~octal -> Digits(s, i1, IF base = 0 THEN 10 ELSE base, 0, bits)
  IN [r EXCEPT !.val = IF neg THEN Signed(-@, bits) ELSE @]

RECURSIVE Decimal(_, _)
Decimal(value, str) ==
  LET str2 == Append(str, Rem(value, 10) + Digit0)
  IN IF Quot(value, 10) = 0 THEN str2 ELSE Decimal(Quot(value, 10), str2)

ltostr(value, bits) ==
  IF value < 0 THEN <<Minus>> \o Reverse(Decimal(Signed(-value, bits), <<>>))
  ELSE Reverse(Decimal(value, <<>>))

\* The words found from position i on; max is MAX_ARGUMENTS.
RECURSIVE strsplit(_, _, _, _, _)
strsplit(s, i, splitChars, max, argv) ==
  LET start == Min({j \in i .. Len(s) + 1 : At(s, j) \notin splitChars})
      end == Min({j \in start .. Len(s) + 1 : At(s, j) \in splitChars \cup {NUL}})
  IN IF At(s, start) = NUL THEN [ret |-> 1, argv |-> argv]
     ELSE IF Len(argv) = max - 1 THEN [ret |-> 0, argv |-> argv]
     ELSE strsplit(s, end, splitChars, max, Append(argv, SubSeq(s, start, end - 1)))
-----------------------------------------------------------------------------
(* printfmt: the output is the sequence of the characters given to putch.   *)

Pad(c, n) == [i \in 1 .. n |-> c]
HexDigit(d) == IF d < 10 THEN Digit0 + d ELSE SmallA + d - 10

RECURSIVE printnum(_, _, _, _)
printnum(num, base, width, padc) ==
  (IF num >= base THEN printnum(num \div base, base, width - 1, padc) ELSE Pad(padc, width - 1)) \o
  <<HexDigit(num % base)>>

NullString == <<-1>>
NullText == <<40, 110, 117, 108, 108, 41>>   \* (null)

\* %s; a null pointer shows as (null).
PrintString(p, f) ==
  LET str == IF p = NullString THEN NullText ELSE p
      shown == IF f.precision >= 0 /\ f.precision < Len(str) THEN f.precision ELSE Len(str)
      text == [i \in 1 .. shown |-> IF f.alt /\ str[i] \notin Space .. 126 THEN 63 ELSE str[i]]
  IN IF f.width > 0 /\ f.padc # Minus THEN Pad(f.padc, f.width - shown) \o text
     ELSE text \o Pad(Space, f.width - shown)

\* The entries up to MAXERROR that are not written here are NULL.
error_string == [e \in 1 .. 6 |-> <<-1 - e>>]

\* %e: a message, or "error" and the number; the words are one token each.
PrintError(err) ==
  LET e == IF err < 0 THEN -err ELSE err
  IN IF e \in DOMAIN error_string THEN error_string[e] ELSE <<-1>> \o printnum(e, 10, -1, Space)

NoFlags == [padc |-> Space, width |-> -1, precision |-> -1, alt |-> FALSE]

\* process_precision.
Precision(f, n) == IF f.width < 0 THEN [f EXCEPT !.width = n] ELSE [f EXCEPT !.precision = n]

RECURSIVE WidthEnd(_, _)
WidthEnd(fmt, i) == IF At(fmt, i) \in Digit0 .. Digit0 + 9 THEN WidthEnd(fmt, i + 1) ELSE i

RECURSIVE vprintfmt(_, _, _, _, _)
RECURSIVE Escape(_, _, _, _, _, _, _)

vprintfmt(fmt, i, ap, out, bits) ==
  IF i > Len(fmt) THEN out
  ELSE IF fmt[i] # Percent THEN vprintfmt(fmt, i + 1, ap, Append(out, fmt[i]), bits)
  ELSE Escape(fmt, i, i + 1, ap, out, NoFlags, bits)

\* A % at position s, its flags up to position i.
Escape(fmt, s, i, ap, out, f, bits) ==
  LET c == At(fmt, i)
      Reswitch(g) == Escape(fmt, s, i + 1, ap, out, g, bits)
      Shown(text) == vprintfmt(fmt, i + 1, Tail(ap), out \o text, bits)
      Number(n, base) == printnum(n, base, f.width, f.padc)
      Unsigned(n) == n % 2 ^ bits
  IN CASE c = Minus -> Reswitch([f EXCEPT !.padc = Minus])
       [] c = Digit0 -> Reswitch([f EXCEPT !.padc = Digit0])
       [] c \in Digit0 + 1 .. Digit0 + 9 ->
            LET e == WidthEnd(fmt, i)
            IN Escape(fmt, s, e, ap, out, Precision(f, Digits(SubSeq(fmt, i, e - 1), 1, 10, 0, 16).val), bits)
       [] c = 42 -> Escape(fmt, s, i + 1, Tail(ap), out, Precision(f, Head(ap)), bits)
       [] c = 46 -> Reswitch(IF f.width < 0 THEN [f EXCEPT !.width = 0] ELSE f)
       [] c = 35 -> Reswitch([f EXCEPT !.alt = TRUE])
       [] c = 108 -> Reswitch(f)
       [] c = 99 -> Shown(<<Head(ap)>>)
       [] c = 101 -> Shown(PrintError(Head(ap)))
       [] c = 115 -> Shown(PrintString(Head(ap), f))
       [] c = 100 -> Shown(IF Head(ap) < 0 THEN <<Minus>> \o Number(-Head(ap), 10) ELSE Number(Head(ap), 10))
       [] c = 117 -> Shown(Number(Unsigned(Head(ap)), 10))
       [] c = 112 -> Shown(<<Digit0, 120>> \o Number(Unsigned(Head(ap)), 16))
       [] c = 120 -> Shown(Number(Unsigned(Head(ap)), 16))
       [] c = 111 -> vprintfmt(fmt, i + 1, ap, out \o <<88, 88, 88>>, bits)
       [] c = Percent -> vprintfmt(fmt, i + 1, ap, Append(out, Percent), bits)
       [] c \in {126, 64} -> vprintfmt(fmt, i + 1, ap, out, bits)
       [] OTHER -> vprintfmt(fmt, s + 1, ap, Append(out, Percent), bits)

E_INVAL == -3

\* What is written to a buffer of n characters.
vsnprintf(n, fmt, ap, bits) ==
  LET out == vprintfmt(fmt, 1, ap, <<>>, bits)
  IN IF n < 1 THEN [buf |-> <<>>, ret |-> -E_INVAL]
     ELSE [buf |-> SubSeq(out, 1, IF Len(out) < n THEN Len(out) ELSE n - 1) \o <<NUL>>, ret |-> Len(out)]
-----------------------------------------------------------------------------
(* What the routines are for.  An input is a record with the kind of check. *)

Holding(s, t) == [a \in 0 .. Len(s) + Len(t) + 1 |->
                    IF a < Len(s) THEN s[a + 1] ELSE IF a \in Len(s) + 1 .. Len(s) + Len(t) THEN t[a - Len(s)] ELSE NUL]
Sign(x) == CASE x < 0 -> -1 [] x = 0 -> 0 [] x > 0 -> 1
Below(s, t) == \E n \in 0 .. Len(s) : /\ IsPrefix(SubSeq(s, 1, n), t)
                                     /\ At(s, n + 1) < At(t, n + 1)
Order(s, t) == CASE s = t -> 0 [] s # t /\ Below(s, t) -> -1 [] s # t /\ ~Below(s, t) -> 1
IsWord(s, i, j, seps) ==
  /\ \A k \in i .. j : s[k] \notin seps
  /\ (i = 1 \/ At(s, i - 1) \in seps) /\ (j = Len(s) \/ At(s, j + 1) \in seps)
Words(s, seps) ==
  LET starts == {i \in 1 .. Len(s) : \E j \in i .. Len(s) : IsWord(s, i, j, seps)}
  IN [k \in 1 .. Cardinality(starts) |->
        LET i == CHOOSE x \in starts : Cardinality({y \in starts : y < x}) = k - 1
        IN SubSeq(s, i, CHOOSE j \in i .. Len(s) : IsWord(s, i, j, seps))]
Moved(m, dst, src, n) == [a \in DOMAIN m |-> IF a \in dst .. dst + n - 1 THEN m[src + a - dst] ELSE m[a]]
Longest(a, b) == IF a > b THEN a ELSE b

\* Numbers survive the way to text and back; the least negative one does not.
NumberAgrees(v, width, bits) ==
  /\ v # -2 ^ (bits - 1) => strtol(ltostr(v, bits), 10, bits) = [val |-> v, end |-> Len(ltostr(v, bits)) + 1]
  /\ v >= 0 => \A base \in {10, 16}, padc \in {Space, Digit0} :
       LET text == printnum(v, base, width, padc)
       IN /\ strtol(text, base, bits) = [val |-> v, end |-> Len(text) + 1]
          /\ Len(text) = Longest(width, Len(printnum(v, base, 0, padc)))

\* Copies that overlap, and the two that may not.
CopyAgrees(m, dst, src, n, w) ==
  /\ memmove(m, dst, src, n) = Moved(m, dst, src, n)
  /\ src >= dst \/ src + n <= dst => memcpy(m, dst, src, n, w) = Moved(m, dst, src, n)
  /\ memset(m, dst, NUL, n, w) = [a \in DOMAIN m |-> IF a \in dst .. dst + n - 1 THEN NUL ELSE m[a]]

\* Two texts s and t in one memory.
TextsAgree(s, t) ==
  LET m == Holding(s, t)  q == Len(s) + 1
      room == [a \in 0 .. Len(s) + 1 + 2 * Len(t) + Len(s) + 3 |-> IF a \in DOMAIN m THEN m[a] ELSE 1]
      free == Len(s) + Len(t) + 2
  IN /\ Sign(strcmp(m, 0, q)) = Order(s, t)
     /\ \A n \in 0 .. Len(s) + 1 :
          Sign(strncmp(m, 0, q, n)) = Order(SubSeq(s, 1, Min({n, Len(s)})), SubSeq(t, 1, Min({n, Len(t)})))
     /\ Text(strcpy(room, free, q), free) = t
     /\ Text(strcconcat(room, 0, q, free), free) = s \o t
     /\ \A size \in 1 .. Len(t) + 2 :
          LET r == strlcpy(room, free, q, size)
          IN /\ r.ret = Min({Len(t), size - 1}) /\ Text(r.m, free) = SubSeq(t, 1, r.ret)
             /\ \A a \in DOMAIN room : a \notin free .. free + size - 1 => r.m[a] = room[a]
     /\ \A size \in 0 .. Len(t) + 2 :
          strncpy(room, free, q, size) =
            [a \in DOMAIN room |-> IF a \in free .. free + size - 1 THEN At(t, a - free + 1) ELSE room[a]]
     /\ \A c \in Range(s) \cup Range(t) :
          LET first == {i \in DOMAIN s : s[i] = c /\ \A k \in 1 .. i - 1 : s[k] # c}
          IN /\ {strchr(m, 0, c)} = IF first = {} THEN {-1} ELSE {i - 1 : i \in first}
             /\ memfind(m, 0, c, Len(s)) = strfind(m, 0, c)
     /\ \A n \in 0 .. Min({Len(s), Len(t)}) : memcmp(m, 0, q, n) = strncmp(m, 0, q, n)
     /\ LET upper == [room EXCEPT ![0] = IF s = <<>> THEN @ ELSE @ - 32]
        IN \A i \in DOMAIN s : str2lower(upper, free, 0)[free + i - 1] = s[i]

\* The words of a command line, and the limit on their number.
SplitAgrees(s, seps, max) ==
  LET words == Words(s, seps)  r == strsplit(s, 1, seps, max, <<>>)
  IN r = [ret |-> IF Len(words) < max THEN 1 ELSE 0,
          argv |-> SubSeq(words, 1, Min({Len(words), max - 1}))]

\* A text in a field, a null pointer, a text of which nothing is a format, a small buffer.
FormatAgrees(s, width, n, bits) ==
  LET out == vprintfmt(<<Percent, Digit0 + width, 115>> \o s, 1, <<s>>, <<>>, bits)
      short == vsnprintf(n, s, <<>>, bits)
  IN /\ out = Pad(IF width = 0 THEN 0 ELSE Space, width - Len(s)) \o s \o s
     \* The kernel prints the len characters of sys_cputs with "%.*s".
     /\ vprintfmt(<<Percent, 46, 42, 115>>, 1, <<width, s>>, <<>>, bits) = SubSeq(s, 1, Min({width, Len(s)}))
     /\ vprintfmt(<<Percent, 46, 42, 115>>, 1, <<width, NullString>>, <<>>, bits) = SubSeq(NullText, 1, width)
     /\ vprintfmt(<<Percent, 113>> \o s, 1, <<>>, <<>>, bits) = <<Percent, 113>> \o s
     /\ Len(short.buf) <= n
     /\ n > 0 => short.ret = Len(s) /\ Last(short.buf) = NUL /\ IsPrefix(Front(short.buf), s)

StringsAgree(in) ==
  CASE in.kind = "number" -> NumberAgrees(in.v, in.width, in.bits)
    [] in.kind = "copy" -> CopyAgrees(in.m, in.dst, in.src, in.n, in.w)
    [] in.kind = "texts" -> TextsAgree(in.s, in.t)
    [] in.kind = "split" -> SplitAgrees(in.s, in.seps, in.max)
    [] in.kind = "format" -> FormatAgrees(in.s, in.width, in.n, in.bits)
=============================================================================
