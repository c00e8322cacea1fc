-------------------------------- MODULE Libs ---------------------------------
(***************************************************************************)
(* What the kernel, the user library and mksfs's kernel share of           *)
(* lab8/libs.  The string functions of string.c: what each loop leaves in  *)
(* memory and returns, against what its comment promises; a caller calls   *)
(* them one after the other on the same memory, as the comments allow: on  *)
(* strings that end and buffers that are large enough, and that overlap    *)
(* for memmove only.  And text from values and back: the formats of        *)
(* printfmt.c, character by character as vprintfmt reads them, the buffer  *)
(* of vsnprintf, and strtol of string.c; a caller prints one directive     *)
(* between other text or converts one string.  A character of the memory   *)
(* is an unsigned byte, one of a text a string of length 1.                *)
(***************************************************************************)
EXTENDS Integers, Sequences, FiniteSetsExt, SequencesExt

CONSTANTS
  Size,               \* bound of the model: bytes of memory
  MaxChar,            \* bound of the model: characters
  MaxLen,             \* bound of the model: lengths that are asked for
  IntBits, LongBits,  \* the widths of int and long
  Values,             \* bound of the model: arguments
  Sizes               \* bound of the model: the sizes of buffers

LibsAssumption ==
  /\ Size \in Nat \ {0} /\ MaxChar \in Nat /\ MaxLen \in 0..Size
  /\ IntBits \in Nat \ {0} /\ LongBits \in Nat /\ LongBits >= IntBits
  /\ Values \subseteq Int /\ Sizes \subseteq Nat

VARIABLES
  mem,    \* the memory before the call
  call,   \* the string function that has been called with a, b and n, or Quiet
  done,   \* the memory after it, and what it returned
  input,  \* what is to be printed or converted, or Quiet
  output  \* the text or the number that came of it, or Quiet

strings == <<mem, call, done>>
format  == <<input, output>>
vars == <<strings, format>>

Addr == 0..(Size - 1)
Char == 0..MaxChar
NULL == -1
Quiet == [f |-> "none", kind |-> "none"]
Cleared == [p \in Addr |-> 0]

Up(n)   == [i \in 1..n |-> i - 1]
Down(n) == [i \in 1..n |-> n - i]

-----------------------------------------------------------------------------
(* string.c.                                                               *)
strlen(m, s) ==
  LET cnt[i \in 0..Size] == IF m[s + i] # 0 THEN cnt[i + 1] ELSE i IN cnt[0]

strnlen(m, s, n) ==
  LET cnt[i \in 0..Size] == IF i < n /\ m[s + i] # 0 THEN cnt[i + 1] ELSE i IN cnt[0]

(* Bytes are copied in the order of the indices.                           *)
Copied(m, dst, src, order) ==
  FoldLeft(LAMBDA x, i : [x EXCEPT ![dst + i] = x[src + i]], m, order)

(* What a function leaves in memory, and returns.                          *)
Left(m, p) == [mem |-> m, ret |-> p]

strcpy(m, dst, src) == Left(Copied(m, dst, src, Up(strlen(m, src) + 1)), dst)

(* src does not move beyond the end of the string.                         *)
strncpy(m, dst, src, n) ==
  LET copy(x, i) == [m |-> [x.m EXCEPT ![dst + i] = x.m[x.src]],
                     src |-> IF x.m[x.src] # 0 THEN x.src + 1 ELSE x.src]
  IN Left(FoldLeft(copy, [m |-> m, src |-> src], Up(n)).m, dst)

strcat(m, dst, src) == strcpy(m, dst + strlen(m, dst), src)

strcmp(m, a, b) ==
  LET at[i \in 0..Size] == IF m[a + i] # 0 /\ m[a + i] = m[b + i] THEN at[i + 1]
                           ELSE m[a + i] - m[b + i]
  IN at[0]

strncmp(m, a, b, n) ==
  LET at[i \in 0..Size] ==
        IF i = n THEN 0
        ELSE IF m[a + i] # 0 /\ m[a + i] = m[b + i] THEN at[i + 1]
        ELSE m[a + i] - m[b + i]
  IN at[0]

strchr(m, s, c) ==
  LET at[p \in Addr] == IF m[p] = 0 THEN NULL ELSE IF m[p] = c THEN p ELSE at[p + 1]
  IN at[s]

strfind(m, s, c) ==
  LET at[p \in Addr] == IF m[p] = 0 \/ m[p] = c THEN p ELSE at[p + 1] IN at[s]

memset(m, s, c, n) == Left(FoldLeft(LAMBDA x, i : [x EXCEPT ![s + i] = c], m, Up(n)), s)

(* Mutant: it copies upwards in any case.                                  *)
MemmoveUp(m, dst, src, n) == Left(Copied(m, dst, src, Up(n)), dst)
memmove(m, dst, src, n) ==
  Left(Copied(m, dst, src, IF src < dst /\ src + n > dst THEN Down(n) ELSE Up(n)), dst)

memcpy(m, dst, src, n) == Left(Copied(m, dst, src, Up(n)), dst)

memcmp(m, a, b, n) ==
  LET at[i \in 0..n] == IF i = n THEN 0
                        ELSE IF m[a + i] # m[b + i] THEN m[a + i] - m[b + i] ELSE at[i + 1]
  IN at[0]

-----------------------------------------------------------------------------
(* Numbers and their digits.                                               *)
Figures == <<"0", "1", "2", "3", "4", "5", "6", "7", "8", "9">>
Lower == <<"a", "b", "c", "d", "e", "f", "g", "h", "i", "j", "k", "l", "m",
           "n", "o", "p", "q", "r", "s", "t", "u", "v", "w", "x", "y", "z">>
Upper == <<"A", "B", "C", "D", "E", "F", "G", "H", "I", "J", "K", "L", "M",
           "N", "O", "P", "Q", "R", "S", "T", "U", "V", "W", "X", "Y", "Z">>
DigitOf(n)  == (Figures \o Lower)[n + 1]
(* A character as a digit: 99 if it is none.                               *)
ValueOf(ch) ==
  LET of(s) == {i - 1 : i \in {j \in DOMAIN s : s[j] = ch}}
  IN Min(of(Figures \o Lower) \cup of(Figures \o Upper) \cup {99})
IsDigit(ch) == ValueOf(ch) < 10
Times(n, ch) == [i \in 1..(IF n > 0 THEN n ELSE 0) |-> ch]
AtMost(t, n) == IF n < 0 THEN t ELSE SubSeq(t, 1, Min({n, Len(t)}))

-----------------------------------------------------------------------------
(* printfmt.c.                                                             *)
Unsigned(v, bits) == v % 2^bits
Signed(v, bits) ==
  LET u == Unsigned(v, bits) IN IF u >= 2^(bits - 1) THEN u - 2^bits ELSE u

getuint(v, lflag) == Unsigned(v, IF lflag > 0 THEN LongBits ELSE IntBits)
getint(v, lflag)  == Signed(v, IF lflag > 0 THEN LongBits ELSE IntBits)

RECURSIVE printnum(_, _, _, _)
printnum(num, base, width, padc) ==
  Append(IF num >= base THEN printnum(num \div base, base, width - 1, padc)
         ELSE Times(width - 1, padc), DigitOf(num % base))

ErrorText    == <<"e", "r", "r", "o", "r", " ">>
error_string == << <<"e", "1">>, <<"e", "2">> >>

(* case 's': padding in front, the text, and what is left of the width.    *)
PrintString(s, p) ==
  LET len   == Len(AtMost(p, s.precision))
      left  == IF s.width > 0 /\ s.padc # "-" THEN s.width - len ELSE 0
      shown == [i \in 1..len |-> IF s.altflag /\ p[i] = "\t" THEN "?" ELSE p[i]]
      rest  == IF s.width > 0 /\ s.padc # "-" THEN Min({left, 0}) ELSE s.width
  IN Times(left, s.padc) \o shown \o Times(rest - len, " ")

Number(s, num, base) == printnum(num, base, s.width, s.padc)

(* The label process_precision.                                            *)
Precise(s) ==
  IF s.width < 0 THEN [s EXCEPT !.width = s.precision, !.precision = -1] ELSE s

(* What a directive ends with: text, and an argument used up.              *)
Emit(s, text) == [s EXCEPT !.mode = "text", !.out = @ \o text]
Use(s) == [s EXCEPT !.args = Tail(@)]

(* The switch of vprintfmt.                                                *)
Directive(s0, ch) ==
  LET s   == [s0 EXCEPT !.esc = Append(@, ch), !.mode = "escape"]
      arg == Head(s.args)
      num == getint(arg, s.lflag)
      err == IF arg < 0 THEN -arg ELSE arg
  IN CASE ch \in {"-", "0"} -> [s EXCEPT !.padc = ch]
       [] ch # "0" /\ IsDigit(ch) -> [s EXCEPT !.mode = "number", !.precision = ValueOf(ch)]
       [] ch = "*" -> Precise([Use(s) EXCEPT !.precision = arg])
       [] ch = "." -> [s EXCEPT !.width = Max({@, 0})]
       [] ch = "#" -> [s EXCEPT !.altflag = TRUE]
       [] ch = "l" -> [s EXCEPT !.lflag = @ + 1]
       [] ch = "c" -> Emit(Use(s), <<arg>>)
       [] ch = "e" -> Emit(Use(s), IF err \in DOMAIN error_string THEN error_string[err]
                                   ELSE ErrorText \o printnum(err, 10, -1, " "))
       [] ch = "s" -> Emit(Use(s), PrintString(s, arg))
       [] ch = "d" -> Emit(Use(s), IF num < 0
                                   THEN <<"-">> \o Number(s, Unsigned(-num, LongBits), 10)
                                   ELSE Number(s, num, 10))
       [] ch = "u" -> Emit(Use(s), Number(s, getuint(arg, s.lflag), 10))
       [] ch = "o" -> Emit(Use(s), Number(s, getuint(arg, s.lflag), 8))
       [] ch = "x" -> Emit(Use(s), Number(s, getuint(arg, s.lflag), 16))
       [] ch = "p" -> Emit(Use(s), <<"0", "x">> \o Number(s, getuint(arg, 1), 16))
       [] ch = "%" -> Emit(s, <<"%">>)
       [] OTHER    -> Emit(s, <<"%">> \o s.esc)

Step(s, ch) ==
  IF s.mode = "text"
  THEN IF ch = "%" THEN [s EXCEPT !.mode = "escape", !.esc = <<>>, !.padc = " ", !.width = -1,
                                  !.precision = -1, !.lflag = 0, !.altflag = FALSE]
       ELSE [s EXCEPT !.out = Append(@, ch)]
  ELSE IF s.mode = "number"
  THEN IF IsDigit(ch) THEN [s EXCEPT !.precision = @ * 10 + ValueOf(ch),
                                     !.esc = Append(@, ch)]
       ELSE Directive(Precise(s), ch)
  ELSE Directive(s, ch)

vprintfmt(fmt, args) ==
  FoldLeft(Step, [mode |-> "text", esc |-> <<>>, padc |-> " ", width |-> -1,
                  precision |-> -1, lflag |-> 0, altflag |-> FALSE,
                  out |-> <<>>, args |-> args], fmt).out

(* ebuf is the last byte of the buffer, for the end of the string.         *)
sprintputch(b, ch, size) ==
  [cnt |-> b.cnt + 1, buf |-> IF Len(b.buf) < size - 1 THEN Append(b.buf, ch) ELSE b.buf]

vsnprintf(size, fmt, args) ==
  IF size = 0 THEN [ret |-> "inval", str |-> <<>>]
  ELSE LET b == FoldLeft(LAMBDA x, ch : sprintputch(x, ch, size),
                         [cnt |-> 0, buf |-> <<>>], vprintfmt(fmt, args))
       IN [ret |-> b.cnt, str |-> Append(b.buf, "NUL")]

-----------------------------------------------------------------------------
(* strtol of the string t, of which t[Len(t) + 1] is the end: the value    *)
(* and how far it went.                                                    *)
strtol(t, b) ==
  LET at(i)  == IF i > Len(t) THEN "NUL" ELSE t[i]
      skip[i \in 1..(Len(t) + 1)] == IF at(i) \in {" ", "\t"} THEN skip[i + 1] ELSE i
      first  == skip[1]
      sign   == IF at(first) \in {"+", "-"} THEN first + 1 ELSE first
      hex    == b \in {0, 16} /\ at(sign) = "0" /\ at(sign + 1) = "x"
      octal  == b = 0 /\ at(sign) = "0"
      start  == IF hex THEN sign + 2 ELSE IF octal THEN sign + 1 ELSE sign
      base   == IF hex THEN 16 ELSE IF octal THEN 8 ELSE IF b = 0 THEN 10 ELSE b
      read[x \in (1..(Len(t) + 1)) \X Nat] ==
        IF ValueOf(at(x[1])) < base
        THEN read[<<x[1] + 1, x[2] * base + ValueOf(at(x[1]))>>] ELSE x
      end == read[<<start, 0>>]
  IN [end |-> end[1], val |-> IF at(first) = "-" THEN -end[2] ELSE end[2]]

-----------------------------------------------------------------------------
(* The calls of string.c.                                                  *)
IsString(s)       == \E p \in s..(Size - 1) : mem[p] = 0
Fits(s, n)        == s + n <= Size
Apart(a, b, n)    == a + n <= b \/ b + n <= a
WithLength        == {"strnlen", "strncmp", "memcmp", "strncpy", "memcpy", "memmove", "memset"}
IsCall(f, a, b, n) ==
  /\ call = Quiet /\ input = Quiet
  /\ f \notin WithLength => n = 0
  /\ call' = [f |-> f, a |-> a, b |-> b, n |-> n]
  /\ UNCHANGED <<mem, format>>

Scans(f, s, c, n) ==
  /\ IsCall(f, s, c, n) /\ IsString(s)
  /\ done' = [mem |-> mem, ret |-> CASE f = "strlen"  -> strlen(mem, s)
                                     [] f = "strnlen" -> strnlen(mem, s, n)
                                     [] f = "strchr"  -> strchr(mem, s, c)
                                     [] f = "strfind" -> strfind(mem, s, c)]

Compares(f, a, b, n) ==
  /\ IsCall(f, a, b, n)
  /\ IF f = "memcmp" THEN Fits(a, n) /\ Fits(b, n) ELSE IsString(a) /\ IsString(b)
  /\ done' = [mem |-> mem, ret |-> CASE f = "strcmp"  -> strcmp(mem, a, b)
                                     [] f = "strncmp" -> strncmp(mem, a, b, n)
                                     [] f = "memcmp"  -> memcmp(mem, a, b, n)]

CopiesText(f, dst, src, n) ==
  /\ IsCall(f, dst, src, n) /\ IsString(src)
  /\ f = "strcat" => IsString(dst)
  /\ LET len == strlen(mem, src) + 1
         all == CASE f = "strcpy"  -> len
                  [] f = "strcat"  -> strlen(mem, dst) + len
                  [] f = "strncpy" -> n
     IN Fits(dst, all) /\ (dst + all <= src \/ src + len <= dst)
  /\ done' = CASE f = "strcpy"  -> strcpy(mem, dst, src)
               [] f = "strcat"  -> strcat(mem, dst, src)
               [] f = "strncpy" -> strncpy(mem, dst, src, n)

CopiesBytes(f, dst, src, n) ==
  /\ IsCall(f, dst, src, n) /\ Fits(dst, n) /\ Fits(src, n)
  /\ f = "memcpy" => Apart(dst, src, n)
  /\ done' = IF f = "memcpy" THEN memcpy(mem, dst, src, n) ELSE memmove(mem, dst, src, n)

Sets(s, c, n) ==
  /\ IsCall("memset", s, c, n) /\ Fits(s, n)
  /\ done' = memset(mem, s, c, n)

(* The caller goes on with the memory as it is then.                       *)
Return ==
  /\ call # Quiet
  /\ mem' = done.mem
  /\ call' = Quiet
  /\ UNCHANGED <<done, format>>

Calls ==
  \E a \in Addr, n \in 0..MaxLen :
    \/ \E c \in Char \ {0} :
         \/ Sets(a, c, n)
         \/ \E f \in {"strlen", "strnlen", "strchr", "strfind"} : Scans(f, a, c, n)
    \/ Sets(a, 0, n)
    \/ \E b \in Addr :
         \/ \E f \in {"strcmp", "strncmp", "memcmp"} : Compares(f, a, b, n)
         \/ \E f \in {"strcpy", "strcat", "strncpy"} : CopiesText(f, a, b, n)
         \/ \E f \in {"memcpy", "memmove"} : CopiesBytes(f, a, b, n)

-----------------------------------------------------------------------------
(* A directive as a caller writes it, and the same as characters.          *)
NoNumber == -1
Decimal(n) == IF n < 10 THEN <<DigitOf(n)>> ELSE <<DigitOf(n \div 10), DigitOf(n % 10)>>

Written(d) ==
  <<"%">> \o d.flag
  \o (IF d.width = NoNumber THEN <<>> ELSE IF d.star THEN <<"*">> ELSE Decimal(d.width))
  \o (IF d.precision = NoNumber THEN <<>> ELSE <<".">> \o Decimal(d.precision))
  \o Times(d.long, "l") \o <<d.conv>>

Given(d) ==
  (IF d.star /\ d.width # NoNumber THEN <<d.width>> ELSE <<>>)
  \o (IF d.conv \in {"%", "q"} THEN <<>> ELSE <<d.arg>>)

Numeric == {"d", "u", "o", "x"}
Texts   == {<<>>, <<"a">>, <<"a", "\t", "b">>}

(* "Space or zero padding and a field width are supported for the numeric  *)
(* formats only", that is, no '-' for them.                                *)
Directives ==
  LET all(flags, args, longs, convs) ==
        [flag : flags, width : {NoNumber, 2, 12}, star : BOOLEAN, precision : {NoNumber, 1},
         long : longs, conv : convs, arg : args]
  IN all({<<>>, <<"0">>}, Values, 0..2, Numeric)
     \cup all({<<>>, <<"0">>}, Values, {0}, {"p"})
     \cup all({<<>>, <<"-">>, <<"#">>}, Texts, {0}, {"s"})
     \cup all({<<>>}, {1, -2, 7}, {0}, {"e", "%", "q"})
     \cup all({<<>>}, {"a"}, {0}, {"c"})

Prints(d, size) ==
  /\ input' = [kind |-> "print", d |-> d, size |-> size]
  /\ output' = vsnprintf(size, <<"a">> \o Written(d) \o <<"b", "%", "d">>, Given(d) \o <<7>>)

(* A number in a base: its digits by the powers of the base.               *)
Digits(n, base) ==
  LET k == CHOOSE i \in 1..(LongBits + 1) : n < base^i /\ (i = 1 \/ n >= base^(i - 1))
  IN [i \in 1..k |-> DigitOf((n \div base^(k - i)) % base)]

(* A number as a string: blanks, a sign, a prefix, digits, perhaps in      *)
(* capitals, and something else.                                           *)
Numbers ==
  [blanks : {<<>>, <<" ", "\t">>}, sign : {<<>>, <<"+">>, <<"-">>}, base : {8, 10, 16},
   prefix : {"none", "usual", "capital"}, capitals : BOOLEAN, val : {0, 7, 8, 11, 255},
   tail : {<<>>, <<"z">>, <<"Z">>, <<" ", "1">>}]
  \cup
  [blanks : {<<>>}, sign : {<<>>, <<"-">>}, base : {36}, prefix : {"none"},
   capitals : BOOLEAN, val : {0, 35, 255}, tail : {<<>>, <<" ", "1">>}]

Prefix(x) ==
  CASE x.prefix = "none" \/ x.base = 10 -> <<>>
    [] x.prefix # "none" /\ x.base = 8 -> <<"0">>
    [] x.prefix = "usual" /\ x.base = 16 -> <<"0", "x">>
    [] x.prefix = "capital" /\ x.base = 16 -> <<"0", "X">>
Figured(x) ==
  LET d == Digits(x.val, x.base) IN
  IF x.capitals THEN [i \in DOMAIN d |-> (Figures \o Upper)[ValueOf(d[i]) + 1]] ELSE d
Numeral(x) == x.blanks \o x.sign \o Prefix(x) \o Figured(x)

(* Where there is a prefix, or none is needed, the base may be left open.  *)
Converts(x, b) ==
  /\ b = x.base \/ (b = 0 /\ (x.prefix # "none" \/ x.base = 10))
  /\ input' = [kind |-> "convert", x |-> x]
  /\ output' = strtol(Numeral(x) \o x.tail, b)

Untouched == mem = Cleared /\ call = Quiet /\ done = [mem |-> mem, ret |-> 0]

(* bound of the model: a caller of these has not called the others yet,    *)
(* with which they share no state.                                         *)
Asks ==
  /\ Untouched /\ input = Quiet
  /\ \/ \E d \in Directives, size \in Sizes : Prints(d, size)
     \/ \E x \in Numbers, b \in {0, 8, 10, 16, 36} : Converts(x, b)
  /\ UNCHANGED strings

Answered ==
  /\ input # Quiet
  /\ input' = Quiet /\ output' = Quiet
  /\ UNCHANGED strings

Init == Untouched /\ input = Quiet /\ output = Quiet

Next ==
  \/ Calls \/ Return
  \/ Asks \/ Answered

Spec == Init /\ [][Next]_vars

-----------------------------------------------------------------------------
(* The string that begins at s, without its end.                           *)
Text(m, s) ==
  LET end == Min({p \in s..(Size - 1) : m[p] = 0}) IN [i \in 1..(end - s) |-> m[s + i - 1]]
Bytes(m, s, n) == [i \in 1..n |-> m[s + i - 1]]
Elsewhere(s, n) == \A p \in Addr \ (s..(s + n - 1)) : done.mem[p] = mem[p]

(* -1, 0 or 1 by the first character that differs; an end comes first.     *)
Sign(x) == IF x > 0 THEN 1 ELSE IF x < 0 THEN -1 ELSE 0
Order(t, u) ==
  LET at(v, i) == IF i > Len(v) THEN 0 ELSE v[i]
      differ == {i \in 1..(Len(t) + Len(u)) : at(t, i) # at(u, i)}
  IN IF differ = {} THEN 0 ELSE Sign(at(t, Min(differ)) - at(u, Min(differ)))

(* Each function leaves and returns what its comment says, and touches no  *)
(* byte but those it is to write; memmove also if the areas overlap, in    *)
(* either direction.  (strcat, whose comment does not say, returns where   *)
(* dst ended before.  The kernel's paths, entries and blocks go through    *)
(* these functions, and getcwd moves a path within its own buffer.)        *)
Promised ==
  LET a == call.a  b == call.b  n == call.n  f == call.f
      t == Text(mem, a)  u == Text(mem, b)
      at == {p \in a..(Size - 1) : mem[p] = b /\ p < a + Len(t)}
      ret == done.ret
  IN /\ CASE f = "strlen"  -> ret = Len(t)
          [] f = "strnlen" -> ret = Len(AtMost(t, n))
          [] f = "strchr"  -> ret = Min(at \cup (IF at = {} THEN {NULL} ELSE {}))
          [] f = "strfind" -> ret = Min(at \cup {a + Len(t)})
          [] f = "strcmp"  -> Sign(ret) = Order(t, u)
          [] f = "strncmp" -> Sign(ret) = Order(AtMost(t, n), AtMost(u, n))
          [] f = "memcmp"  -> Sign(ret) = Order(Bytes(mem, a, n), Bytes(mem, b, n))
          [] f = "strcpy"  -> Text(done.mem, a) = u /\ Elsewhere(a, Len(u) + 1)
          [] f = "strcat"  -> /\ ret = a + Len(t) /\ Text(done.mem, a) = t \o u
                              /\ Elsewhere(a, Len(t) + Len(u) + 1)
          [] f = "strncpy" -> /\ \A i \in 1..n : done.mem[a + i - 1]
                                   = IF i <= Len(u) THEN u[i] ELSE 0
                              /\ Elsewhere(a, n)
          [] f \in {"memcpy", "memmove"} ->
               Bytes(done.mem, a, n) = Bytes(mem, b, n) /\ Elsewhere(a, n)
          [] f = "memset"  -> \A p \in Addr : done.mem[p]
                                = IF p \in a..(a + n - 1) THEN b ELSE mem[p]
     /\ f \in {"strcpy", "strncpy", "memcpy", "memmove", "memset"} => ret = a

StringsRight == call # Quiet => Promised

Filled(text, width, ch) == Times(width - Len(text), ch) \o text

Meant(d) ==
  LET bits  == IF d.long > 0 \/ d.conv = "p" THEN LongBits ELSE IntBits
      base  == CASE d.conv \in {"d", "u"} -> 10 [] d.conv = "o" -> 8 [] OTHER -> 16
      pad   == IF d.flag = <<"0">> THEN "0" ELSE " "
      num   == CHOOSE n \in (-(2^bits))..(2^bits) :
                 /\ (n - d.arg) % 2^bits = 0
                 /\ IF d.conv = "d" THEN n >= -(2^(bits - 1)) /\ n < 2^(bits - 1)
                    ELSE n >= 0 /\ n < 2^bits
      text  == AtMost(d.arg, d.precision)
      shown == IF d.flag # <<"#">> THEN text
               ELSE [i \in DOMAIN text |-> IF text[i] = "\t" THEN "?" ELSE text[i]]
  IN CASE d.conv = "d" /\ num < 0 -> <<"-">> \o Filled(Digits(-num, 10), d.width, pad)
       [] d.conv \in Numeric /\ ~(d.conv = "d" /\ num < 0) ->
            Filled(Digits(num, base), d.width, pad)
       [] d.conv = "p" -> <<"0", "x">> \o Filled(Digits(num, base), d.width, pad)
       [] d.conv = "s" -> IF d.flag = <<"-">> THEN shown \o Times(d.width - Len(shown), " ")
                          ELSE Filled(shown, d.width, " ")
       [] d.conv = "c" -> <<d.arg>>
       [] d.conv = "e" -> IF d.arg \in {1, -1} THEN error_string[1]
                          ELSE IF d.arg \in {2, -2} THEN error_string[2]
                          ELSE Append(ErrorText, "7")
       [] d.conv = "%" -> <<"%">>
       [] d.conv = "q" -> Written(d)

(* A directive prints its argument as its width, flags and size say,       *)
(* whatever the text around it, and the next one gets the next argument;   *)
(* the buffer has as much of it as fits, with an end, and the length is    *)
(* that of the whole.  (The paths of the shell are made so.)               *)
PrintsMeant ==
  input.kind = "print" =>
    LET all == <<"a">> \o Meant(input.d) \o <<"b", "7">> IN
    IF input.size = 0 THEN output.ret = "inval"
    ELSE /\ output.ret = Len(all)
         /\ output.str = Append(AtMost(all, input.size - 1), "NUL")

(* A numeral is converted to its value, to the character behind it; but a  *)
(* prefix 0X is a numeral 0 with something else behind it.                 *)
ReadsMeant ==
  input.kind = "convert" =>
    LET x     == input.x
        zero  == x.base = 16 /\ x.prefix = "capital"
        value == IF zero THEN 0 ELSE x.val
    IN /\ output.val = IF x.sign = <<"-">> THEN -value ELSE value
       /\ output.end = IF zero THEN Len(x.blanks \o x.sign) + 2 ELSE Len(Numeral(x)) + 1

(* "if base is 16, an optional "0x" or "0X" prefix": with either, a numeral*)
(* is converted to its value.                                              *)
PrefixRead ==
  input.kind = "convert" => output.end = Len(Numeral(input.x)) + 1
=============================================================================
