----------------------------- MODULE TarClocks -----------------------------
(***************************************************************************)
(* native/worker/tar_clocks.c: how the extractor reads the numbers of a    *)
(* tar header (`integer`) and the times of a pax header (`clock_text`),    *)
(* digit by digit in signed 64 bit integers, against what the texts mean.  *)
(*                                                                         *)
(* The sizes are parameters: Most is INT64_MAX, Radix and Octal the two    *)
(* bases of digits, Places the digits of a nanosecond count, Byte the      *)
(* values of a byte.  A result out of the type's range is undefined in C,  *)
(* and so is everything computed from it.                                  *)
(***************************************************************************)
EXTENDS Integers, Sequences

CONSTANTS Radix, Places, Octal, Byte, Most, LongestText, FieldSize

VARIABLES field,   \* "clock" for a pax time, "number" or "signed" for a header's number
          text, result
vars == <<field, text, result>>

\* A digit is one byte, and fits the type; the bases are bases.
SizeAssumption ==
  /\ Radix \in Nat /\ Octal \in Nat /\ Byte \in Nat /\ Most \in Nat
  /\ 1 < Radix /\ Radix <= Most /\ 1 < Octal /\ Octal <= Byte /\ Byte <= Most
  /\ Places \in Nat /\ FieldSize \in Nat \ {0} /\ LongestText \in Nat

Least  == -Most - 1
Representable  == Least .. Most
Invalid   == [ok |-> FALSE]
Undefined == [ok |-> FALSE, undefined |-> TRUE]

\* Division in C rounds towards zero.
Quotient(x, y) == IF x < 0 THEN -((-x) \div y) ELSE x \div y

Power[p \in Nat \X Nat] == IF p[2] = 0 THEN 1 ELSE p[1] * Power[<<p[1], p[2] - 1>>]
-----------------------------------------------------------------------------
\* clock_text.  A text's characters are its digits, Minus, and Point.
Minus     == Radix
Point     == Radix + 1
Digits    == 0 .. Radix - 1
Texts     == Seq(Digits \cup {Minus, Point})
LeadsDigit(s) == s # <<>> /\ Head(s) \in Digits

\* The digits of the seconds, from the left, counted down: what is counted so far,
\* and the text that is left.
Bug_IgnoresDigit(n, d) ==
  IF n < Quotient(Least, Radix) THEN Invalid
  ELSE LET next == n * Radix - d IN IF next \in Representable THEN [ok |-> TRUE, value |-> next] ELSE Undefined

\* One digit more, if it fits.
Counted(n, d) ==
  IF n < Quotient(Least + d, Radix) THEN Invalid
  ELSE LET next == n * Radix - d IN IF next \in Representable THEN [ok |-> TRUE, value |-> next] ELSE Undefined

Seconds[p \in Texts \X Representable] ==
  LET s == p[1] n == p[2] more == Counted(n, Head(s))
  IN  IF ~LeadsDigit(s) THEN [ok |-> TRUE, value |-> n, left |-> s]
      ELSE IF more.ok THEN Seconds[<<Tail(s), more.value>>] ELSE more

\* The digits of a fraction: their value and their number so far.
Nanos[p \in Texts \X Nat \X Nat] ==
  LET s == p[1] n == p[2] count == p[3]
  IN  IF s = <<>> THEN [ok |-> TRUE, value |-> n * Power[<<Radix, IF count < Places THEN Places - count ELSE 0>>]]
      ELSE IF Head(s) \notin Digits \/ (count >= Places /\ Head(s) # 0) THEN Invalid
      ELSE Nanos[<<Tail(s), IF count < Places THEN n * Radix + Head(s) ELSE n, count + 1>>]

ClockText(s) ==
  LET negative == s # <<>> /\ Head(s) = Minus
      digits   == IF negative THEN Tail(s) ELSE s
      whole    == Seconds[<<digits, 0>>]
      part     == IF whole.left = <<>> THEN [ok |-> TRUE, value |-> 0]
                  ELSE IF Head(whole.left) # Point \/ Len(whole.left) = 1 THEN Invalid
                  ELSE Nanos[<<Tail(whole.left), 0, 0>>]
      borrows  == negative /\ part.value # 0
  IN  IF ~whole.ok THEN whole
      ELSE IF whole.left = digits \/ (~negative /\ whole.value = Least) THEN Invalid
      ELSE IF ~part.ok \/ (borrows /\ whole.value = Least) THEN Invalid
      ELSE [ok |-> TRUE,
            seconds |-> IF borrows THEN whole.value - 1 ELSE IF negative THEN whole.value ELSE -whole.value,
            nanos   |-> IF borrows THEN Power[<<Radix, Places>>] - part.value ELSE part.value]
-----------------------------------------------------------------------------
\* integer.  A field's bytes are NUL, a space, the octal digits, and those of a
\* binary number, which begins with the byte of the top bit or with ones only.
Nul    == 0
Space  == 1
Zero   == 2
Octals == Zero .. Zero + Octal - 1
Top    == Byte \div 2
Ones   == Byte - 1

Accumulate[p \in Seq(Nat) \X Nat \X (0 .. Most)] ==
  LET s == p[1] base == p[2] value == p[3] next == value * base + Head(s)
  IN  IF s = <<>> THEN [ok |-> TRUE, value |-> value]
      ELSE IF value > (Most - Head(s)) \div base THEN Invalid
      ELSE IF next \in Representable THEN Accumulate[<<Tail(s), base, next>>] ELSE Undefined

Skip(s, kind) == LET others == {i \in DOMAIN s : s[i] \notin kind}
                 IN  IF others = {} THEN <<>> ELSE SubSeq(s, CHOOSE i \in others : \A j \in others : i <= j, Len(s))

Number(s, signed) ==
  LET negative == Head(s) = Ones
      start    == Skip(s, {Space})
      ending   == Skip(start, Octals)
      octal    == SubSeq(start, 1, Len(start) - Len(ending))
      total    == IF Head(s) = Top \/ (signed /\ negative)
                  THEN Accumulate[<<[i \in 1 .. Len(s) - 1 |-> IF negative THEN Ones - s[i + 1] ELSE s[i + 1]], Byte, 0>>]
                  ELSE Accumulate[<<[i \in DOMAIN octal |-> octal[i] - Zero], Octal, 0>>]
      binary   == Head(s) = Top \/ (signed /\ negative)
  IN  IF ~total.ok THEN total
      ELSE IF ~binary /\ Skip(ending, {Nul, Space}) # <<>> THEN Invalid
      ELSE [ok |-> TRUE, seconds |-> IF binary /\ negative THEN -1 - total.value ELSE total.value, nanos |-> 0]
-----------------------------------------------------------------------------
Short  == UNION {[1 .. n -> Digits \cup {Minus, Point}] : n \in 0 .. LongestText}
Fields == [1 .. FieldSize -> 0 .. Byte - 1]
Pending == [pending |-> TRUE]

Init ==
  /\ \/ field = "clock" /\ text \in Short
     \/ field \in {"number", "signed"} /\ text \in Fields
  /\ result = Pending

Parse ==
  /\ result = Pending
  /\ result' = IF field = "clock" THEN ClockText(text) ELSE Number(text, field = "signed")
  /\ UNCHANGED <<field, text>>

Next == Parse
Spec == Init /\ [][Next]_vars
-----------------------------------------------------------------------------
\* What the texts mean.
Meaning[p \in Seq(Nat) \X Nat] ==
  LET s == p[1] base == p[2]
  IN  IF s = <<>> THEN 0 ELSE Meaning[<<SubSeq(s, 1, Len(s) - 1), base>>] * base + s[Len(s)]

Fitting(value, nanos) == IF value \in Representable THEN [ok |-> TRUE, seconds |-> value, nanos |-> nanos] ELSE Invalid

\* A decimal fraction is a whole number of nanoseconds; the seconds are its floor.
ClockMeaning(s) ==
  LET negative == s # <<>> /\ s[1] = Minus
      digits   == IF negative THEN Tail(s) ELSE s
      points   == {i \in DOMAIN digits : digits[i] = Point}
      place    == IF points = {} THEN Len(digits) + 1 ELSE CHOOSE i \in points : TRUE
      fraction == SubSeq(digits, place + 1, Len(digits))
      exact    == \A i \in DOMAIN fraction : i > Places => fraction[i] = 0
      padded   == [i \in 1 .. Places |-> IF i \in DOMAIN fraction THEN fraction[i] ELSE 0]
      unit     == Power[<<Radix, Places>>]
      total    == (IF negative THEN -1 ELSE 1) * (Meaning[<<SubSeq(digits, 1, place - 1), Radix>>] * unit + Meaning[<<padded, Radix>>])
      proper   == /\ \A i \in DOMAIN digits : digits[i] \in Digits \/ i = place
                  /\ place > 1 /\ (points # {} => fraction # <<>>) /\ exact
  IN  IF proper THEN Fitting(total \div unit, total % unit) ELSE Invalid

\* Two's complement after the first byte, or an octal text between its padding.
NumberMeaning(s, signed) ==
  IF s[1] = Top \/ (signed /\ s[1] = Ones)
  THEN Fitting(Meaning[<<Tail(s), Byte>>] - (IF s[1] = Ones THEN Power[<<Byte, FieldSize - 1>>] ELSE 0), 0)
  ELSE LET layouts == {l \in (0 .. FieldSize) \X (0 .. FieldSize) :
                         /\ l[1] <= l[2] /\ \A k \in 1 .. l[1] : s[k] = Space
                         /\ \A k \in l[1] + 1 .. l[2] : s[k] \in Octals
                         /\ \A k \in l[2] + 1 .. FieldSize : s[k] \in {Nul, Space}}
       IN  IF layouts = {} THEN Invalid
           ELSE LET l == CHOOSE l \in layouts : \A m \in layouts : m[2] - m[1] <= l[2] - l[1]
                IN  Fitting(Meaning[<<[k \in 1 .. l[2] - l[1] |-> s[l[1] + k] - Zero], Octal>>], 0)

\* Every text is read as what it means, or refused because it means nothing or
\* does not fit: no digit overflows on the way, the smallest number included, and
\* the time before a fraction of a negative second is rounded down
\* (tar_clocks.c:46-97).
ReadsWhatIsWritten ==
  result # Pending =>
    result = (IF field = "clock" THEN ClockMeaning(text) ELSE NumberMeaning(text, field = "signed"))
=============================================================================
