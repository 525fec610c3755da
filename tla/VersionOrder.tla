---------------------------- MODULE VersionOrder ----------------------------
(***************************************************************************)
(* tools/debian_semantics.py: the order of Debian versions, as compare     *)
(* computes it character by character, against the order of the sort keys  *)
(* that Debian's policy describes.                                         *)
(*                                                                         *)
(* A version is a sequence of characters.  The size limit is Longest; the  *)
(* characters are a sample of each class the code distinguishes.           *)
(***************************************************************************)
EXTENDS Integers, Sequences

CONSTANTS Characters, Letters, Code,     \* Code: ord
          Longest, MaxEpoch

VARIABLES a, b, result
vars == <<a, b, result>>

Figures   == <<"0", "1", "2", "3", "4", "5", "6", "7", "8", "9">>
Numerals  == {Figures[i] : i \in 1 .. 10}
Numeral   == [c \in Numerals |-> (CHOOSE i \in 1 .. 10 : Figures[i] = c) - 1]
Pending   == 2
Sign(x, y) == IF x > y THEN 1 ELSE IF x < y THEN -1 ELSE 0

\* Only the end of a text weighs nothing; NUL is no character of a version.
CodeAssumption == \A c \in Characters \ (Numerals \cup {"~"}) : Code[c] \in Nat \ {0}

Texts           == Seq(Characters \cup Numerals)
Positions(s, c) == {i \in DOMAIN s : s[i] = c}
AllDigits(s)    == \A i \in DOMAIN s : s[i] \in Numerals

\* The number of digits at the front of s from which the rest is taken off.
Run[s \in Texts] == IF s = <<>> \/ Head(s) \notin Numerals THEN 0 ELSE 1 + Run[Tail(s)]

Stripped[s \in Texts] == IF s # <<>> /\ Head(s) = "0" THEN Stripped[Tail(s)] ELSE s

Value[s \in Seq(Numerals)] == IF s = <<>> THEN 0 ELSE Value[SubSeq(s, 1, Len(s) - 1)] * 10 + Numeral[s[Len(s)]]

After(s, n) == SubSeq(s, n + 1, Len(s))
-----------------------------------------------------------------------------
\* split_version: an epoch ends at the first colon, if a digit follows; the
\* revision begins after the last hyphen, and is "0" where there is none.
Epoch(s) ==
  LET colons == {i \in Positions(s, ":") : i > 1 /\ AllDigits(SubSeq(s, 1, i - 1))
                                            /\ i < Len(s) /\ s[i + 1] \in Numerals}
  IN  IF colons = {} THEN 0 ELSE CHOOSE i \in colons : TRUE

Rest(s)   == After(s, Epoch(s))
Hyphen(s) == LET h == Positions(Rest(s), "-") IN IF h = {} THEN 0 ELSE CHOOSE i \in h : \A j \in h : j <= i

Parts(s) ==
  [epoch    |-> Stripped[SubSeq(s, 1, Epoch(s) - 1)],
   upstream |-> IF Hyphen(s) = 0 THEN Rest(s) ELSE SubSeq(Rest(s), 1, Hyphen(s) - 1),
   revision |-> IF Hyphen(s) = 0 THEN <<"0">> ELSE After(Rest(s), Hyphen(s))]

Valid(s) ==
  /\ Len(s) \in 1 .. Longest
  /\ Rest(s)[1] \in Numerals
  /\ Value[Parts(s).epoch] <= MaxEpoch
  /\ Epoch(s) = 0 => Positions(s, ":") = {}
  /\ Parts(s).revision # <<>> /\ Positions(Parts(s).revision, ":") = {}

\* _digits, _order, _part and compare.
Later(x, y) == \E i \in DOMAIN x : SubSeq(x, 1, i - 1) = SubSeq(y, 1, i - 1) /\ Numeral[x[i]] > Numeral[y[i]]

Bug_ComparesText(s, t) ==
  IF s = t THEN 0 ELSE IF Len(s) # Len(t) THEN Sign(Len(s), Len(t)) ELSE IF Later(s, t) THEN 1 ELSE -1

Digits(s, t) ==
  LET x == Stripped[s] y == Stripped[t]
  IN  IF Len(x) # Len(y) THEN Sign(Len(x), Len(y))
      ELSE IF Later(x, y) THEN 1 ELSE IF Later(y, x) THEN -1 ELSE 0

Weight(c)  == IF c = "~" THEN -1 ELSE IF c \in Numerals THEN 0 ELSE IF c \in Letters THEN Code[c] ELSE Code[c] + 256
Order(s)   == IF s = <<>> THEN 0 ELSE Weight(Head(s))
Ahead(s)   == s # <<>> /\ Head(s) \notin Numerals
Advance(s) == IF s = <<>> THEN s ELSE Tail(s)

Part[p \in Texts \X Texts] ==
  LET s == p[1] t == p[2]
      here == Digits(SubSeq(s, 1, Run[s]), SubSeq(t, 1, Run[t]))
  IN  IF s = <<>> /\ t = <<>> THEN 0
      ELSE IF Ahead(s) \/ Ahead(t)
           THEN IF Order(s) # Order(t) THEN Sign(Order(s), Order(t)) ELSE Part[<<Advance(s), Advance(t)>>]
           ELSE IF here # 0 THEN here ELSE Part[<<After(s, Run[s]), After(t, Run[t])>>]

First(x, y, z) == IF x # 0 THEN x ELSE IF y # 0 THEN y ELSE z

Answer(v, w) ==
  LET p == Parts(v) q == Parts(w)
  IN  First(Digits(p.epoch, q.epoch), Part[<<p.upstream, q.upstream>>], Part[<<p.revision, q.revision>>])

Compare == result = Pending /\ result' = Answer(a, b) /\ UNCHANGED <<a, b>>

Versions == {s \in UNION {[1 .. n -> Characters] : n \in 1 .. Longest} : Valid(s)}

Init == a \in Versions /\ b \in Versions /\ result = Pending
Next == Compare
Spec == Init /\ [][Next]_vars
-----------------------------------------------------------------------------
\* The sort key of a part: the weights of its characters, a zero that ends each
\* stretch of them, and the number that follows; all that is missing is zero.
Key[s \in Texts] ==
  IF s = <<>> THEN <<>>
  ELSE IF Ahead(s) THEN <<Weight(Head(s))>> \o Key[Tail(s)]
  ELSE <<0, Value[SubSeq(s, 1, Run[s])]>> \o Key[After(s, Run[s])]

At(k, i) == IF i \in DOMAIN k THEN k[i] ELSE 0

ByKey(s, t) ==
  LET j == Key[s] k == Key[t]
      differ == {i \in DOMAIN j \cup DOMAIN k : At(j, i) # At(k, i)}
  IN  IF differ = {} THEN 0
      ELSE LET i == CHOOSE i \in differ : \A n \in differ : i <= n IN Sign(At(j, i), At(k, i))

Reference(v, w) ==
  LET p == Parts(v) q == Parts(w)
  IN  First(Sign(Value[p.epoch], Value[q.epoch]), ByKey(p.upstream, q.upstream), ByKey(p.revision, q.revision))

\* For all pairs of versions, the answer of compare is the order of their keys.
\* A comparison of keys is total and transitive, so compare is too: tildes sort
\* before the end, ends before letters, letters before the rest, zeros in front
\* of a number count for nothing, and neither an epoch nor a revision of zero
\* differs from none (debian_semantics.py:31-58).
CompareIsDebianOrder == result # Pending => result = Reference(a, b)
=============================================================================
