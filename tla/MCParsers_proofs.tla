-------------------------- MODULE MCParsers_proofs --------------------------
(***************************************************************************)
(* What is proved of the two algorithms that MCArchives runs, the order of *)
(* Debian versions and the reading of numbers and times in archives: that  *)
(* they compute what they are said to compute, for texts of every length,  *)
(* any characters, letters and codes, any limits, bases and sizes.         *)
(*                                                                         *)
(* These are results about recursive functions, so they rest on induction: *)
(* LeastNumber, NoneFails and Recursion are stated of sets and functions,  *)
(* which the provers can be given, and not of predicates.                  *)
(***************************************************************************)
EXTENDS MCArchives, WellFoundedInduction, SequenceTheorems, TLAPS

-----------------------------------------------------------------------------
(***************************************************************************)
(* Induction.  The least number principle is the library's; what is recursive*)
(* is a function, so it is the value of a functional, and the functional is*)
(* an ordinary argument.                                                   *)
(***************************************************************************)

LEMMA LeastNumber ==
  ASSUME NEW T \in SUBSET Nat, T # {}
  PROVE  \E x \in T : \A y \in T : x <= y
<1> DEFINE R == {ss \in Nat \X Nat : ss[1] < ss[2]}
<1>0. R = OpToRel(<, Nat)
  BY DEF OpToRel
<1>1. IsWellFoundedOn(R, Nat)
  BY <1>0, NatLessThanWellFounded
<1> HIDE DEF R
<1>2. PICK x \in T : \A y \in T : ~(<<y, x>> \in R)
  BY <1>1, WFMin
<1>3. \A u, y \in Nat : y < u => <<y, u>> \in R
  BY DEF R
<1>4. \A y \in T : ~(y < x)
  BY <1>2, <1>3
<1>5. x \in Nat /\ \A y \in T : y \in Nat
  BY T \subseteq Nat
<1> QED
  BY <1>4, <1>5, T \subseteq Nat

\* Induction over what has a size: if the things of which something fails are
\* closed downwards there are none.
Descends(Bad, S, size) ==
  /\ size \in [S -> Nat] /\ Bad \in SUBSET S
  /\ \A x \in Bad : \E y \in Bad : size[y] < size[x]

LEMMA NoneFails ==
  ASSUME NEW S, NEW size, NEW Bad, Descends(Bad, S, size)
  PROVE  Bad = {}
<1> USE DEF Descends
<1> SUFFICES ASSUME Bad # {}
             PROVE  FALSE
  OBVIOUS
<1> DEFINE T == {size[x] : x \in Bad}
<1>1. T \in SUBSET Nat /\ T # {}
  OBVIOUS
<1>2. PICK n \in T : \A m \in T : n <= m
  BY <1>1, LeastNumber
<1>3. PICK x \in Bad : n = size[x]
  OBVIOUS
<1>4. PICK y \in Bad : size[y] < size[x]
  OBVIOUS
<1>5. n <= size[y]
  BY <1>2
<1> QED
  BY <1>3, <1>4, <1>5

\* A recursive definition: D[<<f, x>>] is made of the values of f at what is smaller.
Recurs(D, S, V, size) ==
  /\ V # {} /\ size \in [S -> Nat] /\ D \in [[S -> V] \X S -> V]
  /\ \A g, h \in [S -> V], x \in S :
       (\A y \in S : size[y] < size[x] => g[y] = h[y]) => D[<<g, x>>] = D[<<h, x>>]

LEMMA Recursion ==
  ASSUME NEW S, NEW V, NEW size, NEW D, Recurs(D, S, V, size)
  PROVE  \E f \in [S -> V] : \A x \in S : f[x] = D[<<f, x>>]
<1> USE DEF Recurs
<1> DEFINE Upto(n, g) == \A x \in S : size[x] < n => g[x] = D[<<g, x>>]
           Fails      == {n \in Nat : ~\E g \in [S -> V] : Upto(n, g)}
<1>1. \A g, h \in [S -> V], n \in Nat :
         Upto(n, g) /\ Upto(n, h) => \A x \in S : size[x] < n => g[x] = h[x]
  <2> SUFFICES ASSUME NEW g \in [S -> V], NEW h \in [S -> V], NEW n \in Nat, Upto(n, g), Upto(n, h)
               PROVE  {x \in S : size[x] < n /\ g[x] # h[x]} = {}
    OBVIOUS
  <2> DEFINE Bad == {x \in S : size[x] < n /\ g[x] # h[x]}
  <2>1. \A x \in Bad : \E y \in Bad : size[y] < size[x]
    <3> SUFFICES ASSUME NEW x \in Bad, \A y \in Bad : ~(size[y] < size[x])
                 PROVE  FALSE
      OBVIOUS
    <3>1. \A y \in S : size[y] < size[x] => g[y] = h[y]
      OBVIOUS
    <3>2. D[<<g, x>>] = D[<<h, x>>]
      BY <3>1
    <3> QED
      BY <3>2
  <2>2. Bad \in SUBSET S
    OBVIOUS
  <2>3. Bad = {}
    <3>1. Descends(Bad, S, size)
      BY <2>1, <2>2 DEF Descends
    <3> HIDE DEF Bad, Upto, Fails
    <3> QED
      BY <3>1, NoneFails
  <2> QED
    BY <2>3
<1>2. Fails = {}
  <2> DEFINE id == [n \in Nat |-> n]
  <2>1. \A n \in Fails : \E m \in Fails : id[m] < id[n]
    <3> SUFFICES ASSUME NEW n \in Fails, \A m \in Fails : ~(m < n)
                 PROVE  FALSE
      OBVIOUS
    <3>1. n # 0
      <4>1. \E g : g \in [S -> V]
        <5>1. PICK v \in V : TRUE
          OBVIOUS
        <5> QED
          BY [x \in S |-> v] \in [S -> V]
      <4> QED
        BY <4>1
    <3>2. PICK g \in [S -> V] : Upto(n - 1, g)
      <4>1. n - 1 \in Nat /\ n - 1 < n
        BY <3>1
      <4>2. n - 1 \notin Fails
        BY <4>1
      <4> HIDE DEF Upto
      <4> QED
        BY <4>1, <4>2
    <3> DEFINE h == [x \in S |-> D[<<g, x>>]]
    <3>3. h \in [S -> V]
      OBVIOUS
    <3>4. \A x \in S : size[x] < n - 1 => h[x] = g[x]
      BY <3>2
    <3>5. \A x \in S : size[x] < n => h[x] = D[<<h, x>>]
      <4> SUFFICES ASSUME NEW x \in S, size[x] < n
                   PROVE  D[<<g, x>>] = D[<<h, x>>]
        OBVIOUS
      <4>1. \A y \in S : size[y] < size[x] => g[y] = h[y]
        BY <3>4
      <4> HIDE DEF h
      <4> QED
        BY <4>1, <3>3
    <3> QED
      BY <3>3, <3>5
  <2> HIDE DEF Fails
  <2>2. Fails \in SUBSET Nat /\ id \in [Nat -> Nat]
    BY DEF Fails
  <2> HIDE DEF id
  <2>3. Descends(Fails, Nat, id)
    BY <2>1, <2>2 DEF Descends
  <2> QED
    BY <2>3, NoneFails
<1>3. \A n \in Nat : \E g \in [S -> V] : Upto(n, g)
  BY <1>2
<1> DEFINE G(n) == CHOOSE g \in [S -> V] : Upto(n, g)
           f    == [x \in S |-> G(size[x] + 1)[x]]
<1>4. \A n \in Nat : G(n) \in [S -> V] /\ Upto(n, G(n))
  BY <1>3
<1> HIDE DEF G
<1>5. \A x \in S : size[x] \in Nat /\ size[x] + 1 \in Nat
  OBVIOUS
<1>6. f \in [S -> V]
  BY <1>4, <1>5
<1>7. ASSUME NEW x \in S
      PROVE  f[x] = D[<<f, x>>]
  <2> DEFINE g == G(size[x] + 1)
  <2>1. g \in [S -> V] /\ Upto(size[x] + 1, g) /\ f[x] = g[x]
    BY <1>4, <1>5
  <2>2. \A y \in S : size[y] < size[x] => g[y] = f[y]
    <3> SUFFICES ASSUME NEW y \in S, size[y] < size[x]
                 PROVE  g[y] = f[y]
      OBVIOUS
    <3> DEFINE h == G(size[y] + 1)
    <3>1. h \in [S -> V] /\ Upto(size[y] + 1, h) /\ f[y] = h[y]
      BY <1>4, <1>5
    <3>2. Upto(size[y] + 1, g)
      <4> HIDE DEF g
      <4> QED
        BY <2>1, <1>5
    <3> HIDE DEF g, h, f, Upto
    <3>3. \A z \in S : size[z] < size[y] + 1 => g[z] = h[z]
      BY <1>1, <2>1, <3>1, <3>2, <1>5
    <3> QED
      BY <3>1, <3>3
  <2>3. g[x] = D[<<g, x>>]
    <3> HIDE DEF g, f
    <3> QED
      BY <2>1, <1>5
  <2> HIDE DEF g, f
  <2> QED
    BY <2>1, <2>2, <2>3, <1>6
<1> HIDE DEF f
<1> QED
  BY <1>6, <1>7

LEMMA TailFacts ==
  ASSUME NEW S, NEW s \in Seq(S), s # <<>>
  PROVE  /\ Tail(s) \in Seq(S) /\ Len(s) \in Nat \ {0} /\ Len(Tail(s)) = Len(s) - 1
         /\ \A i \in 1 .. Len(s) - 1 : Tail(s)[i] = s[i + 1]
         /\ Head(s) = s[1] /\ Head(s) \in S
  OBVIOUS

LEMMA EmptyFacts ==
  ASSUME NEW S, NEW s \in Seq(S)
  PROVE  /\ Len(s) \in Nat /\ (Len(s) = 0 <=> s = <<>>)
         /\ \A i \in 1 .. Len(s) : s[i] \in S
         /\ <<>> \in Seq(S)
  OBVIOUS

LEMMA SameSequence ==
  ASSUME NEW S, NEW s \in Seq(S), NEW t \in Seq(S), Len(s) = Len(t), \A i \in 1 .. Len(s) : s[i] = t[i]
  PROVE  s = t
  OBVIOUS

\* All but the last.
Front(s) == SubSeq(s, 1, Len(s) - 1)

-----------------------------------------------------------------------------
(***************************************************************************)
(* The order of versions.                                                  *)
(***************************************************************************)

Length == [s \in Order!Texts |-> Len(s)]

LEMMA TextFacts ==
  /\ Length \in [Order!Texts -> Nat]
  /\ \A s \in Order!Texts : s # <<>> => /\ Tail(s) \in Order!Texts /\ Length[Tail(s)] < Length[s]
                                        /\ Head(s) \in Characters \cup Order!Numerals
  /\ <<>> \in Order!Texts
  BY DEF Length, Order!Texts

LEMMA RunIs ==
  /\ Order!Run \in [Order!Texts -> Nat]
  /\ \A s \in Order!Texts : Order!Run[s] = IF s = <<>> \/ Head(s) \notin Order!Numerals THEN 0 ELSE 1 + Order!Run[Tail(s)]
<1> DEFINE S == Order!Texts
           D == [z \in [S -> Nat] \X S |->
                   IF z[2] = <<>> \/ Head(z[2]) \notin Order!Numerals THEN 0 ELSE 1 + z[1][Tail(z[2])]]
<1>1. Recurs(D, S, Nat, Length)
  BY TextFacts DEF Recurs
<1> HIDE DEF D
<1>3. PICK f \in [S -> Nat] : \A x \in S : f[x] = D[<<f, x>>]
  BY <1>1, Recursion
<1> USE DEF D
<1>4. f = [s \in S |-> IF s = <<>> \/ Head(s) \notin Order!Numerals THEN 0 ELSE 1 + f[Tail(s)]]
  <2>1. \A x \in S : D[<<f, x>>] = IF x = <<>> \/ Head(x) \notin Order!Numerals THEN 0 ELSE 1 + f[Tail(x)]
    OBVIOUS
  <2> HIDE DEF S, D
  <2> QED BY <1>3, <2>1
<1>5. Order!Run = [s \in S |-> IF s = <<>> \/ Head(s) \notin Order!Numerals THEN 0 ELSE 1 + Order!Run[Tail(s)]]
  BY <1>4 DEF Order!Run
<1>6. {s \in S : Order!Run[s] \notin Nat} = {}
  <2> DEFINE Bad == {s \in S : Order!Run[s] \notin Nat}
  <2>1. \A s \in Bad : \E y \in Bad : Length[y] < Length[s]
    <3> SUFFICES ASSUME NEW s \in S, Order!Run[s] \notin Nat
                 PROVE  s # <<>> /\ Order!Run[Tail(s)] \notin Nat
      BY TextFacts
    <3>1. Order!Run[s] # 0
      OBVIOUS
    <3>2. s # <<>> /\ Order!Run[s] = 1 + Order!Run[Tail(s)]
      BY <1>5, <3>1
    <3> QED BY <3>2
  <2>2. Bad \in SUBSET S
    OBVIOUS
  <2>3. Descends(Bad, S, Length)
    BY <2>1, <2>2, TextFacts DEF Descends
  <2> HIDE DEF Bad
  <2> QED
    BY <2>3, NoneFails DEF Bad
<1> QED
  BY <1>5, <1>6

LEMMA Slices ==
  ASSUME NEW s \in Order!Texts, NEW n \in 0 .. Len(s)
  PROVE  /\ Order!After(s, n) \in Order!Texts /\ Len(Order!After(s, n)) = Len(s) - n
         /\ \A i \in 1 .. Len(s) - n : Order!After(s, n)[i] = s[i + n]
         /\ SubSeq(s, 1, n) \in Order!Texts /\ Len(SubSeq(s, 1, n)) = n
         /\ \A i \in 1 .. n : SubSeq(s, 1, n)[i] = s[i]
  BY SubSeqProperties DEF Order!After, Order!Texts

LEMMA RunFacts ==
  ASSUME NEW s \in Order!Texts
  PROVE  /\ Order!Run[s] \in 0 .. Len(s)
         /\ \A i \in 1 .. Order!Run[s] : s[i] \in Order!Numerals
         /\ SubSeq(s, 1, Order!Run[s]) \in Seq(Order!Numerals)
         /\ s # <<>> /\ Head(s) \in Order!Numerals => Order!Run[s] > 0
<1> DEFINE Fine(t) == Order!Run[t] <= Len(t) /\ \A i \in 1 .. Order!Run[t] : t[i] \in Order!Numerals
           Bad == {t \in Order!Texts : ~Fine(t)}
<1>1. \A t \in Bad : \E u \in Bad : Length[u] < Length[t]
  <2> SUFFICES ASSUME NEW t \in Order!Texts, ~Fine(t)
               PROVE  t # <<>> /\ ~Fine(Tail(t))
    BY TextFacts
  <2>1. Order!Run[t] # 0
    BY DEF Order!Texts
  <2>2. t # <<>> /\ Head(t) \in Order!Numerals /\ Order!Run[t] = 1 + Order!Run[Tail(t)]
    BY <2>1, RunIs
  <2>3. Tail(t) \in Order!Texts /\ Len(Tail(t)) = Len(t) - 1 /\ \A i \in 1 .. Len(t) - 1 : Tail(t)[i] = t[i + 1]
    BY <2>2 DEF Order!Texts
  <2>4. Order!Run[Tail(t)] \in Nat /\ Len(t) \in Nat
    <3>1. Order!Run[Tail(t)] \in Nat
      BY <2>3, RunIs
    <3> QED
      BY <3>1 DEF Order!Texts
  <2>5. ASSUME Fine(Tail(t))
        PROVE  FALSE
    <3>1. \A i \in 1 .. Order!Run[t] : i = 1 \/ (i - 1 \in 1 .. Order!Run[Tail(t)] /\ t[i] = Tail(t)[i - 1])
      BY <2>2, <2>3, <2>4, <2>5
    <3> QED
      BY <2>2, <2>3, <2>4, <2>5, <3>1 DEF Order!Texts
  <2> QED
    BY <2>2, <2>5
<1>2. Descends(Bad, Order!Texts, Length)
  BY <1>1, TextFacts DEF Descends
<1> HIDE DEF Bad
<1>3. Bad = {}
  BY <1>2, NoneFails
<1>4. Fine(s) /\ Order!Run[s] \in Nat /\ Len(s) \in Nat
  BY <1>3, RunIs DEF Bad, Order!Texts
<1>5. SubSeq(s, 1, Order!Run[s]) \in Seq(Order!Numerals)
  <2>1. SubSeq(s, 1, Order!Run[s]) = [i \in 1 .. Order!Run[s] |-> s[i]]
    BY <1>4 DEF Order!Texts
  <2> QED
    BY <1>4, <2>1
<1>6. s # <<>> /\ Head(s) \in Order!Numerals => Order!Run[s] > 0
  <2> SUFFICES ASSUME s # <<>>, Head(s) \in Order!Numerals
               PROVE  Order!Run[s] > 0
    OBVIOUS
  <2>1. Order!Run[s] = 1 + Order!Run[Tail(s)] /\ Order!Run[Tail(s)] \in Nat
    BY RunIs, TextFacts
  <2> QED
    BY <2>1
<1> QED
  BY <1>4, <1>5, <1>6

LEMMA NumeralFacts ==
  /\ \A c \in Order!Numerals : Order!Numeral[c] \in 0 .. 9 /\ (Order!Numeral[c] = 0 <=> c = "0")
  /\ \A c, d \in Order!Numerals : Order!Numeral[c] = Order!Numeral[d] => c = d
<1> DEFINE Is(c, i) == i \in 1 .. 10 /\ Order!Figures[i] = c
<1>1. \A c \in Order!Numerals : \E i : Is(c, i)
  BY DEF Order!Numerals
<1>2. \A c, i, j : Is(c, i) /\ Is(c, j) => i = j
  BY DEF Order!Figures
<1>3. \A c \in Order!Numerals : Is(c, CHOOSE i : Is(c, i))
  BY <1>1
<1>4. \A c \in Order!Numerals : Order!Numeral[c] = (CHOOSE i \in 1 .. 10 : Order!Figures[i] = c) - 1
  BY DEF Order!Numeral
<1>5. \A c \in Order!Numerals : Is(c, Order!Numeral[c] + 1)
  <2> SUFFICES ASSUME NEW c \in Order!Numerals
               PROVE  Is(c, Order!Numeral[c] + 1)
    OBVIOUS
  <2>1. PICK i \in 1 .. 10 : Order!Figures[i] = c
    BY DEF Order!Numerals
  <2>2. (CHOOSE j \in 1 .. 10 : Order!Figures[j] = c) = i
    BY <2>1, <1>2
  <2>3. i - 1 + 1 = i
    OBVIOUS
  <2>4. Order!Numeral[c] + 1 = i
    BY <1>4, <2>2, <2>3
  <2> QED
    BY <2>1, <2>4
<1>6. \A c \in Order!Numerals : Order!Numeral[c] \in 0 .. 9
  BY <1>4, <1>5
<1> QED
  BY <1>2, <1>5, <1>6 DEF Order!Figures

LEMMA StrippedIs ==
  /\ Order!Stripped \in [Order!Texts -> Order!Texts]
  /\ \A s \in Order!Texts : Order!Stripped[s] = IF s # <<>> /\ Head(s) = "0" THEN Order!Stripped[Tail(s)] ELSE s
<1> DEFINE S == Order!Texts
           D == [z \in [S -> S] \X S |-> IF z[2] # <<>> /\ Head(z[2]) = "0" THEN z[1][Tail(z[2])] ELSE z[2]]
<1>1. Recurs(D, S, S, Length)
  BY TextFacts DEF Recurs
<1> HIDE DEF D
<1>2. PICK f \in [S -> S] : \A x \in S : f[x] = D[<<f, x>>]
  BY <1>1, Recursion
<1> USE DEF D
<1>3. f = [s \in S |-> IF s # <<>> /\ Head(s) = "0" THEN f[Tail(s)] ELSE s]
  <2>1. \A x \in S : D[<<f, x>>] = IF x # <<>> /\ Head(x) = "0" THEN f[Tail(x)] ELSE x
    OBVIOUS
  <2> HIDE DEF S, D
  <2> QED
    BY <1>2, <2>1
<1>4. Order!Stripped = [s \in S |-> IF s # <<>> /\ Head(s) = "0" THEN Order!Stripped[Tail(s)] ELSE s]
  BY <1>3 DEF Order!Stripped
<1>5. {s \in S : Order!Stripped[s] \notin S} = {}
  <2> DEFINE Bad == {s \in S : Order!Stripped[s] \notin S}
  <2>1. \A s \in Bad : \E y \in Bad : Length[y] < Length[s]
    BY <1>4, TextFacts
  <2>2. Descends(Bad, S, Length)
    BY <2>1, TextFacts DEF Descends
  <2> HIDE DEF Bad
  <2> QED
    BY <2>2, NoneFails DEF Bad
<1> QED
  BY <1>4, <1>5

LEMMA LastNumeral ==
  ASSUME NEW s \in Seq(Order!Numerals), s # <<>>
  PROVE  /\ Len(s) \in Nat \ {0} /\ Front(s) \in Seq(Order!Numerals) /\ Len(Front(s)) = Len(s) - 1
         /\ \A i \in 1 .. Len(s) - 1 : Front(s)[i] = s[i]
         /\ s[Len(s)] \in Order!Numerals /\ Order!Numeral[s[Len(s)]] \in 0 .. 9
<1>1. Front(s) = [i \in 1 .. Len(s) - 1 |-> s[i]] /\ Len(s) \in Nat \ {0}
  BY DEF Front
<1>2. s[Len(s)] \in Order!Numerals
  BY <1>1
<1> QED
  BY <1>1, <1>2, NumeralFacts

LEMMA ValueIs ==
  /\ Order!Value \in [Seq(Order!Numerals) -> Nat]
  /\ \A s \in Seq(Order!Numerals) : Order!Value[s] = IF s = <<>> THEN 0 ELSE Order!Value[Front(s)] * 10 + Order!Numeral[s[Len(s)]]
<1> DEFINE S == Seq(Order!Numerals)
           size == [s \in S |-> Len(s)]
           D == [z \in [S -> Nat] \X S |->
                   IF z[2] = <<>> THEN 0 ELSE z[1][Front(z[2])] * 10 + Order!Numeral[z[2][Len(z[2])]]]
<1>1. size \in [S -> Nat] /\ \A s \in S : s # <<>> => Front(s) \in S /\ size[Front(s)] < size[s]
  <2>1. size \in [S -> Nat]
    OBVIOUS
  <2>2. ASSUME NEW s \in S, s # <<>>
        PROVE  Front(s) \in S /\ Len(Front(s)) < Len(s)
    BY <2>2, LastNumeral
  <2> QED
    BY <2>1, <2>2
<1>2. ASSUME NEW s \in S, s # <<>>
      PROVE  Order!Numeral[s[Len(s)]] \in Nat
  <2>1. Order!Numeral[s[Len(s)]] \in 0 .. 9
    BY <1>2, LastNumeral
  <2> QED
    BY <2>1
<1>3. Recurs(D, S, Nat, size)
  <2>1. D \in [[S -> Nat] \X S -> Nat]
    <3>1. ASSUME NEW g \in [S -> Nat], NEW s \in S, s # <<>>
          PROVE  g[Front(s)] * 10 + Order!Numeral[s[Len(s)]] \in Nat
      <4>1. Front(s) \in S /\ Order!Numeral[s[Len(s)]] \in Nat
        BY <1>1, <1>2, <3>1
      <4> QED
        BY <4>1
    <3> HIDE DEF S
    <3> QED
      BY <3>1
  <2>2. ASSUME NEW g \in [S -> Nat], NEW h \in [S -> Nat], NEW s \in S,
               \A y \in S : size[y] < size[s] => g[y] = h[y]
        PROVE  D[<<g, s>>] = D[<<h, s>>]
    <3> HIDE DEF size
    <3> QED
      BY <2>2, <1>1
  <2> HIDE DEF D, size, S
  <2> QED
    BY <1>1, <2>1, <2>2 DEF Recurs
<1> HIDE DEF D
<1>4. PICK f \in [S -> Nat] : \A x \in S : f[x] = D[<<f, x>>]
  BY <1>3, Recursion
<1> USE DEF D
<1>5. f = [s \in S |-> IF s = <<>> THEN 0 ELSE f[Front(s)] * 10 + Order!Numeral[s[Len(s)]]]
  <2>1. \A x \in S : D[<<f, x>>] = IF x = <<>> THEN 0 ELSE f[Front(x)] * 10 + Order!Numeral[x[Len(x)]]
    OBVIOUS
  <2> HIDE DEF S, D
  <2> QED
    BY <1>4, <2>1
<1>6. Order!Value = [s \in S |-> IF s = <<>> THEN 0 ELSE Order!Value[Front(s)] * 10 + Order!Numeral[s[Len(s)]]]
  BY <1>5 DEF Order!Value, Front
<1>7. {s \in S : Order!Value[s] \notin Nat} = {}
  <2> DEFINE Bad == {s \in S : Order!Value[s] \notin Nat}
  <2>1. \A s \in Bad : \E y \in Bad : size[y] < size[s]
    <3> SUFFICES ASSUME NEW s \in S, Order!Value[s] \notin Nat
                 PROVE  s # <<>> /\ Order!Value[Front(s)] \notin Nat
      BY <1>1
    <3>1. Order!Value[s] # 0
      OBVIOUS
    <3>2. s # <<>> /\ Order!Value[s] = Order!Value[Front(s)] * 10 + Order!Numeral[s[Len(s)]]
      BY <1>6, <3>1
    <3>3. Order!Numeral[s[Len(s)]] \in Nat
      BY <1>2, <3>2
    <3> QED
      BY <3>2, <3>3
  <2>2. Descends(Bad, S, size)
    BY <1>1, <2>1 DEF Descends
  <2> HIDE DEF Bad
  <2> QED
    BY <2>2, NoneFails DEF Bad
<1> QED
  BY <1>6, <1>7

LEMMA Sizes == [s \in Seq(Order!Numerals) |-> Len(s)] \in [Seq(Order!Numerals) -> Nat]
  OBVIOUS

LEMMA LastDigit ==
  ASSUME NEW s \in Seq(Order!Numerals), s # <<>>
  PROVE  \E d \in 0 .. 9 : d = Order!Numeral[s[Len(s)]] /\ Order!Value[s] = Order!Value[Front(s)] * 10 + d /\ Order!Value[Front(s)] \in Nat
  BY LastNumeral, ValueIs

LEMMA Tens == \A m, n \in Nat : \A d, e \in 0 .. 9 : m < n => m * 10 + d < n * 10 + e
  OBVIOUS

\* A zero in front counts for nothing.
LEMMA ZeroInFront ==
  ASSUME NEW s \in Seq(Order!Numerals), s # <<>>, Head(s) = "0"
  PROVE  Order!Value[s] = Order!Value[Tail(s)]
<1> DEFINE S == Seq(Order!Numerals)
           size == [t \in S |-> Len(t)]
           Bad == {t \in S : t # <<>> /\ Head(t) = "0" /\ Order!Value[t] # Order!Value[Tail(t)]}
<1>1. ASSUME NEW t \in Bad
      PROVE  Front(t) \in Bad /\ Len(Front(t)) < Len(t)
  <2>1. t \in S /\ t # <<>> /\ t[1] = "0" /\ Order!Value[t] # Order!Value[Tail(t)]
    BY TailFacts
  <2> HIDE DEF Bad, S
  <2>2. PICK d \in 0 .. 9 : d = Order!Numeral[t[Len(t)]] /\ Order!Value[t] = Order!Value[Front(t)] * 10 + d /\ Order!Value[Front(t)] \in Nat
    BY <2>1, LastDigit DEF S
  <2>3. /\ Front(t) \in S /\ Len(Front(t)) = Len(t) - 1 /\ \A i \in 1 .. Len(t) - 1 : Front(t)[i] = t[i]
        /\ Tail(t) \in S /\ Len(Tail(t)) = Len(t) - 1 /\ \A i \in 1 .. Len(t) - 1 : Tail(t)[i] = t[i + 1]
        /\ Len(t) \in Nat \ {0}
    BY <2>1, LastNumeral, TailFacts DEF S
  <2>4. Len(t) # 1
    <3> SUFFICES ASSUME Len(t) = 1
                 PROVE  Order!Value[t] = Order!Value[Tail(t)]
      BY <2>1
    <3>1. Tail(t) = <<>> /\ Front(t) = <<>>
      BY <2>3, EmptyFacts DEF S
    <3>2. d = 0
      BY <2>1, <2>2, <2>3, EmptyFacts, NumeralFacts DEF S
    <3>3. Order!Value[<<>>] = 0
      BY ValueIs, EmptyFacts
    <3>4. Order!Value[t] = 0 * 10 + 0
      BY <2>2, <3>1, <3>2, <3>3
    <3>5. Order!Value[Tail(t)] = 0
      BY <3>1, <3>3
    <3> QED
      BY <3>4, <3>5
  <2>5. Tail(t) # <<>> /\ Front(t) # <<>> /\ Front(t)[1] = "0" /\ Head(Front(t)) = "0"
    <3>1. Tail(t) # <<>> /\ Front(t) # <<>> /\ Front(t)[1] = "0"
      BY <2>1, <2>3, <2>4, EmptyFacts DEF S
    <3> QED
      BY <2>3, <3>1, TailFacts DEF S
  <2>6. /\ Front(Tail(t)) \in S /\ Len(Front(Tail(t))) = Len(t) - 2
        /\ \A i \in 1 .. Len(t) - 2 : Front(Tail(t))[i] = t[i + 1]
    <3>1. Tail(t) \in Seq(Order!Numerals) /\ Tail(t) # <<>>
      BY <2>3, <2>5 DEF S
    <3>2. /\ Front(Tail(t)) \in Seq(Order!Numerals) /\ Len(Front(Tail(t))) = Len(Tail(t)) - 1
          /\ \A i \in 1 .. Len(Tail(t)) - 1 : Front(Tail(t))[i] = Tail(t)[i]
      BY <3>1, LastNumeral
    <3> QED
      BY <2>3, <3>2 DEF S
  <2>7. /\ Tail(Front(t)) \in S /\ Len(Tail(Front(t))) = Len(t) - 2
        /\ \A i \in 1 .. Len(t) - 2 : Tail(Front(t))[i] = t[i + 1]
    BY <2>3, <2>4, <2>5, TailFacts DEF S
  <2>8. Front(Tail(t)) = Tail(Front(t))
    BY <2>6, <2>7, SameSequence DEF S
  <2>9. Order!Value[Tail(t)] = Order!Value[Tail(Front(t))] * 10 + d
    <3>1. Tail(t)[Len(Tail(t))] = t[Len(t)]
      BY <2>3, <2>4
    <3>2. Order!Value[Tail(t)] = Order!Value[Front(Tail(t))] * 10 + Order!Numeral[Tail(t)[Len(Tail(t))]]
      BY <2>3, <2>5, ValueIs DEF S
    <3> QED
      BY <2>2, <2>8, <3>1, <3>2
  <2>10. Order!Value[Front(t)] # Order!Value[Tail(Front(t))]
    BY <2>1, <2>2, <2>9
  <2> QED
    BY <2>3, <2>5, <2>10 DEF Bad
<1>2. Descends(Bad, S, size)
  BY <1>1, Sizes DEF Descends
<1> HIDE DEF Bad
<1> QED
  BY <1>2, NoneFails DEF Bad

LEMMA StrippedFacts ==
  ASSUME NEW s \in Seq(Order!Numerals)
  PROVE  /\ Order!Stripped[s] \in Seq(Order!Numerals) /\ Order!Value[Order!Stripped[s]] = Order!Value[s]
         /\ Order!Stripped[s] # <<>> => Order!Stripped[s][1] # "0"
<1> DEFINE S == Seq(Order!Numerals)
           size == [t \in S |-> Len(t)]
           Fine(t) == /\ Order!Stripped[t] \in Seq(Order!Numerals) /\ Order!Value[Order!Stripped[t]] = Order!Value[t]
                      /\ Order!Stripped[t] # <<>> => Order!Stripped[t][1] # "0"
           Bad == {t \in S : ~Fine(t)}
<1>1. ASSUME NEW t \in Bad
      PROVE  Tail(t) \in Bad /\ Len(Tail(t)) < Len(t)
  <2>1. t \in Order!Texts /\ Order!Stripped[t] = IF t # <<>> /\ Head(t) = "0" THEN Order!Stripped[Tail(t)] ELSE t
    BY StrippedIs DEF Order!Texts
  <2>2. t # <<>> /\ Head(t) = "0"
    BY <2>1
  <2>3. Tail(t) \in S /\ Len(Tail(t)) < Len(t) /\ Order!Value[t] = Order!Value[Tail(t)]
    BY <2>2, ZeroInFront
  <2> QED
    BY <2>1, <2>2, <2>3
<1>2. Descends(Bad, S, size)
  BY <1>1, Sizes DEF Descends
<1> HIDE DEF Bad
<1> QED
  BY <1>2, NoneFails DEF Bad

\* A number that begins with another digit than zero is none.
LEMMA Positive ==
  ASSUME NEW s \in Seq(Order!Numerals), s # <<>>, s[1] # "0"
  PROVE  Order!Value[s] > 0
<1> DEFINE S == Seq(Order!Numerals)
           size == [t \in S |-> Len(t)]
           Bad == {t \in S : t # <<>> /\ t[1] # "0" /\ ~(Order!Value[t] > 0)}
<1>1. ASSUME NEW t \in Bad
      PROVE  Front(t) \in Bad /\ Len(Front(t)) < Len(t)
  <2>1. t \in S /\ t # <<>> /\ t[1] # "0" /\ ~(Order!Value[t] > 0)
    OBVIOUS
  <2> HIDE DEF Bad, S
  <2>2. PICK d \in 0 .. 9 : d = Order!Numeral[t[Len(t)]] /\ Order!Value[t] = Order!Value[Front(t)] * 10 + d /\ Order!Value[Front(t)] \in Nat
    BY <2>1, LastDigit DEF S
  <2>3. Order!Value[Front(t)] = 0 /\ d = 0
    BY <2>1, <2>2
  <2>4. /\ Len(t) \in Nat \ {0} /\ Front(t) \in S /\ Len(Front(t)) = Len(t) - 1 /\ t[Len(t)] \in Order!Numerals
        /\ \A i \in 1 .. Len(t) - 1 : Front(t)[i] = t[i]
    BY <2>1, LastNumeral DEF S
  <2>5. t[Len(t)] = "0"
    BY <2>2, <2>3, <2>4, NumeralFacts
  <2>6. Len(t) # 1 /\ Front(t) # <<>> /\ Front(t)[1] = t[1]
    BY <2>1, <2>4, <2>5, EmptyFacts DEF S
  <2> QED
    BY <2>1, <2>3, <2>4, <2>6 DEF Bad
<1>2. Descends(Bad, S, size)
  BY <1>1, Sizes DEF Descends
<1> HIDE DEF Bad
<1> QED
  BY <1>2, NoneFails, ValueIs DEF Bad

\* Of two numbers the one with more digits is greater, if it has no zero in front.
LEMMA LongerIsGreater ==
  ASSUME NEW s \in Seq(Order!Numerals), NEW t \in Seq(Order!Numerals), Len(s) < Len(t), t[1] # "0"
  PROVE  Order!Value[s] < Order!Value[t]
<1> DEFINE S == Seq(Order!Numerals)
           size == [x \in S |-> Len(x)]
           Fails(x, y) == Len(x) < Len(y) /\ y[1] # "0" /\ ~(Order!Value[x] < Order!Value[y])
           Bad == {x \in S : \E y \in S : Fails(x, y)}
<1>1. ASSUME NEW x \in Bad
      PROVE  Front(x) \in Bad /\ Len(Front(x)) < Len(x)
  <2>1. PICK y \in S : Fails(x, y)
    OBVIOUS
  <2>2. x \in S
    OBVIOUS
  <2> HIDE DEF Bad, S
  <2>3. y # <<>> /\ Order!Value[y] \in Nat /\ Order!Value[x] \in Nat /\ ~(Order!Value[x] < Order!Value[y]) /\ Len(x) \in Nat /\ Len(y) \in Nat
    BY <2>1, <2>2, EmptyFacts, ValueIs DEF S
  <2>4. x # <<>>
    <3>1. Order!Value[y] > 0 /\ Order!Value[<<>>] = 0
      BY <2>1, <2>3, Positive, ValueIs, EmptyFacts DEF S
    <3> QED
      BY <2>3, <3>1
  <2>5. PICK d \in 0 .. 9 : Order!Value[x] = Order!Value[Front(x)] * 10 + d /\ Order!Value[Front(x)] \in Nat
    BY <2>2, <2>4, LastDigit DEF S
  <2>6. PICK e \in 0 .. 9 : Order!Value[y] = Order!Value[Front(y)] * 10 + e /\ Order!Value[Front(y)] \in Nat
    BY <2>3, LastDigit DEF S
  <2>7. ~(Order!Value[Front(x)] < Order!Value[Front(y)])
    BY <2>3, <2>5, <2>6, Tens
  <2>8. /\ Front(x) \in S /\ Front(y) \in S /\ Len(Front(x)) = Len(x) - 1 /\ Len(Front(y)) = Len(y) - 1
        /\ Len(x) # 0 /\ Front(y)[1] = y[1]
    <3>1. Len(x) # 0 /\ Len(y) > 1
      BY <2>1, <2>2, <2>3, <2>4, EmptyFacts DEF S
    <3> QED
      BY <2>2, <2>3, <2>4, <3>1, LastNumeral DEF S
  <2>9. Fails(Front(x), Front(y))
    BY <2>1, <2>3, <2>7, <2>8
  <2> QED
    BY <2>3, <2>8, <2>9 DEF Bad
<1>2. Descends(Bad, S, size)
  BY <1>1, Sizes DEF Descends
<1> HIDE DEF Bad
<1> QED
  BY <1>2, NoneFails DEF Bad

\* Of two numbers with as many digits the one that sorts later is greater.
LEMMA LaterIsGreater ==
  ASSUME NEW s \in Seq(Order!Numerals), NEW t \in Seq(Order!Numerals), Len(s) = Len(t), Order!Later(s, t)
  PROVE  Order!Value[t] < Order!Value[s]
<1> DEFINE S == Seq(Order!Numerals)
           size == [x \in S |-> Len(x)]
           Fails(x, y) == Len(x) = Len(y) /\ Order!Later(x, y) /\ ~(Order!Value[y] < Order!Value[x])
           Bad == {x \in S : \E y \in S : Fails(x, y)}
<1>1. ASSUME NEW x \in Bad
      PROVE  Front(x) \in Bad /\ Len(Front(x)) < Len(x)
  <2>1. PICK y \in S : Fails(x, y)
    OBVIOUS
  <2>2. x \in S
    OBVIOUS
  <2> HIDE DEF Bad, S
  <2>3. PICK i \in 1 .. Len(x) : SubSeq(x, 1, i - 1) = SubSeq(y, 1, i - 1) /\ Order!Numeral[x[i]] > Order!Numeral[y[i]]
    <3>1. DOMAIN x = 1 .. Len(x)
      BY <2>2 DEF S
    <3> QED
      BY <2>1, <3>1 DEF Order!Later
  <2>4. x # <<>> /\ y # <<>> /\ Len(x) = Len(y) /\ Len(x) \in Nat \ {0}
    BY <2>1, <2>2, <2>3, EmptyFacts DEF S
  <2>5. PICK d \in 0 .. 9 : d = Order!Numeral[x[Len(x)]] /\ Order!Value[x] = Order!Value[Front(x)] * 10 + d /\ Order!Value[Front(x)] \in Nat
    BY <2>2, <2>4, LastDigit DEF S
  <2>6. PICK e \in 0 .. 9 : e = Order!Numeral[y[Len(y)]] /\ Order!Value[y] = Order!Value[Front(y)] * 10 + e /\ Order!Value[Front(y)] \in Nat
    BY <2>4, LastDigit DEF S
  <2>7. /\ Front(x) \in S /\ Front(y) \in S /\ Len(Front(x)) = Len(x) - 1 /\ Len(Front(y)) = Len(x) - 1
        /\ \A k \in 1 .. Len(x) - 1 : Front(x)[k] = x[k] /\ Front(y)[k] = y[k]
    BY <2>2, <2>4, LastNumeral DEF S
  <2>8. i # Len(x)
    <3> SUFFICES ASSUME i = Len(x)
                 PROVE  Order!Value[y] < Order!Value[x]
      BY <2>1
    <3>1. Front(x) = Front(y)
      BY <2>3, <2>4 DEF Front
    <3> QED
      BY <2>3, <2>4, <2>5, <2>6, <3>1
  <2>9. Order!Later(Front(x), Front(y))
    <3>1. i \in 1 .. Len(x) - 1 /\ i \in DOMAIN Front(x)
      BY <2>3, <2>4, <2>7, <2>8 DEF S
    <3>2. SubSeq(Front(x), 1, i - 1) = SubSeq(x, 1, i - 1) /\ SubSeq(Front(y), 1, i - 1) = SubSeq(y, 1, i - 1)
      BY <2>2, <2>4, <2>7, <3>1 DEF S
    <3> QED
      BY <2>3, <2>7, <3>1, <3>2 DEF Order!Later
  <2>10. ~(Order!Value[Front(y)] < Order!Value[Front(x)])
    <3>1. ~(Order!Value[y] < Order!Value[x])
      BY <2>1
    <3> QED
      BY <2>5, <2>6, <3>1, Tens
  <2>11. Fails(Front(x), Front(y))
    BY <2>7, <2>9, <2>10
  <2> QED
    BY <2>4, <2>7, <2>11 DEF Bad
<1>2. Descends(Bad, S, size)
  BY <1>1, Sizes DEF Descends
<1> HIDE DEF Bad
<1> QED
  BY <1>2, NoneFails DEF Bad

LEMMA OneIsLater ==
  ASSUME NEW s \in Seq(Order!Numerals), NEW t \in Seq(Order!Numerals), Len(s) = Len(t), s # t
  PROVE  Order!Later(s, t) \/ Order!Later(t, s)
<1> DEFINE Differ == {i \in 1 .. Len(s) : s[i] # t[i]}
<1>1. Differ # {} /\ Differ \in SUBSET Nat
  BY SameSequence
<1>2. PICK i \in Differ : \A j \in Differ : i <= j
  BY <1>1, LeastNumber
<1>3. i \in 1 .. Len(s) /\ s[i] # t[i] /\ \A j \in 1 .. i - 1 : s[j] = t[j]
  BY <1>2
<1>4. SubSeq(s, 1, i - 1) = SubSeq(t, 1, i - 1)
  BY <1>3
<1>5. s[i] \in Order!Numerals /\ t[i] \in Order!Numerals /\ i \in DOMAIN s /\ i \in DOMAIN t
  BY <1>3
<1>6. Order!Numeral[s[i]] # Order!Numeral[t[i]] /\ Order!Numeral[s[i]] \in 0 .. 9 /\ Order!Numeral[t[i]] \in 0 .. 9
  BY <1>3, <1>5, NumeralFacts
<1>7. Order!Numeral[s[i]] > Order!Numeral[t[i]] \/ Order!Numeral[t[i]] > Order!Numeral[s[i]]
  BY <1>6
<1> QED
  BY <1>4, <1>5, <1>7 DEF Order!Later

LEMMA DigitsCompare ==
  ASSUME NEW s \in Seq(Order!Numerals), NEW t \in Seq(Order!Numerals)
  PROVE  Order!Digits(s, t) = Order!Sign(Order!Value[s], Order!Value[t])
<1> DEFINE x == Order!Stripped[s]  y == Order!Stripped[t]
<1>1. /\ x \in Seq(Order!Numerals) /\ y \in Seq(Order!Numerals) /\ Order!Value[x] = Order!Value[s] /\ Order!Value[y] = Order!Value[t]
      /\ x # <<>> => x[1] # "0"
      /\ y # <<>> => y[1] # "0"
  BY StrippedFacts
<1>2. /\ Len(x) \in Nat /\ Len(y) \in Nat /\ Order!Value[x] \in Nat /\ Order!Value[y] \in Nat
      /\ (Len(x) = 0 <=> x = <<>>) /\ (Len(y) = 0 <=> y = <<>>)
  BY <1>1, EmptyFacts, ValueIs
<1>3. /\ Len(x) < Len(y) => Order!Value[x] < Order!Value[y]
      /\ Len(y) < Len(x) => Order!Value[y] < Order!Value[x]
  BY <1>1, <1>2, LongerIsGreater
<1>4. Len(x) = Len(y) => /\ Order!Later(x, y) => Order!Value[y] < Order!Value[x]
                         /\ Order!Later(y, x) => Order!Value[x] < Order!Value[y]
                         /\ x = y \/ Order!Later(x, y) \/ Order!Later(y, x)
  BY <1>1, LaterIsGreater, OneIsLater
<1>5. Order!Digits(s, t) = IF Len(x) # Len(y) THEN Order!Sign(Len(x), Len(y))
                           ELSE IF Order!Later(x, y) THEN 1 ELSE IF Order!Later(y, x) THEN -1 ELSE 0
  BY DEF Order!Digits
<1> HIDE DEF x, y
<1>6. Order!Digits(s, t) = Order!Sign(Order!Value[x], Order!Value[y])
  BY <1>2, <1>3, <1>4, <1>5 DEF Order!Sign
<1> QED
  BY <1>1, <1>6

LEMMA WeightFacts ==
  ASSUME NEW s \in Order!Texts
  PROVE  /\ Order!Order(s) \in Int
         /\ Order!Ahead(s) => Order!Order(s) = Order!Weight(Head(s)) /\ Order!Order(s) # 0
         /\ ~Order!Ahead(s) => Order!Order(s) = 0
<1>1. CASE Order!Ahead(s)
  <2>1. Head(s) \in Characters /\ Head(s) \notin Order!Numerals /\ s # <<>>
    BY <1>1, TextFacts DEF Order!Ahead
  <2>2. Head(s) # "~" => Code[Head(s)] \in Nat \ {0}
    BY <2>1, OtherAssumptions DEF Order!CodeAssumption
  <2> QED
    BY <1>1, <2>1, <2>2 DEF Order!Order, Order!Weight
<1>2. CASE ~Order!Ahead(s)
  <2>1. s # <<>> => Head(s) \in Order!Numerals
    BY <1>2 DEF Order!Ahead
  <2>2. "~" \notin Order!Numerals
    BY DEF Order!Numerals, Order!Figures
  <2> QED
    BY <1>2, <2>1, <2>2 DEF Order!Order, Order!Weight
<1> QED
  BY <1>1, <1>2

\* What follows the number in front of a text, which is none if there is no digit.
Beyond(s) == Order!After(s, Order!Run[s])
Leading(s) == SubSeq(s, 1, Order!Run[s])

LEMMA BeyondFacts ==
  ASSUME NEW s \in Order!Texts
  PROVE  /\ Beyond(s) \in Order!Texts /\ Leading(s) \in Seq(Order!Numerals) /\ Order!Value[Leading(s)] \in Nat
         /\ Len(Beyond(s)) <= Len(s)
         /\ s # <<>> /\ ~Order!Ahead(s) => Len(Beyond(s)) < Len(s)
         /\ s = <<>> => Beyond(s) = <<>> /\ Order!Value[Leading(s)] = 0
<1>1. Order!Run[s] \in 0 .. Len(s) /\ Leading(s) \in Seq(Order!Numerals) /\ (s # <<>> /\ Head(s) \in Order!Numerals => Order!Run[s] > 0)
  BY RunFacts DEF Leading
<1>2. Beyond(s) \in Order!Texts /\ Len(Beyond(s)) = Len(s) - Order!Run[s] /\ Len(Leading(s)) = Order!Run[s] /\ Len(s) \in Nat
  BY <1>1, Slices, EmptyFacts DEF Beyond, Leading, Order!Texts
<1>3. Order!Value[Leading(s)] \in Nat
  BY <1>1, ValueIs
<1>4. s = <<>> => Beyond(s) = <<>> /\ Order!Value[Leading(s)] = 0
  <2> SUFFICES ASSUME s = <<>>
               PROVE  Beyond(s) = <<>> /\ Order!Value[Leading(s)] = 0
    OBVIOUS
  <2>1. Len(Beyond(s)) = 0 /\ Len(Leading(s)) = 0
    BY <1>1, <1>2
  <2>2. Beyond(s) = <<>> /\ Leading(s) = <<>>
    BY <1>1, <1>2, <2>1, EmptyFacts DEF Order!Texts
  <2>3. Order!Value[Leading(s)] = 0
    BY <1>1, <2>2, ValueIs
  <2> QED
    BY <2>2, <2>3
<1> QED
  BY <1>1, <1>2, <1>3, <1>4 DEF Order!Ahead

LEMMA KeyIs ==
  /\ Order!Key \in [Order!Texts -> Seq(Int)]
  /\ \A s \in Order!Texts : Order!Key[s] = IF s = <<>> THEN <<>>
                                           ELSE IF Order!Ahead(s) THEN <<Order!Weight(Head(s))>> \o Order!Key[Tail(s)]
                                           ELSE <<0, Order!Value[Leading(s)]>> \o Order!Key[Beyond(s)]
<1> DEFINE S == Order!Texts
           V == Seq(Int)
           D == [z \in [S -> V] \X S |->
                   IF z[2] = <<>> THEN <<>>
                   ELSE IF Order!Ahead(z[2]) THEN <<Order!Weight(Head(z[2]))>> \o z[1][Tail(z[2])]
                   ELSE <<0, Order!Value[Leading(z[2])]>> \o z[1][Beyond(z[2])]]
<1>1. ASSUME NEW s \in S
      PROVE  /\ Order!Ahead(s) => s # <<>> /\ Tail(s) \in S /\ Length[Tail(s)] < Length[s] /\ <<Order!Weight(Head(s))>> \in V
             /\ s # <<>> /\ ~Order!Ahead(s) =>
                  Beyond(s) \in S /\ Length[Beyond(s)] < Length[s] /\ <<0, Order!Value[Leading(s)]>> \in V
  <2>1. Order!Ahead(s) => s # <<>> /\ Tail(s) \in S /\ Length[Tail(s)] < Length[s]
    BY TextFacts DEF Order!Ahead
  <2>2. Order!Ahead(s) => <<Order!Weight(Head(s))>> \in V
    <3>1. Order!Ahead(s) => Order!Weight(Head(s)) \in Int
      BY WeightFacts
    <3> QED
      BY <3>1
  <2>3. s # <<>> /\ ~Order!Ahead(s) => Beyond(s) \in S /\ Length[Beyond(s)] < Length[s] /\ <<0, Order!Value[Leading(s)]>> \in V
    BY BeyondFacts DEF Length
  <2> QED
    BY <2>1, <2>2, <2>3
<1>2. \A j, k \in V : j \o k \in V
  OBVIOUS
<1>3. Recurs(D, S, V, Length)
  <2>1. D \in [[S -> V] \X S -> V]
    <3>1. <<>> \in V
      OBVIOUS
    <3> HIDE DEF V, S
    <3>2. ASSUME NEW g \in [S -> V], NEW s \in S
          PROVE  (IF s = <<>> THEN <<>>
                  ELSE IF Order!Ahead(s) THEN <<Order!Weight(Head(s))>> \o g[Tail(s)]
                  ELSE <<0, Order!Value[Leading(s)]>> \o g[Beyond(s)]) \in V
      <4>1. CASE s = <<>>
        BY <3>1, <4>1
      <4>2. CASE Order!Ahead(s)
        <5>1. s # <<>> /\ g[Tail(s)] \in V /\ <<Order!Weight(Head(s))>> \in V
          BY <1>1, <4>2
        <5> QED
          BY <1>2, <4>2, <5>1
      <4>3. CASE s # <<>> /\ ~Order!Ahead(s)
        <5>1. g[Beyond(s)] \in V /\ <<0, Order!Value[Leading(s)]>> \in V
          BY <1>1, <4>3
        <5> QED
          BY <1>2, <4>3, <5>1
      <4> QED
        BY <4>1, <4>2, <4>3
    <3> QED
      BY <3>2
  <2>2. ASSUME NEW g \in [S -> V], NEW h \in [S -> V], NEW s \in S,
               \A y \in S : Length[y] < Length[s] => g[y] = h[y]
        PROVE  D[<<g, s>>] = D[<<h, s>>]
    <3>1. /\ Order!Ahead(s) => g[Tail(s)] = h[Tail(s)]
          /\ s # <<>> /\ ~Order!Ahead(s) => g[Beyond(s)] = h[Beyond(s)]
      BY <1>1, <2>2
    <3> HIDE DEF V, S
    <3> QED
      BY <3>1
  <2>3. V # {}
    BY <<>> \in V
  <2> HIDE DEF D, V
  <2> QED
    BY <2>1, <2>2, <2>3, TextFacts DEF Recurs
<1> HIDE DEF D, V
<1>4. PICK f \in [S -> V] : \A x \in S : f[x] = D[<<f, x>>]
  BY <1>3, Recursion
<1> USE DEF D
<1>5. f = [s \in S |-> IF s = <<>> THEN <<>>
                       ELSE IF Order!Ahead(s) THEN <<Order!Weight(Head(s))>> \o f[Tail(s)]
                       ELSE <<0, Order!Value[Leading(s)]>> \o f[Beyond(s)]]
  <2>1. \A x \in S : D[<<f, x>>] = IF x = <<>> THEN <<>>
                       ELSE IF Order!Ahead(x) THEN <<Order!Weight(Head(x))>> \o f[Tail(x)]
                       ELSE <<0, Order!Value[Leading(x)]>> \o f[Beyond(x)]
    OBVIOUS
  <2> HIDE DEF S, D
  <2> QED
    BY <1>4, <2>1
<1>6. Order!Key = [s \in S |-> IF s = <<>> THEN <<>>
                               ELSE IF Order!Ahead(s) THEN <<Order!Weight(Head(s))>> \o Order!Key[Tail(s)]
                               ELSE <<0, Order!Value[Leading(s)]>> \o Order!Key[Beyond(s)]]
  <2> HIDE DEF S
  <2> QED
    BY <1>5 DEF Order!Key, Leading, Beyond, S
<1>7. {s \in S : Order!Key[s] \notin V} = {}
  <2> DEFINE Bad == {s \in S : Order!Key[s] \notin V}
  <2>1. ASSUME NEW s \in S, Order!Key[s] \notin V
        PROVE  \E y \in S : Order!Key[y] \notin V /\ Length[y] < Length[s]
    <3>1. s # <<>>
      <4>1. <<>> \in V
        BY DEF V
      <4> QED
        BY <1>6, <2>1, <4>1
    <3>2. CASE Order!Ahead(s)
      <4>1. Order!Key[s] = <<Order!Weight(Head(s))>> \o Order!Key[Tail(s)]
        BY <1>6, <3>1, <3>2
      <4> QED
        BY <1>1, <1>2, <2>1, <3>2, <4>1
    <3>3. CASE ~Order!Ahead(s)
      <4>1. Order!Key[s] = <<0, Order!Value[Leading(s)]>> \o Order!Key[Beyond(s)]
        BY <1>6, <3>1, <3>3
      <4> QED
        BY <1>1, <1>2, <2>1, <3>1, <3>3, <4>1
    <3> QED
      BY <3>2, <3>3
  <2>2. Descends(Bad, S, Length)
    BY <2>1, TextFacts DEF Descends
  <2> HIDE DEF Bad
  <2> QED
    BY <2>2, NoneFails DEF Bad
<1> QED
  BY <1>6, <1>7 DEF V

LEMMA Concatenation ==
  ASSUME NEW j \in Seq(Int), NEW k \in Seq(Int), NEW i \in Nat \ {0}
  PROVE  /\ i <= Len(j) => Order!At(j \o k, i) = j[i]
         /\ Order!At(j \o k, Len(j) + i) = Order!At(k, i)
         /\ Order!At(j, i) \in Int
<1>1. DOMAIN (j \o k) = 1 .. Len(j) + Len(k) /\ DOMAIN j = 1 .. Len(j) /\ DOMAIN k = 1 .. Len(k)
  OBVIOUS
<1>2. Len(j) \in Nat /\ Len(k) \in Nat
  OBVIOUS
<1>3. i <= Len(j) => (j \o k)[i] = j[i]
  OBVIOUS
<1>4. i <= Len(k) => (j \o k)[Len(j) + i] = k[i]
  OBVIOUS
<1>5. i <= Len(j) => j[i] \in Int
  OBVIOUS
<1> QED
  BY <1>1, <1>2, <1>3, <1>4, <1>5 DEF Order!At

\* The key of a text, place by place: nothing is zeros.
LEMMA KeyAt ==
  ASSUME NEW s \in Order!Texts
  PROVE  /\ \A i \in Nat \ {0} : Order!At(Order!Key[s], i) \in Int
         /\ Order!At(Order!Key[s], 1) = Order!Order(s)
         /\ Order!Ahead(s) => \A i \in Nat \ {0} : Order!At(Order!Key[s], i + 1) = Order!At(Order!Key[Tail(s)], i)
         /\ ~Order!Ahead(s) => /\ Order!At(Order!Key[s], 2) = Order!Value[Leading(s)]
                               /\ \A i \in Nat \ {0} : Order!At(Order!Key[s], i + 2) = Order!At(Order!Key[Beyond(s)], i)
<1>1. Order!Key[s] \in Seq(Int)
  BY KeyIs
<1>2. \A i \in Nat \ {0} : Order!At(Order!Key[s], i) \in Int
  BY <1>1, Concatenation
<1>3. CASE Order!Ahead(s)
  <2> DEFINE j == <<Order!Weight(Head(s))>>  k == Order!Key[Tail(s)]
  <2>1. s # <<>> /\ Order!Key[s] = j \o k /\ k \in Seq(Int)
    BY <1>3, KeyIs, TextFacts DEF Order!Ahead
  <2>2. j \in Seq(Int) /\ Len(j) = 1 /\ j[1] = Order!Order(s)
    BY <1>3, WeightFacts
  <2> HIDE DEF j, k
  <2>3. ASSUME NEW i \in Nat \ {0}
        PROVE  /\ i <= 1 => Order!At(Order!Key[s], i) = j[i]
               /\ Order!At(Order!Key[s], 1 + i) = Order!At(k, i)
    <3>1. (i <= Len(j) => Order!At(j \o k, i) = j[i]) /\ Order!At(j \o k, Len(j) + i) = Order!At(k, i)
      BY <2>1, <2>2, Concatenation
    <3> QED
      BY <2>1, <2>2, <3>1
  <2>4. \A i \in Nat \ {0} : Order!At(Order!Key[s], 1 + i) = Order!At(k, i)
    BY <2>3
  <2>5. \A i \in Nat \ {0} : Order!At(Order!Key[s], i + 1) = Order!At(Order!Key[Tail(s)], i)
    BY <2>4 DEF k
  <2>6. Order!At(Order!Key[s], 1) = Order!Order(s)
    BY <2>2, <2>3
  <2> QED
    BY <1>2, <1>3, <2>5, <2>6
<1>4. CASE s # <<>> /\ ~Order!Ahead(s)
  <2> DEFINE j == <<0, Order!Value[Leading(s)]>>  k == Order!Key[Beyond(s)]
  <2>1. Order!Key[s] = j \o k /\ k \in Seq(Int)
    BY <1>4, KeyIs, BeyondFacts
  <2>2. j \in Seq(Int) /\ Len(j) = 2 /\ j[1] = 0 /\ j[2] = Order!Value[Leading(s)]
    BY BeyondFacts
  <2> HIDE DEF j, k
  <2>3. ASSUME NEW i \in Nat \ {0}
        PROVE  /\ i <= 2 => Order!At(Order!Key[s], i) = j[i]
               /\ Order!At(Order!Key[s], 2 + i) = Order!At(k, i)
    <3>1. (i <= Len(j) => Order!At(j \o k, i) = j[i]) /\ Order!At(j \o k, Len(j) + i) = Order!At(k, i)
      BY <2>1, <2>2, Concatenation
    <3> QED
      BY <2>1, <2>2, <3>1
  <2>4. \A i \in Nat \ {0} : Order!At(Order!Key[s], 2 + i) = Order!At(k, i)
    BY <2>3
  <2>5. \A i \in Nat \ {0} : Order!At(Order!Key[s], i + 2) = Order!At(Order!Key[Beyond(s)], i)
    BY <2>4 DEF k
  <2>6. Order!Order(s) = 0
    BY <1>4, WeightFacts
  <2>7. Order!At(Order!Key[s], 1) = 0 /\ Order!At(Order!Key[s], 2) = Order!Value[Leading(s)]
    BY <2>2, <2>3
  <2> QED
    BY <1>2, <1>4, <2>5, <2>6, <2>7
<1>5. CASE s = <<>>
  <2>1. Order!Key[s] = <<>> /\ Order!Order(s) = 0 /\ ~Order!Ahead(s) /\ Beyond(s) = s /\ Order!Value[Leading(s)] = 0
    BY <1>5, KeyIs, BeyondFacts DEF Order!Order, Order!Ahead
  <2>2. \A i \in Nat \ {0} : Order!At(Order!Key[s], i) = 0
    BY <2>1 DEF Order!At
  <2> QED
    BY <2>1, <2>2
<1> QED
  BY <1>3, <1>4, <1>5

Differ(s, t, i) == Order!At(Order!Key[s], i) # Order!At(Order!Key[t], i)

LEMMA ByKeyFacts ==
  ASSUME NEW s \in Order!Texts, NEW t \in Order!Texts
  PROVE  /\ \A m \in Nat \ {0} : Differ(s, t, m) /\ (\A i \in 1 .. m - 1 : ~Differ(s, t, i))
                                   => Order!ByKey(s, t) = Order!Sign(Order!At(Order!Key[s], m), Order!At(Order!Key[t], m))
         /\ (\A m \in Nat \ {0} : ~Differ(s, t, m)) => Order!ByKey(s, t) = 0
<1> DEFINE j == Order!Key[s]  k == Order!Key[t]
           differ == {i \in DOMAIN j \cup DOMAIN k : Order!At(j, i) # Order!At(k, i)}
<1>1. j \in Seq(Int) /\ k \in Seq(Int)
  BY KeyIs
<1>2. \A i \in Nat \ {0} : i \in differ <=> Differ(s, t, i)
  BY <1>1 DEF Differ, Order!At
<1>3. differ \in SUBSET (Nat \ {0})
  BY <1>1
<1>4. Order!ByKey(s, t) = IF differ = {} THEN 0
                          ELSE Order!Sign(Order!At(j, CHOOSE i \in differ : \A n \in differ : i <= n),
                                          Order!At(k, CHOOSE i \in differ : \A n \in differ : i <= n))
  BY DEF Order!ByKey
<1> HIDE DEF differ
<1>5. ASSUME NEW m \in Nat \ {0}, Differ(s, t, m), \A i \in 1 .. m - 1 : ~Differ(s, t, i)
      PROVE  Order!ByKey(s, t) = Order!Sign(Order!At(j, m), Order!At(k, m))
  <2>1. m \in differ /\ \A n \in differ : m <= n
    BY <1>2, <1>3, <1>5
  <2>2. \A i \in differ : (\A n \in differ : i <= n) => i = m
    BY <1>3, <2>1
  <2>3. (CHOOSE i \in differ : \A n \in differ : i <= n) = m
    BY <2>1, <2>2
  <2> QED
    BY <1>4, <2>1, <2>3
<1>6. ASSUME \A m \in Nat \ {0} : ~Differ(s, t, m)
      PROVE  Order!ByKey(s, t) = 0
  BY <1>2, <1>3, <1>4, <1>6
<1> QED
  BY <1>5, <1>6

\* The keys of s and t begin alike; that of u is the rest of that of s.
Alike(s, t, m)  == \A i \in 1 .. m : ~Differ(s, t, i)
RestIs(s, u, m) == \A i \in Nat \ {0} : Order!At(Order!Key[s], i + m) = Order!At(Order!Key[u], i)

\* Keys that begin alike compare as what follows.
LEMMA ByKeyOfRest ==
  ASSUME NEW s \in Order!Texts, NEW t \in Order!Texts, NEW u \in Order!Texts, NEW v \in Order!Texts, NEW m \in Nat,
         Alike(s, t, m), RestIs(s, u, m), RestIs(t, v, m)
  PROVE  Order!ByKey(s, t) = Order!ByKey(u, v)
<1> USE DEF Alike, RestIs
<1> DEFINE T == {i \in Nat \ {0} : Differ(u, v, i)}
<1>1. \A i \in Nat \ {0} : Differ(s, t, i + m) <=> Differ(u, v, i)
  BY DEF Differ
<1>2. \A i \in Nat \ {0} : i <= m \/ \E n \in Nat \ {0} : i = n + m
  <2> SUFFICES ASSUME NEW i \in Nat \ {0}, ~(i <= m)
               PROVE  \E n \in Nat \ {0} : i = n + m
    OBVIOUS
  <2>1. i - m \in Nat \ {0} /\ i = (i - m) + m
    OBVIOUS
  <2> QED
    BY <2>1
<1>3. CASE T = {}
  <2>1. \A i \in Nat \ {0} : ~Differ(s, t, i) /\ ~Differ(u, v, i)
    BY <1>1, <1>2, <1>3
  <2> QED
    BY <2>1, ByKeyFacts
<1>4. CASE T # {}
  <2>1. PICK n \in T : \A i \in T : n <= i
    <3>1. T \in SUBSET Nat
      OBVIOUS
    <3> HIDE DEF T
    <3> QED
      BY <1>4, <3>1, LeastNumber
  <2>2. n \in Nat \ {0} /\ Differ(u, v, n) /\ \A i \in 1 .. n - 1 : ~Differ(u, v, i)
    BY <2>1
  <2>3. n + m \in Nat \ {0} /\ Differ(s, t, n + m)
    BY <1>1, <2>2
  <2>4. ASSUME NEW i \in 1 .. n + m - 1
        PROVE  ~Differ(s, t, i)
    <3>1. CASE i <= m
      BY <3>1
    <3>2. CASE ~(i <= m)
      <4>1. i - m \in 1 .. n - 1 /\ i - m \in Nat \ {0} /\ i = (i - m) + m
        BY <2>2, <3>2
      <4> QED
        BY <1>1, <2>2, <4>1
    <3> QED
      BY <3>1, <3>2
  <2>5. Order!ByKey(s, t) = Order!Sign(Order!At(Order!Key[s], n + m), Order!At(Order!Key[t], n + m))
    BY <2>3, <2>4, ByKeyFacts
  <2>6. Order!ByKey(u, v) = Order!Sign(Order!At(Order!Key[u], n), Order!At(Order!Key[v], n))
    BY <2>2, ByKeyFacts
  <2> QED
    BY <2>2, <2>5, <2>6
<1> QED
  BY <1>3, <1>4

LEMMA AdvanceFacts ==
  ASSUME NEW s \in Order!Texts
  PROVE  /\ Order!Advance(s) \in Order!Texts /\ Len(Order!Advance(s)) <= Len(s) /\ Len(s) \in Nat /\ Len(Order!Advance(s)) \in Nat
         /\ s # <<>> => Len(Order!Advance(s)) < Len(s)
  BY TailFacts, EmptyFacts DEF Order!Advance, Order!Texts

\* One step of _part, with the rest of the answer taken from f.
PartStep(f, s, t) ==
  LET here == Order!Digits(Leading(s), Leading(t))
  IN  IF s = <<>> /\ t = <<>> THEN 0
      ELSE IF Order!Ahead(s) \/ Order!Ahead(t)
           THEN IF Order!Order(s) # Order!Order(t) THEN Order!Sign(Order!Order(s), Order!Order(t)) ELSE f[<<Order!Advance(s), Order!Advance(t)>>]
           ELSE IF here # 0 THEN here ELSE f[<<Beyond(s), Beyond(t)>>]

LEMMA PartIs ==
  \A s, t \in Order!Texts : Order!Part[<<s, t>>] = PartStep(Order!Part, s, t)
<1> DEFINE S == Order!Texts \X Order!Texts
           V == {-1, 0, 1}
           size == [p \in S |-> Len(p[1]) + Len(p[2])]
           D == [z \in [S -> V] \X S |-> PartStep(z[1], z[2][1], z[2][2])]
<1>1. size \in [S -> Nat]
  <2>1. \A u \in Order!Texts : Len(u) \in Nat
    BY AdvanceFacts
  <2>2. \A p \in S : p[1] \in Order!Texts /\ p[2] \in Order!Texts
    OBVIOUS
  <2>3. \A p \in S : Len(p[1]) + Len(p[2]) \in Nat
    BY <2>1, <2>2
  <2> QED
    BY <2>3
<1>2. ASSUME NEW s \in Order!Texts, NEW t \in Order!Texts, ~(s = <<>> /\ t = <<>>)
      PROVE  /\ Order!Ahead(s) \/ Order!Ahead(t) => <<Order!Advance(s), Order!Advance(t)>> \in S
                                                    /\ size[<<Order!Advance(s), Order!Advance(t)>>] < size[<<s, t>>]
             /\ ~(Order!Ahead(s) \/ Order!Ahead(t)) => <<Beyond(s), Beyond(t)>> \in S
                                                       /\ size[<<Beyond(s), Beyond(t)>>] < size[<<s, t>>]
  <2>1. /\ Order!Advance(s) \in Order!Texts /\ Order!Advance(t) \in Order!Texts
        /\ Len(Order!Advance(s)) + Len(Order!Advance(t)) < Len(s) + Len(t)
    BY <1>2, AdvanceFacts
  <2>2. /\ Beyond(s) \in Order!Texts /\ Beyond(t) \in Order!Texts /\ Len(Beyond(s)) \in Nat /\ Len(Beyond(t)) \in Nat
        /\ ~(Order!Ahead(s) \/ Order!Ahead(t)) => Len(Beyond(s)) + Len(Beyond(t)) < Len(s) + Len(t)
    BY <1>2, AdvanceFacts, BeyondFacts
  <2> QED
    BY <2>1, <2>2
<1>3. ASSUME NEW s \in Order!Texts, NEW t \in Order!Texts
      PROVE  Order!Digits(Leading(s), Leading(t)) \in V /\ Order!Sign(Order!Order(s), Order!Order(t)) \in V
  BY DigitsCompare, BeyondFacts, WeightFacts DEF Order!Sign
<1> HIDE DEF size, V
<1>4. Recurs(D, S, V, size)
  <2>1. 0 \in V
    BY DEF V
  <2>2. ASSUME NEW g \in [S -> V], NEW s \in Order!Texts, NEW t \in Order!Texts
        PROVE  PartStep(g, s, t) \in V
    <3> HIDE DEF S
    <3> QED
      BY <1>2, <1>3, <2>1 DEF PartStep
  <2>3. D \in [[S -> V] \X S -> V]
    BY <2>2
  <2>4. ASSUME NEW g \in [S -> V], NEW h \in [S -> V], NEW s \in Order!Texts, NEW t \in Order!Texts,
               \A y \in S : size[y] < size[<<s, t>>] => g[y] = h[y]
        PROVE  PartStep(g, s, t) = PartStep(h, s, t)
    <3>1. ~(s = <<>> /\ t = <<>>) =>
            /\ Order!Ahead(s) \/ Order!Ahead(t) => g[<<Order!Advance(s), Order!Advance(t)>>] = h[<<Order!Advance(s), Order!Advance(t)>>]
            /\ ~(Order!Ahead(s) \/ Order!Ahead(t)) => g[<<Beyond(s), Beyond(t)>>] = h[<<Beyond(s), Beyond(t)>>]
      BY <1>2, <2>4
    <3> QED
      BY <3>1 DEF PartStep
  <2>5. ASSUME NEW g \in [S -> V], NEW h \in [S -> V], NEW p \in S,
               \A y \in S : size[y] < size[p] => g[y] = h[y]
        PROVE  D[<<g, p>>] = D[<<h, p>>]
    <3>1. p[1] \in Order!Texts /\ p[2] \in Order!Texts /\ p = <<p[1], p[2]>>
      OBVIOUS
    <3>2. PartStep(g, p[1], p[2]) = PartStep(h, p[1], p[2])
      BY <2>4, <2>5, <3>1
    <3> QED
      BY <3>2
  <2> HIDE DEF D, S
  <2> QED
    BY <1>1, <2>1, <2>3, <2>5 DEF Recurs
<1> HIDE DEF D
<1>5. PICK f \in [S -> V] : \A x \in S : f[x] = D[<<f, x>>]
  BY <1>4, Recursion
<1>6. f = [p \in S |-> PartStep(f, p[1], p[2])]
  <2>1. \A x \in S : D[<<f, x>>] = PartStep(f, x[1], x[2])
    BY DEF D
  <2> HIDE DEF S
  <2> QED
    BY <1>5, <2>1
<1>7. Order!Part = [p \in S |-> PartStep(Order!Part, p[1], p[2])]
  <2> HIDE DEF S
  <2>1. Order!Part = CHOOSE g : g = [p \in S |-> PartStep(g, p[1], p[2])]
    BY DEF Order!Part, PartStep, Leading, Beyond, S
  <2> QED
    BY <1>6, <2>1
<1> QED
  BY <1>7

\* One part of a version is compared as its key.
LEMMA PartIsByKey ==
  ASSUME NEW s \in Order!Texts, NEW t \in Order!Texts
  PROVE  Order!Part[<<s, t>>] = Order!ByKey(s, t)
<1> DEFINE S == Order!Texts \X Order!Texts
           size == [p \in S |-> Len(p[1]) + Len(p[2])]
           Bad == {p \in S : Order!Part[p] # Order!ByKey(p[1], p[2])}
<1>1. size \in [S -> Nat]
  <2>1. \A u \in Order!Texts : Len(u) \in Nat
    BY AdvanceFacts
  <2>2. \A p \in S : p[1] \in Order!Texts /\ p[2] \in Order!Texts
    OBVIOUS
  <2>3. \A p \in S : Len(p[1]) + Len(p[2]) \in Nat
    BY <2>1, <2>2
  <2> QED
    BY <2>3
<1>2. ASSUME NEW u \in Order!Texts, NEW v \in Order!Texts, Order!Part[<<u, v>>] # Order!ByKey(u, v)
      PROVE  \E x, y \in Order!Texts : Order!Part[<<x, y>>] # Order!ByKey(x, y) /\ Len(x) + Len(y) < Len(u) + Len(v)
  <2>1. Order!Part[<<u, v>>] = PartStep(Order!Part, u, v)
    BY PartIs
  <2>2. /\ \A i \in Nat \ {0} : Order!At(Order!Key[u], i) \in Int /\ Order!At(Order!Key[v], i) \in Int
        /\ Order!At(Order!Key[u], 1) = Order!Order(u) /\ Order!At(Order!Key[v], 1) = Order!Order(v)
    BY KeyAt
  <2>3. ~(u = <<>> /\ v = <<>>)
    <3> SUFFICES ASSUME u = <<>>, v = <<>>
                 PROVE  Order!Part[<<u, v>>] = Order!ByKey(u, v)
      BY <1>2
    <3>1. \A m \in Nat \ {0} : ~Differ(u, v, m)
      BY DEF Differ
    <3> QED
      BY <2>1, <3>1, ByKeyFacts DEF PartStep
  <2>4. CASE Order!Ahead(u) \/ Order!Ahead(v)
    <3>1. Order!Order(u) = Order!Order(v)
      <4> SUFFICES ASSUME Order!Order(u) # Order!Order(v)
                   PROVE  Order!Part[<<u, v>>] = Order!ByKey(u, v)
        BY <1>2
      <4>1. Order!Part[<<u, v>>] = Order!Sign(Order!Order(u), Order!Order(v))
        BY <2>1, <2>3, <2>4 DEF PartStep
      <4>2. Differ(u, v, 1) /\ 1 \in Nat \ {0} /\ \A i \in 1 .. 1 - 1 : ~Differ(u, v, i)
        BY <2>2 DEF Differ
      <4>3. Order!ByKey(u, v) = Order!Sign(Order!At(Order!Key[u], 1), Order!At(Order!Key[v], 1))
        BY <4>2, ByKeyFacts
      <4> QED
        BY <2>2, <4>1, <4>3
    <3>2. Order!Ahead(u) /\ Order!Ahead(v)
      BY <2>4, <3>1, WeightFacts
    <3>3. u # <<>> /\ v # <<>> /\ Order!Advance(u) = Tail(u) /\ Order!Advance(v) = Tail(v)
      BY <3>2 DEF Order!Ahead, Order!Advance
    <3>4. /\ Tail(u) \in Order!Texts /\ Tail(v) \in Order!Texts
          /\ Len(Tail(u)) + Len(Tail(v)) < Len(u) + Len(v)
      <4>1. Order!Advance(u) \in Order!Texts /\ Len(Order!Advance(u)) < Len(u) /\ Len(u) \in Nat /\ Len(Order!Advance(u)) \in Nat
        BY <3>3, AdvanceFacts
      <4>2. Order!Advance(v) \in Order!Texts /\ Len(Order!Advance(v)) < Len(v) /\ Len(v) \in Nat /\ Len(Order!Advance(v)) \in Nat
        BY <3>3, AdvanceFacts
      <4> QED
        BY <3>3, <4>1, <4>2
    <3>5. Order!Part[<<u, v>>] = Order!Part[<<Tail(u), Tail(v)>>]
      BY <2>1, <2>3, <3>1, <3>2, <3>3 DEF PartStep
    <3>6. Order!ByKey(u, v) = Order!ByKey(Tail(u), Tail(v))
      <4>1. Alike(u, v, 1)
        BY <2>2, <3>1 DEF Differ, Alike
      <4>2. RestIs(u, Tail(u), 1) /\ RestIs(v, Tail(v), 1)
        BY <3>2, KeyAt DEF RestIs
      <4> QED
        BY <3>4, <4>1, <4>2, ByKeyOfRest
    <3> QED
      BY <1>2, <3>4, <3>5, <3>6
  <2>5. CASE ~(Order!Ahead(u) \/ Order!Ahead(v))
    <3> DEFINE here == Order!Digits(Leading(u), Leading(v))
    <3>1. /\ Order!Order(u) = 0 /\ Order!Order(v) = 0
          /\ Order!At(Order!Key[u], 2) = Order!Value[Leading(u)] /\ Order!At(Order!Key[v], 2) = Order!Value[Leading(v)]
          /\ \A i \in Nat \ {0} : Order!At(Order!Key[u], i + 2) = Order!At(Order!Key[Beyond(u)], i) /\ Order!At(Order!Key[v], i + 2) = Order!At(Order!Key[Beyond(v)], i)
      BY <2>5, KeyAt, WeightFacts
    <3>2. here = Order!Sign(Order!Value[Leading(u)], Order!Value[Leading(v)]) /\ Order!Value[Leading(u)] \in Nat /\ Order!Value[Leading(v)] \in Nat
      BY DigitsCompare, BeyondFacts
    <3> HIDE DEF here
    <3>3. Order!Part[<<u, v>>] = IF here # 0 THEN here ELSE Order!Part[<<Beyond(u), Beyond(v)>>]
      BY <2>1, <2>3, <2>5 DEF PartStep, here
    <3>4. here = 0
      <4> SUFFICES ASSUME here # 0
                   PROVE  Order!Part[<<u, v>>] = Order!ByKey(u, v)
        BY <1>2
      <4>1. Order!Value[Leading(u)] # Order!Value[Leading(v)]
        BY <3>2 DEF Order!Sign
      <4>2. Differ(u, v, 2) /\ 2 \in Nat \ {0} /\ \A i \in 1 .. 2 - 1 : ~Differ(u, v, i)
        BY <2>2, <3>1, <4>1 DEF Differ
      <4>3. Order!ByKey(u, v) = Order!Sign(Order!At(Order!Key[u], 2), Order!At(Order!Key[v], 2))
        BY <4>2, ByKeyFacts
      <4> QED
        BY <3>1, <3>2, <3>3, <4>3
    <3>5. Order!Value[Leading(u)] = Order!Value[Leading(v)]
      BY <3>2, <3>4 DEF Order!Sign
    <3>6. /\ Beyond(u) \in Order!Texts /\ Beyond(v) \in Order!Texts
          /\ Len(Beyond(u)) + Len(Beyond(v)) < Len(u) + Len(v)
      <4>1. Beyond(u) \in Order!Texts /\ Beyond(v) \in Order!Texts
        BY BeyondFacts
      <4>2. Len(Beyond(u)) \in Nat /\ Len(Beyond(v)) \in Nat /\ Len(u) \in Nat /\ Len(v) \in Nat
        BY <4>1, AdvanceFacts
      <4> QED
        BY <2>3, <2>5, <4>1, <4>2, BeyondFacts
    <3>7. Order!ByKey(u, v) = Order!ByKey(Beyond(u), Beyond(v))
      <4>1. Alike(u, v, 2)
        BY <2>2, <3>1, <3>5 DEF Differ, Alike
      <4>2. RestIs(u, Beyond(u), 2) /\ RestIs(v, Beyond(v), 2)
        BY <3>1 DEF RestIs
      <4> QED
        BY <3>6, <4>1, <4>2, ByKeyOfRest
    <3> QED
      BY <1>2, <3>3, <3>4, <3>6, <3>7
  <2> QED
    BY <2>4, <2>5
<1>3. \A p \in Bad : \E q \in Bad : size[q] < size[p]
  <2> SUFFICES ASSUME NEW p \in Bad
               PROVE  \E q \in Bad : size[q] < size[p]
    OBVIOUS
  <2>1. p[1] \in Order!Texts /\ p[2] \in Order!Texts /\ p = <<p[1], p[2]>> /\ p \in S
    OBVIOUS
  <2>2. PICK x, y \in Order!Texts : Order!Part[<<x, y>>] # Order!ByKey(x, y) /\ Len(x) + Len(y) < Len(p[1]) + Len(p[2])
    BY <1>2, <2>1
  <2>3. <<x, y>> \in Bad /\ size[<<x, y>>] < size[p]
    BY <2>1, <2>2
  <2> QED
    BY <2>3
<1>4. Descends(Bad, S, size)
  BY <1>1, <1>3 DEF Descends
<1> HIDE DEF Bad
<1>5. <<s, t>> \notin Bad
  BY <1>4, NoneFails
<1> QED
  BY <1>5 DEF Bad

LEMMA PartsFacts ==
  ASSUME NEW s \in Order!Versions
  PROVE  /\ Order!Parts(s).epoch \in Seq(Order!Numerals)
         /\ Order!Parts(s).upstream \in Order!Texts
         /\ Order!Parts(s).revision \in Order!Texts
<1>1. s \in Order!Texts
  BY DEF Order!Versions, Order!Texts
<1>2. Len(s) \in Nat /\ DOMAIN s = 1 .. Len(s) /\ \A i \in 1 .. Len(s) : s[i] \in Characters \cup Order!Numerals
  BY <1>1 DEF Order!Texts
<1>3. Order!Epoch(s) \in 0 .. Len(s) /\ SubSeq(s, 1, Order!Epoch(s) - 1) \in Seq(Order!Numerals)
  <2> DEFINE colons == {i \in Order!Positions(s, ":") : i > 1 /\ Order!AllDigits(SubSeq(s, 1, i - 1))
                                                        /\ i < Len(s) /\ s[i + 1] \in Order!Numerals}
  <2>1. CASE colons = {}
    <3>1. Order!Epoch(s) = 0
      BY <2>1 DEF Order!Epoch
    <3>2. SubSeq(s, 1, 0 - 1) = <<>>
      BY <1>1 DEF Order!Texts
    <3> QED
      BY <1>2, <3>1, <3>2, EmptyFacts
  <2>2. CASE colons # {}
    <3>1. Order!Epoch(s) \in colons
      BY <2>2 DEF Order!Epoch
    <3>2. Order!Epoch(s) \in 1 .. Len(s) /\ Order!AllDigits(SubSeq(s, 1, Order!Epoch(s) - 1))
      BY <1>2, <3>1 DEF Order!Positions
    <3>3. SubSeq(s, 1, Order!Epoch(s) - 1) = [i \in 1 .. Order!Epoch(s) - 1 |-> s[i]]
      BY <1>1, <1>2, <3>2 DEF Order!Texts
    <3> QED
      BY <3>2, <3>3 DEF Order!AllDigits
  <2> QED
    BY <2>1, <2>2
<1>4. Order!Rest(s) \in Order!Texts
  BY <1>1, <1>3, Slices DEF Order!Rest
<1> DEFINE r == Order!Rest(s)
<1>5. Order!Hyphen(s) \in 0 .. Len(r)
  <2> DEFINE h == Order!Positions(r, "-")
  <2>1. Len(r) \in Nat /\ h \in SUBSET (1 .. Len(r))
    BY <1>4 DEF Order!Positions, Order!Texts
  <2>2. Order!Hyphen(s) = IF h = {} THEN 0 ELSE CHOOSE i \in h : \A j \in h : j <= i
    BY DEF Order!Hyphen
  <2> HIDE DEF h, r
  <2>3. h # {} => \E i \in h : \A j \in h : j <= i
    <3> DEFINE T == {Len(r) - i : i \in h}
    <3> SUFFICES ASSUME h # {}
                 PROVE  \E i \in h : \A j \in h : j <= i
      OBVIOUS
    <3>0. \A i \in h : Len(r) - i \in Nat
      BY <2>1
    <3>1. T \in SUBSET Nat /\ T # {}
      BY <3>0
    <3>2. PICK n \in T : \A m \in T : n <= m
      BY <3>1, LeastNumber
    <3>3. PICK i \in h : n = Len(r) - i
      BY <3>2
    <3>4. \A j \in h : Len(r) - i <= Len(r) - j
      BY <3>2, <3>3
    <3>5. \A j \in h : j <= i
      BY <2>1, <3>4
    <3> QED
      BY <3>5
  <2>4. h # {} => Order!Hyphen(s) \in h
    BY <2>2, <2>3
  <2>5. h = {} => Order!Hyphen(s) = 0
    BY <2>2
  <2>6. CASE h = {}
    BY <2>1, <2>5, <2>6
  <2>7. CASE h # {}
    <3>1. Order!Hyphen(s) \in 1 .. Len(r)
      BY <2>1, <2>4, <2>7
    <3> QED
      BY <2>1, <3>1
  <2> QED
    BY <2>6, <2>7
<1>6. Order!Parts(s).epoch \in Seq(Order!Numerals)
  BY <1>3, StrippedFacts DEF Order!Parts
<1>7. Order!Parts(s).upstream \in Order!Texts
  <2>1. Order!Hyphen(s) # 0 => SubSeq(r, 1, Order!Hyphen(s) - 1) \in Order!Texts
    <3>1. Order!Hyphen(s) # 0 => Order!Hyphen(s) - 1 \in 0 .. Len(r)
      BY <1>5
    <3> QED
      BY <1>4, <3>1, Slices
  <2> QED
    BY <1>4, <2>1 DEF Order!Parts
<1>8. Order!Parts(s).revision \in Order!Texts
  <2>1. Order!After(r, Order!Hyphen(s)) \in Order!Texts
    BY <1>4, <1>5, Slices
  <2>2. <<"0">> \in Order!Texts
    BY DEF Order!Texts, Order!Numerals, Order!Figures
  <2> QED
    BY <2>1, <2>2 DEF Order!Parts
<1> QED
  BY <1>6, <1>7, <1>8

\* compare answers as the order of the keys does, for any two versions.
LEMMA AnswerIsReference ==
  ASSUME NEW v \in Order!Versions, NEW w \in Order!Versions
  PROVE  Order!Answer(v, w) = Order!Reference(v, w)
<1> DEFINE p == Order!Parts(v)  q == Order!Parts(w)
<1>1. /\ Order!Digits(p.epoch, q.epoch) = Order!Sign(Order!Value[p.epoch], Order!Value[q.epoch])
      /\ Order!Part[<<p.upstream, q.upstream>>] = Order!ByKey(p.upstream, q.upstream)
      /\ Order!Part[<<p.revision, q.revision>>] = Order!ByKey(p.revision, q.revision)
  BY PartsFacts, DigitsCompare, PartIsByKey
<1> QED
  BY <1>1 DEF Order!Answer, Order!Reference

\* An order: of two things one is less, or they are as good as equal; and what is
\* not greater than something that is not greater than a third is not greater.
LEMMA ByKeyIsAnOrder ==
  /\ \A s, t \in Order!Texts : Order!ByKey(s, t) \in {-1, 0, 1} /\ Order!ByKey(s, t) = -Order!ByKey(t, s)
  /\ \A s, t, u \in Order!Texts : Order!ByKey(s, t) <= 0 /\ Order!ByKey(t, u) <= 0 => Order!ByKey(s, u) <= 0
<1> DEFINE First0(s, t, m) == m \in Nat \ {0} /\ Differ(s, t, m) /\ \A i \in 1 .. m - 1 : ~Differ(s, t, i)
           K(s, i) == Order!At(Order!Key[s], i)
<1>1. ASSUME NEW s \in Order!Texts, NEW t \in Order!Texts
      PROVE  (\E m : First0(s, t, m)) \/ \A i \in Nat \ {0} : ~Differ(s, t, i)
  <2> DEFINE T == {i \in Nat \ {0} : Differ(s, t, i)}
  <2> SUFFICES ASSUME T # {}
               PROVE  \E m : First0(s, t, m)
    OBVIOUS
  <2>1. T \in SUBSET Nat
    OBVIOUS
  <2>2. PICK m \in T : \A i \in T : m <= i
    <3> HIDE DEF T
    <3> QED
      BY <2>1, LeastNumber
  <2> QED
    BY <2>2
<1>2. \A s, t \in Order!Texts : \A m : First0(s, t, m) => Order!ByKey(s, t) = Order!Sign(K(s, m), K(t, m))
  BY ByKeyFacts
<1>3. \A s, t \in Order!Texts : (\A i \in Nat \ {0} : ~Differ(s, t, i)) => Order!ByKey(s, t) = 0
  BY ByKeyFacts
<1>4. \A s \in Order!Texts : \A i \in Nat \ {0} : K(s, i) \in Int
  BY KeyAt
<1>5. \A s, t : \A i : Differ(s, t, i) <=> K(s, i) # K(t, i)
  BY DEF Differ
<1> HIDE DEF K
<1>6. ASSUME NEW s \in Order!Texts, NEW t \in Order!Texts
      PROVE  Order!ByKey(s, t) \in {-1, 0, 1} /\ Order!ByKey(s, t) = -Order!ByKey(t, s)
  <2>1. CASE \E m : First0(s, t, m)
    <3>1. PICK m : First0(s, t, m)
      BY <2>1
    <3>2. First0(t, s, m)
      BY <1>5, <3>1
    <3>3. Order!ByKey(s, t) = Order!Sign(K(s, m), K(t, m)) /\ Order!ByKey(t, s) = Order!Sign(K(t, m), K(s, m)) /\ K(s, m) \in Int /\ K(t, m) \in Int
      BY <1>2, <1>4, <3>1, <3>2
    <3> QED
      BY <3>3 DEF Order!Sign
  <2>2. CASE \A i \in Nat \ {0} : ~Differ(s, t, i)
    <3>1. \A i \in Nat \ {0} : ~Differ(t, s, i)
      BY <1>5, <2>2
    <3> QED
      BY <1>3, <2>2, <3>1
  <2> QED
    BY <1>1, <2>1, <2>2
<1>7. ASSUME NEW s \in Order!Texts, NEW t \in Order!Texts, NEW u \in Order!Texts, Order!ByKey(s, t) <= 0, Order!ByKey(t, u) <= 0
      PROVE  Order!ByKey(s, u) <= 0
  <2>1. CASE \A i \in Nat \ {0} : ~Differ(s, u, i)
    BY <1>3, <2>1
  <2>2. CASE \E m : First0(s, u, m)
    <3>1. PICK m : First0(s, u, m)
      BY <2>2
    <3>2. K(s, m) \in Int /\ K(t, m) \in Int /\ K(u, m) \in Int /\ K(s, m) # K(u, m) /\ m \in Nat \ {0}
      BY <1>4, <1>5, <3>1
    <3>3. CASE \A i \in 1 .. m - 1 : ~Differ(s, t, i)
      <4>1. \A i \in 1 .. m - 1 : ~Differ(t, u, i)
        BY <1>5, <3>1, <3>3
      <4>2. K(s, m) <= K(t, m)
        <5> SUFFICES ASSUME K(s, m) # K(t, m)
                     PROVE  K(s, m) <= K(t, m)
          BY <3>2
        <5>1. First0(s, t, m)
          BY <1>5, <3>2, <3>3
        <5>2. Order!ByKey(s, t) = Order!Sign(K(s, m), K(t, m))
          BY <1>2, <5>1
        <5> QED
          BY <1>7, <3>2, <5>2 DEF Order!Sign
      <4>3. K(t, m) <= K(u, m)
        <5> SUFFICES ASSUME K(t, m) # K(u, m)
                     PROVE  K(t, m) <= K(u, m)
          BY <3>2
        <5>1. First0(t, u, m)
          BY <1>5, <3>2, <4>1
        <5>2. Order!ByKey(t, u) = Order!Sign(K(t, m), K(u, m))
          BY <1>2, <5>1
        <5> QED
          BY <1>7, <3>2, <5>2 DEF Order!Sign
      <4>4. Order!ByKey(s, u) = Order!Sign(K(s, m), K(u, m))
        BY <1>2, <3>1
      <4> QED
        BY <3>2, <4>2, <4>3, <4>4 DEF Order!Sign
    <3>4. CASE \E i \in 1 .. m - 1 : Differ(s, t, i)
      <4>1. PICK n : First0(s, t, n)
        BY <1>1, <3>2, <3>4
      <4>2. n < m
        BY <3>2, <3>4, <4>1
      <4>3. n \in Nat \ {0} /\ n \in 1 .. m - 1 /\ K(s, n) = K(u, n) /\ K(s, n) # K(t, n) /\ K(s, n) \in Int /\ K(t, n) \in Int
        BY <1>4, <1>5, <3>1, <3>2, <4>1, <4>2
      <4>4. \A i \in 1 .. n - 1 : ~Differ(t, u, i)
        <5> SUFFICES ASSUME NEW i \in 1 .. n - 1
                     PROVE  ~Differ(t, u, i)
          OBVIOUS
        <5>1. i \in 1 .. m - 1 /\ ~Differ(s, t, i)
          BY <3>2, <4>1, <4>3
        <5>2. ~Differ(s, u, i)
          BY <3>1, <5>1
        <5> QED
          BY <1>5, <5>1, <5>2
      <4>5. First0(t, u, n)
        BY <1>5, <4>3, <4>4
      <4>6. Order!ByKey(s, t) = Order!Sign(K(s, n), K(t, n)) /\ Order!ByKey(t, u) = Order!Sign(K(t, n), K(u, n))
        BY <1>2, <4>1, <4>5
      <4> QED
        BY <1>7, <4>3, <4>6 DEF Order!Sign
    <3> QED
      BY <3>3, <3>4
  <2> QED
    BY <1>1, <2>1, <2>2
<1> QED
  BY <1>6, <1>7

\* compare is an order of versions: it contradicts itself for no two of them, and
\* for no three.
THEOREM CompareIsAnOrder ==
  /\ \A v, w \in Order!Versions : Order!Answer(v, w) \in {-1, 0, 1} /\ Order!Answer(v, w) = -Order!Answer(w, v)
  /\ \A v, w, x \in Order!Versions : Order!Answer(v, w) <= 0 /\ Order!Answer(w, x) <= 0 => Order!Answer(v, x) <= 0
<1> DEFINE E(v, w) == Order!Sign(Order!Value[Order!Parts(v).epoch], Order!Value[Order!Parts(w).epoch])
           U(v, w) == Order!ByKey(Order!Parts(v).upstream, Order!Parts(w).upstream)
           R(v, w) == Order!ByKey(Order!Parts(v).revision, Order!Parts(w).revision)
<1>1. \A v, w \in Order!Versions : Order!Answer(v, w) = Order!First(E(v, w), U(v, w), R(v, w))
  BY AnswerIsReference DEF Order!Reference
<1>2. ASSUME NEW v \in Order!Versions, NEW w \in Order!Versions
      PROVE  /\ E(v, w) \in {-1, 0, 1} /\ E(v, w) = -E(w, v)
             /\ U(v, w) \in {-1, 0, 1} /\ U(v, w) = -U(w, v)
             /\ R(v, w) \in {-1, 0, 1} /\ R(v, w) = -R(w, v)
  <2>1. Order!Value[Order!Parts(v).epoch] \in Nat /\ Order!Value[Order!Parts(w).epoch] \in Nat
    BY PartsFacts, ValueIs
  <2>2. E(v, w) \in {-1, 0, 1} /\ E(v, w) = -E(w, v)
    BY <2>1 DEF Order!Sign
  <2> QED
    BY <2>2, PartsFacts, ByKeyIsAnOrder
<1>3. ASSUME NEW v \in Order!Versions, NEW w \in Order!Versions, NEW x \in Order!Versions
      PROVE  /\ E(v, w) <= 0 /\ E(w, x) <= 0 => E(v, x) <= 0
             /\ U(v, w) <= 0 /\ U(w, x) <= 0 => U(v, x) <= 0
             /\ R(v, w) <= 0 /\ R(w, x) <= 0 => R(v, x) <= 0
  <2>1. Order!Value[Order!Parts(v).epoch] \in Nat /\ Order!Value[Order!Parts(w).epoch] \in Nat /\ Order!Value[Order!Parts(x).epoch] \in Nat
    BY PartsFacts, ValueIs
  <2>2. E(v, w) <= 0 /\ E(w, x) <= 0 => E(v, x) <= 0
    BY <2>1 DEF Order!Sign
  <2> QED
    BY <2>2, PartsFacts, ByKeyIsAnOrder
<1> HIDE DEF E, U, R
<1>4. \A v, w \in Order!Versions : Order!Answer(v, w) \in {-1, 0, 1} /\ Order!Answer(v, w) = -Order!Answer(w, v)
  <2> SUFFICES ASSUME NEW v \in Order!Versions, NEW w \in Order!Versions
               PROVE  Order!Answer(v, w) \in {-1, 0, 1} /\ Order!Answer(v, w) = -Order!Answer(w, v)
    OBVIOUS
  <2> QED
    BY <1>1, <1>2 DEF Order!First
<1>5. ASSUME NEW v \in Order!Versions, NEW w \in Order!Versions, NEW x \in Order!Versions, Order!Answer(v, w) <= 0, Order!Answer(w, x) <= 0
      PROVE  Order!Answer(v, x) <= 0
  <2>1. /\ Order!Answer(v, w) = Order!First(E(v, w), U(v, w), R(v, w)) /\ Order!Answer(w, x) = Order!First(E(w, x), U(w, x), R(w, x))
        /\ Order!Answer(v, x) = Order!First(E(v, x), U(v, x), R(v, x))
    BY <1>1
  <2>2. E(v, w) <= 0 /\ E(w, x) <= 0
    BY <1>2, <1>5, <2>1 DEF Order!First
  <2>3. E(v, x) <= 0 /\ (E(v, x) = 0 => E(v, w) = 0 /\ E(w, x) = 0)
    <3>1. E(v, x) <= 0
      BY <1>3, <2>2
    <3>2. /\ E(x, v) <= 0 /\ E(v, w) <= 0 => E(x, w) <= 0
          /\ E(w, x) <= 0 /\ E(x, v) <= 0 => E(w, v) <= 0
      BY <1>3
    <3> QED
      BY <1>2, <2>2, <3>1, <3>2
  <2>4. E(v, x) = 0 => U(v, w) <= 0 /\ U(w, x) <= 0
    BY <1>2, <1>5, <2>1, <2>3 DEF Order!First
  <2>5. E(v, x) = 0 => U(v, x) <= 0 /\ (U(v, x) = 0 => U(v, w) = 0 /\ U(w, x) = 0)
    <3>1. E(v, x) = 0 => U(v, x) <= 0
      BY <1>3, <2>4
    <3>2. /\ U(x, v) <= 0 /\ U(v, w) <= 0 => U(x, w) <= 0
          /\ U(w, x) <= 0 /\ U(x, v) <= 0 => U(w, v) <= 0
      BY <1>3
    <3> QED
      BY <1>2, <2>4, <3>1, <3>2
  <2>6. E(v, x) = 0 /\ U(v, x) = 0 => R(v, x) <= 0
    <3>1. E(v, x) = 0 /\ U(v, x) = 0 => R(v, w) <= 0 /\ R(w, x) <= 0
      BY <1>5, <2>1, <2>3, <2>5 DEF Order!First
    <3> QED
      BY <1>3, <3>1
  <2> QED
    BY <2>1, <2>3, <2>5, <2>6 DEF Order!First
<1> QED
  BY <1>4, <1>5
-----------------------------------------------------------------------------
(***************************************************************************)
(* The numbers of tar headers and the times of pax headers.                *)
(***************************************************************************)

LEMMA MulMono ==
  ASSUME NEW lower \in Int, NEW base \in Int, NEW c \in Nat, lower <= base
  PROVE  lower * c <= base * c
  OBVIOUS

LEMMA DivIs ==
  ASSUME NEW lower \in Int, NEW base \in Nat \ {0}
  PROVE  lower = base * (lower \div base) + (lower % base) /\ lower \div base \in Int /\ (lower % base) \in 0 .. base - 1
  OBVIOUS

LEMMA OneDivision ==
  ASSUME NEW base \in Nat \ {0}, NEW q \in Int, NEW r \in 0 .. base - 1, NEW p \in Int, NEW t \in 0 .. base - 1,
         base * q + r = base * p + t
  PROVE  q = p /\ r = t
<1>1. ASSUME q < p
      PROVE  FALSE
  <2>1. base * (p - q) = r - t
    OBVIOUS
  <2>2. 1 <= p - q /\ p - q \in Int
    BY <1>1
  <2>3. base * 1 <= base * (p - q)
    BY <2>2
  <2> QED
    BY <2>1, <2>3
<1>2. ASSUME p < q
      PROVE  FALSE
  <2>1. base * (q - p) = t - r
    OBVIOUS
  <2>2. 1 <= q - p /\ q - p \in Int
    BY <1>2
  <2>3. base * 1 <= base * (q - p)
    BY <2>2
  <2> QED
    BY <2>1, <2>3
<1> QED
  BY <1>1, <1>2

\* x / b, rounded down.
LEMMA RoundsDown ==
  ASSUME NEW x \in Int, NEW base \in Nat \ {0}, NEW q \in Int, NEW r \in 0 .. base - 1, x = base * q + r
  PROVE  x \div base = q /\ x % base = r
<1>1. x = base * (x \div base) + (x % base) /\ x \div base \in Int /\ (x % base) \in 0 .. base - 1
  BY DivIs
<1> DEFINE p == x \div base
           t == x % base
<1>2. base * q + r = base * p + t /\ p \in Int /\ t \in 0 .. base - 1
  BY <1>1
<1> HIDE DEF p, t
<1>3. q = p /\ r = t
  BY <1>2, OneDivision
<1> QED
  BY <1>3 DEF p, t

\* From 0 upwards to n.
LEMMA Upwards ==
  ASSUME NEW n \in Nat, NEW Good, 0 \in Good, \A i \in 0 .. n - 1 : i \in Good => i + 1 \in Good
  PROVE  \A i \in 0 .. n : i \in Good
<1> DEFINE Bad == {i \in 0 .. n : i \notin Good}
<1> SUFFICES ASSUME Bad # {}
             PROVE  FALSE
  OBVIOUS
<1>1. Bad \in SUBSET Nat
  OBVIOUS
<1>2. PICK x \in Bad : \A y \in Bad : x <= y
  <2> HIDE DEF Bad
  <2> QED
    BY <1>1, LeastNumber
<1>3. x \in 0 .. n /\ x # 0
  OBVIOUS
<1>4. x - 1 \in 0 .. n - 1 /\ x - 1 \notin Bad
  BY <1>2, <1>3
<1>5. x - 1 \in Good
  BY <1>3, <1>4
<1>6. (x - 1) + 1 \in Good /\ (x - 1) + 1 = x
  BY <1>3, <1>4, <1>5
<1> QED
  BY <1>6

LEMMA PowerIs ==
  /\ Clocks!Power \in [Nat \X Nat -> Nat]
  /\ \A base, n \in Nat : Clocks!Power[<<base, n>>] = IF n = 0 THEN 1 ELSE base * Clocks!Power[<<base, n - 1>>]
<1> DEFINE S == Nat \X Nat
           size == [p \in S |-> p[2]]
           D == [z \in [S -> Nat] \X S |-> IF z[2][2] = 0 THEN 1 ELSE z[2][1] * z[1][<<z[2][1], z[2][2] - 1>>]]
<1>1. size \in [S -> Nat] /\ \A p \in S : p[2] # 0 => <<p[1], p[2] - 1>> \in S /\ size[<<p[1], p[2] - 1>>] < size[p]
  OBVIOUS
<1>2. Recurs(D, S, Nat, size)
  <2>1. D \in [[S -> Nat] \X S -> Nat]
    OBVIOUS
  <2>2. ASSUME NEW g \in [S -> Nat], NEW h \in [S -> Nat], NEW p \in S, \A y \in S : size[y] < size[p] => g[y] = h[y]
        PROVE  D[<<g, p>>] = D[<<h, p>>]
    <3> HIDE DEF size
    <3> QED
      BY <2>2, <1>1
  <2> HIDE DEF D, size, S
  <2> QED
    BY <1>1, <2>1, <2>2 DEF Recurs
<1> HIDE DEF D, size
<1>3. PICK f \in [S -> Nat] : \A p \in S : f[p] = D[<<f, p>>]
  BY <1>2, Recursion
<1> USE DEF D
<1>4. f = [p \in S |-> IF p[2] = 0 THEN 1 ELSE p[1] * f[<<p[1], p[2] - 1>>]]
  <2>1. \A p \in S : D[<<f, p>>] = IF p[2] = 0 THEN 1 ELSE p[1] * f[<<p[1], p[2] - 1>>]
    OBVIOUS
  <2> HIDE DEF S, D
  <2> QED
    BY <1>3, <2>1
<1>5. Clocks!Power = [p \in S |-> IF p[2] = 0 THEN 1 ELSE p[1] * Clocks!Power[<<p[1], p[2] - 1>>]]
  BY <1>4 DEF Clocks!Power
<1>6. {p \in S : Clocks!Power[p] \notin Nat} = {}
  <2> DEFINE Bad == {p \in S : Clocks!Power[p] \notin Nat}
  <2>1. \A p \in Bad : \E y \in Bad : size[y] < size[p]
    <3> SUFFICES ASSUME NEW p \in S, Clocks!Power[p] \notin Nat
                 PROVE  p[2] # 0 /\ Clocks!Power[<<p[1], p[2] - 1>>] \notin Nat
      BY <1>1
    <3>1. Clocks!Power[p] = IF p[2] = 0 THEN 1 ELSE p[1] * Clocks!Power[<<p[1], p[2] - 1>>]
      BY <1>5
    <3> QED
      BY <3>1
  <2>2. Descends(Bad, S, size)
    BY <1>1, <2>1 DEF Descends
  <2> HIDE DEF Bad
  <2> QED
    BY <2>2, NoneFails DEF Bad
<1>7. ASSUME NEW base \in Nat, NEW n \in Nat
      PROVE  Clocks!Power[<<base, n>>] = IF n = 0 THEN 1 ELSE base * Clocks!Power[<<base, n - 1>>]
  <2>1. <<base, n>> \in S
    OBVIOUS
  <2> QED
    BY <1>5, <2>1
<1> QED
  BY <1>5, <1>6, <1>7

LEMMA Prefixes ==
  ASSUME NEW S, NEW s \in Seq(S), NEW i \in 0 .. Len(s)
  PROVE  /\ Len(s) \in Nat /\ SubSeq(s, 1, i) \in Seq(S) /\ Len(SubSeq(s, 1, i)) = i
         /\ \A j \in 1 .. i : SubSeq(s, 1, i)[j] = s[j]
  BY SubSeqProperties

LEMMA FrontFacts ==
  ASSUME NEW S, NEW s \in Seq(S), s # <<>>
  PROVE  /\ Len(s) \in Nat \ {0} /\ Front(s) \in Seq(S) /\ Len(Front(s)) = Len(s) - 1
         /\ \A j \in 1 .. Len(s) - 1 : Front(s)[j] = s[j]
         /\ s[Len(s)] \in S
<1>1. Len(s) \in Nat \ {0} /\ s[Len(s)] \in S
  OBVIOUS
<1>2. Len(s) - 1 \in 0 .. Len(s)
  BY <1>1
<1> QED
  BY <1>1, <1>2, Prefixes DEF Front

LEMMA Fits ==
  ASSUME NEW lower \in Nat, NEW base \in Nat, NEW c \in Nat
  PROVE  lower * base + c \in Nat
  OBVIOUS

LEMMA MeaningIs ==
  /\ Clocks!Meaning \in [Seq(Nat) \X Nat -> Nat]
  /\ \A s \in Seq(Nat), base \in Nat :
       Clocks!Meaning[<<s, base>>] = IF s = <<>> THEN 0 ELSE Clocks!Meaning[<<Front(s), base>>] * base + s[Len(s)]
<1> DEFINE S == Seq(Nat) \X Nat
           size == [p \in S |-> Len(p[1])]
           D == [z \in [S -> Nat] \X S |->
                   IF z[2][1] = <<>> THEN 0
                   ELSE z[1][<<Front(z[2][1]), z[2][2]>>] * z[2][2] + z[2][1][Len(z[2][1])]]
<1>1. size \in [S -> Nat]
  OBVIOUS
<1>2. ASSUME NEW p \in S, p[1] # <<>>
      PROVE  /\ <<Front(p[1]), p[2]>> \in S /\ size[<<Front(p[1]), p[2]>>] < size[p]
             /\ p[1][Len(p[1])] \in Nat /\ p[2] \in Nat
  <2>1. p[1] \in Seq(Nat) /\ p[2] \in Nat
    OBVIOUS
  <2>2. /\ Len(p[1]) \in Nat \ {0} /\ Front(p[1]) \in Seq(Nat) /\ Len(Front(p[1])) = Len(p[1]) - 1
        /\ p[1][Len(p[1])] \in Nat
    BY <1>2, <2>1, FrontFacts
  <2>3. <<Front(p[1]), p[2]>> \in S
    BY <2>1, <2>2
  <2>4. size[<<Front(p[1]), p[2]>>] = Len(Front(p[1])) /\ size[p] = Len(p[1])
    BY <2>3
  <2> QED
    BY <2>1, <2>2, <2>3, <2>4
<1>3. Recurs(D, S, Nat, size)
  <2>1. D \in [[S -> Nat] \X S -> Nat]
    <3>1. ASSUME NEW g \in [S -> Nat], NEW p \in S, p[1] # <<>>
          PROVE  g[<<Front(p[1]), p[2]>>] * p[2] + p[1][Len(p[1])] \in Nat
      <4>1. <<Front(p[1]), p[2]>> \in S /\ p[1][Len(p[1])] \in Nat /\ p[2] \in Nat
        BY <1>2, <3>1
      <4>2. g[<<Front(p[1]), p[2]>>] \in Nat
        <5> HIDE DEF S
        <5> QED
          BY <4>1
      <4> QED
        BY <4>1, <4>2, Fits
    <3> HIDE DEF S
    <3> QED
      BY <3>1
  <2>2. ASSUME NEW g \in [S -> Nat], NEW h \in [S -> Nat], NEW p \in S, \A y \in S : size[y] < size[p] => g[y] = h[y]
        PROVE  D[<<g, p>>] = D[<<h, p>>]
    <3> HIDE DEF size, S
    <3> QED
      BY <2>2, <1>2
  <2> HIDE DEF D, size, S
  <2> QED
    BY <1>1, <2>1, <2>2 DEF Recurs
<1> HIDE DEF D, size
<1>4. PICK f \in [S -> Nat] : \A p \in S : f[p] = D[<<f, p>>]
  <2> HIDE DEF S
  <2> QED
    BY <1>3, Recursion
<1> USE DEF D
<1>5. f = [p \in S |-> IF p[1] = <<>> THEN 0 ELSE f[<<Front(p[1]), p[2]>>] * p[2] + p[1][Len(p[1])]]
  <2>1. \A p \in S : D[<<f, p>>] = IF p[1] = <<>> THEN 0 ELSE f[<<Front(p[1]), p[2]>>] * p[2] + p[1][Len(p[1])]
    <3> HIDE DEF S
    <3> QED OBVIOUS
  <2> HIDE DEF S, D
  <2> QED
    BY <1>4, <2>1
<1>6. Clocks!Meaning = [p \in S |-> IF p[1] = <<>> THEN 0 ELSE Clocks!Meaning[<<Front(p[1]), p[2]>>] * p[2] + p[1][Len(p[1])]]
  BY <1>5 DEF Clocks!Meaning, Front
<1>7. {p \in S : Clocks!Meaning[p] \notin Nat} = {}
  <2> DEFINE Bad == {p \in S : Clocks!Meaning[p] \notin Nat}
  <2>1. \A p \in Bad : \E y \in Bad : size[y] < size[p]
    <3> SUFFICES ASSUME NEW p \in S, Clocks!Meaning[p] \notin Nat
                 PROVE  p[1] # <<>> /\ Clocks!Meaning[<<Front(p[1]), p[2]>>] \notin Nat
      BY <1>2
    <3>1. Clocks!Meaning[p] = IF p[1] = <<>> THEN 0 ELSE Clocks!Meaning[<<Front(p[1]), p[2]>>] * p[2] + p[1][Len(p[1])]
      <4> HIDE DEF S
      <4> QED
        BY <1>6
    <3>2. p[1] # <<>>
      BY <3>1
    <3>3. p[1][Len(p[1])] \in Nat /\ p[2] \in Nat
      BY <3>2, <1>2
    <3> QED
      <4> SUFFICES ASSUME Clocks!Meaning[<<Front(p[1]), p[2]>>] \in Nat
                   PROVE  FALSE
        BY <3>2
      <4>1. Clocks!Meaning[<<Front(p[1]), p[2]>>] * p[2] + p[1][Len(p[1])] \in Nat
        BY <3>3, Fits
      <4> QED
        BY <3>1, <3>2, <4>1
  <2>2. Descends(Bad, S, size)
    <3> HIDE DEF S
    <3> QED
      BY <1>1, <2>1 DEF Descends
  <2> HIDE DEF Bad
  <2> QED
    BY <2>2, NoneFails DEF Bad
<1>8. ASSUME NEW s \in Seq(Nat), NEW base \in Nat
      PROVE  Clocks!Meaning[<<s, base>>] = IF s = <<>> THEN 0 ELSE Clocks!Meaning[<<Front(s), base>>] * base + s[Len(s)]
  <2>1. <<s, base>> \in S
    OBVIOUS
  <2>2. \A p \in S : Clocks!Meaning[p] = IF p[1] = <<>> THEN 0 ELSE Clocks!Meaning[<<Front(p[1]), p[2]>>] * p[2] + p[1][Len(p[1])]
    <3> HIDE DEF S
    <3> QED
      BY <1>6
  <2> HIDE DEF S
  <2> QED
    BY <2>1, <2>2
<1> QED
  BY <1>6, <1>7, <1>8

\* The meaning of the first i digits.
First(s, base, i) == Clocks!Meaning[<<SubSeq(s, 1, i), base>>]

LEMMA FirstIs ==
  ASSUME NEW s \in Seq(Nat), NEW base \in Nat
  PROVE  /\ First(s, base, 0) = 0 /\ First(s, base, Len(s)) = Clocks!Meaning[<<s, base>>]
         /\ \A i \in 0 .. Len(s) : First(s, base, i) \in Nat
         /\ \A i \in 0 .. Len(s) - 1 : First(s, base, i + 1) = First(s, base, i) * base + s[i + 1] /\ s[i + 1] \in Nat
<1>1. Len(s) \in Nat
  OBVIOUS
<1>2. \A i \in 0 .. Len(s) : SubSeq(s, 1, i) \in Seq(Nat) /\ Len(SubSeq(s, 1, i)) = i
  BY Prefixes
<1>3. SubSeq(s, 1, 0) = <<>>
  <2>1. SubSeq(s, 1, 0) \in Seq(Nat) /\ Len(SubSeq(s, 1, 0)) = 0
    BY <1>1, <1>2
  <2> QED
    BY <2>1, EmptyFacts
<1>4. SubSeq(s, 1, Len(s)) = s
  <2>1. /\ SubSeq(s, 1, Len(s)) \in Seq(Nat) /\ Len(SubSeq(s, 1, Len(s))) = Len(s)
        /\ \A j \in 1 .. Len(s) : SubSeq(s, 1, Len(s))[j] = s[j]
    BY <1>1, Prefixes
  <2> QED
    BY <2>1, SameSequence
<1>5. First(s, base, 0) = 0
  <2>1. <<>> \in Seq(Nat)
    OBVIOUS
  <2> QED
    BY <1>3, <2>1, MeaningIs DEF First
<1>6. \A i \in 0 .. Len(s) : First(s, base, i) \in Nat
  <2>1. \A i \in 0 .. Len(s) : <<SubSeq(s, 1, i), base>> \in Seq(Nat) \X Nat
    BY <1>2
  <2> QED
    BY <2>1, MeaningIs DEF First
<1>7. ASSUME NEW i \in 0 .. Len(s) - 1
      PROVE  First(s, base, i + 1) = First(s, base, i) * base + s[i + 1] /\ s[i + 1] \in Nat
  <2> DEFINE t == SubSeq(s, 1, i + 1)
  <2>1. i + 1 \in 0 .. Len(s) /\ i \in 0 .. Len(s) /\ i + 1 \in 1 .. Len(s) /\ i \in Nat
    BY <1>1
  <2>2. t \in Seq(Nat) /\ Len(t) = i + 1 /\ \A j \in 1 .. i + 1 : t[j] = s[j]
    BY <2>1, Prefixes
  <2>3. t # <<>>
    BY <2>1, <2>2
  <2> HIDE DEF t
  <2>4. Front(t) \in Seq(Nat) /\ Len(Front(t)) = i /\ \A j \in 1 .. i : Front(t)[j] = t[j]
    <3>1. /\ Front(t) \in Seq(Nat) /\ Len(Front(t)) = Len(t) - 1
          /\ \A j \in 1 .. Len(t) - 1 : Front(t)[j] = t[j]
      BY <2>2, <2>3, FrontFacts
    <3>2. Len(t) = i + 1 /\ (i + 1) - 1 = i
      BY <2>1, <2>2
    <3> QED
      BY <3>1, <3>2
  <2>5. SubSeq(s, 1, i) \in Seq(Nat) /\ Len(SubSeq(s, 1, i)) = i /\ \A j \in 1 .. i : SubSeq(s, 1, i)[j] = s[j]
    BY <2>1, Prefixes
  <2>6. \A j \in 1 .. i : j \in 1 .. i + 1
    BY <2>1
  <2>7. \A j \in 1 .. i : Front(t)[j] = SubSeq(s, 1, i)[j]
    BY <2>2, <2>4, <2>5, <2>6
  <2>8. Front(t) = SubSeq(s, 1, i)
    BY <2>4, <2>5, <2>7, SameSequence
  <2>9. Clocks!Meaning[<<t, base>>] = Clocks!Meaning[<<Front(t), base>>] * base + t[Len(t)]
    BY <2>2, <2>3, MeaningIs
  <2>10. t[Len(t)] = s[i + 1] /\ s[i + 1] \in Nat
    <3>1. Len(t) = i + 1 /\ i + 1 \in 1 .. i + 1
      BY <2>1, <2>2
    <3>2. s[i + 1] \in Nat
      BY <2>1, EmptyFacts
    <3> QED
      BY <3>1, <3>2, <2>2
  <2> QED
    BY <2>8, <2>9, <2>10 DEF First, t
<1> QED
  BY <1>4, <1>5, <1>6, <1>7 DEF First

\* What is left after the first i.
After(s, i) == SubSeq(s, i + 1, Len(s))

LEMMA Rests ==
  ASSUME NEW S, NEW s \in Seq(S), NEW i \in 0 .. Len(s)
  PROVE  /\ Len(s) \in Nat /\ After(s, i) \in Seq(S) /\ Len(After(s, i)) = Len(s) - i
         /\ \A j \in 1 .. Len(s) - i : After(s, i)[j] = s[i + j]
         /\ (i = Len(s) <=> After(s, i) = <<>>)
<1>1. Len(s) \in Nat /\ i \in Nat /\ i <= Len(s)
  OBVIOUS
<1>2. /\ After(s, i) \in Seq(S) /\ Len(After(s, i)) = Len(s) - i
      /\ \A j \in 1 .. Len(s) - i : After(s, i)[j] = s[i + j]
  BY <1>1, SubSeqProperties DEF After
<1>3. After(s, i) = <<>> <=> Len(After(s, i)) = 0
  BY <1>2, EmptyFacts
<1> QED
  BY <1>1, <1>2, <1>3

LEMMA RestSteps ==
  ASSUME NEW S, NEW s \in Seq(S)
  PROVE  /\ After(s, 0) = s
         /\ \A i \in 0 .. Len(s) - 1 : /\ After(s, i) # <<>> /\ Head(After(s, i)) = s[i + 1] /\ s[i + 1] \in S
                                       /\ Tail(After(s, i)) = After(s, i + 1)
<1>1. Len(s) \in Nat /\ 0 \in 0 .. Len(s)
  OBVIOUS
<1>2. After(s, 0) = s
  <2>1. After(s, 0) \in Seq(S) /\ Len(After(s, 0)) = Len(s) - 0 /\ \A j \in 1 .. Len(s) - 0 : After(s, 0)[j] = s[0 + j]
    BY <1>1, Rests
  <2>2. Len(After(s, 0)) = Len(s) /\ \A j \in 1 .. Len(s) : After(s, 0)[j] = s[j]
    BY <1>1, <2>1
  <2> QED
    BY <2>1, <2>2, SameSequence
<1>3. ASSUME NEW i \in 0 .. Len(s) - 1
      PROVE  /\ After(s, i) # <<>> /\ Head(After(s, i)) = s[i + 1] /\ s[i + 1] \in S
             /\ Tail(After(s, i)) = After(s, i + 1)
  <2>1. i \in 0 .. Len(s) /\ i + 1 \in 0 .. Len(s) /\ i # Len(s) /\ i \in Nat /\ i + 1 \in 1 .. Len(s) /\ 1 \in 1 .. Len(s) - i
    BY <1>1
  <2> DEFINE t == After(s, i)
             u == After(s, i + 1)
  <2>2. /\ t \in Seq(S) /\ Len(t) = Len(s) - i /\ \A j \in 1 .. Len(s) - i : t[j] = s[i + j]
        /\ t # <<>>
    BY <2>1, Rests
  <2>3. u \in Seq(S) /\ Len(u) = Len(s) - (i + 1) /\ \A j \in 1 .. Len(s) - (i + 1) : u[j] = s[(i + 1) + j]
    BY <2>1, Rests
  <2> HIDE DEF t, u
  <2>4. /\ Tail(t) \in Seq(S) /\ Len(Tail(t)) = Len(t) - 1 /\ \A j \in 1 .. Len(t) - 1 : Tail(t)[j] = t[j + 1]
        /\ Head(t) = t[1]
    BY <2>2, TailFacts
  <2>5. ASSUME NEW j \in 1 .. Len(s) - (i + 1)
        PROVE  Tail(t)[j] = u[j]
    <3>1. j \in 1 .. Len(t) - 1 /\ j + 1 \in 1 .. Len(s) - i /\ i + (j + 1) = (i + 1) + j
      BY <1>1, <2>1, <2>2
    <3> QED
      BY <2>2, <2>3, <2>4, <3>1
  <2>6. Len(Tail(t)) = Len(s) - (i + 1)
    BY <1>1, <2>1, <2>2, <2>4
  <2>7. Tail(t) = u
    BY <2>3, <2>4, <2>5, <2>6, SameSequence
  <2>8. s[i + 1] \in S
    BY <2>1, EmptyFacts
  <2> QED
    BY <2>1, <2>2, <2>4, <2>7, <2>8 DEF t, u
<1> QED
  BY <1>2, <1>3

LEMMA AccumulateIs ==
  ASSUME NEW s \in Seq(Nat), NEW base \in Nat, NEW value \in 0 .. Most
  PROVE  Clocks!Accumulate[<<s, base, value>>] =
           IF s = <<>> THEN [ok |-> TRUE, value |-> value]
           ELSE IF value > (Most - Head(s)) \div base THEN Clocks!Invalid
           ELSE IF value * base + Head(s) \in Clocks!Representable THEN Clocks!Accumulate[<<Tail(s), base, value * base + Head(s)>>]
           ELSE Clocks!Undefined
<1> DEFINE S == Seq(Nat) \X Nat \X (0 .. Most)
           V == {Clocks!Invalid, Clocks!Undefined} \cup {[ok |-> TRUE, value |-> n] : n \in 0 .. Most}
           size == [p \in S |-> Len(p[1])]
           Made(g, p) == IF p[1] = <<>> THEN [ok |-> TRUE, value |-> p[3]]
                         ELSE IF p[3] > (Most - Head(p[1])) \div p[2] THEN Clocks!Invalid
                         ELSE IF p[3] * p[2] + Head(p[1]) \in Clocks!Representable
                         THEN g[<<Tail(p[1]), p[2], p[3] * p[2] + Head(p[1])>>] ELSE Clocks!Undefined
           D == [z \in [S -> V] \X S |-> Made(z[1], z[2])]
<1>1. size \in [S -> Nat] /\ V # {} /\ Clocks!Invalid \in V /\ Clocks!Undefined \in V
  OBVIOUS
<1>2. ASSUME NEW p \in S, p[1] # <<>>, p[3] * p[2] + Head(p[1]) \in Clocks!Representable
      PROVE  LET q == <<Tail(p[1]), p[2], p[3] * p[2] + Head(p[1])>> IN q \in S /\ size[q] < size[p]
  <2>1. p[1] \in Seq(Nat) /\ p[2] \in Nat /\ p[3] \in 0 .. Most /\ Most \in Nat
    BY OtherAssumptions DEF Clocks!SizeAssumption
  <2>2. Tail(p[1]) \in Seq(Nat) /\ Len(p[1]) \in Nat \ {0} /\ Len(Tail(p[1])) = Len(p[1]) - 1 /\ Head(p[1]) \in Nat
    BY <1>2, <2>1, TailFacts
  <2>3. p[3] * p[2] + Head(p[1]) \in 0 .. Most
    <3>1. p[3] \in Nat
      BY <2>1
    <3>2. p[3] * p[2] + Head(p[1]) \in Nat
      BY <2>1, <2>2, <3>1, Fits
    <3> QED
      BY <1>2, <3>2, <2>1 DEF Clocks!Representable, Clocks!Least
  <2> DEFINE q == <<Tail(p[1]), p[2], p[3] * p[2] + Head(p[1])>>
  <2>4. q \in S
    BY <2>1, <2>2, <2>3
  <2>5. size[q] = Len(Tail(p[1])) /\ size[p] = Len(p[1])
    BY <2>4
  <2> QED
    BY <2>2, <2>4, <2>5
<1>3. \A g \in [S -> V], p \in S : Made(g, p) \in V
  <2> SUFFICES ASSUME NEW g \in [S -> V], NEW p \in S
               PROVE  Made(g, p) \in V
    OBVIOUS
  <2>1. CASE p[1] = <<>>
    BY <2>1
  <2>2. CASE p[1] # <<>> /\ p[3] * p[2] + Head(p[1]) \in Clocks!Representable
    <3>1. <<Tail(p[1]), p[2], p[3] * p[2] + Head(p[1])>> \in S
      BY <1>2, <2>2
    <3> HIDE DEF S, V
    <3> QED
      BY <2>2, <3>1, <1>1
  <2>3. CASE p[1] # <<>> /\ p[3] * p[2] + Head(p[1]) \notin Clocks!Representable
    <3> HIDE DEF S, V
    <3> QED
      BY <2>3, <1>1
  <2> QED
    BY <2>1, <2>2, <2>3
<1>4. \A g, h \in [S -> V], p \in S : (\A y \in S : size[y] < size[p] => g[y] = h[y]) => Made(g, p) = Made(h, p)
  <2> HIDE DEF size, S, V
  <2> QED
    BY <1>2
<1> HIDE DEF Made, size, S, V
<1>5. Recurs(D, S, V, size)
  BY <1>1, <1>3, <1>4 DEF Recurs
<1> HIDE DEF D
<1>6. PICK f \in [S -> V] : \A p \in S : f[p] = D[<<f, p>>]
  BY <1>5, Recursion
<1> USE DEF D
<1>7. f = [p \in S |-> Made(f, p)]
  BY <1>6
<1>8. Clocks!Accumulate = [p \in S |-> Made(Clocks!Accumulate, p)]
  BY <1>7 DEF Clocks!Accumulate, Made, S
<1>9. <<s, base, value>> \in S
  BY DEF S
<1>10. Clocks!Accumulate[<<s, base, value>>] = Made(Clocks!Accumulate, <<s, base, value>>)
  BY <1>8, <1>9
<1> QED
  BY <1>10 DEF Made

\* The test before the next digit is exact.
LEMMA DigitFits ==
  ASSUME NEW most \in Nat, NEW base \in Nat \ {0}, NEW n \in Nat, NEW d \in 0 .. most
  PROVE  n > (most - d) \div base <=> n * base + d > most
<1> DEFINE q == (most - d) \div base
           r == (most - d) % base
<1>1. most - d = base * q + r /\ q \in Int /\ r \in 0 .. base - 1
  <2>1. most - d \in Int
    OBVIOUS
  <2> QED
    BY <2>1, DivIs
<1> HIDE DEF q, r
<1>2. ASSUME n <= q
      PROVE  n * base + d <= most
  <2>1. n * base <= q * base
    BY <1>1, <1>2, MulMono
  <2>2. q * base = base * q
    BY <1>1
  <2>3. n * base \in Int /\ base * q \in Int
    BY <1>1
  <2> QED
    BY <1>1, <2>1, <2>2, <2>3
<1>3. ASSUME n > q
      PROVE  n * base + d > most
  <2>1. (q + 1) * base <= n * base
    BY <1>1, <1>3, MulMono
  <2>2. (q + 1) * base = base * q + base
    BY <1>1
  <2>3. n * base \in Int /\ base * q \in Int
    BY <1>1
  <2> QED
    BY <1>1, <2>1, <2>2, <2>3
<1>4. n * base + d \in Int /\ q \in Int
  BY <1>1
<1> QED
  BY <1>1, <1>2, <1>3, <1>4 DEF q

LEMMA Grows ==
  ASSUME NEW lower \in Nat, NEW base \in Nat \ {0}
  PROVE  lower <= lower * base
<1>1. 1 * lower <= base * lower
  BY MulMono
<1> QED
  BY <1>1

\* The sum of the digits is their meaning, if that fits; it never overflows.
LEMMA AccumulateGives ==
  ASSUME NEW s \in Seq(Nat), NEW base \in Nat \ {0}, \A i \in 1 .. Len(s) : s[i] <= Most
  PROVE  Clocks!Accumulate[<<s, base, 0>>] = IF Clocks!Meaning[<<s, base>>] <= Most
                                             THEN [ok |-> TRUE, value |-> Clocks!Meaning[<<s, base>>]] ELSE Clocks!Invalid
<1> DEFINE M(i) == First(s, base, i)
           Good == {i \in 0 .. Len(s) : Clocks!Accumulate[<<s, base, 0>>] =
                      IF M(i) <= Most THEN Clocks!Accumulate[<<After(s, i), base, M(i)>>] ELSE Clocks!Invalid}
<1>1. Len(s) \in Nat /\ Most \in Nat /\ base \in Nat
  BY OtherAssumptions DEF Clocks!SizeAssumption
<1>2. /\ M(0) = 0 /\ M(Len(s)) = Clocks!Meaning[<<s, base>>] /\ \A i \in 0 .. Len(s) : M(i) \in Nat
      /\ \A i \in 0 .. Len(s) - 1 : M(i + 1) = M(i) * base + s[i + 1] /\ s[i + 1] \in Nat
  BY <1>1, FirstIs
<1> HIDE DEF M
<1>3. 0 \in Good
  <2>1. After(s, 0) = s
    BY RestSteps
  <2>2. M(0) <= Most /\ 0 \in 0 .. Len(s)
    BY <1>1, <1>2
  <2>3. Clocks!Accumulate[<<After(s, 0), base, M(0)>>] = Clocks!Accumulate[<<s, base, 0>>]
    BY <1>2, <2>1
  <2> QED
    BY <2>2, <2>3
<1>4. ASSUME NEW i \in 0 .. Len(s) - 1, i \in Good
      PROVE  i + 1 \in Good
  <2>1. i \in 0 .. Len(s) /\ i + 1 \in 0 .. Len(s) /\ i + 1 \in 1 .. Len(s)
    BY <1>1
  <2>2. M(i) \in Nat /\ M(i + 1) \in Nat /\ s[i + 1] \in 0 .. Most /\ M(i + 1) = M(i) * base + s[i + 1]
    BY <1>1, <1>2, <2>1
  <2>3. CASE M(i) > Most
    <3>1. M(i) <= M(i) * base
      BY <1>1, <2>2, Grows
    <3>2. M(i + 1) > Most
      BY <1>1, <2>2, <2>3, <3>1
    <3>3. Clocks!Accumulate[<<s, base, 0>>] = Clocks!Invalid
      BY <1>1, <1>4, <2>2, <2>3
    <3> QED
      BY <1>1, <2>1, <2>2, <3>2, <3>3
  <2>4. CASE M(i) <= Most
    <3>1. Clocks!Accumulate[<<s, base, 0>>] = Clocks!Accumulate[<<After(s, i), base, M(i)>>]
      BY <1>4, <2>4
    <3>2. /\ After(s, i) \in Seq(Nat) /\ After(s, i) # <<>> /\ Head(After(s, i)) = s[i + 1]
          /\ Tail(After(s, i)) = After(s, i + 1)
      BY <2>1, Rests, RestSteps
    <3>3. M(i) \in 0 .. Most
      BY <1>1, <2>2, <2>4
    <3>4. Clocks!Accumulate[<<After(s, i), base, M(i)>>] =
            IF M(i) > (Most - s[i + 1]) \div base THEN Clocks!Invalid
            ELSE IF M(i + 1) \in Clocks!Representable THEN Clocks!Accumulate[<<After(s, i + 1), base, M(i + 1)>>]
            ELSE Clocks!Undefined
      <4> DEFINE t == After(s, i)
                 m == M(i)
      <4>1. t \in Seq(Nat) /\ t # <<>> /\ m \in 0 .. Most
        BY <3>2, <3>3
      <4> HIDE DEF t, m
      <4>2. Clocks!Accumulate[<<t, base, m>>] =
              IF t = <<>> THEN [ok |-> TRUE, value |-> m]
              ELSE IF m > (Most - Head(t)) \div base THEN Clocks!Invalid
              ELSE IF m * base + Head(t) \in Clocks!Representable THEN Clocks!Accumulate[<<Tail(t), base, m * base + Head(t)>>]
              ELSE Clocks!Undefined
        BY <1>1, <4>1, AccumulateIs
      <4>3. Head(t) = s[i + 1] /\ Tail(t) = After(s, i + 1) /\ m * base + s[i + 1] = M(i + 1)
        BY <2>2, <3>2 DEF t, m
      <4> QED
        BY <4>1, <4>2, <4>3 DEF t, m
    <3>5. M(i) > (Most - s[i + 1]) \div base <=> M(i + 1) > Most
      BY <1>1, <2>2, DigitFits
    <3>6. M(i + 1) <= Most => M(i + 1) \in Clocks!Representable
      BY <1>1, <2>2 DEF Clocks!Representable, Clocks!Least
    <3> QED
      BY <1>1, <2>1, <2>2, <3>1, <3>4, <3>5, <3>6
  <2> QED
    BY <1>1, <2>2, <2>3, <2>4
<1> HIDE DEF Good
<1>5. Len(s) \in Good
  <2>1. \A i \in 0 .. Len(s) - 1 : i \in Good => i + 1 \in Good
    BY <1>4
  <2>2. \A i \in 0 .. Len(s) : i \in Good
    BY <1>1, <1>3, <2>1, Upwards
  <2> QED
    BY <1>1, <2>2
<1>6. Clocks!Accumulate[<<s, base, 0>>] = IF M(Len(s)) <= Most THEN Clocks!Accumulate[<<After(s, Len(s)), base, M(Len(s))>>] ELSE Clocks!Invalid
  BY <1>5 DEF Good
<1>7. After(s, Len(s)) = <<>> /\ <<>> \in Seq(Nat)
  BY <1>1, Rests
<1>8. M(Len(s)) <= Most => Clocks!Accumulate[<<<<>>, base, M(Len(s))>>] = [ok |-> TRUE, value |-> M(Len(s))]
  <2> SUFFICES ASSUME M(Len(s)) <= Most
               PROVE  Clocks!Accumulate[<<<<>>, base, M(Len(s))>>] = [ok |-> TRUE, value |-> M(Len(s))]
    OBVIOUS
  <2>1. M(Len(s)) \in 0 .. Most
    BY <1>1, <1>2
  <2> QED
    BY <1>1, <1>7, <2>1, AccumulateIs
<1> QED
  BY <1>2, <1>6, <1>7, <1>8

LEMMA SizeFacts ==
  /\ Most \in Nat \ {0} /\ Radix \in Nat \ {0, 1} /\ Places \in Nat /\ Clocks!Least = -(Most + 1) /\ Radix <= Most
  /\ Octal \in Nat \ {0, 1} /\ Byte \in Nat \ {0, 1} /\ Octal <= Byte /\ Byte <= Most /\ FieldSize \in Nat \ {0}
  /\ 0 \in Clocks!Representable /\ Clocks!Representable \subseteq Int
  BY OtherAssumptions DEF Clocks!SizeAssumption, Clocks!Least, Clocks!Representable

LEMMA Wider ==
  ASSUME NEW A, NEW B, A \subseteq B, NEW s \in Seq(A)
  PROVE  s \in Seq(B)
<1>1. Len(s) \in Nat /\ \A i \in 1 .. Len(s) : s[i] \in A
  BY EmptyFacts
<1>2. s = [i \in 1 .. Len(s) |-> s[i]]
  OBVIOUS
<1>3. \A i \in 1 .. Len(s) : s[i] \in B
  BY <1>1
<1>4. [i \in 1 .. Len(s) |-> s[i]] \in Seq(B)
  BY <1>1, <1>3
<1> QED
  BY <1>2, <1>4

LEMMA CharacterFacts ==
  /\ Clocks!Digits \subseteq Nat /\ Clocks!Minus \in Nat /\ Clocks!Point \in Nat /\ Clocks!Minus \notin Clocks!Digits /\ Clocks!Point \notin Clocks!Digits /\ Clocks!Minus # Clocks!Point
  /\ \A s \in Clocks!Texts : s \in Seq(Nat)
  /\ \A d \in Clocks!Digits : d \in 0 .. Most + 1 /\ d \in 0 .. Most /\ d < Radix
<1>1. /\ Clocks!Digits \subseteq Nat /\ Clocks!Minus \in Nat /\ Clocks!Point \in Nat /\ Clocks!Minus \notin Clocks!Digits /\ Clocks!Point \notin Clocks!Digits /\ Clocks!Minus # Clocks!Point
      /\ \A d \in Clocks!Digits : d \in 0 .. Most + 1 /\ d \in 0 .. Most /\ d < Radix
  BY SizeFacts DEF Clocks!Digits, Clocks!Minus, Clocks!Point
<1>2. \A s \in Clocks!Texts : s \in Seq(Nat)
  <2>1. Clocks!Digits \cup {Clocks!Minus, Clocks!Point} \subseteq Nat
    BY <1>1
  <2> QED
    BY <2>1, Wider DEF Clocks!Texts
<1> QED
  BY <1>1, <1>2

LEMMA SecondsIs ==
  ASSUME NEW s \in Clocks!Texts, NEW n \in Clocks!Representable
  PROVE  Clocks!Seconds[<<s, n>>] = IF ~Clocks!LeadsDigit(s) THEN [ok |-> TRUE, value |-> n, left |-> s]
                                    ELSE IF Clocks!Counted(n, Head(s)).ok THEN Clocks!Seconds[<<Tail(s), Clocks!Counted(n, Head(s)).value>>]
                                    ELSE Clocks!Counted(n, Head(s))
<1> DEFINE S == Clocks!Texts \X Clocks!Representable
           V == {Clocks!Invalid, Clocks!Undefined} \cup {[ok |-> TRUE, value |-> p[2], left |-> p[1]] : p \in S}
           size == [p \in S |-> Len(p[1])]
           Made(g, p) == IF ~Clocks!LeadsDigit(p[1]) THEN [ok |-> TRUE, value |-> p[2], left |-> p[1]]
                         ELSE IF Clocks!Counted(p[2], Head(p[1])).ok
                         THEN g[<<Tail(p[1]), Clocks!Counted(p[2], Head(p[1])).value>>]
                         ELSE Clocks!Counted(p[2], Head(p[1]))
           D == [z \in [S -> V] \X S |-> Made(z[1], z[2])]
<1>1. size \in [S -> Nat] /\ V # {} /\ Clocks!Invalid \in V /\ Clocks!Undefined \in V
  <2>1. \A p \in S : Len(p[1]) \in Nat
    BY DEF Clocks!Texts
  <2> QED
    BY <2>1
<1>2. \A m, d : \/ Clocks!Counted(m, d) = Clocks!Invalid \/ Clocks!Counted(m, d) = Clocks!Undefined
                \/ Clocks!Counted(m, d).ok /\ Clocks!Counted(m, d).value \in Clocks!Representable
  BY DEF Clocks!Counted
<1>3. ~Clocks!Invalid.ok /\ ~Clocks!Undefined.ok
  BY DEF Clocks!Invalid, Clocks!Undefined
<1>4. ASSUME NEW p \in S, Clocks!LeadsDigit(p[1]), NEW m \in Clocks!Representable
      PROVE  <<Tail(p[1]), m>> \in S /\ size[<<Tail(p[1]), m>>] < size[p]
  <2>1. p[1] \in Clocks!Texts /\ p[1] # <<>>
    BY <1>4 DEF Clocks!LeadsDigit
  <2>2. Tail(p[1]) \in Clocks!Texts /\ Len(p[1]) \in Nat \ {0} /\ Len(Tail(p[1])) = Len(p[1]) - 1
    BY <2>1, TailFacts DEF Clocks!Texts
  <2>3. <<Tail(p[1]), m>> \in S
    BY <2>2
  <2>4. size[<<Tail(p[1]), m>>] = Len(Tail(p[1])) /\ size[p] = Len(p[1])
    BY <2>3
  <2> QED
    BY <2>2, <2>3, <2>4
<1>5. \A g \in [S -> V], p \in S : Made(g, p) \in V
  <2> SUFFICES ASSUME NEW g \in [S -> V], NEW p \in S
               PROVE  Made(g, p) \in V
    OBVIOUS
  <2>1. CASE ~Clocks!LeadsDigit(p[1])
    BY <2>1
  <2>2. CASE Clocks!LeadsDigit(p[1])
    <3> HIDE DEF S, V
    <3> QED
      BY <2>2, <1>1, <1>2, <1>3, <1>4
  <2> QED
    BY <2>1, <2>2
<1>6. \A g, h \in [S -> V], p \in S : (\A y \in S : size[y] < size[p] => g[y] = h[y]) => Made(g, p) = Made(h, p)
  <2> HIDE DEF size, S, V
  <2> QED
    BY <1>2, <1>3, <1>4
<1> HIDE DEF Made, size, S, V
<1>7. Recurs(D, S, V, size)
  BY <1>1, <1>5, <1>6 DEF Recurs
<1> HIDE DEF D
<1>8. PICK f \in [S -> V] : \A p \in S : f[p] = D[<<f, p>>]
  BY <1>7, Recursion
<1> USE DEF D
<1>9. f = [p \in S |-> Made(f, p)]
  BY <1>8
<1>10. Clocks!Seconds = [p \in S |-> Made(Clocks!Seconds, p)]
  BY <1>9 DEF Clocks!Seconds, Made, S
<1>11. <<s, n>> \in S
  BY DEF S
<1>12. Clocks!Seconds[<<s, n>>] = Made(Clocks!Seconds, <<s, n>>)
  BY <1>10, <1>11
<1> QED
  BY <1>12 DEF Made

\* Counting down is exact: one digit more fits or is refused.
LEMMA CountedIs ==
  ASSUME NEW n \in Nat, n <= Most + 1, NEW d \in Clocks!Digits
  PROVE  Clocks!Counted(-n, d) = IF n * Radix + d <= Most + 1 THEN [ok |-> TRUE, value |-> -(n * Radix + d)] ELSE Clocks!Invalid
<1> DEFINE most == Most + 1
<1>1. most \in Nat /\ Radix \in Nat \ {0} /\ d \in 0 .. most /\ d \in 0 .. Most
  BY SizeFacts, CharacterFacts
<1>2. n > (most - d) \div Radix <=> n * Radix + d > most
  <2> HIDE DEF most
  <2> QED
    BY <1>1, DigitFits
<1>3. Clocks!Quotient(Clocks!Least + d, Radix) = -((most - d) \div Radix)
  <2>1. Clocks!Least + d < 0 /\ -(Clocks!Least + d) = most - d
    BY <1>1, SizeFacts
  <2> QED
    BY <2>1 DEF Clocks!Quotient
<1>4. (most - d) \div Radix \in Int
  <2>1. most - d \in Int
    BY <1>1
  <2> QED
    BY <1>1, <2>1, DivIs
<1>5. -n < Clocks!Quotient(Clocks!Least + d, Radix) <=> n * Radix + d > most
  BY <1>2, <1>3, <1>4
<1>6. (-n) * Radix - d = -(n * Radix + d) /\ n * Radix + d \in Nat
  BY <1>1
<1>7. n * Radix + d <= most => -(n * Radix + d) \in Clocks!Representable
  BY <1>1, <1>6, SizeFacts DEF Clocks!Representable
<1>8. n * Radix + d > most <=> ~(n * Radix + d <= most)
  BY <1>1, <1>6
<1> QED
  BY <1>5, <1>6, <1>7, <1>8 DEF Clocks!Counted

\* The digits before the first other character are counted to their meaning, if
\* that fits; counting never overflows.
LEMMA SecondsGives ==
  ASSUME NEW s \in Clocks!Texts, NEW r \in 0 .. Len(s), \A i \in 1 .. r : s[i] \in Clocks!Digits, r = Len(s) \/ s[r + 1] \notin Clocks!Digits
  PROVE  Clocks!Seconds[<<s, 0>>] = IF First(s, Radix, r) <= Most + 1
                                    THEN [ok |-> TRUE, value |-> -First(s, Radix, r), left |-> After(s, r)] ELSE Clocks!Invalid
<1> DEFINE M(i) == First(s, Radix, i)
           Good == {i \in 0 .. r : Clocks!Seconds[<<s, 0>>] =
                      IF M(i) <= Most + 1 THEN Clocks!Seconds[<<After(s, i), -M(i)>>] ELSE Clocks!Invalid}
<1>1. Len(s) \in Nat /\ Most \in Nat /\ Radix \in Nat \ {0} /\ s \in Seq(Nat) /\ r \in Nat /\ r <= Len(s)
  BY SizeFacts, CharacterFacts
<1>2. /\ M(0) = 0 /\ \A i \in 0 .. Len(s) : M(i) \in Nat
      /\ \A i \in 0 .. Len(s) - 1 : M(i + 1) = M(i) * Radix + s[i + 1] /\ s[i + 1] \in Nat
  BY <1>1, FirstIs
<1> HIDE DEF M
<1>3. 0 \in Good
  <2>1. After(s, 0) = s
    BY RestSteps DEF Clocks!Texts
  <2>2. -M(0) = 0 /\ M(0) <= Most + 1
    BY <1>1, <1>2
  <2> QED
    BY <1>1, <2>1, <2>2
<1>4. \A i \in 0 .. Len(s) : After(s, i) \in Clocks!Texts
  BY Rests DEF Clocks!Texts
<1>5. \A i \in 0 .. r : M(i) \in Nat /\ (M(i) <= Most + 1 => -M(i) \in Clocks!Representable)
  BY <1>1, <1>2, SizeFacts DEF Clocks!Representable
<1>6. ASSUME NEW i \in 0 .. r - 1, i \in Good
      PROVE  i + 1 \in Good
  <2>1. i \in 0 .. Len(s) - 1 /\ i \in 0 .. r /\ i + 1 \in 0 .. r /\ i + 1 \in 1 .. r /\ i \in 0 .. Len(s)
    BY <1>1
  <2>2. M(i) \in Nat /\ M(i + 1) \in Nat /\ s[i + 1] \in Clocks!Digits /\ s[i + 1] \in Nat /\ M(i + 1) = M(i) * Radix + s[i + 1]
    BY <1>2, <1>5, <2>1
  <2>3. CASE M(i) > Most + 1
    <3>1. M(i) <= M(i) * Radix
      BY <1>1, <2>2, Grows
    <3>2. M(i + 1) > Most + 1
      BY <1>1, <2>2, <2>3, <3>1
    <3>3. Clocks!Seconds[<<s, 0>>] = Clocks!Invalid
      BY <1>1, <1>6, <2>2, <2>3
    <3> QED
      BY <1>1, <2>1, <2>2, <3>2, <3>3
  <2>4. CASE M(i) <= Most + 1
    <3>1. Clocks!Seconds[<<s, 0>>] = Clocks!Seconds[<<After(s, i), -M(i)>>]
      BY <1>6, <2>4
    <3> DEFINE t == After(s, i)
               n == -M(i)
    <3>2. t \in Clocks!Texts /\ t # <<>> /\ Head(t) = s[i + 1] /\ Tail(t) = After(s, i + 1)
      BY <1>4, <2>1, RestSteps DEF Clocks!Texts
    <3>3. n \in Clocks!Representable
      BY <1>5, <2>1, <2>4
    <3>4. Clocks!LeadsDigit(t)
      BY <2>2, <3>2 DEF Clocks!LeadsDigit
    <3>5. Clocks!Counted(n, Head(t)) = IF M(i + 1) <= Most + 1 THEN [ok |-> TRUE, value |-> -M(i + 1)] ELSE Clocks!Invalid
      BY <2>2, <2>4, <3>2, CountedIs
    <3> HIDE DEF t, n
    <3>6. Clocks!Seconds[<<t, n>>] = IF Clocks!Counted(n, Head(t)).ok THEN Clocks!Seconds[<<Tail(t), Clocks!Counted(n, Head(t)).value>>]
                                     ELSE Clocks!Counted(n, Head(t))
      BY <3>2, <3>3, <3>4, SecondsIs
    <3>7. Clocks!Seconds[<<t, n>>] = IF M(i + 1) <= Most + 1 THEN Clocks!Seconds[<<After(s, i + 1), -M(i + 1)>>] ELSE Clocks!Invalid
      <4>1. CASE M(i + 1) <= Most + 1
        <5> DEFINE c == Clocks!Counted(n, Head(t))
        <5>1. c = [ok |-> TRUE, value |-> -M(i + 1)]
          BY <3>5, <4>1
        <5>2. c.ok /\ c.value = -M(i + 1)
          BY <5>1
        <5> HIDE DEF c
        <5>3. Clocks!Seconds[<<t, n>>] = Clocks!Seconds[<<Tail(t), c.value>>]
          BY <3>6, <5>2 DEF c
        <5> QED
          BY <3>2, <4>1, <5>2, <5>3
      <4>2. CASE ~(M(i + 1) <= Most + 1)
        <5>1. Clocks!Counted(n, Head(t)) = Clocks!Invalid /\ ~Clocks!Invalid.ok
          BY <3>5, <4>2 DEF Clocks!Invalid
        <5> QED
          BY <3>6, <4>2, <5>1
      <4> QED
        BY <4>1, <4>2
    <3> QED
      BY <2>1, <3>1, <3>7 DEF t, n
  <2> QED
    BY <1>1, <2>2, <2>3, <2>4
<1> HIDE DEF Good
<1>7. r \in Good
  <2>1. \A i \in 0 .. r - 1 : i \in Good => i + 1 \in Good
    BY <1>6
  <2>2. \A i \in 0 .. r : i \in Good
    BY <1>1, <1>3, <2>1, Upwards
  <2> QED
    BY <1>1, <2>2
<1>8. Clocks!Seconds[<<s, 0>>] = IF M(r) <= Most + 1 THEN Clocks!Seconds[<<After(s, r), -M(r)>>] ELSE Clocks!Invalid
  BY <1>7 DEF Good
<1>9. ASSUME M(r) <= Most + 1
      PROVE  Clocks!Seconds[<<After(s, r), -M(r)>>] = [ok |-> TRUE, value |-> -M(r), left |-> After(s, r)]
  <2>1. After(s, r) \in Clocks!Texts /\ -M(r) \in Clocks!Representable
    BY <1>1, <1>4, <1>5, <1>9
  <2>2. ~Clocks!LeadsDigit(After(s, r))
    <3>1. CASE r = Len(s)
      <4>1. After(s, r) = <<>>
        BY <3>1, Rests DEF Clocks!Texts
      <4> QED
        BY <4>1 DEF Clocks!LeadsDigit
    <3>2. CASE r # Len(s)
      <4>1. r \in 0 .. Len(s) - 1
        BY <1>1, <3>2
      <4>2. Head(After(s, r)) = s[r + 1]
        BY <4>1, RestSteps DEF Clocks!Texts
      <4> QED
        BY <3>2, <4>2 DEF Clocks!LeadsDigit
    <3> QED
      BY <3>1, <3>2
  <2> HIDE DEF Good
  <2> QED
    BY <2>1, <2>2, SecondsIs
<1> QED
  BY <1>8, <1>9 DEF M

LEMMA NanosIs ==
  ASSUME NEW s \in Clocks!Texts, NEW n \in Nat, NEW count \in Nat
  PROVE  Clocks!Nanos[<<s, n, count>>] =
           IF s = <<>> THEN [ok |-> TRUE, value |-> n * Clocks!Power[<<Radix, IF count < Places THEN Places - count ELSE 0>>]]
           ELSE IF Head(s) \notin Clocks!Digits \/ (count >= Places /\ Head(s) # 0) THEN Clocks!Invalid
           ELSE Clocks!Nanos[<<Tail(s), IF count < Places THEN n * Radix + Head(s) ELSE n, count + 1>>]
<1> DEFINE S == Clocks!Texts \X Nat \X Nat
           V == {Clocks!Invalid} \cup {[ok |-> TRUE, value |-> m] : m \in Nat}
           size == [p \in S |-> Len(p[1])]
           More(p) == IF p[3] < Places THEN p[2] * Radix + Head(p[1]) ELSE p[2]
           Made(g, p) == IF p[1] = <<>>
                         THEN [ok |-> TRUE, value |-> p[2] * Clocks!Power[<<Radix, IF p[3] < Places THEN Places - p[3] ELSE 0>>]]
                         ELSE IF Head(p[1]) \notin Clocks!Digits \/ (p[3] >= Places /\ Head(p[1]) # 0) THEN Clocks!Invalid
                         ELSE g[<<Tail(p[1]), More(p), p[3] + 1>>]
           D == [z \in [S -> V] \X S |-> Made(z[1], z[2])]
<1>1. size \in [S -> Nat] /\ V # {} /\ Clocks!Invalid \in V
  <2>1. \A p \in S : Len(p[1]) \in Nat
    BY DEF Clocks!Texts
  <2> QED
    BY <2>1
<1>2. ASSUME NEW p \in S, p[1] # <<>>, Head(p[1]) \in Clocks!Digits
      PROVE  LET q == <<Tail(p[1]), More(p), p[3] + 1>> IN q \in S /\ size[q] < size[p]
  <2>1. p[1] \in Clocks!Texts /\ p[2] \in Nat /\ p[3] \in Nat /\ Radix \in Nat
    BY SizeFacts
  <2>2. Tail(p[1]) \in Clocks!Texts /\ Len(p[1]) \in Nat \ {0} /\ Len(Tail(p[1])) = Len(p[1]) - 1
    BY <1>2, <2>1, TailFacts DEF Clocks!Texts
  <2>3. More(p) \in Nat
    <3>1. Head(p[1]) \in Nat
      BY <1>2, CharacterFacts
    <3>2. p[2] * Radix + Head(p[1]) \in Nat
      BY <2>1, <3>1, Fits
    <3> QED
      BY <2>1, <3>2
  <2> DEFINE q == <<Tail(p[1]), More(p), p[3] + 1>>
  <2> HIDE DEF More
  <2>4. q \in S
    <3>1. \A t \in Clocks!Texts, m \in Nat, k \in Nat : <<t, m, k>> \in S
      OBVIOUS
    <3>2. p[3] + 1 \in Nat
      BY <2>1
    <3> HIDE DEF S
    <3> QED
      BY <2>2, <2>3, <3>1, <3>2
  <2>5. size[q] = Len(Tail(p[1])) /\ size[p] = Len(p[1])
    BY <2>4
  <2> QED
    BY <2>2, <2>4, <2>5
<1> HIDE DEF More
<1>3. \A g \in [S -> V], p \in S : Made(g, p) \in V
  <2> SUFFICES ASSUME NEW g \in [S -> V], NEW p \in S
               PROVE  Made(g, p) \in V
    OBVIOUS
  <2>1. CASE p[1] = <<>>
    <3> DEFINE k == IF p[3] < Places THEN Places - p[3] ELSE 0
               w == Clocks!Power[<<Radix, k>>]
    <3>1. k \in Nat
      BY SizeFacts
    <3> HIDE DEF k
    <3>2. w \in Nat
      BY <3>1, SizeFacts, PowerIs
    <3> HIDE DEF w
    <3>3. p[2] * w \in Nat
      BY <3>2
    <3>4. Made(g, p) = [ok |-> TRUE, value |-> p[2] * w]
      BY <2>1 DEF w, k
    <3> QED
      BY <3>3, <3>4
  <2>2. CASE p[1] # <<>> /\ Head(p[1]) \in Clocks!Digits
    <3>1. <<Tail(p[1]), More(p), p[3] + 1>> \in S
      BY <1>2, <2>2
    <3> HIDE DEF S, V
    <3> QED
      BY <2>2, <3>1, <1>1
  <2>3. CASE p[1] # <<>> /\ Head(p[1]) \notin Clocks!Digits
    <3> HIDE DEF S, V
    <3> QED
      BY <2>3, <1>1
  <2> QED
    BY <2>1, <2>2, <2>3
<1>4. \A g, h \in [S -> V], p \in S : (\A y \in S : size[y] < size[p] => g[y] = h[y]) => Made(g, p) = Made(h, p)
  <2> HIDE DEF size, S, V
  <2> QED
    BY <1>2
<1> HIDE DEF Made, size, S, V
<1>5. Recurs(D, S, V, size)
  BY <1>1, <1>3, <1>4 DEF Recurs
<1> HIDE DEF D
<1>6. PICK f \in [S -> V] : \A p \in S : f[p] = D[<<f, p>>]
  BY <1>5, Recursion
<1> USE DEF D
<1>7. f = [p \in S |-> Made(f, p)]
  BY <1>6
<1>8. Clocks!Nanos = [p \in S |-> Made(Clocks!Nanos, p)]
  BY <1>7 DEF Clocks!Nanos, Made, More, S
<1>9. <<s, n, count>> \in S
  BY DEF S
<1>10. Clocks!Nanos[<<s, n, count>>] = Made(Clocks!Nanos, <<s, n, count>>)
  BY <1>8, <1>9
<1> QED
  BY <1>10 DEF Made, More

\* The digits of a fraction that count: a nanosecond has Places of them.
Kept(i) == IF i <= Places THEN i ELSE Places
Missing(i) == IF i < Places THEN Places - i ELSE 0
Counts(s, i) == s[i] \in Clocks!Digits /\ (i > Places => s[i] = 0)

LEMMA KeptIs ==
  ASSUME NEW i \in Nat
  PROVE  /\ Kept(i) \in Nat /\ Kept(i) \in 0 .. i /\ Kept(i) \in 0 .. Places /\ Missing(i) \in Nat /\ Kept(i) + Missing(i) = Places
         /\ Kept(i + 1) = IF i < Places THEN Kept(i) + 1 ELSE Kept(i)
         /\ (i < Places => Kept(i) = i) /\ Kept(0) = 0
  BY SizeFacts DEF Kept, Missing

LEMMA NanosGives ==
  ASSUME NEW s \in Clocks!Texts
  PROVE  Clocks!Nanos[<<s, 0, 0>>] =
           IF \A i \in 1 .. Len(s) : Counts(s, i)
           THEN [ok |-> TRUE, value |-> First(s, Radix, Kept(Len(s))) * Clocks!Power[<<Radix, Missing(Len(s))>>]] ELSE Clocks!Invalid
<1> DEFINE M(i) == First(s, Radix, i)
           Fine(i) == \A j \in 1 .. i : Counts(s, j)
           Good == {i \in 0 .. Len(s) : Fine(i) => Clocks!Nanos[<<s, 0, 0>>] = Clocks!Nanos[<<After(s, i), M(Kept(i)), i>>]}
<1>1. Len(s) \in Nat /\ Radix \in Nat /\ s \in Seq(Nat) /\ Places \in Nat
  BY SizeFacts, CharacterFacts
<1>2. /\ M(0) = 0 /\ \A i \in 0 .. Len(s) : M(i) \in Nat
      /\ \A i \in 0 .. Len(s) - 1 : M(i + 1) = M(i) * Radix + s[i + 1] /\ s[i + 1] \in Nat
  BY <1>1, FirstIs
<1>3. \A i \in 0 .. Len(s) : After(s, i) \in Clocks!Texts
  BY Rests DEF Clocks!Texts
<1>4. \A i \in 0 .. Len(s) : M(Kept(i)) \in Nat
  <2>1. \A i \in 0 .. Len(s) : Kept(i) \in 0 .. Len(s)
    <3>1. ASSUME NEW i \in 0 .. Len(s)
          PROVE  Kept(i) \in 0 .. Len(s)
      <4>1. Kept(i) \in 0 .. i /\ i \in Nat
        BY <1>1, KeptIs
      <4> QED
        BY <1>1, <4>1
    <3> QED
      BY <3>1
  <2> QED
    BY <1>2, <2>1
<1> HIDE DEF M
\* What is counted after the first i digits, and what the next character does.
<1>5. ASSUME NEW i \in 0 .. Len(s) - 1
      PROVE  Clocks!Nanos[<<After(s, i), M(Kept(i)), i>>] =
               IF Counts(s, i + 1) THEN Clocks!Nanos[<<After(s, i + 1), M(Kept(i + 1)), i + 1>>] ELSE Clocks!Invalid
  <2>1. i \in Nat /\ i \in 0 .. Len(s)
    BY <1>1
  <2> DEFINE t == After(s, i)
             n == M(Kept(i))
  <2>2. t \in Clocks!Texts /\ t # <<>> /\ Head(t) = s[i + 1] /\ Tail(t) = After(s, i + 1) /\ n \in Nat
    BY <1>3, <1>4, <2>1, RestSteps DEF Clocks!Texts
  <2>3. M(Kept(i + 1)) = IF i < Places THEN n * Radix + s[i + 1] ELSE n
    <3>1. CASE i < Places
      <4>1. Kept(i) = i /\ Kept(i + 1) = i + 1
        BY <2>1, <3>1, KeptIs
      <4> QED
        BY <1>2, <3>1, <4>1
    <3>2. CASE ~(i < Places)
      <4>1. Kept(i + 1) = Kept(i)
        BY <2>1, <3>2, KeptIs
      <4> QED
        BY <3>2, <4>1
    <3> QED
      BY <3>1, <3>2
  <2> HIDE DEF t, n
  <2>4. Clocks!Nanos[<<t, n, i>>] =
          IF Head(t) \notin Clocks!Digits \/ (i >= Places /\ Head(t) # 0) THEN Clocks!Invalid
          ELSE Clocks!Nanos[<<Tail(t), IF i < Places THEN n * Radix + Head(t) ELSE n, i + 1>>]
    BY <2>1, <2>2, NanosIs
  <2>5. Counts(s, i + 1) <=> ~(Head(t) \notin Clocks!Digits \/ (i >= Places /\ Head(t) # 0))
    BY <1>1, <2>1, <2>2 DEF Counts
  <2> QED
    BY <2>2, <2>3, <2>4, <2>5 DEF t, n
<1>6. 0 \in Good
  <2>1. After(s, 0) = s
    BY RestSteps DEF Clocks!Texts
  <2>2. M(Kept(0)) = 0
    BY <1>2, KeptIs
  <2> QED
    BY <1>1, <2>1, <2>2
<1>7. \A i \in 0 .. Len(s) - 1 : i \in Good => i + 1 \in Good
  <2> SUFFICES ASSUME NEW i \in 0 .. Len(s) - 1, i \in Good
               PROVE  i + 1 \in Good
    OBVIOUS
  <2>1. \A j \in 1 .. i : j \in 1 .. i + 1
    BY <1>1
  <2>2. i + 1 \in 1 .. i + 1
    BY <1>1
  <2>3. ASSUME Fine(i + 1)
        PROVE  Clocks!Nanos[<<s, 0, 0>>] = Clocks!Nanos[<<After(s, i + 1), M(Kept(i + 1)), i + 1>>]
    <3>1. Fine(i) /\ Counts(s, i + 1)
      BY <2>1, <2>2, <2>3
    <3> QED
      BY <3>1, <1>5
  <2>4. i + 1 \in 0 .. Len(s)
    BY <1>1
  <2> HIDE DEF Fine
  <2> QED
    BY <2>3, <2>4
<1> HIDE DEF Good
<1>8. \A i \in 0 .. Len(s) : i \in Good
  BY <1>1, <1>6, <1>7, Upwards
<1>9. CASE \A i \in 1 .. Len(s) : Counts(s, i)
  <2> DEFINE l == Len(s)
             n == M(Kept(l))
  <2>1. Clocks!Nanos[<<s, 0, 0>>] = Clocks!Nanos[<<After(s, l), n, l>>]
    <3>1. l \in 0 .. Len(s)
      BY <1>1
    <3>2. l \in Good
      BY <1>8, <3>1
    <3> QED
      BY <1>9, <3>2 DEF Good
  <2>2. After(s, l) = <<>> /\ <<>> \in Clocks!Texts /\ n \in Nat /\ l \in Nat
    <3>1. l \in 0 .. Len(s)
      BY <1>1
    <3>2. After(s, l) = <<>>
      BY <3>1, Rests DEF Clocks!Texts
    <3>3. <<>> \in Clocks!Texts
      BY <3>1, <3>2, <1>3
    <3> QED
      BY <1>1, <1>4, <3>1, <3>2, <3>3
  <2> HIDE DEF l, n
  <2>3. Clocks!Nanos[<<<<>>, n, l>>] = [ok |-> TRUE, value |-> n * Clocks!Power[<<Radix, IF l < Places THEN Places - l ELSE 0>>]]
    BY <2>2, NanosIs
  <2>4. Clocks!Nanos[<<s, 0, 0>>] = [ok |-> TRUE, value |-> n * Clocks!Power[<<Radix, Missing(l)>>]]
    BY <2>1, <2>2, <2>3 DEF Missing
  <2> QED
    BY <1>9, <2>4 DEF n, l, M
<1>10. CASE ~\A i \in 1 .. Len(s) : Counts(s, i)
  <2> DEFINE T == {i \in 1 .. Len(s) : ~Counts(s, i)}
  <2>1. T \in SUBSET Nat /\ T # {}
    BY <1>10
  <2>2. PICK x \in T : \A y \in T : x <= y
    <3> HIDE DEF T
    <3> QED
      BY <2>1, LeastNumber
  <2>3. x \in 1 .. Len(s) /\ ~Counts(s, x) /\ x - 1 \in 0 .. Len(s) - 1 /\ x - 1 \in 0 .. Len(s) /\ (x - 1) + 1 = x
    BY <1>1, <2>2
  <2>4. Fine(x - 1)
    <3> SUFFICES ASSUME NEW j \in 1 .. x - 1, ~Counts(s, j)
                 PROVE  FALSE
      OBVIOUS
    <3>1. j \in T /\ ~(x <= j)
      BY <2>3
    <3> QED
      BY <2>2, <3>1
  <2> DEFINE w == x - 1
  <2>5. w \in 0 .. Len(s) - 1 /\ w \in Good /\ Fine(w) /\ ~Counts(s, w + 1)
    BY <1>8, <2>3, <2>4
  <2> HIDE DEF w
  <2>6. Clocks!Nanos[<<s, 0, 0>>] = Clocks!Nanos[<<After(s, w), M(Kept(w)), w>>]
    BY <2>5 DEF Good
  <2>7. Clocks!Nanos[<<s, 0, 0>>] = Clocks!Invalid
    BY <1>5, <2>5, <2>6
  <2> QED
    BY <1>10, <2>7
<1> QED
  BY <1>9, <1>10

\* A number and its complement make the largest number of that length.
LEMMA Complements ==
  ASSUME NEW base \in Nat \ {0}, NEW u \in Seq(Nat), NEW v \in Seq(Nat), Len(u) = Len(v),
         \A i \in 1 .. Len(u) : u[i] + v[i] = base - 1
  PROVE  Clocks!Meaning[<<u, base>>] + Clocks!Meaning[<<v, base>>] = Clocks!Power[<<base, Len(u)>>] - 1
<1> DEFINE A(i) == First(u, base, i)
           B(i) == First(v, base, i)
           Good == {i \in 0 .. Len(u) : A(i) + B(i) = Clocks!Power[<<base, i>>] - 1}
<1>1. Len(u) \in Nat /\ base \in Nat
  OBVIOUS
<1>2. /\ A(0) = 0 /\ A(Len(u)) = Clocks!Meaning[<<u, base>>] /\ \A i \in 0 .. Len(u) : A(i) \in Nat
      /\ \A i \in 0 .. Len(u) - 1 : A(i + 1) = A(i) * base + u[i + 1] /\ u[i + 1] \in Nat
  BY <1>1, FirstIs
<1>3. /\ B(0) = 0 /\ B(Len(v)) = Clocks!Meaning[<<v, base>>] /\ \A i \in 0 .. Len(v) : B(i) \in Nat
      /\ \A i \in 0 .. Len(v) - 1 : B(i + 1) = B(i) * base + v[i + 1] /\ v[i + 1] \in Nat
  BY <1>1, FirstIs
<1>4. \A n \in Nat : Clocks!Power[<<base, n>>] \in Nat
  BY <1>1, PowerIs
<1> HIDE DEF A, B
<1>5. 0 \in Good
  <2>1. Clocks!Power[<<base, 0>>] = 1
    BY <1>1, PowerIs
  <2> QED
    <3>1. A(0) + B(0) = Clocks!Power[<<base, 0>>] - 1
      BY <1>2, <1>3, <2>1
    <3>2. 0 \in 0 .. Len(u)
      BY <1>1
    <3> QED
      BY <3>1, <3>2
<1>6. ASSUME NEW i \in 0 .. Len(u) - 1, i \in Good
      PROVE  i + 1 \in Good
  <2>1. i \in Nat /\ i + 1 \in Nat /\ i + 1 # 0 /\ (i + 1) - 1 = i /\ i + 1 \in 0 .. Len(u) /\ i \in 0 .. Len(u) /\ i + 1 \in 1 .. Len(u)
    BY <1>1
  <2>2. Clocks!Power[<<base, i + 1>>] = base * Clocks!Power[<<base, i>>]
    <3>1. Clocks!Power[<<base, i + 1>>] = IF i + 1 = 0 THEN 1 ELSE base * Clocks!Power[<<base, (i + 1) - 1>>]
      BY <1>1, <2>1, PowerIs
    <3> QED
      BY <2>1, <3>1
  <2>3. A(i) \in Nat /\ B(i) \in Nat /\ u[i + 1] \in Nat /\ v[i + 1] \in Nat /\ Clocks!Power[<<base, i>>] \in Nat
    BY <1>2, <1>3, <1>4, <2>1
  <2>4. A(i) + B(i) = Clocks!Power[<<base, i>>] - 1 /\ u[i + 1] + v[i + 1] = base - 1
    BY <1>6, <2>1
  <2>5. (A(i) * base + u[i + 1]) + (B(i) * base + v[i + 1]) = base * Clocks!Power[<<base, i>>] - 1
    <3> DEFINE x == A(i)
               y == B(i)
               p == Clocks!Power[<<base, i>>]
               d == u[i + 1]
               e == v[i + 1]
    <3>1. x \in Nat /\ y \in Nat /\ p \in Nat /\ d \in Nat /\ e \in Nat /\ x + y = p - 1 /\ d + e = base - 1
      BY <2>3, <2>4
    <3> HIDE DEF x, y, p, d, e
    <3>2. (x * base + d) + (y * base + e) = base * p - 1
      <4>1. x * base + y * base = (x + y) * base /\ (p - 1) * base = base * p - base
        BY <3>1
      <4>2. (x + y) * base = (p - 1) * base
        BY <3>1
      <4>3. x * base \in Int /\ y * base \in Int /\ base * p \in Int
        BY <3>1
      <4> QED
        <5> DEFINE xb == x * base
                   yb == y * base
                   bp == base * p
        <5>1. xb \in Int /\ yb \in Int /\ bp \in Int /\ xb + yb = bp - base
          BY <4>1, <4>2, <4>3
        <5> HIDE DEF xb, yb, bp
        <5>2. (xb + d) + (yb + e) = bp - 1
          BY <3>1, <5>1
        <5> QED
          BY <5>2 DEF xb, yb, bp
    <3> QED
      BY <3>2 DEF x, y, p, d, e
  <2>6. A(i + 1) = A(i) * base + u[i + 1] /\ B(i + 1) = B(i) * base + v[i + 1]
    BY <1>2, <1>3, <2>1
  <2>7. A(i + 1) + B(i + 1) = Clocks!Power[<<base, i + 1>>] - 1
    BY <2>2, <2>5, <2>6
  <2> QED
    BY <2>1, <2>7
<1> HIDE DEF Good
<1>7. Len(u) \in Good
  <2>1. \A i \in 0 .. Len(u) - 1 : i \in Good => i + 1 \in Good
    BY <1>6
  <2>2. \A i \in 0 .. Len(u) : i \in Good
    BY <1>1, <1>5, <2>1, Upwards
  <2> QED
    BY <1>1, <2>2
<1> QED
  BY <1>2, <1>3, <1>7 DEF Good

LEMMA MeaningBound ==
  ASSUME NEW base \in Nat \ {0}, NEW u \in Seq(Nat), \A i \in 1 .. Len(u) : u[i] < base
  PROVE  Clocks!Meaning[<<u, base>>] \in 0 .. Clocks!Power[<<base, Len(u)>>] - 1 /\ Clocks!Power[<<base, Len(u)>>] \in Nat \ {0}
<1> DEFINE v == [i \in 1 .. Len(u) |-> base - 1 - u[i]]
<1>1. Len(u) \in Nat /\ base \in Nat /\ \A i \in 1 .. Len(u) : u[i] \in Nat
  BY EmptyFacts
<1>2. v \in Seq(Nat) /\ Len(v) = Len(u) /\ \A i \in 1 .. Len(u) : u[i] + v[i] = base - 1
  BY <1>1
<1> HIDE DEF v
<1>3. Clocks!Meaning[<<u, base>>] + Clocks!Meaning[<<v, base>>] = Clocks!Power[<<base, Len(u)>>] - 1
  BY <1>2, Complements
<1>4. Clocks!Meaning[<<u, base>>] \in Nat /\ Clocks!Meaning[<<v, base>>] \in Nat /\ Clocks!Power[<<base, Len(u)>>] \in Nat
  BY <1>1, <1>2, MeaningIs, PowerIs
<1> QED
  BY <1>3, <1>4

Padded(s) == [i \in 1 .. Places |-> IF i \in DOMAIN s THEN s[i] ELSE 0]

LEMMA PaddedFacts ==
  ASSUME NEW s \in Clocks!Texts, \A i \in 1 .. Len(s) : Counts(s, i)
  PROVE  /\ Padded(s) \in Seq(Nat) /\ Len(Padded(s)) = Places
         /\ \A i \in 1 .. Places : Padded(s)[i] = (IF i \in 1 .. Len(s) THEN s[i] ELSE 0) /\ Padded(s)[i] < Radix
<1>1. Len(s) \in Nat /\ s \in Seq(Nat) /\ Places \in Nat /\ DOMAIN s = 1 .. Len(s) /\ 0 < Radix
  BY SizeFacts, CharacterFacts DEF Clocks!Texts
<1>2. \A i \in 1 .. Len(s) : s[i] \in Nat /\ s[i] < Radix
  BY CharacterFacts DEF Counts
<1>3. /\ DOMAIN Padded(s) = 1 .. Places
      /\ \A i \in 1 .. Places : Padded(s)[i] = (IF i \in 1 .. Len(s) THEN s[i] ELSE 0) /\ Padded(s)[i] \in Nat /\ Padded(s)[i] < Radix
  BY <1>1, <1>2 DEF Padded
<1>4. Padded(s) = [i \in 1 .. Places |-> Padded(s)[i]]
  BY DEF Padded
<1>5. [i \in 1 .. Places |-> Padded(s)[i]] \in Seq(Nat) /\ Len([i \in 1 .. Places |-> Padded(s)[i]]) = Places
  BY <1>1, <1>3
<1> QED
  BY <1>3, <1>4, <1>5

LEMMA Reordered ==
  /\ \A x, y, z \in Nat : (x * y) * z + 0 = x * (z * y)
  /\ \A x \in Nat : x * 1 = x
<1>1. ASSUME NEW x \in Nat, NEW y \in Nat, NEW z \in Nat
      PROVE  (x * y) * z + 0 = x * (z * y)
  <2>1. (x * y) * z \in Int
    OBVIOUS
  <2>2. (x * y) * z = x * (z * y)
    OBVIOUS
  <2> QED
    BY <2>1, <2>2
<1>2. \A x \in Nat : x * 1 = x
  OBVIOUS
<1> QED
  BY <1>1, <1>2

\* Padding multiplies.
LEMMA PaddedMeaning ==
  ASSUME NEW s \in Clocks!Texts, \A i \in 1 .. Len(s) : Counts(s, i)
  PROVE  Clocks!Meaning[<<Padded(s), Radix>>] = First(s, Radix, Kept(Len(s))) * Clocks!Power[<<Radix, Missing(Len(s))>>]
<1> DEFINE m == Kept(Len(s))
           P(i) == First(Padded(s), Radix, i)
           lower == First(s, Radix, m)
           Good == {k \in 0 .. Missing(Len(s)) : P(m + k) = lower * Clocks!Power[<<Radix, k>>]}
<1>1. /\ Len(s) \in Nat /\ s \in Seq(Nat) /\ Places \in Nat /\ Radix \in Nat
      /\ Padded(s) \in Seq(Nat) /\ Len(Padded(s)) = Places
      /\ \A i \in 1 .. Places : Padded(s)[i] = IF i \in 1 .. Len(s) THEN s[i] ELSE 0
  BY PaddedFacts, SizeFacts, CharacterFacts DEF Clocks!Texts
<1>2. /\ m \in Nat /\ m \in 0 .. Len(s) /\ m \in 0 .. Places /\ Missing(Len(s)) \in Nat /\ m + Missing(Len(s)) = Places
      /\ (Len(s) < Places => m = Len(s)) /\ (~(Len(s) < Places) => Missing(Len(s)) = 0)
  BY <1>1, KeptIs DEF Missing
<1> HIDE DEF m
<1>3. /\ P(Places) = Clocks!Meaning[<<Padded(s), Radix>>] /\ \A i \in 0 .. Places : P(i) \in Nat
      /\ \A i \in 0 .. Places - 1 : P(i + 1) = P(i) * Radix + Padded(s)[i + 1]
  <2> DEFINE t == Padded(s)
  <2>1. t \in Seq(Nat) /\ Len(t) = Places
    BY <1>1
  <2> HIDE DEF t
  <2>2. /\ First(t, Radix, Len(t)) = Clocks!Meaning[<<t, Radix>>] /\ \A i \in 0 .. Len(t) : First(t, Radix, i) \in Nat
        /\ \A i \in 0 .. Len(t) - 1 : First(t, Radix, i + 1) = First(t, Radix, i) * Radix + t[i + 1]
    BY <1>1, <2>1, FirstIs
  <2> QED
    BY <2>1, <2>2 DEF t
<1>4. P(m) = lower
  <2> DEFINE x == SubSeq(Padded(s), 1, m)
             y == SubSeq(s, 1, m)
  <2>1. x \in Seq(Nat) /\ Len(x) = m /\ \A j \in 1 .. m : x[j] = Padded(s)[j]
    <3> DEFINE t == Padded(s)
    <3>1. t \in Seq(Nat) /\ m \in 0 .. Len(t)
      BY <1>1, <1>2
    <3> HIDE DEF t
    <3>2. SubSeq(t, 1, m) \in Seq(Nat) /\ Len(SubSeq(t, 1, m)) = m /\ \A j \in 1 .. m : SubSeq(t, 1, m)[j] = t[j]
      BY <3>1, Prefixes
    <3> QED
      BY <3>2 DEF t
  <2>2. y \in Seq(Nat) /\ Len(y) = m /\ \A j \in 1 .. m : y[j] = s[j]
    BY <1>1, <1>2, Prefixes
  <2>3. \A j \in 1 .. m : j \in 1 .. Places /\ j \in 1 .. Len(s)
    BY <1>1, <1>2
  <2>4. \A j \in 1 .. m : x[j] = y[j]
    BY <1>1, <2>1, <2>2, <2>3
  <2> HIDE DEF x, y
  <2>5. x = y
    BY <2>1, <2>2, <2>4, SameSequence
  <2> QED
    BY <2>5 DEF First, x, y
<1>5. lower \in Nat /\ \A k \in Nat : Clocks!Power[<<Radix, k>>] \in Nat
  <2>1. lower \in Nat
    BY <1>1, <1>2, FirstIs
  <2> QED
    BY <1>1, <2>1, PowerIs
<1> HIDE DEF lower, P
<1>6. 0 \in Good
  <2>1. Clocks!Power[<<Radix, 0>>] = 1
    BY <1>1, PowerIs
  <2>2. m + 0 = m
    BY <1>2
  <2>3. lower * 1 = lower
    <3>1. lower \in Nat
      BY <1>5
    <3> QED
      BY <3>1, Reordered
  <2>4. P(m + 0) = lower * Clocks!Power[<<Radix, 0>>]
    BY <1>4, <2>1, <2>2, <2>3
  <2>5. 0 \in 0 .. Missing(Len(s))
    BY <1>2
  <2> QED
    BY <2>4, <2>5
<1>7. ASSUME NEW k \in 0 .. Missing(Len(s)) - 1, k \in Good
      PROVE  k + 1 \in Good
  <2>1. /\ k \in Nat /\ k + 1 \in Nat /\ k + 1 # 0 /\ (k + 1) - 1 = k /\ k + 1 \in 0 .. Missing(Len(s))
        /\ m + k \in 0 .. Places - 1 /\ (m + k) + 1 = m + (k + 1) /\ Missing(Len(s)) # 0
    BY <1>2
  <2>2. Padded(s)[(m + k) + 1] = 0
    <3>1. m = Len(s) /\ (m + k) + 1 \in 1 .. Places /\ (m + k) + 1 \notin 1 .. Len(s)
      BY <1>1, <1>2, <2>1
    <3> QED
      BY <1>1, <3>1
  <2>3. P(m + (k + 1)) = P(m + k) * Radix + 0
    BY <1>3, <2>1, <2>2
  <2>4. P(m + k) = lower * Clocks!Power[<<Radix, k>>]
    BY <1>7
  <2>5. Clocks!Power[<<Radix, k + 1>>] = Radix * Clocks!Power[<<Radix, k>>]
    <3>1. Clocks!Power[<<Radix, k + 1>>] = IF k + 1 = 0 THEN 1 ELSE Radix * Clocks!Power[<<Radix, (k + 1) - 1>>]
      BY <1>1, <2>1, PowerIs
    <3> QED
      BY <2>1, <3>1
  <2>6. (lower * Clocks!Power[<<Radix, k>>]) * Radix + 0 = lower * (Radix * Clocks!Power[<<Radix, k>>])
    <3> DEFINE w == Clocks!Power[<<Radix, k>>]
    <3>1. w \in Nat
      BY <1>5, <2>1
    <3> HIDE DEF w
    <3>2. (lower * w) * Radix + 0 = lower * (Radix * w)
      <4>1. lower \in Nat /\ Radix \in Nat
        BY <1>1, <1>5
      <4> QED
        BY <3>1, <4>1, Reordered
    <3> QED
      BY <3>2 DEF w
  <2>7. P(m + (k + 1)) = lower * Clocks!Power[<<Radix, k + 1>>]
    BY <2>3, <2>4, <2>5, <2>6
  <2> QED
    BY <2>1, <2>7
<1> HIDE DEF Good
<1>8. Missing(Len(s)) \in Good
  <2>1. \A k \in 0 .. Missing(Len(s)) - 1 : k \in Good => k + 1 \in Good
    BY <1>7
  <2>2. \A k \in 0 .. Missing(Len(s)) : k \in Good
    BY <1>2, <1>6, <2>1, Upwards
  <2> QED
    BY <1>2, <2>2
<1>9. P(m + Missing(Len(s))) = lower * Clocks!Power[<<Radix, Missing(Len(s))>>]
  BY <1>8 DEF Good
<1> QED
  BY <1>2, <1>3, <1>9 DEF lower, m

\* The parts of a time's text, as ClockMeaning names them.
PointsOf(t)   == {i \in DOMAIN t : t[i] = Clocks!Point}
PlaceOf(t)    == IF PointsOf(t) = {} THEN Len(t) + 1 ELSE CHOOSE i \in PointsOf(t) : TRUE
FractionOf(t) == SubSeq(t, PlaceOf(t) + 1, Len(t))
ProperOf(t)   == /\ \A i \in DOMAIN t : t[i] \in Clocks!Digits \/ i = PlaceOf(t)
                 /\ PlaceOf(t) > 1 /\ (PointsOf(t) # {} => FractionOf(t) # <<>>)
                 /\ \A i \in DOMAIN FractionOf(t) : i > Places => FractionOf(t)[i] = 0

\* r digits, and no more.
Leads(t, r) == /\ r \in 0 .. Len(t) /\ \A i \in 1 .. r : t[i] \in Clocks!Digits
               /\ r = Len(t) \/ t[r + 1] \notin Clocks!Digits
\* What follows the point after them.
Follows(t, r) == IF r = Len(t) THEN <<>> ELSE After(t, r + 1)
Reads(t, r) == r > 0 /\ (r = Len(t) \/ ( /\ t[r + 1] = Clocks!Point /\ r + 1 # Len(t)
                                         /\ \A i \in 1 .. Len(After(t, r + 1)) : Counts(After(t, r + 1), i)))

LEMMA SomeLead ==
  ASSUME NEW t \in Clocks!Texts
  PROVE  \E r \in 0 .. Len(t) : Leads(t, r)
<1> DEFINE T == {i \in 0 .. Len(t) : i = Len(t) \/ t[i + 1] \notin Clocks!Digits}
<1>1. Len(t) \in Nat
  BY DEF Clocks!Texts
<1>2. T \in SUBSET Nat /\ T # {}
  <2>1. Len(t) \in T
    BY <1>1
  <2> QED
    BY <1>1, <2>1
<1>3. PICK r \in T : \A y \in T : r <= y
  <2> HIDE DEF T
  <2> QED
    BY <1>2, LeastNumber
<1>4. ASSUME NEW i \in 1 .. r, t[i] \notin Clocks!Digits
      PROVE  FALSE
  <2>1. i - 1 \in 0 .. Len(t) /\ (i - 1) + 1 = i /\ ~(r <= i - 1)
    BY <1>1, <1>3
  <2>2. i - 1 \in T
    BY <1>4, <2>1
  <2> QED
    BY <1>3, <2>1, <2>2
<1> QED
  BY <1>3, <1>4 DEF Leads

LEMMA ProperIs ==
  ASSUME NEW t \in Clocks!Texts, NEW r \in 0 .. Len(t), Leads(t, r)
  PROVE  /\ ProperOf(t) <=> Reads(t, r)
         /\ ProperOf(t) => PlaceOf(t) = r + 1 /\ FractionOf(t) = Follows(t, r)
<1>0. DOMAIN t = 1 .. Len(t)
  BY DEF Clocks!Texts
<1>1. /\ Len(t) \in Nat /\ r \in Nat /\ r <= Len(t) /\ r + 1 \in Nat
      /\ (r # Len(t) => r < Len(t) /\ r + 1 \in 1 .. Len(t) /\ r + 1 \in 0 .. Len(t))
  BY DEF Clocks!Texts
<1>2. \/ PointsOf(t) = {} /\ PlaceOf(t) = Len(t) + 1
      \/ PointsOf(t) # {} /\ PlaceOf(t) \in 1 .. Len(t) /\ t[PlaceOf(t)] = Clocks!Point
  <2>1. CASE PointsOf(t) = {}
    BY <2>1 DEF PlaceOf
  <2>2. CASE PointsOf(t) # {}
    <3>1. PlaceOf(t) \in PointsOf(t)
      BY <2>2 DEF PlaceOf
    <3> QED
      BY <1>0, <1>1, <2>2, <3>1 DEF PointsOf
  <2> QED
    BY <2>1, <2>2
<1>3. Clocks!Point \notin Clocks!Digits
  BY CharacterFacts
\* The place is where the digits end.
<1>4. ASSUME ProperOf(t) \/ Reads(t, r)
      PROVE  PlaceOf(t) = r + 1
  <2>1. CASE r = Len(t)
    <3>1. \A i \in 1 .. Len(t) : t[i] \in Clocks!Digits
      BY <2>1 DEF Leads
    <3>2. PointsOf(t) = {}
      BY <1>0, <1>1, <1>3, <3>1 DEF PointsOf
    <3> QED
      BY <1>2, <2>1, <3>2
  <2>2. CASE r # Len(t)
    <3>1. r + 1 \in 1 .. Len(t) /\ t[r + 1] \notin Clocks!Digits
      BY <1>1, <2>2 DEF Leads
    <3>2. CASE ProperOf(t)
      BY <1>0, <1>1, <3>1, <3>2 DEF ProperOf
    <3>3. CASE Reads(t, r)
      <4>1. r + 1 \in PointsOf(t)
        BY <1>0, <1>1, <2>2, <3>1, <3>3 DEF Reads, PointsOf
      <4>2. PlaceOf(t) \in 1 .. Len(t) /\ t[PlaceOf(t)] = Clocks!Point
        BY <1>2, <4>1
      <4>3. \A i \in 1 .. r : t[i] # Clocks!Point
        BY <1>3 DEF Leads
      <4>4. \A i \in r + 2 .. Len(t) : t[i] # Clocks!Point
        <5>1. ASSUME NEW i \in r + 2 .. Len(t)
              PROVE  t[i] \in Clocks!Digits
          <6> DEFINE f == After(t, r + 1)
                     j == i - (r + 1)
          <6>1. r + 1 \in 0 .. Len(t)
            BY <1>1, <3>1
          <6>2. Len(f) = Len(t) - (r + 1) /\ \A k \in 1 .. Len(t) - (r + 1) : f[k] = t[(r + 1) + k]
            BY <6>1, Rests DEF Clocks!Texts
          <6>3. j \in 1 .. Len(t) - (r + 1) /\ (r + 1) + j = i
            BY <1>1
          <6>4. \A k \in 1 .. Len(f) : Counts(f, k)
            BY <2>2, <3>3 DEF Reads
          <6> HIDE DEF f, j
          <6>5. f[j] = t[i] /\ Counts(f, j)
            BY <6>2, <6>3, <6>4
          <6> QED
            BY <6>5 DEF Counts
        <5> QED
          BY <1>3, <5>1
      <4>5. \A i \in 1 .. Len(t) : i \in 1 .. r \/ i = r + 1 \/ i \in r + 2 .. Len(t)
        BY <1>1
      <4> QED
        BY <4>2, <4>3, <4>4, <4>5
    <3> QED
      BY <1>4, <3>2, <3>3
  <2> QED
    BY <2>1, <2>2
<1>5. ASSUME PlaceOf(t) = r + 1
      PROVE  /\ FractionOf(t) = Follows(t, r) /\ (PointsOf(t) = {} <=> r = Len(t))
             /\ (r # Len(t) => t[r + 1] = Clocks!Point)
  <2>1. CASE r = Len(t)
    <3>1. FractionOf(t) = SubSeq(t, Len(t) + 2, Len(t))
      <4>1. (Len(t) + 1) + 1 = Len(t) + 2
        BY <1>1
      <4> QED
        BY <1>5, <2>1, <4>1 DEF FractionOf
    <3>2. SubSeq(t, Len(t) + 2, Len(t)) = <<>>
      BY <1>1 DEF Clocks!Texts
    <3>3. PointsOf(t) = {}
      BY <1>1, <1>2, <1>5, <2>1
    <3> QED
      BY <2>1, <3>1, <3>2, <3>3 DEF Follows
  <2>2. CASE r # Len(t)
    <3>1. PointsOf(t) # {} /\ t[r + 1] = Clocks!Point
      BY <1>1, <1>2, <1>5, <2>2
    <3> QED
      BY <1>5, <2>2, <3>1 DEF Follows, FractionOf, After
  <2> QED
    BY <2>1, <2>2
<1>6. ASSUME r # Len(t)
      PROVE  LET f == After(t, r + 1)
             IN  /\ f \in Clocks!Texts /\ Len(f) = Len(t) - (r + 1) /\ DOMAIN f = 1 .. Len(f) /\ Len(f) \in Nat
                 /\ \A k \in 1 .. Len(t) - (r + 1) : f[k] = t[(r + 1) + k]
                 /\ (f = <<>> <=> r + 1 = Len(t))
  <2>1. r + 1 \in 0 .. Len(t)
    BY <1>1, <1>6
  <2> DEFINE f == After(t, r + 1)
  <2>2. /\ f \in Clocks!Texts /\ Len(f) = Len(t) - (r + 1) /\ \A k \in 1 .. Len(t) - (r + 1) : f[k] = t[(r + 1) + k]
        /\ (r + 1 = Len(t) <=> f = <<>>)
    BY <2>1, Rests DEF Clocks!Texts
  <2> HIDE DEF f
  <2>3. DOMAIN f = 1 .. Len(f) /\ Len(f) \in Nat
    BY <2>2 DEF Clocks!Texts
  <2> QED
    BY <2>2, <2>3 DEF f
<1>7. ASSUME ProperOf(t)
      PROVE  Reads(t, r)
  <2>1. PlaceOf(t) = r + 1
    BY <1>4, <1>7
  <2>2. r > 0
    <3>1. PlaceOf(t) > 1
      BY <1>7 DEF ProperOf
    <3> QED
      BY <1>1, <2>1, <3>1
  <2>3. CASE r = Len(t)
    BY <2>2, <2>3 DEF Reads
  <2>4. CASE r # Len(t)
    <3> DEFINE f == After(t, r + 1)
    <3>1. /\ f \in Clocks!Texts /\ Len(f) = Len(t) - (r + 1) /\ DOMAIN f = 1 .. Len(f) /\ Len(f) \in Nat
          /\ \A k \in 1 .. Len(t) - (r + 1) : f[k] = t[(r + 1) + k]
          /\ (f = <<>> <=> r + 1 = Len(t))
      BY <1>6, <2>4
    <3>2. FractionOf(t) = f /\ PointsOf(t) # {} /\ t[r + 1] = Clocks!Point
      BY <1>5, <2>1, <2>4 DEF Follows
    <3> HIDE DEF f
    <3>3. f # <<>> /\ \A i \in DOMAIN f : i > Places => f[i] = 0
      BY <1>7, <3>2 DEF ProperOf
    <3>4. ASSUME NEW k \in 1 .. Len(f)
          PROVE  Counts(f, k)
      <4>1. f[k] = t[(r + 1) + k] /\ (r + 1) + k \in 1 .. Len(t) /\ (r + 1) + k # r + 1
        BY <1>1, <3>1
      <4>2. f[k] \in Clocks!Digits
        BY <1>0, <1>1, <1>7, <2>1, <4>1 DEF ProperOf
      <4> QED
        BY <3>1, <3>3, <4>2 DEF Counts
    <3> QED
      BY <2>2, <2>4, <3>1, <3>2, <3>3, <3>4 DEF Reads, f
  <2> QED
    BY <2>3, <2>4
<1>8. ASSUME Reads(t, r)
      PROVE  ProperOf(t)
  <2>1. PlaceOf(t) = r + 1 /\ r > 0
    BY <1>4, <1>8 DEF Reads
  <2>2. PlaceOf(t) > 1
    BY <1>1, <2>1
  <2>3. CASE r = Len(t)
    <3>1. PointsOf(t) = {} /\ FractionOf(t) = <<>>
      BY <1>5, <2>1, <2>3 DEF Follows
    <3>2. \A i \in DOMAIN t : t[i] \in Clocks!Digits
      BY <1>0, <1>1, <2>3 DEF Leads
    <3>3. \A i \in DOMAIN FractionOf(t) : i > Places => FractionOf(t)[i] = 0
      BY <3>1
    <3> QED
      BY <2>2, <3>1, <3>2, <3>3 DEF ProperOf
  <2>4. CASE r # Len(t)
    <3> DEFINE f == After(t, r + 1)
    <3>1. /\ f \in Clocks!Texts /\ Len(f) = Len(t) - (r + 1) /\ DOMAIN f = 1 .. Len(f) /\ Len(f) \in Nat
          /\ \A k \in 1 .. Len(t) - (r + 1) : f[k] = t[(r + 1) + k]
          /\ (f = <<>> <=> r + 1 = Len(t))
      BY <1>6, <2>4
    <3>2. FractionOf(t) = f
      BY <1>5, <2>1, <2>4 DEF Follows
    <3>3. r + 1 # Len(t) /\ \A k \in 1 .. Len(f) : Counts(f, k)
      BY <1>8, <2>4 DEF Reads
    <3> HIDE DEF f
    <3>4. ASSUME NEW i \in 1 .. Len(t), i # r + 1
          PROVE  t[i] \in Clocks!Digits
      <4>1. CASE i <= r
        BY <1>1, <4>1 DEF Leads
      <4>2. CASE ~(i <= r)
        <5> DEFINE j == i - (r + 1)
        <5>1. j \in 1 .. Len(t) - (r + 1) /\ (r + 1) + j = i
          BY <1>1, <3>4, <4>2
        <5> HIDE DEF j
        <5>2. f[j] = t[i] /\ Counts(f, j)
          BY <3>1, <3>3, <5>1
        <5> QED
          BY <5>2 DEF Counts
      <4> QED
        BY <4>1, <4>2
    <3>5. \A i \in DOMAIN f : i > Places => f[i] = 0
      BY <3>1, <3>3 DEF Counts
    <3>6. f # <<>>
      BY <3>1, <3>3
    <3> QED
      BY <1>0, <1>1, <2>1, <2>2, <3>2, <3>4, <3>5, <3>6 DEF ProperOf
  <2> QED
    BY <2>3, <2>4
<1> QED
  BY <1>4, <1>5, <1>7, <1>8

\* What clock_text makes of the text after the digits.
PartOf(left) == IF left = <<>> THEN [ok |-> TRUE, value |-> 0]
                ELSE IF Head(left) # Clocks!Point \/ Len(left) = 1 THEN Clocks!Invalid
                ELSE Clocks!Nanos[<<Tail(left), 0, 0>>]

LEMMA PartReads ==
  ASSUME NEW t \in Clocks!Texts, NEW r \in 0 .. Len(t), Leads(t, r), r > 0
  PROVE  PartOf(After(t, r)) = IF Reads(t, r) THEN [ok |-> TRUE, value |-> Clocks!Meaning[<<Padded(Follows(t, r)), Radix>>]] ELSE Clocks!Invalid
<1> DEFINE left == After(t, r)
<1>1. /\ Len(t) \in Nat /\ r \in Nat /\ r <= Len(t) /\ r + 1 \in Nat
      /\ (r # Len(t) => r < Len(t) /\ r \in 0 .. Len(t) - 1 /\ r + 1 \in 0 .. Len(t))
  BY DEF Clocks!Texts
<1>2. left \in Clocks!Texts /\ Len(left) = Len(t) - r /\ (r = Len(t) <=> left = <<>>)
  BY Rests DEF Clocks!Texts
<1>3. CASE r = Len(t)
  <2>1. Follows(t, r) = <<>> /\ Reads(t, r) /\ left = <<>>
    BY <1>2, <1>3 DEF Follows, Reads
  <2>2. <<>> \in Clocks!Texts /\ Len(<<>>) = 0 /\ <<>> \in Seq(Nat)
    BY DEF Clocks!Texts
  <2>3. Clocks!Meaning[<<Padded(<<>>), Radix>>] = First(<<>>, Radix, Kept(Len(<<>>))) * Clocks!Power[<<Radix, Missing(Len(<<>>))>>]
    <3> DEFINE e == <<>>
    <3>1. e \in Clocks!Texts /\ \A i \in 1 .. Len(e) : Counts(e, i)
      BY <2>2
    <3> HIDE DEF e
    <3>2. Clocks!Meaning[<<Padded(e), Radix>>] = First(e, Radix, Kept(Len(e))) * Clocks!Power[<<Radix, Missing(Len(e))>>]
      BY <3>1, PaddedMeaning
    <3> QED
      BY <3>2 DEF e
  <2>4. First(<<>>, Radix, Kept(0)) = 0
    <3> DEFINE e == <<>>
    <3>1. e \in Seq(Nat) /\ Radix \in Nat
      BY <2>2, SizeFacts
    <3> HIDE DEF e
    <3>2. First(e, Radix, 0) = 0
      BY <3>1, FirstIs
    <3>3. Kept(0) = 0
      BY KeptIs
    <3> QED
      BY <3>2, <3>3 DEF e
  <2>5. Clocks!Power[<<Radix, Missing(0)>>] \in Nat
    <3>1. Missing(0) \in Nat
      BY KeptIs
    <3> QED
      BY <3>1, SizeFacts, PowerIs
  <2>6. Clocks!Meaning[<<Padded(<<>>), Radix>>] = 0
    <3>1. Clocks!Meaning[<<Padded(<<>>), Radix>>] = 0 * Clocks!Power[<<Radix, Missing(0)>>]
      BY <2>2, <2>3, <2>4
    <3> QED
      BY <2>5, <3>1
  <2> QED
    BY <2>1, <2>6 DEF PartOf
<1>4. CASE r # Len(t)
  <2> DEFINE f == After(t, r + 1)
  <2>1. left # <<>> /\ Head(left) = t[r + 1] /\ Tail(left) = f /\ f \in Clocks!Texts
    BY <1>1, <1>4, RestSteps, Rests DEF Clocks!Texts
  <2>2. Len(left) = 1 <=> r + 1 = Len(t)
    BY <1>1, <1>2
  <2>3. Clocks!Nanos[<<f, 0, 0>>] = IF \A i \in 1 .. Len(f) : Counts(f, i)
                                    THEN [ok |-> TRUE, value |-> Clocks!Meaning[<<Padded(f), Radix>>]] ELSE Clocks!Invalid
    <3> HIDE DEF f
    <3>1. CASE \A i \in 1 .. Len(f) : Counts(f, i)
      <4>1. Clocks!Meaning[<<Padded(f), Radix>>] = First(f, Radix, Kept(Len(f))) * Clocks!Power[<<Radix, Missing(Len(f))>>]
        BY <2>1, <3>1, PaddedMeaning
      <4>2. Clocks!Nanos[<<f, 0, 0>>] = [ok |-> TRUE, value |-> First(f, Radix, Kept(Len(f))) * Clocks!Power[<<Radix, Missing(Len(f))>>]]
        BY <2>1, <3>1, NanosGives
      <4> QED
        BY <3>1, <4>1, <4>2
    <3>2. CASE ~\A i \in 1 .. Len(f) : Counts(f, i)
      <4>1. Clocks!Nanos[<<f, 0, 0>>] = Clocks!Invalid
        BY <2>1, <3>2, NanosGives
      <4> QED
        BY <3>2, <4>1
    <3> QED
      BY <3>1, <3>2
  <2>4. Reads(t, r) <=> (t[r + 1] = Clocks!Point /\ r + 1 # Len(t) /\ \A i \in 1 .. Len(f) : Counts(f, i))
    BY <1>4 DEF Reads
  <2>5. Follows(t, r) = f
    BY <1>4 DEF Follows
  <2> HIDE DEF f
  <2>6. PartOf(left) = IF t[r + 1] # Clocks!Point \/ r + 1 = Len(t) THEN Clocks!Invalid ELSE Clocks!Nanos[<<f, 0, 0>>]
    <3> HIDE DEF left
    <3> QED
      BY <2>1, <2>2 DEF PartOf
  <2>7. PartOf(left) = IF Reads(t, r) THEN [ok |-> TRUE, value |-> Clocks!Meaning[<<Padded(f), Radix>>]] ELSE Clocks!Invalid
    <3> HIDE DEF left
    <3>1. CASE \A i \in 1 .. Len(f) : Counts(f, i)
      BY <2>3, <2>4, <2>6, <3>1
    <3>2. CASE ~\A i \in 1 .. Len(f) : Counts(f, i)
      BY <2>3, <2>4, <2>6, <3>2
    <3> QED
      BY <3>1, <3>2
  <2> QED
    BY <2>5, <2>7
<1> QED
  BY <1>3, <1>4

\* Rounding down, on either side of zero.
LEMMA RoundsEitherWay ==
  ASSUME NEW w \in Nat, NEW unit \in Nat \ {0}, NEW part \in 0 .. unit - 1
  PROVE  /\ (1 * (w * unit + part)) \div unit = w /\ (1 * (w * unit + part)) % unit = part
         /\ part = 0 => /\ ((-1) * (w * unit + part)) \div unit = -w
                        /\ ((-1) * (w * unit + part)) % unit = 0
         /\ part # 0 => /\ ((-1) * (w * unit + part)) \div unit = -w - 1
                        /\ ((-1) * (w * unit + part)) % unit = unit - part
<1>1. w * unit \in Int /\ w * unit = unit * w /\ unit * (-w) = -(w * unit) /\ unit * (-w - 1) = -(w * unit) - unit
  OBVIOUS
<1> DEFINE x == w * unit
<1>2. x \in Int /\ x = unit * w /\ unit * (-w) = -x /\ unit * (-w - 1) = -x - unit
  BY <1>1
<1> HIDE DEF x
<1>3. 1 * (x + part) = x + part /\ (-1) * (x + part) = -x - part /\ x + part \in Int /\ -x - part \in Int
  BY <1>2
<1>4. (x + part) \div unit = w /\ (x + part) % unit = part
  <2>1. x + part = unit * w + part
    BY <1>2
  <2> QED
    BY <1>3, <2>1, RoundsDown
<1>5. ASSUME part = 0
      PROVE  (-x - part) \div unit = -w /\ (-x - part) % unit = 0
  <2> DEFINE y == -x - part
             q == -w
  <2>1. y = unit * q + 0 /\ y \in Int /\ q \in Int /\ 0 \in 0 .. unit - 1
    <3>1. y = -x
      BY <1>2, <1>5
    <3> QED
      BY <1>2, <3>1
  <2> HIDE DEF y, q
  <2>2. y \div unit = q /\ y % unit = 0
    BY <2>1, RoundsDown
  <2> QED
    BY <2>2 DEF y, q
<1>6. ASSUME part # 0
      PROVE  (-x - part) \div unit = -w - 1 /\ (-x - part) % unit = unit - part
  <2> DEFINE y == -x - part
             q == -w - 1
             z == unit - part
  <2>1. q \in Int /\ y \in Int /\ z \in 0 .. unit - 1 /\ unit * q = -x - unit
    BY <1>2, <1>6
  <2>2. y = (-x - unit) + z
    BY <1>2
  <2>3. y = unit * q + z
    BY <2>1, <2>2
  <2> HIDE DEF y, q, z
  <2>4. y \div unit = q /\ y % unit = z
    BY <2>1, <2>3, RoundsDown
  <2> QED
    BY <2>4 DEF y, q, z
<1> QED
  BY <1>3, <1>4, <1>5, <1>6 DEF x

NegativeOf(s) == s # <<>> /\ Head(s) = Clocks!Minus
DigitsOf(s)   == IF NegativeOf(s) THEN Tail(s) ELSE s
Unit          == Clocks!Power[<<Radix, Places>>]
TotalOf(s, t) == (IF NegativeOf(s) THEN -1 ELSE 1)
                 * (Clocks!Meaning[<<SubSeq(t, 1, PlaceOf(t) - 1), Radix>>] * Unit + Clocks!Meaning[<<Padded(FractionOf(t)), Radix>>])

\* The answer in terms of the seconds w and the nanoseconds part of the text.
Answered(negative, w, part) ==
  IF negative /\ part # 0
  THEN IF w <= Most THEN [ok |-> TRUE, seconds |-> -w - 1, nanos |-> Unit - part] ELSE Clocks!Invalid
  ELSE IF w <= Most \/ (negative /\ w = Most + 1)
       THEN [ok |-> TRUE, seconds |-> IF negative THEN -w ELSE w, nanos |-> part] ELSE Clocks!Invalid

LEMMA ClockShape ==
  ASSUME NEW s \in Clocks!Texts
  PROVE  /\ DigitsOf(s) \in Clocks!Texts
         /\ Clocks!ClockMeaning(s) = IF ProperOf(DigitsOf(s))
                                     THEN Clocks!Fitting(TotalOf(s, DigitsOf(s)) \div Unit, TotalOf(s, DigitsOf(s)) % Unit) ELSE Clocks!Invalid
         /\ LET t == DigitsOf(s)
                whole == Clocks!Seconds[<<t, 0>>]
                part == PartOf(whole.left)
                borrows == NegativeOf(s) /\ part.value # 0
            IN  Clocks!ClockText(s) =
                  IF ~whole.ok THEN whole
                  ELSE IF whole.left = t \/ (~NegativeOf(s) /\ whole.value = Clocks!Least) THEN Clocks!Invalid
                  ELSE IF ~part.ok \/ (borrows /\ whole.value = Clocks!Least) THEN Clocks!Invalid
                  ELSE [ok |-> TRUE,
                        seconds |-> IF borrows THEN whole.value - 1 ELSE IF NegativeOf(s) THEN whole.value ELSE -whole.value,
                        nanos   |-> IF borrows THEN Unit - part.value ELSE part.value]
<1>1. DigitsOf(s) \in Clocks!Texts
  BY TailFacts DEF DigitsOf, NegativeOf, Clocks!Texts
<1>2. s # <<>> => Head(s) = s[1]
  BY TailFacts DEF Clocks!Texts
<1>3. Clocks!ClockMeaning(s) = IF ProperOf(DigitsOf(s))
                               THEN Clocks!Fitting(TotalOf(s, DigitsOf(s)) \div Unit, TotalOf(s, DigitsOf(s)) % Unit) ELSE Clocks!Invalid
  <2>1. (s # <<>> /\ s[1] = Clocks!Minus) = NegativeOf(s)
    BY <1>2 DEF NegativeOf
  <2> QED
    BY <2>1 DEF Clocks!ClockMeaning, ProperOf, DigitsOf, TotalOf, Unit, Padded, FractionOf, PlaceOf, PointsOf
<1>4. LET t == DigitsOf(s)
          whole == Clocks!Seconds[<<t, 0>>]
          part == PartOf(whole.left)
          borrows == NegativeOf(s) /\ part.value # 0
      IN  Clocks!ClockText(s) =
            IF ~whole.ok THEN whole
            ELSE IF whole.left = t \/ (~NegativeOf(s) /\ whole.value = Clocks!Least) THEN Clocks!Invalid
            ELSE IF ~part.ok \/ (borrows /\ whole.value = Clocks!Least) THEN Clocks!Invalid
            ELSE [ok |-> TRUE,
                  seconds |-> IF borrows THEN whole.value - 1 ELSE IF NegativeOf(s) THEN whole.value ELSE -whole.value,
                  nanos   |-> IF borrows THEN Unit - part.value ELSE part.value]
  BY DEF Clocks!ClockText, DigitsOf, NegativeOf, PartOf, Unit
<1> QED
  BY <1>1, <1>3, <1>4

\* The part of a fraction is smaller than a second.
LEMMA PartBound ==
  ASSUME NEW t \in Clocks!Texts, NEW r \in 0 .. Len(t), Leads(t, r), Reads(t, r)
  PROVE  Unit \in Nat \ {0} /\ Clocks!Meaning[<<Padded(Follows(t, r)), Radix>>] \in 0 .. Unit - 1
<1> DEFINE f == Follows(t, r)
<1>1. f \in Clocks!Texts /\ \A i \in 1 .. Len(f) : Counts(f, i)
  <2>1. CASE r = Len(t)
    <3>1. f = <<>>
      BY <2>1 DEF Follows
    <3>2. <<>> \in Clocks!Texts /\ Len(<<>>) = 0
      BY DEF Clocks!Texts
    <3> QED
      BY <3>1, <3>2
  <2>2. CASE r # Len(t)
    <3>1. f = After(t, r + 1) /\ \A i \in 1 .. Len(After(t, r + 1)) : Counts(After(t, r + 1), i)
      BY <2>2 DEF Follows, Reads
    <3>2. r + 1 \in 0 .. Len(t)
      BY <2>2 DEF Clocks!Texts
    <3>3. After(t, r + 1) \in Clocks!Texts
      BY <3>2, Rests DEF Clocks!Texts
    <3> QED
      BY <3>1, <3>3
  <2> QED
    BY <2>1, <2>2
<1> HIDE DEF f
<1> DEFINE u == Padded(f)
<1>2. u \in Seq(Nat) /\ Len(u) = Places /\ \A i \in 1 .. Places : u[i] < Radix
  BY <1>1, PaddedFacts
<1> HIDE DEF u
<1>3. Radix \in Nat \ {0}
  BY SizeFacts
<1>4. Clocks!Meaning[<<u, Radix>>] \in 0 .. Clocks!Power[<<Radix, Len(u)>>] - 1 /\ Clocks!Power[<<Radix, Len(u)>>] \in Nat \ {0}
  BY <1>2, <1>3, MeaningBound
<1> QED
  BY <1>2, <1>4 DEF Unit, u, f

\* The time that is written is the time that is read.
LEMMA MeaningAnswers ==
  ASSUME NEW s \in Clocks!Texts, NEW r \in 0 .. Len(DigitsOf(s)), Leads(DigitsOf(s), r)
  PROVE  Clocks!ClockMeaning(s) = IF Reads(DigitsOf(s), r)
                                  THEN Answered(NegativeOf(s), First(DigitsOf(s), Radix, r),
                                                Clocks!Meaning[<<Padded(Follows(DigitsOf(s), r)), Radix>>]) ELSE Clocks!Invalid
<1> DEFINE t == DigitsOf(s)
           w == First(t, Radix, r)
           part == Clocks!Meaning[<<Padded(Follows(t, r)), Radix>>]
<1>1. /\ t \in Clocks!Texts
      /\ Clocks!ClockMeaning(s) = IF ProperOf(t) THEN Clocks!Fitting(TotalOf(s, t) \div Unit, TotalOf(s, t) % Unit) ELSE Clocks!Invalid
  BY ClockShape
<1>2. r \in 0 .. Len(t) /\ Leads(t, r)
  OBVIOUS
<1> HIDE DEF t
<1>3. (ProperOf(t) <=> Reads(t, r)) /\ (ProperOf(t) => PlaceOf(t) = r + 1 /\ FractionOf(t) = Follows(t, r))
  BY <1>1, <1>2, ProperIs
<1>4. CASE ~Reads(t, r)
  BY <1>1, <1>3, <1>4 DEF t
<1>5. CASE Reads(t, r)
  <2>1. Unit \in Nat \ {0} /\ part \in 0 .. Unit - 1
    BY <1>1, <1>2, <1>5, PartBound
  <2>2. w \in Nat
    <3>1. t \in Seq(Nat) /\ Radix \in Nat
      BY <1>1, CharacterFacts, SizeFacts
    <3> QED
      BY <1>2, <3>1, FirstIs
  <2>3. TotalOf(s, t) = (IF NegativeOf(s) THEN -1 ELSE 1) * (w * Unit + part)
    <3>1. PlaceOf(t) - 1 = r /\ FractionOf(t) = Follows(t, r)
      BY <1>2, <1>3, <1>5
    <3> QED
      BY <3>1 DEF TotalOf, First
  <2> HIDE DEF w, part
  <2>4. /\ (1 * (w * Unit + part)) \div Unit = w /\ (1 * (w * Unit + part)) % Unit = part
        /\ part = 0 => /\ ((-1) * (w * Unit + part)) \div Unit = -w
                       /\ ((-1) * (w * Unit + part)) % Unit = 0
        /\ part # 0 => /\ ((-1) * (w * Unit + part)) \div Unit = -w - 1
                       /\ ((-1) * (w * Unit + part)) % Unit = Unit - part
    BY <2>1, <2>2, RoundsEitherWay
  <2>5. Clocks!ClockMeaning(s) = Answered(NegativeOf(s), w, part)
    <3>1. Clocks!ClockMeaning(s) = Clocks!Fitting(TotalOf(s, t) \div Unit, TotalOf(s, t) % Unit)
      BY <1>1, <1>3, <1>5
    <3>2. /\ w \in Clocks!Representable <=> w <= Most
          /\ -w \in Clocks!Representable <=> w <= Most + 1
          /\ -w - 1 \in Clocks!Representable <=> w <= Most
          /\ (w <= Most + 1 <=> (w <= Most \/ w = Most + 1))
      BY <2>2, SizeFacts DEF Clocks!Representable
    <3>3. CASE ~NegativeOf(s)
      <4>1. TotalOf(s, t) = 1 * (w * Unit + part)
        BY <2>3, <3>3
      <4>2. Clocks!ClockMeaning(s) = Clocks!Fitting(w, part)
        BY <2>4, <3>1, <4>1
      <4> QED
        BY <3>2, <3>3, <4>2 DEF Clocks!Fitting, Answered
    <3>4. CASE NegativeOf(s) /\ part = 0
      <4>1. TotalOf(s, t) = (-1) * (w * Unit + part)
        BY <2>3, <3>4
      <4>2. Clocks!ClockMeaning(s) = Clocks!Fitting(-w, 0)
        BY <2>4, <3>1, <3>4, <4>1
      <4> QED
        BY <3>2, <3>4, <4>2 DEF Clocks!Fitting, Answered
    <3>5. CASE NegativeOf(s) /\ part # 0
      <4>1. TotalOf(s, t) = (-1) * (w * Unit + part)
        BY <2>3, <3>5
      <4>2. Clocks!ClockMeaning(s) = Clocks!Fitting(-w - 1, Unit - part)
        BY <2>4, <3>1, <3>5, <4>1
      <4> QED
        BY <3>2, <3>5, <4>2 DEF Clocks!Fitting, Answered
    <3> QED
      BY <3>3, <3>4, <3>5
  <2> QED
    BY <1>5, <2>5 DEF t, w, part
<1> QED
  BY <1>4, <1>5

LEMMA TextAnswers ==
  ASSUME NEW s \in Clocks!Texts, NEW r \in 0 .. Len(DigitsOf(s)), Leads(DigitsOf(s), r)
  PROVE  Clocks!ClockText(s) = IF Reads(DigitsOf(s), r)
                               THEN Answered(NegativeOf(s), First(DigitsOf(s), Radix, r),
                                             Clocks!Meaning[<<Padded(Follows(DigitsOf(s), r)), Radix>>]) ELSE Clocks!Invalid
<1> DEFINE t == DigitsOf(s)
           w == First(t, Radix, r)
           p == Clocks!Meaning[<<Padded(Follows(t, r)), Radix>>]
           whole == Clocks!Seconds[<<t, 0>>]
           part == PartOf(whole.left)
           borrows == NegativeOf(s) /\ part.value # 0
<1>1. /\ t \in Clocks!Texts
      /\ Clocks!ClockText(s) = IF ~whole.ok THEN whole
                               ELSE IF whole.left = t \/ (~NegativeOf(s) /\ whole.value = Clocks!Least) THEN Clocks!Invalid
                               ELSE IF ~part.ok \/ (borrows /\ whole.value = Clocks!Least) THEN Clocks!Invalid
                               ELSE [ok |-> TRUE,
                                     seconds |-> IF borrows THEN whole.value - 1
                                                 ELSE IF NegativeOf(s) THEN whole.value ELSE -whole.value,
                                     nanos   |-> IF borrows THEN Unit - part.value ELSE part.value]
  BY ClockShape
<1>2. r \in 0 .. Len(t) /\ Leads(t, r)
  OBVIOUS
<1> HIDE DEF t
<1>3. whole = IF w <= Most + 1 THEN [ok |-> TRUE, value |-> -w, left |-> After(t, r)] ELSE Clocks!Invalid
  BY <1>1, <1>2, SecondsGives DEF Leads
<1>4. w \in Nat
  <2>1. t \in Seq(Nat) /\ Radix \in Nat
    BY <1>1, CharacterFacts, SizeFacts
  <2> QED
    BY <1>2, <2>1, FirstIs
<1>5. After(t, r) = t <=> r = 0
  <2>1. Len(After(t, r)) = Len(t) - r /\ Len(t) \in Nat
    BY <1>1, <1>2, Rests DEF Clocks!Texts
  <2>2. After(t, 0) = t
    BY <1>1, RestSteps DEF Clocks!Texts
  <2> QED
    BY <1>2, <2>1, <2>2
<1>6. Reads(t, r) => r > 0
  BY DEF Reads
<1>7. Most \in Nat /\ Clocks!Least = -(Most + 1)
  BY SizeFacts
<1> HIDE DEF w, whole
<1>8. CASE ~(w <= Most + 1)
  <2>1. Clocks!ClockText(s) = Clocks!Invalid
    <3>1. whole = Clocks!Invalid /\ ~Clocks!Invalid.ok
      BY <1>3, <1>8 DEF Clocks!Invalid
    <3> QED
      BY <1>1, <3>1
  <2>2. Answered(NegativeOf(s), w, p) = Clocks!Invalid
    BY <1>4, <1>7, <1>8 DEF Answered
  <2> QED
    BY <2>1, <2>2 DEF t, w
<1>9. CASE w <= Most + 1
  <2>1. whole.ok /\ whole.value = -w /\ whole.left = After(t, r)
    BY <1>3, <1>9
  <2>2. CASE r = 0
    <3>1. Clocks!ClockText(s) = Clocks!Invalid
      BY <1>1, <1>5, <2>1, <2>2
    <3>2. ~Reads(t, r)
      BY <1>6, <2>2
    <3> QED
      BY <3>1, <3>2 DEF t
  <2>3. CASE r # 0
    <3>1. r > 0 /\ whole.left # t
      BY <1>2, <1>5, <2>1, <2>3
    <3>2. part = IF Reads(t, r) THEN [ok |-> TRUE, value |-> p] ELSE Clocks!Invalid
      <4>1. PartOf(After(t, r)) = IF Reads(t, r) THEN [ok |-> TRUE, value |-> p] ELSE Clocks!Invalid
        BY <1>1, <1>2, <3>1, PartReads
      <4> QED
        BY <2>1, <4>1
    <3> HIDE DEF part
    <3>3. CASE ~Reads(t, r)
      <4>1. ~part.ok
        BY <3>2, <3>3 DEF Clocks!Invalid
      <4>2. Clocks!ClockText(s) = Clocks!Invalid
        BY <1>1, <2>1, <4>1
      <4> QED
        BY <3>3, <4>2 DEF t
    <3>4. CASE Reads(t, r)
      <4>1. part.ok /\ part.value = p
        BY <3>2, <3>4
      <4> HIDE DEF p
      <4>2. -w = Clocks!Least <=> w = Most + 1
        BY <1>4, <1>7
      <4>3. w <= Most <=> w # Most + 1
        BY <1>4, <1>7, <1>9
      <4>4. -(-w) = w
        BY <1>4
      <4>5. Clocks!ClockText(s) =
              IF ~NegativeOf(s) /\ w = Most + 1 THEN Clocks!Invalid
              ELSE IF NegativeOf(s) /\ p # 0 /\ w = Most + 1 THEN Clocks!Invalid
              ELSE [ok |-> TRUE,
                    seconds |-> IF NegativeOf(s) /\ p # 0 THEN -w - 1 ELSE IF NegativeOf(s) THEN -w ELSE w,
                    nanos   |-> IF NegativeOf(s) /\ p # 0 THEN Unit - p ELSE p]
        BY <1>1, <2>1, <3>1, <4>1, <4>2, <4>4
      <4>6. Clocks!ClockText(s) = Answered(NegativeOf(s), w, p)
        <5>1. CASE ~NegativeOf(s)
          BY <4>3, <4>5, <5>1 DEF Answered
        <5>2. CASE NegativeOf(s) /\ p # 0
          BY <4>3, <4>5, <5>2 DEF Answered
        <5>3. CASE NegativeOf(s) /\ p = 0
          BY <4>3, <4>5, <5>3 DEF Answered
        <5> QED
          BY <5>1, <5>2, <5>3
      <4> QED
        BY <3>4, <4>6 DEF t, w, p
    <3> QED
      BY <3>3, <3>4
  <2> QED
    BY <2>2, <2>3
<1> QED
  BY <1>8, <1>9

LEMMA ClocksAgree ==
  ASSUME NEW s \in Clocks!Texts
  PROVE  Clocks!ClockText(s) = Clocks!ClockMeaning(s)
<1>1. DigitsOf(s) \in Clocks!Texts
  BY ClockShape
<1>2. PICK r \in 0 .. Len(DigitsOf(s)) : Leads(DigitsOf(s), r)
  BY <1>1, SomeLead
<1> QED
  BY <1>2, MeaningAnswers, TextAnswers

LEMMA FieldFacts ==
  ASSUME NEW s \in Clocks!Fields
  PROVE  /\ s \in Seq(Nat) /\ Len(s) = FieldSize /\ FieldSize \in Nat \ {0} /\ s # <<>> /\ Head(s) = s[1]
         /\ \A i \in 1 .. FieldSize : s[i] \in 0 .. Byte - 1
<1>1. FieldSize \in Nat \ {0} /\ Byte \in Nat \ {0, 1}
  BY SizeFacts
<1>2. s = [i \in 1 .. FieldSize |-> s[i]] /\ \A i \in 1 .. FieldSize : s[i] \in 0 .. Byte - 1
  BY DEF Clocks!Fields
<1>3. \A i \in 1 .. FieldSize : s[i] \in Nat
  BY <1>1, <1>2
<1>4. [i \in 1 .. FieldSize |-> s[i]] \in Seq(Nat) /\ Len([i \in 1 .. FieldSize |-> s[i]]) = FieldSize
  BY <1>1, <1>3
<1>5. s \in Seq(Nat) /\ Len(s) = FieldSize
  BY <1>2, <1>4
<1>6. s # <<>>
  BY <1>1, <1>5
<1> QED
  BY <1>1, <1>2, <1>5, <1>6, TailFacts

\* What skipping leaves.
LEMMA SkipIs ==
  ASSUME NEW s \in Seq(Nat), NEW kind
  PROVE  \E from \in 0 .. Len(s) : /\ Clocks!Skip(s, kind) = After(s, from) /\ \A i \in 1 .. from : s[i] \in kind
                                   /\ from = Len(s) \/ s[from + 1] \notin kind
<1> DEFINE others == {i \in DOMAIN s : s[i] \notin kind}
<1>0. DOMAIN s = 1 .. Len(s)
  OBVIOUS
<1>1. Len(s) \in Nat
  OBVIOUS
<1>2. CASE others = {}
  <2>1. Clocks!Skip(s, kind) = <<>>
    BY <1>2 DEF Clocks!Skip
  <2>2. Len(s) \in 0 .. Len(s)
    BY <1>1
  <2>3. After(s, Len(s)) = <<>>
    BY <2>2, Rests
  <2>4. \A i \in 1 .. Len(s) : s[i] \in kind
    BY <1>0, <1>2
  <2> QED
    BY <2>1, <2>2, <2>3, <2>4
<1>3. CASE others # {}
  <2>1. others \in SUBSET Nat
    BY <1>0
  <2> DEFINE x == CHOOSE i \in others : \A j \in others : i <= j
  <2>2. \E i \in others : \A j \in others : i <= j
    <3> HIDE DEF others
    <3> QED
      BY <1>3, <2>1, LeastNumber
  <2>3. x \in others /\ \A j \in others : x <= j
    <3> HIDE DEF others
    <3> QED
      BY <2>2
  <2>4. Clocks!Skip(s, kind) = SubSeq(s, x, Len(s))
    BY <1>3 DEF Clocks!Skip
  <2> HIDE DEF x
  <2>5. x \in 1 .. Len(s) /\ s[x] \notin kind
    BY <1>0, <2>3
  <2>6. x - 1 \in 0 .. Len(s) /\ (x - 1) + 1 = x /\ \A i \in 1 .. x - 1 : i \in 1 .. Len(s) /\ ~(x <= i)
    BY <1>1, <2>5
  <2>7. \A i \in 1 .. x - 1 : s[i] \in kind
    BY <1>0, <2>3, <2>6
  <2>8. Clocks!Skip(s, kind) = After(s, x - 1)
    BY <2>4, <2>6 DEF After
  <2> QED
    BY <2>5, <2>6, <2>7, <2>8
<1> QED
  BY <1>2, <1>3

LEMMA RestOfRest ==
  ASSUME NEW S, NEW s \in Seq(S), NEW from \in 0 .. Len(s), NEW c \in 0 .. Len(s) - from
  PROVE  /\ After(After(s, from), c) = After(s, from + c)
         /\ from + c \in 0 .. Len(s) /\ Len(After(s, from)) = Len(s) - from /\ After(s, from) \in Seq(S) /\ c \in 0 .. Len(After(s, from))
<1>1. Len(s) \in Nat /\ from \in Nat /\ from <= Len(s)
  OBVIOUS
<1> DEFINE t == After(s, from)
<1>2. t \in Seq(S) /\ Len(t) = Len(s) - from /\ \A j \in 1 .. Len(s) - from : t[j] = s[from + j]
  BY <1>1, Rests
<1> HIDE DEF t
<1>3. c \in Nat /\ c \in 0 .. Len(t) /\ from + c \in 0 .. Len(s)
  BY <1>1, <1>2
<1>4. /\ After(t, c) \in Seq(S) /\ Len(After(t, c)) = Len(t) - c
      /\ \A j \in 1 .. Len(t) - c : After(t, c)[j] = t[c + j]
  BY <1>2, <1>3, Rests
<1> DEFINE upto == from + c
<1>5. /\ After(s, upto) \in Seq(S) /\ Len(After(s, upto)) = Len(s) - upto
      /\ \A j \in 1 .. Len(s) - upto : After(s, upto)[j] = s[upto + j]
  <2>1. upto \in 0 .. Len(s)
    BY <1>3
  <2> HIDE DEF upto
  <2> QED
    BY <2>1, Rests
<1>6. Len(t) - c = Len(s) - upto
  BY <1>1, <1>2, <1>3
<1>7. ASSUME NEW j \in 1 .. Len(t) - c
      PROVE  After(t, c)[j] = After(s, upto)[j]
  <2>1. c + j \in 1 .. Len(s) - from /\ from + (c + j) = upto + j /\ j \in 1 .. Len(s) - upto
    BY <1>1, <1>2, <1>3
  <2>2. t[c + j] = s[from + (c + j)]
    BY <1>2, <2>1
  <2> QED
    BY <1>4, <1>5, <2>1, <2>2
<1> HIDE DEF upto
<1>8. After(t, c) = After(s, upto)
  BY <1>4, <1>5, <1>6, <1>7, SameSequence
<1> QED
  BY <1>2, <1>3, <1>8 DEF t, upto

\* The ways a field may be read as padding, octal digits and padding.
LayoutsOf(s) == {l \in (0 .. FieldSize) \X (0 .. FieldSize) :
                   /\ l[1] <= l[2] /\ \A k \in 1 .. l[1] : s[k] = Clocks!Space
                   /\ \A k \in l[1] + 1 .. l[2] : s[k] \in Clocks!Octals
                   /\ \A k \in l[2] + 1 .. FieldSize : s[k] \in {Clocks!Nul, Clocks!Space}}
Widest(s) == CHOOSE l \in LayoutsOf(s) : \A m \in LayoutsOf(s) : m[2] - m[1] <= l[2] - l[1]
OctalText(s, from, upto) == [k \in 1 .. upto - from |-> s[from + k] - Clocks!Zero]

\* The code's own split: spaces, then octal digits, each as far as it goes.
Split(s, from, upto) ==
  /\ from \in Nat /\ upto \in Nat /\ from <= upto /\ upto <= FieldSize
  /\ \A i \in 1 .. from : s[i] = Clocks!Space
  /\ from = FieldSize \/ s[from + 1] # Clocks!Space
  /\ \A i \in from + 1 .. upto : s[i] \in Clocks!Octals
  /\ upto = FieldSize \/ s[upto + 1] \notin Clocks!Octals
PaddedAfter(s, upto) == \A k \in upto + 1 .. FieldSize : s[k] \in {Clocks!Nul, Clocks!Space}

LEMMA LayoutFacts ==
  ASSUME NEW s, NEW l \in LayoutsOf(s)
  PROVE  /\ l[1] \in Nat /\ l[2] \in Nat /\ l[1] <= l[2] /\ l[2] <= FieldSize /\ l = <<l[1], l[2]>>
         /\ \A k \in 1 .. l[1] : s[k] = Clocks!Space
         /\ \A k \in l[1] + 1 .. l[2] : s[k] \in Clocks!Octals
         /\ \A k \in l[2] + 1 .. FieldSize : s[k] \in {Clocks!Nul, Clocks!Space}
  BY SizeFacts DEF LayoutsOf

LEMMA OneLayout ==
  ASSUME NEW s \in Clocks!Fields, NEW from, NEW upto, Split(s, from, upto), NEW l \in LayoutsOf(s)
  PROVE  /\ l[1] < l[2] => l[1] = from /\ l[2] = upto
         /\ l[1] = l[2] => from = upto
         /\ PaddedAfter(s, upto)
<1>1. FieldSize \in Nat /\ from \in Nat /\ upto \in Nat /\ from <= upto /\ upto <= FieldSize
  BY SizeFacts DEF Split
<1>2. Clocks!Space \notin Clocks!Octals /\ Clocks!Nul \notin Clocks!Octals
  <2>1. Octal \in Nat
    BY SizeFacts
  <2> QED
    BY <2>1 DEF Clocks!Space, Clocks!Nul, Clocks!Octals, Clocks!Zero
<1> DEFINE x == l[1]
           y == l[2]
<1>3. /\ x \in Nat /\ y \in Nat /\ x <= y /\ y <= FieldSize
      /\ \A k \in 1 .. x : s[k] = Clocks!Space
      /\ \A k \in x + 1 .. y : s[k] \in Clocks!Octals
      /\ \A k \in y + 1 .. FieldSize : s[k] \in {Clocks!Nul, Clocks!Space}
  BY LayoutFacts
<1>4. /\ \A i \in 1 .. from : s[i] = Clocks!Space
      /\ from = FieldSize \/ s[from + 1] # Clocks!Space
      /\ \A i \in from + 1 .. upto : s[i] \in Clocks!Octals
      /\ upto = FieldSize \/ s[upto + 1] \notin Clocks!Octals
  BY DEF Split
<1> HIDE DEF x, y
<1>5. ASSUME x < y
      PROVE  x = from /\ y = upto
  <2>1. x + 1 \in x + 1 .. y
    BY <1>3, <1>5
  <2>2. s[x + 1] # Clocks!Space
    BY <1>2, <1>3, <2>1
  <2>3. ~(x < from)
    <3> SUFFICES ASSUME x < from
                 PROVE  FALSE
      OBVIOUS
    <3>1. x + 1 \in 1 .. from
      BY <1>1, <1>3
    <3> QED
      BY <1>4, <2>2, <3>1
  <2>4. ~(from < x)
    <3> SUFFICES ASSUME from < x
                 PROVE  FALSE
      OBVIOUS
    <3>1. from + 1 \in 1 .. x /\ from # FieldSize
      BY <1>1, <1>3
    <3> QED
      BY <1>3, <1>4, <3>1
  <2>5. x = from
    BY <1>1, <1>3, <2>3, <2>4
  <2>6. ~(y < upto)
    <3> SUFFICES ASSUME y < upto
                 PROVE  FALSE
      OBVIOUS
    <3>1. y + 1 \in from + 1 .. upto /\ y + 1 \in y + 1 .. FieldSize
      BY <1>1, <1>3, <2>5
    <3> QED
      BY <1>2, <1>3, <1>4, <3>1
  <2>7. ~(upto < y)
    <3> SUFFICES ASSUME upto < y
                 PROVE  FALSE
      OBVIOUS
    <3>1. upto + 1 \in x + 1 .. y /\ upto # FieldSize
      BY <1>1, <1>3, <2>5
    <3> QED
      BY <1>3, <1>4, <3>1
  <2> QED
    BY <1>1, <1>3, <2>5, <2>6, <2>7
<1>6. ASSUME x = y
      PROVE  from = upto /\ PaddedAfter(s, upto)
  <2>1. \A k \in 1 .. FieldSize : s[k] \in {Clocks!Nul, Clocks!Space}
    <3> SUFFICES ASSUME NEW k \in 1 .. FieldSize
                 PROVE  s[k] \in {Clocks!Nul, Clocks!Space}
      OBVIOUS
    <3>1. k \in 1 .. x \/ k \in y + 1 .. FieldSize
      BY <1>1, <1>3, <1>6
    <3> QED
      BY <1>3, <3>1
  <2>2. ~(from < upto)
    <3> SUFFICES ASSUME from < upto
                 PROVE  FALSE
      OBVIOUS
    <3>1. from + 1 \in from + 1 .. upto /\ from + 1 \in 1 .. FieldSize
      BY <1>1
    <3> QED
      BY <1>2, <1>4, <2>1, <3>1
  <2>3. \A k \in upto + 1 .. FieldSize : k \in 1 .. FieldSize
    BY <1>1
  <2> QED
    BY <1>1, <2>1, <2>2, <2>3 DEF PaddedAfter
<1>7. ASSUME x < y
      PROVE  PaddedAfter(s, upto)
  BY <1>3, <1>5, <1>7 DEF PaddedAfter
<1>8. x < y \/ x = y
  BY <1>3
<1> QED
  BY <1>5, <1>6, <1>7, <1>8 DEF x, y

LEMMA LayoutAnswers ==
  ASSUME NEW s \in Clocks!Fields, NEW from, NEW upto, Split(s, from, upto)
  PROVE  /\ LayoutsOf(s) # {} <=> PaddedAfter(s, upto)
         /\ LayoutsOf(s) # {} => OctalText(s, Widest(s)[1], Widest(s)[2]) = OctalText(s, from, upto)
<1>1. FieldSize \in Nat /\ from \in Nat /\ upto \in Nat /\ from <= upto /\ upto <= FieldSize
  BY SizeFacts DEF Split
<1>2. LayoutsOf(s) # {} => PaddedAfter(s, upto)
  BY OneLayout
<1>3. ASSUME PaddedAfter(s, upto)
      PROVE  <<from, upto>> \in LayoutsOf(s)
  <2>1. <<from, upto>> \in (0 .. FieldSize) \X (0 .. FieldSize)
    BY <1>1
  <2> QED
    BY <1>1, <1>3, <2>1 DEF LayoutsOf, Split, PaddedAfter
<1>4. ASSUME LayoutsOf(s) # {}
      PROVE  OctalText(s, Widest(s)[1], Widest(s)[2]) = OctalText(s, from, upto)
  <2>1. <<from, upto>> \in LayoutsOf(s)
    BY <1>2, <1>3, <1>4
  <2>2. \A m \in LayoutsOf(s) : m[2] - m[1] <= upto - from
    <3> SUFFICES ASSUME NEW m \in LayoutsOf(s)
                 PROVE  m[2] - m[1] <= upto - from
      OBVIOUS
    <3>1. m[1] \in Nat /\ m[2] \in Nat /\ m[1] <= m[2]
      BY LayoutFacts
    <3>2. CASE m[1] < m[2]
      <4>1. m[1] = from /\ m[2] = upto
        BY <3>2, OneLayout
      <4> QED
        BY <1>1, <4>1
    <3>3. CASE m[1] = m[2]
      BY <1>1, <3>1, <3>3
    <3> QED
      BY <3>1, <3>2, <3>3
  <2>3. \E l \in LayoutsOf(s) : \A m \in LayoutsOf(s) : m[2] - m[1] <= l[2] - l[1]
    <3> DEFINE l == <<from, upto>>
    <3>1. l[1] = from /\ l[2] = upto /\ l \in LayoutsOf(s)
      BY <2>1
    <3> HIDE DEF l
    <3> QED
      BY <2>2, <3>1
  <2> DEFINE l == Widest(s)
  <2>4. l \in LayoutsOf(s)
    BY <2>3 DEF Widest
  <2> HIDE DEF l
  <2>5. l[1] \in Nat /\ l[2] \in Nat /\ l[1] <= l[2]
    BY <2>4, LayoutFacts
  <2>6. CASE l[1] < l[2]
    <3>1. l[1] = from /\ l[2] = upto
      BY <2>4, <2>6, OneLayout
    <3> QED
      BY <3>1 DEF l
  <2>7. CASE l[1] = l[2]
    <3>1. from = upto
      BY <2>4, <2>7, OneLayout
    <3>2. 1 .. l[2] - l[1] = {} /\ 1 .. upto - from = {}
      BY <1>1, <2>5, <2>7, <3>1
    <3>3. OctalText(s, l[1], l[2]) = OctalText(s, from, upto)
      BY <3>2 DEF OctalText
    <3> QED
      BY <3>3 DEF l
  <2> QED
    BY <2>5, <2>6, <2>7
<1> QED
  BY <1>2, <1>3, <1>4

BinaryOf(s, signed) == Head(s) = Clocks!Top \/ (signed /\ Head(s) = Clocks!Ones)
BytesOf(s) == [i \in 1 .. Len(s) - 1 |-> IF Head(s) = Clocks!Ones THEN Clocks!Ones - s[i + 1] ELSE s[i + 1]]

\* Two's complement: the bytes after the first, inverted under ones.
LEMMA BinaryAgrees ==
  ASSUME NEW s \in Clocks!Fields, NEW signed \in BOOLEAN, BinaryOf(s, signed)
  PROVE  Clocks!Number(s, signed) = Clocks!NumberMeaning(s, signed)
<1> DEFINE g == BytesOf(s)
           u == Tail(s)
           n == FieldSize - 1
<1>1. /\ s \in Seq(Nat) /\ Len(s) = FieldSize /\ FieldSize \in Nat \ {0} /\ s # <<>> /\ Head(s) = s[1]
      /\ \A i \in 1 .. FieldSize : s[i] \in 0 .. Byte - 1
  BY FieldFacts
<1>2. n \in Nat /\ Byte \in Nat \ {0} /\ Clocks!Ones = Byte - 1 /\ Byte - 1 <= Most /\ Most \in Nat
  BY <1>1, SizeFacts DEF Clocks!Ones
<1>3. u \in Seq(Nat) /\ Len(u) = n /\ \A i \in 1 .. n : u[i] = s[i + 1] /\ u[i] \in 0 .. Byte - 1
  <2>1. Tail(s) \in Seq(Nat) /\ Len(Tail(s)) = Len(s) - 1 /\ \A i \in 1 .. Len(s) - 1 : Tail(s)[i] = s[i + 1]
    BY <1>1, TailFacts
  <2>2. \A i \in 1 .. n : i + 1 \in 1 .. FieldSize
    BY <1>1
  <2> QED
    BY <1>1, <2>1, <2>2
<1>4. /\ g \in Seq(Nat) /\ Len(g) = n
      /\ \A i \in 1 .. n : g[i] = (IF Head(s) = Clocks!Ones THEN Clocks!Ones - u[i] ELSE u[i]) /\ g[i] \in 0 .. Byte - 1
  <2> DEFINE h == [i \in 1 .. n |-> IF Head(s) = Clocks!Ones THEN Clocks!Ones - u[i] ELSE u[i]]
  <2>1. g = h
    BY <1>1, <1>3 DEF BytesOf
  <2> HIDE DEF g, u
  <2>2. \A i \in 1 .. n : (IF Head(s) = Clocks!Ones THEN Clocks!Ones - u[i] ELSE u[i]) \in 0 .. Byte - 1
    BY <1>2, <1>3
  <2>3. h \in Seq(Nat) /\ Len(h) = n
    <3>1. \A i \in 1 .. n : (IF Head(s) = Clocks!Ones THEN Clocks!Ones - u[i] ELSE u[i]) \in Nat
      BY <1>2, <2>2
    <3> HIDE DEF n
    <3> QED
      BY <1>2, <3>1
  <2> HIDE DEF n
  <2>4. \A i \in 1 .. n : h[i] = (IF Head(s) = Clocks!Ones THEN Clocks!Ones - u[i] ELSE u[i])
    OBVIOUS
  <2> HIDE DEF h
  <2> QED
    BY <2>1, <2>2, <2>3, <2>4
<1> HIDE DEF g, u
<1> DEFINE x == Clocks!Meaning[<<g, Byte>>]
           m == Clocks!Meaning[<<u, Byte>>]
           p == Clocks!Power[<<Byte, n>>]
<1>5. x \in Nat /\ m \in Nat /\ p \in Nat
  BY <1>2, <1>3, <1>4, MeaningIs, PowerIs
<1>6. Clocks!Accumulate[<<g, Byte, 0>>] = IF x <= Most THEN [ok |-> TRUE, value |-> x] ELSE Clocks!Invalid
  <2>1. \A i \in 1 .. Len(g) : g[i] <= Most
    <3> HIDE DEF n
    <3> QED
      BY <1>2, <1>4
  <2> QED
    BY <1>2, <1>4, <2>1, AccumulateGives
<1>7. Clocks!Number(s, signed) = IF x <= Most THEN [ok |-> TRUE, seconds |-> IF Head(s) = Clocks!Ones THEN -1 - x ELSE x, nanos |-> 0]
                                 ELSE Clocks!Invalid
  <2> HIDE DEF x
  <2> DEFINE total == Clocks!Accumulate[<<g, Byte, 0>>]
  <2>1. Clocks!Number(s, signed) = IF ~total.ok THEN total
                                   ELSE [ok |-> TRUE, seconds |-> IF Head(s) = Clocks!Ones THEN -1 - total.value ELSE total.value, nanos |-> 0]
    BY DEF Clocks!Number, BinaryOf, BytesOf, g
  <2>2. CASE x <= Most
    <3>1. total.ok /\ total.value = x
      BY <1>6, <2>2
    <3> HIDE DEF total
    <3> QED
      BY <2>1, <2>2, <3>1
  <2>3. CASE ~(x <= Most)
    <3>1. total = Clocks!Invalid /\ ~Clocks!Invalid.ok
      BY <1>6, <2>3 DEF Clocks!Invalid
    <3> HIDE DEF total
    <3> QED
      BY <2>1, <2>3, <3>1
  <2> QED
    BY <2>2, <2>3
<1>8. Clocks!NumberMeaning(s, signed) = Clocks!Fitting(m - (IF Head(s) = Clocks!Ones THEN p ELSE 0), 0)
  BY <1>1 DEF Clocks!NumberMeaning, BinaryOf, u
<1>9. CASE Head(s) = Clocks!Ones
  <2>1. \A i \in 1 .. Len(u) : u[i] + g[i] = Byte - 1
    <3>1. \A i \in 1 .. n : u[i] \in Nat /\ u[i] \in 0 .. Byte - 1 /\ g[i] = Clocks!Ones - u[i]
      BY <1>2, <1>3, <1>4, <1>9
    <3> HIDE DEF n
    <3> QED
      BY <1>2, <1>3, <3>1
  <2>2. Clocks!Meaning[<<u, Byte>>] + Clocks!Meaning[<<g, Byte>>] = Clocks!Power[<<Byte, Len(u)>>] - 1
    <3>1. Len(u) = Len(g)
      BY <1>3, <1>4
    <3> QED
      BY <1>2, <1>3, <1>4, <2>1, <3>1, Complements
  <2>3. m + x = p - 1
    BY <1>3, <2>2
  <2> HIDE DEF m, x, p
  <2>4. m - p = -1 - x
    BY <1>5, <2>3
  <2>5. -1 - x \in Clocks!Representable <=> x <= Most
    BY <1>5, SizeFacts DEF Clocks!Representable
  <2> QED
    BY <1>7, <1>8, <1>9, <2>4, <2>5 DEF Clocks!Fitting
<1>10. CASE Head(s) # Clocks!Ones
  <2>1. g = u
    <3>1. \A i \in 1 .. n : g[i] = u[i]
      BY <1>4, <1>10
    <3> HIDE DEF n
    <3> QED
      BY <1>3, <1>4, <3>1, SameSequence
  <2>2. m = x
    BY <2>1
  <2> HIDE DEF m, x, p
  <2>3. m - 0 = x
    BY <1>5, <2>2
  <2>4. x \in Clocks!Representable <=> x <= Most
    BY <1>5, SizeFacts DEF Clocks!Representable
  <2> QED
    BY <1>7, <1>8, <1>10, <2>3, <2>4 DEF Clocks!Fitting
<1> QED
  BY <1>9, <1>10

LEMMA OctalAgrees ==
  ASSUME NEW s \in Clocks!Fields, NEW signed \in BOOLEAN, ~BinaryOf(s, signed)
  PROVE  Clocks!Number(s, signed) = Clocks!NumberMeaning(s, signed)
<1>1. /\ s \in Seq(Nat) /\ Len(s) = FieldSize /\ FieldSize \in Nat \ {0} /\ s # <<>> /\ Head(s) = s[1]
  BY FieldFacts
<1> DEFINE start == Clocks!Skip(s, {Clocks!Space})
           ending == Clocks!Skip(start, Clocks!Octals)
           octal == SubSeq(start, 1, Len(start) - Len(ending))
           total == Clocks!Accumulate[<<[i \in DOMAIN octal |-> octal[i] - Clocks!Zero], Octal, 0>>]
<1>2. PICK from \in 0 .. Len(s) : start = After(s, from) /\ (\A i \in 1 .. from : s[i] \in {Clocks!Space}) /\ (from = Len(s) \/ s[from + 1] \notin {Clocks!Space})
  BY <1>1, SkipIs
<1>3. Clocks!Number(s, signed) = IF ~total.ok THEN total
                                 ELSE IF Clocks!Skip(ending, {Clocks!Nul, Clocks!Space}) # <<>> THEN Clocks!Invalid
                                 ELSE [ok |-> TRUE, seconds |-> total.value, nanos |-> 0]
  BY DEF Clocks!Number, BinaryOf
<1>4. start \in Seq(Nat) /\ Len(start) = FieldSize - from /\ \A j \in 1 .. FieldSize - from : start[j] = s[from + j]
  <2>1. After(s, from) \in Seq(Nat) /\ Len(After(s, from)) = Len(s) - from /\ \A j \in 1 .. Len(s) - from : After(s, from)[j] = s[from + j]
    BY <1>1, Rests
  <2> QED
    BY <1>1, <1>2, <2>1
<1> HIDE DEF start
<1>5. PICK c \in 0 .. Len(start) : /\ ending = After(start, c) /\ (\A i \in 1 .. c : start[i] \in Clocks!Octals)
                                   /\ (c = Len(start) \/ start[c + 1] \notin Clocks!Octals)
  BY <1>4, SkipIs
<1> DEFINE upto == from + c
<1>6. from \in Nat /\ c \in Nat /\ upto \in Nat /\ from <= upto /\ upto <= FieldSize /\ upto - from = c /\ FieldSize \in Nat /\ c <= FieldSize - from
  BY <1>1, <1>4
<1>7. ending = After(s, upto) /\ ending \in Seq(Nat) /\ Len(ending) = FieldSize - upto
      /\ \A j \in 1 .. FieldSize - upto : ending[j] = s[upto + j]
  <2>1. from \in 0 .. Len(s) /\ c \in 0 .. Len(s) - from
    BY <1>1, <1>4
  <2>2. After(After(s, from), c) = After(s, from + c) /\ from + c \in 0 .. Len(s)
    BY <1>1, <2>1, RestOfRest
  <2>3. ending = After(s, upto) /\ upto \in 0 .. Len(s)
    BY <1>2, <1>5, <2>2
  <2> HIDE DEF upto, ending
  <2>4. After(s, upto) \in Seq(Nat) /\ Len(After(s, upto)) = Len(s) - upto /\ \A j \in 1 .. Len(s) - upto : After(s, upto)[j] = s[upto + j]
    BY <1>1, <2>3, Rests
  <2> QED
    BY <1>1, <2>3, <2>4
<1>8. Split(s, from, upto)
  <2>1. \A i \in 1 .. from : s[i] = Clocks!Space
    BY <1>2
  <2>2. from = FieldSize \/ s[from + 1] # Clocks!Space
    BY <1>1, <1>2
  <2>3. ASSUME NEW i \in from + 1 .. upto
        PROVE  s[i] \in Clocks!Octals
    <3> DEFINE j == i - from
    <3>1. j \in 1 .. c /\ j \in 1 .. FieldSize - from /\ from + j = i
      BY <1>6
    <3> HIDE DEF j
    <3> QED
      BY <1>4, <1>5, <3>1
  <2>4. upto = FieldSize \/ s[upto + 1] \notin Clocks!Octals
    <3>1. CASE c = Len(start)
      BY <1>4, <1>6, <3>1
    <3>2. CASE c # Len(start)
      <4>1. c + 1 \in 1 .. FieldSize - from /\ from + (c + 1) = upto + 1
        BY <1>4, <1>6, <3>2
      <4>2. start[c + 1] = s[from + (c + 1)]
        BY <1>4, <4>1
      <4> QED
        BY <1>5, <3>2, <4>1, <4>2
    <3> QED
      BY <3>1, <3>2
  <2> HIDE DEF upto
  <2> QED
    BY <1>6, <2>1, <2>2, <2>3, <2>4 DEF Split
<1>9. Clocks!Skip(ending, {Clocks!Nul, Clocks!Space}) # <<>> <=> ~PaddedAfter(s, upto)
  <2> HIDE DEF upto, ending
  <2>1. PICK d \in 0 .. Len(ending) : /\ Clocks!Skip(ending, {Clocks!Nul, Clocks!Space}) = After(ending, d)
                                      /\ (\A i \in 1 .. d : ending[i] \in {Clocks!Nul, Clocks!Space})
                                      /\ (d = Len(ending) \/ ending[d + 1] \notin {Clocks!Nul, Clocks!Space})
    BY <1>7, SkipIs
  <2>2. After(ending, d) = <<>> <=> d = Len(ending)
    BY <1>7, <2>1, Rests
  <2>3. d \in Nat /\ d <= FieldSize - upto
    BY <1>6, <1>7
  <2>4. ASSUME d = Len(ending)
        PROVE  PaddedAfter(s, upto)
    <3> SUFFICES ASSUME NEW k \in upto + 1 .. FieldSize
                 PROVE  s[k] \in {Clocks!Nul, Clocks!Space}
      BY DEF PaddedAfter
    <3> DEFINE j == k - upto
    <3>1. j \in 1 .. d /\ j \in 1 .. FieldSize - upto /\ upto + j = k
      BY <1>6, <1>7, <2>4
    <3> HIDE DEF j
    <3> QED
      BY <1>7, <2>1, <3>1
  <2>5. ASSUME d # Len(ending)
        PROVE  ~PaddedAfter(s, upto)
    <3> DEFINE j == d + 1
    <3>1. j \in 1 .. FieldSize - upto /\ upto + j \in upto + 1 .. FieldSize
      BY <1>6, <1>7, <2>3, <2>5
    <3>2. ending[j] \notin {Clocks!Nul, Clocks!Space}
      BY <2>1, <2>5
    <3> HIDE DEF j
    <3> QED
      BY <1>7, <3>1, <3>2 DEF PaddedAfter
  <2> QED
    BY <2>1, <2>2, <2>4, <2>5
\* The octal digits.
<1>10. /\ [i \in DOMAIN octal |-> octal[i] - Clocks!Zero] = OctalText(s, from, upto)
  <2>1. Len(start) - Len(ending) = c
    BY <1>4, <1>6, <1>7
  <2>2. octal = SubSeq(start, 1, c)
    BY <2>1
  <2>3. SubSeq(start, 1, c) \in Seq(Nat) /\ Len(SubSeq(start, 1, c)) = c /\ \A j \in 1 .. c : SubSeq(start, 1, c)[j] = start[j]
    BY <1>4, Prefixes
  <2>4. octal \in Seq(Nat) /\ Len(octal) = c /\ \A j \in 1 .. c : octal[j] = start[j]
    BY <2>2, <2>3
  <2> HIDE DEF octal
  <2>5. DOMAIN octal = 1 .. c
    BY <2>4
  <2>6. \A j \in 1 .. c : octal[j] = s[from + j]
    <3>1. \A j \in 1 .. c : j \in 1 .. FieldSize - from
      BY <1>6
    <3> QED
      BY <1>4, <2>4, <3>1
  <2>7. OctalText(s, from, upto) = [k \in 1 .. c |-> s[from + k] - Clocks!Zero]
    BY <1>6 DEF OctalText
  <2> QED
    BY <2>5, <2>6, <2>7
<1> DEFINE o == OctalText(s, from, upto)
           x == Clocks!Meaning[<<o, Octal>>]
<1>11. o \in Seq(Nat) /\ \A i \in 1 .. Len(o) : o[i] <= Most
  <2>1. ASSUME NEW k \in 1 .. c
        PROVE  s[from + k] - Clocks!Zero \in Nat /\ s[from + k] - Clocks!Zero <= Most
    <3>1. from + k \in from + 1 .. upto
      BY <1>6
    <3>2. s[from + k] \in Clocks!Octals
      BY <1>8, <3>1 DEF Split
    <3> QED
      BY <3>2, SizeFacts DEF Clocks!Octals, Clocks!Zero
  <2>2. o = [k \in 1 .. c |-> s[from + k] - Clocks!Zero]
    BY <1>6 DEF OctalText
  <2> HIDE DEF o
  <2>3. o \in Seq(Nat) /\ Len(o) = c
    <3> HIDE DEF upto
    <3>1. c \in Nat
      BY <1>6
    <3>2. \A k \in 1 .. c : s[from + k] - Clocks!Zero \in Nat
      BY <2>1
    <3> DEFINE d(k) == s[from + k] - Clocks!Zero
    <3>3. \A k \in 1 .. c : d(k) \in Nat
      BY <3>2
    <3> HIDE DEF d
    <3>4. [k \in 1 .. c |-> d(k)] \in Seq(Nat) /\ Len([k \in 1 .. c |-> d(k)]) = c
      BY <3>1, <3>3
    <3> QED
      BY <2>2, <3>4 DEF d
  <2>4. \A k \in 1 .. c : o[k] = s[from + k] - Clocks!Zero
    BY <2>2
  <2> QED
    BY <2>1, <2>3, <2>4
<1> HIDE DEF o, upto, octal, ending
<1>12. total = IF x <= Most THEN [ok |-> TRUE, value |-> x] ELSE Clocks!Invalid
  <2>1. Octal \in Nat \ {0}
    BY SizeFacts
  <2>2. Clocks!Accumulate[<<o, Octal, 0>>] = IF x <= Most THEN [ok |-> TRUE, value |-> x] ELSE Clocks!Invalid
    BY <1>11, <2>1, AccumulateGives
  <2> QED
    BY <1>10, <2>2 DEF o
<1>13. x \in Nat
  BY <1>11, SizeFacts, MeaningIs
<1>14. Clocks!Number(s, signed) = IF x <= Most /\ PaddedAfter(s, upto) THEN [ok |-> TRUE, seconds |-> x, nanos |-> 0] ELSE Clocks!Invalid
  <2> HIDE DEF x, total
  <2>1. CASE x <= Most
    <3>1. total.ok /\ total.value = x
      BY <1>12, <2>1
    <3> QED
      BY <1>3, <1>9, <2>1, <3>1
  <2>2. CASE ~(x <= Most)
    <3>1. total = Clocks!Invalid /\ ~Clocks!Invalid.ok
      BY <1>12, <2>2 DEF Clocks!Invalid
    <3> QED
      BY <1>3, <2>2, <3>1
  <2> QED
    BY <2>1, <2>2
<1>15. Clocks!NumberMeaning(s, signed) =
         IF LayoutsOf(s) = {} THEN Clocks!Invalid
         ELSE Clocks!Fitting(Clocks!Meaning[<<OctalText(s, Widest(s)[1], Widest(s)[2]), Octal>>], 0)
  <2>1. ~(s[1] = Clocks!Top \/ (signed /\ s[1] = Clocks!Ones))
    BY <1>1 DEF BinaryOf
  <2> QED
    BY <2>1 DEF Clocks!NumberMeaning, LayoutsOf, Widest, OctalText
<1>16. Clocks!NumberMeaning(s, signed) = IF PaddedAfter(s, upto) THEN Clocks!Fitting(x, 0) ELSE Clocks!Invalid
  <2>1. /\ LayoutsOf(s) # {} <=> PaddedAfter(s, upto)
        /\ LayoutsOf(s) # {} => OctalText(s, Widest(s)[1], Widest(s)[2]) = OctalText(s, from, upto)
    BY <1>8, LayoutAnswers
  <2> QED
    BY <1>15, <2>1 DEF o
<1>17. x \in Clocks!Representable <=> x <= Most
  <2> HIDE DEF x
  <2> QED
    BY <1>13, SizeFacts DEF Clocks!Representable
<1> QED
  BY <1>14, <1>16, <1>17 DEF Clocks!Fitting

\* The fields that are read, as they were before they were read.
Readable == \/ field = "clock" /\ text \in Clocks!Texts
            \/ field \in {"number", "signed"} /\ text \in Clocks!Fields

LEMMA ReadsIt ==
  Clocks!Init => Readable
<1> SUFFICES ASSUME Clocks!Init
             PROVE  Readable
  OBVIOUS
<1>1. CASE field = "clock" /\ text \in Clocks!Short
  <2>1. PICK n \in 0 .. LongestText : text \in [1 .. n -> Clocks!Digits \cup {Clocks!Minus, Clocks!Point}]
    BY <1>1 DEF Clocks!Short
  <2>2. n \in Nat
    BY OtherAssumptions DEF Clocks!SizeAssumption
  <2>3. text \in Seq(Clocks!Digits \cup {Clocks!Minus, Clocks!Point})
    BY <2>1, <2>2
  <2> QED
    BY <1>1, <2>3 DEF Readable, Clocks!Texts
<1>2. CASE field \in {"number", "signed"} /\ text \in Clocks!Fields
  BY <1>2 DEF Readable
<1> QED
  BY <1>1, <1>2 DEF Clocks!Init

-----------------------------------------------------------------------------
(***************************************************************************)
(* The two programs.                                                       *)
(***************************************************************************)

OrderInv == a \in Order!Versions /\ b \in Order!Versions /\ Order!CompareIsDebianOrder

\* For all versions whatever, compare answers what the order of their sort keys says
\* (debian_semantics.py).
THEOREM ComparesAsDebian == MCSpec => []CompareIsDebianOrder
<1> DEFINE IInv == program = "versions" => OrderInv
<1>1. MCInit => IInv
  BY DEF MCInit, OrderInv, Order!Init, Order!CompareIsDebianOrder
<1>2. IInv /\ [MCNext]_<<program, vars, shared, chain, media, parsers>> => IInv'
  <2> SUFFICES ASSUME IInv, [MCNext]_<<program, vars, shared, chain, media, parsers>>, program' = "versions"
               PROVE  OrderInv'
    OBVIOUS
  <2>1. program = "versions" /\ (Order!Next \/ UNCHANGED <<a, b, result>>)
    BY DEF MCNext, parsers
  <2>2. CASE UNCHANGED <<a, b, result>>
    BY <2>1, <2>2 DEF OrderInv, Order!CompareIsDebianOrder
  <2>3. CASE Order!Next
    <3>1. result' = Order!Answer(a, b) /\ a' = a /\ b' = b
      BY <2>3 DEF Order!Next, Order!Compare
    <3>2. a \in Order!Versions /\ b \in Order!Versions
      BY <2>1 DEF OrderInv
    <3>3. Order!Answer(a, b) = Order!Reference(a, b)
      BY <3>2, AnswerIsReference
    <3> QED
      BY <3>1, <3>2, <3>3 DEF OrderInv, Order!CompareIsDebianOrder
  <2> QED
    BY <2>1, <2>2, <2>3
<1>3. IInv => CompareIsDebianOrder
  BY DEF OrderInv, CompareIsDebianOrder
<1> QED
  BY <1>1, <1>2, <1>3, PTL DEF MCSpec

ClocksInv == Readable /\ Clocks!ReadsWhatIsWritten

\* Every time and every field of a header, of any length and for any bases and size of
\* the type, is read as what it means or refused; no digit overflows (tar_clocks.c).
THEOREM ReadsAsWritten == MCSpec => []ReadsWhatIsWritten
<1> DEFINE IInv == program = "clocks" => ClocksInv
<1>1. MCInit => IInv
  BY ReadsIt DEF MCInit, ClocksInv, Clocks!Init, Clocks!ReadsWhatIsWritten
<1>2. IInv /\ [MCNext]_<<program, vars, shared, chain, media, parsers>> => IInv'
  <2> SUFFICES ASSUME IInv, [MCNext]_<<program, vars, shared, chain, media, parsers>>, program' = "clocks"
               PROVE  ClocksInv'
    OBVIOUS
  <2>1. program = "clocks" /\ (Clocks!Next \/ UNCHANGED <<field, text, result>>)
    BY DEF MCNext, parsers
  <2>2. CASE UNCHANGED <<field, text, result>>
    BY <2>1, <2>2 DEF ClocksInv, Readable, Clocks!ReadsWhatIsWritten
  <2>3. CASE Clocks!Next
    <3>1. /\ result' = IF field = "clock" THEN Clocks!ClockText(text) ELSE Clocks!Number(text, field = "signed")
          /\ field' = field /\ text' = text
      BY <2>3 DEF Clocks!Next, Clocks!Parse
    <3>2. CASE field = "clock" /\ text \in Clocks!Texts
      <4>1. Clocks!ClockText(text) = Clocks!ClockMeaning(text)
        BY <3>2, ClocksAgree
      <4> QED
        BY <3>1, <3>2, <4>1 DEF ClocksInv, Readable, Clocks!ReadsWhatIsWritten
    <3>3. CASE field \in {"number", "signed"} /\ text \in Clocks!Fields
      <4> DEFINE signed == field = "signed"
      <4>1. signed \in BOOLEAN /\ field # "clock"
        BY <3>3
      <4> HIDE DEF signed
      <4>2. Clocks!Number(text, signed) = Clocks!NumberMeaning(text, signed)
        BY <3>3, <4>1, BinaryAgrees, OctalAgrees
      <4> QED
        BY <3>1, <3>3, <4>1, <4>2 DEF ClocksInv, Readable, Clocks!ReadsWhatIsWritten, signed
    <3> QED
      BY <2>1, <3>2, <3>3 DEF ClocksInv, Readable
  <2> QED
    BY <2>1, <2>2, <2>3
<1>3. IInv => ReadsWhatIsWritten
  BY DEF ClocksInv, ReadsWhatIsWritten
<1> QED
  BY <1>1, <1>2, <1>3, PTL DEF MCSpec
=============================================================================
