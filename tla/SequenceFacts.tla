--------------------------- MODULE SequenceFacts ---------------------------
(***************************************************************************)
(* What the recursive operators on sequences compute, for sequences of any *)
(* length.  An induction is the choice of a least counterexample: the      *)
(* naturals are well founded, so a set of them that is not empty has a     *)
(* least element.                                                          *)
(***************************************************************************)
EXTENDS Integers, Sequences, FiniteSets, SequencesExt, SequenceTheorems, FiniteSetTheorems,
        WellFoundedInduction, TLAPS

\* The least of some naturals.
LEMMA HasLeast ==
  ASSUME NEW B \in SUBSET Nat, B # {}
  PROVE  \E m \in B : \A j \in B : m <= j
<1>1. PICK R : R = {ss \in Nat \X Nat : ss[1] < ss[2]} OBVIOUS
<1>2. IsWellFoundedOn(R, Nat) BY <1>1, NatLessThanWellFounded DEF OpToRel
<1>3. PICK m \in B : \A j \in B : <<j, m>> \notin R BY <1>2, WFMin
<1>4. \A a, b \in Nat : a < b => <<a, b>> \in R BY <1>1
<1>5. ASSUME NEW j \in B PROVE m <= j
  <2>1. m \in Nat /\ j \in Nat OBVIOUS
  <2>2. ~(j < m) BY <1>3, <1>4, <2>1
  <2> QED BY <2>1, <2>2
<1> QED BY <1>5

\* The greatest of some naturals that are bounded.
LEMMA HasGreatest ==
  ASSUME NEW n \in Nat, NEW B \in SUBSET (0 .. n), B # {}
  PROVE  \E m \in B : \A j \in B : j <= m
<1>1. PICK C : C = {n - j : j \in B} OBVIOUS
<1>2. C \in SUBSET Nat /\ C # {}
  <2>1. \A j \in 0 .. n : n - j \in Nat OBVIOUS
  <2>2. \A j \in B : j \in 0 .. n OBVIOUS
  <2> QED BY <1>1, <2>1, <2>2
<1>3. PICK c \in C : \A d \in C : c <= d BY <1>2, HasLeast
<1>4. PICK m \in B : c = n - m BY <1>1
<1>5. ASSUME NEW j \in B PROVE j <= m
  <2>1. n - j \in C /\ j \in 0 .. n /\ m \in 0 .. n BY <1>1
  <2>2. n - m <= n - j BY <1>3, <1>4, <2>1
  <2> QED BY <2>1, <2>2
<1> QED BY <1>5

\* Induction up to a bound: a set that has 0, and with each number the next, has them all.
LEMMA UpTo ==
  ASSUME NEW n \in Nat, NEW G, 0 \in G, \A i \in 1 .. n : i - 1 \in G => i \in G
  PROVE  0 .. n \subseteq G
<1> DEFINE B == {i \in 0 .. n : i \notin G}
<1>1. SUFFICES ASSUME B # {} PROVE FALSE OBVIOUS
<1>2. B \in SUBSET Nat OBVIOUS
<1> HIDE DEF B
<1>3. PICK m \in B : \A j \in B : m <= j BY <1>1, <1>2, HasLeast
<1>4. m \in 0 .. n /\ m \notin G BY DEF B
<1>5. m # 0 BY <1>4
<1>6. m \in 1 .. n /\ m - 1 \in 0 .. n /\ ~(m <= m - 1) BY <1>4, <1>5
<1>7. m - 1 \in G BY <1>3, <1>6 DEF B
<1> QED BY <1>4, <1>6, <1>7

-----------------------------------------------------------------------------
(* The flattening of a sequence of sequences. *)

\* The parts one after the other, as far as the i-th.
Accumulates(s, g) ==
  /\ DOMAIN g = 0 .. Len(s)
  /\ g[0] = <<>>
  /\ \A i \in 1 .. Len(s) : g[i] = g[i - 1] \o s[i]

LEMMA PrefixesExist ==
  ASSUME NEW S, NEW s \in Seq(Seq(S))
  PROVE  \E g \in [0 .. Len(s) -> Seq(S)] : Accumulates(s, g)
<1> DEFINE n == Len(s)
           P(m, f) == /\ f[0] = <<>>
                      /\ \A i \in 1 .. m : f[i] = f[i - 1] \o s[i]
           G == {m \in 0 .. n : \E f \in [0 .. m -> Seq(S)] : P(m, f)}
<1>1. n \in Nat /\ \A i \in 1 .. n : s[i] \in Seq(S) BY ElementOfSeq, LenProperties
<1>2. 0 \in G
  <2>1. [k \in 0 .. 0 |-> <<>>] \in [0 .. 0 -> Seq(S)] BY EmptySeq
  <2>2. P(0, [k \in 0 .. 0 |-> <<>>]) OBVIOUS
  <2>3. \E f \in [0 .. 0 -> Seq(S)] : P(0, f) BY <2>1, <2>2
  <2>4. 0 \in 0 .. n BY <1>1
  <2> HIDE DEF P, n
  <2> QED BY <2>3, <2>4, Zenon
<1>3. ASSUME NEW i \in 1 .. n, i - 1 \in G PROVE i \in G
  <2>1. PICK f \in [0 .. i - 1 -> Seq(S)] : P(i - 1, f) BY <1>3
  <2>2. i - 1 \in 0 .. i - 1 /\ i \in Nat /\ 0 \in 0 .. i - 1 /\ i \in 0 .. n BY <1>1
  <2>3. f[i - 1] \o s[i] \in Seq(S) BY <1>1, <2>1, <2>2, ConcatProperties
  <2> DEFINE h == [k \in 0 .. i |-> IF k = i THEN f[i - 1] \o s[i] ELSE f[k]]
  <2>4. h \in [0 .. i -> Seq(S)] BY <2>1, <2>2, <2>3
  <2>5. h[0] = <<>> BY <2>1, <2>2
  <2>6. ASSUME NEW k \in 1 .. i PROVE h[k] = h[k - 1] \o s[k]
    <3>1. CASE k = i
      <4>1. i \in 0 .. i /\ i - 1 \in 0 .. i /\ i - 1 # i BY <2>2
      <4>2. h[i] = f[i - 1] \o s[i] /\ h[i - 1] = f[i - 1] BY <4>1
      <4> QED BY <3>1, <4>2
    <3>2. CASE k # i
      <4>1. k \in 0 .. i /\ k - 1 \in 0 .. i /\ k - 1 # i /\ k \in 1 .. i - 1 BY <2>2, <3>2
      <4>2. h[k] = f[k] /\ h[k - 1] = f[k - 1] BY <3>2, <4>1
      <4> QED BY <2>1, <4>1, <4>2
    <3> QED BY <3>1, <3>2
  <2>7. P(i, h) BY <2>5, <2>6
  <2> HIDE DEF h
  <2> QED BY <2>2, <2>4, <2>7
<1> HIDE DEF G
<1> HIDE DEF n
<1>4. 0 .. n \subseteq G BY <1>1, <1>2, <1>3, UpTo
<1>5. n \in G BY <1>1, <1>4
<1> USE DEF n
<1> QED BY <1>5 DEF G, Accumulates

\* The flattening is the last of them.
LEMMA FlattenIsLast ==
  ASSUME NEW S, NEW s \in Seq(Seq(S)), NEW g \in [0 .. Len(s) -> Seq(S)], Accumulates(s, g)
  PROVE  FlattenSeq(s) = g[Len(s)]
<1> DEFINE n == Len(s)
           P(c) == c = [i \in 1 .. n |-> IF i = 1 THEN s[i] ELSE c[i - 1] \o s[i]]
<1>1. n \in Nat /\ \A i \in 1 .. n : s[i] \in Seq(S) BY ElementOfSeq, LenProperties
<1>2. CASE n = 0
  <2>1. FlattenSeq(s) = s BY <1>2 DEF FlattenSeq
  <2>2. s = <<>> BY <1>2, EmptySeq
  <2> QED BY <1>2, <2>1, <2>2 DEF Accumulates
<1>3. CASE n # 0
  <2>1. FlattenSeq(s) = (CHOOSE c : P(c))[n] BY <1>3 DEF FlattenSeq
  <2> DEFINE h == [i \in 1 .. n |-> g[i]]
  <2>2. ASSUME NEW i \in 1 .. n PROVE h[i] = IF i = 1 THEN s[i] ELSE h[i - 1] \o s[i]
    <3>1. h[i] = g[i] /\ g[i] = g[i - 1] \o s[i] BY DEF Accumulates
    <3>2. CASE i = 1
      <4>1. g[0] \o s[1] = s[1] BY <1>1, <3>2, ConcatEmptySeq DEF Accumulates
      <4>2. i - 1 = 0 BY <3>2
      <4>3. g[i] = s[i] BY <3>1, <3>2, <4>1, <4>2, Zenon
      <4> QED BY <3>1, <3>2, <4>3
    <3>3. CASE i # 1
      <4>1. i - 1 \in 1 .. n BY <1>1, <3>3
      <4> QED BY <3>1, <3>3, <4>1
    <3> QED BY <3>2, <3>3
  <2>3. P(h) BY <2>2
  <2>4. PICK c : c = (CHOOSE d : P(d)) OBVIOUS
  <2>5. P(c) BY <2>3, <2>4
  <2> HIDE DEF h
  <2>6. \A i \in 1 .. n : c[i] = IF i = 1 THEN s[i] ELSE c[i - 1] \o s[i] BY <2>5
  <2> DEFINE G == {i \in Nat : i \in 1 .. n => c[i] = g[i]}
  <2>7. 0 \in G OBVIOUS
  <2>8. ASSUME NEW i \in 1 .. n, i - 1 \in G PROVE i \in G
    <3>1. g[i] = g[i - 1] \o s[i] BY DEF Accumulates
    <3>2. CASE i = 1
      <4>1. g[0] \o s[1] = s[1] BY <1>1, <3>2, ConcatEmptySeq DEF Accumulates
      <4>2. i - 1 = 0 BY <3>2
      <4>3. g[i] = s[i] BY <3>1, <3>2, <4>1, <4>2, Zenon
      <4>4. c[i] = s[i] BY <2>6, <3>2
      <4> QED BY <4>3, <4>4
    <3>3. CASE i # 1
      <4>1. i - 1 \in 1 .. n /\ i \in Nat BY <1>1, <3>3
      <4>2. c[i - 1] = g[i - 1] BY <2>8, <4>1
      <4> QED BY <2>6, <3>1, <3>3, <4>1, <4>2
    <3> QED BY <3>2, <3>3
  <2> HIDE DEF G
  <2>9. 0 .. n \subseteq G BY <1>1, <2>7, <2>8, UpTo
  <2>10. n \in 0 .. n /\ n \in 1 .. n BY <1>1, <1>3
  <2>11. c[n] = g[n] BY <2>9, <2>10 DEF G
  <2> QED BY <2>1, <2>4, <2>11
<1> QED BY <1>2, <1>3

\* Where the parts of a flattening begin, when they are laid one after the other.
Offsets(s, off) ==
  /\ off \in [0 .. Len(s) -> Nat] /\ off[0] = 0
  /\ \A p \in 1 .. Len(s) : off[p] = off[p - 1] + Len(s[p])

\* A sequence holds the first m parts, each where it begins, and nothing else.
Laid(s, off, m, f) ==
  /\ Len(f) = off[m]
  /\ \A p \in 1 .. m : \A k \in 1 .. Len(s[p]) :
       off[p - 1] + k \in 1 .. off[m] /\ f[off[p - 1] + k] = s[p][k]
  /\ \A i \in 1 .. off[m] : \E p \in 1 .. m : \E k \in 1 .. Len(s[p]) : i = off[p - 1] + k

\* Every element of a part is in the flattening, at its place, and nothing else is.
LEMMA FlattenPositions ==
  ASSUME NEW S, NEW s \in Seq(Seq(S))
  PROVE  /\ FlattenSeq(s) \in Seq(S)
         /\ \E off : Offsets(s, off) /\ Laid(s, off, Len(s), FlattenSeq(s))
<1> DEFINE n == Len(s)
<1>1. n \in Nat /\ \A i \in 1 .. n : s[i] \in Seq(S) /\ Len(s[i]) \in Nat
  BY ElementOfSeq, LenProperties
<1>2. PICK g \in [0 .. n -> Seq(S)] : Accumulates(s, g) BY PrefixesExist
<1>3. FlattenSeq(s) = g[n] /\ n \in 0 .. n BY <1>1, <1>2, FlattenIsLast
<1> DEFINE off == [i \in 0 .. n |-> Len(g[i])]
           G == {m \in 0 .. n : Laid(s, off, m, g[m])}
<1>4. \A i \in 0 .. n : g[i] \in Seq(S) /\ off[i] = Len(g[i]) /\ off[i] \in Nat
  BY <1>2, LenProperties
<1>5. 0 \in 0 .. n /\ off[0] = 0
  <2>1. 0 \in 0 .. n BY <1>1
  <2>2. g[0] = <<>> BY <1>2 DEF Accumulates
  <2> QED BY <1>4, <2>1, <2>2, EmptySeq
<1>6. ASSUME NEW p \in 1 .. n
      PROVE  /\ p - 1 \in 0 .. n /\ p \in 0 .. n /\ p \in Nat
             /\ g[p] = g[p - 1] \o s[p]
             /\ off[p] = off[p - 1] + Len(s[p])
             /\ \A k \in 1 .. off[p] :
                  g[p][k] = IF k <= off[p - 1] THEN g[p - 1][k] ELSE s[p][k - off[p - 1]]
  <2>1. p - 1 \in 0 .. n /\ p \in 0 .. n /\ p \in Nat BY <1>1
  <2>2. g[p] = g[p - 1] \o s[p] BY <1>2 DEF Accumulates
  <2>3. PICK a \in Seq(S) : a = g[p - 1] BY <1>4, <2>1
  <2>4. PICK b \in Seq(S) : b = s[p] BY <1>1
  <2>5. /\ Len(a \o b) = Len(a) + Len(b)
        /\ \A k \in 1 .. Len(a) + Len(b) : (a \o b)[k] = IF k <= Len(a) THEN a[k] ELSE b[k - Len(a)]
    BY ConcatProperties
  <2>6. off[p] = Len(a) + Len(b) /\ off[p - 1] = Len(a) BY <1>4, <2>1, <2>2, <2>3, <2>4, <2>5
  <2> QED BY <2>1, <2>2, <2>3, <2>4, <2>5, <2>6
<1>7. Offsets(s, off)
  <2>1. off \in [0 .. n -> Nat] BY <1>4
  <2> QED BY <1>5, <1>6, <2>1 DEF Offsets
<1> HIDE DEF off
<1>8. 0 \in G
  <2>1. Laid(s, off, 0, g[0]) BY <1>4, <1>5 DEF Laid
  <2> QED BY <1>5, <2>1
<1>9. ASSUME NEW i \in 1 .. n, i - 1 \in G PROVE i \in G
  <2>1. Laid(s, off, i - 1, g[i - 1]) BY <1>9
  <2>2. off[i] \in Nat /\ off[i - 1] \in Nat /\ Len(s[i]) \in Nat /\ off[i] = off[i - 1] + Len(s[i])
    BY <1>1, <1>4, <1>6
  <2>3. ASSUME NEW p \in 1 .. i, NEW k \in 1 .. Len(s[p])
        PROVE  off[p - 1] + k \in 1 .. off[i] /\ g[i][off[p - 1] + k] = s[p][k]
    <3>1. CASE p = i
      <4>1. k \in 1 .. Len(s[i]) /\ k \in Nat /\ off[i - 1] + k \in 1 .. off[i]
            /\ ~(off[i - 1] + k <= off[i - 1]) /\ (off[i - 1] + k) - off[i - 1] = k
        BY <2>2, <3>1
      <4>2. g[i][off[i - 1] + k] = s[i][k] BY <1>6, <4>1
      <4> QED BY <3>1, <4>1, <4>2
    <3>2. CASE p # i
      <4>1. p \in 1 .. i - 1 BY <3>2
      <4>2. off[p - 1] + k \in 1 .. off[i - 1] /\ g[i - 1][off[p - 1] + k] = s[p][k]
        BY <2>1, <4>1 DEF Laid
      <4>3. PICK j : j = off[p - 1] + k OBVIOUS
      <4>4. j \in 1 .. off[i] /\ j <= off[i - 1] BY <2>2, <4>2, <4>3
      <4>5. g[i][j] = g[i - 1][j] BY <1>6, <4>4
      <4> QED BY <4>2, <4>3, <4>4, <4>5
    <3> QED BY <3>1, <3>2
  <2>4. ASSUME NEW j \in 1 .. off[i]
        PROVE  \E p \in 1 .. i : \E k \in 1 .. Len(s[p]) : j = off[p - 1] + k
    <3>1. CASE j <= off[i - 1]
      <4>1. j \in 1 .. off[i - 1] BY <2>2, <3>1
      <4>2. PICK p \in 1 .. i - 1 : \E k \in 1 .. Len(s[p]) : j = off[p - 1] + k
        BY <2>1, <4>1 DEF Laid
      <4>3. p \in 1 .. i BY <1>6
      <4> QED BY <4>2, <4>3
    <3>2. CASE ~(j <= off[i - 1])
      <4>1. j - off[i - 1] \in 1 .. Len(s[i]) /\ j = off[i - 1] + (j - off[i - 1]) /\ i \in 1 .. i
        BY <2>2, <3>2, <1>6
      <4> QED BY <4>1
    <3> QED BY <3>1, <3>2
  <2>5. Len(g[i]) = off[i] BY <1>4, <1>6
  <2>6. Laid(s, off, i, g[i]) BY <2>3, <2>4, <2>5 DEF Laid
  <2> QED BY <1>6, <2>6
<1> HIDE DEF G, n
<1>10. 0 .. n \subseteq G BY <1>1, <1>8, <1>9, UpTo
<1>11. n \in G BY <1>1, <1>10
<1>12. Laid(s, off, n, FlattenSeq(s)) BY <1>3, <1>11 DEF G
<1> QED BY <1>3, <1>4, <1>7, <1>12 DEF n

\* The places before a part are those of the parts before it.
LEMMA OffsetsGrow ==
  ASSUME NEW S, NEW s \in Seq(Seq(S)), NEW off, Offsets(s, off),
         NEW q \in 0 .. Len(s), NEW p \in 0 .. q
  PROVE  off[p] <= off[q]
<1>1. Len(s) \in Nat /\ \A i \in 1 .. Len(s) : Len(s[i]) \in Nat
  BY ElementOfSeq, LenProperties
<1> DEFINE G == {m \in Nat : m \in 0 .. q => \A j \in 0 .. m : off[j] <= off[m]}
<1> DEFINE n == Len(s)
<1>0. q \in 0 .. n /\ n \in Nat /\ q \in Nat BY <1>1
<1>2. \A m \in 0 .. q : off[m] \in Nat /\ off[m] <= off[m]
  <2>1. \A m \in 0 .. q : m \in 0 .. n BY <1>0
  <2>2. off \in [0 .. n -> Nat] BY DEF Offsets
  <2>3. \A m \in 0 .. q : off[m] \in Nat BY <2>1, <2>2
  <2> QED BY <2>3
<1>3. 0 \in G
  <2>1. \A j \in 0 .. 0 : j = 0 OBVIOUS
  <2> QED BY <1>2, <2>1
<1>4. ASSUME NEW i \in 1 .. q, i - 1 \in G PROVE i \in G
  <2>1. i \in Nat /\ i - 1 \in 0 .. q /\ i \in 1 .. Len(s) /\ i \in 0 .. q BY <1>1
  <2>2. \A j \in 0 .. i - 1 : off[j] <= off[i - 1] BY <1>4, <2>1
  <2>3. off[i] = off[i - 1] + Len(s[i]) /\ Len(s[i]) \in Nat BY <1>1, <2>1 DEF Offsets
  <2>4. ASSUME NEW j \in 0 .. i PROVE off[j] <= off[i]
    <3>1. CASE j = i BY <1>2, <2>1, <3>1
    <3>2. CASE j # i
      <4>1. j \in 0 .. i - 1 /\ j \in 0 .. q BY <2>1, <3>2
      <4> QED BY <1>2, <2>1, <2>2, <2>3, <4>1
    <3> QED BY <3>1, <3>2
  <2> QED BY <2>1, <2>4
<1> HIDE DEF G
<1>5. 0 .. q \subseteq G BY <1>0, <1>3, <1>4, UpTo
<1>6. q \in G /\ q \in 0 .. q BY <1>5
<1> QED BY <1>6 DEF G

\* No two parts share a place.
LEMMA OnePlace ==
  ASSUME NEW S, NEW s \in Seq(Seq(S)), NEW off, Offsets(s, off),
         NEW p \in 1 .. Len(s), NEW k \in 1 .. Len(s[p]),
         NEW q \in 1 .. Len(s), NEW l \in 1 .. Len(s[q]), off[p - 1] + k = off[q - 1] + l
  PROVE  p = q /\ k = l
<1>1. Len(s) \in Nat /\ \A i \in 1 .. Len(s) : Len(s[i]) \in Nat
  BY ElementOfSeq, LenProperties
<1>2. \A i \in 1 .. Len(s) : /\ i - 1 \in 0 .. Len(s) /\ i \in 0 .. Len(s)
                             /\ off[i] \in Nat /\ off[i - 1] \in Nat
                             /\ off[i] = off[i - 1] + Len(s[i])
  <2>1. \A i \in 1 .. Len(s) : i - 1 \in 0 .. Len(s) /\ i \in 0 .. Len(s) BY <1>1
  <2>2. off \in [0 .. Len(s) -> Nat] BY DEF Offsets
  <2> QED BY <2>1, <2>2 DEF Offsets
<1>3. CASE p = q BY <1>2, <1>3
<1>4. CASE p < q
  <2>1. p \in 0 .. q - 1 /\ q - 1 \in 0 .. Len(s) BY <1>2, <1>4
  <2>2. off[p] <= off[q - 1] BY <2>1, OffsetsGrow
  <2>0. k <= Len(s[p]) /\ l >= 1 /\ k \in Nat /\ l \in Nat /\ Len(s[p]) \in Nat BY <1>1
  <2>4. off[p] = off[p - 1] + Len(s[p]) /\ off[p - 1] \in Nat /\ off[q - 1] \in Nat BY <1>2
  <2>3. off[p - 1] + k <= off[p] /\ off[q - 1] + l > off[q - 1]
    <3>1. ASSUME NEW a \in Nat, NEW b \in Nat, NEW c \in Nat, NEW d \in Nat, NEW x \in Nat,
                 c <= x, d >= 1
          PROVE  a + c <= a + x /\ b + d > b
      BY <3>1
    <3> QED BY <2>0, <2>4, <3>1
  <2> QED BY <1>1, <1>2, <2>2, <2>3
<1>5. CASE q < p
  <2>1. q \in 0 .. p - 1 /\ p - 1 \in 0 .. Len(s) BY <1>2, <1>5
  <2>2. off[q] <= off[p - 1] BY <2>1, OffsetsGrow
  <2>0. l <= Len(s[q]) /\ k >= 1 /\ k \in Nat /\ l \in Nat /\ Len(s[q]) \in Nat BY <1>1
  <2>4. off[q] = off[q - 1] + Len(s[q]) /\ off[p - 1] \in Nat /\ off[q - 1] \in Nat BY <1>2
  <2>3. off[q - 1] + l <= off[q] /\ off[p - 1] + k > off[p - 1]
    <3>1. ASSUME NEW a \in Nat, NEW b \in Nat, NEW c \in Nat, NEW d \in Nat, NEW x \in Nat,
                 c <= x, d >= 1
          PROVE  a + c <= a + x /\ b + d > b
      BY <3>1
    <3> QED BY <2>0, <2>4, <3>1
  <2> QED BY <1>1, <1>2, <2>2, <2>3
<1> QED BY <1>3, <1>4, <1>5

-----------------------------------------------------------------------------
(* The sequence of a set's elements. *)

LEMMA SetInSequence ==
  ASSUME NEW S, IsFiniteSet(S)
  PROVE  /\ SetToSeq(S) \in Seq(S)
         /\ \A x \in S : \E i \in 1 .. Len(SetToSeq(S)) : SetToSeq(S)[i] = x
         /\ \A i, j \in 1 .. Len(SetToSeq(S)) : SetToSeq(S)[i] = SetToSeq(S)[j] => i = j
<1> DEFINE n == Cardinality(S)
           Good(f) == f \in [1 .. n -> S] /\ IsInjective(f)
<1>1. n \in Nat /\ ExistsBijection(1 .. n, S) BY FS_CardinalityType
<1>2. PICK b \in [1 .. n -> S] :
        (\A i, j \in 1 .. n : b[i] = b[j] => i = j) /\ \A x \in S : \E i \in 1 .. n : b[i] = x
  BY <1>1 DEF ExistsBijection, Bijection, Injection, IsInjective, Surjection, Range
<1>3. Good(b) BY <1>2 DEF IsInjective
<1>4. PICK f : f = SetToSeq(S) OBVIOUS
<1>5. f \in [1 .. n -> S] /\ IsInjective(f) BY <1>3, <1>4 DEF SetToSeq
<1>6. f \in Seq(S) /\ Len(f) = n BY <1>1, <1>5, SeqDef
<1>7. \A i, j \in 1 .. n : f[i] = f[j] => i = j BY <1>5 DEF IsInjective
<1>8. IsFiniteSet(1 .. n) /\ Cardinality(1 .. n) = n BY <1>1, FS_Interval
<1>9. \A x \in S : \E i \in 1 .. n : f[i] = x
  <2> DEFINE R == {f[i] : i \in 1 .. n}
  <2>1. f \in [1 .. n -> R] BY <1>5
  <2>2. f \in Bijection(1 .. n, R)
    BY <1>7, <2>1 DEF Bijection, Injection, IsInjective, Surjection, Range
  <2>3. ExistsBijection(1 .. n, R) BY <2>2 DEF ExistsBijection
  <2>4. R \subseteq S BY <1>5
  <2> HIDE DEF R
  <2>5. Cardinality(R) = n BY <1>8, <2>3, FS_Bijection
  <2>6. R = S BY <2>4, <2>5, FS_Subset
  <2> QED BY <2>6 DEF R
<1> QED BY <1>4, <1>6, <1>7, <1>9

-----------------------------------------------------------------------------
(* The elements of a sequence that are in a set, in their order. *)

Hits(all, ids) == [i \in DOMAIN all |-> IF all[i] \in ids THEN <<all[i]>> ELSE <<>>]

\* The places in a sequence of the elements that were taken from it.
PlacesOf(t, all, ids, place) ==
  /\ place \in [1 .. Len(t) -> 1 .. Len(all)]
  /\ \A j \in 1 .. Len(t) : t[j] = all[place[j]] /\ t[j] \in ids
  /\ \A i, j \in 1 .. Len(t) : i < j => place[i] < place[j]
  /\ \A i \in 1 .. Len(all) : all[i] \in ids => \E j \in 1 .. Len(t) : place[j] = i

LEMMA HitsInOrder ==
  ASSUME NEW S, NEW all \in Seq(S), NEW ids
  PROVE  LET t == FlattenSeq(Hits(all, ids))
         IN  /\ t \in Seq(S) /\ Len(t) <= Len(all)
             /\ \E place : PlacesOf(t, all, ids, place)
<1> DEFINE n == Len(all)
<1>1. n \in Nat /\ DOMAIN all = 1 .. n /\ \A i \in 1 .. n : all[i] \in S
  BY LenProperties, ElementOfSeq
<1>2. PICK s : s = Hits(all, ids) OBVIOUS
<1>3. ASSUME NEW i \in 1 .. n
      PROVE  /\ s[i] \in Seq(S)
             /\ all[i] \in ids => Len(s[i]) = 1 /\ s[i][1] = all[i]
             /\ all[i] \notin ids => Len(s[i]) = 0
  <2>1. PICK a \in S : a = all[i] BY <1>1
  <2>2. <<a>> \in Seq(S) /\ Len(<<a>>) = 1 /\ <<a>>[1] = a OBVIOUS
  <2>3. <<>> \in Seq(S) /\ Len(<<>>) = 0 OBVIOUS
  <2>4. s[i] = IF a \in ids THEN <<a>> ELSE <<>> BY <1>1, <1>2, <2>1 DEF Hits
  <2> QED BY <2>1, <2>2, <2>3, <2>4
<1>4. s \in Seq(Seq(S)) /\ Len(s) = n
  <2>1. s \in [1 .. n -> Seq(S)] BY <1>1, <1>2, <1>3 DEF Hits
  <2> QED BY <1>1, <2>1
<1>5. PICK t : t = FlattenSeq(s) OBVIOUS
<1>6. t \in Seq(S) /\ \E off : Offsets(s, off) /\ Laid(s, off, Len(s), t)
  BY <1>4, <1>5, FlattenPositions
<1>7. PICK off : Offsets(s, off) /\ Laid(s, off, n, t) BY <1>4, <1>6
<1>8. /\ off \in [0 .. n -> Nat] /\ off[0] = 0
      /\ \A p \in 1 .. n : off[p] = off[p - 1] + Len(s[p])
  BY <1>4, <1>7 DEF Offsets
<1>9. /\ Len(t) = off[n]
      /\ \A p \in 1 .. n : \A k \in 1 .. Len(s[p]) :
           off[p - 1] + k \in 1 .. off[n] /\ t[off[p - 1] + k] = s[p][k]
      /\ \A i \in 1 .. off[n] : \E p \in 1 .. n : \E k \in 1 .. Len(s[p]) : i = off[p - 1] + k
  BY <1>7 DEF Laid
<1>10. ASSUME NEW p \in 1 .. n, NEW k \in 1 .. Len(s[p]) PROVE k = 1 /\ all[p] \in ids
  <2>1. CASE all[p] \in ids
    <3>1. Len(s[p]) = 1 BY <1>3, <2>1
    <3> QED BY <2>1, <3>1
  <2>2. CASE all[p] \notin ids
    <3>1. Len(s[p]) = 0 BY <1>3, <2>2
    <3> QED BY <3>1
  <2> QED BY <2>1, <2>2
<1>11. ASSUME NEW j \in 1 .. Len(t)
       PROVE  \E p \in 1 .. n : j = off[p - 1] + 1 /\ all[p] \in ids /\ t[j] = all[p]
  <2>1. j \in 1 .. off[n] BY <1>9
  <2>2. PICK p \in 1 .. n : \E k \in 1 .. Len(s[p]) : j = off[p - 1] + k BY <1>9, <2>1
  <2>3. PICK k \in 1 .. Len(s[p]) : j = off[p - 1] + k BY <2>2
  <2>4. k = 1 /\ all[p] \in ids BY <1>10
  <2>5. t[j] = s[p][1] BY <1>9, <2>3, <2>4
  <2> QED BY <1>3, <2>3, <2>4, <2>5
<1>12. PICK place : place = [j \in 1 .. Len(t) |-> CHOOSE p \in 1 .. n :
                               j = off[p - 1] + 1 /\ all[p] \in ids /\ t[j] = all[p]]
  OBVIOUS
<1>13. \A j \in 1 .. Len(t) :
         /\ place[j] \in 1 .. n /\ j = off[place[j] - 1] + 1
         /\ all[place[j]] \in ids /\ t[j] = all[place[j]]
  BY <1>11, <1>12
<1>14. place \in [1 .. Len(t) -> 1 .. n] BY <1>12, <1>13
<1>15. ASSUME NEW i \in 1 .. Len(t), NEW j \in 1 .. Len(t), i < j PROVE place[i] < place[j]
  <2> SUFFICES ASSUME ~(place[i] < place[j]) PROVE FALSE OBVIOUS
  <2>1. PICK p \in 1 .. n : p = place[i] BY <1>13
  <2>2. PICK q \in 1 .. n : q = place[j] BY <1>13
  <2>3. q - 1 \in 0 .. p - 1 /\ p - 1 \in 0 .. n /\ q - 1 \in 0 .. n BY <1>1, <2>1, <2>2
  <2>4. off[q - 1] <= off[p - 1] BY <1>4, <1>7, <2>3, OffsetsGrow
  <2>5. i = off[p - 1] + 1 /\ j = off[q - 1] + 1 BY <1>13, <2>1, <2>2
  <2>6. off[q - 1] \in Nat /\ off[p - 1] \in Nat BY <1>8, <2>3
  <2> QED BY <1>15, <2>4, <2>5, <2>6
<1>16. ASSUME NEW i \in 1 .. n, all[i] \in ids PROVE \E j \in 1 .. Len(t) : place[j] = i
  <2>1. 1 \in 1 .. Len(s[i]) BY <1>3, <1>16
  <2>2. PICK j : j = off[i - 1] + 1 OBVIOUS
  <2>3. j \in 1 .. off[n] BY <1>9, <2>1, <2>2
  <2>4. j \in 1 .. Len(t) BY <1>9, <2>3
  <2>5. PICK q \in 1 .. n : q = place[j] BY <1>13, <2>4
  <2>6. j = off[q - 1] + 1 /\ all[q] \in ids BY <1>13, <2>4, <2>5
  <2>7. 1 \in 1 .. Len(s[q]) BY <1>3, <2>6
  <2>8. i = q BY <1>4, <1>7, <2>1, <2>2, <2>6, <2>7, OnePlace
  <2> QED BY <2>4, <2>5, <2>8
<1>17. PlacesOf(t, all, ids, place) BY <1>13, <1>14, <1>15, <1>16 DEF PlacesOf
<1>18. Len(t) <= n
  <2> DEFINE G == {m \in 0 .. n : off[m] <= m}
  <2>1. 0 \in G BY <1>1, <1>8
  <2>2. ASSUME NEW i \in 1 .. n, i - 1 \in G PROVE i \in G
    <3>1. i - 1 \in 0 .. n /\ i \in 0 .. n /\ off[i - 1] \in Nat BY <1>1, <1>8
    <3>2. off[i] = off[i - 1] + Len(s[i]) BY <1>8
    <3>3. Len(s[i]) \in {0, 1} BY <1>3
    <3>4. off[i - 1] <= i - 1 BY <2>2
    <3>5. i \in Nat BY <1>1
    <3>6. \A a \in Nat, b \in {0, 1} : a <= i - 1 => a + b <= i BY <3>5
    <3>7. off[i - 1] + Len(s[i]) <= i BY <3>1, <3>3, <3>4, <3>6
    <3> QED BY <3>1, <3>2, <3>7
  <2> HIDE DEF G, n
  <2>3. 0 .. n \subseteq G BY <1>1, <2>1, <2>2, UpTo
  <2>4. n \in G BY <1>1, <2>3
  <2> QED BY <1>9, <2>4 DEF G
<1> QED BY <1>2, <1>5, <1>6, <1>17, <1>18

-----------------------------------------------------------------------------
(* Values made step by step, and parts in a row. *)

\* Made step by step from a first value.
MadeBy(f, first, n, step) == f[0] = first /\ \A i \in 1 .. n : f[i] = step[i][f[i - 1]]

\* What is made step by step from a first value exists.
LEMMA Iterates ==
  ASSUME NEW V, NEW first \in V, NEW n \in Nat, NEW step \in [1 .. n -> [V -> V]]
  PROVE  \E f \in [0 .. n -> V] : MadeBy(f, first, n, step)
<1> DEFINE P(m, f) == f[0] = first /\ \A i \in 1 .. m : f[i] = step[i][f[i - 1]]
           G == {m \in 0 .. n : \E f \in [0 .. m -> V] : P(m, f)}
<1>1. 0 \in G
  <2>1. [k \in 0 .. 0 |-> first] \in [0 .. 0 -> V] OBVIOUS
  <2>2. P(0, [k \in 0 .. 0 |-> first]) OBVIOUS
  <2>3. \E f \in [0 .. 0 -> V] : P(0, f) BY <2>1, <2>2
  <2> HIDE DEF P
  <2> QED BY <2>3
<1>2. ASSUME NEW i \in 1 .. n, i - 1 \in G PROVE i \in G
  <2>1. PICK f \in [0 .. i - 1 -> V] : P(i - 1, f) BY <1>2
  <2>2. i - 1 \in 0 .. i - 1 /\ i \in Nat /\ 0 \in 0 .. i - 1 /\ i \in 0 .. n OBVIOUS
  <2>3. PICK v \in V : v = step[i][f[i - 1]] BY <2>1, <2>2
  <2> DEFINE h == [k \in 0 .. i |-> IF k = i THEN v ELSE f[k]]
  <2>4. h \in [0 .. i -> V] BY <2>1, <2>2, <2>3
  <2>5. h[0] = first BY <2>1, <2>2
  <2>6. ASSUME NEW k \in 1 .. i PROVE h[k] = step[k][h[k - 1]]
    <3>1. CASE k = i
      <4>1. i \in 0 .. i /\ i - 1 \in 0 .. i /\ i - 1 # i BY <2>2
      <4>2. h[i] = v /\ h[i - 1] = f[i - 1] BY <4>1
      <4> QED BY <2>3, <3>1, <4>2
    <3>2. CASE k # i
      <4>1. k \in 0 .. i /\ k - 1 \in 0 .. i /\ k - 1 # i /\ k \in 1 .. i - 1 BY <2>2, <3>2
      <4>2. h[k] = f[k] /\ h[k - 1] = f[k - 1] BY <3>2, <4>1
      <4> QED BY <2>1, <4>1, <4>2
    <3> QED BY <3>1, <3>2
  <2>7. P(i, h) BY <2>5, <2>6
  <2> HIDE DEF h, P
  <2> QED BY <2>2, <2>4, <2>7
<1> HIDE DEF G
<1>3. 0 .. n \subseteq G BY <1>1, <1>2, UpTo
<1>4. n \in G BY <1>3
<1> QED BY <1>4 DEF G, MadeBy

\* A sequence is another's stretch from one place to a second.
TakesUp(S, g, f, x, y) == g \in Seq(S) /\ Len(g) = y - x /\ \A k \in 1 .. Len(g) : g[k] = f[x + k]

\* Parts in a row, after the first b.
InARow(t, s, b) == b + Len(t) <= Len(s) /\ \A p \in 1 .. Len(t) : t[p] = s[b + p]

\* The flattening of some parts in a row is the stretch of the whole that they take.
LEMMA StretchOfFlattening ==
  ASSUME NEW S, NEW s \in Seq(Seq(S)), NEW off, NEW f, Offsets(s, off), Laid(s, off, Len(s), f),
         NEW b \in Nat, NEW t \in Seq(Seq(S)), InARow(t, s, b)
  PROVE  TakesUp(S, FlattenSeq(t), f, off[b], off[b + Len(t)])
<1>1. PICK n \in Nat, m \in Nat : /\ n = Len(s) /\ m = Len(t) /\ b + m <= n
                                  /\ \A p \in 1 .. m : t[p] = s[b + p]
  BY DEF InARow
<1>2. PICK g \in Seq(S) : g = FlattenSeq(t) BY FlattenPositions
<1>3. PICK oft : Offsets(t, oft) /\ Laid(t, oft, m, g) BY <1>1, <1>2, FlattenPositions
<1>4. /\ off \in [0 .. n -> Nat] /\ \A p \in 1 .. n : off[p] = off[p - 1] + Len(s[p])
      /\ oft \in [0 .. m -> Nat] /\ oft[0] = 0 /\ \A p \in 1 .. m : oft[p] = oft[p - 1] + Len(t[p])
  BY <1>1, <1>3 DEF Offsets
<1>5. ASSUME NEW p \in 1 .. m
      PROVE  /\ p \in Nat /\ p - 1 \in 0 .. m /\ p \in 0 .. m
             /\ b + p \in 1 .. n /\ b + p \in 0 .. n /\ b + (p - 1) \in 0 .. n /\ b + (p - 1) = (b + p) - 1
             /\ t[p] = s[b + p] /\ Len(t[p]) \in Nat
  <2>0. p \in Nat /\ 1 <= p /\ p <= m BY <1>1
  <2>1. /\ p \in Nat /\ p - 1 \in 0 .. m /\ p \in 0 .. m
        /\ b + p \in 1 .. n /\ b + p \in 0 .. n /\ b + (p - 1) \in 0 .. n /\ b + (p - 1) = (b + p) - 1
    BY <1>1, <2>0
  <2>2. t[p] \in Seq(S) BY <1>1, ElementOfSeq
  <2> QED BY <1>1, <2>1, <2>2, LenProperties
<1>6. b \in 0 .. n /\ off[b] \in Nat
  <2>1. b \in 0 .. n BY <1>1
  <2> QED BY <1>4, <2>1
<1> DEFINE G == {p \in 0 .. m : off[b + p] = off[b] + oft[p]}
<1>7. 0 \in G
  <2>1. b + 0 = b /\ 0 \in 0 .. m BY <1>1
  <2> QED BY <1>4, <1>6, <2>1
<1>8. ASSUME NEW p \in 1 .. m, p - 1 \in G PROVE p \in G
  <2>0. off[b + (p - 1)] \in Nat /\ oft[p - 1] \in Nat /\ Len(t[p]) \in Nat BY <1>4, <1>5
  <2>1. PICK x \in Nat, y \in Nat, z \in Nat : x = off[b + (p - 1)] /\ y = oft[p - 1] /\ z = Len(t[p])
    BY <2>0
  <2>2. x = off[b] + y BY <1>8, <2>1
  <2>3. off[b + p] = x + z BY <1>4, <1>5, <2>1
  <2>4. oft[p] = y + z BY <1>4, <2>1
  <2> QED BY <1>5, <1>6, <2>2, <2>3, <2>4
<1> HIDE DEF G
<1>9. 0 .. m \subseteq G BY <1>7, <1>8, UpTo
<1>10. \A p \in 0 .. m : off[b + p] = off[b] + oft[p] BY <1>9 DEF G
<1>11. Len(g) = oft[m] /\ oft[m] \in Nat /\ off[b + m] = off[b] + oft[m]
  <2>1. m \in 0 .. m BY <1>1
  <2> QED BY <1>3, <1>4, <1>10, <2>1 DEF Laid
<1>12. ASSUME NEW k \in 1 .. oft[m] PROVE g[k] = f[off[b] + k]
  <2>1. PICK p \in 1 .. m : \E j \in 1 .. Len(t[p]) : k = oft[p - 1] + j BY <1>3 DEF Laid
  <2>2. PICK j \in 1 .. Len(t[p]) : k = oft[p - 1] + j BY <2>1
  <2>3. g[k] = t[p][j] BY <1>3, <2>2 DEF Laid
  <2>4. b + p \in 1 .. Len(s) /\ j \in 1 .. Len(s[b + p]) BY <1>1, <1>5, <2>2
  <2>5. f[off[(b + p) - 1] + j] = s[b + p][j] BY <2>4 DEF Laid
  <2>6. off[(b + p) - 1] + j = off[b] + k
    <3>1. off[b + (p - 1)] = off[b] + oft[p - 1] BY <1>5, <1>10
    <3>2. PICK y \in Nat : y = oft[p - 1] BY <1>4, <1>5
    <3>3. j \in Nat BY <1>5, <2>2
    <3>4. off[(b + p) - 1] = off[b] + y BY <1>5, <3>1, <3>2
    <3>5. k = y + j BY <2>2, <3>2
    <3> QED BY <1>6, <3>2, <3>3, <3>4, <3>5
  <2> QED BY <1>5, <2>3, <2>5, <2>6
<1> QED BY <1>1, <1>2, <1>6, <1>11, <1>12 DEF TakesUp

\* Of none or one part the flattening is nothing or the part.
LEMMA FlattenFew ==
  ASSUME NEW S, NEW t \in Seq(Seq(S)), Len(t) <= 1
  PROVE  FlattenSeq(t) = IF Len(t) = 0 THEN <<>> ELSE t[1]
<1>1. PICK f \in Seq(S) : f = FlattenSeq(t) BY FlattenPositions
<1>2. PICK off : Offsets(t, off) /\ Laid(t, off, Len(t), f) BY <1>1, FlattenPositions
<1>3. Len(t) \in Nat OBVIOUS
<1>4. CASE Len(t) = 0
  <2>1. Len(f) = off[0] /\ off[0] = 0 BY <1>2, <1>4 DEF Laid, Offsets
  <2> QED BY <1>1, <1>4, <2>1, EmptySeq
<1>5. CASE Len(t) = 1
  <2>0. t[1] \in Seq(S)
    <3>1. 1 \in 1 .. Len(t) BY <1>5
    <3> QED BY <3>1, ElementOfSeq
  <2>1. PICK x \in Seq(S) : x = t[1] BY <2>0
  <2>2. 1 \in 1 .. 1 /\ 1 - 1 = 0 OBVIOUS
  <2>3. off[0] = 0 /\ off[1] = off[0] + Len(x) BY <1>2, <1>5, <2>1, <2>2 DEF Offsets
  <2>4. PICK m \in Nat : m = Len(x) BY <2>1
  <2>5. Len(f) = m BY <1>2, <1>5, <2>3, <2>4 DEF Laid
  <2>6. ASSUME NEW k \in 1 .. m PROVE f[k] = x[k]
    <3>1. 0 + k = k BY <2>4
    <3>2. f[off[1 - 1] + k] = t[1][k] BY <1>2, <1>5, <2>1, <2>2, <2>4 DEF Laid
    <3> QED BY <2>1, <2>2, <2>3, <3>1, <3>2
  <2>7. f = x BY <2>4, <2>5, <2>6, SeqEqual
  <2> QED BY <1>1, <1>5, <2>1, <2>7
<1>6. Len(t) = 0 \/ Len(t) = 1
  <2>1. PICK n \in Nat : n = Len(t) BY <1>3
  <2>2. n <= 1 BY <2>1
  <2> QED BY <2>1, <2>2
<1> QED BY <1>4, <1>5, <1>6

=============================================================================
