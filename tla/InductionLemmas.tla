----------------------------- MODULE InductionLemmas -----------------------------
(***************************************************************************)
(* Induction over numbers and sequences, with sets in the place of         *)
(* predicates, and what it says of the concatenation of a list of lists.   *)
(***************************************************************************)
EXTENDS Integers, SequencesExt, SequenceTheorems, WellFoundedInduction, TLAPS

LEMMA Least ==
  ASSUME NEW T, T \subseteq Nat, T # {}
  PROVE  \E m \in T : \A k \in T : m <= k
<1> DEFINE R == OpToRel(<, Nat)
<1>1. IsWellFoundedOn(R, Nat) BY NatLessThanWellFounded
<1>2. R = {p \in Nat \X Nat : p[1] < p[2]} BY DEF OpToRel
<1>3. \A x, y \in Nat : <<x, y>> \in R <=> x < y BY <1>2
<1> HIDE DEF R
<1>4. PICK x \in T : \A y \in T : ~ (<<y, x>> \in R) BY <1>1, WFMin
<1>5. \A y \in T : ~ (y < x) BY <1>3, <1>4
<1> QED BY <1>5

LEMMA Greatest ==
  ASSUME NEW T, NEW n \in Nat, T \subseteq 0 .. n, T # {}
  PROVE  \E m \in T : \A k \in T : k <= m
<1> DEFINE U == {n - k : k \in T}
<1>1. \A k \in T : n - k \in Nat OBVIOUS
<1>2. U \subseteq Nat BY <1>1
<1>3. U # {} OBVIOUS
<1> HIDE DEF U
<1>4. PICK u \in U : \A k \in U : u <= k BY <1>2, <1>3, Least
<1>5. PICK m \in T : u = n - m BY <1>4 DEF U
<1>6. \A k \in T : u <= n - k BY <1>4 DEF U
<1>7. \A k \in T : k \in Nat /\ k <= m BY <1>5, <1>6
<1> QED BY <1>7

LEMMA SetInduction ==
  ASSUME NEW T, 0 \in T, \A k \in Nat : k \in T => k + 1 \in T
  PROVE  Nat \subseteq T
<1> DEFINE B == Nat \ T
<1> SUFFICES ASSUME B # {} PROVE FALSE OBVIOUS
<1>1. PICK m \in B : \A k \in B : m <= k BY Least
<1>2. m # 0 /\ m \in Nat BY <1>1
<1>3. m - 1 \in Nat /\ m - 1 < m /\ m - 1 + 1 = m BY <1>2
<1>4. m - 1 \in T BY <1>1, <1>3
<1> QED BY <1>1, <1>3, <1>4

\* A set that has the empty sequence, and with a sequence every longer one,
\* has all sequences.
LEMMA SequencesFrom ==
  ASSUME NEW T, NEW S, <<>> \in S,
         \A s \in Seq(T) \cap S, x \in T : Append(s, x) \in S
  PROVE  Seq(T) \subseteq S
<1> DEFINE Good == {n \in Nat : \A s \in Seq(T) : Len(s) = n => s \in S}
<1>1. 0 \in Good OBVIOUS
<1>2. ASSUME NEW n \in Good \cap Nat PROVE n + 1 \in Good
  <2> SUFFICES ASSUME NEW s \in Seq(T), Len(s) = n + 1 PROVE s \in S OBVIOUS
  <2>1. s # <<>> OBVIOUS
  <2>2. PICK u \in Seq(T), x \in T : s = Append(u, x)
    BY <2>1, SequenceEmptyOrAppend
  <2>3. Len(u) = n BY <2>2
  <2>4. u \in S BY <2>3
  <2> QED BY <2>2, <2>4
<1> HIDE DEF Good
<1>3. Nat \subseteq Good BY <1>1, <1>2, SetInduction
<1> QED BY <1>3 DEF Good

-----------------------------------------------------------------------------
(* Lists of lists.                                                         *)

\* The concatenations of the first lists.
IsFlattening(f, ss) ==
  f = [i \in 1 .. Len(ss) |-> IF i = 1 THEN ss[i] ELSE f[i - 1] \o ss[i]]

LEMMA FlatteningExists ==
  ASSUME NEW T, NEW ss \in Seq(Seq(T))
  PROVE  \E f : IsFlattening(f, ss)
<1> DEFINE Upto(f, n) ==
             f = [i \in 1 .. n |-> IF i = 1 THEN ss[i] ELSE f[i - 1] \o ss[i]]
           Good == {n \in Nat : \E f : Upto(f, n)}
<1>1. 0 \in Good
  <2>1. Upto([i \in 1 .. 0 |-> <<>>], 0) OBVIOUS
  <2> QED BY <2>1
<1>2. ASSUME NEW n \in Good \cap Nat PROVE n + 1 \in Good
  <2>1. PICK f : Upto(f, n) OBVIOUS
  <2> DEFINE g == [i \in 1 .. n + 1 |->
                    IF i = 1 THEN ss[i] ELSE f[i - 1] \o ss[i]]
  <2>2. \A i \in 1 .. n : f[i] = IF i = 1 THEN ss[i] ELSE f[i - 1] \o ss[i]
    BY <2>1
  <2>3. \A i \in 1 .. n : g[i] = f[i] BY <2>2
  <2>4. \A i \in 1 .. n + 1 : i # 1 => i - 1 \in 1 .. n OBVIOUS
  <2>5. Upto(g, n + 1) BY <2>3, <2>4
  <2> HIDE DEF Upto, g
  <2> QED BY <2>5
<1>3. Nat \subseteq Good
  <2> HIDE DEF Good
  <2> QED BY <1>1, <1>2, SetInduction
<1>4. Len(ss) \in Nat OBVIOUS
<1>5. PICK f : Upto(f, Len(ss)) BY <1>3, <1>4
<1> QED BY <1>5 DEF IsFlattening

LEMMA FlatteningIs ==
  ASSUME NEW T, NEW ss \in Seq(Seq(T)), ss # <<>>
  PROVE  \E f : /\ IsFlattening(f, ss)
                /\ FlattenSeq(ss) = f[Len(ss)]
<1> DEFINE f == CHOOSE f : IsFlattening(f, ss)
<1>1. IsFlattening(f, ss) BY FlatteningExists
<1>2. Len(ss) # 0 BY EmptySeq
<1>3. FlattenSeq(ss) = f[Len(ss)] BY <1>2 DEF FlattenSeq, IsFlattening
<1> QED BY <1>1, <1>3

LEMMA FlattenEmpty == FlattenSeq(<<>>) = <<>>
BY DEF FlattenSeq

LEMMA FlattenAppend ==
  ASSUME NEW T, NEW ss \in Seq(Seq(T)), NEW s \in Seq(T)
  PROVE  /\ FlattenSeq(ss) \in Seq(T)
         /\ FlattenSeq(Append(ss, s)) = FlattenSeq(ss) \o s
<1> DEFINE tt == Append(ss, s)
           n == Len(ss)
<1>1. /\ n \in Nat /\ tt \in Seq(Seq(T)) /\ Len(tt) = n + 1 /\ tt # <<>>
      /\ tt[n + 1] = s
      /\ \A i \in 1 .. n : tt[i] = ss[i]
  BY AppendProperties
<1>2. PICK g : IsFlattening(g, tt) /\ FlattenSeq(tt) = g[n + 1]
  <2> HIDE DEF tt, n
  <2> QED BY <1>1, FlatteningIs
<1>3. \A i \in 1 .. n + 1 : g[i] = IF i = 1 THEN tt[i] ELSE g[i - 1] \o tt[i]
  BY <1>1, <1>2 DEF IsFlattening
<1>4. CASE n = 0
  <2>1. ss = <<>> BY <1>4, EmptySeq
  <2>2. g[1] = s BY <1>1, <1>3, <1>4
  <2>3. FlattenSeq(ss) = <<>> BY <2>1, FlattenEmpty
  <2> QED BY <1>2, <1>4, <2>2, <2>3, ConcatEmptySeq
<1>5. CASE n # 0
  <2>1. ss # <<>> BY <1>5
  <2>2. PICK f : IsFlattening(f, ss) /\ FlattenSeq(ss) = f[n]
    BY <2>1, FlatteningIs
  <2>3. \A i \in 1 .. n : f[i] = IF i = 1 THEN ss[i] ELSE f[i - 1] \o ss[i]
    BY <2>2 DEF IsFlattening
  <2> DEFINE Same == {i \in Nat : i \in 1 .. n => f[i] = g[i] /\ f[i] \in Seq(T)}
  <2>4. 0 \in Same OBVIOUS
  <2>5. ASSUME NEW i \in Nat, i \in Same PROVE i + 1 \in Same
    <3> SUFFICES ASSUME i + 1 \in 1 .. n
                 PROVE  f[i + 1] = g[i + 1] /\ f[i + 1] \in Seq(T)
      OBVIOUS
    <3>1. ss[i + 1] \in Seq(T) /\ tt[i + 1] = ss[i + 1] BY <1>1
    <3>2. CASE i = 0
      <4>1. f[i + 1] = ss[i + 1] /\ g[i + 1] = tt[i + 1] BY <1>1, <1>3, <2>3, <3>2
      <4> QED BY <3>1, <4>1
    <3>3. CASE i # 0
      <4>1. i \in 1 .. n /\ i + 1 # 1 /\ (i + 1) - 1 = i /\ i + 1 \in 1 .. n + 1
        BY <1>1, <3>3
      <4>2. f[i + 1] = f[i] \o ss[i + 1] /\ g[i + 1] = g[i] \o tt[i + 1]
        BY <1>3, <2>3, <4>1
      <4>3. f[i] = g[i] /\ f[i] \in Seq(T) BY <2>5, <4>1
      <4> QED BY <3>1, <4>2, <4>3, ConcatProperties
    <3> QED BY <3>2, <3>3
  <2> HIDE DEF Same
  <2>6. n \in Same BY <1>1, <2>4, <2>5, SetInduction
  <2>7. f[n] = g[n] /\ f[n] \in Seq(T) BY <1>1, <1>5, <2>6 DEF Same
  <2>8. g[n + 1] = g[n] \o s
    <3>1. n + 1 \in 1 .. n + 1 /\ n + 1 # 1 /\ (n + 1) - 1 = n BY <1>1, <1>5
    <3> QED BY <1>1, <1>3, <3>1
  <2> QED BY <1>2, <2>2, <2>7, <2>8
<1> QED BY <1>4, <1>5

LEMMA ListsAssociate ==
  ASSUME NEW T, NEW s \in Seq(T), NEW t \in Seq(T), NEW u \in Seq(T)
  PROVE  (s \o t) \o u = s \o (t \o u)
BY ConcatAssociative

LEMMA AppendToConcat ==
  ASSUME NEW T, NEW s \in Seq(T), NEW t \in Seq(T), NEW x \in T
  PROVE  s \o Append(t, x) = Append(s \o t, x)
<1>1. s \o t \in Seq(T) BY ConcatProperties
<1>2. Append(t, x) = t \o <<x>> /\ Append(s \o t, x) = (s \o t) \o <<x>>
  BY <1>1, AppendIsConcat
<1>3. <<x>> \in Seq(T) OBVIOUS
<1>4. (s \o t) \o <<x>> = s \o (t \o <<x>>) BY <1>3, ListsAssociate
<1> QED BY <1>2, <1>4

LEMMA FlattenConcatAppend ==
  ASSUME NEW T, NEW ss \in Seq(Seq(T)), NEW u \in Seq(Seq(T)), NEW s \in Seq(T),
         FlattenSeq(ss \o u) = FlattenSeq(ss) \o FlattenSeq(u)
  PROVE  FlattenSeq(ss \o Append(u, s)) = FlattenSeq(ss) \o FlattenSeq(Append(u, s))
<1>1. ss \o u \in Seq(Seq(T)) BY ConcatProperties
<1>2. ss \o Append(u, s) = Append(ss \o u, s) BY AppendToConcat
<1>3. FlattenSeq(Append(ss \o u, s)) = FlattenSeq(ss \o u) \o s
  BY <1>1, FlattenAppend
<1>4. FlattenSeq(Append(u, s)) = FlattenSeq(u) \o s BY FlattenAppend
<1>5. FlattenSeq(ss) \in Seq(T) /\ FlattenSeq(u) \in Seq(T) BY FlattenAppend
<1>6. (FlattenSeq(ss) \o FlattenSeq(u)) \o s = FlattenSeq(ss) \o (FlattenSeq(u) \o s)
  BY <1>5, ListsAssociate
<1> QED BY <1>2, <1>3, <1>4, <1>6

LEMMA FlattenConcat ==
  ASSUME NEW T, NEW ss \in Seq(Seq(T)), NEW tt \in Seq(Seq(T))
  PROVE  FlattenSeq(ss \o tt) = FlattenSeq(ss) \o FlattenSeq(tt)
<1> DEFINE S == {u \in Seq(Seq(T)) :
                   FlattenSeq(ss \o u) = FlattenSeq(ss) \o FlattenSeq(u)}
<1>1. <<>> \in S
  <2>1. ss \o <<>> = ss BY ConcatEmptySeq
  <2>2. FlattenSeq(ss) \in Seq(T) BY FlattenAppend, EmptySeq
  <2>3. FlattenSeq(ss) \o <<>> = FlattenSeq(ss) BY <2>2, ConcatEmptySeq
  <2>4. <<>> \in Seq(Seq(T)) OBVIOUS
  <2>5. FlattenSeq(ss \o <<>>) = FlattenSeq(ss) \o FlattenSeq(<<>>)
    BY <2>1, <2>3, FlattenEmpty
  <2> QED BY <2>4, <2>5
<1>2. ASSUME NEW u \in Seq(Seq(T)) \cap S, NEW s \in Seq(T)
      PROVE  Append(u, s) \in S
  <2>1. FlattenSeq(ss \o Append(u, s)) = FlattenSeq(ss) \o FlattenSeq(Append(u, s))
    BY FlattenConcatAppend
  <2>2. Append(u, s) \in Seq(Seq(T)) BY AppendProperties
  <2> QED BY <2>1, <2>2
<1> HIDE DEF S
<1>3. tt \in S BY <1>1, <1>2, SequencesFrom
<1> QED BY <1>3 DEF S

LEMMA FlattenThree ==
  ASSUME NEW T, NEW s \in Seq(T), NEW t \in Seq(T), NEW u \in Seq(T),
         NEW ss, ss = <<s, t, u>>
  PROVE  FlattenSeq(ss) = (s \o t) \o u
<1>1. FlattenSeq(<<s>>) = s
  <2>1. <<s>> = Append(<<>>, s) /\ <<>> \in Seq(Seq(T)) OBVIOUS
  <2>2. FlattenSeq(<<s>>) = <<>> \o s BY <2>1, FlattenAppend, FlattenEmpty
  <2> QED BY <2>2, ConcatEmptySeq
<1>2. FlattenSeq(<<s, t>>) = s \o t
  <2>1. <<s, t>> = Append(<<s>>, t) /\ <<s>> \in Seq(Seq(T)) OBVIOUS
  <2> QED BY <1>1, <2>1, FlattenAppend
<1>3. <<s, t, u>> = Append(<<s, t>>, u) /\ <<s, t>> \in Seq(Seq(T)) OBVIOUS
<1> QED BY <1>2, <1>3, FlattenAppend

LEMMA ConcatElements ==
  ASSUME NEW T, NEW s \in Seq(T), NEW t \in Seq(T)
  PROVE  ToSet(s \o t) = ToSet(s) \cup ToSet(t)
<1>1. Range(s \o t) = Range(s) \cup Range(t) BY RangeConcatenation
<1> QED BY <1>1 DEF Range, ToSet

\* What the lists have, the concatenation has.
LEMMA FlattenElements ==
  ASSUME NEW T, NEW ss \in Seq(Seq(T)), NEW x
  PROVE  x \in ToSet(FlattenSeq(ss)) <=> \E i \in DOMAIN ss : x \in ToSet(ss[i])
<1> DEFINE Has(u) == x \in ToSet(FlattenSeq(u)) <=> \E i \in DOMAIN u : x \in ToSet(u[i])
           S == {u \in Seq(Seq(T)) : Has(u)}
<1>1. <<>> \in S
  <2>1. <<>> \in Seq(Seq(T)) OBVIOUS
  <2>2. Has(<<>>) BY FlattenEmpty DEF ToSet
  <2> HIDE DEF Has
  <2> QED BY <2>1, <2>2
<1>2. ASSUME NEW u \in Seq(Seq(T)) \cap S, NEW s \in Seq(T)
      PROVE  Append(u, s) \in S
  <2> DEFINE w == Append(u, s)
  <2>1. FlattenSeq(u) \in Seq(T) /\ FlattenSeq(w) = FlattenSeq(u) \o s
    BY FlattenAppend
  <2>2. ToSet(FlattenSeq(w)) = ToSet(FlattenSeq(u)) \cup ToSet(s)
    <3>1. \A a, b \in Seq(T) : ToSet(a \o b) = ToSet(a) \cup ToSet(b)
      BY ConcatElements
    <3> HIDE DEF S, w
    <3> QED BY <2>1, <3>1
  <2>3. /\ w \in Seq(Seq(T))
        /\ DOMAIN w = DOMAIN u \cup {Len(u) + 1}
        /\ \A i \in DOMAIN u : w[i] = u[i]
        /\ w[Len(u) + 1] = s
    BY AppendProperties
  <2>4. Has(u) OBVIOUS
  <2> HIDE DEF S, w
  <2>5. Has(w) BY <2>2, <2>3, <2>4
  <2> HIDE DEF Has
  <2> QED BY <2>3, <2>5 DEF S, w
<1>3. ss \in S
  <2> HIDE DEF S
  <2> QED BY <1>1, <1>2, SequencesFrom
<1> HIDE DEF Has
<1>4. Has(ss) BY <1>3
<1> QED BY <1>4 DEF Has

LEMMA AppendElements ==
  ASSUME NEW T, NEW s \in Seq(T), NEW x \in T
  PROVE  ToSet(Append(s, x)) = ToSet(s) \cup {x}
<1>1. /\ DOMAIN Append(s, x) = DOMAIN s \cup {Len(s) + 1}
      /\ \A i \in DOMAIN s : Append(s, x)[i] = s[i]
      /\ Append(s, x)[Len(s) + 1] = x
  BY AppendProperties
<1> QED BY <1>1 DEF ToSet

=============================================================================
