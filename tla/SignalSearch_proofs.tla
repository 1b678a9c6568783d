-------------------------- MODULE SignalSearch_proofs --------------------------
(***************************************************************************)
(* Proofs about SignalSearch, for any signals, sizes of the steps and of   *)
(* the batches, resolutions of the spectra, and limits of the sequences.   *)
(***************************************************************************)
EXTENDS SignalSearch, FiniteSetTheorems, InductionLemmas

-----------------------------------------------------------------------------
(* Smallest and largest elements.                                          *)

LEMMA SmallestIsLeast ==
  ASSUME NEW T, T \subseteq Nat, T # {}
  PROVE  Smallest(T) \in T /\ \A k \in T : Smallest(T) <= k
BY Least DEF Smallest

LEMMA LargestIsGreatest ==
  ASSUME NEW T, NEW n \in Nat, T \subseteq 0 .. n, T # {}
  PROVE  Largest(T) \in T /\ \A k \in T : k <= Largest(T)
BY Greatest DEF Largest

LEMMA SmallestIs ==
  ASSUME NEW T, T \subseteq Nat, NEW a \in T, \A k \in T : a <= k
  PROVE  Smallest(T) = a
<1> DEFINE b == Smallest(T)
<1>1. b \in T /\ \A k \in T : b <= k BY SmallestIsLeast
<1> HIDE DEF b
<1>2. a \in Nat /\ b \in Nat /\ a <= b /\ b <= a BY <1>1
<1>3. a = b BY <1>2
<1> QED BY <1>3 DEF b

LEMMA LargestIs ==
  ASSUME NEW T, T \subseteq Nat, NEW a \in T, \A k \in T : k <= a
  PROVE  Largest(T) = a
<1> DEFINE b == Largest(T)
<1>1. a \in Nat /\ T \subseteq 0 .. a OBVIOUS
<1>2. b \in T /\ \A k \in T : k <= b BY <1>1, LargestIsGreatest
<1> HIDE DEF b
<1>3. b \in Nat /\ a <= b /\ b <= a BY <1>2
<1>4. a = b BY <1>1, <1>3
<1> QED BY <1>4 DEF b

-----------------------------------------------------------------------------
(* Tones sorted by their starts.                                           *)

\* Every tone of a set has its own start.
HaveStarts(S) ==
  /\ IsFiniteSet(S)
  /\ \A x \in S : x.start \in Nat
  /\ \A x, y \in S : x.start = y.start => x = y

Earlier(x, S) == {y \in S : y.start < x.start}
Rank(x, S) == Cardinality(Earlier(x, S))

LEMMA EarlierIsLess ==
  ASSUME NEW S, HaveStarts(S), NEW x \in S
  PROVE  /\ Rank(x, S) \in 0 .. Cardinality(S) - 1
         /\ \A y \in S : x.start < y.start => Rank(x, S) < Rank(y, S)
<1>1. IsFiniteSet(S) /\ Cardinality(S) \in Nat BY FS_CardinalityType DEF HaveStarts
<1>2. \A z \in S : /\ IsFiniteSet(Earlier(z, S)) /\ Rank(z, S) \in Nat
                   /\ Rank(z, S) <= Cardinality(S)
  <2> TAKE z \in S
  <2>1. Earlier(z, S) \in SUBSET S BY DEF Earlier
  <2> QED BY <1>1, <2>1, FS_Subset, FS_CardinalityType DEF Rank
<1>3. x \notin Earlier(x, S) BY DEF Earlier, HaveStarts
<1>4. Earlier(x, S) \in SUBSET S /\ Earlier(x, S) # S BY <1>3 DEF Earlier
<1>5. Rank(x, S) # Cardinality(S) BY <1>1, <1>4, FS_Subset DEF Rank
<1>6. ASSUME NEW y \in S, x.start < y.start
      PROVE  Rank(x, S) < Rank(y, S)
  <2>1. Earlier(x, S) \in SUBSET Earlier(y, S) BY <1>6 DEF Earlier, HaveStarts
  <2>2. x \in Earlier(y, S) BY <1>6 DEF Earlier
  <2>3. Earlier(x, S) # Earlier(y, S) BY <1>3, <2>2
  <2>4. Rank(x, S) <= Rank(y, S) /\ Rank(x, S) # Rank(y, S)
    BY <1>2, <2>1, <2>3, FS_Subset DEF Rank
  <2> QED BY <1>2, <2>4
<1> QED BY <1>1, <1>2, <1>5, <1>6

\* Each place in the order is that of one tone.
LEMMA RankIsPlace ==
  ASSUME NEW S, HaveStarts(S), NEW i \in 1 .. Cardinality(S)
  PROVE  \E x \in S : Rank(x, S) = i - 1
<1> DEFINE n == Cardinality(S)
           places == 0 .. n - 1
           f == [x \in S |-> Rank(x, S)]
<1>1. n \in Nat BY FS_CardinalityType DEF HaveStarts
<1>2. f \in [S -> places] BY EarlierIsLess
<1>3. \A x, y \in S : f[x] = f[y] => x = y
  <2> SUFFICES ASSUME NEW x \in S, NEW y \in S, Rank(x, S) = Rank(y, S) PROVE x = y
    OBVIOUS
  <2>1. x.start \in Nat /\ y.start \in Nat BY DEF HaveStarts
  <2>2. Rank(x, S) \in Nat /\ Rank(y, S) \in Nat BY EarlierIsLess
  <2>3. ~(x.start < y.start) /\ ~(y.start < x.start) BY <2>2, EarlierIsLess
  <2> QED BY <2>1, <2>3 DEF HaveStarts
<1>4. f \in Injection(S, places) BY <1>2, <1>3 DEF Injection, IsInjective
<1>5. IsFiniteSet(places) /\ Cardinality(places) = n
  <2>1. 0 \in Int /\ n - 1 \in Int BY <1>1
  <2>2. Cardinality(places) = IF 0 > n - 1 THEN 0 ELSE (n - 1) - 0 + 1
    BY <2>1, FS_Interval
  <2> QED BY <1>1, <2>1, <2>2, FS_Interval
<1> HIDE DEF f, places
<1>6. f \in Surjection(S, places) BY <1>4, <1>5, FS_Injection
<1>7. i - 1 \in places BY <1>1 DEF places
<1> QED BY <1>6, <1>7 DEF Surjection, f

LEMMA SortedIsSorted ==
  ASSUME NEW S, HaveStarts(S)
  PROVE  /\ Sorted(S) \in Seq(S)
         /\ Len(Sorted(S)) = Cardinality(S)
         /\ Elements(Sorted(S)) = S
         /\ \A i \in 1 .. Cardinality(S) : Sorted(S)[i] \in S /\ Rank(Sorted(S)[i], S) = i - 1
         /\ \A i, k \in 1 .. Cardinality(S) : i < k => Sorted(S)[i].start < Sorted(S)[k].start
<1> DEFINE n == Cardinality(S)
           s == Sorted(S)
<1>1. n \in Nat BY FS_CardinalityType DEF HaveStarts
<1>2. s = [i \in 1 .. n |-> CHOOSE x \in S : Rank(x, S) = i - 1]
  BY DEF Sorted, Rank, Earlier
<1> HIDE DEF s, n
<1>3. \A i \in 1 .. n : s[i] \in S /\ Rank(s[i], S) = i - 1
  BY <1>2, RankIsPlace DEF n
<1>4. s \in [1 .. n -> S] BY <1>2, <1>3
<1>5. s \in Seq(S) /\ Len(s) = n BY <1>1, <1>4
<1>6. \A i, k \in 1 .. n : i < k => s[i].start < s[k].start
  <2> SUFFICES ASSUME NEW i \in 1 .. n, NEW k \in 1 .. n, i < k,
                      ~(s[i].start < s[k].start)
               PROVE  FALSE
    OBVIOUS
  <2>1. s[i] \in S /\ s[k] \in S /\ Rank(s[i], S) = i - 1 /\ Rank(s[k], S) = k - 1
    BY <1>3
  <2>2. s[i].start \in Nat /\ s[k].start \in Nat BY <2>1 DEF HaveStarts
  <2>3. s[i] # s[k] BY <2>1
  <2>4. s[k].start < s[i].start BY <2>1, <2>2, <2>3 DEF HaveStarts
  <2>5. Rank(s[k], S) < Rank(s[i], S) BY <2>1, <2>4, EarlierIsLess
  <2> QED BY <2>1, <2>5
<1>7. Elements(s) = S
  <2>1. Elements(s) \subseteq S BY <1>3, <1>4 DEF Elements
  <2>2. ASSUME NEW x \in S PROVE x \in Elements(s)
    <3> DEFINE i == Rank(x, S) + 1
    <3>1. i \in 1 .. n /\ Rank(x, S) \in Nat BY <1>1, EarlierIsLess DEF n
    <3>2. s[i] \in S /\ Rank(s[i], S) = Rank(x, S) BY <1>3, <3>1
    <3>3. s[i].start \in Nat /\ x.start \in Nat BY <3>2 DEF HaveStarts
    <3>4. ~(s[i].start < x.start) /\ ~(x.start < s[i].start)
      BY <3>1, <3>2, EarlierIsLess
    <3>5. s[i] = x BY <3>2, <3>3, <3>4 DEF HaveStarts
    <3> QED BY <1>4, <3>1, <3>5 DEF Elements
  <2> QED BY <2>1, <2>2
<1> QED BY <1>3, <1>5, <1>6, <1>7 DEF s, n

LEMMA SameRank ==
  ASSUME NEW S, HaveStarts(S), NEW x \in S, NEW y \in S, Rank(x, S) = Rank(y, S)
  PROVE  x = y
<1>1. x.start \in Nat /\ y.start \in Nat BY DEF HaveStarts
<1>2. Rank(x, S) \in Nat /\ Rank(y, S) \in Nat BY EarlierIsLess
<1>3. ~(x.start < y.start) /\ ~(y.start < x.start) BY <1>2, EarlierIsLess
<1> QED BY <1>1, <1>3 DEF HaveStarts

InOrder(w) == \A i, k \in DOMAIN w : i < k => w[i].start < w[k].start

\* The tones of a sequence that is in order, up to the i-th, are i.
LEMMA SizeOfPart ==
  ASSUME NEW T, NEW w \in Seq(T), \A x \in T : x.start \in Nat, InOrder(w),
         NEW i \in 0 .. Len(w)
  PROVE  /\ IsFiniteSet({w[k] : k \in 1 .. i})
         /\ Cardinality({w[k] : k \in 1 .. i}) = i
<1> DEFINE I == 1 .. i
           V == {w[k] : k \in I}
           f == [k \in I |-> w[k]]
<1>1. i \in Nat /\ I \subseteq DOMAIN w /\ \A k \in I : w[k].start \in Nat
  OBVIOUS
<1>2. IsFiniteSet(I) /\ Cardinality(I) = i
  <2>1. 1 \in Int /\ i \in Int BY <1>1
  <2>2. Cardinality(1 .. i) = IF 1 > i THEN 0 ELSE i - 1 + 1 BY <2>1, FS_Interval
  <2> QED BY <1>1, <2>1, <2>2, FS_Interval
<1>3. \A k, l \in I : w[k] = w[l] => k = l
  <2> SUFFICES ASSUME NEW k \in I, NEW l \in I, w[k] = w[l], k # l PROVE FALSE
    OBVIOUS
  <2>1. k \in Int /\ l \in Int BY <1>1
  <2>2. k < l \/ l < k BY <2>1
  <2> QED BY <1>1, <2>2 DEF InOrder
<1> HIDE DEF I
<1>4. f \in Bijection(I, V)
  BY <1>3 DEF Bijection, Injection, Surjection, IsInjective
<1>5. ExistsBijection(I, V) BY <1>4 DEF ExistsBijection
<1>6. IsFiniteSet(V) /\ Cardinality(V) = i BY <1>2, <1>5, FS_Bijection
<1> QED BY <1>6 DEF I

\* Sorting does nothing to a sequence that is in order.
LEMMA SortedIsUnique ==
  ASSUME NEW T, NEW w \in Seq(T), \A x \in T : x.start \in Nat, InOrder(w)
  PROVE  /\ HaveStarts(Elements(w))
         /\ Cardinality(Elements(w)) = Len(w)
         /\ Sorted(Elements(w)) = w
<1> DEFINE n == Len(w)
           S == Elements(w)
           s == Sorted(S)
<1>1. /\ n \in Nat /\ DOMAIN w = 1 .. n /\ n \in 0 .. n
      /\ \A i \in 1 .. n : w[i].start \in Nat
  OBVIOUS
<1>2. S = {w[k] : k \in 1 .. n} BY <1>1 DEF Elements
<1>3. IsFiniteSet(S) /\ Cardinality(S) = n
  <2>1. IsFiniteSet({w[k] : k \in 1 .. n}) /\ Cardinality({w[k] : k \in 1 .. n}) = n
    <3>1. PICK m \in 0 .. Len(w) : m = n BY <1>1
    <3>2. IsFiniteSet({w[k] : k \in 1 .. m}) /\ Cardinality({w[k] : k \in 1 .. m}) = m
      BY SizeOfPart
    <3> QED BY <3>1, <3>2
  <2> QED BY <1>2, <2>1
<1>4. HaveStarts(S)
  <2>1. ASSUME NEW i \in 1 .. n, NEW k \in 1 .. n, w[i].start = w[k].start
        PROVE  w[i] = w[k]
    <3>1. i < k \/ k < i \/ i = k BY <1>1
    <3> QED BY <1>1, <2>1, <3>1 DEF InOrder
  <2> QED BY <1>1, <1>2, <1>3, <2>1 DEF HaveStarts
<1> HIDE DEF n, S
<1>5. \A i \in 1 .. n : w[i] \in S /\ Rank(w[i], S) = i - 1
  <2> SUFFICES ASSUME NEW i \in 1 .. n PROVE w[i] \in S /\ Rank(w[i], S) = i - 1
    OBVIOUS
  <2>1. w[i] \in S BY <1>2
  <2>2. \A k \in 1 .. n : w[k].start < w[i].start <=> k \in 1 .. i - 1
    <3> TAKE k \in 1 .. n
    <3>1. k < i \/ k = i \/ i < k BY <1>1
    <3>2. CASE k < i BY <1>1, <3>2 DEF InOrder
    <3>3. CASE k = i BY <1>1, <3>3
    <3>4. CASE i < k
      <4>1. w[i].start < w[k].start BY <1>1, <3>4 DEF InOrder
      <4> QED BY <1>1, <3>4, <4>1
    <3> QED BY <3>1, <3>2, <3>3, <3>4
  <2>3. 1 .. i - 1 \subseteq 1 .. n BY <1>1
  <2>4. Earlier(w[i], S) = {w[k] : k \in 1 .. i - 1} BY <1>2, <2>2, <2>3 DEF Earlier
  <2>5. i - 1 \in 0 .. Len(w) BY <1>1 DEF n
  <2>6. Cardinality({w[k] : k \in 1 .. i - 1}) = i - 1 BY <2>5, SizeOfPart
  <2> QED BY <2>1, <2>4, <2>6 DEF Rank
<1>6. /\ s \in Seq(S) /\ Len(s) = n
      /\ \A i \in 1 .. n : s[i] \in S /\ Rank(s[i], S) = i - 1
  BY <1>3, <1>4, SortedIsSorted
<1> HIDE DEF s
<1>7. \A i \in 1 .. n : s[i] = w[i]
  <2> TAKE i \in 1 .. n
  <2>1. s[i] \in S /\ w[i] \in S /\ Rank(s[i], S) = Rank(w[i], S) BY <1>5, <1>6
  <2> QED BY <1>4, <2>1, SameRank
<1>8. w \in Seq(S)
  <2>1. w \in [1 .. n -> S] BY <1>1, <1>5
  <2> QED BY <1>1, <2>1
<1>9. s = w BY <1>6, <1>7, <1>8, SeqEqual DEF n
<1> QED BY <1>3, <1>4, <1>9 DEF n, S, s

-----------------------------------------------------------------------------
(* The tones among the moments that are heard.                             *)

\* From s to e one tone is heard, and neither before nor after.
IsRun(s, e, heard) ==
  /\ s \in Starts(heard) /\ e \in Ends(heard) /\ s <= e
  /\ \A t \in s .. e : t \in heard /\ signal[t].tone = signal[s].tone

LEMMA RunFromStart ==
  ASSUME NEW n \in Nat, NEW heard, heard \subseteq 0 .. n, NEW s \in Starts(heard)
  PROVE  IsRun(s, EndOf(s, heard), heard)
<1> DEFINE U == {e \in Ends(heard) : e >= s}
           e == EndOf(s, heard)
           B == {t \in s .. e : ~ (t \in heard /\ signal[t].tone = signal[s].tone)}
<1>1. s \in heard /\ s \in Nat /\ heard \subseteq Nat BY DEF Starts
<1>2. U \subseteq Nat BY <1>1 DEF Ends
<1>3. U # {}
  <2>1. PICK g \in heard : \A k \in heard : k <= g BY <1>1, Greatest
  <2>2. g + 1 \notin heard BY <1>1, <2>1
  <2> QED BY <1>1, <2>1, <2>2 DEF Ends
<1>4. e \in U /\ \A k \in U : e <= k BY <1>2, <1>3, SmallestIsLeast DEF EndOf
<1>5. e \in Ends(heard) /\ e \in Nat /\ s <= e BY <1>1, <1>2, <1>4
<1> HIDE DEF e
<1>6. B = {}
  <2> SUFFICES ASSUME B # {} PROVE FALSE OBVIOUS
  <2>1. B \subseteq Nat BY <1>1, <1>5
  <2>2. PICK m \in B : \A k \in B : m <= k BY <2>1, Least
  <2>3. m \in s .. e /\ m # s BY <1>1, <2>2
  <2>4. m - 1 \in s .. e /\ m - 1 < m /\ m - 1 < e BY <1>1, <1>5, <2>3
  <2>5. m - 1 \notin B BY <1>1, <1>5, <2>2, <2>3, <2>4
  <2>6. m - 1 \in heard /\ signal[m - 1].tone = signal[s].tone BY <2>4, <2>5
  <2>7. m - 1 \notin U BY <1>1, <1>4, <1>5, <2>4
  <2>8. m - 1 \notin Ends(heard) BY <1>1, <2>4, <2>7
  <2>9. m - 1 + 1 = m BY <1>1, <1>5, <2>3
  <2>10. m \in heard /\ signal[m].tone = signal[m - 1].tone BY <2>6, <2>8, <2>9 DEF Ends
  <2> QED BY <2>2, <2>6, <2>10
<1>7. \A t \in s .. e : t \in heard /\ signal[t].tone = signal[s].tone BY <1>6
<1> QED BY <1>5, <1>7 DEF IsRun, e

LEMMA RunsAreApart ==
  ASSUME NEW heard, heard \subseteq Nat, NEW s, NEW e, NEW t, NEW f,
         IsRun(s, e, heard), IsRun(t, f, heard), s < t
  PROVE  e < t
<1>1. s \in Nat /\ e \in Nat /\ t \in Nat BY DEF IsRun, Starts, Ends
<1> SUFFICES ASSUME t <= e PROVE FALSE BY <1>1
<1>2. t - 1 \in s .. e /\ t \in s .. e BY <1>1
<1>3. t - 1 \in heard /\ signal[t - 1].tone = signal[t].tone BY <1>2 DEF IsRun
<1> QED BY <1>3 DEF IsRun, Starts

LEMMA RunIsUnique ==
  ASSUME NEW heard, heard \subseteq Nat, NEW s, NEW e, NEW f,
         IsRun(s, e, heard), IsRun(s, f, heard)
  PROVE  e = f
<1>1. s \in Nat /\ e \in Nat /\ f \in Nat BY DEF IsRun, Starts, Ends
<1>2. ASSUME NEW a \in Nat, NEW b \in Nat, IsRun(s, a, heard), IsRun(s, b, heard)
      PROVE  ~ (a < b)
  <2> SUFFICES ASSUME a < b PROVE FALSE OBVIOUS
  <2>1. s <= a BY <1>2 DEF IsRun
  <2>2. a \in s .. b /\ a + 1 \in s .. b BY <1>1, <2>1
  <2>3. a + 1 \in heard /\ signal[a + 1].tone = signal[a].tone BY <1>2, <2>2 DEF IsRun
  <2> QED BY <1>2, <2>3 DEF IsRun, Ends
<1>3. ~ (e < f) /\ ~ (f < e) BY <1>1, <1>2
<1> QED BY <1>1, <1>3

LEMMA RunToEnd ==
  ASSUME NEW n \in Nat, NEW heard, heard \subseteq 0 .. n, NEW e \in Ends(heard)
  PROVE  \E s \in heard : IsRun(s, e, heard)
<1> DEFINE U == {s \in Starts(heard) : s <= e}
<1>1. e \in heard /\ e \in Nat /\ heard \subseteq Nat BY DEF Ends
<1>2. U # {}
  <2>1. PICK g \in heard : \A k \in heard : g <= k BY <1>1, Least
  <2>2. g - 1 \notin heard BY <1>1, <2>1
  <2> QED BY <1>1, <2>1, <2>2 DEF Starts
<1>3. U \subseteq 0 .. n BY DEF Starts
<1>4. PICK s \in U : \A k \in U : k <= s BY <1>2, <1>3, Greatest
<1>5. s \in Starts(heard) /\ s \in heard /\ s \in Nat /\ s <= e BY <1>1, <1>4 DEF Starts
<1>6. PICK f : IsRun(s, f, heard) BY <1>5, RunFromStart
<1>7. f \in Nat /\ s <= f /\ f \in Ends(heard) BY <1>1, <1>6 DEF IsRun, Ends
<1>8. CASE e < f
  <2>1. e \in s .. f /\ e + 1 \in s .. f BY <1>1, <1>5, <1>7, <1>8
  <2>2. e + 1 \in heard /\ signal[e + 1].tone = signal[e].tone BY <1>6, <2>1 DEF IsRun
  <2> QED BY <2>2 DEF Ends
<1>9. CASE f < e
  <2> DEFINE W == {t \in heard : f < t /\ t <= e}
  <2>1. e \in W /\ W \subseteq Nat
    <3>1. f < e /\ e <= e /\ e \in heard BY <1>1, <1>9
    <3>2. W \subseteq heard OBVIOUS
    <3> QED BY <1>1, <3>1, <3>2
  <2>2. PICK m \in W : \A k \in W : m <= k BY <2>1, Least
  <2>3. m \in Nat /\ f < m /\ m <= e /\ m \in heard BY <1>1, <2>2
  <2>4. m - 1 \notin W BY <1>1, <2>2, <2>3
  <2>5. m - 1 \in heard => m - 1 = f BY <1>1, <1>7, <2>3, <2>4
  <2>6. f + 1 = m => m - 1 = f BY <1>7, <2>3
  <2>7. m - 1 = f => f + 1 = m BY <1>7, <2>3
  <2>8. m - 1 \in heard => signal[m - 1].tone # signal[m].tone
    BY <1>7, <2>3, <2>5, <2>7 DEF Ends
  <2>9. m \in U BY <2>3, <2>8 DEF Starts
  <2> QED BY <1>4, <1>5, <1>7, <2>3, <2>9
<1>10. CASE e = f BY <1>5, <1>6, <1>10
<1> QED BY <1>1, <1>7, <1>8, <1>9, <1>10

\* What is heard in the next step goes on with the run that is not over, and
\* the other runs stay what they are.
LEMMA RunsOfBoth ==
  ASSUME NEW D \in Nat, NEW H, NEW K,
         H \subseteq 0 .. D - 1, K \subseteq Nat, \A t \in K : D <= t,
         NEW s \in Nat, NEW e \in Nat
  PROVE  IsRun(s, e, H \cup K) <=>
           \/ /\ IsRun(s, e, H)
              /\ e = D - 1 => ~ (D \in K /\ signal[D].tone = signal[s].tone)
           \/ /\ IsRun(s, e, K)
              /\ s = D => ~ (D - 1 \in H /\ signal[D - 1].tone = signal[s].tone)
           \/ /\ IsRun(s, D - 1, H) /\ IsRun(D, e, K)
              /\ signal[D].tone = signal[s].tone
<1> DEFINE G == H \cup K
<1>1. /\ \A t \in H : t \in Nat /\ t < D
      /\ \A t \in G : t \in H <=> t < D
      /\ \A t \in G : t \in K <=> D <= t
      /\ H \subseteq G /\ K \subseteq G
  OBVIOUS
<1>2. ASSUME NEW t \in H PROVE t \in Starts(G) <=> t \in Starts(H)
  BY <1>1, <1>2 DEF Starts
<1>3. ASSUME NEW t \in K, t # D PROVE t \in Starts(G) <=> t \in Starts(K)
  <2>1. t - 1 \in G <=> t - 1 \in K BY <1>1, <1>3
  <2> QED BY <1>1, <1>3, <2>1 DEF Starts
<1>4. ASSUME NEW t \in K PROVE t \in Ends(G) <=> t \in Ends(K)
  <2>1. t + 1 \in G <=> t + 1 \in K BY <1>1, <1>4
  <2> QED BY <1>1, <1>4, <2>1 DEF Ends
<1>5. ASSUME NEW t \in H, t # D - 1 PROVE t \in Ends(G) <=> t \in Ends(H)
  <2>1. t + 1 \in G <=> t + 1 \in H BY <1>1, <1>5
  <2> QED BY <1>1, <1>5, <2>1 DEF Ends
<1>6. D \in K => D \in Starts(K)
  <2>1. D - 1 \notin K BY <1>1
  <2> QED BY <2>1 DEF Starts
<1>7. D - 1 \in H => D - 1 \in Ends(H)
  <2>1. D - 1 + 1 \notin H BY <1>1
  <2> QED BY <2>1 DEF Ends
<1>8. D \in K => (D \in Starts(G) <=>
                    ~ (D - 1 \in H /\ signal[D - 1].tone = signal[D].tone))
  <2>1. D - 1 \in G <=> D - 1 \in H BY <1>1
  <2> QED BY <1>1, <2>1 DEF Starts
<1>9. D - 1 \in H => (D - 1 \in Ends(G) <=>
                        ~ (D \in K /\ signal[D].tone = signal[D - 1].tone))
  <2>1. D - 1 + 1 = D /\ (D \in G <=> D \in K) BY <1>1
  <2> QED BY <1>1, <2>1 DEF Ends
<1> HIDE DEF G
<1>10. CASE e < D
  <2>1. \A t \in s .. e : t \in G <=> t \in H BY <1>1, <1>10
  <2>2. IsRun(s, e, G) => IsRun(s, e, H)
    <3> SUFFICES ASSUME IsRun(s, e, G) PROVE IsRun(s, e, H) OBVIOUS
    <3>1. s \in s .. e /\ e \in s .. e BY DEF IsRun
    <3>2. s \in H /\ e \in H BY <2>1, <3>1 DEF IsRun
    <3>3. s \in Starts(H) BY <1>2, <3>2 DEF IsRun
    <3>4. e \in Ends(H)
      <4>1. CASE e # D - 1 BY <1>5, <3>2, <4>1 DEF IsRun
      <4>2. CASE e = D - 1 BY <1>7, <3>2, <4>2
      <4> QED BY <4>1, <4>2
    <3> QED BY <2>1, <3>3, <3>4 DEF IsRun
  <2>3. ASSUME IsRun(s, e, H)
        PROVE  IsRun(s, e, G) <=>
                 (e = D - 1 => ~ (D \in K /\ signal[D].tone = signal[s].tone))
    <3>1. e \in s .. e /\ s \in H /\ e \in H BY <2>3 DEF IsRun, Starts, Ends
    <3>2. s \in Starts(G) BY <1>2, <2>3, <3>1 DEF IsRun
    <3>3. IsRun(s, e, G) <=> e \in Ends(G)
      BY <2>1, <2>3, <3>2 DEF IsRun
    <3>4. signal[e].tone = signal[s].tone BY <2>3, <3>1 DEF IsRun
    <3>5. CASE e # D - 1 BY <1>5, <2>3, <3>1, <3>3, <3>5 DEF IsRun
    <3>6. CASE e = D - 1 BY <1>9, <3>1, <3>3, <3>4, <3>6
    <3> QED BY <3>5, <3>6
  <2>4. ~ IsRun(s, e, K) /\ ~ IsRun(D, e, K) BY <1>1, <1>10 DEF IsRun, Ends
  <2> QED BY <2>2, <2>3, <2>4 DEF G
<1>11. CASE D <= s
  <2>1. \A t \in s .. e : t \in G <=> t \in K BY <1>1, <1>11
  <2>2. IsRun(s, e, G) => IsRun(s, e, K)
    <3> SUFFICES ASSUME IsRun(s, e, G) PROVE IsRun(s, e, K) OBVIOUS
    <3>1. s \in s .. e /\ e \in s .. e BY DEF IsRun
    <3>2. s \in K /\ e \in K BY <2>1, <3>1 DEF IsRun
    <3>3. e \in Ends(K) BY <1>4, <3>2 DEF IsRun
    <3>4. s \in Starts(K)
      <4>1. CASE s # D BY <1>3, <3>2, <4>1 DEF IsRun
      <4>2. CASE s = D BY <1>6, <3>2, <4>2
      <4> QED BY <4>1, <4>2
    <3> QED BY <2>1, <3>3, <3>4 DEF IsRun
  <2>3. ASSUME IsRun(s, e, K)
        PROVE  IsRun(s, e, G) <=>
                 (s = D => ~ (D - 1 \in H /\ signal[D - 1].tone = signal[s].tone))
    <3>1. s \in K /\ e \in K BY <2>3 DEF IsRun, Starts, Ends
    <3>2. e \in Ends(G) BY <1>4, <2>3, <3>1 DEF IsRun
    <3>3. IsRun(s, e, G) <=> s \in Starts(G)
      BY <2>1, <2>3, <3>2 DEF IsRun
    <3>4. CASE s # D BY <1>3, <2>3, <3>1, <3>3, <3>4 DEF IsRun
    <3>5. CASE s = D BY <1>8, <3>1, <3>3, <3>5
    <3> QED BY <3>4, <3>5
  <2>4. ~ IsRun(s, e, H) /\ ~ IsRun(s, D - 1, H) BY <1>1, <1>11 DEF IsRun, Starts
  <2> QED BY <2>2, <2>3, <2>4 DEF G
<1>12. CASE s < D /\ D <= e
  <2>1. ~ IsRun(s, e, H) /\ ~ IsRun(s, e, K) BY <1>1, <1>12 DEF IsRun, Starts, Ends
  <2>2. ASSUME IsRun(s, e, G)
        PROVE  /\ IsRun(s, D - 1, H) /\ IsRun(D, e, K)
               /\ signal[D].tone = signal[s].tone
    <3>1. /\ s \in s .. e /\ e \in s .. e /\ D \in s .. e /\ D - 1 \in s .. e
          /\ \A t \in s .. D - 1 : t \in s .. e /\ t < D
          /\ \A t \in D .. e : t \in s .. e /\ D <= t
      BY <1>12
    <3>2. s \in H /\ D - 1 \in H /\ D \in K /\ e \in K BY <1>1, <1>12, <2>2, <3>1 DEF IsRun
    <3>3. /\ \A t \in s .. D - 1 : t \in H /\ signal[t].tone = signal[s].tone
          /\ \A t \in D .. e : t \in K /\ signal[t].tone = signal[s].tone
      BY <1>1, <2>2, <3>1 DEF IsRun
    <3>4. signal[D].tone = signal[s].tone BY <2>2, <3>1 DEF IsRun
    <3>5. s \in Starts(H) /\ D - 1 \in Ends(H) /\ s <= D - 1
      BY <1>2, <1>7, <1>12, <2>2, <3>2 DEF IsRun
    <3>6. D \in Starts(K) /\ e \in Ends(K) BY <1>4, <1>6, <2>2, <3>2 DEF IsRun
    <3> QED BY <1>12, <3>3, <3>4, <3>5, <3>6 DEF IsRun
  <2>3. ASSUME IsRun(s, D - 1, H), IsRun(D, e, K), signal[D].tone = signal[s].tone
        PROVE  IsRun(s, e, G)
    <3>1. s \in H /\ e \in K BY <2>3 DEF IsRun, Starts, Ends
    <3>2. s \in Starts(G) /\ e \in Ends(G) BY <1>2, <1>4, <2>3, <3>1 DEF IsRun
    <3>3. ASSUME NEW t \in s .. e PROVE t \in G /\ signal[t].tone = signal[s].tone
      <4>1. t \in s .. D - 1 \/ t \in D .. e BY <1>12
      <4> QED BY <1>1, <2>3, <4>1 DEF IsRun
    <3> QED BY <1>12, <3>2, <3>3 DEF IsRun
  <2> QED BY <2>1, <2>2, <2>3 DEF G
<1> QED BY <1>10, <1>11, <1>12

-----------------------------------------------------------------------------
(* The coarse spectra and their levels.                                    *)

Sounds == [tone : Nat, level : Nat]
Tones == [tone : Nat, start : Nat, end : Nat, level : Nat]

LEMMA CoarseTimesGrow ==
  /\ \A j \in Nat : CoarseTime(j) \in Nat
  /\ \A j, k \in Nat : j <= k => CoarseTime(j) <= CoarseTime(k)
<1>1. CoarseStep \in Nat BY SearchAssumption
<1>2. CoarseStep \div 2 \in Nat BY <1>1
<1>3. \A j \in Nat : CoarseStep * j \in Nat BY <1>1
<1>4. ASSUME NEW j \in Nat, NEW k \in Nat, j <= k
      PROVE  CoarseStep * j <= CoarseStep * k
  <2>1. k - j \in Nat BY <1>4
  <2>2. CoarseStep * k = CoarseStep * j + CoarseStep * (k - j) BY <1>1
  <2>3. CoarseStep * (k - j) \in Nat BY <1>3, <2>1
  <2> QED BY <1>3, <2>2, <2>3
<1> QED BY <1>2, <1>3, <1>4 DEF CoarseTime

LEMMA PeaksAreSounds ==
  ASSUME signal \in Signals
  PROVE  /\ signal \in [0 .. Length - 1 -> Sounds]
         /\ \A j \in Nat : CoarsePeak(j) \in Sounds
<1>1. signal \in [0 .. Length - 1 -> Sounds] BY SearchAssumption DEF Sounds
<1>2. Length \in Nat BY SearchAssumption
<1>3. ASSUME NEW j \in Nat PROVE CoarsePeak(j) \in Sounds
  <2>1. CASE CoarseTime(j) < Length
    <3>1. CoarseTime(j) \in 0 .. Length - 1 BY <1>2, <2>1, CoarseTimesGrow
    <3> QED BY <1>1, <2>1, <3>1 DEF CoarsePeak
  <2>2. CASE ~ (CoarseTime(j) < Length)
    BY <2>2, SearchAssumption DEF CoarsePeak, Sounds
  <2> QED BY <2>1, <2>2
<1> QED BY <1>1, <1>3

LEMMA LevelsAreBounded ==
  ASSUME signal \in Signals
  PROVE  \E b \in Nat : \A j \in 0 .. CoarseLength - 1 : CoarsePeak(j).level \in 0 .. b
<1> DEFINE level(j) == CoarsePeak(j).level
           T == {n \in Nat : \E b \in Nat : \A j \in Nat : j < n => level(j) <= b}
<1>1. \A j \in Nat : level(j) \in Nat BY PeaksAreSounds DEF Sounds
<1> HIDE DEF level
<1>2. 0 \in T
  <2>1. \A j \in Nat : j < 0 => level(j) <= 0 OBVIOUS
  <2> QED BY <2>1
<1>3. ASSUME NEW n \in Nat, n \in T PROVE n + 1 \in T
  <2>1. PICK b \in Nat : \A j \in Nat : j < n => level(j) <= b BY <1>3
  <2>2. level(n) \in Nat BY <1>1
  <2>3. b + level(n) \in Nat /\ b <= b + level(n) /\ level(n) <= b + level(n) BY <2>2
  <2>4. ASSUME NEW j \in Nat, j < n + 1 PROVE level(j) <= b + level(n)
    <3>1. j < n \/ j = n BY <2>4
    <3>2. CASE j < n
      <4>1. level(j) <= b /\ level(j) \in Nat BY <1>1, <2>1, <3>2
      <4> QED BY <2>2, <4>1
    <3> QED BY <2>3, <3>1, <3>2
  <2> QED BY <2>3, <2>4
<1>4. CoarseLength \in T BY <1>2, <1>3, SetInduction, SearchAssumption
<1>5. PICK b \in Nat : \A j \in Nat : j < CoarseLength => level(j) <= b BY <1>4
<1>6. ASSUME NEW j \in 0 .. CoarseLength - 1 PROVE level(j) \in 0 .. b
  <2>1. j \in Nat /\ j < CoarseLength BY SearchAssumption
  <2> QED BY <1>1, <1>5, <2>1
<1> QED BY <1>6 DEF level

LoudnessOf(js) == Largest({CoarsePeak(j).level : j \in js})

LEMMA LoudnessIsLargest ==
  ASSUME signal \in Signals, NEW js, js \subseteq 0 .. CoarseLength - 1, js # {}
  PROVE  /\ LoudnessOf(js) \in Nat
         /\ \E j \in js : LoudnessOf(js) = CoarsePeak(j).level
         /\ \A j \in js : CoarsePeak(j).level <= LoudnessOf(js)
<1> DEFINE L == {CoarsePeak(j).level : j \in js}
<1>1. PICK b \in Nat : \A j \in 0 .. CoarseLength - 1 : CoarsePeak(j).level \in 0 .. b
  BY LevelsAreBounded
<1>2. L \subseteq 0 .. b /\ L # {} BY <1>1
<1> HIDE DEF L
<1>3. Largest(L) \in L /\ \A l \in L : l <= Largest(L) BY <1>2, LargestIsGreatest
<1>4. Largest(L) \in 0 .. b BY <1>2, <1>3
<1>5. Largest(L) \in Nat BY <1>4
<1> QED BY <1>3, <1>5 DEF L, LoudnessOf

LEMMA LoudnessOfBoth ==
  ASSUME signal \in Signals,
         NEW js, js \subseteq 0 .. CoarseLength - 1, js # {},
         NEW ks, ks \subseteq 0 .. CoarseLength - 1, ks # {}
  PROVE  LoudnessOf(js \cup ks) = AtLeast(LoudnessOf(js), LoudnessOf(ks))
<1>1. js \cup ks \subseteq 0 .. CoarseLength - 1 /\ js \cup ks # {} OBVIOUS
<1>2. PICK i \in js \cup ks : LoudnessOf(js \cup ks) = CoarsePeak(i).level
  BY <1>1, LoudnessIsLargest
<1>3. PICK j \in js : LoudnessOf(js) = CoarsePeak(j).level BY LoudnessIsLargest
<1>4. PICK k \in ks : LoudnessOf(ks) = CoarsePeak(k).level BY LoudnessIsLargest
<1>5. LoudnessOf(js) <= LoudnessOf(js \cup ks) /\ LoudnessOf(ks) <= LoudnessOf(js \cup ks)
  BY <1>1, <1>3, <1>4, LoudnessIsLargest
<1>6. LoudnessOf(js \cup ks) <= LoudnessOf(js) \/ LoudnessOf(js \cup ks) <= LoudnessOf(ks)
  BY <1>2, LoudnessIsLargest
<1>7. LoudnessOf(js) \in Nat /\ LoudnessOf(ks) \in Nat /\ LoudnessOf(js \cup ks) \in Nat
  BY <1>1, LoudnessIsLargest
<1> QED BY <1>5, <1>6, <1>7 DEF AtLeast

\* What confirms the moments from s to e.
ConfirmingAll(s, e) == UNION {Confirming(t) : t \in s .. e}

LEMMA LoudnessOfRun ==
  ASSUME signal \in Signals, NEW s \in Nat, NEW e \in Nat, s <= e, s \in Heard
  PROVE  /\ Loudness(s, e) = LoudnessOf(ConfirmingAll(s, e))
         /\ ConfirmingAll(s, e) \subseteq 0 .. CoarseLength - 1
         /\ ConfirmingAll(s, e) # {}
         /\ Loudness(s, e) \in Nat
<1>1. Loudness(s, e) = LoudnessOf(ConfirmingAll(s, e))
  BY DEF Loudness, LoudnessOf, ConfirmingAll
<1>2. ConfirmingAll(s, e) \subseteq 0 .. CoarseLength - 1 BY DEF ConfirmingAll, Confirming
<1>3. s \in s .. e /\ Confirming(s) # {} BY DEF Heard
<1>4. ConfirmingAll(s, e) # {} BY <1>3 DEF ConfirmingAll
<1> QED BY <1>1, <1>2, <1>4, LoudnessIsLargest

LEMMA LoudnessOfParts ==
  ASSUME signal \in Signals, NEW s \in Nat, NEW D \in Nat, NEW e \in Nat,
         s < D, D <= e, s \in Heard, D \in Heard
  PROVE  Loudness(s, e) = AtLeast(Loudness(s, D - 1), Loudness(D, e))
<1>1. D - 1 \in Nat /\ s <= D - 1 /\ s <= e OBVIOUS
<1>2. s .. e = (s .. D - 1) \cup (D .. e) BY <1>1
<1>3. ConfirmingAll(s, e) = ConfirmingAll(s, D - 1) \cup ConfirmingAll(D, e)
  BY <1>2 DEF ConfirmingAll
<1>4. /\ Loudness(s, e) = LoudnessOf(ConfirmingAll(s, e))
      /\ Loudness(s, D - 1) = LoudnessOf(ConfirmingAll(s, D - 1))
      /\ Loudness(D, e) = LoudnessOf(ConfirmingAll(D, e))
  BY <1>1, LoudnessOfRun
<1>5. /\ ConfirmingAll(s, D - 1) \subseteq 0 .. CoarseLength - 1
      /\ ConfirmingAll(s, D - 1) # {}
      /\ ConfirmingAll(D, e) \subseteq 0 .. CoarseLength - 1
      /\ ConfirmingAll(D, e) # {}
  BY <1>1, LoudnessOfRun
<1> QED BY <1>3, <1>4, <1>5, LoudnessOfBoth

-----------------------------------------------------------------------------
(* The step of the tone search.                                            *)

\* What the threads have of the streams.  A coarse spectrum that was erased
\* cannot confirm a moment that is still to be searched.
StreamsOK ==
  /\ signal \in Signals
  /\ fine \in [put : Nat, read : Nat, done : Nat]
  /\ fine.done <= fine.read /\ fine.read <= fine.put /\ fine.put <= Length
  /\ coarse \in [put : Nat, read : Nat, done : Nat]
  /\ coarse.done <= coarse.read /\ coarse.read <= coarse.put
  /\ coarse.put <= CoarseLength
  /\ coarse.done = 0 \/ CoarseTime(coarse.done) + NumNeighbours <= fine.done

CurrentStep == fine.done .. StepEnd - 1

LEMMA StepIsInSignal ==
  ASSUME StreamsOK, ~ TooShort
  PROVE  /\ fine.done \in Nat /\ StepEnd \in Nat
         /\ fine.done < StepEnd /\ StepEnd + NumNeighbours < fine.read
         /\ CurrentStep \subseteq 0 .. Length - 1
         /\ Smallest(CurrentStep) = fine.done
         /\ Largest(CurrentStep) = StepEnd - 1
         /\ Smallest(CoarseAhead) \in CoarseAhead
<1>1. /\ EvalToneLength \in Nat /\ NumNeighbours \in Nat /\ Length \in Nat
  BY SearchAssumption
<1>2. /\ fine.done \in Nat /\ fine.read \in Nat /\ fine.put \in Nat
      /\ coarse.done \in Nat /\ coarse.read \in Nat
  BY DEF StreamsOK
<1>3. StepEnd \in Nat /\ fine.done < StepEnd BY <1>1, <1>2 DEF StepEnd
<1>4. StepEnd + NumNeighbours < fine.read BY <1>1, <1>2, <1>3 DEF TooShort
<1>5. CurrentStep \subseteq 0 .. Length - 1
  BY <1>1, <1>2, <1>3, <1>4 DEF CurrentStep, StreamsOK
<1>6. fine.done \in CurrentStep /\ \A t \in CurrentStep : fine.done <= t
  BY <1>2, <1>3 DEF CurrentStep
<1>7. StepEnd - 1 \in CurrentStep /\ \A t \in CurrentStep : t <= StepEnd - 1
  BY <1>2, <1>3 DEF CurrentStep
<1>8. CurrentStep \subseteq Nat /\ CurrentStep \subseteq Int BY <1>1, <1>5
<1>9. Smallest(CurrentStep) = fine.done BY <1>6, <1>8, SmallestIs
<1>10. Largest(CurrentStep) = StepEnd - 1 BY <1>7, <1>8, LargestIs
<1>11. CoarseAhead \subseteq Nat BY <1>2 DEF CoarseAhead, CoarseCurrent
<1>12. CoarseAhead # {} BY DEF TooShort
<1>13. Smallest(CoarseAhead) \in CoarseAhead BY <1>11, <1>12, SmallestIsLeast
<1> QED BY <1>2, <1>3, <1>4, <1>5, <1>9, <1>10, <1>13

\* The coarse spectra of the step are enough, though others confirm moments
\* of the signal, and what they count for at the borders does not matter.
LEMMA WitnessesAreConfirming ==
  ASSUME StreamsOK, ~ TooShort, NEW t \in CurrentStep
  PROVE  Witnesses(t, CurrentStep, CoarseToProcess) = Confirming(t)
<1> DEFINE N == NumNeighbours
           D == fine.done
           E == StepEnd
           J == Smallest(CoarseAhead)
           later(j) == {u \in CurrentStep : u >= CoarseTime(j)}
           at(j) == IF later(j) # {} THEN Smallest(later(j)) ELSE Largest(CurrentStep)
<1>1. /\ N \in Nat /\ D \in Nat /\ E \in Nat /\ t \in Nat /\ D <= t /\ t < E
      /\ coarse.done \in Nat /\ coarse.read \in Nat /\ coarse.read <= CoarseLength
      /\ CoarseLength \in Nat
  <2>1. coarse.done \in Nat /\ coarse.read \in Nat /\ coarse.put \in Nat BY DEF StreamsOK
  <2>2. N \in Nat /\ CoarseLength \in Nat BY SearchAssumption
  <2>3. D \in Nat /\ E \in Nat BY StepIsInSignal
  <2>4. t \in Nat /\ D <= t /\ t < E BY <2>3 DEF CurrentStep
  <2>5. coarse.read <= CoarseLength BY <2>1, <2>2 DEF StreamsOK
  <2> QED BY <2>1, <2>2, <2>3, <2>4, <2>5
<1>2. J \in Nat /\ J < coarse.read /\ CoarseTime(J) >= E + N
  <2>1. J \in CoarseAhead BY StepIsInSignal
  <2> QED BY <1>1, <2>1 DEF CoarseAhead, CoarseCurrent
<1>3. Largest(CurrentStep) = E - 1 BY StepIsInSignal
<1>4. D \in CurrentStep /\ \A u \in CurrentStep : u \in Nat /\ D <= u /\ u < E
  BY <1>1 DEF CurrentStep
<1> HIDE DEF N, D, E, J
<1>5. Confirming(t) \subseteq CoarseToProcess
  <2> SUFFICES ASSUME NEW j \in Confirming(t) PROVE j \in CoarseToProcess
    OBVIOUS
  <2>1. /\ j \in Nat /\ CoarseTime(j) \in Nat
        /\ CoarseTime(j) - N <= t /\ t < CoarseTime(j) + N
    BY <1>1, CoarseTimesGrow DEF Confirming, N
  <2>2. coarse.done <= j
    <3> SUFFICES ASSUME j < coarse.done PROVE FALSE BY <1>1, <2>1
    <3>1. CoarseTime(coarse.done) + N <= D BY <1>1, <2>1 DEF StreamsOK, N, D
    <3>2. CoarseTime(j) <= CoarseTime(coarse.done) /\ CoarseTime(coarse.done) \in Nat
      BY <1>1, <2>1, CoarseTimesGrow
    <3> QED BY <1>1, <2>1, <3>1, <3>2
  <2>3. j <= J
    <3> SUFFICES ASSUME J < j PROVE FALSE BY <1>2, <2>1
    <3>1. CoarseTime(J) <= CoarseTime(j) /\ CoarseTime(J) \in Nat
      BY <1>2, <2>1, CoarseTimesGrow
    <3> QED BY <1>1, <1>2, <2>1, <3>1
  <2> QED BY <1>1, <1>2, <2>1, <2>2, <2>3 DEF CoarseToProcess, J
<1>6. CoarseToProcess \subseteq 0 .. CoarseLength - 1
  BY <1>1, <1>2 DEF CoarseToProcess, J
<1>7. ASSUME NEW j \in Confirming(t) PROVE t \in at(j) - N .. at(j) + N
  <2>1. /\ CoarseTime(j) \in Nat
        /\ CoarseTime(j) - N <= t /\ t < CoarseTime(j) + N
    BY <1>1, CoarseTimesGrow DEF Confirming, N
  <2>2. CASE CoarseTime(j) < D
    <3>1. D \in later(j) /\ \A u \in later(j) : D <= u BY <1>1, <1>4, <2>1, <2>2
    <3>2. later(j) \subseteq Nat BY <1>4
    <3>3. at(j) = D BY <1>1, <3>1, <3>2 DEF Smallest
    <3> QED BY <1>1, <2>1, <2>2, <3>3
  <2>3. CASE D <= CoarseTime(j) /\ CoarseTime(j) < E
    <3>1. CoarseTime(j) \in CurrentStep BY <1>1, <2>1, <2>3 DEF CurrentStep, D, E
    <3>2. CoarseTime(j) \in later(j) /\ \A u \in later(j) : CoarseTime(j) <= u
      BY <1>4, <2>1, <3>1
    <3>3. later(j) \subseteq Nat BY <1>4
    <3>4. at(j) = CoarseTime(j) BY <2>1, <3>2, <3>3 DEF Smallest
    <3> QED BY <1>1, <2>1, <3>4
  <2>4. CASE E <= CoarseTime(j)
    <3>1. later(j) = {}
      <4>1. \A u \in CurrentStep : ~ (u >= CoarseTime(j)) BY <1>1, <1>4, <2>1, <2>4
      <4> QED BY <4>1
    <3>2. at(j) = E - 1 BY <1>3, <3>1
    <3> QED BY <1>1, <2>1, <2>4, <3>2
  <2> QED BY <1>1, <2>1, <2>2, <2>3, <2>4
<1>8. Witnesses(t, CurrentStep, CoarseToProcess) =
        {j \in CoarseToProcess : /\ signal[t].tone = CoarsePeak(j).tone
                                 /\ t \in at(j) - N .. at(j) + N
                                 /\ CoarseTime(j) - N <= t
                                 /\ t < CoarseTime(j) + N}
  BY DEF Witnesses, N
<1>9. Confirming(t) = {j \in 0 .. CoarseLength - 1 :
                         /\ CoarsePeak(j).tone = signal[t].tone
                         /\ CoarseTime(j) - N <= t
                         /\ t < CoarseTime(j) + N}
  BY DEF Confirming, N
<1> HIDE DEF at
<1> QED BY <1>5, <1>6, <1>7, <1>8, <1>9

Run(s, e) ==
  [tone |-> signal[s].tone, start |-> s, end |-> e, level |-> Loudness(s, e)]
RunsOf(heard) == {Run(s, EndOf(s, heard)) : s \in Starts(heard)}

LEMMA RunsOfAre ==
  ASSUME NEW n \in Nat, NEW heard, heard \subseteq 0 .. n
  PROVE  /\ \A s, e : IsRun(s, e, heard) => s \in heard /\ e \in heard /\ s <= e
         /\ \A s, e : IsRun(s, e, heard) => Run(s, e) \in RunsOf(heard)
         /\ \A x \in RunsOf(heard) :
              \E s \in heard, e \in heard : IsRun(s, e, heard) /\ x = Run(s, e)
<1>1. heard \subseteq Nat OBVIOUS
<1>2. \A s, e : IsRun(s, e, heard) => s \in Starts(heard) /\ s \in heard /\ e \in heard
  BY DEF IsRun, Starts, Ends
<1>3. ASSUME NEW s, NEW e, IsRun(s, e, heard) PROVE Run(s, e) \in RunsOf(heard)
  <2>1. s \in Starts(heard) BY <1>2, <1>3
  <2>2. IsRun(s, EndOf(s, heard), heard) BY <2>1, RunFromStart
  <2>3. e = EndOf(s, heard) BY <1>1, <1>3, <2>2, RunIsUnique
  <2> QED BY <2>1, <2>3 DEF RunsOf
<1>4. ASSUME NEW x \in RunsOf(heard)
      PROVE  \E s \in heard, e \in heard : IsRun(s, e, heard) /\ x = Run(s, e)
  <2>1. PICK s \in Starts(heard) : x = Run(s, EndOf(s, heard)) BY DEF RunsOf
  <2>2. IsRun(s, EndOf(s, heard), heard) BY <2>1, RunFromStart
  <2> QED BY <1>2, <2>1, <2>2
<1> QED BY <1>2, <1>3, <1>4 DEF IsRun

LEMMA StepTonesAreRuns ==
  ASSUME StreamsOK, ~ TooShort
  PROVE  StepTones(CurrentStep, CoarseToProcess) = RunsOf(Heard \cap CurrentStep)
<1> DEFINE step == CurrentStep
           js == CoarseToProcess
           K == Heard \cap step
<1>1. \A t \in step : Witnesses(t, step, js) = Confirming(t)
  BY WitnessesAreConfirming
<1>2. step \subseteq 0 .. Length - 1 BY StepIsInSignal
<1>3. {t \in step : signal[t] # Silence /\ Witnesses(t, step, js) # {}} = K
  BY <1>1, <1>2 DEF Heard
<1>4. fine.done \in Nat /\ StepEnd \in Nat BY StepIsInSignal
<1>5. \A s, e \in step : s .. e \subseteq step BY <1>4 DEF CurrentStep
<1>6. ASSUME NEW s \in Starts(K)
      PROVE  Largest({CoarsePeak(j).level :
                        j \in UNION {Witnesses(t, step, js) : t \in s .. EndOf(s, K)}})
               = Loudness(s, EndOf(s, K))
  <2>1. StepEnd - 1 \in Nat /\ K \subseteq 0 .. StepEnd - 1
    <3>1. StepEnd - 1 \in Nat BY <1>4, StepIsInSignal
    <3> QED BY <1>4, <3>1 DEF CurrentStep
  <2>2. IsRun(s, EndOf(s, K), K) BY <2>1, RunFromStart
  <2>3. s \in step /\ EndOf(s, K) \in step BY <2>2 DEF IsRun, Starts, Ends
  <2>4. s .. EndOf(s, K) \subseteq step BY <1>5, <2>3
  <2>5. UNION {Witnesses(t, step, js) : t \in s .. EndOf(s, K)}
          = UNION {Confirming(t) : t \in s .. EndOf(s, K)}
    BY <1>1, <2>4
  <2> QED BY <2>5 DEF Loudness
<1>7. StepTones(step, js) =
        {[tone |-> signal[s].tone, start |-> s, end |-> EndOf(s, K),
          level |-> Largest({CoarsePeak(j).level :
                       j \in UNION {Witnesses(t, step, js) : t \in s .. EndOf(s, K)}})] :
           s \in Starts(K)}
  BY <1>3 DEF StepTones
<1> HIDE DEF step, js, K
<1>8. StepTones(step, js) = {Run(s, EndOf(s, K)) : s \in Starts(K)}
  BY <1>6, <1>7 DEF Run
<1> QED BY <1>8 DEF RunsOf, step, js, K

\* What TonesAreRuns says of the tones that were found up to D.
Done == fine.done
HeardBefore == Heard \cap (0 .. Done - 1)
HeardInStep == Heard \cap CurrentStep
Found == PerformToneSearch(CurrentStep, CoarseToProcess)

LEMMA DoneAreRuns ==
  ASSUME TonesAreRuns
  PROVE  /\ \A x : x \in RunsOf(HeardBefore) <=> x \in Elements(tones) \/ x \in oldTones
         /\ \A x \in Elements(tones) : x.end < Done - 1
         /\ \A x \in oldTones : x.end = Done - 1
<1>1. Runs(fine.done) = RunsOf(HeardBefore) BY DEF Runs, RunsOf, Run, HeardBefore, Done
<1> QED BY <1>1 DEF TonesAreRuns, Done

LEMMA FoundAreRuns ==
  ASSUME StreamsOK, TonesAreRuns, ~ TooShort
  PROVE  /\ Elements(tones) \cup Found = RunsOf(Heard \cap (0 .. StepEnd - 1))
         /\ \A x \in Found : x.end >= Done - 1
<1> DEFINE D == Done
           E == StepEnd
           H == HeardBefore
           K == HeardInStep
           G == Heard \cap (0 .. E - 1)
           found == RunsOf(K)
           Before(new) == {old \in oldTones : Continues(old, new, CurrentStep)}
           First(olds) == CHOOSE x \in olds : \A y \in olds : x.start <= y.start
           Result(new) == IF Before(new) = {} THEN new ELSE Joined(First(Before(new)), new)
<1>1. /\ D \in Nat /\ E \in Nat /\ D < E /\ E - 1 \in Nat
      /\ Heard \subseteq Nat /\ signal \in Signals
  <2>1. D \in Nat /\ E \in Nat /\ D < E BY StepIsInSignal DEF Done
  <2>2. Heard \subseteq Nat BY DEF Heard
  <2> QED BY <2>1, <2>2 DEF StreamsOK
<1>2. /\ H \subseteq 0 .. D - 1 /\ K \subseteq Nat /\ \A t \in K : D <= t
      /\ H \subseteq 0 .. E - 1 /\ K \subseteq 0 .. E - 1 /\ G \subseteq 0 .. E - 1
      /\ H \subseteq Heard /\ K \subseteq Heard
      /\ G = H \cup K
  BY <1>1 DEF HeardBefore, HeardInStep, CurrentStep, Done
<1>3. Found = {Result(new) : new \in found}
                \cup {old \in oldTones : \A new \in found : ~ Continues(old, new, CurrentStep)}
  BY StepTonesAreRuns DEF PerformToneSearch, Found, HeardInStep
<1>4. \A old, new : Continues(old, new, CurrentStep) <=>
                      new.tone = old.tone /\ new.start = D
  BY StepIsInSignal DEF Continues, Done
<1>5. \A s, e : /\ Run(s, e).tone = signal[s].tone
                /\ Run(s, e).start = s /\ Run(s, e).end = e
                /\ Run(s, e).level = Loudness(s, e)
  BY DEF Run
<1> HIDE DEF D, E, H, K, G
<1>6. /\ \A s, e : IsRun(s, e, H) => /\ s \in H /\ e \in H /\ s \in Nat /\ e \in Nat
                                     /\ s <= e /\ e <= D - 1
                                     /\ Run(s, e) \in RunsOf(H)
      /\ \A x \in RunsOf(H) :
           \E s \in H, e \in H : IsRun(s, e, H) /\ x = Run(s, e)
  <2>1. \A t \in H : t \in Nat /\ t <= D - 1 BY <1>1, <1>2
  <2> QED BY <1>1, <1>2, <2>1, RunsOfAre
<1>7. /\ \A s, e : IsRun(s, e, K) => /\ s \in K /\ e \in K /\ s \in Nat /\ e \in Nat
                                     /\ s <= e /\ D <= s
                                     /\ Run(s, e) \in found
      /\ \A x \in found :
           \E s \in K, e \in K : IsRun(s, e, K) /\ x = Run(s, e)
  BY <1>1, <1>2, RunsOfAre
<1>8. /\ \A s, e : IsRun(s, e, G) => /\ s \in G /\ e \in G /\ s \in Nat /\ e \in Nat
                                     /\ s <= e
                                     /\ Run(s, e) \in RunsOf(G)
      /\ \A x \in RunsOf(G) :
           \E s \in G, e \in G : IsRun(s, e, G) /\ x = Run(s, e)
  <2>1. \A t \in G : t \in Nat BY <1>2
  <2>2. E - 1 \in Nat /\ G \subseteq 0 .. E - 1 BY <1>1, <1>2
  <2> QED BY <2>1, <2>2, RunsOfAre
<1>9. ASSUME NEW s \in Nat, NEW e \in Nat
      PROVE  IsRun(s, e, G) <=>
               \/ /\ IsRun(s, e, H)
                  /\ e = D - 1 => ~ (D \in K /\ signal[D].tone = signal[s].tone)
               \/ /\ IsRun(s, e, K)
                  /\ s = D => ~ (D - 1 \in H /\ signal[D - 1].tone = signal[s].tone)
               \/ /\ IsRun(s, D - 1, H) /\ IsRun(D, e, K)
                  /\ signal[D].tone = signal[s].tone
  BY <1>1, <1>2, RunsOfBoth
<1>10. /\ \A x : x \in RunsOf(H) <=> x \in Elements(tones) \/ x \in oldTones
       /\ \A x \in Elements(tones) : x.end < D - 1
       /\ \A x \in oldTones : x.end = D - 1
  BY DoneAreRuns DEF D, H
\* The run that may go on, if there is one.
<1>11. ASSUME NEW x \in oldTones
       PROVE  \E s \in H : IsRun(s, D - 1, H) /\ x = Run(s, D - 1)
  BY <1>5, <1>6, <1>10
<1>12. ASSUME NEW s, IsRun(s, D - 1, H) PROVE Run(s, D - 1) \in oldTones
  BY <1>5, <1>6, <1>10, <1>12, <1>1
<1>13. ASSUME NEW s, NEW t, IsRun(s, D - 1, H), IsRun(t, D - 1, H) PROVE s = t
  <2>1. s \in Nat /\ t \in Nat /\ s <= D - 1 /\ t <= D - 1 BY <1>6, <1>13
  <2>2. H \subseteq Nat BY <1>2
  <2>3. s < t => D - 1 < t BY <1>13, <2>2, RunsAreApart
  <2>4. t < s => D - 1 < s BY <1>13, <2>2, RunsAreApart
  <2> QED BY <1>1, <2>1, <2>3, <2>4
<1>14. D \in K => \E e \in K : IsRun(D, e, K)
  <2> SUFFICES ASSUME D \in K PROVE \E e \in K : IsRun(D, e, K) OBVIOUS
  <2>1. D - 1 \notin K BY <1>1, <1>2
  <2>2. D \in Starts(K) BY <2>1 DEF Starts
  <2>3. IsRun(D, EndOf(D, K), K) BY <1>1, <1>2, <2>2, RunFromStart
  <2> QED BY <1>7, <2>3
<1>15. D - 1 \in H => \E s \in H : IsRun(s, D - 1, H)
  <2> SUFFICES ASSUME D - 1 \in H PROVE \E s \in H : IsRun(s, D - 1, H) OBVIOUS
  <2>1. D - 1 + 1 \notin H BY <1>1, <1>2
  <2>2. D - 1 \in Ends(H) BY <2>1 DEF Ends
  <2> QED BY <1>1, <1>2, <2>2, RunToEnd
<1>16. ASSUME NEW s, IsRun(s, D - 1, H)
       PROVE  D - 1 \in H /\ signal[D - 1].tone = signal[s].tone
  <2>1. s <= D - 1 /\ s \in Nat /\ D - 1 \in Nat BY <1>6, <1>16
  <2>2. D - 1 \in s .. D - 1 BY <2>1
  <2> QED BY <1>16, <2>2 DEF IsRun
\* A run that starts with the step goes on with an old one, or is new.
<1>17. ASSUME NEW s, NEW e, IsRun(s, e, K),
              s = D => ~ (D - 1 \in H /\ signal[D - 1].tone = signal[s].tone)
       PROVE  Result(Run(s, e)) = Run(s, e)
  <2> SUFFICES ASSUME NEW old \in oldTones, Continues(old, Run(s, e), CurrentStep)
               PROVE  FALSE
    OBVIOUS
  <2>1. PICK r \in H : IsRun(r, D - 1, H) /\ old = Run(r, D - 1) BY <1>11
  <2>2. s = D /\ signal[s].tone = signal[r].tone BY <1>4, <1>5, <2>1
  <2> QED BY <1>16, <1>17, <2>1, <2>2
<1>18. ASSUME NEW s, NEW e, IsRun(s, D - 1, H), IsRun(D, e, K),
              signal[D].tone = signal[s].tone
       PROVE  Result(Run(D, e)) = Run(s, e)
  <2> DEFINE new == Run(D, e)
             old == Run(s, D - 1)
  <2>1. old \in oldTones BY <1>12, <1>18
  <2>2. Continues(old, new, CurrentStep) BY <1>4, <1>5, <1>18
  <2>3. \A x \in oldTones : x = old BY <1>11, <1>13, <1>18
  <2> HIDE DEF new, old
  <2>4. Before(new) = {old} BY <2>1, <2>2, <2>3
  <2>5. old.start <= old.start BY <1>5, <1>6, <1>18 DEF old
  <2>6. First({old}) = old BY <2>5
  <2>7. Result(new) = Joined(old, new) BY <2>4, <2>6
  <2>8. s \in Heard /\ D \in Heard /\ s \in Nat /\ e \in Nat /\ s < D /\ D <= e
    <3>1. s \in H /\ D \in K /\ s \in Nat /\ e \in Nat /\ s <= D - 1 /\ D <= e
      BY <1>6, <1>7, <1>18
    <3> QED BY <1>1, <1>2, <3>1
  <2>9. Loudness(s, e) = AtLeast(Loudness(s, D - 1), Loudness(D, e))
    BY <1>1, <2>8, LoudnessOfParts
  <2>10. old.start = s /\ old.level = Loudness(s, D - 1) BY <1>5 DEF old
  <2>11. new = [tone |-> signal[D].tone, start |-> D, end |-> e, level |-> Loudness(D, e)]
    BY DEF Run, new
  <2>12. Joined(old, new) =
           [tone |-> signal[D].tone, start |-> s, end |-> e,
            level |-> AtLeast(Loudness(s, D - 1), Loudness(D, e))]
    <3>1. Joined(old, new) = [new EXCEPT !.start = s,
                                         !.level = AtLeast(Loudness(s, D - 1), Loudness(D, e))]
      BY <2>10, <2>11 DEF Joined
    <3> QED BY <2>11, <3>1
  <2>13. Joined(old, new) = Run(s, e) BY <1>18, <2>9, <2>12 DEF Run
  <2> QED BY <2>7, <2>13 DEF new
<1> HIDE DEF found, Result
<1>19. ASSUME NEW x \in RunsOf(G) PROVE x \in Elements(tones) \/ x \in Found
  <2>1. PICK s \in Nat, e \in Nat : IsRun(s, e, G) /\ x = Run(s, e) BY <1>8
  <2>2. CASE /\ IsRun(s, e, H)
             /\ e = D - 1 => ~ (D \in K /\ signal[D].tone = signal[s].tone)
    <3>1. x \in Elements(tones) \/ x \in oldTones BY <1>6, <1>10, <2>1, <2>2
    <3>2. ASSUME x \in oldTones, NEW new \in found, Continues(x, new, CurrentStep)
          PROVE  FALSE
      <4>1. e = D - 1 BY <1>5, <1>10, <2>1, <3>2
      <4>2. PICK t \in K, f \in K : IsRun(t, f, K) /\ new = Run(t, f) BY <1>7
      <4>3. t = D /\ signal[t].tone = signal[s].tone BY <1>4, <1>5, <2>1, <3>2, <4>2
      <4> QED BY <2>2, <4>1, <4>3
    <3> QED BY <1>3, <3>1, <3>2
  <2>3. CASE /\ IsRun(s, e, K)
             /\ s = D => ~ (D - 1 \in H /\ signal[D - 1].tone = signal[s].tone)
    BY <1>3, <1>7, <1>17, <2>1, <2>3
  <2>4. CASE /\ IsRun(s, D - 1, H) /\ IsRun(D, e, K)
             /\ signal[D].tone = signal[s].tone
    BY <1>3, <1>7, <1>18, <2>1, <2>4
  <2> QED BY <1>9, <2>1, <2>2, <2>3, <2>4
<1>20. ASSUME NEW x \in Elements(tones) PROVE x \in RunsOf(G)
  <2>1. PICK s \in H, e \in H : IsRun(s, e, H) /\ x = Run(s, e) BY <1>6, <1>10
  <2>2. s \in Nat /\ e \in Nat /\ e # D - 1 BY <1>1, <1>5, <1>6, <1>10, <2>1
  <2> QED BY <1>8, <1>9, <2>1, <2>2
<1>21. ASSUME NEW x \in Found PROVE x \in RunsOf(G) /\ x.end >= D - 1
  <2>1. CASE x \in oldTones /\ \A new \in found : ~ Continues(x, new, CurrentStep)
    <3>1. PICK s \in H : IsRun(s, D - 1, H) /\ x = Run(s, D - 1) BY <1>11, <2>1
    <3>2. ~ (D \in K /\ signal[D].tone = signal[s].tone)
      <4> SUFFICES ASSUME D \in K, signal[D].tone = signal[s].tone PROVE FALSE
        OBVIOUS
      <4>1. PICK e \in K : IsRun(D, e, K) BY <1>14
      <4>2. Run(D, e) \in found BY <1>7, <4>1
      <4>3. Continues(x, Run(D, e), CurrentStep) BY <1>4, <1>5, <3>1
      <4> QED BY <2>1, <4>2, <4>3
    <3>3. s \in Nat /\ D - 1 \in Nat BY <1>6, <3>1
    <3>4. IsRun(s, D - 1, G) BY <1>9, <3>1, <3>2, <3>3
    <3> QED BY <1>5, <1>8, <3>1, <3>3, <3>4
  <2>2. CASE \E new \in found : x = Result(new)
    <3>1. PICK s \in K, e \in K : IsRun(s, e, K) /\ x = Result(Run(s, e)) BY <1>7, <2>2
    <3>2. s \in Nat /\ e \in Nat /\ s <= e /\ D <= s /\ e >= D - 1 BY <1>1, <1>7, <3>1
    <3>3. CASE s = D => ~ (D - 1 \in H /\ signal[D - 1].tone = signal[s].tone)
      <4>1. x = Run(s, e) BY <1>17, <3>1, <3>3
      <4>2. IsRun(s, e, G) BY <1>9, <3>1, <3>2, <3>3
      <4> QED BY <1>5, <1>8, <3>2, <4>1, <4>2
    <3>4. CASE s = D /\ D - 1 \in H /\ signal[D - 1].tone = signal[s].tone
      <4>1. PICK r \in H : IsRun(r, D - 1, H) BY <1>15, <3>4
      <4>2. signal[D].tone = signal[r].tone BY <1>16, <3>4, <4>1
      <4>3. x = Run(r, e) BY <1>18, <3>1, <3>4, <4>1, <4>2
      <4>4. r \in Nat BY <1>6, <4>1
      <4>5. IsRun(r, e, G) BY <1>9, <3>1, <3>2, <3>4, <4>1, <4>2, <4>4
      <4> QED BY <1>5, <1>8, <3>2, <4>3, <4>5
    <3> QED BY <3>3, <3>4
  <2> QED BY <1>3, <2>1, <2>2
<1>22. Elements(tones) \cup Found = RunsOf(G) BY <1>19, <1>20, <1>21
<1> QED BY <1>21, <1>22 DEF D, E, G

-----------------------------------------------------------------------------
(* The invariant of the tone search.                                       *)

TonesOK == tones \in Seq(Tones) /\ TonesAreRuns

LEMMA RunsAreTones ==
  ASSUME signal \in Signals, NEW n \in Nat, NEW heard, heard \subseteq 0 .. n,
         heard \subseteq Heard, NEW S, S \subseteq RunsOf(heard)
  PROVE  /\ HaveStarts(S)
         /\ \A x \in S : x \in Tones /\ x.start <= x.end /\ x.end <= n
         /\ \A x, y \in S : x.start < y.start => x.end < y.start
<1>1. \A s, e : /\ Run(s, e).tone = signal[s].tone
                /\ Run(s, e).start = s /\ Run(s, e).end = e
                /\ Run(s, e).level = Loudness(s, e)
  BY DEF Run
<1>2. \A x \in S : \E s \in heard, e \in heard : IsRun(s, e, heard) /\ s <= e /\ x = Run(s, e)
  <2> TAKE x \in S
  <2>1. PICK s \in heard, e \in heard : IsRun(s, e, heard) /\ x = Run(s, e) BY RunsOfAre
  <2> QED BY <2>1 DEF IsRun
<1>3. ASSUME NEW x \in S PROVE x \in Tones /\ x.start <= x.end /\ x.end <= n
  <2>1. PICK s \in heard, e \in heard : s <= e /\ x = Run(s, e) BY <1>2
  <2>2. s \in Nat /\ e \in Nat /\ e <= n /\ s \in Heard OBVIOUS
  <2>3. Loudness(s, e) \in Nat BY <2>1, <2>2, LoudnessOfRun
  <2>4. s \in 0 .. Length - 1 BY <2>2 DEF Heard
  <2>5. signal[s].tone \in Nat BY <2>4, PeaksAreSounds DEF Sounds
  <2>6. x \in Tones BY <2>1, <2>2, <2>3, <2>5 DEF Run, Tones
  <2> QED BY <1>1, <2>1, <2>2, <2>6
<1>4. heard \subseteq Nat OBVIOUS
<1>5. ASSUME NEW x \in S, NEW y \in S, x.start < y.start PROVE x.end < y.start
  <2>1. PICK s \in heard, e \in heard : IsRun(s, e, heard) /\ x = Run(s, e) BY <1>2
  <2>2. PICK t \in heard, f \in heard : IsRun(t, f, heard) /\ y = Run(t, f) BY <1>2
  <2>3. s < t BY <1>1, <1>5, <2>1, <2>2
  <2>4. e < t BY <1>4, <2>1, <2>2, <2>3, RunsAreApart
  <2> QED BY <1>1, <2>1, <2>2, <2>4
<1>6. ASSUME NEW x \in S, NEW y \in S, x.start = y.start PROVE x = y
  <2>1. PICK s \in heard, e \in heard : IsRun(s, e, heard) /\ x = Run(s, e) BY <1>2
  <2>2. PICK t \in heard, f \in heard : IsRun(t, f, heard) /\ y = Run(t, f) BY <1>2
  <2>3. s = t BY <1>1, <1>6, <2>1, <2>2
  <2> QED BY <1>4, <2>1, <2>2, <2>3, RunIsUnique
<1>7. IsFiniteSet(S)
  <2> DEFINE f == [x \in S |-> x.start]
  <2>1. \A x \in S : x.start \in 0 .. n
    <3> TAKE x \in S
    <3>1. PICK s \in heard, e \in heard : x = Run(s, e) BY <1>2
    <3> QED BY <1>1, <3>1
  <2>2. f \in Injection(S, 0 .. n) BY <1>6, <2>1 DEF Injection, IsInjective
  <2>3. 0 \in Int /\ n \in Int OBVIOUS
  <2>4. IsFiniteSet(0 .. n) BY <2>3, FS_Interval
  <2> QED BY <2>2, <2>4, FS_Injection
<1>8. \A x \in S : x.start \in Nat BY <1>3 DEF Tones
<1> QED BY <1>3, <1>5, <1>6, <1>7, <1>8 DEF HaveStarts

LEMMA RunsAreKept ==
  ASSUME signal' = signal
  PROVE  \A n : Runs(n)' = Runs(n)
<1>1. \A j : CoarsePeak(j)' = CoarsePeak(j) BY DEF CoarsePeak, CoarseTime
<1>2. \A t : Confirming(t)' = Confirming(t) BY <1>1 DEF Confirming, CoarseTime
<1>3. Heard' = Heard BY <1>2 DEF Heard
<1>4. \A s, e : Loudness(s, e)' = Loudness(s, e) BY <1>1, <1>2 DEF Loudness
<1>5. \A heard : Starts(heard)' = Starts(heard) BY DEF Starts
<1>6. \A heard : Ends(heard)' = Ends(heard) BY DEF Ends
<1>7. \A s, heard : EndOf(s, heard)' = EndOf(s, heard) BY <1>6 DEF EndOf
<1> QED BY <1>3, <1>4, <1>5, <1>7 DEF Runs

LEMMA TonesAreKept ==
  ASSUME TonesOK, UNCHANGED <<signal, tones, oldTones>>, fine'.done = fine.done
  PROVE  TonesOK'
<1>1. PICK n : n = fine.done OBVIOUS
<1>2. Runs(n)' = Runs(n) BY RunsAreKept
<1> QED BY <1>1, <1>2 DEF TonesOK, TonesAreRuns, Elements

\* Tones are only added.
TonesGrow ==
  /\ tones' \in Seq(Tones) /\ Len(tones) <= Len(tones')
  /\ \A i \in 1 .. Len(tones) : tones'[i] = tones[i]

LEMMA SearchKeepsTones ==
  ASSUME StreamsOK, TonesOK, SearchTones
  PROVE  TonesOK' /\ TonesGrow
<1>1. signal' = signal BY DEF SearchTones
<1>2. CASE TooShort
  <2>1. tones' = tones /\ TonesOK' BY <1>2, TonesAreKept DEF SearchTones
  <2>2. tones \in Seq(Tones) BY DEF TonesOK
  <2>3. Len(tones) \in Nat /\ Len(tones) <= Len(tones) BY <2>2
  <2> QED BY <2>1, <2>2, <2>3 DEF TonesGrow
<1>3. CASE ~ TooShort
  <2> DEFINE D == Done
             E == StepEnd
             G == Heard \cap (0 .. E - 1)
             new == {x \in Found : ~ (x.end >= E - 1)}
             w == Sorted(new)
  <2>1. /\ oldTones' = {x \in Found : x.end >= E - 1}
        /\ tones' = tones \o w
        /\ fine'.done = E
    BY <1>3, StepIsInSignal DEF SearchTones, Found, CurrentStep, StreamsOK
  <2>2. /\ D \in Nat /\ E \in Nat /\ D < E /\ E - 1 \in Nat
        /\ G \subseteq 0 .. E - 1 /\ G \subseteq Heard /\ signal \in Signals
    <3>1. D \in Nat /\ E \in Nat /\ D < E BY <1>3, StepIsInSignal DEF Done
    <3> QED BY <3>1 DEF StreamsOK
  <2>3. Elements(tones) \cup Found = RunsOf(G) /\ \A x \in Found : x.end >= D - 1
    BY <1>3, FoundAreRuns DEF TonesOK
  <2>4. \A x \in Elements(tones) : x.end < D - 1 BY DEF TonesOK, TonesAreRuns, Done
  <2>5. PICK n : n = E OBVIOUS
  <2>6. Runs(fine.done)' = RunsOf(G)
    <3>1. Runs(n)' = Runs(n) BY <1>1, RunsAreKept
    <3>2. Runs(n) = RunsOf(G) BY <2>5 DEF Runs, RunsOf, Run
    <3>3. n = fine'.done BY <2>1, <2>5
    <3> QED BY <3>1, <3>2, <3>3
  <2> HIDE DEF D, E, G
  <2>7. /\ \A x \in RunsOf(G) : x \in Tones /\ x.start <= x.end /\ x.end <= E - 1
        /\ \A x, y \in RunsOf(G) : x.start < y.start => x.end < y.start
        /\ HaveStarts(RunsOf(G))
    BY <2>2, RunsAreTones
  <2>8. new \subseteq RunsOf(G) BY <2>3
  <2>9. HaveStarts(new) BY <2>2, <2>8, RunsAreTones
  <2>10. Found \subseteq RunsOf(G) /\ Elements(tones) \subseteq RunsOf(G) BY <2>3
  <2>11. Cardinality(new) \in Nat BY <2>9, FS_CardinalityType DEF HaveStarts
  <2> HIDE DEF w, new
  <2>12. /\ w \in Seq(new) /\ Len(w) = Cardinality(new) /\ Elements(w) = new
         /\ \A i, k \in 1 .. Cardinality(new) : i < k => w[i].start < w[k].start
    BY <2>9, SortedIsSorted DEF w
  <2>13. w \in Seq(Tones)
    <3>1. new \subseteq Tones BY <2>7, <2>8
    <3> QED BY <2>12, <3>1, SeqMonotonic
  <2>14. tones \in Seq(Tones) /\ Len(tones) \in Nat BY DEF TonesOK
  <2>15. /\ tones' \in Seq(Tones) /\ Len(tones') = Len(tones) + Len(w)
         /\ \A i \in 1 .. Len(tones) : tones'[i] = tones[i]
         /\ \A i \in Len(tones) + 1 .. Len(tones) + Len(w) : tones'[i] = w[i - Len(tones)]
    BY <2>1, <2>13, <2>14
  <2>16. \A i \in 1 .. Len(tones') :
           \/ i \in 1 .. Len(tones) /\ tones'[i] = tones[i]
           \/ /\ i > Len(tones) /\ i - Len(tones) \in 1 .. Len(w)
              /\ tones'[i] = w[i - Len(tones)]
    <3> TAKE i \in 1 .. Len(tones')
    <3>1. Len(w) \in Nat BY <2>13
    <3>2. i \in 1 .. Len(tones) \/ i \in Len(tones) + 1 .. Len(tones) + Len(w)
      BY <2>14, <2>15, <3>1
    <3>3. CASE i \in Len(tones) + 1 .. Len(tones) + Len(w)
      <4>1. i > Len(tones) /\ i - Len(tones) \in 1 .. Len(w) BY <2>14, <3>1, <3>3
      <4> QED BY <2>15, <3>3, <4>1
    <3> QED BY <2>15, <3>2, <3>3
  <2>17. DOMAIN tones = 1 .. Len(tones) /\ DOMAIN w = 1 .. Len(w)
         /\ DOMAIN tones' = 1 .. Len(tones')
    BY <2>13, <2>14, <2>15
  <2>18. Elements(tones)' = Elements(tones) \cup new
    <3>1. ASSUME NEW i \in 1 .. Len(tones') PROVE tones'[i] \in Elements(tones) \cup new
      BY <2>12, <2>16, <2>17 DEF Elements
    <3>2. ASSUME NEW i \in 1 .. Len(tones)
          PROVE  i \in 1 .. Len(tones') /\ tones'[i] = tones[i]
      <4>1. Len(w) \in Nat BY <2>13
      <4> QED BY <2>14, <2>15, <4>1
    <3>3. ASSUME NEW i \in 1 .. Len(w)
          PROVE  /\ Len(tones) + i \in 1 .. Len(tones')
                 /\ tones'[Len(tones) + i] = w[i]
      <4>1. Len(w) \in Nat BY <2>13
      <4>2. /\ Len(tones) + i \in Len(tones) + 1 .. Len(tones) + Len(w)
            /\ Len(tones) + i \in 1 .. Len(tones')
            /\ Len(tones) + i - Len(tones) = i
        BY <2>14, <2>15, <4>1
      <4>3. PICK j \in Len(tones) + 1 .. Len(tones) + Len(w) : j = Len(tones) + i BY <4>2
      <4>4. tones'[j] = w[j - Len(tones)] BY <2>15
      <4> QED BY <4>2, <4>3, <4>4
    <3>4. Elements(tones) \subseteq Elements(tones)' BY <2>17, <3>2 DEF Elements
    <3>5. new \subseteq Elements(tones)' BY <2>12, <2>17, <3>3 DEF Elements
    <3>6. Elements(tones)' \subseteq Elements(tones) \cup new BY <2>17, <3>1 DEF Elements
    <3> QED BY <3>4, <3>5, <3>6
  <2>19. (Elements(tones) \cup oldTones = Runs(fine.done))'
    <3>1. Found = new \cup oldTones' BY <2>1 DEF new
    <3> QED BY <2>3, <2>6, <2>18, <3>1
  <2>20. ASSUME NEW x \in Elements(tones), NEW y \in new PROVE x.start < y.start
    <3>1. x \in RunsOf(G) /\ y \in RunsOf(G) BY <2>8, <2>10
    <3>2. x.end < D - 1 /\ y.end >= D - 1 BY <2>3, <2>4 DEF new
    <3>3. x \in Tones /\ y \in Tones /\ x.start <= x.end /\ y.start <= y.end BY <2>7, <3>1
    <3>4. x.start \in Nat /\ x.end \in Nat /\ y.start \in Nat /\ y.end \in Nat
      BY <3>3 DEF Tones
    <3>5. x.start # y.start
      <4>1. x.start = y.start => x = y BY <2>7, <3>1 DEF HaveStarts
      <4> QED BY <2>2, <3>2, <3>4, <4>1
    <3>6. ~ (y.start < x.start)
      <4>1. y.start < x.start => y.end < x.start BY <2>7, <3>1
      <4> QED BY <2>2, <3>2, <3>3, <3>4, <4>1
    <3> QED BY <3>4, <3>5, <3>6
  <2>21. (\A i, k \in DOMAIN tones : i < k => tones[i].start < tones[k].start)'
    <3> SUFFICES ASSUME NEW i \in 1 .. Len(tones'), NEW k \in 1 .. Len(tones'), i < k
                 PROVE  tones'[i].start < tones'[k].start
      BY <2>17
    <3>1. CASE i \in 1 .. Len(tones) /\ k \in 1 .. Len(tones)
      <4>1. tones[i].start < tones[k].start
        BY <2>17, <3>1 DEF TonesOK, TonesAreRuns
      <4> QED BY <2>15, <3>1, <4>1
    <3>2. CASE /\ i \in 1 .. Len(tones) /\ k > Len(tones)
               /\ k - Len(tones) \in 1 .. Len(w) /\ tones'[k] = w[k - Len(tones)]
      <4>1. tones'[i] \in Elements(tones) /\ tones'[k] \in new
        BY <2>12, <2>15, <2>17, <3>2 DEF Elements
      <4> QED BY <2>20, <4>1
    <3>3. CASE /\ i > Len(tones)
               /\ i - Len(tones) \in 1 .. Len(w) /\ tones'[i] = w[i - Len(tones)]
      <4>1. ~ (k \in 1 .. Len(tones)) BY <2>14, <3>3
      <4>2. k - Len(tones) \in 1 .. Len(w) /\ tones'[k] = w[k - Len(tones)]
        BY <2>16, <4>1
      <4>3. i - Len(tones) < k - Len(tones) BY <2>14, <2>15
      <4> QED BY <2>12, <3>3, <4>2, <4>3
    <3> QED BY <2>16, <3>1, <3>2, <3>3
  <2>22. (\A x \in Elements(tones) : x.end < fine.done - 1)'
    <3>1. \A x \in Elements(tones) : x.end < E - 1
      <4> TAKE x \in Elements(tones)
      <4>1. x.end \in Nat BY <2>7, <2>10 DEF Tones
      <4> QED BY <2>2, <2>4, <4>1
    <3>2. \A x \in new : x.end < E - 1
      <4> TAKE x \in new
      <4>1. x.end \in Nat BY <2>7, <2>8 DEF Tones
      <4> QED BY <2>2, <4>1 DEF new
    <3>3. fine'.done = E BY <2>1 DEF E
    <3> QED BY <2>18, <3>1, <3>2, <3>3
  <2>23. (\A x \in oldTones : x.end = fine.done - 1)'
    <3>1. ASSUME NEW x \in oldTones' PROVE x.end = E - 1
      <4>1. x \in Found /\ x.end >= E - 1 BY <2>1 DEF E
      <4>2. x.end \in Nat /\ x.end <= E - 1 BY <2>7, <2>10, <4>1 DEF Tones
      <4> QED BY <2>2, <4>1, <4>2
    <3>2. fine'.done = E BY <2>1 DEF E
    <3> QED BY <3>1, <3>2
  <2>24. Len(tones) <= Len(tones')
    <3>1. Len(w) \in Nat BY <2>13
    <3> QED BY <2>14, <2>15, <3>1
  <2> QED BY <2>15, <2>19, <2>21, <2>22, <2>23, <2>24 DEF TonesOK, TonesAreRuns, TonesGrow
<1> QED BY <1>2, <1>3

LEMMA PutKeepsStream ==
  ASSUME NEW stream \in [put : Nat, read : Nat, done : Nat], NEW n \in Nat,
         NEW length \in Nat, stream.put <= length
  PROVE  /\ Put(stream, n, length) \in [put : Nat, read : Nat, done : Nat]
         /\ Put(stream, n, length).read = stream.read
         /\ Put(stream, n, length).done = stream.done
         /\ stream.put <= Put(stream, n, length).put
         /\ Put(stream, n, length).put <= length
<1> DEFINE put == AtMost(stream.put + n, length)
<1>1. stream.put \in Nat OBVIOUS
<1>2. put \in Nat /\ stream.put <= put /\ put <= length BY <1>1 DEF AtMost
<1>3. Put(stream, n, length) = [stream EXCEPT !.put = put] BY DEF Put
<1> HIDE DEF put
<1> QED BY <1>2, <1>3

LEMMA StreamsAreKept ==
  ASSUME StreamsOK, [Next]_vars
  PROVE  StreamsOK'
<1>1. /\ NumNeighbours \in Nat /\ Length \in Nat /\ CoarseLength \in Nat
  BY SearchAssumption
<1>2. /\ fine \in [put : Nat, read : Nat, done : Nat]
      /\ coarse \in [put : Nat, read : Nat, done : Nat]
      /\ fine.put \in Nat /\ fine.read \in Nat /\ fine.done \in Nat
      /\ coarse.put \in Nat /\ coarse.read \in Nat /\ coarse.done \in Nat
      /\ fine.put <= Length /\ coarse.put <= CoarseLength
  BY DEF StreamsOK
<1>3. CASE UNCHANGED <<signal, fine, coarse>>
  BY <1>3 DEF StreamsOK, CoarseTime
<1>4. CASE PutFrequencyStream
  <2>1. PICK n \in FineBatches, m \in CoarseBatches :
          /\ fine' = Put(fine, n, Length)
          /\ coarse' = Put(coarse, m, CoarseLength)
    BY <1>4 DEF PutFrequencyStream
  <2>2. n \in Nat /\ m \in Nat BY SearchAssumption
  <2>3. /\ fine' \in [put : Nat, read : Nat, done : Nat]
        /\ fine'.read = fine.read /\ fine'.done = fine.done
        /\ fine.put <= fine'.put /\ fine'.put <= Length
    BY <1>1, <1>2, <2>1, <2>2, PutKeepsStream
  <2>4. /\ coarse' \in [put : Nat, read : Nat, done : Nat]
        /\ coarse'.read = coarse.read /\ coarse'.done = coarse.done
        /\ coarse.put <= coarse'.put /\ coarse'.put <= CoarseLength
    BY <1>1, <1>2, <2>1, <2>2, PutKeepsStream
  <2>5. signal' = signal BY <1>4 DEF PutFrequencyStream
  <2>6. fine'.put \in Nat /\ coarse'.put \in Nat BY <2>3, <2>4
  <2>7. fine'.read <= fine'.put /\ coarse'.read <= coarse'.put
    BY <1>2, <2>3, <2>4, <2>6 DEF StreamsOK
  <2>8. CoarseTime(coarse.done)' = CoarseTime(coarse.done) BY <2>4 DEF CoarseTime
  <2> QED BY <2>3, <2>4, <2>5, <2>7, <2>8 DEF StreamsOK
<1>5. CASE ReadFrequencyStream
  <2>1. fine' = [fine EXCEPT !.read = fine.put] /\ coarse' = [coarse EXCEPT !.read = coarse.put]
        /\ signal' = signal
    BY <1>5 DEF ReadFrequencyStream, Read
  <2>2. /\ fine' \in [put : Nat, read : Nat, done : Nat]
        /\ coarse' \in [put : Nat, read : Nat, done : Nat]
        /\ fine'.read = fine.put /\ fine'.put = fine.put /\ fine'.done = fine.done
        /\ coarse'.read = coarse.put /\ coarse'.put = coarse.put
        /\ coarse'.done = coarse.done
    BY <1>2, <2>1
  <2>3. fine.done <= fine.put /\ coarse.done <= coarse.put BY <1>2 DEF StreamsOK
  <2>4. CoarseTime(coarse.done)' = CoarseTime(coarse.done) BY <2>2 DEF CoarseTime
  <2> QED BY <1>2, <2>1, <2>2, <2>3, <2>4 DEF StreamsOK
<1>6. CASE SearchTones /\ ~ TooShort
  <2> DEFINE T == {coarse.done} \cup {j \in CoarseCurrent : CoarseTime(j) <= StepEnd - NumNeighbours}
             c == CoarseKeptFrom
  <2>1. /\ fine' = [fine EXCEPT !.done = StepEnd]
        /\ coarse' = [coarse EXCEPT !.done = c]
        /\ signal' = signal
    BY <1>6 DEF SearchTones
  <2>2. StepEnd \in Nat /\ fine.done < StepEnd /\ StepEnd <= fine.read
    <3>1. StepEnd \in Nat /\ fine.done < StepEnd /\ StepEnd + NumNeighbours < fine.read
      BY <1>6, StepIsInSignal
    <3> QED BY <1>1, <1>2, <3>1
  <2>3. T \subseteq 0 .. coarse.read /\ T # {}
    BY <1>2 DEF CoarseCurrent, StreamsOK
  <2>4. c \in T BY <1>2, <2>3, LargestIsGreatest DEF CoarseKeptFrom
  <2> HIDE DEF c
  <2>5. c \in Nat /\ c <= coarse.read BY <1>2, <2>3, <2>4
  <2>6. /\ fine' \in [put : Nat, read : Nat, done : Nat]
        /\ coarse' \in [put : Nat, read : Nat, done : Nat]
        /\ fine'.read = fine.read /\ fine'.put = fine.put /\ fine'.done = StepEnd
        /\ coarse'.read = coarse.read /\ coarse'.put = coarse.put
        /\ coarse'.done = c
    BY <1>2, <2>1, <2>2, <2>5
  <2>7. c = 0 \/ CoarseTime(c) + NumNeighbours <= StepEnd
    <3>1. CASE c = coarse.done
      <4>1. CoarseTime(c) \in Nat BY <2>5, CoarseTimesGrow
      <4>2. c = 0 \/ CoarseTime(c) + NumNeighbours <= fine.done BY <3>1 DEF StreamsOK
      <4> QED BY <1>1, <1>2, <2>2, <4>1, <4>2
    <3>2. CASE CoarseTime(c) <= StepEnd - NumNeighbours
      <4>1. CoarseTime(c) \in Nat BY <2>5, CoarseTimesGrow
      <4> QED BY <1>1, <2>2, <3>2, <4>1
    <3> QED BY <2>4, <3>1, <3>2
  <2>8. CoarseTime(coarse.done)' = CoarseTime(c) BY <2>6 DEF CoarseTime
  <2> QED BY <1>2, <2>1, <2>2, <2>5, <2>6, <2>7, <2>8 DEF StreamsOK
<1> QED
  BY <1>3, <1>4, <1>5, <1>6
  DEF Next, AnalysisThread, ToneSearchThread, SequenceSearchThread, SearchTones,
      PutTonesStream, ReadTones, SearchSequences, vars, toneVars

-----------------------------------------------------------------------------
(* The search for sequences.                                               *)

CodeAt(i) == [n \in 1 .. CodeLength |-> tones[i + n - 1].tone + 1]

\* No window reaches beyond the tones that were read.
WindowsOK ==
  /\ given \in 0 .. Len(tones) /\ read \in 0 .. given /\ erased \in Nat
  /\ codeThread = "searching" => erased + CodeLength <= read
  /\ erased > 0 => erased + CodeLength <= read + 1

\* The last report is the one that lastCode and startTimeLast are of.
LastIsReported ==
  \/ last = {} /\ foundCodes = <<>>
  \/ \E k \in 1 .. erased :
       /\ IsCall(k)
       /\ last = {[code |-> CodeAt(k), start |-> tones[k].start]}
       /\ Len(foundCodes) > 0
       /\ foundCodes[Len(foundCodes)].start = tones[k].start

ReportsOK ==
  /\ foundCodes \in Seq(Elements(foundCodes))
  /\ ReportsAreExact
  /\ LastIsReported

LEMMA WindowIsInOrder ==
  ASSUME TonesOK, WindowsOK, codeThread = "searching"
  PROVE  /\ Window \in Seq(Tones) /\ Len(Window) = CodeLength
         /\ \A n \in 1 .. CodeLength : erased + n \in DOMAIN tones /\ Window[n] = tones[erased + n]
         /\ InOrder(Window)
<1>1. /\ tones \in Seq(Tones) /\ Len(tones) \in Nat /\ DOMAIN tones = 1 .. Len(tones)
      /\ CodeLength \in Nat /\ CodeLength > 0
  BY SearchAssumption DEF TonesOK
<1>2. erased \in Nat /\ erased + CodeLength <= Len(tones) BY <1>1 DEF WindowsOK
<1>3. /\ erased + 1 \in 1 .. Len(tones) + 1 /\ erased + CodeLength \in erased .. Len(tones)
      /\ \A n \in 1 .. CodeLength : erased + n \in 1 .. Len(tones)
  BY <1>1, <1>2
<1>4. /\ Window \in Seq(Tones) /\ Len(Window) = CodeLength
      /\ \A n \in 1 .. CodeLength : Window[n] = tones[erased + n]
  BY <1>1, <1>2, <1>3 DEF Window
<1>5. DOMAIN Window = 1 .. CodeLength BY <1>1, <1>4
<1>6. InOrder(Window)
  <2> SUFFICES ASSUME NEW i \in 1 .. CodeLength, NEW k \in 1 .. CodeLength, i < k
               PROVE  Window[i].start < Window[k].start
    BY <1>5 DEF InOrder
  <2>1. erased + i < erased + k BY <1>2
  <2>2. erased + i \in DOMAIN tones /\ erased + k \in DOMAIN tones BY <1>1, <1>3
  <2>3. tones[erased + i].start < tones[erased + k].start
    BY <2>1, <2>2 DEF TonesOK, TonesAreRuns
  <2> QED BY <1>4, <2>3
<1> QED BY <1>1, <1>3, <1>4, <1>6

\* A window is found to be a sequence when its tones are a call, none of
\* them left out.
LEMMA SequencesAreCalls ==
  ASSUME TonesOK, WindowsOK, codeThread = "searching"
  PROVE  /\ IsSequence(FindTones(Window)) <=> IsCall(erased + 1)
         /\ IsCall(erased + 1) =>
              /\ Code(FindTones(Window)) = CodeAt(erased + 1)
              /\ FindTones(Window)[1].start = tones[erased + 1].start
<1> DEFINE i == erased + 1
           C == CodeLength
           W == Window
           S == Elements(W)
           P == {x \in S : IsProper(ToneLength(x))}
           found == FindTones(W)
<1>1. C \in Nat /\ C > 0 /\ erased \in Nat /\ i \in Nat
  <2>1. C \in Nat /\ C > 0 BY SearchAssumption
  <2>2. erased \in Nat BY DEF WindowsOK
  <2> QED BY <2>1, <2>2
<1>2. /\ W \in Seq(Tones) /\ Len(W) = C /\ InOrder(W)
      /\ \A n \in 1 .. C : W[n] = tones[erased + n]
  BY WindowIsInOrder
<1>3. \A x \in Tones : x.start \in Nat BY DEF Tones
<1>4. HaveStarts(S) /\ Cardinality(S) = C /\ Sorted(S) = W BY <1>2, <1>3, SortedIsUnique
<1>5. DOMAIN W = 1 .. C BY <1>1, <1>2
<1>6. HaveStarts(P)
  <2>1. P \in SUBSET S OBVIOUS
  <2>2. IsFiniteSet(P) BY <1>4, <2>1, FS_Subset DEF HaveStarts
  <2> QED BY <1>4, <2>1, <2>2 DEF HaveStarts
<1>7. found = Sorted(P) BY DEF FindTones
<1>8. Len(found) = Cardinality(P) BY <1>6, <1>7, SortedIsSorted
<1> HIDE DEF found, W, C, P
<1>9. Len(found) = C => P = S
  <2>1. P \in SUBSET S BY DEF P
  <2>2. IsFiniteSet(S) BY <1>4 DEF HaveStarts
  <2> QED BY <1>4, <1>8, <2>1, <2>2, FS_Subset
<1>10. P = S => found = W BY <1>4, <1>7
<1>11. \A k : k \in i .. i + C - 1 <=> \E n \in 1 .. C : k = erased + n
  <2> TAKE k
  <2>1. ASSUME k \in i .. i + C - 1 PROVE \E n \in 1 .. C : k = erased + n
    <3>1. k - erased \in 1 .. C /\ k = erased + (k - erased) BY <1>1, <2>1
    <3> QED BY <3>1
  <2>2. \A n \in 1 .. C : erased + n \in i .. i + C - 1 BY <1>1
  <2> QED BY <2>1, <2>2
<1>12. P = S <=> \A n \in 1 .. C : IsProper(ToneLength(tones[erased + n]))
  <2>1. P = S <=> \A x \in S : IsProper(ToneLength(x)) BY DEF P
  <2>2. S = {W[n] : n \in 1 .. C} BY <1>5 DEF Elements
  <2> QED BY <1>2, <2>1, <2>2
<1>13. P = S <=> \A k \in i .. i + C - 1 : IsProper(ToneLength(tones[k]))
  BY <1>11, <1>12
\* The period of a tone of proper length is proper unless it is too long.
<1>14. ASSUME P = S, NEW n \in 1 .. C - 1
       PROVE  IsProper(Period(W, n)) <=>
                tones[erased + n + 1].start - tones[erased + n].start < MaxLength
  <2>1. n \in 1 .. C /\ n + 1 \in 1 .. C /\ erased + (n + 1) = erased + n + 1 BY <1>1
  <2>2. W[n] = tones[erased + n] /\ W[n + 1] = tones[erased + n + 1] BY <1>2, <2>1
  <2>3. W[n] \in Tones /\ W[n + 1] \in Tones BY <1>2, <1>5, <2>1
  <2> DEFINE d == W[n + 1].start - W[n].start
             l == ToneLength(W[n])
  <2>4. d \in Int /\ l \in Int
    <3>1. ExcessTime \in Nat BY SearchAssumption
    <3> QED BY <2>3, <3>1 DEF Tones, ToneLength
  <2>5. IsProper(l) BY <1>12, <1>14, <2>1, <2>2
  <2>6. Period(W, n) = AtLeast(d, l) BY DEF Period
  <2> HIDE DEF d, l
  <2>7. MinLength \in Nat /\ MaxLength \in Nat BY SearchAssumption
  <2>8. IsProper(AtLeast(d, l)) <=> d < MaxLength BY <2>4, <2>5, <2>7 DEF IsProper, AtLeast
  <2> QED BY <2>2, <2>6, <2>8 DEF d
<1>15. ASSUME P = S
       PROVE  (\A n \in 1 .. C - 1 : IsProper(Period(W, n))) <=>
              (\A k \in i .. i + C - 2 : tones[k + 1].start - tones[k].start < MaxLength)
  <2>1. \A n \in 1 .. C - 1 : erased + n \in i .. i + C - 2 BY <1>1
  <2>2. \A k \in i .. i + C - 2 : k - erased \in 1 .. C - 1 /\ erased + (k - erased) = k
    BY <1>1
  <2>3. ASSUME \A n \in 1 .. C - 1 : IsProper(Period(W, n)), NEW k \in i .. i + C - 2
        PROVE  tones[k + 1].start - tones[k].start < MaxLength
    <3>1. PICK n \in 1 .. C - 1 : n = k - erased /\ erased + n = k BY <2>2
    <3> QED BY <1>14, <1>15, <2>3, <3>1
  <2> QED BY <1>14, <1>15, <2>1, <2>3
<1>16. (\A n \in 2 .. C : IsLoudAs(W[1], W[n])) <=>
       (\A k \in i + 1 .. i + C - 1 : IsLoudAs(tones[i], tones[k]))
  <2>1. \A n \in 2 .. C : n \in 1 .. C /\ erased + n \in i + 1 .. i + C - 1 BY <1>1
  <2>2. \A k \in i + 1 .. i + C - 1 : k - erased \in 2 .. C /\ erased + (k - erased) = k
    BY <1>1
  <2>3. 1 \in 1 .. C /\ W[1] = tones[i] BY <1>1, <1>2
  <2>4. \A n \in 2 .. C : W[n] = tones[erased + n] BY <1>2, <2>1
  <2> QED BY <2>1, <2>2, <2>3, <2>4
<1>17. IsSequence(found) <=> IsCall(i)
  <2>1. ASSUME IsSequence(found) PROVE IsCall(i)
    <3>1. P = S /\ found = W BY <1>9, <1>10, <2>1 DEF IsSequence, C
    <3> QED BY <1>13, <1>15, <1>16, <2>1, <3>1 DEF IsSequence, IsCall, C
  <2>2. ASSUME IsCall(i) PROVE IsSequence(found)
    <3>1. P = S /\ found = W BY <1>10, <1>13, <2>2 DEF IsCall, C
    <3> QED BY <1>2, <1>15, <1>16, <2>2, <3>1 DEF IsSequence, IsCall, C
  <2> QED BY <2>1, <2>2
<1>18. ASSUME IsCall(i)
       PROVE  Code(found) = CodeAt(i) /\ found[1].start = tones[i].start
  <2>1. found = W BY <1>10, <1>13, <1>18 DEF IsCall, C
  <2>2. Code(W) = [n \in 1 .. C |-> tones[erased + n].tone + 1] BY <1>2, <1>5 DEF Code
  <2>3. \A n \in 1 .. C : i + n - 1 = erased + n BY <1>1
  <2>4. CodeAt(i) = [n \in 1 .. C |-> tones[erased + n].tone + 1]
    BY <2>3 DEF CodeAt, C
  <2>5. 1 \in 1 .. C /\ W[1] = tones[i] BY <1>1, <1>2
  <2> QED BY <2>1, <2>2, <2>4, <2>5
<1> QED BY <1>17, <1>18 DEF found, W

LEMMA SameCodes ==
  ASSUME TonesOK, NEW i \in Nat, NEW k \in Nat, 0 < i, 0 < k,
         i + CodeLength <= Len(tones) + 1, k + CodeLength <= Len(tones) + 1
  PROVE  CodeAt(i) = CodeAt(k) <=> SameCall(i, k)
<1>1. CodeLength \in Nat /\ tones \in Seq(Tones) /\ Len(tones) \in Nat
  BY SearchAssumption DEF TonesOK
<1>2. \A n \in 1 .. CodeLength : i + n - 1 \in 1 .. Len(tones) /\ k + n - 1 \in 1 .. Len(tones)
  BY <1>1
<1>3. \A n \in 1 .. CodeLength : tones[i + n - 1].tone \in Nat /\ tones[k + n - 1].tone \in Nat
  <2>1. \A m \in 1 .. Len(tones) : tones[m] \in Tones BY <1>1
  <2>2. \A x \in Tones : x.tone \in Nat BY DEF Tones
  <2> QED BY <1>2, <2>1, <2>2
<1>4. CodeAt(i) = CodeAt(k) <=>
        \A n \in 1 .. CodeLength : tones[i + n - 1].tone = tones[k + n - 1].tone
  <2>1. ASSUME CodeAt(i) = CodeAt(k), NEW n \in 1 .. CodeLength
        PROVE  tones[i + n - 1].tone = tones[k + n - 1].tone
    <3>1. CodeAt(i)[n] = CodeAt(k)[n] BY <2>1
    <3>2. tones[i + n - 1].tone + 1 = tones[k + n - 1].tone + 1 BY <3>1 DEF CodeAt
    <3>3. tones[i + n - 1].tone \in Nat /\ tones[k + n - 1].tone \in Nat BY <1>3
    <3>4. PICK t \in Nat : t = tones[i + n - 1].tone BY <3>3
    <3>5. PICK u \in Nat : u = tones[k + n - 1].tone BY <3>3
    <3>6. t + 1 = u + 1 BY <3>2, <3>4, <3>5
    <3>7. t = u BY <3>6
    <3> QED BY <3>4, <3>5, <3>7
  <2> QED BY <2>1 DEF CodeAt
<1>5. \A n \in 0 .. CodeLength - 1 :
        n + 1 \in 1 .. CodeLength /\ i + (n + 1) - 1 = i + n /\ k + (n + 1) - 1 = k + n
  BY <1>1
<1>6. \A n \in 1 .. CodeLength :
        n - 1 \in 0 .. CodeLength - 1 /\ i + n - 1 = i + (n - 1) /\ k + n - 1 = k + (n - 1)
  BY <1>1
<1>7. ASSUME \A n \in 1 .. CodeLength : tones[i + n - 1].tone = tones[k + n - 1].tone
      PROVE  SameCall(i, k)
  <2>1. ASSUME NEW n \in 0 .. CodeLength - 1 PROVE tones[i + n].tone = tones[k + n].tone
    <3>1. PICK m \in 1 .. CodeLength : m = n + 1 /\ i + m - 1 = i + n /\ k + m - 1 = k + n
      BY <1>5
    <3> QED BY <1>7, <3>1
  <2> QED BY <2>1 DEF SameCall
<1>8. ASSUME SameCall(i, k), NEW n \in 1 .. CodeLength
      PROVE  tones[i + n - 1].tone = tones[k + n - 1].tone
  <2>1. PICK m \in 0 .. CodeLength - 1 : m = n - 1 /\ i + n - 1 = i + m /\ k + n - 1 = k + m
    BY <1>6
  <2> QED BY <1>8, <2>1 DEF SameCall
<1> QED BY <1>4, <1>7, <1>8

LEMMA CallsAreKept ==
  ASSUME TonesOK, WindowsOK, TonesGrow
  PROVE  \A i \in 1 .. erased :
           /\ IsCall(i)' <=> IsCall(i)
           /\ CodeAt(i)' = CodeAt(i)
           /\ tones'[i] = tones[i]
           /\ \A k \in 1 .. erased : SameCall(i, k)' <=> SameCall(i, k)
<1>1. /\ CodeLength \in Nat /\ CodeLength > 0 /\ tones \in Seq(Tones) /\ Len(tones) \in Nat
      /\ erased \in Nat
  BY SearchAssumption DEF TonesOK, WindowsOK
<1>2. erased > 0 => erased + CodeLength <= Len(tones) + 1 BY <1>1 DEF WindowsOK
<1>3. ASSUME NEW i \in 1 .. erased, NEW m \in 0 .. CodeLength - 1
      PROVE  tones'[i + m] = tones[i + m]
  <2>1. i + m \in 1 .. Len(tones) BY <1>1, <1>2
  <2> QED BY <2>1 DEF TonesGrow
<1>4. ASSUME NEW i \in 1 .. erased, NEW k \in i .. i + CodeLength - 1
      PROVE  tones'[k] = tones[k]
  <2>1. k - i \in 0 .. CodeLength - 1 /\ i + (k - i) = k BY <1>1
  <2> QED BY <1>3, <2>1
<1> TAKE i \in 1 .. erased
<1>5. i \in i .. i + CodeLength - 1 BY <1>1
<1>6. tones'[i] = tones[i] BY <1>4, <1>5
<1>7. \A k \in i .. i + CodeLength - 2 :
        k \in i .. i + CodeLength - 1 /\ k + 1 \in i .. i + CodeLength - 1
  BY <1>1
<1>8. \A k \in i + 1 .. i + CodeLength - 1 : k \in i .. i + CodeLength - 1 BY <1>1
<1>9. IsCall(i)' <=> IsCall(i)
  <2>1. (\A k \in i .. i + CodeLength - 1 : IsProper(ToneLength(tones[k])))'
          <=> \A k \in i .. i + CodeLength - 1 : IsProper(ToneLength(tones[k]))
    BY <1>4 DEF IsProper, ToneLength
  <2>2. (\A k \in i .. i + CodeLength - 2 : tones[k + 1].start - tones[k].start < MaxLength)'
          <=> \A k \in i .. i + CodeLength - 2 : tones[k + 1].start - tones[k].start < MaxLength
    BY <1>4, <1>7
  <2>3. (\A k \in i + 1 .. i + CodeLength - 1 : IsLoudAs(tones[i], tones[k]))'
          <=> \A k \in i + 1 .. i + CodeLength - 1 : IsLoudAs(tones[i], tones[k])
    BY <1>4, <1>6, <1>8 DEF IsLoudAs
  <2> QED BY <2>1, <2>2, <2>3 DEF IsCall
<1>10. CodeAt(i)' = CodeAt(i)
  <2>1. \A n \in 1 .. CodeLength : i + n - 1 \in i .. i + CodeLength - 1 BY <1>1
  <2>2. \A n \in 1 .. CodeLength : tones'[i + n - 1] = tones[i + n - 1] BY <1>4, <2>1
  <2> QED BY <2>2 DEF CodeAt
<1>11. ASSUME NEW k \in 1 .. erased PROVE SameCall(i, k)' <=> SameCall(i, k)
  BY <1>3 DEF SameCall
<1> QED BY <1>6, <1>9, <1>10, <1>11

LEMMA ReportsAreKept ==
  ASSUME TonesOK, WindowsOK, ReportsOK, TonesGrow, UNCHANGED <<erased, last, foundCodes>>
  PROVE  ReportsOK'
<1>1. \A i \in 1 .. erased :
           /\ IsCall(i)' <=> IsCall(i)
           /\ CodeAt(i)' = CodeAt(i)
           /\ tones'[i] = tones[i]
           /\ \A k \in 1 .. erased : SameCall(i, k)' <=> SameCall(i, k)
  BY CallsAreKept
<1>2. \A i \in 1 .. erased : Reported(i)' <=> Reported(i) BY <1>1 DEF Reported
<1>3. erased \in Nat BY DEF WindowsOK
<1>4. (\A n, m \in DOMAIN foundCodes : n < m => foundCodes[n].start < foundCodes[m].start)'
  BY DEF ReportsOK, ReportsAreExact
<1>5. (\A n \in DOMAIN foundCodes :
         \E i \in 1 .. erased : IsCall(i) /\ tones[i].start = foundCodes[n].start)'
  BY <1>1 DEF ReportsOK, ReportsAreExact
<1>6. ASSUME NEW i \in 1 .. erased
      PROVE  (IsCall(i) =>
               (Reported(i) <=>
                 ~ \E k \in 1 .. i - 1 :
                     /\ Reported(k) /\ SameCall(i, k)
                     /\ tones[i].start - tones[k].start <= DeltaTMaxTwice
                     /\ \A m \in k + 1 .. i - 1 : ~ Reported(m)))'
  <2>1. \A k \in 1 .. i - 1 : k \in 1 .. erased BY <1>3
  <2>2. \A k \in 1 .. i - 1 : \A m \in k + 1 .. i - 1 : m \in 1 .. erased BY <1>3
  <2>3. \A k \in 1 .. i - 1 :
          /\ Reported(k)' <=> Reported(k)
          /\ SameCall(i, k)' <=> SameCall(i, k)
          /\ tones'[k] = tones[k]
          /\ \A m \in k + 1 .. i - 1 : Reported(m)' <=> Reported(m)
    BY <1>1, <1>2, <2>1, <2>2
  <2>4. tones'[i] = tones[i] /\ (IsCall(i)' <=> IsCall(i)) /\ (Reported(i)' <=> Reported(i))
    BY <1>1, <1>2
  <2>5. IsCall(i) =>
               (Reported(i) <=>
                 ~ \E k \in 1 .. i - 1 :
                     /\ Reported(k) /\ SameCall(i, k)
                     /\ tones[i].start - tones[k].start <= DeltaTMaxTwice
                     /\ \A m \in k + 1 .. i - 1 : ~ Reported(m))
    BY DEF ReportsOK, ReportsAreExact
  <2> QED BY <2>3, <2>4, <2>5
<1>7. ReportsAreExact' BY <1>4, <1>5, <1>6 DEF ReportsAreExact
<1>8. LastIsReported' BY <1>1 DEF ReportsOK, LastIsReported
<1>9. (foundCodes \in Seq(Elements(foundCodes)))' BY DEF ReportsOK, Elements
<1> QED BY <1>7, <1>8, <1>9 DEF ReportsOK

LEMMA WindowsAreKept ==
  ASSUME TonesOK, WindowsOK, TonesGrow, [Next]_vars
  PROVE  WindowsOK'
<1>1. /\ CodeLength \in Nat /\ CodeLength > 0 /\ tones \in Seq(Tones)
      /\ Len(tones) \in Nat /\ Len(tones') \in Nat /\ Len(tones) <= Len(tones')
  <2>1. CodeLength \in Nat /\ CodeLength > 0 BY SearchAssumption
  <2>2. tones \in Seq(Tones) /\ Len(tones) \in Nat BY DEF TonesOK
  <2>3. Len(tones') \in Nat /\ Len(tones) <= Len(tones') BY DEF TonesGrow
  <2> QED BY <2>1, <2>2, <2>3
<1>2. /\ given \in Nat /\ read \in Nat /\ erased \in Nat
      /\ given <= Len(tones) /\ read <= given
  BY <1>1 DEF WindowsOK
<1>3. CASE UNCHANGED <<given, codeVars>>
  BY <1>1, <1>2, <1>3 DEF WindowsOK, codeVars
<1>4. CASE PutTonesStream
  <2>1. /\ given' = Len(tones) /\ tones' = tones /\ UNCHANGED <<read, erased>>
        /\ codeThread' = "searching" => codeThread = "searching"
    BY <1>4 DEF PutTonesStream, Woken, toneVars
  <2> QED BY <1>1, <1>2, <2>1 DEF WindowsOK
<1>5. CASE ReadTones
  <2>1. /\ read' = given /\ UNCHANGED <<given, erased, tones>>
        /\ codeThread' = "searching" => given - erased >= CodeLength
    BY <1>5 DEF ReadTones, toneVars
  <2> QED BY <1>1, <1>2, <2>1 DEF WindowsOK
<1>6. CASE SearchSequences
  <2>1. /\ codeThread = "searching" /\ codeThread' = "reading" /\ erased' = erased + 1
        /\ UNCHANGED <<given, read, tones>>
    BY <1>6 DEF SearchSequences, toneVars
  <2> QED BY <1>1, <1>2, <2>1 DEF WindowsOK
<1> QED
  BY <1>3, <1>4, <1>5, <1>6
  DEF Next, AnalysisThread, ToneSearchThread, SequenceSearchThread, PutFrequencyStream,
      ReadFrequencyStream, SearchTones, vars

\* With no tones added, only the last call that is looked at matters.
LEMMA SearchKeepsReports ==
  ASSUME TonesOK, WindowsOK, ReportsOK, SearchSequences
  PROVE  ReportsOK'
<1>0. PICK i : i = erased + 1 OBVIOUS
<1> DEFINE n == Len(foundCodes)
           found == FindTones(Window)
           entry == [start |-> found[1].start, code |-> Digits(Code(found))]
           Start(k) == tones[k].start
           Soon(k, l) == tones[l].start - tones[k].start <= DeltaTMaxTwice
           Before(j) == \E k \in 1 .. j - 1 :
                          /\ Reported(k) /\ SameCall(j, k) /\ Soon(k, j)
                          /\ \A m \in k + 1 .. j - 1 : ~ Reported(m)
<1>1. /\ codeThread = "searching" /\ erased' = i /\ tones' = tones
  BY <1>0 DEF SearchSequences, toneVars
<1>2. /\ tones \in Seq(Tones) /\ Len(tones) \in Nat /\ erased \in Nat /\ i \in Nat
      /\ CodeLength \in Nat /\ CodeLength > 0 /\ DeltaTMaxTwice \in Nat
      /\ erased + CodeLength <= Len(tones) /\ i \in 1 .. Len(tones) /\ i \in 1 .. i
  <2>1. /\ tones \in Seq(Tones) /\ Len(tones) \in Nat /\ erased \in Nat
        /\ CodeLength \in Nat /\ CodeLength > 0 /\ DeltaTMaxTwice \in Nat
    BY SearchAssumption DEF TonesOK, WindowsOK
  <2>2. erased + CodeLength <= Len(tones) BY <1>1, <2>1 DEF WindowsOK
  <2> QED BY <1>0, <2>1, <2>2
<1>3. /\ foundCodes \in Seq(Elements(foundCodes)) /\ n \in Nat
      /\ DOMAIN foundCodes = 1 .. n
  BY DEF ReportsOK
<1>4. \A k \in 1 .. Len(tones) : Start(k) \in Nat
  <2>1. \A k \in 1 .. Len(tones) : tones[k] \in Tones BY <1>2
  <2>2. \A x \in Tones : x.start \in Nat BY DEF Tones
  <2> QED BY <2>1, <2>2
<1>5. \A k, l \in 1 .. Len(tones) : k < l => Start(k) < Start(l)
  BY <1>2 DEF TonesOK, TonesAreRuns
<1>6. \A j \in 1 .. i : j \in 1 .. Len(tones) /\ (j # i => j \in 1 .. erased)
  BY <1>0, <1>2
<1>7. /\ IsSequence(found) <=> IsCall(i)
      /\ IsCall(i) => Code(found) = CodeAt(i) /\ found[1].start = Start(i)
  BY <1>0, <1>1, SequencesAreCalls
<1>8. \A j : /\ IsCall(j)' <=> IsCall(j)
             /\ CodeAt(j)' = CodeAt(j)
             /\ \A k : SameCall(j, k)' <=> SameCall(j, k)
  BY <1>1 DEF IsCall, IsProper, ToneLength, IsLoudAs, CodeAt, SameCall
<1>9. /\ \A a, b \in 1 .. n : a < b => foundCodes[a].start < foundCodes[b].start
      /\ \A a \in 1 .. n :
           \E j \in 1 .. erased : IsCall(j) /\ Start(j) = foundCodes[a].start
      /\ \A j \in 1 .. erased : IsCall(j) => (Reported(j) <=> ~ Before(j))
  BY <1>3 DEF ReportsOK, ReportsAreExact
<1> HIDE DEF n, found, Start, Soon
\* All reports so far are earlier.
<1>10. \A a \in 1 .. n : foundCodes[a].start \in Nat /\ foundCodes[a].start < Start(i)
  <2> TAKE a \in 1 .. n
  <2>1. PICK j \in 1 .. erased : Start(j) = foundCodes[a].start BY <1>9
  <2>2. j \in 1 .. Len(tones) /\ j < i BY <1>0, <1>2
  <2> QED BY <1>2, <1>4, <1>5, <2>1, <2>2
<1>11. \A j : Reported(j) <=> \E a \in 1 .. n : foundCodes[a].start = Start(j)
  BY <1>3 DEF Reported, Start
<1>12. ~ Reported(i)
  <2> SUFFICES ASSUME NEW a \in 1 .. n, foundCodes[a].start = Start(i) PROVE FALSE
    BY <1>11
  <2> QED BY <1>10
<1>13. \A k : i - 1 = erased /\ 1 .. i - 1 = 1 .. erased BY <1>0, <1>2
\* The repetition that the code looks for is the one of the property.
<1>14. ASSUME IsCall(i)
       PROVE  IsRepetition(Code(found), found[1].start) <=> Before(i)
  <2>1. CASE last = {} /\ foundCodes = <<>>
    <3>1. n = 0 BY <2>1 DEF n
    <3>2. \A k : ~ Reported(k) BY <1>11, <3>1
    <3> QED BY <2>1, <3>2 DEF IsRepetition
  <2>2. CASE \E k \in 1 .. erased :
               /\ IsCall(k)
               /\ last = {[code |-> CodeAt(k), start |-> tones[k].start]}
               /\ Len(foundCodes) > 0
               /\ foundCodes[Len(foundCodes)].start = tones[k].start
    <3>1. PICK k \in 1 .. erased :
               /\ IsCall(k)
               /\ last = {[code |-> CodeAt(k), start |-> Start(k)]}
               /\ n > 0
               /\ foundCodes[n].start = Start(k)
      BY <2>2 DEF Start, n
    <3>2. n \in 1 .. n /\ k \in Nat /\ 0 < k /\ k \in 1 .. Len(tones) /\ k < i
          /\ k + CodeLength <= Len(tones) + 1 /\ i + CodeLength <= Len(tones) + 1
      BY <1>0, <1>2, <1>3, <3>1
    <3>3. Reported(k) BY <1>11, <3>1, <3>2
    <3>4. IsRepetition(Code(found), found[1].start) <=>
            CodeAt(k) = CodeAt(i) /\ Start(i) - Start(k) <= DeltaTMaxTwice
      BY <1>7, <1>14, <3>1 DEF IsRepetition
    <3>5. IsRepetition(Code(found), found[1].start) <=> SameCall(i, k) /\ Soon(k, i)
      <4>1. CodeAt(i) = CodeAt(k) <=> SameCall(i, k) BY <1>2, <3>2, SameCodes
      <4> QED BY <3>4, <4>1 DEF Soon, Start
    <3>6. \A m \in 1 .. Len(tones) : Reported(m) => m <= k
      <4> SUFFICES ASSUME NEW m \in 1 .. Len(tones), Reported(m), k < m PROVE FALSE
        BY <3>2
      <4>1. PICK a \in 1 .. n : foundCodes[a].start = Start(m) BY <1>11
      <4>2. Start(k) < Start(m) BY <1>5, <3>2
      <4>3. a < n \/ a = n BY <1>3
      <4>4. foundCodes[a].start <= foundCodes[n].start
        BY <1>9, <1>10, <3>2, <4>3
      <4> QED BY <1>4, <3>1, <3>2, <4>1, <4>2, <4>4
    <3>7. k \in 1 .. i - 1 /\ \A m \in k + 1 .. i - 1 : ~ Reported(m)
      <4>1. \A m \in k + 1 .. i - 1 : m \in 1 .. Len(tones) /\ ~ (m <= k) BY <1>2, <3>2
      <4> QED BY <1>2, <3>2, <3>6, <4>1
    <3>8. ASSUME NEW l \in 1 .. i - 1, Reported(l), \A m \in l + 1 .. i - 1 : ~ Reported(m)
          PROVE  l = k
      <4>1. l \in 1 .. Len(tones) /\ l \in Nat BY <1>2, <3>8
      <4>2. l <= k BY <3>6, <3>8, <4>1
      <4>3. ~ (l < k)
        <5>1. l < k => k \in l + 1 .. i - 1 BY <1>2, <3>2, <4>1
        <5> QED BY <3>3, <3>8, <5>1
      <4> QED BY <3>2, <4>1, <4>2, <4>3
    <3>9. Before(i) <=> SameCall(i, k) /\ Soon(k, i) BY <3>3, <3>7, <3>8
    <3> QED BY <3>5, <3>9
  <2> QED BY <2>1, <2>2 DEF ReportsOK, LastIsReported
<1> HIDE DEF Before, entry
<1>15. CASE /\ ~ (IsCall(i) /\ ~ Before(i))
            /\ UNCHANGED <<last, foundCodes>>
  <2>1. \A j : Reported(j)' <=> Reported(j) BY <1>1, <1>15 DEF Reported
  <2>2. \A j : Before(j)' <=> Before(j)
    BY <1>1, <1>8, <2>1 DEF Before, Soon
  <2>3. (\A a, b \in DOMAIN foundCodes : a < b => foundCodes[a].start < foundCodes[b].start)'
    BY <1>3, <1>9, <1>15
  <2>4. (\A a \in DOMAIN foundCodes :
           \E j \in 1 .. erased : IsCall(j) /\ tones[j].start = foundCodes[a].start)'
    <3>1. 1 .. erased \subseteq 1 .. erased' BY <1>0, <1>1, <1>2
    <3> QED BY <1>1, <1>3, <1>8, <1>9, <1>15, <3>1 DEF Start
  <2>5. ASSUME NEW j \in 1 .. erased', IsCall(j)
        PROVE  Reported(j) <=> ~ Before(j)
    <3>1. CASE j = i BY <1>12, <1>15, <2>5, <3>1
    <3>2. CASE j # i BY <1>1, <1>6, <1>9, <2>5, <3>2
    <3> QED BY <3>1, <3>2
  <2>6. (\A j \in 1 .. erased : IsCall(j) => (Reported(j) <=> ~ Before(j)))'
    BY <1>8, <2>1, <2>2, <2>5
  <2>7. ReportsAreExact' BY <2>3, <2>4, <2>6 DEF ReportsAreExact, Before, Soon
  <2>8. LastIsReported'
    <3>1. 1 .. erased \subseteq 1 .. erased' BY <1>0, <1>1, <1>2
    <3> QED BY <1>1, <1>8, <1>15, <3>1 DEF ReportsOK, LastIsReported
  <2>9. (foundCodes \in Seq(Elements(foundCodes)))'
    BY <1>15 DEF ReportsOK, Elements
  <2> QED BY <2>7, <2>8, <2>9 DEF ReportsOK
<1>16. CASE /\ IsCall(i) /\ ~ Before(i)
            /\ last' = {[code |-> Code(found), start |-> found[1].start]}
            /\ foundCodes' = Append(foundCodes, entry)
  <2>1. entry.start = Start(i) BY <1>7, <1>16 DEF entry
  <2>2. /\ Len(foundCodes') = n + 1 /\ foundCodes'[n + 1] = entry
        /\ DOMAIN foundCodes' = 1 .. n + 1
        /\ \A a \in 1 .. n : foundCodes'[a] = foundCodes[a]
        /\ foundCodes' \in Seq(Elements(foundCodes) \cup {entry})
    <3>1. foundCodes \in Seq(Elements(foundCodes) \cup {entry}) BY <1>3, SeqMonotonic
    <3> QED BY <1>3, <1>16, <3>1 DEF n
  <2>3. \A a \in 1 .. n + 1 : a \in 1 .. n \/ a = n + 1 BY <1>3
  <2>4. n + 1 \in 1 .. n + 1 /\ 1 .. n \subseteq 1 .. n + 1 BY <1>3
  <2>5. Elements(foundCodes)' = Elements(foundCodes) \cup {entry}
    BY <1>3, <2>2, <2>3, <2>4 DEF Elements
  <2>6. Start(i) \in Nat BY <1>2, <1>4
  <2>7. (\A a, b \in DOMAIN foundCodes : a < b => foundCodes[a].start < foundCodes[b].start)'
    <3> SUFFICES ASSUME NEW a \in 1 .. n + 1, NEW b \in 1 .. n + 1, a < b
                 PROVE  foundCodes'[a].start < foundCodes'[b].start
      BY <2>2
    <3>1. a \in 1 .. n BY <1>3
    <3>2. CASE b \in 1 .. n BY <1>9, <2>2, <3>1, <3>2
    <3>3. CASE b = n + 1 BY <1>10, <2>1, <2>2, <3>1, <3>3
    <3> QED BY <2>3, <3>2, <3>3
  <2>8. (\A a \in DOMAIN foundCodes :
           \E j \in 1 .. erased : IsCall(j) /\ tones[j].start = foundCodes[a].start)'
    <3> SUFFICES ASSUME NEW a \in 1 .. n + 1
                 PROVE  \E j \in 1 .. i : IsCall(j) /\ Start(j) = foundCodes'[a].start
      BY <1>1, <1>8, <2>2 DEF Start
    <3>1. CASE a \in 1 .. n
      <4>1. 1 .. erased \subseteq 1 .. i BY <1>0, <1>2
      <4> QED BY <1>9, <2>2, <3>1, <4>1
    <3>2. CASE a = n + 1 BY <1>2, <1>16, <2>1, <2>2, <3>2
    <3> QED BY <2>3, <3>1, <3>2
  <2>9. \A j : Reported(j)' <=> \E a \in 1 .. n + 1 : foundCodes'[a].start = Start(j)
    BY <1>1, <2>2 DEF Reported, Start
  <2>10. Reported(i)' BY <2>1, <2>2, <2>4, <2>9
  <2>11. \A j \in 1 .. erased : Reported(j)' <=> Reported(j)
    <3> TAKE j \in 1 .. erased
    <3>1. j \in 1 .. Len(tones) /\ j < i BY <1>0, <1>2
    <3>2. Start(j) # Start(i)
      <4>1. Start(j) < Start(i) /\ Start(j) \in Nat BY <1>2, <1>4, <1>5, <3>1
      <4> QED BY <2>6, <4>1
    <3> QED BY <1>11, <2>1, <2>2, <2>3, <2>4, <2>9, <3>2
  <2>12. ASSUME NEW j \in 1 .. i PROVE Before(j)' <=> Before(j)
    <3>1. \A k \in 1 .. j - 1 : k \in 1 .. erased BY <1>0, <1>2
    <3>2. \A k \in 1 .. j - 1 : \A m \in k + 1 .. j - 1 : m \in 1 .. erased BY <1>0, <1>2
    <3>3. \A k \in 1 .. j - 1 :
            /\ Reported(k)' <=> Reported(k)
            /\ SameCall(j, k)' <=> SameCall(j, k)
            /\ \A m \in k + 1 .. j - 1 : Reported(m)' <=> Reported(m)
      BY <1>8, <2>11, <3>1, <3>2
    <3> QED BY <1>1, <3>3 DEF Before, Soon
  <2>13. ASSUME NEW j \in 1 .. i, IsCall(j)
         PROVE  Reported(j)' <=> ~ Before(j)
    <3>1. CASE j = i BY <1>16, <2>10, <3>1
    <3>2. CASE j # i
      <4>1. j \in 1 .. erased BY <1>6, <3>2
      <4> QED BY <1>9, <2>11, <2>13, <4>1
    <3> QED BY <3>1, <3>2
  <2>14. (\A j \in 1 .. erased : IsCall(j) => (Reported(j) <=> ~ Before(j)))'
    BY <1>1, <1>8, <2>12, <2>13
  <2>15. ReportsAreExact' BY <2>7, <2>8, <2>14 DEF ReportsAreExact, Before, Soon
  <2>16. LastIsReported'
    <3>1. /\ last' = {[code |-> CodeAt(i), start |-> Start(i)]}
          /\ Len(foundCodes') > 0
          /\ foundCodes'[Len(foundCodes')].start = Start(i)
      BY <1>3, <1>7, <1>16, <2>1, <2>2
    <3>2. PICK k \in 1 .. i : k = i BY <1>2
    <3>3. /\ k \in 1 .. erased' /\ IsCall(k)'
          /\ last' = {[code |-> CodeAt(k)', start |-> tones'[k].start]}
          /\ foundCodes'[Len(foundCodes')].start = tones'[k].start
      BY <1>1, <1>8, <1>16, <3>1, <3>2 DEF Start
    <3> QED BY <3>1, <3>3 DEF LastIsReported
  <2> QED BY <2>2, <2>5, <2>15, <2>16 DEF ReportsOK
<1> QED BY <1>7, <1>14, <1>15, <1>16 DEF SearchSequences, found, entry

-----------------------------------------------------------------------------
(* The theorems.                                                           *)

IInv == StreamsOK /\ TonesOK /\ WindowsOK /\ ReportsOK

\* The streams, the tones, the windows and the reports are consistent in every
\* reachable state.
THEOREM Invariant == Spec => []IInv
<1>1. Init => IInv
  <2> SUFFICES ASSUME Init PROVE IInv OBVIOUS
  <2>1. StreamsOK
    <3>1. Length \in Nat /\ CoarseLength \in Nat BY SearchAssumption
    <3> QED BY <3>1 DEF Init, StreamsOK
  <2>2. tones = <<>> /\ tones \in Seq(Tones) /\ DOMAIN tones = {} /\ Elements(tones) = {}
    BY DEF Init, Elements
  <2>3. Runs(fine.done) = {}
    <3>1. 0 .. fine.done - 1 = {} BY DEF Init
    <3> QED BY <3>1 DEF Runs, Starts
  <2>4. TonesOK BY <2>2, <2>3 DEF Init, TonesOK, TonesAreRuns
  <2>5. WindowsOK
    <3>1. Len(tones) = 0 BY <2>2
    <3> QED BY <3>1 DEF Init, WindowsOK
  <2>6. foundCodes = <<>> /\ DOMAIN foundCodes = {} /\ 1 .. erased = {} BY DEF Init
  <2>7. ReportsOK BY <2>6 DEF Init, ReportsOK, ReportsAreExact, LastIsReported
  <2> QED BY <2>1, <2>4, <2>5, <2>7 DEF IInv
<1>2. IInv /\ [Next]_vars => IInv'
  <2> SUFFICES ASSUME IInv, [Next]_vars PROVE IInv' OBVIOUS
  <2>1. StreamsOK /\ TonesOK /\ WindowsOK /\ ReportsOK BY DEF IInv
  <2>2. StreamsOK' BY <2>1, StreamsAreKept
  <2>3. TonesOK' /\ TonesGrow
    <3>1. CASE SearchTones BY <2>1, <3>1, SearchKeepsTones
    <3>2. CASE UNCHANGED <<signal, tones, oldTones>> /\ fine'.done = fine.done
      <4>1. tones \in Seq(Tones) BY <2>1 DEF TonesOK
      <4>2. Len(tones) \in Nat /\ Len(tones) <= Len(tones) BY <4>1
      <4> QED BY <2>1, <3>2, <4>1, <4>2, TonesAreKept DEF TonesGrow
    <3>3. PutFrequencyStream => UNCHANGED <<signal, tones, oldTones>> /\ fine'.done = fine.done
      <4> SUFFICES ASSUME PutFrequencyStream PROVE fine'.done = fine.done
        BY DEF PutFrequencyStream
      <4>1. PICK n \in FineBatches : fine' = Put(fine, n, Length) BY DEF PutFrequencyStream
      <4>2. fine \in [put : Nat, read : Nat, done : Nat] BY <2>1 DEF StreamsOK
      <4> QED BY <4>1, <4>2 DEF Put
    <3>4. ReadFrequencyStream => UNCHANGED <<signal, tones, oldTones>> /\ fine'.done = fine.done
      <4>1. fine \in [put : Nat, read : Nat, done : Nat] BY <2>1 DEF StreamsOK
      <4> QED BY <4>1 DEF ReadFrequencyStream, Read
    <3> QED
      BY <3>1, <3>2, <3>3, <3>4
      DEF Next, AnalysisThread, ToneSearchThread, SequenceSearchThread, PutTonesStream,
          ReadTones, SearchSequences, vars, toneVars
  <2>4. WindowsOK' BY <2>1, <2>3, WindowsAreKept
  <2>5. ReportsOK'
    <3>1. CASE SearchSequences BY <2>1, <3>1, SearchKeepsReports
    <3>2. CASE UNCHANGED <<erased, last, foundCodes>> BY <2>1, <2>3, <3>2, ReportsAreKept
    <3> QED
      BY <3>1, <3>2
      DEF Next, AnalysisThread, ToneSearchThread, SequenceSearchThread, PutTonesStream,
          PutFrequencyStream, ReadFrequencyStream, SearchTones, ReadTones, vars, codeVars
  <2> QED BY <2>2, <2>3, <2>4, <2>5 DEF IInv
<1> QED BY <1>1, <1>2, PTL DEF Spec

\* Whatever the steps and the batches are, the tone search finds the tones of
\* the signal as they are in the signal as a whole, each once, with its level,
\* and in order.
THEOREM TonesAreFound == Spec => []TonesAreRuns
<1>1. IInv => TonesAreRuns BY DEF IInv, TonesOK
<1> QED BY <1>1, Invariant, PTL

\* The sequence search reports the sequences among the tones it looked at, in
\* order and each once, except for repetitions of the report before.
THEOREM SequencesAreReported == Spec => []ReportsAreExact
<1>1. IInv => ReportsAreExact BY DEF IInv, ReportsOK
<1> QED BY <1>1, Invariant, PTL
=============================================================================
