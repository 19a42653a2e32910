----------------------------- MODULE QuotaProofs -----------------------------
(***************************************************************************)
(* Theorems about the limits of a quota, for every size and every          *)
(* percentage, and about the projects that carry them, for any number of   *)
(* volumes, nodes and ids.                                                 *)
(*                                                                         *)
(* What a recursive function computes is proved by induction, in the form  *)
(* of the least counterexample: LeastNumber.                               *)
(***************************************************************************)
EXTENDS QuotaProject, QuotaLimits, SequenceTheorems, WellFoundedInduction, TLAPS

-------------------------------------------------------------------------------
\* The limits.

\* A set of numbers that is not empty has a least one.
LEMMA LeastNumber ==
  ASSUME NEW T, T \subseteq Nat, T # {}
  PROVE  \E n \in T : \A m \in T : n <= m
<1>1. PICK n \in T : \A m \in T : ~(<<m, n>> \in OpToRel(<, Nat))
  BY NatLessThanWellFounded, WFMin
<1>2. \A m \in T : ~(m < n)
  BY <1>1 DEF OpToRel
<1> QED BY <1>2

\* What FormatK makes of k, given what it makes of smaller numbers.
Digits(f, k) == IF k < 10 THEN <<k>> ELSE Append(f[k \div 10], k % 10)

\* f formats the numbers up to n.
Formats(f, n) == f \in [0 .. n -> Seq(Nat)] /\ \A k \in 0 .. n : f[k] = Digits(f, k)

LEMMA DivSmaller ==
  ASSUME NEW k \in Nat, k >= 10
  PROVE  /\ k \div 10 \in Nat /\ k \div 10 < k /\ k \div 10 > 0
         /\ k % 10 \in 0 .. 9 /\ k = 10 * (k \div 10) + (k % 10)
<1>1. k \div 10 \in Nat /\ k % 10 \in 0 .. 9
  OBVIOUS
<1>2. k = 10 * (k \div 10) + (k % 10)
  OBVIOUS
<1> QED BY <1>1, <1>2

\* There is one such f for every n ...
LEMMA FormatsExists == \A n \in Nat : \E f : Formats(f, n)
<1> DEFINE T == {n \in Nat : ~\E f : Formats(f, n)}
<1> SUFFICES ASSUME T # {} PROVE FALSE
  OBVIOUS
<1>1. PICK n \in T : \A m \in T : n <= m
  <2>1. T \subseteq Nat
    OBVIOUS
  <2> HIDE DEF T
  <2> QED BY <2>1, LeastNumber
<1>2. CASE n = 0
  <2>1. Formats([k \in 0 .. 0 |-> <<k>>], 0)
    BY DEF Formats, Digits
  <2> QED BY <1>1, <1>2, <2>1
<1>3. CASE n # 0
  <2>1. n - 1 \in Nat /\ ~(n <= n - 1) /\ n \in Nat
    BY <1>1, <1>3
  <2>2. PICK f : Formats(f, n - 1)
    BY <1>1, <2>1
  <2> DEFINE g == [k \in 0 .. n |-> IF k < n THEN f[k] ELSE Digits(f, k)]
  <2>3. \A k \in 0 .. n : k >= 10 => k \div 10 \in 0 .. n - 1 /\ k % 10 \in Nat
    BY <2>1, DivSmaller
  <2>4. \A k \in 0 .. n : Digits(g, k) = Digits(f, k) /\ Digits(f, k) \in Seq(Nat)
    <3> TAKE k \in 0 .. n
    <3>1. CASE k < 10
      BY <3>1 DEF Digits
    <3>2. CASE k >= 10
      <4>1. k \div 10 \in 0 .. n - 1 /\ k % 10 \in Nat /\ k \div 10 < n
        BY <2>1, <2>3, <3>2
      <4>2. g[k \div 10] = f[k \div 10] /\ f[k \div 10] \in Seq(Nat)
        BY <2>1, <2>2, <4>1 DEF Formats
      <4> QED BY <3>2, <4>1, <4>2 DEF Digits
    <3> QED BY <2>1, <3>1, <3>2
  <2>5. \A k \in 0 .. n : g[k] = Digits(f, k)
    BY <2>1, <2>2 DEF Formats
  <2>6. g \in [0 .. n -> Seq(Nat)]
    BY <2>4, <2>5
  <2>7. Formats(g, n)
    <3> HIDE DEF g
    <3> QED BY <2>4, <2>5, <2>6 DEF Formats
  <2> QED BY <1>1, <2>7
<1> QED BY <1>2, <1>3

\* ... and they agree.
LEMMA FormatsUnique ==
  ASSUME NEW m \in Nat, NEW n \in Nat, NEW f, NEW g, Formats(f, m), Formats(g, n)
  PROVE  \A k \in Nat : k <= m /\ k <= n => f[k] = g[k]
<1> DEFINE T == {k \in Nat : k <= m /\ k <= n /\ f[k] # g[k]}
<1> SUFFICES ASSUME T # {} PROVE FALSE
  OBVIOUS
<1>1. PICK k \in T : \A j \in T : k <= j
  <2>1. T \subseteq Nat
    OBVIOUS
  <2> HIDE DEF T
  <2> QED BY <2>1, LeastNumber
<1>2. f[k] = Digits(f, k) /\ g[k] = Digits(g, k)
  BY <1>1 DEF Formats
<1>3. CASE k < 10
  BY <1>1, <1>2, <1>3 DEF Digits
<1>4. CASE k >= 10
  <2>1. k \div 10 \in Nat /\ k \div 10 < k
    BY <1>4, <1>1, DivSmaller
  <2>2. f[k \div 10] = g[k \div 10]
    BY <1>1, <2>1
  <2> QED BY <1>1, <1>2, <1>4, <2>2 DEF Digits
<1> QED BY <1>1, <1>3, <1>4

LEMMA FormatKDef == FormatK = [k \in Nat |-> Digits(FormatK, k)]
<1> DEFINE F(k) == CHOOSE f : Formats(f, k)
           g == [k \in Nat |-> F(k)[k]]
<1>1. \A k \in Nat : Formats(F(k), k)
  BY FormatsExists
<1> HIDE DEF F
<1>2. ASSUME NEW k \in Nat PROVE g[k] = Digits(g, k)
  <2>1. g[k] = Digits(F(k), k)
    BY <1>1 DEF Formats
  <2>2. CASE k < 10
    BY <2>1, <2>2 DEF Digits
  <2>3. CASE k >= 10
    <3>1. k \div 10 \in Nat /\ k \div 10 <= k
      BY <2>3, DivSmaller
    <3>2. F(k)[k \div 10] = F(k \div 10)[k \div 10]
      BY <1>1, <3>1, FormatsUnique
    <3> QED BY <2>1, <2>3, <3>1, <3>2 DEF Digits
  <2> QED BY <2>2, <2>3
<1>3. g = [k \in Nat |-> Digits(g, k)]
  BY <1>2
<1> HIDE DEF g
<1>4. g = [k \in Nat |-> IF k < 10 THEN <<k>> ELSE Append(g[k \div 10], k % 10)]
  BY <1>3 DEF Digits
<1>5. FormatK = [k \in Nat |-> IF k < 10 THEN <<k>> ELSE Append(FormatK[k \div 10], k % 10)]
  BY <1>4 DEF FormatK
<1> QED BY <1>5 DEF Digits

\* The digits of a number, from those of the number without its last digit.
LEMMA FormatKOf ==
  ASSUME NEW k \in Nat
  PROVE  /\ k < 10 => FormatK[k] = <<k>>
         /\ k >= 10 => FormatK[k] = Append(FormatK[k \div 10], k % 10)
<1>1. FormatK[k] = [j \in Nat |-> Digits(FormatK, j)][k]
  BY FormatKDef, Zenon
<1>2. FormatK[k] = Digits(FormatK, k)
  BY <1>1
<1> QED BY <1>2 DEF Digits

LEMMA FormatKType == \A k \in Nat : FormatK[k] \in Seq(Nat) /\ Len(FormatK[k]) >= 1
<1> DEFINE T == {k \in Nat : ~(FormatK[k] \in Seq(Nat) /\ Len(FormatK[k]) >= 1)}
<1> SUFFICES ASSUME T # {} PROVE FALSE
  OBVIOUS
<1>1. PICK k \in T : \A j \in T : k <= j
  <2>1. T \subseteq Nat
    OBVIOUS
  <2> HIDE DEF T
  <2> QED BY <2>1, LeastNumber
<1>2. CASE k < 10
  <2>1. FormatK[k] = <<k>> /\ k \in Nat
    BY <1>1, <1>2, FormatKOf
  <2>2. <<k>> \in Seq(Nat) /\ Len(<<k>>) >= 1
    BY <2>1
  <2>3. FormatK[k] \in Seq(Nat) /\ Len(FormatK[k]) >= 1
    BY <2>1, <2>2, Zenon
  <2> QED BY <1>1, <2>3
<1>3. CASE k >= 10
  <2>1. k \div 10 \in Nat /\ k \div 10 < k /\ k % 10 \in Nat
    BY <1>1, <1>3, DivSmaller
  <2>2. FormatK[k \div 10] \in Seq(Nat)
    BY <1>1, <2>1
  <2>3. FormatK[k] = Append(FormatK[k \div 10], k % 10)
    BY <1>1, <1>3, FormatKOf
  <2>4. FormatK[k] \in Seq(Nat) /\ Len(FormatK[k]) >= 1
    BY <2>1, <2>2, <2>3
  <2> QED BY <1>1, <2>4
<1> QED BY <1>1, <1>2, <1>3

-------------------------------------------------------------------------------
\* Value: the number of the first n digits of s, for every n.
Reads(f, s) == f = [i \in 0 .. Len(s) |-> IF i = 0 THEN 0 ELSE 10 * f[i - 1] + s[i]]
ReadsTo(f, s, n) ==
  f \in [0 .. n -> Nat] /\ \A i \in 0 .. n : f[i] = IF i = 0 THEN 0 ELSE 10 * f[i - 1] + s[i]

LEMMA ReadsToExists ==
  ASSUME NEW s \in Seq(Nat)
  PROVE  \A n \in 0 .. Len(s) : \E f : ReadsTo(f, s, n)
<1> DEFINE T == {n \in 0 .. Len(s) : ~\E f : ReadsTo(f, s, n)}
<1> SUFFICES ASSUME T # {} PROVE FALSE
  OBVIOUS
<1>1. PICK n \in T : \A m \in T : n <= m
  <2>1. T \subseteq Nat
    OBVIOUS
  <2> HIDE DEF T
  <2> QED BY <2>1, LeastNumber
<1>2. CASE n = 0
  <2>1. ReadsTo([i \in 0 .. 0 |-> 0], s, 0)
    BY DEF ReadsTo
  <2> QED BY <1>1, <1>2, <2>1
<1>3. CASE n # 0
  <2>1. n - 1 \in 0 .. Len(s) /\ ~(n <= n - 1) /\ n \in 1 .. Len(s)
    BY <1>1, <1>3
  <2>2. PICK f : ReadsTo(f, s, n - 1)
    BY <1>1, <2>1
  <2> DEFINE g == [i \in 0 .. n |-> IF i < n THEN f[i] ELSE 10 * f[n - 1] + s[n]]
  <2>3. f[n - 1] \in Nat /\ s[n] \in Nat
    BY <2>1, <2>2 DEF ReadsTo
  <2>4. \A i \in 0 .. n - 1 : g[i] = f[i] /\ f[i] \in Nat
    BY <2>1, <2>2 DEF ReadsTo
  <2>5. g \in [0 .. n -> Nat]
    <3>1. \A i \in 0 .. n : i \in 0 .. n - 1 \/ (i = n /\ ~(i < n))
      BY <2>1
    <3>2. 10 * f[n - 1] + s[n] \in Nat
      BY <2>3
    <3>3. \A i \in 0 .. n : g[i] \in Nat
      BY <2>4, <3>1, <3>2
    <3> QED BY <3>3
  <2>6. ASSUME NEW i \in 0 .. n PROVE g[i] = IF i = 0 THEN 0 ELSE 10 * g[i - 1] + s[i]
    <3>1. CASE i = n
      BY <2>1, <2>4, <3>1
    <3>2. CASE i < n
      <4>1. g[i] = f[i] /\ f[i] = IF i = 0 THEN 0 ELSE 10 * f[i - 1] + s[i]
        BY <2>1, <2>2, <3>2 DEF ReadsTo
      <4>2. i # 0 => g[i - 1] = f[i - 1]
        BY <2>1, <2>4, <3>2
      <4> QED BY <4>1, <4>2
    <3> QED BY <2>1, <3>1, <3>2
  <2>7. ReadsTo(g, s, n)
    <3> HIDE DEF g
    <3> QED BY <2>5, <2>6 DEF ReadsTo
  <2> QED BY <1>1, <2>7
<1> QED BY <1>2, <1>3

\* Value(s) is what every function that reads s reads.
LEMMA ValueIsRead ==
  ASSUME NEW s \in Seq(Nat), NEW f, ReadsTo(f, s, Len(s))
  PROVE  Value(s) = f[Len(s)] /\ Value(s) \in Nat
<1>1. Len(s) \in Nat
  OBVIOUS
<1>2. Reads(f, s)
  BY DEF ReadsTo, Reads
<1>3. PICK g : Value(s) = g[Len(s)] /\ Reads(g, s)
  BY <1>2 DEF Value, Reads
<1> DEFINE T == {i \in 0 .. Len(s) : f[i] # g[i]}
<1>4. T = {}
  <2> SUFFICES ASSUME T # {} PROVE FALSE
    OBVIOUS
  <2>1. PICK i \in T : \A j \in T : i <= j
    <3>1. T \subseteq Nat
      OBVIOUS
    <3> HIDE DEF T
    <3> QED BY <3>1, LeastNumber
  <2>2. /\ f[i] = IF i = 0 THEN 0 ELSE 10 * f[i - 1] + s[i]
        /\ g[i] = IF i = 0 THEN 0 ELSE 10 * g[i - 1] + s[i]
    BY <1>2, <1>3, <2>1 DEF Reads
  <2>3. i # 0 => f[i - 1] = g[i - 1]
    BY <1>1, <2>1
  <2> QED BY <2>1, <2>2, <2>3
<1>5. Len(s) \in 0 .. Len(s)
  BY <1>1
<1>6. f[Len(s)] = g[Len(s)]
  BY <1>4, <1>5
<1>7. f[Len(s)] \in Nat
  BY <1>5 DEF ReadsTo
<1> QED BY <1>3, <1>6, <1>7

\* One more digit: ten times the number, and the digit.
LEMMA ValueOfAppend ==
  ASSUME NEW s \in Seq(Nat), NEW d \in Nat
  PROVE  Value(Append(s, d)) = 10 * Value(s) + d /\ Value(s) \in Nat
<1>0. PICK t : t = Append(s, d)
  OBVIOUS
<1>1. /\ t \in Seq(Nat) /\ Len(t) = Len(s) + 1 /\ t[Len(t)] = d /\ Len(s) \in Nat
      /\ \A i \in 1 .. Len(s) : s[i] = t[i]
  BY <1>0
<1>2. PICK g : ReadsTo(g, t, Len(t))
  BY <1>1, ReadsToExists
<1>3. PICK f : f = [i \in 0 .. Len(s) |-> g[i]]
  OBVIOUS
<1>4. ReadsTo(f, s, Len(s))
  <2>1. \A i \in 0 .. Len(s) : i \in 0 .. Len(t) /\ (i # 0 => i - 1 \in 0 .. Len(s) /\ s[i] = t[i])
    BY <1>1
  <2>2. \A i \in 0 .. Len(s) : f[i] = g[i] /\ g[i] \in Nat
    BY <1>2, <1>3, <2>1 DEF ReadsTo
  <2>3. \A i \in 0 .. Len(s) : g[i] = IF i = 0 THEN 0 ELSE 10 * g[i - 1] + s[i]
    BY <1>2, <2>1 DEF ReadsTo
  <2>4. f \in [0 .. Len(s) -> Nat]
    BY <1>3, <2>2
  <2> QED BY <2>1, <2>2, <2>3, <2>4 DEF ReadsTo
<1>5. Value(s) = f[Len(s)] /\ Value(t) = g[Len(t)] /\ Value(s) \in Nat
  BY <1>1, <1>2, <1>4, ValueIsRead
<1>6. Len(s) \in 0 .. Len(s) /\ Len(t) \in 0 .. Len(t) /\ Len(t) # 0 /\ Len(t) - 1 = Len(s)
  BY <1>1
<1>7. f[Len(s)] = g[Len(s)]
  BY <1>3, <1>6
<1>8. g[Len(t)] = 10 * g[Len(t) - 1] + t[Len(t)]
  BY <1>2, <1>6 DEF ReadsTo
<1> QED BY <1>0, <1>1, <1>5, <1>6, <1>7, <1>8

LEMMA ValueOfDigit ==
  ASSUME NEW d \in Nat
  PROVE  Value(<<d>>) = d
<1> DEFINE f == [i \in 0 .. 1 |-> IF i = 0 THEN 0 ELSE d]
<1>1. ReadsTo(f, <<d>>, 1)
  BY DEF ReadsTo
<1>2. <<d>> \in Seq(Nat) /\ Len(<<d>>) = 1 /\ f[1] = d
  OBVIOUS
<1> HIDE DEF f
<1> QED BY <1>1, <1>2, ValueIsRead

\* Reading the digits of a number gives the number.
LEMMA ValueOfFormatK == \A k \in Nat : Value(FormatK[k]) = k
<1> DEFINE T == {k \in Nat : Value(FormatK[k]) # k}
<1> SUFFICES ASSUME T # {} PROVE FALSE
  OBVIOUS
<1>1. PICK k \in T : \A j \in T : k <= j
  <2>1. T \subseteq Nat
    OBVIOUS
  <2> HIDE DEF T
  <2> QED BY <2>1, LeastNumber
<1>2. CASE k < 10
  BY <1>1, <1>2, FormatKOf, ValueOfDigit
<1>3. CASE k >= 10
  <2>1. k \div 10 \in Nat /\ k \div 10 < k /\ k % 10 \in Nat /\ k = 10 * (k \div 10) + (k % 10)
    BY <1>1, <1>3, DivSmaller
  <2>2. Value(FormatK[k \div 10]) = k \div 10 /\ FormatK[k \div 10] \in Seq(Nat)
    BY <1>1, <2>1, FormatKType
  <2>3. Value(FormatK[k]) = 10 * (k \div 10) + (k % 10)
    BY <1>1, <1>3, <2>1, <2>2, FormatKOf, ValueOfAppend
  <2> QED BY <1>1, <2>1, <2>3
<1> QED BY <1>1, <1>2, <1>3

-------------------------------------------------------------------------------
\* The comparison of validateLimits: the longer string, or the larger of two
\* that are equally long.
Larger(s, t) == Len(s) > Len(t) \/ (Len(s) = Len(t) /\ StringGreater(s, t))

\* Of strings of one length: the first character in which they differ decides.
DiffersAt(s, t, i) == s[i] > t[i] /\ \A j \in 1 .. i - 1 : s[j] = t[j]

LEMMA GreaterOfOneLength ==
  ASSUME NEW s \in Seq(Nat), NEW t \in Seq(Nat), Len(s) = Len(t)
  PROVE  StringGreater(s, t) <=> \E i \in 1 .. Len(s) : DiffersAt(s, t, i)
<1>1. Len(s) \in Nat /\ ~(Len(s) > Len(t)) /\ \A i \in 1 .. Len(s) : i <= Len(t)
  OBVIOUS
<1> QED BY <1>1 DEF StringGreater, DiffersAt

\* A last character decides only between strings that are equal up to it.
LEMMA GreaterOfAppend ==
  ASSUME NEW s \in Seq(Nat), NEW t \in Seq(Nat), Len(s) = Len(t), NEW x \in Nat, NEW y \in Nat
  PROVE  StringGreater(Append(s, x), Append(t, y)) <=> StringGreater(s, t) \/ (s = t /\ x > y)
<1>0. PICK u, v : u = Append(s, x) /\ v = Append(t, y)
  OBVIOUS
<1>1. PICK n \in Nat : n = Len(s) /\ n = Len(t)
  OBVIOUS
<1>2. u \in Seq(Nat) /\ v \in Seq(Nat) /\ Len(u) = n + 1 /\ Len(v) = n + 1
  BY <1>0, <1>1
<1>3. u[n + 1] = x /\ v[n + 1] = y /\ \A i \in 1 .. n : u[i] = s[i] /\ v[i] = t[i]
  BY <1>0, <1>1
<1>4. StringGreater(u, v) <=> \E i \in 1 .. n + 1 : DiffersAt(u, v, i)
  BY <1>2, GreaterOfOneLength
<1>5. StringGreater(s, t) <=> \E i \in 1 .. n : DiffersAt(s, t, i)
  BY <1>1, GreaterOfOneLength
<1>6. \A i \in 1 .. n : DiffersAt(u, v, i) <=> DiffersAt(s, t, i)
  BY <1>3 DEF DiffersAt
<1>7. s = t <=> \A j \in 1 .. n : s[j] = t[j]
  BY <1>1
<1>8. DiffersAt(u, v, n + 1) <=> (s = t /\ x > y)
  <2>1. DiffersAt(u, v, n + 1) <=> x > y /\ \A j \in 1 .. n : u[j] = v[j]
    BY <1>3 DEF DiffersAt
  <2> QED BY <1>3, <1>7, <2>1
<1>9. \A i \in 1 .. n + 1 : i \in 1 .. n \/ i = n + 1
  OBVIOUS
<1>10. n + 1 \in 1 .. n + 1 /\ \A i \in 1 .. n : i \in 1 .. n + 1
  OBVIOUS
<1> QED BY <1>0, <1>4, <1>5, <1>6, <1>8, <1>9, <1>10

\* Numbers are ordered as their digits are, by length and then as strings.
LEMMA LargerIsGreater == \A a, b \in Nat : Larger(FormatK[a], FormatK[b]) <=> a > b
<1> DEFINE T == {a \in Nat : \E b \in Nat : ~(Larger(FormatK[a], FormatK[b]) <=> a > b)}
<1> SUFFICES ASSUME T # {} PROVE FALSE
  OBVIOUS
<1>1. PICK a \in T : \A j \in T : a <= j
  <2>1. T \subseteq Nat
    OBVIOUS
  <2> HIDE DEF T
  <2> QED BY <2>1, LeastNumber
<1>2. a \in Nat /\ \A j \in Nat : j < a => \A b \in Nat : Larger(FormatK[j], FormatK[b]) <=> j > b
  BY <1>1
<1>3. PICK b \in Nat : ~(Larger(FormatK[a], FormatK[b]) <=> a > b)
  BY <1>1
<1>4. \A k \in Nat : FormatK[k] \in Seq(Nat) /\ Len(FormatK[k]) \in Nat /\ Len(FormatK[k]) >= 1
  BY FormatKType
<1>5. \A k \in Nat : k < 10 => FormatK[k] = <<k>> /\ Len(FormatK[k]) = 1
  <2> TAKE k \in Nat
  <2> HAVE k < 10
  <2>1. FormatK[k] = <<k>>
    BY FormatKOf
  <2>2. Len(<<k>>) = 1
    OBVIOUS
  <2> QED BY <2>1, <2>2, Zenon
<1>6. \A k \in Nat : k >= 10 =>
        /\ FormatK[k] = Append(FormatK[k \div 10], k % 10)
        /\ Len(FormatK[k]) = Len(FormatK[k \div 10]) + 1
  <2> TAKE k \in Nat
  <2> HAVE k >= 10
  <2>1. FormatK[k] = Append(FormatK[k \div 10], k % 10)
    BY FormatKOf
  <2>2. FormatK[k \div 10] \in Seq(Nat) /\ k % 10 \in Nat
    BY <1>4, DivSmaller
  <2> QED BY <2>1, <2>2
<1>7. CASE a < 10 /\ b < 10
  <2>1. StringGreater(<<a>>, <<b>>) <=> a > b
    BY <1>2 DEF StringGreater
  <2>2. Larger(FormatK[a], FormatK[b]) <=> StringGreater(<<a>>, <<b>>)
    BY <1>2, <1>5, <1>7 DEF Larger
  <2> QED BY <1>3, <2>1, <2>2
<1>8. CASE a < 10 /\ b >= 10
  <2>1. PICK m \in Nat, n \in Nat : m = Len(FormatK[a]) /\ n = Len(FormatK[b])
    BY <1>2, <1>4
  <2>2. m = 1
    BY <1>2, <1>5, <1>8, <2>1
  <2>3. PICK c \in Nat : c = b \div 10
    BY <1>2, <1>8, DivSmaller
  <2>4. n = Len(FormatK[c]) + 1
    BY <1>2, <1>6, <1>8, <2>1, <2>3
  <2>5. Len(FormatK[c]) \in Nat /\ Len(FormatK[c]) >= 1
    BY <1>4
  <2>6. n > m
    BY <2>2, <2>4, <2>5
  <2>7. Larger(FormatK[a], FormatK[b]) <=> FALSE
    BY <2>1, <2>6 DEF Larger
  <2> QED BY <1>2, <1>3, <1>8, <2>7
<1>9. CASE a >= 10 /\ b < 10
  <2>1. PICK m \in Nat, n \in Nat : m = Len(FormatK[a]) /\ n = Len(FormatK[b])
    BY <1>2, <1>4
  <2>2. n = 1
    BY <1>2, <1>5, <1>9, <2>1
  <2>3. PICK c \in Nat : c = a \div 10
    BY <1>2, <1>9, DivSmaller
  <2>4. m = Len(FormatK[c]) + 1
    BY <1>2, <1>6, <1>9, <2>1, <2>3
  <2>5. Len(FormatK[c]) \in Nat /\ Len(FormatK[c]) >= 1
    BY <1>4
  <2>6. m > n
    BY <2>2, <2>4, <2>5
  <2>7. Larger(FormatK[a], FormatK[b]) <=> TRUE
    BY <2>1, <2>6 DEF Larger
  <2> QED BY <1>2, <1>3, <1>9, <2>7
<1>10. CASE a >= 10 /\ b >= 10
  <2>1. PICK c \in Nat, x \in 0 .. 9 : c = a \div 10 /\ x = a % 10 /\ a = 10 * c + x /\ c < a
    BY <1>2, <1>10, DivSmaller
  <2>2. PICK d \in Nat, y \in 0 .. 9 : d = b \div 10 /\ y = b % 10 /\ b = 10 * d + y
    BY <1>10, DivSmaller
  <2>3. PICK s \in Seq(Nat), t \in Seq(Nat) : s = FormatK[c] /\ t = FormatK[d]
    BY <1>4
  <2>4. s = t <=> c = d
    BY <2>3, ValueOfFormatK
  <2>5. Larger(s, t) <=> c > d
    BY <1>2, <2>1, <2>3
  <2>6. /\ FormatK[a] = Append(s, x) /\ Len(FormatK[a]) = Len(s) + 1
        /\ FormatK[b] = Append(t, y) /\ Len(FormatK[b]) = Len(t) + 1
    BY <1>2, <1>6, <1>10, <2>1, <2>2, <2>3
  <2>7. Len(s) \in Nat /\ Len(t) \in Nat /\ x \in Nat /\ y \in Nat
    OBVIOUS
  <2>8. CASE Len(s) = Len(t)
    <3>1. Larger(FormatK[a], FormatK[b]) <=> StringGreater(FormatK[a], FormatK[b])
      BY <2>6, <2>7, <2>8 DEF Larger
    <3>2. StringGreater(FormatK[a], FormatK[b]) <=> StringGreater(s, t) \/ (s = t /\ x > y)
      BY <2>6, <2>7, <2>8, GreaterOfAppend
    <3>3. Larger(s, t) <=> StringGreater(s, t)
      BY <2>7, <2>8 DEF Larger
    <3>4. a > b <=> c > d \/ (c = d /\ x > y)
      BY <2>1, <2>2
    <3> QED BY <1>3, <2>4, <2>5, <3>1, <3>2, <3>3, <3>4
  <2>9. CASE Len(s) # Len(t)
    <3>1. Larger(FormatK[a], FormatK[b]) <=> Larger(s, t)
      BY <2>6, <2>7, <2>9 DEF Larger
    <3>2. c # d
      BY <2>4, <2>9
    <3>3. a > b <=> c > d
      BY <2>1, <2>2, <3>2
    <3> QED BY <1>3, <2>5, <3>1, <3>3
  <2> QED BY <2>8, <2>9
<1> QED BY <1>2, <1>7, <1>8, <1>9, <1>10

LEMMA FormatKInjective == \A a, b \in Nat : FormatK[a] = FormatK[b] => a = b
BY ValueOfFormatK

-------------------------------------------------------------------------------
\* Rounding up to kilobytes.
LEMMA CeilDivBounds ==
  ASSUME NEW a \in Nat
  PROVE  /\ CeilDiv(a, 1024) \in Nat /\ 1024 * CeilDiv(a, 1024) >= a
         /\ 1024 * (CeilDiv(a, 1024) - 1) < a
BY DEF CeilDiv

LEMMA CeilDivThousandths ==
  ASSUME NEW a \in Nat
  PROVE  /\ CeilDiv(a, 1000 * 1024) \in Nat /\ 1024000 * CeilDiv(a, 1000 * 1024) >= a
         /\ 1024000 * (CeilDiv(a, 1000 * 1024) - 1) < a
BY DEF CeilDiv

LEMMA CeilDivMonotone ==
  ASSUME NEW a \in Nat, NEW c \in Nat, a <= c
  PROVE  CeilDiv(a, 1000 * 1024) <= CeilDiv(c, 1000 * 1024)
BY DEF CeilDiv

LEMMA SmallerBounds ==
  ASSUME NEW t \in Nat
  PROVE  Smaller(t, 1000) \in 0 .. 1000
BY DEF Smaller

LEMMA ProductBounds ==
  ASSUME NEW size \in Nat, NEW m \in 0 .. 1000
  PROVE  /\ size * (1000 + m) \in Nat
         /\ size * (1000 + m) >= 1000 * size /\ size * (1000 + m) <= 2000 * size
<1>1. size * m \in Nat /\ size * m <= size * 1000
  OBVIOUS
<1>2. size * (1000 + m) = 1000 * size + size * m
  OBVIOUS
<1> QED BY <1>1, <1>2

\* A percentage of the size: at least the size, at most twice as much.
LEMMA GraceBounds ==
  ASSUME NEW t \in Nat, NEW size \in Nat \ {0}
  PROVE  /\ GraceInK(t, size) \in Nat /\ GraceInK(t, size) # 0
         /\ 1024 * GraceInK(t, size) >= size /\ 1024 * (GraceInK(t, size) - 1) < 2 * size
<1>1. PICK m \in 0 .. 1000 : m = Smaller(t, 1000)
  BY SmallerBounds
<1>2. PICK p \in Nat : p = size * (1000 + m) /\ p >= 1000 * size /\ p <= 2000 * size
  BY ProductBounds
<1>3. PICK k : k = GraceInK(t, size) /\ k = CeilDiv(p, 1000 * 1024)
  BY <1>1, <1>2 DEF GraceInK
<1>4. k \in Nat /\ 1024000 * k >= p /\ 1024000 * (k - 1) < p
  <2>1. /\ CeilDiv(p, 1000 * 1024) \in Nat /\ 1024000 * CeilDiv(p, 1000 * 1024) >= p
        /\ 1024000 * (CeilDiv(p, 1000 * 1024) - 1) < p
    BY CeilDivThousandths, SMT
  <2> QED BY <1>3, <2>1, SMT
<1>5. k # 0 /\ 1024 * k >= size /\ 1024 * (k - 1) < 2 * size
  BY <1>2, <1>4
<1> QED BY <1>3, <1>4, <1>5

\* A larger percentage is not less.
LEMMA GraceMonotone ==
  ASSUME NEW t \in Nat, NEW u \in Nat, t <= u, NEW size \in Nat
  PROVE  GraceInK(t, size) <= GraceInK(u, size)
<1>0. PICK m \in 0 .. 1000 : m = Smaller(t, 1000)
  BY SmallerBounds
<1>1. PICK n \in 0 .. 1000 : n = Smaller(u, 1000)
  BY SmallerBounds
<1>2. m <= n
  BY <1>0, <1>1 DEF Smaller
<1>3. size * (1000 + m) <= size * (1000 + n)
  BY <1>2
<1>4. size * (1000 + m) \in Nat /\ size * (1000 + n) \in Nat
  BY ProductBounds
<1> QED BY <1>0, <1>1, <1>3, <1>4, CeilDivMonotone DEF GraceInK

\* No percentage is the size.
LEMMA NoGrace ==
  ASSUME NEW size \in Nat
  PROVE  GraceInK(0, size) = CeilDiv(size, 1024)
<1>1. GraceInK(0, size) = CeilDiv(size * 1000, 1000 * 1024)
  BY DEF GraceInK, Smaller
<1> QED BY <1>1 DEF CeilDiv

-------------------------------------------------------------------------------
\* The number a limit stands for.
Kilobytes(grace, size) == IF grace.form = "percent" THEN GraceInK(grace.tenths, size) ELSE 0

LEMMA GraceForms ==
  ASSUME NEW g \in Graces
  PROVE  /\ g.form \in {"absent", "malformed", "percent"} /\ g.tenths \in Nat
         /\ g.form = "absent" => g = Absent
         /\ g.form = "malformed" <=> g = Malformed
BY LimitsAssumption DEF Graces, Absent, Malformed, Percent

LEMMA KilobytesOf ==
  ASSUME NEW g \in Graces, NEW size \in Sizes
  PROVE  /\ Kilobytes(g, size) \in Nat /\ convertToK(g, size) = FormatK[Kilobytes(g, size)]
         /\ g.form = "percent" <=> Kilobytes(g, size) # 0
         /\ Kilobytes(g, size) # 0 => /\ 1024 * Kilobytes(g, size) >= size
                                      /\ 1024 * (Kilobytes(g, size) - 1) < 2 * size
<1>1. ZeroK = FormatK[0]
  BY FormatKOf DEF ZeroK
<1>2. size \in Nat \ {0} /\ g.tenths \in Nat
  BY LimitsAssumption, GraceForms
<1>3. CASE g.form = "percent"
  <2>1. Kilobytes(g, size) = GraceInK(g.tenths, size)
    BY <1>3 DEF Kilobytes
  <2>2. convertToK(g, size) = FormatK[GraceInK(g.tenths, size)]
    BY <1>3 DEF convertToK
  <2>3. PICK k : k = GraceInK(g.tenths, size)
    OBVIOUS
  <2>4. k \in Nat /\ k # 0 /\ 1024 * k >= size /\ 1024 * (k - 1) < 2 * size
    <3>1. PICK t \in Nat, n \in Nat \ {0} : t = g.tenths /\ n = size
      BY <1>2
    <3>2. /\ GraceInK(t, n) \in Nat /\ GraceInK(t, n) # 0
          /\ 1024 * GraceInK(t, n) >= n /\ 1024 * (GraceInK(t, n) - 1) < 2 * n
      BY GraceBounds
    <3> QED BY <2>3, <3>1, <3>2
  <2> QED BY <1>3, <2>1, <2>2, <2>3, <2>4
<1>4. CASE g.form # "percent"
  <2>1. Kilobytes(g, size) = 0
    BY <1>4 DEF Kilobytes
  <2>2. convertToK(g, size) = ZeroK
    BY <1>4 DEF convertToK
  <2> QED BY <1>1, <1>4, <2>1, <2>2
<1> QED BY <1>3, <1>4

\* What createQuotaPod compares as strings, it compares as numbers.
LEMMA LimitsInvalidIff ==
  ASSUME NEW a \in Nat, NEW b \in Nat
  PROVE  limitsInvalid(FormatK[a], FormatK[b]) <=> a # 0 /\ b # 0 /\ a > b
<1>1. ZeroK = FormatK[0]
  BY FormatKOf DEF ZeroK
<1>2. (FormatK[a] # ZeroK <=> a # 0) /\ (FormatK[b] # ZeroK <=> b # 0)
  BY <1>1, FormatKInjective
<1>3. Larger(FormatK[a], FormatK[b]) <=> a > b
  BY LargerIsGreater
<1> QED BY <1>2, <1>3 DEF limitsInvalid, Larger

-------------------------------------------------------------------------------
\* What createQuotaPod has done, in terms of the numbers.
SoftK == Kilobytes(softLimitGrace, pvcStorage)
HardK == Kilobytes(hardLimitGrace, pvcStorage)

LimitsInv ==
  /\ pvcStorage \in Sizes /\ softLimitGrace \in Graces /\ hardLimitGrace \in Graces
  /\ outcome \in {"pending", "launched", "rejected"}
  /\ outcome = "launched" =>
       /\ ~(SoftK # 0 /\ HardK # 0 /\ SoftK > HardK)
       /\ softLimit = IF SoftK = 0 /\ HardK = 0 THEN FormatK[CeilDiv(pvcStorage, 1024)] ELSE FormatK[SoftK]
       /\ hardLimit = IF SoftK = 0 /\ HardK = 0 THEN FormatK[CeilDiv(pvcStorage, 1024)] ELSE FormatK[HardK]
  /\ outcome = "rejected" =>
       \/ Malformed \in {softLimitGrace, hardLimitGrace}
       \/ SoftK # 0 /\ HardK # 0 /\ SoftK > HardK

LEMMA PodInitial == LimitsInit => LimitsInv
BY DEF LimitsInit, LimitsInv

LEMMA PodStep == LimitsInv /\ [createQuotaPod]_limitVars => LimitsInv'
<1> SUFFICES ASSUME LimitsInv, [createQuotaPod]_limitVars PROVE LimitsInv'
  OBVIOUS
<1>1. CASE UNCHANGED limitVars
  BY <1>1 DEF LimitsInv, limitVars, SoftK, HardK
<1>2. CASE createQuotaPod
  <2>1. /\ pvcStorage' = pvcStorage /\ softLimitGrace' = softLimitGrace
        /\ hardLimitGrace' = hardLimitGrace
    BY <1>2 DEF createQuotaPod
  <2>2. SoftK' = SoftK /\ HardK' = HardK
    BY <2>1 DEF SoftK, HardK
  <2>3. /\ SoftK \in Nat /\ HardK \in Nat
        /\ convertToK(softLimitGrace, pvcStorage) = FormatK[SoftK]
        /\ convertToK(hardLimitGrace, pvcStorage) = FormatK[HardK]
    BY KilobytesOf DEF LimitsInv, SoftK, HardK
  <2>4. limitsInvalid(FormatK[SoftK], FormatK[HardK]) <=> SoftK # 0 /\ HardK # 0 /\ SoftK > HardK
    BY <2>3, LimitsInvalidIff
  <2>5. ZeroK = FormatK[0]
    BY FormatKOf DEF ZeroK
  <2>6. \A limit : defaultLimit(FormatK[SoftK], FormatK[HardK], limit)
                   = IF SoftK = 0 /\ HardK = 0 THEN FormatK[CeilDiv(pvcStorage, 1024)] ELSE limit
    <3>1. (FormatK[SoftK] = ZeroK <=> SoftK = 0) /\ (FormatK[HardK] = ZeroK <=> HardK = 0)
      BY <2>3, <2>5, FormatKInjective
    <3> QED BY <3>1 DEF defaultLimit
  <2>7. CASE outcome' = "launched"
    <3>1. /\ ~limitsInvalid(FormatK[SoftK], FormatK[HardK])
          /\ softLimit' = defaultLimit(FormatK[SoftK], FormatK[HardK], FormatK[SoftK])
          /\ hardLimit' = defaultLimit(FormatK[SoftK], FormatK[HardK], FormatK[HardK])
      BY <1>2, <2>3, <2>7 DEF createQuotaPod
    <3> QED BY <2>1, <2>2, <2>4, <2>6, <2>7, <3>1 DEF LimitsInv
  <2>8. CASE outcome' = "rejected"
    <3>1. \/ Malformed \in {softLimitGrace, hardLimitGrace}
          \/ limitsInvalid(FormatK[SoftK], FormatK[HardK])
      BY <1>2, <2>3, <2>8 DEF createQuotaPod
    <3> QED BY <2>1, <2>2, <2>4, <2>8, <3>1 DEF LimitsInv
  <2> QED BY <1>2, <2>7, <2>8 DEF createQuotaPod
<1> QED BY <1>1, <1>2

LEMMA LimitsInvariance == LimitsSpec => []LimitsInv
BY PodInitial, PodStep, PTL DEF LimitsSpec

(***************************************************************************)
(* The limits that the quota pod is launched with, written as digits and   *)
(* read by the quota tools, are at least the request and at most a little  *)
(* more than twice as much, and the soft limit is not above the hard one,  *)
(* for every size of a claim and every percentage.                         *)
(***************************************************************************)
THEOREM LimitsFit == LimitsSpec => []LimitsFitTheRequest
<1>1. LimitsInv => LimitsFitTheRequest
  <2> SUFFICES ASSUME LimitsInv, outcome = "launched"
               PROVE  LimitsFitTheRequest
    BY DEF LimitsFitTheRequest
  <2>1. /\ SoftK \in Nat /\ HardK \in Nat /\ pvcStorage \in Nat \ {0}
        /\ SoftK # 0 => 1024 * SoftK >= pvcStorage /\ 1024 * (SoftK - 1) < 2 * pvcStorage
        /\ HardK # 0 => 1024 * HardK >= pvcStorage /\ 1024 * (HardK - 1) < 2 * pvcStorage
    BY KilobytesOf, LimitsAssumption DEF LimitsInv, SoftK, HardK
  <2>2. PICK k \in Nat : /\ k = CeilDiv(pvcStorage, 1024)
                         /\ 1024 * k >= pvcStorage /\ 1024 * (k - 1) < pvcStorage
    <3>1. pvcStorage \in Nat
      BY <2>1
    <3>2. PICK size \in Nat : size = pvcStorage
      BY <3>1
    <3>3. /\ CeilDiv(size, 1024) \in Nat /\ 1024 * CeilDiv(size, 1024) >= size
          /\ 1024 * (CeilDiv(size, 1024) - 1) < size
      BY CeilDivBounds
    <3> QED BY <3>2, <3>3
  <2>3. CASE SoftK = 0 /\ HardK = 0
    <3>1. Value(softLimit) = k /\ Value(hardLimit) = k
      BY <2>2, <2>3, ValueOfFormatK DEF LimitsInv
    <3> QED BY <2>1, <2>2, <3>1 DEF LimitsFitTheRequest
  <2>4. CASE ~(SoftK = 0 /\ HardK = 0)
    <3>1. Value(softLimit) = SoftK /\ Value(hardLimit) = HardK
      BY <2>1, <2>4, ValueOfFormatK DEF LimitsInv
    <3>2. ~(SoftK # 0 /\ HardK # 0 /\ SoftK > HardK)
      BY DEF LimitsInv
    <3> QED BY <2>1, <2>4, <3>1, <3>2 DEF LimitsFitTheRequest
  <2> QED BY <2>3, <2>4
<1> QED BY <1>1, LimitsInvariance, PTL

(***************************************************************************)
(* validateLimits compares the limits as text, first their lengths and     *)
(* then their characters.  It rejects no limits that are in order: for     *)
(* numbers without leading zeros that is their order as numbers.           *)
(***************************************************************************)
THEOREM RejectedLimitsAreBad == LimitsSpec => []OnlyBadLimitsAreRejected
<1>1. LimitsInv => OnlyBadLimitsAreRejected
  <2> SUFFICES ASSUME LimitsInv, outcome = "rejected", SoftK # 0, HardK # 0, SoftK > HardK
               PROVE  OnlyBadLimitsAreRejected
    BY DEF OnlyBadLimitsAreRejected, LimitsInv
  <2>1. softLimitGrace.form = "percent" /\ hardLimitGrace.form = "percent"
    BY KilobytesOf DEF LimitsInv, SoftK, HardK
  <2>2. /\ SoftK = GraceInK(softLimitGrace.tenths, pvcStorage)
        /\ HardK = GraceInK(hardLimitGrace.tenths, pvcStorage)
    BY <2>1 DEF SoftK, HardK, Kilobytes
  <2>3. /\ softLimitGrace.tenths \in Nat /\ hardLimitGrace.tenths \in Nat
        /\ pvcStorage \in Nat \ {0}
    BY GraceForms, LimitsAssumption DEF LimitsInv
  <2>4. softLimitGrace.tenths > hardLimitGrace.tenths
    <3> SUFFICES ASSUME softLimitGrace.tenths <= hardLimitGrace.tenths PROVE FALSE
      BY <2>3
    <3>1. SoftK <= HardK
      BY <2>2, <2>3, GraceMonotone
    <3>2. SoftK \in Nat /\ HardK \in Nat
      BY KilobytesOf DEF LimitsInv, SoftK, HardK
    <3> QED BY <3>1, <3>2
  <2> QED BY <2>1, <2>4 DEF OnlyBadLimitsAreRejected
<1> QED BY <1>1, LimitsInvariance, PTL

(***************************************************************************)
(* A quota without any grace has the limits of a grace of 0%, though the   *)
(* two are computed in different places.                                   *)
(***************************************************************************)
THEOREM NoGraceIsTheSize == LimitsSpec => []NoGraceIsZeroPercent
<1>1. LimitsInv => NoGraceIsZeroPercent
  <2> SUFFICES ASSUME LimitsInv, outcome = "launched", softLimitGrace = Absent, hardLimitGrace = Absent
               PROVE  /\ softLimit = convertToK(Percent(0), pvcStorage)
                      /\ hardLimit = convertToK(Percent(0), pvcStorage)
    BY DEF NoGraceIsZeroPercent
  <2>1. SoftK = 0 /\ HardK = 0
    BY DEF SoftK, HardK, Kilobytes, Absent
  <2>2. softLimit = FormatK[CeilDiv(pvcStorage, 1024)] /\ hardLimit = FormatK[CeilDiv(pvcStorage, 1024)]
    BY <2>1 DEF LimitsInv
  <2>3. convertToK(Percent(0), pvcStorage) = FormatK[GraceInK(0, pvcStorage)]
    BY DEF convertToK, Percent
  <2>4. pvcStorage \in Nat
    BY LimitsAssumption DEF LimitsInv
  <2> QED BY <2>2, <2>3, <2>4, NoGrace
<1> QED BY <1>1, LimitsInvariance, PTL

-------------------------------------------------------------------------------
\* The projects.

(***************************************************************************)
(* The id that the latest run of the script of v is about: the one it has  *)
(* read, then the one it has assigned; 0 when the run was abandoned.       *)
(***************************************************************************)
Current(v) ==
  IF script[v] = "read" THEN pid[v]
  ELSE IF script[v] = "assigned" \/ left[v] < Quotas[v] THEN project[v] ELSE 0

ScriptInOrder(v) ==
  /\ script[v] # "idle" => dir[v] = "present" /\ left[v] > 0 /\ pid[v] # 0
  /\ script[v] = "assigned" => project[v] = pid[v]
  /\ dir[v] # "present" => project[v] = 0
  /\ left[v] <= Quotas[v]
  /\ dir[v] = "present" /\ left[v] < Quotas[v] => project[v] # 0
  /\ dir[v] = "absent" => left[v] = Quotas[v]

\* A finished run has left limits on the project of v: its own, if it ran alone.
HasLimits(v) ==
  dir[v] = "present" /\ script[v] = "idle" /\ left[v] < Quotas[v] =>
    \/ limits[<<Home[v], project[v]>>] = v
    \/ limits[<<Home[v], project[v]>>] # NoVolume /\ ~Alone(v)

\* Two runs are about one id only if they overlapped.
Distinct(v, w) == Current(v) # 0 /\ Current(v) = Current(w) => <<v, w>> \in overlapped

QuotaInv ==
  /\ TypeOK
  /\ \A v \in Volumes : ScriptInOrder(v) /\ HasLimits(v)
  /\ \A v \in Volumes : \A w \in Neighbours(v) : Distinct(v, w)

USE QuotaAssumption

(***************************************************************************)
(* The id that ReadLast takes is larger than that of every directory of    *)
(* the node.                                                               *)
(***************************************************************************)
LEMMA NextIdIsFree ==
  ASSUME TypeOK, NEW v \in Volumes, NEW w \in Neighbours(v), ReadLast(v), dir[w] = "present"
  PROVE  pid'[v] # project[w] /\ pid'[v] # 0
<1>1. PICK r \in Reports(Home[v]), i \in Ids : IsLast(i, r) /\ pid' = [pid EXCEPT ![v] = i + 1]
  BY DEF ReadLast
<1>2. project[w] \in InUse(Home[v])
  BY DEF InUse, Neighbours
<1>3. project[w] \in r
  BY <1>2 DEF Reports
<1>4. i \in Nat /\ project[w] \in Nat /\ project[w] <= i
  BY <1>1, <1>3 DEF IsLast, Ids, TypeOK, Neighbours
<1>5. pid'[v] = i + 1
  BY <1>1 DEF TypeOK
<1> QED BY <1>4, <1>5

(***************************************************************************)
(* Types are kept by every command.                                        *)
(***************************************************************************)
LEMMA QuotaTypeStep ==
  ASSUME TypeOK, [Next]_vars, \A v \in Volumes : ScriptInOrder(v)
  PROVE  TypeOK'
<1>1. CASE UNCHANGED vars
  BY <1>1 DEF TypeOK, vars
<1>2. ASSUME NEW v \in Volumes, MakeDirectory(v) PROVE TypeOK'
  BY <1>2 DEF TypeOK, MakeDirectory
<1>3. ASSUME NEW v \in Volumes, ReadLast(v) PROVE TypeOK'
  <2>1. pid' \in [Volumes -> Ids]
    BY <1>3 DEF TypeOK, ReadLast, Ids
  <2>2. overlapped' \subseteq Volumes \X Volumes
    BY <1>3 DEF TypeOK, ReadLast, Others, Pending, Neighbours
  <2> QED BY <1>3, <2>1, <2>2 DEF TypeOK, ReadLast
<1>4. ASSUME NEW v \in Volumes, AssignProject(v) PROVE TypeOK'
  BY <1>4 DEF TypeOK, AssignProject
<1>5. ASSUME NEW v \in Volumes, SetLimit(v) PROVE TypeOK'
  <2>1. left[v] > 0
    BY <1>5 DEF SetLimit, ScriptInOrder
  <2>2. left' \in [Volumes -> 0..2] /\ pid' \in [Volumes -> Ids]
    BY <1>5, <2>1 DEF SetLimit, TypeOK, Ids
  <2> QED BY <1>5, <2>2 DEF TypeOK, SetLimit
<1>6. ASSUME NEW v \in Volumes, Abandon(v) PROVE TypeOK'
  BY <1>6 DEF TypeOK, Abandon, Ids
<1>7. ASSUME NEW v \in Volumes, RemoveDirectory(v) PROVE TypeOK'
  BY <1>7 DEF TypeOK, RemoveDirectory, Ids
<1> QED BY <1>1, <1>2, <1>3, <1>4, <1>5, <1>6, <1>7 DEF Next

(***************************************************************************)
(* What a step says of the volume it is about, and of all the others.      *)
(***************************************************************************)
SameVolume(w) ==
  /\ dir'[w] = dir[w] /\ project'[w] = project[w] /\ script'[w] = script[w]
  /\ pid'[w] = pid[w] /\ left'[w] = left[w]

LEMMA FrameCurrent ==
  ASSUME NEW w \in Volumes, SameVolume(w)
  PROVE  /\ Current(w)' = Current(w)
         /\ ScriptInOrder(w) => ScriptInOrder(w)'
BY DEF SameVolume, Current, ScriptInOrder

LEMMA StepIsLocal ==
  ASSUME TypeOK, NEW v \in Volumes, NEW w \in Volumes, w # v,
         \/ MakeDirectory(v) \/ ReadLast(v) \/ AssignProject(v) \/ SetLimit(v)
         \/ Abandon(v) \/ RemoveDirectory(v)
  PROVE  SameVolume(w)
BY DEF TypeOK, SameVolume, MakeDirectory, ReadLast, AssignProject, SetLimit, Abandon, RemoveDirectory

(***************************************************************************)
(* The order of the script's commands, for the volume that takes the step. *)
(***************************************************************************)
LEMMA ScriptStep ==
  ASSUME TypeOK, NEW v \in Volumes, ScriptInOrder(v),
         \/ MakeDirectory(v) \/ ReadLast(v) \/ AssignProject(v) \/ SetLimit(v)
         \/ Abandon(v) \/ RemoveDirectory(v)
  PROVE  ScriptInOrder(v)'
<1>t. left[v] \in 0..2 /\ Quotas[v] \in 1..2
  BY DEF TypeOK
<1>1. CASE MakeDirectory(v)
  BY <1>1, <1>t DEF TypeOK, MakeDirectory, ScriptInOrder
<1>2. CASE ReadLast(v)
  <2>1. pid'[v] # 0
    BY <1>2 DEF TypeOK, ReadLast, Ids
  <2> QED BY <1>2, <1>t, <2>1 DEF TypeOK, ReadLast, ScriptInOrder
<1>3. CASE AssignProject(v)
  BY <1>3, <1>t DEF TypeOK, AssignProject, ScriptInOrder
<1>4. CASE SetLimit(v)
  BY <1>4, <1>t DEF TypeOK, SetLimit, ScriptInOrder
<1>5. CASE Abandon(v)
  BY <1>5, <1>t DEF TypeOK, Abandon, ScriptInOrder
<1>6. CASE RemoveDirectory(v)
  BY <1>6, <1>t DEF TypeOK, RemoveDirectory, ScriptInOrder
<1> QED BY <1>1, <1>2, <1>3, <1>4, <1>5, <1>6

(***************************************************************************)
(* Only ReadLast gives the run of a volume another id, or forgets a pair.  *)
(***************************************************************************)
LEMMA CurrentStep ==
  ASSUME TypeOK, NEW v \in Volumes, ScriptInOrder(v),
         \/ MakeDirectory(v) \/ AssignProject(v) \/ SetLimit(v)
         \/ Abandon(v) \/ RemoveDirectory(v)
  PROVE  Current(v)' \in {Current(v), 0} /\ overlapped' = overlapped
<1>t. left[v] \in 0..2 /\ Quotas[v] \in 1..2
  BY DEF TypeOK
<1>1. CASE MakeDirectory(v)
  BY <1>1 DEF TypeOK, MakeDirectory, Current
<1>3. CASE AssignProject(v)
  BY <1>3 DEF TypeOK, AssignProject, Current
<1>4. CASE SetLimit(v)
  BY <1>4, <1>t DEF TypeOK, SetLimit, Current, ScriptInOrder
<1>5. CASE Abandon(v)
  BY <1>5, <1>t DEF TypeOK, Abandon, Current
<1>6. CASE RemoveDirectory(v)
  BY <1>6, <1>t DEF TypeOK, RemoveDirectory, Current, ScriptInOrder
<1> QED BY <1>1, <1>3, <1>4, <1>5, <1>6

LEMMA DistinctStep ==
  ASSUME QuotaInv, [Next]_vars, NEW x \in Volumes, NEW y \in Neighbours(x)
  PROVE  Distinct(x, y)'
<1>t. /\ TypeOK /\ ScriptInOrder(x) /\ ScriptInOrder(y) /\ y \in Volumes /\ y # x
      /\ Distinct(x, y) /\ x \in Neighbours(y)
  BY DEF QuotaInv, Neighbours
<1>1. CASE UNCHANGED vars
  BY <1>1, <1>t DEF vars, Distinct, Current
<1>2. ASSUME NEW v \in Volumes, ReadLast(v) PROVE Distinct(x, y)'
  <2>1. CASE v # x /\ v # y
    <3>1. Current(x)' = Current(x) /\ Current(y)' = Current(y)
      BY <1>2, <1>t, <2>1, StepIsLocal, FrameCurrent
    <3>2. <<x, y>> \in overlapped => <<x, y>> \in overlapped'
      BY <1>2, <2>1 DEF ReadLast, Others
    <3> QED BY <1>t, <3>1, <3>2 DEF Distinct
  <2>2. ASSUME NEW w \in Neighbours(v), Current(v)' # 0, Current(v)' = Current(w)'
        PROVE  <<v, w>> \in overlapped' /\ <<w, v>> \in overlapped'
    <3>1. w \in Volumes /\ w # v /\ ScriptInOrder(w) /\ TypeOK
      BY <1>t DEF Neighbours, QuotaInv
    <3>2. Current(v)' = pid'[v]
      BY <1>2, <3>1 DEF ReadLast, Current, TypeOK
    <3>3. Current(w)' = Current(w)
      BY <1>2, <3>1, StepIsLocal, FrameCurrent
    <3>4. script[w] = "read"
      <4>1. SUFFICES ASSUME script[w] # "read" PROVE FALSE
        OBVIOUS
      <4>2. project[w] = Current(w) /\ project[w] # 0
        BY <2>2, <3>3, <4>1 DEF Current
      <4>3. dir[w] = "present"
        BY <3>1, <4>2 DEF ScriptInOrder
      <4> QED BY <1>2, <2>2, <3>1, <3>2, <3>3, <4>2, <4>3, NextIdIsFree
    <3>5. w \in Pending(v)
      BY <3>4 DEF Pending
    <3> QED BY <1>2, <3>5 DEF ReadLast
  <2>3. CASE v = x
    BY <2>2, <2>3 DEF Distinct
  <2>4. CASE v = y
    BY <1>t, <2>2, <2>4 DEF Distinct
  <2> QED BY <2>1, <2>3, <2>4
<1>3. ASSUME NEW v \in Volumes,
             \/ MakeDirectory(v) \/ AssignProject(v) \/ SetLimit(v)
             \/ Abandon(v) \/ RemoveDirectory(v)
      PROVE  Distinct(x, y)'
  <2>1. \A w \in Volumes : w # v => Current(w)' = Current(w)
    BY <1>3, <1>t, StepIsLocal, FrameCurrent
  <2>2. Current(v)' \in {Current(v), 0} /\ overlapped' = overlapped
    BY <1>3, CurrentStep DEF QuotaInv
  <2> QED BY <1>t, <2>1, <2>2 DEF Distinct
<1> QED BY <1>1, <1>2, <1>3 DEF Next

(***************************************************************************)
(* SetLimit of another volume touches the limits of x only if the two runs *)
(* are about one id, and then they overlapped.                             *)
(***************************************************************************)
LEMMA LimitsStep ==
  ASSUME QuotaInv, [Next]_vars, NEW x \in Volumes
  PROVE  HasLimits(x)'
<1>t. TypeOK /\ ScriptInOrder(x) /\ HasLimits(x)
  BY DEF QuotaInv
<1>1. CASE UNCHANGED vars
  BY <1>1, <1>t DEF vars, HasLimits, Alone
<1>2. ASSUME NEW v \in Volumes, ReadLast(v) PROVE HasLimits(x)'
  <2>1. CASE v = x
    BY <1>2, <1>t, <2>1 DEF ReadLast, HasLimits, TypeOK
  <2>2. CASE v # x
    <3>1. SameVolume(x) /\ limits' = limits
      BY <1>2, <1>t, <2>2, StepIsLocal DEF ReadLast
    <3>2. ~Alone(x) => ~Alone(x)'
      BY <1>2, <2>2 DEF ReadLast, Others, Alone
    <3> QED BY <1>t, <3>1, <3>2 DEF SameVolume, HasLimits
  <2> QED BY <2>1, <2>2
<1>3. ASSUME NEW v \in Volumes, SetLimit(v) PROVE HasLimits(x)'
  <2>1. pid[v] \in Ids /\ <<Home[v], pid[v]>> \in Nodes \X Ids
    BY <1>t DEF TypeOK
  <2>2. limits'[<<Home[v], pid[v]>>] = v /\ overlapped' = overlapped
    BY <1>3, <1>t, <2>1 DEF SetLimit, TypeOK
  <2>3. CASE v = x
    <3>1. project'[x] = pid[x]
      BY <1>3, <1>t, <2>3 DEF SetLimit, ScriptInOrder
    <3> QED BY <2>2, <2>3, <3>1 DEF HasLimits
  <2>4. CASE v # x
    <3>1. SameVolume(x)
      BY <1>3, <1>t, <2>4, StepIsLocal
    <3>2. CASE <<Home[v], pid[v]>> = <<Home[x], project[x]>>
      <4>1. SUFFICES ASSUME dir[x] = "present", script[x] = "idle", left[x] < Quotas[x]
                     PROVE  HasLimits(x)'
        BY <3>1 DEF HasLimits, SameVolume
      <4>2. v \in Neighbours(x) /\ Current(x) = project[x] /\ Current(x) # 0
        BY <1>t, <2>4, <3>2, <4>1 DEF Neighbours, Current, ScriptInOrder
      <4>3. Current(v) = project[v] /\ project[v] = pid[v]
        BY <1>3 DEF SetLimit, Current, QuotaInv, ScriptInOrder
      <4>4. Distinct(x, v)
        BY <4>2 DEF QuotaInv
      <4>5. ~Alone(x)'
        BY <2>2, <3>2, <4>2, <4>3, <4>4 DEF Distinct, Alone
      <4>6. limits'[<<Home[x], project'[x]>>] # NoVolume
        BY <2>2, <3>1, <3>2 DEF SameVolume
      <4> QED BY <4>5, <4>6 DEF HasLimits
    <3>3. CASE <<Home[v], pid[v]>> # <<Home[x], project[x]>>
      <4>1. limits'[<<Home[x], project[x]>>] = limits[<<Home[x], project[x]>>]
        BY <1>3, <1>t, <3>3 DEF SetLimit, TypeOK
      <4> QED BY <1>t, <2>2, <3>1, <4>1 DEF SameVolume, HasLimits, Alone
    <3> QED BY <3>2, <3>3
  <2> QED BY <2>3, <2>4
<1>4. ASSUME NEW v \in Volumes, MakeDirectory(v) \/ AssignProject(v) \/ Abandon(v) \/ RemoveDirectory(v)
      PROVE  HasLimits(x)'
  <2>1. limits' = limits /\ overlapped' = overlapped
    BY <1>4 DEF MakeDirectory, AssignProject, Abandon, RemoveDirectory
  <2>2. CASE v # x
    <3>1. SameVolume(x)
      BY <1>4, <1>t, <2>2, StepIsLocal
    <3> QED BY <1>t, <2>1, <3>1 DEF SameVolume, HasLimits, Alone
  <2>3. CASE v = x
    <3>t. left[x] \in 0..2 /\ Quotas[x] \in 1..2
      BY <1>t DEF TypeOK
    <3>1. CASE MakeDirectory(x)
      BY <1>t, <3>t, <3>1 DEF MakeDirectory, TypeOK, HasLimits, ScriptInOrder
    <3>2. CASE AssignProject(x)
      BY <1>t, <3>2 DEF AssignProject, TypeOK, HasLimits
    <3>3. CASE Abandon(x)
      BY <1>t, <3>t, <3>3 DEF Abandon, TypeOK, HasLimits
    <3>4. CASE RemoveDirectory(x)
      BY <1>t, <3>4 DEF RemoveDirectory, TypeOK, HasLimits
    <3> QED BY <1>4, <2>3, <3>1, <3>2, <3>3, <3>4
  <2> QED BY <2>2, <2>3
<1> QED BY <1>1, <1>2, <1>3, <1>4 DEF Next

(***************************************************************************)
(* QuotaInv is an invariant of the scripts.                                *)
(***************************************************************************)
THEOREM QuotaInvariance == Spec => []QuotaInv
<1>1. Init => QuotaInv
  <2> SUFFICES ASSUME Init PROVE QuotaInv
    OBVIOUS
  <2>1. TypeOK
    BY DEF Init, TypeOK, Ids
  <2>2. \A v \in Volumes : Current(v) = 0
    BY DEF Init, Current
  <2>3. \A v \in Volumes : ScriptInOrder(v) /\ HasLimits(v)
    BY DEF Init, ScriptInOrder, HasLimits
  <2> QED BY <2>1, <2>2, <2>3 DEF QuotaInv, Distinct
<1>2. QuotaInv /\ [Next]_vars => QuotaInv'
  <2> SUFFICES ASSUME QuotaInv, [Next]_vars PROVE QuotaInv'
    OBVIOUS
  <2>1. TypeOK'
    BY QuotaTypeStep DEF QuotaInv
  <2>2. ASSUME NEW w \in Volumes PROVE ScriptInOrder(w)'
    <3>t. TypeOK /\ ScriptInOrder(w)
      BY <2>2 DEF QuotaInv
    <3>1. CASE UNCHANGED vars
      BY <3>t, <3>1 DEF vars, ScriptInOrder
    <3>2. ASSUME NEW v \in Volumes,
                 \/ MakeDirectory(v) \/ ReadLast(v) \/ AssignProject(v) \/ SetLimit(v)
                 \/ Abandon(v) \/ RemoveDirectory(v)
          PROVE  ScriptInOrder(w)'
      <4>1. CASE v = w
        BY <3>2, <3>t, <4>1, ScriptStep
      <4>2. CASE v # w
        BY <3>2, <3>t, <4>2, <2>2, StepIsLocal, FrameCurrent
      <4> QED BY <4>1, <4>2
    <3> QED BY <3>1, <3>2 DEF Next
  <2>3. \A w \in Volumes : HasLimits(w)'
    BY LimitsStep
  <2>4. \A x \in Volumes : \A y \in Neighbours(x) : Distinct(x, y)'
    BY DistinctStep
  <2>5. \A x \in Volumes : Neighbours(x)' = Neighbours(x)
    BY DEF Neighbours
  <2> QED BY <2>1, <2>2, <2>3, <2>4, <2>5 DEF QuotaInv
<1> QED BY <1>1, <1>2, PTL DEF Spec

(***************************************************************************)
(* Every variable has its type, so the ids stay within their bound.        *)
(***************************************************************************)
THEOREM QuotaTypeCorrect == Spec => []TypeOK
<1>1. QuotaInv => TypeOK
  BY DEF QuotaInv
<1> QED BY <1>1, QuotaInvariance, PTL

(***************************************************************************)
(* A volume whose quota pods have succeeded is under a limit.              *)
(***************************************************************************)
THEOREM InServiceIsLimitedInvariance == Spec => []InServiceIsLimited
<1>1. QuotaInv => InServiceIsLimited
  <2> SUFFICES ASSUME QuotaInv, NEW v \in Volumes, InService(v)
               PROVE  project[v] # 0 /\ limits[<<Home[v], project[v]>>] # NoVolume
    BY DEF InServiceIsLimited
  <2>1. left[v] < Quotas[v] /\ script[v] = "idle" /\ project[v] # 0
    BY DEF QuotaInv, InService, ScriptInOrder, TypeOK
  <2> QED BY <2>1 DEF QuotaInv, HasLimits, InService
<1> QED BY <1>1, QuotaInvariance, PTL

(***************************************************************************)
(* Volumes in service share a project only when their scripts overlapped.  *)
(***************************************************************************)
THEOREM SharedOnlyByOverlapInvariance == Spec => []SharedOnlyByOverlap
<1>1. QuotaInv => SharedOnlyByOverlap
  <2> SUFFICES ASSUME QuotaInv, NEW v \in Volumes, NEW w \in Neighbours(v),
                      InService(v), InService(w), project[v] = project[w]
               PROVE  <<v, w>> \in overlapped
    BY DEF SharedOnlyByOverlap
  <2>1. \A x \in {v, w} : Current(x) = project[x] /\ project[x] # 0
    BY DEF QuotaInv, InService, ScriptInOrder, TypeOK, Current, Neighbours
  <2> QED BY <2>1 DEF QuotaInv, Distinct
<1> QED BY <1>1, QuotaInvariance, PTL

(***************************************************************************)
(* A volume whose script ran alone has the limits it was given.            *)
(***************************************************************************)
THEOREM LimitsAreOwnInvariance == Spec => []LimitsAreOwn
<1>1. QuotaInv => LimitsAreOwn
  <2> SUFFICES ASSUME QuotaInv, NEW v \in Volumes, InService(v), Alone(v)
               PROVE  limits[<<Home[v], project[v]>>] = v
    BY DEF LimitsAreOwn
  <2>1. left[v] < Quotas[v] /\ script[v] = "idle"
    BY DEF QuotaInv, InService, ScriptInOrder, TypeOK
  <2> QED BY <2>1 DEF QuotaInv, HasLimits, InService
<1> QED BY <1>1, QuotaInvariance, PTL
=============================================================================
