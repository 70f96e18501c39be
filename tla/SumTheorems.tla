---------------------------- MODULE SumTheorems ----------------------------
(***************************************************************************)
(* Facts about the sums of module Sums: their type, what a further, a      *)
(* changed or a larger number does to them.  Induction on the positions is *)
(* by the least position at which a claim would fail.                      *)
(***************************************************************************)
EXTENDS Sums, Integers, WellFoundedInduction, TLAPS

\* A set of numbers that is not empty has a least one.
LEMMA LeastNumber ==
    ASSUME NEW T, T \subseteq Nat, T # {}
    PROVE  \E n \in T : \A m \in T : n <= m
  <1>1. PICK n \in T : \A m \in T : ~ (<<m, n>> \in OpToRel(<, Nat))
    BY NatLessThanWellFounded, WFMin
  <1>2. ASSUME NEW m \in T PROVE n <= m
    <2>1. m \in Nat /\ n \in Nat
      OBVIOUS
    <2>2. ~ (m < n)
      BY <1>1, <2>1 DEF OpToRel
    <2>3. QED
      BY <2>1, <2>2
  <1>3. QED
    BY <1>2

\* What holds of 0 and of a number's successor holds of all numbers.
LEMMA NumbersReachedFromZero ==
    ASSUME NEW S, 0 \in S, \A n \in Nat : n \in S => n + 1 \in S
    PROVE  Nat \subseteq S
  <1> SUFFICES ASSUME Nat \ S # {} PROVE FALSE
    OBVIOUS
  <1>1. PICK n \in Nat \ S : \A m \in Nat \ S : n <= m
    BY LeastNumber
  <1>2. n # 0 /\ n - 1 \in Nat
    BY <1>1
  <1>3. n - 1 \in S
    BY <1>1, <1>2
  <1>4. QED
    BY <1>1, <1>2, <1>3
-----------------------------------------------------------------------------
(***************************************************************************)
(* The recursive function of SumTo.                                        *)
(***************************************************************************)
Extends(g, f, n) == g = [k \in 0 .. n |-> IF k = 0 THEN 0 ELSE g[k - 1] + f[k]]

Upto(f, n) == CHOOSE g : Extends(g, f, n)

\* The function of the sums up to a place exists: one place more extends it.
LEMMA UptoExists ==
    ASSUME NEW f, NEW n \in Nat
    PROVE  Extends(Upto(f, n), f, n)
  <1> DEFINE S == {m \in Nat : \E g : Extends(g, f, m)}
  <1>1. 0 \in S
    <2>1. Extends([k \in 0 .. 0 |-> 0], f, 0)
      BY DEF Extends
    <2>2. QED
      BY <2>1
  <1>2. ASSUME NEW m \in Nat, m \in S PROVE m + 1 \in S
    <2>1. PICK g : Extends(g, f, m)
      BY <1>2
    <2> DEFINE h == [k \in 0 .. m + 1 |-> IF k = m + 1 THEN g[m] + f[m + 1] ELSE g[k]]
    <2>2. \A k \in 0 .. m : g[k] = IF k = 0 THEN 0 ELSE g[k - 1] + f[k]
      BY <2>1 DEF Extends
    <2>3. ASSUME NEW k \in 0 .. m + 1
          PROVE  h[k] = IF k = 0 THEN 0 ELSE h[k - 1] + f[k]
      <3>1. CASE k = m + 1
        BY <3>1
      <3>2. CASE k # m + 1
        <4>1. k \in 0 .. m /\ (k # 0 => k - 1 \in 0 .. m + 1 /\ k - 1 # m + 1)
          BY <3>2
        <4>2. h[k] = g[k] /\ (k # 0 => h[k - 1] = g[k - 1])
          BY <3>2, <4>1
        <4>3. QED
          BY <2>2, <4>1, <4>2
      <3>3. QED
        BY <3>1, <3>2
    <2>4. h = [k \in 0 .. m + 1 |-> IF k = 0 THEN 0 ELSE h[k - 1] + f[k]]
      BY <2>3
    <2> HIDE DEF h
    <2>5. Extends(h, f, m + 1)
      BY <2>4 DEF Extends
    <2>6. QED
      BY <2>5
  <1> HIDE DEF S
  <1>3. n \in S
    BY <1>1, <1>2, NumbersReachedFromZero
  <1>4. \E g : Extends(g, f, n)
    BY <1>3 DEF S
  <1>5. QED
    BY <1>4 DEF Upto

\* The sum up to n is the last value of that function.
LEMMA SumToIsUpto ==
    ASSUME NEW f, NEW n \in Nat
    PROVE  SumTo(f, n) = Upto(f, n)[n]
  BY DEF SumTo, Upto, Extends

\* The sums of f up to two places agree on what both have seen.
LEMMA UptoAgrees ==
    ASSUME NEW f, NEW n \in Nat
    PROVE  \A k \in 0 .. n : Upto(f, n + 1)[k] = Upto(f, n)[k]
  <1> DEFINE g == Upto(f, n)
             h == Upto(f, n + 1)
             S == {k \in Nat : k <= n => h[k] = g[k]}
  <1>1. /\ \A k \in 0 .. n : g[k] = IF k = 0 THEN 0 ELSE g[k - 1] + f[k]
        /\ \A k \in 0 .. n + 1 : h[k] = IF k = 0 THEN 0 ELSE h[k - 1] + f[k]
    <2>1. Extends(g, f, n) /\ Extends(h, f, n + 1)
      BY UptoExists
    <2> HIDE DEF g, h
    <2>2. QED
      BY <2>1 DEF Extends
  <1> HIDE DEF g, h
  <1>2. 0 \in S
    BY <1>1
  <1>3. \A k \in Nat : k \in S => k + 1 \in S
    <2> SUFFICES ASSUME NEW k \in Nat, k <= n => h[k] = g[k], k + 1 <= n
                 PROVE  h[k + 1] = g[k + 1]
      OBVIOUS
    <2>1. k + 1 \in 0 .. n /\ k + 1 \in 0 .. n + 1 /\ (k + 1) - 1 = k /\ k + 1 # 0
      OBVIOUS
    <2>2. QED
      BY <1>1, <2>1
  <1>4. Nat \subseteq S
    <2> HIDE DEF S
    <2>1. QED
      BY <1>2, <1>3, NumbersReachedFromZero
  <1>5. QED
    BY <1>4 DEF g, h

\* The sum, one number at a time.
LEMMA SumToSteps ==
    ASSUME NEW f, NEW n \in Nat
    PROVE  SumTo(f, 0) = 0 /\ SumTo(f, n + 1) = SumTo(f, n) + f[n + 1]
  <1>1. Extends(Upto(f, 0), f, 0) /\ Extends(Upto(f, n + 1), f, n + 1)
    BY UptoExists
  <1>2. Upto(f, 0)[0] = 0
    BY <1>1 DEF Extends
  <1>3. Upto(f, n + 1)[n + 1] = Upto(f, n + 1)[n] + f[n + 1]
    <2>1. n + 1 \in 0 .. n + 1 /\ n + 1 # 0 /\ (n + 1) - 1 = n
      OBVIOUS
    <2>2. QED
      BY <1>1, <2>1 DEF Extends
  <1>4. Upto(f, n + 1)[n] = Upto(f, n)[n]
    BY UptoAgrees
  <1>5. QED
    BY <1>2, <1>3, <1>4, SumToIsUpto
-----------------------------------------------------------------------------
(***************************************************************************)
(* Sums of numbers.                                                        *)
(***************************************************************************)

\* A sum of numbers is a number.
LEMMA SumToType ==
    ASSUME NEW f, NEW n \in Nat, \A k \in 1 .. n : f[k] \in Nat
    PROVE  SumTo(f, n) \in Nat
  <1> DEFINE S == {k \in Nat : k <= n => SumTo(f, k) \in Nat}
  <1>1. 0 \in S
    BY SumToSteps
  <1>2. \A k \in Nat : k \in S => k + 1 \in S
    <2> SUFFICES ASSUME NEW k \in Nat, SumTo(f, k) \in Nat, k + 1 <= n
                 PROVE  SumTo(f, k + 1) \in Nat
      OBVIOUS
    <2>1. f[k + 1] \in Nat
      OBVIOUS
    <2>2. QED
      BY <2>1, SumToSteps
  <1> HIDE DEF S
  <1>3. n \in S
    BY <1>1, <1>2, NumbersReachedFromZero
  <1>4. QED
    BY <1>3 DEF S

\* A larger number at every place makes a larger sum.
LEMMA SumToMonotone ==
    ASSUME NEW f, NEW g, NEW n \in Nat,
           \A k \in 1 .. n : f[k] \in Nat /\ g[k] \in Nat /\ f[k] <= g[k]
    PROVE  SumTo(f, n) <= SumTo(g, n)
  <1> DEFINE S == {k \in Nat : k <= n => /\ SumTo(f, k) \in Nat /\ SumTo(g, k) \in Nat
                                       /\ SumTo(f, k) <= SumTo(g, k)}
  <1>1. 0 \in S
    BY SumToSteps
  <1>2. \A k \in Nat : k \in S => k + 1 \in S
    <2> SUFFICES ASSUME NEW k \in Nat, k + 1 <= n,
                        SumTo(f, k) \in Nat, SumTo(g, k) \in Nat, SumTo(f, k) <= SumTo(g, k)
                 PROVE  /\ SumTo(f, k + 1) \in Nat /\ SumTo(g, k + 1) \in Nat
                        /\ SumTo(f, k + 1) <= SumTo(g, k + 1)
      OBVIOUS
    <2>1. f[k + 1] \in Nat /\ g[k + 1] \in Nat /\ f[k + 1] <= g[k + 1]
      OBVIOUS
    <2>2. /\ SumTo(f, k + 1) = SumTo(f, k) + f[k + 1]
          /\ SumTo(g, k + 1) = SumTo(g, k) + g[k + 1]
      BY SumToSteps
    <2>3. QED
      BY <2>1, <2>2
  <1> HIDE DEF S
  <1>3. n \in S
    BY <1>1, <1>2, NumbersReachedFromZero
  <1>4. QED
    BY <1>3 DEF S

\* The sum depends on the numbers up to n only.
LEMMA SumToSame ==
    ASSUME NEW f, NEW g, NEW n \in Nat,
           \A k \in 1 .. n : f[k] = g[k]
    PROVE  SumTo(f, n) = SumTo(g, n)
  <1> DEFINE S == {k \in Nat : k <= n => SumTo(f, k) = SumTo(g, k)}
  <1>1. 0 \in S
    BY SumToSteps
  <1>2. \A k \in Nat : k \in S => k + 1 \in S
    <2> SUFFICES ASSUME NEW k \in Nat, SumTo(f, k) = SumTo(g, k), k + 1 <= n
                 PROVE  SumTo(f, k + 1) = SumTo(g, k + 1)
      OBVIOUS
    <2>1. f[k + 1] = g[k + 1]
      OBVIOUS
    <2>2. QED
      BY <2>1, SumToSteps
  <1> HIDE DEF S
  <1>3. n \in S
    BY <1>1, <1>2, NumbersReachedFromZero
  <1>4. QED
    BY <1>3 DEF S

\* One number changed changes the sum by the difference.
LEMMA SumToChanged ==
    ASSUME NEW f, NEW g, NEW n \in Nat, NEW j \in 1 .. n,
           \A k \in 1 .. n : f[k] \in Nat /\ g[k] \in Nat /\ (k # j => f[k] = g[k])
    PROVE  SumTo(g, n) = SumTo(f, n) - f[j] + g[j]
  <1> DEFINE S == {k \in Nat : j <= k /\ k <= n => SumTo(g, k) = SumTo(f, k) - f[j] + g[j]}
  <1>t. ASSUME NEW k \in Nat, k <= n PROVE SumTo(f, k) \in Nat /\ SumTo(g, k) \in Nat
    <2>1. \A i \in 1 .. k : f[i] \in Nat /\ g[i] \in Nat
      BY <1>t
    <2>2. QED
      BY <2>1, SumToType
  <1>1. 0 \in S
    OBVIOUS
  <1>2. ASSUME NEW k \in Nat, k \in S PROVE k + 1 \in S
    <2> SUFFICES ASSUME j <= k + 1, k + 1 <= n
                 PROVE  SumTo(g, k + 1) = SumTo(f, k + 1) - f[j] + g[j]
      OBVIOUS
    <2>1. /\ SumTo(f, k + 1) = SumTo(f, k) + f[k + 1]
          /\ SumTo(g, k + 1) = SumTo(g, k) + g[k + 1]
      BY SumToSteps
    <2>2. /\ SumTo(f, k) \in Nat /\ SumTo(g, k) \in Nat
          /\ f[j] \in Nat /\ g[j] \in Nat
          /\ f[k + 1] \in Nat /\ g[k + 1] \in Nat
      BY <1>t
    <2>3. CASE j = k + 1
      <3>1. SumTo(f, k) = SumTo(g, k)
        <4>1. \A i \in 1 .. k : f[i] = g[i]
          BY <2>3
        <4>2. QED
          BY <4>1, SumToSame
      <3>2. QED
        BY <2>1, <2>2, <2>3, <3>1
    <2>4. CASE j # k + 1
      <3>1. SumTo(g, k) = SumTo(f, k) - f[j] + g[j] /\ f[k + 1] = g[k + 1]
        BY <1>2, <2>4
      <3>2. QED
        BY <2>1, <2>2, <3>1
    <2>5. QED
      BY <2>3, <2>4
  <1> HIDE DEF S
  <1>3. n \in S
    BY <1>1, <1>2, NumbersReachedFromZero
  <1>4. QED
    BY <1>3 DEF S
-----------------------------------------------------------------------------
(***************************************************************************)
(* Sums of sequences of numbers, and of all the sequences of some members. *)
(***************************************************************************)
LEMMA NumbersInARow ==
    ASSUME NEW n \in Nat, NEW h \in [1 .. n -> Nat]
    PROVE  h \in Seq(Nat) /\ Len(h) = n
  OBVIOUS

\* The sum of a sequence of numbers is a number.
LEMMA SumSeqType ==
    ASSUME NEW s \in Seq(Nat)
    PROVE  SumSeq(s) \in Nat
  <1>1. \A k \in 1 .. Len(s) : s[k] \in Nat
    OBVIOUS
  <1>2. QED
    BY <1>1, SumToType DEF SumSeq

\* A number more in a sequence adds itself to the sum.
LEMMA SumSeqAppend ==
    ASSUME NEW s \in Seq(Nat), NEW x \in Nat
    PROVE  SumSeq(Append(s, x)) = SumSeq(s) + x
  <1> DEFINE r == Append(s, x)
             n == Len(s)
  <1>1. Len(r) = n + 1 /\ r[n + 1] = x /\ \A k \in 1 .. n : r[k] = s[k]
    OBVIOUS
  <1> HIDE DEF r
  <1>2. SumTo(r, n) = SumTo(s, n)
    BY <1>1, SumToSame
  <1>3. SumTo(r, n + 1) = SumTo(r, n) + r[n + 1]
    BY SumToSteps
  <1>4. QED
    BY <1>1, <1>2, <1>3 DEF SumSeq, r

\* Another number at one place changes the sum by their difference.
LEMMA SumSeqChanged ==
    ASSUME NEW r \in Seq(Nat), NEW s \in Seq(Nat), Len(s) = Len(r), NEW j \in 1 .. Len(r),
           \A n \in 1 .. Len(r) : n # j => s[n] = r[n]
    PROVE  r[j] \in Nat /\ s[j] \in Nat /\ SumSeq(s) = SumSeq(r) - r[j] + s[j]
  <1>1. Len(r) \in Nat /\ \A k \in 1 .. Len(r) : r[k] \in Nat /\ s[k] \in Nat
    OBVIOUS
  <1>2. SumTo(s, Len(r)) = SumTo(r, Len(r)) - r[j] + s[j]
    BY <1>1, SumToChanged
  <1>3. QED
    BY <1>1, <1>2 DEF SumSeq

\* The sum of one member's sequence is changed by y - x.
LEMMA SumAllChanged ==
    ASSUME NEW order, Len(order) \in Nat, NEW j \in 1 .. Len(order),
           NEW f, NEW g, NEW x \in Nat, NEW y \in Nat,
           \A i \in 1 .. Len(order) :
               /\ f[order[i]] \in Seq(Nat) /\ g[order[i]] \in Seq(Nat)
               /\ i # j => f[order[i]] = g[order[i]],
           SumSeq(g[order[j]]) = SumSeq(f[order[j]]) - x + y
    PROVE  SumAll(g, order) = SumAll(f, order) - x + y
  <1> DEFINE F == [i \in 1 .. Len(order) |-> SumSeq(f[order[i]])]
             G == [i \in 1 .. Len(order) |-> SumSeq(g[order[i]])]
  <1>1. F \in Seq(Nat) /\ Len(F) = Len(order) /\ G \in Seq(Nat) /\ Len(G) = Len(order)
    <2>1. F \in [1 .. Len(order) -> Nat] /\ G \in [1 .. Len(order) -> Nat]
      BY SumSeqType
    <2> HIDE DEF F, G
    <2>2. QED
      BY <2>1, NumbersInARow
  <1>2. \A i \in 1 .. Len(order) : F[i] \in Nat /\ G[i] \in Nat /\ (i # j => F[i] = G[i])
    BY SumSeqType
  <1>3. G[j] = F[j] - x + y
    OBVIOUS
  <1>4. SumAll(f, order) = SumTo(F, Len(order)) /\ SumAll(g, order) = SumTo(G, Len(order))
    BY <1>1 DEF SumAll, SumSeq
  <1> HIDE DEF F, G
  <1>5. SumTo(G, Len(order)) = SumTo(F, Len(order)) - F[j] + G[j]
    BY <1>2, SumToChanged
  <1>6. SumTo(F, Len(order)) \in Nat
    BY <1>2, SumToType
  <1>7. QED
    BY <1>2, <1>3, <1>4, <1>5, <1>6

\* The sum over all members of an order is a number.
LEMMA SumAllType ==
    ASSUME NEW order, Len(order) \in Nat, NEW f,
           \A i \in 1 .. Len(order) : f[order[i]] \in Seq(Nat)
    PROVE  SumAll(f, order) \in Nat
  <1> DEFINE F == [i \in 1 .. Len(order) |-> SumSeq(f[order[i]])]
  <1>1. F \in [1 .. Len(order) -> Nat]
    BY SumSeqType
  <1>2. F \in Seq(Nat)
    BY <1>1
  <1> HIDE DEF F
  <1>3. QED
    BY <1>2, SumSeqType DEF SumAll, F

\* Larger numbers everywhere make a larger sum.
LEMMA SumAllMonotone ==
    ASSUME NEW order, Len(order) \in Nat, NEW f, NEW g,
           \A i \in 1 .. Len(order) :
               /\ f[order[i]] \in Seq(Nat) /\ g[order[i]] \in Seq(Nat)
               /\ Len(f[order[i]]) = Len(g[order[i]])
               /\ \A n \in 1 .. Len(f[order[i]]) : f[order[i]][n] <= g[order[i]][n]
    PROVE  SumAll(f, order) <= SumAll(g, order)
  <1> DEFINE F == [i \in 1 .. Len(order) |-> SumSeq(f[order[i]])]
             G == [i \in 1 .. Len(order) |-> SumSeq(g[order[i]])]
  <1>1. ASSUME NEW i \in 1 .. Len(order)
        PROVE  F[i] \in Nat /\ G[i] \in Nat /\ F[i] <= G[i]
    <2> DEFINE r == f[order[i]]
               s == g[order[i]]
    <2>1. \A n \in 1 .. Len(r) : r[n] \in Nat /\ s[n] \in Nat /\ r[n] <= s[n]
      OBVIOUS
    <2>2. r \in Seq(Nat) /\ s \in Seq(Nat) /\ Len(r) = Len(s)
      OBVIOUS
    <2> HIDE DEF r, s
    <2>3. SumSeq(r) \in Nat /\ SumSeq(s) \in Nat
      BY <2>2, SumSeqType
    <2>4. Len(r) \in Nat
      BY <2>2
    <2>5. SumTo(r, Len(r)) <= SumTo(s, Len(r))
      BY <2>1, <2>4, SumToMonotone
    <2>6. QED
      BY <2>2, <2>3, <2>5 DEF r, s, SumSeq
  <1>2. F \in Seq(Nat) /\ Len(F) = Len(order) /\ G \in Seq(Nat) /\ Len(G) = Len(order)
    <2>1. F \in [1 .. Len(order) -> Nat] /\ G \in [1 .. Len(order) -> Nat]
      BY <1>1
    <2> HIDE DEF F, G
    <2>2. QED
      BY <2>1, NumbersInARow
  <1> HIDE DEF F, G
  <1>3. SumTo(F, Len(order)) <= SumTo(G, Len(order))
    BY <1>1, SumToMonotone
  <1>4. QED
    BY <1>2, <1>3 DEF SumAll, SumSeq, F, G

\* Nothing adds up to nothing: in a row of zeros ...
LEMMA SumOfZeros ==
    ASSUME NEW n \in Nat
    PROVE  SumSeq([i \in 1 .. n |-> 0]) = 0
  <1> DEFINE Z == [i \in 1 .. n |-> 0]
             S == {k \in Nat : SumTo(Z, k) = 0 \/ k > n}
  <1>1. 0 \in S
    BY SumToSteps
  <1>2. \A k \in Nat : k \in S => k + 1 \in S
    <2> SUFFICES ASSUME NEW k \in Nat, SumTo(Z, k) = 0, k + 1 <= n
                 PROVE  SumTo(Z, k + 1) = 0
      OBVIOUS
    <2>1. Z[k + 1] = 0
      OBVIOUS
    <2> HIDE DEF Z
    <2>2. QED
      BY <2>1, SumToSteps
  <1>3. SumTo(Z, n) = 0
    <2> HIDE DEF S, Z
    <2>1. n \in S
      BY <1>1, <1>2, NumbersReachedFromZero
    <2>2. QED
      BY <2>1 DEF S
  <1>4. Z \in [1 .. n -> Nat]
    OBVIOUS
  <1>5. Len(Z) = n
    BY <1>4, NumbersInARow
  <1>6. QED
    BY <1>3, <1>5 DEF SumSeq

\* ... and where all the sequences are empty.
LEMMA SumAllEmpty ==
    ASSUME NEW order, Len(order) \in Nat, NEW f,
           \A i \in 1 .. Len(order) : f[order[i]] = << >>
    PROVE  SumAll(f, order) = 0
  <1>1. SumSeq(<< >>) = 0
    <2>1. Len(<< >>) = 0
      OBVIOUS
    <2>2. QED
      BY <2>1, SumToSteps DEF SumSeq
  <1>2. [i \in 1 .. Len(order) |-> SumSeq(f[order[i]])] = [i \in 1 .. Len(order) |-> 0]
    BY <1>1
  <1>3. QED
    BY <1>2, SumOfZeros DEF SumAll

\* Larger numbers in a row make a larger sum.
LEMMA SumRowMonotone ==
    ASSUME NEW n \in Nat, NEW f \in [1 .. n -> Nat], NEW g \in [1 .. n -> Nat],
           \A i \in 1 .. n : f[i] <= g[i]
    PROVE  SumSeq(f) \in Nat /\ SumSeq(g) \in Nat /\ SumSeq(f) <= SumSeq(g)
  <1>1. f \in Seq(Nat) /\ Len(f) = n /\ g \in Seq(Nat) /\ Len(g) = n
    BY NumbersInARow
  <1>2. \A k \in 1 .. n : f[k] \in Nat /\ g[k] \in Nat /\ f[k] <= g[k]
    OBVIOUS
  <1>3. SumTo(f, n) <= SumTo(g, n)
    BY <1>2, SumToMonotone
  <1>4. QED
    BY <1>1, <1>3, SumSeqType DEF SumSeq
=============================================================================
