------------------------- MODULE AdmissionMathProofs -------------------------
(***************************************************************************)
(* Theorems about the arithmetic of AdmissionMath, for every width, bound, *)
(* dimension and cap.  The loops of the code are recursive functions there;*)
(* a fact about all rounds of a loop is proved by an induction over sets:  *)
(* the set of the rounds at which it holds contains 0 and the successor of *)
(* each of its elements, so it is all of Nat (NatSetInduction).            *)
(***************************************************************************)
EXTENDS AdmissionMath, TLAPS, WellFoundedInduction

(***************************************************************************)
(* Induction and recursion                                                 *)
(***************************************************************************)

\* Induction with the set of the numbers that have the property.
LEMMA NatSetInduction ==
  ASSUME NEW T \in SUBSET Nat, 0 \in T, \A n \in T : n + 1 \in T
  PROVE  T = Nat
<1> DEFINE D == Nat \ T
           R == OpToRel(<, Nat)
<1>1. SUFFICES ASSUME D # {} PROVE FALSE
  OBVIOUS
<1>2. D \subseteq Nat
  OBVIOUS
<1>3. IsWellFoundedOn(R, Nat)
  BY NatLessThanWellFounded
<1>4. \A x, y \in Nat : x < y => <<x, y>> \in R
  BY DEF OpToRel
<1> HIDE DEF R, D
<1>5. PICK x \in D : \A y \in D : ~(<<y, x>> \in R)
  BY <1>1, <1>2, <1>3, WFMin
<1>6. x # 0
  BY DEF D
<1>7. x - 1 \in Nat /\ x - 1 < x /\ (x - 1) + 1 = x
  BY <1>2, <1>6
<1>8. x - 1 \in T
  BY <1>2, <1>4, <1>5, <1>7 DEF D
<1> QED
  BY <1>5, <1>7, <1>8 DEF D

\* Induction up to a bound.
LEMMA RangeInduction ==
  ASSUME NEW N \in Nat, NEW T \in SUBSET (0 .. N), 0 \in T,
         \A n \in T : n < N => n + 1 \in T
  PROVE  T = 0 .. N
<1> DEFINE U == T \union {n \in Nat : n > N}
<1>1. U \in SUBSET Nat
  <2>1. T \subseteq Nat
    BY DEF U
  <2> QED
    BY <2>1
<1>2. 0 \in U
  OBVIOUS
<1>3. ASSUME NEW n \in U PROVE n + 1 \in U
  OBVIOUS
<1> HIDE DEF U
<1>4. U = Nat
  BY <1>1, <1>2, <1>3, NatSetInduction
<1>5. ASSUME NEW n \in 0 .. N PROVE n \in T
  <2>1. n \in U /\ ~(n > N)
    BY <1>4
  <2> QED
    BY <2>1 DEF U
<1> QED
  BY <1>5

\* g lists the iterates of a step from a base, for the indices of I.  The step
\* takes the index and the value before.
Steps(I, S) == [I \X S -> S]
IteratesOf(g, I, S, base, step) ==
  /\ g \in [I -> S]
  /\ g[0] = base
  /\ \A i \in I \ {0} : g[i] = step[<<i, g[i - 1]>>]

\* Every step and base have iterates on 0 .. N.
LEMMA IteratesExist ==
  ASSUME NEW N \in Nat, NEW S, NEW base \in S, NEW step \in Steps(0 .. N, S)
  PROVE  \E g : IteratesOf(g, 0 .. N, S, base, step)
<1> DEFINE Iterates(g, n) == /\ g[0] = base
                             /\ \A i \in 1 .. n : g[i] = step[<<i, g[i - 1]>>]
           T == {n \in 0 .. N : \E g \in [0 .. N -> S] : Iterates(g, n)}
<1>1. 0 \in T
  <2> DEFINE g == [i \in 0 .. N |-> base]
  <2>1. g \in [0 .. N -> S]
    OBVIOUS
  <2>2. 0 \in 0 .. N /\ Iterates(g, 0)
    OBVIOUS
  <2> HIDE DEF g, Iterates
  <2> QED
    BY <2>1, <2>2
<1>2. ASSUME NEW n \in T, n < N
      PROVE  n + 1 \in T
  <2>1. PICK g \in [0 .. N -> S] : Iterates(g, n)
    OBVIOUS
  <2> DEFINE next == step[<<n + 1, g[n]>>]
             h == [g EXCEPT ![n + 1] = next]
  <2>2. n \in 0 .. N /\ n + 1 \in 0 .. N
    BY <1>2
  <2>3. next \in S
    BY <2>2 DEF Steps
  <2> HIDE DEF next
  <2>4. h \in [0 .. N -> S] /\ h[n + 1] = next /\ \A i \in 0 .. n : h[i] = g[i]
    BY <2>2, <2>3
  <2> HIDE DEF h
  <2>5. ASSUME NEW i \in 1 .. n + 1
        PROVE  h[i] = step[<<i, h[i - 1]>>]
    <3>1. CASE i = n + 1
      <4>1. i - 1 = n /\ n \in 0 .. n
        BY <2>2, <3>1
      <4>2. h[i] = next /\ h[i - 1] = g[n]
        BY <2>4, <3>1, <4>1
      <4> QED
        BY <3>1, <4>1, <4>2 DEF next
    <3>2. CASE i # n + 1
      <4>1. i \in 1 .. n /\ i \in 0 .. n /\ i - 1 \in 0 .. n
        BY <2>2, <3>2
      <4> QED
        BY <2>1, <2>4, <4>1
    <3> QED
      BY <3>1, <3>2
  <2>6. Iterates(h, n + 1)
    BY <2>1, <2>2, <2>4, <2>5
  <2> HIDE DEF Iterates
  <2> QED
    BY <2>2, <2>4, <2>6
<1>3. T \in SUBSET (0 .. N)
  OBVIOUS
<1> HIDE DEF T
<1>4. T = 0 .. N
  BY <1>1, <1>2, <1>3, RangeInduction
<1>5. N \in T
  BY <1>4
<1>6. PICK g \in [0 .. N -> S] : Iterates(g, N)
  BY <1>5 DEF T
<1> QED
  BY <1>6 DEF IteratesOf

\* The same on all of Nat: the functions on the initial segments agree.
LEMMA NatIteratesExist ==
  ASSUME NEW S, NEW base \in S, NEW step \in Steps(Nat, S)
  PROVE  \E g : IteratesOf(g, Nat, S, base, step)
<1> DEFINE Iterates(g, n) == IteratesOf(g, 0 .. n, S, base, step)
           Segment == [n \in Nat |-> CHOOSE g : Iterates(g, n)]
           Agree == {i \in Nat : \A m, n \in Nat :
                                   i <= m /\ i <= n => Segment[m][i] = Segment[n][i]}
           f == [n \in Nat |-> Segment[n][n]]
<1>1. ASSUME NEW n \in Nat
      PROVE  Iterates(Segment[n], n)
  <2> DEFINE cut == [p \in (0 .. n) \X S |-> step[p]]
  <2>1. cut \in Steps(0 .. n, S)
    <3>1. \A p \in (0 .. n) \X S : p \in Nat \X S
      OBVIOUS
    <3> QED
      BY <3>1 DEF Steps
  <2>2. \A i \in 0 .. n, x \in S : cut[<<i, x>>] = step[<<i, x>>]
    OBVIOUS
  <2> HIDE DEF cut
  <2>3. PICK g : IteratesOf(g, 0 .. n, S, base, cut)
    BY <2>1, IteratesExist
  <2>4. ASSUME NEW i \in (0 .. n) \ {0} PROVE g[i] = step[<<i, g[i - 1]>>]
    <3>1. i \in 0 .. n /\ i - 1 \in 0 .. n
      OBVIOUS
    <3>2. g[i] = cut[<<i, g[i - 1]>>] /\ g[i - 1] \in S
      BY <2>3, <3>1 DEF IteratesOf
    <3> QED
      BY <2>2, <3>1, <3>2
  <2>5. Iterates(g, n)
    BY <2>3, <2>4 DEF IteratesOf
  <2> HIDE DEF Iterates
  <2> QED
    BY <2>5
<1>2. 0 \in Agree
  BY <1>1 DEF IteratesOf
<1>3. ASSUME NEW i \in Agree
      PROVE  i + 1 \in Agree
  <2>1. ASSUME NEW m \in Nat, NEW n \in Nat, i + 1 <= m, i + 1 <= n
        PROVE  Segment[m][i + 1] = Segment[n][i + 1]
    <3> HIDE DEF Segment
    <3>1. /\ i + 1 \in (0 .. m) \ {0} /\ i + 1 \in (0 .. n) \ {0}
          /\ (i + 1) - 1 = i /\ i <= m /\ i <= n
      BY <2>1
    <3>2. Segment[m][i] = Segment[n][i]
      BY <3>1
    <3>3. /\ Segment[m][i + 1] = step[<<i + 1, Segment[m][i]>>]
          /\ Segment[n][i + 1] = step[<<i + 1, Segment[n][i]>>]
      BY <1>1, <3>1 DEF IteratesOf
    <3> QED
      BY <3>2, <3>3
  <2> HIDE DEF Segment
  <2> QED
    BY <2>1
<1>4. Agree \in SUBSET Nat
  OBVIOUS
<1> HIDE DEF Agree
<1>5. Agree = Nat
  BY <1>2, <1>3, <1>4, NatSetInduction
<1>6. ASSUME NEW n \in Nat
      PROVE  /\ f[n] \in S
             /\ n = 0 => f[n] = base
             /\ n # 0 => f[n] = step[<<n, f[n - 1]>>]
  <2> HIDE DEF Segment
  <2>1. n \in 0 .. n /\ f[n] = Segment[n][n] /\ f[n] \in S /\ Segment[n][0] = base
    BY <1>1 DEF IteratesOf
  <2>2. CASE n # 0
    <3>1. /\ n \in (0 .. n) \ {0} /\ n - 1 \in Nat
          /\ n - 1 <= n - 1 /\ n - 1 <= n
      BY <2>2
    <3>2. Segment[n][n] = step[<<n, Segment[n][n - 1]>>]
      BY <1>1, <3>1 DEF IteratesOf
    <3>3. Segment[n][n - 1] = Segment[n - 1][n - 1]
      BY <1>5, <3>1 DEF Agree
    <3> QED
      BY <2>1, <2>2, <3>1, <3>2, <3>3
  <2> QED
    BY <2>1, <2>2
<1> HIDE DEF Segment, Iterates
<1>7. f \in [Nat -> S]
  BY <1>6
<1> HIDE DEF f
<1>8. IteratesOf(f, Nat, S, base, step)
  BY <1>6, <1>7 DEF IteratesOf
<1> QED
  BY <1>8

(***************************************************************************)
(* Division                                                                *)
(***************************************************************************)

LEMMA DivMod ==
  ASSUME NEW a \in Nat, NEW m \in Nat \ {0}
  PROVE  a = m * (a \div m) + (a % m) /\ a \div m \in Nat /\ a % m \in 0 .. m - 1
OBVIOUS

LEMMA ModUnique ==
  ASSUME NEW m \in Nat \ {0}, NEW q \in Int, NEW r \in 0 .. m - 1
  PROVE  (m * q + r) % m = r /\ (m * q + r) \div m = q
OBVIOUS

LEMMA Distribute ==
  ASSUME NEW a \in Int, NEW b \in Int, NEW m \in Int
  PROVE  (a + b) * m = a * m + b * m
OBVIOUS

(***************************************************************************)
(* Powers of two                                                           *)
(***************************************************************************)

LEMMA Pow2Steps ==
  /\ Pow2 \in [Nat -> Nat \ {0}]
  /\ Pow2[0] = 1
  /\ \A k \in Nat : Pow2[k + 1] = 2 * Pow2[k]
<1> DEFINE Positive == Nat \ {0}
           double == [p \in Nat \X Positive |-> 2 * p[2]]
<1>1. double \in Steps(Nat, Positive) /\ 1 \in Positive
  BY DEF Steps
<1>2. \A i \in Nat, x \in Positive : double[<<i, x>>] = 2 * x
  OBVIOUS
<1> HIDE DEF double, Positive
<1>3. PICK g : IteratesOf(g, Nat, Positive, 1, double)
  BY <1>1, NatIteratesExist
<1>4. g = [i \in Nat |-> IF i = 0 THEN 1 ELSE 2 * g[i - 1]]
  <2>1. ASSUME NEW i \in Nat, i # 0
        PROVE  g[i] = 2 * g[i - 1]
    <3>1. i - 1 \in Nat /\ g[i - 1] \in Positive
      BY <1>3, <2>1 DEF IteratesOf
    <3> QED
      BY <1>2, <1>3, <2>1, <3>1 DEF IteratesOf
  <2> QED
    BY <1>3, <2>1 DEF IteratesOf
<1>5. Pow2 = [k \in Nat |-> IF k = 0 THEN 1 ELSE 2 * Pow2[k - 1]]
  BY <1>4 DEF Pow2
<1>6. Pow2[0] = 1 /\ \A k \in Nat : Pow2[k + 1] = 2 * Pow2[k]
  BY <1>5
<1>7. Pow2 = [k \in Nat |-> Pow2[k]]
  BY <1>5
<1> DEFINE T == {k \in Nat : Pow2[k] \in Nat \ {0}}
<1>8. 0 \in T /\ T \in SUBSET Nat
  BY <1>6
<1>9. ASSUME NEW k \in T PROVE k + 1 \in T
  BY <1>6
<1> HIDE DEF T
<1>10. T = Nat
  BY <1>8, <1>9, NatSetInduction
<1>11. \A k \in Nat : Pow2[k] \in Nat \ {0}
  BY <1>10 DEF T
<1>12. Pow2 \in [Nat -> Nat \ {0}]
  BY <1>7, <1>11
<1> QED
  BY <1>6, <1>12

LEMMA Pow2Grows ==
  ASSUME NEW a \in Nat, NEW b \in Nat, a <= b
  PROVE  Pow2[a] <= Pow2[b]
<1> DEFINE T == {k \in Nat : Pow2[a] <= Pow2[a + k]}
<1>1. T \in SUBSET Nat /\ 0 \in T
  BY Pow2Steps
<1>2. ASSUME NEW k \in T PROVE k + 1 \in T
  <2>1. Pow2[a + (k + 1)] = 2 * Pow2[a + k] /\ a + (k + 1) \in Nat
    <3>1. a + k \in Nat /\ a + (k + 1) = (a + k) + 1
      OBVIOUS
    <3> QED
      BY <3>1, Pow2Steps
  <2>2. Pow2[a + k] \in Nat /\ Pow2[a] \in Nat /\ Pow2[a] <= Pow2[a + k]
    BY Pow2Steps
  <2> QED
    BY <2>1, <2>2
<1> HIDE DEF T
<1>3. b - a \in T /\ a + (b - a) = b
  BY <1>1, <1>2, NatSetInduction
<1> QED
  BY <1>3 DEF T

\* The modulus is a power of four, and the halves and quarters of it are whole.
LEMMA ModulusParts ==
  /\ Width \div 2 \in Nat /\ Width = 2 * (Width \div 2) /\ Width \div 2 >= 1
  /\ Modulus \in Nat /\ Modulus >= 4
  /\ Modulus \div 2 \in Nat /\ Modulus = 2 * (Modulus \div 2)
  /\ Modulus \div 4 \in Nat /\ Modulus = 4 * (Modulus \div 4)
<1>1. Width \div 2 \in Nat /\ Width = 2 * (Width \div 2) /\ Width \div 2 >= 1
  BY WidthAssumption
<1>2. Width \in Nat /\ Width - 1 \in Nat /\ Width - 2 \in Nat
  BY WidthAssumption
<1> DEFINE q == Pow2[Width - 2]
<1>3. Pow2[(Width - 2) + 1] = 2 * q /\ Pow2[(Width - 1) + 1] = 2 * Pow2[Width - 1]
  BY <1>2, Pow2Steps
<1>4. (Width - 2) + 1 = Width - 1 /\ (Width - 1) + 1 = Width
  BY <1>2
<1>5. q \in Nat \ {0}
  BY <1>2, Pow2Steps
<1>6. Modulus = 4 * q
  BY <1>3, <1>4, <1>5 DEF Modulus
<1> HIDE DEF q
<1> QED
  BY <1>1, <1>5, <1>6

(***************************************************************************)
(* isqrt64                                                                 *)
(***************************************************************************)

RootState == [rem : Int, root : Int, n : Int]

LEMMA RootRoundType == \A s \in RootState : RootRound(s) \in RootState
<1> TAKE s \in RootState
<1> DEFINE raw == 4 * s.rem + s.n \div (Modulus \div 4)
<1>1. s.rem \in Int /\ s.root \in Int /\ s.n \in Int
  BY DEF RootState
<1>2. raw \in Int
  BY <1>1, ModulusParts
<1> HIDE DEF raw
<1>3. raw % Modulus \in Int /\ (4 * s.n) % Modulus \in Int
  BY <1>1, <1>2, ModulusParts
<1> DEFINE rem == raw % Modulus
<1> HIDE DEF rem
<1>4. rem \in Int /\ (4 * s.n) % Modulus \in Int
  BY <1>3 DEF rem
<1>5. RootRound(s) = [rem  |-> IF 2 * s.root < rem THEN rem - (2 * s.root + 1) ELSE rem,
                      root |-> IF 2 * s.root < rem THEN 2 * s.root + 2 ELSE 2 * s.root,
                      n    |-> (4 * s.n) % Modulus]
  BY DEF RootRound, rem, raw
<1> QED
  BY <1>1, <1>4, <1>5 DEF RootState

\* The rounds of the loop, as equations.
LEMMA RootRoundsSteps ==
  ASSUME NEW val \in Nat
  PROVE  /\ RootRounds(val)[0] = [rem |-> 0, root |-> 0, n |-> val]
         /\ \A i \in 1 .. Width \div 2 :
              RootRounds(val)[i] = RootRound(RootRounds(val)[i - 1])
<1> DEFINE rounds == 0 .. Width \div 2
           start == [rem |-> 0, root |-> 0, n |-> val]
           step == [p \in rounds \X RootState |-> RootRound(p[2])]
<1>1. step \in Steps(rounds, RootState)
  BY RootRoundType DEF Steps
<1>2. \A i \in rounds, s \in RootState : step[<<i, s>>] = RootRound(s)
  OBVIOUS
<1>3. start \in RootState
  BY DEF RootState
<1>4. \A i \in rounds : i # 0 => i - 1 \in rounds
  BY ModulusParts
<1> HIDE DEF step, start
<1>5. PICK g : IteratesOf(g, rounds, RootState, start, step)
  BY <1>1, <1>3, ModulusParts, IteratesExist
<1>6. g = [i \in rounds |-> IF i = 0 THEN start ELSE RootRound(g[i - 1])]
  <2>1. ASSUME NEW i \in rounds, i # 0
        PROVE  g[i] = RootRound(g[i - 1])
    <3> HIDE DEF rounds
    <3>1. i - 1 \in rounds /\ g[i - 1] \in RootState
      BY <1>4, <1>5, <2>1 DEF IteratesOf
    <3> QED
      BY <1>2, <1>5, <2>1, <3>1 DEF IteratesOf
  <2> QED
    BY <1>5, <2>1 DEF IteratesOf
<1>7. RootRounds(val) = [i \in rounds |-> IF i = 0 THEN start
                                         ELSE RootRound(RootRounds(val)[i - 1])]
  BY <1>6 DEF RootRounds, start
<1>8. 0 \in rounds /\ \A i \in 1 .. Width \div 2 : i \in rounds /\ i # 0
  BY ModulusParts
<1> QED
  BY <1>7, <1>8 DEF start

\* After i rounds the loop has read 2 * i leading bits of val, the number p; root
\* is twice the root r of p, rem is what r * r leaves of p, n the bits not read.
RootInv(val, i, s) ==
  /\ s.n \in 0 .. Modulus - 1
  /\ \E r \in Nat, p \in Nat :
       /\ s.root = 2 * r
       /\ s.rem \in 0 .. 2 * r
       /\ p = r * r + s.rem
       /\ p < Pow2[2 * i]
       /\ val * Pow2[2 * i] = p * Modulus + s.n

LEMMA RootRoundKeeps ==
  ASSUME NEW val \in 0 .. Modulus - 1, NEW i \in 0 .. Width \div 2 - 1,
         NEW s \in RootState, RootInv(val, i, s)
  PROVE  RootInv(val, i + 1, RootRound(s))
<1> DEFINE quarter == Modulus \div 4
           digit == s.n \div quarter
           rest == (4 * s.n) % Modulus
           four == Pow2[2 * i]
<1>1. PICK r \in Nat, p \in Nat :
        /\ s.root = 2 * r
        /\ s.rem \in 0 .. 2 * r
        /\ p = r * r + s.rem
        /\ p < four
        /\ val * four = p * Modulus + s.n
  BY DEF RootInv
<1>2. /\ s.n \in 0 .. Modulus - 1 /\ val \in Nat
      /\ quarter \in Nat \ {0} /\ Modulus = 4 * quarter /\ Modulus \in Nat \ {0}
  BY ModulusParts DEF RootInv
<1>3. digit \in 0 .. 3 /\ rest \in 0 .. Modulus - 1 /\ 4 * s.n = digit * Modulus + rest
  <2> DEFINE low == s.n % quarter
  <2>1. s.n = quarter * digit + low /\ low \in 0 .. quarter - 1 /\ digit \in Nat
    <3>1. s.n \in Nat /\ quarter \in Nat \ {0}
      BY <1>2
    <3> HIDE DEF quarter
    <3> QED
      BY <3>1, DivMod
  <2> HIDE DEF quarter, digit, low
  <2>2. digit <= 3
    <3>1. SUFFICES ASSUME digit >= 4 PROVE FALSE
      BY <2>1
    <3>2. quarter * digit >= quarter * 4
      BY <1>2, <2>1, <3>1
    <3> QED
      BY <1>2, <2>1, <3>2
  <2>3. 4 * s.n = Modulus * digit + 4 * low
    BY <1>2, <2>1, <2>2
  <2>4. 4 * low \in 0 .. Modulus - 1
    BY <1>2, <2>1
  <2>5. rest = 4 * low
    BY <1>2, <2>1, <2>3, <2>4
  <2> QED
    BY <1>2, <2>1, <2>2, <2>3, <2>4, <2>5
<1>4. Pow2[2 * (i + 1)] = 4 * four /\ 4 * four <= Modulus /\ four \in Nat
  <2>1. i \in Nat /\ 2 * i \in Nat /\ 2 * i + 1 \in Nat /\ (2 * i + 1) + 1 = 2 * (i + 1)
    BY ModulusParts
  <2>2. Pow2[2 * i + 1] = 2 * four /\ Pow2[(2 * i + 1) + 1] = 2 * Pow2[2 * i + 1] /\ four \in Nat
    BY <2>1, Pow2Steps
  <2>3. 2 * (i + 1) \in Nat /\ Width \in Nat /\ 2 * (i + 1) <= Width
    BY ModulusParts
  <2>4. Pow2[2 * (i + 1)] <= Modulus
    BY <2>3, Pow2Grows DEF Modulus
  <2> QED
    BY <2>1, <2>2, <2>4
<1> HIDE DEF quarter, digit, rest, four
<1> DEFINE read == 4 * p + digit
           rem == 4 * s.rem + digit
<1>5. /\ read \in Nat /\ rem \in Nat
      /\ read = (2 * r) * (2 * r) + rem
      /\ read < 4 * four
  BY <1>1, <1>3, <1>4
<1>6. val * (4 * four) = read * Modulus + rest
  <2>1. val * (4 * four) = 4 * (val * four)
    BY <1>2, <1>4
  <2>2. 4 * (val * four) = (4 * p) * Modulus + 4 * s.n
    BY <1>1, <1>2
  <2>3. (4 * p) * Modulus + digit * Modulus = read * Modulus
    <3>1. 4 * p \in Int /\ digit \in Int /\ Modulus \in Int
      BY <1>2, <1>3
    <3> QED
      BY <3>1, Distribute
  <2>4. (4 * p) * Modulus \in Int /\ digit * Modulus \in Int /\ read * Modulus \in Int
    BY <1>1, <1>2, <1>3
  <2> QED
    BY <1>2, <1>3, <2>1, <2>2, <2>3, <2>4
<1>7. rem < Modulus
  <2>1. (2 * r) * (2 * r) >= 0 /\ (2 * r) * (2 * r) \in Int
    BY <1>1
  <2> QED
    BY <1>2, <1>4, <1>5, <2>1
<1>8. rem % Modulus = rem
  BY <1>2, <1>5, <1>7
<1> DEFINE took == RootRound(s)
           grows == 4 * r < rem
<1>9. /\ took.n = rest
      /\ grows => took.rem = rem - (4 * r + 1) /\ took.root = 4 * r + 2
      /\ ~grows => took.rem = rem /\ took.root = 4 * r
  <2>1. 2 * s.root = 4 * r
    BY <1>1
  <2>2. took = [rem  |-> IF 4 * r < rem THEN rem - (4 * r + 1) ELSE rem,
                root |-> IF 4 * r < rem THEN 4 * r + 2 ELSE 4 * r,
                n    |-> rest]
    BY <1>8, <2>1 DEF RootRound, digit, quarter, rest
  <2> HIDE DEF took
  <2> QED
    BY <2>2
<1> HIDE DEF took, read, rem
<1>10. ASSUME NEW t \in Nat,
              took.root = 2 * t, took.rem \in 0 .. 2 * t, read = t * t + took.rem
       PROVE  RootInv(val, i + 1, RootRound(s))
  <2>1. /\ took.root = 2 * t
        /\ took.rem \in 0 .. 2 * t
        /\ read = t * t + took.rem
        /\ read < Pow2[2 * (i + 1)]
        /\ val * Pow2[2 * (i + 1)] = read * Modulus + took.n
    BY <1>4, <1>5, <1>6, <1>9, <1>10
  <2>2. read \in Nat /\ took.n \in 0 .. Modulus - 1
    BY <1>3, <1>5, <1>9
  <2> QED
    BY <2>1, <2>2, Zenon DEF RootInv, took
<1>11. CASE grows
  <2>1. /\ took.root = 2 * (2 * r + 1)
        /\ took.rem \in 0 .. 2 * (2 * r + 1)
    BY <1>1, <1>3, <1>5, <1>9, <1>11 DEF rem
  <2>2. read = (2 * r + 1) * (2 * r + 1) + took.rem
    BY <1>1, <1>5, <1>9, <1>11
  <2> QED
    BY <1>10, <2>1, <2>2
<1>12. CASE ~grows
  <2>1. took.root = 2 * (2 * r) /\ took.rem \in 0 .. 2 * (2 * r)
    BY <1>1, <1>5, <1>9, <1>12
  <2>2. read = (2 * r) * (2 * r) + took.rem
    BY <1>5, <1>9, <1>12
  <2> QED
    BY <1>10, <2>1, <2>2
<1> QED
  BY <1>11, <1>12

\* sovr_e8_math.h:13-29: after the last round all bits are read, and root / 2 is
\* the root of val rounded down.
LEMMA RestoredRootIsFloor ==
  ASSUME NEW val \in 0 .. Modulus - 1
  PROVE  /\ RestoredRoot(val) \in Nat
         /\ RestoredRoot(val) * RestoredRoot(val) <= val
         /\ val < (RestoredRoot(val) + 1) * (RestoredRoot(val) + 1)
<1> DEFINE last == Width \div 2
           at(i) == RootRounds(val)[i]
           T == {i \in 0 .. last : at(i) \in RootState /\ RootInv(val, i, at(i))}
<1>1. val \in Nat /\ last \in Nat /\ Modulus \in Nat \ {0} /\ 2 * last = Width
  BY ModulusParts
<1>2. /\ at(0) = [rem |-> 0, root |-> 0, n |-> val]
      /\ \A i \in 1 .. last : at(i) = RootRound(at(i - 1))
  BY <1>1, RootRoundsSteps
<1> HIDE DEF at
<1>3. 0 \in T
  <2>1. at(0) \in RootState
    BY <1>1, <1>2 DEF RootState
  <2>2. /\ at(0).root = 2 * 0 /\ at(0).rem \in 0 .. 2 * 0 /\ 0 = 0 * 0 + at(0).rem
        /\ 0 < Pow2[2 * 0]
        /\ val * Pow2[2 * 0] = 0 * Modulus + at(0).n
        /\ at(0).n \in 0 .. Modulus - 1
    BY <1>1, <1>2, Pow2Steps
  <2>3. RootInv(val, 0, at(0))
    BY <2>2, Zenon DEF RootInv
  <2> QED
    BY <1>1, <2>1, <2>3
<1>4. ASSUME NEW i \in T, i < last
      PROVE  i + 1 \in T
  <2>1. /\ i \in 0 .. last - 1 /\ i + 1 \in 1 .. last /\ i + 1 \in 0 .. last
        /\ (i + 1) - 1 = i /\ at(i) \in RootState /\ RootInv(val, i, at(i))
    BY <1>1, <1>4
  <2>2. at(i + 1) = RootRound(at(i))
    BY <1>2, <2>1
  <2>3. at(i + 1) \in RootState /\ RootInv(val, i + 1, at(i + 1))
    BY <2>1, <2>2, RootRoundType, RootRoundKeeps
  <2> QED
    BY <2>1, <2>3
<1>5. T \in SUBSET (0 .. last)
  OBVIOUS
<1> HIDE DEF T
<1>6. T = 0 .. last
  BY <1>1, <1>3, <1>4, <1>5, RangeInduction
<1>7. RootInv(val, last, at(last))
  <2>1. last \in T
    BY <1>1, <1>6
  <2> QED
    BY <2>1 DEF T
<1>8. PICK r \in Nat, p \in Nat :
        /\ at(last).root = 2 * r
        /\ at(last).rem \in 0 .. 2 * r
        /\ p = r * r + at(last).rem
        /\ val * Modulus = p * Modulus + at(last).n
        /\ at(last).n \in 0 .. Modulus - 1
  BY <1>1, <1>7 DEF RootInv, Modulus
<1>9. val = p
  <2> DEFINE n == at(last).n
             m == Modulus
  <2>1. n \in 0 .. m - 1 /\ m \in Nat \ {0} /\ val * m = p * m + n
    BY <1>1, <1>8
  <2> HIDE DEF n, m
  <2>2. (m * p + n) \div m = p /\ (m * val + 0) \div m = val
    <3>1. p \in Int /\ val \in Int /\ 0 \in 0 .. m - 1
      BY <1>1, <2>1
    <3> QED
      BY <2>1, <3>1, ModUnique, Zenon
  <2>3. m * val + 0 = m * p + n
    BY <1>1, <2>1
  <2> QED
    BY <2>2, <2>3
<1>10. RestoredRoot(val) = r
  <2>1. at(last).root \div 2 = r
    BY <1>8
  <2> QED
    BY <2>1 DEF RestoredRoot, at
<1>11. r * r <= p /\ p < (r + 1) * (r + 1)
  BY <1>8
<1> QED
  BY <1>9, <1>10, <1>11

(***************************************************************************)
(* The distance                                                            *)
(***************************************************************************)

LEMMA SignedType == \A x \in Int : Signed(x) \in Int
BY ModulusParts DEF Signed

\* What fits the width is left alone.
LEMMA SignedExact ==
  ASSUME NEW x \in Int, -(Modulus \div 2) <= x, x < Modulus \div 2
  PROVE  Signed(x) = x
<1> DEFINE half == Modulus \div 2
<1>1. half \in Nat /\ Modulus = 2 * half /\ Modulus \in Nat \ {0}
  BY ModulusParts
<1>2. x + half \in 0 .. Modulus - 1
  BY <1>1
<1> HIDE DEF half
<1>3. (Modulus * 0 + (x + half)) % Modulus = x + half
  BY <1>1, <1>2, ModUnique
<1>4. Signed(x) = ((x + half) % Modulus) - half
  BY DEF Signed, half
<1>5. Modulus * 0 + (x + half) = x + half
  BY <1>1, <1>2
<1> QED
  BY <1>1, <1>3, <1>4, <1>5

\* So is the square of a difference whose square fits.
LEMMA SquareExact ==
  ASSUME NEW x \in Int, x * x < Modulus \div 2
  PROVE  Square(x) = x * x
<1> DEFINE half == Modulus \div 2
<1>1. half \in Nat /\ x * x \in Nat
  BY ModulusParts
<1>2. -half <= x /\ x < half
  <2>1. x <= x * x
    OBVIOUS
  <2>2. -x <= x * x
    OBVIOUS
  <2> QED
    BY <1>1, <2>1, <2>2
<1>3. Signed(x) = x /\ Signed(x * x) = x * x
  BY <1>1, <1>2, SignedExact
<1> QED
  BY <1>3 DEF Square

Vectors == [1 .. Dim -> Int]

\* The partial sums of the code and those over the integers, as equations.
LEMMA SumsSteps ==
  ASSUME NEW prior \in Vectors, NEW candidate \in Vectors
  PROVE  /\ Sums(prior, candidate)[0] = 0
         /\ \A i \in 1 .. Dim :
              Sums(prior, candidate)[i] =
                Signed(Sums(prior, candidate)[i - 1] + Square(candidate[i] - prior[i]))
<1> DEFINE terms == 0 .. Dim
           step == [p \in terms \X Int |->
                      IF p[1] = 0 THEN 0
                      ELSE Signed(p[2] + Square(candidate[p[1]] - prior[p[1]]))]
<1>1. Dim \in Nat
  BY LimitAssumption
<1>2. ASSUME NEW i \in terms, i # 0, NEW x \in Int
      PROVE  Signed(x + Square(candidate[i] - prior[i])) \in Int
  <2>1. candidate[i] - prior[i] \in Int
    BY <1>1, <1>2 DEF Vectors
  <2>2. Square(candidate[i] - prior[i]) \in Int
    BY <2>1, SignedType DEF Square
  <2> QED
    BY <2>2, SignedType
<1>3. step \in Steps(terms, Int)
  BY <1>2 DEF Steps
<1>4. \A i \in terms, x \in Int :
        i # 0 => step[<<i, x>>] = Signed(x + Square(candidate[i] - prior[i]))
  OBVIOUS
<1> HIDE DEF step
<1>5. PICK g : IteratesOf(g, terms, Int, 0, step)
  BY <1>1, <1>3, IteratesExist
<1>6. g = [i \in terms |-> IF i = 0 THEN 0
                          ELSE Signed(g[i - 1] + Square(candidate[i] - prior[i]))]
  <2>1. ASSUME NEW i \in terms, i # 0
        PROVE  g[i] = Signed(g[i - 1] + Square(candidate[i] - prior[i]))
    <3>1. i - 1 \in terms /\ g[i - 1] \in Int
      BY <1>1, <1>5, <2>1 DEF IteratesOf
    <3> QED
      BY <1>4, <1>5, <2>1, <3>1 DEF IteratesOf
  <2> QED
    BY <1>5, <2>1 DEF IteratesOf
<1>7. Sums(prior, candidate) =
        [i \in terms |-> IF i = 0 THEN 0
                        ELSE Signed(Sums(prior, candidate)[i - 1]
                                      + Square(candidate[i] - prior[i]))]
  BY <1>6 DEF Sums
<1> QED
  BY <1>1, <1>7

LEMMA DistancesSteps ==
  ASSUME NEW prior \in Vectors, NEW candidate \in Vectors
  PROVE  /\ Distances(prior, candidate)[0] = 0
         /\ \A i \in 1 .. Dim :
              Distances(prior, candidate)[i] =
                Distances(prior, candidate)[i - 1]
                  + (candidate[i] - prior[i]) * (candidate[i] - prior[i])
<1> DEFINE terms == 0 .. Dim
           square(i) == (candidate[i] - prior[i]) * (candidate[i] - prior[i])
           step == [p \in terms \X Int |-> IF p[1] = 0 THEN 0 ELSE p[2] + square(p[1])]
<1>1. Dim \in Nat
  BY LimitAssumption
<1>2. ASSUME NEW i \in terms, i # 0
      PROVE  square(i) \in Int
  <2>1. candidate[i] - prior[i] \in Int
    BY <1>1, <1>2 DEF Vectors
  <2> QED
    BY <2>1
<1> HIDE DEF square
<1>3. step \in Steps(terms, Int)
  BY <1>2 DEF Steps
<1>4. \A i \in terms, x \in Int : i # 0 => step[<<i, x>>] = x + square(i)
  OBVIOUS
<1> HIDE DEF step
<1>5. PICK g : IteratesOf(g, terms, Int, 0, step)
  BY <1>1, <1>3, IteratesExist
<1>6. g = [i \in terms |-> IF i = 0 THEN 0 ELSE g[i - 1] + square(i)]
  <2>1. ASSUME NEW i \in terms, i # 0
        PROVE  g[i] = g[i - 1] + square(i)
    <3>1. i - 1 \in terms /\ g[i - 1] \in Int
      BY <1>1, <1>5, <2>1 DEF IteratesOf
    <3> QED
      BY <1>4, <1>5, <2>1, <3>1 DEF IteratesOf
  <2> QED
    BY <1>5, <2>1 DEF IteratesOf
<1>7. Distances(prior, candidate) =
        [i \in terms |-> IF i = 0 THEN 0 ELSE Distances(prior, candidate)[i - 1] + square(i)]
  BY <1>6 DEF Distances, square
<1> QED
  BY <1>1, <1>7 DEF square

\* Where the sum over the integers fits the width, so does every sum before it, and
\* the machine computes it.
LEMMA SumOfSquaresExact ==
  ASSUME NEW prior \in Vectors, NEW candidate \in Vectors,
         Distance2(prior, candidate) < Modulus \div 2
  PROVE  /\ Distance2(prior, candidate) \in Nat
         /\ SumOfSquares(prior, candidate) = Distance2(prior, candidate)
<1> DEFINE exact(i) == Distances(prior, candidate)[i]
           sum(i) == Sums(prior, candidate)[i]
           half == Modulus \div 2
           T == {i \in 0 .. Dim : exact(i) \in Nat /\ (exact(i) < half => sum(i) = exact(i))}
<1>1. Dim \in Nat /\ half \in Nat
  BY LimitAssumption, ModulusParts
<1>2. /\ exact(0) = 0
      /\ \A i \in 1 .. Dim :
           exact(i) = exact(i - 1) + (candidate[i] - prior[i]) * (candidate[i] - prior[i])
  BY DistancesSteps
<1>3. /\ sum(0) = 0
      /\ \A i \in 1 .. Dim : sum(i) = Signed(sum(i - 1) + Square(candidate[i] - prior[i]))
  BY SumsSteps
<1> HIDE DEF exact, sum
<1>4. 0 \in T
  BY <1>1, <1>2, <1>3
<1>5. ASSUME NEW i \in T, i < Dim
      PROVE  i + 1 \in T
  <2> DEFINE x == candidate[i + 1] - prior[i + 1]
  <2>1. /\ i + 1 \in 1 .. Dim /\ i + 1 \in 0 .. Dim /\ (i + 1) - 1 = i
        /\ exact(i) \in Nat /\ (exact(i) < half => sum(i) = exact(i))
    BY <1>1, <1>5
  <2>2. x \in Int
    BY <2>1 DEF Vectors
  <2>3. exact(i + 1) = exact(i) + x * x /\ sum(i + 1) = Signed(sum(i) + Square(x))
    BY <1>2, <1>3, <2>1
  <2> HIDE DEF x, half, T
  <2>4. x * x \in Nat
    BY <2>2
  <2>5. exact(i + 1) \in Nat
    BY <2>1, <2>3, <2>4
  <2>6. ASSUME exact(i + 1) < half
        PROVE  sum(i + 1) = exact(i + 1)
    <3>1. exact(i) < half /\ x * x < half
      BY <1>1, <2>1, <2>3, <2>4, <2>6
    <3>2. Square(x) = x * x
      BY <2>2, <3>1, SquareExact DEF half
    <3>3. sum(i + 1) = Signed(exact(i + 1))
      BY <2>1, <2>3, <3>1, <3>2
    <3>4. -half <= exact(i + 1) /\ exact(i + 1) \in Int
      BY <1>1, <2>5
    <3> QED
      BY <2>6, <3>3, <3>4, SignedExact DEF half
  <2> QED
    BY <2>1, <2>5, <2>6 DEF T
<1>6. T \in SUBSET (0 .. Dim)
  OBVIOUS
<1> HIDE DEF T
<1>7. T = 0 .. Dim
  BY <1>1, <1>4, <1>5, <1>6, RangeInduction
<1>8. Dim \in T
  BY <1>1, <1>7
<1> QED
  BY <1>8 DEF T, exact, sum, half, Distance2, SumOfSquares

\* sovr_e8_math.h:65-86: the codes a call may return.
LEMMA AdmitProposalExact ==
  ASSUME NEW badge \in Nat, NEW seq \in Int,
         NEW prior \in Vectors, NEW candidate \in Vectors,
         NEW code \in AdmitProposal(badge, 2, seq, prior, candidate)
  PROVE  /\ code = -1 <=> seq # 2
         /\ code = -2 <=> seq = 2 /\ ~Capable(badge)
         /\ Distance2(prior, candidate) < Modulus \div 2 =>
              (code = 0 <=> seq = 2 /\ Capable(badge) /\ WithinBound(prior, candidate))
<1> DEFINE capable == Capable(badge)
           d == Distance2(prior, candidate)
<1>1. HasTriad(badge) <=> capable
  <2>1. ASSUME badge % 8 = 7 PROVE capable
    <3>1. badge \div 8 \in 0 .. badge /\ badge = 8 * (badge \div 8) + 7
      BY <2>1
    <3> QED
      BY <3>1 DEF Capable
  <2>2. ASSUME capable PROVE badge % 8 = 7
    BY <2>2 DEF Capable
  <2> QED
    BY <2>1, <2>2 DEF HasTriad
<1>2. CASE seq # 2
  BY <1>2 DEF AdmitProposal
<1>3. CASE seq = 2 /\ ~capable
  BY <1>1, <1>3 DEF AdmitProposal
<1>4. CASE seq = 2 /\ capable
  <2>1. code \in {IF m <= Bound THEN 0 ELSE -3 : m \in Metrics(prior, candidate)}
    BY <1>1, <1>4 DEF AdmitProposal
  <2>2. code \in {0, -3}
    BY <2>1
  <2>3. ASSUME d < Modulus \div 2
        PROVE  code = 0 <=> WithinBound(prior, candidate)
    <3>1. d \in Nat /\ SumOfSquares(prior, candidate) = d /\ d \in 0 .. Modulus - 1
      <4>1. d \in Nat /\ SumOfSquares(prior, candidate) = d
        BY <2>3, SumOfSquaresExact
      <4> QED
        BY <2>3, <4>1, ModulusParts
    <3> HIDE DEF d
    <3> DEFINE r == isqrt64(d)
    <3>2. r \in Nat /\ r * r <= d /\ d < (r + 1) * (r + 1)
      <4>1. CASE d = 0
        BY <4>1 DEF isqrt64
      <4>2. CASE d # 0
        <5>1. r = RestoredRoot(d)
          BY <3>1, <4>2 DEF isqrt64
        <5> QED
          BY <3>1, <5>1, RestoredRootIsFloor
      <4> QED
        BY <4>1, <4>2
    <3>3. Metrics(prior, candidate) = {r}
      BY <3>1 DEF Metrics
    <3> HIDE DEF r
    <3>4. code = IF r <= Bound THEN 0 ELSE -3
      BY <2>1, <3>3
    <3>5. r <= Bound <=> d < (Bound + 1) * (Bound + 1)
      <4>1. Bound \in Nat
        BY LimitAssumption
      <4>2. ASSUME r <= Bound PROVE d < (Bound + 1) * (Bound + 1)
        <5>1. (r + 1) * (r + 1) <= (Bound + 1) * (Bound + 1)
          BY <3>2, <4>1, <4>2
        <5> QED
          BY <3>1, <3>2, <4>1, <5>1
      <4>3. ASSUME r > Bound PROVE d >= (Bound + 1) * (Bound + 1)
        <5>1. (Bound + 1) * (Bound + 1) <= r * r
          BY <3>2, <4>1, <4>3
        <5> QED
          BY <3>1, <3>2, <4>1, <5>1
      <4> QED
        BY <3>1, <3>2, <4>1, <4>2, <4>3
    <3> QED
      BY <3>4, <3>5 DEF WithinBound, d
  <2> QED
    BY <1>4, <2>2, <2>3
<1> QED
  BY <1>2, <1>3, <1>4

(***************************************************************************)
(* The phoneme register                                                    *)
(***************************************************************************)

LEMMA FieldLayout ==
  /\ Fields = {"onset", "nucleus", "nasal", "long", "tone", "coda", "prefix", "provenance"}
  /\ Shift["onset"] = 26 /\ MaskBits["onset"] = 6
  /\ Shift["nucleus"] = 23 /\ MaskBits["nucleus"] = 3
  /\ Shift["nasal"] = 22 /\ MaskBits["nasal"] = 1
  /\ Shift["long"] = 21 /\ MaskBits["long"] = 1
  /\ Shift["tone"] = 19 /\ MaskBits["tone"] = 2
  /\ Shift["coda"] = 13 /\ MaskBits["coda"] = 6
  /\ Shift["prefix"] = 10 /\ MaskBits["prefix"] = 3
  /\ Shift["provenance"] = 0 /\ MaskBits["provenance"] = 10
BY DEF Fields, Shift, MaskBits

LEMMA FieldTypes == \A f \in Fields : Shift[f] \in Nat /\ MaskBits[f] \in Nat
BY FieldLayout

\* No position of the word belongs to two fields.
LEMMA FieldsApart ==
  ASSUME NEW f \in Fields, NEW g \in Fields,
         NEW b \in 0 .. MaskBits[f] - 1, NEW c \in 0 .. MaskBits[g] - 1,
         Shift[f] + b = Shift[g] + c
  PROVE  f = g /\ b = c
<1>1. f = g
  BY FieldLayout
<1> QED
  BY <1>1, FieldTypes

LEMMA PackedBit ==
  ASSUME NEW desc \in [Fields -> Nat], NEW f \in Fields, NEW b \in 0 .. MaskBits[f] - 1
  PROVE  Shift[f] + b \in Pack(desc) <=> (desc[f] \div Pow2[b]) % 2 = 1
<1> DEFINE one(g, c) == (desc[g] \div Pow2[c]) % 2 = 1
           bits(g) == {c \in 0 .. MaskBits[g] - 1 : one(g, c)}
           places(g) == {Shift[g] + c : c \in bits(g)}
<1> HIDE DEF one
<1>1. Pack(desc) = UNION {places(g) : g \in Fields}
  BY DEF Pack, one
<1>2. ASSUME one(f, b) PROVE Shift[f] + b \in Pack(desc)
  <2>1. Shift[f] + b \in places(f)
    BY <1>2
  <2> HIDE DEF places
  <2> QED
    BY <1>1, <2>1
<1>3. ASSUME Shift[f] + b \in Pack(desc) PROVE one(f, b)
  <2>1. PICK g \in Fields : Shift[f] + b \in places(g)
    <3> HIDE DEF places
    <3> QED
      BY <1>1, <1>3
  <2>2. PICK c \in 0 .. MaskBits[g] - 1 : one(g, c) /\ Shift[f] + b = Shift[g] + c
    BY <2>1
  <2>3. f = g /\ b = c
    BY <2>2, FieldsApart
  <2> QED
    BY <2>2, <2>3
<1> QED
  BY <1>2, <1>3 DEF one

LEMMA ValuesSteps ==
  ASSUME NEW word, NEW low \in Nat, NEW bits \in Nat
  PROVE  /\ Values(word, low, bits)[0] = 0
         /\ \A i \in 1 .. bits :
              Values(word, low, bits)[i] =
                Values(word, low, bits)[i - 1]
                  + (IF low + i - 1 \in word THEN Pow2[i - 1] ELSE 0)
<1> DEFINE places == 0 .. bits
           weight(i) == IF low + i - 1 \in word THEN Pow2[i - 1] ELSE 0
           step == [p \in places \X Nat |-> IF p[1] = 0 THEN 0 ELSE p[2] + weight(p[1])]
<1>1. ASSUME NEW i \in places, i # 0
      PROVE  weight(i) \in Nat
  <2>1. i - 1 \in Nat
    BY <1>1
  <2> QED
    BY <2>1, Pow2Steps
<1> HIDE DEF weight
<1>2. step \in Steps(places, Nat)
  BY <1>1 DEF Steps
<1>3. \A i \in places, x \in Nat : i # 0 => step[<<i, x>>] = x + weight(i)
  OBVIOUS
<1> HIDE DEF step
<1>4. PICK g : IteratesOf(g, places, Nat, 0, step)
  BY <1>2, IteratesExist
<1>5. g = [i \in places |-> IF i = 0 THEN 0 ELSE g[i - 1] + weight(i)]
  <2>1. ASSUME NEW i \in places, i # 0
        PROVE  g[i] = g[i - 1] + weight(i)
    <3>1. i - 1 \in places /\ g[i - 1] \in Nat
      BY <1>4, <2>1 DEF IteratesOf
    <3> QED
      BY <1>3, <1>4, <2>1, <3>1 DEF IteratesOf
  <2> QED
    BY <1>4, <2>1 DEF IteratesOf
<1>6. Values(word, low, bits) =
        [i \in places |-> IF i = 0 THEN 0 ELSE Values(word, low, bits)[i - 1] + weight(i)]
  BY <1>5 DEF Values, weight
<1> QED
  BY <1>6 DEF weight

\* The low k + 1 bits of a number are its low k bits and bit k.
LEMMA OneMoreBit ==
  ASSUME NEW n \in Nat, NEW k \in Nat
  PROVE  n % Pow2[k + 1] = (n % Pow2[k]) + (IF (n \div Pow2[k]) % 2 = 1 THEN Pow2[k] ELSE 0)
<1> DEFINE p == Pow2[k]
           q == n \div p
           low == n % p
           half == q \div 2
           bit == q % 2
<1>1. p \in Nat \ {0} /\ Pow2[k + 1] = 2 * p
  BY Pow2Steps
<1> HIDE DEF p
<1>2. n = p * q + low /\ q \in Nat /\ low \in 0 .. p - 1
  BY <1>1, DivMod
<1> HIDE DEF q, low
<1>3. q = 2 * half + bit /\ half \in Nat /\ bit \in 0 .. 1
  BY <1>2
<1> HIDE DEF half, bit
<1> DEFINE rest == p * bit + low
<1>4. rest \in 0 .. 2 * p - 1
  <2>1. bit = 0 \/ bit = 1
    BY <1>3
  <2> QED
    BY <1>1, <1>2, <2>1
<1>5. n = (2 * p) * half + rest
  BY <1>1, <1>2, <1>3
<1> HIDE DEF rest
<1>6. n % (2 * p) = rest
  BY <1>1, <1>3, <1>4, <1>5, ModUnique
<1>7. rest = low + (IF bit = 1 THEN p ELSE 0)
  BY <1>1, <1>2, <1>3 DEF rest
<1> QED
  BY <1>1, <1>6, <1>7 DEF p, q, low, bit

\* sovr_phoneme_engine.h:93-102: reading the bits of a number back gives its low bits.
LEMMA ValuesOfBits ==
  ASSUME NEW word, NEW low \in Nat, NEW bits \in Nat, NEW n \in Nat,
         \A b \in 0 .. bits - 1 : low + b \in word <=> (n \div Pow2[b]) % 2 = 1
  PROVE  Values(word, low, bits)[bits] = n % Pow2[bits]
<1> DEFINE value(i) == Values(word, low, bits)[i]
           T == {i \in 0 .. bits : value(i) = n % Pow2[i]}
<1>1. /\ value(0) = 0
      /\ \A i \in 1 .. bits :
           value(i) = value(i - 1) + (IF low + i - 1 \in word THEN Pow2[i - 1] ELSE 0)
  BY ValuesSteps
<1> HIDE DEF value
<1>2. 0 \in T
  BY <1>1, Pow2Steps
<1>3. ASSUME NEW i \in T, i < bits
      PROVE  i + 1 \in T
  <2>1. /\ i \in Nat /\ i \in 0 .. bits - 1 /\ i + 1 \in 1 .. bits /\ i + 1 \in 0 .. bits
        /\ (i + 1) - 1 = i /\ low + (i + 1) - 1 = low + i
    BY <1>3
  <2>2. value(i + 1) = value(i) + (IF low + i \in word THEN Pow2[i] ELSE 0)
    BY <1>1, <2>1
  <2>3. low + i \in word <=> (n \div Pow2[i]) % 2 = 1
    BY <2>1
  <2>4. value(i + 1) = n % Pow2[i + 1]
    BY <2>1, <2>2, <2>3, OneMoreBit
  <2> QED
    BY <2>1, <2>4
<1>4. T \in SUBSET (0 .. bits)
  OBVIOUS
<1> HIDE DEF T
<1>5. T = 0 .. bits
  BY <1>2, <1>3, <1>4, RangeInduction
<1>6. bits \in T
  BY <1>5
<1> QED
  BY <1>6 DEF T, value

LEMMA UnpackPack ==
  ASSUME NEW desc \in [Fields -> Nat]
  PROVE  Unpack(Pack(desc)) = Kept(desc)
<1>1. ASSUME NEW f \in Fields
      PROVE  Values(Pack(desc), Shift[f], MaskBits[f])[MaskBits[f]]
               = desc[f] % Pow2[MaskBits[f]]
  <2>1. \A b \in 0 .. MaskBits[f] - 1 :
          Shift[f] + b \in Pack(desc) <=> (desc[f] \div Pow2[b]) % 2 = 1
    BY PackedBit
  <2>2. Shift[f] \in Nat /\ MaskBits[f] \in Nat /\ desc[f] \in Nat
    BY FieldTypes
  <2> QED
    BY <2>1, <2>2, ValuesOfBits
<1> QED
  BY <1>1 DEF Unpack, Kept

\* strawman_ingress.c:9-17: the nucleus and the tone have no value the gatekeeper
\* refuses.
LEMMA ValidWordExact ==
  ASSUME NEW desc \in [Fields -> Nat]
  PROVE  /\ ValidWord(Pack(desc)) \in BOOLEAN
         /\ ValidWord(Pack(desc)) <=>
              Kept(desc).onset <= 51 /\ Kept(desc).coda \in (0 .. 31) \union {63}
<1> DEFINE kept == Kept(desc)
<1>1. \A f \in Fields : kept[f] = desc[f] % Pow2[MaskBits[f]] /\ kept[f] \in 0 .. Pow2[MaskBits[f]] - 1
  <2> TAKE f \in Fields
  <2>1. MaskBits[f] \in Nat /\ Pow2[MaskBits[f]] \in Nat \ {0} /\ desc[f] \in Nat
    BY FieldTypes, Pow2Steps
  <2>2. kept[f] = desc[f] % Pow2[MaskBits[f]]
    BY DEF Kept
  <2> QED
    BY <2>1, <2>2, DivMod
<1>2. Pow2[2] = 4 /\ Pow2[3] = 8
  <2>1. Pow2[0 + 1] = 2 * Pow2[0] /\ Pow2[1 + 1] = 2 * Pow2[1] /\ Pow2[2 + 1] = 2 * Pow2[2]
    BY Pow2Steps
  <2> QED
    BY <2>1, Pow2Steps
<1>3. Unpack(Pack(desc)) = kept
  BY UnpackPack
<1> HIDE DEF kept
<1>4. kept["nucleus"] <= 7 /\ kept["tone"] <= 3 /\ kept["coda"] \in Nat
  <2>1. /\ "nucleus" \in Fields /\ "tone" \in Fields /\ "coda" \in Fields
        /\ MaskBits["nucleus"] = 3 /\ MaskBits["tone"] = 2 /\ MaskBits["coda"] = 6
    BY FieldLayout
  <2>2. kept["nucleus"] \in 0 .. 8 - 1 /\ kept["tone"] \in 0 .. 4 - 1
    BY <1>1, <1>2, <2>1
  <2>3. kept["coda"] \in 0 .. Pow2[6] - 1 /\ Pow2[6] \in Nat
    BY <1>1, <2>1, Pow2Steps
  <2> QED
    BY <2>2, <2>3
<1>5. /\ ValidWord(Pack(desc)) \in BOOLEAN
      /\ ValidWord(Pack(desc)) <=> /\ kept.onset <= 51 /\ kept.nucleus <= 7 /\ kept.tone <= 3
                                   /\ kept.coda <= 31 \/ kept.coda = 63
  BY <1>3 DEF ValidWord
<1>6. kept.coda <= 31 \/ kept.coda = 63 <=> kept.coda \in (0 .. 31) \union {63}
  BY <1>4
<1>7. kept.nucleus <= 7 /\ kept.tone <= 3
  BY <1>4
<1> QED
  BY <1>5, <1>6, <1>7 DEF kept

(***************************************************************************)
(* The core loop                                                           *)
(***************************************************************************)

SlideVectors == [phase : Word, phase_step : Word, seq_id : Word]
CoreStates ==
  [sv : SlideVectors, last_sync_tick : Word, status : {"OPERATIONAL", "DEADFA17"},
   running : BOOLEAN]

LEMMA ModulusWord == Modulus \in Nat \ {0} /\ \A x \in Nat : x % Modulus \in Word
<1>1. Modulus \in Nat \ {0}
  BY ModulusParts
<1> QED
  BY <1>1, DivMod DEF Word

\* Adding and reducing one term at a time, or all of them at the end.
Advanced(base, k, term) == (base + k * term) % Modulus

LEMMA AdvancedSteps ==
  ASSUME NEW base \in Nat, NEW term \in Nat, NEW k \in Nat
  PROVE  (Advanced(base, k, term) + term) % Modulus = Advanced(base, k + 1, term)
<1> DEFINE m == Modulus
           x == base + k * term
           y == x % m
           z == (y + term) % m
<1>1. x \in Nat /\ base + (k + 1) * term = x + term
  BY Distribute
<1>2. m \in Nat \ {0}
  BY ModulusWord
<1> HIDE DEF m, x
<1>3. x = m * (x \div m) + y /\ x \div m \in Nat /\ y \in Nat
  BY <1>1, <1>2, DivMod
<1> HIDE DEF y
<1>4. y + term \in Nat
  BY <1>3
<1>5. /\ y + term = m * ((y + term) \div m) + z
      /\ (y + term) \div m \in Nat /\ z \in 0 .. m - 1
  BY <1>4, <1>2, DivMod
<1> HIDE DEF z
<1> DEFINE q == x \div m
           r == (y + term) \div m
<1>6. q \in Nat /\ r \in Nat /\ x + term = m * q + m * r + z
  BY <1>1, <1>3, <1>4, <1>5, <1>2
<1> HIDE DEF q, r
<1>7. x + term = m * (q + r) + z
  BY <1>5, <1>6, <1>2
<1>8. (x + term) % m = z
  <2>1. q + r \in Int
    BY <1>6
  <2>2. (m * (q + r) + z) % m = z
    BY <1>5, <1>2, <2>1, ModUnique
  <2> QED
    BY <1>7, <2>2
<1> QED
  BY <1>1, <1>8 DEF m, x, y, z, Advanced

LEMMA SlideType ==
  ASSUME NEW sv \in SlideVectors
  PROVE  /\ slide_forward(sv) \in SlideVectors
         /\ slide_forward(sv).phase = (sv.phase + sv.phase_step) % Modulus
         /\ slide_forward(sv).phase_step = sv.phase_step
         /\ slide_forward(sv).seq_id = (sv.seq_id + 1) % Modulus
<1>1. sv.phase \in Nat /\ sv.phase_step \in Nat /\ sv.seq_id \in Nat
  BY ModulusWord DEF SlideVectors, Word
<1>2. (sv.phase + sv.phase_step) % Modulus \in Word /\ (sv.seq_id + 1) % Modulus \in Word
  BY <1>1, ModulusWord
<1> QED
  BY <1>2 DEF slide_forward, SlideVectors

LEMMA CycleType ==
  ASSUME NEW s \in CoreStates, NEW stride \in Word, NEW cycle \in Nat
  PROVE  Cycle(s, stride, cycle) \in CoreStates
<1>1. s.last_sync_tick + stride \in Nat
  BY ModulusWord DEF CoreStates, Word
<1>2. (s.last_sync_tick + stride) % Modulus \in Word
  BY <1>1, ModulusWord
<1>3. slide_forward(s.sv) \in SlideVectors /\ s.status \in {"OPERATIONAL", "DEADFA17"}
  BY SlideType DEF CoreStates
<1> QED
  BY <1>2, <1>3 DEF Cycle, CoreStates

\* test/sovereign_assert.h:14-23: the phase rolls over by a step that fits the width.
LEMMA RolloverHolds == RollsOver
<1> DEFINE m == Modulus
           s == SuiteStep
           sv == [phase |-> m - 1, phase_step |-> s, seq_id |-> 0]
<1>1. m \in Nat /\ m >= 4 /\ s \in Nat \ {0} /\ s <= m
  <2>1. Width \div 2 \in Nat /\ Width \in Nat /\ Width \div 2 <= Width
    BY ModulusParts
  <2> QED
    BY <2>1, ModulusParts, Pow2Steps, Pow2Grows DEF SuiteStep, Modulus
<1>2. (m - 1 + s) % m = s - 1 /\ (0 + 1) % m = 1
  <2> HIDE DEF m, s
  <2>1. s - 1 \in 0 .. m - 1 /\ 1 \in 0 .. m - 1 /\ m \in Nat \ {0}
    BY <1>1
  <2>2. (m * 1 + (s - 1)) % m = s - 1 /\ (m * 0 + 1) % m = 1
    <3>1. 1 \in Int /\ 0 \in Int
      OBVIOUS
    <3> QED
      BY <2>1, <3>1, ModUnique, Zenon
  <2>3. m * 1 + (s - 1) = m - 1 + s /\ m * 0 + 1 = 0 + 1
    BY <1>1
  <2> QED
    BY <2>2, <2>3
<1>3. slide_forward(sv) = [phase |-> (m - 1 + s) % m, phase_step |-> s, seq_id |-> (0 + 1) % m]
  <2> DEFINE p == m - 1
  <2>1. sv = [phase |-> p, phase_step |-> s, seq_id |-> 0]
    OBVIOUS
  <2> HIDE DEF p, s, sv
  <2>2. slide_forward(sv) =
          [sv EXCEPT !.phase = (p + s) % Modulus, !.seq_id = (0 + 1) % Modulus]
    BY <2>1 DEF slide_forward
  <2> QED
    BY <2>1, <2>2 DEF p
<1> QED
  BY <1>2, <1>3 DEF RollsOver

\* The cycles of the loop, as equations.
LEMMA CyclesSteps ==
  ASSUME NEW r \in RuntimeArgs
  PROVE  /\ Entry(r) \in CoreStates
         /\ Cycles(r)[0] = Entry(r)
         /\ \A c \in 1 .. r.runtime_cycles :
              Cycles(r)[c] = IF Cycles(r)[c - 1].running
                               THEN Cycle(Cycles(r)[c - 1], r.tick_stride, c - 1)
                               ELSE Cycles(r)[c - 1]
<1> DEFINE cycles == 0 .. r.runtime_cycles
           after(s, c) == IF s.running THEN Cycle(s, r.tick_stride, c - 1) ELSE s
           step == [p \in cycles \X CoreStates |-> IF p[1] = 0 THEN p[2] ELSE after(p[2], p[1])]
<1>1. r.runtime_cycles \in Nat /\ r.tick_stride \in Word
  BY DEF RuntimeArgs
<1>2. Entry(r) \in CoreStates
  <2>1. SuitePasses(r.aligned) \in BOOLEAN
    BY DEF RuntimeArgs, SuitePasses, RollsOver
  <2> QED
    BY <2>1 DEF RuntimeArgs, Entry, CoreStates, SlideVectors
<1>3. ASSUME NEW c \in cycles, c # 0, NEW s \in CoreStates
      PROVE  after(s, c) \in CoreStates
  <2>1. c - 1 \in Nat
    BY <1>1, <1>3
  <2> QED
    BY <1>1, <2>1, CycleType
<1> HIDE DEF after
<1>4. step \in Steps(cycles, CoreStates)
  BY <1>3 DEF Steps
<1>5. \A c \in cycles, s \in CoreStates : c # 0 => step[<<c, s>>] = after(s, c)
  OBVIOUS
<1> HIDE DEF step
<1>6. PICK g : IteratesOf(g, cycles, CoreStates, Entry(r), step)
  BY <1>1, <1>2, <1>4, IteratesExist
<1>7. g = [c \in cycles |-> IF c = 0 THEN Entry(r) ELSE after(g[c - 1], c)]
  <2>1. ASSUME NEW c \in cycles, c # 0
        PROVE  g[c] = after(g[c - 1], c)
    <3>1. c - 1 \in cycles /\ g[c - 1] \in CoreStates
      BY <1>1, <1>6, <2>1 DEF IteratesOf
    <3> QED
      BY <1>5, <1>6, <2>1, <3>1 DEF IteratesOf
  <2> QED
    BY <1>6, <2>1 DEF IteratesOf
<1>8. Cycles(r) = [c \in cycles |-> IF c = 0 THEN Entry(r) ELSE after(Cycles(r)[c - 1], c)]
  BY <1>7, Zenon DEF Cycles, after
<1> QED
  BY <1>1, <1>2, <1>8 DEF after

\* What the core has done before cycle c: n cycles of work.
CoreInv(r, c, s) ==
  LET n == IF ~r.aligned THEN 0 ELSE IF c > CycleCap THEN CycleCap + 1 ELSE c
  IN /\ s \in CoreStates
     /\ s.status = IF r.aligned THEN "OPERATIONAL" ELSE "DEADFA17"
     /\ s.running <=> r.aligned /\ c <= CycleCap
     /\ s.sv.phase_step = r.sv.phase_step
     /\ s.sv.seq_id = (r.sv.seq_id + n) % Modulus
     /\ s.sv.phase = (r.sv.phase + n * r.sv.phase_step) % Modulus
     /\ s.last_sync_tick = (r.last_sync_tick + n * r.tick_stride) % Modulus

LEMMA CoreStarts ==
  ASSUME NEW r \in RuntimeArgs
  PROVE  CoreInv(r, 0, Entry(r))
<1>1. SuitePasses(r.aligned) <=> r.aligned
  BY RolloverHolds DEF SuitePasses
<1>2. /\ r.sv.seq_id \in Word /\ r.sv.phase \in Word /\ r.sv.phase_step \in Word
      /\ r.last_sync_tick \in Word /\ r.tick_stride \in Word /\ r.aligned \in BOOLEAN
  BY DEF RuntimeArgs
<1>3. \A x \in Word, y \in Word : x \in Nat /\ x % Modulus = x /\ 0 * y = 0 /\ x + 0 = x
  <2> TAKE x \in Word, y \in Word
  <2>1. x \in 0 .. Modulus - 1 /\ y \in Nat /\ Modulus \in Nat \ {0}
    BY ModulusWord DEF Word
  <2>2. (Modulus * 0 + x) % Modulus = x
    BY <2>1, ModUnique
  <2> QED
    BY <2>1, <2>2
<1>4. CycleCap \in Nat
  BY LimitAssumption
<1>5. Entry(r) \in CoreStates
  BY CyclesSteps
<1>6. /\ r.sv.seq_id = (r.sv.seq_id + 0) % Modulus
      /\ r.sv.phase = (r.sv.phase + 0 * r.sv.phase_step) % Modulus
      /\ r.last_sync_tick = (r.last_sync_tick + 0 * r.tick_stride) % Modulus
  BY <1>2, <1>3
<1>7. /\ Entry(r).sv = r.sv /\ Entry(r).last_sync_tick = r.last_sync_tick
      /\ Entry(r).status = IF r.aligned THEN "OPERATIONAL" ELSE "DEADFA17"
      /\ Entry(r).running <=> r.aligned
  BY <1>1 DEF Entry
<1> QED
  BY <1>2, <1>4, <1>5, <1>6, <1>7 DEF CoreInv

LEMMA CoreKeeps ==
  ASSUME NEW r \in RuntimeArgs, NEW c \in Nat, NEW s, CoreInv(r, c, s)
  PROVE  CoreInv(r, c + 1, IF s.running THEN Cycle(s, r.tick_stride, c) ELSE s)
<1>1. /\ r.sv.seq_id \in Nat /\ r.sv.phase \in Nat /\ r.sv.phase_step \in Nat
      /\ r.last_sync_tick \in Nat /\ r.tick_stride \in Nat /\ r.aligned \in BOOLEAN
      /\ r.tick_stride \in Word
  BY ModulusWord DEF RuntimeArgs, Word
<1>2. CycleCap \in Nat /\ Modulus \in Nat \ {0}
  BY LimitAssumption, ModulusWord
<1>3. CASE ~s.running
  BY <1>2, <1>3 DEF CoreInv
<1>4. CASE s.running
  <2> DEFINE t == Cycle(s, r.tick_stride, c)
  <2>1. /\ r.aligned /\ c <= CycleCap /\ s \in CoreStates
        /\ s.status = "OPERATIONAL"
        /\ s.sv.phase_step = r.sv.phase_step
        /\ s.sv.seq_id = (r.sv.seq_id + c) % Modulus
        /\ s.sv.phase = (r.sv.phase + c * r.sv.phase_step) % Modulus
        /\ s.last_sync_tick = (r.last_sync_tick + c * r.tick_stride) % Modulus
    BY <1>1, <1>2, <1>4 DEF CoreInv
  <2>2. t \in CoreStates
    BY <1>1, <2>1, CycleType
  <2>3. s.sv \in SlideVectors
    BY <2>1 DEF CoreStates
  <2>4. /\ t.sv = slide_forward(s.sv)
        /\ t.last_sync_tick = (s.last_sync_tick + r.tick_stride) % Modulus
        /\ t.status = "OPERATIONAL"
        /\ t.running <=> c # CycleCap
    BY <2>1 DEF Cycle
  <2> HIDE DEF t
  <2>5. /\ t.sv.phase_step = r.sv.phase_step
        /\ t.sv.phase = (s.sv.phase + r.sv.phase_step) % Modulus
        /\ t.sv.seq_id = (s.sv.seq_id + 1) % Modulus
    BY <2>1, <2>3, <2>4, SlideType
  <2>6. t.sv.phase = (r.sv.phase + (c + 1) * r.sv.phase_step) % Modulus
    <3>1. (Advanced(r.sv.phase, c, r.sv.phase_step) + r.sv.phase_step) % Modulus
            = Advanced(r.sv.phase, c + 1, r.sv.phase_step)
      BY <1>1, AdvancedSteps
    <3> QED
      BY <2>1, <2>5, <3>1 DEF Advanced
  <2>7. t.last_sync_tick = (r.last_sync_tick + (c + 1) * r.tick_stride) % Modulus
    <3>1. (Advanced(r.last_sync_tick, c, r.tick_stride) + r.tick_stride) % Modulus
            = Advanced(r.last_sync_tick, c + 1, r.tick_stride)
      BY <1>1, AdvancedSteps
    <3> QED
      BY <2>1, <2>4, <3>1 DEF Advanced
  <2>8. t.sv.seq_id = (r.sv.seq_id + (c + 1)) % Modulus
    <3>1. (Advanced(r.sv.seq_id, c, 1) + 1) % Modulus = Advanced(r.sv.seq_id, c + 1, 1)
      BY <1>1, AdvancedSteps
    <3>2. c * 1 = c /\ (c + 1) * 1 = c + 1
      OBVIOUS
    <3> QED
      BY <2>1, <2>5, <3>1, <3>2 DEF Advanced
  <2>9. (IF ~r.aligned THEN 0 ELSE IF c + 1 > CycleCap THEN CycleCap + 1 ELSE c + 1) = c + 1
    BY <1>2, <2>1
  <2>10. t.running <=> r.aligned /\ c + 1 <= CycleCap
    BY <1>2, <2>1, <2>4
  <2>11. CoreInv(r, c + 1, t)
    BY <2>1, <2>2, <2>4, <2>5, <2>6, <2>7, <2>8, <2>9, <2>10 DEF CoreInv
  <2> QED
    BY <1>4, <2>11 DEF t
<1> QED
  BY <1>3, <1>4

\* sovereign_core.c:9-27: what a call of the core leaves.
LEMMA ExecuteRuntimeExact ==
  ASSUME NEW r \in RuntimeArgs
  PROVE  CoreInv(r, r.runtime_cycles, ExecuteRuntime(r))
<1> DEFINE last == r.runtime_cycles
           at(c) == Cycles(r)[c]
           T == {c \in 0 .. last : CoreInv(r, c, at(c))}
<1>1. last \in Nat
  BY DEF RuntimeArgs
<1>2. /\ at(0) = Entry(r)
      /\ \A c \in 1 .. last :
           at(c) = IF at(c - 1).running THEN Cycle(at(c - 1), r.tick_stride, c - 1)
                                        ELSE at(c - 1)
  BY CyclesSteps
<1> HIDE DEF at
<1>3. 0 \in T
  BY <1>1, <1>2, CoreStarts
<1>4. ASSUME NEW c \in T, c < last
      PROVE  c + 1 \in T
  <2>1. c \in Nat /\ c + 1 \in 1 .. last /\ c + 1 \in 0 .. last /\ (c + 1) - 1 = c
    BY <1>1, <1>4
  <2>2. CoreInv(r, c, at(c))
    OBVIOUS
  <2>3. at(c + 1) = IF at(c).running THEN Cycle(at(c), r.tick_stride, c) ELSE at(c)
    BY <1>2, <2>1
  <2>4. CoreInv(r, c + 1, at(c + 1))
    BY <2>1, <2>2, <2>3, CoreKeeps
  <2> QED
    BY <2>1, <2>4
<1>5. T \in SUBSET (0 .. last)
  OBVIOUS
<1> HIDE DEF T
<1>6. T = 0 .. last
  BY <1>1, <1>3, <1>4, <1>5, RangeInduction
<1>7. last \in T
  BY <1>1, <1>6
<1> QED
  BY <1>7 DEF T, at, ExecuteRuntime

(***************************************************************************)
(* The calls                                                               *)
(***************************************************************************)

\* A call that has returned left what its function computes.
ResultOfCall ==
  /\ call \in Calls
  /\ done => \/ call.name = "isqrt" /\ result = isqrt64(call.val)
             \/ /\ call.name = "admit"
                /\ result \in AdmitProposal(call.badge, 2, call.incoming_seq, call.prior,
                                            call.candidate)
             \/ /\ call.name = "phoneme"
                /\ result.back = Unpack(Pack(call.desc))
                /\ result.valid = ValidWord(Pack(call.desc))
             \/ call.name = "runtime" /\ result = ExecuteRuntime(call.args)

LEMMA ResultInvariant == Spec => []ResultOfCall
<1>1. Init => ResultOfCall
  BY DEF Init, ResultOfCall
<1>2. ASSUME ResultOfCall, [Next]_vars
      PROVE  ResultOfCall'
  <2>1. CASE Isqrt
    BY <1>2, <2>1 DEF ResultOfCall, Isqrt
  <2>2. CASE Admit
    BY <1>2, <2>2 DEF ResultOfCall, Admit
  <2>3. CASE Phoneme
    BY <1>2, <2>3 DEF ResultOfCall, Phoneme
  <2>4. CASE Runtime
    BY <1>2, <2>4 DEF ResultOfCall, Runtime
  <2>5. CASE UNCHANGED vars
    BY <1>2, <2>5 DEF ResultOfCall, vars
  <2> QED
    BY <1>2, <2>1, <2>2, <2>3, <2>4, <2>5 DEF Next
<1> QED
  BY <1>1, <1>2, PTL DEF Spec

LEMMA CallTypes ==
  ASSUME call \in Calls
  PROVE  /\ call.name = "isqrt" => call.val \in -(Modulus \div 2) .. Modulus \div 2 - 1
         /\ call.name = "admit" => /\ call.badge \in Nat /\ call.incoming_seq \in Int
                                  /\ call.prior \in Vectors /\ call.candidate \in Vectors
         /\ call.name = "phoneme" => call.desc \in [Fields -> Nat]
         /\ call.name = "runtime" => call.args \in RuntimeArgs
<1>1. call.name = "isqrt" => call.val \in Roots
  BY DEF Calls
<1>2. call.name = "admit" => /\ call.badge \in Badges /\ call.incoming_seq \in 1 .. 3
                            /\ call.prior \in Priors
                            /\ call.candidate \in [1 .. Dim -> Coordinates]
  BY DEF Calls
<1>3. call.name = "phoneme" => call.desc \in Descriptors
  BY DEF Calls
<1>4. call.name = "runtime" => call.args \in Runtimes
  BY DEF Calls
<1>5. [1 .. Dim -> Coordinates] \subseteq Vectors /\ Priors \subseteq Vectors
  BY ArgumentAssumption DEF Vectors
<1>6. Roots \subseteq -(Modulus \div 2) .. Modulus \div 2 - 1 /\ Badges \subseteq Nat
  BY ArgumentAssumption
<1>7. Descriptors \subseteq [Fields -> Nat] /\ Runtimes \subseteq RuntimeArgs
  BY ArgumentAssumption
<1>8. call.name = "isqrt" => call.val \in -(Modulus \div 2) .. Modulus \div 2 - 1
  BY <1>1, <1>6
<1>9. call.name = "admit" => /\ call.badge \in Nat /\ call.incoming_seq \in Int
                            /\ call.prior \in Vectors /\ call.candidate \in Vectors
  <2> SUFFICES ASSUME call.name = "admit"
               PROVE  /\ call.badge \in Nat /\ call.incoming_seq \in Int
                      /\ call.prior \in Vectors /\ call.candidate \in Vectors
    OBVIOUS
  <2>1. call.badge \in Nat /\ call.incoming_seq \in Int
    <3>1. call.badge \in Badges /\ call.incoming_seq \in 1 .. 3
      BY <1>2
    <3>2. \A b \in Badges : b \in Nat
      BY <1>6
    <3> QED
      BY <3>1, <3>2
  <2> HIDE DEF Vectors
  <2>2. call.prior \in Vectors /\ call.candidate \in Vectors
    BY <1>2, <1>5
  <2> QED
    BY <2>1, <2>2
<1>10. call.name = "phoneme" => call.desc \in [Fields -> Nat]
  BY <1>3, <1>7
<1>11. call.name = "runtime" => call.args \in RuntimeArgs
  BY <1>4, <1>7
<1> QED
  BY <1>8, <1>9, <1>10, <1>11

\* sovr_e8_math.h:13-29: the restoring method returns the root rounded down, for
\* every positive number of every width.
THEOREM RootRoundsDown == Spec => []IsqrtIsFloorRoot
<1>1. ASSUME ResultOfCall PROVE IsqrtIsFloorRoot
  <2> SUFFICES ASSUME done, call.name = "isqrt"
               PROVE  IF call.val <= 0 THEN result = 0
                      ELSE /\ result * result <= call.val
                           /\ call.val < (result + 1) * (result + 1)
    BY DEF IsqrtIsFloorRoot, Returned
  <2>1. result = isqrt64(call.val)
    BY <1>1 DEF ResultOfCall
  <2>2. call.val \in -(Modulus \div 2) .. Modulus \div 2 - 1
    BY <1>1, CallTypes DEF ResultOfCall
  <2>3. CASE call.val <= 0
    BY <2>1, <2>3 DEF isqrt64
  <2>4. CASE ~(call.val <= 0)
    <3>1. call.val \in 0 .. Modulus - 1
      BY <2>2, <2>4, ModulusParts
    <3>2. result = RestoredRoot(call.val)
      BY <2>1, <2>4 DEF isqrt64
    <3> QED
      BY <2>4, <3>1, <3>2, RestoredRootIsFloor
  <2> QED
    BY <2>3, <2>4
<1> QED
  BY <1>1, ResultInvariant, PTL

\* sovr_e8_math.h:65-86: the filter names the first rule a vector breaks, and admits
\* exactly what is within the bound wherever the sum of the squares fits the width,
\* for every width, bound and dimension.
THEOREM AdmissionExact == Spec => []AdmitIsExact
<1>1. ASSUME ResultOfCall PROVE AdmitIsExact
  <2> SUFFICES ASSUME done, call.name = "admit"
               PROVE  LET expected == call.incoming_seq = 2
                      IN /\ result = -1 <=> ~expected
                         /\ result = -2 <=> expected /\ ~Capable(call.badge)
                         /\ Distance2(call.prior, call.candidate) < Modulus \div 2 =>
                              (result = 0 <=> /\ expected /\ Capable(call.badge)
                                              /\ WithinBound(call.prior, call.candidate))
    BY DEF AdmitIsExact, Returned
  <2>1. result \in AdmitProposal(call.badge, 2, call.incoming_seq, call.prior, call.candidate)
    BY <1>1 DEF ResultOfCall
  <2>2. /\ call.badge \in Nat /\ call.incoming_seq \in Int
        /\ call.prior \in Vectors /\ call.candidate \in Vectors
    BY <1>1, CallTypes DEF ResultOfCall
  <2> QED
    BY <2>1, <2>2, AdmitProposalExact
<1> QED
  BY <1>1, ResultInvariant, PTL

\* sovr_phoneme_engine.h:80-102 and strawman_ingress.c:9-17: every descriptor comes
\* back from the register with the bits it has room for, and is judged by them.
THEOREM RegisterLosesNothing == Spec => []PhonemeSurvives
<1>1. ASSUME ResultOfCall PROVE PhonemeSurvives
  <2> SUFFICES ASSUME done, call.name = "phoneme"
               PROVE  /\ result.back = Kept(call.desc)
                      /\ result.valid <=>
                           /\ Kept(call.desc).onset <= 51
                           /\ Kept(call.desc).coda \in (0 .. 31) \union {63}
    BY DEF PhonemeSurvives, Returned
  <2>1. result.back = Unpack(Pack(call.desc)) /\ result.valid = ValidWord(Pack(call.desc))
    BY <1>1 DEF ResultOfCall
  <2>2. call.desc \in [Fields -> Nat]
    BY <1>1, CallTypes DEF ResultOfCall
  <2> QED
    BY <2>1, <2>2, UnpackPack, ValidWordExact
<1> QED
  BY <1>1, ResultInvariant, PTL

\* sovereign_core.c:9-27: phase, counter and tick advance by the same number of
\* cycles, whatever the width, the cap and the number of cycles asked for.
THEOREM CoreInLockstep == Spec => []RuntimeInLockstep
<1>1. ASSUME ResultOfCall PROVE RuntimeInLockstep
  <2> SUFFICES ASSUME done, call.name = "runtime"
               PROVE  RuntimeInLockstep
    BY DEF RuntimeInLockstep, Returned
  <2>1. result = ExecuteRuntime(call.args)
    BY <1>1 DEF ResultOfCall
  <2>2. call.args \in RuntimeArgs
    BY <1>1, CallTypes DEF ResultOfCall
  <2>3. CoreInv(call.args, call.args.runtime_cycles, result)
    BY <2>1, <2>2, ExecuteRuntimeExact
  <2>4. call.args.aligned \in BOOLEAN
    BY <2>2 DEF RuntimeArgs
  <2> QED
    BY <2>3, <2>4 DEF CoreInv, RuntimeInLockstep
<1> QED
  BY <1>1, ResultInvariant, PTL
=============================================================================
