----------------------------- MODULE NanoProofs -----------------------------
(***************************************************************************)
(* Proofs about NanoAddress, Signature and Enroll: Address and             *)
(* ParseAddress agree on every bit and the only spellings of a key are its *)
(* two prefixes and its pad bits; what Sign makes, Verify accepts, in one  *)
(* encoding only; and an agent is enrolled for accounts that it announced  *)
(* and whose keys it holds, and for no others.                             *)
(*                                                                         *)
(* The loops of the code are the recursive functions of ForLoop.  What     *)
(* they compute is proved by induction over Nat, which SetInduction states *)
(* for a set instead of a predicate.                                       *)
(***************************************************************************)
EXTENDS Enroll, NanoAddress, SequenceTheorems, FiniteSetTheorems,
        WellFoundedInduction, TLAPS

-----------------------------------------------------------------------------
(* Remainders.                                                             *)

\* Division with remainder: the quotient and the remainder give the number.
LEMMA Division ==
    ASSUME NEW n \in Int, NEW m \in Nat \ {0}
    PROVE  /\ n % m \in 0 .. m - 1
           /\ n \div m \in Int
           /\ n = m * (n \div m) + (n % m)
BY SMT

\* Division with remainder has one result.
LEMMA OneRemainder ==
    ASSUME NEW m \in Nat \ {0}, NEW q \in Int, NEW s \in 0 .. m - 1,
           NEW p \in Int, NEW t \in 0 .. m - 1, m * q + s = m * p + t
    PROVE  q = p /\ s = t
<1> DEFINE d == q - p
<1>1. d \in Int /\ m * d = t - s
  OBVIOUS
<1>2. q = p + d
  OBVIOUS
<1> HIDE DEF d
<1>3. CASE d >= 1
  <2>1. m * d >= m
    BY <1>1, <1>3
  <2> QED BY <1>1, <2>1
<1>4. CASE d <= -1
  <2>1. m * d <= -m
    BY <1>1, <1>4
  <2> QED BY <1>1, <2>1
<1>5. CASE d = 0
  BY <1>1, <1>2, <1>5
<1> QED BY <1>1, <1>3, <1>4, <1>5

\* A number below m is its own remainder.
LEMMA ModSmall ==
    ASSUME NEW m \in Nat \ {0}, NEW s \in 0 .. m - 1
    PROVE  s % m = s
BY SMT

\* Multiples of m leave the remainder as it is.
LEMMA ModShift ==
    ASSUME NEW m \in Nat \ {0}, NEW q \in Int, NEW x \in Int
    PROVE  (m * q + x) % m = x % m
<1> DEFINE y == m * q + x
<1>1. y \in Int
  OBVIOUS
<1>2. PICK p \in Int, s \in 0 .. m - 1 : x = m * p + s /\ s = x % m
  BY Division
<1>3. PICK b \in Int, t \in 0 .. m - 1 : y = m * b + t /\ t = y % m
  <2> HIDE DEF y
  <2> QED BY <1>1, Division
<1> DEFINE z == q + p
<1>4. y = m * z + s
  BY <1>2
<1>5. z \in Int
  OBVIOUS
<1> HIDE DEF y, z
<1>6. m * b + t = m * z + s
  BY <1>3, <1>4
<1>7. t = s
  BY <1>5, <1>6, OneRemainder
<1> QED BY <1>2, <1>3, <1>7 DEF y

\* A factor may be reduced before a product is.
LEMMA ModFactor ==
    ASSUME NEW m \in Nat \ {0}, NEW k \in Int, NEW x \in Int
    PROVE  (k * (x % m)) % m = (k * x) % m
<1>1. PICK p \in Int, s \in 0 .. m - 1 : x = m * p + s /\ s = x % m
  BY Division
<1>2. k * x = m * (k * p) + k * s
  BY <1>1
<1>3. k * p \in Int /\ k * s \in Int
  OBVIOUS
<1>4. (m * (k * p) + k * s) % m = (k * s) % m
  BY <1>3, ModShift
<1> QED BY <1>1, <1>2, <1>4

\* The parts of a sum may be reduced before the sum is.
LEMMA ModSum ==
    ASSUME NEW m \in Nat \ {0}, NEW x \in Int, NEW y \in Int
    PROVE  ((x % m) + (y % m)) % m = (x + y) % m
<1>1. PICK p \in Int, s \in 0 .. m - 1 : x = m * p + s /\ s = x % m
  BY Division
<1>2. PICK q \in Int, t \in 0 .. m - 1 : y = m * q + t /\ t = y % m
  BY Division
<1>3. x + y = m * (p + q) + (s + t)
  BY <1>1, <1>2
<1>4. p + q \in Int /\ s + t \in Int
  OBVIOUS
<1>5. (m * (p + q) + (s + t)) % m = (s + t) % m
  BY <1>4, ModShift
<1> QED BY <1>1, <1>2, <1>3, <1>5

\* A multiple of c may be reduced modulo l before it is taken.
LEMMA ModScale ==
    ASSUME NEW l \in Nat \ {0}, NEW c \in Nat \ {0}, NEW x \in Int
    PROVE  ((x % l) * c) % (c * l) = (x * c) % (c * l)
<1>1. PICK p \in Int, s \in 0 .. l - 1 : x = l * p + s /\ s = x % l
  BY Division
<1>2. x * c = (c * l) * p + s * c
  <2> DEFINE u == l * p
  <2>3. u \in Int /\ x = u + s
    BY <1>1
  <2>4. (u + s) * c = u * c + s * c
    <3> HIDE DEF u
    <3> QED BY <2>3
  <2>1. x * c = (l * p) * c + s * c
    BY <2>3, <2>4
  <2>2. (l * p) * c = (c * l) * p
    OBVIOUS
  <2> QED BY <2>1, <2>2
<1>3. c * l \in Nat \ {0} /\ s * c \in Int
  OBVIOUS
<1>4. ((c * l) * p + s * c) % (c * l) = (s * c) % (c * l)
  <2> DEFINE m == c * l
             y == s * c
  <2> HIDE DEF m, y
  <2>1. m \in Nat \ {0} /\ y \in Int
    BY <1>3 DEF m, y
  <2>2. (m * p + y) % m = y % m
    BY <2>1, ModShift
  <2> QED BY <2>2 DEF m, y
<1> QED BY <1>1, <1>2, <1>4


-----------------------------------------------------------------------------
(* Loops.                                                                  *)

\* Induction over Nat with the property given as a set: a counterexample
\* would have a least element, as < is well founded on Nat.
LEMMA SetInduction ==
    ASSUME NEW P, 0 \in P, \A n \in Nat : n \in P => n+1 \in P
    PROVE  Nat \subseteq P
<1> DEFINE R == OpToRel(<, Nat)
           T == Nat \ P
<1> SUFFICES ASSUME T # {} PROVE FALSE
  OBVIOUS
<1>1. IsWellFoundedOn(R, Nat)
  BY NatLessThanWellFounded
<1>2. PICK x \in T : \A y \in T : ~ (<<y, x>> \in R)
  <2> HIDE DEF R
  <2> QED BY <1>1, WFMin
<1>3. x \in Nat \ {0} /\ x - 1 \in T
  OBVIOUS
<1>4. <<x-1, x>> \in R
  BY <1>3 DEF OpToRel
<1> QED BY <1>2, <1>3, <1>4

\* f has the values of the loop's variable after 0, ..., n iterations.
LoopOf(f, start, step, n) ==
    /\ f = [m \in 0..n |-> f[m]]
    /\ f[0] = start
    /\ \A m \in 1..n : f[m] = step[m][f[m-1]]

\* Every loop has its values.
LEMMA LoopExists ==
    ASSUME NEW start, NEW step
    PROVE  \A n \in Nat : \E f : LoopOf(f, start, step, n)
<1> DEFINE P == {n \in Nat : \E f : LoopOf(f, start, step, n)}
<1>1. 0 \in P
  <2>1. LoopOf([m \in 0..0 |-> start], start, step, 0)
    BY DEF LoopOf
  <2> QED BY <2>1
<1>2. ASSUME NEW n \in Nat, n \in P PROVE n+1 \in P
  <2>1. PICK f : LoopOf(f, start, step, n)
    BY <1>2
  <2> DEFINE g == [m \in 0..(n+1) |-> IF m <= n THEN f[m] ELSE step[n+1][f[n]]]
  <2>2. LoopOf(g, start, step, n+1)
    <3>1. g[0] = start
      BY <2>1 DEF LoopOf
    <3>2. ASSUME NEW m \in 1..(n+1) PROVE g[m] = step[m][g[m-1]]
      <4>1. g[m-1] = f[m-1]
        OBVIOUS
      <4>2. CASE m <= n
        <5>1. m \in 1..n /\ g[m] = f[m]
          BY <4>2
        <5> QED BY <2>1, <4>1, <5>1 DEF LoopOf
      <4>3. CASE m = n+1
        <5>1. g[m] = step[m][f[n]] /\ g[m-1] = f[n]
          BY <4>1, <4>3
        <5> HIDE DEF g
        <5> QED BY <5>1
      <4> QED BY <4>2, <4>3
    <3>3. g = [m \in 0..(n+1) |-> g[m]]
      OBVIOUS
    <3> HIDE DEF g
    <3> QED BY <3>1, <3>2, <3>3 DEF LoopOf
  <2> QED BY <2>2
<1>3. Nat \subseteq P
  <2> HIDE DEF P
  <2> QED BY <1>1, <1>2, SetInduction
<1> QED BY <1>3 DEF P

\* Loop returns the last of these values.
LEMMA LoopValue ==
    ASSUME NEW start, NEW step, NEW n \in Nat
    PROVE  \E f : LoopOf(f, start, step, n) /\ Loop(start, step, n) = f[n]
<1> DEFINE Body(f) == [i \in 0..n |-> IF i = 0 THEN start ELSE step[i][f[i-1]]]
           out == CHOOSE f : f = Body(f)
<1>1. Loop(start, step, n) = out[n]
  BY DEF Loop
<1> HIDE DEF out
<1>2. PICK g : LoopOf(g, start, step, n)
  BY LoopExists
<1>3. g = Body(g)
  <2>1. g = [m \in 0..n |-> g[m]]
    BY <1>2 DEF LoopOf
  <2>2. ASSUME NEW m \in 0..n PROVE g[m] = IF m = 0 THEN start ELSE step[m][g[m-1]]
    <3>1. m # 0 => m \in 1..n
      OBVIOUS
    <3> QED BY <1>2, <3>1 DEF LoopOf
  <2>3. [m \in 0..n |-> g[m]] = Body(g)
    BY <2>2
  <2> HIDE DEF Body
  <2> QED BY <2>1, <2>3
<1>4. out = Body(out)
  <2> HIDE DEF Body
  <2> QED BY <1>3 DEF out
<1>5. LoopOf(out, start, step, n)
  <2>1. \A i \in 0..n : out[i] = Body(out)[i]
    BY <1>4
  <2>2. out[0] = start
    BY <2>1
  <2>3. \A m \in 1..n : out[m] = step[m][out[m-1]]
    BY <2>1
  <2>4. \E h : out = [m \in 0..n |-> h[m]]
    <3>1. Body(out) = [m \in 0..n |-> Body(out)[m]]
      OBVIOUS
    <3> HIDE DEF Body
    <3> QED BY <1>4, <3>1
  <2>5. out = [m \in 0..n |-> out[m]]
    BY <2>4
  <2> QED BY <2>2, <2>3, <2>5 DEF LoopOf
<1> QED BY <1>1, <1>5

\* Two runs of one loop agree as far as both go.
LEMMA LoopUnique ==
    ASSUME NEW start, NEW step, NEW n \in Nat, NEW m \in Nat, NEW f, NEW g,
           LoopOf(f, start, step, n), LoopOf(g, start, step, m)
    PROVE  \A i \in Nat : i <= n /\ i <= m => f[i] = g[i]
<1> DEFINE P == {i \in Nat : i <= n /\ i <= m => f[i] = g[i]}
<1>1. 0 \in P
  BY DEF LoopOf
<1>2. ASSUME NEW i \in Nat, i \in P PROVE i+1 \in P
  <2> SUFFICES ASSUME i+1 <= n, i+1 <= m PROVE f[i+1] = g[i+1]
    OBVIOUS
  <2>1. f[i] = g[i]
    BY <1>2
  <2>2. i+1 \in 1..n /\ i+1 \in 1..m /\ (i+1)-1 = i
    OBVIOUS
  <2>3. f[i+1] = step[i+1][f[i]] /\ g[i+1] = step[i+1][g[i]]
    BY <2>2 DEF LoopOf
  <2> QED BY <2>1, <2>3
<1>3. Nat \subseteq P
  <2> HIDE DEF P
  <2> QED BY <1>1, <1>2, SetInduction
<1> QED BY <1>3 DEF P

\* One iteration more.
LEMMA LoopStep ==
    ASSUME NEW start, NEW step
    PROVE  /\ Loop(start, step, 0) = start
           /\ \A n \in Nat : Loop(start, step, n+1) = step[n+1][Loop(start, step, n)]
<1>1. Loop(start, step, 0) = start
  <2>1. PICK f : LoopOf(f, start, step, 0) /\ Loop(start, step, 0) = f[0]
    BY LoopValue
  <2> QED BY <2>1 DEF LoopOf
<1>2. ASSUME NEW n \in Nat
      PROVE  Loop(start, step, n+1) = step[n+1][Loop(start, step, n)]
  <2>1. n+1 \in Nat /\ n+1 \in 1..(n+1) /\ (n+1)-1 = n
    OBVIOUS
  <2>2. PICK f : LoopOf(f, start, step, n+1) /\ Loop(start, step, n+1) = f[n+1]
    BY <2>1, LoopValue
  <2>3. PICK g : LoopOf(g, start, step, n) /\ Loop(start, step, n) = g[n]
    BY LoopValue
  <2>4. f[n] = g[n]
    BY <2>1, <2>2, <2>3, LoopUnique
  <2>5. f[n+1] = step[n+1][f[n]]
    BY <2>1, <2>2 DEF LoopOf
  <2> QED BY <2>2, <2>3, <2>4, <2>5
<1> QED BY <1>1, <1>2

-----------------------------------------------------------------------------
(* Numbers and their bits.                                                 *)

\* 1 << k doubles with k.
LEMMA Pow2Facts ==
    /\ Pow2(0) = 1
    /\ \A k \in Nat : Pow2(k) \in Nat \ {0} /\ Pow2(k+1) = 2 * Pow2(k)
<1> DEFINE step == [i \in Nat |-> [x \in Nat |-> 2 * x]]
           P == {k \in Nat : Pow2(k) \in Nat \ {0}}
<1>1. /\ Pow2(0) = 1
      /\ \A k \in Nat : Pow2(k+1) = step[k+1][Pow2(k)]
  <2>1. \A k : Pow2(k) = Loop(1, step, k)
    BY DEF Pow2
  <2> HIDE DEF step
  <2> QED BY <2>1, LoopStep
<1>2. ASSUME NEW k \in Nat, Pow2(k) \in Nat PROVE Pow2(k+1) = 2 * Pow2(k)
  <2>1. k+1 \in Nat
    OBVIOUS
  <2>2. step[k+1][Pow2(k)] = 2 * Pow2(k)
    BY <1>2, <2>1
  <2> HIDE DEF step
  <2> QED BY <1>1, <2>2
<1>3. Nat \subseteq P
  <2>1. 0 \in P
    BY <1>1
  <2>2. ASSUME NEW k \in Nat, k \in P PROVE k+1 \in P
    BY <1>2, <2>2
  <2> HIDE DEF P
  <2> QED BY <2>1, <2>2, SetInduction
<1> QED BY <1>1, <1>2, <1>3

\* v >> k halves with k.
LEMMA ShiftFacts ==
    ASSUME NEW v \in Nat
    PROVE  /\ ShiftRight(v, 0) = v
           /\ \A k \in Nat : /\ ShiftRight(v, k) \in Nat /\ ShiftRight(v, k+1) \in Nat
                             /\ ShiftRight(v, k+1) = ShiftRight(v, k) \div 2
                             /\ Bit(v, k) \in {0, 1}
                             /\ ShiftRight(v, k) = 2 * ShiftRight(v, k+1) + Bit(v, k)
<1> DEFINE step == [i \in Nat |-> [x \in Nat |-> x \div 2]]
           P == {k \in Nat : ShiftRight(v, k) \in Nat}
<1>1. /\ ShiftRight(v, 0) = v
      /\ \A k \in Nat : ShiftRight(v, k+1) = step[k+1][ShiftRight(v, k)]
  <2>1. \A k : ShiftRight(v, k) = Loop(v, step, k)
    BY DEF ShiftRight
  <2> HIDE DEF step
  <2> QED BY <2>1, LoopStep
<1>2. ASSUME NEW k \in Nat, ShiftRight(v, k) \in Nat
      PROVE  ShiftRight(v, k+1) = ShiftRight(v, k) \div 2
  <2>1. k+1 \in Nat
    OBVIOUS
  <2>2. step[k+1][ShiftRight(v, k)] = ShiftRight(v, k) \div 2
    BY <1>2, <2>1
  <2> HIDE DEF step
  <2> QED BY <1>1, <2>2
<1>3. ASSUME NEW x \in Nat
      PROVE  x \div 2 \in Nat /\ x % 2 \in {0, 1} /\ x = 2 * (x \div 2) + (x % 2)
  BY SMT
<1>4. Nat \subseteq P
  <2>1. 0 \in P
    BY <1>1
  <2>2. ASSUME NEW k \in Nat, k \in P PROVE k+1 \in P
    BY <1>2, <1>3, <2>2
  <2> HIDE DEF P
  <2> QED BY <2>1, <2>2, SetInduction
<1>5. ASSUME NEW k \in Nat
      PROVE  /\ ShiftRight(v, k) \in Nat /\ ShiftRight(v, k+1) \in Nat
             /\ ShiftRight(v, k+1) = ShiftRight(v, k) \div 2
             /\ Bit(v, k) \in {0, 1}
             /\ ShiftRight(v, k) = 2 * ShiftRight(v, k+1) + Bit(v, k)
  <2>1. ShiftRight(v, k) \in Nat
    BY <1>4
  <2>2. ShiftRight(v, k+1) = ShiftRight(v, k) \div 2
    BY <1>2, <2>1
  <2> DEFINE x == ShiftRight(v, k)
  <2> HIDE DEF x
  <2>3. x \div 2 \in Nat /\ x % 2 \in {0, 1} /\ x = 2 * (x \div 2) + (x % 2)
    BY <1>3, <2>1 DEF x
  <2> QED BY <2>1, <2>2, <2>3 DEF x, Bit
<1> QED BY <1>1, <1>5

\* A number of n bits has nothing left when they are shifted out.
LEMMA ShiftOut ==
    ASSUME NEW n \in Nat, NEW v \in 0 .. Pow2(n) - 1
    PROVE  ShiftRight(v, n) = 0
<1>0. v \in Nat /\ Pow2(n) \in Nat /\ v < Pow2(n)
  BY Pow2Facts
<1> DEFINE P == {i \in Nat : i <= n => ShiftRight(v, i) < Pow2(n - i)}
<1>1. 0 \in P
  BY <1>0, ShiftFacts
<1>2. ASSUME NEW i \in Nat, i \in P PROVE i+1 \in P
  <2> SUFFICES ASSUME i+1 <= n PROVE ShiftRight(v, i+1) < Pow2(n - (i+1))
    OBVIOUS
  <2> DEFINE j == n - (i+1)
  <2>1. j \in Nat /\ n - i = j + 1
    OBVIOUS
  <2>2. ShiftRight(v, i) < Pow2(j + 1)
    BY <1>2, <2>1
  <2> HIDE DEF j
  <2>3. /\ ShiftRight(v, i) \in Nat /\ ShiftRight(v, i+1) \in Nat /\ Bit(v, i) \in {0, 1}
        /\ ShiftRight(v, i) = 2 * ShiftRight(v, i+1) + Bit(v, i)
    BY <1>0, ShiftFacts
  <2>4. Pow2(j) \in Nat /\ Pow2(j + 1) = 2 * Pow2(j)
    BY <2>1, Pow2Facts
  <2>5. ShiftRight(v, i+1) < Pow2(j)
    BY <2>2, <2>3, <2>4
  <2> QED BY <2>5 DEF j
<1>3. Nat \subseteq P
  <2> HIDE DEF P
  <2> QED BY <1>1, <1>2, SetInduction
<1>4. ShiftRight(v, n) < Pow2(n - n)
  BY <1>3
<1>5. ShiftRight(v, n) < 1
  <2>1. n - n = 0
    OBVIOUS
  <2>2. Pow2(0) = 1
    BY Pow2Facts
  <2>3. ShiftRight(v, n) < Pow2(0)
    BY <1>4, <2>1
  <2> HIDE DEF P
  <2> QED BY <2>2, <2>3
<1>6. ShiftRight(v, n) \in Nat
  BY <1>0, ShiftFacts
<1> QED BY <1>5, <1>6

\* The number that the loop has built from the first i bits.
Prefix(bits, i) == Loop(0, [j \in 1..Len(bits) |-> [v \in Nat |-> 2 * v + bits[j]]], i)

\* Every bit doubles the number and adds itself.
LEMMA PrefixFacts ==
    ASSUME NEW n \in Nat, NEW bits \in [1..n -> {0, 1}]
    PROVE  /\ Prefix(bits, 0) = 0 /\ Prefix(bits, n) = Number(bits)
           /\ \A i \in 0..n : Prefix(bits, i) \in Nat /\ Prefix(bits, i) \in 0 .. Pow2(i) - 1
           /\ \A i \in 0 .. n-1 : Prefix(bits, i+1) = 2 * Prefix(bits, i) + bits[i+1]
<1> DEFINE step == [j \in 1..n |-> [v \in Nat |-> 2 * v + bits[j]]]
<1>0. Len(bits) = n
  <2>1. bits \in Seq({0, 1})
    BY SeqDef
  <2> QED BY <2>1, LenProperties
<1>1. /\ Prefix(bits, 0) = 0 /\ Prefix(bits, n) = Number(bits)
      /\ \A i \in Nat : Prefix(bits, i+1) = step[i+1][Prefix(bits, i)]
  <2>1. \A i : Prefix(bits, i) = Loop(0, step, i)
    BY <1>0 DEF Prefix
  <2>2. Number(bits) = Loop(0, step, n)
    BY <1>0 DEF Number
  <2> HIDE DEF step
  <2>3. /\ Loop(0, step, 0) = 0
        /\ \A i \in Nat : Loop(0, step, i+1) = step[i+1][Loop(0, step, i)]
    BY LoopStep
  <2>4. Prefix(bits, 0) = 0 /\ Prefix(bits, n) = Number(bits)
    BY <2>1, <2>2, <2>3
  <2>5. ASSUME NEW i \in Nat PROVE Prefix(bits, i+1) = step[i+1][Prefix(bits, i)]
    BY <2>1, <2>3
  <2> QED BY <2>4, <2>5
<1>2. ASSUME NEW i \in 0 .. n-1, Prefix(bits, i) \in Nat
      PROVE  Prefix(bits, i+1) = 2 * Prefix(bits, i) + bits[i+1]
  <2>1. i+1 \in 1..n /\ i \in Nat
    OBVIOUS
  <2>2. step[i+1][Prefix(bits, i)] = 2 * Prefix(bits, i) + bits[i+1]
    BY <1>2, <2>1
  <2> HIDE DEF step
  <2> QED BY <1>1, <2>1, <2>2
<1> DEFINE P == {i \in Nat : i <= n => Prefix(bits, i) \in 0 .. Pow2(i) - 1}
<1>3. 0 \in P
  <2>1. Prefix(bits, 0) = 0 /\ Pow2(0) - 1 = 0
    BY <1>1, Pow2Facts
  <2> QED BY <2>1
<1>4. ASSUME NEW i \in Nat, i \in P PROVE i+1 \in P
  <2> SUFFICES ASSUME i+1 <= n PROVE Prefix(bits, i+1) \in 0 .. Pow2(i+1) - 1
    OBVIOUS
  <2>1. Pow2(i) \in Nat /\ Pow2(i+1) = 2 * Pow2(i)
    BY Pow2Facts
  <2>2. Prefix(bits, i) \in Nat /\ Prefix(bits, i) <= Pow2(i) - 1
    BY <1>4, <2>1
  <2>3. i \in 0 .. n-1 /\ bits[i+1] \in {0, 1}
    OBVIOUS
  <2>4. Prefix(bits, i+1) = 2 * Prefix(bits, i) + bits[i+1]
    BY <1>2, <2>2, <2>3
  <2> QED BY <2>1, <2>2, <2>3, <2>4
<1>5. Nat \subseteq P
  <2> HIDE DEF P
  <2> QED BY <1>3, <1>4, SetInduction
<1>6. ASSUME NEW i \in 0..n
      PROVE  Prefix(bits, i) \in Nat /\ Prefix(bits, i) \in 0 .. Pow2(i) - 1
  <2>1. i \in Nat /\ i <= n
    OBVIOUS
  <2>2. Prefix(bits, i) \in 0 .. Pow2(i) - 1
    BY <1>5, <2>1
  <2>3. Pow2(i) \in Nat
    BY <2>1, Pow2Facts
  <2> HIDE DEF P
  <2> QED BY <2>2, <2>3
<1>7. ASSUME NEW i \in 0 .. n-1 PROVE Prefix(bits, i+1) = 2 * Prefix(bits, i) + bits[i+1]
  <2>1. i \in 0..n /\ i \in Nat
    OBVIOUS
  <2>2. Prefix(bits, i) \in Nat
    BY <1>6, <2>1
  <2> QED BY <1>2, <2>2
<1> QED BY <1>1, <1>6, <1>7

\* A number built from n bits has these bits, the first at the top.
LEMMA BitOfNumber ==
    ASSUME NEW n \in Nat, NEW bits \in [1..n -> {0, 1}]
    PROVE  /\ Number(bits) \in 0 .. Pow2(n) - 1 /\ Number(bits) \in Nat
           /\ \A d \in 0 .. n-1 : Bit(Number(bits), d) = bits[n - d]
<1> DEFINE v == Number(bits)
<1>1. v \in 0 .. Pow2(n) - 1 /\ v \in Nat
  <2>1. n \in 0..n
    OBVIOUS
  <2> QED BY <2>1, PrefixFacts
<1> HIDE DEF v
<1> DEFINE P == {d \in Nat : d <= n => ShiftRight(v, d) = Prefix(bits, n - d)}
<1>2. ASSUME NEW d \in 0 .. n-1, ShiftRight(v, d) = Prefix(bits, n - d)
      PROVE  Bit(v, d) = bits[n - d] /\ ShiftRight(v, d+1) = Prefix(bits, n - (d+1))
  <2> DEFINE i == n - (d+1)
  <2>1. i \in 0 .. n-1 /\ i \in 0..n /\ i+1 = n - d /\ i+1 \in 1..n /\ d \in Nat
    OBVIOUS
  <2> HIDE DEF i
  <2>2. Prefix(bits, i+1) = 2 * Prefix(bits, i) + bits[i+1] /\ Prefix(bits, i) \in Nat
    BY <2>1, PrefixFacts
  <2>3. bits[i+1] \in {0, 1}
    BY <2>1
  <2>4. /\ ShiftRight(v, d) = 2 * ShiftRight(v, d+1) + Bit(v, d)
        /\ Bit(v, d) \in {0, 1} /\ ShiftRight(v, d+1) \in Nat
    BY <1>1, <2>1, ShiftFacts
  <2>5. ShiftRight(v, d) = Prefix(bits, i+1)
    BY <1>2, <2>1
  <2>6. Bit(v, d) = bits[i+1] /\ ShiftRight(v, d+1) = Prefix(bits, i)
    BY <2>2, <2>3, <2>4, <2>5
  <2> QED BY <2>1, <2>6 DEF i
<1>3. 0 \in P
  BY <1>1, PrefixFacts, ShiftFacts DEF v
<1>4. ASSUME NEW d \in Nat, d \in P PROVE d+1 \in P
  <2> SUFFICES ASSUME d+1 <= n PROVE ShiftRight(v, d+1) = Prefix(bits, n - (d+1))
    OBVIOUS
  <2>1. d \in 0 .. n-1 /\ ShiftRight(v, d) = Prefix(bits, n - d)
    BY <1>4
  <2> QED BY <1>2, <2>1
<1>5. Nat \subseteq P
  <2> HIDE DEF P
  <2> QED BY <1>3, <1>4, SetInduction
<1>6. ASSUME NEW d \in 0 .. n-1 PROVE Bit(v, d) = bits[n - d]
  <2>1. d \in Nat /\ d <= n
    OBVIOUS
  <2>2. ShiftRight(v, d) = Prefix(bits, n - d)
    BY <1>5, <2>1
  <2> QED BY <1>2, <2>2
<1> QED BY <1>1, <1>6 DEF v

\* A number of n bits is the number that its bits build.
LEMMA NumberOfBits ==
    ASSUME NEW n \in Nat, NEW v \in 0 .. Pow2(n) - 1,
           NEW bits \in [1..n -> {0, 1}], \A i \in 1..n : bits[i] = Bit(v, n - i)
    PROVE  Number(bits) = v
<1>0. v \in Nat
  BY Pow2Facts
<1> DEFINE P == {i \in Nat : i <= n => Prefix(bits, i) = ShiftRight(v, n - i)}
<1>1. 0 \in P
  BY PrefixFacts, ShiftOut
<1>2. ASSUME NEW i \in Nat, i \in P PROVE i+1 \in P
  <2> SUFFICES ASSUME i+1 <= n PROVE Prefix(bits, i+1) = ShiftRight(v, n - (i+1))
    OBVIOUS
  <2> DEFINE d == n - (i+1)
  <2>1. d \in Nat /\ n - i = d+1 /\ i \in 0 .. n-1 /\ i+1 \in 1..n
    OBVIOUS
  <2>2. Prefix(bits, i) = ShiftRight(v, d+1)
    BY <1>2, <2>1
  <2>3. bits[i+1] = Bit(v, d)
    BY <2>1
  <2> HIDE DEF d
  <2>4. Prefix(bits, i+1) = 2 * Prefix(bits, i) + bits[i+1]
    BY <2>1, PrefixFacts
  <2>5. ShiftRight(v, d) = 2 * ShiftRight(v, d+1) + Bit(v, d)
    BY <1>0, <2>1, ShiftFacts
  <2>6. Prefix(bits, i+1) = ShiftRight(v, d)
    BY <2>2, <2>3, <2>4, <2>5
  <2> QED BY <2>6 DEF d
<1>3. Nat \subseteq P
  <2> HIDE DEF P
  <2> QED BY <1>1, <1>2, SetInduction
<1>4. Prefix(bits, n) = ShiftRight(v, n - n)
  BY <1>3
<1> QED BY <1>0, <1>4, PrefixFacts, ShiftFacts

-----------------------------------------------------------------------------
(* Base32.                                                                 *)

\* Bit b of a text, and bit i of the data behind its pad bits: what the closures
\* of the two loops read.
TextBit(s, b) == Bit(nanoReverse(s[b \div CharBits + 1]), CharBits - 1 - (b % CharBits))
DataBit(data, pad, i) ==
    IF i - pad < 0 THEN 0
    ELSE Bit(data[(i - pad) \div ByteBits + 1], ByteBits - 1 - ((i - pad) % ByteBits))

\* Position b of a text of n groups of c bits lies in one of the groups.
LEMMA PositionOf ==
    ASSUME NEW c \in Nat \ {0}, NEW n \in Nat, NEW b \in 0 .. n * c - 1
    PROVE  /\ b \div c \in 0 .. n - 1 /\ b % c \in 0 .. c - 1
           /\ b = (b \div c) * c + (b % c)
<1>0. n * c \in Nat /\ b \in Nat /\ b < n * c
  OBVIOUS
<1>1. PICK q \in Int, r \in 0 .. c - 1 : q = b \div c /\ r = b % c /\ b = c * q + r
  <2>1. b \in Int
    BY <1>0
  <2> QED BY <2>1, Division
<1>2. q * c = c * q
  OBVIOUS
<1>3. q >= 0
  <2> SUFFICES ASSUME q <= -1 PROVE FALSE
    OBVIOUS
  <2>1. c * q <= -c
    OBVIOUS
  <2> QED BY <1>0, <1>1, <2>1
<1>4. q < n
  <2> SUFFICES ASSUME n <= q PROVE FALSE
    OBVIOUS
  <2>1. n * c <= c * q
    OBVIOUS
  <2> QED BY <1>0, <1>1, <2>1
<1> QED BY <1>1, <1>2, <1>3, <1>4

\* Bit k of group i.
LEMMA GroupAndBit ==
    ASSUME NEW c \in Nat \ {0}, NEW i \in Nat, NEW k \in 0 .. c - 1
    PROVE  (i * c + k) \div c = i /\ (i * c + k) % c = k
<1> DEFINE b == i * c + k
<1>0. b \in Nat /\ b = c * i + k
  OBVIOUS
<1> HIDE DEF b
<1>1. PICK q \in Int, r \in 0 .. c - 1 : q = b \div c /\ r = b % c /\ b = c * q + r
  BY <1>0, Division
<1>2. c * q + r = c * i + k
  BY <1>0, <1>1
<1>3. q = i /\ r = k
  BY <1>2, OneRemainder
<1> QED BY <1>1, <1>3 DEF b

\* It is a bit of the n groups.
LEMMA PositionIn ==
    ASSUME NEW c \in Nat \ {0}, NEW n \in Nat, NEW i \in 0 .. n - 1, NEW k \in 0 .. c - 1
    PROVE  i * c + k \in 0 .. n * c - 1
<1>1. i * c + k \in Nat
  OBVIOUS
<1>2. i * c <= (n - 1) * c
  OBVIOUS
<1>3. (n - 1) * c = n * c - c /\ n * c \in Nat /\ i * c \in Nat
  OBVIOUS
<1> QED BY <1>1, <1>2, <1>3

\* The widths of bytes and characters.
LEMMA Widths ==
    /\ ByteBits \in Nat \ {0} /\ CharBits \in Nat \ {0}
    /\ KeyBytes \in Nat \ {0} /\ SumBytes \in Nat \ {0} /\ PadBits \in Nat
    /\ PadBits < CharBits
BY NanoAssumption

\* nanoReverse inverts nanoAlphabet: no character stands for two values.
LEMMA ReverseOfChar ==
    /\ \A x \in 0 .. Pow2(CharBits) - 1 :
         /\ nanoAlphabet[1 + x] \in Range(nanoAlphabet)
         /\ nanoReverse(nanoAlphabet[1 + x]) = x
    /\ \A c \in Range(nanoAlphabet) :
         /\ nanoReverse(c) \in 0 .. Pow2(CharBits) - 1
         /\ nanoAlphabet[1 + nanoReverse(c)] = c
<1> DEFINE N == Pow2(CharBits)
           S == 1 .. N
           T == Range(nanoAlphabet)
<1>0. N \in Nat
  BY Widths, Pow2Facts
<1>1. nanoAlphabet \in Seq(T) /\ Len(nanoAlphabet) = N /\ Cardinality(T) = N
  BY NanoAssumption
<1>2. DOMAIN nanoAlphabet = S /\ nanoAlphabet \in [S -> T]
  BY <1>1, LenProperties
<1>3. nanoAlphabet \in Surjection(S, T)
  BY <1>2 DEF Surjection, Range
<1>4. IsFiniteSet(S) /\ Cardinality(S) = N
  BY <1>0, FS_Interval
<1>5. nanoAlphabet \in Injection(S, T)
  BY <1>1, <1>3, <1>4, FS_Surjection
<1>6. \A i, j \in S : nanoAlphabet[i] = nanoAlphabet[j] => i = j
  BY <1>5 DEF Injection, IsInjective
<1>7. ASSUME NEW i \in S
      PROVE  nanoAlphabet[i] \in T /\ nanoReverse(nanoAlphabet[i]) = i - 1
  <2>1. nanoAlphabet[i] \in T /\ nanoAlphabet[i] # OtherChar
    BY <1>2, NanoAssumption
  <2> DEFINE j == CHOOSE j \in S : nanoAlphabet[j] = nanoAlphabet[i]
  <2>2. j \in S /\ nanoAlphabet[j] = nanoAlphabet[i]
    OBVIOUS
  <2>3. j = i
    BY <1>6, <2>2
  <2> QED BY <2>1, <2>3 DEF nanoReverse
<1>8. ASSUME NEW x \in 0 .. N - 1
      PROVE  nanoAlphabet[1 + x] \in T /\ nanoReverse(nanoAlphabet[1 + x]) = x
  <2>1. 1 + x \in S /\ (1 + x) - 1 = x
    BY <1>0
  <2> HIDE DEF S, T
  <2>2. nanoReverse(nanoAlphabet[1 + x]) = (1 + x) - 1
    BY <1>7, <2>1
  <2> QED BY <1>7, <2>1, <2>2
<1>9. ASSUME NEW c \in T
      PROVE  nanoReverse(c) \in 0 .. N - 1 /\ nanoAlphabet[1 + nanoReverse(c)] = c
  <2>1. PICK i \in S : nanoAlphabet[i] = c
    BY <1>2 DEF Range
  <2>2. nanoReverse(c) = i - 1
    BY <1>7, <2>1
  <2>3. i - 1 \in 0 .. N - 1 /\ 1 + (i - 1) = i
    BY <1>0
  <2> QED BY <2>1, <2>2, <2>3
<1> QED BY <1>8, <1>9

\* The bits of data and of a text in the alphabet are bits.
LEMMA BitsAreBits ==
    ASSUME NEW n \in Nat
    PROVE  /\ \A data \in ByteSeq(n), pad \in Nat :
                \A i \in 0 .. pad + n * ByteBits - 1 : DataBit(data, pad, i) \in {0, 1}
           /\ \A s \in [1..n -> Range(nanoAlphabet)] :
                \A b \in 0 .. n * CharBits - 1 : TextBit(s, b) \in {0, 1}
<1>1. ASSUME NEW data \in ByteSeq(n), NEW pad \in Nat, NEW i \in 0 .. pad + n * ByteBits - 1
      PROVE  DataBit(data, pad, i) \in {0, 1}
  <2>1. CASE i - pad < 0
    BY <2>1 DEF DataBit
  <2>2. CASE ~(i - pad < 0)
    <3> DEFINE j == i - pad
               q == j \div ByteBits
               r == j % ByteBits
    <3>1. j \in 0 .. n * ByteBits - 1
      BY <2>2, Widths
    <3> HIDE DEF j
    <3>2. q \in 0 .. n - 1 /\ r \in 0 .. ByteBits - 1
      BY <3>1, Widths, PositionOf
    <3> HIDE DEF q, r
    <3>3. q + 1 \in 1..n /\ ByteBits - 1 - r \in Nat
      BY <3>2, Widths
    <3>4. data[q + 1] \in Nat
      <4>1. Pow2(ByteBits) \in Nat
        BY Widths, Pow2Facts
      <4> QED BY <3>3, <4>1 DEF ByteSeq
    <3>5. Bit(data[q + 1], ByteBits - 1 - r) \in {0, 1}
      BY <3>3, <3>4, ShiftFacts
    <3> QED BY <2>2, <3>5 DEF DataBit, j, q, r
  <2> QED BY <2>1, <2>2
<1>2. ASSUME NEW s \in [1..n -> Range(nanoAlphabet)], NEW b \in 0 .. n * CharBits - 1
      PROVE  TextBit(s, b) \in {0, 1}
  <2> DEFINE q == b \div CharBits
             r == b % CharBits
  <2>1. q \in 0 .. n - 1 /\ r \in 0 .. CharBits - 1
    BY Widths, PositionOf
  <2> HIDE DEF q, r
  <2>2. q + 1 \in 1..n /\ CharBits - 1 - r \in Nat
    BY <2>1, Widths
  <2>3. nanoReverse(s[q + 1]) \in Nat
    <3>1. Pow2(CharBits) \in Nat
      BY Widths, Pow2Facts
    <3>2. s[q + 1] \in Range(nanoAlphabet)
      BY <2>2
    <3>3. nanoReverse(s[q + 1]) \in 0 .. Pow2(CharBits) - 1
      BY <3>2, ReverseOfChar
    <3> QED BY <3>1, <3>3
  <2>4. Bit(nanoReverse(s[q + 1]), CharBits - 1 - r) \in {0, 1}
    BY <2>2, <2>3, ShiftFacts
  <2> QED BY <2>4 DEF TextBit, q, r
<1> QED BY <1>1, <1>2

\* encodeBase32 writes the bits of the data behind the pad bits, in order.
LEMMA EncodeFacts ==
    ASSUME NEW n \in Nat, NEW data \in ByteSeq(n), NEW pad \in Nat, NEW m \in Nat,
           m * CharBits = pad + n * ByteBits
    PROVE  /\ encodeBase32(data, pad) \in [1..m -> Range(nanoAlphabet)]
           /\ \A b \in 0 .. m * CharBits - 1 :
                TextBit(encodeBase32(data, pad), b) = DataBit(data, pad, b)
<1> DEFINE bits(i) == [k \in 1..CharBits |-> DataBit(data, pad, (i-1) * CharBits + k - 1)]
           t == [i \in 1..m |-> nanoAlphabet[1 + Number(bits(i))]]
<1>1. encodeBase32(data, pad) = t
  <2>1. Len(data) = n
    <3>1. data \in Seq(0 .. Pow2(ByteBits) - 1) /\ DOMAIN data = 1..n
      BY SeqDef DEF ByteSeq
    <3> QED BY <3>1, LenProperties
  <2>2. (pad + Len(data) * ByteBits) \div CharBits = m
    <3>1. CharBits \in Nat \ {0} /\ m \in 0 .. (m+1) - 1 /\ 0 \in 0 .. CharBits - 1
      BY Widths
    <3>2. (m * CharBits + 0) \div CharBits = m
      BY <3>1, GroupAndBit
    <3>3. m * CharBits + 0 = m * CharBits
      BY <3>1
    <3> QED BY <2>1, <3>2, <3>3
  <2> QED BY <2>2 DEF encodeBase32, DataBit
<1>2. ASSUME NEW i \in 1..m PROVE bits(i) \in [1..CharBits -> {0, 1}]
  <2>1. ASSUME NEW k \in 1..CharBits PROVE bits(i)[k] \in {0, 1}
    <3>1. i - 1 \in 0 .. m - 1 /\ k - 1 \in 0 .. CharBits - 1
      BY Widths
    <3>2. (i-1) * CharBits + (k-1) \in 0 .. m * CharBits - 1
      BY <3>1, Widths, PositionIn
    <3>3. (i-1) * CharBits + (k-1) = (i-1) * CharBits + k - 1
      BY <3>1, Widths
    <3>4. (i-1) * CharBits + (k-1) \in 0 .. (pad + n * ByteBits) - 1
      BY <3>2, Zenon
    <3>6. n * ByteBits \in Nat
      BY Widths
    <3>7. (pad + n * ByteBits) - 1 = pad + n * ByteBits - 1
      BY <3>6
    <3>5. DataBit(data, pad, (i-1) * CharBits + k - 1) \in {0, 1}
      BY <3>4, <3>7, BitsAreBits
    <3> QED BY <3>5
  <2> QED BY <2>1
<1>3. ASSUME NEW i \in 1..m
      PROVE  /\ t[i] \in Range(nanoAlphabet)
             /\ nanoReverse(t[i]) = Number(bits(i))
  <2> DEFINE w == bits(i)
  <2>0. CharBits \in Nat /\ w \in [1..CharBits -> {0, 1}]
    BY <1>2, Widths
  <2> HIDE DEF w
  <2>1. Number(w) \in 0 .. Pow2(CharBits) - 1
    BY <2>0, BitOfNumber
  <2>2. /\ nanoAlphabet[1 + Number(w)] \in Range(nanoAlphabet)
        /\ nanoReverse(nanoAlphabet[1 + Number(w)]) = Number(w)
    BY <2>1, ReverseOfChar
  <2>3. t[i] = nanoAlphabet[1 + Number(w)]
    BY DEF w
  <2> HIDE DEF t
  <2> QED BY <2>2, <2>3 DEF w
<1>4. t \in [1..m -> Range(nanoAlphabet)]
  BY <1>3
<1>5. ASSUME NEW b \in 0 .. m * CharBits - 1
      PROVE  TextBit(t, b) = DataBit(data, pad, b)
  <2> DEFINE q == b \div CharBits
             r == b % CharBits
             w == bits(q + 1)
  <2>1. /\ q \in 0 .. m - 1 /\ r \in 0 .. CharBits - 1 /\ b = q * CharBits + r
    BY Widths, PositionOf
  <2>2. TextBit(t, b) = Bit(nanoReverse(t[q + 1]), CharBits - 1 - r)
    BY DEF TextBit
  <2> HIDE DEF q, r
  <2>3. /\ q + 1 \in 1..m /\ CharBits - 1 - r \in 0 .. CharBits - 1
        /\ CharBits - (CharBits - 1 - r) = r + 1 /\ r + 1 \in 1..CharBits
        /\ ((q + 1) - 1) * CharBits + (r + 1) - 1 = q * CharBits + r
    BY <2>1, Widths
  <2>4. w \in [1..CharBits -> {0, 1}] /\ nanoReverse(t[q + 1]) = Number(w)
    BY <1>2, <1>3, <2>3
  <2>5. w[r + 1] = DataBit(data, pad, b)
    <3>1. w[r + 1] = DataBit(data, pad, ((q + 1) - 1) * CharBits + (r + 1) - 1)
      BY <2>3
    <3> HIDE DEF w
    <3> QED BY <2>1, <2>3, <3>1
  <2> HIDE DEF w, t
  <2>6. Bit(Number(w), CharBits - 1 - r) = w[CharBits - (CharBits - 1 - r)]
    <3>1. CharBits \in Nat
      BY Widths
    <3> QED BY <2>3, <2>4, <3>1, BitOfNumber
  <2> QED BY <2>2, <2>3, <2>4, <2>5, <2>6
<1> HIDE DEF t, bits
<1> QED BY <1>1, <1>4, <1>5

\* The bits of the bytes behind the pad are bits of the text.
LEMMA BitBehindPad ==
    ASSUME NEW n \in Nat, NEW m \in Nat, NEW pad \in Nat,
           m * CharBits = pad + n * ByteBits,
           NEW i \in 1..n, NEW k \in 1..ByteBits
    PROVE  pad + (i-1) * ByteBits + k - 1 \in 0 .. m * CharBits - 1
<1>1. i - 1 \in 0 .. n - 1 /\ k - 1 \in 0 .. ByteBits - 1
  BY Widths
<1>2. (i-1) * ByteBits + (k-1) \in 0 .. n * ByteBits - 1
  BY <1>1, Widths, PositionIn
<1>3. (i-1) * ByteBits \in Nat /\ n * ByteBits \in Nat /\ k \in Int
  BY <1>1, Widths
<1> QED BY <1>2, <1>3

\* What decodeBase32 makes of a text in the alphabet whose bits are n bytes
\* behind the pad bits.
LEMMA DecodeFacts ==
    ASSUME NEW n \in Nat, NEW m \in Nat, NEW pad \in Nat,
           m * CharBits = pad + n * ByteBits,
           NEW s \in [1..m -> Range(nanoAlphabet)]
    PROVE  /\ decodeBase32(s, pad)
                = [i \in 1..n |-> Number([k \in 1..ByteBits |->
                                            TextBit(s, pad + (i-1) * ByteBits + k - 1)])]
           /\ decodeBase32(s, pad) \in ByteSeq(n)
<1> DEFINE out == [i \in 1..n |-> Number([k \in 1..ByteBits |->
                                            TextBit(s, pad + (i-1) * ByteBits + k - 1)])]
<1>1. Len(s) = m
  <2>1. s \in Seq(Range(nanoAlphabet)) /\ DOMAIN s = 1..m
    BY SeqDef
  <2> QED BY <2>1, LenProperties
<1>2. /\ Len(s) * CharBits - pad = n * ByteBits
      /\ (n * ByteBits) % ByteBits = 0 /\ (n * ByteBits) \div ByteBits = n
  <2>1. ByteBits \in Nat \ {0} /\ n \in 0 .. (n+1) - 1 /\ 0 \in 0 .. ByteBits - 1
    BY Widths
  <2>2. (n * ByteBits + 0) \div ByteBits = n /\ (n * ByteBits + 0) % ByteBits = 0
    BY <2>1, GroupAndBit
  <2>3. n * ByteBits + 0 = n * ByteBits /\ m * CharBits - pad = n * ByteBits
    BY <2>1
  <2> QED BY <1>1, <2>2, <2>3
<1>3. ASSUME NEW i \in 1..Len(s) PROVE ~(nanoReverse(s[i]) < 0)
  <2>1. s[i] \in Range(nanoAlphabet)
    BY <1>1
  <2>2. nanoReverse(s[i]) \in 0 .. Pow2(CharBits) - 1 /\ Pow2(CharBits) \in Nat
    BY <2>1, ReverseOfChar, Widths, Pow2Facts
  <2> QED BY <2>2
<1>4. decodeBase32(s, pad) = out
  BY <1>1, <1>2, <1>3 DEF decodeBase32, TextBit
<1>5. ASSUME NEW i \in 1..n, NEW k \in 1..ByteBits
      PROVE  TextBit(s, pad + (i-1) * ByteBits + k - 1) \in {0, 1}
  <2>1. pad + (i-1) * ByteBits + k - 1 \in 0 .. m * CharBits - 1
    BY BitBehindPad
  <2> QED BY <2>1, BitsAreBits
<1>6. out \in ByteSeq(n)
  <2>1. ASSUME NEW i \in 1..n PROVE out[i] \in 0 .. Pow2(ByteBits) - 1
    <3> DEFINE w == [k \in 1..ByteBits |-> TextBit(s, pad + (i-1) * ByteBits + k - 1)]
    <3>1. w \in [1..ByteBits -> {0, 1}] /\ ByteBits \in Nat
      BY <1>5, Widths
    <3>2. out[i] = Number(w)
      OBVIOUS
    <3> HIDE DEF w, out
    <3>3. Number(w) \in 0 .. Pow2(ByteBits) - 1
      BY <3>1, BitOfNumber
    <3> QED BY <3>2, <3>3
  <2> QED BY <2>1 DEF ByteSeq
<1> HIDE DEF out
<1> QED BY <1>4, <1>6 DEF out

\* decodeBase32 inverts encodeBase32, whatever the widths and the pad bits.
LEMMA DecodeEncode ==
    ASSUME NEW n \in Nat, NEW data \in ByteSeq(n), NEW pad \in Nat, NEW m \in Nat,
           m * CharBits = pad + n * ByteBits
    PROVE  decodeBase32(encodeBase32(data, pad), pad) = data
<1> DEFINE s == encodeBase32(data, pad)
           bits(i) == [k \in 1..ByteBits |-> TextBit(s, pad + (i-1) * ByteBits + k - 1)]
           out == decodeBase32(s, pad)
<1>1. /\ s \in [1..m -> Range(nanoAlphabet)]
      /\ \A b \in 0 .. m * CharBits - 1 : TextBit(s, b) = DataBit(data, pad, b)
  BY EncodeFacts
<1> HIDE DEF s
<1>2. out = [i \in 1..n |-> Number(bits(i))]
  BY <1>1, DecodeFacts
<1>3. ASSUME NEW i \in 1..n PROVE Number(bits(i)) = data[i]
  <2> DEFINE w == bits(i)
  <2>1. w \in [1..ByteBits -> {0, 1}] /\ ByteBits \in Nat
    <3>1. ASSUME NEW k \in 1..ByteBits PROVE w[k] \in {0, 1}
      <4>1. pad + (i-1) * ByteBits + k - 1 \in 0 .. m * CharBits - 1
        BY BitBehindPad
      <4> QED BY <1>1, <4>1, BitsAreBits
    <3> QED BY <3>1, Widths
  <2>2. ASSUME NEW k \in 1..ByteBits PROVE w[k] = Bit(data[i], ByteBits - k)
    <3> DEFINE b == pad + (i-1) * ByteBits + k - 1
               j == (i-1) * ByteBits + (k-1)
    <3>1. w[k] = DataBit(data, pad, b)
      <4>1. b \in 0 .. m * CharBits - 1
        BY BitBehindPad
      <4> QED BY <1>1, <4>1
    <3>2. i - 1 \in 0 .. n - 1 /\ k - 1 \in 0 .. ByteBits - 1
      BY Widths
    <3>3. j \div ByteBits = i - 1 /\ j % ByteBits = k - 1 /\ j \in Nat
      <4>1. i - 1 \in Nat /\ ByteBits \in Nat \ {0}
        BY Widths
      <4>2. j \div ByteBits = i - 1 /\ j % ByteBits = k - 1
        <5> HIDE DEF b, w, out, bits
        <5> QED BY <3>2, <4>1, GroupAndBit
      <4>3. j \in Nat
        BY <3>2, <4>1
      <4> QED BY <4>2, <4>3
    <3>4. b - pad = j
      <4>1. (i-1) * ByteBits \in Int
        BY <3>2, Widths
      <4> QED BY <4>1
    <3> HIDE DEF b, j, w
    <3>5. DataBit(data, pad, b) = Bit(data[j \div ByteBits + 1], ByteBits - 1 - (j % ByteBits))
      BY <3>3, <3>4 DEF DataBit
    <3>6. (i - 1) + 1 = i /\ ByteBits - 1 - (k - 1) = ByteBits - k
      BY Widths
    <3> QED BY <3>1, <3>3, <3>5, <3>6
  <2>3. data[i] \in 0 .. Pow2(ByteBits) - 1
    BY DEF ByteSeq
  <2> HIDE DEF w
  <2>4. Number(w) = data[i]
    BY <2>1, <2>2, <2>3, NumberOfBits
  <2> QED BY <2>4 DEF w
<1>4. data = [i \in 1..n |-> data[i]]
  BY DEF ByteSeq
<1> HIDE DEF out, bits
<1>5. out = [i \in 1..n |-> data[i]]
  BY <1>2, <1>3
<1> QED BY <1>4, <1>5 DEF out, s

-----------------------------------------------------------------------------
(* Addresses.                                                              *)

\* The texts of a key and of a checksum have whole characters.
LEMMA TextLengths ==
    /\ KeyChars \in Nat /\ KeyChars * CharBits = PadBits + KeyBytes * ByteBits
    /\ SumChars \in Nat /\ SumChars * CharBits = 0 + SumBytes * ByteBits
    /\ KeyChars # 0 /\ SumChars # 0
<1> DEFINE a == PadBits + KeyBytes * ByteBits
           b == SumBytes * ByteBits
<1>1. a \in Nat /\ b \in Nat /\ a > 0 /\ b > 0
  <2>1. KeyBytes * ByteBits > 0 /\ SumBytes * ByteBits > 0
    BY Widths
  <2>2. KeyBytes * ByteBits \in Nat /\ SumBytes * ByteBits \in Nat
    BY Widths
  <2> QED BY <2>1, <2>2, Widths
<1>2. KeyChars = a \div CharBits /\ SumChars = b \div CharBits
  BY DEF KeyChars, SumChars
<1>3. KeyChars * CharBits = a /\ SumChars * CharBits = b
  BY NanoAssumption
<1> HIDE DEF a, b
<1>4. KeyChars \in Int /\ SumChars \in Int
  BY <1>1, <1>2, Widths
<1>5. ASSUME NEW x \in Int, x * CharBits > 0 PROVE x > 0
  BY <1>5, Widths
<1>6. KeyChars > 0 /\ SumChars > 0
  BY <1>1, <1>3, <1>4, <1>5
<1> QED BY <1>1, <1>3, <1>4, <1>6 DEF a, b

\* reverseBytes undoes itself.
LEMMA ReverseBytes ==
    ASSUME NEW n \in Nat, NEW d \in ByteSeq(n)
    PROVE  reverseBytes(d) \in ByteSeq(n) /\ reverseBytes(reverseBytes(d)) = d
<1> DEFINE B == 0 .. Pow2(ByteBits) - 1
<1> HIDE DEF B
<1>0. d \in [1..n -> B]
  BY DEF ByteSeq, B
<1>1. ASSUME NEW e \in [1..n -> B]
      PROVE  reverseBytes(e) = [i \in 1..n |-> e[(n - i) + 1]]
  <2>1. e \in Seq(B) /\ DOMAIN e = 1..n
    BY SeqDef
  <2>2. Len(e) = n
    BY <2>1, LenProperties
  <2> QED BY <2>2 DEF reverseBytes, Reverse
<1>2. ASSUME NEW e \in [1..n -> B] PROVE reverseBytes(e) \in [1..n -> B]
  <2>1. ASSUME NEW i \in 1..n PROVE (n - i) + 1 \in 1..n
    OBVIOUS
  <2> QED BY <1>1, <2>1
<1>3. reverseBytes(d) \in [1..n -> B]
  BY <1>0, <1>2
<1>4. ASSUME NEW i \in 1..n PROVE reverseBytes(reverseBytes(d))[i] = d[i]
  <2>1. (n - i) + 1 \in 1..n /\ (n - ((n - i) + 1)) + 1 = i
    OBVIOUS
  <2>2. reverseBytes(reverseBytes(d))[i] = reverseBytes(d)[(n - i) + 1]
    BY <1>1, <1>3
  <2>3. reverseBytes(d)[(n - i) + 1] = d[(n - ((n - i) + 1)) + 1]
    BY <1>0, <1>1, <2>1
  <2> QED BY <2>1, <2>2, <2>3
<1>5. reverseBytes(reverseBytes(d)) \in [1..n -> B]
  BY <1>2, <1>3
<1>6. reverseBytes(reverseBytes(d)) = d
  BY <1>0, <1>4, <1>5
<1> QED BY <1>3, <1>6 DEF ByteSeq, B

\* The two parts of a text of the right length.
KeyPart(text) == SubSeq(text, 1, KeyChars)
SumPart(text) == SubSeq(text, KeyChars + 1, Len(text))

\* They are a text of the key's length and one of the checksum's.
LEMMA Parts ==
    ASSUME NEW C, NEW text \in Seq(C), Len(text) = KeyChars + SumChars
    PROVE  /\ KeyPart(text) \in [1..KeyChars -> C] /\ SumPart(text) \in [1..SumChars -> C]
           /\ \A i \in 1..KeyChars : KeyPart(text)[i] = text[i]
           /\ \A i \in 1..SumChars : SumPart(text)[i] = text[KeyChars + i]
<1>1. KeyChars \in Nat /\ SumChars \in Nat /\ KeyChars # 0 /\ SumChars # 0
  BY TextLengths
<1>2. \A i \in 1 .. KeyChars + SumChars : text[i] \in C
  BY ElementOfSeq
<1>3. /\ KeyPart(text) \in Seq(C) /\ Len(KeyPart(text)) = KeyChars
      /\ \A i \in 1..KeyChars : KeyPart(text)[i] = text[i]
  <2> DEFINE m == 1
             p == SubSeq(text, m, KeyChars)
  <2>1. \A i \in m..KeyChars : text[i] \in C
    BY <1>1, <1>2
  <2>2. /\ p \in Seq(C)
        /\ Len(p) = IF m <= KeyChars THEN KeyChars - m + 1 ELSE 0
        /\ \A i \in 1 .. KeyChars - m + 1 : p[i] = text[m + i - 1]
    BY <1>1, <2>1, SubSeqProperties
  <2>3. KeyChars - m + 1 = KeyChars /\ \A i \in 1..KeyChars : m + i - 1 = i
    BY <1>1
  <2> HIDE DEF p
  <2>4. p \in Seq(C) /\ Len(p) = KeyChars /\ \A i \in 1..KeyChars : p[i] = text[i]
    BY <1>1, <2>2, <2>3
  <2> QED BY <2>4 DEF p, KeyPart
<1>4. /\ SumPart(text) \in Seq(C) /\ Len(SumPart(text)) = SumChars
      /\ \A i \in 1..SumChars : SumPart(text)[i] = text[KeyChars + i]
  <2> DEFINE m == KeyChars + 1
             n == KeyChars + SumChars
             p == SubSeq(text, m, n)
  <2>1. \A i \in m..n : text[i] \in C
    BY <1>1, <1>2
  <2>2. /\ p \in Seq(C)
        /\ Len(p) = IF m <= n THEN n - m + 1 ELSE 0
        /\ \A i \in 1 .. n - m + 1 : p[i] = text[m + i - 1]
    <3>1. m \in Int /\ n \in Int
      BY <1>1
    <3> HIDE DEF m, n
    <3> QED BY <2>1, <3>1, SubSeqProperties
  <2>3. n - m + 1 = SumChars /\ m <= n /\ \A i \in 1..SumChars : m + i - 1 = KeyChars + i
    BY <1>1
  <2> HIDE DEF p, m, n
  <2>4. p \in Seq(C) /\ Len(p) = SumChars /\ \A i \in 1..SumChars : p[i] = text[KeyChars + i]
    BY <2>2, <2>3
  <2> QED BY <2>4 DEF p, m, n, SumPart
<1> QED BY <1>3, <1>4, LenProperties

\* Address writes texts that ParseAddress takes apart as Address put them
\* together.
LEMMA AddressFacts ==
    ASSUME NEW pk \in ByteSeq(KeyBytes), blake2bSum(pk) \in ByteSeq(SumBytes)
    PROVE  /\ Address(pk).text \in Seq(Range(nanoAlphabet))
           /\ Len(Address(pk).text) = KeyChars + SumChars
           /\ KeyPart(Address(pk).text) = encodeBase32(pk, PadBits)
           /\ SumPart(Address(pk).text)
                = encodeBase32(reverseBytes(blake2bSum(pk)), 0)
<1> DEFINE C == Range(nanoAlphabet)
           sum == reverseBytes(blake2bSum(pk))
           s == encodeBase32(pk, PadBits)
           t == encodeBase32(sum, 0)
<1>0. KeyChars \in Nat /\ SumChars \in Nat
  BY TextLengths
<1>1. KeyBytes \in Nat /\ SumBytes \in Nat /\ PadBits \in Nat /\ 0 \in Nat
  BY Widths
<1>2. sum \in ByteSeq(SumBytes)
  BY <1>1, ReverseBytes
<1> HIDE DEF sum
<1>3. s \in [1..KeyChars -> C]
  BY <1>1, TextLengths, EncodeFacts
<1>4. t \in [1..SumChars -> C]
  BY <1>1, <1>2, TextLengths, EncodeFacts
<1>5. Address(pk).text = s \o t
  BY DEF Address, sum
<1> HIDE DEF s, t, C
<1>6. s \in Seq(C) /\ t \in Seq(C) /\ Len(s) = KeyChars /\ Len(t) = SumChars
  <2>1. s \in Seq(C) /\ t \in Seq(C) /\ DOMAIN s = 1..KeyChars /\ DOMAIN t = 1..SumChars
    BY <1>3, <1>4, TextLengths, SeqDef
  <2>2. Len(s) \in Nat /\ DOMAIN s = 1..Len(s) /\ Len(t) \in Nat /\ DOMAIN t = 1..Len(t)
    BY <2>1, LenProperties
  <2> QED BY <2>1, <2>2, TextLengths
<1> DEFINE text == s \o t
<1>7. /\ text \in Seq(C) /\ Len(text) = KeyChars + SumChars
      /\ \A i \in 1 .. KeyChars + SumChars :
           text[i] = IF i <= KeyChars THEN s[i] ELSE t[i - KeyChars]
  BY <1>6, ConcatProperties
<1> HIDE DEF text
<1>8. /\ KeyPart(text) \in [1..KeyChars -> C] /\ SumPart(text) \in [1..SumChars -> C]
      /\ \A i \in 1..KeyChars : KeyPart(text)[i] = text[i]
      /\ \A i \in 1..SumChars : SumPart(text)[i] = text[KeyChars + i]
  BY <1>7, Parts
<1>9. KeyPart(text) = s
  <2>1. ASSUME NEW i \in 1..KeyChars PROVE KeyPart(text)[i] = s[i]
    <3>1. i \in 1 .. KeyChars + SumChars /\ i <= KeyChars
      BY TextLengths
    <3> QED BY <1>7, <1>8, <3>1
  <2>2. KeyPart(text) \in [1..KeyChars -> C]
    BY <1>8
  <2> QED BY <1>0, <1>3, <2>1, <2>2
<1>10. SumPart(text) = t
  <2>1. ASSUME NEW i \in 1..SumChars PROVE SumPart(text)[i] = t[i]
    <3>1. /\ KeyChars + i \in 1 .. KeyChars + SumChars /\ ~(KeyChars + i <= KeyChars)
          /\ (KeyChars + i) - KeyChars = i
      BY TextLengths
    <3>2. text[KeyChars + i] = t[i]
      BY <1>7, <3>1
    <3> QED BY <1>8, <3>2
  <2>2. SumPart(text) \in [1..SumChars -> C]
    BY <1>8
  <2> QED BY <1>0, <1>4, <2>1, <2>2
<1> QED BY <1>5, <1>7, <1>9, <1>10 DEF text, s, t, C, sum

\* What Address writes is what ParseAddress reads.
LEMMA ParseOfAddress ==
    ASSUME NEW pk \in ByteSeq(KeyBytes), blake2bSum(pk) \in ByteSeq(SumBytes)
    PROVE  ParseAddress(Address(pk)) = pk
<1> DEFINE sum == reverseBytes(blake2bSum(pk))
           a == Address(pk)
<1>1. KeyBytes \in Nat /\ SumBytes \in Nat /\ PadBits \in Nat /\ 0 \in Nat
  BY Widths
<1>2. sum \in ByteSeq(SumBytes) /\ reverseBytes(sum) = blake2bSum(pk)
  BY <1>1, ReverseBytes
<1> HIDE DEF sum
<1>3. decodeBase32(KeyPart(a.text), PadBits) = pk
  BY <1>1, AddressFacts, TextLengths, DecodeEncode
<1>4. decodeBase32(SumPart(a.text), 0) = sum
  <2>1. SumPart(a.text) = encodeBase32(sum, 0)
    BY AddressFacts DEF sum
  <2>2. decodeBase32(encodeBase32(sum, 0), 0) = sum
    BY <1>1, <1>2, TextLengths, DecodeEncode
  <2> QED BY <2>1, <2>2
<1>5. pk # Invalid /\ sum # Invalid
  BY <1>2, NanoAssumption
<1>6. a.prefix = "nano_" /\ Len(a.text) = KeyChars + SumChars
  BY AddressFacts DEF Address
<1> HIDE DEF a
<1>7. ParseAddress(a) = pk
  BY <1>2, <1>3, <1>4, <1>5, <1>6 DEF ParseAddress, KeyPart, SumPart
<1> QED BY <1>7 DEF a

\* A text with a character outside the alphabet is not decoded.
LEMMA DecodedIsInAlphabet ==
    ASSUME NEW m \in Nat, NEW pad, NEW s \in [1..m -> Char],
           decodeBase32(s, pad) # Invalid
    PROVE  s \in [1..m -> Range(nanoAlphabet)]
<1>1. Len(s) = m
  <2>1. s \in Seq(Char) /\ DOMAIN s = 1..m
    BY SeqDef
  <2> QED BY <2>1, LenProperties
<1>2. ASSUME NEW i \in 1..m PROVE s[i] \in Range(nanoAlphabet)
  <2> SUFFICES ASSUME s[i] = OtherChar PROVE FALSE
    BY DEF Char
  <2>1. nanoReverse(s[i]) < 0
    BY DEF nanoReverse
  <2>2. decodeBase32(s, pad) = Invalid
    BY <1>1, <2>1 DEF decodeBase32
  <2> QED BY <2>2
<1> QED BY <1>2

\* What ParseAddress accepts: two texts in the alphabet, of which the second
\* is the checksum of what the first stands for.
LEMMA Accepted ==
    ASSUME NEW a, a.text \in Seq(Char), ParseAddress(a) # Invalid
    PROVE  /\ a.prefix \in {"nano_", "xrb_"} /\ Len(a.text) = KeyChars + SumChars
           /\ KeyPart(a.text) \in [1..KeyChars -> Range(nanoAlphabet)]
           /\ SumPart(a.text) \in [1..SumChars -> Range(nanoAlphabet)]
           /\ ParseAddress(a) = decodeBase32(KeyPart(a.text), PadBits)
           /\ ParseAddress(a) \in ByteSeq(KeyBytes)
           /\ blake2bSum(ParseAddress(a)) = reverseBytes(decodeBase32(SumPart(a.text), 0))
           /\ blake2bSum(ParseAddress(a)) \in ByteSeq(SumBytes)
<1> DEFINE pub == decodeBase32(KeyPart(a.text), PadBits)
           got == decodeBase32(SumPart(a.text), 0)
<1>1. /\ a.prefix \in {"nano_", "xrb_"} /\ Len(a.text) = KeyChars + SumChars
      /\ pub # Invalid /\ got # Invalid /\ reverseBytes(got) = blake2bSum(pub)
      /\ ParseAddress(a) = pub
  BY DEF ParseAddress, KeyPart, SumPart
<1>2. /\ KeyPart(a.text) \in [1..KeyChars -> Char]
      /\ SumPart(a.text) \in [1..SumChars -> Char]
  BY <1>1, Parts
<1>3. /\ KeyPart(a.text) \in [1..KeyChars -> Range(nanoAlphabet)]
      /\ SumPart(a.text) \in [1..SumChars -> Range(nanoAlphabet)]
  BY <1>1, <1>2, TextLengths, DecodedIsInAlphabet
<1>4. KeyBytes \in Nat /\ SumBytes \in Nat /\ PadBits \in Nat /\ 0 \in Nat
  BY Widths
<1>5. pub \in ByteSeq(KeyBytes)
  BY <1>3, <1>4, TextLengths, DecodeFacts
<1>6. got \in ByteSeq(SumBytes)
  BY <1>3, <1>4, TextLengths, DecodeFacts
<1> HIDE DEF got, pub
<1>7. reverseBytes(got) \in ByteSeq(SumBytes)
  BY <1>4, <1>6, ReverseBytes
<1> QED BY <1>1, <1>3, <1>5, <1>7 DEF got, pub

\* The shape of the address held: any characters behind any of the prefixes.
AddressShape == [prefix : {"nano_", "xrb_", "ban_"}, text : Seq(Char)]

\* A key held is a key with a checksum, and the one the address held stands for.
KeyHeld == key # Invalid => /\ key \in ByteSeq(KeyBytes)
                            /\ blake2bSum(key) \in ByteSeq(SumBytes)
                            /\ ParseAddress(addr) = key

\* The inductive invariant.
NanoInv == addr \in AddressShape /\ KeyHeld

\* The address of a key has that shape.
LEMMA AddressHasShape ==
    ASSUME NEW pk \in ByteSeq(KeyBytes), blake2bSum(pk) \in ByteSeq(SumBytes)
    PROVE  Address(pk) \in AddressShape
<1>1. Address(pk).text \in Seq(Range(nanoAlphabet))
  BY AddressFacts
<1>2. Address(pk).text \in Seq(Char)
  <2>1. Range(nanoAlphabet) \subseteq Char
    BY DEF Char
  <2> QED BY <1>1, <2>1, SeqMonotonic
<1>3. Address(pk) = [prefix |-> "nano_", text |-> Address(pk).text]
  BY DEF Address
<1> QED BY <1>2, <1>3 DEF AddressShape

\* The first address is the address of a key.
LEMMA NanoInitInv == NanoInit => NanoInv
<1> SUFFICES ASSUME NanoInit PROVE NanoInv
  OBVIOUS
<1>1. key \in ByteSeq(KeyBytes) /\ blake2bSum(key) \in ByteSeq(SumBytes)
  BY NanoAssumption DEF NanoInit
<1>2. addr = Address(key)
  BY DEF NanoInit
<1> QED BY <1>1, <1>2, AddressHasShape, ParseOfAddress DEF NanoInv, KeyHeld

\* A slip leaves some text of characters, and no key.
LEMMA MistypePreserves == NanoInv /\ Mistype => NanoInv'
<1> SUFFICES ASSUME NanoInv, Mistype PROVE NanoInv'
  OBVIOUS
<1>1. addr \in AddressShape
  BY DEF NanoInv
<1>2. addr.text \in Seq(Char)
  BY <1>1 DEF AddressShape
<1>3. addr' \in AddressShape
  <2>1. CASE \E i \in 1..Len(addr.text), c \in Char : addr' = [addr EXCEPT !.text[i] = c]
    <3>1. PICK i \in 1..Len(addr.text), c \in Char : addr' = [addr EXCEPT !.text[i] = c]
      BY <2>1
    <3> DEFINE t == [addr.text EXCEPT ![i] = c]
    <3>2. t \in Seq(Char)
      BY <1>2, ExceptSeq
    <3>3. addr' = [addr EXCEPT !.text = t]
      BY <3>1
    <3> HIDE DEF t
    <3> QED BY <1>1, <3>2, <3>3 DEF AddressShape
  <2>2. CASE Len(addr.text) > KeyChars /\ addr' = [addr EXCEPT !.text = Front(@)]
    <3> DEFINE t == SubSeq(addr.text, 1, Len(addr.text) - 1)
    <3>1. t \in Seq(Char)
      <4>1. Len(addr.text) \in Nat
        BY <1>2, LenProperties
      <4>2. \A i \in 1 .. Len(addr.text) - 1 : addr.text[i] \in Char
        <5>1. \A i \in 1 .. Len(addr.text) - 1 : i \in 1 .. Len(addr.text)
          BY <4>1
        <5> QED BY <1>2, <5>1, ElementOfSeq
      <4>3. 1 \in Int /\ Len(addr.text) - 1 \in Int
        BY <4>1
      <4> QED BY <4>2, <4>3, SubSeqProperties
    <3>2. addr' = [addr EXCEPT !.text = t]
      BY <2>2 DEF Front
    <3> HIDE DEF t
    <3> QED BY <1>1, <3>1, <3>2 DEF AddressShape
  <2>3. CASE \E p \in {"nano_", "xrb_", "ban_"} : addr' = [addr EXCEPT !.prefix = p]
    <3>1. PICK p \in {"nano_", "xrb_", "ban_"} : addr' = [addr EXCEPT !.prefix = p]
      BY <2>3
    <3> QED BY <1>1, <3>1 DEF AddressShape
  <2> QED BY <2>1, <2>2, <2>3 DEF Mistype
<1>4. key' = Invalid
  BY DEF Mistype
<1> QED BY <1>3, <1>4 DEF NanoInv, KeyHeld

\* Every step keeps the invariant: a parse that succeeds yields a key with a
\* checksum, and what is rendered from one is parsed to it.
LEMMA NanoNextPreserves == NanoInv /\ [NanoNext]_nanoVars => NanoInv'
<1> SUFFICES ASSUME NanoInv, [NanoNext]_nanoVars PROVE NanoInv'
  OBVIOUS
<1>1. CASE Mistype
  BY <1>1, MistypePreserves
<1>2. CASE Parse
  <2>1. addr' = addr /\ key' = ParseAddress(addr) /\ addr \in AddressShape
    BY <1>2 DEF Parse, NanoInv
  <2>2. addr.text \in Seq(Char)
    BY <2>1 DEF AddressShape
  <2>3. key' # Invalid => /\ key' \in ByteSeq(KeyBytes)
                          /\ blake2bSum(key') \in ByteSeq(SumBytes)
    <3>1. ParseAddress(addr) # Invalid
            => /\ ParseAddress(addr) \in ByteSeq(KeyBytes)
               /\ blake2bSum(ParseAddress(addr)) \in ByteSeq(SumBytes)
      BY <2>2, Accepted
    <3> QED BY <2>1, <3>1
  <2>4. ParseAddress(addr)' = key'
    BY <2>1
  <2> QED BY <2>1, <2>3, <2>4 DEF NanoInv, KeyHeld
<1>3. CASE Render
  <2>1. /\ key' = key /\ addr' = Address(key)
        /\ key \in ByteSeq(KeyBytes) /\ blake2bSum(key) \in ByteSeq(SumBytes)
    BY <1>3 DEF Render, NanoInv, KeyHeld
  <2>2. ParseAddress(Address(key)) = key /\ Address(key) \in AddressShape
    BY <2>1, ParseOfAddress, AddressHasShape
  <2>3. ParseAddress(addr)' = key
    BY <2>1, <2>2
  <2> QED BY <2>1, <2>2, <2>3 DEF NanoInv, KeyHeld
<1>4. CASE UNCHANGED nanoVars
  BY <1>4 DEF nanoVars, NanoInv, KeyHeld
<1> QED BY <1>1, <1>2, <1>3, <1>4 DEF NanoNext

\* The invariant holds throughout.
THEOREM NanoInvariant == NanoSpec => []NanoInv
<1>1. NanoInit => NanoInv
  BY NanoInitInv
<1>2. NanoInv /\ [NanoNext]_nanoVars => NanoInv'
  BY NanoNextPreserves
<1> QED BY <1>1, <1>2, PTL DEF NanoSpec

\* For every alphabet, every width of bytes and characters and every checksum
\* function, the key that is held is the one ParseAddress reads in the address
\* held: Address and ParseAddress agree on every bit.
THEOREM NanoRoundTrip == NanoSpec => []RoundTrip
<1>1. NanoInv => RoundTrip
  BY DEF NanoInv, KeyHeld, RoundTrip
<1> QED BY <1>1, NanoInvariant, PTL

-----------------------------------------------------------------------------
(* The numbers that texts and keys stand for.                              *)

\* A number read bit by bit is its first p bits, shifted, plus the next q.
LEMMA Split ==
    ASSUME NEW n \in Nat, NEW bits \in [1..n -> {0, 1}],
           NEW p \in Nat, NEW q \in Nat, NEW r \in 0..n, r = p + q,
           NEW tail \in [1..q -> {0, 1}], \A k \in 1..q : tail[k] = bits[p + k]
    PROVE  Prefix(bits, r) = Prefix(bits, p) * Pow2(q) + Number(tail)
<1> DEFINE P == {i \in Nat : i <= q =>
                   Prefix(bits, p + i) = Prefix(bits, p) * Pow2(i) + Prefix(tail, i)}
<1>0. p \in 0..n /\ Prefix(bits, p) \in Nat
  <2>1. p \in 0..n
    OBVIOUS
  <2> QED BY <2>1, PrefixFacts
<1>1. 0 \in P
  <2>1. Pow2(0) = 1 /\ Prefix(tail, 0) = 0 /\ p + 0 = p
    BY Pow2Facts, PrefixFacts
  <2>2. Prefix(bits, p) * 1 + 0 = Prefix(bits, p)
    BY <1>0
  <2> QED BY <2>1, <2>2
<1>2. ASSUME NEW i \in Nat, i \in P PROVE i+1 \in P
  <2> SUFFICES ASSUME i+1 <= q
               PROVE  Prefix(bits, p + (i+1))
                        = Prefix(bits, p) * Pow2(i+1) + Prefix(tail, i+1)
    OBVIOUS
  <2>1. /\ p + i \in 0 .. n-1 /\ p + i \in 0..n /\ i \in 0 .. q-1 /\ i \in 0..q
        /\ i+1 \in 1..q /\ p + (i+1) = (p + i) + 1
    OBVIOUS
  <2>2. Prefix(bits, (p + i) + 1) = 2 * Prefix(bits, p + i) + bits[(p + i) + 1]
    BY <2>1, PrefixFacts
  <2>3. Prefix(tail, i+1) = 2 * Prefix(tail, i) + tail[i+1] /\ Prefix(tail, i) \in Nat
    BY <2>1, PrefixFacts
  <2>4. tail[i+1] = bits[(p + i) + 1] /\ tail[i+1] \in Nat
    <3>1. tail[i+1] = bits[p + (i+1)] /\ tail[i+1] \in {0, 1}
      BY <2>1
    <3> QED BY <2>1, <3>1
  <2>5. Prefix(bits, p + i) = Prefix(bits, p) * Pow2(i) + Prefix(tail, i)
    BY <1>2, <2>1
  <2>6. Pow2(i+1) = 2 * Pow2(i) /\ Pow2(i) \in Nat
    BY Pow2Facts
  <2> DEFINE x == Prefix(bits, p)
             y == Pow2(i)
             z == Prefix(tail, i)
             t == tail[i+1]
  <2>7. x \in Nat /\ y \in Nat /\ z \in Nat /\ t \in Nat
    BY <1>0, <2>3, <2>4, <2>6
  <2> HIDE DEF x, y, z, t
  <2>8. 2 * (x * y + z) + t = x * (2 * y) + (2 * z + t)
    BY <2>7
  <2> QED BY <2>1, <2>2, <2>3, <2>4, <2>5, <2>6, <2>8 DEF x, y, z, t
<1>3. Nat \subseteq P
  <2> HIDE DEF P
  <2> QED BY <1>1, <1>2, SetInduction
<1>4. Prefix(bits, p + q) = Prefix(bits, p) * Pow2(q) + Prefix(tail, q)
  BY <1>3
<1>5. Prefix(tail, q) = Number(tail)
  BY PrefixFacts
<1> QED BY <1>4, <1>5

\* The m digits of c bits each have these bits, in their order.
BitsOf(digits, bits, c, m) ==
    /\ digits \in [1..m -> 0 .. Pow2(c) - 1]
    /\ \A i \in 1..m, k \in 1..c : bits[(i-1) * c + k] = Bit(digits[i], c - k)

\* Digits of c bits each amount to the number with all their bits.
LEMMA Chunks ==
    ASSUME NEW c \in Nat \ {0}, NEW m \in Nat, NEW digits,
           NEW N \in Nat, N = m * c, NEW bits \in [1..N -> {0, 1}],
           BitsOf(digits, bits, c, m)
    PROVE  Value(digits, c) = Number(bits)
<1>8. ASSUME NEW p \in Nat, NEW r \in 0..N, r = p + c,
             NEW tail \in [1..c -> {0, 1}], \A k \in 1..c : tail[k] = bits[p + k]
      PROVE  Prefix(bits, r) = Prefix(bits, p) * Pow2(c) + Number(tail)
  <2>1. c \in Nat
    OBVIOUS
  <2> QED BY <1>8, <2>1, Split, SMTT(30)
<1> DEFINE step == [i \in 1..m |-> [v \in Nat |-> v * Pow2(c) + digits[i]]]
           V(i) == Loop(0, step, i)
           P == {i \in Nat : i <= m => V(i) = Prefix(bits, i * c)}
<1>0. c \in Nat /\ Pow2(c) \in Nat
  <2>1. c \in Nat
    OBVIOUS
  <2> QED BY <2>1, Pow2Facts
<1>1. Value(digits, c) = V(m)
  <2>1. digits \in Seq(0 .. Pow2(c) - 1) /\ DOMAIN digits = 1..m
    <3> DEFINE D == 0 .. Pow2(c) - 1
    <3>1. digits \in [1..m -> D]
      BY DEF BitsOf
    <3> HIDE DEF D
    <3>2. digits \in Seq(D) /\ DOMAIN digits = 1..m
      BY <3>1, SeqDef
    <3> QED BY <3>2 DEF D
  <2>2. Len(digits) = m
    BY <2>1, LenProperties
  <2> QED BY <2>2 DEF Value
<1>2. V(0) = 0 /\ \A i \in Nat : V(i+1) = step[i+1][V(i)]
  <2> HIDE DEF step
  <2> QED BY LoopStep
<1>3. 0 \in P
  <2>1. Prefix(bits, 0) = 0 /\ 0 * c = 0
    BY <1>0, PrefixFacts
  <2> HIDE DEF V
  <2> QED BY <1>2, <2>1
<1>4. ASSUME NEW i \in Nat, i \in P PROVE i+1 \in P
  <2> SUFFICES ASSUME i+1 <= m PROVE V(i+1) = Prefix(bits, (i+1) * c)
    OBVIOUS
  <2> DEFINE tail == [k \in 1..c |-> bits[i * c + k]]
             p == i * c
  <2>1. i+1 \in 1..m /\ (i+1) - 1 = i /\ i \in 0 .. m - 1
    OBVIOUS
  <2>2. p \in Nat /\ p + c = (i+1) * c /\ p + c <= N
    <3>1. (i+1) * c <= m * c
      OBVIOUS
    <3>2. i * c + c = (i+1) * c /\ i * c \in Nat
      OBVIOUS
    <3> QED BY <3>1, <3>2
  <2>3. V(i) = Prefix(bits, p)
    BY <1>4, <2>1
  <2>4. digits[i+1] \in 0 .. Pow2(c) - 1
    BY <2>1 DEF BitsOf
  <2>5. ASSUME NEW k \in 1..c
        PROVE  tail[k] \in {0, 1} /\ tail[k] = Bit(digits[i+1], c - k)
    <3>1. bits[((i+1) - 1) * c + k] = Bit(digits[i+1], c - k)
      BY <2>1 DEF BitsOf
    <3>2. tail[k] = bits[p + k]
      OBVIOUS
    <3> HIDE DEF tail, p
    <3>3. p + k \in 1..N
      BY <1>0, <2>2
    <3>4. bits[p + k] \in {0, 1}
      BY <3>3
    <3> QED BY <2>1, <3>1, <3>2, <3>4 DEF p
  <2>6. tail \in [1..c -> {0, 1}] /\ \A k \in 1..c : tail[k] = bits[p + k]
    BY <2>5
  <2> HIDE DEF tail, p
  <2>7. Number(tail) = digits[i+1]
    <3> DEFINE d == digits[i+1]
    <3>1. d \in 0 .. Pow2(c) - 1 /\ c \in Nat
      BY <1>0, <2>4
    <3>2. \A k \in 1..c : tail[k] = Bit(d, c - k)
      BY <2>5
    <3>3. tail \in [1..c -> {0, 1}]
      BY <2>6
    <3> HIDE DEF d, step, V, P
    <3>4. Number(tail) = d
      BY <3>1, <3>2, <3>3, NumberOfBits
    <3> QED BY <3>4 DEF d
  <2>8. Prefix(bits, p + c) = Prefix(bits, p) * Pow2(c) + Number(tail)
    <3> HIDE DEF step, V, P
    <3> DEFINE r == p + c
    <3>1. p \in Nat /\ r \in 0..N /\ r = p + c /\ c \in Nat
      BY <1>0, <2>2
    <3> HIDE DEF r
    <3>2. Prefix(bits, r) = Prefix(bits, p) * Pow2(c) + Number(tail)
      BY <1>8, <2>6, <3>1
    <3> QED BY <3>2 DEF r
  <2>9. Prefix(bits, p) \in Nat
    <3>1. p \in 0..N
      BY <1>0, <2>2
    <3> QED BY <1>0, <3>1, PrefixFacts
  <2>10. step[i+1][Prefix(bits, p)] = Prefix(bits, p) * Pow2(c) + digits[i+1]
    BY <2>1, <2>9
  <2> HIDE DEF step, V
  <2>11. V(i+1) = step[i+1][V(i)]
    BY <1>2
  <2> QED BY <2>2, <2>3, <2>7, <2>8, <2>10, <2>11
<1>5. Nat \subseteq P
  <2> HIDE DEF P
  <2> QED BY <1>3, <1>4, SetInduction
<1> HIDE DEF V
<1>6. V(m) = Prefix(bits, N)
  <2>1. V(m) = Prefix(bits, m * c)
    BY <1>5
  <2> QED BY <2>1
<1>7. Prefix(bits, N) = Number(bits)
  BY <1>0, PrefixFacts
<1> QED BY <1>1, <1>6, <1>7

\* The N bits of a text.
TextBits(s, bits, N) ==
    bits \in [1..N -> {0, 1}] /\ \A b \in 1..N : bits[b] = TextBit(s, b - 1)

\* The value of a text in the alphabet is the number with its bits.
LEMMA TextValueBits ==
    ASSUME NEW m \in Nat, NEW s \in [1..m -> Range(nanoAlphabet)],
           NEW N \in Nat, N = m * CharBits,
           NEW bits, TextBits(s, bits, N)
    PROVE  TextValue(s) = Number(bits)
<1> DEFINE digits == [i \in 1..m |-> nanoReverse(s[i])]
<1>0. CharBits \in Nat \ {0}
  BY Widths
<1>1. TextValue(s) = Value(digits, CharBits)
  <2>1. s \in Seq(Range(nanoAlphabet)) /\ DOMAIN s = 1..m
    BY SeqDef
  <2>2. Len(s) = m
    BY <2>1, LenProperties
  <2> QED BY <2>2 DEF TextValue
<1>2. digits \in [1..m -> 0 .. Pow2(CharBits) - 1]
  BY ReverseOfChar
<1>3. ASSUME NEW i \in 1..m, NEW k \in 1..CharBits
      PROVE  bits[(i-1) * CharBits + k] = Bit(digits[i], CharBits - k)
  <2> DEFINE b == (i-1) * CharBits + k
             j == (i-1) * CharBits + (k-1)
  <2> HIDE DEF digits
  <2>1. i - 1 \in 0 .. m - 1 /\ k - 1 \in 0 .. CharBits - 1
    BY <1>0
  <2>2. j \in 0 .. m * CharBits - 1 /\ j \div CharBits = i - 1 /\ j % CharBits = k - 1
    <3>1. CharBits \in Nat \ {0} /\ m \in Nat /\ i - 1 \in Nat
      BY <1>0
    <3>2. j \in 0 .. m * CharBits - 1
      BY <3>1, <2>1, PositionIn
    <3>3. j \div CharBits = i - 1 /\ j % CharBits = k - 1
      BY <3>1, <2>1, GroupAndBit
    <3> QED BY <3>2, <3>3
  <2>3. b - 1 = j /\ b \in Int
    <3>1. (i-1) * CharBits \in Int
      BY <1>0
    <3> QED BY <3>1
  <2> HIDE DEF b, j
  <2>4. b \in 1..N
    BY <2>2, <2>3
  <2>5. bits[b] = TextBit(s, j)
    BY <2>3, <2>4 DEF TextBits
  <2>6. TextBit(s, j) = Bit(nanoReverse(s[(i-1) + 1]), CharBits - 1 - (k - 1))
    BY <2>2 DEF TextBit
  <2>7. (i-1) + 1 = i /\ CharBits - 1 - (k - 1) = CharBits - k
    BY <1>0
  <2>8. digits[i] = nanoReverse(s[i])
    BY DEF digits
  <2> QED BY <2>5, <2>6, <2>7, <2>8 DEF b
<1> HIDE DEF digits
<1>4. BitsOf(digits, bits, CharBits, m)
  BY <1>2, <1>3 DEF BitsOf
<1>5. Value(digits, CharBits) = Number(bits)
  <2>1. bits \in [1..N -> {0, 1}]
    BY DEF TextBits
  <2> QED BY <1>0, <1>4, <2>1, Chunks
<1> QED BY <1>1, <1>5

\* What decodeBase32 makes of a text is its value without the pad bits.
LEMMA DecodedValue ==
    ASSUME NEW n \in Nat, NEW m \in Nat, NEW pad \in Nat,
           m * CharBits = pad + n * ByteBits,
           NEW s \in [1..m -> Range(nanoAlphabet)]
    PROVE  /\ BytesValue(decodeBase32(s, pad)) = TextValue(s) % Pow2(n * ByteBits)
           /\ pad = 0 => BytesValue(decodeBase32(s, pad)) = TextValue(s)
<1> DEFINE q == n * ByteBits
           N == m * CharBits
           d == decodeBase32(s, pad)
           all == [b \in 1..N |-> TextBit(s, b - 1)]
           tail == [k \in 1..q |-> all[pad + k]]
<1>0. ByteBits \in Nat \ {0} /\ ByteBits \in Nat /\ CharBits \in Nat
  BY Widths
<1>1. q \in Nat /\ N \in Nat /\ N = pad + q
  BY <1>0
<1>2. all \in [1..N -> {0, 1}] /\ \A b \in 1..N : all[b] = TextBit(s, b - 1)
  <2>1. ASSUME NEW b \in 1..N PROVE TextBit(s, b - 1) \in {0, 1}
    <3>1. b - 1 \in 0 .. m * CharBits - 1
      BY <1>1
    <3> QED BY <3>1, BitsAreBits
  <2> QED BY <2>1
<1> HIDE DEF all
<1>3. tail \in [1..q -> {0, 1}] /\ \A k \in 1..q : tail[k] = all[pad + k]
  <2>1. ASSUME NEW k \in 1..q PROVE pad + k \in 1..N
    <3> HIDE DEF q, N
    <3> QED BY <1>1
  <2> QED BY <1>2, <2>1
<1> HIDE DEF tail
<1>4. TextValue(s) = Number(all)
  <2>1. N = m * CharBits
    OBVIOUS
  <2> HIDE DEF N
  <2>2. TextBits(s, all, N)
    BY <1>2 DEF TextBits
  <2> QED BY <1>1, <2>1, <2>2, TextValueBits
<1>5. d \in ByteSeq(n)
  BY DecodeFacts
<1>6. ASSUME NEW i \in 1..n, NEW k \in 1..ByteBits
      PROVE  tail[(i-1) * ByteBits + k] = Bit(d[i], ByteBits - k)
  <2> DEFINE w == [h \in 1..ByteBits |-> TextBit(s, pad + (i-1) * ByteBits + h - 1)]
             j == (i-1) * ByteBits
  <2>1. d[i] = Number(w)
    <3>1. d = [e \in 1..n |-> Number([h \in 1..ByteBits |->
                                       TextBit(s, pad + (e-1) * ByteBits + h - 1)])]
      BY DecodeFacts
    <3> HIDE DEF d
    <3> QED BY <3>1
  <2>2. w \in [1..ByteBits -> {0, 1}]
    <3>1. ASSUME NEW h \in 1..ByteBits
          PROVE  TextBit(s, pad + (i-1) * ByteBits + h - 1) \in {0, 1}
      <4>1. pad + (i-1) * ByteBits + h - 1 \in 0 .. m * CharBits - 1
        BY BitBehindPad
      <4> QED BY <4>1, BitsAreBits
    <3> QED BY <3>1
  <2>3. w[k] = TextBit(s, pad + j + k - 1)
    OBVIOUS
  <2> HIDE DEF w, d
  <2>4. Bit(d[i], ByteBits - k) = w[k]
    <3>1. ByteBits - k \in 0 .. ByteBits - 1 /\ ByteBits - (ByteBits - k) = k
      BY <1>0
    <3> QED BY <1>0, <2>1, <2>2, <3>1, BitOfNumber
  <2>5. j \in Int /\ j + k \in 1..q
    <3>1. i - 1 \in 0 .. n - 1 /\ k - 1 \in 0 .. ByteBits - 1
      BY <1>0
    <3>2. j + (k-1) \in 0 .. n * ByteBits - 1
      BY <1>0, <3>1, PositionIn
    <3>3. j \in Int
      BY <1>0
    <3> HIDE DEF j
    <3> QED BY <1>1, <3>2, <3>3
  <2> HIDE DEF j
  <2>6. tail[j + k] = TextBit(s, pad + j + k - 1)
    <3>1. tail[j + k] = all[pad + (j + k)]
      BY <1>3, <2>5
    <3>2. pad + (j + k) \in 1..N
      <4> HIDE DEF q, N
      <4> QED BY <1>1, <2>5
    <3>3. all[pad + (j + k)] = TextBit(s, (pad + (j + k)) - 1)
      BY <1>2, <3>2
    <3>4. (pad + (j + k)) - 1 = pad + j + k - 1
      BY <2>5
    <3> QED BY <3>1, <3>3, <3>4
  <2> QED BY <2>3, <2>4, <2>6 DEF j
<1>7. BytesValue(d) = Number(tail)
  <2>1. BitsOf(d, tail, ByteBits, n)
    <3> HIDE DEF d
    <3> QED BY <1>5, <1>6 DEF BitsOf, ByteSeq
  <2>2. q = n * ByteBits
    OBVIOUS
  <2> HIDE DEF q, d
  <2>3. Value(d, ByteBits) = Number(tail)
    BY <1>0, <1>1, <1>3, <2>1, <2>2, Chunks
  <2> QED BY <2>3 DEF BytesValue
<1> HIDE DEF q, N, d
<1>8. Number(all) = Prefix(all, pad) * Pow2(q) + Number(tail)
  <2>1. N \in 0..N
    BY <1>1
  <2>2. Prefix(all, N) = Prefix(all, pad) * Pow2(q) + Number(tail)
    <3>1. all \in [1..N -> {0, 1}]
      BY <1>2
    <3>2. tail \in [1..q -> {0, 1}]
      BY <1>3
    <3>3. \A k \in 1..q : tail[k] = all[pad + k]
      BY <1>3
    <3> QED BY <1>1, <2>1, <3>1, <3>2, <3>3, Split, SMTT(30)
  <2>3. Prefix(all, N) = Number(all)
    BY <1>1, <1>2, PrefixFacts
  <2> QED BY <2>2, <2>3
<1>9. /\ Prefix(all, pad) \in Nat /\ Prefix(all, 0) = 0
      /\ Pow2(q) \in Nat \ {0} /\ Number(tail) \in 0 .. Pow2(q) - 1
  <2>1. pad \in 0..N
    BY <1>1
  <2> QED BY <1>1, <1>2, <1>3, <2>1, PrefixFacts, BitOfNumber, Pow2Facts
<1> DEFINE x == Prefix(all, pad)
           y == Pow2(q)
           z == Number(tail)
<1>10. x \in Nat /\ y \in Nat \ {0} /\ z \in 0 .. y - 1 /\ (pad = 0 => x = 0)
  BY <1>9
<1>11. TextValue(s) = x * y + z /\ BytesValue(d) = z
  BY <1>4, <1>7, <1>8
<1> HIDE DEF x, y, z
<1>12. (x * y + z) % y = z
  <2>1. x * y + z = y * x + z /\ z \in Int /\ x \in Int
    BY <1>10
  <2>2. (y * x + z) % y = z % y
    BY <1>10, <2>1, ModShift
  <2>3. z % y = z
    BY <1>10, ModSmall
  <2> QED BY <2>1, <2>2, <2>3
<1>13. x = 0 => x * y + z = z
  BY <1>10
<1> QED BY <1>10, <1>11, <1>12, <1>13 DEF q, d, y

\* Two keys, or two checksums, of one value are the same.
LEMMA BytesValueInjective ==
    ASSUME NEW n \in Nat, NEW d \in ByteSeq(n), NEW e \in ByteSeq(n),
           BytesValue(d) = BytesValue(e)
    PROVE  d = e
<1> DEFINE N == n * ByteBits
           bitsOf(x) == [b \in 1..N |-> DataBit(x, 0, b - 1)]
<1>0. ByteBits \in Nat \ {0} /\ ByteBits \in Nat /\ N \in Nat
  BY Widths
<1>1. ASSUME NEW x \in ByteSeq(n)
      PROVE  /\ bitsOf(x) \in [1..N -> {0, 1}]
             /\ \A i \in 1..n, k \in 1..ByteBits :
                  bitsOf(x)[(i-1) * ByteBits + k] = Bit(x[i], ByteBits - k)
  <2>1. ASSUME NEW b \in 1..N PROVE DataBit(x, 0, b - 1) \in {0, 1}
    <3>1. b - 1 \in 0 .. 0 + n * ByteBits - 1
      BY <1>0
    <3> QED BY <3>1, BitsAreBits
  <2>2. ASSUME NEW i \in 1..n, NEW k \in 1..ByteBits
        PROVE  bitsOf(x)[(i-1) * ByteBits + k] = Bit(x[i], ByteBits - k)
    <3> DEFINE b == (i-1) * ByteBits + k
               j == (i-1) * ByteBits + (k-1)
    <3> HIDE DEF bitsOf, N
    <3>1. i - 1 \in 0 .. n - 1 /\ k - 1 \in 0 .. ByteBits - 1
      BY <1>0
    <3>2. j \in 0 .. n * ByteBits - 1
      BY <1>0, <3>1, PositionIn
    <3>3. j \div ByteBits = i - 1 /\ j % ByteBits = k - 1
      <4>1. i - 1 \in Nat /\ ByteBits \in Nat \ {0}
        BY <1>0
      <4> QED BY <3>1, <4>1, GroupAndBit
    <3>5. b - 1 = j /\ b \in Int
      <4>1. (i-1) * ByteBits \in Int
        BY <1>0
      <4> QED BY <4>1
    <3> HIDE DEF b, j
    <3>6. b \in 1..N
      BY <1>0, <3>2, <3>5 DEF N
    <3>7. bitsOf(x)[b] = DataBit(x, 0, j)
      BY <3>5, <3>6 DEF bitsOf
    <3>8. ~(j - 0 < 0) /\ j - 0 = j
      BY <1>0, <3>2
    <3>9. DataBit(x, 0, j) = Bit(x[(i-1) + 1], ByteBits - 1 - (k-1))
      BY <3>3, <3>8 DEF DataBit
    <3>10. (i-1) + 1 = i /\ ByteBits - 1 - (k-1) = ByteBits - k
      BY <1>0
    <3> QED BY <3>7, <3>9, <3>10 DEF b
  <2> QED BY <2>1, <2>2
<1>2. ASSUME NEW x \in ByteSeq(n) PROVE BytesValue(x) = Number(bitsOf(x))
  <2> DEFINE w == bitsOf(x)
  <2>1. N = n * ByteBits
    OBVIOUS
  <2>2. w \in [1..N -> {0, 1}]
    BY <1>1
  <2>3. BitsOf(x, w, ByteBits, n)
    BY <1>1 DEF BitsOf, ByteSeq
  <2> HIDE DEF w, N, bitsOf
  <2>4. Value(x, ByteBits) = Number(w)
    BY <1>0, <2>1, <2>2, <2>3, Chunks
  <2> QED BY <2>4 DEF BytesValue, w
<1> HIDE DEF N, bitsOf
<1>3. Number(bitsOf(d)) = Number(bitsOf(e))
  BY <1>2
<1>4. ASSUME NEW b \in 1..N PROVE bitsOf(d)[b] = bitsOf(e)[b]
  <2>1. N - b \in 0 .. N - 1 /\ N - (N - b) = b
    BY <1>0
  <2>2. bitsOf(d) \in [1..N -> {0, 1}] /\ bitsOf(e) \in [1..N -> {0, 1}]
    BY <1>1
  <2>3. Bit(Number(bitsOf(d)), N - b) = bitsOf(d)[N - (N - b)]
    BY <1>0, <2>1, <2>2, BitOfNumber
  <2>4. Bit(Number(bitsOf(e)), N - b) = bitsOf(e)[N - (N - b)]
    BY <1>0, <2>1, <2>2, BitOfNumber
  <2> QED BY <1>3, <2>1, <2>3, <2>4
<1>5. ASSUME NEW i \in 1..n PROVE d[i] = e[i]
  <2> DEFINE w == [k \in 1..ByteBits |-> Bit(d[i], ByteBits - k)]
  <2>1. /\ d[i] \in 0 .. Pow2(ByteBits) - 1 /\ e[i] \in 0 .. Pow2(ByteBits) - 1
        /\ d[i] \in Nat
    <3>1. Pow2(ByteBits) \in Nat
      BY <1>0, Pow2Facts
    <3> QED BY <3>1 DEF ByteSeq
  <2>2. ASSUME NEW k \in 1..ByteBits
        PROVE  Bit(d[i], ByteBits - k) \in {0, 1} /\ Bit(d[i], ByteBits - k) = Bit(e[i], ByteBits - k)
    <3> DEFINE b == (i-1) * ByteBits + k
    <3>1. b \in 1..N
      <4>1. i - 1 \in 0 .. n - 1 /\ k - 1 \in 0 .. ByteBits - 1
        BY <1>0
      <4> DEFINE j == (i-1) * ByteBits + (k-1)
      <4>2. j \in 0 .. n * ByteBits - 1
        BY <1>0, <4>1, PositionIn
      <4>3. b = j + 1 /\ j \in Int
        <5>1. (i-1) * ByteBits \in Int
          BY <1>0
        <5> QED BY <5>1
      <4>4. n * ByteBits \in Nat
        BY <1>0
      <4> HIDE DEF j, b
      <4> QED BY <4>2, <4>3, <4>4 DEF N
    <3>2. bitsOf(d)[b] = Bit(d[i], ByteBits - k) /\ bitsOf(e)[b] = Bit(e[i], ByteBits - k)
      BY <1>1
    <3> HIDE DEF b
    <3>3. bitsOf(d)[b] = bitsOf(e)[b]
      BY <1>4, <3>1
    <3>4. bitsOf(d)[b] \in {0, 1}
      <4>1. bitsOf(d) \in [1..N -> {0, 1}]
        BY <1>1
      <4> QED BY <3>1, <4>1
    <3> QED BY <3>2, <3>3, <3>4
  <2>3. w \in [1..ByteBits -> {0, 1}]
    BY <2>2
  <2>4. (\A k \in 1..ByteBits : w[k] = Bit(d[i], ByteBits - k))
        /\ (\A k \in 1..ByteBits : w[k] = Bit(e[i], ByteBits - k))
    BY <2>2
  <2> HIDE DEF w
  <2>5. Number(w) = d[i]
    BY <1>0, <2>1, <2>3, <2>4, NumberOfBits
  <2>6. Number(w) = e[i]
    BY <1>0, <2>1, <2>3, <2>4, NumberOfBits
  <2> QED BY <2>5, <2>6
<1> QED BY <1>5 DEF ByteSeq

\* blake2bSum returns as many bytes as ParseAddress compares, for every key.
SumsFit == \A k \in ByteSeq(KeyBytes) : blake2bSum(k) \in ByteSeq(SumBytes)

\* A text of the right length without foreign characters is two texts in the
\* alphabet.
LEMMA WellFormedParts ==
    ASSUME NEW text \in Seq(Char), Len(text) = KeyChars + SumChars
    PROVE  OtherChar \notin Range(text)
             <=> /\ KeyPart(text) \in [1..KeyChars -> Range(nanoAlphabet)]
                 /\ SumPart(text) \in [1..SumChars -> Range(nanoAlphabet)]
<1> DEFINE C == Range(nanoAlphabet)
           s == KeyPart(text)
           t == SumPart(text)
<1>0. KeyChars \in Nat /\ SumChars \in Nat
  BY TextLengths
<1>1. /\ s \in [1..KeyChars -> Char] /\ t \in [1..SumChars -> Char]
      /\ \A i \in 1..KeyChars : s[i] = text[i]
      /\ \A i \in 1..SumChars : t[i] = text[KeyChars + i]
  BY Parts
<1>2. DOMAIN text = 1 .. KeyChars + SumChars
  BY LenProperties
<1>3. OtherChar \notin Range(text) <=> \A i \in DOMAIN text : text[i] # OtherChar
  BY DEF Range
<1>4. \A c \in Char : c \in C <=> c # OtherChar
  BY NanoAssumption DEF Char
<1> HIDE DEF s, t, C
<1>5. ASSUME \A i \in DOMAIN text : text[i] # OtherChar
      PROVE  s \in [1..KeyChars -> C] /\ t \in [1..SumChars -> C]
  <2>1. ASSUME NEW i \in 1..KeyChars PROVE s[i] \in C
    <3>1. i \in 1 .. KeyChars + SumChars /\ s[i] \in Char /\ s[i] = text[i]
      BY <1>0, <1>1
    <3>2. text[i] # OtherChar
      BY <1>2, <1>5, <3>1
    <3> QED BY <1>4, <3>1, <3>2
  <2>2. ASSUME NEW i \in 1..SumChars PROVE t[i] \in C
    <3>1. /\ KeyChars + i \in 1 .. KeyChars + SumChars
          /\ t[i] \in Char /\ t[i] = text[KeyChars + i]
      BY <1>0, <1>1
    <3>2. text[KeyChars + i] # OtherChar
      BY <1>2, <1>5, <3>1
    <3> QED BY <1>4, <3>1, <3>2
  <2>3. s \in [1..KeyChars -> Char] /\ t \in [1..SumChars -> Char]
    BY <1>1
  <2> QED BY <2>1, <2>2, <2>3
<1>6. ASSUME s \in [1..KeyChars -> C], t \in [1..SumChars -> C],
             NEW i \in DOMAIN text
      PROVE  text[i] # OtherChar
  <2>1. i \in 1 .. KeyChars + SumChars
    BY <1>2
  <2>2. OtherChar \notin C
    BY NanoAssumption DEF C
  <2>3. CASE i <= KeyChars
    <3>1. i \in 1..KeyChars
      BY <1>0, <2>1, <2>3
    <3>2. text[i] = s[i] /\ s[i] \in C
      BY <1>1, <1>6, <3>1
    <3> QED BY <2>2, <3>2
  <2>4. CASE ~(i <= KeyChars)
    <3> DEFINE k == i - KeyChars
    <3>1. k \in 1..SumChars /\ KeyChars + k = i
      BY <1>0, <2>1, <2>4
    <3> HIDE DEF k
    <3>2. text[KeyChars + k] = t[k] /\ t[k] \in C
      BY <1>1, <1>6, <3>1
    <3> QED BY <2>2, <3>1, <3>2
  <2> QED BY <2>3, <2>4
<1>7. (\A i \in DOMAIN text : text[i] # OtherChar)
        <=> s \in [1..KeyChars -> C] /\ t \in [1..SumChars -> C]
  BY <1>5, <1>6
<1> QED BY <1>3, <1>7 DEF s, t, C

\* The values of the two parts of a well formed text single out the key that
\* ParseAddress decodes and the checksum that it compares.
LEMMA PartValues ==
    ASSUME NEW s \in [1..KeyChars -> Range(nanoAlphabet)],
           NEW t \in [1..SumChars -> Range(nanoAlphabet)]
    PROVE  /\ decodeBase32(s, PadBits) \in ByteSeq(KeyBytes)
           /\ decodeBase32(t, 0) \in ByteSeq(SumBytes)
           /\ \A k \in ByteSeq(KeyBytes) :
                BytesValue(k) = TextValue(s) % Pow2(KeyBytes * ByteBits)
                  <=> k = decodeBase32(s, PadBits)
           /\ \A d \in ByteSeq(SumBytes) :
                BytesValue(d) = TextValue(t) <=> d = decodeBase32(t, 0)
<1> DEFINE pub == decodeBase32(s, PadBits)
           got == decodeBase32(t, 0)
<1>1. KeyBytes \in Nat /\ SumBytes \in Nat /\ PadBits \in Nat /\ 0 \in Nat
  BY Widths
<1>2. pub \in ByteSeq(KeyBytes)
  BY <1>1, TextLengths, DecodeFacts
<1>3. got \in ByteSeq(SumBytes)
  BY <1>1, TextLengths, DecodeFacts
<1>4. BytesValue(pub) = TextValue(s) % Pow2(KeyBytes * ByteBits)
  BY <1>1, TextLengths, DecodedValue
<1>5. BytesValue(got) = TextValue(t)
  BY <1>1, TextLengths, DecodedValue
<1> HIDE DEF pub, got
<1>6. \A k \in ByteSeq(KeyBytes) : BytesValue(k) = BytesValue(pub) <=> k = pub
  BY <1>1, <1>2, BytesValueInjective
<1>7. \A d \in ByteSeq(SumBytes) : BytesValue(d) = BytesValue(got) <=> d = got
  BY <1>1, <1>3, BytesValueInjective
<1> QED BY <1>2, <1>3, <1>4, <1>5, <1>6, <1>7 DEF pub, got

\* The keys that AcceptsExactlyAliases takes to own a text.
Owners(text) ==
    {k \in ByteSeq(KeyBytes) :
       /\ BytesValue(k) = TextValue(KeyPart(text)) % Pow2(KeyBytes * ByteBits)
       /\ BytesValue(Reverse(blake2bSum(k))) = TextValue(SumPart(text))}

\* A key owns a well formed text exactly when ParseAddress decodes the text to
\* it and finds its checksum.
LEMMA OwnerOf ==
    ASSUME SumsFit, NEW text,
           KeyPart(text) \in [1..KeyChars -> Range(nanoAlphabet)],
           SumPart(text) \in [1..SumChars -> Range(nanoAlphabet)]
    PROVE  \A k : k \in Owners(text) <=>
                    /\ k = decodeBase32(KeyPart(text), PadBits)
                    /\ blake2bSum(k) = reverseBytes(decodeBase32(SumPart(text), 0))
<1> DEFINE s == KeyPart(text)
           t == SumPart(text)
           pub == decodeBase32(s, PadBits)
           got == decodeBase32(t, 0)
<1>1. /\ pub \in ByteSeq(KeyBytes) /\ got \in ByteSeq(SumBytes)
      /\ \A k \in ByteSeq(KeyBytes) :
           BytesValue(k) = TextValue(s) % Pow2(KeyBytes * ByteBits) <=> k = pub
      /\ \A d \in ByteSeq(SumBytes) : BytesValue(d) = TextValue(t) <=> d = got
  <2> HIDE DEF s, t
  <2>1. /\ s \in [1..KeyChars -> Range(nanoAlphabet)]
        /\ t \in [1..SumChars -> Range(nanoAlphabet)]
    BY DEF s, t
  <2> QED BY <2>1, PartValues
<1> HIDE DEF s, t, pub, got
<1>2. ASSUME NEW k \in ByteSeq(KeyBytes)
      PROVE  BytesValue(Reverse(blake2bSum(k))) = TextValue(t)
               <=> blake2bSum(k) = reverseBytes(got)
  <2> DEFINE sum == blake2bSum(k)
  <2>1. sum \in ByteSeq(SumBytes) /\ SumBytes \in Nat
    BY Widths DEF SumsFit
  <2> HIDE DEF sum
  <2>2. /\ reverseBytes(sum) \in ByteSeq(SumBytes)
        /\ reverseBytes(reverseBytes(sum)) = sum /\ reverseBytes(reverseBytes(got)) = got
    BY <1>1, <2>1, ReverseBytes
  <2>3. BytesValue(reverseBytes(sum)) = TextValue(t) <=> reverseBytes(sum) = got
    BY <1>1, <2>2
  <2>4. reverseBytes(sum) = got <=> sum = reverseBytes(got)
    BY <2>2
  <2>5. Reverse(sum) = reverseBytes(sum)
    BY DEF reverseBytes
  <2> QED BY <2>3, <2>4, <2>5 DEF sum
<1>3. \A k : k \in Owners(text) <=>
               /\ k \in ByteSeq(KeyBytes)
               /\ BytesValue(k) = TextValue(s) % Pow2(KeyBytes * ByteBits)
               /\ BytesValue(Reverse(blake2bSum(k))) = TextValue(t)
  BY DEF Owners, s, t
<1>4. \A k : k \in Owners(text) <=> k = pub /\ blake2bSum(k) = reverseBytes(got)
  BY <1>1, <1>2, <1>3
<1> QED BY <1>4 DEF pub, got, s, t

\* ParseAddress accepts exactly the texts that a key owns, and returns it.
LEMMA ParseIsOwner ==
    ASSUME SumsFit, NEW a \in AddressShape
    PROVE  LET wellFormed == /\ a.prefix \in {"nano_", "xrb_"}
                             /\ Len(a.text) = KeyChars + SumChars
                             /\ OtherChar \notin Range(a.text)
           IN  ParseAddress(a) = IF wellFormed /\ Owners(a.text) # {}
                                   THEN CHOOSE k \in Owners(a.text) : TRUE
                                   ELSE Invalid
<1> DEFINE text == a.text
           pub == decodeBase32(KeyPart(text), PadBits)
           got == decodeBase32(SumPart(text), 0)
           wellFormed == /\ a.prefix \in {"nano_", "xrb_"}
                         /\ Len(text) = KeyChars + SumChars
                         /\ OtherChar \notin Range(text)
<1>0. text \in Seq(Char)
  BY DEF AddressShape
<1>1. CASE ParseAddress(a) # Invalid
  <2>1. /\ a.prefix \in {"nano_", "xrb_"} /\ Len(text) = KeyChars + SumChars
        /\ KeyPart(text) \in [1..KeyChars -> Range(nanoAlphabet)]
        /\ SumPart(text) \in [1..SumChars -> Range(nanoAlphabet)]
        /\ ParseAddress(a) = pub /\ blake2bSum(pub) = reverseBytes(got)
    BY <1>0, <1>1, Accepted
  <2> HIDE DEF text, pub, got
  <2>2. OtherChar \notin Range(text)
    BY <1>0, <2>1, WellFormedParts
  <2>3. \A k : k \in Owners(text) <=> k = pub /\ blake2bSum(k) = reverseBytes(got)
    BY <2>1, OwnerOf DEF pub, got
  <2>4. Owners(text) = {pub}
    BY <2>1, <2>3
  <2>5. wellFormed /\ Owners(text) # {} /\ ParseAddress(a) = CHOOSE k \in Owners(text) : TRUE
    BY <2>1, <2>2, <2>4
  <2> HIDE DEF wellFormed
  <2> QED BY <2>5 DEF text, wellFormed
<1>2. CASE ParseAddress(a) = Invalid
  <2> SUFFICES ASSUME wellFormed, NEW k \in Owners(text) PROVE FALSE
    BY <1>2
  <2>1. /\ KeyPart(text) \in [1..KeyChars -> Range(nanoAlphabet)]
        /\ SumPart(text) \in [1..SumChars -> Range(nanoAlphabet)]
    BY <1>0, WellFormedParts
  <2>2. k = pub /\ blake2bSum(k) = reverseBytes(got)
    BY <2>1, OwnerOf
  <2>3. pub # Invalid /\ got # Invalid
    <3>1. pub \in ByteSeq(KeyBytes) /\ got \in ByteSeq(SumBytes)
      BY <2>1, PartValues
    <3> QED BY <3>1, NanoAssumption
  <2>4. ParseAddress(a) = pub
    <3>1. pub = decodeBase32(SubSeq(a.text, 1, KeyChars), PadBits)
      BY DEF KeyPart
    <3>2. got = decodeBase32(SubSeq(a.text, KeyChars + 1, Len(a.text)), 0)
      BY DEF SumPart
    <3> HIDE DEF pub, got
    <3> QED BY <2>2, <2>3, <3>1, <3>2 DEF ParseAddress
  <2> QED BY <1>2, <2>3, <2>4
<1> QED BY <1>1, <1>2

\* For every alphabet, every width and every checksum function with results of
\* the right length, the address held is accepted exactly when it is one of
\* the spellings of a key, and is parsed to that key.
THEOREM NanoAcceptsExactlyAliases == SumsFit => (NanoSpec => []AcceptsExactlyAliases)
<1> SUFFICES ASSUME SumsFit PROVE NanoSpec => []AcceptsExactlyAliases
  OBVIOUS
<1>1. ASSUME NanoInv PROVE AcceptsExactlyAliases
  <2>1. addr \in AddressShape
    BY <1>1 DEF NanoInv
  <2> QED BY <2>1, ParseIsOwner DEF AcceptsExactlyAliases, Owners, KeyPart, SumPart
<1>2. NanoInv => AcceptsExactlyAliases
  BY <1>1
<1> QED BY <1>2, NanoInvariant, PTL

-----------------------------------------------------------------------------
(* Signatures.                                                             *)

\* The order of the group that points are numbers of.
Order == Cofactor * L

\* The group has elements, and no multiple of the base point is reduced when
\* the scalar is.
LEMMA GroupFacts ==
    /\ L \in Nat \ {0} /\ Cofactor \in Nat \ {0} /\ Order \in Nat \ {0}
    /\ \A n \in 0 .. L - 1 : ScalarBaseMult(n) = n * Cofactor
<1>1. L \in Nat \ {0} /\ Cofactor \in Nat \ {0}
  BY SignatureAssumption
<1>2. Order \in Nat \ {0}
  BY <1>1 DEF Order
<1>3. ASSUME NEW n \in 0 .. L - 1 PROVE ScalarBaseMult(n) = n * Cofactor
  <2>1. n * Cofactor <= (L - 1) * Cofactor
    BY <1>1
  <2>2. (L - 1) * Cofactor < Order
    BY <1>1 DEF Order
  <2>3. n * Cofactor \in Nat /\ (L - 1) * Cofactor \in Nat
    BY <1>1
  <2>4. n * Cofactor \in 0 .. Order - 1
    BY <1>2, <2>1, <2>2, <2>3
  <2>5. (n * Cofactor) % Order = n * Cofactor
    BY <1>2, <2>4, ModSmall
  <2> QED BY <2>5 DEF ScalarBaseMult, ScalarMult, Order
<1> QED BY <1>1, <1>2, <1>3

\* A reduced scalar is determined by its multiple of the base point.
LEMMA BaseMultInjective ==
    ASSUME NEW n \in 0 .. L - 1, NEW m \in 0 .. L - 1,
           ScalarBaseMult(n) = ScalarBaseMult(m)
    PROVE  n = m
<1>1. n * Cofactor = m * Cofactor /\ Cofactor \in Nat \ {0} /\ n \in Int /\ m \in Int
  BY GroupFacts
<1> DEFINE d == n - m
<1>2. d * Cofactor = 0 /\ d \in Int
  BY <1>1
<1>3. d = 0
  <2> HIDE DEF d
  <2> QED BY <1>1, <1>2
<1> QED BY <1>1, <1>3

\* The scalar of a private key is reduced, and its public key is a point.
LEMMA KeyFacts ==
    ASSUME NEW pk \in PrivateKey
    PROVE  /\ expandedScalar(pk).a \in 0 .. L - 1
           /\ Public(pk) = (expandedScalar(pk).a * Cofactor) % Order
           /\ Public(pk) \in PublicKey
<1>1. KeyHash(pk)[1] \in Nat /\ Cofactor \in Nat \ {0} /\ TopBit \in Nat \ {0}
  BY SignatureAssumption
<1>2. Clamp(KeyHash(pk)[1]) \in Int
  <2> DEFINE h == KeyHash(pk)[1]
  <2> HIDE DEF h
  <2>1. h \in Nat
    BY <1>1 DEF h
  <2>2. h % TopBit \in 0 .. TopBit - 1 /\ h % Cofactor \in 0 .. Cofactor - 1
    BY <1>1, <2>1, Division
  <2>3. Clamp(h) \in Int
    BY <1>1, <2>2 DEF Clamp
  <2> QED BY <2>3 DEF h
<1>3. expandedScalar(pk).a = Clamp(KeyHash(pk)[1]) % L
  BY DEF expandedScalar
<1>4. expandedScalar(pk).a \in 0 .. L - 1
  BY <1>2, <1>3, GroupFacts, Division
<1> QED BY <1>4 DEF Public, ScalarBaseMult, ScalarMult, PublicKey, Order

\* What Sign computes: the commitment R of the nonce, and an S that is reduced.
LEMMA SignFacts ==
    ASSUME NEW pk \in PrivateKey, NEW msg \in Digest
    PROVE  LET r == NonceOf(pk, msg)
               k == ChallengeOf(Sign(pk, msg).R, Public(pk), msg)
           IN  /\ r \in 0 .. L - 1
               /\ k \in 0 .. L - 1
               /\ Sign(pk, msg).R = ScalarBaseMult(r)
               /\ Sign(pk, msg).R \in 0 .. Order - 1
               /\ Sign(pk, msg).S = (k * expandedScalar(pk).a + r) % L
               /\ Sign(pk, msg).S \in 0 .. L - 1
               /\ Sign(pk, msg) = [R |-> Sign(pk, msg).R, S |-> Sign(pk, msg).S]
<1> DEFINE r == NonceOf(pk, msg)
           a == expandedScalar(pk).a
           R == ScalarBaseMult(r)
           k == ChallengeOf(R, Public(pk), msg)
<1>1. r \in 0 .. L - 1
  BY HashAssumption
<1>2. R \in 0 .. Order - 1
  <2>1. r * Cofactor \in Int
    BY <1>1, GroupFacts
  <2>2. (r * Cofactor) % Order \in 0 .. Order - 1
    <3> HIDE DEF r
    <3> QED BY <2>1, GroupFacts, Division
  <2> QED BY <2>2 DEF ScalarBaseMult, ScalarMult, Order
<1>3. k \in 0 .. L - 1
  <2> HIDE DEF R
  <2> QED BY <1>2, KeyFacts, HashAssumption DEF Order
<1>4. Sign(pk, msg) = [R |-> R, S |-> (k * a + r) % L]
  BY DEF Sign
<1>5. a \in 0 .. L - 1
  BY KeyFacts
<1> HIDE DEF r, a, R, k
<1>6. (k * a + r) % L \in 0 .. L - 1
  <2>1. k * a + r \in Int
    BY <1>1, <1>3, <1>5, GroupFacts
  <2> QED BY <2>1, GroupFacts, Division
<1>7. Sign(pk, msg).R = R /\ Sign(pk, msg).S = (k * a + r) % L
  BY <1>4
<1>8. Sign(pk, msg) = [R |-> Sign(pk, msg).R, S |-> Sign(pk, msg).S]
  BY <1>4, <1>7
<1>9. k = ChallengeOf(Sign(pk, msg).R, Public(pk), msg)
  BY <1>7 DEF k
<1> QED BY <1>1, <1>2, <1>3, <1>6, <1>7, <1>8, <1>9 DEF r, a, R

\* S = r + k*a solves the equation S*B = R + k*A that Verify checks: reducing
\* S modulo L does not move the point, as the base point has order L.
LEMMA SignVerify ==
    ASSUME NEW pk \in PrivateKey, NEW msg \in Digest
    PROVE  Verify(Public(pk), msg, Sign(pk, msg))
<1> DEFINE r == NonceOf(pk, msg)
           a == expandedScalar(pk).a
           A == Public(pk)
           R == Sign(pk, msg).R
           S == Sign(pk, msg).S
           k == ChallengeOf(R, A, msg)
<1>1. /\ r \in 0 .. L - 1 /\ k \in 0 .. L - 1 /\ a \in 0 .. L - 1
      /\ R = (r * Cofactor) % Order
      /\ A = (a * Cofactor) % Order
      /\ S = (k * a + r) % L
      /\ S \in 0 .. L - 1
  BY SignFacts, KeyFacts DEF ScalarBaseMult, ScalarMult, Order
<1>2. Verify(A, msg, Sign(pk, msg)) <=>
        S < L /\ (S * Cofactor) % Order = (R + ((k * A) % Order)) % Order
  BY DEF Verify, ScalarBaseMult, ScalarMult, Add, Order
<1> HIDE DEF r, a, A, R, S, k
<1>3. L \in Nat \ {0} /\ Cofactor \in Nat \ {0} /\ Order \in Nat \ {0}
  BY GroupFacts
<1>4. (S * Cofactor) % Order = ((k * a + r) * Cofactor) % Order
  <2>1. k * a + r \in Int
    BY <1>1, <1>3
  <2> QED BY <1>1, <1>3, <2>1, ModScale DEF Order
<1>5. (k * A) % Order = (k * (a * Cofactor)) % Order
  <2>1. k \in Int /\ a * Cofactor \in Int
    BY <1>1, <1>3
  <2> QED BY <1>1, <1>3, <2>1, ModFactor
<1>6. (R + ((k * A) % Order)) % Order = (r * Cofactor + k * (a * Cofactor)) % Order
  <2> DEFINE x == r * Cofactor
             y == k * (a * Cofactor)
  <2>1. x \in Int /\ y \in Int
    BY <1>1, <1>3
  <2>2. R = x % Order /\ (k * A) % Order = y % Order
    BY <1>1, <1>5
  <2> HIDE DEF x, y
  <2>3. ((x % Order) + (y % Order)) % Order = (x + y) % Order
    BY <1>3, <2>1, ModSum
  <2>4. (R + ((k * A) % Order)) % Order = (x + y) % Order
    BY <2>2, <2>3
  <2> QED BY <2>4 DEF x, y
<1>7. (k * a + r) * Cofactor = r * Cofactor + k * (a * Cofactor)
  BY <1>1, <1>3
<1>8. (S * Cofactor) % Order = (R + ((k * A) % Order)) % Order
  BY <1>4, <1>6, <1>7
<1>9. S < L
  BY <1>1, <1>3
<1> QED BY <1>2, <1>8, <1>9 DEF A

\* No other scalar solves the equation for the same R.
LEMMA VerifyOnce ==
    ASSUME NEW pk \in PrivateKey, NEW msg \in Digest, NEW n \in Nat,
           Verify(Public(pk), msg, [Sign(pk, msg) EXCEPT !.S = n])
    PROVE  n = Sign(pk, msg).S
<1> DEFINE R == Sign(pk, msg).R
           S == Sign(pk, msg).S
           T == [R |-> R, S |-> n]
           P == Add(R, ScalarMult(ChallengeOf(R, Public(pk), msg), Public(pk)))
<1>1. S \in 0 .. L - 1 /\ Sign(pk, msg) = [R |-> R, S |-> S]
  BY SignFacts
<1>2. [Sign(pk, msg) EXCEPT !.S = n] = T
  <2> HIDE DEF R, S
  <2> QED BY <1>1
<1>3. n < L /\ ScalarBaseMult(n) = P
  <2>1. Verify(Public(pk), msg, T)
    BY <1>2
  <2>2. T.R = R /\ T.S = n
    BY DEF T
  <2> HIDE DEF T
  <2> QED BY <2>1, <2>2 DEF Verify
<1>4. ScalarBaseMult(S) = P
  BY SignVerify DEF Verify
<1> HIDE DEF R, S, P
<1>5. n \in 0 .. L - 1
  BY <1>3, GroupFacts
<1>6. n = S
  BY <1>1, <1>3, <1>4, <1>5, BaseMultInjective
<1> QED BY <1>6 DEF S

-----------------------------------------------------------------------------
(* The loop of enroll.                                                     *)

\* The signatures that the loop accepts on connection c.
Verified(c, sigs) ==
    {a \in Range(hello[c]) : sigs[a] # None /\ verifyAccountSig(a, nonce[c], sigs[a])}

\* enroll proves only accounts that were announced and whose signatures
\* verify, and it proves one if there is one (http.go, enroll).
LEMMA ProvenByFacts ==
    ASSUME NEW c, NEW sigs, hello[c] \in Seq(Account)
    PROVE  /\ ProvenBy(c, sigs) \in Seq(Account)
           /\ Range(ProvenBy(c, sigs)) = Verified(c, sigs)
<1> DEFINE list == hello[c]
           V == Verified(c, sigs)
<1>0. /\ Len(list) \in Nat
      /\ DOMAIN list = 1..Len(list)
      /\ \A i \in 1..Len(list) : list[i] \in Account
  BY LenProperties
<1> DEFINE step == [m \in 1..Len(list) |-> [done \in Seq(Account) |->
                      IF list[m] \in V THEN Append(done, list[m]) ELSE done]]
<1>7. ProvenBy(c, sigs) = Loop(<<>>, step, Len(list))
  BY DEF ProvenBy, Verified
<1>1. PICK f : LoopOf(f, <<>>, step, Len(list)) /\ ProvenBy(c, sigs) = f[Len(list)]
  <2> HIDE DEF step, list
  <2> QED BY <1>0, <1>7, LoopValue
<1>8. \A a \in V : \E i \in 1..Len(list) : list[i] = a
  BY <1>0 DEF Verified, Range
<1> HIDE DEF V, list
<1> DEFINE Good(n) ==
      /\ f[n] \in Seq(Account)
      /\ \A x : x \in Range(f[n]) <=> x \in V /\ \E i \in 1..n : list[i] = x
    P == {n \in Nat : n <= Len(list) => Good(n)}
<1>2. 0 \in P
  <2>1. f[0] = <<>>
    BY <1>1 DEF LoopOf
  <2>2. <<>> \in Seq(Account) /\ Range(<<>>) = {}
    BY DEF Range
  <2>3. Good(0)
    BY <2>1, <2>2
  <2> QED BY <2>3
<1>3. ASSUME NEW n \in Nat, n \in P PROVE n+1 \in P
  <2> SUFFICES ASSUME n+1 <= Len(list) PROVE Good(n+1)
    OBVIOUS
  <2>1. Good(n)
    BY <1>0, <1>3
  <2>2. n+1 \in 1..Len(list) /\ list[n+1] \in Account /\ (n+1)-1 = n
    BY <1>0
  <2>3. f[n+1] = IF list[n+1] \in V THEN Append(f[n], list[n+1]) ELSE f[n]
    <3>1. f[n+1] = step[n+1][f[n]]
      <4> HIDE DEF step
      <4>1. \A m \in 1..Len(list) : f[m] = step[m][f[m-1]]
        BY <1>1 DEF LoopOf
      <4>2. f[n+1] = step[n+1][f[(n+1)-1]]
        BY <2>2, <4>1
      <4> QED BY <2>2, <4>2
    <3>2. f[n] \in Seq(Account)
      BY <2>1
    <3>3. step[n+1][f[n]] = IF list[n+1] \in V THEN Append(f[n], list[n+1]) ELSE f[n]
      BY <2>2, <3>2
    <3> QED BY <3>1, <3>3
  <2>4. CASE list[n+1] \notin V
    BY <2>1, <2>2, <2>3, <2>4
  <2>5. CASE list[n+1] \in V
    <3> DEFINE s == f[n]
               e == list[n+1]
               t == Append(s, e)
    <3>1. f[n+1] = t /\ s \in Seq(Account) /\ e \in Account
      BY <2>1, <2>2, <2>3, <2>5
    <3>2. t \in Seq(Account) /\ Range(t) = Range(s) \cup {e}
      <4> HIDE DEF s, e
      <4>1. /\ t \in Seq(Account)
            /\ Len(s) \in Nat /\ DOMAIN s = 1..Len(s)
            /\ DOMAIN t = 1..(Len(s)+1)
            /\ \A i \in 1..Len(s) : t[i] = s[i]
            /\ t[Len(s)+1] = e
        BY <3>1, AppendProperties, LenProperties
      <4> HIDE DEF t
      <4>2. ASSUME NEW x PROVE x \in Range(t) <=> x \in Range(s) \/ x = e
        BY <4>1 DEF Range
      <4> QED BY <4>1, <4>2
    <3>3. \A x : x \in Range(f[n+1]) <=> x \in V /\ \E i \in 1..(n+1) : list[i] = x
      <4>1. \A x : (\E i \in 1..(n+1) : list[i] = x) <=>
                   (\E i \in 1..n : list[i] = x) \/ list[n+1] = x
        OBVIOUS
      <4>2. \A x : x \in Range(f[n+1]) <=> x \in Range(f[n]) \/ x = list[n+1]
        BY <3>1, <3>2
      <4> QED BY <2>1, <2>5, <4>1, <4>2, Zenon
    <3> QED BY <3>1, <3>2, <3>3
  <2> QED BY <2>4, <2>5
<1>4. Nat \subseteq P
  <2> HIDE DEF P
  <2> QED BY <1>2, <1>3, SetInduction
<1>5. Good(Len(list))
  <2>1. Len(list) \in P
    <3> HIDE DEF P
    <3> QED BY <1>0, <1>4
  <2>2. Len(list) <= Len(list)
    BY <1>0
  <2> HIDE DEF Good
  <2> QED BY <2>1, <2>2
<1>6. \A x : x \in Range(f[Len(list)]) <=> x \in V
  BY <1>5, <1>8
<1> QED BY <1>1, <1>5, <1>6 DEF V, list

-----------------------------------------------------------------------------
(* The inductive invariant of Enroll.                                      *)

\* Every nonce that was sent was drawn before, for one connection only, and
\* stays with it until its enrollment has ended.
OneNonceEach ==
    /\ \A c \in Conn : nonce[c] # None => nonce[c] \in spent
    /\ \A c, d \in Conn : nonce[c] # None /\ nonce[c] = nonce[d] => c = d
    /\ \A c \in Conn : st[c] \in {"new", "hello"} => nonce[c] = None
    /\ \A c \in Conn : st[c] = "challenged" => nonce[c] # None

\* Where signature s comes from: a block, or the challenge of a connection
\* whose agent holds the key.
Origin(s) ==
    \/ \E n \in Nonce : s.msg = BlockDigest(n)
    \/ \E c \in Conn : /\ nonce[c] # None
                       /\ s.pk \in Holds[AgentOf[c]]
                       /\ s.msg = AuthChallengeDigest(nonce[c], Public(s.pk))

\* Nobody makes a signature without the key, or over another's challenge.
MadeBySign == \A s \in made : s.sig = Sign(s.pk, s.msg) /\ Origin(s)

\* The inductive invariant.
EnrollInv == EnrollTypeOK /\ OneNonceEach /\ MadeBySign /\ ProvenIsHeld

\* A new signature is one of a block, or over the challenge of a connection
\* whose agent holds the key: it has its type and its origin.
LEMMA MakePreserves ==
    ASSUME EnrollInv, NEW pk \in PrivateKey, NEW msg \in Digest, Make(pk, msg),
           \/ \E n \in Nonce : msg = BlockDigest(n)
           \/ \E c \in Conn : /\ nonce[c] # None
                              /\ pk \in Holds[AgentOf[c]]
                              /\ msg = AuthChallengeDigest(nonce[c], Public(pk))
    PROVE  EnrollInv'
<1> DEFINE new == [pk |-> pk, msg |-> msg, sig |-> Sign(pk, msg)]
<1>1. /\ made' = made \cup {new}
      /\ st' = st /\ hello' = hello /\ nonce' = nonce /\ spent' = spent /\ proven' = proven
  BY DEF Make
<1>2. new \in [pk : PrivateKey, msg : Digest, sig : [R : Nat, S : 0 .. L - 1]]
  <2>1. /\ Sign(pk, msg) = [R |-> Sign(pk, msg).R, S |-> Sign(pk, msg).S]
        /\ Sign(pk, msg).R \in 0 .. Order - 1
        /\ Sign(pk, msg).S \in 0 .. L - 1
    BY SignFacts
  <2>2. Sign(pk, msg).R \in Nat
    BY <2>1, GroupFacts
  <2>3. Sign(pk, msg) \in [R : Nat, S : 0 .. L - 1]
    BY <2>1, <2>2
  <2> QED BY <2>3
<1>3. EnrollTypeOK'
  <2> HIDE DEF new
  <2> QED BY <1>1, <1>2 DEF EnrollInv, EnrollTypeOK
<1>4. OneNonceEach'
  BY <1>1 DEF EnrollInv, OneNonceEach
<1>5. MadeBySign'
  <2>1. new.pk = pk /\ new.msg = msg /\ new.sig = Sign(new.pk, new.msg)
    OBVIOUS
  <2> HIDE DEF new
  <2>2. Origin(new)
    BY <2>1 DEF Origin
  <2>3. ASSUME NEW s \in made' PROVE s.sig = Sign(s.pk, s.msg) /\ Origin(s)
    BY <1>1, <2>1, <2>2, <2>3 DEF EnrollInv, MadeBySign
  <2>4. ASSUME NEW s, Origin(s) PROVE Origin(s)'
    BY <1>1, <2>4 DEF Origin
  <2> QED BY <2>3, <2>4 DEF MadeBySign
<1>6. ProvenIsHeld'
  BY <1>1 DEF EnrollInv, ProvenIsHeld
<1> QED BY <1>3, <1>4, <1>5, <1>6 DEF EnrollInv

\* A challenge carries a nonce nobody has seen, so no signature made before
\* answers it.
LEMMA SendChallengePreserves ==
    ASSUME EnrollInv, NEW c \in Conn, NEW list \in Hellos, SendChallenge(c, list)
    PROVE  EnrollInv'
<1>1. PICK n \in Nonce \ spent : /\ nonce' = [nonce EXCEPT ![c] = n]
                                 /\ spent' = spent \cup {n}
  BY DEF SendChallenge, randomBytes
<1>2. /\ st[c] = "hello" /\ st' = [st EXCEPT ![c] = "challenged"]
      /\ hello' = [hello EXCEPT ![c] = list]
      /\ made' = made /\ proven' = proven
  BY DEF SendChallenge
<1>3. n # None /\ list \in Seq(Account)
  BY <1>1, EnrollAssumption
<1>4. EnrollTypeOK'
  BY <1>1, <1>2, <1>3 DEF EnrollInv, EnrollTypeOK
<1>5. /\ nonce'[c] = n /\ nonce[c] = None
      /\ \A d \in Conn \ {c} : nonce'[d] = nonce[d]
  BY <1>1, <1>2 DEF EnrollInv, EnrollTypeOK, OneNonceEach
<1>6. /\ st'[c] = "challenged"
      /\ \A d \in Conn \ {c} : st'[d] = st[d]
  BY <1>2 DEF EnrollInv, EnrollTypeOK
<1>7. OneNonceEach'
  <2>1. \A d \in Conn : nonce'[d] # None => nonce'[d] \in spent'
    BY <1>1, <1>5 DEF EnrollInv, OneNonceEach
  <2>2. ASSUME NEW d \in Conn, NEW e \in Conn, nonce'[d] # None, nonce'[d] = nonce'[e]
        PROVE  d = e
    <3>1. \A b \in Conn \ {c} : nonce'[b] # n
      BY <1>1, <1>3, <1>5 DEF EnrollInv, OneNonceEach
    <3>2. CASE d = c \/ e = c
      BY <1>5, <2>2, <3>1, <3>2
    <3>3. CASE d # c /\ e # c
      BY <1>5, <2>2, <3>3 DEF EnrollInv, OneNonceEach
    <3> QED BY <3>2, <3>3
  <2>3. \A d \in Conn : st'[d] \in {"new", "hello"} => nonce'[d] = None
    BY <1>5, <1>6 DEF EnrollInv, OneNonceEach
  <2>4. \A d \in Conn : st'[d] = "challenged" => nonce'[d] # None
    BY <1>3, <1>5, <1>6 DEF EnrollInv, OneNonceEach
  <2> QED BY <2>1, <2>2, <2>3, <2>4 DEF OneNonceEach
<1>8. MadeBySign'
  <2>1. ASSUME NEW s, Origin(s) PROVE Origin(s)'
    BY <1>5, <2>1 DEF Origin
  <2> QED BY <1>2, <2>1 DEF EnrollInv, MadeBySign
<1>9. ProvenIsHeld'
  <2>1. /\ proven[c] = <<>>
        /\ \A d \in Conn \ {c} : hello'[d] = hello[d]
    BY <1>2 DEF EnrollInv, EnrollTypeOK, ProvenIsHeld
  <2> SUFFICES ASSUME NEW d \in Conn
               PROVE  /\ st'[d] = "proven" <=> proven[d] # <<>>
                      /\ \A a \in Range(proven[d]) :
                           /\ a \in Range(hello'[d])
                           /\ KeyOf[a] \in {Public(pk) : pk \in Holds[AgentOf[d]]}
    BY <1>2 DEF ProvenIsHeld
  <2>2. CASE d = c
    <3>1. Range(proven[d]) = {}
      BY <2>1, <2>2 DEF Range
    <3> QED BY <1>6, <2>1, <2>2, <3>1
  <2>3. CASE d # c
    BY <1>6, <2>1, <2>3 DEF EnrollInv, ProvenIsHeld
  <2> QED BY <2>2, <2>3
<1> QED BY <1>4, <1>7, <1>8, <1>9 DEF EnrollInv

\* An account is proved on a connection only with a signature over its own
\* nonce and under the account's own key, and only the agent that dialled the
\* connection can have made one.
LEMMA VerifiedIsHeld ==
    ASSUME EnrollInv, NEW c \in Conn, st[c] = "challenged",
           NEW sigs \in [Range(hello[c]) -> {s.sig : s \in made} \cup {None}],
           NEW a \in Verified(c, sigs)
    PROVE  KeyOf[a] \in {Public(pk) : pk \in Holds[AgentOf[c]]}
<1>1. a \in Range(hello[c]) /\ sigs[a] # None /\ verifyAccountSig(a, nonce[c], sigs[a])
  BY DEF Verified
<1>2. a \in Account
  <2>1. hello[c] \in Seq(Account)
    BY DEF EnrollInv, EnrollTypeOK
  <2> QED BY <1>1, <2>1, LenProperties DEF Range
<1>3. PICK s \in made : sigs[a] = s.sig
  BY <1>1
<1>4. /\ s.pk \in PrivateKey /\ s.msg \in Digest
      /\ s.sig = Sign(s.pk, s.msg) /\ Origin(s)
  BY DEF EnrollInv, EnrollTypeOK, MadeBySign
<1> DEFINE k == KeyOf[a]
           n == nonce[c]
<1>5. n \in Nonce /\ n # None
  BY DEF EnrollInv, EnrollTypeOK, OneNonceEach
<1>6. k \in PublicKey /\ VerifyChallenge(k, n, s.sig)
  BY <1>1, <1>2, <1>3, EnrollAssumption DEF verifyAccountSig
<1>7. s.msg = AuthChallengeDigest(n, k)
  <2> HIDE DEF k, n
  <2> QED BY <1>4, <1>5, <1>6, Unforgeable
<1>8. ASSUME NEW m \in Nonce PROVE s.msg # BlockDigest(m)
  <2>1. Len(<<authDomain, n, k>>) = 3 /\ Len(<<m>>) = 1
    OBVIOUS
  <2> HIDE DEF n, k
  <2> QED BY <1>7, <2>1 DEF AuthChallengeDigest, BlockDigest
<1>9. PICK d \in Conn : /\ nonce[d] # None
                        /\ s.pk \in Holds[AgentOf[d]]
                        /\ s.msg = AuthChallengeDigest(nonce[d], Public(s.pk))
  BY <1>4, <1>8 DEF Origin
<1>10. nonce[d] = n /\ Public(s.pk) = k
  BY <1>7, <1>9 DEF AuthChallengeDigest
<1>11. d = c
  BY <1>9, <1>10 DEF EnrollInv, OneNonceEach
<1> QED BY <1>9, <1>10, <1>11

\* An Auth message proves accounts that the agent holds, or ends in failure.
LEMMA ReadAuthPreserves ==
    ASSUME EnrollInv, NEW c \in Conn,
           NEW sigs \in [Range(hello[c]) -> {s.sig : s \in made} \cup {None}],
           ReadAuth(c, sigs)
    PROVE  EnrollInv'
<1> DEFINE list == ProvenBy(c, sigs)
           end == IF list = <<>> THEN "failed" ELSE "proven"
<1>1. /\ st[c] = "challenged" /\ st' = [st EXCEPT ![c] = end]
      /\ proven' = [proven EXCEPT ![c] = list]
      /\ hello' = hello /\ nonce' = nonce /\ spent' = spent /\ made' = made
  BY DEF ReadAuth
<1>2. list \in Seq(Account) /\ Range(list) = Verified(c, sigs)
  BY ProvenByFacts DEF EnrollInv, EnrollTypeOK
<1>3. end \in {"failed", "proven"} /\ (end = "proven" <=> list # <<>>)
  OBVIOUS
<1>4. \A a \in Range(list) : /\ a \in Range(hello[c])
                             /\ KeyOf[a] \in {Public(pk) : pk \in Holds[AgentOf[c]]}
  <2>1. Verified(c, sigs) \subseteq Range(hello[c])
    BY DEF Verified
  <2> HIDE DEF list
  <2> QED BY <1>1, <1>2, <2>1, VerifiedIsHeld
<1> HIDE DEF list, end
<1>5. EnrollTypeOK'
  BY <1>1, <1>2, <1>3 DEF EnrollInv, EnrollTypeOK
<1>6. /\ st'[c] = end /\ proven'[c] = list
      /\ \A d \in Conn \ {c} : st'[d] = st[d] /\ proven'[d] = proven[d]
  BY <1>1 DEF EnrollInv, EnrollTypeOK
<1>7. OneNonceEach'
  BY <1>1, <1>3, <1>6 DEF EnrollInv, OneNonceEach
<1>8. MadeBySign'
  BY <1>1 DEF EnrollInv, MadeBySign, Origin
<1>9. ProvenIsHeld'
  <2> SUFFICES ASSUME NEW d \in Conn
               PROVE  /\ st'[d] = "proven" <=> proven'[d] # <<>>
                      /\ \A a \in Range(proven'[d]) :
                           /\ a \in Range(hello[d])
                           /\ KeyOf[a] \in {Public(pk) : pk \in Holds[AgentOf[d]]}
    BY <1>1 DEF ProvenIsHeld
  <2>1. CASE d = c
    BY <1>3, <1>4, <1>6, <2>1
  <2>2. CASE d # c
    BY <1>1, <1>6, <2>2 DEF EnrollInv, ProvenIsHeld
  <2> QED BY <2>1, <2>2
<1> QED BY <1>5, <1>7, <1>8, <1>9 DEF EnrollInv

\* A step that only moves one enrollment on, without proving anything,
\* preserves the invariant.
LEMMA MovePreserves ==
    ASSUME EnrollInv, NEW c \in Conn, NEW to \in {"hello", "failed"},
           st[c] \in {"new", "hello", "challenged"}, to = "hello" => st[c] = "new",
           st' = [st EXCEPT ![c] = to],
           UNCHANGED <<hello, nonce, spent, made, proven>>
    PROVE  EnrollInv'
<1>1. EnrollTypeOK'
  BY DEF EnrollInv, EnrollTypeOK
<1>2. st'[c] = to /\ \A d \in Conn \ {c} : st'[d] = st[d]
  BY DEF EnrollInv, EnrollTypeOK
<1>3. OneNonceEach'
  BY <1>2 DEF EnrollInv, OneNonceEach
<1>4. MadeBySign'
  BY DEF EnrollInv, MadeBySign, Origin
<1>5. ProvenIsHeld'
  BY <1>2 DEF EnrollInv, ProvenIsHeld
<1> QED BY <1>1, <1>3, <1>4, <1>5 DEF EnrollInv

\* Every step of an enrollment preserves the invariant.
LEMMA EnrollNextPreserves ==
    ASSUME EnrollInv, [EnrollNext]_vars
    PROVE  EnrollInv'
<1>1. ASSUME NEW c \in Conn, Accept(c) PROVE EnrollInv'
  <2>1. /\ st[c] = "new" /\ st' = [st EXCEPT ![c] = "hello"]
        /\ UNCHANGED <<hello, nonce, spent, made, proven>>
    BY <1>1 DEF Accept
  <2>2. "hello" \in {"hello", "failed"}
    OBVIOUS
  <2>3. st[c] \in {"new", "hello", "challenged"}
    BY <2>1
  <2> QED BY <2>1, <2>2, <2>3, MovePreserves
<1>2. ASSUME NEW c \in Conn, Fail(c) PROVE EnrollInv'
  <2>1. /\ st[c] \in {"hello", "challenged"} /\ st' = [st EXCEPT ![c] = "failed"]
        /\ UNCHANGED <<hello, nonce, spent, made, proven>>
    BY <1>2 DEF Fail
  <2>2. "failed" \in {"hello", "failed"}
    OBVIOUS
  <2> QED BY <2>1, <2>2, MovePreserves
<1>3. ASSUME NEW c \in Conn, NEW list \in Hellos, SendChallenge(c, list) PROVE EnrollInv'
  BY <1>3, SendChallengePreserves
<1>4. ASSUME NEW c \in Conn,
             NEW sigs \in [Range(hello[c]) -> {s.sig : s \in made} \cup {None}],
             ReadAuth(c, sigs)
      PROVE  EnrollInv'
  BY <1>4, ReadAuthPreserves
<1>5. ASSUME NEW c \in Conn, NEW pk \in Holds[AgentOf[c]], SignChallenge(c, pk)
      PROVE  EnrollInv'
  <2>1. pk \in PrivateKey
    BY EnrollAssumption
  <2> DEFINE msg == AuthChallengeDigest(nonce[c], Public(pk))
  <2>2. nonce[c] # None /\ Make(pk, msg)
    BY <1>5 DEF SignChallenge
  <2>3. nonce[c] \in Nonce
    BY <2>2 DEF EnrollInv, EnrollTypeOK
  <2>4. msg \in Digest
    BY <2>1, <2>3, KeyFacts DEF Digest
  <2> QED BY <2>1, <2>2, <2>4, MakePreserves
<1>6. ASSUME NEW pk \in PrivateKey, NEW n \in Nonce, SignBlock(pk, n) PROVE EnrollInv'
  <2>1. BlockDigest(n) \in Digest /\ Make(pk, BlockDigest(n))
    BY <1>6 DEF Digest, SignBlock
  <2> QED BY <2>1, MakePreserves
<1>7. ASSUME UNCHANGED vars PROVE EnrollInv'
  <2>1. /\ st' = st /\ hello' = hello /\ nonce' = nonce
        /\ spent' = spent /\ made' = made /\ proven' = proven
    BY <1>7 DEF vars
  <2>2. EnrollTypeOK' /\ OneNonceEach'
    BY <2>1 DEF EnrollInv, EnrollTypeOK, OneNonceEach
  <2>3. MadeBySign' /\ ProvenIsHeld'
    BY <2>1 DEF EnrollInv, MadeBySign, Origin, ProvenIsHeld
  <2> QED BY <2>2, <2>3 DEF EnrollInv
<1> QED BY <1>1, <1>2, <1>3, <1>4, <1>5, <1>6, <1>7 DEF EnrollNext

\* Enrollment keeps its inductive invariant: the types, one nonce for each
\* connection, no signature without its key, and ProvenIsHeld.
THEOREM EnrollInvariant == EnrollSpec => []EnrollInv
<1>1. EnrollInit => EnrollInv
  BY DEF EnrollInit, EnrollInv, EnrollTypeOK, OneNonceEach, MadeBySign, ProvenIsHeld, Range
<1>2. EnrollInv /\ [EnrollNext]_vars => EnrollInv'
  BY EnrollNextPreserves
<1> QED BY <1>1, <1>2, PTL DEF EnrollSpec

\* An agent is enrolled exactly when it proved an account, and only for accounts
\* that it announced and whose keys it holds itself, whatever signatures are around (enroll,
\* verifyAccountSig).
THEOREM EnrollProvenIsHeld == EnrollSpec => []ProvenIsHeld
<1>1. EnrollInv => ProvenIsHeld
  BY DEF EnrollInv
<1> QED BY <1>1, EnrollInvariant, PTL

\* Verify accepts every signature that Sign makes.
THEOREM EnrollSignedVerifies == EnrollSpec => []SignedVerifies
<1>1. EnrollInv => SignedVerifies
  BY SignVerify DEF EnrollInv, EnrollTypeOK, MadeBySign, SignedVerifies
<1> QED BY <1>1, EnrollInvariant, PTL

\* Verify accepts a signature with one S only, of all the numbers that 32 bytes
\* hold.
THEOREM EnrollOneEncoding == EnrollSpec => []OneEncoding
<1>1. ASSUME EnrollInv PROVE OneEncoding
  <2> SUFFICES ASSUME NEW s \in made, NEW n \in ScalarBytes,
                      Verify(Public(s.pk), s.msg, [s.sig EXCEPT !.S = n])
               PROVE  n = s.sig.S
    BY DEF OneEncoding
  <2>1. s.pk \in PrivateKey /\ s.msg \in Digest /\ s.sig = Sign(s.pk, s.msg)
    BY <1>1 DEF EnrollInv, EnrollTypeOK, MadeBySign
  <2>2. n \in Nat
    BY EnrollAssumption
  <2> QED BY <2>1, <2>2, VerifyOnce
<1> QED BY <1>1, EnrollInvariant, PTL
=============================================================================
