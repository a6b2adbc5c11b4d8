-------------------------- MODULE NukiCrypto_proofs --------------------------
(***************************************************************************)
(* Proofs about the arithmetic of nuki_crypto.c: numbers and their bits,   *)
(* the Salsa20 core against its specification, and CRC16 as polynomial    *)
(* division.                                                              *)
(***************************************************************************)
EXTENDS NukiMessages, NukiSecretbox_proofs

-----------------------------------------------------------------------------
(* Sequences.                                                               *)

\* Reading a concatenation.
LEMMA Joined ==
  ASSUME NEW S, NEW s \in Seq(S), NEW t \in Seq(S)
  PROVE  /\ s \o t \in Seq(S) /\ Len(s) \in Nat /\ Len(t) \in Nat
         /\ Len(s \o t) = Len(s) + Len(t)
         /\ \A i \in 1..Len(s) : (s \o t)[i] = s[i]
         /\ \A i \in 1..Len(t) : (s \o t)[Len(s) + i] = t[i]
<1>1. Len(s) \in Nat /\ Len(t) \in Nat
  BY LenProperties
<1>2. /\ s \o t \in Seq(S)
      /\ Len(s \o t) = Len(s) + Len(t)
      /\ \A i \in 1..Len(s) + Len(t) : (s \o t)[i] = IF i <= Len(s) THEN s[i] ELSE t[i - Len(s)]
  BY ConcatProperties, Zenon
<1>3. ASSUME NEW i \in 1..Len(s) PROVE (s \o t)[i] = s[i]
  <2>1. i \in 1..Len(s) + Len(t) /\ i <= Len(s)
    BY <1>1
  <2> QED BY <1>2, <2>1
<1>4. ASSUME NEW i \in 1..Len(t) PROVE (s \o t)[Len(s) + i] = t[i]
  <2>1. Len(s) + i \in 1..Len(s) + Len(t) /\ ~(Len(s) + i <= Len(s)) /\ (Len(s) + i) - Len(s) = i
    BY <1>1
  <2> QED BY <1>2, <2>1
<1> QED BY <1>1, <1>2, <1>3, <1>4

\* The part of a sequence that holds t, after its first a elements.
LEMMA Excerpt ==
  ASSUME NEW S, NEW t \in Seq(S), NEW f, NEW a \in Nat, NEW b \in Nat, Len(t) = b,
         \A i \in 1..b : f[a + i] = t[i]
  PROVE  SubSeq(f, a + 1, a + b) = t
<1> DEFINE u == SubSeq(f, a + 1, a + b)
<1>1. u = [i \in 1..b |-> f[a + i]]
  BY PartOf
<1>2. \A i \in 1..b : t[i] \in S
  BY ElementOfSeq
<1> HIDE DEF u
<1>3. u \in Seq(S) /\ Len(u) = b /\ \A i \in 1..b : u[i] = t[i]
  BY <1>1, <1>2
<1>4. u = t
  BY <1>3, SeqEqual
<1> QED BY <1>4 DEF u

-----------------------------------------------------------------------------
(* Numbers and their bits.                                                  *)

\* The powers of two up to the 16th.
Pow2 == [k \in 0..16 |-> IF k = 16 THEN W16 ELSE Weight[k + 1]]

\* Each is twice the one before.
LEMMA Pow2Is ==
  /\ Pow2[0] = 1 /\ Pow2[8] = 256 /\ Pow2[16] = W16
  /\ \A k \in 0..16 : Pow2[k] \in Nat \ {0}
  /\ \A k \in 0..15 : Weight[k + 1] = Pow2[k] /\ Pow2[k + 1] = 2 * Pow2[k]
<1>1. Pow2[0] = 1 /\ Pow2[8] = 256 /\ Pow2[16] = W16
  BY SMT DEF Pow2, Weight, W16
<1>2. ASSUME NEW k \in 0..16 PROVE Pow2[k] \in Nat \ {0}
  BY SMT DEF Pow2, Weight, W16
<1>3. ASSUME NEW k \in 0..15 PROVE Weight[k + 1] = Pow2[k] /\ Pow2[k + 1] = 2 * Pow2[k]
  BY SMT DEF Pow2, Weight, W16
<1> QED BY <1>1, <1>2, <1>3, SMT

\* The quotient and the remainder of a division are unique.
LEMMA DivisionUnique ==
  ASSUME NEW q \in Nat \ {0}, NEW y \in Int, NEW r \in 0..q - 1, NEW x \in Int, x = q * y + r
  PROVE  x \div q = y /\ x % q = r
<1> DEFINE z == x \div q
           s == x % q
<1>1. z \in Int /\ s \in 0..q - 1 /\ x = q * z + s
  BY Division
<1> HIDE DEF z, s
<1>2. q * (y - z) = s - r
  <2>1. q * (y - z) = q * y - q * z
    BY <1>1
  <2>2. q * y \in Int /\ q * z \in Int
    BY <1>1
  <2> QED BY <1>1, <2>1, <2>2
<1>3. -q < s - r /\ s - r < q
  BY <1>1
<1>4. y = z
  <2> DEFINE d == y - z
  <2>1. d \in Int
    BY <1>1
  <2>2. q * d = s - r
    BY <1>2
  <2> HIDE DEF d
  <2>3. CASE d >= 1
    <3>1. q * d >= q
      BY <2>1, <2>3
    <3> QED BY <1>1, <1>3, <2>2, <3>1
  <2>4. CASE d <= -1
    <3> DEFINE e == -d
    <3>1. e \in Int /\ e >= 1 /\ q * e = -(q * d)
      BY <2>1, <2>4
    <3> HIDE DEF e
    <3>2. q * e >= q
      BY <3>1
    <3> QED BY <1>1, <1>3, <2>1, <2>2, <3>1, <3>2
  <2>5. CASE d = 0
    BY <1>1, <2>5 DEF d
  <2> QED BY <2>1, <2>3, <2>4, <2>5
<1>5. s = r
  BY <1>1, <1>4
<1> QED BY <1>4, <1>5 DEF z, s

\* The sum in Number, up to each bit, and the contribution of a bit.
Sum(S) ==
  LET sum[k \in 0..16] ==
        IF k = 0 THEN 0 ELSE sum[k - 1] + (IF k - 1 \in S THEN Weight[k] ELSE 0)
  IN  sum
Bit(S, k) == IF k \in S THEN 1 ELSE 0

\* It is what its recursive definition says.
LEMMA SumIs ==
  ASSUME NEW S
  PROVE  /\ Number(S) = Sum(S)[16]
         /\ Sum(S)[0] = 0
         /\ \A k \in 0..15 : Sum(S)[k + 1] = Sum(S)[k] + Pow2[k] * Bit(S, k)
         /\ \A k \in 0..16 : Sum(S)[k] \in 0..Pow2[k] - 1
<1> DEFINE G16 == [p \in (1..16) \X Nat |->
                     p[2] + (IF p[1] - 1 \in S THEN Weight[p[1]] ELSE 0)]
           Eq(h) == h = [k \in 0..16 |->
                      IF k = 0 THEN 0 ELSE h[k - 1] + (IF k - 1 \in S THEN Weight[k] ELSE 0)]
<1>1. \A k \in 1..16 : Weight[k] \in Nat
  <2>1. \A k \in 1..16 : k - 1 \in 0..15 /\ (k - 1) + 1 = k
    BY SMT
  <2>2. \A k \in 0..15 : Weight[k + 1] \in Nat
    <3>1. \A k \in 0..15 : Weight[k + 1] = Pow2[k] /\ Pow2[k] \in Nat
      BY Pow2Is, SMT
    <3> QED BY <3>1, Zenon
  <2> QED BY <2>1, <2>2, Zenon
<1>2. \A k \in 1..16, x \in Nat : x + (IF k - 1 \in S THEN Weight[k] ELSE 0) \in Nat
  BY <1>1, SMT
<1>3. G16 \in [(1..16) \X Nat -> Nat]
      /\ \A k \in 1..16, x \in Nat :
           G16[<<k, x>>] = x + (IF k - 1 \in S THEN Weight[k] ELSE 0)
  BY <1>2
<1>4. PICK h \in [0..16 -> Nat] : Solves(h, 0, 16, G16)
  <2>1. 16 \in Nat /\ 0 \in Nat /\ G16 \in Steps(16, Nat)
    BY <1>3 DEF Steps
  <2> HIDE DEF G16
  <2> QED BY <2>1, Recursion
<1>5. ASSUME NEW k \in 1..16
      PROVE  h[k] = h[k - 1] + (IF k - 1 \in S THEN Weight[k] ELSE 0)
  <2>1. h[k - 1] \in Nat
    BY <1>4, SMT
  <2> HIDE DEF G16
  <2> QED BY <1>3, <1>4, <2>1, SMT DEF Solves
<1>6. Eq(h)
  BY <1>4, <1>5, SMT DEF Solves
<1> DEFINE u == Sum(S)
<1>7. Eq(u)
  BY <1>6, Zenon DEF Sum
<1>8. Number(S) = u[16]
  BY Zenon DEF Number, Sum
<1> HIDE DEF u
<1>9. u[0] = 0
  BY <1>7, SMT
<1>10. ASSUME NEW k \in 0..15, u[k] \in Int PROVE u[k + 1] = u[k] + Pow2[k] * Bit(S, k)
  <2>1. k + 1 \in 0..16 /\ k + 1 # 0 /\ (k + 1) - 1 = k
    BY SMT
  <2>2. u[k + 1] = u[k] + (IF k \in S THEN Weight[k + 1] ELSE 0)
    BY <1>7, <2>1, SMT
  <2>3. Weight[k + 1] = Pow2[k] /\ Pow2[k] \in Nat
    BY Pow2Is, SMT
  <2> QED BY <2>2, <2>3, SMT DEF Bit
<1> DEFINE T == {k \in 0..16 : u[k] \in 0..Pow2[k] - 1}
<1>11. 0 \in T
  BY <1>9, Pow2Is, SMT
<1>12. ASSUME NEW k \in 0..16, k < 16, k \in T PROVE k + 1 \in T
  <2>1. k \in 0..15 /\ k + 1 \in 0..16
    BY <1>12, SMT
  <2>2. u[k] \in 0..Pow2[k] - 1
    BY <1>12
  <2>3. Pow2[k] \in Nat /\ Pow2[k + 1] = 2 * Pow2[k]
    BY <2>1, Pow2Is, SMT
  <2>4. u[k] \in Int
    BY <2>2, <2>3, SMT
  <2>5. u[k + 1] = u[k] + Pow2[k] * Bit(S, k)
    BY <1>10, <2>1, <2>4
  <2>6. Bit(S, k) = 0 \/ Bit(S, k) = 1
    BY DEF Bit
  <2>7. u[k + 1] = u[k] \/ u[k + 1] = u[k] + Pow2[k]
    BY <2>3, <2>4, <2>5, <2>6, SMT
  <2>8. u[k + 1] \in 0..Pow2[k + 1] - 1
    BY <2>2, <2>3, <2>7, SMT
  <2> QED BY <2>1, <2>8
<1>13. 0..16 \subseteq T
  <2>1. 16 \in Nat /\ \A k \in 0..16 : k < 16 /\ k \in T => k + 1 \in T
    BY <1>12, SMT
  <2> HIDE DEF T
  <2> QED BY <1>11, <2>1, Induction, SMT
<1>14. \A k \in 0..16 : u[k] \in 0..Pow2[k] - 1
  BY <1>13, SMT
<1>15. ASSUME NEW k \in 0..15 PROVE u[k + 1] = u[k] + Pow2[k] * Bit(S, k)
  <2>1. k \in 0..16 /\ Pow2[k] \in Nat
    BY Pow2Is, SMT
  <2>2. u[k] \in Int
    BY <1>14, <2>1, SMT
  <2> QED BY <1>10, <2>2
<1> QED BY <1>8, <1>9, <1>14, <1>15, SMT DEF u

\* The first bits of a sum, and what follows them.
LEMMA SumSplits ==
  ASSUME NEW S, NEW k \in 0..16
  PROVE  \A j \in 0..16 : k <= j =>
           \E t \in Nat : Sum(S)[j] = Sum(S)[k] + Pow2[k] * t
<1> DEFINE P == Pow2[k]
           a == Sum(S)[k]
           T == {j \in 0..16 : k <= j =>
                  \E t, u \in Nat : Sum(S)[j] = a + P * t /\ Pow2[j] = P * u}
<1>1. P \in Nat /\ a \in Nat
  <2>1. P \in Nat /\ a \in 0..P - 1
    BY Pow2Is, SumIs, Zenon
  <2> HIDE DEF P, a
  <2> QED BY <2>1, SMT
<1>2. ASSUME NEW j \in 0..16, j = k PROVE j \in T
  <2>1. Sum(S)[j] = a + P * 0 /\ Pow2[j] = P * 1
    BY <1>1, <1>2, SMT
  <2> HIDE DEF P, a
  <2> QED BY <2>1, SMT
<1>3. 0 \in T
  <2>1. CASE k = 0
    BY <1>2, <2>1, SMT
  <2>2. CASE k # 0
    <3>1. ~ (k <= 0)
      BY <2>2, SMT
    <3> QED BY <3>1, SMT
  <2> QED BY <2>1, <2>2
<1>4. ASSUME NEW j \in 0..16, j < 16, j \in T PROVE j + 1 \in T
  <2>1. j \in 0..15 /\ j + 1 \in 0..16
    BY <1>4, SMT
  <2>2. CASE j + 1 = k
    BY <1>2, <2>1, <2>2
  <2>3. CASE j + 1 < k
    <3>1. ~ (k <= j + 1)
      BY <2>3, SMT
    <3> QED BY <2>1, <3>1
  <2>4. CASE k <= j
    <3>1. PICK t \in Nat, u \in Nat : Sum(S)[j] = a + P * t /\ Pow2[j] = P * u
      BY <1>4, <2>4
    <3>2. Pow2[j + 1] = 2 * Pow2[j] /\ Sum(S)[j + 1] = Sum(S)[j] + Pow2[j] * Bit(S, j)
      <4>1. Pow2[j + 1] = 2 * Pow2[j]
        BY <2>1, Pow2Is, Zenon
      <4>2. Sum(S)[j + 1] = Sum(S)[j] + Pow2[j] * Bit(S, j)
        BY <2>1, SumIs, Zenon
      <4> QED BY <4>1, <4>2
    <3> DEFINE b == Bit(S, j)
               x == Sum(S)[j + 1]
               y == Pow2[j + 1]
    <3>3. b \in {0, 1}
      BY DEF Bit
    <3>4. y = 2 * (P * u) /\ x = (a + P * t) + (P * u) * b
      BY <3>1, <3>2, Zenon
    <3> HIDE DEF b, x, y, P, a
    <3>5. y = P * (2 * u) /\ 2 * u \in Nat
      BY <1>1, <3>4, SMT
    <3>6. \E s \in Nat : x = a + P * s
      <4>1. CASE b = 0
        <5>1. x = a + P * t
          BY <1>1, <3>4, <4>1, SMT
        <5> QED BY <5>1
      <4>2. CASE b = 1
        <5>1. x = a + P * (t + u) /\ t + u \in Nat
          <6>1. P * (t + u) = P * t + P * u
            BY <1>1, SMT
          <6>2. (P * u) * b = P * u /\ P * t \in Nat /\ P * u \in Nat
            BY <1>1, <4>2, SMT
          <6> QED BY <1>1, <3>4, <6>1, <6>2, SMT
        <5> QED BY <5>1
      <4> QED BY <3>3, <4>1, <4>2
    <3>7. \E s, v \in Nat : x = a + P * s /\ y = P * v
      BY <3>5, <3>6, Zenon
    <3> QED BY <2>1, <3>7 DEF x, y
  <2> QED BY <2>1, <2>2, <2>3, <2>4, SMT
<1>5. 0..16 \subseteq T
  <2>1. 16 \in Nat /\ \A j \in 0..16 : j < 16 /\ j \in T => j + 1 \in T
    BY <1>4, SMT
  <2> HIDE DEF T
  <2> QED BY <1>3, <2>1, Induction
<1> QED BY <1>5, Zenon

\* The bits of a number are those it was made of.
LEMMA BitsOfNumber ==
  ASSUME NEW S \in SUBSET (0..15)
  PROVE  Bits(Number(S)) = S
<1> DEFINE n == Number(S)
<1>1. ASSUME NEW k \in 0..15 PROVE (n \div Weight[k + 1]) % 2 = Bit(S, k)
  <2> DEFINE P == Pow2[k]
             a == Sum(S)[k]
             b == Bit(S, k)
  <2>1. Weight[k + 1] = P /\ P \in Nat \ {0} /\ Pow2[k + 1] = 2 * P
    BY Pow2Is, SMT
  <2>2. a \in 0..P - 1
    BY SumIs, SMT
  <2>3. b \in {0, 1}
    BY DEF Bit
  <2>4. PICK t \in Nat : n = Sum(S)[k + 1] + Pow2[k + 1] * t
    <3>1. k + 1 \in 0..16 /\ 16 \in 0..16 /\ k + 1 <= 16
      BY SMT
    <3>2. n = Sum(S)[16]
      BY SumIs
    <3> HIDE DEF n
    <3> QED BY <3>1, <3>2, SumSplits
  <2>5. Sum(S)[k + 1] = a + P * b
    BY SumIs
  <2> HIDE DEF P, a, b, n
  <2>6. n = (a + P * b) + (2 * P) * t
    BY <2>1, <2>4, <2>5
  <2>7. n = P * (b + 2 * t) + a /\ b + 2 * t \in Int /\ n \in Int
    <3>1. P * (b + 2 * t) = P * b + (2 * P) * t
      BY <2>1, <2>3, SMT
    <3>2. P * b \in Int /\ (2 * P) * t \in Int /\ a \in Int
      BY <2>1, <2>2, <2>3, SMT
    <3>3. b + 2 * t \in Int
      BY <2>3, SMT
    <3> QED BY <2>6, <3>1, <3>2, <3>3, SMT
  <2>8. n \div P = b + 2 * t
    <3> DEFINE y == b + 2 * t
    <3>1. n \in Int /\ y \in Int /\ n = P * y + a
      BY <2>7
    <3>2. P \in Nat \ {0}
      BY <2>1
    <3> HIDE DEF y
    <3>3. n \div P = y
      BY <2>2, <3>1, <3>2, DivisionUnique, Zenon
    <3> QED BY <3>3 DEF y
  <2>9. (b + 2 * t) % 2 = b
    BY <2>3, SMT
  <2> QED BY <2>1, <2>8, <2>9 DEF b
<1> HIDE DEF n
<1>2. Bits(n) = {k \in 0..15 : Bit(S, k) = 1}
  BY <1>1, SMT DEF Bits
<1>3. \A k : Bit(S, k) = 1 <=> k \in S
  BY SMT DEF Bit
<1>4. \A k \in S : k \in 0..15
  BY Zenon
<1>5. Bits(n) = S
  BY <1>2, <1>3, <1>4, Zenon
<1> QED BY <1>5 DEF n

\* A number is made of its bits.
LEMMA NumberOfBits ==
  ASSUME NEW n \in 0..W16 - 1
  PROVE  Number(Bits(n)) = n
<1> DEFINE S == Bits(n)
           T == {k \in 0..16 : Sum(S)[k] = n % Pow2[k]}
<1>0. n \in Nat /\ n < W16
  <2>1. W16 \in Nat
    BY SMT DEF W16
  <2> QED BY <2>1
<1>1. 0 \in T
  <2>1. n % 1 = 0
    BY <1>0, SMT
  <2>2. Sum(S)[0] = 0 /\ Pow2[0] = 1
    BY Pow2Is, SumIs
  <2> QED BY <2>1, <2>2
<1>2. ASSUME NEW k \in 0..16, k < 16, k \in T PROVE k + 1 \in T
  <2> DEFINE P == Pow2[k]
             a == n % P
             q == n \div P
             b == Bit(S, k)
  <2>1. k \in 0..15 /\ k + 1 \in 0..16
    BY <1>2, SMT
  <2>2. Weight[k + 1] = P /\ P \in Nat \ {0} /\ Pow2[k + 1] = 2 * P
    BY <2>1, Pow2Is
  <2>3. b = q % 2
    <3>1. k \in S <=> q % 2 = 1
      BY <2>1, <2>2, Zenon DEF Bits
    <3>2. q \in Int
      BY <1>0, <2>2, SMT
    <3>3. q % 2 = 0 \/ q % 2 = 1
      <4> HIDE DEF q
      <4> QED BY <3>2, SMT
    <3> HIDE DEF S, q
    <3> QED BY <3>1, <3>3, Zenon DEF Bit
  <2>4. Sum(S)[k + 1] = a + P * b
    BY <1>2, <2>1, SumIs, Zenon
  <2>5. q \in Int /\ a \in 0..P - 1 /\ n = P * q + a
    <3>1. n \in Int
      BY <1>0
    <3> HIDE DEF P
    <3> QED BY <2>2, <3>1, Division, Zenon
  <2> HIDE DEF P, a, q, b, S
  <2>6. q = 2 * (q \div 2) + b /\ q \div 2 \in Int /\ b \in 0..1
    BY <2>3, <2>5, SMT
  <2> DEFINE c == q \div 2
  <2> HIDE DEF c
  <2>7. c \in Int /\ q = 2 * c + b
    BY <2>6 DEF c
  <2>8. n = (2 * P) * c + (a + P * b)
    <3>1. P * (2 * c + b) = (2 * P) * c + P * b
      BY <2>2, <2>6, <2>7, SMT
    <3>2. (2 * P) * c \in Int /\ P * b \in Int /\ a \in Int
      BY <2>2, <2>5, <2>6, <2>7, SMT
    <3> QED BY <2>5, <2>7, <3>1, <3>2, SMT
  <2>9. a + P * b \in 0..(2 * P) - 1 /\ 2 * P \in Nat \ {0}
    <3>1. P * b = 0 \/ P * b = P
      BY <2>2, <2>6, SMT
    <3> QED BY <2>2, <2>5, <3>1, SMT
  <2>10. n % (2 * P) = a + P * b
    BY <1>0, <2>7, <2>8, <2>9, DivisionUnique, SMT
  <2> QED BY <2>1, <2>2, <2>4, <2>10, SMT
<1>3. 0..16 \subseteq T
  <2>1. 16 \in Nat /\ \A k \in 0..16 : k < 16 /\ k \in T => k + 1 \in T
    BY <1>2, SMT
  <2> HIDE DEF T
  <2> QED BY <1>1, <2>1, Induction
<1>4. Number(S) = n % W16
  <2>1. 16 \in T
    BY <1>3, SMT
  <2>2. Sum(S)[16] = n % Pow2[16]
    BY <2>1, Zenon
  <2> QED BY <2>2, SumIs, Pow2Is
<1>5. n % W16 = n
  <2>1. W16 \in Nat
    BY SMT DEF W16
  <2> QED BY <1>0, <2>1
<1> QED BY <1>4, <1>5, Zenon

\* A number that is made of bits is a word; of the lower eight, a byte.
LEMMA NumberRange ==
  ASSUME NEW S
  PROVE  Number(S) \in Word /\ (S \in SUBSET (0..7) => Number(S) \in Byte)
<1>1. Number(S) \in 0..W16 - 1
  <2>1. 16 \in 0..16
    OBVIOUS
  <2>2. Sum(S)[16] \in 0..Pow2[16] - 1 /\ Number(S) = Sum(S)[16]
    BY <2>1, SumIs, Zenon
  <2>3. Pow2[16] = W16
    BY Pow2Is, Zenon
  <2> QED BY <2>2, <2>3, Zenon
<1>2. ASSUME S \in SUBSET (0..7) PROVE Number(S) \in Byte
  <2> DEFINE f == [k \in 0..8 |-> Sum(S)[8 + k]]
             v == {Sum(S)[8]}
  <2>1. f[0] \in v
    BY SMT
  <2>2. ASSUME NEW j \in 1..8, f[j - 1] \in v PROVE f[j] \in v
    <3>1. 7 + j \in 0..15 /\ (7 + j) + 1 = 8 + j /\ 8 + (j - 1) = 7 + j /\ 7 + j \in 0..16
      BY SMT
    <3>2. 7 + j \notin S
      <4>1. 7 + j \notin 0..7
        BY SMT
      <4> QED BY <1>2, <4>1, Zenon
    <3>3. Bit(S, 7 + j) = 0
      BY <3>2 DEF Bit
    <3>4. Sum(S)[8 + j] = Sum(S)[7 + j] + Pow2[7 + j] * 0
      BY <3>1, <3>3, SumIs, Zenon
    <3>5. Sum(S)[7 + j] \in Int /\ Pow2[7 + j] \in Int
      <4>1. Pow2[7 + j] \in Nat
        BY <3>1, Pow2Is, Zenon
      <4>2. Sum(S)[7 + j] \in 0..Pow2[7 + j] - 1
        BY <3>1, SumIs, Zenon
      <4> QED BY <4>1, <4>2
    <3>6. Sum(S)[8 + j] = Sum(S)[7 + j]
      BY <3>4, <3>5, SMT
    <3>7. f[j] = Sum(S)[8 + j] /\ f[j - 1] = Sum(S)[7 + j]
      BY <3>1, SMT
    <3> QED BY <2>2, <3>6, <3>7, Zenon
  <2>3. f[8] = Sum(S)[16]
    BY SMT
  <2> HIDE DEF f
  <2>4. \A j \in 0..8 : f[j] \in v
    <3>1. 8 \in Nat /\ \A j \in 1..8 : f[j - 1] \in v => f[j] \in v
      BY <2>2, SMT
    <3> HIDE DEF v
    <3> QED BY <2>1, <3>1, RecursiveType
  <2>5. f[8] = Sum(S)[8]
    BY <2>4, SMT
  <2>6. Number(S) = Sum(S)[8] /\ Sum(S)[8] \in 0..256 - 1
    <3>1. 8 \in 0..16
      OBVIOUS
    <3>2. Sum(S)[8] \in 0..Pow2[8] - 1 /\ Pow2[8] = 256 /\ Number(S) = Sum(S)[16]
      BY <3>1, SumIs, Pow2Is
    <3> QED BY <2>3, <2>5, <3>2
  <2> QED BY <2>6, SMT DEF Byte
<1> QED BY <1>1, <1>2, Zenon DEF Word

-----------------------------------------------------------------------------
(* Polynomials over two elements, as sets of exponents: SymDiff adds them,  *)
(* Shift multiplies one by a power of x.                                    *)

\* Q times the generator, and being equal up to a multiple of it.
Mult(Q) == SymDiff(SymDiff(Shift(Q, 16), Shift(Q, 12)), SymDiff(Shift(Q, 5), Q))
Congruent(A, B) == \E N \in Nat : \E Q \in SUBSET (0..N) : SymDiff(A, B) = Mult(Q)

\* What is in a sum, and in a shifted set.
LEMMA InSum == \A A, B, x : x \in SymDiff(A, B) <=> ~(x \in A <=> x \in B)
BY Zenon DEF SymDiff

\* Addition is commutative and associative, and its own inverse.
LEMMA SumLaws ==
  /\ \A A : SymDiff(A, A) = {} /\ SymDiff(A, {}) = A
  /\ \A A, B : SymDiff(A, B) = SymDiff(B, A)
  /\ \A A, B, C : SymDiff(SymDiff(A, B), C) = SymDiff(A, SymDiff(B, C))
  /\ \A A, B, C : SymDiff(SymDiff(A, C), SymDiff(B, C)) = SymDiff(A, B)
<1>1. \A A : SymDiff(A, A) = {} /\ SymDiff(A, {}) = A
  BY Zenon DEF SymDiff
<1>2. \A A, B : SymDiff(A, B) = SymDiff(B, A)
  BY Zenon DEF SymDiff
<1>3. \A A, B, C : SymDiff(SymDiff(A, B), C) = SymDiff(A, SymDiff(B, C))
  BY Zenon DEF SymDiff
<1>4. \A A, B, C : SymDiff(SymDiff(A, C), SymDiff(B, C)) = SymDiff(A, B)
  BY Zenon DEF SymDiff
<1> QED BY <1>1, <1>2, <1>3, <1>4, Zenon

\* Sums of sets of integers are sets of integers.
LEMMA SumType ==
  ASSUME NEW A \in SUBSET Int, NEW B \in SUBSET Int
  PROVE  SymDiff(A, B) \in SUBSET Int
BY Zenon DEF SymDiff

\* Two sets of integers with the same integers in them.
LEMMA SameIntegers ==
  ASSUME NEW A \in SUBSET Int, NEW B \in SUBSET Int, \A e \in Int : e \in A <=> e \in B
  PROVE  A = B
BY Zenon

\* The elements of a shifted set.
LEMMA InShift ==
  ASSUME NEW S \in SUBSET Int, NEW n \in Int
  PROVE  Shift(S, n) \in SUBSET Int /\ \A e \in Int : e \in Shift(S, n) <=> e - n \in S
<1>1. Shift(S, n) \in SUBSET Int
  BY SMT DEF Shift
<1>2. ASSUME NEW e \in Int PROVE e \in Shift(S, n) <=> e - n \in S
  <2>1. ASSUME e \in Shift(S, n) PROVE e - n \in S
    <3>1. PICK d \in S : e = d + n
      BY <2>1, Zenon DEF Shift
    <3>2. d \in Int
      BY Zenon
    <3>3. e - n = d
      BY <3>1, <3>2, SMT
    <3> QED BY <3>3, Zenon
  <2>2. ASSUME e - n \in S PROVE e \in Shift(S, n)
    <3>1. e = (e - n) + n
      BY SMT
    <3> QED BY <2>2, <3>1, Zenon DEF Shift
  <2> QED BY <2>1, <2>2
<1> QED BY <1>1, <1>2

\* Shifting distributes over addition and composes.
LEMMA ShiftLaws ==
  /\ \A A, B \in SUBSET Int : \A n \in Int :
       Shift(SymDiff(A, B), n) = SymDiff(Shift(A, n), Shift(B, n))
  /\ \A A \in SUBSET Int : \A m, n \in Int : Shift(Shift(A, m), n) = Shift(A, m + n)
  /\ \A A \in SUBSET Int : Shift(A, 0) = A
<1>1. ASSUME NEW A \in SUBSET Int, NEW B \in SUBSET Int, NEW n \in Int
      PROVE  Shift(SymDiff(A, B), n) = SymDiff(Shift(A, n), Shift(B, n))
  <2> DEFINE U == Shift(SymDiff(A, B), n)
             V == SymDiff(Shift(A, n), Shift(B, n))
  <2>1. SymDiff(A, B) \in SUBSET Int
    BY SumType, Zenon
  <2>2. U \in SUBSET Int /\ V \in SUBSET Int
    <3>1. U \in SUBSET Int
      BY <2>1, InShift, Zenon
    <3>2. Shift(A, n) \in SUBSET Int /\ Shift(B, n) \in SUBSET Int
      BY InShift, Zenon
    <3> QED BY <3>1, <3>2, SumType, SMT
  <2>3. ASSUME NEW e \in Int PROVE e \in U <=> e \in V
    <3>1. e \in U <=> e - n \in SymDiff(A, B)
      BY <2>1, InShift, Zenon
    <3>2. (e \in Shift(A, n) <=> e - n \in A) /\ (e \in Shift(B, n) <=> e - n \in B)
      BY InShift, Zenon
    <3>3. e - n \in SymDiff(A, B) <=> ~(e - n \in A <=> e - n \in B)
      BY InSum, SMT
    <3>4. e \in V <=> ~(e \in Shift(A, n) <=> e \in Shift(B, n))
      BY InSum, SMT
    <3> QED BY <3>1, <3>2, <3>3, <3>4, Zenon
  <2> HIDE DEF U, V
  <2>4. U = V
    BY <2>2, <2>3, SameIntegers, Zenon
  <2> QED BY <2>4 DEF U, V
<1>2. ASSUME NEW A \in SUBSET Int, NEW m \in Int, NEW n \in Int
      PROVE  Shift(Shift(A, m), n) = Shift(A, m + n)
  <2> DEFINE U == Shift(Shift(A, m), n)
             V == Shift(A, m + n)
  <2>1. Shift(A, m) \in SUBSET Int /\ m + n \in Int
    BY InShift, SMT
  <2>2. U \in SUBSET Int /\ V \in SUBSET Int
    BY <2>1, InShift, Zenon
  <2>3. ASSUME NEW e \in Int PROVE e \in U <=> e \in V
    <3>1. e - n \in Int /\ (e - n) - m = e - (m + n)
      BY SMT
    <3>2. e \in U <=> e - n \in Shift(A, m)
      BY <2>1, InShift, Zenon
    <3>3. e - n \in Shift(A, m) <=> (e - n) - m \in A
      BY <3>1, InShift, Zenon
    <3>4. e \in V <=> e - (m + n) \in A
      BY <2>1, InShift, Zenon
    <3> QED BY <3>1, <3>2, <3>3, <3>4, Zenon
  <2> HIDE DEF U, V
  <2>4. U = V
    BY <2>2, <2>3, SameIntegers, Zenon
  <2> QED BY <2>4 DEF U, V
<1>3. ASSUME NEW A \in SUBSET Int PROVE Shift(A, 0) = A
  <2>1. Shift(A, 0) \in SUBSET Int /\ \A e \in Int : e \in Shift(A, 0) <=> e - 0 \in A
    BY InShift, SMT
  <2>2. \A e \in Int : e - 0 = e
    BY SMT
  <2>3. \A e \in Int : e \in Shift(A, 0) <=> e \in A
    BY <2>1, <2>2, Zenon
  <2> QED BY <2>1, <2>3, SameIntegers, Zenon
<1> QED BY <1>1, <1>2, <1>3, Zenon

\* A sum of four sums, by columns.
LEMMA SumOfSums ==
  ASSUME NEW A, NEW B, NEW C, NEW D, NEW U, NEW V, NEW W, NEW X
  PROVE  SymDiff(SymDiff(SymDiff(A, U), SymDiff(B, V)), SymDiff(SymDiff(C, W), SymDiff(D, X)))
           = SymDiff(SymDiff(SymDiff(A, B), SymDiff(C, D)),
                     SymDiff(SymDiff(U, V), SymDiff(W, X)))
<1>1. \A a, b, u, v : SymDiff(SymDiff(a, u), SymDiff(b, v))
                        = SymDiff(SymDiff(a, b), SymDiff(u, v))
  <2> TAKE a, b, u, v
  <2>1. SymDiff(SymDiff(a, u), SymDiff(b, v)) = SymDiff(a, SymDiff(u, SymDiff(b, v)))
    BY SumLaws, SMT
  <2>2. SymDiff(u, SymDiff(b, v)) = SymDiff(b, SymDiff(u, v))
    <3>1. SymDiff(u, SymDiff(b, v)) = SymDiff(SymDiff(u, b), v)
      BY SumLaws, SMT
    <3>2. SymDiff(u, b) = SymDiff(b, u)
      BY SumLaws, Zenon
    <3>3. SymDiff(SymDiff(b, u), v) = SymDiff(b, SymDiff(u, v))
      BY SumLaws, SMT
    <3> QED BY <3>1, <3>2, <3>3, Zenon
  <2>3. SymDiff(a, SymDiff(b, SymDiff(u, v))) = SymDiff(SymDiff(a, b), SymDiff(u, v))
    BY SumLaws, SMT
  <2> QED BY <2>1, <2>2, <2>3, Zenon
<1> QED BY <1>1, SMT

\* Multiples of the generator: what they contain, their sums and their shifts.
LEMMA InMultiple ==
  ASSUME NEW Q \in SUBSET Int
  PROVE  /\ Mult(Q) \in SUBSET Int
         /\ \A e \in Int : e \in Mult(Q) <=> (~(e - 16 \in Q <=> e - 12 \in Q)
                                               <=> (e - 5 \in Q <=> e \in Q))
<1>1. 16 \in Int /\ 12 \in Int /\ 5 \in Int
  BY SMT
<1>2. Shift(Q, 16) \in SUBSET Int /\ Shift(Q, 12) \in SUBSET Int /\ Shift(Q, 5) \in SUBSET Int
  BY <1>1, InShift, Zenon
<1>3. \A e \in Int : /\ e \in Shift(Q, 16) <=> e - 16 \in Q
                     /\ e \in Shift(Q, 12) <=> e - 12 \in Q
                     /\ e \in Shift(Q, 5) <=> e - 5 \in Q
  BY <1>1, InShift, Zenon
<1>4. Mult(Q) \in SUBSET Int
  <2>1. SymDiff(Shift(Q, 16), Shift(Q, 12)) \in SUBSET Int
    BY <1>2, SumType, SMT
  <2>2. SymDiff(Shift(Q, 5), Q) \in SUBSET Int
    BY <1>2, SumType, SMT
  <2> QED BY <2>1, <2>2, SumType, SMT DEF Mult
<1>5. ASSUME NEW e \in Int
      PROVE  e \in Mult(Q) <=> (~(e - 16 \in Q <=> e - 12 \in Q) <=> (e - 5 \in Q <=> e \in Q))
  <2>1. e \in Mult(Q) <=> ~(e \in SymDiff(Shift(Q, 16), Shift(Q, 12))
                             <=> e \in SymDiff(Shift(Q, 5), Q))
    BY InSum, SMT DEF Mult
  <2>2. e \in SymDiff(Shift(Q, 16), Shift(Q, 12)) <=> ~(e - 16 \in Q <=> e - 12 \in Q)
    BY <1>3, InSum, SMT
  <2>3. e \in SymDiff(Shift(Q, 5), Q) <=> ~(e - 5 \in Q <=> e \in Q)
    BY <1>3, InSum, SMT
  <2> QED BY <2>1, <2>2, <2>3, Zenon
<1> QED BY <1>4, <1>5, Zenon

\* The sum of two multiples of the generator is one.
LEMMA SumOfMultiples ==
  ASSUME NEW P \in SUBSET Int, NEW Q \in SUBSET Int
  PROVE  Mult(SymDiff(P, Q)) = SymDiff(Mult(P), Mult(Q))
<1>1. \A m \in Int : Shift(SymDiff(P, Q), m) = SymDiff(Shift(P, m), Shift(Q, m))
  BY ShiftLaws, SMT
<1>2. /\ Shift(SymDiff(P, Q), 16) = SymDiff(Shift(P, 16), Shift(Q, 16))
      /\ Shift(SymDiff(P, Q), 12) = SymDiff(Shift(P, 12), Shift(Q, 12))
      /\ Shift(SymDiff(P, Q), 5) = SymDiff(Shift(P, 5), Shift(Q, 5))
  BY <1>1, SMT
<1> QED BY <1>2, SumOfSums, SMT DEF Mult

\* So is a multiple times a power of x.
LEMMA ShiftOfMultiple ==
  ASSUME NEW Q \in SUBSET Int, NEW n \in Int
  PROVE  Mult(Shift(Q, n)) = Shift(Mult(Q), n)
<1>1. 16 \in Int /\ 12 \in Int /\ 5 \in Int
  BY SMT
<1>2. Shift(Q, 16) \in SUBSET Int /\ Shift(Q, 12) \in SUBSET Int /\ Shift(Q, 5) \in SUBSET Int
  BY <1>1, InShift, Zenon
<1>3. /\ SymDiff(Shift(Q, 16), Shift(Q, 12)) \in SUBSET Int
      /\ SymDiff(Shift(Q, 5), Q) \in SUBSET Int
  <2>1. SymDiff(Shift(Q, 16), Shift(Q, 12)) \in SUBSET Int
    BY <1>2, SumType, SMT
  <2>2. SymDiff(Shift(Q, 5), Q) \in SUBSET Int
    BY <1>2, SumType, SMT
  <2> QED BY <2>1, <2>2
<1>4. ASSUME NEW m \in Int PROVE Shift(Shift(Q, n), m) = Shift(Shift(Q, m), n)
  <2>1. m + n = n + m
    BY SMT
  <2> QED BY <2>1, ShiftLaws, SMT
<1>5. Shift(Mult(Q), n) = SymDiff(Shift(SymDiff(Shift(Q, 16), Shift(Q, 12)), n),
                                  Shift(SymDiff(Shift(Q, 5), Q), n))
  BY <1>3, ShiftLaws, SMT DEF Mult
<1>6. /\ Shift(SymDiff(Shift(Q, 16), Shift(Q, 12)), n)
           = SymDiff(Shift(Shift(Q, 16), n), Shift(Shift(Q, 12), n))
      /\ Shift(SymDiff(Shift(Q, 5), Q), n) = SymDiff(Shift(Shift(Q, 5), n), Shift(Q, n))
  BY <1>2, ShiftLaws, SMT
<1> QED BY <1>1, <1>4, <1>5, <1>6, Zenon DEF Mult

\* The empty multiple, and the generator itself, shifted.
LEMMA SmallMultiples ==
  /\ Mult({}) = {}
  /\ \A e \in Int : Mult({e}) = Shift(G, e)
<1>1. Mult({}) = {}
  <2>1. \A n : Shift({}, n) = {}
    BY Zenon DEF Shift
  <2>2. SymDiff({}, {}) = {}
    BY Zenon DEF SymDiff
  <2> QED BY <2>1, <2>2, SMT DEF Mult
<1>2. ASSUME NEW e \in Int PROVE Mult({e}) = Shift(G, e)
  <2>1. {e} \in SUBSET Int /\ G \in SUBSET Int
    BY SMT DEF G
  <2>2. Mult({e}) \in SUBSET Int /\ Shift(G, e) \in SUBSET Int
    BY <2>1, InMultiple, InShift, SMT
  <2>3. ASSUME NEW d \in Int PROVE d \in Mult({e}) <=> d \in Shift(G, e)
    <3>1. d \in Mult({e}) <=> (~(d - 16 \in {e} <=> d - 12 \in {e}) <=> (d - 5 \in {e} <=> d \in {e}))
      BY <2>1, InMultiple, SMT
    <3>2. d \in Shift(G, e) <=> d - e \in G
      BY <2>1, InShift, SMT
    <3>3. d - e \in G <=> (d - e = 16 \/ d - e = 12 \/ d - e = 5 \/ d - e = 0)
      BY DEF G
    <3> QED BY <3>1, <3>2, <3>3, SMT
  <2> QED BY <2>2, <2>3, SameIntegers, Zenon
<1> QED BY <1>1, <1>2, Zenon

\* Congruence is an equivalence, and addition and shifting keep it.
LEMMA Congruence ==
  /\ \A A : Congruent(A, A)
  /\ \A A, B : Congruent(A, B) => Congruent(B, A)
  /\ \A A, B, C : Congruent(A, B) /\ Congruent(B, C) => Congruent(A, C)
  /\ \A A, B, C : Congruent(A, B) => Congruent(SymDiff(A, C), SymDiff(B, C))
  /\ \A A, B \in SUBSET Int : \A n \in Nat :
       Congruent(A, B) => Congruent(Shift(A, n), Shift(B, n))
<1>1. ASSUME NEW A PROVE Congruent(A, A)
  <2>1. SymDiff(A, A) = Mult({})
    BY SumLaws, SmallMultiples, SMT
  <2>2. {} \in SUBSET (0..0) /\ 0 \in Nat
    BY SMT
  <2> QED BY <2>1, <2>2, Zenon DEF Congruent
<1>2. ASSUME NEW A, NEW B, Congruent(A, B) PROVE Congruent(B, A)
  <2>1. SymDiff(A, B) = SymDiff(B, A)
    BY SumLaws, SMT
  <2>2. PICK N \in Nat : \E Q \in SUBSET (0..N) : SymDiff(A, B) = Mult(Q)
    BY <1>2, Zenon DEF Congruent
  <2>3. PICK Q \in SUBSET (0..N) : SymDiff(B, A) = Mult(Q)
    BY <2>1, <2>2, SMT
  <2> QED BY <2>3, Zenon DEF Congruent
<1>3. ASSUME NEW A, NEW B, NEW C, Congruent(A, B), Congruent(B, C) PROVE Congruent(A, C)
  <2>a. PICK M \in Nat : \E P \in SUBSET (0..M) : SymDiff(A, B) = Mult(P)
    BY <1>3, Zenon DEF Congruent
  <2>1. PICK P \in SUBSET (0..M) : SymDiff(A, B) = Mult(P)
    BY <2>a, Zenon
  <2>b. PICK N \in Nat : \E Q \in SUBSET (0..N) : SymDiff(B, C) = Mult(Q)
    BY <1>3, Zenon DEF Congruent
  <2>2. PICK Q \in SUBSET (0..N) : SymDiff(B, C) = Mult(Q)
    BY <2>b, Zenon
  <2>3. /\ P \in SUBSET (0..M + N) /\ Q \in SUBSET (0..M + N) /\ M + N \in Nat
        /\ P \in SUBSET Int /\ Q \in SUBSET Int
    BY SMT
  <2>4. SymDiff(A, C) = SymDiff(SymDiff(A, B), SymDiff(B, C))
    <3>1. SymDiff(C, B) = SymDiff(B, C)
      BY SumLaws, SMT
    <3>2. SymDiff(SymDiff(A, B), SymDiff(C, B)) = SymDiff(A, C)
      BY SumLaws, SMT
    <3> QED BY <3>1, <3>2, SMT
  <2>5. SymDiff(A, C) = Mult(SymDiff(P, Q))
    <3>1. Mult(SymDiff(P, Q)) = SymDiff(Mult(P), Mult(Q))
      BY <2>3, SumOfMultiples, SMT
    <3> QED BY <2>1, <2>2, <2>4, <3>1, SMT
  <2>6. SymDiff(P, Q) \in SUBSET (0..M + N)
    BY <2>3, SMT DEF SymDiff
  <2> QED BY <2>3, <2>5, <2>6, Zenon DEF Congruent
<1>4. ASSUME NEW A, NEW B, NEW C, Congruent(A, B)
      PROVE  Congruent(SymDiff(A, C), SymDiff(B, C))
  <2>1. SymDiff(SymDiff(A, C), SymDiff(B, C)) = SymDiff(A, B)
    BY SumLaws, SMT
  <2> QED BY <1>4, <2>1, SMT DEF Congruent
<1>5. ASSUME NEW A \in SUBSET Int, NEW B \in SUBSET Int, NEW n \in Nat, Congruent(A, B)
      PROVE  Congruent(Shift(A, n), Shift(B, n))
  <2>0. PICK N \in Nat : \E Q \in SUBSET (0..N) : SymDiff(A, B) = Mult(Q)
    BY <1>5, Zenon DEF Congruent
  <2>1. PICK Q \in SUBSET (0..N) : SymDiff(A, B) = Mult(Q)
    BY <2>0, Zenon
  <2>2. n \in Int /\ Q \in SUBSET Int /\ N + n \in Nat
    BY SMT
  <2>3. SymDiff(Shift(A, n), Shift(B, n)) = Shift(Mult(Q), n)
    <3>1. Shift(SymDiff(A, B), n) = SymDiff(Shift(A, n), Shift(B, n))
      BY <2>2, ShiftLaws, SMT
    <3> QED BY <2>1, <3>1, SMT
  <2>4. Shift(Mult(Q), n) = Mult(Shift(Q, n))
    BY <2>2, ShiftOfMultiple, SMT
  <2>5. Shift(Q, n) \in SUBSET (0..N + n)
    BY SMT DEF Shift
  <2> QED BY <2>2, <2>3, <2>4, <2>5, SMT DEF Congruent
<1> QED BY <1>1, <1>2, <1>3, <1>4, <1>5, Zenon

\* A bounded set of naturals that is not empty has a greatest element.
LEMMA GreatestElement ==
  ASSUME NEW N \in Nat, NEW T \in SUBSET (0..N), T # {}
  PROVE  \E n \in T : \A m \in T : m <= n
<1> DEFINE U == {N - m : m \in T}
<1>1. U \in SUBSET Nat /\ U # {}
  <2>1. \A m \in T : N - m \in Nat
    <3>1. \A m \in 0..N : N - m \in Nat
      BY SMT
    <3> QED BY <3>1, Zenon
  <2> QED BY <2>1, Zenon
<1>2. PICK u \in U : \A v \in U : u <= v
  <2> HIDE DEF U
  <2> QED BY <1>1, LeastElement, Zenon
<1>3. PICK n \in T : u = N - n
  BY <1>2, Zenon
<1>4. ASSUME NEW m \in T PROVE m <= n
  <2>1. N - m \in U /\ m \in Int /\ n \in Int
    BY SMT
  <2>2. u <= N - m
    BY <1>2, <2>1, Zenon
  <2> HIDE DEF U
  <2> QED BY <1>3, <2>1, <2>2, SMT
<1> QED BY <1>4, Zenon

\* The exponents of a multiple of the generator that is not zero span more than
\* 16 positions: its least exponent is Q's, its greatest 16 above Q's.
LEMMA MultiplesAreWide ==
  ASSUME NEW N \in Nat, NEW Q \in SUBSET (0..N), Q # {}
  PROVE  \E a, b \in Mult(Q) : b - a >= 16
<1>1. Q \in SUBSET Nat /\ Q \in SUBSET Int /\ 0 \in Int
  BY SMT
<1>2. PICK a \in Q : \A m \in Q : a <= m
  BY <1>1, LeastElement, Zenon
<1>3. PICK b \in Q : \A m \in Q : m <= b
  BY GreatestElement, Zenon
<1>4. a \in Int /\ b \in Int /\ a <= b
  BY <1>1, <1>2, SMT
<1>5. \A e \in Int : e \in Mult(Q) <=> (~(e - 16 \in Q <=> e - 12 \in Q)
                                        <=> (e - 5 \in Q <=> e \in Q))
  BY <1>1, InMultiple, SMT
<1>6. a \in Mult(Q)
  <2>1. a - 16 \notin Q /\ a - 12 \notin Q /\ a - 5 \notin Q
    BY <1>2, <1>4, SMT
  <2> QED BY <1>4, <1>5, <2>1, SMT
<1>7. b + 16 \in Mult(Q)
  <2>1. (b + 16) - 12 \notin Q /\ (b + 16) - 5 \notin Q /\ b + 16 \notin Q
    BY <1>3, <1>4, SMT
  <2>2. (b + 16) - 16 = b /\ b + 16 \in Int
    BY <1>4, SMT
  <2> QED BY <1>5, <2>1, <2>2, SMT
<1>8. (b + 16) - a >= 16
  BY <1>4, SMT
<1> QED BY <1>6, <1>7, <1>8, Zenon

\* Congruent polynomials within the same 16 exponents are the same.
LEMMA CongruentAreEqual ==
  ASSUME NEW a \in Int, NEW A \in SUBSET (a..a + 15), NEW B \in SUBSET (a..a + 15),
         Congruent(A, B)
  PROVE  A = B
<1>0. PICK N \in Nat : \E Q \in SUBSET (0..N) : SymDiff(A, B) = Mult(Q)
  BY Zenon DEF Congruent
<1>1. PICK Q \in SUBSET (0..N) : SymDiff(A, B) = Mult(Q)
  BY <1>0, Zenon
<1>2. SymDiff(A, B) \in SUBSET (a..a + 15)
  BY SMT DEF SymDiff
<1>3. Q = {}
  <2> SUFFICES ASSUME Q # {} PROVE FALSE
    OBVIOUS
  <2>1. PICK d \in Mult(Q), e \in Mult(Q) : e - d >= 16
    BY MultiplesAreWide, Zenon
  <2>2. d \in a..a + 15 /\ e \in a..a + 15
    BY <1>1, <1>2, <2>1, SMT
  <2> QED BY <2>1, <2>2, SMT
<1>4. SymDiff(A, B) = {}
  BY <1>1, <1>3, SmallMultiples, SMT
<1> QED BY <1>4, Zenon DEF SymDiff

-----------------------------------------------------------------------------
(* CRC16: the register is congruent to the dividend of the bytes so far.    *)

Register == SUBSET (0..15)

\* A register, and a set of bits, is a polynomial.
LEMMA RegisterType == \A c \in Register : c \in SUBSET Int
BY SMT DEF Register

\* The sum of two registers is one.
LEMMA RegisterSum == \A c, d \in Register : SymDiff(c, d) \in Register
BY Zenon DEF Register, SymDiff

\* A shift of the register multiplies it by x, up to a multiple of the
\* generator.
LEMMA CrcBitShifts ==
  ASSUME NEW c \in Register
  PROVE  CrcBit(c) \in Register /\ Congruent(CrcBit(c), Shift(c, 1))
<1>1. \A b \in c : b \in Int /\ 0 <= b /\ b <= 15
  BY SMT DEF Register
<1>2. CASE 15 \notin c
  <2>1. CrcBit(c) = Shift(c, 1)
    <3>1. c \ {15} = c
      BY <1>2, Zenon
    <3> QED BY <1>2, <3>1, SMT DEF CrcBit, Doubled, Shift
  <2>2. Shift(c, 1) \in Register
    <3>1. \A b \in c : b + 1 \in 0..15
      <4>1. \A b \in c : b # 15
        BY <1>2, Zenon
      <4> QED BY <1>1, <4>1, SMT
    <3> QED BY <3>1, Zenon DEF Shift, Register
  <2>3. Congruent(Shift(c, 1), Shift(c, 1))
    BY Congruence, Zenon
  <2> QED BY <2>1, <2>2, <2>3, SMT
<1>3. CASE 15 \in c
  <2> DEFINE D == Doubled(c)
             H == {0, 5, 12}
             U == Shift(c, 1)
             Z == {0}
  <2>1. CrcBit(c) = SymDiff(D, H)
    BY <1>3, Zenon DEF CrcBit
  <2>2. D \in Register /\ D \in SUBSET Int /\ 16 \notin D
    <3>1. \A b \in c \ {15} : b + 1 \in 0..15 /\ b + 1 \in Int /\ b + 1 # 16
      BY <1>1, SMT
    <3> QED BY <3>1, Zenon DEF Doubled, Register
  <2>3. H \in Register /\ H \in SUBSET Int
    BY SMT DEF Register
  <2>4. U = D \cup {16}
    <3>1. ASSUME NEW x, x \in U PROVE x \in D \cup {16}
      <4>1. PICK b \in c : x = b + 1
        BY <3>1, Zenon DEF Shift
      <4>2. CASE b = 15
        BY <4>1, <4>2, SMT
      <4>3. CASE b # 15
        BY <4>1, <4>3, Zenon DEF Doubled
      <4> QED BY <4>2, <4>3
    <3>2. ASSUME NEW x, x \in D PROVE x \in U
      BY <3>2, Zenon DEF Doubled, Shift
    <3>3. 16 \in U
      <4>1. 15 + 1 = 16
        BY SMT
      <4> QED BY <1>3, <4>1, Zenon DEF Shift
    <3> HIDE DEF D, U
    <3> QED BY <3>1, <3>2, <3>3, Zenon
  <2>5. SymDiff(D, H) \in Register
    BY <2>2, <2>3, RegisterSum, SMT
  <2>6. SymDiff(SymDiff(D, H), U) = {16, 12, 5, 0}
    <3> HIDE DEF D, U
    <3>1. SymDiff(SymDiff(D, H), U) = SymDiff(SymDiff(H, D), U)
      BY SumLaws, SMT
    <3>2. SymDiff(SymDiff(H, D), U) = SymDiff(H, SymDiff(D, U))
      BY SumLaws, SMT
    <3>3. SymDiff(D, U) = {16}
      BY <2>2, <2>4, SMT DEF SymDiff
    <3>4. SymDiff(H, {16}) = {16, 12, 5, 0}
      BY SMT DEF SymDiff
    <3> QED BY <3>1, <3>2, <3>3, <3>4, SMT
  <2>7. Mult(Z) = {16, 12, 5, 0}
    <3>1. Mult({0}) = Shift(G, 0) /\ G \in SUBSET Int
      BY SmallMultiples, SMT DEF G
    <3> QED BY <3>1, ShiftLaws, SMT DEF G
  <2>8. Z \in SUBSET (0..0) /\ 0 \in Nat
    BY SMT
  <2>9. SymDiff(SymDiff(D, H), U) = Mult(Z)
    BY <2>6, <2>7, SMT
  <2> HIDE DEF D, H, U, Z
  <2>10. Congruent(SymDiff(D, H), U)
    BY <2>8, <2>9, Zenon DEF Congruent
  <2> QED BY <2>1, <2>5, <2>10, SMT DEF U
<1> QED BY <1>2, <1>3

\* The bits of a byte.
LEMMA BitsOfByte ==
  ASSUME NEW b \in Byte
  PROVE  Bits(b) \in SUBSET (0..7) /\ Bits(b) \in SUBSET Int /\ Shift(Bits(b), 8) \in Register
<1>1. b \in Nat /\ b < 256
  BY SMT DEF Byte
<1>2. ASSUME NEW k \in Bits(b) PROVE k \in 0..7
  <2>1. k \in 0..15 /\ (b \div Weight[k + 1]) % 2 = 1
    BY Zenon DEF Bits
  <2>2. ASSUME ~ (k \in 0..7) PROVE FALSE
    <3> DEFINE w == Weight[k + 1]
    <3>1. k \in 8..15
      BY <2>1, <2>2, SMT
    <3>2. w \in Nat /\ w >= 256
      BY <3>1, SMT DEF Weight
    <3>3. (b \div w) % 2 = 1
      BY <2>1
    <3> HIDE DEF w
    <3>4. b \div w = 0
      <4>1. w \in Nat \ {0} /\ 0 \in Int /\ b \in Int /\ b \in 0..w - 1 /\ b = w * 0 + b
        BY <1>1, <3>2, SMT
      <4>2. \A y \in Int : \A m \in 0..w - 1 : b = w * y + m => b \div w = y
        BY <4>1, DivisionUnique, Zenon
      <4> QED BY <4>1, <4>2, SMT
    <3> QED BY <3>3, <3>4, SMT
  <2> QED BY <2>2
<1>3. Bits(b) \in SUBSET (0..7)
  BY <1>2, Zenon
<1>4. \A k \in 0..7 : k \in Int /\ k + 8 \in 0..15
  BY SMT
<1>5. Bits(b) \in SUBSET Int
  BY <1>3, <1>4, Zenon
<1>6. Shift(Bits(b), 8) \in Register
  BY <1>3, <1>4, Zenon DEF Shift, Register
<1> QED BY <1>3, <1>5, <1>6

\* CrcBits is what its recursive definition says.
LEMMA CrcBitsAre ==
  ASSUME NEW crc \in Register, NEW byte \in Byte
  PROVE  LET r == CrcBits(crc, byte)
         IN  /\ r[0] = SymDiff(crc, Shift(Bits(byte), 8))
             /\ \A j \in 1..8 : r[j] = CrcBit(r[j - 1])
             /\ \A j \in 0..8 : r[j] \in Register
<1> DEFINE a == SymDiff(crc, {b + 8 : b \in Bits(byte)})
           bit == [c \in SUBSET (0..15) |-> CrcBit(c)]
           G8 == [p \in (1..8) \X Register |-> CrcBit(p[2])]
           Eq(h) == h = [j \in 0..8 |-> IF j = 0 THEN a ELSE bit[h[j - 1]]]
<1>1. a = SymDiff(crc, Shift(Bits(byte), 8)) /\ a \in Register
  <2>1. a = SymDiff(crc, Shift(Bits(byte), 8))
    BY Zenon DEF Shift
  <2>2. Shift(Bits(byte), 8) \in Register
    BY BitsOfByte, Zenon
  <2>3. SymDiff(crc, Shift(Bits(byte), 8)) \in Register
    BY <2>2, RegisterSum, SMT
  <2> QED BY <2>1, <2>3, Zenon
<1>2. \A c \in Register : CrcBit(c) \in Register /\ bit[c] = CrcBit(c)
  BY CrcBitShifts, Zenon DEF Register
<1> HIDE DEF a, bit
<1>3. G8 \in [(1..8) \X Register -> Register]
      /\ \A i \in 1..8, x \in Register : G8[<<i, x>>] = CrcBit(x)
  BY <1>2
<1>4. PICK h \in [0..8 -> Register] : Solves(h, a, 8, G8)
  <2>1. 8 \in Nat /\ a \in Register /\ G8 \in Steps(8, Register)
    BY <1>1, <1>3 DEF Steps
  <2> HIDE DEF G8
  <2> QED BY <2>1, Recursion
<1>5. ASSUME NEW i \in 1..8 PROVE h[i] = bit[h[i - 1]]
  <2>1. h[i - 1] \in Register
    BY <1>4, SMT
  <2> HIDE DEF G8
  <2>2. h[i] = CrcBit(h[i - 1])
    BY <1>3, <1>4, <2>1 DEF Solves
  <2> QED BY <1>2, <2>1, <2>2, Zenon
<1>6. Eq(h)
  BY <1>4, <1>5 DEF Solves
<1> DEFINE r == CrcBits(crc, byte)
<1>7. Eq(r)
  BY <1>6, Zenon DEF CrcBits, a, bit
<1> HIDE DEF r
<1>8. r[0] = a /\ \A j \in 1..8 : r[j] = bit[r[j - 1]]
  BY <1>7
<1>9. \A j \in 1..8 : r[j - 1] \in Register => r[j] \in Register
  BY <1>2, <1>8, Zenon
<1>10. \A j \in 0..8 : r[j] \in Register
  <2>1. 8 \in Nat /\ r[0] \in Register
    BY <1>1, <1>8
  <2> QED BY <1>9, <2>1, RecursiveType, Zenon
<1>11. ASSUME NEW j \in 1..8 PROVE r[j] = CrcBit(r[j - 1])
  <2>1. r[j - 1] \in Register
    <3>1. j - 1 \in 0..8
      BY SMT
    <3> QED BY <1>10, <3>1, Zenon
  <2> QED BY <1>2, <1>8, <2>1, Zenon
<1> QED BY <1>1, <1>8, <1>10, <1>11, SMT DEF r

\* A byte multiplies the register by x^8, and adds the byte times x^16.
LEMMA CrcByteShifts ==
  ASSUME NEW crc \in Register, NEW byte \in Byte
  PROVE  /\ CrcByte(crc, byte) \in Register
         /\ Congruent(CrcByte(crc, byte),
                      SymDiff(Shift(crc, 8), Shift(Bits(byte), 16)))
<1> DEFINE r == CrcBits(crc, byte)
           T == {j \in 0..8 : Congruent(r[j], Shift(r[0], j))}
<1>1. /\ r[0] = SymDiff(crc, Shift(Bits(byte), 8))
      /\ \A j \in 1..8 : r[j] = CrcBit(r[j - 1])
      /\ \A j \in 0..8 : r[j] \in Register
  BY CrcBitsAre, Zenon
<1>2. CrcByte(crc, byte) = r[8]
  BY Zenon DEF CrcByte
<1> HIDE DEF r
<1>3. 0 \in T
  <2>1. r[0] \in SUBSET Int /\ 0 \in 0..8
    BY <1>1, RegisterType, SMT
  <2>2. Shift(r[0], 0) = r[0]
    BY <2>1, ShiftLaws, SMT
  <2>3. Congruent(r[0], Shift(r[0], 0))
    BY <2>2, Congruence, SMT
  <2> QED BY <2>1, <2>3, Zenon
<1>4. ASSUME NEW j \in 0..8, j < 8, j \in T PROVE j + 1 \in T
  <2>1. j + 1 \in 0..8 /\ j + 1 \in 1..8 /\ (j + 1) - 1 = j /\ j \in Int /\ 1 \in Nat /\ 0 \in 0..8
    BY <1>4, SMT
  <2>2. r[j + 1] = CrcBit(r[j]) /\ r[j] \in Register /\ r[j] \in SUBSET Int /\ r[0] \in SUBSET Int
    <3>1. r[j + 1] = CrcBit(r[(j + 1) - 1])
      BY <1>1, <2>1, Zenon
    <3>2. r[j] \in Register /\ r[0] \in Register
      BY <1>1, <2>1, Zenon
    <3> QED BY <2>1, <3>1, <3>2, RegisterType, SMT
  <2>3. Congruent(r[j + 1], Shift(r[j], 1))
    BY <2>2, CrcBitShifts, SMT
  <2>4. Congruent(r[j], Shift(r[0], j))
    BY <1>4, Zenon
  <2>5. Shift(r[0], j) \in SUBSET Int
    BY <2>1, <2>2, InShift, Zenon
  <2>6. Congruent(Shift(r[j], 1), Shift(Shift(r[0], j), 1))
    BY <2>1, <2>2, <2>4, <2>5, Congruence, Zenon
  <2>7. Shift(Shift(r[0], j), 1) = Shift(r[0], j + 1)
    <3>1. 1 \in Int
      BY SMT
    <3> QED BY <2>1, <2>2, <3>1, ShiftLaws, SMT
  <2>8. Congruent(r[j + 1], Shift(r[0], j + 1))
    <3>1. Congruent(Shift(r[j], 1), Shift(r[0], j + 1))
      BY <2>6, <2>7, SMT
    <3> QED BY <2>3, <3>1, Congruence, Zenon
  <2> QED BY <2>1, <2>8, Zenon
<1>5. 8 \in T
  <2>1. 8 \in Nat /\ 8 \in 0..8 /\ \A j \in 0..8 : j < 8 /\ j \in T => j + 1 \in T
    BY <1>4, SMT
  <2>2. 0..8 \subseteq T
    <3> HIDE DEF T
    <3> QED BY <1>3, <2>1, Induction
  <2> QED BY <2>1, <2>2, Zenon
<1>6. Shift(r[0], 8) = SymDiff(Shift(crc, 8), Shift(Bits(byte), 16))
  <2>1. crc \in SUBSET Int /\ Bits(byte) \in SUBSET Int /\ 8 \in Int
    BY RegisterType, BitsOfByte, SMT
  <2>2. Shift(Bits(byte), 8) \in SUBSET Int
    BY <2>1, InShift, Zenon
  <2>3. Shift(SymDiff(crc, Shift(Bits(byte), 8)), 8)
          = SymDiff(Shift(crc, 8), Shift(Shift(Bits(byte), 8), 8))
    BY <2>1, <2>2, ShiftLaws, SMT
  <2>4. Shift(Shift(Bits(byte), 8), 8) = Shift(Bits(byte), 16)
    <3>1. 8 + 8 = 16
      BY SMT
    <3>2. Shift(Shift(Bits(byte), 8), 8) = Shift(Bits(byte), 8 + 8)
      BY <2>1, ShiftLaws, SMT
    <3> QED BY <3>1, <3>2, SMT
  <2> QED BY <1>1, <2>3, <2>4, SMT
<1>7. r[8] \in Register /\ Congruent(r[8], Shift(r[0], 8))
  <2>1. 8 \in 0..8
    BY SMT
  <2> QED BY <1>1, <1>5, <2>1, Zenon
<1> QED BY <1>2, <1>6, <1>7, SMT

\* CrcRegister is what its recursive definition says.
LEMMA CrcRegisterIs ==
  ASSUME NEW data \in Seq(Byte)
  PROVE  /\ CrcRegister(data)[0] = 0..15
         /\ \A i \in 1..Len(data) :
              CrcRegister(data)[i] = CrcByte(CrcRegister(data)[i - 1], data[i])
         /\ \A i \in 0..Len(data) : CrcRegister(data)[i] \in Register
<1> DEFINE N == Len(data)
           GN == [p \in (1..N) \X Register |-> CrcByte(p[2], data[p[1]])]
           a == 0..15
           Eq(h) == h = [i \in 0..N |-> IF i = 0 THEN a ELSE CrcByte(h[i - 1], data[i])]
<1>1. N \in Nat /\ a \in Register
  <2>1. N \in Nat
    BY LenProperties
  <2> QED BY <2>1, Zenon DEF Register
<1>2. \A i \in 1..N : data[i] \in Byte
  BY ElementOfSeq
<1>3. \A i \in 1..N, x \in Register : CrcByte(x, data[i]) \in Register
  BY <1>2, CrcByteShifts, Zenon
<1> HIDE DEF N
<1>4. GN \in [(1..N) \X Register -> Register]
      /\ \A i \in 1..N, x \in Register : GN[<<i, x>>] = CrcByte(x, data[i])
  BY <1>3
<1>5. PICK h \in [0..N -> Register] : Solves(h, a, N, GN)
  <2>1. GN \in Steps(N, Register)
    BY <1>4 DEF Steps
  <2> HIDE DEF GN, a
  <2> QED BY <1>1, <2>1, Recursion
<1>6. ASSUME NEW i \in 1..N PROVE h[i] = CrcByte(h[i - 1], data[i])
  <2>1. h[i - 1] \in Register
    BY <1>1, <1>5, SMT
  <2> HIDE DEF GN
  <2> QED BY <1>4, <1>5, <2>1 DEF Solves
<1>7. h[0] = a
  BY <1>5 DEF Solves
<1> HIDE DEF a
<1>8. Eq(h)
  BY <1>1, <1>5, <1>6, <1>7
<1> DEFINE r == CrcRegister(data)
<1>9. Eq(r)
  BY <1>8, Zenon DEF CrcRegister, a, N
<1> HIDE DEF r
<1>10. r[0] = a /\ \A i \in 1..N : r[i] = CrcByte(r[i - 1], data[i])
  BY <1>1, <1>9
<1>11. \A j \in 1..N : r[j - 1] \in Register => r[j] \in Register
  BY <1>3, <1>10, Zenon
<1>12. \A j \in 0..N : r[j] \in Register
  <2>1. r[0] \in Register
    BY <1>1, <1>10, Zenon
  <2> QED BY <1>1, <1>11, <2>1, RecursiveType, Zenon
<1> QED BY <1>10, <1>12, Zenon DEF r, a, N

\* The polynomial of the first i bytes, and what the CRC of them divides.
PolyTo(data, i) == {e \in 0..8 * i - 1 : e % 8 \in Bits(data[i - (e \div 8)])}
Dividend(data, i) == SymDiff(Shift(PolyTo(data, i), 16), Shift(0..15, 8 * i))

\* One more byte is added below the others.
LEMMA PolyGrows ==
  ASSUME NEW data \in Seq(Byte), NEW i \in 0..Len(data), i < Len(data)
  PROVE  PolyTo(data, i + 1) = SymDiff(Shift(PolyTo(data, i), 8), Bits(data[i + 1]))
<1> DEFINE b == data[i + 1]
           U == PolyTo(data, i + 1)
           V == Shift(PolyTo(data, i), 8)
           W == SymDiff(V, Bits(b))
<1>1. Len(data) \in Nat /\ i \in Nat /\ i + 1 \in 1..Len(data)
  <2>1. Len(data) \in Nat
    BY LenProperties
  <2> QED BY <2>1, SMT
<1>2. b \in Byte
  BY <1>1, ElementOfSeq
<1>3. Bits(b) \in SUBSET (0..7) /\ Bits(b) \in SUBSET Int
  BY <1>2, BitsOfByte, Zenon
<1>4. PolyTo(data, i) \in SUBSET Int
  <2>1. 0..8 * i - 1 \in SUBSET Int
    BY <1>1, SMT
  <2> QED BY <2>1, Zenon DEF PolyTo
<1>5. V \in SUBSET Int /\ \A e \in Int : e \in V <=> e - 8 \in PolyTo(data, i)
  <2>1. 8 \in Int
    BY SMT
  <2> QED BY <1>4, <2>1, InShift, Zenon
<1>6. U \in SUBSET Int
  <2>1. 0..8 * (i + 1) - 1 \in SUBSET Int
    BY <1>1, SMT
  <2> QED BY <2>1, Zenon DEF PolyTo
<1>7. W \in SUBSET Int
  BY <1>3, <1>5, SumType, SMT
<1>8. ASSUME NEW e \in Int PROVE e \in U <=> e \in W
  <2>1. e \in W <=> ~(e - 8 \in PolyTo(data, i) <=> e \in Bits(b))
    <3>1. e \in V <=> e - 8 \in PolyTo(data, i)
      BY <1>5
    <3> HIDE DEF V
    <3>2. e \in W <=> ~(e \in V <=> e \in Bits(b))
      BY InSum, SMT
    <3> QED BY <3>1, <3>2, Zenon
  <2>2. e \in U <=> e \in 0..8 * (i + 1) - 1 /\ e % 8 \in Bits(data[(i + 1) - (e \div 8)])
    BY Zenon DEF PolyTo
  <2>3. e - 8 \in PolyTo(data, i)
          <=> e - 8 \in 0..8 * i - 1 /\ (e - 8) % 8 \in Bits(data[i - ((e - 8) \div 8)])
    BY Zenon DEF PolyTo
  <2> HIDE DEF U, V, W
  <2>4. CASE e < 0
    <3>1. e \notin 0..8 * (i + 1) - 1 /\ e - 8 \notin 0..8 * i - 1 /\ e \notin 0..7
      BY <1>1, <2>4, SMT
    <3>2. e \notin Bits(b)
      BY <1>3, <3>1, Zenon
    <3> QED BY <2>1, <2>2, <2>3, <3>1, <3>2, Zenon
  <2>5. CASE e \in 0..7
    <3>1. e - 8 \notin 0..8 * i - 1 /\ e \in 0..8 * (i + 1) - 1
      BY <1>1, <2>5, SMT
    <3>2. e % 8 = e /\ (i + 1) - (e \div 8) = i + 1
      BY <1>1, <2>5, SMT
    <3>3. e \in U <=> e \in Bits(b)
      BY <2>2, <3>1, <3>2, SMT
    <3> QED BY <2>1, <2>3, <3>1, <3>3, Zenon
  <2>6. CASE e >= 8
    <3>1. e \notin 0..7 /\ (e - 8 \in 0..8 * i - 1 <=> e \in 0..8 * (i + 1) - 1)
      BY <1>1, <2>6, SMT
    <3>2. (e - 8) % 8 = e % 8 /\ i - ((e - 8) \div 8) = (i + 1) - (e \div 8)
      BY <1>1, <2>6, SMT
    <3>3. e \notin Bits(b)
      BY <1>3, <3>1, Zenon
    <3>4. e \in U <=> e - 8 \in PolyTo(data, i)
      BY <2>2, <2>3, <3>1, <3>2, SMT
    <3> QED BY <2>1, <3>3, <3>4, Zenon
  <2> QED BY <2>4, <2>5, <2>6, SMT
<1> HIDE DEF U, W
<1>9. U = W
  BY <1>6, <1>7, <1>8, SameIntegers, Zenon
<1> QED BY <1>9 DEF U, V, W, b

\* The polynomials that a CRC is about are sets of integers.
LEMMA PolyType ==
  ASSUME NEW data, NEW i \in Nat
  PROVE  /\ PolyTo(data, i) \in SUBSET Int /\ Shift(PolyTo(data, i), 16) \in SUBSET Int
         /\ 0..15 \in SUBSET Int /\ Shift(0..15, 8 * i) \in SUBSET Int
         /\ Dividend(data, i) \in SUBSET Int
<1>1. PolyTo(data, i) \in SUBSET Int
  <2>1. 0..8 * i - 1 \in SUBSET Int
    BY SMT
  <2> QED BY <2>1, Zenon DEF PolyTo
<1>2. 16 \in Int /\ 8 * i \in Int /\ 0..15 \in SUBSET Int
  BY SMT
<1>3. Shift(PolyTo(data, i), 16) \in SUBSET Int /\ Shift(0..15, 8 * i) \in SUBSET Int
  BY <1>1, <1>2, InShift, Zenon
<1>4. Dividend(data, i) \in SUBSET Int
  BY <1>3, SumType, SMT DEF Dividend
<1> QED BY <1>1, <1>2, <1>3, <1>4

\* One more byte multiplies the dividend by x^8 and adds the byte times x^16.
LEMMA DividendGrows ==
  ASSUME NEW data \in Seq(Byte), NEW i \in 0..Len(data), i < Len(data)
  PROVE  Dividend(data, i + 1)
           = SymDiff(Shift(Dividend(data, i), 8), Shift(Bits(data[i + 1]), 16))
<1> DEFINE P == PolyTo(data, i)
           I == 0..15
           B == Bits(data[i + 1])
           n == 8 * i
<1>1. Len(data) \in Nat /\ i \in Nat /\ i + 1 \in 1..Len(data)
  <2>1. Len(data) \in Nat
    BY LenProperties
  <2> QED BY <2>1, SMT
<1>2. B \in SUBSET Int
  <2>1. data[i + 1] \in Byte
    BY <1>1, ElementOfSeq
  <2> QED BY <2>1, BitsOfByte, Zenon
<1>3. PolyTo(data, i + 1) = SymDiff(Shift(P, 8), B)
  BY PolyGrows, Zenon
<1>4. /\ n \in Int /\ 8 \in Int /\ 16 \in Int /\ 8 * (i + 1) = n + 8
      /\ 16 + 8 = 24 /\ 8 + 16 = 24
  BY <1>1, SMT
<1>5. P \in SUBSET Int /\ I \in SUBSET Int /\ Shift(P, 16) \in SUBSET Int /\ Shift(I, n) \in SUBSET Int
  BY <1>1, PolyType, Zenon
<1>6. Shift(P, 8) \in SUBSET Int
  BY <1>4, <1>5, InShift, Zenon
<1>7. Dividend(data, i + 1)
        = SymDiff(Shift(SymDiff(Shift(P, 8), B), 16), Shift(I, n + 8))
  BY <1>3, <1>4, SMT DEF Dividend
<1>8. Dividend(data, i) = SymDiff(Shift(P, 16), Shift(I, n))
  BY Zenon DEF Dividend
<1> HIDE DEF P, I, B, n
<1>9. Shift(SymDiff(Shift(P, 8), B), 16) = SymDiff(Shift(P, 24), Shift(B, 16))
  <2>1. Shift(SymDiff(Shift(P, 8), B), 16) = SymDiff(Shift(Shift(P, 8), 16), Shift(B, 16))
    BY <1>2, <1>4, <1>6, ShiftLaws, SMT
  <2>2. Shift(Shift(P, 8), 16) = Shift(P, 8 + 16)
    BY <1>4, <1>5, ShiftLaws, SMT
  <2> QED BY <1>4, <2>1, <2>2, SMT
<1>10. Shift(SymDiff(Shift(P, 16), Shift(I, n)), 8) = SymDiff(Shift(P, 24), Shift(I, n + 8))
  <2>1. Shift(SymDiff(Shift(P, 16), Shift(I, n)), 8)
          = SymDiff(Shift(Shift(P, 16), 8), Shift(Shift(I, n), 8))
    BY <1>4, <1>5, ShiftLaws, SMT
  <2>2. Shift(Shift(P, 16), 8) = Shift(P, 16 + 8)
    BY <1>4, <1>5, ShiftLaws, SMT
  <2>3. Shift(Shift(I, n), 8) = Shift(I, n + 8)
    BY <1>4, <1>5, ShiftLaws, SMT
  <2> QED BY <1>4, <2>1, <2>2, <2>3, SMT
<1>11. \A X, Y, Z : SymDiff(SymDiff(X, Y), Z) = SymDiff(SymDiff(X, Z), Y)
  <2> TAKE X, Y, Z
  <2>1. SymDiff(SymDiff(X, Y), Z) = SymDiff(X, SymDiff(Y, Z))
    BY SumLaws, SMT
  <2>2. SymDiff(Y, Z) = SymDiff(Z, Y)
    BY SumLaws, SMT
  <2>3. SymDiff(SymDiff(X, Z), Y) = SymDiff(X, SymDiff(Z, Y))
    BY SumLaws, SMT
  <2> QED BY <2>1, <2>2, <2>3, SMT
<1>12. SymDiff(SymDiff(Shift(P, 24), Shift(B, 16)), Shift(I, n + 8))
         = SymDiff(SymDiff(Shift(P, 24), Shift(I, n + 8)), Shift(B, 16))
  BY <1>11, SMT
<1>13. Dividend(data, i + 1) = SymDiff(Shift(Dividend(data, i), 8), Shift(B, 16))
  BY <1>7, <1>8, <1>9, <1>10, <1>12, SMT
<1> QED BY <1>13, SMT DEF B

\* After every byte the register is congruent to the dividend.
LEMMA RegisterIsRemainder ==
  ASSUME NEW data \in Seq(Byte)
  PROVE  \A i \in 0..Len(data) : Congruent(CrcRegister(data)[i], Dividend(data, i))
<1> DEFINE N == Len(data)
           r == CrcRegister(data)
           T == {i \in 0..N : Congruent(r[i], Dividend(data, i))}
<1>1. N \in Nat
  BY LenProperties
<1>2. /\ r[0] = 0..15
      /\ \A i \in 1..N : r[i] = CrcByte(r[i - 1], data[i])
      /\ \A i \in 0..N : r[i] \in Register
  BY CrcRegisterIs, Zenon
<1> HIDE DEF N, r
<1>3. 0 \in T
  <2>1. PolyTo(data, 0) = {}
    <3>1. 0..8 * 0 - 1 = {}
      BY SMT
    <3> QED BY <3>1, SMT DEF PolyTo
  <2>2. Shift({}, 16) = {}
    BY Zenon DEF Shift
  <2> DEFINE I == 0..15
  <2>a. 8 * 0 = 0 /\ I \in SUBSET Int /\ r[0] = I
    BY <1>2, SMT
  <2>5. Dividend(data, 0) = SymDiff(Shift(PolyTo(data, 0), 16), Shift(I, 8 * 0))
    BY Zenon DEF Dividend
  <2> HIDE DEF I
  <2>3. Shift(I, 0) = I
    BY <2>a, ShiftLaws, SMT
  <2>4. SymDiff({}, I) = I
    BY Zenon DEF SymDiff
  <2>b. Dividend(data, 0) = I
    <3>1. Shift(I, 8 * 0) = I
      BY <2>3, <2>a, Zenon
    <3>2. Shift(PolyTo(data, 0), 16) = {}
      BY <2>1, <2>2, Zenon
    <3> QED BY <2>4, <2>5, <3>1, <3>2, Zenon
  <2>6. Congruent(r[0], Dividend(data, 0))
    <3>1. Congruent(I, I)
      BY Congruence, Zenon
    <3> QED BY <2>a, <2>b, <3>1, SMT
  <2>7. 0 \in 0..N
    BY <1>1, SMT
  <2> QED BY <2>6, <2>7, Zenon
<1>4. ASSUME NEW i \in 0..N, i < N, i \in T PROVE i + 1 \in T
  <2>1. i + 1 \in 0..N /\ i + 1 \in 1..N /\ (i + 1) - 1 = i /\ i \in Nat /\ 8 \in Nat
    BY <1>1, <1>4, SMT
  <2> DEFINE b == data[i + 1]
             D == Dividend(data, i)
             X == Shift(Bits(b), 16)
  <2>2. b \in Byte
    BY <1>1, <2>1, ElementOfSeq DEF N
  <2>3. r[i] \in Register /\ r[i] \in SUBSET Int /\ D \in SUBSET Int
    <3>1. r[i] \in Register
      BY <1>2, <2>1, Zenon
    <3>2. D \in SUBSET Int
      BY <2>1, PolyType, Zenon
    <3> QED BY <3>1, <3>2, RegisterType, Zenon
  <2>4. r[i + 1] = CrcByte(r[i], b)
    <3>1. r[i + 1] = CrcByte(r[(i + 1) - 1], data[i + 1])
      BY <1>2, <2>1, Zenon
    <3> QED BY <2>1, <3>1, SMT
  <2>5. Dividend(data, i + 1) = SymDiff(Shift(D, 8), X)
    BY <1>4, DividendGrows, Zenon DEF N
  <2>6. Congruent(r[i], D)
    BY <1>4, Zenon
  <2> HIDE DEF b, D
  <2>7. Congruent(r[i + 1], SymDiff(Shift(r[i], 8), X))
    BY <2>2, <2>3, <2>4, CrcByteShifts, SMT
  <2> HIDE DEF X
  <2>8. Congruent(Shift(r[i], 8), Shift(D, 8))
    <3>1. \A n \in Nat : Congruent(Shift(r[i], n), Shift(D, n))
      BY <2>3, <2>6, Congruence, Zenon
    <3> QED BY <2>1, <3>1, Zenon
  <2>9. Congruent(SymDiff(Shift(r[i], 8), X), SymDiff(Shift(D, 8), X))
    BY <2>8, Congruence, SMT
  <2>10. Congruent(r[i + 1], SymDiff(Shift(D, 8), X))
    BY <2>7, <2>9, Congruence, SMT
  <2>11. Congruent(r[i + 1], Dividend(data, i + 1))
    BY <2>5, <2>10, SMT
  <2> QED BY <2>1, <2>11, Zenon
<1>5. 0..N \subseteq T
  <2>1. \A i \in 0..N : i < N /\ i \in T => i + 1 \in T
    BY <1>4
  <2> HIDE DEF T
  <2> QED BY <1>1, <1>3, <2>1, Induction
<1> QED BY <1>5, Zenon DEF N, r

\* The checksum's bits are the register after the last byte.
LEMMA ChecksumIs ==
  ASSUME NEW data \in Seq(Byte)
  PROVE  LET c == Bits(nuki_crc16(data))
         IN  /\ nuki_crc16(data) \in Word /\ c \in Register
             /\ Congruent(c, Dividend(data, Len(data)))
<1> DEFINE N == Len(data)
           c == CrcRegister(data)[N]
<1>1. N \in 0..N
  <2>1. N \in Nat
    BY LenProperties
  <2> QED BY <2>1, SMT
<1>2. c \in Register /\ Congruent(c, Dividend(data, N))
  BY <1>1, CrcRegisterIs, RegisterIsRemainder, Zenon
<1>3. nuki_crc16(data) = Number(c)
  BY Zenon DEF nuki_crc16
<1> HIDE DEF c
<1>4. Bits(Number(c)) = c
  BY <1>2, BitsOfNumber, Zenon DEF Register
<1>5. Number(c) \in Word
  BY NumberRange, Zenon
<1> QED BY <1>2, <1>3, <1>4, <1>5, SMT

\* A step of the long division removes the leading exponent and changes the
\* rest by a multiple of the generator.
LEMMA DivideRemoves ==
  ASSUME NEW e \in Int, e >= 16, NEW S \in SUBSET (0..e)
  PROVE  Divide(S, e) \in SUBSET (0..e - 1) /\ Congruent(Divide(S, e), S)
<1>1. CASE e \notin S
  <2>1. Divide(S, e) = S
    BY <1>1, Zenon DEF Divide
  <2>2. S \in SUBSET (0..e - 1)
    <3>1. \A d \in 0..e : d # e => d \in 0..e - 1
      BY SMT
    <3> QED BY <1>1, <3>1, Zenon
  <2>3. Congruent(S, S)
    BY Congruence, Zenon
  <2> QED BY <2>1, <2>2, <2>3, SMT
<1>2. CASE e \in S
  <2> DEFINE X == Shift(G, e - 16)
             Z == {e - 16}
  <2>1. Divide(S, e) = SymDiff(S, X)
    BY <1>2, Zenon DEF Divide
  <2>2. X = {e, e - 4, e - 11, e - 16}
    <3>1. /\ 16 + (e - 16) = e /\ 12 + (e - 16) = e - 4 /\ 5 + (e - 16) = e - 11
          /\ 0 + (e - 16) = e - 16
      BY SMT
    <3>2. X = {16 + (e - 16), 12 + (e - 16), 5 + (e - 16), 0 + (e - 16)}
      <4> DEFINE f == e - 16
      <4> HIDE DEF f
      <4>1. Shift(G, f) = {16 + f, 12 + f, 5 + f, 0 + f}
        BY Zenon DEF Shift, G
      <4> QED BY <4>1 DEF f
    <3> QED BY <3>1, <3>2, SMT
  <2>3. X = Mult(Z)
    <3>1. e - 16 \in Int
      BY SMT
    <3> QED BY <3>1, SmallMultiples, SMT
  <2>4. SymDiff(S, X) \in SUBSET (0..e - 1)
    <3>1. ASSUME NEW d \in SymDiff(S, X) PROVE d \in 0..e - 1
      <4>1. ~(d \in S <=> d \in X)
        BY InSum, SMT
      <4>2. d # e
        BY <1>2, <2>2, <4>1, SMT
      <4>3. d \in 0..e
        <5>1. d \in S => d \in 0..e
          BY Zenon
        <5>2. \A x \in {e, e - 4, e - 11, e - 16} : x \in 0..e
          BY SMT
        <5> QED BY <2>2, <4>1, <5>1, <5>2, Zenon
      <4> QED BY <4>2, <4>3, SMT
    <3> QED BY <3>1, Zenon
  <2>5. Z \in SUBSET (0..e) /\ e \in Nat
    BY SMT
  <2> HIDE DEF X, Z
  <2>6. SymDiff(SymDiff(S, X), S) = Mult(Z)
    <3>1. SymDiff(SymDiff(S, X), S) = SymDiff(SymDiff(X, S), SymDiff({}, S))
      <4>1. SymDiff(S, X) = SymDiff(X, S) /\ SymDiff({}, S) = SymDiff(S, {}) /\ SymDiff(S, {}) = S
        BY SumLaws, SMT
      <4> QED BY <4>1, SMT
    <3>2. SymDiff(SymDiff(X, S), SymDiff({}, S)) = SymDiff(X, {})
      BY SumLaws, SMT
    <3>3. SymDiff(X, {}) = X
      BY SumLaws, SMT
    <3> QED BY <2>3, <3>1, <3>2, <3>3, SMT
  <2>7. Congruent(SymDiff(S, X), S)
    BY <2>5, <2>6, Zenon DEF Congruent
  <2> QED BY <2>1, <2>4, <2>7, SMT
<1> QED BY <1>1, <1>2

\* The dividend of n bits has no exponent above n + 15.
LEMMA DividendBound ==
  ASSUME NEW data, NEW i \in Nat
  PROVE  Dividend(data, i) \in SUBSET (0..8 * i + 15)
<1> DEFINE P == PolyTo(data, i)
           I == 0..15
           m == 8 * i
<1>1. m \in Nat
  BY SMT
<1>2. P \in SUBSET (0..m - 1)
  BY Zenon DEF PolyTo
<1>3. Dividend(data, i) = SymDiff(Shift(P, 16), Shift(I, m))
  BY Zenon DEF Dividend
<1> HIDE DEF P, m
<1>4. Shift(P, 16) \in SUBSET (0..m + 15)
  <2>1. \A d \in 0..m - 1 : d + 16 \in 0..m + 15
    BY <1>1, SMT
  <2> QED BY <1>2, <2>1, Zenon DEF Shift
<1>5. Shift(I, m) \in SUBSET (0..m + 15)
  <2>1. \A d \in I : d + m \in 0..m + 15
    BY <1>1, SMT
  <2> HIDE DEF I
  <2> QED BY <2>1, Zenon DEF Shift
<1> HIDE DEF I
<1>6. SymDiff(Shift(P, 16), Shift(I, m)) \in SUBSET (0..m + 15)
  BY <1>4, <1>5, Zenon DEF SymDiff
<1> QED BY <1>3, <1>6, SMT DEF m

\* nuki_crc16 is the remainder of the long division, for every byte sequence.
THEOREM CrcDivides ==
  \A data \in Seq(Byte) : Bits(nuki_crc16(data)) = CrcReference(data)
<1> SUFFICES ASSUME NEW data \in Seq(Byte)
             PROVE  Bits(nuki_crc16(data)) = CrcReference(data)
  OBVIOUS
<1> DEFINE n == 8 * Len(data)
           D == SymDiff(Shift(Poly(data), 16), Shift(0..15, n))
           S == SUBSET Int
           GD == [p \in (1..n) \X S |-> Divide(p[2], n + 16 - p[1])]
           Eq(h) == h = [i \in 0..n |-> IF i = 0 THEN D ELSE Divide(h[i - 1], n + 16 - i)]
           rest == CHOOSE h : Eq(h)
<1>1. Len(data) \in Nat /\ n \in Nat
  <2>1. Len(data) \in Nat
    BY LenProperties
  <2> QED BY <2>1, SMT
<1>2. D = Dividend(data, Len(data))
  BY Zenon DEF Dividend, Poly, PolyTo
<1>3. CrcReference(data) = rest[n]
  BY Zenon DEF CrcReference
<1>4. D \in S /\ D \in SUBSET (0..n + 15)
  BY <1>1, <1>2, PolyType, DividendBound, SMT
<1> HIDE DEF n, D, S
<1>5. \A i \in 1..n, x \in S : Divide(x, n + 16 - i) \in S
  <2> SUFFICES ASSUME NEW i \in 1..n, NEW x \in S PROVE Divide(x, n + 16 - i) \in S
    OBVIOUS
  <2>1. n + 16 - i \in Int /\ (n + 16 - i) - 16 \in Int
    BY <1>1, SMT
  <2>2. G \in SUBSET Int
    BY SMT DEF G
  <2>3. Shift(G, (n + 16 - i) - 16) \in SUBSET Int
    BY <2>1, <2>2, InShift, Zenon
  <2>4. SymDiff(x, Shift(G, (n + 16 - i) - 16)) \in SUBSET Int
    BY <2>3, SumType, SMT DEF S
  <2> QED BY <2>4, Zenon DEF Divide, S
<1>6. GD \in [(1..n) \X S -> S]
      /\ \A i \in 1..n, x \in S : GD[<<i, x>>] = Divide(x, n + 16 - i)
  BY <1>5
<1>7. PICK h \in [0..n -> S] : Solves(h, D, n, GD)
  <2>1. GD \in Steps(n, S)
    BY <1>6 DEF Steps
  <2> HIDE DEF GD
  <2> QED BY <1>1, <1>4, <2>1, Recursion
<1>8. ASSUME NEW i \in 1..n PROVE h[i] = Divide(h[i - 1], n + 16 - i)
  <2>1. h[i - 1] \in S
    BY <1>1, <1>7, SMT
  <2> HIDE DEF GD
  <2> QED BY <1>6, <1>7, <2>1 DEF Solves
<1>9. h[0] = D
  BY <1>7 DEF Solves
<1>10. Eq(h)
  BY <1>1, <1>7, <1>8, <1>9
<1>11. Eq(rest)
  BY <1>10, Zenon
<1> HIDE DEF rest
<1>12. rest[0] = D /\ \A i \in 1..n : rest[i] = Divide(rest[i - 1], n + 16 - i)
  BY <1>1, <1>11
<1> DEFINE T == {i \in 0..n : rest[i] \in SUBSET (0..n + 15 - i) /\ Congruent(rest[i], D)}
<1>13. 0 \in T
  <2>1. 0 \in 0..n /\ n + 15 - 0 = n + 15
    BY <1>1, SMT
  <2>2. Congruent(D, D)
    BY Congruence, Zenon
  <2>3. rest[0] \in SUBSET (0..n + 15 - 0) /\ Congruent(rest[0], D)
    BY <1>4, <1>12, <2>1, <2>2, SMT
  <2> QED BY <2>1, <2>3, Zenon
<1>14. ASSUME NEW i \in 0..n, i < n, i \in T PROVE i + 1 \in T
  <2> DEFINE e == n + 15 - i
  <2>1. /\ i + 1 \in 0..n /\ i + 1 \in 1..n /\ (i + 1) - 1 = i /\ e \in Int /\ e >= 16
        /\ n + 16 - (i + 1) = e /\ n + 15 - (i + 1) = e - 1
    BY <1>1, <1>14, SMT
  <2>2. rest[i] \in SUBSET (0..e) /\ Congruent(rest[i], D)
    BY <1>14, Zenon
  <2> HIDE DEF e
  <2>3. rest[i + 1] = Divide(rest[i], e)
    <3>1. rest[i + 1] = Divide(rest[(i + 1) - 1], n + 16 - (i + 1))
      BY <1>12, <2>1, Zenon
    <3> QED BY <2>1, <3>1, SMT
  <2>4. Divide(rest[i], e) \in SUBSET (0..e - 1) /\ Congruent(Divide(rest[i], e), rest[i])
    BY <2>1, <2>2, DivideRemoves, Zenon
  <2>5. Congruent(rest[i + 1], D)
    <3>1. Congruent(rest[i + 1], rest[i])
      BY <2>3, <2>4, SMT
    <3> QED BY <2>2, <3>1, Congruence, Zenon
  <2>6. rest[i + 1] \in SUBSET (0..n + 15 - (i + 1))
    BY <2>1, <2>3, <2>4, SMT
  <2> QED BY <2>1, <2>5, <2>6, Zenon
<1>15. n \in T
  <2>1. n \in 0..n /\ \A i \in 0..n : i < n /\ i \in T => i + 1 \in T
    BY <1>1, <1>14
  <2>2. 0..n \subseteq T
    <3> HIDE DEF T
    <3> QED BY <1>1, <1>13, <2>1, Induction
  <2> QED BY <2>1, <2>2, Zenon
<1> DEFINE c == Bits(nuki_crc16(data))
<1>16. rest[n] \in SUBSET (0..0 + 15) /\ Congruent(rest[n], D)
  <2>1. n + 15 - n = 0 + 15
    BY <1>1, SMT
  <2>2. rest[n] \in SUBSET (0..n + 15 - n) /\ Congruent(rest[n], D)
    BY <1>15, Zenon
  <2> QED BY <2>1, <2>2, SMT
<1>17. c \in SUBSET (0..0 + 15) /\ Congruent(c, D)
  <2>1. c \in Register /\ Congruent(c, D)
    BY <1>2, ChecksumIs, SMT
  <2>2. 0 + 15 = 15
    BY SMT
  <2> QED BY <2>1, <2>2, SMT DEF Register
<1> HIDE DEF c
<1>18. Congruent(c, rest[n])
  BY <1>16, <1>17, Congruence, Zenon
<1>19. c = rest[n]
  <2>1. 0 \in Int
    BY SMT
  <2> QED BY <1>16, <1>17, <1>18, <2>1, CongruentAreEqual, Zenon
<1> QED BY <1>3, <1>19 DEF c

-----------------------------------------------------------------------------
(* Damage: which frames the CRC tells apart.                                *)

\* The bits of byte i that E changes, and E by exponents, in n bytes.
Changed(E, i) == {b \in 0..7 : 8 * i - 1 - b \in E}
Mirror(E, n) == {e \in 0..8 * n - 1 : 8 * n - 1 - e \in E}

\* A byte is a number of up to 16 bits.
LEMMA ByteIsWord == \A b \in Byte : b \in 0..W16 - 1
<1> DEFINE w == W16 - 1
<1>1. w \in Int /\ 255 <= w
  BY SMT DEF W16
<1> HIDE DEF w
<1>2. \A b \in 0..255 : b \in 0..w
  BY <1>1, SMT
<1> QED BY <1>2, Zenon DEF Byte, w

\* What damage does to each byte.
LEMMA DamageIs ==
  ASSUME NEW s \in Seq(Byte), NEW E
  PROVE  LET d == Damage(s, E)
         IN  /\ d \in Seq(Byte) /\ Len(d) = Len(s)
             /\ \A i \in 1..Len(s) : /\ Bits(d[i]) = SymDiff(Bits(s[i]), Changed(E, i))
                                     /\ Changed(E, i) = {} => d[i] = s[i]
<1> DEFINE N == Len(s)
           d == Damage(s, E)
           v(i) == Number(SymDiff(Bits(s[i]), Changed(E, i)))
<1>1. N \in Nat
  BY LenProperties
<1>2. d = [i \in 1..N |-> v(i)]
  BY Zenon DEF Damage, Changed
<1>3. ASSUME NEW i \in 1..N
      PROVE  /\ v(i) \in Byte /\ Bits(v(i)) = SymDiff(Bits(s[i]), Changed(E, i))
             /\ Changed(E, i) = {} => v(i) = s[i]
  <2> DEFINE F == Changed(E, i)
             B == Bits(s[i])
             X == SymDiff(B, F)
  <2>1. s[i] \in Byte
    BY ElementOfSeq
  <2>2. B \in SUBSET (0..7)
    BY <2>1, BitsOfByte, Zenon
  <2>3. F \in SUBSET (0..7)
    BY Zenon DEF Changed
  <2>4. X \in SUBSET (0..7)
    <3> HIDE DEF B, F
    <3> QED BY <2>2, <2>3, Zenon DEF SymDiff
  <2>5. X \in SUBSET (0..15)
    <3>1. \A b \in 0..7 : b \in 0..15
      BY SMT
    <3> QED BY <2>4, <3>1, Zenon
  <2>6. v(i) = Number(X)
    OBVIOUS
  <2>7. ASSUME F = {} PROVE Number(X) = s[i]
    <3>1. X = B
      BY <2>7, SumLaws, SMT
    <3>2. s[i] \in 0..W16 - 1
      BY <2>1, ByteIsWord, Zenon
    <3>3. Number(B) = s[i]
      BY <3>2, NumberOfBits, Zenon
    <3> QED BY <3>1, <3>3, SMT
  <2> HIDE DEF X
  <2>8. Number(X) \in Byte /\ Bits(Number(X)) = X
    BY <2>4, <2>5, NumberRange, BitsOfNumber, Zenon
  <2> QED BY <2>6, <2>7, <2>8, SMT DEF X
<1> HIDE DEF N, d, v
<1>4. d \in Seq(Byte) /\ Len(d) = N /\ \A i \in 1..N : d[i] = v(i)
  <2>1. \A i \in 1..N : v(i) \in Byte
    BY <1>3
  <2> QED BY <1>1, <1>2, <2>1
<1>5. ASSUME NEW i \in 1..N
      PROVE  /\ Bits(d[i]) = SymDiff(Bits(s[i]), Changed(E, i))
             /\ Changed(E, i) = {} => d[i] = s[i]
  <2>1. d[i] = v(i)
    BY <1>4
  <2> QED BY <1>3, <2>1, SMT
<1> QED BY <1>4, <1>5, SMT DEF d, N

\* Damage adds the changed bits to the polynomial.
LEMMA DamageAdds ==
  ASSUME NEW s \in Seq(Byte), NEW E
  PROVE  SymDiff(PolyTo(Damage(s, E), Len(s)), PolyTo(s, Len(s))) = Mirror(E, Len(s))
<1> DEFINE n == Len(s)
           d == Damage(s, E)
           U == PolyTo(d, n)
           V == PolyTo(s, n)
           M == Mirror(E, n)
           J == 0..8 * n - 1
<1>1. n \in Nat
  BY LenProperties
<1>2. \A i \in 1..n : Bits(d[i]) = SymDiff(Bits(s[i]), Changed(E, i))
  BY DamageIs, SMT
<1> HIDE DEF d, n
<1>3. U \in SUBSET J /\ V \in SUBSET J /\ M \in SUBSET J
  BY Zenon DEF PolyTo, Mirror
<1>4. ASSUME NEW e \in J PROVE e \in M <=> ~(e \in U <=> e \in V)
  <2> DEFINE q == e \div 8
             b == e % 8
             i == n - q
  <2>1. q \in Int /\ b \in 0..7 /\ e = 8 * q + b /\ i \in 1..n
    BY <1>1, SMT
  <2>2. (e \in U <=> b \in Bits(d[i])) /\ (e \in V <=> b \in Bits(s[i]))
    BY Zenon DEF PolyTo
  <2>3. e \in M <=> 8 * n - 1 - e \in E
    BY Zenon DEF Mirror
  <2>4. 8 * i - 1 - b = 8 * n - 1 - e
    <3>1. i = n - q
      OBVIOUS
    <3> HIDE DEF i, q, b
    <3> QED BY <1>1, <2>1, <3>1, SMT
  <2> HIDE DEF q, b, i, U, V, M
  <2>5. b \in Changed(E, i) <=> e \in M
    <3>1. b \in Changed(E, i) <=> 8 * i - 1 - b \in E
      BY <2>1, Zenon DEF Changed
    <3> QED BY <2>3, <2>4, <3>1, SMT
  <2>6. b \in Bits(d[i]) <=> ~(b \in Bits(s[i]) <=> b \in Changed(E, i))
    <3>1. Bits(d[i]) = SymDiff(Bits(s[i]), Changed(E, i))
      BY <1>2, <2>1, Zenon
    <3> QED BY <3>1, InSum, SMT
  <2> QED BY <2>2, <2>5, <2>6, Zenon
<1> HIDE DEF U, V, M, J
<1>5. SymDiff(U, V) = M
  BY <1>3, <1>4, Zenon DEF SymDiff
<1> QED BY <1>5 DEF U, V, M, d, n

\* A body in which something within 16 consecutive bits has changed has another
\* checksum.
LEMMA BurstChangesChecksum ==
  ASSUME NEW s \in Seq(Byte), NEW a \in Int, NEW E \in SUBSET (a..a + 15), E # {},
         E \in SUBSET (0..8 * Len(s) - 1)
  PROVE  nuki_crc16(Damage(s, E)) # nuki_crc16(s)
<1> SUFFICES ASSUME nuki_crc16(Damage(s, E)) = nuki_crc16(s) PROVE FALSE
  OBVIOUS
<1> DEFINE n == Len(s)
           d == Damage(s, E)
           c == Bits(nuki_crc16(s))
           U == Shift(PolyTo(d, n), 16)
           V == Shift(PolyTo(s, n), 16)
           I == Shift(0..15, 8 * n)
           M == Mirror(E, n)
           X == Shift(M, 16)
<1>1. n \in Nat
  BY LenProperties
<1>2. d \in Seq(Byte) /\ Len(d) = n
  BY DamageIs, SMT
<1>3. Congruent(c, SymDiff(V, I))
  BY ChecksumIs, SMT DEF Dividend
<1>4. Congruent(c, SymDiff(U, I))
  <2>1. Congruent(Bits(nuki_crc16(d)), Dividend(d, Len(d)))
    <3> HIDE DEF d
    <3> QED BY <1>2, ChecksumIs, Zenon
  <2>2. Bits(nuki_crc16(d)) = c
    BY SMT
  <2>3. Dividend(d, n) = SymDiff(U, I)
    BY Zenon DEF Dividend
  <2> HIDE DEF d, c, U, I
  <2> QED BY <1>2, <2>1, <2>2, <2>3, SMT
<1>5. SymDiff(PolyTo(d, n), PolyTo(s, n)) = M
  BY DamageAdds, Zenon
<1>6. PolyTo(d, n) \in SUBSET Int /\ PolyTo(s, n) \in SUBSET Int
  <2> HIDE DEF d, n
  <2> QED BY <1>1, PolyType, Zenon
<1>7. SymDiff(U, V) = X
  <2>1. 16 \in Int
    BY SMT
  <2> HIDE DEF d, n, M
  <2> QED BY <1>5, <1>6, <2>1, ShiftLaws, SMT
<1>8. M \in SUBSET (0..8 * n - 1) /\ \A e \in M : 8 * n - 1 - e \in E
  BY Zenon DEF Mirror
<1>9. PICK x \in E : TRUE
  BY Zenon
<1>10. M # {}
  <2>1. x \in 0..8 * n - 1
    BY Zenon
  <2> HIDE DEF n
  <2>2. 8 * n - 1 - x \in 0..8 * n - 1 /\ 8 * n - 1 - (8 * n - 1 - x) = x
    BY <1>1, <2>1, SMT
  <2>3. 8 * n - 1 - x \in M
    BY <2>2, SMT DEF Mirror
  <2> QED BY <2>3, Zenon
<1> HIDE DEF n, c, d, U, V, I
<1>11. Congruent(X, {})
  <2>1. Congruent(SymDiff(U, I), SymDiff(V, I))
    BY <1>3, <1>4, Congruence, Zenon
  <2>2. SymDiff(SymDiff(U, I), SymDiff(V, I)) = SymDiff(U, V)
    BY SumLaws, SMT
  <2>3. SymDiff(SymDiff(V, I), SymDiff(V, I)) = {}
    BY SumLaws, SMT
  <2> DEFINE Y == SymDiff(V, I)
             Z == SymDiff(U, I)
  <2>4. SymDiff(Z, Y) = X /\ SymDiff(Y, Y) = {} /\ Congruent(Z, Y)
    BY <1>7, <2>1, <2>2, <2>3, SMT
  <2> HIDE DEF X, Y, Z
  <2>5. Congruent(SymDiff(Z, Y), SymDiff(Y, Y))
    BY <2>4, Congruence, Zenon
  <2> QED BY <2>4, <2>5, SMT
<1> DEFINE z == 8 * n - a
<1>12. z \in Int
  BY <1>1, SMT
<1>13. X \in SUBSET (z..z + 15)
  <2>1. ASSUME NEW e \in M PROVE e + 16 \in z..z + 15
    <3>1. e \in 0..8 * n - 1 /\ 8 * n - 1 - e \in a..a + 15
      BY <1>8, Zenon
    <3> HIDE DEF M
    <3> QED BY <1>1, <3>1, SMT
  <2> HIDE DEF M, z
  <2> QED BY <2>1, Zenon DEF Shift
<1>14. X = {}
  <2>1. {} \in SUBSET (z..z + 15)
    BY Zenon
  <2> HIDE DEF X, z
  <2> QED BY <1>11, <1>12, <1>13, <2>1, CongruentAreEqual, Zenon
<1>15. X # {}
  BY <1>10, Zenon DEF Shift
<1> QED BY <1>14, <1>15

-----------------------------------------------------------------------------
(* Salsa20: words and rounds.                                               *)

\* The range of a word, and remainders.
LEMMA WordIs ==
  /\ \A n : n \in Word <=> n \in Int /\ 0 <= n /\ n < 65536
  /\ \A n \in Int : n % 65536 \in Word
  /\ W16 = 65536
<1> DEFINE b == W16 - 1
<1>1. b \in Int /\ Word = 0..b /\ \A n \in Int : n <= b <=> n < 65536
  BY SMT DEF Word, W16
<1>2. W16 = 65536
  BY SMT DEF W16
<1> HIDE DEF b
<1>3. \A n : n \in Word <=> n \in Int /\ 0 <= n /\ n < 65536
  BY <1>1, SMT
<1>4. \A n \in Int : n % 65536 \in Int /\ 0 <= n % 65536 /\ n % 65536 < 65536
  BY SMT
<1> QED BY <1>2, <1>3, <1>4, SMT

\* A pair of words and its halves.
LEMMA Halves ==
  /\ \A x \in Word32 : x[1] \in Word /\ x[2] \in Word /\ x = <<x[1], x[2]>>
  /\ \A a, b \in Word : <<a, b>> \in Word32 /\ <<a, b>>[1] = a /\ <<a, b>>[2] = b
BY SMT DEF Word32

\* The sum of two words is a word.
LEMMA AddType == \A a, b \in Word32 : add32(a, b) \in Word32
<1> SUFFICES ASSUME NEW a \in Word32, NEW b \in Word32 PROVE add32(a, b) \in Word32
  OBVIOUS
<1> DEFINE low == a[2] + b[2]
           m == (a[1] + b[1] + (low \div 65536)) % 65536
           l == low % 65536
<1>1. a[1] \in Int /\ a[2] \in Int /\ b[1] \in Int /\ b[2] \in Int
  BY Halves, WordIs, SMT
<1>2. low \in Int /\ low \div 65536 \in Int
  BY <1>1, SMT
<1>3. a[1] + b[1] + (low \div 65536) \in Int
  <2> HIDE DEF low
  <2> QED BY <1>1, <1>2, SMT
<1>4. m \in Word /\ l \in Word
  <2> DEFINE x == a[1] + b[1] + (low \div 65536)
  <2>1. x \in Int /\ low \in Int
    BY <1>2, <1>3
  <2> HIDE DEF x, low
  <2>2. x % 65536 \in Word /\ low % 65536 \in Word
    BY <2>1, WordIs, SMT
  <2> QED BY <2>2, SMT DEF x
<1>5. add32(a, b) = <<m, l>>
  BY WordIs, SMT DEF add32
<1> HIDE DEF m, l
<1> QED BY <1>4, <1>5, Halves, SMT

\* xor32 returns a word.
LEMMA XorType == \A a, b : xor32(a, b) \in Word32
BY NumberRange, SMT DEF xor32, xor16, Word32

\* So does rotl32, for the distances the core uses.
LEMMA RotateType == \A x \in Word32 : \A c \in {7, 9, 13, 18} : rotl32(x, c) \in Word32
<1> SUFFICES ASSUME NEW x \in Word32, NEW c \in {7, 9, 13, 18} PROVE rotl32(x, c) \in Word32
  OBVIOUS
<1> DEFINE J(a, b, up) == ((a * up) % 65536) + ((b * up) \div 65536)
<1>1. ASSUME NEW a \in Word, NEW b \in Word, NEW up \in {128, 512, 8192, 4}
      PROVE  J(a, b, up) \in Word
  <2>1. a \in Int /\ 0 <= a /\ a < 65536 /\ b \in Int /\ 0 <= b /\ b < 65536
    BY WordIs, SMT
  <2>2. J(a, b, up) \in Int /\ 0 <= J(a, b, up) /\ J(a, b, up) < 65536
    <3>1. CASE up = 128
      BY <2>1, <3>1, SMT
    <3>2. CASE up = 512
      BY <2>1, <3>2, SMT
    <3>3. CASE up = 8192
      BY <2>1, <3>3, SMT
    <3>4. CASE up = 4
      BY <2>1, <3>4, SMT
    <3> QED BY <3>1, <3>2, <3>3, <3>4
  <2> QED BY <2>2, WordIs, SMT
<1>2. x[1] \in Word /\ x[2] \in Word
  BY Halves, SMT
<1>3. /\ c = 7 => rotl32(x, c) = <<J(x[1], x[2], 128), J(x[2], x[1], 128)>>
      /\ c = 9 => rotl32(x, c) = <<J(x[1], x[2], 512), J(x[2], x[1], 512)>>
      /\ c = 13 => rotl32(x, c) = <<J(x[1], x[2], 8192), J(x[2], x[1], 8192)>>
      /\ c = 18 => rotl32(x, c) = <<J(x[2], x[1], 4), J(x[1], x[2], 4)>>
  <2>1. 7 % 16 = 7 /\ 9 % 16 = 9 /\ 13 % 16 = 13 /\ 18 % 16 = 2
    BY SMT
  <2>2. Weight[7 + 1] = 128 /\ Weight[9 + 1] = 512 /\ Weight[13 + 1] = 8192 /\ Weight[2 + 1] = 4
    BY SMT DEF Weight
  <2> QED BY <2>1, <2>2, WordIs, SMT DEF rotl32
<1> HIDE DEF J
<1>4. /\ J(x[1], x[2], 128) \in Word /\ J(x[2], x[1], 128) \in Word
      /\ J(x[1], x[2], 512) \in Word /\ J(x[2], x[1], 512) \in Word
      /\ J(x[1], x[2], 8192) \in Word /\ J(x[2], x[1], 8192) \in Word
      /\ J(x[1], x[2], 4) \in Word /\ J(x[2], x[1], 4) \in Word
  BY <1>1, <1>2, SMT
<1> QED BY <1>3, <1>4, Halves, SMT

\* Subtraction undoes addition.
LEMMA SubUndoesAdd == \A a, b \in Word32 : sub32(add32(a, b), b) = a
<1> SUFFICES ASSUME NEW a \in Word32, NEW b \in Word32 PROVE sub32(add32(a, b), b) = a
  OBVIOUS
<1> DEFINE ah == a[1]
           al == a[2]
           bh == b[1]
           bl == b[2]
           sl == (al + bl) % 65536
           sh == (ah + bh + ((al + bl) \div 65536)) % 65536
           dl == (sl - bl) % 65536
           dh == (sh - bh + ((sl - bl) \div 65536)) % 65536
<1>1. /\ ah \in Int /\ 0 <= ah /\ ah < 65536 /\ al \in Int /\ 0 <= al /\ al < 65536
      /\ bh \in Int /\ 0 <= bh /\ bh < 65536 /\ bl \in Int /\ 0 <= bl /\ bl < 65536
  BY Halves, WordIs, SMT
<1>2. add32(a, b) = <<sh, sl>>
  BY WordIs, SMT DEF add32
<1>3. sub32(add32(a, b), b) = <<dh, dl>>
  BY <1>2, WordIs, SMT DEF sub32
<1>4. dl = al /\ dh = ah
  <2> HIDE DEF ah, al, bh, bl
  <2> QED BY <1>1, SMT
<1>5. a = <<ah, al>>
  BY Halves, SMT
<1> QED BY <1>3, <1>4, <1>5, SMT

Four == [1..4 -> Word32]

\* One step of the mixing keeps four words four words.
LEMMA MixOneType ==
  ASSUME NEW t \in Four, NEW j \in 1..4, NEW a \in 1..4, NEW b \in 1..4,
         NEW c \in {7, 9, 13, 18}
  PROVE  MixOne(t, j, a, b, c) \in Four
<1> DEFINE v == xor32(t[j], rotl32(add32(t[a], t[b]), c))
<1>1. v \in Word32
  BY XorType, Zenon
<1>2. MixOne(t, j, a, b, c) = [t EXCEPT ![j] = v]
  BY Zenon DEF MixOne
<1> HIDE DEF v
<1> QED BY <1>1, <1>2, Zenon DEF Four

\* So does all of it.
LEMMA MixType == \A t \in Four : Mix(t) \in Four
<1> SUFFICES ASSUME NEW t \in Four PROVE Mix(t) \in Four
  OBVIOUS
<1> DEFINE m1 == MixOne(t, 2, 1, 4, 7)
           m2 == MixOne(m1, 3, 2, 1, 9)
           m3 == MixOne(m2, 4, 3, 2, 13)
           m4 == MixOne(m3, 1, 4, 3, 18)
           Eq(u) == u = [i \in 0..4 |->
                           IF i = 0 THEN t
                           ELSE IF i = 1 THEN MixOne(u[0], 2, 1, 4, 7)
                           ELSE IF i = 2 THEN MixOne(u[1], 3, 2, 1, 9)
                           ELSE IF i = 3 THEN MixOne(u[2], 4, 3, 2, 13)
                           ELSE MixOne(u[3], 1, 4, 3, 18)]
           h == [i \in 0..4 |-> IF i = 0 THEN t ELSE IF i = 1 THEN m1 ELSE IF i = 2 THEN m2
                                ELSE IF i = 3 THEN m3 ELSE m4]
           w == CHOOSE u : Eq(u)
<1>1. h[0] = t /\ h[1] = m1 /\ h[2] = m2 /\ h[3] = m3 /\ h[4] = m4
  <2> HIDE DEF m1, m2, m3, m4
  <2> QED BY SMT
<1>2. Eq(h)
  <2> DEFINE g == h
  <2>1. g[0] = t /\ g[1] = m1 /\ g[2] = m2 /\ g[3] = m3
    BY <1>1, SMT
  <2>2. g = h
    OBVIOUS
  <2> HIDE DEF g
  <2>3. /\ m1 = MixOne(g[0], 2, 1, 4, 7) /\ m2 = MixOne(g[1], 3, 2, 1, 9)
        /\ m3 = MixOne(g[2], 4, 3, 2, 13) /\ m4 = MixOne(g[3], 1, 4, 3, 18)
    BY <2>1, Zenon
  <2> HIDE DEF m1, m2, m3, m4
  <2>4. Eq(g)
    BY <2>2, <2>3, Zenon
  <2> QED BY <2>2, <2>4, Zenon
<1>3. Eq(w)
  <2> HIDE DEF h
  <2> QED BY <1>2, Zenon
<1>4. Mix(t) = w[4]
  BY DEF Mix
<1> HIDE DEF w
<1>5. /\ w[0] = t /\ w[1] = MixOne(w[0], 2, 1, 4, 7) /\ w[2] = MixOne(w[1], 3, 2, 1, 9)
      /\ w[3] = MixOne(w[2], 4, 3, 2, 13) /\ w[4] = MixOne(w[3], 1, 4, 3, 18)
  BY <1>3, SMT
<1>6. 1 \in 1..4 /\ 2 \in 1..4 /\ 3 \in 1..4 /\ 4 \in 1..4
  BY SMT
<1>7. w[1] \in Four
  BY <1>5, <1>6, MixOneType, SMT
<1>8. w[2] \in Four
  BY <1>5, <1>6, <1>7, MixOneType, SMT
<1>9. w[3] \in Four
  BY <1>5, <1>6, <1>8, MixOneType, SMT
<1>10. w[4] \in Four
  BY <1>5, <1>6, <1>9, MixOneType, SMT
<1> QED BY <1>4, <1>10, SMT

\* Four words as a sequence.
LEMMA FourIsSeq ==
  /\ \A t \in Four : t \in Seq(Word32) /\ Len(t) = 4 /\ \A i \in 1..4 : t[i] \in Word32
  /\ \A a, b, c, d \in Word32 : <<a, b, c, d>> \in Four
<1>1. ASSUME NEW t \in Four
      PROVE  t \in Seq(Word32) /\ Len(t) = 4 /\ \A i \in 1..4 : t[i] \in Word32
  <2>1. \A S : \A n \in Nat : \A c \in [1..n -> S] : c \in Seq(S) /\ Len(c) = n
    OBVIOUS
  <2>2. 4 \in Nat /\ t \in [1..4 -> Word32]
    BY DEF Four
  <2>3. t \in Seq(Word32) /\ Len(t) = 4
    BY <2>1, <2>2, Zenon
  <2>4. \A i \in 1..4 : t[i] \in Word32
    BY <2>2, Zenon
  <2> QED BY <2>3, <2>4
<1>2. ASSUME NEW a \in Word32, NEW b \in Word32, NEW c \in Word32, NEW d \in Word32
      PROVE  <<a, b, c, d>> \in Four
  BY SMT DEF Four
<1> QED BY <1>1, <1>2, SMT

\* Turned by j places.
LEMMA TurnIs ==
  ASSUME NEW t \in Four, NEW j \in 0..3
  PROVE  /\ Turn(t, j) \in Seq(Word32) /\ Len(Turn(t, j)) = 4
         /\ \A i \in 1..j : Turn(t, j)[i] = t[4 - j + i]
         /\ \A i \in 1..4 - j : Turn(t, j)[j + i] = t[i]
<1> DEFINE u == SubSeq(t, (4 - j) + 1, (4 - j) + j)
           v == SubSeq(t, 0 + 1, 0 + (4 - j))
<1>1. t \in Seq(Word32) /\ Len(t) = 4 /\ \A i \in 1..4 : t[i] \in Word32
  BY FourIsSeq, SMT
<1>2. (4 - j) + 1 = 5 - j /\ (4 - j) + j = 4 /\ 0 + 1 = 1 /\ 0 + (4 - j) = 4 - j
  BY SMT
<1>3. Turn(t, j) = u \o v
  BY <1>2, SMT DEF Turn
<1>4. 4 - j \in Nat /\ j \in Nat /\ 0 \in Nat
  BY SMT
<1>5. u = [i \in 1..j |-> t[(4 - j) + i]]
  BY <1>4, PartOf, SMT
<1>6. v = [i \in 1..4 - j |-> t[0 + i]]
  BY <1>4, PartOf, SMT
<1> HIDE DEF u, v
<1>7. u \in Seq(Word32) /\ Len(u) = j /\ \A i \in 1..j : u[i] = t[(4 - j) + i]
  <2>1. \A i \in 1..j : (4 - j) + i \in 1..4
    BY SMT
  <2> QED BY <1>1, <1>4, <1>5, <2>1
<1>8. v \in Seq(Word32) /\ Len(v) = 4 - j /\ \A i \in 1..4 - j : v[i] = t[i]
  <2>1. \A i \in 1..4 - j : 0 + i \in 1..4 /\ 0 + i = i
    BY SMT
  <2> QED BY <1>1, <1>4, <1>6, <2>1
<1>9. /\ u \o v \in Seq(Word32) /\ Len(u \o v) = Len(u) + Len(v)
      /\ \A i \in 1..Len(u) : (u \o v)[i] = u[i]
      /\ \A i \in 1..Len(v) : (u \o v)[Len(u) + i] = v[i]
  <2>1. u \in Seq(Word32) /\ v \in Seq(Word32)
    BY <1>7, <1>8
  <2> QED BY <2>1, Joined, SMT
<1>10. j + (4 - j) = 4
  BY SMT
<1> QED BY <1>3, <1>4, <1>7, <1>8, <1>9, <1>10, SMT

\* The four ways the columns are turned.
LEMMA Turns ==
  ASSUME NEW t \in Four
  PROVE  /\ \A j \in 0..3 : Turn(t, j) \in Seq(Word32) /\ Len(Turn(t, j)) = 4
         /\ \A i \in 1..4 : Turn(t, 0)[i] = t[i]
         /\ Turn(t, 1)[1] = t[4] /\ Turn(t, 1)[2] = t[1] /\ Turn(t, 1)[3] = t[2]
         /\ Turn(t, 1)[4] = t[3]
         /\ Turn(t, 2)[1] = t[3] /\ Turn(t, 2)[2] = t[4] /\ Turn(t, 2)[3] = t[1]
         /\ Turn(t, 2)[4] = t[2]
         /\ Turn(t, 3)[1] = t[2] /\ Turn(t, 3)[2] = t[3] /\ Turn(t, 3)[3] = t[4]
         /\ Turn(t, 3)[4] = t[1]
<1>1. \A j \in 0..3 : Turn(t, j) \in Seq(Word32) /\ Len(Turn(t, j)) = 4
  BY TurnIs, Zenon
<1>2. \A j \in 0..3 : \A i \in 1..j : Turn(t, j)[i] = t[4 - j + i]
  BY TurnIs, Zenon
<1>3. \A j \in 0..3 : \A i \in 1..4 - j : Turn(t, j)[j + i] = t[i]
  BY TurnIs, Zenon
<1>4. \A i \in 1..4 : Turn(t, 0)[i] = t[i]
  <2>1. 0 \in 0..3 /\ 4 - 0 = 4 /\ \A i \in 1..4 : 0 + i = i
    BY SMT
  <2> QED BY <1>3, <2>1, SMT
<1>5. /\ Turn(t, 1)[1] = t[4] /\ Turn(t, 1)[2] = t[1] /\ Turn(t, 1)[3] = t[2]
      /\ Turn(t, 1)[4] = t[3]
  <2>1. 1 \in 0..3 /\ 1 \in 1..1 /\ 1 \in 1..4 - 1 /\ 2 \in 1..4 - 1 /\ 3 \in 1..4 - 1
    BY SMT
  <2>2. /\ Turn(t, 1)[1] = t[4 - 1 + 1] /\ Turn(t, 1)[1 + 1] = t[1] /\ Turn(t, 1)[1 + 2] = t[2]
        /\ Turn(t, 1)[1 + 3] = t[3]
    BY <1>2, <1>3, <2>1, Zenon
  <2>3. 4 - 1 + 1 = 4 /\ 1 + 1 = 2 /\ 1 + 2 = 3 /\ 1 + 3 = 4
    BY SMT
  <2> QED BY <2>2, <2>3, Zenon
<1>6. /\ Turn(t, 2)[1] = t[3] /\ Turn(t, 2)[2] = t[4] /\ Turn(t, 2)[3] = t[1]
      /\ Turn(t, 2)[4] = t[2]
  <2>1. 2 \in 0..3 /\ 1 \in 1..2 /\ 2 \in 1..2 /\ 1 \in 1..4 - 2 /\ 2 \in 1..4 - 2
    BY SMT
  <2>2. /\ Turn(t, 2)[1] = t[4 - 2 + 1] /\ Turn(t, 2)[2] = t[4 - 2 + 2] /\ Turn(t, 2)[2 + 1] = t[1]
        /\ Turn(t, 2)[2 + 2] = t[2]
    BY <1>2, <1>3, <2>1, Zenon
  <2>3. 4 - 2 + 1 = 3 /\ 4 - 2 + 2 = 4 /\ 2 + 1 = 3 /\ 2 + 2 = 4
    BY SMT
  <2> QED BY <2>2, <2>3, Zenon
<1>7. /\ Turn(t, 3)[1] = t[2] /\ Turn(t, 3)[2] = t[3] /\ Turn(t, 3)[3] = t[4]
      /\ Turn(t, 3)[4] = t[1]
  <2>1. 3 \in 0..3 /\ 1 \in 1..3 /\ 2 \in 1..3 /\ 3 \in 1..3 /\ 1 \in 1..4 - 3
    BY SMT
  <2>2. /\ Turn(t, 3)[1] = t[4 - 3 + 1] /\ Turn(t, 3)[2] = t[4 - 3 + 2] /\ Turn(t, 3)[3] = t[4 - 3 + 3]
        /\ Turn(t, 3)[3 + 1] = t[1]
    BY <1>2, <1>3, <2>1, Zenon
  <2>3. 4 - 3 + 1 = 2 /\ 4 - 3 + 2 = 3 /\ 4 - 3 + 3 = 4 /\ 3 + 1 = 4
    BY SMT
  <2> QED BY <2>2, <2>3, Zenon
<1> QED BY <1>1, <1>4, <1>5, <1>6, <1>7, Zenon

\* Sixteen words as a sequence.
LEMMA BlockIsSeq ==
  /\ \A x \in Block : x \in Seq(Word32) /\ Len(x) = 16 /\ \A i \in 1..16 : x[i] \in Word32
  /\ \A x \in Seq(Word32) : Len(x) = 16 => x \in Block
<1>1. \A S : \A n \in Nat : \A c \in [1..n -> S] : c \in Seq(S) /\ Len(c) = n
  OBVIOUS
<1>2. ASSUME NEW x \in Block
      PROVE  x \in Seq(Word32) /\ Len(x) = 16 /\ \A i \in 1..16 : x[i] \in Word32
  <2>1. 16 \in Nat
    BY SMT
  <2>2. x \in [1..16 -> Word32]
    BY DEF Block
  <2>3. x \in Seq(Word32) /\ Len(x) = 16
    BY <1>1, <2>1, <2>2, Zenon
  <2> QED BY <2>2, <2>3, Zenon
<1>3. ASSUME NEW x \in Seq(Word32), Len(x) = 16 PROVE x \in Block
  <2>1. x \in [1..Len(x) -> Word32]
    BY LenProperties, Zenon
  <2> QED BY <1>3, <2>1, Zenon DEF Block
<1> QED BY <1>2, <1>3, Zenon

Cat(s, t) == s \o t
Text == Seq(Word32)

\* Reading a concatenation of words.
LEMMA CatIs ==
  \A s, t \in Text :
    /\ Cat(s, t) \in Text /\ Len(Cat(s, t)) = Len(s) + Len(t)
    /\ \A i \in 1..Len(s) : Cat(s, t)[i] = s[i]
    /\ \A i \in 1..Len(t) : Cat(s, t)[Len(s) + i] = t[i]
<1> SUFFICES ASSUME NEW s \in Seq(Word32), NEW t \in Seq(Word32)
             PROVE  /\ s \o t \in Seq(Word32) /\ Len(s \o t) = Len(s) + Len(t)
                    /\ \A i \in 1..Len(s) : (s \o t)[i] = s[i]
                    /\ \A i \in 1..Len(t) : (s \o t)[Len(s) + i] = t[i]
  BY Zenon DEF Cat, Text
<1>1. s \o t \in Seq(Word32) /\ Len(s \o t) = Len(s) + Len(t)
  BY Joined
<1>2. \A i \in 1..Len(s) : (s \o t)[i] = s[i]
  BY Joined
<1>3. \A i \in 1..Len(t) : (s \o t)[Len(s) + i] = t[i]
  BY Joined
<1> QED BY <1>1, <1>2, <1>3, Zenon

Quad == {t \in Seq(Word32) : Len(t) = 4}
RowsOf(p, q, r, s) == p \o q \o r \o s

\* Four sequences of four words, one after the other.
LEMMA Rows ==
  \A p, q, r, s \in Quad :
    /\ RowsOf(p, q, r, s) \in Block
    /\ \A i \in 1..4 : /\ RowsOf(p, q, r, s)[i] = p[i]
                     /\ RowsOf(p, q, r, s)[4 + i] = q[i]
                     /\ RowsOf(p, q, r, s)[8 + i] = r[i]
                     /\ RowsOf(p, q, r, s)[12 + i] = s[i]
<1> SUFFICES ASSUME NEW p \in Quad, NEW q \in Quad, NEW r \in Quad, NEW s \in Quad
             PROVE  /\ RowsOf(p, q, r, s) \in Block
                    /\ \A i \in 1..4 : /\ RowsOf(p, q, r, s)[i] = p[i]
                                     /\ RowsOf(p, q, r, s)[4 + i] = q[i]
                                     /\ RowsOf(p, q, r, s)[8 + i] = r[i]
                                     /\ RowsOf(p, q, r, s)[12 + i] = s[i]
  BY Zenon
<1>a. /\ p \in Seq(Word32) /\ q \in Seq(Word32) /\ r \in Seq(Word32) /\ s \in Seq(Word32)
      /\ Len(p) = 4 /\ Len(q) = 4 /\ Len(r) = 4 /\ Len(s) = 4
  BY Zenon DEF Quad
<1> DEFINE u == Cat(p, q)
           v == Cat(u, r)
           w == Cat(v, s)
<1> USE DEF Text
<1>0. p \in Text /\ q \in Text /\ r \in Text /\ s \in Text
  BY <1>a
<1> HIDE DEF Text
<1>1. /\ u \in Text /\ Len(u) = 8 /\ \A i \in 1..4 : u[i] = p[i]
      /\ \A i \in 1..4 : u[4 + i] = q[i]
  <2>1. /\ u \in Text /\ Len(u) = Len(p) + Len(q)
        /\ \A i \in 1..Len(p) : u[i] = p[i]
        /\ \A i \in 1..Len(q) : u[Len(p) + i] = q[i]
    BY <1>0, CatIs, Zenon
  <2> HIDE DEF u
  <2> QED BY <1>a, <2>1, SMT
<1> HIDE DEF u
<1>2. /\ v \in Text /\ Len(v) = 12 /\ \A i \in 1..8 : v[i] = u[i]
      /\ \A i \in 1..4 : v[8 + i] = r[i]
  <2>1. /\ v \in Text /\ Len(v) = Len(u) + Len(r)
        /\ \A i \in 1..Len(u) : v[i] = u[i]
        /\ \A i \in 1..Len(r) : v[Len(u) + i] = r[i]
    BY <1>0, <1>1, CatIs, Zenon
  <2> HIDE DEF v
  <2> QED BY <1>a, <1>1, <2>1, SMT
<1> HIDE DEF v
<1>3. /\ w \in Text /\ Len(w) = 16 /\ \A i \in 1..12 : w[i] = v[i]
      /\ \A i \in 1..4 : w[12 + i] = s[i]
  <2>1. /\ w \in Text /\ Len(w) = Len(v) + Len(s)
        /\ \A i \in 1..Len(v) : w[i] = v[i]
        /\ \A i \in 1..Len(s) : w[Len(v) + i] = s[i]
    BY <1>0, <1>2, CatIs, Zenon
  <2> HIDE DEF w
  <2> QED BY <1>a, <1>2, <2>1, SMT
<1>4. RowsOf(p, q, r, s) = w
  BY Zenon DEF u, v, Cat, RowsOf
<1> HIDE DEF w
<1>5. w \in Block
  BY <1>3, BlockIsSeq, Zenon DEF Text
<1>6. \A i \in 1..4 : w[i] = p[i] /\ w[4 + i] = q[i] /\ w[8 + i] = r[i]
  BY <1>1, <1>2, <1>3, SMT
<1> QED BY <1>3, <1>4, <1>5, <1>6, Zenon

\* The four columns of a block, each from its diagonal word on.
LEMMA ColumnsAre ==
  ASSUME NEW x \in Block
  PROVE  /\ Column(x, 0) = Mix(<<x[1], x[5], x[9], x[13]>>)
         /\ Column(x, 1) = Mix(<<x[6], x[10], x[14], x[2]>>)
         /\ Column(x, 2) = Mix(<<x[11], x[15], x[3], x[7]>>)
         /\ Column(x, 3) = Mix(<<x[16], x[4], x[8], x[12]>>)
         /\ \A j \in 0..3 : Column(x, j) \in Four
<1> DEFINE n(j, m) == ((5 * j + 4 * m) % 16) + 1
<1>1. \A j : Column(x, j) = Mix(<<x[n(j, 0)], x[n(j, 1)], x[n(j, 2)], x[n(j, 3)]>>)
  BY Zenon DEF Column
<1>2. n(0, 0) = 1 /\ n(0, 1) = 5 /\ n(0, 2) = 9 /\ n(0, 3) = 13
  BY SMT
<1>3. n(1, 0) = 6 /\ n(1, 1) = 10 /\ n(1, 2) = 14 /\ n(1, 3) = 2
  BY SMT
<1>4. n(2, 0) = 11 /\ n(2, 1) = 15 /\ n(2, 2) = 3 /\ n(2, 3) = 7
  BY SMT
<1>5. n(3, 0) = 16 /\ n(3, 1) = 4 /\ n(3, 2) = 8 /\ n(3, 3) = 12
  BY SMT
<1>6. \A j \in 0..3 : n(j, 0) \in 1..16 /\ n(j, 1) \in 1..16 /\ n(j, 2) \in 1..16 /\ n(j, 3) \in 1..16
  BY SMT
<1> HIDE DEF n
<1>7. ASSUME NEW j \in 0..3 PROVE Column(x, j) \in Four
  <2>1. x[n(j, 0)] \in Word32 /\ x[n(j, 1)] \in Word32 /\ x[n(j, 2)] \in Word32 /\ x[n(j, 3)] \in Word32
    BY <1>6, BlockIsSeq, Zenon
  <2>2. <<x[n(j, 0)], x[n(j, 1)], x[n(j, 2)], x[n(j, 3)]>> \in Four
    BY <2>1, FourIsSeq, Zenon
  <2> QED BY <1>1, <2>2, MixType, Zenon
<1>8. Column(x, 0) = Mix(<<x[1], x[5], x[9], x[13]>>)
  BY <1>1, <1>2, Zenon
<1>9. Column(x, 1) = Mix(<<x[6], x[10], x[14], x[2]>>)
  BY <1>1, <1>3, Zenon
<1>10. Column(x, 2) = Mix(<<x[11], x[15], x[3], x[7]>>)
  BY <1>1, <1>4, Zenon
<1>11. Column(x, 3) = Mix(<<x[16], x[4], x[8], x[12]>>)
  BY <1>1, <1>5, Zenon
<1> QED BY <1>7, <1>8, <1>9, <1>10, <1>11, Zenon

\* One round: the mixed columns, as rows.
LEMMA RoundIs ==
  ASSUME NEW x \in Block, NEW a, NEW b, NEW c, NEW d,
         a = Mix(<<x[1], x[5], x[9], x[13]>>), b = Mix(<<x[6], x[10], x[14], x[2]>>),
         c = Mix(<<x[11], x[15], x[3], x[7]>>), d = Mix(<<x[16], x[4], x[8], x[12]>>)
  PROVE  /\ Round(x) \in Block
         /\ a \in Four /\ b \in Four /\ c \in Four /\ d \in Four
         /\ Round(x)[1] = a[1] /\ Round(x)[2] = a[2] /\ Round(x)[3] = a[3] /\ Round(x)[4] = a[4]
         /\ Round(x)[5] = b[4] /\ Round(x)[6] = b[1] /\ Round(x)[7] = b[2] /\ Round(x)[8] = b[3]
         /\ Round(x)[9] = c[3] /\ Round(x)[10] = c[4] /\ Round(x)[11] = c[1] /\ Round(x)[12] = c[2]
         /\ Round(x)[13] = d[2] /\ Round(x)[14] = d[3] /\ Round(x)[15] = d[4] /\ Round(x)[16] = d[1]
<1> DEFINE p == Turn(a, 0)
           q == Turn(b, 1)
           r == Turn(c, 2)
           s == Turn(d, 3)
<1>1. Column(x, 0) = a /\ Column(x, 1) = b /\ Column(x, 2) = c /\ Column(x, 3) = d
  BY ColumnsAre, Zenon
<1>2. a \in Four /\ b \in Four /\ c \in Four /\ d \in Four
  <2>1. 0 \in 0..3 /\ 1 \in 0..3 /\ 2 \in 0..3 /\ 3 \in 0..3
    BY SMT
  <2> QED BY <1>1, <2>1, ColumnsAre, Zenon
<1>3. Round(x) = p \o q \o r \o s
  BY <1>1, Zenon DEF Round
<1>4. /\ p \in Seq(Word32) /\ q \in Seq(Word32) /\ r \in Seq(Word32) /\ s \in Seq(Word32)
      /\ Len(p) = 4 /\ Len(q) = 4 /\ Len(r) = 4 /\ Len(s) = 4
  <2>1. 0 \in 0..3 /\ 1 \in 0..3 /\ 2 \in 0..3 /\ 3 \in 0..3
    BY SMT
  <2> QED BY <1>2, <2>1, Turns, Zenon
<1>5. \A i \in 1..4 : p[i] = a[i]
  BY <1>2, Turns, Zenon
<1>6. q[1] = b[4] /\ q[2] = b[1] /\ q[3] = b[2] /\ q[4] = b[3]
  BY <1>2, Turns, Zenon
<1>7. r[1] = c[3] /\ r[2] = c[4] /\ r[3] = c[1] /\ r[4] = c[2]
  BY <1>2, Turns, Zenon
<1>8. s[1] = d[2] /\ s[2] = d[3] /\ s[3] = d[4] /\ s[4] = d[1]
  BY <1>2, Turns, Zenon
<1> HIDE DEF p, q, r, s
<1> DEFINE w == RowsOf(p, q, r, s)
<1>9. /\ w \in Block
      /\ \A i \in 1..4 : w[i] = p[i] /\ w[4 + i] = q[i] /\ w[8 + i] = r[i] /\ w[12 + i] = s[i]
  <2>1. p \in Quad /\ q \in Quad /\ r \in Quad /\ s \in Quad
    BY <1>4, Zenon DEF Quad
  <2> QED BY <2>1, Rows, SMT
<1>10. Round(x) = w
  BY <1>3, Zenon DEF RowsOf
<1> HIDE DEF w
<1>11. /\ 1 \in 1..4 /\ 2 \in 1..4 /\ 3 \in 1..4 /\ 4 \in 1..4
       /\ 4 + 1 = 5 /\ 4 + 2 = 6 /\ 4 + 3 = 7 /\ 4 + 4 = 8
       /\ 8 + 1 = 9 /\ 8 + 2 = 10 /\ 8 + 3 = 11 /\ 8 + 4 = 12
       /\ 12 + 1 = 13 /\ 12 + 2 = 14 /\ 12 + 3 = 15 /\ 12 + 4 = 16
  BY SMT
<1>12. /\ w[1] = p[1] /\ w[4 + 1] = q[1] /\ w[8 + 1] = r[1] /\ w[12 + 1] = s[1]
       /\ w[2] = p[2] /\ w[4 + 2] = q[2] /\ w[8 + 2] = r[2] /\ w[12 + 2] = s[2]
       /\ w[3] = p[3] /\ w[4 + 3] = q[3] /\ w[8 + 3] = r[3] /\ w[12 + 3] = s[3]
       /\ w[4] = p[4] /\ w[4 + 4] = q[4] /\ w[8 + 4] = r[4] /\ w[12 + 4] = s[4]
  BY <1>9, <1>11, Zenon
<1>13. /\ w[1] = p[1] /\ w[5] = q[1] /\ w[9] = r[1] /\ w[13] = s[1]
       /\ w[2] = p[2] /\ w[6] = q[2] /\ w[10] = r[2] /\ w[14] = s[2]
       /\ w[3] = p[3] /\ w[7] = q[3] /\ w[11] = r[3] /\ w[15] = s[3]
       /\ w[4] = p[4] /\ w[8] = q[4] /\ w[12] = r[4] /\ w[16] = s[4]
  BY <1>12, SMT
<1>14. p[1] = a[1] /\ p[2] = a[2] /\ p[3] = a[3] /\ p[4] = a[4]
  BY <1>5, <1>11, Zenon
<1> QED BY <1>2, <1>6, <1>7, <1>8, <1>9, <1>10, <1>13, <1>14, Zenon

\* A block is the tuple of its words.
LEMMA BlockIs ==
  ASSUME NEW x \in Block
  PROVE  x = <<x[1], x[2], x[3], x[4], x[5], x[6], x[7], x[8],
               x[9], x[10], x[11], x[12], x[13], x[14], x[15], x[16]>>
<1> DEFINE t == <<x[1], x[2], x[3], x[4], x[5], x[6], x[7], x[8],
                  x[9], x[10], x[11], x[12], x[13], x[14], x[15], x[16]>>
<1>1. \A i \in 1..16 : \/ i = 1 \/ i = 2 \/ i = 3 \/ i = 4 \/ i = 5 \/ i = 6 \/ i = 7 \/ i = 8
                       \/ i = 9 \/ i = 10 \/ i = 11 \/ i = 12 \/ i = 13 \/ i = 14 \/ i = 15 \/ i = 16
  BY SMT
<1>2. /\ t[1] = x[1] /\ t[2] = x[2] /\ t[3] = x[3] /\ t[4] = x[4] /\ t[5] = x[5] /\ t[6] = x[6]
      /\ t[7] = x[7] /\ t[8] = x[8] /\ t[9] = x[9] /\ t[10] = x[10] /\ t[11] = x[11]
      /\ t[12] = x[12] /\ t[13] = x[13] /\ t[14] = x[14] /\ t[15] = x[15] /\ t[16] = x[16]
  BY SMT
<1>3. t = [i \in 1..16 |-> t[i]]
  BY SMT
<1>4. x = [i \in 1..16 |-> x[i]]
  BY Zenon DEF Block
<1> HIDE DEF t
<1>5. ASSUME NEW i \in 1..16 PROVE t[i] = x[i]
  BY <1>1, <1>2, SMT
<1>6. [i \in 1..16 |-> t[i]] = [i \in 1..16 |-> x[i]]
  BY <1>5, Zenon
<1>7. t = x
  BY <1>3, <1>4, <1>6, Zenon
<1> QED BY <1>7 DEF t

\* Sixteen words make a block.
LEMMA WordsAreBlock ==
  ASSUME NEW a \in Four, NEW b \in Four, NEW c \in Four, NEW d \in Four
  PROVE  <<a[1], b[4], c[3], d[2], a[2], b[1], c[4], d[3],
           a[3], b[2], c[1], d[4], a[4], b[3], c[2], d[1]>> \in Block
<1> DEFINE t == <<a[1], b[4], c[3], d[2], a[2], b[1], c[4], d[3],
                  a[3], b[2], c[1], d[4], a[4], b[3], c[2], d[1]>>
<1>1. /\ a[1] \in Word32 /\ a[2] \in Word32 /\ a[3] \in Word32 /\ a[4] \in Word32
      /\ b[1] \in Word32 /\ b[2] \in Word32 /\ b[3] \in Word32 /\ b[4] \in Word32
      /\ c[1] \in Word32 /\ c[2] \in Word32 /\ c[3] \in Word32 /\ c[4] \in Word32
      /\ d[1] \in Word32 /\ d[2] \in Word32 /\ d[3] \in Word32 /\ d[4] \in Word32
  <2>1. 1 \in 1..4 /\ 2 \in 1..4 /\ 3 \in 1..4 /\ 4 \in 1..4
    BY SMT
  <2> QED BY <2>1, Zenon DEF Four
<1>2. t \in Seq(Word32) /\ Len(t) = 16
  BY <1>1, SMT
<1> HIDE DEF t
<1>3. t \in Block
  BY <1>2, BlockIsSeq, Zenon
<1> QED BY <1>3 DEF t

\* Two rounds, with the transpositions between them, are a round of the columns
\* and one of the rows.
LEMMA DoubleRound ==
  ASSUME NEW y \in Block
  PROVE  ColumnRound(y) \in Block /\ RowRound(ColumnRound(y)) = Round(Round(y))
<1> DEFINE a == Mix(<<y[1], y[5], y[9], y[13]>>)
           b == Mix(<<y[6], y[10], y[14], y[2]>>)
           c == Mix(<<y[11], y[15], y[3], y[7]>>)
           d == Mix(<<y[16], y[4], y[8], y[12]>>)
           z == <<a[1], b[4], c[3], d[2], a[2], b[1], c[4], d[3],
                  a[3], b[2], c[1], d[4], a[4], b[3], c[2], d[1]>>
           x == Round(y)
           w == Round(x)
           e == Mix(<<x[1], x[5], x[9], x[13]>>)
           f == Mix(<<x[6], x[10], x[14], x[2]>>)
           g == Mix(<<x[11], x[15], x[3], x[7]>>)
           h == Mix(<<x[16], x[4], x[8], x[12]>>)
<1>1. ColumnRound(y) = z
  BY Zenon DEF ColumnRound
<1>2. /\ x \in Block
      /\ a \in Four /\ b \in Four /\ c \in Four /\ d \in Four
      /\ x[1] = a[1] /\ x[2] = a[2] /\ x[3] = a[3] /\ x[4] = a[4]
      /\ x[5] = b[4] /\ x[6] = b[1] /\ x[7] = b[2] /\ x[8] = b[3]
      /\ x[9] = c[3] /\ x[10] = c[4] /\ x[11] = c[1] /\ x[12] = c[2]
      /\ x[13] = d[2] /\ x[14] = d[3] /\ x[15] = d[4] /\ x[16] = d[1]
  <2>1. /\ a = Mix(<<y[1], y[5], y[9], y[13]>>) /\ b = Mix(<<y[6], y[10], y[14], y[2]>>)
        /\ c = Mix(<<y[11], y[15], y[3], y[7]>>) /\ d = Mix(<<y[16], y[4], y[8], y[12]>>)
    OBVIOUS
  <2>2. x = Round(y)
    OBVIOUS
  <2> HIDE DEF a, b, c, d, x
  <2> QED BY <2>1, <2>2, RoundIs
<1> HIDE DEF a, b, c, d, x
<1>3. /\ w \in Block
      /\ w[1] = e[1] /\ w[2] = e[2] /\ w[3] = e[3] /\ w[4] = e[4]
      /\ w[5] = f[4] /\ w[6] = f[1] /\ w[7] = f[2] /\ w[8] = f[3]
      /\ w[9] = g[3] /\ w[10] = g[4] /\ w[11] = g[1] /\ w[12] = g[2]
      /\ w[13] = h[2] /\ w[14] = h[3] /\ w[15] = h[4] /\ w[16] = h[1]
  BY <1>2, RoundIs
<1>4. z \in Block
  BY <1>2, WordsAreBlock
<1>5. /\ z[1] = a[1] /\ z[2] = b[4] /\ z[3] = c[3] /\ z[4] = d[2]
      /\ z[5] = a[2] /\ z[6] = b[1] /\ z[7] = c[4] /\ z[8] = d[3]
      /\ z[9] = a[3] /\ z[10] = b[2] /\ z[11] = c[1] /\ z[12] = d[4]
      /\ z[13] = a[4] /\ z[14] = b[3] /\ z[15] = c[2] /\ z[16] = d[1]
  BY SMT
<1> HIDE DEF z, w
<1>6. /\ z[1] = x[1] /\ z[2] = x[5] /\ z[3] = x[9] /\ z[4] = x[13]
      /\ z[6] = x[6] /\ z[7] = x[10] /\ z[8] = x[14] /\ z[5] = x[2]
      /\ z[11] = x[11] /\ z[12] = x[15] /\ z[9] = x[3] /\ z[10] = x[7]
      /\ z[16] = x[16] /\ z[13] = x[4] /\ z[14] = x[8] /\ z[15] = x[12]
  BY <1>2, <1>5, Zenon
<1>7. /\ Mix(<<z[1], z[2], z[3], z[4]>>) = e /\ Mix(<<z[6], z[7], z[8], z[5]>>) = f
      /\ Mix(<<z[11], z[12], z[9], z[10]>>) = g /\ Mix(<<z[16], z[13], z[14], z[15]>>) = h
  BY <1>6, Zenon
<1> HIDE DEF e, f, g, h
<1>8. RowRound(z) = <<e[1], e[2], e[3], e[4], f[4], f[1], f[2], f[3],
                      g[3], g[4], g[1], g[2], h[2], h[3], h[4], h[1]>>
  BY <1>7, Zenon DEF RowRound
<1>9. RowRound(z) = <<w[1], w[2], w[3], w[4], w[5], w[6], w[7], w[8],
                      w[9], w[10], w[11], w[12], w[13], w[14], w[15], w[16]>>
  BY <1>3, <1>8, Zenon
<1>10. RowRound(z) = w
  BY <1>3, <1>9, BlockIs, Zenon
<1> QED BY <1>1, <1>4, <1>10, Zenon DEF w, x

Iterated(h, a, N, F) == h[0] = a /\ \A i \in 1..N : h[i] = F[h[i - 1]]

\* A function can be applied again and again.
LEMMA Iterates ==
  ASSUME NEW S, NEW F \in [S -> S], NEW a \in S, NEW N \in Nat
  PROVE  \E h \in [0..N -> S] : Iterated(h, a, N, F)
<1> DEFINE GN == [p \in (1..N) \X S |-> F[p[2]]]
<1>1. GN \in [(1..N) \X S -> S] /\ \A i \in 1..N, x \in S : GN[<<i, x>>] = F[x]
  OBVIOUS
<1>2. GN \in Steps(N, S)
  BY <1>1 DEF Steps
<1> HIDE DEF GN
<1>3. PICK h \in [0..N -> S] : Solves(h, a, N, GN)
  BY <1>2, Recursion
<1>4. h[0] = a /\ \A i \in 1..N : h[i] = GN[<<i, h[i - 1]>>]
  BY <1>3, Zenon DEF Solves
<1>5. \A i \in 1..N : h[i - 1] \in S
  <2>1. \A i \in 1..N : i - 1 \in 0..N
    BY SMT
  <2> QED BY <2>1, Zenon
<1>6. ASSUME NEW i \in 1..N PROVE h[i] = F[h[i - 1]]
  BY <1>1, <1>4, <1>5, Zenon
<1> QED BY <1>4, <1>6, Zenon DEF Iterated

\* The blocks after each round, as the code and as the specification has them.
RoundTrace(x) ==
  LET round == [b \in Block |-> Round(b)]
      w[i \in 0..20] == IF i = 0 THEN x ELSE round[w[i - 1]]
  IN  w
DoubleTrace(y) ==
  LET columns == [b \in Block |-> ColumnRound(b)]
      rows == [b \in Block |-> RowRound(b)]
      z[i \in 0..10] == IF i = 0 THEN y ELSE rows[columns[z[i - 1]]]
  IN  z

\* A round makes a block of a block.
LEMMA RoundType == \A x \in Block : Round(x) \in Block
<1> SUFFICES ASSUME NEW x \in Block PROVE Round(x) \in Block
  OBVIOUS
<1> DEFINE a == Mix(<<x[1], x[5], x[9], x[13]>>)
           b == Mix(<<x[6], x[10], x[14], x[2]>>)
           c == Mix(<<x[11], x[15], x[3], x[7]>>)
           d == Mix(<<x[16], x[4], x[8], x[12]>>)
           w == Round(x)
<1>1. /\ a = Mix(<<x[1], x[5], x[9], x[13]>>) /\ b = Mix(<<x[6], x[10], x[14], x[2]>>)
      /\ c = Mix(<<x[11], x[15], x[3], x[7]>>) /\ d = Mix(<<x[16], x[4], x[8], x[12]>>)
  OBVIOUS
<1>2. w = Round(x)
  OBVIOUS
<1> HIDE DEF a, b, c, d, w
<1>3. w \in Block
  BY <1>1, <1>2, RoundIs
<1> QED BY <1>2, <1>3

\* Twenty rounds, one after the other.
LEMMA RoundTraceIs ==
  ASSUME NEW x \in Block
  PROVE  /\ RoundTrace(x)[0] = x /\ Rounds(x) = RoundTrace(x)[20]
         /\ \A i \in 1..20 : RoundTrace(x)[i] = Round(RoundTrace(x)[i - 1])
         /\ \A i \in 0..20 : RoundTrace(x)[i] \in Block
<1> DEFINE round == [b \in Block |-> Round(b)]
           Eq(h) == h = [i \in 0..20 |-> IF i = 0 THEN x ELSE round[h[i - 1]]]
           w == RoundTrace(x)
<1>1. round \in [Block -> Block] /\ \A b \in Block : round[b] = Round(b)
  BY RoundType, Zenon
<1>2. 20 \in Nat
  BY SMT
<1>3. \E h : Eq(h)
  <2> DEFINE N == 20
  <2>a. N \in Nat /\ N = 20
    BY SMT
  <2> HIDE DEF round, N
  <2>b. \E h \in [0..N -> Block] : Iterated(h, x, N, round)
    <3>1. round \in [Block -> Block] /\ x \in Block /\ N \in Nat
      BY <1>1, <2>a, Zenon
    <3> QED BY <3>1, Iterates
  <2>1. PICK h \in [0..20 -> Block] : h[0] = x /\ \A i \in 1..20 : h[i] = round[h[i - 1]]
    BY <2>a, <2>b, Zenon DEF Iterated
  <2>2. \A i \in 0..20 : i # 0 => i \in 1..20
    BY SMT
  <2>3. h = [i \in 0..20 |-> h[i]]
    BY Zenon
  <2>4. \A i \in 0..20 : h[i] = IF i = 0 THEN x ELSE round[h[i - 1]]
    BY <2>1, <2>2, Zenon
  <2>5. Eq(h)
    BY <2>3, <2>4, Zenon
  <2> QED BY <2>5
<1>4. Eq(w)
  BY <1>3, Zenon DEF RoundTrace
<1>5. Rounds(x) = w[20]
  BY DEF Rounds, RoundTrace
<1> HIDE DEF w, round
<1>6. w[0] = x /\ \A i \in 1..20 : w[i] = round[w[i - 1]]
  <2>1. 0 \in 0..20 /\ \A i \in 1..20 : i \in 0..20 /\ i # 0
    BY SMT
  <2> QED BY <1>4, <2>1, Zenon
<1>7. \A j \in 1..20 : w[j - 1] \in Block => w[j] \in Block
  BY <1>1, <1>6, Zenon
<1>8. \A j \in 0..20 : w[j] \in Block
  <2>1. w[0] \in Block
    BY <1>6, Zenon
  <2> QED BY <1>2, <1>7, <2>1, RecursiveType, Zenon
<1>9. \A i \in 1..20 : w[i] = Round(w[i - 1])
  <2>1. \A i \in 1..20 : i - 1 \in 0..20
    BY SMT
  <2> QED BY <1>1, <1>6, <1>8, <2>1, Zenon
<1> QED BY <1>5, <1>6, <1>8, <1>9, Zenon DEF w

\* Ten double rounds, one after the other.
LEMMA DoubleTraceIs ==
  ASSUME NEW y \in Block
  PROVE  /\ DoubleTrace(y)[0] = y /\ TenDoubleRounds(y) = DoubleTrace(y)[10]
         /\ \A i \in 1..10 : DoubleTrace(y)[i] = Round(Round(DoubleTrace(y)[i - 1]))
         /\ \A i \in 0..10 : DoubleTrace(y)[i] \in Block
<1> DEFINE columns == [b \in Block |-> ColumnRound(b)]
           rows == [b \in Block |-> RowRound(b)]
           twice == [b \in Block |-> Round(Round(b))]
           Eq(h) == h = [i \in 0..10 |-> IF i = 0 THEN y ELSE rows[columns[h[i - 1]]]]
           z == DoubleTrace(y)
<1>1. twice \in [Block -> Block] /\ \A b \in Block : twice[b] = Round(Round(b))
  BY RoundType, Zenon
<1>2. \A b \in Block : rows[columns[b]] = Round(Round(b))
  <2>1. \A b \in Block : columns[b] = ColumnRound(b) /\ rows[b] = RowRound(b)
    BY Zenon
  <2> HIDE DEF rows, columns
  <2> SUFFICES ASSUME NEW b \in Block PROVE rows[columns[b]] = Round(Round(b))
    OBVIOUS
  <2>2. ColumnRound(b) \in Block /\ RowRound(ColumnRound(b)) = Round(Round(b))
    BY DoubleRound
  <2>3. columns[b] = ColumnRound(b)
    BY <2>1, Zenon
  <2>4. rows[ColumnRound(b)] = RowRound(ColumnRound(b))
    BY <2>1, <2>2, Zenon
  <2> QED BY <2>2, <2>3, <2>4, Zenon
<1>3. \E h : Eq(h)
  <2> DEFINE N == 10
  <2>a. N \in Nat /\ N = 10
    BY SMT
  <2> HIDE DEF twice, rows, columns, N
  <2>b. \E h \in [0..N -> Block] : Iterated(h, y, N, twice)
    <3>1. twice \in [Block -> Block] /\ y \in Block /\ N \in Nat
      BY <1>1, <2>a, Zenon
    <3> QED BY <3>1, Iterates
  <2>1. PICK h \in [0..10 -> Block] : h[0] = y /\ \A i \in 1..10 : h[i] = twice[h[i - 1]]
    BY <2>a, <2>b, Zenon DEF Iterated
  <2>2. \A i \in 0..10 : i # 0 => i \in 1..10 /\ i - 1 \in 0..10
    BY SMT
  <2>3. h = [i \in 0..10 |-> h[i]]
    BY Zenon
  <2>4. ASSUME NEW i \in 0..10 PROVE h[i] = IF i = 0 THEN y ELSE rows[columns[h[i - 1]]]
    <3>1. CASE i = 0
      BY <2>1, <3>1, Zenon
    <3>2. CASE i # 0
      <4>1. h[i] = twice[h[i - 1]] /\ h[i - 1] \in Block
        BY <2>1, <2>2, <3>2, Zenon
      <4>2. h[i] = rows[columns[h[i - 1]]]
        BY <1>1, <1>2, <4>1, Zenon
      <4> QED BY <3>2, <4>2, Zenon
    <3> QED BY <3>1, <3>2
  <2>5. Eq(h)
    BY <2>3, <2>4, Zenon
  <2> QED BY <2>5
<1>4. Eq(z)
  BY <1>3, Zenon DEF DoubleTrace
<1>5. TenDoubleRounds(y) = z[10]
  BY DEF TenDoubleRounds, DoubleTrace
<1> HIDE DEF z, rows, columns, twice
<1>6. z[0] = y /\ \A i \in 1..10 : z[i] = rows[columns[z[i - 1]]]
  <2>1. 0 \in 0..10 /\ \A i \in 1..10 : i \in 0..10 /\ i # 0
    BY SMT
  <2> QED BY <1>4, <2>1, Zenon
<1>7. \A j \in 1..10 : z[j - 1] \in Block => z[j] \in Block
  <2> SUFFICES ASSUME NEW j \in 1..10, z[j - 1] \in Block PROVE z[j] \in Block
    BY Zenon
  <2>1. z[j] = Round(Round(z[j - 1]))
    BY <1>2, <1>6, Zenon
  <2> QED BY <2>1, RoundType, Zenon
<1>8. \A j \in 0..10 : z[j] \in Block
  <2>1. z[0] \in Block
    BY <1>6, Zenon
  <2>2. 10 \in Nat
    BY SMT
  <2> QED BY <1>7, <2>1, <2>2, RecursiveType, Zenon
<1>9. \A i \in 1..10 : z[i] = Round(Round(z[i - 1]))
  <2>1. \A i \in 1..10 : i - 1 \in 0..10
    BY SMT
  <2> QED BY <1>2, <1>6, <1>8, <2>1, Zenon
<1> QED BY <1>5, <1>6, <1>8, <1>9, Zenon DEF z

\* The code's twenty rounds are the specification's ten double rounds.
LEMMA RoundsAreDouble == \A y \in Block : Rounds(y) \in Block /\ Rounds(y) = TenDoubleRounds(y)
<1> SUFFICES ASSUME NEW y \in Block PROVE Rounds(y) \in Block /\ Rounds(y) = TenDoubleRounds(y)
  OBVIOUS
<1> DEFINE w == RoundTrace(y)
           z == DoubleTrace(y)
           T == {n \in 0..10 : w[2 * n] = z[n]}
<1>1. /\ w[0] = y /\ Rounds(y) = w[20] /\ \A i \in 1..20 : w[i] = Round(w[i - 1])
      /\ \A i \in 0..20 : w[i] \in Block
  BY RoundTraceIs, Zenon
<1>2. z[0] = y /\ TenDoubleRounds(y) = z[10] /\ \A i \in 1..10 : z[i] = Round(Round(z[i - 1]))
  BY DoubleTraceIs, Zenon
<1> HIDE DEF w, z
<1>3. 0 \in T
  BY <1>1, <1>2, SMT
<1>4. ASSUME NEW n \in 0..10, n < 10, n \in T PROVE n + 1 \in T
  <2>1. /\ n + 1 \in 0..10 /\ n + 1 \in 1..10 /\ (n + 1) - 1 = n
        /\ 2 * n + 1 \in 1..20 /\ 2 * n + 2 \in 1..20 /\ (2 * n + 1) - 1 = 2 * n
        /\ (2 * n + 2) - 1 = 2 * n + 1 /\ 2 * (n + 1) = 2 * n + 2
    BY <1>4, SMT
  <2>2. w[2 * n + 1] = Round(w[2 * n]) /\ w[2 * n + 2] = Round(w[2 * n + 1])
    BY <1>1, <2>1, Zenon
  <2>3. z[n + 1] = Round(Round(z[n]))
    BY <1>2, <2>1, Zenon
  <2>4. w[2 * n] = z[n]
    BY <1>4
  <2>5. w[2 * (n + 1)] = z[n + 1]
    BY <2>1, <2>2, <2>3, <2>4, Zenon
  <2> QED BY <2>1, <2>5, Zenon
<1>5. 10 \in T
  <2> HIDE DEF T
  <2>1. 10 \in Nat /\ 10 \in 0..10
    BY SMT
  <2>2. \A n \in 0..10 : n < 10 /\ n \in T => n + 1 \in T
    BY <1>4, Zenon
  <2>3. 0..10 \subseteq T
    BY <1>3, <2>1, <2>2, Induction, Zenon
  <2> QED BY <2>1, <2>3, Zenon
<1>6. w[20] = z[10]
  <2>1. w[2 * 10] = z[10]
    BY <1>5, Zenon
  <2> QED BY <2>1, SMT
<1>7. w[20] \in Block
  <2>1. 20 \in 0..20
    BY SMT
  <2> QED BY <1>1, <2>1, Zenon
<1> QED BY <1>1, <1>2, <1>6, <1>7, Zenon

\* Four bytes make a word.
LEMMA LoadType ==
  ASSUME NEW s, NEW i \in Nat,
         s[4 * i + 1] \in Byte, s[4 * i + 2] \in Byte, s[4 * i + 3] \in Byte, s[4 * i + 4] \in Byte
  PROVE  load_le32(s, i) \in Word32
<1>1. \A a, b \in Byte : a + 256 * b \in Word
  BY WordIs, SMT DEF Byte
<1>2. s[4 * i + 3] + 256 * s[4 * i + 4] \in Word /\ s[4 * i + 1] + 256 * s[4 * i + 2] \in Word
  BY <1>1, Zenon
<1> DEFINE m == s[4 * i + 3] + 256 * s[4 * i + 4]
           l == s[4 * i + 1] + 256 * s[4 * i + 2]
<1>3. load_le32(s, i) = <<m, l>> /\ m \in Word /\ l \in Word
  BY <1>2, Zenon DEF load_le32
<1> HIDE DEF m, l
<1> QED BY <1>3, Halves, SMT

\* Key, input and constants are words.
LEMMA WordsType ==
  /\ \A in \in [1..16 -> Byte] : Words(in, 0) \in Quad
  /\ \A k \in [1..32 -> Byte] : Words(k, 0) \in Quad /\ Words(k, 4) \in Quad
  /\ sigma \in [1..16 -> Byte]
<1>1. ASSUME NEW s, NEW n \in Nat, s \in [1..n -> Byte], NEW i \in Nat, 4 * i + 4 <= n
      PROVE  load_le32(s, i) \in Word32
  <2>1. /\ 4 * i + 1 \in 1..n /\ 4 * i + 2 \in 1..n /\ 4 * i + 3 \in 1..n /\ 4 * i + 4 \in 1..n
    BY <1>1, SMT
  <2>2. /\ s[4 * i + 1] \in Byte /\ s[4 * i + 2] \in Byte /\ s[4 * i + 3] \in Byte
        /\ s[4 * i + 4] \in Byte
    BY <1>1, <2>1, Zenon
  <2> QED BY <2>2, LoadType
<1>2. ASSUME NEW a \in Word32, NEW b \in Word32, NEW c \in Word32, NEW d \in Word32
      PROVE  <<a, b, c, d>> \in Quad
  BY SMT DEF Quad
<1>3. ASSUME NEW s, NEW n \in Nat, s \in [1..n -> Byte], NEW i \in Nat, 4 * i + 16 <= n
      PROVE  Words(s, i) \in Quad
  <2>1. /\ i + 1 \in Nat /\ i + 2 \in Nat /\ i + 3 \in Nat
        /\ 4 * i + 4 <= n /\ 4 * (i + 1) + 4 <= n /\ 4 * (i + 2) + 4 <= n /\ 4 * (i + 3) + 4 <= n
    BY <1>3, SMT
  <2>2. load_le32(s, i) \in Word32 /\ load_le32(s, i + 1) \in Word32
    BY <1>1, <1>3, <2>1, Zenon
  <2>3. load_le32(s, i + 2) \in Word32 /\ load_le32(s, i + 3) \in Word32
    BY <1>1, <1>3, <2>1, Zenon
  <2> QED BY <1>2, <2>2, <2>3, Zenon DEF Words
<1>4. \A in \in [1..16 -> Byte] : Words(in, 0) \in Quad
  <2>1. 16 \in Nat /\ 0 \in Nat /\ 4 * 0 + 16 <= 16
    BY SMT
  <2> QED BY <1>3, <2>1, Zenon
<1>5. \A k \in [1..32 -> Byte] : Words(k, 0) \in Quad /\ Words(k, 4) \in Quad
  <2>1. 32 \in Nat /\ 0 \in Nat /\ 4 \in Nat /\ 4 * 0 + 16 <= 32 /\ 4 * 4 + 16 <= 32
    BY SMT
  <2> QED BY <1>3, <2>1, Zenon
<1>6. sigma \in [1..16 -> Byte]
  BY SMT DEF sigma, Byte
<1> QED BY <1>4, <1>5, <1>6, Zenon

LaidOf(a, p, b, q, c, r, d) == <<a>> \o p \o <<b>> \o q \o <<c>> \o r \o <<d>>
LaidIs(w, a, b, c, d, q) ==
  /\ w \in Block /\ w[1] = a /\ w[6] = b /\ w[11] = c /\ w[16] = d
  /\ \A i \in 1..4 : w[6 + i] = q[i]

\* One word before, between and after rows of four.
LEMMA Laid ==
  \A a, b, c, d \in Word32 : \A p, q, r \in Quad :
    LaidIs(LaidOf(a, p, b, q, c, r, d), a, b, c, d, q)
<1> SUFFICES ASSUME NEW a \in Word32, NEW b \in Word32, NEW c \in Word32, NEW d \in Word32,
                    NEW p \in Quad, NEW q \in Quad, NEW r \in Quad
             PROVE  LaidIs(LaidOf(a, p, b, q, c, r, d), a, b, c, d, q)
  BY Zenon
<1> DEFINE w == LaidOf(a, p, b, q, c, r, d)
<1> DEFINE a1 == <<a>>
           b1 == <<b>>
           c1 == <<c>>
           d1 == <<d>>
           u1 == Cat(a1, p)
           u2 == Cat(u1, b1)
           u3 == Cat(u2, q)
           u4 == Cat(u3, c1)
           u5 == Cat(u4, r)
           u6 == Cat(u5, d1)
<1>1. /\ p \in Text /\ q \in Text /\ r \in Text /\ Len(p) = 4 /\ Len(q) = 4 /\ Len(r) = 4
  BY Zenon DEF Quad, Text
<1>2. ASSUME NEW e \in Word32 PROVE <<e>> \in Text /\ Len(<<e>>) = 1 /\ <<e>>[1] = e
  BY SMT DEF Text
<1>3. /\ a1 \in Text /\ b1 \in Text /\ c1 \in Text /\ d1 \in Text
      /\ Len(a1) = 1 /\ Len(b1) = 1 /\ Len(c1) = 1 /\ Len(d1) = 1
      /\ a1[1] = a /\ b1[1] = b /\ c1[1] = c /\ d1[1] = d
  BY <1>2, Zenon
<1>4. w = u6
  BY Zenon DEF Cat, LaidOf
<1> HIDE DEF a1, b1, c1, d1, Text
<1>5. u1 \in Text /\ Len(u1) = 5 /\ u1[1] = a
  <2>1. u1 \in Text /\ Len(u1) = Len(a1) + Len(p) /\ \A i \in 1..Len(a1) : u1[i] = a1[i]
    BY <1>1, <1>3, CatIs, Zenon
  <2> HIDE DEF u1
  <2> QED BY <1>1, <1>3, <2>1, SMT
<1> HIDE DEF u1
<1>6. u2 \in Text /\ Len(u2) = 6 /\ u2[1] = a /\ u2[6] = b
  <2>1. /\ u2 \in Text /\ Len(u2) = Len(u1) + Len(b1) /\ \A i \in 1..Len(u1) : u2[i] = u1[i]
        /\ \A i \in 1..Len(b1) : u2[Len(u1) + i] = b1[i]
    BY <1>3, <1>5, CatIs, Zenon
  <2> HIDE DEF u2
  <2> QED BY <1>3, <1>5, <2>1, SMT
<1> HIDE DEF u2
<1>7. u3 \in Text /\ Len(u3) = 10 /\ u3[1] = a /\ u3[6] = b /\ \A i \in 1..4 : u3[6 + i] = q[i]
  <2>1. /\ u3 \in Text /\ Len(u3) = Len(u2) + Len(q) /\ \A i \in 1..Len(u2) : u3[i] = u2[i]
        /\ \A i \in 1..Len(q) : u3[Len(u2) + i] = q[i]
    BY <1>1, <1>6, CatIs, Zenon
  <2> HIDE DEF u3
  <2> QED BY <1>1, <1>6, <2>1, SMT
<1> HIDE DEF u3
<1>8. /\ u4 \in Text /\ Len(u4) = 11 /\ u4[1] = a /\ u4[6] = b /\ u4[11] = c
      /\ \A i \in 1..4 : u4[6 + i] = q[i]
  <2>1. /\ u4 \in Text /\ Len(u4) = Len(u3) + Len(c1) /\ \A i \in 1..Len(u3) : u4[i] = u3[i]
        /\ \A i \in 1..Len(c1) : u4[Len(u3) + i] = c1[i]
    BY <1>3, <1>7, CatIs, Zenon
  <2> HIDE DEF u4
  <2> QED BY <1>3, <1>7, <2>1, SMT
<1> HIDE DEF u4
<1>9. /\ u5 \in Text /\ Len(u5) = 15 /\ u5[1] = a /\ u5[6] = b /\ u5[11] = c
      /\ \A i \in 1..4 : u5[6 + i] = q[i]
  <2>1. u5 \in Text /\ Len(u5) = Len(u4) + Len(r) /\ \A i \in 1..Len(u4) : u5[i] = u4[i]
    BY <1>1, <1>8, CatIs, Zenon
  <2> HIDE DEF u5
  <2> QED BY <1>1, <1>8, <2>1, SMT
<1> HIDE DEF u5
<1>10. /\ u6 \in Text /\ Len(u6) = 16 /\ u6[1] = a /\ u6[6] = b /\ u6[11] = c /\ u6[16] = d
       /\ \A i \in 1..4 : u6[6 + i] = q[i]
  <2>1. /\ u6 \in Text /\ Len(u6) = Len(u5) + Len(d1) /\ \A i \in 1..Len(u5) : u6[i] = u5[i]
        /\ \A i \in 1..Len(d1) : u6[Len(u5) + i] = d1[i]
    BY <1>3, <1>9, CatIs, Zenon
  <2> HIDE DEF u6
  <2> QED BY <1>3, <1>9, <2>1, SMT
<1> HIDE DEF u6
<1>11. u6 \in Block
  BY <1>10, BlockIsSeq, Zenon DEF Text
<1> HIDE DEF w
<1>12. LaidIs(w, a, b, c, d, q)
  BY <1>4, <1>10, <1>11, Zenon DEF LaidIs
<1> QED BY <1>12, Zenon DEF w

\* The core's input: the constants on the diagonal, in between the key and the
\* input.
LEMMA SalsaInputIs ==
  ASSUME NEW in \in [1..16 -> Byte], NEW k \in [1..32 -> Byte], NEW y, y = SalsaInput(in, k)
  PROVE  /\ y \in Block
         /\ y[1] = load_le32(sigma, 0) /\ y[6] = load_le32(sigma, 1)
         /\ y[11] = load_le32(sigma, 2) /\ y[16] = load_le32(sigma, 3)
         /\ y[7] = load_le32(in, 0) /\ y[8] = load_le32(in, 1)
         /\ y[9] = load_le32(in, 2) /\ y[10] = load_le32(in, 3)
         /\ \A i \in 0..3 : load_le32(sigma, i) \in Word32 /\ load_le32(in, i) \in Word32
<1> DEFINE c == Words(sigma, 0)
           p == Words(k, 0)
           q == Words(in, 0)
           r == Words(k, 4)
<1>1. c \in Quad /\ p \in Quad /\ q \in Quad /\ r \in Quad
  BY WordsType, Zenon
<1>2. y = <<c[1]>> \o p \o <<c[2]>> \o q \o <<c[3]>> \o r \o <<c[4]>>
  BY Zenon DEF SalsaInput
<1>3. /\ c[1] = load_le32(sigma, 0) /\ c[2] = load_le32(sigma, 0 + 1)
      /\ c[3] = load_le32(sigma, 0 + 2) /\ c[4] = load_le32(sigma, 0 + 3)
      /\ q[1] = load_le32(in, 0) /\ q[2] = load_le32(in, 0 + 1)
      /\ q[3] = load_le32(in, 0 + 2) /\ q[4] = load_le32(in, 0 + 3)
  BY SMT DEF Words
<1> HIDE DEF c, p, q, r
<1>4. /\ c[1] = load_le32(sigma, 0) /\ c[2] = load_le32(sigma, 1)
      /\ c[3] = load_le32(sigma, 2) /\ c[4] = load_le32(sigma, 3)
      /\ q[1] = load_le32(in, 0) /\ q[2] = load_le32(in, 1)
      /\ q[3] = load_le32(in, 2) /\ q[4] = load_le32(in, 3)
  <2>1. 0 + 1 = 1 /\ 0 + 2 = 2 /\ 0 + 3 = 3
    BY SMT
  <2> QED BY <1>3, <2>1, Zenon
<1>5. \A t \in Quad : t[1] \in Word32 /\ t[2] \in Word32 /\ t[3] \in Word32 /\ t[4] \in Word32
  <2> SUFFICES ASSUME NEW t \in Quad
               PROVE  t[1] \in Word32 /\ t[2] \in Word32 /\ t[3] \in Word32 /\ t[4] \in Word32
    BY Zenon
  <2>1. t \in Seq(Word32) /\ Len(t) = 4
    BY Zenon DEF Quad
  <2>2. 1 \in 1..4 /\ 2 \in 1..4 /\ 3 \in 1..4 /\ 4 \in 1..4
    BY SMT
  <2> QED BY <2>1, <2>2, ElementOfSeq, Zenon
<1>6. /\ c[1] \in Word32 /\ c[2] \in Word32 /\ c[3] \in Word32 /\ c[4] \in Word32
      /\ q[1] \in Word32 /\ q[2] \in Word32 /\ q[3] \in Word32 /\ q[4] \in Word32
  BY <1>1, <1>5, Zenon
<1>7. /\ y \in Block /\ y[1] = c[1] /\ y[6] = c[2] /\ y[11] = c[3] /\ y[16] = c[4]
      /\ \A i \in 1..4 : y[6 + i] = q[i]
  <2> DEFINE e1 == c[1]
             e2 == c[2]
             e3 == c[3]
             e4 == c[4]
  <2>1. e1 \in Word32 /\ e2 \in Word32 /\ e3 \in Word32 /\ e4 \in Word32
    BY <1>6, Zenon
  <2>2. y = LaidOf(e1, p, e2, q, e3, r, e4)
    BY <1>2, Zenon DEF LaidOf
  <2> HIDE DEF e1, e2, e3, e4
  <2>3. /\ y \in Block /\ y[1] = e1 /\ y[6] = e2 /\ y[11] = e3 /\ y[16] = e4
        /\ \A i \in 1..4 : y[6 + i] = q[i]
    <3>1. LaidIs(LaidOf(e1, p, e2, q, e3, r, e4), e1, e2, e3, e4, q)
      BY <1>1, <2>1, Laid, SMT
    <3>2. LaidIs(y, e1, e2, e3, e4, q)
      BY <2>2, <3>1, Zenon
    <3> QED BY <3>2, Zenon DEF LaidIs
  <2> QED BY <2>3, Zenon DEF e1, e2, e3, e4
<1>8. y[7] = q[1] /\ y[8] = q[2] /\ y[9] = q[3] /\ y[10] = q[4]
  BY <1>7, SMT
<1>9. \A i \in 0..3 : i = 0 \/ i = 1 \/ i = 2 \/ i = 3
  BY SMT
<1>10. ASSUME NEW i \in 0..3 PROVE load_le32(sigma, i) \in Word32 /\ load_le32(in, i) \in Word32
  BY <1>4, <1>6, <1>9, Zenon
<1> QED BY <1>4, <1>7, <1>8, <1>10, Zenon

\* HSalsa20's words: what is left of the sum when the public word is taken away
\* again.
LEMMA SumUndone ==
  ASSUME NEW x \in Block, NEW y \in Block, NEW n \in 1..16
  PROVE  \A v : v = y[n] => sub32(add32(x[n], y[n]), v) = x[n]
<1>1. x[n] \in Word32 /\ y[n] \in Word32
  BY BlockIsSeq, Zenon
<1> QED BY <1>1, SubUndoesAdd, Zenon

\* salsa_core computes what the Salsa20 specification says, for every key and
\* input: Salsa20 for h = 0 and HSalsa20 for h = 1.
THEOREM CoreComputesSalsa20 ==
  \A in \in [1..16 -> Byte], k \in [1..32 -> Byte], h \in {0, 1} :
    salsa_core(in, k, h) = SalsaReference(in, k, h)
<1> SUFFICES ASSUME NEW in \in [1..16 -> Byte], NEW k \in [1..32 -> Byte], NEW h \in {0, 1}
             PROVE  salsa_core(in, k, h) = SalsaReference(in, k, h)
  BY Zenon
<1> DEFINE y == SalsaInput(in, k)
           x == Rounds(y)
           u == [i \in 1..16 |-> add32(x[(i - 1) + 1], y[(i - 1) + 1])]
           v == [i \in 1..8 |->
                   IF i <= 4
                   THEN sub32(add32(x[5 * (i - 1) + 1], y[5 * (i - 1) + 1]), load_le32(sigma, i - 1))
                   ELSE sub32(add32(x[(i + 1) + 1], y[(i + 1) + 1]), load_le32(in, i - 5))]
           z == <<x[1], x[6], x[11], x[16], x[7], x[8], x[9], x[10]>>
<1>1. salsa_core(in, k, h) = IF h = 0 THEN Bytes(u) ELSE Bytes(v)
  BY Zenon DEF salsa_core
<1>2. /\ y \in Block
      /\ y[1] = load_le32(sigma, 0) /\ y[6] = load_le32(sigma, 1)
      /\ y[11] = load_le32(sigma, 2) /\ y[16] = load_le32(sigma, 3)
      /\ y[7] = load_le32(in, 0) /\ y[8] = load_le32(in, 1)
      /\ y[9] = load_le32(in, 2) /\ y[10] = load_le32(in, 3)
  BY SalsaInputIs, Zenon
<1>3. x \in Block /\ x = TenDoubleRounds(y)
  BY <1>2, RoundsAreDouble, Zenon
<1>4. SalsaReference(in, k, h) =
        IF h = 0 THEN Bytes([i \in 1..16 |-> add32(x[i], y[i])]) ELSE Bytes(z)
  BY <1>3, Zenon DEF SalsaReference
<1> HIDE DEF x, y
<1>5. u = [i \in 1..16 |-> add32(x[i], y[i])]
  <2>1. \A i \in 1..16 : (i - 1) + 1 = i
    BY SMT
  <2> QED BY <2>1, Zenon
<1>6. v = z
  <2>1. \A n \in 1..16 : \A w : w = y[n] => sub32(add32(x[n], y[n]), w) = x[n]
    BY <1>2, <1>3, SumUndone, Zenon
  <2>2. /\ sub32(add32(x[1], y[1]), load_le32(sigma, 0)) = x[1]
        /\ sub32(add32(x[6], y[6]), load_le32(sigma, 1)) = x[6]
        /\ sub32(add32(x[11], y[11]), load_le32(sigma, 2)) = x[11]
        /\ sub32(add32(x[16], y[16]), load_le32(sigma, 3)) = x[16]
        /\ sub32(add32(x[7], y[7]), load_le32(in, 0)) = x[7]
        /\ sub32(add32(x[8], y[8]), load_le32(in, 1)) = x[8]
        /\ sub32(add32(x[9], y[9]), load_le32(in, 2)) = x[9]
        /\ sub32(add32(x[10], y[10]), load_le32(in, 3)) = x[10]
    <3>1. /\ 1 \in 1..16 /\ 6 \in 1..16 /\ 11 \in 1..16 /\ 16 \in 1..16
          /\ 7 \in 1..16 /\ 8 \in 1..16 /\ 9 \in 1..16 /\ 10 \in 1..16
      BY SMT
    <3> QED BY <1>2, <2>1, <3>1, SMT
  <2>3. /\ v[1] = x[1] /\ v[2] = x[6] /\ v[3] = x[11] /\ v[4] = x[16]
    <3>1. /\ v[1] = sub32(add32(x[1], y[1]), load_le32(sigma, 0))
          /\ v[2] = sub32(add32(x[6], y[6]), load_le32(sigma, 1))
          /\ v[3] = sub32(add32(x[11], y[11]), load_le32(sigma, 2))
          /\ v[4] = sub32(add32(x[16], y[16]), load_le32(sigma, 3))
      BY SMT
    <3> QED BY <2>2, <3>1, Zenon
  <2>4. /\ v[5] = x[7] /\ v[6] = x[8] /\ v[7] = x[9] /\ v[8] = x[10]
    <3>1. /\ v[5] = sub32(add32(x[7], y[7]), load_le32(in, 0))
          /\ v[6] = sub32(add32(x[8], y[8]), load_le32(in, 1))
          /\ v[7] = sub32(add32(x[9], y[9]), load_le32(in, 2))
          /\ v[8] = sub32(add32(x[10], y[10]), load_le32(in, 3))
      BY SMT
    <3> QED BY <2>2, <3>1, Zenon
  <2>5. v = [i \in 1..8 |-> v[i]]
    BY Zenon
  <2>6. z = [i \in 1..8 |-> z[i]]
    BY SMT
  <2>7. /\ z[1] = x[1] /\ z[2] = x[6] /\ z[3] = x[11] /\ z[4] = x[16]
        /\ z[5] = x[7] /\ z[6] = x[8] /\ z[7] = x[9] /\ z[8] = x[10]
    BY SMT
  <2> HIDE DEF v, z
  <2>8. ASSUME NEW i \in 1..8 PROVE v[i] = z[i]
    <3>1. i = 1 \/ i = 2 \/ i = 3 \/ i = 4 \/ i = 5 \/ i = 6 \/ i = 7 \/ i = 8
      BY SMT
    <3> QED BY <2>3, <2>4, <2>7, <3>1, SMT
  <2>9. [i \in 1..8 |-> v[i]] = [i \in 1..8 |-> z[i]]
    BY <2>8, Zenon
  <2> QED BY <2>5, <2>6, <2>9, Zenon
<1> HIDE DEF u, v, z
<1> QED BY <1>1, <1>4, <1>5, <1>6, Zenon
=============================================================================
