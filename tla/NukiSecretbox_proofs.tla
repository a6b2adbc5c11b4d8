------------------------- MODULE NukiSecretbox_proofs -------------------------
(***************************************************************************)
(* Proofs about the stream cipher and secretbox of NukiSecretbox: the      *)
(* block counter never repeats, hence no byte of keystream does, and d1   *)
(* returns what e1 was given.                                             *)
(***************************************************************************)
EXTENDS NukiSecretbox, WellFoundedInduction, SequenceTheorems, FiniteSetTheorems, TLAPS

-----------------------------------------------------------------------------
(* Induction and recursion, by way of the least counterexample.             *)

\* A set of naturals that is not empty has a least element.
LEMMA LeastElement ==
  ASSUME NEW T \in SUBSET Nat, T # {}
  PROVE  \E n \in T : \A m \in T : n <= m
<1> DEFINE R == OpToRel(<, Nat)
<1>1. IsWellFoundedOn(R, Nat)
  BY NatLessThanWellFounded
<1>2. \A x, y \in Nat : <<y, x>> \in R <=> y < x
  BY DEF OpToRel
<1> HIDE DEF R
<1>3. PICK x \in T : \A y \in T : ~ (<<y, x>> \in R)
  BY <1>1, WFMin, Zenon
<1>4. ASSUME NEW m \in T PROVE x <= m
  <2>1. ~ (m < x)
    BY <1>2, <1>3
  <2> QED BY <2>1
<1> QED BY <1>4

\* A set that holds 0 and, with each number below N, the next one, holds all
\* numbers up to N.
LEMMA Induction ==
  ASSUME NEW N \in Nat, NEW T, 0 \in T, \A n \in 0..N : n < N /\ n \in T => n + 1 \in T
  PROVE  0..N \subseteq T
<1> DEFINE U == {n \in 0..N : n \notin T}
<1>1. SUFFICES ASSUME U # {} PROVE FALSE
  OBVIOUS
<1>2. U \in SUBSET Nat
  OBVIOUS
<1>3. PICK n \in U : \A m \in U : n <= m
  BY <1>1, <1>2, LeastElement
<1>4. n # 0
  BY <1>3
<1>5. n - 1 \in 0..N /\ n - 1 < N /\ ~ (n <= n - 1)
  BY <1>4
<1>6. n - 1 \in T
  BY <1>3, <1>5
<1>7. (n - 1) + 1 \in T
  BY <1>5, <1>6
<1> QED BY <1>7

\* A recursion over 0..N: from a, with a step that is a function of the
\* position and the value before it.
Steps(N, S) == [(1..N) \X S -> S]
Solves(h, a, N, G) == h[0] = a /\ \A i \in 1..N : h[i] = G[<<i, h[i - 1]>>]

\* It has a solution.
LEMMA Recursion ==
  ASSUME NEW S, NEW a \in S, NEW N \in Nat, NEW G \in Steps(N, S)
  PROVE  \E h \in [0..N -> S] : Solves(h, a, N, G)
<1> USE DEF Steps, Solves
<1> DEFINE Sol(h, n) == h[0] = a /\ \A i \in 1..n : h[i] = G[<<i, h[i - 1]>>]
           T == {n \in 0..N : \E h \in [0..N -> S] : Sol(h, n)}
<1>1. 0 \in T
  <2> DEFINE c == [i \in 0..N |-> a]
  <2>1. c \in [0..N -> S] /\ c[0] = a
    OBVIOUS
  <2>2. \A i \in 1..0 : c[i] = G[<<i, c[i - 1]>>]
    OBVIOUS
  <2>3. 0 \in 0..N
    OBVIOUS
  <2> HIDE DEF c
  <2> QED BY <2>1, <2>2, <2>3
<1>2. ASSUME NEW n \in 0..N, n < N, n \in T PROVE n + 1 \in T
  <2>1. PICK h \in [0..N -> S] : Sol(h, n)
    BY <1>2
  <2> DEFINE g == [h EXCEPT ![n + 1] = G[<<n + 1, h[n]>>]]
  <2>2. G[<<n + 1, h[n]>>] \in S
    BY <1>2
  <2>3. g \in [0..N -> S]
    BY <1>2, <2>2
  <2>4. \A i \in 0..N : g[i] = IF i = n + 1 THEN G[<<n + 1, h[n]>>] ELSE h[i]
    BY <1>2
  <2> HIDE DEF g
  <2>7. n + 1 \in 0..N
    BY <1>2
  <2>5. g[0] = a
    BY <2>1, <2>4
  <2>6. ASSUME NEW i \in 1..n + 1 PROVE g[i] = G[<<i, g[i - 1]>>]
    <3>1. g[i - 1] = h[i - 1]
      BY <1>2, <2>4
    <3>2. CASE i = n + 1
      <4>1. g[n + 1] = G[<<n + 1, h[n]>>]
        BY <2>4, <2>7
      <4>2. n = i - 1
        BY <3>2
      <4> QED BY <3>1, <3>2, <4>1, <4>2
    <3>3. CASE i # n + 1
      BY <1>2, <2>1, <2>4, <3>1, <3>3
    <3> QED BY <3>2, <3>3
  <2> QED BY <2>3, <2>5, <2>6, <2>7
<1>3. 0..N \subseteq T
  <2> HIDE DEF T
  <2>1. \A n \in 0..N : n < N /\ n \in T => n + 1 \in T
    BY <1>2
  <2> QED BY <1>1, <2>1, Induction
<1>4. N \in T
  <2>1. N \in 0..N
    OBVIOUS
  <2> HIDE DEF T
  <2> QED BY <1>3, <2>1
<1> QED BY <1>4

\* What holds at 0 and is carried from each position to the next holds at all.
LEMMA RecursiveType ==
  ASSUME NEW S, NEW N \in Nat, NEW f, f[0] \in S,
         \A j \in 1..N : f[j - 1] \in S => f[j] \in S
  PROVE  \A j \in 0..N : f[j] \in S
<1> DEFINE T == {n \in 0..N : f[n] \in S}
<1>1. 0 \in T
  OBVIOUS
<1>2. ASSUME NEW n \in 0..N, n < N, n \in T PROVE n + 1 \in T
  <2>1. n + 1 \in 1..N /\ (n + 1) - 1 = n
    BY <1>2
  <2>2. f[n] \in S
    BY <1>2
  <2>3. f[n + 1] \in S
    BY <2>1, <2>2
  <2> QED BY <2>1, <2>3
<1>3. \A n \in 0..N : n < N /\ n \in T => n + 1 \in T
  BY <1>2
<1>4. 0..N \subseteq T
  <2> HIDE DEF T
  <2> QED BY <1>1, <1>3, Induction
<1> QED BY <1>4

-----------------------------------------------------------------------------
(* The block counter counts.                                                *)

\* Power is what its recursive definition says, and positive.
LEMMA PowerIs ==
  /\ \A j \in 0..CTR_LEN : Power[j] \in Nat \ {0}
  /\ Power[0] = 1
  /\ \A j \in 1..CTR_LEN : Power[j] = CTR_BASE * Power[j - 1]
<1> DEFINE N == CTR_LEN
           S == Nat \ {0}
           G == [p \in (1..N) \X S |-> CTR_BASE * p[2]]
           Eq(h) == h = [j \in 0..N |-> IF j = 0 THEN 1 ELSE CTR_BASE * h[j - 1]]
<1>1. N \in Nat /\ CTR_BASE \in S /\ 1 \in S
  BY BoxAssumption
<1>2. \A x \in S : CTR_BASE * x \in S
  BY <1>1
<1>3. G \in [(1..N) \X S -> S] /\ \A i \in 1..N, x \in S : G[<<i, x>>] = CTR_BASE * x
  BY <1>2
<1>4. PICK h \in [0..N -> S] : Solves(h, 1, N, G)
  <2>1. N \in Nat /\ 1 \in S /\ G \in Steps(N, S)
    BY <1>1, <1>3 DEF Steps
  <2> HIDE DEF G, S, N
  <2> QED BY <2>1, Recursion
<1>5. ASSUME NEW i \in 1..N PROVE h[i] = CTR_BASE * h[i - 1]
  <2>1. h[i - 1] \in S
    BY <1>1, <1>4
  <2> HIDE DEF G, S
  <2> QED BY <1>3, <1>4, <2>1 DEF Solves
<1>6. Eq(h)
  BY <1>1, <1>4, <1>5 DEF Solves
<1>7. Eq(Power)
  BY <1>6 DEF Power
<1>8. Power[0] = 1 /\ \A j \in 1..N : Power[j] = CTR_BASE * Power[j - 1]
  BY <1>1, <1>7
<1>9. \A j \in 1..N : Power[j - 1] \in S => Power[j] \in S
  BY <1>2, <1>8
<1>10. \A j \in 0..N : Power[j] \in S
  <2> HIDE DEF S, N
  <2> QED BY <1>1, <1>8, <1>9, RecursiveType
<1> QED BY <1>8, <1>10

\* The digits of the counter.
Digits == [1..CTR_LEN -> 0..CTR_BASE - 1]

\* Likewise the carries of an increment, which are 0 or 1.
LEMMA CarriesAre ==
  ASSUME NEW c \in Digits
  PROVE  /\ \A j \in 0..CTR_LEN : Carries(c)[j] \in 0..1
         /\ Carries(c)[0] = 1
         /\ \A j \in 1..CTR_LEN : Carries(c)[j] = (Carries(c)[j - 1] + c[j]) \div CTR_BASE
<1> DEFINE N == CTR_LEN
           S == 0..1
           G == [p \in (1..N) \X S |-> (p[2] + c[p[1]]) \div CTR_BASE]
           Eq(h) == h = [j \in 0..N |-> IF j = 0 THEN 1 ELSE (h[j - 1] + c[j]) \div CTR_BASE]
<1>1. N \in Nat /\ CTR_BASE \in Nat \ {0} /\ 1 \in S
  BY BoxAssumption
<1>2. ASSUME NEW i \in 1..N, NEW x \in S PROVE (x + c[i]) \div CTR_BASE \in S
  <2>1. c[i] \in 0..CTR_BASE - 1
    BY DEF Digits
  <2>2. \A d \in 0..CTR_BASE - 1 : (x + d) \div CTR_BASE \in S
    BY <1>1
  <2> QED BY <2>1, <2>2
<1>3. G \in [(1..N) \X S -> S]
      /\ \A i \in 1..N, x \in S : G[<<i, x>>] = (x + c[i]) \div CTR_BASE
  BY <1>2
<1>4. PICK h \in [0..N -> S] : Solves(h, 1, N, G)
  <2>1. N \in Nat /\ 1 \in S /\ G \in Steps(N, S)
    BY <1>1, <1>3 DEF Steps
  <2> HIDE DEF G, S, N
  <2> QED BY <2>1, Recursion
<1>5. ASSUME NEW i \in 1..N PROVE h[i] = (h[i - 1] + c[i]) \div CTR_BASE
  <2>1. h[i - 1] \in S
    BY <1>1, <1>4
  <2> HIDE DEF G, S
  <2> QED BY <1>3, <1>4, <2>1 DEF Solves
<1>6. Eq(h)
  BY <1>1, <1>4, <1>5 DEF Solves
<1> DEFINE u == Carries(c)
<1>7. Eq(u)
  BY <1>6 DEF Carries
<1> HIDE DEF u
<1>8. u[0] = 1 /\ \A j \in 1..N : u[j] = (u[j - 1] + c[j]) \div CTR_BASE
  BY <1>1, <1>7
<1>9. \A j \in 1..N : u[j - 1] \in S => u[j] \in S
  BY <1>2, <1>8
<1>10. \A j \in 0..N : u[j] \in S
  <2> HIDE DEF S, N
  <2> QED BY <1>1, <1>8, <1>9, RecursiveType
<1> QED BY <1>8, <1>10 DEF u

\* The number that the first j digits of a counter stand for.
Value(c) ==
  LET v[j \in 0..CTR_LEN] == IF j = 0 THEN 0 ELSE v[j - 1] + c[j] * Power[j - 1]
  IN  v

\* Likewise for it.
LEMMA ValueIs ==
  ASSUME NEW c \in Digits
  PROVE  /\ \A j \in 0..CTR_LEN : Value(c)[j] \in Nat
         /\ Value(c)[0] = 0
         /\ \A j \in 1..CTR_LEN : Value(c)[j] = Value(c)[j - 1] + c[j] * Power[j - 1]
<1> DEFINE N == CTR_LEN
           G == [p \in (1..N) \X Nat |-> p[2] + c[p[1]] * Power[p[1] - 1]]
           Eq(h) == h = [j \in 0..N |-> IF j = 0 THEN 0 ELSE h[j - 1] + c[j] * Power[j - 1]]
<1>1. N \in Nat /\ CTR_BASE \in Nat \ {0}
  BY BoxAssumption
<1>2. ASSUME NEW i \in 1..N, NEW x \in Nat PROVE x + c[i] * Power[i - 1] \in Nat
  <2>1. c[i] \in Nat
    BY <1>1 DEF Digits
  <2>2. Power[i - 1] \in Nat
    BY <1>1, PowerIs
  <2>3. \A d, p \in Nat : x + d * p \in Nat
    OBVIOUS
  <2> QED BY <2>1, <2>2, <2>3
<1>3. G \in [(1..N) \X Nat -> Nat]
      /\ \A i \in 1..N, x \in Nat : G[<<i, x>>] = x + c[i] * Power[i - 1]
  BY <1>2
<1>4. PICK h \in [0..N -> Nat] : Solves(h, 0, N, G)
  <2>1. N \in Nat /\ 0 \in Nat /\ G \in Steps(N, Nat)
    BY <1>1, <1>3 DEF Steps
  <2> HIDE DEF G, N
  <2> QED BY <2>1, Recursion
<1>5. ASSUME NEW i \in 1..N PROVE h[i] = h[i - 1] + c[i] * Power[i - 1]
  <2>1. h[i - 1] \in Nat
    BY <1>1, <1>4
  <2> HIDE DEF G
  <2> QED BY <1>3, <1>4, <2>1 DEF Solves
<1>6. Eq(h)
  BY <1>1, <1>4, <1>5 DEF Solves
<1> DEFINE v == Value(c)
<1>7. Eq(v)
  BY <1>6 DEF Value
<1> HIDE DEF v
<1>8. v[0] = 0 /\ \A j \in 1..N : v[j] = v[j - 1] + c[j] * Power[j - 1]
  BY <1>1, <1>7
<1>9. \A j \in 1..N : v[j - 1] \in Nat => v[j] \in Nat
  BY <1>2, <1>8
<1>10. \A j \in 0..N : v[j] \in Nat
  <2>1. v[0] \in Nat
    BY <1>8
  <2> HIDE DEF N
  <2> QED BY <1>1, <2>1, <1>9, RecursiveType
<1> QED BY <1>8, <1>10 DEF v

\* Division with remainder.
LEMMA Division ==
  ASSUME NEW x \in Int, NEW q \in Nat \ {0}
  PROVE  /\ x \div q \in Int /\ x % q \in 0..q - 1
         /\ x = q * (x \div q) + (x % q)
<1>1. x \div q \in Int
  OBVIOUS
<1>2. x % q \in 0..q - 1
  OBVIOUS
<1>3. x = q * (x \div q) + (x % q)
  OBVIOUS
<1> QED BY <1>1, <1>2, <1>3

\* u is added to the digit d of weight p: the digit e is left, v is carried.
\* The number before it was b, and has become a.
Adding(a, b, u, v, d, e, p, q) == u + d = q * v + e /\ a + u * p = b + 1
Added(a, b, v, d, e, p, q) == (a + e * p) + v * (q * p) = (b + d * p) + 1

\* The sum stays 1 more, counting what is carried.
LEMMA DigitSum ==
  ASSUME NEW a \in Int, NEW b \in Int, NEW u \in Int, NEW v \in Int, NEW d \in Int,
         NEW e \in Int, NEW p \in Int, NEW q \in Int,
         Adding(a, b, u, v, d, e, p, q)
  PROVE  Added(a, b, v, d, e, p, q)
<1> USE DEF Adding, Added
<1>1. (u + d) * p = u * p + d * p
  OBVIOUS
<1>2. (q * v + e) * p = v * (q * p) + e * p
  OBVIOUS
<1>3. u * p + d * p = v * (q * p) + e * p
  BY <1>1, <1>2
<1> DEFINE w == u * p
           x == d * p
           y == v * (q * p)
           z == e * p
<1>4. w \in Int /\ x \in Int /\ y \in Int /\ z \in Int
  OBVIOUS
<1>5. w + x = y + z /\ a + w = b + 1
  BY <1>3
<1> HIDE DEF w, x, y, z
<1>6. (a + z) + y = (b + x) + 1
  BY <1>4, <1>5
<1> QED BY <1>6 DEF x, y, z

\* An increment adds 1: up to each digit, with what is carried out of it.
LEMMA IncAdds ==
  ASSUME NEW c \in Digits
  PROVE  /\ Inc(c) \in Digits
         /\ \A j \in 0..CTR_LEN :
              Value(Inc(c))[j] + Carries(c)[j] * Power[j] = Value(c)[j] + 1
<1> DEFINE N == CTR_LEN
           u == Carries(c)
           d == Inc(c)
           v == Value(c)
           w == Value(d)
           Adds(j) == w[j] + u[j] * Power[j] = v[j] + 1
           T == {j \in 0..N : Adds(j)}
<1>1. N \in Nat /\ CTR_BASE \in Nat \ {0}
  BY BoxAssumption
<1>2. ASSUME NEW j \in 1..N
      PROVE  /\ u[j - 1] \in Int /\ u[j] \in Int /\ c[j] \in Int
             /\ d[j] = (u[j - 1] + c[j]) % CTR_BASE
             /\ d[j] \in 0..CTR_BASE - 1
             /\ u[j - 1] + c[j] = CTR_BASE * u[j] + d[j]
  <2>1. j - 1 \in 0..N /\ j \in 0..N
    BY <1>1
  <2>2. u[j - 1] \in 0..1 /\ u[j] \in 0..1 /\ u[j] = (u[j - 1] + c[j]) \div CTR_BASE
    BY <2>1, CarriesAre
  <2>3. c[j] \in 0..CTR_BASE - 1
    BY DEF Digits
  <2>4. d[j] = (u[j - 1] + c[j]) % CTR_BASE
    BY DEF Inc
  <2> DEFINE x == u[j - 1] + c[j]
  <2> HIDE DEF d, u
  <2>5. u[j - 1] \in Int /\ u[j] \in Int /\ c[j] \in Int /\ x \in Int
    <3>1. u[j - 1] \in Int /\ u[j] \in Int
      BY <2>2
    <3>2. c[j] \in Int
      BY <1>1, <2>3
    <3> QED BY <3>1, <3>2
  <2> HIDE DEF x
  <2>6. x % CTR_BASE \in 0..CTR_BASE - 1 /\ x = CTR_BASE * (x \div CTR_BASE) + (x % CTR_BASE)
    BY <1>1, <2>5, Division
  <2>7. d[j] = x % CTR_BASE /\ u[j] = x \div CTR_BASE
    BY <2>2, <2>4 DEF x
  <2>8. d[j] \in 0..CTR_BASE - 1 /\ x = CTR_BASE * u[j] + d[j]
    BY <2>6, <2>7, Zenon
  <2> QED BY <2>4, <2>5, <2>8 DEF x
<1>3. d \in Digits
  BY <1>2 DEF Inc, Digits
<1>4. /\ w[0] = 0 /\ v[0] = 0 /\ u[0] = 1 /\ Power[0] = 1
      /\ \A j \in 1..N : w[j] = w[j - 1] + d[j] * Power[j - 1]
      /\ \A j \in 1..N : v[j] = v[j - 1] + c[j] * Power[j - 1]
      /\ \A j \in 1..N : Power[j] = CTR_BASE * Power[j - 1]
      /\ \A j \in 0..N : w[j] \in Nat /\ v[j] \in Nat /\ Power[j] \in Nat
  BY <1>3, ValueIs, PowerIs, CarriesAre
<1> HIDE DEF d, u, v, w
<1>5. 0 \in T
  <2>1. Adds(0)
    BY <1>4
  <2>2. 0 \in 0..N
    BY <1>1
  <2> QED BY <2>1, <2>2
<1>6. ASSUME NEW n \in 0..N, n < N, n \in T PROVE n + 1 \in T
  <2>1. n + 1 \in 1..N /\ (n + 1) - 1 = n /\ n + 1 \in 0..N
    <3> HIDE DEF T
    <3> QED BY <1>1, <1>6
  <2>2. u[n] + c[n + 1] = CTR_BASE * u[n + 1] + d[n + 1]
        /\ u[n] \in Int /\ u[n + 1] \in Int /\ c[n + 1] \in Int /\ d[n + 1] \in Int
    BY <1>1, <1>2, <2>1
  <2>3. w[n] + u[n] * Power[n] = v[n] + 1
    BY <1>6
  <2>4. w[n] \in Int /\ v[n] \in Int /\ Power[n] \in Int
    BY <1>4
  <2>5. (w[n] + d[n + 1] * Power[n]) + u[n + 1] * (CTR_BASE * Power[n])
          = (v[n] + c[n + 1] * Power[n]) + 1
    <3>1. CTR_BASE \in Int
      BY <1>1
    <3>2. Adding(w[n], v[n], u[n], u[n + 1], c[n + 1], d[n + 1], Power[n], CTR_BASE)
      BY <2>2, <2>3 DEF Adding
    <3>3. Added(w[n], v[n], u[n + 1], c[n + 1], d[n + 1], Power[n], CTR_BASE)
      BY <2>2, <2>4, <3>1, <3>2, DigitSum
    <3> QED BY <3>3 DEF Added
  <2>6. /\ w[n + 1] = w[n] + d[n + 1] * Power[n]
        /\ v[n + 1] = v[n] + c[n + 1] * Power[n]
        /\ Power[n + 1] = CTR_BASE * Power[n]
    BY <1>4, <2>1
  <2>7. Adds(n + 1)
    BY <2>5, <2>6
  <2> QED BY <2>1, <2>7
<1>7. 0..N \subseteq T
  <2>1. \A n \in 0..N : n < N /\ n \in T => n + 1 \in T
    BY <1>6
  <2> HIDE DEF T, N
  <2> QED BY <1>1, <1>5, <2>1, Induction
<1>8. \A j \in 0..N : Adds(j)
  BY <1>7
<1> QED BY <1>3, <1>8 DEF d, u, v, w

\* The counter of the first block.
Zero == [j \in 1..CTR_LEN |-> 0]

\* It stands for 0.
LEMMA ZeroIsNothing == Zero \in Digits /\ Value(Zero)[CTR_LEN] = 0
<1>1. CTR_LEN \in Nat /\ CTR_BASE \in Nat \ {0}
  BY BoxAssumption
<1>2. Zero \in Digits
  BY <1>1 DEF Zero, Digits
<1> DEFINE v == Value(Zero)
           S == {0}
<1>3. v[0] \in S
  BY <1>2, ValueIs
<1>4. ASSUME NEW j \in 1..CTR_LEN, v[j - 1] \in S PROVE v[j] \in S
  <2>1. v[j] = v[j - 1] + Zero[j] * Power[j - 1]
    BY <1>2, ValueIs
  <2>2. Zero[j] = 0
    BY DEF Zero
  <2>3. Power[j - 1] \in Nat
    BY <1>1, PowerIs
  <2> HIDE DEF v
  <2> QED BY <1>4, <2>1, <2>2, <2>3
<1>5. \A j \in 1..CTR_LEN : v[j - 1] \in S => v[j] \in S
  BY <1>4
<1> HIDE DEF v, S
<1>6. \A j \in 0..CTR_LEN : v[j] \in S
  BY <1>1, <1>3, <1>5, RecursiveType
<1> QED BY <1>1, <1>2, <1>6 DEF v, S

\* Counter is what its recursive definition says.
LEMMA CounterIs ==
  /\ Blocks \in Nat
  /\ \A b \in 0..Blocks : Counter[b] \in Digits
  /\ Counter[0] = Zero
  /\ \A b \in 1..Blocks : Counter[b] = Inc(Counter[b - 1])
<1> DEFINE N == Blocks
           G == [p \in (1..N) \X Digits |-> Inc(p[2])]
           Eq(h) == h = [b \in 0..N |-> IF b = 0 THEN Zero ELSE Inc(h[b - 1])]
<1>1. N \in Nat
  BY BoxAssumption DEF Blocks
<1>2. \A x \in Digits : Inc(x) \in Digits
  BY IncAdds
<1>3. Zero \in Digits
  BY ZeroIsNothing
<1> HIDE DEF N
<1>4. G \in [(1..N) \X Digits -> Digits] /\ \A i \in 1..N, x \in Digits : G[<<i, x>>] = Inc(x)
  BY <1>2
<1>5. PICK h \in [0..N -> Digits] : Solves(h, Zero, N, G)
  <2>1. G \in Steps(N, Digits)
    BY <1>4 DEF Steps
  <2> HIDE DEF G
  <2> QED BY <1>1, <1>3, <2>1, Recursion
<1>6. ASSUME NEW i \in 1..N PROVE h[i] = Inc(h[i - 1])
  <2>1. h[i - 1] \in Digits
    BY <1>1, <1>5
  <2> HIDE DEF G
  <2> QED BY <1>4, <1>5, <2>1 DEF Solves
<1>7. Eq(h)
  BY <1>1, <1>5, <1>6 DEF Solves
<1>8. Eq(Counter)
  BY <1>7 DEF Counter, Zero, N
<1>9. Counter[0] = Zero /\ \A b \in 1..N : Counter[b] = Inc(Counter[b - 1])
  BY <1>1, <1>8
<1>10. \A b \in 1..N : Counter[b - 1] \in Digits => Counter[b] \in Digits
  BY <1>2, <1>9
<1>11. \A b \in 0..N : Counter[b] \in Digits
  BY <1>1, <1>3, <1>9, <1>10, RecursiveType
<1> QED BY <1>1, <1>9, <1>11 DEF N

\* After b blocks the counter stands for b, until it overflows.
LEMMA CounterCounts ==
  \A b \in 0..Blocks : b < Power[CTR_LEN] => Value(Counter[b])[CTR_LEN] = b
<1> DEFINE M == Power[CTR_LEN]
           V(b) == Value(Counter[b])[CTR_LEN]
           T == {b \in 0..Blocks : b < M => V(b) = b}
<1>1. CTR_LEN \in 0..CTR_LEN /\ M \in Nat /\ Blocks \in Nat
  BY BoxAssumption, PowerIs, CounterIs
<1>2. 0 \in T
  BY <1>1, CounterIs, ZeroIsNothing
<1>3. ASSUME NEW n \in 0..Blocks, n < Blocks, n \in T PROVE n + 1 \in T
  <2>1. n + 1 \in 1..Blocks /\ (n + 1) - 1 = n /\ n + 1 \in 0..Blocks
    <3> HIDE DEF T
    <3> QED BY <1>1, <1>3
  <2>2. Counter[n] \in Digits /\ Counter[n + 1] \in Digits /\ Counter[n + 1] = Inc(Counter[n])
    BY <2>1, CounterIs
  <2> DEFINE u == Carries(Counter[n])[CTR_LEN]
  <2>3. V(n + 1) + u * M = V(n) + 1
    BY <1>1, <2>2, IncAdds
  <2>4. u \in 0..1 /\ V(n) \in Nat /\ V(n + 1) \in Nat
    BY <1>1, <2>2, CarriesAre, ValueIs
  <2> HIDE DEF u, M, V
  <2>5. ASSUME n + 1 < M PROVE V(n + 1) = n + 1
    <3>1. V(n) = n
      BY <1>1, <1>3, <2>5
    <3>2. CASE u = 0
      BY <1>1, <2>3, <2>4, <3>1, <3>2
    <3>3. CASE u = 1
      BY <1>1, <2>3, <2>4, <2>5, <3>1, <3>3
    <3> QED BY <2>4, <3>2, <3>3
  <2> QED BY <2>1, <2>5
<1>4. \A n \in 0..Blocks : n < Blocks /\ n \in T => n + 1 \in T
  BY <1>3
<1>5. 0..Blocks \subseteq T
  <2> HIDE DEF T
  <2> QED BY <1>1, <1>2, <1>4, Induction
<1> QED BY <1>5

-----------------------------------------------------------------------------
(* Keystream.                                                               *)

\* The keystream's byte at position i.
KeyByte(k, n, i) == Symbol(k, n, Counter[(i - 1) \div BLOCK], ((i - 1) % BLOCK) + 1)

\* A quotient is below p if the dividend is below p times the divisor.
LEMMA QuotientBound ==
  ASSUME NEW x \in Nat, NEW q \in Nat \ {0}, NEW p \in Nat, x < q * p
  PROVE  x \div q \in Nat /\ x \div q < p
<1> DEFINE y == x \div q
<1>1. y \in Nat
  OBVIOUS
<1>2. x = q * y + (x % q) /\ x % q \in Nat
  BY Division
<1> HIDE DEF y
<1>3. ASSUME y >= p PROVE FALSE
  <2>1. PICK d \in Nat : y = p + d
    <3>1. y - p \in Nat /\ y = p + (y - p)
      BY <1>1, <1>3
    <3> QED BY <3>1
  <2>2. q * y = q * p + q * d
    BY <2>1
  <2>3. q * d \in Nat /\ q * p \in Nat
    OBVIOUS
  <2> QED BY <1>2, <2>2, <2>3
<1> QED BY <1>1, <1>3 DEF y

\* A position within the longest message lies in a block that the counter can
\* count.
LEMMA BlockOf ==
  ASSUME NEW i \in 1..PAD + MAX_MSG
  PROVE  (i - 1) \div BLOCK \in 0..Blocks /\ (i - 1) \div BLOCK < Power[CTR_LEN]
<1>1. /\ BLOCK \in Nat \ {0} /\ PAD + MAX_MSG \in Nat
      /\ PAD + MAX_MSG <= BLOCK * Power[CTR_LEN] /\ CTR_LEN \in 0..CTR_LEN
  BY BoxAssumption
<1>2. Power[CTR_LEN] \in Nat /\ Blocks \in Nat
  BY <1>1, PowerIs, CounterIs
<1>3. i - 1 \in Nat /\ i - 1 < PAD + MAX_MSG
  BY <1>1
<1>4. (i - 1) \div BLOCK \in Nat /\ (i - 1) \div BLOCK < Power[CTR_LEN]
  <2>1. BLOCK * Power[CTR_LEN] \in Nat
    BY <1>1, <1>2
  <2>2. i - 1 < BLOCK * Power[CTR_LEN]
    BY <1>1, <1>3, <2>1
  <2> QED BY <1>1, <1>2, <1>3, <2>2, QuotientBound
<1>5. (i - 1) \div BLOCK < Blocks + 1
  <2> DEFINE z == PAD + MAX_MSG
             r == z % BLOCK
  <2>1. z = BLOCK * Blocks + r /\ r \in 0..BLOCK - 1
    <3>1. z \in Int /\ Blocks = z \div BLOCK
      BY <1>1 DEF Blocks
    <3> HIDE DEF z
    <3>2. z = BLOCK * (z \div BLOCK) + r /\ r \in 0..BLOCK - 1
      BY <1>1, <3>1, Division
    <3> QED BY <3>1, <3>2, Zenon
  <2>2. BLOCK * (Blocks + 1) = BLOCK * Blocks + BLOCK /\ BLOCK * Blocks \in Nat
    BY <1>1, <1>2
  <2>3. i - 1 < z
    BY <1>3
  <2>4. z \in Nat /\ BLOCK \in Nat
    BY <1>1
  <2> HIDE DEF z, r
  <2>5. i - 1 < BLOCK * (Blocks + 1)
    BY <1>3, <2>1, <2>2, <2>3, <2>4
  <2>6. Blocks + 1 \in Nat
    BY <1>2
  <2> QED BY <1>1, <1>3, <2>5, <2>6, QuotientBound
<1> QED BY <1>2, <1>4, <1>5

\* Within one message, padding included, no byte of keystream comes twice: the
\* counter of stream_salsa20_xor is another one in each block.
LEMMA KeyBytesDiffer ==
  ASSUME NEW k, NEW n, NEW i \in 1..PAD + MAX_MSG, NEW j \in 1..PAD + MAX_MSG,
         KeyByte(k, n, i) = KeyByte(k, n, j)
  PROVE  i = j
<1> DEFINE bi == (i - 1) \div BLOCK
           bj == (j - 1) \div BLOCK
<1>1. Counter[bi] = Counter[bj] /\ ((i - 1) % BLOCK) + 1 = ((j - 1) % BLOCK) + 1
  BY DEF KeyByte, Symbol
<1>2. bi \in 0..Blocks /\ bi < Power[CTR_LEN] /\ bj \in 0..Blocks /\ bj < Power[CTR_LEN]
  BY BlockOf
<1>3. bi = bj
  <2> HIDE DEF bi, bj
  <2> QED BY <1>1, <1>2, CounterCounts
<1>4. BLOCK \in Nat \ {0} /\ PAD + MAX_MSG \in Nat
  BY BoxAssumption
<1>5. /\ i - 1 = BLOCK * bi + ((i - 1) % BLOCK) /\ (i - 1) % BLOCK \in Int
      /\ j - 1 = BLOCK * bj + ((j - 1) % BLOCK) /\ (j - 1) % BLOCK \in Int
  <2>1. ASSUME NEW x \in Int
        PROVE  x = BLOCK * (x \div BLOCK) + (x % BLOCK) /\ x % BLOCK \in Int
    <3>1. x % BLOCK \in 0..BLOCK - 1 /\ x = BLOCK * (x \div BLOCK) + (x % BLOCK)
      BY <1>4, Division
    <3>2. \A y \in 0..BLOCK - 1 : y \in Int
      BY <1>4
    <3> QED BY <3>1, <3>2, Zenon
  <2>2. i - 1 \in Int /\ j - 1 \in Int
    BY <1>4
  <2> QED BY <2>1, <2>2, Zenon
<1>6. (i - 1) % BLOCK = (j - 1) % BLOCK
  BY <1>1, <1>5
<1>7. i - 1 = j - 1
  <2> HIDE DEF bi, bj
  <2> QED BY <1>3, <1>5, <1>6
<1> QED BY <1>4, <1>7

-----------------------------------------------------------------------------
(* Secretbox.                                                               *)

\* What the padding becomes, the key of Poly1305, and what the message becomes.
KeyPart(n, k) == [i \in 1..PAD |-> {KeyByte(<<k, n[1]>>, n[2], i)}]
Cipher(m, n, k) ==
  [i \in 1..Len(m) |-> SymDiff(m[i], {KeyByte(<<k, n[1]>>, n[2], PAD + i)})]

Xored(m, n, k) == [i \in 1..Len(m) |-> SymDiff(m[i], {KeyByte(<<k, n[1]>>, n[2], i)})]

\* xsalsa20_xor combines each byte with the keystream's byte at its position.
LEMMA StreamIs ==
  ASSUME NEW m, NEW n, NEW k, Len(m) \in Nat
  PROVE  xsalsa20_xor(m, n, k) = Xored(m, n, k)
<1>1. ASSUME NEW i \in 1..Len(m)
      PROVE  core_salsa20(<<k, n[1]>>, n[2], Counter[(i - 1) \div BLOCK])[((i - 1) % BLOCK) + 1]
               = {KeyByte(<<k, n[1]>>, n[2], i)}
  <2>1. i - 1 \in Int /\ BLOCK \in Nat \ {0}
    BY BoxAssumption
  <2>2. (i - 1) % BLOCK \in 0..BLOCK - 1
    BY <2>1, Division
  <2>3. ((i - 1) % BLOCK) + 1 \in 1..BLOCK
    BY <2>1, <2>2
  <2> QED BY <2>3 DEF core_salsa20, KeyByte
<1> QED BY <1>1 DEF xsalsa20_xor, stream_salsa20_xor, Xored

\* A part of a sequence.
LEMMA PartOf ==
  ASSUME NEW f, NEW a \in Nat, NEW b \in Nat
  PROVE  SubSeq(f, a + 1, a + b) = [i \in 1..b |-> f[a + i]]
<1> DEFINE S == {f[i] : i \in a + 1..a + b}
           t == SubSeq(f, a + 1, a + b)
<1>1. \A i \in a + 1..a + b : f[i] \in S
  OBVIOUS
<1>2. t \in Seq(S) /\ Len(t) = (IF a + 1 <= a + b THEN a + b - (a + 1) + 1 ELSE 0)
      /\ \A i \in 1..a + b - (a + 1) + 1 : t[i] = f[a + 1 + i - 1]
  BY <1>1, SubSeqProperties
<1> HIDE DEF S, t
<1>3. Len(t) = b
  BY <1>2
<1>4. t = [i \in 1..b |-> t[i]]
  BY <1>2, <1>3
<1>5. ASSUME NEW i \in 1..b PROVE t[i] = f[a + i]
  <2>1. i \in 1..a + b - (a + 1) + 1 /\ a + 1 + i - 1 = a + i
    OBVIOUS
  <2> QED BY <1>2, <2>1
<1> QED BY <1>4, <1>5 DEF t

\* The message behind its padding.
LEMMA Padded ==
  ASSUME NEW S, NEW m \in Seq(S)
  PROVE  /\ Len(NoBytes(PAD) \o m) = PAD + Len(m)
         /\ \A i \in 1..PAD : (NoBytes(PAD) \o m)[i] = {}
         /\ \A i \in 1..Len(m) : (NoBytes(PAD) \o m)[PAD + i] = m[i]
<1> DEFINE Z == S \cup {{}}
           z == NoBytes(PAD)
<1>1. PAD \in Nat
  BY BoxAssumption
<1>2. z \in Seq(Z) /\ Len(z) = PAD /\ \A i \in 1..PAD : z[i] = {}
  BY <1>1 DEF NoBytes
<1>3. m \in Seq(Z) /\ Len(m) \in Nat
  BY SeqMonotonic, LenProperties
<1> HIDE DEF Z, z
<1>4. /\ Len(z \o m) = PAD + Len(m)
      /\ \A i \in 1..PAD + Len(m) : (z \o m)[i] = IF i <= PAD THEN z[i] ELSE m[i - PAD]
  <2>1. /\ Len(z \o m) = Len(z) + Len(m)
        /\ \A i \in 1..Len(z) + Len(m) :
             (z \o m)[i] = IF i <= Len(z) THEN z[i] ELSE m[i - Len(z)]
    BY <1>2, <1>3, ConcatProperties, Zenon
  <2> QED BY <1>2, <2>1
<1>5. ASSUME NEW i \in 1..PAD PROVE (z \o m)[i] = {}
  BY <1>1, <1>2, <1>3, <1>4
<1>6. ASSUME NEW i \in 1..Len(m) PROVE (z \o m)[PAD + i] = m[i]
  <2>1. PAD + i \in 1..PAD + Len(m) /\ ~(PAD + i <= PAD) /\ (PAD + i) - PAD = i
    BY <1>1, <1>3
  <2> QED BY <1>4, <2>1
<1> QED BY <1>4, <1>5, <1>6 DEF z

\* The stream over padding and message is the key of Poly1305, then the cipher.
LEMMA PaddedStream ==
  ASSUME NEW S, NEW m \in Seq(S), NEW n, NEW k
  PROVE  LET out == xsalsa20_xor(NoBytes(PAD) \o m, n, k)
         IN  /\ SubSeq(out, 1, PAD) = KeyPart(n, k)
             /\ SubSeq(out, PAD + 1, PAD + Len(m)) = Cipher(m, n, k)
<1> DEFINE p == NoBytes(PAD) \o m
           out == xsalsa20_xor(p, n, k)
           kb(i) == {KeyByte(<<k, n[1]>>, n[2], i)}
<1>1. PAD \in Nat /\ Len(m) \in Nat
  BY BoxAssumption, LenProperties
<1>2. /\ Len(p) = PAD + Len(m)
      /\ \A i \in 1..PAD : p[i] = {}
      /\ \A i \in 1..Len(m) : p[PAD + i] = m[i]
  BY Padded
<1>3. out = [i \in 1..Len(p) |-> SymDiff(p[i], kb(i))]
  <2>1. Len(p) \in Nat
    BY <1>1, <1>2
  <2>2. out = Xored(p, n, k)
    <3> HIDE DEF p
    <3> QED BY <2>1, StreamIs
  <2> HIDE DEF out, p
  <2> QED BY <2>2 DEF Xored
<1> HIDE DEF p, out, kb
<1>4. \A i \in 1..PAD + Len(m) : out[i] = SymDiff(p[i], kb(i))
  BY <1>2, <1>3
<1>5. SubSeq(out, 1, PAD) = KeyPart(n, k)
  <2>1. SubSeq(out, 0 + 1, 0 + PAD) = [i \in 1..PAD |-> out[0 + i]]
    BY <1>1, PartOf
  <2>2. 0 + 1 = 1 /\ 0 + PAD = PAD /\ \A i \in 1..PAD : 0 + i = i
    BY <1>1
  <2>3. SubSeq(out, 1, PAD) = [i \in 1..PAD |-> out[i]]
    BY <2>1, <2>2
  <2>4. ASSUME NEW i \in 1..PAD PROVE out[i] = kb(i)
    <3>1. i \in 1..PAD + Len(m)
      BY <1>1
    <3>2. out[i] = SymDiff({}, kb(i))
      BY <1>2, <1>4, <3>1
    <3> QED BY <3>2 DEF SymDiff
  <2> QED BY <2>3, <2>4 DEF KeyPart, kb
<1>6. SubSeq(out, PAD + 1, PAD + Len(m)) = Cipher(m, n, k)
  <2>1. SubSeq(out, PAD + 1, PAD + Len(m)) = [i \in 1..Len(m) |-> out[PAD + i]]
    BY <1>1, PartOf
  <2>2. ASSUME NEW i \in 1..Len(m) PROVE out[PAD + i] = SymDiff(m[i], kb(PAD + i))
    <3>1. PAD + i \in 1..PAD + Len(m)
      BY <1>1
    <3> QED BY <1>2, <1>4, <3>1
  <2> QED BY <2>1, <2>2 DEF Cipher, kb
<1> QED BY <1>5, <1>6 DEF out, p

\* e1 on a message that is not too long.
LEMMA SealIs ==
  ASSUME NEW S, NEW m \in Seq(S), NEW n, NEW k, Len(m) <= MAX_MSG
  PROVE  nuki_crypto_e1(m, n, k)
           = [err |-> "OK", tag |-> Tag(Cipher(m, n, k), KeyPart(n, k)), msg |-> Cipher(m, n, k)]
<1> DEFINE out == xsalsa20_xor(NoBytes(PAD) \o m, n, k)
<1>1. SubSeq(out, 1, PAD) = KeyPart(n, k) /\ SubSeq(out, PAD + 1, PAD + Len(m)) = Cipher(m, n, k)
  BY PaddedStream
<1>2. ~(Len(m) > MAX_MSG)
  BY BoxAssumption, LenProperties
<1>3. nuki_crypto_e1(m, n, k)
        = [err |-> "OK", tag |-> Tag(SubSeq(out, PAD + 1, PAD + Len(m)), SubSeq(out, 1, PAD)),
           msg |-> SubSeq(out, PAD + 1, PAD + Len(m))]
  BY <1>2 DEF nuki_crypto_e1
<1> HIDE DEF out
<1> QED BY <1>1, <1>3

\* The first block d1 computes holds the same key of Poly1305 as the stream
\* over padding and message.
LEMMA FirstBlock ==
  ASSUME NEW n, NEW k
  PROVE  SubSeq(xsalsa20_xor(NoBytes(BLOCK), n, k), 1, PAD) = KeyPart(n, k)
<1> DEFINE z == NoBytes(BLOCK)
           out == xsalsa20_xor(z, n, k)
           kb(i) == {KeyByte(<<k, n[1]>>, n[2], i)}
<1>1. BLOCK \in Nat /\ PAD \in 1..BLOCK
  BY BoxAssumption
<1>2. Len(z) = BLOCK /\ \A i \in 1..BLOCK : z[i] = {}
  BY <1>1 DEF NoBytes
<1>3. out = Xored(z, n, k)
  <2>1. Len(z) \in Nat
    BY <1>1, <1>2
  <2> HIDE DEF z
  <2> QED BY <2>1, StreamIs
<1> HIDE DEF z, out
<1>4. ASSUME NEW i \in 1..PAD PROVE out[i] = kb(i)
  <2>1. i \in 1..BLOCK
    BY <1>1
  <2>2. out[i] = SymDiff({}, kb(i))
    BY <1>2, <1>3, <2>1 DEF Xored
  <2> QED BY <2>2 DEF SymDiff
<1>5. SubSeq(out, 0 + 1, 0 + PAD) = [i \in 1..PAD |-> out[0 + i]]
  BY <1>1, PartOf
<1>6. 0 + 1 = 1 /\ 0 + PAD = PAD /\ \A i \in 1..PAD : 0 + i = i
  BY <1>1
<1>7. SubSeq(out, 1, PAD) = [i \in 1..PAD |-> out[i]]
  BY <1>5, <1>6
<1> QED BY <1>4, <1>7 DEF KeyPart, out, z

\* d1: too long, a tag that does not fit, or the text.
LEMMA OpenIs ==
  ASSUME NEW S, NEW c \in Seq(S), NEW n, NEW k, NEW tag, Len(c) <= MAX_MSG
  PROVE  nuki_crypto_d1(tag, c, n, k)
           = IF tag # Tag(c, KeyPart(n, k)) THEN Error("EBADMSG")
             ELSE [err |-> "OK", tag |-> tag, msg |-> Cipher(c, n, k)]
<1> DEFINE out == xsalsa20_xor(NoBytes(PAD) \o c, n, k)
           b0 == SubSeq(xsalsa20_xor(NoBytes(BLOCK), n, k), 1, PAD)
           text == SubSeq(out, PAD + 1, PAD + Len(c))
<1>1. text = Cipher(c, n, k)
  BY PaddedStream
<1>2. b0 = KeyPart(n, k)
  BY FirstBlock
<1>3. ~(Len(c) > MAX_MSG)
  BY BoxAssumption, LenProperties
<1>4. nuki_crypto_d1(tag, c, n, k)
        = IF tag # Tag(c, b0) THEN Error("EBADMSG") ELSE [err |-> "OK", tag |-> tag, msg |-> text]
  BY <1>3 DEF nuki_crypto_d1
<1> HIDE DEF b0, text
<1> QED BY <1>1, <1>2, <1>4

\* The cipher keeps the length, and is its own inverse.
LEMMA CipherTwice ==
  ASSUME NEW S, NEW m \in Seq(S), NEW n, NEW k
  PROVE  /\ Len(Cipher(m, n, k)) = Len(m)
         /\ \E Z : Cipher(m, n, k) \in Seq(Z)
         /\ Cipher(Cipher(m, n, k), n, k) = m
<1> DEFINE c == Cipher(m, n, k)
           kb(i) == {KeyByte(<<k, n[1]>>, n[2], PAD + i)}
           Z == {SymDiff(m[i], kb(i)) : i \in 1..Len(m)}
<1>1. Len(m) \in Nat /\ m = [i \in 1..Len(m) |-> m[i]]
  BY LenProperties
<1>2. c = [i \in 1..Len(m) |-> SymDiff(m[i], kb(i))]
  BY DEF Cipher
<1> HIDE DEF c, kb
<1>3. Len(c) = Len(m) /\ c \in Seq(Z) /\ \A i \in 1..Len(m) : c[i] = SymDiff(m[i], kb(i))
  BY <1>1, <1>2
<1>4. Cipher(c, n, k) = [i \in 1..Len(c) |-> SymDiff(c[i], kb(i))]
  BY DEF Cipher, kb
<1>5. \A x, y : SymDiff(SymDiff(x, y), y) = x
  BY DEF SymDiff
<1>6. \A i \in 1..Len(m) : SymDiff(c[i], kb(i)) = m[i]
  BY <1>3, <1>5
<1>7. Cipher(c, n, k) = m
  BY <1>1, <1>3, <1>4, <1>6
<1> QED BY <1>3, <1>7 DEF c

\* d1 returns what e1 was given, whatever the message, the nonce and the key.
THEOREM SealedOpens ==
  ASSUME NEW S, NEW m \in Seq(S), NEW n, NEW k, Len(m) <= MAX_MSG
  PROVE  LET e == nuki_crypto_e1(m, n, k)
             d == nuki_crypto_d1(e.tag, e.msg, n, k)
         IN  e.err = "OK" /\ d.err = "OK" /\ d.msg = m
<1> DEFINE e == nuki_crypto_e1(m, n, k)
           c == Cipher(m, n, k)
<1>1. e = [err |-> "OK", tag |-> Tag(c, KeyPart(n, k)), msg |-> c]
  BY SealIs
<1>2. PICK Z : c \in Seq(Z)
  BY CipherTwice
<1>3. Len(c) <= MAX_MSG /\ Cipher(c, n, k) = m
  BY CipherTwice
<1> HIDE DEF c
<1>4. nuki_crypto_d1(Tag(c, KeyPart(n, k)), c, n, k)
        = [err |-> "OK", tag |-> Tag(c, KeyPart(n, k)), msg |-> m]
  BY <1>2, <1>3, OpenIs
<1> QED BY <1>1, <1>4
=============================================================================
