---------------------------- MODULE NukiPoly1305 ----------------------------
(***************************************************************************)
(* Poly1305 of nuki_crypto.c as operators, on real 8-bit limbs numbered    *)
(* 0 .. LIMBS - 1.                                                        *)
(***************************************************************************)
EXTENDS Integers, Sequences

CONSTANT LIMBS      \* 17: two bits more than the LIMBS - 1 bytes of a block

ASSUME LimbsAssumption == LIMBS \in Nat /\ LIMBS > 1

L == LIMBS - 1

\* Carry propagation over the limbs 0 .. n - 1 of h with u coming in: the
\* limbs, and the carry that is left.
Carry(h, n, u0) ==
  LET u[j \in 0..n] == IF j = 0 THEN u0 ELSE (u[j - 1] + h[j - 1]) \div 256
  IN  [h |-> [j \in 0..L |-> IF j < n THEN (u[j] + h[j]) % 256 ELSE h[j]], u |-> u[n]]

add1305(h, c) == Carry([j \in 0..L |-> h[j] + c[j]], LIMBS, 0).h

minusp == [j \in 0..L |-> IF j = 0 THEN 5 ELSE IF j = L THEN 252 ELSE 0]

\* The clamped first half of the key.
ClampNot(k) == [j \in 0..L |-> IF j = L THEN 0 ELSE k[j + 1]]   \* mutant: as it is
Clamp(k) ==
  [j \in 0..L |-> CASE j = L -> 0
                    [] j % 4 = 3 -> k[j + 1] % 16
                    [] j % 4 = 0 /\ j > 0 -> k[j + 1] - (k[j + 1] % 4)
                    [] OTHER -> k[j + 1]]

\* A block of at most L bytes, and the 1 that follows it.
Chunk(m) ==
  LET n == IF Len(m) < L THEN Len(m) ELSE L
  IN  [j \in 0..L |-> IF j < n THEN m[j + 1] ELSE IF j = n THEN 1 ELSE 0]

\* h * r, folded at 2^130 by way of 320 = 5 * 2^6.
MulSum(h, r) ==
  LET factor(i, j) == IF j <= i THEN r[i - j] ELSE 320 * r[i + LIMBS - j]
      sum(i) == LET s[j \in 0..LIMBS] == IF j = 0 THEN 0 ELSE s[j - 1] + h[j - 1] * factor(i, j - 1)
                IN  s[LIMBS]
  IN  [i \in 0..L |-> sum(i)]

\* The two carry passes; the second leaves the last limb as it comes.
Reduce(h) ==
  LET a == Carry(h, L, 0)
      u == a.u + a.h[L]
      b == Carry([a.h EXCEPT ![L] = u % 4], L, 5 * (u \div 4))
  IN  [b.h EXCEPT ![L] = b.u + @]

\* h after each of the blocks of m.
BlockCount(m) == (Len(m) + L - 1) \div L
Absorb(m, r) ==
  LET h[i \in 0..BlockCount(m)] ==
        IF i = 0 THEN [j \in 0..L |-> 0]
        ELSE Reduce(MulSum(add1305(h[i - 1], Chunk(SubSeq(m, (i - 1) * L + 1, Len(m)))), r))
  IN  h

\* h - p if that is not negative.
FreezeNot(h) == h                        \* mutant: h may be p or more
Freeze(h) == LET g == add1305(h, minusp) IN IF g[L] >= 128 THEN h ELSE g

poly1305(m, k) ==
  LET h == Freeze(Absorb(m, Clamp(k))[BlockCount(m)])
      out == add1305(h, [j \in 0..L |-> IF j < L THEN k[L + j + 1] ELSE 0])
  IN  [j \in 1..L |-> out[j - 1]]
=============================================================================
