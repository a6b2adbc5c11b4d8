----------------------------- MODULE NukiCrypto -----------------------------
(***************************************************************************)
(* The arithmetic on words of nuki_crypto.c as operators: the Salsa20      *)
(* core and CRC16.                                                        *)
(*                                                                        *)
(* The core computes with real 32-bit words, each a pair <<high, low>> of *)
(* 16-bit halves.  The register of the CRC is the set of its bits that    *)
(* are 1, so that exclusive or is symmetric difference.                   *)
(***************************************************************************)
EXTENDS Integers, Sequences, FiniteSetsExt

W16 == 65536
Byte == 0..255
Word == 0..W16 - 1

\* A number of up to 16 bits and the set of its bits.
Weight == <<1, 2, 4, 8, 16, 32, 64, 128, 256, 512, 1024, 2048, 4096, 8192, 16384, 32768>>
Bits(n) == {k \in 0..15 : (n \div Weight[k + 1]) % 2 = 1}
Number(S) ==
  LET sum[k \in 0..16] ==
        IF k = 0 THEN 0 ELSE sum[k - 1] + (IF k - 1 \in S THEN Weight[k] ELSE 0)
  IN  sum[16]

-----------------------------------------------------------------------------
(* The Salsa20 core.                                                        *)

Word32 == Word \X Word
Block == [1..16 -> Word32]

add32(a, b) ==
  LET low == a[2] + b[2] IN <<(a[1] + b[1] + (low \div W16)) % W16, low % W16>>
sub32(a, b) ==
  LET low == a[2] - b[2] IN <<(a[1] - b[1] + (low \div W16)) % W16, low % W16>>
xor16(a, b) == Number(SymDiff(Bits(a), Bits(b)))
xor32(a, b) == <<xor16(a[1], b[1]), xor16(a[2], b[2])>>
rotl32(x, c) ==
  LET up == Weight[(c % 16) + 1]
      hi == x[IF c < 16 THEN 1 ELSE 2]
      lo == x[IF c < 16 THEN 2 ELSE 1]
      join(a, b) == ((a * up) % W16) + ((b * up) \div W16)
  IN  <<join(hi, lo), join(lo, hi)>>

\* load_le32 and store_le32 of word i of a byte sequence.
load_le32(s, i) == <<s[4*i + 3] + 256 * s[4*i + 4], s[4*i + 1] + 256 * s[4*i + 2]>>
store_le32(w) == <<w[2] % 256, w[2] \div 256, w[1] % 256, w[1] \div 256>>

\* "expand 32-byte k"
sigma == <<101, 120, 112, 97, 110, 100, 32, 51, 50, 45, 98, 121, 116, 101, 32, 107>>

\* Four words of a byte sequence, from word i on.
Words(s, i) == <<load_le32(s, i), load_le32(s, i + 1), load_le32(s, i + 2), load_le32(s, i + 3)>>

\* c on the diagonal, the key and the input between.
SalsaInput(in, k) ==
  LET c == Words(sigma, 0)
  IN  <<c[1]>> \o Words(k, 0) \o <<c[2]>> \o Words(in, 0) \o <<c[3]>> \o Words(k, 4) \o <<c[4]>>

\* Four words mixed, one after the other: t[j] ^= rotl32(t[a] + t[b], c).
MixOne(t, j, a, b, c) == [t EXCEPT ![j] = xor32(@, rotl32(add32(t[a], t[b]), c))]
Mix(t) ==
  LET u[i \in 0..4] ==
        IF i = 0 THEN t
        ELSE IF i = 1 THEN MixOne(u[0], 2, 1, 4, 7)
        ELSE IF i = 2 THEN MixOne(u[1], 3, 2, 1, 9)
        ELSE IF i = 3 THEN MixOne(u[2], 4, 3, 2, 13)
        ELSE MixOne(u[3], 1, 4, 3, 18)
  IN  u[4]

\* One of the 20 iterations: mixes column j, from its diagonal word on, and
\* writes it to w as row j, turned by j places.
Turn(t, j) == SubSeq(t, 5 - j, 4) \o SubSeq(t, 1, 4 - j)
Column(x, j) ==
  LET t(m) == x[((5 * j + 4 * m) % 16) + 1] IN Mix(<<t(0), t(1), t(2), t(3)>>)

RoundUnturned(x) ==                      \* mutant: w[4 * j + m]
  Column(x, 0) \o Column(x, 1) \o Column(x, 2) \o Column(x, 3)
Round(x) ==
  Turn(Column(x, 0), 0) \o Turn(Column(x, 1), 1) \o Turn(Column(x, 2), 2)
    \o Turn(Column(x, 3), 3)

\* x after 20 of them.
Rounds(x) ==
  LET round == [b \in Block |-> Round(b)]
      w[i \in 0..20] == IF i = 0 THEN x ELSE round[w[i - 1]]
  IN  w[20]

Bytes(words) == [i \in 1..4 * Len(words) |-> store_le32(words[((i - 1) \div 4) + 1])[((i - 1) % 4) + 1]]

\* h = 0: with the input added again.  h = 1: added, then subtracted where it
\* was public, and only those words kept.
salsa_core(in, k, h) ==
  LET y == SalsaInput(in, k)
      x == Rounds(y)
      sum(n) == add32(x[n + 1], y[n + 1])
  IN  IF h = 0
      THEN Bytes([i \in 1..16 |-> sum(i - 1)])
      ELSE Bytes([i \in 1..8 |->
             IF i <= 4 THEN sub32(sum(5 * (i - 1)), load_le32(sigma, i - 1))
                       ELSE sub32(sum(i + 1), load_le32(in, i - 5))])

-----------------------------------------------------------------------------
(* CRC16.                                                                   *)

\* crc << 1, and the polynomial 0x1021 if bit 15 is lost by it.
Doubled(crc) == {b + 1 : b \in crc \ {15}}
CrcBit(crc) == IF 15 \in crc THEN SymDiff(Doubled(crc), {0, 5, 12}) ELSE Doubled(crc)

\* The register after j bits of the byte.
CrcBits(crc, byte) ==
  LET bit == [c \in SUBSET (0..15) |-> CrcBit(c)]
      r[j \in 0..8] == IF j = 0 THEN SymDiff(crc, {b + 8 : b \in Bits(byte)}) ELSE bit[r[j - 1]]
  IN  r
CrcByte7(crc, byte) == CrcBits(crc, byte)[7]     \* mutant: seven shifts
CrcByte(crc, byte) == CrcBits(crc, byte)[8]

\* The register after each byte.
CrcRegister(data) ==
  LET crc[i \in 0..Len(data)] == IF i = 0 THEN 0..15 ELSE CrcByte(crc[i - 1], data[i])
  IN  crc

nuki_crc16(data) == Number(CrcRegister(data)[Len(data)])
=============================================================================
