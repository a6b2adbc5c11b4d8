------------------------------ MODULE NukiCodec ------------------------------
(***************************************************************************)
(* The model that TLC runs: NukiMessages with chosen inputs, and the       *)
(* three properties that only TLC checks.                                 *)
(***************************************************************************)
EXTENDS NukiMessages

SampleCommands == {258}
SamplePayloads == {<< >>, <<0>>, <<255>>, <<165, 1>>, <<1, 2, 3>>}
SampleNonces == {<<1, 1>>, <<1, 2>>, <<2, 1>>}
\* Every field at its ends, one field at a time.
Usual == [lock |-> 1, year |-> 2026, clock |-> <<8, 7, 14, 2, 10>>, tz |-> 120,
          battery |-> 175, door |-> 2]
SampleReports ==
  {[Usual EXCEPT !.lock = v] : v \in {0, 254, 255}} \cup
  {[Usual EXCEPT !.year = v] : v \in {255, 256, 65535}} \cup
  {[Usual EXCEPT !.tz = v] : v \in {-720, -1, 0, 840}} \cup
  {[Usual EXCEPT !.battery = v] : v \in {0, 1, 2, 200, 255}} \cup
  {[Usual EXCEPT !.door = v] : v \in {0, 240}}

\* One bit, two bits, everything within a burst no longer than the CRC, and
\* some of what is within it.
SampleDamages ==
  LET bits == 0..8 * FRAME_MAX - 1
  IN  {{a, b} : a, b \in bits} \cup {a..a + n : a \in bits, n \in 2..15} \cup
      {Shift(E, a) : a \in bits, E \in {{0, 3, 8, 12}, {0, 4, 11}, {0, 1, 7, 15}}}

-----------------------------------------------------------------------------
(* The examples of tests/nuki_crypto.                                       *)

Zeros(n) == [i \in 1..n |-> 0]

Kdf1Key ==
  <<171, 125, 153, 105, 139, 245, 73, 249, 174, 128, 234, 77, 20, 13, 41, 217, 177, 105, 193,
    133, 51, 229, 38, 125, 158, 39, 111, 22, 59, 92, 11, 8>>
Kdf1Result ==
  <<145, 85, 97, 88, 125, 134, 129, 91, 112, 158, 221, 88, 25, 216, 198, 242, 232, 131, 218,
    60, 134, 244, 97, 241, 59, 132, 34, 139, 132, 83, 62, 4>>

\* A request for the lock's state, as it is and as it is sent.
SharedKey ==
  <<33, 127, 203, 15, 24, 202, 242, 132, 233, 189, 234, 11, 148, 184, 59, 141, 16, 134, 126,
    215, 6, 191, 222, 219, 210, 56, 31, 76, 179, 184, 247, 48>>
WireNonce ==
  <<55, 145, 127, 26, 243, 30, 197, 148, 7, 5, 243, 77, 30, 85, 80, 96, 125, 91, 47, 159,
    231, 212, 150, 182>>
WireTag ==
  <<103, 13, 18, 73, 38, 0, 67, 102, 83, 46, 141, 146, 122, 51, 254, 132>>
WireText ==
  <<231, 130, 169, 89, 77, 57, 21, 125, 6, 94>>
PlainText ==
  <<2, 0, 0, 0, 1, 0, 12, 0, 65, 141>>

-----------------------------------------------------------------------------
(* Inputs of the Salsa20 core and of Poly1305.                              *)

Pattern(a, b, n) == [i \in 1..n |-> (a * i + b) % 256]
SampleCoreKeys == {Pattern(0, 0, 32), Pattern(7, 1, 32), Kdf1Key, SharedKey}
SampleCoreInputs ==
  {Zeros(16), Pattern(0, 255, 16), Pattern(3, 2, 16), SubSeq(WireNonce, 1, 16)}

SamplePolyKeys == {<<1, 0, 0, 0>>, <<255, 255, 255, 255>>, <<3, 1, 200, 250>>, <<0, 0, 9, 9>>}
\* Lengths of 0 to 3 blocks, and sums just below, at and above the modulus.
SamplePolyMsgs == {<< >>, <<1>>, <<0, 0>>, <<255, 255, 255>>, <<7, 130, 255, 0>>} \cup
                  {<<b, 255, 0, 0, 0, 0>> : b \in 248..255}

-----------------------------------------------------------------------------
(* Reference definition.                                                    *)

\* Poly1305 with whole numbers, modulo 2^(8L+2) - 5.
P == 2^(8 * L + 2) - 5
Value(bytes) == MapThenSumSet(LAMBDA i : bytes[i] * 256^(i - 1), 1..Len(bytes))

RECURSIVE MulMod(_, _)
MulMod(a, b) ==
  IF b = 0 THEN 0 ELSE (2 * MulMod(a, b \div 2) + (b % 2) * a) % P

RECURSIVE Evaluate(_, _, _)
Evaluate(h, m, r) ==
  LET n == IF Len(m) < L THEN Len(m) ELSE L
  IN  IF m = << >> THEN h
      ELSE Evaluate(MulMod((h + Value(SubSeq(m, 1, n)) + 256^n) % P, r),
                    SubSeq(m, n + 1, Len(m)), r)

\* A key this short has no bits to clear: KnownAnswers is about those.
PolyReference(m, k) ==
  (Evaluate(0, m, Value(SubSeq(k, 1, L))) + Value(SubSeq(k, L + 1, 2 * L))) % 256^L

-----------------------------------------------------------------------------
(* Properties.                                                              *)

\* A frame in which one or two bits have changed is rejected.
DamagedFramesRejected ==
  stage = "end" /\ touched /\ Cardinality(damage) \in {1, 2} => out.err # "OK"

\* poly1305 on limbs, with its lazy carries and last conditional subtraction,
\* is the polynomial modulo 2^130 - 5.
PolyIsArithmetic ==
  stage = "wire" /\ kind = "poly" => Value(wire) = PolyReference(input.m, input.k)

P17 == INSTANCE NukiPoly1305 WITH LIMBS <- 17

\* 0x0ffffffc0ffffffc0ffffffc0fffffff, the bits of the key that Poly1305 keeps.
ClampMask == <<255, 255, 255, 15, 252, 255, 255, 15, 252, 255, 255, 15, 252, 255, 255, 15>>

\* The functions work together as in the lock: kdf1 and e1 give the bytes of
\* the examples, from the request's frame with its CRC by way of both uses of
\* the core to the ciphertext and to the tag of Poly1305 at its real size, for
\* which the key is cut down to ClampMask.
KnownAnswers ==
  /\ stage = "wire" /\ kind = "core" /\ input.h = 1 =>
       /\ input.k = Kdf1Key /\ input.in = Zeros(16) => wire = Kdf1Result
       /\ input.k = SharedKey /\ input.in = SubSeq(WireNonce, 1, 16) =>
            \E stream \in {salsa_core(SubSeq(WireNonce, 17, 24) \o Zeros(8), wire, 0)} :
              /\ nuki_frame_build_auth(2, 1, <<12, 0>>) = PlainText
              /\ WireText = [i \in 1..Len(PlainText) |-> xor16(PlainText[i], stream[32 + i])]
              /\ WireTag = P17!poly1305(WireText, SubSeq(stream, 1, 32))
  /\ stage = "wire" /\ kind = "poly" =>
       P17!Clamp([j \in 1..32 |-> 255]) = [j \in 0..16 |-> IF j < 16 THEN ClampMask[j + 1] ELSE 0]
=============================================================================
