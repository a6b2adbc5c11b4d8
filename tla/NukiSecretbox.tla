---------------------------- MODULE NukiSecretbox ----------------------------
(***************************************************************************)
(* The stream cipher and secretbox (e1, d1) of nuki_crypto.c as operators. *)
(*                                                                        *)
(* A byte is the set of the independent random bytes it is the exclusive  *)
(* or of, so that exclusive or is symmetric difference and {} is a zero   *)
(* byte.  A block of keystream is the core's output, one symbol for each  *)
(* position, and Poly1305 is an ideal MAC; both are computed for real in  *)
(* NukiCrypto.                                                            *)
(***************************************************************************)
EXTENDS Integers, Sequences, FiniteSetsExt

CONSTANTS
  BLOCK, PAD,         \* 64 and 32 bytes
  MAX_MSG,            \* NUKI_CRYPTO_MAX_MSG_LEN (256)
  CTR_BASE, CTR_LEN   \* the block counter: 8 bytes of base 256

\* CTR_BASE to the power j.
Power[j \in 0..CTR_LEN] == IF j = 0 THEN 1 ELSE CTR_BASE * Power[j - 1]

ASSUME BoxAssumption ==
  /\ BLOCK \in Nat /\ PAD \in 1..BLOCK /\ MAX_MSG \in Nat
  /\ CTR_LEN \in Nat \ {0} /\ CTR_BASE \in Nat \ {0}
  /\ PAD + MAX_MSG <= BLOCK * Power[CTR_LEN]

Symbol(key, nonce, ctr, i) == [key |-> key, nonce |-> nonce, ctr |-> ctr, i |-> i]

core_salsa20(k, n, ctr) == [i \in 1..BLOCK |-> {Symbol(k, n, ctr, i)}]

\* 1 is added to the counter: what is carried out of its first j bytes, and
\* its bytes then.
Carries(ctr) ==
  LET u[j \in 0..CTR_LEN] == IF j = 0 THEN 1 ELSE (u[j - 1] + ctr[j]) \div CTR_BASE
  IN  u
IncLost(ctr) == [ctr EXCEPT ![1] = (@ + 1) % CTR_BASE]     \* mutant: no carry
Inc(ctr) == [j \in 1..CTR_LEN |-> (Carries(ctr)[j - 1] + ctr[j]) % CTR_BASE]

\* The counter after b full blocks.
Blocks == (PAD + MAX_MSG) \div BLOCK
Counter[b \in 0..Blocks] ==
  IF b = 0 THEN [j \in 1..CTR_LEN |-> 0] ELSE Inc(Counter[b - 1])

\* Block by block, the last one as far as the message goes: the loop over whole
\* blocks and the partial one after it take byte i from the same place.
stream_salsa20_xor(m, n, k) ==
  [i \in 1..Len(m) |->
     SymDiff(m[i], core_salsa20(k, n, Counter[(i - 1) \div BLOCK])[((i - 1) % BLOCK) + 1])]

\* The subkey is a function of the key and the nonce's first 16 bytes.
xsalsa20_xor(m, n, k) == stream_salsa20_xor(m, n[2], <<k, n[1]>>)

NoBytes(n) == [i \in 1..n |-> {}]

\* The key and the message a tag was computed from.
Tag(m, k) == [key |-> k, msg |-> m]

Error(e) == [err |-> e, tag |-> Tag(<< >>, << >>), msg |-> << >>]

nuki_crypto_e1(msg, n, k) ==
  LET padded_out == xsalsa20_xor(NoBytes(PAD) \o msg, n, k)
      ct == SubSeq(padded_out, PAD + 1, PAD + Len(msg))
  IN  IF Len(msg) > MAX_MSG THEN Error("EINVAL")
      ELSE [err |-> "OK", tag |-> Tag(ct, SubSeq(padded_out, 1, PAD)), msg |-> ct]

\* The tag first, from the first block of the stream; only then the text.
d1Unverified(tag, ct, n, k) ==           \* mutant: tag not compared
  LET padded_out == xsalsa20_xor(NoBytes(PAD) \o ct, n, k)
  IN  [err |-> "OK", tag |-> tag, msg |-> SubSeq(padded_out, PAD + 1, PAD + Len(ct))]
nuki_crypto_d1(tag, ct, n, k) ==
  LET block0 == xsalsa20_xor(NoBytes(BLOCK), n, k)
      padded_out == xsalsa20_xor(NoBytes(PAD) \o ct, n, k)
  IN  IF Len(ct) > MAX_MSG THEN Error("EINVAL")
      ELSE IF tag # Tag(ct, SubSeq(block0, 1, PAD)) THEN Error("EBADMSG")
      ELSE [err |-> "OK", tag |-> tag, msg |-> SubSeq(padded_out, PAD + 1, PAD + Len(ct))]
=============================================================================
