---------------------------- MODULE NukiMessages ----------------------------
(***************************************************************************)
(* The functions of NukiFrames, NukiSecretbox, NukiCrypto and NukiPoly1305 *)
(* at work: one piece of data at a time is built or sealed, possibly      *)
(* damaged or tampered with on its way, and taken apart again.            *)
(***************************************************************************)
EXTENDS NukiFrames, NukiSecretbox, NukiPoly1305

CONSTANTS
  Commands, AuthIds, Payloads,   \* what is put into frames
  Damages,                       \* sets of bits of a frame that change on its way
  Reports, Lengths, Ages,        \* states, lengths of the lock's message, ages in seconds
  Key, WrongKey, Nonces,         \* a nonce is <<first 16 bytes, last 8>>
  CoreKeys, CoreInputs,          \* what the Salsa20 core is given
  PolyKeys, PolyMsgs             \* what Poly1305 is given

Report == [lock : Byte, year : Word, clock : [1..5 -> Byte], tz : Short,
           battery : Byte, door : Byte]

ASSUME FrameInputs ==
  /\ Commands \subseteq Word
  /\ \A a \in AuthIds : a \in Nat /\ a \div 65536 \in Word
  /\ \A p \in Payloads : p \in Seq(Byte)

ASSUME ReportInputs ==
  /\ Reports \subseteq Report /\ Lengths \subseteq 0..20
  /\ \A age \in Ages : age \in Nat /\ age \div 65536 \in Short

ASSUME BoxInputs == Key # WrongKey /\ \A n \in Nonces : n = <<n[1], n[2]>>

ASSUME CryptoInputs ==
  /\ \A k \in CoreKeys : k \in [1..32 -> Byte]
  /\ \A in \in CoreInputs : in \in [1..16 -> Byte]
  /\ \A k \in PolyKeys : k \in [1..2 * L -> Byte]
  /\ \A m \in PolyMsgs : m \in Seq(Byte)

VARIABLES
  stage,     \* "none", "wire" (built, on its way) or "end"
  kind,      \* which function is at work
  input,     \* what it was given
  touched,   \* changed on its way
  damage,    \* the bits of a frame that were changed
  wire, out, \* what was sent, and what was made of it
  used,      \* keystream used so far under the current key
  cache,     \* g_cache_valid and g_cached_state
  last       \* history: the last whole report since start-up, {} if none

vars == <<stage, kind, input, touched, damage, wire, out, used, cache, last>>

Nothing == [err |-> "none"]

Start(k, in, w) ==
  /\ stage = "none" /\ stage' = "wire"
  /\ used # {} => k = "box"
  /\ cache.valid => k \in {"state", "answer"}
  /\ kind' = k /\ input' = in /\ wire' = w
  /\ UNCHANGED <<touched, damage, out, used, cache, last>>

Finish(k, o) ==
  /\ stage = "wire" /\ stage' = "end" /\ kind = k
  /\ out' = o
  /\ UNCHANGED <<kind, input, touched, damage, wire, used, cache, last>>

Touch(k, E, w) ==
  /\ stage = "wire" /\ kind = k /\ ~touched
  /\ touched' = TRUE /\ damage' = E /\ wire' = w
  /\ UNCHANGED <<stage, kind, input, out, used, cache, last>>

Clear ==
  /\ stage' = "none" /\ kind' = "none" /\ input' = << >> /\ touched' = FALSE
  /\ damage' = {} /\ wire' = << >> /\ out' = Nothing

-----------------------------------------------------------------------------
(* Frames: built, damaged and parsed.                                       *)

BuildPlain ==
  \E cmd \in Commands, p \in Payloads :
    Start("plain", [auth_id |-> 0, cmd |-> cmd, payload |-> p], nuki_frame_build_plain(cmd, p))
BuildAuth ==
  \E a \in AuthIds, cmd \in Commands, p \in Payloads :
    Start("auth", [auth_id |-> a, cmd |-> cmd, payload |-> p], nuki_frame_build_auth(a, cmd, p))

\* The bits in E change; bit 0 is the most significant one of the first byte.
Damage(bytes, E) ==
  [i \in 1..Len(bytes) |->
     Number(SymDiff(Bits(bytes[i]), {b \in 0..7 : 8 * i - 1 - b \in E}))]

DamageFrame ==
  /\ kind \in {"plain", "auth"} /\ stage = "wire" /\ ~touched
  /\ \E E \in Damages :
       /\ E # {} /\ E \subseteq 0..8 * Len(wire) - 1
       /\ Touch(kind, E, Damage(wire, E))

ParseFrame ==
  \/ Finish("plain", nuki_frame_parse_plain(wire))
  \/ Finish("auth", nuki_frame_parse_auth(wire))

-----------------------------------------------------------------------------
(* Secretbox: sealed, tampered with, opened.                                *)

\* A message of the given length, no two bytes alike; its symbols are none of
\* the keystream's.
Message(len) == [i \in 1..len |-> {Symbol(<<0, 0>>, 0, << >>, i)}]

NoncesUsed == {<<s.key[2], s.nonce>> : s \in used}

Sealed(msg, n) ==
  LET e == nuki_crypto_e1(msg, n, Key)
  IN  [err |-> e.err, tag |-> e.tag, msg |-> e.msg, nonce |-> n, key |-> Key]

\* A message under a nonce not used before (sys_rand_get of 24 bytes).
Seal ==
  \E len \in 0..MAX_MSG + 1, n \in Nonces \ NoncesUsed :
    Start("box", [nonce |-> n, msg |-> Message(len)], Sealed(Message(len), n))

Other(bytes, i) == [bytes EXCEPT ![i] = SymDiff(@, {Symbol(<<0, 0>>, 9, << >>, i)})]

Tamper ==
  /\ kind = "box" /\ stage = "wire" /\ wire.err = "OK" /\ used = {}
  /\ \/ \E i \in 1..Len(wire.msg) : Touch("box", {}, [wire EXCEPT !.msg = Other(@, i)])
     \/ Touch("box", {}, [wire EXCEPT !.tag = Tag(@.msg, Other(@.key, 1))])
     \/ \E n \in Nonces \ {wire.nonce} : Touch("box", {}, [wire EXCEPT !.nonce = n])
     \/ Touch("box", {}, [wire EXCEPT !.key = WrongKey])
     \/ /\ wire.msg # << >>
        /\ Touch("box", {}, [wire EXCEPT !.msg = SubSeq(@, 1, Len(@) - 1)])

Open ==
  /\ kind = "box" /\ wire.err = "OK"
  /\ Finish("box", nuki_crypto_d1(wire.tag, wire.msg, wire.nonce, wire.key))

\* The keystream in what e1 sent: in the ciphertext, and as Poly1305's key.
Stream(bytes) == {s \in UNION {bytes[i] : i \in 1..Len(bytes)} : s.ctr # << >>}

-----------------------------------------------------------------------------
(* The lock's state, to the Loxone side.                                    *)

\* KEYTURNER_STATES as the lock sends it (external), len bytes of it.
LockMessage(s, len) ==
  SubSeq(<<2, s.lock, 0>> \o put_le16(s.year) \o s.clock \o put_le16(s.tz)
         \o <<s.battery, 1, 0, 2, 0, 0, s.door, 0>>, 1, len)

ReportState ==
  \E s \in Reports, len \in Lengths :
    Start("state", [s |-> s, len |-> len], LockMessage(s, len))

EmptyCache == [valid |-> FALSE, state |-> NoState]

\* The poller, and a lock action likewise, keeps a state that was parsed; an
\* error leaves the cache as it is.
CachedAlways(parsed) == [valid |-> TRUE, state |-> parsed.state]  \* mutant: no "if (!err)"
Cached(parsed) ==
  IF parsed.err = "OK" THEN [valid |-> TRUE, state |-> parsed.state] ELSE cache

Capture ==
  /\ stage = "wire" /\ kind = "state" /\ stage' = "end"
  /\ out' = nuki_keyturner_state_parse(wire)
  /\ cache' = Cached(nuki_keyturner_state_parse(wire))
  /\ last' = IF input.len >= 13 THEN {input} ELSE last
  /\ UNCHANGED <<kind, input, touched, damage, wire, used>>

\* -ENODATA while nothing has been kept.
nuki_app_get_cached_state == IF cache.valid THEN 0 ELSE -61

\* The answer to a STATE request.
Answer ==
  \E age \in Ages :
    Start("answer", [age |-> age], handle_state(nuki_app_get_cached_state, cache.state, age))

\* The cache is in RAM.
Restart ==
  /\ stage = "none" /\ cache.valid
  /\ cache' = EmptyCache /\ last' = {}
  /\ UNCHANGED <<stage, kind, input, touched, damage, wire, out, used>>

-----------------------------------------------------------------------------
(* The Salsa20 core and Poly1305.                                           *)

Core ==
  \E h \in {0, 1}, k \in CoreKeys, in \in CoreInputs :
    Start("core", [in |-> in, k |-> k, h |-> h], salsa_core(in, k, h))

Authenticate ==
  \E k \in PolyKeys, m \in PolyMsgs : Start("poly", [k |-> k, m |-> m], poly1305(m, k))

-----------------------------------------------------------------------------
\* The next piece of data; two messages under one key at most.
Again ==
  /\ \/ stage = "end"
     \/ stage = "wire" /\ kind = "box" /\ wire.err # "OK"
     \/ stage = "wire" /\ kind \in {"core", "poly", "answer"}
  /\ used' = IF kind # "box" \/ wire.err # "OK" THEN used
             ELSE IF used = {} /\ ~touched THEN Stream(wire.msg) \cup Stream(wire.tag.key)
             ELSE {}
  /\ Clear /\ UNCHANGED <<cache, last>>

Init ==
  /\ stage = "none" /\ kind = "none" /\ input = << >> /\ touched = FALSE
  /\ damage = {} /\ wire = << >> /\ out = Nothing /\ used = {}
  /\ cache = EmptyCache /\ last = {}

Next ==
  \/ BuildPlain \/ BuildAuth \/ DamageFrame \/ ParseFrame \/ Seal \/ Tamper \/ Open
  \/ ReportState \/ Capture \/ Answer \/ Restart \/ Core \/ Authenticate \/ Again

Spec == Init /\ [][Next]_vars

-----------------------------------------------------------------------------
(* Properties.                                                              *)

\* What the Loxone side reads at the offsets LOXONE_UART_PROTOCOL.md gives.
At(frame, offset) == frame[offset + 4]
Le16At(frame, offset) == At(frame, offset) + 256 * At(frame, offset + 1)
Le32At(frame, offset) ==
  Le16At(frame, offset) + 65536 * int16(Le16At(frame, offset + 2))

\* A frame that arrives as it was built is accepted with the authorisation id,
\* command and payload it was built from.
FramesParseBack ==
  stage = "end" /\ kind \in {"plain", "auth"} /\ ~touched /\ wire # << >> =>
    out = [err |-> "OK", auth_id |-> input.auth_id, cmd |-> input.cmd,
           payload |-> input.payload]

\* The generator polynomial and the one of a byte sequence, each the set of
\* its exponents.
G == {16, 12, 5, 0}
Poly(bytes) ==
  {e \in 0..8 * Len(bytes) - 1 : e % 8 \in Bits(bytes[Len(bytes) - (e \div 8)])}
Shift(S, n) == {e + n : e \in S}

\* CRC-16 by long division: the remainder of the data times x^16, its first 16
\* bits inverted.
Divide(S, e) == IF e \in S THEN SymDiff(S, Shift(G, e - 16)) ELSE S
CrcReference(data) ==
  LET n == 8 * Len(data)
      rest[i \in 0..n] ==
        IF i = 0 THEN SymDiff(Shift(Poly(data), 16), Shift(0..15, n))
                 ELSE Divide(rest[i - 1], n + 16 - i)
  IN  rest[n]

\* nuki_crc16 is the remainder of polynomial division.
CrcIsRemainder ==
  stage = "wire" /\ kind \in {"plain", "auth"} /\ ~touched /\ wire # << >> =>
    LET n == Len(wire) - 2
    IN  Bits(get_le16(wire, n + 1)) = CrcReference(SubSeq(wire, 1, n))

\* Changes within 16 consecutive bits of a frame of n bits, before the CRC or
\* in it.
Burst(E, n) ==
  /\ \E a \in 0..n - 16 : E \subseteq a..a + 15
  /\ E \subseteq 0..n - 17 \/ E \subseteq n - 16..n - 1

\* A frame in which anything within 16 consecutive bits of the body, or of the
\* CRC, has changed is rejected.
BurstsRejected ==
  stage = "end" /\ kind \in {"plain", "auth"} /\ touched /\ Burst(damage, 8 * Len(wire)) =>
    out.err # "OK"

\* d1 returns what e1 was given, for every length and across block borders, and
\* nothing at all if text, tag, nonce, key or length is not what e1 used.
BoxOpensOnlyIntact ==
  /\ stage = "wire" /\ kind = "box" => (wire.err = "OK" <=> Len(input.msg) <= MAX_MSG)
  /\ stage = "end" /\ kind = "box" =>
       IF touched THEN out.err = "EBADMSG" /\ out.msg = << >>
                  ELSE out.err = "OK" /\ out.msg = input.msg

\* No byte of keystream is used twice, neither within a message, nor between
\* its ciphertext and its Poly1305 key, nor by two messages.
KeystreamOnce ==
  stage = "wire" /\ kind = "box" /\ wire.err = "OK" /\ ~touched =>
    LET stream == Stream(wire.msg) \cup Stream(wire.tag.key)
    IN  Cardinality(stream) = PAD + Len(input.msg) /\ stream \cap used = {}

\* Every field of the last state the lock has reported reaches the Loxone side
\* at the documented offset with its value, a message cut short of the door
\* sensor as sensor unknown.  A message cut short of the battery byte fails the
\* poll and changes nothing: the answer is the state reported before it, and an
\* error and zeros only if there is none.
StateReachesLoxone ==
  stage = "wire" /\ kind = "answer" =>
    LET f == wire
    IN  /\ Len(f) = 24 /\ At(f, -1) = 21
        /\ last = {} => Le32At(f, 0) = -61 /\ \A o \in 4..20 : At(f, o) = 0
        /\ \A r \in last :
             /\ Le32At(f, 0) = 0
             /\ At(f, 4) = r.s.lock
             /\ At(f, 5) = 2 * (r.s.battery \div 4)
             /\ At(f, 6) = r.s.battery % 2
             /\ At(f, 7) = (IF r.len < 19 THEN 255 ELSE r.s.door)
             /\ Le16At(f, 8) = r.s.year
             /\ \A i \in 1..5 : At(f, 9 + i) = r.s.clock[i]
             /\ int16(Le16At(f, 15)) = r.s.tz
             /\ Le32At(f, 17) = input.age

\* Salsa20 as its specification has it: ten times columns, then rows.
ColumnRound(y) ==
  LET a == Mix(<<y[1], y[5], y[9], y[13]>>)
      b == Mix(<<y[6], y[10], y[14], y[2]>>)
      c == Mix(<<y[11], y[15], y[3], y[7]>>)
      d == Mix(<<y[16], y[4], y[8], y[12]>>)
  IN  <<a[1], b[4], c[3], d[2],  a[2], b[1], c[4], d[3],
        a[3], b[2], c[1], d[4],  a[4], b[3], c[2], d[1]>>
RowRound(y) ==
  LET a == Mix(<<y[1], y[2], y[3], y[4]>>)
      b == Mix(<<y[6], y[7], y[8], y[5]>>)
      c == Mix(<<y[11], y[12], y[9], y[10]>>)
      d == Mix(<<y[16], y[13], y[14], y[15]>>)
  IN  <<a[1], a[2], a[3], a[4],  b[4], b[1], b[2], b[3],
        c[3], c[4], c[1], c[2],  d[2], d[3], d[4], d[1]>>
TenDoubleRounds(y) ==
  LET columns == [b \in Block |-> ColumnRound(b)]
      rows == [b \in Block |-> RowRound(b)]
      z[i \in 0..10] == IF i = 0 THEN y ELSE rows[columns[z[i - 1]]]
  IN  z[10]

SalsaReference(in, k, h) ==
  LET y == SalsaInput(in, k)
      x == TenDoubleRounds(y)
  IN  IF h = 0
      THEN Bytes([i \in 1..16 |-> add32(x[i], y[i])])
      ELSE Bytes(<<x[1], x[6], x[11], x[16], x[7], x[8], x[9], x[10]>>)

\* salsa_core computes Salsa20 and HSalsa20 as specified, although it mixes
\* only columns and transposes in between.
CoreIsSalsa20 ==
  stage = "wire" /\ kind = "core" => wire = SalsaReference(input.in, input.k, input.h)
=============================================================================
