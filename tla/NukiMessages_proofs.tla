------------------------- MODULE NukiMessages_proofs -------------------------
(***************************************************************************)
(* Proofs of the properties of NukiMessages, for every payload, state,     *)
(* message length, key and nonce.                                         *)
(*                                                                        *)
(* FrameInv, BoxInv and StateInv say what is on its way: the function at  *)
(* work applied to its input, tampered with at most once; StateInv also   *)
(* that the cache holds the last whole report.  What remains of each      *)
(* property is a fact about the functions.                                *)
(***************************************************************************)
EXTENDS NukiCrypto_proofs

\* A frame of either kind as it is built, and what its parser makes of bytes.
Sent(k, a, cmd, p) ==
  IF k = "plain" THEN nuki_frame_build_plain(cmd, p) ELSE nuki_frame_build_auth(a, cmd, p)
Received(k, w) == IF k = "plain" THEN nuki_frame_parse_plain(w) ELSE nuki_frame_parse_auth(w)

\* f as it was sent, w as it arrives.
Arrives(f, w) ==
  /\ ~touched => w = f
  /\ touched => damage # {} /\ damage \subseteq 0..8 * Len(f) - 1 /\ w = Damage(f, damage)

FrameInv ==
  /\ stage = "none" => ~touched
  /\ stage # "none" /\ kind \in {"plain", "auth"} =>
       \E a \in AuthIds \cup {0}, cmd \in Commands, p \in Payloads :
         /\ input = [auth_id |-> a, cmd |-> cmd, payload |-> p]
         /\ kind = "plain" => a = 0
         /\ kind = "auth" => a \in AuthIds
         /\ Arrives(Sent(kind, a, cmd, p), wire)
         /\ stage = "end" => out = Received(kind, wire)

CoreInv ==
  stage # "none" /\ kind = "core" =>
    \E h \in {0, 1}, k \in CoreKeys, in \in CoreInputs :
      input = [in |-> in, k |-> k, h |-> h] /\ wire = salsa_core(in, k, h)

\* w as it was sent, v as it arrives.
Tampered(w, v) ==
  \/ \E i \in 1..Len(w.msg) : v = [w EXCEPT !.msg = Other(@, i)]
  \/ v = [w EXCEPT !.tag = Tag(@.msg, Other(@.key, 1))]
  \/ \E n \in Nonces \ {w.nonce} : v = [w EXCEPT !.nonce = n]
  \/ v = [w EXCEPT !.key = WrongKey]
  \/ w.msg # << >> /\ v = [w EXCEPT !.msg = SubSeq(@, 1, Len(@) - 1)]

BoxInv ==
  /\ touched \in BOOLEAN
  /\ stage = "none" => ~touched
  /\ stage # "none" /\ kind = "box" =>
       \E len \in 0..MAX_MSG + 1, n \in Nonces :
         /\ input = [nonce |-> n, msg |-> Message(len)]
         /\ n \notin NoncesUsed
         /\ ~touched => wire = Sealed(Message(len), n)
         /\ touched => /\ Sealed(Message(len), n).err = "OK"
                       /\ Tampered(Sealed(Message(len), n), wire)
         /\ stage = "end" => /\ wire.err = "OK"
                             /\ out = nuki_crypto_d1(wire.tag, wire.msg, wire.nonce, wire.key)

\* A frame on its way is what the builder made of its input, and a parsed one
\* what the parser made of that.
LEMMA AlwaysFrame == Spec => []FrameInv
<1>1. Init => FrameInv
  BY DEF Init, FrameInv
<1>2. FrameInv /\ [Next]_vars => FrameInv'
  <2> SUFFICES ASSUME FrameInv, [Next]_vars PROVE FrameInv'
    OBVIOUS
  <2>1. CASE BuildPlain
    BY <2>1 DEF BuildPlain, Start, FrameInv, Sent, Arrives
  <2>2. CASE BuildAuth
    BY <2>2 DEF BuildAuth, Start, FrameInv, Sent, Arrives
  <2>3. CASE ParseFrame
    BY <2>3 DEF ParseFrame, Finish, FrameInv, Received, Arrives
  <2>4. CASE Seal
    BY <2>4 DEF Seal, Start, FrameInv
  <2>5. CASE Tamper
    BY <2>5 DEF Tamper, Touch, FrameInv
  <2>6. CASE Open
    BY <2>6 DEF Open, Finish, FrameInv
  <2>7. CASE ReportState
    BY <2>7 DEF ReportState, Start, FrameInv
  <2>8. CASE Answer
    BY <2>8 DEF Answer, Start, FrameInv
  <2>9. CASE Again
    BY <2>9 DEF Again, Clear, FrameInv
  <2>10. CASE UNCHANGED vars
    BY <2>10 DEF vars, FrameInv, Arrives
  <2>11. CASE DamageFrame
    BY <2>11 DEF DamageFrame, Touch, FrameInv, Arrives
  <2>12. CASE Core
    BY <2>12 DEF Core, Start, FrameInv
  <2>13. CASE Authenticate
    BY <2>13 DEF Authenticate, Start, FrameInv
  <2>14. CASE Capture
    BY <2>14 DEF Capture, FrameInv
  <2>15. CASE Restart
    BY <2>15 DEF Restart, FrameInv, Arrives
  <2> QED BY <2>1, <2>2, <2>3, <2>4, <2>5, <2>6, <2>7, <2>8, <2>9, <2>10, <2>11, <2>12, <2>13,
            <2>14, <2>15
          DEF Next
<1> QED BY <1>1, <1>2, PTL DEF Spec

\* Likewise a sealed message: its nonce is fresh, and it was tampered with at
\* most once.
LEMMA AlwaysBox == Spec => []BoxInv
<1>1. Init => BoxInv
  BY DEF Init, BoxInv
<1>2. BoxInv /\ [Next]_vars => BoxInv'
  <2> SUFFICES ASSUME BoxInv, [Next]_vars PROVE BoxInv'
    OBVIOUS
  <2>1. CASE BuildPlain
    BY <2>1 DEF BuildPlain, Start, BoxInv
  <2>2. CASE BuildAuth
    BY <2>2 DEF BuildAuth, Start, BoxInv
  <2>3. CASE ParseFrame
    BY <2>3 DEF ParseFrame, Finish, BoxInv
  <2>4. CASE Seal
    BY <2>4 DEF Seal, Start, BoxInv, NoncesUsed
  <2>5. CASE Tamper
    BY <2>5, ZenonT(40) DEF Tamper, Touch, BoxInv, Tampered, NoncesUsed
  <2>6. CASE Open
    BY <2>6 DEF Open, Finish, BoxInv, NoncesUsed
  <2>7. CASE ReportState
    BY <2>7 DEF ReportState, Start, BoxInv
  <2>8. CASE Answer
    BY <2>8 DEF Answer, Start, BoxInv
  <2>9. CASE Again
    BY <2>9 DEF Again, Clear, BoxInv
  <2>10. CASE UNCHANGED vars
    BY <2>10 DEF vars, BoxInv, NoncesUsed
  <2>11. CASE DamageFrame
    BY <2>11 DEF DamageFrame, Touch, BoxInv, NoncesUsed
  <2>12. CASE Core
    BY <2>12 DEF Core, Start, BoxInv
  <2>13. CASE Authenticate
    BY <2>13 DEF Authenticate, Start, BoxInv
  <2>14. CASE Capture
    BY <2>14 DEF Capture, BoxInv
  <2>15. CASE Restart
    BY <2>15 DEF Restart, BoxInv, NoncesUsed
  <2> QED BY <2>1, <2>2, <2>3, <2>4, <2>5, <2>6, <2>7, <2>8, <2>9, <2>10, <2>11, <2>12, <2>13,
            <2>14, <2>15
          DEF Next
<1> QED BY <1>1, <1>2, PTL DEF Spec

-----------------------------------------------------------------------------
(* Frames.                                                                  *)

low(n) == n % 256
high(n) == (n \div 256) % 256

\* The range of a word.
LEMMA WordRange == \A n \in Word : n \in Int /\ 0 <= n /\ n < 65536
BY WordIs, SMT

\* Two bytes, and the number they were made from.
LEMMA TwoBytes ==
  ASSUME NEW n \in Int
  PROVE  /\ put_le16(n) = <<low(n), high(n)>>
         /\ put_le16(n) \in Seq(Byte) /\ Len(put_le16(n)) = 2
         /\ put_le16(n)[1] = low(n) /\ put_le16(n)[2] = high(n)
         /\ low(n) \in Byte /\ high(n) \in Byte
         /\ n \in Word => low(n) + 256 * high(n) = n
<1>1. low(n) \in Byte /\ high(n) \in Byte
  BY SMT DEF Byte, low, high
<1>2. n \in Word => low(n) + 256 * high(n) = n
  <2>1. n \in Word => 0 <= n /\ n < 65536
    BY WordRange, SMT
  <2> QED BY <2>1, SMT DEF low, high
<1>3. put_le16(n) = <<low(n), high(n)>>
  BY SMT DEF put_le16, low, high
<1>4. \A x, y \in Byte :
        <<x, y>> \in Seq(Byte) /\ Len(<<x, y>>) = 2 /\ <<x, y>>[1] = x /\ <<x, y>>[2] = y
  BY SMT
<1> QED BY <1>1, <1>2, <1>3, <1>4, SMT

\* A frame whose last two bytes are the checksum of the others.
Checked(f) ==
  LET n == Len(f) - 2
      body == SubSeq(f, 1, n)
  IN  /\ f \in Seq(Byte) /\ n \in Nat /\ body \in Seq(Byte) /\ Len(body) = n
      /\ get_le16(f, n + 1) = nuki_crc16(body)

\* Parse undoes Build: the checksum fits, and command and payload are found
\* again.
LEMMA ParseUndoesBuild ==
  ASSUME NEW h \in Seq(Byte), NEW p \in Seq(Byte), Len(h) >= 2,
         nuki_crc16(h \o p) \in Word, Build(h, p) # << >>
  PROVE  /\ Parse(Build(h, p), Len(h)) = Parsed("OK", h[Len(h) - 1] + 256 * h[Len(h)], p)
         /\ \A i \in 1..Len(h) : Build(h, p)[i] = h[i]
         /\ Checked(Build(h, p))
<1> DEFINE body == h \o p
           crc == put_le16(nuki_crc16(body))
           frame == body \o crc
           n == Len(h)
           m == Len(p)
<1>1. Build(h, p) = frame
  BY DEF Build
<1>2. /\ body \in Seq(Byte) /\ n \in Nat /\ m \in Nat /\ Len(body) = n + m
      /\ \A i \in 1..n : body[i] = h[i]
      /\ \A i \in 1..m : body[n + i] = p[i]
  BY Joined
<1>3. /\ nuki_crc16(body) \in Word /\ nuki_crc16(body) \in Int
      /\ crc \in Seq(Byte) /\ Len(crc) = 2 /\ crc[1] + 256 * crc[2] = nuki_crc16(body)
  <2>1. nuki_crc16(body) \in Word /\ nuki_crc16(body) \in Int
    BY WordRange, SMT
  <2> QED BY <2>1, TwoBytes, SMT
<1> HIDE DEF body, crc
<1>4. /\ frame \in Seq(Byte) /\ Len(frame) = n + m + 2
      /\ \A i \in 1..n + m : frame[i] = body[i]
      /\ \A i \in 1..2 : frame[n + m + i] = crc[i]
  <2> DEFINE k == Len(body)
             l == Len(crc)
  <2>1. /\ frame \in Seq(Byte) /\ Len(frame) = k + l
        /\ \A i \in 1..k : frame[i] = body[i]
        /\ \A i \in 1..l : frame[k + i] = crc[i]
    <3>1. body \in Seq(Byte) /\ crc \in Seq(Byte)
      BY <1>2, <1>3
    <3> QED BY <3>1, Joined, SMT
  <2>2. k = n + m /\ l = 2
    BY <1>2, <1>3
  <2> HIDE DEF k, l, n, m, frame
  <2> QED BY <2>1, <2>2
<1>5. n >= 2
  OBVIOUS
<1> HIDE DEF frame, n, m
<1>6. \A i \in 1..n : frame[i] = h[i]
  BY <1>2, <1>4
<1>7. SubSeq(frame, 1, n + m) = body
  <2>1. 0 + 1 = 1 /\ 0 + (n + m) = n + m /\ \A i \in 1..n + m : 0 + i = i
    BY <1>2
  <2>2. n + m \in Nat /\ 0 \in Nat /\ \A i \in 1..n + m : frame[0 + i] = body[i]
    BY <1>2, <1>4, <2>1
  <2>3. SubSeq(frame, 0 + 1, 0 + (n + m)) = body
    BY <1>2, <2>2, Excerpt
  <2> QED BY <2>1, <2>3
<1>8. SubSeq(frame, n + 1, n + m) = p
  <2>1. ASSUME NEW i \in 1..m PROVE frame[n + i] = p[i]
    <3>1. n + i \in 1..n + m
      BY <1>2
    <3> QED BY <1>2, <1>4, <3>1
  <2>2. p \in Seq(Byte) /\ Len(p) = m
    BY DEF m
  <2> QED BY <1>2, <2>1, <2>2, Excerpt
<1>9. /\ Len(frame) - 2 = n + m /\ ~(Len(frame) < n + 2)
      /\ (n + m) + 1 \in Int /\ ((n + m) + 1) + 1 = n + m + 2 /\ (n - 1) + 1 = n
  BY <1>2, <1>4, <1>5
<1>10. get_le16(frame, (n + m) + 1) = nuki_crc16(body)
  <2>1. frame[(n + m) + 1] = crc[1] /\ frame[((n + m) + 1) + 1] = crc[2]
    BY <1>4, <1>9, SMT
  <2> QED BY <1>3, <2>1, SMT DEF get_le16
<1>11. get_le16(frame, n - 1) = h[n - 1] + 256 * h[n]
  <2>1. n - 1 \in 1..n /\ n \in 1..n
    BY <1>2, <1>5
  <2>2. frame[n - 1] = h[n - 1] /\ frame[n] = h[n] /\ (n - 1) + 1 = n
    <3>1. frame[n - 1] = h[n - 1] /\ frame[n] = h[n]
      BY <1>6, <2>1
    <3> QED BY <1>9, <3>1
  <2>3. get_le16(frame, n - 1) = frame[n - 1] + 256 * frame[(n - 1) + 1]
    BY SMT DEF get_le16
  <2> QED BY <2>2, <2>3, SMT
<1>12. Payload(frame, n) = p
  BY <1>8, <1>9 DEF Payload
<1>13. Parse(frame, n) = Parsed("OK", h[n - 1] + 256 * h[n], p)
  <2>1. Parse(frame, n)
          = IF Len(frame) < n + 2 THEN Parsed("EINVAL", 0, << >>)
            ELSE IF nuki_crc16(SubSeq(frame, 1, Len(frame) - 2))
                      # get_le16(frame, (Len(frame) - 2) + 1)
            THEN Parsed("EBADMSG", 0, << >>)
            ELSE Parsed("OK", get_le16(frame, n - 1), Payload(frame, n))
    BY Zenon DEF Parse
  <2>2. nuki_crc16(SubSeq(frame, 1, Len(frame) - 2)) = get_le16(frame, (Len(frame) - 2) + 1)
    BY <1>7, <1>9, <1>10, Zenon
  <2>3. Parse(frame, n) = Parsed("OK", get_le16(frame, n - 1), Payload(frame, n))
    BY <1>9, <2>1, <2>2, Zenon
  <2> QED BY <1>11, <1>12, <2>3, SMT
<1>14. Checked(frame)
  <2>1. n + m \in Nat /\ Len(body) = n + m /\ body \in Seq(Byte) /\ frame \in Seq(Byte)
    BY <1>2, <1>4, SMT
  <2>2. Len(frame) - 2 = n + m
    BY <1>9
  <2> QED BY <1>7, <1>10, <2>1, <2>2, Zenon DEF Checked
<1>15. /\ Parse(Build(h, p), Len(h)) = Parsed("OK", h[Len(h) - 1] + 256 * h[Len(h)], p)
       /\ \A i \in 1..Len(h) : Build(h, p)[i] = h[i]
  BY <1>1, <1>6, <1>13, SMT DEF n
<1> QED BY <1>1, <1>14, <1>15, Zenon

\* Four bytes, likewise.
LEMMA FourBytes ==
  ASSUME NEW a \in Nat, a \div 65536 \in Word
  PROVE  LET b == put_le32(a)
         IN  /\ b \in Seq(Byte) /\ Len(b) = 4
             /\ (b[1] + 256 * b[2]) + 65536 * (b[3] + 256 * b[4]) = a
<1> DEFINE q == a \div 65536
           s == put_le16(a)
           t == put_le16(q)
<1>1. q \in Int
  BY WordRange, SMT
<1>2. a = (low(a) + 256 * high(a)) + 65536 * q
  BY SMT DEF low, high
<1> HIDE DEF q
<1>3. /\ s \in Seq(Byte) /\ Len(s) = 2 /\ s[1] = low(a) /\ s[2] = high(a)
      /\ t \in Seq(Byte) /\ Len(t) = 2 /\ t[1] + 256 * t[2] = q
  <2>1. q \in Word
    BY SMT DEF q
  <2> QED BY <1>1, <2>1, TwoBytes, SMT
<1>4. put_le32(a) = s \o t
  BY SMT DEF put_le32, q
<1> HIDE DEF s, t
<1>5. /\ s \o t \in Seq(Byte) /\ Len(s \o t) = 4
      /\ (s \o t)[1] = s[1] /\ (s \o t)[2] = s[2]
      /\ (s \o t)[3] = t[1] /\ (s \o t)[4] = t[2]
  <2>1. s \in Seq(Byte) /\ t \in Seq(Byte) /\ Len(s) = 2 /\ Len(t) = 2
    BY <1>3, SMT
  <2>2. /\ s \o t \in Seq(Byte) /\ Len(s \o t) = Len(s) + Len(t)
        /\ \A i \in 1..Len(s) : (s \o t)[i] = s[i]
        /\ \A i \in 1..Len(t) : (s \o t)[Len(s) + i] = t[i]
    <3>1. s \in Seq(Byte) /\ t \in Seq(Byte)
      BY <2>1, SMT
    <3> QED BY <3>1, Joined, SMT
  <2> QED BY <2>1, <2>2, SMT
<1> QED BY <1>2, <1>3, <1>4, <1>5, SMT

\* The head of an authorised frame: authorisation id and command.
AuthHead(h, a, cmd) ==
  /\ h \in Seq(Byte) /\ Len(h) = 6
  /\ (h[1] + 256 * h[2]) + 65536 * (h[3] + 256 * h[4]) = a
  /\ h[5] + 256 * h[6] = cmd

\* nuki_frame_build_auth makes one.
LEMMA BuildsAuthHead ==
  ASSUME NEW a \in Nat, a \div 65536 \in Word, NEW cmd \in Word
  PROVE  AuthHead(put_le32(a) \o put_le16(cmd), a, cmd)
<1> DEFINE s == put_le32(a)
           t == put_le16(cmd)
<1>1. /\ s \in Seq(Byte) /\ Len(s) = 4
      /\ (s[1] + 256 * s[2]) + 65536 * (s[3] + 256 * s[4]) = a
  BY FourBytes, SMT
<1>2. t \in Seq(Byte) /\ Len(t) = 2 /\ t[1] + 256 * t[2] = cmd
  <2>1. cmd \in Int
    BY WordRange, SMT
  <2> QED BY <2>1, TwoBytes, SMT
<1> HIDE DEF s, t
<1>3. /\ s \o t \in Seq(Byte) /\ Len(s \o t) = 6
      /\ \A i \in 1..4 : (s \o t)[i] = s[i]
      /\ (s \o t)[5] = t[1] /\ (s \o t)[6] = t[2]
  <2>1. s \in Seq(Byte) /\ t \in Seq(Byte) /\ Len(s) = 4 /\ Len(t) = 2
    BY <1>1, <1>2, SMT
  <2>2. /\ s \o t \in Seq(Byte) /\ Len(s \o t) = Len(s) + Len(t)
        /\ \A i \in 1..Len(s) : (s \o t)[i] = s[i]
        /\ \A i \in 1..Len(t) : (s \o t)[Len(s) + i] = t[i]
    <3>1. s \in Seq(Byte) /\ t \in Seq(Byte)
      BY <2>1, SMT
    <3> QED BY <3>1, Joined, SMT
  <2> QED BY <2>1, <2>2, SMT
<1>4. AuthHead(s \o t, a, cmd)
  BY <1>1, <1>2, <1>3, SMT DEF AuthHead
<1> QED BY <1>4, SMT DEF s, t

\* The checksum of any bytes is a word.
LEMMA ChecksumType == \A s, t \in Seq(Byte) : nuki_crc16(s \o t) \in Word
<1> SUFFICES ASSUME NEW s \in Seq(Byte), NEW t \in Seq(Byte) PROVE nuki_crc16(s \o t) \in Word
  BY Zenon
<1> DEFINE d == s \o t
<1>1. d \in Seq(Byte)
  BY ConcatProperties, Zenon
<1> HIDE DEF d
<1>2. nuki_crc16(d) \in Word
  BY <1>1, ChecksumIs, Zenon
<1> QED BY <1>2, Zenon DEF d

\* A plain frame parses back, if it was built at all.
LEMMA PlainParsesBack ==
  ASSUME NEW c \in Commands, NEW p \in Payloads, nuki_frame_build_plain(c, p) # << >>
  PROVE  nuki_frame_parse_plain(nuki_frame_build_plain(c, p)) = Parsed("OK", c, p)
<1> DEFINE h == put_le16(c)
<1>1. c \in Int /\ c \in Word /\ p \in Seq(Byte)
  <2>1. c \in Word /\ p \in Seq(Byte)
    BY FrameInputs
  <2>2. c \in Int
    BY <2>1, WordRange
  <2> QED BY <2>1, <2>2
<1>2. h \in Seq(Byte) /\ Len(h) = 2 /\ h[1] + 256 * h[2] = c
  BY <1>1, TwoBytes, SMT
<1>3. Build(h, p) # << >>
  BY SMT DEF nuki_frame_build_plain
<1> HIDE DEF h
<1>4. Parse(Build(h, p), Len(h)) = Parsed("OK", h[Len(h) - 1] + 256 * h[Len(h)], p)
  <2>1. Len(h) >= 2
    BY <1>2, SMT
  <2>2. h \in Seq(Byte) /\ p \in Seq(Byte) /\ nuki_crc16(h \o p) \in Word
    <3>1. h \in Seq(Byte) /\ p \in Seq(Byte)
      BY <1>1, <1>2, SMT
    <3>2. nuki_crc16(h \o p) \in Word
      BY <3>1, ChecksumType, Zenon
    <3> QED BY <3>1, <3>2, Zenon
  <2> QED BY <1>3, <2>1, <2>2, ParseUndoesBuild
<1>5. Parse(Build(h, p), 2) = Parsed("OK", c, p)
  BY <1>2, <1>4, SMT
<1> QED BY <1>5, SMT DEF nuki_frame_build_plain, nuki_frame_parse_plain, h

\* So does a frame with an authorisation id.
LEMMA AuthParsesBack ==
  ASSUME NEW a \in AuthIds, NEW c \in Commands, NEW p \in Payloads,
         nuki_frame_build_auth(a, c, p) # << >>
  PROVE  nuki_frame_parse_auth(nuki_frame_build_auth(a, c, p))
           = [err |-> "OK", auth_id |-> a, cmd |-> c, payload |-> p]
<1> DEFINE h == put_le32(a) \o put_le16(c)
           f == Build(h, p)
<1>1. /\ a \in Nat /\ a \div 65536 \in Word /\ c \in Word /\ p \in Seq(Byte)
  BY FrameInputs, SMT
<1>2. /\ h \in Seq(Byte) /\ Len(h) = 6
      /\ (h[1] + 256 * h[2]) + 65536 * (h[3] + 256 * h[4]) = a
      /\ h[5] + 256 * h[6] = c
  <2>1. a \in Nat /\ a \div 65536 \in Word /\ c \in Word
    BY <1>1, SMT
  <2>2. AuthHead(h, a, c)
    BY <2>1, BuildsAuthHead, SMT
  <2> HIDE DEF h
  <2> QED BY <2>2, SMT DEF AuthHead
<1>3. f # << >>
  BY DEF nuki_frame_build_auth
<1> HIDE DEF h
<1>4. /\ Parse(f, Len(h)) = Parsed("OK", h[Len(h) - 1] + 256 * h[Len(h)], p)
      /\ \A i \in 1..Len(h) : f[i] = h[i]
  <2>1. Len(h) >= 2
    BY <1>2, SMT
  <2>2. h \in Seq(Byte) /\ p \in Seq(Byte) /\ nuki_crc16(h \o p) \in Word
    <3>1. h \in Seq(Byte) /\ p \in Seq(Byte)
      BY <1>1, <1>2, SMT
    <3>2. nuki_crc16(h \o p) \in Word
      BY <3>1, ChecksumType, Zenon
    <3> QED BY <3>1, <3>2, Zenon
  <2> QED BY <1>3, <2>1, <2>2, ParseUndoesBuild
<1> HIDE DEF f
<1>5. Parse(f, 6) = Parsed("OK", c, p)
  BY <1>2, <1>4, SMT
<1>6. get_le32(f, 1) = a
  <2>1. f[1] = h[1] /\ f[2] = h[2] /\ f[3] = h[3] /\ f[4] = h[4]
    BY <1>2, <1>4, SMT
  <2>2. get_le32(f, 1) = (f[1] + 256 * f[2]) + 65536 * (f[3] + 256 * f[4])
    BY SMT DEF get_le32, get_le16
  <2> QED BY <1>2, <2>1, <2>2, SMT
<1>7. nuki_frame_parse_auth(f) = [err |-> "OK", auth_id |-> a, cmd |-> c, payload |-> p]
  BY <1>5, <1>6, SMT DEF nuki_frame_parse_auth, Parsed
<1> QED BY <1>7, SMT DEF nuki_frame_build_auth, f, h

\* Every frame that nuki_frame_build_plain or _auth builds is accepted by its
\* parser, if it arrives as it was sent, with the authorisation id, command and
\* payload it was built from, whatever they are.
THEOREM FramesComeBack == Spec => []FramesParseBack
<1>1. FrameInv => FramesParseBack
  <2> SUFFICES ASSUME FrameInv, stage = "end", kind \in {"plain", "auth"}, ~touched, wire # << >>
               PROVE  out = [err |-> "OK", auth_id |-> input.auth_id, cmd |-> input.cmd,
                             payload |-> input.payload]
    BY DEF FramesParseBack
  <2>1. PICK a \in AuthIds \cup {0}, c \in Commands, p \in Payloads :
          /\ input = [auth_id |-> a, cmd |-> c, payload |-> p]
          /\ kind = "plain" => a = 0
          /\ kind = "auth" => a \in AuthIds
          /\ wire = Sent(kind, a, c, p) /\ out = Received(kind, wire)
    BY DEF FrameInv, Arrives
  <2>2. CASE kind = "plain"
    <3>1. out = Parsed("OK", c, p)
      BY <2>1, <2>2, PlainParsesBack DEF Sent, Received
    <3> QED BY <2>1, <2>2, <3>1 DEF Parsed
  <2>3. CASE kind = "auth"
    <3>1. out = [err |-> "OK", auth_id |-> a, cmd |-> c, payload |-> p]
      BY <2>1, <2>3, AuthParsesBack DEF Sent, Received
    <3> QED BY <2>1, <3>1
  <2> QED BY <2>2, <2>3
<1> QED BY <1>1, AlwaysFrame, PTL

\* Every frame that is built carries its checksum.
LEMMA SentIsChecked ==
  ASSUME NEW a \in AuthIds \cup {0}, NEW c \in Commands, NEW p \in Payloads, NEW k \in {"plain", "auth"},
         k = "auth" => a \in AuthIds, Sent(k, a, c, p) # << >>
  PROVE  Checked(Sent(k, a, c, p))
<1> DEFINE h == IF k = "plain" THEN put_le16(c) ELSE put_le32(a) \o put_le16(c)
<1>1. Sent(k, a, c, p) = Build(h, p)
  BY Zenon DEF Sent, nuki_frame_build_plain, nuki_frame_build_auth
<1>2. c \in Word /\ p \in Seq(Byte) /\ c \in Int
  BY FrameInputs, WordRange, SMT
<1>3. h \in Seq(Byte) /\ Len(h) >= 2
  <2>1. CASE k = "plain"
    <3>1. put_le16(c) \in Seq(Byte) /\ Len(put_le16(c)) = 2
      BY <1>2, TwoBytes, Zenon
    <3>2. h = put_le16(c)
      BY <2>1
    <3> HIDE DEF h
    <3>3. h \in Seq(Byte) /\ Len(h) = 2
      BY <3>1, <3>2, Zenon
    <3> QED BY <3>3, SMT
  <2>2. CASE k = "auth"
    <3>1. a \in Nat /\ a \div 65536 \in Word
      BY <2>2, FrameInputs
    <3>2. AuthHead(put_le32(a) \o put_le16(c), a, c)
      BY <1>2, <3>1, BuildsAuthHead
    <3>3. h = put_le32(a) \o put_le16(c)
      BY <2>2
    <3> HIDE DEF h
    <3>4. AuthHead(h, a, c)
      BY <3>2, <3>3, Zenon
    <3> QED BY <3>4, SMT DEF AuthHead
  <2> QED BY <2>1, <2>2, Zenon
<1> HIDE DEF h
<1>4. nuki_crc16(h \o p) \in Word
  BY <1>2, <1>3, ChecksumType, Zenon
<1>5. Build(h, p) # << >>
  BY <1>1, Zenon
<1>6. Checked(Build(h, p))
  BY <1>2, <1>3, <1>4, <1>5, ParseUndoesBuild
<1> QED BY <1>1, <1>6, Zenon

\* The CRC of every frame that is built, whatever its bytes and its length, is
\* the remainder of the division of its data by the generator polynomial.
THEOREM CrcAlwaysRemainder == Spec => []CrcIsRemainder
<1>1. FrameInv => CrcIsRemainder
  <2> SUFFICES ASSUME FrameInv, stage = "wire", kind \in {"plain", "auth"}, ~touched, wire # << >>
               PROVE  Bits(get_le16(wire, Len(wire) - 2 + 1))
                        = CrcReference(SubSeq(wire, 1, Len(wire) - 2))
    BY Zenon DEF CrcIsRemainder
  <2>1. PICK a \in AuthIds \cup {0}, c \in Commands, p \in Payloads :
          (kind = "auth" => a \in AuthIds) /\ wire = Sent(kind, a, c, p)
    BY DEF FrameInv, Arrives
  <2>2. Checked(wire)
    BY <2>1, SentIsChecked
  <2> DEFINE body == SubSeq(wire, 1, Len(wire) - 2)
  <2>3. body \in Seq(Byte) /\ get_le16(wire, Len(wire) - 2 + 1) = nuki_crc16(body)
    BY <2>2, Zenon DEF Checked
  <2> HIDE DEF body
  <2>4. Bits(nuki_crc16(body)) = CrcReference(body)
    BY <2>3, CrcDivides, Zenon
  <2> QED BY <2>3, <2>4, Zenon DEF body
<1> QED BY <1>1, AlwaysFrame, PTL

\* What the parser accepts carries its checksum.
LEMMA AcceptedFits ==
  ASSUME NEW k \in {"plain", "auth"}, NEW w, Received(k, w).err = "OK"
  PROVE  nuki_crc16(SubSeq(w, 1, Len(w) - 2)) = get_le16(w, Len(w) - 2 + 1)
<1>1. ASSUME NEW n, Parse(w, n).err = "OK"
      PROVE  nuki_crc16(SubSeq(w, 1, Len(w) - 2)) = get_le16(w, Len(w) - 2 + 1)
  <2> DEFINE fits == nuki_crc16(SubSeq(w, 1, Len(w) - 2)) = get_le16(w, Len(w) - 2 + 1)
             ok == Parsed("OK", get_le16(w, n - 1), Payload(w, n))
  <2> SUFFICES ASSUME ~fits PROVE FALSE
    OBVIOUS
  <2>1. Parse(w, n) = Parsed("EINVAL", 0, << >>) \/ Parse(w, n) = Parsed("EBADMSG", 0, << >>)
    BY Zenon DEF Parse
  <2>2. Parsed("EINVAL", 0, << >>).err = "EINVAL" /\ Parsed("EBADMSG", 0, << >>).err = "EBADMSG"
    BY SMT DEF Parsed
  <2>3. "OK" # "EINVAL" /\ "OK" # "EBADMSG"
    OBVIOUS
  <2> QED BY <1>1, <2>1, <2>2, <2>3, Zenon
<1>2. CASE k = "plain"
  <2>1. Parse(w, 2).err = "OK"
    BY <1>2, Zenon DEF Received, nuki_frame_parse_plain
  <2> QED BY <1>1, <2>1, Zenon
<1>3. CASE k = "auth"
  <2> DEFINE r == Parse(w, 6)
  <2>1. Received(k, w) = IF r.err = "OK" THEN [r EXCEPT !.auth_id = get_le32(w, 1)] ELSE r
    BY <1>3 DEF Received, nuki_frame_parse_auth
  <2>2. r.err = "OK"
    BY <2>1, Zenon
  <2> QED BY <1>1, <2>2, Zenon
<1> QED BY <1>2, <1>3, Zenon

\* Two bytes are known from the number they make.
LEMMA BytesOfNumber ==
  \A x, y, u, v \in Byte : x + 256 * y = u + 256 * v => x = u /\ y = v
BY SMT DEF Byte

\* The body of a damaged frame is the damaged body.
LEMMA DamagedBody ==
  ASSUME NEW f \in Seq(Byte), NEW E, NEW n \in Nat, n <= Len(f), SubSeq(f, 1, n) \in Seq(Byte),
         Len(SubSeq(f, 1, n)) = n
  PROVE  SubSeq(Damage(f, E), 1, n) = Damage(SubSeq(f, 1, n), E)
<1> DEFINE N == Len(f)
           d == Damage(f, E)
           b == SubSeq(f, 1, n)
           V(x, i) == Number(SymDiff(Bits(x), Changed(E, i)))
<1>1. N \in Nat /\ 0 \in Nat /\ 0 + 1 = 1 /\ 0 + n = n
  BY LenProperties, SMT
<1>2. d = [i \in 1..N |-> V(f[i], i)]
  BY Zenon DEF Damage, Changed
<1>3. Damage(b, E) = [i \in 1..n |-> V(b[i], i)]
  BY Zenon DEF Damage, Changed
<1>4. SubSeq(d, 0 + 1, 0 + n) = [i \in 1..n |-> d[0 + i]]
  BY PartOf, SMT
<1>5. SubSeq(f, 0 + 1, 0 + n) = [i \in 1..n |-> f[0 + i]]
  BY PartOf, SMT
<1>6. \A i \in 1..n : 0 + i = i /\ i \in 1..N
  BY <1>1, SMT
<1> HIDE DEF V, d, b, N
<1>7. ASSUME NEW i \in 1..n PROVE d[0 + i] = V(b[i], i)
  <2>1. b[i] = f[i]
    BY <1>1, <1>5, <1>6, Zenon DEF b
  <2>2. d[i] = V(f[i], i)
    BY <1>2, <1>6, Zenon
  <2> QED BY <1>6, <2>1, <2>2, Zenon
<1>8. [i \in 1..n |-> d[0 + i]] = [i \in 1..n |-> V(b[i], i)]
  BY <1>7, Zenon
<1>9. SubSeq(d, 1, n) = Damage(b, E)
  BY <1>1, <1>3, <1>4, <1>8, Zenon
<1> QED BY <1>9, Zenon DEF d, b

\* Changes before the CRC, or in it, make the two disagree.
LEMMA BurstBreaks ==
  ASSUME NEW f, Checked(f), NEW a \in Int, NEW E \in SUBSET (a..a + 15), E # {}, NEW n \in Nat,
         Len(f) = n + 2, E \subseteq 0..8 * n - 1 \/ E \subseteq 8 * n..8 * n + 15
  PROVE  nuki_crc16(SubSeq(Damage(f, E), 1, n)) # get_le16(Damage(f, E), n + 1)
<1> DEFINE d == Damage(f, E)
           b == SubSeq(f, 1, n)
<1>1. Len(f) - 2 = n /\ n <= Len(f) /\ n + 1 \in 1..Len(f) /\ n + 2 \in 1..Len(f) /\ (n + 1) + 1 = n + 2
  BY SMT
<1>2. f \in Seq(Byte) /\ b \in Seq(Byte) /\ Len(b) = n /\ get_le16(f, n + 1) = nuki_crc16(b)
  BY <1>1, Zenon DEF Checked
<1>3. SubSeq(d, 1, n) = Damage(b, E)
  BY <1>1, <1>2, DamagedBody
<1>4. /\ d \in Seq(Byte) /\ Len(d) = Len(f)
      /\ \A i \in 1..Len(f) : /\ Bits(d[i]) = SymDiff(Bits(f[i]), Changed(E, i))
                              /\ Changed(E, i) = {} => d[i] = f[i]
  BY <1>2, DamageIs, Zenon
<1>5. get_le16(f, n + 1) = f[n + 1] + 256 * f[n + 2]
      /\ get_le16(d, n + 1) = d[n + 1] + 256 * d[n + 2]
  BY <1>1, Zenon DEF get_le16
<1>6. ASSUME NEW i \in Int, NEW x \in Changed(E, i) PROVE x \in 0..7 /\ 8 * i - 1 - x \in E
  BY Zenon DEF Changed
<1> HIDE DEF d, b
<1>7. CASE E \subseteq 0..8 * n - 1
  <2>1. Changed(E, n + 1) = {} /\ Changed(E, n + 2) = {}
    <3>1. ASSUME NEW i \in {n + 1, n + 2}, NEW x \in Changed(E, i) PROVE FALSE
      <4>1. i \in Int /\ i >= n + 1
        BY SMT
      <4>2. x \in 0..7 /\ 8 * i - 1 - x \in 0..8 * n - 1
        BY <1>6, <1>7, <4>1, Zenon
      <4> QED BY <4>1, <4>2, SMT
    <3> QED BY <3>1, Zenon
  <2>2. d[n + 1] = f[n + 1] /\ d[n + 2] = f[n + 2]
    BY <1>1, <1>4, <2>1, Zenon
  <2>3. get_le16(d, n + 1) = nuki_crc16(b)
    BY <1>2, <1>5, <2>2, Zenon
  <2>4. E \in SUBSET (0..8 * Len(b) - 1)
    BY <1>2, <1>7, Zenon
  <2>5. nuki_crc16(Damage(b, E)) # nuki_crc16(b)
    BY <1>2, <2>4, BurstChangesChecksum
  <2> QED BY <1>3, <2>3, <2>5, Zenon DEF d
<1>8. CASE E \subseteq 8 * n..8 * n + 15
  <2>1. ASSUME NEW i \in 1..n, NEW x \in Changed(E, i) PROVE FALSE
    <3>1. i \in Int /\ i <= n
      BY SMT
    <3>2. x \in 0..7 /\ 8 * i - 1 - x \in 8 * n..8 * n + 15
      BY <1>6, <1>8, <3>1, Zenon
    <3> QED BY <3>1, <3>2, SMT
  <2>2. Damage(b, E) = b
    <3> DEFINE e == Damage(b, E)
    <3>1. e \in Seq(Byte) /\ Len(e) = Len(b) /\ \A i \in 1..Len(b) : Changed(E, i) = {} => e[i] = b[i]
      BY <1>2, DamageIs, Zenon
    <3> HIDE DEF e
    <3>2. \A i \in 1..n : e[i] = b[i]
      BY <1>2, <2>1, <3>1, Zenon
    <3>3. Len(b) = Len(e) /\ \A i \in 1..Len(b) : b[i] = e[i]
      BY <1>2, <3>1, <3>2, Zenon
    <3>4. e = b
      BY <1>2, <3>1, <3>3, SeqEqual
    <3> QED BY <3>4 DEF e
  <2>3. PICK x \in E : TRUE
    OBVIOUS
  <2> DEFINE i == (x \div 8) + 1
             y == 8 * i - 1 - x
  <2>4. x \in 8 * n..8 * n + 15
    BY <1>8, <2>3, Zenon
  <2>5. (i = n + 1 \/ i = n + 2) /\ y \in 0..7 /\ 8 * i - 1 - y = x /\ i \in Int
    BY <2>4, SMT
  <2> HIDE DEF i, y
  <2>6. y \in Changed(E, i)
    BY <2>3, <2>5, Zenon DEF Changed
  <2>7. i \in 1..Len(f)
    BY <1>1, <2>5, Zenon
  <2>8. d[i] # f[i]
    <3>1. Bits(d[i]) = SymDiff(Bits(f[i]), Changed(E, i))
      BY <1>4, <2>7, Zenon
    <3>2. y \in Bits(d[i]) <=> ~(y \in Bits(f[i]))
      BY <2>6, <3>1, InSum, SMT
    <3> QED BY <3>2, Zenon
  <2>9. d[n + 1] \in Byte /\ d[n + 2] \in Byte /\ f[n + 1] \in Byte /\ f[n + 2] \in Byte
    BY <1>1, <1>2, <1>4, ElementOfSeq, Zenon
  <2>10. get_le16(d, n + 1) # get_le16(f, n + 1)
    <3>1. d[n + 1] # f[n + 1] \/ d[n + 2] # f[n + 2]
      BY <2>5, <2>8, Zenon
    <3> QED BY <1>5, <2>9, <3>1, BytesOfNumber, SMT
  <2> QED BY <1>2, <1>3, <2>2, <2>10, Zenon DEF d
<1> QED BY <1>7, <1>8, Zenon DEF d

\* A frame of any length in which anything within 16 consecutive bits of the
\* body, or of the CRC, has changed is rejected by its parser.
THEOREM BurstsAreRejected == Spec => []BurstsRejected
<1>1. FrameInv => BurstsRejected
  <2> SUFFICES ASSUME FrameInv, stage = "end", kind \in {"plain", "auth"}, touched,
                      Burst(damage, 8 * Len(wire)), out.err = "OK"
               PROVE  FALSE
    BY Zenon DEF BurstsRejected
  <2>1. PICK a \in AuthIds \cup {0}, c \in Commands, p \in Payloads :
          /\ kind = "auth" => a \in AuthIds
          /\ Arrives(Sent(kind, a, c, p), wire) /\ out = Received(kind, wire)
    BY DEF FrameInv
  <2> DEFINE f == Sent(kind, a, c, p)
             n == Len(f) - 2
  <2>2. damage # {} /\ damage \subseteq 0..8 * Len(f) - 1 /\ wire = Damage(f, damage)
    BY <2>1, Zenon DEF Arrives
  <2>3. f # << >>
    <3> HIDE DEF f
    <3> SUFFICES ASSUME f = << >> PROVE FALSE
      OBVIOUS
    <3>1. Len(f) = 0
      BY SMT
    <3>2. damage \subseteq 0..8 * 0 - 1
      BY <2>2, <3>1, Zenon
    <3>3. 0..8 * 0 - 1 = {}
      BY SMT
    <3> QED BY <2>2, <3>2, <3>3, Zenon
  <2>4. Checked(f)
    BY <2>1, <2>3, SentIsChecked
  <2> HIDE DEF f
  <2>5. f \in Seq(Byte) /\ n \in Nat /\ Len(f) \in Nat /\ Len(f) = n + 2
    <3>1. f \in Seq(Byte) /\ n \in Nat
      BY <2>4, Zenon DEF Checked
    <3>2. Len(f) \in Nat
      BY <3>1, LenProperties, Zenon
    <3> QED BY <3>1, <3>2, SMT
  <2>6. Len(wire) = Len(f)
    BY <2>2, <2>5, DamageIs, Zenon
  <2>7. nuki_crc16(SubSeq(wire, 1, n)) = get_le16(wire, n + 1)
    BY <2>1, <2>6, AcceptedFits, Zenon
  <2>8. PICK s \in 0..8 * Len(f) - 16 : damage \subseteq s..s + 15
    BY <2>6, Zenon DEF Burst
  <2>9. damage \subseteq 0..8 * Len(f) - 17 \/ damage \subseteq 8 * Len(f) - 16..8 * Len(f) - 1
    BY <2>6, Zenon DEF Burst
  <2> HIDE DEF n
  <2>10. 8 * Len(f) - 17 = 8 * n - 1 /\ 8 * Len(f) - 16 = 8 * n /\ 8 * Len(f) - 1 = 8 * n + 15
    BY <2>5, SMT
  <2>11. damage \subseteq 0..8 * n - 1 \/ damage \subseteq 8 * n..8 * n + 15
    BY <2>9, <2>10, Zenon
  <2>12. s \in Int /\ damage \in SUBSET (s..s + 15)
    BY <2>5, <2>8, SMT
  <2>13. nuki_crc16(SubSeq(Damage(f, damage), 1, n)) # get_le16(Damage(f, damage), n + 1)
    BY <2>2, <2>4, <2>5, <2>11, <2>12, BurstBreaks
  <2> QED BY <2>2, <2>7, <2>13, Zenon
<1> QED BY <1>1, AlwaysFrame, PTL

-----------------------------------------------------------------------------
(* The Salsa20 core.                                                        *)

\* What the core returned is salsa_core of what it was given.
LEMMA AlwaysCore == Spec => []CoreInv
<1>1. Init => CoreInv
  BY DEF Init, CoreInv
<1>2. CoreInv /\ [Next]_vars => CoreInv'
  <2> SUFFICES ASSUME CoreInv, [Next]_vars PROVE CoreInv'
    OBVIOUS
  <2>1. CASE BuildPlain
    BY <2>1 DEF BuildPlain, Start, CoreInv
  <2>2. CASE BuildAuth
    BY <2>2 DEF BuildAuth, Start, CoreInv
  <2>3. CASE DamageFrame
    BY <2>3 DEF DamageFrame, Touch, CoreInv
  <2>4. CASE ParseFrame
    BY <2>4 DEF ParseFrame, Finish, CoreInv
  <2>5. CASE Seal
    BY <2>5 DEF Seal, Start, CoreInv
  <2>6. CASE Tamper
    BY <2>6 DEF Tamper, Touch, CoreInv
  <2>7. CASE Open
    BY <2>7 DEF Open, Finish, CoreInv
  <2>8. CASE ReportState
    BY <2>8 DEF ReportState, Start, CoreInv
  <2>9. CASE Answer
    BY <2>9 DEF Answer, Start, CoreInv
  <2>10. CASE Core
    BY <2>10 DEF Core, Start, CoreInv
  <2>11. CASE Authenticate
    BY <2>11 DEF Authenticate, Start, CoreInv
  <2>12. CASE Again
    BY <2>12 DEF Again, Clear, CoreInv
  <2>13. CASE UNCHANGED vars
    BY <2>13 DEF vars, CoreInv
  <2>14. CASE Capture
    BY <2>14 DEF Capture, CoreInv
  <2>15. CASE Restart
    BY <2>15 DEF Restart, CoreInv
  <2> QED BY <2>1, <2>2, <2>3, <2>4, <2>5, <2>6, <2>7, <2>8, <2>9, <2>10, <2>11, <2>12, <2>13,
            <2>14, <2>15
          DEF Next
<1> QED BY <1>1, <1>2, PTL DEF Spec

\* salsa_core returns what the Salsa20 specification says, for every key and
\* input, as a stream block and as a derived key.
THEOREM CoreAlwaysSalsa20 == Spec => []CoreIsSalsa20
<1>1. CoreInv => CoreIsSalsa20
  <2> SUFFICES ASSUME CoreInv, stage = "wire", kind = "core"
               PROVE  wire = SalsaReference(input.in, input.k, input.h)
    BY DEF CoreIsSalsa20
  <2>1. PICK h \in {0, 1}, k \in CoreKeys, in \in CoreInputs :
          input = [in |-> in, k |-> k, h |-> h] /\ wire = salsa_core(in, k, h)
    BY DEF CoreInv
  <2>2. k \in [1..32 -> Byte] /\ in \in [1..16 -> Byte]
    BY CryptoInputs, Zenon
  <2>3. wire = SalsaReference(in, k, h)
    BY <2>1, <2>2, CoreComputesSalsa20, Zenon
  <2>4. input.in = in /\ input.k = k /\ input.h = h
    BY <2>1, SMT
  <2> QED BY <2>3, <2>4, Zenon
<1> QED BY <1>1, AlwaysCore, PTL

-----------------------------------------------------------------------------
(* Secretbox.                                                               *)

\* A message is a sequence of its length.
LEMMA MessageIs ==
  ASSUME NEW len \in Nat
  PROVE  /\ Len(Message(len)) = len
         /\ \A i \in 1..len : Message(len)[i] = {Symbol(<<0, 0>>, 0, << >>, i)}
         /\ \E S : Message(len) \in Seq(S)
<1> DEFINE m == Message(len)
           S == {{Symbol(<<0, 0>>, 0, << >>, i)} : i \in 1..len}
<1>1. m = [i \in 1..len |-> {Symbol(<<0, 0>>, 0, << >>, i)}]
  BY DEF Message
<1>2. \A i \in 1..len : {Symbol(<<0, 0>>, 0, << >>, i)} \in S
  OBVIOUS
<1> HIDE DEF S, m
<1>3. m \in Seq(S) /\ Len(m) = len /\ \A i \in 1..len : m[i] = {Symbol(<<0, 0>>, 0, << >>, i)}
  BY <1>1, <1>2
<1> QED BY <1>3 DEF m

\* A message that is sealed, and one that is too long.
LEMMA SealedIs ==
  ASSUME NEW len \in 0..MAX_MSG + 1, NEW n
  PROVE  LET c == Cipher(Message(len), n, Key)
         IN  /\ len <= MAX_MSG =>
                  Sealed(Message(len), n)
                    = [err |-> "OK", tag |-> Tag(c, KeyPart(n, Key)), msg |-> c, nonce |-> n,
                       key |-> Key]
             /\ Sealed(Message(len), n).err = "OK" => len <= MAX_MSG
<1> DEFINE m == Message(len)
           c == Cipher(m, n, Key)
           e == nuki_crypto_e1(m, n, Key)
<1>1. len \in Nat /\ MAX_MSG \in Nat
  BY BoxAssumption
<1>2. PICK S : m \in Seq(S)
  BY <1>1, MessageIs
<1>3. Len(m) = len
  BY <1>1, MessageIs
<1>4. Sealed(m, n) = [err |-> e.err, tag |-> e.tag, msg |-> e.msg, nonce |-> n, key |-> Key]
  BY DEF Sealed
<1>5. ASSUME len <= MAX_MSG
      PROVE  e = [err |-> "OK", tag |-> Tag(c, KeyPart(n, Key)), msg |-> c]
  <2> HIDE DEF m
  <2> QED BY <1>2, <1>3, <1>5, SealIs
<1>6. ASSUME ~(len <= MAX_MSG) PROVE e.err = "EINVAL"
  <2>1. Len(m) > MAX_MSG
    BY <1>1, <1>3, <1>6
  <2> HIDE DEF m
  <2> QED BY <2>1 DEF nuki_crypto_e1, Error
<1> HIDE DEF e, c, m
<1>7. len <= MAX_MSG =>
        Sealed(m, n) = [err |-> "OK", tag |-> Tag(c, KeyPart(n, Key)), msg |-> c, nonce |-> n,
                        key |-> Key]
  BY <1>4, <1>5
<1>8. Sealed(m, n).err = "OK" => len <= MAX_MSG
  BY <1>4, <1>6
<1> QED BY <1>7, <1>8 DEF m, c

\* A changed byte is another one.
LEMMA OtherDiffers ==
  ASSUME NEW S, NEW b \in Seq(S), NEW i \in 1..Len(b)
  PROVE  /\ Other(b, i) # b /\ Len(Other(b, i)) = Len(b)
         /\ \E Z : Other(b, i) \in Seq(Z)
<1> DEFINE x == {Symbol(<<0, 0>>, 9, << >>, i)}
           y == SymDiff(b[i], x)
           o == [b EXCEPT ![i] = y]
           Z == S \cup {y}
<1>1. Other(b, i) = o
  BY DEF Other
<1>2. \E z : z \in x
  OBVIOUS
<1> HIDE DEF x
<1>3. y # b[i]
  BY <1>2 DEF SymDiff
<1> HIDE DEF y
<1>4. b \in Seq(Z) /\ y \in Z
  BY SeqMonotonic
<1> HIDE DEF Z
<1>5. o \in Seq(Z) /\ Len(o) = Len(b) /\ o[i] = y
  BY <1>4
<1> QED BY <1>1, <1>3, <1>5

\* The key of Poly1305 depends on the nonce and on the key.
LEMMA KeyPartsDiffer ==
  ASSUME NEW n, NEW nn, NEW k, NEW kk, KeyPart(n, k) = KeyPart(nn, kk)
  PROVE  n[1] = nn[1] /\ n[2] = nn[2] /\ k = kk
<1>1. 1 \in 1..PAD
  BY BoxAssumption
<1>2. KeyByte(<<k, n[1]>>, n[2], 1) = KeyByte(<<kk, nn[1]>>, nn[2], 1)
  <2>1. /\ KeyPart(n, k)[1] = {KeyByte(<<k, n[1]>>, n[2], 1)}
        /\ KeyPart(nn, kk)[1] = {KeyByte(<<kk, nn[1]>>, nn[2], 1)}
    BY <1>1 DEF KeyPart
  <2> QED BY <2>1
<1>3. <<k, n[1]>> = <<kk, nn[1]>> /\ n[2] = nn[2]
  BY <1>2 DEF KeyByte, Symbol
<1> QED BY <1>3

\* Whatever is done to a sealed message, its tag no longer fits.
LEMMA TamperedIsRejected ==
  ASSUME NEW len \in 0..MAX_MSG, NEW n \in Nonces, NEW v,
         Tampered(Sealed(Message(len), n), v)
  PROVE  /\ v.err = "OK"
         /\ nuki_crypto_d1(v.tag, v.msg, v.nonce, v.key) = Error("EBADMSG")
<1> DEFINE m == Message(len)
           c == Cipher(m, n, Key)
           K == KeyPart(n, Key)
           w == Sealed(m, n)
<1>1. len \in Nat /\ MAX_MSG \in Nat /\ len \in 0..MAX_MSG + 1 /\ len <= MAX_MSG
  BY BoxAssumption
<1>2. w = [err |-> "OK", tag |-> Tag(c, K), msg |-> c, nonce |-> n, key |-> Key]
  BY <1>1, SealedIs
<1>3. PICK S : m \in Seq(S)
  BY <1>1, MessageIs
<1>4. Len(m) = len
  BY <1>1, MessageIs
<1>5. PICK Z : c \in Seq(Z)
  <2> HIDE DEF m
  <2> QED BY <1>3, CipherTwice
<1>6. Len(c) <= MAX_MSG /\ Len(c) \in Nat
  <2> HIDE DEF m
  <2> QED BY <1>1, <1>3, <1>4, CipherTwice
<1>7. Tampered(w, v)
  OBVIOUS
<1>8. K = KeyPart(n, Key)
  OBVIOUS
<1> HIDE DEF w, m, c, K
<1>9. CASE \E i \in 1..Len(w.msg) : v = [w EXCEPT !.msg = Other(@, i)]
  <2>1. PICK i \in 1..Len(c) : v = [w EXCEPT !.msg = Other(c, i)]
    BY <1>2, <1>9
  <2>2. v = [err |-> "OK", tag |-> Tag(c, K), msg |-> Other(c, i), nonce |-> n, key |-> Key]
    BY <1>2, <2>1
  <2>3. PICK Y : Other(c, i) \in Seq(Y)
    BY <1>5, OtherDiffers
  <2>4. Other(c, i) # c /\ Len(Other(c, i)) <= MAX_MSG
    BY <1>5, <1>6, OtherDiffers
  <2>5. Tag(c, K) # Tag(Other(c, i), K)
    BY <2>4 DEF Tag
  <2>6. nuki_crypto_d1(Tag(c, K), Other(c, i), n, Key) = Error("EBADMSG")
    BY <1>8, <2>3, <2>4, <2>5, OpenIs
  <2> QED BY <2>2, <2>6
<1>10. CASE v = [w EXCEPT !.tag = Tag(@.msg, Other(@.key, 1))]
  <2>1. v = [err |-> "OK", tag |-> Tag(c, Other(K, 1)), msg |-> c, nonce |-> n, key |-> Key]
    BY <1>2, <1>10 DEF Tag
  <2>2. Other(K, 1) # K
    <3> DEFINE Y == {{KeyByte(<<Key, n[1]>>, n[2], i)} : i \in 1..PAD}
    <3>1. PAD \in Nat /\ 1 \in 1..PAD
      BY BoxAssumption
    <3>2. \A i \in 1..PAD : {KeyByte(<<Key, n[1]>>, n[2], i)} \in Y
      OBVIOUS
    <3> HIDE DEF Y
    <3>3. K \in Seq(Y) /\ Len(K) = PAD
      BY <1>8, <3>1, <3>2 DEF KeyPart
    <3> QED BY <3>1, <3>3, OtherDiffers
  <2>3. Tag(c, Other(K, 1)) # Tag(c, K)
    BY <2>2 DEF Tag
  <2>4. nuki_crypto_d1(Tag(c, Other(K, 1)), c, n, Key) = Error("EBADMSG")
    BY <1>5, <1>6, <1>8, <2>3, OpenIs
  <2> QED BY <2>1, <2>4
<1>11. CASE \E nn \in Nonces \ {w.nonce} : v = [w EXCEPT !.nonce = nn]
  <2>1. PICK nn \in Nonces \ {n} : v = [w EXCEPT !.nonce = nn]
    BY <1>2, <1>11
  <2>2. v = [err |-> "OK", tag |-> Tag(c, K), msg |-> c, nonce |-> nn, key |-> Key]
    BY <1>2, <2>1
  <2>3. n = <<n[1], n[2]>> /\ nn = <<nn[1], nn[2]>>
    BY BoxInputs
  <2>4. K # KeyPart(nn, Key)
    BY <1>8, <2>1, <2>3, KeyPartsDiffer
  <2>5. Tag(c, K) # Tag(c, KeyPart(nn, Key))
    BY <2>4 DEF Tag
  <2>6. nuki_crypto_d1(Tag(c, K), c, nn, Key) = Error("EBADMSG")
    BY <1>5, <1>6, <2>5, OpenIs
  <2> QED BY <2>2, <2>6
<1>12. CASE v = [w EXCEPT !.key = WrongKey]
  <2>1. v = [err |-> "OK", tag |-> Tag(c, K), msg |-> c, nonce |-> n, key |-> WrongKey]
    BY <1>2, <1>12
  <2>2. K # KeyPart(n, WrongKey)
    BY <1>8, BoxInputs, KeyPartsDiffer
  <2>3. Tag(c, K) # Tag(c, KeyPart(n, WrongKey))
    BY <2>2 DEF Tag
  <2>4. nuki_crypto_d1(Tag(c, K), c, n, WrongKey) = Error("EBADMSG")
    BY <1>5, <1>6, <2>3, OpenIs
  <2> QED BY <2>1, <2>4
<1>13. CASE w.msg # << >> /\ v = [w EXCEPT !.msg = SubSeq(@, 1, Len(@) - 1)]
  <2> DEFINE d == SubSeq(c, 1, Len(c) - 1)
  <2>1. v = [err |-> "OK", tag |-> Tag(c, K), msg |-> d, nonce |-> n, key |-> Key]
    BY <1>2, <1>13
  <2>2. c # << >>
    BY <1>2, <1>13
  <2>3. Len(c) # 0
    BY <1>5, <2>2, EmptySeq
  <2>4. d \in Seq(Z) /\ Len(d) = Len(c) - 1
    <3> DEFINE l == Len(c) - 1
    <3>1. l \in Nat /\ 0 \in Nat /\ 0 + 1 = 1 /\ 0 + l = l
      BY <1>6, <2>3
    <3>2. \A i \in 1..l : c[0 + i] \in Z
      <4>1. \A i \in 1..l : 0 + i = i /\ i \in 1..Len(c)
        BY <1>6, <3>1
      <4> QED BY <1>5, <4>1, ElementOfSeq
    <3> HIDE DEF l
    <3>3. SubSeq(c, 0 + 1, 0 + l) = [i \in 1..l |-> c[0 + i]]
      BY <3>1, PartOf
    <3>4. d = SubSeq(c, 0 + 1, 0 + l)
      BY <3>1 DEF l
    <3> HIDE DEF d
    <3>5. d \in Seq(Z) /\ Len(d) = l
      BY <3>1, <3>2, <3>3, <3>4
    <3> QED BY <3>5 DEF l
  <2> HIDE DEF d
  <2>5. d # c /\ Len(d) <= MAX_MSG
    BY <1>1, <1>6, <2>4
  <2>6. Tag(c, K) # Tag(d, K)
    BY <2>5 DEF Tag
  <2>7. nuki_crypto_d1(Tag(c, K), d, n, Key) = Error("EBADMSG")
    BY <1>8, <2>4, <2>5, <2>6, OpenIs
  <2> QED BY <2>1, <2>7
<1> QED BY <1>7, <1>9, <1>10, <1>11, <1>12, <1>13 DEF Tampered

\* d1 returns what e1 was given, for every length up to MAX_MSG, every nonce and
\* every key, and nothing at all if text, tag, nonce, key or length was changed;
\* e1 refuses what is longer.
THEOREM OnlyIntactOpens == Spec => []BoxOpensOnlyIntact
<1>1. BoxInv => BoxOpensOnlyIntact
  <2> SUFFICES ASSUME BoxInv, stage \in {"wire", "end"}, kind = "box"
               PROVE  /\ stage = "wire" => (wire.err = "OK" <=> Len(input.msg) <= MAX_MSG)
                      /\ stage = "end" =>
                           IF touched THEN out.err = "EBADMSG" /\ out.msg = << >>
                                      ELSE out.err = "OK" /\ out.msg = input.msg
    BY DEF BoxOpensOnlyIntact
  <2>1. PICK len \in 0..MAX_MSG + 1, n \in Nonces :
          /\ input = [nonce |-> n, msg |-> Message(len)]
          /\ ~touched => wire = Sealed(Message(len), n)
          /\ touched => /\ Sealed(Message(len), n).err = "OK"
                        /\ Tampered(Sealed(Message(len), n), wire)
          /\ stage = "end" => /\ wire.err = "OK"
                              /\ out = nuki_crypto_d1(wire.tag, wire.msg, wire.nonce, wire.key)
    BY DEF BoxInv
  <2> DEFINE m == Message(len)
             c == Cipher(m, n, Key)
  <2>2. len \in Nat /\ MAX_MSG \in Nat
    BY BoxAssumption
  <2>3. Len(m) = len /\ input.msg = m
    BY <2>1, <2>2, MessageIs
  <2>4. CASE touched
    <3>1. Sealed(m, n).err = "OK" /\ Tampered(Sealed(m, n), wire)
      BY <2>1, <2>4
    <3>2. len <= MAX_MSG
      BY <3>1, SealedIs
    <3>3. len \in 0..MAX_MSG
      BY <2>2, <3>2
    <3>4. /\ wire.err = "OK"
          /\ nuki_crypto_d1(wire.tag, wire.msg, wire.nonce, wire.key) = Error("EBADMSG")
      BY <3>1, <3>3, TamperedIsRejected
    <3> HIDE DEF m
    <3> QED BY <2>1, <2>3, <2>4, <3>2, <3>4 DEF Error
  <2>5. CASE ~touched
    <3>1. wire = Sealed(m, n)
      BY <2>1, <2>5
    <3>2. wire.err = "OK" => len <= MAX_MSG
      BY <3>1, SealedIs
    <3>3. ASSUME len <= MAX_MSG
          PROVE  /\ wire = [err |-> "OK", tag |-> Tag(c, KeyPart(n, Key)), msg |-> c,
                            nonce |-> n, key |-> Key]
                 /\ nuki_crypto_d1(wire.tag, wire.msg, wire.nonce, wire.key).err = "OK"
                 /\ nuki_crypto_d1(wire.tag, wire.msg, wire.nonce, wire.key).msg = m
      <4>1. wire = [err |-> "OK", tag |-> Tag(c, KeyPart(n, Key)), msg |-> c, nonce |-> n,
                    key |-> Key]
        BY <3>1, <3>3, SealedIs
      <4>2. PICK S : m \in Seq(S)
        BY <2>2, MessageIs
      <4>3. Len(m) <= MAX_MSG
        BY <2>3, <3>3
      <4> HIDE DEF m
      <4> DEFINE e == nuki_crypto_e1(m, n, Key)
      <4>4. e = [err |-> "OK", tag |-> Tag(c, KeyPart(n, Key)), msg |-> c]
        BY <4>2, <4>3, SealIs
      <4>5. /\ nuki_crypto_d1(e.tag, e.msg, n, Key).err = "OK"
            /\ nuki_crypto_d1(e.tag, e.msg, n, Key).msg = m
        BY <4>2, <4>3, SealedOpens
      <4> HIDE DEF c, e
      <4> QED BY <4>1, <4>4, <4>5
    <3> HIDE DEF m
    <3> QED BY <2>1, <2>3, <2>5, <3>2, <3>3
  <2> QED BY <2>4, <2>5
<1> QED BY <1>1, AlwaysBox, PTL

-----------------------------------------------------------------------------
(* Keystream.                                                               *)

\* The image of 1..n under an operator that is one-to-one there, written as a
\* function, has n elements.
LEMMA ImageSize ==
  ASSUME NEW n \in Nat, NEW f, DOMAIN f = 1..n, f = [i \in 1..n |-> f[i]],
         \A i, j \in 1..n : f[i] = f[j] => i = j
  PROVE  Cardinality({f[i] : i \in 1..n}) = n
<1> DEFINE T == {f[i] : i \in 1..n}
<1>1. f \in [1..n -> T] /\ \A t \in T : \E i \in 1..n : f[i] = t
  OBVIOUS
<1>2. f \in Bijection(1..n, T)
  <2> HIDE DEF T
  <2> QED BY <1>1 DEF Bijection, Injection, Surjection, IsInjective
<1>3. ExistsBijection(1..n, T)
  <2> HIDE DEF T
  <2> QED BY <1>2 DEF ExistsBijection
<1> HIDE DEF T
<1>4. Cardinality(T) = n
  BY <1>3, FS_CountingElements
<1> QED BY <1>4 DEF T

\* A byte of keystream has a counter, which a byte of the message has not.
LEMMA KeyByteHasCounter ==
  ASSUME NEW k, NEW n, NEW i \in 1..PAD + MAX_MSG
  PROVE  KeyByte(k, n, i).ctr # << >>
<1> DEFINE b == (i - 1) \div BLOCK
           d == Counter[b]
<1>1. b \in 0..Blocks
  BY BlockOf
<1>2. d \in Digits
  <2> HIDE DEF b
  <2> QED BY <1>1, CounterIs
<1>3. 1 \in 1..CTR_LEN
  BY BoxAssumption
<1>4. KeyByte(k, n, i).ctr = d
  BY DEF KeyByte, Symbol
<1> HIDE DEF d
<1>5. DOMAIN d = 1..CTR_LEN
  BY <1>2 DEF Digits
<1>6. DOMAIN << >> = {}
  OBVIOUS
<1> QED BY <1>3, <1>4, <1>5, <1>6

\* The keystream in Poly1305's key.
LEMMA StreamOfKeyPart ==
  ASSUME NEW n, NEW k
  PROVE  Stream(KeyPart(n, k)) = {KeyByte(<<k, n[1]>>, n[2], i) : i \in 1..PAD}
<1> DEFINE K == KeyPart(n, k)
           kb(i) == KeyByte(<<k, n[1]>>, n[2], i)
<1>1. PAD \in Nat /\ MAX_MSG \in Nat
  BY BoxAssumption
<1>2. K = [i \in 1..PAD |-> {kb(i)}]
  BY DEF KeyPart
<1> HIDE DEF K
<1>3. Len(K) = PAD /\ \A i \in 1..PAD : K[i] = {kb(i)}
  BY <1>1, <1>2
<1>4. \A i \in 1..PAD : kb(i).ctr # << >>
  <2>1. \A i \in 1..PAD : i \in 1..PAD + MAX_MSG
    BY <1>1
  <2> QED BY <2>1, KeyByteHasCounter
<1> HIDE DEF kb
<1>5. UNION {K[i] : i \in 1..PAD} = {kb(i) : i \in 1..PAD}
  BY <1>3
<1>6. Stream(K) = {s \in {kb(i) : i \in 1..PAD} : s.ctr # << >>}
  BY <1>3, <1>5 DEF Stream
<1>7. Stream(K) = {kb(i) : i \in 1..PAD}
  BY <1>4, <1>6
<1> QED BY <1>7 DEF K, kb

\* The keystream in the ciphertext.
LEMMA StreamOfCipher ==
  ASSUME NEW n, NEW k, NEW len \in 0..MAX_MSG
  PROVE  Stream(Cipher(Message(len), n, k))
           = {KeyByte(<<k, n[1]>>, n[2], PAD + i) : i \in 1..len}
<1> DEFINE m == Message(len)
           c == Cipher(m, n, k)
           kb(i) == KeyByte(<<k, n[1]>>, n[2], PAD + i)
           sym(i) == Symbol(<<0, 0>>, 0, << >>, i)
<1>1. PAD \in Nat /\ MAX_MSG \in Nat /\ len \in Nat
  BY BoxAssumption
<1>2. Len(m) = len /\ \A i \in 1..len : m[i] = {sym(i)}
  BY <1>1, MessageIs
<1>3. c = [i \in 1..Len(m) |-> SymDiff(m[i], {kb(i)})]
  BY DEF Cipher
<1>4. \A i \in 1..len : kb(i).ctr # << >> /\ sym(i).ctr = << >>
  <2>1. \A i \in 1..len : PAD + i \in 1..PAD + MAX_MSG
    BY <1>1
  <2>2. \A i \in 1..len : kb(i).ctr # << >>
    BY <2>1, KeyByteHasCounter
  <2>3. \A i \in 1..len : sym(i).ctr = << >>
    BY DEF Symbol
  <2> QED BY <2>2, <2>3
<1> HIDE DEF m, c, kb, sym
<1>5. Len(c) = len /\ \A i \in 1..len : c[i] = SymDiff({sym(i)}, {kb(i)})
  <2> DEFINE x(i) == SymDiff(m[i], {kb(i)})
  <2>1. c = [i \in 1..len |-> x(i)]
    BY <1>2, <1>3
  <2>2. \A i \in 1..len : x(i) = SymDiff({sym(i)}, {kb(i)})
    BY <1>2
  <2> HIDE DEF x
  <2> QED BY <1>1, <2>1, <2>2
<1>6. \A i \in 1..len : c[i] = {sym(i), kb(i)}
  <2>1. \A i \in 1..len : sym(i) # kb(i)
    BY <1>4
  <2>2. \A x, y : x # y => SymDiff({x}, {y}) = {x, y}
    BY DEF SymDiff
  <2> QED BY <1>5, <2>1, <2>2
<1>7. Stream(c) = {s \in UNION {c[i] : i \in 1..len} : s.ctr # << >>}
  BY <1>5 DEF Stream
<1>8. ASSUME NEW s \in Stream(c) PROVE s \in {kb(i) : i \in 1..len}
  <2>1. PICK i \in 1..len : s \in c[i]
    BY <1>7
  <2>2. s.ctr # << >>
    BY <1>7
  <2> QED BY <1>4, <1>6, <2>1, <2>2
<1>9. ASSUME NEW i \in 1..len PROVE kb(i) \in Stream(c)
  BY <1>4, <1>6, <1>7
<1>10. Stream(c) = {kb(i) : i \in 1..len}
  BY <1>8, <1>9
<1> QED BY <1>10 DEF c, m, kb

\* The keystream that e1 uses: one byte for each of padding and message.
LEMMA StreamOfSealed ==
  ASSUME NEW n, NEW k, NEW len \in 0..MAX_MSG
  PROVE  LET s == Stream(Cipher(Message(len), n, k)) \cup Stream(KeyPart(n, k))
         IN  /\ s = {KeyByte(<<k, n[1]>>, n[2], i) : i \in 1..PAD + len}
             /\ Cardinality(s) = PAD + len
<1> DEFINE kb(i) == KeyByte(<<k, n[1]>>, n[2], i)
           a == Stream(Cipher(Message(len), n, k))
           b == Stream(KeyPart(n, k))
           N == PAD + len
           f == [i \in 1..N |-> kb(i)]
<1>1. PAD \in Nat /\ MAX_MSG \in Nat /\ len \in Nat /\ N \in Nat
  BY BoxAssumption
<1>2. a = {kb(PAD + i) : i \in 1..len} /\ b = {kb(i) : i \in 1..PAD}
  BY StreamOfCipher, StreamOfKeyPart
<1>3. ASSUME NEW i \in 1..N, NEW j \in 1..N, kb(i) = kb(j) PROVE i = j
  <2>1. i \in 1..PAD + MAX_MSG /\ j \in 1..PAD + MAX_MSG
    BY <1>1
  <2> QED BY <1>3, <2>1, KeyBytesDiffer
<1> HIDE DEF kb, a, b
<1>4. a \cup b = {kb(i) : i \in 1..N}
  <2>1. ASSUME NEW i \in 1..N PROVE kb(i) \in a \cup b
    <3>1. CASE i <= PAD
      <4>1. i \in 1..PAD
        BY <1>1, <3>1
      <4> QED BY <1>2, <4>1
    <3>2. CASE ~(i <= PAD)
      <4>1. i - PAD \in 1..len /\ PAD + (i - PAD) = i
        BY <1>1, <3>2
      <4> QED BY <1>2, <4>1
    <3> QED BY <3>1, <3>2
  <2>2. \A i \in 1..len : PAD + i \in 1..N
    BY <1>1
  <2>3. \A i \in 1..PAD : i \in 1..N
    BY <1>1
  <2> HIDE DEF N
  <2> QED BY <1>2, <2>1, <2>2, <2>3
<1>5. Cardinality({f[i] : i \in 1..N}) = N
  <2>1. /\ DOMAIN f = 1..N /\ f = [i \in 1..N |-> f[i]]
        /\ \A i, j \in 1..N : f[i] = f[j] => i = j
    <3>1. \A i \in 1..N : f[i] = kb(i)
      OBVIOUS
    <3>2. DOMAIN f = 1..N /\ f = [i \in 1..N |-> f[i]]
      OBVIOUS
    <3> HIDE DEF f, N
    <3> QED BY <1>3, <3>1, <3>2
  <2> HIDE DEF f, N
  <2> QED BY <1>1, <2>1, ImageSize
<1>6. {f[i] : i \in 1..N} = {kb(i) : i \in 1..N}
  <2> HIDE DEF N
  <2> QED OBVIOUS
<1> HIDE DEF f
<1>7. Cardinality(a \cup b) = N
  BY <1>4, <1>5, <1>6
<1> QED BY <1>4, <1>7 DEF a, b, kb

\* No byte of keystream is used twice: neither within a message, whatever its
\* length, nor between its ciphertext and its Poly1305 key, nor by the message
\* before it under the same key and another nonce.
THEOREM KeystreamIsUsedOnce == Spec => []KeystreamOnce
<1>1. BoxInv => KeystreamOnce
  <2> SUFFICES ASSUME BoxInv, stage = "wire", kind = "box", wire.err = "OK", ~touched
               PROVE  LET stream == Stream(wire.msg) \cup Stream(wire.tag.key)
                      IN  Cardinality(stream) = PAD + Len(input.msg) /\ stream \cap used = {}
    BY DEF KeystreamOnce
  <2>1. PICK len \in 0..MAX_MSG + 1, n \in Nonces :
          /\ input = [nonce |-> n, msg |-> Message(len)]
          /\ n \notin NoncesUsed
          /\ wire = Sealed(Message(len), n)
    BY DEF BoxInv
  <2> DEFINE m == Message(len)
             c == Cipher(m, n, Key)
             K == KeyPart(n, Key)
             kb(i) == KeyByte(<<Key, n[1]>>, n[2], i)
             stream == Stream(c) \cup Stream(K)
  <2>2. len \in 0..MAX_MSG
    <3>1. len <= MAX_MSG
      BY <2>1, SealedIs
    <3> QED BY <3>1, BoxAssumption
  <2>3. Len(input.msg) = len
    <3>1. len \in Nat
      BY BoxAssumption
    <3> QED BY <2>1, <3>1, MessageIs
  <2>4. wire.msg = c /\ wire.tag.key = K
    <3>1. len <= MAX_MSG
      BY <2>2, BoxAssumption
    <3>2. wire = [err |-> "OK", tag |-> Tag(c, K), msg |-> c, nonce |-> n, key |-> Key]
      BY <2>1, <3>1, SealedIs
    <3> HIDE DEF c, K
    <3> QED BY <3>2 DEF Tag
  <2>5. stream = {kb(i) : i \in 1..PAD + len} /\ Cardinality(stream) = PAD + len
    BY <2>2, StreamOfSealed
  <2>6. \A i \in 1..PAD + len : <<kb(i).key[2], kb(i).nonce>> = <<n[1], n[2]>>
    BY DEF KeyByte, Symbol
  <2>7. n = <<n[1], n[2]>>
    BY BoxInputs
  <2> HIDE DEF m, c, K, kb, stream
  <2>8. ASSUME NEW s \in stream, s \in used PROVE FALSE
    <3>1. <<s.key[2], s.nonce>> = n
      BY <2>5, <2>6, <2>7
    <3>2. n \in NoncesUsed
      BY <2>8, <3>1 DEF NoncesUsed
    <3> QED BY <2>1, <3>2
  <2> QED BY <2>3, <2>4, <2>5, <2>8 DEF stream
<1> QED BY <1>1, AlwaysBox, PTL

-----------------------------------------------------------------------------
(* The lock's state.                                                        *)

\* n elements of S; and the k elements of p, after the first c of x.
Row(x, S, n) == x \in Seq(S) /\ Len(x) = n
Holds(x, c, k, p) == \A i \in c + 1..c + k : x[i] = p[i - c]

\* Appending: the whole, the part that is appended, and a part held before.
LEMMA Appended ==
  ASSUME NEW S, NEW x, NEW y, NEW a \in Nat, NEW b \in Nat, Row(x, S, a), Row(y, S, b)
  PROVE  /\ Row(x \o y, S, a + b)
         /\ Holds(x \o y, a, b, y)
         /\ \A c, k \in Nat : \A p : Holds(x, c, k, p) /\ c + k <= a => Holds(x \o y, c, k, p)
<1> DEFINE t == x \o y
<1>1. /\ t \in Seq(S) /\ Len(t) = Len(x) + Len(y)
      /\ \A i \in 1..Len(x) : t[i] = x[i]
      /\ \A i \in 1..Len(y) : t[Len(x) + i] = y[i]
  <2>1. x \in Seq(S) /\ y \in Seq(S)
    BY DEF Row
  <2> QED BY <2>1, Joined
<1>2. Len(x) = a /\ Len(y) = b
  BY DEF Row
<1> HIDE DEF t
<1>3. Row(t, S, a + b) /\ Holds(t, a, b, y)
  <2>1. ASSUME NEW i \in a + 1..a + b PROVE t[i] = y[i - a]
    <3>1. i - a \in 1..b /\ a + (i - a) = i
      OBVIOUS
    <3> QED BY <1>1, <1>2, <3>1
  <2>2. Row(t, S, a + b)
    BY <1>1, <1>2 DEF Row
  <2> QED BY <2>1, <2>2 DEF Holds
<1>4. ASSUME NEW c \in Nat, NEW k \in Nat, NEW p, Holds(x, c, k, p), c + k <= a
      PROVE  Holds(t, c, k, p)
  <2>1. ASSUME NEW i \in c + 1..c + k PROVE t[i] = p[i - c]
    <3>1. i \in 1..a
      BY <1>4
    <3>2. x[i] = p[i - c]
      BY <1>4 DEF Holds
    <3> QED BY <1>1, <1>2, <3>1, <3>2
  <2> QED BY <2>1 DEF Holds
<1> QED BY <1>3, <1>4 DEF t

\* A row holds itself.
LEMMA HoldsItself ==
  ASSUME NEW x, NEW a \in Nat
  PROVE  Holds(x, 0, a, x)
<1>1. \A i \in 0 + 1..0 + a : i - 0 = i
  OBVIOUS
<1> QED BY <1>1 DEF Holds

\* One more part, behind parts of altogether a elements.
LEMMA OneMore ==
  ASSUME NEW S, NEW x, NEW y, NEW a \in Nat, NEW b \in Nat, NEW n, Row(x, S, a), Row(y, S, b),
         n = a + b
  PROVE  /\ Row(x \o y, S, n)
         /\ Holds(x \o y, a, b, y)
         /\ \A c, k \in 0..a : \A p : Holds(x, c, k, p) /\ c + k <= a => Holds(x \o y, c, k, p)
<1>1. \A c, k \in 0..a : c \in Nat /\ k \in Nat
  OBVIOUS
<1> QED BY <1>1, Appended

upper(n) == n \div 65536

\* The two bytes of a number.
LEMMA WordRow ==
  ASSUME NEW n \in Int
  PROVE  /\ low(n) \in Int /\ high(n) \in Int
         /\ Row(put_le16(n), Int, 2)
         /\ put_le16(n)[1] = low(n) /\ put_le16(n)[2] = high(n)
<1>1. low(n) \in Int /\ high(n) \in Int
  BY SMT DEF low, high
<1>2. put_le16(n) = <<low(n), high(n)>>
  BY TwoBytes, SMT
<1>3. \A x, y \in Int : Row(<<x, y>>, Int, 2) /\ <<x, y>>[1] = x /\ <<x, y>>[2] = y
  BY SMT DEF Row
<1> QED BY <1>1, <1>2, <1>3, SMT

\* Its four bytes.
LEMMA LongRow ==
  ASSUME NEW n \in Int
  PROVE  /\ upper(n) \in Int
         /\ Row(put_le32(n), Int, 4)
         /\ put_le32(n)[1] = low(n) /\ put_le32(n)[2] = high(n)
         /\ put_le32(n)[3] = low(upper(n)) /\ put_le32(n)[4] = high(upper(n))
<1> DEFINE x == put_le16(n)
           y == put_le16(upper(n))
<1>1. upper(n) \in Int
  BY SMT DEF upper
<1>2. put_le32(n) = x \o y
  BY SMT DEF put_le32, upper
<1>3. /\ Row(x, Int, 2) /\ x[1] = low(n) /\ x[2] = high(n)
      /\ Row(y, Int, 2) /\ y[1] = low(upper(n)) /\ y[2] = high(upper(n))
  BY <1>1, WordRow
<1> HIDE DEF x, y
<1>4. Holds(x, 0, 2, x) /\ 4 = 2 + 2
  BY HoldsItself
<1>5. Row(x \o y, Int, 4) /\ Holds(x \o y, 2, 2, y) /\ Holds(x \o y, 0, 2, x)
  <2>1. Row(x \o y, Int, 4) /\ Holds(x \o y, 2, 2, y)
    BY <1>3, <1>4, OneMore
  <2>2. 0 \in 0..2 /\ 2 \in 0..2 /\ 0 + 2 <= 2
    OBVIOUS
  <2> QED BY <1>3, <1>4, <2>1, <2>2, OneMore
<1> DEFINE z == x \o y
<1>6. Row(z, Int, 4) /\ Holds(z, 2, 2, y) /\ Holds(z, 0, 2, x) /\ put_le32(n) = z
  BY <1>2, <1>5
<1> HIDE DEF z
<1>7. z[1] = x[1] /\ z[2] = x[2] /\ z[3] = y[1] /\ z[4] = y[2]
  BY <1>6, SMT DEF Holds
<1> QED BY <1>1, <1>3, <1>6, <1>7

\* The range of a signed word.
LEMMA ShortRange == \A n \in Short : n \in Int /\ -32768 <= n /\ n < 32768
<1> DEFINE a == -32768
           b == 32767
<1>1. a \in Int /\ b \in Int /\ Short = a..b /\ \A n \in Int : n <= b => n < 32768
  BY SMT DEF Short
<1> HIDE DEF a, b
<1>2. \A n \in Short : n \in Int /\ a <= n /\ n <= b
  BY <1>1, SMT
<1>3. \A n \in Short : n \in Int /\ a <= n /\ n < 32768
  BY <1>1, <1>2, SMT
<1> QED BY <1>3, SMT DEF a

\* A function on 1..n is a sequence of length n.
LEMMA FunctionIsRow ==
  ASSUME NEW S, NEW n \in Nat, NEW c \in [1..n -> S]
  PROVE  Row(c, S, n)
BY DEF Row

\* The fields of a report, and their ranges.
LEMMA ReportFields ==
  ASSUME NEW s \in Report
  PROVE  /\ s.lock \in Int /\ s.battery \in Byte /\ s.battery \in Int /\ s.door \in Int
         /\ s.year \in Word /\ s.year \in Int /\ s.tz \in Short /\ s.tz \in Int
         /\ Row(s.clock, Int, 5)
<1>1. \A b \in Byte : b \in Int
  BY SMT DEF Byte
<1>2. \A n \in Short : n \in Int
  BY ShortRange, SMT
<1>3. /\ s.lock \in Byte /\ s.battery \in Byte /\ s.door \in Byte /\ s.year \in Word
      /\ s.clock \in [1..5 -> Byte] /\ s.tz \in Short
  BY DEF Report
<1>4. s.lock \in Int /\ s.battery \in Int /\ s.door \in Int
  BY <1>1, <1>3
<1>5. s.year \in Int
  BY <1>3, WordRange, SMT
<1>6. s.tz \in Int
  BY <1>2, <1>3
<1>7. Row(s.clock, Int, 5)
  <2>1. s.clock \in [1..5 -> Int] /\ 5 \in Nat
    BY <1>1, <1>3
  <2> QED BY <2>1, FunctionIsRow
<1> QED BY <1>3, <1>4, <1>5, <1>6, <1>7

\* The lock's message before it is cut.
Rest(s) == <<s.battery, 1, 0, 2, 0, 0, s.door, 0>>
Full(s) ==
  (((<<2, s.lock, 0>> \o put_le16(s.year)) \o s.clock) \o put_le16(s.tz)) \o Rest(s)

\* Where its fields are.
LEMMA FullIs ==
  ASSUME NEW s \in Report
  PROVE  /\ Row(Full(s), Int, 20)
         /\ Full(s)[2] = s.lock
         /\ Full(s)[4] = low(s.year) /\ Full(s)[5] = high(s.year)
         /\ \A i \in 1..5 : Full(s)[i + 5] = s.clock[i]
         /\ Full(s)[11] = low(s.tz) /\ Full(s)[12] = high(s.tz)
         /\ Full(s)[13] = s.battery /\ Full(s)[19] = s.door
<1> DEFINE p == <<2, s.lock, 0>>
           q == put_le16(s.year)
           r == s.clock
           t == put_le16(s.tz)
           u == Rest(s)
           x2 == p \o q
           x3 == x2 \o r
           x4 == x3 \o t
           x5 == x4 \o u
<1>0. Full(s) = x5
  BY DEF Full
<1>1. Row(p, Int, 3) /\ p[2] = s.lock
  <2>1. s.lock \in Int
    BY ReportFields
  <2>2. \A l \in Int : Row(<<2, l, 0>>, Int, 3) /\ <<2, l, 0>>[2] = l
    BY SMT DEF Row
  <2> QED BY <2>1, <2>2
<1>2. Row(q, Int, 2) /\ q[1] = low(s.year) /\ q[2] = high(s.year)
  BY ReportFields, WordRow
<1>3. Row(r, Int, 5)
  BY ReportFields
<1>4. Row(t, Int, 2) /\ t[1] = low(s.tz) /\ t[2] = high(s.tz)
  BY ReportFields, WordRow
<1>5. Row(u, Int, 8) /\ u[1] = s.battery /\ u[7] = s.door
  <2> DEFINE v(a, b) == <<a, 1, 0, 2, 0, 0, b, 0>>
  <2>1. \A a, b \in Int : Row(v(a, b), Int, 8) /\ v(a, b)[1] = a /\ v(a, b)[7] = b
    BY SMT DEF Row
  <2>2. s.battery \in Int /\ s.door \in Int /\ u = v(s.battery, s.door)
    BY ReportFields DEF Rest
  <2> HIDE DEF u, v
  <2> QED BY <2>1, <2>2
<1> HIDE DEF p, q, r, t, u
<1>6. Row(x2, Int, 5) /\ Holds(x2, 0, 3, p) /\ Holds(x2, 3, 2, q)
  <2>1. Holds(p, 0, 3, p) /\ 5 = 3 + 2 /\ 0 \in 0..3 /\ 3 \in 0..3 /\ 0 + 3 <= 3
    BY HoldsItself
  <2> QED BY <1>1, <1>2, <2>1, OneMore
<1> HIDE DEF x2
<1>7. /\ Row(x3, Int, 10) /\ Holds(x3, 0, 3, p) /\ Holds(x3, 3, 2, q) /\ Holds(x3, 5, 5, r)
  <2>1. /\ 10 = 5 + 5 /\ 0 + 3 <= 5 /\ 3 + 2 <= 5
        /\ 0 \in 0..5 /\ 3 \in 0..5 /\ 2 \in 0..5
    OBVIOUS
  <2> QED BY <1>3, <1>6, <2>1, OneMore
<1> HIDE DEF x3
<1>8. /\ Row(x4, Int, 12) /\ Holds(x4, 0, 3, p) /\ Holds(x4, 3, 2, q) /\ Holds(x4, 5, 5, r)
      /\ Holds(x4, 10, 2, t)
  <2>1. /\ 12 = 10 + 2 /\ 0 + 3 <= 10 /\ 3 + 2 <= 10 /\ 5 + 5 <= 10
        /\ 0 \in 0..10 /\ 3 \in 0..10 /\ 2 \in 0..10 /\ 5 \in 0..10
    OBVIOUS
  <2> QED BY <1>4, <1>7, <2>1, OneMore
<1> HIDE DEF x4
<1>9. /\ Row(x5, Int, 20) /\ Holds(x5, 0, 3, p) /\ Holds(x5, 3, 2, q) /\ Holds(x5, 5, 5, r)
      /\ Holds(x5, 10, 2, t) /\ Holds(x5, 12, 8, u)
  <2>1. /\ 20 = 12 + 8 /\ 0 + 3 <= 12 /\ 3 + 2 <= 12 /\ 5 + 5 <= 12 /\ 10 + 2 <= 12
        /\ 0 \in 0..12 /\ 3 \in 0..12 /\ 2 \in 0..12 /\ 5 \in 0..12 /\ 10 \in 0..12
    OBVIOUS
  <2> QED BY <1>5, <1>8, <2>1, OneMore
<1> HIDE DEF x5
<1>10. /\ x5[2] = p[2] /\ x5[4] = q[1] /\ x5[5] = q[2] /\ x5[11] = t[1] /\ x5[12] = t[2]
       /\ x5[13] = u[1] /\ x5[19] = u[7]
  BY <1>9, SMT DEF Holds
<1>11. ASSUME NEW i \in 1..5 PROVE x5[i + 5] = r[i]
  <2>1. i + 5 \in 5 + 1..5 + 5 /\ (i + 5) - 5 = i
    OBVIOUS
  <2> QED BY <1>9, <2>1 DEF Holds
<1> QED BY <1>0, <1>1, <1>2, <1>4, <1>5, <1>9, <1>10, <1>11 DEF r

\* A signed word comes back from its two bytes.
LEMMA SignedBytes ==
  ASSUME NEW u \in Short
  PROVE  int16(low(u) + 256 * high(u)) = u
<1>1. u \in Int /\ -32768 <= u /\ u < 32768
  BY ShortRange, SMT
<1>2. CASE u >= 0
  <2>1. low(u) + 256 * high(u) = u
    BY <1>1, <1>2, SMT DEF low, high
  <2>2. ~(u >= 32768)
    BY <1>1, SMT
  <2> QED BY <2>1, <2>2, SMT DEF int16
<1>3. CASE ~(u >= 0)
  <2>1. low(u) + 256 * high(u) = u + 65536
    BY <1>1, <1>3, SMT DEF low, high
  <2>2. u + 65536 >= 32768 /\ (u + 65536) - 65536 = u
    BY <1>1, SMT
  <2> QED BY <2>1, <2>2, SMT DEF int16
<1> QED BY <1>2, <1>3, SMT

\* The charge, in percent, fits into a byte.
LEMMA BatteryIs ==
  ASSUME NEW b \in Byte
  PROVE  Battery(b) = 2 * (b \div 4) /\ Battery(b) \in Int
<1>1. b \in Int /\ 0 <= b /\ b <= 255
  BY SMT DEF Byte
<1>2. b \div 4 \in Int /\ 0 <= b \div 4 /\ b \div 4 < 64
  BY <1>1, SMT
<1> DEFINE q == b \div 4
<1>3. Battery(b) = (q * 2) % 256
  BY SMT DEF Battery
<1> HIDE DEF q
<1>4. q \in Int /\ 0 <= q /\ q < 64
  BY <1>2, SMT DEF q
<1>5. (q * 2) % 256 = 2 * q /\ 2 * q \in Int
  BY <1>4, SMT
<1> QED BY <1>3, <1>5, SMT DEF q

\* What the parser is to find in a message of 13 bytes or more.
NoSensor == 255
StateOf(s, len) ==
  [lock_state |-> s.lock, year |-> s.year, month |-> s.clock[1], day |-> s.clock[2],
   hour |-> s.clock[3], minute |-> s.clock[4], second |-> s.clock[5],
   timezone_offset_min |-> s.tz, critical_battery |-> s.battery % 2,
   battery_percent |-> 2 * (s.battery \div 4),
   door_sensor_state |-> IF len < 19 THEN NoSensor ELSE s.door]

\* It finds it, and an error in a shorter one.
LEMMA ParserFinds ==
  ASSUME NEW s \in Report, NEW len \in 0..20
  PROVE  nuki_keyturner_state_parse(LockMessage(s, len))
           = IF len < 13 THEN [err |-> "EINVAL", state |-> NoState]
             ELSE [err |-> "OK", state |-> StateOf(s, len)]
<1> DEFINE p == LockMessage(s, len)
           f == Full(s)
<1>1. Len(p) = len /\ \A i \in 1..len : p[i] = f[i]
  <2>1. len \in Nat /\ 0 \in Nat /\ 0 + 1 = 1 /\ 0 + len = len /\ \A i \in 1..len : 0 + i = i
    OBVIOUS
  <2>2. p = SubSeq(f, 1, len)
    BY DEF LockMessage, Full, Rest
  <2> HIDE DEF p, f
  <2>3. SubSeq(f, 0 + 1, 0 + len) = [i \in 1..len |-> f[0 + i]]
    BY <2>1, PartOf
  <2>4. p = [i \in 1..len |-> f[i]]
    BY <2>1, <2>2, <2>3
  <2> QED BY <2>1, <2>4
<1>2. /\ f[2] = s.lock /\ f[4] = low(s.year) /\ f[5] = high(s.year)
      /\ f[11] = low(s.tz) /\ f[12] = high(s.tz) /\ f[13] = s.battery /\ f[19] = s.door
  BY FullIs
<1>3. /\ f[6] = s.clock[1] /\ f[7] = s.clock[2] /\ f[8] = s.clock[3] /\ f[9] = s.clock[4]
      /\ f[10] = s.clock[5]
  <2>1. \A i \in 1..5 : f[i + 5] = s.clock[i]
    BY FullIs
  <2> HIDE DEF f
  <2>2. f[1 + 5] = s.clock[1] /\ f[2 + 5] = s.clock[2] /\ f[3 + 5] = s.clock[3]
        /\ f[4 + 5] = s.clock[4] /\ f[5 + 5] = s.clock[5]
    BY <2>1
  <2> QED BY <2>2
<1> HIDE DEF p, f
<1>4. CASE len < 13
  BY <1>1, <1>4 DEF nuki_keyturner_state_parse, p
<1>5. CASE ~(len < 13)
  <2>1. /\ p[2] = f[2] /\ p[4] = f[4] /\ p[5] = f[5] /\ p[6] = f[6] /\ p[7] = f[7] /\ p[8] = f[8]
        /\ p[9] = f[9] /\ p[10] = f[10] /\ p[11] = f[11] /\ p[12] = f[12] /\ p[13] = f[13]
        /\ (len >= 19 => p[19] = f[19])
    BY <1>1, <1>5, SMT
  <2>2. get_le16(p, 4) = s.year
    <3>1. get_le16(p, 4) = low(s.year) + 256 * high(s.year)
      BY <1>2, <2>1, SMT DEF get_le16
    <3> QED BY <3>1, ReportFields, TwoBytes, SMT
  <2>3. int16(get_le16(p, 11)) = s.tz
    <3>1. get_le16(p, 11) = low(s.tz) + 256 * high(s.tz)
      BY <1>2, <2>1, SMT DEF get_le16
    <3> QED BY <3>1, ReportFields, SignedBytes, SMT
  <2>4. Battery(p[13]) = 2 * (s.battery \div 4)
    BY <1>2, <2>1, ReportFields, BatteryIs, SMT
  <2>5. (IF Len(p) >= 19 THEN p[19] ELSE 255) = (IF len < 19 THEN NoSensor ELSE s.door)
    BY <1>1, <1>2, <2>1, SMT DEF NoSensor
  <2>6. ~(Len(p) < 13)
    BY <1>1, <1>5
  <2> DEFINE d == IF Len(p) >= 19 THEN p[19] ELSE 255
             R(l, y, c1, c2, c3, c4, c5, z, cb, bp, ds) ==
               [lock_state |-> l, year |-> y, month |-> c1, day |-> c2, hour |-> c3,
                minute |-> c4, second |-> c5, timezone_offset_min |-> z,
                critical_battery |-> cb, battery_percent |-> bp, door_sensor_state |-> ds]
             e == IF len < 19 THEN NoSensor ELSE s.door
  <2>7. nuki_keyturner_state_parse(p)
          = [err |-> "OK",
             state |-> R(p[2], get_le16(p, 4), p[6], p[7], p[8], p[9], p[10],
                         int16(get_le16(p, 11)), p[13] % 2, Battery(p[13]), d)]
    BY <2>6, SMT DEF nuki_keyturner_state_parse
  <2>8. StateOf(s, len)
          = R(s.lock, s.year, s.clock[1], s.clock[2], s.clock[3], s.clock[4], s.clock[5], s.tz,
              s.battery % 2, 2 * (s.battery \div 4), e)
    BY SMT DEF StateOf
  <2>9. /\ p[2] = s.lock /\ p[6] = s.clock[1] /\ p[7] = s.clock[2] /\ p[8] = s.clock[3]
        /\ p[9] = s.clock[4] /\ p[10] = s.clock[5] /\ p[13] = s.battery
    BY <1>2, <1>3, <2>1, SMT
  <2>10. d = e
    BY <2>5, SMT
  <2> HIDE DEF R, d, e
  <2>11. nuki_keyturner_state_parse(p) = [err |-> "OK", state |-> StateOf(s, len)]
    BY <2>2, <2>3, <2>4, <2>7, <2>8, <2>9, <2>10, SMT
  <2> QED BY <1>5, <2>11 DEF p
<1> QED BY <1>4, <1>5

\* The lock's message as it was sent; the cache, which holds the last whole
\* report or nothing; and the answer made from it.
StateInv ==
  /\ stage # "none" /\ kind = "state" =>
       \E s \in Reports, len \in Lengths :
         input = [s |-> s, len |-> len] /\ wire = LockMessage(s, len)
  /\ \/ last = {} /\ cache = EmptyCache
     \/ \E s \in Reports, len \in Lengths :
          /\ len >= 13 /\ last = {[s |-> s, len |-> len]}
          /\ cache = [valid |-> TRUE, state |-> StateOf(s, len)]
  /\ stage # "none" /\ kind = "answer" =>
       \E age \in Ages :
         /\ input = [age |-> age]
         /\ wire = handle_state(nuki_app_get_cached_state, cache.state, age)

\* A whole report replaces what is cached, a shorter one leaves it.
LEMMA CaptureKeeps == StateInv /\ Capture => StateInv'
<1> SUFFICES ASSUME StateInv, Capture PROVE StateInv'
  OBVIOUS
<1>1. stage = "wire" /\ kind = "state"
  BY DEF Capture
<1>2. PICK s \in Reports, len \in Lengths :
        input = [s |-> s, len |-> len] /\ wire = LockMessage(s, len)
  BY <1>1 DEF StateInv
<1>3. s \in Report /\ len \in 0..20
  BY ReportInputs
<1> DEFINE parsed == nuki_keyturner_state_parse(wire)
<1>4. parsed = IF len < 13 THEN [err |-> "EINVAL", state |-> NoState]
               ELSE [err |-> "OK", state |-> StateOf(s, len)]
  BY <1>2, <1>3, ParserFinds
<1>5. /\ kind' = "state" /\ input' = input /\ wire' = wire
      /\ cache' = Cached(parsed) /\ last' = IF input.len >= 13 THEN {input} ELSE last
  BY <1>1 DEF Capture
<1> HIDE DEF parsed
<1>6. CASE len < 13
  <2>1. parsed.err = "EINVAL" /\ ~(input.len >= 13)
    BY <1>2, <1>3, <1>4, <1>6, SMT
  <2>2. cache' = cache /\ last' = last
    BY <1>5, <2>1 DEF Cached
  <2> QED BY <1>2, <1>5, <2>2 DEF StateInv, EmptyCache
<1>7. CASE ~(len < 13)
  <2>1. /\ parsed.err = "OK" /\ parsed.state = StateOf(s, len)
        /\ len >= 13 /\ input.len >= 13
    BY <1>2, <1>3, <1>4, <1>7, SMT
  <2>2. /\ cache' = [valid |-> TRUE, state |-> StateOf(s, len)]
        /\ last' = {[s |-> s, len |-> len]}
    BY <1>2, <1>5, <2>1 DEF Cached
  <2> QED BY <1>2, <1>5, <2>1, <2>2 DEF StateInv
<1> QED BY <1>6, <1>7

\* The lock's message, the cache and the answer are always so.
LEMMA AlwaysState == Spec => []StateInv
<1>1. Init => StateInv
  BY DEF Init, StateInv
<1>2. StateInv /\ [Next]_vars => StateInv'
  <2> SUFFICES ASSUME StateInv, [Next]_vars PROVE StateInv'
    OBVIOUS
  <2>1. CASE BuildPlain
    BY <2>1 DEF BuildPlain, Start, StateInv, EmptyCache, nuki_app_get_cached_state
  <2>2. CASE BuildAuth
    BY <2>2 DEF BuildAuth, Start, StateInv, EmptyCache, nuki_app_get_cached_state
  <2>3. CASE DamageFrame
    BY <2>3 DEF DamageFrame, Touch, StateInv, EmptyCache, nuki_app_get_cached_state
  <2>4. CASE ParseFrame
    BY <2>4 DEF ParseFrame, Finish, StateInv, EmptyCache, nuki_app_get_cached_state
  <2>5. CASE Seal
    BY <2>5 DEF Seal, Start, StateInv, EmptyCache, nuki_app_get_cached_state
  <2>6. CASE Tamper
    BY <2>6 DEF Tamper, Touch, StateInv, EmptyCache, nuki_app_get_cached_state
  <2>7. CASE Open
    BY <2>7 DEF Open, Finish, StateInv, EmptyCache, nuki_app_get_cached_state
  <2>8. CASE ReportState
    BY <2>8 DEF ReportState, Start, StateInv, EmptyCache, nuki_app_get_cached_state
  <2>9. CASE Answer
    BY <2>9 DEF Answer, Start, StateInv, EmptyCache, nuki_app_get_cached_state
  <2>10. CASE Core
    BY <2>10 DEF Core, Start, StateInv, EmptyCache, nuki_app_get_cached_state
  <2>11. CASE Authenticate
    BY <2>11 DEF Authenticate, Start, StateInv, EmptyCache, nuki_app_get_cached_state
  <2>12. CASE Again
    BY <2>12 DEF Again, Clear, StateInv, EmptyCache, nuki_app_get_cached_state
  <2>13. CASE Restart
    BY <2>13 DEF Restart, StateInv, EmptyCache, nuki_app_get_cached_state
  <2>14. CASE Capture
    BY <2>14, CaptureKeeps
  <2>15. CASE UNCHANGED vars
    BY <2>15 DEF vars, StateInv, EmptyCache, nuki_app_get_cached_state
  <2> QED BY <2>1, <2>2, <2>3, <2>4, <2>5, <2>6, <2>7, <2>8, <2>9, <2>10, <2>11, <2>12,
            <2>13, <2>14, <2>15
          DEF Next
<1> QED BY <1>1, <1>2, PTL DEF Spec

\* A parsed state; its fields are numbers.
Numbers(st) ==
  /\ st.lock_state \in Int /\ st.year \in Int /\ st.month \in Int /\ st.day \in Int
  /\ st.hour \in Int /\ st.minute \in Int /\ st.second \in Int
  /\ st.timezone_offset_min \in Int /\ st.critical_battery \in Int
  /\ st.battery_percent \in Int /\ st.door_sensor_state \in Int

\* Where rc, the state and its age are in the frame f.
Carries32(f, o, n) ==
  /\ f[o + 1] = low(n) /\ f[o + 2] = high(n)
  /\ f[o + 3] = low(upper(n)) /\ f[o + 4] = high(upper(n))
CarriesState(f, st) ==
  /\ f[8] = st.lock_state /\ f[9] = st.battery_percent /\ f[10] = st.critical_battery
  /\ f[11] = st.door_sensor_state /\ f[12] = low(st.year) /\ f[13] = high(st.year)
  /\ f[14] = st.month /\ f[15] = st.day /\ f[16] = st.hour /\ f[17] = st.minute
  /\ f[18] = st.second
  /\ f[19] = low(st.timezone_offset_min) /\ f[20] = high(st.timezone_offset_min)

\* Four and five numbers in a row.
LEMMA SmallRows ==
  /\ \A a, b, c, d \in Int :
       /\ Row(<<a, b, c, d>>, Int, 4)
       /\ <<a, b, c, d>>[1] = a /\ <<a, b, c, d>>[2] = b
       /\ <<a, b, c, d>>[3] = c /\ <<a, b, c, d>>[4] = d
  /\ \A a, b, c, d, e \in Int :
       /\ Row(<<a, b, c, d, e>>, Int, 5)
       /\ <<a, b, c, d, e>>[1] = a /\ <<a, b, c, d, e>>[2] = b
       /\ <<a, b, c, d, e>>[3] = c /\ <<a, b, c, d, e>>[4] = d /\ <<a, b, c, d, e>>[5] = e
BY SMT DEF Row

\* The packed response is at these places of the frame.
LEMMA FrameCarries ==
  ASSUME NEW rc \in Int, NEW st, Numbers(st), NEW age \in Int
  PROVE  LET f == send_frame(3, resp_state(rc, st, age))
         IN  /\ Len(f) = 24 /\ f[3] = 21
             /\ Carries32(f, 3, rc) /\ CarriesState(f, st) /\ Carries32(f, 20, age)
<1> DEFINE p == put_le32(rc)
           q == <<st.lock_state, st.battery_percent, st.critical_battery, st.door_sensor_state>>
           r == put_le16(st.year)
           s == <<st.month, st.day, st.hour, st.minute, st.second>>
           t == put_le16(st.timezone_offset_min)
           u == put_le32(age)
           x2 == p \o q
           x3 == x2 \o r
           x4 == x3 \o s
           x5 == x4 \o t
           x6 == x5 \o u
<1>0. resp_state(rc, st, age) = x6
  BY DEF resp_state
<1>1. /\ Row(p, Int, 4) /\ p[1] = low(rc) /\ p[2] = high(rc)
      /\ p[3] = low(upper(rc)) /\ p[4] = high(upper(rc))
  BY LongRow
<1>2. /\ Row(q, Int, 4) /\ q[1] = st.lock_state /\ q[2] = st.battery_percent
      /\ q[3] = st.critical_battery /\ q[4] = st.door_sensor_state
  BY SmallRows DEF Numbers
<1>3. Row(r, Int, 2) /\ r[1] = low(st.year) /\ r[2] = high(st.year)
  BY WordRow DEF Numbers
<1>4. /\ Row(s, Int, 5) /\ s[1] = st.month /\ s[2] = st.day /\ s[3] = st.hour
      /\ s[4] = st.minute /\ s[5] = st.second
  BY SmallRows DEF Numbers
<1>5. /\ Row(t, Int, 2) /\ t[1] = low(st.timezone_offset_min)
      /\ t[2] = high(st.timezone_offset_min)
  BY WordRow DEF Numbers
<1>6. /\ Row(u, Int, 4) /\ u[1] = low(age) /\ u[2] = high(age)
      /\ u[3] = low(upper(age)) /\ u[4] = high(upper(age))
  BY LongRow
<1> HIDE DEF p, q, r, s, t, u
<1>7. Row(x2, Int, 8) /\ Holds(x2, 0, 4, p) /\ Holds(x2, 4, 4, q)
  <2>1. Holds(p, 0, 4, p) /\ 8 = 4 + 4 /\ 0 \in 0..4 /\ 4 \in 0..4 /\ 0 + 4 <= 4
    BY HoldsItself
  <2> QED BY <1>1, <1>2, <2>1, OneMore
<1> HIDE DEF x2
<1>8. Row(x3, Int, 10) /\ Holds(x3, 0, 4, p) /\ Holds(x3, 4, 4, q) /\ Holds(x3, 8, 2, r)
  <2>1. 10 = 8 + 2 /\ 0 + 4 <= 8 /\ 4 + 4 <= 8 /\ 0 \in 0..8 /\ 4 \in 0..8
    OBVIOUS
  <2> QED BY <1>3, <1>7, <2>1, OneMore
<1> HIDE DEF x3
<1>9. /\ Row(x4, Int, 15) /\ Holds(x4, 0, 4, p) /\ Holds(x4, 4, 4, q) /\ Holds(x4, 8, 2, r)
      /\ Holds(x4, 10, 5, s)
  <2>1. /\ 15 = 10 + 5 /\ 0 + 4 <= 10 /\ 4 + 4 <= 10 /\ 8 + 2 <= 10
        /\ 0 \in 0..10 /\ 4 \in 0..10 /\ 8 \in 0..10 /\ 2 \in 0..10
    OBVIOUS
  <2> QED BY <1>4, <1>8, <2>1, OneMore
<1> HIDE DEF x4
<1>10. /\ Row(x5, Int, 17) /\ Holds(x5, 0, 4, p) /\ Holds(x5, 4, 4, q) /\ Holds(x5, 8, 2, r)
       /\ Holds(x5, 10, 5, s) /\ Holds(x5, 15, 2, t)
  <2>1. /\ 17 = 15 + 2 /\ 0 + 4 <= 15 /\ 4 + 4 <= 15 /\ 8 + 2 <= 15 /\ 10 + 5 <= 15
        /\ 0 \in 0..15 /\ 4 \in 0..15 /\ 8 \in 0..15 /\ 2 \in 0..15 /\ 10 \in 0..15 /\ 5 \in 0..15
    OBVIOUS
  <2> QED BY <1>5, <1>9, <2>1, OneMore
<1> HIDE DEF x5
<1>11. /\ Row(x6, Int, 21) /\ Holds(x6, 0, 4, p) /\ Holds(x6, 4, 4, q) /\ Holds(x6, 8, 2, r)
       /\ Holds(x6, 10, 5, s) /\ Holds(x6, 15, 2, t) /\ Holds(x6, 17, 4, u)
  <2>1. /\ 21 = 17 + 4 /\ 0 + 4 <= 17 /\ 4 + 4 <= 17 /\ 8 + 2 <= 17 /\ 10 + 5 <= 17
        /\ 15 + 2 <= 17 /\ 0 \in 0..17 /\ 4 \in 0..17 /\ 8 \in 0..17 /\ 2 \in 0..17
        /\ 10 \in 0..17 /\ 5 \in 0..17 /\ 15 \in 0..17
    OBVIOUS
  <2> QED BY <1>6, <1>10, <2>1, OneMore
<1> HIDE DEF x6
<1> DEFINE h == <<90, 3, 21>>
           f == h \o x6
<1>12. send_frame(3, resp_state(rc, st, age)) = f
  BY <1>0, <1>11 DEF send_frame, Row
<1>13. Row(f, Int, 24) /\ Holds(f, 0, 3, h) /\ Holds(f, 3, 21, x6) /\ h[3] = 21
  <2>1. Row(h, Int, 3) /\ h[3] = 21
    BY SMT DEF Row
  <2> HIDE DEF h
  <2>2. Holds(h, 0, 3, h) /\ 24 = 3 + 21 /\ 0 \in 0..3 /\ 3 \in 0..3 /\ 0 + 3 <= 3
    BY HoldsItself
  <2> QED BY <1>11, <2>1, <2>2, OneMore
<1> HIDE DEF h, f
<1>14. Len(f) = 24 /\ f[3] = 21
  BY <1>13, SMT DEF Holds, Row
<1>15. \A i \in 4..24 : f[i] = x6[i - 3]
  BY <1>13, SMT DEF Holds
<1>16. Carries32(f, 3, rc)
  <2>1. f[4] = x6[1] /\ f[5] = x6[2] /\ f[6] = x6[3] /\ f[7] = x6[4]
    BY <1>15, SMT
  <2>2. x6[1] = p[1] /\ x6[2] = p[2] /\ x6[3] = p[3] /\ x6[4] = p[4]
    BY <1>11, SMT DEF Holds
  <2> QED BY <1>1, <2>1, <2>2, SMT DEF Carries32
<1>17. Carries32(f, 20, age)
  <2>1. f[21] = x6[18] /\ f[22] = x6[19] /\ f[23] = x6[20] /\ f[24] = x6[21]
    BY <1>15, SMT
  <2>2. x6[18] = u[1] /\ x6[19] = u[2] /\ x6[20] = u[3] /\ x6[21] = u[4]
    BY <1>11, SMT DEF Holds
  <2> QED BY <1>6, <2>1, <2>2, SMT DEF Carries32
<1>18. CarriesState(f, st)
  <2>1. /\ f[8] = x6[5] /\ f[9] = x6[6] /\ f[10] = x6[7] /\ f[11] = x6[8] /\ f[12] = x6[9]
        /\ f[13] = x6[10] /\ f[14] = x6[11] /\ f[15] = x6[12] /\ f[16] = x6[13]
        /\ f[17] = x6[14] /\ f[18] = x6[15] /\ f[19] = x6[16] /\ f[20] = x6[17]
    BY <1>15, SMT
  <2>2. /\ x6[5] = q[1] /\ x6[6] = q[2] /\ x6[7] = q[3] /\ x6[8] = q[4]
        /\ x6[9] = r[1] /\ x6[10] = r[2]
    BY <1>11, SMT DEF Holds
  <2>3. /\ x6[11] = s[1] /\ x6[12] = s[2] /\ x6[13] = s[3] /\ x6[14] = s[4] /\ x6[15] = s[5]
        /\ x6[16] = t[1] /\ x6[17] = t[2]
    BY <1>11, SMT DEF Holds
  <2> QED BY <1>2, <1>3, <1>4, <1>5, <2>1, <2>2, <2>3, SMT DEF CarriesState
<1> QED BY <1>12, <1>14, <1>16, <1>17, <1>18, SMT

\* A number whose upper half is a signed word comes back from its four bytes.
LEMMA Le32Back ==
  ASSUME NEW n \in Int, upper(n) \in Short, NEW f, NEW o \in Int, Carries32(f, o + 3, n)
  PROVE  Le32At(f, o) = n
<1> DEFINE a == low(n) + 256 * high(n)
           b == low(upper(n)) + 256 * high(upper(n))
<1>1. /\ f[o + 4] = low(n) /\ f[(o + 1) + 4] = high(n)
      /\ f[(o + 2) + 4] = low(upper(n)) /\ f[((o + 2) + 1) + 4] = high(upper(n))
  <2>1. /\ (o + 3) + 1 = o + 4 /\ (o + 3) + 2 = (o + 1) + 4
        /\ (o + 3) + 3 = (o + 2) + 4 /\ (o + 3) + 4 = ((o + 2) + 1) + 4
    BY SMT
  <2> QED BY <2>1, SMT DEF Carries32
<1>2. Le16At(f, o) = a /\ Le16At(f, o + 2) = b
  BY <1>1, SMT DEF Le16At, At
<1>3. int16(b) = upper(n)
  BY SignedBytes, SMT
<1>4. a + 65536 * upper(n) = n
  BY SMT DEF low, high, upper
<1> HIDE DEF a, b
<1>5. Le32At(f, o) = a + 65536 * upper(n)
  BY <1>2, <1>3, SMT DEF Le32At
<1> QED BY <1>4, <1>5, SMT

\* The results that are sent as four bytes: 0 and -61.
LEMMA UpperHalves == upper(0) \in Short /\ upper(-61) \in Short
<1>1. \A n \in Int : -32768 <= n /\ n < 32768 => n \in Short
  <2> DEFINE a == -32768
             b == 32767
  <2>1. a \in Int /\ b \in Int /\ Short = a..b /\ \A n \in Int : n < 32768 => n <= b
    BY SMT DEF Short
  <2> HIDE DEF a, b
  <2>2. \A n \in Int : a <= n /\ n < 32768 => n \in Short
    BY <2>1, SMT
  <2> QED BY <2>2, SMT DEF a
<1>2. ASSUME NEW x \in Int, -61 <= x, x <= 0 PROVE upper(x) \in Short
  <2> DEFINE q == 65536
             y == x \div q
             r == x % q
  <2>1. q = 65536 /\ upper(x) = y
    BY SMT DEF upper
  <2>2. q \in Nat \ {0}
    BY SMT
  <2> HIDE DEF q
  <2>3. y \in Int /\ r \in 0..q - 1 /\ x = q * y + r
    BY <2>2, Division, SMT
  <2> HIDE DEF y, r
  <2>4. x = 65536 * y + r /\ r \in Int /\ 0 <= r /\ r < 65536 /\ y \in Int
    <3>1. r \in Int /\ 0 <= r /\ r < q
      BY <2>2, <2>3, SMT
    <3>2. q = 65536
      BY <2>1, SMT
    <3>3. y \in Int /\ x = q * y + r
      BY <2>3, SMT
    <3> QED BY <3>1, <3>2, <3>3, SMT
  <2>5. -32768 <= y /\ y < 32768
    BY <1>2, <2>4, SMT
  <2> QED BY <1>1, <2>1, <2>4, <2>5, SMT
<1>3. upper(0) \in Short
  BY <1>2, SMT
<1>4. upper(-61) \in Short
  BY <1>2, SMT
<1> QED BY <1>3, <1>4, SMT

\* A state that was parsed consists of numbers, and so does none.
LEMMA StatesAreNumbers ==
  /\ Numbers(NoState)
  /\ \A s \in Report, len \in 0..20 : Numbers(StateOf(s, len))
<1>1. Numbers(NoState)
  BY SMT DEF Numbers, NoState
<1>2. ASSUME NEW s \in Report, NEW len \in 0..20 PROVE Numbers(StateOf(s, len))
  <2>1. /\ s.lock \in Int /\ s.battery \in Int /\ s.door \in Int /\ s.year \in Int
        /\ s.tz \in Int /\ Row(s.clock, Int, 5)
    BY ReportFields
  <2>2. \A i \in 1..5 : s.clock[i] \in Int
    BY <2>1, ElementOfSeq DEF Row
  <2>3. s.battery % 2 \in Int /\ 2 * (s.battery \div 4) \in Int
    BY <2>1, SMT
  <2>4. (IF len < 19 THEN NoSensor ELSE s.door) \in Int
    BY <2>1, SMT DEF NoSensor
  <2>5. /\ s.clock[1] \in Int /\ s.clock[2] \in Int /\ s.clock[3] \in Int /\ s.clock[4] \in Int
        /\ s.clock[5] \in Int
    BY <2>2
  <2> HIDE DEF NoSensor
  <2> QED BY <2>1, <2>3, <2>4, <2>5 DEF Numbers, StateOf
<1> QED BY <1>1, <1>2

\* The answer to a state that was parsed.
LEMMA GoodAnswer ==
  ASSUME NEW s \in Report, NEW len \in 0..20, NEW age \in Int, upper(age) \in Short
  PROVE  LET f == handle_state(0, StateOf(s, len), age)
         IN  /\ Len(f) = 24 /\ At(f, -1) = 21
             /\ Le32At(f, 0) = 0
             /\ At(f, 4) = s.lock
             /\ At(f, 5) = 2 * (s.battery \div 4)
             /\ At(f, 6) = s.battery % 2
             /\ At(f, 7) = (IF len < 19 THEN 255 ELSE s.door)
             /\ Le16At(f, 8) = s.year
             /\ \A i \in 1..5 : At(f, 9 + i) = s.clock[i]
             /\ int16(Le16At(f, 15)) = s.tz
             /\ Le32At(f, 17) = age
<1> DEFINE st == StateOf(s, len)
           f == send_frame(3, resp_state(0, st, age))
<1>1. handle_state(0, st, age) = f
  BY DEF handle_state
<1>2. /\ Len(f) = 24 /\ f[3] = 21
      /\ Carries32(f, 3, 0) /\ CarriesState(f, st) /\ Carries32(f, 20, age)
  <2>1. Numbers(st) /\ 0 \in Int
    BY StatesAreNumbers
  <2> HIDE DEF st
  <2> QED BY <2>1, FrameCarries, SMT
<1>3. /\ st.lock_state = s.lock /\ st.battery_percent = 2 * (s.battery \div 4)
      /\ st.critical_battery = s.battery % 2
      /\ st.door_sensor_state = (IF len < 19 THEN 255 ELSE s.door)
      /\ st.year = s.year /\ st.timezone_offset_min = s.tz
      /\ st.month = s.clock[1] /\ st.day = s.clock[2] /\ st.hour = s.clock[3]
      /\ st.minute = s.clock[4] /\ st.second = s.clock[5]
  BY SMT DEF StateOf, NoSensor
<1> HIDE DEF st, f
<1>4. Le32At(f, 0) = 0 /\ Le32At(f, 17) = age
  <2>1. 0 + 3 = 3 /\ 17 + 3 = 20 /\ 0 \in Int /\ 17 \in Int /\ upper(0) \in Short
    BY UpperHalves, SMT
  <2>2. Le32At(f, 0) = 0
    BY <1>2, <2>1, Le32Back, SMT
  <2>3. Le32At(f, 17) = age
    BY <1>2, <2>1, Le32Back, SMT
  <2> QED BY <2>2, <2>3, SMT
<1>5. /\ At(f, -1) = 21 /\ At(f, 4) = f[8] /\ At(f, 5) = f[9] /\ At(f, 6) = f[10]
      /\ At(f, 7) = f[11]
  BY <1>2, SMT DEF At
<1>6. Le16At(f, 8) = s.year
  <2>1. Le16At(f, 8) = f[12] + 256 * f[13]
    BY SMT DEF Le16At, At
  <2>2. f[12] = low(s.year) /\ f[13] = high(s.year)
    BY <1>2, <1>3, SMT DEF CarriesState
  <2> QED BY <2>1, <2>2, ReportFields, TwoBytes, SMT
<1>7. int16(Le16At(f, 15)) = s.tz
  <2>1. Le16At(f, 15) = f[19] + 256 * f[20]
    BY SMT DEF Le16At, At
  <2>2. f[19] = low(s.tz) /\ f[20] = high(s.tz)
    BY <1>2, <1>3, SMT DEF CarriesState
  <2> QED BY <2>1, <2>2, ReportFields, SignedBytes, SMT
<1>8. ASSUME NEW i \in 1..5 PROVE At(f, 9 + i) = s.clock[i]
  <2>1. At(f, 9 + i) = f[13 + i]
    <3>1. (9 + i) + 4 = 13 + i
      BY SMT
    <3> QED BY <3>1, SMT DEF At
  <2>2. /\ f[14] = s.clock[1] /\ f[15] = s.clock[2] /\ f[16] = s.clock[3] /\ f[17] = s.clock[4]
        /\ f[18] = s.clock[5]
    BY <1>2, <1>3, SMT DEF CarriesState
  <2>3. i = 1 \/ i = 2 \/ i = 3 \/ i = 4 \/ i = 5
    BY SMT
  <2> QED BY <2>1, <2>2, <2>3, SMT
<1>9. /\ f[8] = s.lock /\ f[9] = 2 * (s.battery \div 4) /\ f[10] = s.battery % 2
      /\ f[11] = (IF len < 19 THEN 255 ELSE s.door)
  BY <1>2, <1>3, SMT DEF CarriesState
<1>10. Len(f) = 24 /\ handle_state(0, StateOf(s, len), age) = f
  BY <1>1, <1>2, SMT DEF st
<1> QED BY <1>4, <1>5, <1>6, <1>7, <1>8, <1>9, <1>10, SMT

\* The answer while nothing is cached.
LEMMA ErrorAnswer ==
  ASSUME NEW st, NEW age
  PROVE  LET f == handle_state(-61, st, age)
         IN  /\ Len(f) = 24 /\ At(f, -1) = 21
             /\ Le32At(f, 0) = -61 /\ \A o \in 4..20 : At(f, o) = 0
<1> DEFINE f == send_frame(3, resp_state(-61, NoState, 0))
<1>1. handle_state(-61, st, age) = f
  BY SMT DEF handle_state
<1>2. /\ Len(f) = 24 /\ f[3] = 21
      /\ Carries32(f, 3, -61) /\ CarriesState(f, NoState) /\ Carries32(f, 20, 0)
  <2>1. Numbers(NoState) /\ 0 \in Int /\ -61 \in Int
    BY StatesAreNumbers
  <2> QED BY <2>1, FrameCarries, SMT
<1> HIDE DEF f
<1>3. Le32At(f, 0) = -61
  <2>1. 0 + 3 = 3 /\ 0 \in Int /\ -61 \in Int /\ upper(-61) \in Short
    BY UpperHalves, SMT
  <2> QED BY <1>2, <2>1, Le32Back, SMT
<1>4. At(f, -1) = 21
  BY <1>2, SMT DEF At
<1>5. low(0) = 0 /\ high(0) = 0 /\ upper(0) = 0
  BY SMT DEF low, high, upper
<1>6. f[21] = 0 /\ f[22] = 0 /\ f[23] = 0 /\ f[24] = 0
  BY <1>2, <1>5, SMT DEF Carries32
<1>7. /\ f[8] = 0 /\ f[9] = 0 /\ f[10] = 0 /\ f[11] = 0 /\ f[12] = 0 /\ f[13] = 0 /\ f[14] = 0
      /\ f[15] = 0 /\ f[16] = 0 /\ f[17] = 0 /\ f[18] = 0 /\ f[19] = 0 /\ f[20] = 0
  BY <1>2, <1>5, SMT DEF CarriesState, NoState
<1>8. \A i \in 8..24 : f[i] = 0
  BY <1>6, <1>7, SMT
<1>9. \A o \in 4..20 : At(f, o) = 0
  <2>1. \A o \in 4..20 : o + 4 \in 8..24
    BY SMT
  <2> QED BY <1>8, <2>1, SMT DEF At
<1> QED BY <1>1, <1>2, <1>3, <1>4, <1>9, SMT

\* Every field of the last whole report of the lock reaches the Loxone side at
\* the documented offset with its value, whatever shorter messages followed it;
\* without one since start-up the answer is an error and zeros.
THEOREM StateArrives == Spec => []StateReachesLoxone
<1>1. StateInv => StateReachesLoxone
  <2> SUFFICES ASSUME StateInv, stage = "wire", kind = "answer"
               PROVE  StateReachesLoxone
    BY DEF StateReachesLoxone
  <2>1. PICK age \in Ages :
          /\ input = [age |-> age]
          /\ wire = handle_state(nuki_app_get_cached_state, cache.state, age)
    BY DEF StateInv
  <2>2. age \in Int /\ upper(age) \in Short
    <3>1. age \in Nat /\ age \div 65536 \in Short
      BY ReportInputs, SMT
    <3> QED BY <3>1, SMT DEF upper
  <2>3. input.age = age
    BY <2>1
  <2>4. CASE last = {} /\ cache = EmptyCache
    <3>1. wire = handle_state(-61, cache.state, age)
      BY <2>1, <2>4 DEF nuki_app_get_cached_state, EmptyCache
    <3>2. /\ Len(wire) = 24 /\ At(wire, -1) = 21
          /\ Le32At(wire, 0) = -61 /\ \A o \in 4..20 : At(wire, o) = 0
      BY <3>1, ErrorAnswer, SMT
    <3> QED BY <2>4, <3>2 DEF StateReachesLoxone
  <2>5. CASE \E s \in Reports, len \in Lengths :
               /\ len >= 13 /\ last = {[s |-> s, len |-> len]}
               /\ cache = [valid |-> TRUE, state |-> StateOf(s, len)]
    <3>1. PICK s \in Reports, len \in Lengths :
            /\ len >= 13 /\ last = {[s |-> s, len |-> len]}
            /\ cache = [valid |-> TRUE, state |-> StateOf(s, len)]
      BY <2>5
    <3>2. s \in Report /\ len \in 0..20
      BY ReportInputs
    <3>3. wire = handle_state(0, StateOf(s, len), age)
      BY <2>1, <3>1 DEF nuki_app_get_cached_state
    <3>4. /\ Len(wire) = 24 /\ At(wire, -1) = 21
          /\ Le32At(wire, 0) = 0
          /\ At(wire, 4) = s.lock
          /\ At(wire, 5) = 2 * (s.battery \div 4)
          /\ At(wire, 6) = s.battery % 2
          /\ At(wire, 7) = (IF len < 19 THEN 255 ELSE s.door)
          /\ Le16At(wire, 8) = s.year
          /\ \A i \in 1..5 : At(wire, 9 + i) = s.clock[i]
          /\ int16(Le16At(wire, 15)) = s.tz
          /\ Le32At(wire, 17) = age
      BY <2>2, <3>2, <3>3, GoodAnswer, SMT
    <3>5. last # {} /\ \A r \in last : r.s = s /\ r.len = len
      BY <3>1
    <3> QED BY <2>3, <3>4, <3>5 DEF StateReachesLoxone
  <2> QED BY <2>4, <2>5 DEF StateInv
<1> QED BY <1>1, AlwaysState, PTL
=============================================================================
