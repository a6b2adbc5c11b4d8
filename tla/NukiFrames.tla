----------------------------- MODULE NukiFrames -----------------------------
(***************************************************************************)
(* nuki_protocol.c and the response side of nuki_uart_proto.c as          *)
(* operators on sequences of bytes.                                       *)
(***************************************************************************)
EXTENDS NukiCrypto

CONSTANT FRAME_MAX      \* size of the buffer a frame is built in

ASSUME FramesAssumption == FRAME_MAX \in Nat

Short == -32768..32767

put_le16(n) == <<n % 256, (n \div 256) % 256>>
put_le32(n) == put_le16(n) \o put_le16(n \div 65536)
get_le16(s, i) == s[i] + 256 * s[i + 1]        \* from byte i, counted from 1
get_le32(s, i) == get_le16(s, i) + 65536 * get_le16(s, i + 2)
int16(u) == IF u >= 32768 THEN u - 65536 ELSE u

\* nuki_frame_build_plain and _auth differ in what precedes the payload.  The
\* empty frame stands for the return value 0.
Build(head, payload) ==
  LET body == head \o payload
  IN  IF Len(body) + 2 > FRAME_MAX THEN << >> ELSE body \o put_le16(nuki_crc16(body))

nuki_frame_build_plain(cmd, payload) == Build(put_le16(cmd), payload)
nuki_frame_build_auth(auth_id, cmd, payload) ==
  Build(put_le32(auth_id) \o put_le16(cmd), payload)

\* Likewise the parsers; head_len is 2 or 6, and the command ends the head.
Parsed(err, cmd, payload) == [err |-> err, auth_id |-> 0, cmd |-> cmd, payload |-> payload]

PayloadAndCrc(frame, head_len) ==             \* mutant: length not reduced by the CRC
  SubSeq(frame, head_len + 1, Len(frame))
Payload(frame, head_len) == SubSeq(frame, head_len + 1, Len(frame) - 2)

ParseUnchecked(frame, head_len) ==            \* mutant: CRC not compared
  IF Len(frame) < head_len + 2 THEN Parsed("EINVAL", 0, << >>)
  ELSE Parsed("OK", get_le16(frame, head_len - 1), Payload(frame, head_len))
Parse(frame, head_len) ==
  LET body_len == Len(frame) - 2
  IN  IF Len(frame) < head_len + 2 THEN Parsed("EINVAL", 0, << >>)
      ELSE IF nuki_crc16(SubSeq(frame, 1, body_len)) # get_le16(frame, body_len + 1)
      THEN Parsed("EBADMSG", 0, << >>)
      ELSE Parsed("OK", get_le16(frame, head_len - 1), Payload(frame, head_len))

nuki_frame_parse_plain(frame) == Parse(frame, 2)
nuki_frame_parse_auth(frame)  ==
  LET p == Parse(frame, 6)
  IN  IF p.err = "OK" THEN [p EXCEPT !.auth_id = get_le32(frame, 1)] ELSE p

-----------------------------------------------------------------------------
(* The lock's state: from its message to the answer on uart1.               *)

NoState == [lock_state |-> 0, year |-> 0, month |-> 0, day |-> 0, hour |-> 0, minute |-> 0,
            second |-> 0, timezone_offset_min |-> 0, critical_battery |-> 0,
            battery_percent |-> 0, door_sensor_state |-> 0]

\* The upper six bits of the battery byte, in steps of two percent.
Battery(b) == ((b \div 4) * 2) % 256

nuki_keyturner_state_parse(p) ==
  IF Len(p) < 13 THEN [err |-> "EINVAL", state |-> NoState]
  ELSE [err |-> "OK",
        state |-> [lock_state |-> p[2], year |-> get_le16(p, 4), month |-> p[6],
                   day |-> p[7], hour |-> p[8], minute |-> p[9], second |-> p[10],
                   timezone_offset_min |-> int16(get_le16(p, 11)),
                   critical_battery |-> p[13] % 2,
                   battery_percent |-> Battery(p[13]),
                   door_sensor_state |-> IF Len(p) >= 19 THEN p[19] ELSE 255]]

\* fill_state_fields and the packed struct nuki_uart_resp_state.
resp_state(rc, s, age_sec) ==
  put_le32(rc) \o <<s.lock_state, s.battery_percent, s.critical_battery, s.door_sensor_state>>
    \o put_le16(s.year) \o <<s.month, s.day, s.hour, s.minute, s.second>>
    \o put_le16(s.timezone_offset_min) \o put_le32(age_sec)

\* send_frame: SOF, command, length, payload.
send_frame(cmd, payload) == <<90, cmd, Len(payload)>> \o payload

\* handle_state: the cached state and its age, or the error and zeros.
handle_state(rc, s, age_sec) ==
  send_frame(3, IF rc = 0 THEN resp_state(0, s, age_sec) ELSE resp_state(rc, NoState, 0))
=============================================================================
