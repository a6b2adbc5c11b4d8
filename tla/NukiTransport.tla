---------------------------- MODULE NukiTransport ----------------------------
(***************************************************************************)
(* nuki_transport.c: one GATT characteristic as a blocking write and a    *)
(* reassembly buffer for the indications the lock splits its messages     *)
(* into.  The Bluetooth RX thread runs notify_cb and write_cb; the caller *)
(* of the operation runs everything else.                                 *)
(*                                                                        *)
(* Lengths are in units of a few bytes; a unit of the stream is           *)
(* <<message, index>>, so that the buffer shows what it holds a piece of. *)
(* This module holds the state and the transport's functions as operators; *)
(* NukiCommand runs a command over them.                                  *)
(***************************************************************************)
EXTENDS Naturals, Sequences

CONSTANT RX_BUF      \* sizeof(rx_buf), NUKI_WIRE_MAX_LEN (256 bytes)

ASSUME RxBufAssumption == RX_BUF \in Nat

VARIABLES
  rx_buf,     \* the first rx_len units of the buffer
  rx_sem,     \* 0 or 1; the code counts further, which only adds wake-ups
  write_sem, write_err,
  in_flight   \* ATT write request: "none", "sent" or "delivered" to the lock

transportVars == <<rx_buf, rx_sem, write_sem, write_err, in_flight>>

rx_len == Len(rx_buf)

\* nuki_transport_init on a new connection: memset and fresh semaphores.
TransportInit ==
  /\ rx_buf = << >> /\ rx_sem = 0 /\ write_sem = 0 /\ write_err = FALSE
  /\ in_flight = "none"

nuki_transport_init ==
  /\ rx_buf' = << >> /\ rx_sem' = 0 /\ write_sem' = 0 /\ write_err' = FALSE
  /\ in_flight' = "none"

\* One indication: as much of it as fits is appended, the rest is gone.
CopyAll(units) == rx_buf \o units     \* mutant: space not computed
Copy(units) ==
  LET space == RX_BUF - rx_len
      n == IF Len(units) < space THEN Len(units) ELSE space
  IN  rx_buf \o SubSeq(units, 1, n)

notify_cb(units) ==
  /\ rx_buf' = Copy(units)
  /\ rx_sem' = 1
  /\ UNCHANGED <<write_sem, write_err, in_flight>>

\* The lock has received the write request (external).
WriteDelivered ==
  /\ in_flight = "sent"
  /\ in_flight' = "delivered"
  /\ UNCHANGED <<rx_buf, rx_sem, write_sem, write_err>>

\* The write ends: confirmed by the lock, or failed by it or by the link.
write_cb(failed) ==
  /\ in_flight # "none" /\ (in_flight = "sent" => failed)
  /\ write_err' = failed
  /\ write_sem' = 1
  /\ in_flight' = "none"
  /\ UNCHANGED <<rx_buf, rx_sem>>

\* k_sem_reset and bt_gatt_write of nuki_transport_write.
WriteStart ==
  /\ write_sem' = 0
  /\ in_flight' = "sent"
  /\ UNCHANGED <<rx_buf, rx_sem, write_err>>

\* The predicate nuki_transport_wait_min tests under the mutex.
Enough(min_len) == rx_len >= min_len

\* k_sem_take(&rx_sem): woken by an indication.
SemTaken ==
  /\ rx_sem = 1
  /\ rx_sem' = 0
  /\ UNCHANGED <<rx_buf, write_sem, write_err, in_flight>>

\* nuki_transport_reset: everything accumulated is dropped, whichever message
\* it belongs to; then, outside the mutex, the semaphore.
ResetRxLen ==
  /\ rx_buf' = << >>
  /\ UNCHANGED <<rx_sem, write_sem, write_err, in_flight>>

ResetRxSem ==
  /\ rx_sem' = 0
  /\ UNCHANGED <<rx_buf, write_sem, write_err, in_flight>>
=============================================================================
