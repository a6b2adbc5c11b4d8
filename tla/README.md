# TLA+ models of the Nuki bridge firmware

The firmware connects an nRF52840 to a Nuki Smart Lock over Bluetooth LE and offers
the lock to a person (shell on one UART), to a Loxone building controller (binary
frames on a second UART) and to a background poller that keeps a cached copy of the
lock's state. It is small, but three threads, an interrupt, the Bluetooth host's
callbacks and a delayed work item meet in a handful of unprotected variables. These
modules model that meeting, and the handshake, the storage and the arithmetic under it;
TLC checks them on small instances and TLAPS proves the safety properties that matter
most for all of them.

## 1. Inventory

| Part | State it keeps | Operations | Hard part |
|---|---|---|---|
| `nuki_app.c`, connection | `g_conn`, ready flags, `g_ready_sem`, `g_disconnected_sem`, `g_connect_err`, `g_connecting`, scan-timeout work, `g_op_lock` | pair, get-state, lock-action, calibrate; scan, connect, discovery and disconnect callbacks | callbacks of one attempt meeting the next; one connection slot; error paths |
| `nuki_app.c`, cache and poller | `g_cached_state`, `g_cache_valid`, `g_state_poll_retries` | poll loop, capture from a lock action, cached read | cache written and read outside `g_op_lock` |
| `nuki_uart_proto.c` | receive state, frame in progress, 4-deep message queue | interrupt per byte, thread per frame | no CRC, escaping or timeout on the wire; silent drop |
| `nuki_transport.c` | reassembly buffer, `rx_sem`, `write_sem`, ATT write | write, wait, peek, reset, indication and write callbacks | wake-ups, overflow, write time-out, several messages in the buffer |
| `nuki_command.c` | locals only | get-state, challenge, lock action, calibrate, drain loop | the lock decides what comes, when, and in which pieces |
| `nuki_pairing.c` | locals only | five-message key exchange | messages out of turn, changed, repeated; both sides must end with the same credentials |
| `nuki_storage.c` | RAM copy and settings record | load, save, (clear: no caller) | power loss between the two |
| `nuki_protocol.c`, `nuki_crypto.c` | none | build, parse, CRC; encryption, HMAC, key exchange | carries, block borders, length boundaries |
| `nuki_shell.c`, `main.c` | none | callers; start-up order | the shell thread is preemptible |

How they interact: shell, uart1 thread and poller call the four operations of
`nuki_app.c`, which serialises them with `g_op_lock`. An operation scans, connects,
discovers GATT services (callbacks on the Bluetooth RX thread and the system work
queue), runs `nuki_command.c` or `nuki_pairing.c` over `nuki_transport.c`, and
disconnects. Lock actions and the poller write the cache; uart1 answers from it.

**Scheduling.** uart1's thread and the poller are created with `K_PRIO_COOP(7)`: nothing
preempts them, and they have precedence over the Bluetooth RX thread and the system
work queue. The shell thread is preemptible. The models keep this distinction
(`Cooperative`, `CallbackMayRun`, `MayRun`) because several properties hold only
because of it: the mutants that make the threads preemptible break them.

## 2. Modules

**`NukiConnection`**: the connect-on-demand state machine. Per caller a program
counter that stops at each blocking call and, since the shell can be preempted,
between the statements whose order matters: `Start` (mutex), `Begin`/`Clear`/`Arm`/
`ScanStart`/`Schedule` (`connect_to_lock` up to the wait), `ConnectDone` or
`ConnectTimeout`/`GiveUp*`, `CheckReady`, `Exchange`, `SavePairing`, `Disconnect*`,
`Unlock`. One action per callback, with the name of the C function; `device_found`
and `scan_timeout_handler` are split where they block in `bt_le_scan_stop`. The host
is modelled by how the code uses it: one `bt_conn`, a link that is `none`,
`initiating`, `up` or `closing`, one discovery at a time. `conn_refs` counts the
references this program holds. `bt_conn_get_dst(NULL)` is a read of arbitrary memory:
`stored` becomes `"garbage"`. `bt_conn_disconnect` on a link that is still `initiating` cancels
it, which ends in `connected_err` like any other failure to connect; that one comes in its
own time, so the cancellation has no step of its own. Advertising data is reduced to the
verdict of its parser (`AdIsNuki`).

**`NukiTransport`**, extended by **`NukiCommand`**: the reassembly buffer and a
command run over it. The buffer is a sequence of units `<<message, number, index>>`,
so that the model knows which message a piece belongs to; a copied piece decodes to a
message only if it is that message, whole and unmixed. That abstracts encryption and
CRC. If the buffer starts inside a message, the length field is arbitrary. The lock
answers as it likes and splits its messages as it likes. `nuki_transport_reset` is two
steps (`ResetLen` under the mutex, `ResetSem` outside it).

**`NukiUart`**: `serial_cb` byte by byte, the queue, the dispatcher. The Loxone side
sends well-formed frames and may pipeline them; the wire may lose or change bytes. A
queued frame is reduced to whether it is answered at once or after a BLE operation.

**`NukiCache`**: poller, uart1 thread and shell around the cache. The lock's state is a
version number; an operation is its outcome. The mutex is a queue ordered by priority,
then arrival. The poller's store after unlocking, and uart1's read after unlocking, are
steps of their own.

**`NukiPairing`**: `nuki_app_pair` once the link is up, over `NukiTransport`: the five
request/answer pairs of `nuki_pairing_run`, `recv_plain` step by step (wait for the command
id, wait for the length it implies, the copy of a frame cut short, parse, reset), the
save (`SaveRam`, `SaveFlash`), loss of power at any point and `main` with the load of the
settings. Cryptography is symbolic: a shared key is the pair of key numbers it is derived
from, an authenticator is the key and the fields it covers, so two of them are equal
exactly when the code's `memcmp` would find them equal. A frame parses only if it is whole
and unmixed. The lock (external) checks what it gets as the protocol has it and records
the authorisations it confirmed in `lock_auths`; up to `MAX_FAULTS` times its answer
arrives changed (in a field with a CRC that fits, or with one that does not), is a refusal
instead, or is said twice. One change is not among them: a Status of another code that
arrives as COMPLETE with a fitting CRC. Nothing authenticates a Status and
`nuki_pairing.c:283` could not notice it; `CredentialsAgree` and its proof assume that it
does not happen. The copy of the peer's address is in `NukiConnection`.

**`NukiFrames`**, **`NukiSecretbox`**, **`NukiCrypto`**, **`NukiPoly1305`**: `nuki_protocol.c`,
with the response side of `nuki_uart_proto.c`, and `nuki_crypto.c` as operators. `NukiFrames`
has the builders and parsers. `NukiSecretbox` has the stream cipher and
`e1`/`d1`; the cipher's bytes are symbolic: sets of independent random bytes, with
exclusive or as symmetric difference, so that a byte of keystream used twice is seen.
`NukiCrypto` has the arithmetic under them: `salsa_core` on real 32-bit words (pairs of 16-bit
halves, since TLC's integers are 32 bits and signed) and the CRC bit by bit, its register the
set of the bits that are one. `NukiPoly1305` is Poly1305 on real 8-bit limbs. **`NukiMessages`**
is the life of one piece of data: built or sealed, perhaps damaged or changed
on its way, and taken apart; or given to the Salsa20 core or to Poly1305. The lock's reports
have a life beyond that: `Capture` parses one and keeps it in `cache` unless parsing fails, as the
poller and a lock action do; `Answer` is `handle_state`, which answers from what is kept, at
any later time; `Restart` loses it. The history variable `last` is the last whole report,
against which the answer is judged. The inputs of the module
(commands, payloads, errors of the air, reports, nonces, keys) are constants, so that
what holds of it can be proved for all of them. What the arithmetic should give is defined
beside it: polynomial division for the CRC; for Salsa20 the specification's column and row
rounds, which share the code's quarter round (`Mix`), layout (`SalsaInput`) and addition, so
that what they check is the order of the rounds; the documented offsets for the UART.
**`NukiCodec`** chooses the inputs for TLC and adds the three properties that are only
model-checked: two bits changed anywhere in a frame; Poly1305 against whole numbers modulo
2^130 - 5 (scaled); and `KnownAnswers`, the examples of `tests/nuki_crypto`: the result of
`kdf1`, and `e1` of a request from its frame and CRC by way of both uses of the core to the
tag, with Poly1305 at its 17 limbs. The last covers what a reference shares with the code, and
the bits of the key that Poly1305 clears, which the scaled-down keys do not have.

**`OperationServer`**, **`NukiBridge`**: abstract specifications, without threads, mutex or
radio. The first says what `g_op_lock` promises: one client is served at a time, and one that
finishes hands over to a waiting one. The second adds the cache: what the bridge tells
is a state the lock had, never older than what it told before. `NukiConnection` implements
the first (`ImplementsServer`: a caller is waiting at `waitlock`, idle at `idle`, active
anywhere else), `NukiCache` the second (`ImplementsBridge`: `known` is the cached version, and
the poller that has unlocked and not yet stored is idle).

`*_proofs` hold the theorems. No module extends a component it does not need; the BLE
operation is the seam: `Exchange` in `NukiConnection` stands for `NukiCommand` and
`NukiPairing`, `Operate` in `NukiCache` for all three, `busy` in `NukiUart` for all of it.
The two refinements tie the seam from both sides: the connection and the cache model show
the same one-at-a-time server to their callers.

## 3. Runs

| Run | Checks | Instance |
|---|---|---|
| `conn_threads` | `TypeOK`, `RefsBalanced`, `SlotAccounting`, `SuccessIsReal`, `NoNullDisconnect`, `PairingStoresTheLock`, `ResultNotClobbered` | uart1, poller and the preemptible shell; uart1 and shell pair |
| `conn_returns` | `OperationReturns`, `ImplementsServer` | uart1 and the preemptible shell, with fairness; the shell pairs |
| `uart` | `PayloadWriteInBounds`, `FramingTransparent`, `ResyncBounded`, `EveryFrameAccounted`, `PoliteSenderNeverDropped` | payload 2, queue 2 |
| `command` | `RxBufferInBounds`, `TransportAssertions`, `NoLostWakeup`, `OneWriteInFlight`, `SuccessMeansCompleted`, `CommandReturns` | buffer 4, header 2, ciphertext 2, drain limit 2, preemptible |
| `cache` | `RetryBurstBounded`, `AnswerIsPushedState`, `CacheNeverGoesBackwards`, `PollerKeepsPolling`, `ImplementsBridge` | 3 retries, 3 versions |
| `pairing` | `CredentialsAgree`, `ReportedPairingSurvives`, `RecvWithinBuffers`, `PairReturns`, `AnswersNotDiscarded` | 2 handshakes, 2 faults, preemptible |
| `codec` | `FramesParseBack`, `BurstsRejected`, `DamagedFramesRejected`, `CrcIsRemainder`, `BoxOpensOnlyIntact`, `KeystreamOnce`, `CoreIsSalsa20`, `PolyIsArithmetic`, `KnownAnswers`, `StateReachesLoxone` | chosen inputs, scaled sizes |

Bounds, and why they are enough. `conn_threads` has the three callers of the firmware, with the
priorities they are created with, and no further bound: the model is finite. `SuccessIsReal`,
`NoNullDisconnect`, `PairingStoresTheLock` and `ResultNotClobbered` are about the cooperative
callers, with the shell there to start, abandon and be preempted in operations of its own.
`conn_returns` checks liveness and a refinement, for which three callers are too many states:
it has two, one of either kind, and only the shell pairs there. What a waiting caller is
promised is that the present operation ends. With three callers the model itself would allow
more: the mutex goes to the waiting thread of the highest priority, and uart1 and the
poller could hand it to each other for ever while the shell waits. In the firmware the poller
sleeps between polls, which this module leaves out, so `OperationReturns` is not claimed for
three callers here. `MAX_PAYLOAD` = 2 has an empty, a partial and
a full payload and still fits CALIBRATE's two-byte PIN; the noise bytes are a valid
length, a bogus length, zero and the start byte. `RX_BUF` = `HDR + MAX_CT` is the tightest
buffer the assumption allows, so the full buffer and the cut-off indication occur;
message numbers modulo 2 distinguish neighbours, which is all that can share a buffer.
`DRAIN_MAX` = 2 has a first and a last iteration. `MAX_VER` = 3 gives an old, a current
and a newer state. `MAX_SESSIONS` = 2 gives a pairing on top of an earlier one; `MAX_FAULTS`
= 2 a stale frame together with a changed one; the frame lengths keep the order of the
real ones (status 2 < key 3 < authorisation id 4 < local buffer 5 < transport buffer 6, in
the code 5 < 36 < 88 < 160 < 256). In `codec`, `LIMBS` = 3 makes Poly1305 a computation modulo
2^18 - 5 with the same carries and the same last subtraction; messages are chosen so that
the sum is just below, at and above the modulus. `BLOCK`, `PAD` and `MAX_MSG` count units of
16 bytes (4, 2 and 16), so every message length up to the limit and one beyond it occurs,
at and beside each block border; the counter has 3 digits of base 2, so a carry runs through all
of them. Frames get every error of one or two bits, every solid burst of 3 to 16 and some with
gaps. The CRC is sent low byte first, against the order in which it divides, so what changes
within 16 bits across the border of body and CRC is not always noticed; `Burst` therefore asks
that all changes are on one side of it. Reports have each field at its ends, one field at a time, and
come in every length at which the parser decides; a cached one may be followed by any
other. The theorems lift the bounds for the properties they
cover.

Fairness. Each caller step is weakly fair: every wait in the code has a time-out, except
the mutex, which is handed over directly. Timers fire, a begun callback ends and a due
`disconnected()` is delivered. Nothing forces an advertisement, a connection or an
answer of the lock. `CommandReturns` and `PairReturns` need the caller's own steps only. In `NukiCache`
the three threads are strongly fair, since a thread that is ready gets the processor
whenever the others are blocked on the radio, which every operation is for most of its
time; requests and changes at the lock are not fair.

### What the code does differently from what it says

Five runs expect a violation. Each states a sentence of the repository as a property and
TLC shows an execution that breaks it.

- `conn_released` / `LinkReleasedAfterOperation`: if discovery cannot be started, or the USDIO
  characteristic or its subscription fails, `connect_to_lock()` returns an error and
  nobody disconnects. The link stays up after the operation (`nuki_app.c:24-25`,
  `README.rst:41-42`: connected only for the duration of one operation).
- `conn_late_disconnect` / `LateDisconnectKeepsNewAttempt`: a `disconnected()` that comes after
  its operation has returned (a discovery that could not be started, the shortest trace, or
  a wait that timed out) ends the attempt that is scanning by then; the guard in
  `finish_connect_attempt` (comment at `nuki_app.c:244-247`) cannot tell attempts apart.
- `conn_pair_address` / `PairedAddressIsTheLocks`: what `PairingStoresTheLock`
  says of uart1 fails for the shell: `g_conn` may be NULL at `nuki_app.c:667`.
- `command_reset` / `ResetDiscardsNothing`: reading a message discards what has arrived of the
  next one (`nuki_transport.h:50-52` speaks of not discarding bytes; line 71 does say that
  reset clears the accumulator). With a status ACCEPTED and COMPLETE arriving before
  the first is read, the command times out although the lock did what it was asked.
- `cache_answer` / `SuccessCarriesState`: LOCK can be answered `rc = 0` with all-zero state
  (`LOXONE_UART_PROTOCOL.md:183-187`).

Seen on the way, in no run: stated for all callers, `NoNullDisconnect` and `SuccessIsReal` fail for
the shell. The first by a `disconnected()` between the test and the use of `g_conn`
(`nuki_app.c:541-545`). The second when an earlier scan could not be started, which leaves
`g_connecting` set: a callback of an abandoned attempt that runs between `k_sem_reset` and
`g_connect_err = 0` (lines 508-509) gives the semaphore, its error is overwritten with 0, and
`connect_to_lock()` returns success without a connection. In both the shell thread has
to be preempted between two adjacent statements.

Also seen, not checked: `README.rst:50-52` says `nuki state` answers from the cache,
`nuki_shell.c:54` reads the lock; `nuki_command.c:167` says the first KeyturnerStates update
is captured, the loop keeps the last; `nuki_storage_save_pairing` updates RAM even if the
write to flash fails; `nuki_pairing.h:16` lists `-ETIMEDOUT`, `-EBADMSG` and `-EIO` as
errors of the handshake, an answer that does not come gives `-EAGAIN`; the Loxone document
gives door sensor 0 to a lock without sensor, a message without the field gives 255; its
example of 87 percent battery cannot occur, the value is always even; the comment at
`nuki_protocol.h:82-84` counts a nonce in AuthorizationData that `nuki_pairing.c` does not send.

## 4. Proofs

`SealedOpens`, `CrcDivides` and `CoreComputesSalsa20` are about operators. All other theorems
are of the form `Spec => []P`, `Spec => [][A]_vars` or, for the two refinements,
`Spec => Abstract!Spec`, for every value of the constants that satisfies the module's named
assumptions. Every safety property of the passing runs is proved, except the three of `codec`
named at the end of this section.

- `NukiConnection_proofs`: `TypeCorrect`, `ReferencesBalance`, `SlotAgrees`. The invariant
  `ConnInv` is the types together with `RefsBalanced` and `SlotAccounting`. Neither of the two is
  inductive alone: `disconnected()` gives back one reference per ready transport, which
  balances only if `g_conn` is set whenever the link is closing; and `g_conn` is set
  together with the link only because `bt_conn_le_create` needs a slot without references.
  The callers' steps leave the slot alone, so the proof is about the callbacks.
- `NukiConnection_proofs`, what scheduling guarantees. The proofs rest on one lemma: while a
  cooperative caller is between two blocking calls no callback runs, so the only
  step that can touch the connection is the loss of the link, which leaves `g_conn` set until
  `disconnected()` has run.
  None of the four theorems assumes anything about who takes part: they are about the cooperative
  callers, whatever preemptible ones there are beside them.
  - `CoopDisconnectsLiveLink`, `CoopPairingStoresTheLock`: `LivePointer` says that a cooperative
    caller that has tested `g_conn`, or that comes out of a finished handshake, still has it
    when it uses it. uart1 pairs (`nuki_uart_proto.c:181-186`) and is covered; the shell
    pairs and is not, as `conn_pair_address` shows.
  - `CoopSuccess`: `FreshResult` says that the semaphore stays empty from
    `k_sem_reset` to the start of the scan, and that a result "connected" found later comes from
    this attempt's `usdio_discovered`. It needs `OwnerInv` (below): only the owner
    of the mutex can have begun an attempt.
  - `CoopResultStands`: the invariant `ResultEndsAttempt` says that a result not yet taken by
    a cooperative caller belongs to an attempt that is over, so the guard in
    `finish_connect_attempt` keeps later callbacks out. For the shell it does not hold: it can
    be preempted while it sets up its attempt.
- `NukiUart_proofs`: `PayloadStaysInBounds`, `FramingIsTransparent`, `FramesAreAccounted`,
  `PoliteSenderKeepsFrames`, `ResyncIsBounded`. `RxInv` bounds the payload index and says that the frame
  being sent is well formed; `SyncInv` adds that the receiver is where the sender is;
  `AccountInv` adds that a sender within the limit has a free place left for the frame
  it is sending. `ResyncInv` adds up clean bytes: while the receiver is out of step, those that
  have gone by and those it will still swallow are at most `MAX_PAYLOAD + 2`, and once it
  looks for a start byte again, those gone by and those left of the frame on the
  wire at most `2 * MAX_PAYLOAD + 4`; one more and it is in step.
- `NukiCommand_proofs`: `ReassemblyInBounds`, `AssertionsHold` (from `BufferInv`, which adds
  that no wait asks for less than a header; it needs `HDR + MAX_CT <= RX_BUF`, in the code
  30 + 216 <= 256), `WakeupNotLost`, `WritesDoNotOverlap` (`WriteInv`: a returned write is no
  longer in flight), `SuccessIsCompletion` (`CompleteInv`: a COMPLETE unit anywhere, in the
  buffer, in the copy or on the way, means the lock has completed).
- `NukiCache_proofs`: `CacheMovesForward` (`CacheInv`: mutual exclusion, and a state held by
  a thread that has yet to store it is not older than the cache; it assumes the poller is
  cooperative and is false otherwise, as the mutant shows), `RetriesAreBounded`,
  `AnswersCarryThePushedState` (poller and uart1 cooperative).
- The refinements. `OneOperationAtATime` (`NukiConnection_proofs`): `OwnerInv` says that the
  holder of `g_op_lock` is exactly the caller that is neither idle nor waiting; from it each
  step that enters or leaves these phases is an `Ask`, `Finish` or `HandOver`, all others
  stutter. `CacheImplementsBridge` (`NukiCache_proofs`): `BridgeInv` is `CacheInv` and the
  corresponding fact about the owner and the wait queue; a store into the cache is a `Learn`,
  a change of the lock a `Move`. It assumes the poller cooperative, because otherwise its
  store is not a `Learn`.
- `NukiPairing_proofs`: `PairingSurvives` (`StoredInv`: nothing later than the present handshake
  is stored anywhere, and a result OK on its way to the caller is already in flash),
  `RecvStaysWithinBuffers` (`BufInv`: the buffer holds what the wait asked for, since only
  the caller shrinks it), `CredentialsAlwaysAgree`. The last is the deepest: `PairInv` is
  `BufInv` with `AirInv` (every COMPLETE the lock has said in this handshake, in its output,
  in the buffer or in the caller's copy, means that it has confirmed exactly the authorisation
  the bridge is about to store; and the authenticator of an AUTH_ID covers the lock's own
  uuid), `HandInv` (what bridge and lock know of each other at each step: the app id, and the
  confirmation on its way to the lock) and `SavedInv` (what is between `SaveRam` and flash is
  confirmed). The lock accepts a confirmation only under its own key, and equal
  authenticators have equal keys and fields, so the credentials agree on both sides.

- `NukiPairing_proofs`, `NoAnswerDiscarded`: `ExchangeInv` says that a lock without faults is
  never ahead of the caller: either it has said nothing since the request, or what has arrived
  and what is still to come make up exactly one answer to the present request, all of which
  has arrived when the caller copies it. Both the order of the ATT write's
  callbacks (`WriteOrder`) and the lengths of the frames take part.
- `NukiSecretbox_proofs`: `SealedOpens`, `d1` undoes `e1` for every message of at most `MAX_MSG`
  units, key and nonce. The heart is the block counter: `Inc` carries through the counter's digits,
  `Value` is the number they stand for, and `CounterCounts` shows that n increments give n as
  long as the digits can hold it. Hence blocks have different counters, which
  `KeystreamIsUsedOnce` needs. The assumption is `PAD + MAX_MSG <= BLOCK * CTR_BASE^CTR_LEN`, in
  the code 32 + 256 bytes against 64 * 256^8. The recursions over digits and blocks are
  functions on numbers, and the inductions are by least counterexample: the
  library's induction theorems take an operator, which the provers cannot instantiate.
- `NukiCrypto_proofs`: `CrcDivides`, `nuki_crc16` of any data is the remainder of dividing it by
  the generator, the first 16 bits inverted. A polynomial over two elements is the set of its
  exponents, so that adding is symmetric difference. Two are congruent if their sum is a multiple of
  the generator (`Congruence`). After i bytes the register is congruent to the i bytes'
  dividend (`RegisterIsRemainder`), and so is the rest of the long division. Both are below x^16,
  and a multiple of the generator other than zero spans more than 16 exponents
  (`MultiplesAreWide`): the two are equal. The same fact shows that a change within 16
  consecutive bits changes the checksum (`BurstChangesChecksum`). The bits of a number and the
  number of a set of bits are shown to be each other's inverse (`BitsOfNumber`, `NumberOfBits`).
- `NukiCrypto_proofs`: `CoreComputesSalsa20`. The code mixes columns only and transposes as it
  stores; `DoubleRound` shows word by word that two of its rounds are one column round and one
  row round of the specification (of `Mix` it needs only the type), and `RoundsAreDouble`
  carries this through the ten double rounds. For HSalsa20 the code adds the input and subtracts
  it again: `SubUndoesAdd` shows that the 32-bit subtraction takes back the addition.
- `NukiMessages_proofs`: `FramesComeBack` (any payload, any size of the buffer),
  `CrcAlwaysRemainder` (the last two bytes of a frame, read as the parser reads them, are that
  remainder), `BurstsAreRejected` (any frame, any length; `FrameInv` records which bits were
  damaged, a frame is accepted only if its checksum fits, and a burst changes either the
  checksum of the body or the one that was sent), `CoreAlwaysSalsa20`, `StateArrives` (any
  sequence of reports of 0 to 20 bytes, requests and restarts, any age below 2^31 seconds;
  both time fields are decoded and encoded byte by byte. `StateInv` says that the cache holds
  the last whole report, or nothing if there was none), `OnlyIntactOpens` and
  `KeystreamIsUsedOnce`. `FrameInv`, `CoreInv`, `StateInv` and `BoxInv` say that what is on the wire
  is what the builder made of some input and what came out is what the parser made of that, so each
  theorem reduces to facts about the operators: division and remainder for the little-endian
  fields, symmetric difference and the counter for the box. `KeystreamOnce` also compares with
  the keystream of earlier messages: `BoxInv` says a nonce is not among those used.

Only model-checked. The liveness properties `OperationReturns`, `CommandReturns`,
`PollerKeepsPolling` and `PairReturns` are out of the proof system's reach.
`DamagedFramesRejected`: that one changed bit is noticed is a case of `BurstsAreRejected`, but
two changed bits far apart are noticed only because x has the order 32767 modulo the generator;
for frames of unbounded length it is false, and for bounded ones it is a computation that
TLC does and the provers do not. `KnownAnswers` is a computation altogether. `PolyIsArithmetic`: Poly1305 multiplies and carries limb by
limb; the value of sums of products is nonlinear arithmetic, for which the provers have no
method. The theorems about boxes do not depend on it: their MAC is ideal.

## 5. Not modelled, and the plan

Not modelled, and why: key generation, X25519 and HMAC (calls of the PSA library, seen only
as equal or different values and as failures); printing, logging and the names of states;
the advertising-data parser beyond its verdict; the clock behind the age of the cached
state (the age itself is a field in `codec`); shell argument parsing;
`nuki_storage_clear_pairing`, which nothing calls; stack overflow; build and board files, which
enter only as assumptions (one connection, thread priorities). Poly1305 is an ideal MAC
in `BoxOpensOnlyIntact`: that no forged tag fits is the cipher's business, not the code's.

Order in which the modules were written: connection (the heart of the program, everything
waits on it), transport and commands, UART protocol, cache; pairing and storage; frames
and cryptography; the abstract specifications and their refinements; then the proofs of the
safety properties, in the same order. What could still be added: a proof
that Poly1305's carries preserve the value modulo 2^130 - 5; liveness with all three callers,
which needs the poller's sleep in `NukiConnection`; and a theorem that states which callbacks of
an earlier attempt can still reach a later one, the fact behind `conn_late_disconnect`.
