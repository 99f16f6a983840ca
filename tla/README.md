# Verification of tinydtls

TLA+ models of tinydtls, TLC configurations that check them on small instances, and proofs,
checked by TLAPS, of the record layer, the peer table, the send queue and the handshake: its
handlers over a network that loses, repeats and reorders implement an abstract specification
that keeps the two sides in agreement, for any callbacks, calls and bounds.

## 1. The system

tinydtls is a single-threaded C library for DTLS 1.2.  An application owns a
`dtls_context_t`, feeds it every datagram (`dtls_handle_message`), calls it when a timer may
have expired (`dtls_check_retransmit`) and on its own behalf (`dtls_connect`, `dtls_write`,
`dtls_renegotiate`, `dtls_close`), and is called back to write a datagram, to deliver data,
to report an event and to look up keys.  No call waits for anything: every handler runs to
its end.  The difficulty is in the order in which handlers run, in callbacks that call back
into the library, and in arithmetic whose rare cases no test meets.

| Component | State | Operations | Correct when |
|---|---|---|---|
| Peer parameters (`peer.h`, `crypto.c`) | two slots of security parameters | lookup by epoch, next, free the other, switch | what is looked up or installed exists and is of the right handshake |
| Record layer (`dtls_prepare_record`, `decrypt_verify`, `dtls_send_multi`) | epoch, record sequence number and key in each slot | send, send again, open | no nonce is used twice, protection never falls back, a record opens at the other side only |
| Handshake (`handle_handshake`, `handle_handshake_msg`, `handle_ccs`, `check_*`, `dtls_send_*`) | state, role, message counters, reorder buffer, randoms, hash, cipher | one handler per message | both sides complete the same handshake or none; nothing is skipped, doubled or left behind |
| Cookie exchange (`dtls_verify_peer`, `dtls_create_cookie`, `dtls_get_cookie`) | none on the server | HelloVerifyRequest | a peer is created for a valid cookie only |
| Alerts and teardown (`handle_alert`, `dtls_close`, `dtls_destroy_peer`, `dtls_alert_send_from_err`) | CLOSING and CLOSED | close, error, destroy | a closing peer is not revived; nothing refers to a freed peer |
| Send queue (`netq.c`, `dtls_retransmit`, `dtls_check_retransmit`, `dtls_stop_retransmission`, `dtls_retransmit_process`) | nodes with due time and count, one queue (and one etimer) for all peers | insert, stop, serve | backoff is kept, flights keep their order, retransmission ends |
| Context (`dtls_new_context`, `dtls_free_context`, peer table, memory pools) | peers, handshake parameters, nodes, the handler that is running | create, find, add, unlink, free | no object has two owners; a handler's peer is alive when a callback returns |
| Message encoding (`dtls_send_*`, `check_*`, `dtls_check_tls_extension`, ASN.1) | none | one writer and one reader per message | what one side writes the other reads, for all builds and callbacks |
| Primitives (`ccm.c`, `hmac.c`, `crypto.c`, `aes/`, `sha2/`, `ecc/`) | contexts of hashes | | they compute what the standards say |
| MA suites (`ma/ma.c`, `ma/mini-gmp.c`) | keys | key generation, encryption, big numbers | decryption recovers the message; numbers are exact |
| Examples, tests, logging, time, `session.c`, vendored containers, `x_ma/` | | | not modelled, see 6 |

How they interact.  A datagram goes through `decrypt_verify` (record layer, which may free
the other parameters), then to the CCS, alert, handshake or data case.  A handshake handler
stops the retransmission of its peer, changes the state, and sends the next flight; each of
its messages and each ChangeCipherSpec is copied to the send queue with the epoch of the
moment.  The timer finds the parameters again by that epoch and seals the copy under a NEW
sequence number.  ChangeCipherSpec has no sequence number of its own and is not part of the
handshake hash.  Errors come back as negative codes and are turned into an alert and the
state CLOSING in one place.  `handle_alert` and the data case call the application while the
loop over the records of the datagram keeps its pointer to the peer.

What is hard to test: reordering across ChangeCipherSpec, where the message counters do
not help; records of an earlier association or handshake arriving in a later one;
retransmission of records whose parameters have moved or gone; nodes in the queue whose peer
has gone; several peers in one queue; renegotiation, which runs the same code from other
initial states; a callback, an allocation or a write that fails or calls back halfway;
numbers at the ends of their range.  `PROJECT.json` lists each of these under `hazards` with
its line.

## 2. Modules

```
DtlsPeer              operators on the parameters of a peer
  RecordLayer           MCRecordLayer, RecordLayerProofs
  Dtls                operators: the handlers
    DtlsAsync           MCDtlsAsync; implements SessionAgreement
                        DtlsProofs < DtlsHandlerProofs < DtlsAsyncProofs < DtlsNumberProofs
    DtlsFifo            MCDtlsFifo
Context                 MCContext, ContextProofs
SendQueue               MCSendQueue, SendQueueProofs
Induction               lemmas for the proofs: numbers and recursive functions

Calls                 a call of a function without state     MCAlgorithms
  Words  Rijndael  Ccm  Records    cipher, CCM, records  \
         Sha2  Keys                hashes, PRF            > Protection
  Hello  Exchange                  messages               > Encoding
  Ma     Ecc                       MA encryption, curve
  Mpn  MpnDiv  Mpz  MpzBits  MpzNumber   big numbers      > MiniGmp
```

### Protocol and state

**DtlsPeer** has no state: `NewSecurityParams`, `ParamsEpoch`, `ParamsNext`,
`ParamsFreeOther` and `ParamsSwitch` are the inline functions of `peer.h` on the pair of
slots.  `NULL` is a slot that was freed.

**RecordLayer** is the sending side of one peer.  `Send` is `dtls_send_multi` with
`dtls_prepare_record`, `Retransmit` is `dtls_retransmit`, `CalculateKeyBlock` and
`ChangeCipherSpec` are what a handshake does to the parameters, `DecryptVerify` what a
received protected record does.  They interleave freely, except that a key block is
switched to before another one is computed, which is what the handshake states see to
(`PendingParams` in DtlsAsync is the other half of that argument).  `sent` and `protected`
are history variables.

**Dtls** holds the handlers, as operators from an endpoint record to an endpoint record: one
operator per C function or per case of the switch in `handle_handshake_msg` (`Dispatch`).  Its
first section gives the sets these records are from (`Endpoints`, `Peers`, `Handshakes`,
`Security`, `Nodes`, `Datagrams`: the structs of `dtls.h`, `peer.h`, `crypto.h` and `netq.h`),
which the type invariants and the proofs use.  `out`, `ev` and `ret` collect, during a handler, what it sent, reported and returned.  Cryptography is by
construction: a key is the tuple of what it is derived from, a hash the sequence of what was
hashed, a protected record opens under its key only.  Reading freed memory is a choice
(`fate`): the old content, another content, or the end of the process.

**DtlsAsync** runs a client and a server over UDP: the network is the set of everything ever
sent, so each record can be delivered never, once, repeatedly and in any order.  Actions:
`Deliver` (`dtls_handle_message`), `TimerResend` and `TimerGiveUp` (`dtls_check_retransmit`
for one node), `CallConnect`, `CallRenegotiate`, `CallWrite`, `CallClose`.  `use` says which
callbacks and calls the two applications have.

**SessionAgreement** is the abstract specification: sides complete sessions (a key and a
transcript), the client only those the server has completed, no key twice, and a side is
active only under the key of the session it has just completed.  `AgreementSpec` says that
DtlsAsync implements it under the mapping `completed` = the handshakes a side ended,
`active` = the sending key of a peer in CONNECTED.

**DtlsFifo** runs the same handlers over channels that keep the order and lose a bounded
number of records of chosen kinds, with the timer, for liveness.

**Context** is one `dtls_context_t` with several remote sides.  Peers, handshake parameters
and queue nodes come from pools, which keep the contents of what is freed; `slot` is the
contents of each peer object, `live` and `params` what is allocated, `table` is `ctx->peers`,
`node` the queue.  What a handshake does inside a peer is abstract (see Dtls), who owns what
is not: every handler has its outcomes with an allocation or a write that fails.  The event
and read callbacks may call `dtls_connect`, `dtls_renegotiate` and `dtls_close`: a handler
that has called one is suspended in `frame`, with its local variables, until
`CallbackReturns` or `AlertReturns`.  A datagram may hold several records: the peer is looked
up once, `Receive` does that and `NoMoreRecords` ends it.  A second ClientHello of an unknown
session in the same datagram therefore makes a second peer of it, and `Found` is any peer of a
session that `dtls_get_peer` may return.  `DtlsRenegotiate` overwrites the pointer to parameters
the peer already has, as the code does, and `KeyExchangeWithoutSuite` is the ServerKeyExchange
that is taken in every state while no cipher suite is chosen.

**SendQueue** is the send queue with its times, for several peers.  Times are relative, in
units of CLOCK_SECOND; `Interval` is how long a node waits by its count.  `Insert` is
`netq_insert_node`, `Flight` the messages of a flight queued one by one, `Again` the copy that
`dtls_retransmit` inserts, and `Turn` one turn of the loop of `dtls_check_retransmit`; loops
are recursive functions.  `HandshakeMsg` is what a handler does to the queue (stop, then
queue a flight), `Renegotiate` a call that queues without stopping, `Check` the loop of
`dtls_check_retransmit`, `RetransmitProcess` one event of the Contiki process, which sends at
most one node and sets the one etimer that every queued message sets as well, `Tick` the
clock.  `idle`, the time since a node was last sent, and `num`, its number, are history.

### Functions without state

**Calls** makes a behaviour of one call: it is given its first and its second input and
returns; a property says what it must have returned (`Returns(layer) => ...`).

**Words**, **Rijndael**, **Ccm**, **Sha2**, **Keys**, **Records** are `aes/rijndael.c` (the
tables by the field arithmetic they are the result of, both key schedules, both directions),
`ccm.c`, `sha2/sha2.c` (three hashes that are one algorithm with a record of sizes), `hmac.c`
with `dtls_p_hash`, `dtls_prf` and the pre-master secret of `crypto.c`, and the bytes of
`dtls_prepare_record` and `decrypt_verify`.  **Protection** compares each with the standard
it implements, written down separately.

**Hello** and **Exchange** are the writers and readers of the handshake messages, with the
choice of the cipher suite, the checks of extensions, the cookie, and signatures as ASN.1;
**Encoding** runs each writer into its reader.

**Mpn**, **MpnDiv**, **Mpz**, **MpzBits** and **MpzNumber** are `ma/mini-gmp.c`: limbs are
digits to a base that is a parameter, loops are folds or recursion.  **MiniGmp** compares every
function with TLA+'s integers.  **Ma** is key generation, encryption and decryption of
`ma/ma.c`, on integers; every random byte is an argument.  **Ecc** is `ecc/ecc.c` and the
calls `crypto.c` makes to it: the reduction modulo the prime by sums of words, Barrett's
reduction modulo the order, inverses, points, multiplication, signing and verifying.

Operators whose comment begins with "Mutant" are plausible mistakes in the definition
that follows them.  No specification uses them; each property has been checked to fail when
the definition is replaced by its mutant.

## 3. Runs

| Run | Question | Result |
|---|---|---|
| `record_layer` | Can a nonce repeat, the sending parameters vanish, the epoch or the protection go back? | no |
| `handshakes` | One association with each of six pairs of callbacks (PSK with hint; server certificate; both certificates; client without the certificate it is asked for; no common suite; two suites offered), with timers, writes and closes at any time; a client that closes and connects again; sides that renegotiate; a client that closes in the middle of that with a server that sends a ServerKeyExchange; records of the earlier handshakes still arrive. Do both sides agree, are transcripts complete, the reorder buffer drained, queue and pending parameters consistent with the state, data protected, and does a closing peer stay so? | yes |
| `context` | With callbacks in the middle of a handler, failing allocations and writes and any records in a datagram: is any object used after it was freed or freed twice? In which ways does a session get a second peer, do parameters get lost, does a queued node lose its peer? | none is; in one way each |
| `send_queue` | One or two peers, a queue polled in time, polled late, or served by the Contiki process: is it sorted, do flights keep their order, is the backoff kept and the wait bounded, does it end? | yes |
| `fifo_early` | Losses in the hello exchanges and the server's first flight: do both sides get connected? | yes |
| `algorithms` | Do the functions without state compute what they should, at the edges of their inputs? | yes |
| `connected_event` | `alert.h`: CONNECTED means that a handshake has finished | violated |
| `second_hello` | `dtls.h`, `handle_0_client_hello`: a session has one peer or none | violated |
| `params_replaced` | `dtls.h`: what was allocated for a context can be released | violated |
| `renegotiation_queue` | `netq.c`: `assert(queue)` | violated |
| `send_queue_order` | `netq.h`: nodes are ordered by time | violated |
| `fifo_final` | A handshake ends although a record of the server's last flight is lost (comment in `handle_handshake_msg`) | violated |

The violated ones are disagreements between the code and its own documentation; `PROJECT.json`
quotes both under `findings`. In short: the event is reported for any handshake record accepted
in CONNECTED; the peer is looked up once per datagram, so that a second ClientHello in it
creates a second peer; `dtls_renegotiate` tests for CONNECTED only and overwrites the
parameters of a handshake already asked for, and it lacks the `LIST_STRUCT_INIT` its siblings
have; `netq_insert_node` inserts behind the node its search stopped at even when that one is
later (a second peer's flight is then also sent in reverse order, and Finished before
ChangeCipherSpec is fatal to the receiver); and the server stops repeating its last flight at
once and ignores the client's repetition.

The action properties of `context` are the other half of two of these: `SecondPeers` and
`ParamsReplaced` say that a session gets a second peer, and parameters are lost, in no other
way, callbacks in the middle of a handler and failures included.  `NodesOrphaned` says of
a queued node that its peer is freed only while a record of that peer is handled before it is
connected.  In the code this is a record that does not open: `dtls_stop_retransmission` is
commented out there (dtls.c:3825).  Alerts with their callbacks, records of connected and
closing peers, and calls leave no such node.

### What the run of the algorithms leaves open

The properties of `algorithms` say what is right of the functions without state.  The
definitions follow the code where it departs from its own comments as well, but no property
asserts the departure:

* `RecordsOpen`: `dtls_prepare_record` checks the room for a record without the eight bytes
  of the tag (dtls.c:1277, 1852-1854; crypto.h:259-261 asks for enough).  The property demands
  that a buffer too short for the record without its tag is refused, and says nothing of one
  that is too short only for the tag.
* `KeysExpand`: a shared key of more than 18 bytes makes a pre-master secret longer than the
  40 bytes of the key block that has to hold it, although keys of up to 32 are accepted
  (crypto.h:51-55, 90); such a handshake ends with INTERNAL_ERROR.  When the second context of
  `dtls_p_hash` cannot be had, it returns a length although nothing was written
  (crypto.c:209; crypto.h:202-203).  The property has keys with the buffer they need, and no
  context at all.
* `CurveExact`: `fieldModP` loses the second of two borrows or carries (ecc.c:180-252).
  `Summed(x).lost` says when, the result is then the code's wrong one, and a point remembers
  that a loss went into it; the property compares with exact arithmetic where none did.  With
  32-bit words the product 2^224 * (0xffffffff * (2^128 + 2^64)) is such a case and one random
  product in about 2^64 is; with the run's words of one bit, half a percent are.
  `fieldModO` returns the order itself for the order, and looks at a ninth word that a caller
  with eight has not written (ecc.c:255-277): the property has smaller numbers of eight words
  and products.  `ecc_ecdsa_validate` compares the x of the point with r without reducing it
  (ecc.c:576-592), so signatures whose nonce point has an x above the order are left out.
* `SignaturesReadBack` names the signatures for which a message does not read back.
  `KeysReadBack` claims nothing of bytes behind an ephemeral key (dtls.c:1085 tests for too
  few) and of the length of a certificate message, which is not looked at (dtls.c:2714-2764).
* `MaRecovers` changes one element of the private key at a time; other wrong keys are not tried.

### Bounds

* `record_layer`: 3 handshakes, 3 records per parameters.  Two handshakes are needed for a
  key to be replaced by a key; the third lets old parameters be freed while a new key block
  is pending.  The proofs need no bound.
* `handshakes`: the `Uses` are six variants, a restart, renegotiation and its ending by a
  close.  Peer objects per side are 1, 2 for a restart; `MaxRandoms` random values per side are
  2 (a server that answers an old ClientHello, a second handshake, or the ECDH point of the
  first); `MaxQueued` nodes may wait when the application renegotiates (it may call again and
  again).  A duplicate adds nothing to a set of records, so the network needs no bound.  When
  the client restarts nobody retransmits: a repeated record is the same element of the network,
  and leaving timers out leaves only stale nodes behind.  The fate "stale" of freed memory, its
  old content, is left out: a node that is sent from a freed peer goes out in the clear, which
  breaks `Protected`; `NodesOrphaned` says where such nodes come from.  The proofs name the
  fate as a hypothesis where they need it, and hold with it otherwise.
* `context`: 2 sessions, 3 peers, 2 handshake objects, 2 nodes: the pool of each kind can run
  out, a session's new peer can exist beside an old one that is being freed, a session can get
  a second peer while another session has one, and lost parameters leave one object to go on
  with.  The proofs need no bound.
* `send_queue`: 2 retransmissions instead of 7 (first, middle and last interval), flights
  of up to 3 messages, 3 flights, 3 nodes.  `send_queue_order`: 4 nodes, 2 peers.
* `fifo_*`: up to 3 losses, 2 retransmissions, so that giving up happens too.
* `algorithms`: limbs of 4 bits and numbers of up to 4 limbs made of 0, 1, 8 and 15, the ends
  and the middle of the range; texts, data and hashed messages with lengths around one and
  two blocks; keys for HMAC around the block size of a small hash; the constants of SHA-2 and
  the hash under the HMAC are arbitrary; signatures whose words make the ASN.1 integer shorter
  or longer; all sets of callbacks and both builds.  The MA encryption has 2 and 3 elements
  and q of 20 bits, with draws at the ends of the ranges.  The curve has words of one bit: the
  prime of the same form, b^8 - b^7 + b^6 + b^3 - 1, is 199, a curve of order 193 exists, and
  points at infinity, equal points, carries and an x above the order all happen.

Deadlock checking is off in the runs of DtlsAsync, DtlsFifo, SendQueue and the algorithms: both
processes may have ended, a handshake may be over with nothing to send, the queue may be
empty with no further flight, a call has returned.

### Fairness

Safety runs assume none.  `SendQueue!Spec` assumes that time passes and that the application
keeps calling `dtls_check_retransmit`, or that the scheduler of Contiki runs the process when
its timer expires.  `DtlsFifo!Spec` assumes that each side's loop keeps
turning: a datagram that has arrived is handled, and when nothing is in flight and the queue
is not empty the timer is served.  This is what `dtls.h` asks of the application and what
`dtls_retransmit_process` does under Contiki.  **The programs in `tests/` never call
`dtls_check_retransmit`**, so nothing of this holds for them: they never retransmit.  The
loop's fairness is stated on the parity `turn` that every step of a loop, and no other
step, flips.  Nothing is assumed of the network: losses are bounded by the
specification, and the property excuses more losses than retransmissions.

## 4. Proofs

`RecordLayerProofs` proves for every bound and for both initial sequence numbers:

* `Invariance`: `Spec => []IInv`;
* `NonceUniqueness`, `CurrentParamsExist`: the two invariants of the run;
* `EpochAdvance`, `Protection`: its two action properties.

Assumed are the named assumptions of RecordLayer: the bounds are natural numbers, `NULL` is
neither a number nor a set of parameters, the first sequence number is 0 or 1.  `NonceUnique`
is not inductive.  `IInv` adds that every nonce used under a key is below the counter of
the slot that holds this key (`NonceInv`); this survives a switch and a new key block only
because a key is in one slot at most and keys are fresh (`KeyInv`), and it survives
retransmission through a lookup by epoch only because the lookup returns a slot and uses
that slot's counter.  `SlotInv` says when the second slot is pending and of which epoch, and
so why `ParamsFreeOther` never frees what a switch will install.  The proof has a lemma for
each operation on the slots, a step for each action, and under it a step for each conjunct
the action can disturb.

`ContextProofs` proves the seven properties of the run `context`, four invariants and three
action properties, for any number of sessions, peers, parameters and nodes, finite or not:
`PeerOwnership`, `ParamsOwnership`, `ParamsPresent`, `NoUseAfterFree`, `OnlyHellosRepeat`,
`OnlyCallsLoseParams`, `OnlyFailuresOrphan`, and `Invariance`, the inductive invariant they
rest on.  Nothing is assumed but that `NULL` and "no longer in a queue" are no objects.  The
invariants with the types, `Inv`, are not inductive, because a suspended handler acts on what
it has looked up before: `FrameInv` says what its local variables still tell of the table.
Between two datagrams there is no peer; the peer of an alert is allocated and no longer in the
table, so nothing a callback does can free it again; and a handler that has found no peer and
has taken no ClientHello adds the first peer of the session.  This last part holds only because
callbacks do not run without a peer, which is what the conjunct `frame.at = "callback" =>
frame.peer # None` is for, and it is all `OnlyHellosRepeat` needs.  There is one lemma for each
conjunct with a step for each action; `AlertSlots` and `FreeOwned` carry two hard cases,
`handle_alert` that goes on after its callback and `dtls_destroy_peer`.  For the parameters,
`NothingLost` says when a step loses none, and `RenegotiateReplaces` that a renegotiation loses
those of its own peer and no others, which rests on `ParamsOwned`: no second peer points to
them.  `NodeAfter` is the same for the nodes: what the handlers stop and queue.

### The handshake

`DtlsProofs`, `DtlsHandlerProofs`, `DtlsAsyncProofs` and `DtlsNumberProofs` are one argument
about DtlsAsync, each module resting on the one before, for every set of callbacks on either side, every set of calls, any number of peers in turn, every
fate of freed memory and every bound.  Assumed are the named assumptions of Dtls and
DtlsAsync: the sets of callbacks and calls are what they should be, the bounds are natural
numbers, and `NULL` is none of the values it stands in for.

| Theorem | Property | Hypothesis |
|---|---|---|
| `Invariant` | `IInv`, the inductive invariant | |
| `EndpointsCorrect` | `TypeOK` | |
| `TranscriptComplete` | `CompleteTranscript` | |
| `DrainsAll` | `DrainComplete` | |
| `QuietWhenConnected` | `ConnectedQuiet` | |
| `ParamsPending` | `PendingParams` | |
| `HandshakeAgrees` | `AgreementSpec`: DtlsAsync implements SessionAgreement | |
| `SessionsAgree` | `Agreed`, `KeysUnique`, `ActiveCompleted` of SessionAgreement | |
| `ApplicationsAgree` | the same three of DtlsAsync | |
| `RecordsProtected` | `Protected` | freed memory does not keep its old content |
| `ClosedStaysClosed` | `ClosingStays` | the server sends no ServerKeyExchange |
| `ClosingLasts` | `ClosingStays` | neither application renegotiates |
| `RetransmissionsHaveParams` | `NodesHaveParams` | (the property is about applications that do not renegotiate) |

*The handlers.*  A handler is a composition of parts, and each part has a contract.  `Good(s,
o, x)` is what is true of the endpoint `x` of side `s` at any moment of a handler, `o` being
the other side; `Stays` is the contract of a part of a handler (sending, hashing, computing
keys), `Handled` that of the handler of one message, `Outcome` that of `handle_handshake_msg`
and the loop over the reorder buffer, `Result` that of `dtls_handle_message`, the timer and
the calls.  Each says that the endpoint is good again and that the handler has either
completed no session and made the side active under no new key (`Kept`) or completed one as
SessionAgreement allows (`Completes`).  `Stepped` is what a step of DtlsAsync is; from it
follow that `IInv` is inductive, the two action properties and the refinement.

*The invariant.*  None of the properties is inductive.  What `Good` adds, and why:

* `Covered`: what the server has hashed, by its state.  It is what turns "the states of
  `handle_handshake_msg` follow one another" into `CompleteTranscript`.  Nothing of the kind
  is said of the client's hash: by `Says`, a Finished of the server is on the network only
  with the transcript of a session the server has completed, and the client completes only
  what a Finished that verifies names.  So what the client has completed is among what the
  server has (`x.done \subseteq o.done`), and the transcript is complete because the server's is.
* `Fresh`: the random of a handshake in progress is larger than those of all completed
  sessions of the side.  It makes the key of a completed session new, whatever old message
  the other side has taken.  A server that has asked for a renegotiation
  holds handshake parameters whose random is not drawn yet, so this is said of it only while it
  is in a handshake.
* `Pending`: where the slot to be switched to exists and of which handshake it is
  (`PendingParams`), together with what the key is derived from, which says that it holds
  this side's random.
* `Posted` and `Buffered`: what waits to be sent again, what is written and what is in the
  reorder buffer are messages the side in question can have sent; the same is said of the
  network.  A message of any earlier handshake may therefore arrive in any state, and the
  handlers are shown to cope with it.
* `Drained` and `Quiet` are `DrainComplete` and `ConnectedQuiet` for one endpoint; they hold
  between handlers, and are inductive with the rest.  For `Drained` the loop is
  followed turn by turn: it takes a message whenever one is next, and there are no more turns
  than messages, because the buffer holds one for each number.

*Protection.*  `GInv` adds `Guarded`: a Finished that waits to be sent again belongs to the
epoch and the key of the current parameters, so that `dtls_retransmit` finds them.  It holds
because retransmission is stopped (`Clear`) before the parameters can change.  A
node of a freed peer is not covered, since nothing removes it; with the old content still
there it is sent in the clear, and TLC finds that `Protected` fails for a client that
connects again when that fate is allowed.  This is why the theorem has its hypothesis.

*What it means for the applications.*  In every behaviour of the abstract specification the
client has completed only what the server has (`Agreed`), no key belongs to two sessions of a
side (`KeysUnique`), and a side is active only under the key of a session it has completed
(`ActiveCompleted`); the three are inductive together (`SessionsAgree`).  Since DtlsAsync
implements that specification, its applications get them (`ApplicationsAgree`).

*Numbers.*  Two properties rest on the numbers of messages, of which `IInv` says nothing.
`NodesHaveParams`: a protected message that arrives at a client frees, in `dtls_security_params_free_other`,
the parameters of epoch 0 while nodes of its last flight may still wait under epoch 0.
That does no harm only because such a message is the server's Finished with exactly
the number the client awaits, and so stops retransmission.  `ClosingStays`: as long as no
cipher suite is chosen, `handle_handshake_msg` takes a ServerKeyExchange in every state, CLOSING too, and goes
on to WAIT_SERVERHELLODONE; but such a client waits for number 0 or 1, and a ServerKeyExchange
has a number of at least 2.  `DtlsNumberProofs` proves both where neither
application renegotiates (`Steady`), by the invariant `NInv`, which relates the two sides:

* `Orderly`, said of all the server has written or queued (`Replied`, `ServerFit`) and of what the client
  buffers: a HelloVerifyRequest has number 0, a ServerKeyExchange at least 2, and a Finished
  the number after the ServerHelloDone in the transcript it verifies (`Follows`).  `Replied` adds that a
  protected handshake record is a Finished under the key it verifies.
* `ClientFit`: until the client has switched, its transcript has no ServerHelloDone it would
  not have answered, afterwards `mseq_r` follows the one it has; without a cipher suite
  `mseq_r` is at most 1.  After a switch there are parameters of epochs 0 and 1 and no
  others.
* `Issued` and `Pinned`: a Finished of the client names a transcript that stays that of the client's
  handshake as long as the handshake of that random lasts.  This is what carries the number
  across: the server, whose Finished answers this one, has the same transcript, hence the
  same ServerHelloDone, and counts from it (`ServerPeer`).
* `Holds` and `Plain`: what waits on the client has parameters of its epoch; what waits on the
  server is of epoch 0 and so is what it sends now.  Between the server's Finished and the
  end of the handler the second does not hold (`Lasts`): the queue is emptied when
  `handle_handshake` returns to CONNECTED.

`Adds` says of each part of a handler which records it has written and queued, `Less` that
something only closes, drops or reports; the handlers of the two sides keep `ClientGets` and
`ServerGets`, and a crash excuses both.  With renegotiations `NodesHaveParams` is false (see
section 6), and `ClosingStays` on the client needs the hypothesis of `ClosedStaysClosed`: TLC
finds no violation without it in the run `handshakes`, but the numbers of a
renegotiated handshake, which start again while records of the earlier one are on the way, are
not part of `NInv`.

### The send queue

`SendQueueProofs` proves for any number of peers, nodes, messages, flights and
retransmissions: `QueueTypeCorrect` (`TypeOK`), `QueueFlightOrder`, `QueueLatency` and the action
property `QueueBackoff`.  The inductive invariant `IInv` is `TypeOK` with

* `Numbered` and `Unique`: a node's number is its own;
* `Waited`: the time a node has waited and the time it still has to wait make up its interval
  at least.  A node that is due has therefore waited long enough, which is the backoff;
* `LatencyInv`: `Latency` counts only the time a node has waited, but it may stand
  behind nodes that are due later, since `netq_insert_node` does not sort.  `Bounded` adds
  what each node in front has still to wait, and survives an insertion anywhere behind the head;
  on Contiki the time left on the etimer is counted too;
* `OrderInv`: with one peer and no renegotiation all nodes are of one round or of two that
  follow one another (`Rounds`, `Follows`): those sent just now wait their full interval, behind
  all that are still due; and on Contiki the etimer is that of the head.

The loops are recursive functions on numbers.  **Induction** proves that such a function exists
and is what its equation says (`Recursion`), from induction stated over sets (`SetInduction`):
the two need no operator as a parameter, as the library's own theorems do.  The same
module serves the loops of Dtls.

## 5. Only model-checked

* Liveness under fairness, which is beyond TLAPS: `Drains`, `EventuallyConnected` and, as a
  violation, `HandshakeEnds`.
* `ClosingStays` for a client that renegotiates or is asked to, with a server that may send a
  ServerKeyExchange.  `handshakes` has this case: a renegotiating client closes without a
  cipher suite while a ServerKeyExchange it can decrypt is on the way.
* The properties of the violated runs, which the code does not have.
* The functions without state: recursion over limbs, blocks and bits through several layers,
  written with RECURSIVE operators and checked at the edges of their inputs.

## 6. Not modelled

* Handshakes in detail with several remote sides per context, with failing writes and with
  callbacks that call back: Context has these with an abstract handshake, Dtls has the
  handshake without them.  The product of both is out of TLC's reach.
* Malformed messages.  The readers' length checks are in Hello and Exchange, for messages
  that a writer produces or whose length bytes are wrong; a list of ciphers of an odd length
  is not among them.  A fragmented message is refused by the code.
* Replay: tinydtls keeps no window of received sequence numbers, so the received number is
  not modelled.  The wrap of 16-bit counters and of the 48-bit sequence number.
* `NodesHaveParams` excepts applications that renegotiate, for which it is false: the client's
  epoch-1 parameters are freed while its key exchange still waits under epoch 1, and its
  repetition goes out unprotected.
* Behaviour that the documents speak of and that no run decides.  `dtls_free_context` frees
  peers and the context but not the nodes of its queue, against dtls.h:255 ("Releases any
  storage that has been allocated"); Context has this (`FreeContext` moves the nodes to
  `Lost`), a property that excepts the step would only restate it.  `dtls_check_retransmit`
  leaves `*next` unwritten for an empty queue, against dtls.h:317-319 (0 when no packets are
  waiting); what the caller does with it is not modelled.  Data is delivered only after it was
  decrypted and verified, as dtls.h:103-105 says (records open under their key only); that a
  server's read callback runs "once a new DTLS session was established" (550-552) is said of
  servers only, and a client takes data that overtakes the server's Finished.
* Behaviour that no document excludes and that is only listed as a hazard: a client whose
  ClientKeyExchange or ChangeCipherSpec is lost loses the handshake, because its Finished
  then cannot be opened; a server keeps a peer in CLOSING after an error and ignores
  the client's next attempt; giving up is silent;
  `dtls_verify_peer` takes an unreadable cookie for a valid one until the message is parsed
  again.
* Constants: the tables of AES are their formulas and the constants of SHA-2 parameters.
* `ma.c`: the encoding of groups of elements (`DTLS_MA_G` is 0 in the build), printing, and
  the memory management of numbers.  `dtls.c` does not call `ma.c`; only `testma.c` does.
* `x_ma/`, an older copy of `ma/` that no build file names; `session.c`, `dtls_time.c`,
  `debug.c`; `uthash.h` and `utlist.h` (the table is a set, the queue a sequence); the
  platform files, examples and tests.
