# Formal models of rf-gateway

rf-gateway relays packets between a radio interface and clients on UDP and
WebSocket. It is a single C process with one thread per job, no locks, and no
test suite. This directory holds TLA+ modules of its parts, TLC configurations
that model-check them, and proofs checked with TLAPS.

`PROJECT.json` is the machine-readable index: which definition stands for which
lines, which run checks which property, which mutant of the model breaks it,
which hazards the properties are for.

## Inventory of the system

| Part | State | Operations | Works with |
|---|---|---|---|
| `rfgw.c` main | the quit loop | start, read commands, stop | every `*Init`/`*DeInit` |
| `rf.c` transmit | `rf.devices`, `dev->ctr`, `rf.sock` | `rfEnqueuePacket` | called by UDP and WebSocket threads |
| `rf.c` receive | `rxbuf` on its stack | `rfRecvThread` | `rf.devices`, `crypto.c`, `rf.sock` |
| `rf.c` set-up | `rf.run`, `rf.gw` | `rfInit`, `rfOpen`, `rfDeInit`, `rfAddDevice` | main, `config.c` |
| `udp.c` | `udp.run`, `udp.sock` | `udpListener`, init, deinit | calls `rfEnqueuePacket` |
| `ws.c` | `ws.run`, `ws.sock`, a thread per client | accept, handshake, frames, close | calls `rfEnqueuePacket` |
| `config.c` | position in the token list | `configParse` | `rfAddDevice`, `jsmn.h` |
| `crypto.c` | none | AES-128-CBC of sixteen bytes | OpenSSL |
| `hashmap.c` | buckets, chains, entry list | set, get, remove, clear, merge, clone, iterate | holds the devices |
| `list.c`, `iterator.c` | doubly linked list | push, pop, shift, unshift, concat, clone, iterate | `dev->packetQueue`, never filled |
| `jsmn.h` | token array, superior token | tokenizing | `config.c` |
| other gateways, devices | keys, counters | send, hear, answer | the radio interface |

What is hard about it:

- **Unlocked sharing.** UDP and WebSocket threads run `rfEnqueuePacket` at the
  same time on the same devices; `dev->ctr++` is a data race.
- **Ownership across calls.** Packets are allocated by the caller and freed by
  `rfEnqueuePacket`, on one of its two paths.
- **Buffers that outlive an iteration.** `rxbuf` keeps what an earlier frame left
  there, is decrypted in place, and the received length is never looked at.
- **A pointer to a loop variable as thread argument** (`ws.c:84`), and descriptor
  numbers used again after `close()`.
- **Streams taken for packets.** A WebSocket frame is assumed to arrive in reads of
  its own; the refill loop ends at one exact length.
- **Two rules for one key.** The sender picks the key by the destination, the receiver
  by the source, and nobody looks whether a frame was meant for him.
- **Lengths nobody checks.** The length byte of a packet moves the CRC, in `uint8_t`
  arithmetic, within and beyond buffers that hold older bytes.
- **A flat walk over nested tokens.** `configParse` looks for names wherever they are
  and registers a device when the next object starts or the tokens end.
- **Shutdown without joining.** Devices are freed under running threads.
- **Allocation failure half way** through hash map operations.

## Modules

| Module | What it models |
|---|---|
| `Forwarder` | what the transmit side promises its callers |
| `RfTransmit` | `rfEnqueuePacket` in every thread that calls it; implements `Forwarder` |
| `RfReceive` | one iteration of `rfRecvThread` per step |
| `WsAccept` | `wsAcceptThread` and the `wsRecvThread`s, descriptors, connections |
| `OrderedMap` | an insertion-ordered map |
| `HashMap` | `hashmap.c` with its pointers; implements `OrderedMap` |
| `Lifecycle` | `main`, init and deinit functions, and the threads' use of what they own |
| `RfFrame`, `RfCrc` | the bytes of a frame, and `crc16` |
| `RfLink` | several gateways and devices on one air: keys, answers, counters, restarts |
| `WsFrames` | how `wsRecvThread` cuts frames out of a stream, and answers them |
| `Jsmn` | the tokenizer |
| `ConfigFile` | configuration files as their authors mean them |
| `Config` | `configParse` and `rfAddDevice`, checked against `ConfigFile` |
| `ItemLists` | lists as sequences |
| `LinkedList` | `list.c` with its pointers, and iterators; implements `ItemLists` |
| `MC...` | small instances for TLC |
| `RfTransmitProofs` (with `RfFrame`), `RfLinkProofs`, `ThreadsProofs` (of `Lifecycle`, `RfReceive`, `WsAccept`), `WsFramesProofs`, `JsmnProofs` (with `ConfigFile`), `ConfigProofs`, `HashMapProofs`, `LinkedListProofs` | theorems and proofs |

The parts meet as follows. `WsFrames` ends where a packet is handed to
`rfEnqueuePacket`; `RfTransmit` begins there and ends at `send()`; `RfFrame` says which
bytes that puts on the air and which of them the receiver accepts; `RfReceive` takes up
what arrives. `RfLink` composes both directions for several gateways, each with the
structure that `Config` registers. `WsAccept` gives every connection the thread
that `WsFrames` describes, and `Lifecycle` starts and stops all of them. Each module
abstracts from what another one keeps, since the product would not be checkable.

Operators whose comment starts with "Mutant of" are not part of a model. Each is a
faulty version of the operation that follows it, which the property it is listed
with in `PROJECT.json` must catch.

The specifications of `RfReceive` and `WsAccept` are named `ReceiveSpec` and `AcceptSpec`, and
their parts alike, because `ThreadsProofs` extends both together with `Lifecycle`.

### RfTransmit

One action is the code between two accesses to shared state: allocation,
arrival of a datagram or text frame, lookup, load of the counter, store of the
counter, and the rest up to `send()`. Variables follow the C state: `heap` (live
`RfPacket_t`), `pkt`/`req`/`reg` (a thread's locals), `ctr` (`dev->ctr`), `air`
(frames handed to `send`). A request is a destination and whether the packet held
a complete header: with less, `memcpy` of `packet->len` bytes leaves stack contents
in `txbuf`, modelled as any value. History variables number the uses of a counter
(`issued`, `seqOf`), remember which counters were raced on (`raced`) and which
packets nobody will free (`orphans`). Payload, CRC and encryption are left out:
they do not influence control. `send()` failing is not distinguished, the code
does not look at it.

`dev->ctr++` is a data race in C. The outcomes modelled are those of a load and a
store that may interleave with those of other threads.

### RfReceive

The receive thread shares nothing mutable with other threads while they run, so an
iteration is one step, `Nothing`, `UnknownDevice`, `CrcFail`, `NoResponse` or
`Respond` by the place where it ends. What arrives is a frame and how far into it
`recvfrom` has stored (`Cuts`); `Overwrite` merges that with the old `rxbuf`.
The CRC is ideal (it matches only the source and control byte it was made over), the
cipher is ideal (another key yields `Noise`). `decryptPacket` and `encryptPacket`
may fail, and the code does not notice.

A counter value is a number below `2 * CtrHalf`; the reply sets the top bit. The
destination of a received frame is not looked at by the code, so a frame does not
carry one (`RfLink` has it). What strangers send is `Noise` for the gateway: their address is
in no CRC behind a known source.

### RfFrame, RfCrc

A buffer is a function from positions to bytes, and includes the memory behind it that a
length byte of up to 255 reaches. `Enqueue` copies `packet->len` bytes of a packet over
what the stack held, puts in a random byte and the CRC, and 25 bytes go out;
`DeviceSends` is a frame from elsewhere, of which all bytes are sent. `Arrive` and
`ArriveDamaged` copy a first part, or all with one bit flipped, over the old `rxbuf`.
`CrcLen` keeps the `uint8_t` argument `9 + LEN` of `crc16`. The CRC function is a
parameter of `RfFrame`, so the proofs hold for any; the run uses `crc16` of `RfCrc`,
translated shift by shift, next to `Ccitt`, the polynomial division it stands for.
Frames are in clear.

### RfLink

Every gateway has a configuration (`table`) and a counter for each node (`ctr`). `Enqueue`
is the whole of `rfEnqueuePacket` for a packet, `Hear` an iteration of `rfRecvThread` that
answers; a frame that is not accepted, or holds no command of the switch, changes
nothing here. `KeyFor` is the choice of `rf.c:179` and `rf.c:315`. `Opens` is the
decryption with the sender's key of `rf.c:235-248`: when it fails, which nobody looks at, the
body stays as it came, and one that a failed encryption left in clear is accepted. Devices are external: they
send any of `DeviceFrames`, with their own key. The air is a set of frames that
anybody may hear at any time, any number of times or never, so loss, delay, reordering and
duplication need no actions. `Restart` is what `configParse` does to counters; the
registry is read again and stays the same. Each thread's step is atomic here: races
on a counter are in `RfTransmit`, damaged and stale bytes in `RfFrame` and `RfReceive`.

### WsAccept

Descriptors are entries of a table, allotted lowest first. A thread enters `recv()`
on whatever connection its number stands for at that time and stays with it. Of
the traffic the model keeps what moves a thread between its loops (`hello`, `open`,
`refill`, `lost`, `closing`). The process may be killed while data is dealt with: by
`free(tmp)` of a pointer into the receive buffer, or by SIGPIPE from `write()`.
`memset(keyOut, 0, 128)` over a twenty-byte array is undefined and not modelled, as
are other writes beyond an array.

### WsFrames

One connection after its handshake. The stream is a sequence of cells, the pieces of a
frame that the code can tell apart (first byte, rest of the header, payload; a long
payload in two cells), and `Recv` takes any number of those that are there. What
the thread looks at is `buffer`, whose old cells stay where nothing new has been
stored. When a cell that is not the start of a frame is taken for one, the opcode and
the length it shows are any (`Opcodes`, `Lengths`), because it is masked. A payload is
what its frame says only if header, mask and payload in the buffer belong together.
Answers are laid out in the same buffer (`Answered`). `torn` and `merged` record whether a
read cut a frame or took two; the properties are about streams without that, and
say what still holds then.

### Jsmn, ConfigFile, Config

`Jsmn` follows `jsmn_parse` over lexemes in place of characters: a bracket, a comma, a
colon, a string or a primitive. It keeps types, sizes, and which token is superior.
`ConfigFile` does not follow the code: it says how a file is written, which tokens its
text has, and what it declares. A file (`IsFile`) has some of five members in any order, with
any fields in its objects, made of any `Texts`. `Config` has an action for each branch of the loop
in `configParse`; `i` advances as in the code, `rd` is the pointer written through,
0 while it is uninitialised (then a write goes anywhere, or ends the process). A token
behind the last one is any of `Garbage`. `rfAddDevice` is part of `Register`: hash,
replacement, and the free of what was replaced; freeing main's variable ends the process.
`version` and `indev` have 16 and 8 bits (`Word`, `Byte`); the tokens can be counted in 8 bits
(`ConfigAssumption`), as the array of 128 is. Memory may be missing where the code asks
for it, and in `hashmap_set`, whose failure nobody notices (`RegisterForgets`); elsewhere it
suffices. `ingw` is counted and never read; it is left out.

### LinkedList

Nodes with `prev` and `next`, lists with `head`, `tail`, `length`, as in `list.h`. A call
that does not loop is one action; `list_concat`, `list_clone`, `list_clear` and a
caller's loop with an iterator go node by node, so that running out of memory strikes
between any two, and the invariant is checked inside them. `list_concat` of a list with
itself runs until there is no memory left, as the code would. `order`, the nodes of a
list in order, is a history variable: `Sound` compares the pointers with it.

### HashMap

State is a record of the C structure: chains, list links, buckets, head, tail,
size, capacity, set of allocated entries. Each operation takes the number of
allocations that still succeed, so failure strikes at every point. `Walk` follows the
links from an entry, for at most as many steps as there are entries, so that it has a value
on broken links too; `Contents` is what an iterator returns, a walk along the list.
`CloneAndDestroy` lets the caller go on with a clone. A failed
`hashmap_create` is a failed clone. Allocation failure sets `errno`. `MapAssumption` has as
many addresses as keys: `malloc` then fails only where an operation is told that it does.

### Lifecycle

`main` is a program counter over the init and deinit calls, with every failure
exit. Threads run freely between their run flag, their socket, the lookup and the
use of a device. Reading the map or a device after `rfDeInit` has freed it is
recorded in `dangling`, and may do nothing or abort the process. `close()` of a
socket does not wake a thread that waits on it (Linux). At `exit` the process and
its threads are gone. The run flags are plain variables; they are read and written
in one step each, and a compiler that keeps one in a register is not modelled.

## Runs

| Run | Instance | Shows |
|---|---|---|
| `transmit_race` | UDP + 1 WebSocket thread, 1 device, 1 stranger, 3 packets, counter of 2 values, 4 requests, with fairness | `PacketMemory`, `CtrReuseOnlyAfterWrap`, `PromiseKept` (refinement with liveness) |
| `transmit_udp_only` | UDP alone, 2 devices, 2 packets, 4 requests | `SerialCounters` |
| `receive` | a device, another gateway, a stranger, 2 keys, 2 commands, 2 counter values | `AnswersLatestFrame`, `CipherAnsweredOnce` |
| `frame` | 9 payload lengths, 5 short packets, 5 frames from elsewhere, 5 places to cut, a flipped bit, 2 arrivals | `CrcBytesDecide`, `DamageNoticed`, `CrcIsCcitt` |
| `link` | 3 gateways, 1 device, 2 configurations, 4 counter values, 3 requests, 1 restart | `AddresseeOpens`, `WhoAnswers`, `AnswersRequests` |
| `ws_accept` | 3 connections, 2 descriptors, with fairness | `ExclusiveWhenSerial`, `NoOrphan`, `HangUpSettles` |
| `ws_frames` | streams of up to two frames of six kinds, and three streams of three, cut anywhere, with fairness | `InStep`, `NoneDropped`, `FramesDealt` |
| `config` | 750 files, whole and without their last character, 33 tokens | `TokensRight`, `InOrder`, `LosesOnlyLast`, `AcceptedIff`, `RegistrySound` |
| `hashmap` | keys 1, 3, 5, two values, 1 initial bucket, 3 entries, 5 other maps | `Consistent`, `LoadBounded`, `SuccessMeansDone`, `RefinesOrderedMap` |
| `hashmap_errno` | the same | `ErrnoTells` is violated (see below) |
| `lists` | 2 lists, 3 nodes, 2 items and the null item | `Sound`, `RefinesItemLists` |
| `lifecycle` | 2 WebSocket clients | `ReadyForThreads`, `OneMorePacket`, `SecondCloseAlone`, `EndsWhenTold` |

The runs check `TypeOK` where it is a property of its own; `Consistent` and `Sound` contain
it.

Bounds and why they are enough to show the interesting cases:

- `transmit_*`: `CtrMod = 2` makes the counter wrap within `MaxRequests = 4` requests; two
  threads are what a race needs, and three packets let two leak (unknown
  destination) with one in flight. The proofs hold for every number of each.
  One device suffices for counters (they are per device); `transmit_udp_only` has two
  so that their frames mix.
- `receive`: `CtrHalf = 1`: one value with and one without the top bit, so the run says nothing
  of the counter of an answer; the theorem does, for any `CtrHalf`. One command is
  answered (`C_NOTIFY`) and one is not (`C_ACK`); the others differ only in the table
  `Answer`. `Strangers`, a damaged header and a cut-off address give unknown sources.
- `frame`: lengths 10 and 11, 241 and 242, 246 and 247 lie on either side of the three
  boundaries of the layout, 0 and 255 at the ends. Packets end inside the
  header, behind it, and inside the payload. Every bit of the length is flipped, one of
  every other of the 25 bytes, and some in longer frames: in the payload, in the CRC, behind
  it. Two arrivals are what stale bytes need.
- `link`: with `CtrHalf = 2` and three requests the counter passes the value where the top
  bit is set; a restart sends the same counters again. `g3` sends nothing and knows
  `g1` and the device: it is the one that overhears, also what the device sends to `g1`.
  One configuration holds the right keys; in the other one there is a device's key for a
  gateway, and keys of the gateway's own for others. Encryption and decryption may fail
  at `g1` and `g2` (`Failing`): at the sender, at the addressee, or both.
- `ws_accept`: two descriptors and three connections: the third reuses a number. `MaxConns`
  bounds a behaviour; the table may be full, so `accept` fails.
- `ws_frames`: two frames are what coalescing and cutting need, and the three longer
  streams put a frame behind one that has left its bytes in the buffer, which takes three.
- `config`: every order of version, gateway and devices, with another object or text
  behind them; up to three devices; objects that end with a setting or not; serial
  numbers that are equal, share an address (`Hash` maps 12 and 13 to one), or are missing;
  keys that are short or not base64; texts that read like names; more tokens than
  there is room for. `MaxTokens` is 33 in place of 128.
- `hashmap`: one initial bucket: every key collides at first, maps resize at the first
  insertions (1, 2, 4 buckets), then keys 1 and 5 still collide and 3 does not. `MaxEntries`
  is the number of keys: an entry is created only for a key that is not there. Other maps
  are empty, new, overlapping, reordered, and larger than the capacity.
- `lists`: three nodes are a first, an inner and a last one; they run out, so that every
  loop fails at every place.
- The system really may stop in `transmit_*`, `frame`, `link`, `ws_*`, `config`, and
  `lifecycle` (bounds reached, file read, process ended), hence `CHECK_DEADLOCK FALSE`
  there.

Fairness:

- `RfTransmit`: weak fairness of a thread inside `rfEnqueuePacket`. It takes no
  lock and blocks on nothing. None is assumed of clients, nor of the receive calls.
- `WsAccept`: weak fairness of thread starts, of entering `recv`, of `recv` returning
  once the remote end is gone, and of closing. None of `accept` or of remote ends
  sending data.
- `WsFrames`: weak fairness of the thread's steps after the handshake: it is scheduled,
  and what the client has sent arrives, in pieces of any size (TCP). None of the client,
  who may stop or hang up anywhere.
- `Lifecycle`: weak fairness of `main` in startup and shutdown. Neither waits for a
  thread. None of the threads, and none of the user typing "quit".

### What the runs say about the code

- `PacketMemory`: the only packet leak is that of unknown destinations, at
  `rf.c:193`. Every such request costs one `RfPacket_t`.
- `CtrReuseOnlyAfterWrap` holds only with `raced` in it: the race on `dev->ctr` does
  repeat counters. With one caller (`SerialCounters`) it does not.
- `AnswersLatestFrame` says that stale bytes in `rxbuf` are never taken for a frame, with
  an ideal CRC: bytes of two frames that `crc16` happens to match are taken for one, see
  below. It does not say a frame is answered once: a plain frame is answered again
  when short datagrams arrive after it. `CipherAnsweredOnce` says that an encrypted
  one is not, because it was decrypted in place; but it is if `decryptPacket` fails.
- `CrcBytesDecide` and the boundary theorems: a payload of up to 10 bytes arrives with its
  CRC. From 11 on not all of the CRC is sent, and the receiver compares with what an
  earlier frame left there: a payload of 11 or 12 bytes arrives in full, and is accepted
  exactly when those bytes happen to be the ones not sent. When a frame is cut
  before the end of its payload nothing is said of what is accepted: header or
  payload then end in old bytes, and these may be such that `crc16` matches, so that the
  gateway takes in a frame that nobody sent. From 242 on it is written and read outside the 256 bytes; from 247
  on it covers a few bytes only. Nothing refuses such a packet.
- `DamageNoticed`: the CRC begins at the source, so a frame whose destination was damaged
  is accepted like any other; and since nobody looks at the destination, it is answered.
  In source, header but for the length, payload and CRC a damaged bit is always noticed. Of a
  damaged length nothing is said: the CRC is then looked for somewhere else.
- `AddresseeOpens`: the key rule is consistent if a table holds, for a gateway, that
  gateway's own key. A failed encryption sends the body in clear with the bit for
  "encrypted" set: the other side decrypts it to noise, or accepts it when its decryption
  fails as well.
- `WhoAnswers`: with the right keys, every gateway that knows the sender accepts, and answers
  if it is a request, what is sent in clear, what a device sends encrypted, to whichever
  gateway, and what gateways send each other. Only what a gateway sends
  encrypted to a device is refused by all others (but when both encryption and
  decryption fail). A device may thus get several answers to one request.
- `AnswersRequests`: answers are never answered. An answer identifies a request among the
  `CtrHalf` (128) before and after it only while the gateway runs: a restart sets
  the counters back to 0.
- `ExclusiveWhenSerial` and `NoOrphan` hold only while no hand-off is overtaken.
- `HangUpSettles` names the way out the code leaves open: the refill loop.
- `InStep`, `NoneDropped` and `FramesDealt` are stated for streams that no read cuts or
  merges in the places named. Otherwise: a short frame that is cut is completed by old bytes
  of the buffer, and its rest taken for a frame; the second of two frames in one read is
  dropped; the refill loop runs past the end of its frame, for ever. A payload that is not
  base64 ends the process. "202" is written for a packet to an unknown destination.
- `LosesOnlyLast`: when the file ends with the value of a setting of the last device, so
  that the last token is skipped over, that device is not registered; with any other
  field at the end, or a member behind the devices, it is.
- `AcceptedIff`: an empty list of devices makes the walk step over the name of the next
  member; if that is the version, the file is refused.
- The walk knows no nesting, so what a file says is found right only if no text in it reads
  like the name of a setting and no field has the name of a member (`NamesApart`).
  `InOrder`, `LosesOnlyLast` and `RegistrySound` are about files like the sample
  (`Conventional`): their names are apart, none is there twice in an object, and no device is
  an empty object.
- `InOrder` is stated for keys in base64: other text counts as a key of 32 bytes and more,
  and the key is what the heap held. With a gateway behind the devices, main's own
  structure is registered in place of one, and freed when replaced (`Conventional`).
- `RegistrySound`: a replaced device loses its `packetQueue`, nothing else; one for which the
  map has no memory is lost as a whole, and `configParse` goes on. Serial
  numbers whose addresses collide replace each other without a word.
- `OneMorePacket`: for the radio and UDP threads the use of freed devices during
  shutdown is bounded; for WebSocket clients it is not.
- `RefinesItemLists`: a clone is complete or is not there; `list_concat` without memory
  keeps a first part; an iteration ends at a null item, not only at the end.
- `ErrnoTells` is what `hashmap.c:124-125` says of `hashmap_set` ("set to non-zero if the
  set failed, zero if the value was stored successfully"). When the entry has
  been linked and the resize after it fails, the value is stored and `errno` is not
  zero. `hashmap_merge` then stops early.

## Proofs

TLAPS proves, for every value of the constants:

- `RfTransmitProofs`: `TypeCorrect`; `PacketMemorySafe`; `CounterReuse`
  (`CtrReuseOnlyAfterWrap`); `SerialCase` (`SerialCounters` when there are no WebSocket
  threads); `Implements` (the safety part of `Forwarder`).
  `PacketMemory` needs which thread holds a packet where (`pc` and `pkt` agree).
  The counter argument: as long as a device is not raced on, its counter equals the
  number of its uses modulo `CtrMod` (less one while a thread is between load and
  store), and every use number is given once. So equal counters have congruent use
  numbers (`SameResidue`), which differ by a multiple of `CtrMod`.
- `RfTransmitProofs` on `RfFrame`: `BufferBoundary` (length 241), `SentBoundary` (10),
  `CoverBoundary` (246) and `CipherCovers` say exactly for which lengths the arithmetic does
  what it should; `BytesDecide` is `CrcBytesDecide` for every CRC function, packet and old
  content. The invariant `FrameInv`: the check succeeds on `txbuf`, and `rxbuf` agrees with
  it as far as the latest frame arrived, but for the bit that was damaged; and the check
  looks at nothing behind the CRC (`CrcOkLocal`). `DamageSeen` is `DamageNoticed` for every
  CRC function that has sixteen bits and tells any bytes from the same with one bit flipped
  (`CrcDetects`, its hypothesis); `crc16` does, being the remainder of a division by a
  polynomial of more than one term, and TLC evaluates it for some samples
  (`CrcDetectsABit` in `MCRfFrame`).
- `RfLinkProofs`: `Invariance`, `TypeCorrect`, `RightKey` (`AddresseeOpens`), `Answering`
  (`WhoAnswers`), `Exchanges` (`AnswersRequests`). The invariant: the key of each
  frame is the one its sender takes for its destination (`Keyed`); a gateway's request
  has its number among the packets to that node, its counter is that number modulo
  the counter's range (`Numbered`), and no two have the same (`Single`); every answer has
  its request (`Requested`). Requests with one answer have numbers that agree modulo
  `CtrHalf` (`HalfApart`).
- `ThreadsProofs` on `Lifecycle`: `TypeCorrect`, `ThreadsReady`, `AtMostOneMore`,
  `ClosedOnceWithThreads`. The invariant says where `main` must be for threads to exist, and
  what is in place there; a thread that took in a packet too late is behind its next look
  at the flag.
- `ThreadsProofs` on `RfReceive`: `ReceiveCorrect`, from which type correctness
  (`ReceiveTypeCorrect`), `AnswersLatestFrame` and `CipherAnsweredOnce` follow. The invariant
  `Origin`: a body in `rxbuf` that is not noise came with the latest complete frame, and
  once answered encrypted it is no longer in its encrypted form.
- `ThreadsProofs` on `WsAccept`: `AcceptTypeCorrect` with the order in which threads come to be,
  `Exclusive`, `NoneLost`. While no hand-off was overtaken, a live thread's descriptor
  stands for its own connection, so no other thread's number does.
- `WsFramesProofs`: `FramesTypeCorrect` (`TypeOK`), `FramesInStep` (`InStep`),
  `FramesNoneDropped` (`NoneDropped`), for streams of any number of frames of any kinds. The
  invariant has four parts. `Stream`: what has not been received is the rest of the stream
  (`Piece`), and the buffer holds cells of it. `Whole`: unless a read cut a frame, the
  frame that is looked at lies at the start of the buffer as far as it has arrived, and only
  of a long one may some be missing, which comes next. `Told`: what was handed on and
  answered is of frames dealt with. `AllCovered`: as long as no read took two frames
  either, each of those was answered or there was a reason not to. The stream is cut into
  frames by `FlattenSeq`, a fold; what it computes (`FlattenFacts`) is proved by
  induction over the number of frames, see below.
- `JsmnProofs`: `TextParses`, that `jsmn_parse` finds the tokens a file means, whatever file,
  and reports an error without room for them or without the last bracket. The text is
  read lexeme by lexeme, a fold; `Reads` says that a part of it leads from one state of
  the tokenizer to another, and joins with the next part. A value `Takes` its tokens if from
  every state within an object or array it adds them, and one to the size of the superior
  token, or runs out of room (`Yields`); so do a plain text, a pair, a list of
  parts with commas between, and brackets around it (`EnclosedReads`), whatever the parts
  are. What is outside stays as it was, so an open bracket is always the innermost one
  when its own closes it. The second half says where things stand: there is a `Plan` that has a
  place among the tokens for every member, device and field (`PlanExists`), and what is
  found there is a name or a value of the file and nothing else (`Parts`, `SettingIs`).
- `ConfigProofs`: `TypeRight` (`TypeOK`), `TokensAreRight` (`TokensRight`), `AcceptedRight`
  (`AcceptedIff`), `RegisteredInOrder` (`InOrder`), `LastMayBeLost` (`LosesOnlyLast`),
  `RegistryIsSound` (`RegistrySound`), for every file, number of tokens below 256, and
  hash. `AcceptedIff` follows from `VersionInv`: the walk, which may step over two tokens at
  once, never lands behind the name of the version without having seen it, unless
  an empty list of devices makes it. For the other three there is `WalkInv`, in two parts.
  `Before` the list of devices nothing is registered, and what is written goes to main's
  structure. `After` its beginning, the number of registrations says between which two devices
  the walk is (`Place`), how many structures there are and which is written to (`Structures`);
  the structure of the next device holds what its fields up to here declare (`Built`); what was
  registered is what the file declares (`Declares`); and structures and registry are what
  those registrations leave (`Recorded`), from which what is lost can be counted (`LossesAre`).
  Whether a device is registered by the next object or by the last token, the
  walk has passed all of its fields: that is what `Place` is for.
- `HashMapProofs`: `MapConsistent` (`Consistent`), `MapLoadBounded` (`LoadBounded`),
  `MapSuccessMeansDone` (`SuccessMeansDone`), `MapIsOrdered` (`RefinesOrderedMap`). `HashInv` is
  what `Consistent` says with the walks taken apart: there is a sequence of the live entries
  which the list is, in both directions (`Listing`), each chain leads through the entries of
  its bucket and nothing else (`Bucketed`), no key is there twice (`Keyed`), and unused
  entries lead nowhere. `Consistent` alone is not enough: a walk ends after as many entries
  as there are addresses wherever the last link leads, and nothing is said of the links of
  what is not in use, with which the next new entry starts. What becomes of a path when a
  link is pushed in front (`PathPush`), added at the end (`PathAppend`) or bypassed
  (`PathDrop`) serves list and chains alike, and `WalkIs` leads back from paths to `Walk`.
  Resizing, merging and cloning are folds; `FoldedSteps` turns a fold into the sequence of
  its intermediate results, and `RehashedIs`, `MergeInIs` and `CloneOfIs` go along it by
  induction. For the refinement, each of these lemmas also says what the contents are
  afterwards, in terms of `OrderedMap` (`Follows`).
- `LinkedListProofs`: `PointersSound` (`Sound`), which is inductive as it stands, because
  `order` gives every node a position: an operation moves at most the pointers of the
  node it adds or frees and of its neighbour, and by `Apart` no other position has those
  (`Different`). `OneMore` and `OneLess` are about the positions alone and serve all
  operations; there is a lemma for each operation and each start and end of a loop.
  `ListsAreSequences` (`RefinesItemLists`): a call maps to the call of the same name, what
  `ItemLists` does at once `LinkedList` does node by node, and the steps of a loop but the
  last stutter. The invariant therefore says what a loop has done so far: `Copied`, that
  what `list_clone` or `list_concat` has added are the items of the source up to where the
  loop is; `Seen`, that an iteration has returned the items up to its node, none of
  them null. A list that is concatenated with itself is copied by a loop that never
  ends: it needs a node for each step, and nodes are finite (`LengthBound`).

Assumptions are those named in the modules (`TransmitAssumption`, `ReceiveAssumption`,
`ValuesAssumption`, `FrameAssumption`, `LinkAssumption`, `AcceptAssumption`,
`LifecycleAssumption`, `MapAssumption`, `ListAssumption`, `TokensAssumption`,
`NumberAssumption`, `TextsAssumption`, `ConfigAssumption`): disjoint sets, positive bounds,
types of the parameters, enough addresses for the keys, markers that are not values, no more
tokens than a byte counts. TLC evaluates them in the runs.

Only model-checked: everything with fairness (`PromiseKept`'s liveness, `HangUpSettles`,
`FramesDealt`, `EndsWhenTold`: liveness and ENABLED are beyond this prover); `CrcIsCcitt`, about
the bit operations of `crc16`, of which the provers know nothing, and for the same reason
that `crc16` satisfies `CrcDetects`.

What recursive functions and folds compute is known by induction. The induction
theorems of the library take a predicate as parameter, which the provers cannot
instantiate; where induction is needed it is over a set of numbers instead: a non-empty set
of naturals has a least element (`LeastNatural`, from the library's fact that inclusion of
finite sets is well-founded), so one that holds 0 and with each n also n + 1 holds all
(`AllNaturals`).

## Not modelled

- The text of the WebSocket handshake (`ws.c:117-141`): parsing of the request, the key's
  hash, and the answer, which carries the request's last line where `keyBase` was
  computed (`ws.c:138`). With it, what it does to memory: `memset` of 128
  bytes over an array of 20 (`ws.c:115`), a request that has not arrived in full. `Hello`
  in `WsFrames` and `WsAccept` has its outcomes.
- `rfSendPacket` and the packet queue in `struct RfDevice`: dead code, nothing calls it and
  nothing is put into a queue. `LinkedList` models the list itself.
- AES, SHA-1 and base64 as computations: OpenSSL. `crypto.c`'s calls are modelled as an
  ideal cipher that may fail.
- Escapes within JSON strings, and primitives other than numerals and words: the configuration
  uses neither.
- What writes beyond an array do to other memory (`ws.c:120` and `ws.c:189` among them).
- Reading of stdin other than "quit" (at end of input `main` spins, and the size `getline`
  is given was never set).

## Plan

Everything planned has a model: first `RfTransmit`, `RfReceive`, `WsAccept`, `Lifecycle`,
`HashMap`, because the rest of the process depends on them, then `RfLink`, `Config`,
`WsFrames`, `RfFrame`, `LinkedList`. Every safety property of the runs has a theorem but for
`CrcIsCcitt`, and `ErrnoTells`, which is violated. What could be added:

1. Files that are not written like the sample: what `configParse` registers where names are
   not apart is not stated; for those only types, tokens and the tokenizer are.
2. Which damage to the length byte is noticed: that depends on what lies where the CRC is then
   looked for.
