-------------------------------- MODULE RfFrame --------------------------------
(***************************************************************************)
(* The bytes of a frame: how rfEnqueuePacket and the answers of            *)
(* rfRecvThread lay it out in a buffer and put the CRC behind the payload, *)
(* how 25 bytes of it go on the air, and how the receiver checks it in     *)
(* rxbuf.  The length byte is not checked on either side, and all of it is *)
(* uint8_t arithmetic over buffers that hold older bytes.                  *)
(*                                                                         *)
(* Buffers are modelled with the memory behind them that an unchecked      *)
(* length reaches.  The CRC is a parameter; RfCrc has the one of the code. *)
(* Frames here are in clear: which bytes the cipher covers is arithmetic   *)
(* on the same layout.                                                     *)
(***************************************************************************)
EXTENDS Integers, Sequences

\* const.h
BufferLen == 256  \* MAX_PACKET_LEN
I_SRC  == 4
I_CTRL == 8
I_CTR  == 9
I_RND  == 10
I_LEN  == 12
I_DATA == 13

SentLen == 25     \* bytes of a frame on the air
BlockLen == 16    \* bytes encrypted, from I_CTR on

Byte  == 0 .. 255
\* A buffer and what lies behind it, as far as a CRC may be put.
Cells == 0 .. (I_DATA + 256)
Memory == [Cells -> Byte]

\* The bits of a byte.
Weights == {1, 2, 4, 8, 16, 32, 64, 128}

CONSTANTS Crc(_),     \* crc16 of a sequence of bytes, a uint16_t
          Datagrams,  \* what clients hand over: [data, len]
          Foreign,    \* frames devices send: [data, len]
          Stack,      \* what the stack held before: memories
          Random,     \* what RAND_bytes may put into a frame
          Cuts,       \* how many bytes of a frame may arrive
          Flips,      \* damage on the air: [at, weight], a bit by its weight
          MaxArrivals \* bound on the frames received

\* Of len bytes of data, in clear.
Datagram == [data : Memory, len : 0 .. BufferLen]

ASSUME FrameAssumption ==
  /\ Datagrams \subseteq Datagram
  /\ Foreign \subseteq Datagram
  /\ \A p \in Foreign : p.len > 0
  /\ Stack \subseteq Memory
  /\ Random \subseteq Byte
  /\ Cuts \subseteq 0 .. BufferLen
  /\ Flips \subseteq [at : 0 .. (BufferLen - 1), weight : Weights]
  /\ MaxArrivals \in Nat

VARIABLES
  txbuf,    \* the latest frame as its sender laid it out
  onAir,    \* how many bytes of txbuf are sent; 0 when nothing is on its way
  rxbuf,    \* the receiver's buffer
  \* History, for the properties only:
  latest,   \* [cut, hit]: how much of the latest frame arrived, and which byte
            \* of it was damaged
  arrivals  \* how many frames have arrived

frameVars == <<txbuf, onAir, rxbuf, latest, arrivals>>

Undamaged == -1

-----------------------------------------------------------------------------
(* The layout *)

\* The argument 9 + LEN of crc16 is a uint8_t.
CrcLen(len) == (9 + len) % 256

CrcAt(len) == I_DATA + len

\* The bytes the CRC is made over.
Covered(buf) == [n \in 1 .. CrcLen(buf[I_LEN]) |-> buf[I_SRC + n - 1]]

Low(crc)  == crc % 256
High(crc) == crc \div 256

\* Mutant of WithCrc: the CRC is put at a fixed place.
WithCrcFixed(buf) ==
  LET crc == Crc(Covered(buf)) IN
  [buf EXCEPT ![SentLen - 2] = Low(crc), ![SentLen - 1] = High(crc)]

\* The CRC put behind the payload, in the byte order of the machine.
WithCrc(buf) ==
  LET crc == Crc(Covered(buf))
      at  == CrcAt(buf[I_LEN])
  IN  [buf EXCEPT ![at] = Low(crc), ![at + 1] = High(crc)]

\* Mutant of CrcOk: only one byte is compared.
CrcOkLow(buf) ==
  buf[CrcAt(buf[I_LEN])] = Low(Crc(Covered(buf)))

\* The comparison in rfRecvThread.
CrcOk(buf) ==
  LET crc == Crc(Covered(buf))
      at  == CrcAt(buf[I_LEN])
  IN  buf[at] = Low(crc) /\ buf[at + 1] = High(crc)

\* The first n bytes of data over memory.
Over(memory, data, n) == [c \in Cells |-> IF c < n THEN data[c] ELSE memory[c]]

-----------------------------------------------------------------------------
(* Sending *)

FrameInit ==
  /\ txbuf \in Stack /\ rxbuf \in Stack
  /\ onAir = 0
  /\ latest = [cut |-> 0, hit |-> Undamaged]
  /\ arrivals = 0

\* rfEnqueuePacket: packet->len bytes of the packet over the stack, a random
\* byte, the CRC; 25 bytes are sent.
Enqueue(p) ==
  /\ onAir = 0 /\ arrivals < MaxArrivals
  /\ \E s \in Stack, rnd \in Random :
       txbuf' = WithCrc([Over(s, p.data, p.len) EXCEPT ![I_RND] = rnd])
  /\ onAir' = SentLen
  /\ UNCHANGED <<rxbuf, latest, arrivals>>

\* A device sends a frame of its own making, all of it.
DeviceSends(p) ==
  /\ onAir = 0 /\ arrivals < MaxArrivals
  /\ txbuf' = WithCrc(p.data)
  /\ onAir' = p.len
  /\ UNCHANGED <<rxbuf, latest, arrivals>>

-----------------------------------------------------------------------------
(* Receiving *)

\* The first n bytes of the frame arrive, or all there are.  txbuf is not
\* written until then.
Arrive(n) ==
  /\ onAir > 0 /\ latest.hit = Undamaged
  /\ rxbuf' = Over(rxbuf, txbuf, IF n < onAir THEN n ELSE onAir)
  /\ latest' = [cut |-> IF n < onAir THEN n ELSE onAir, hit |-> Undamaged]
  /\ onAir' = 0
  /\ arrivals' = arrivals + 1
  /\ UNCHANGED txbuf

Flipped(b, w) == IF (b \div w) % 2 = 1 THEN b - w ELSE b + w

\* All of it arrives, with a bit damaged.  Bound: the last frame to arrive.
ArriveDamaged(f) ==
  /\ onAir > f.at /\ latest.hit = Undamaged
  /\ rxbuf' = [Over(rxbuf, txbuf, onAir) EXCEPT ![f.at] = Flipped(@, f.weight)]
  /\ latest' = [cut |-> onAir, hit |-> f.at]
  /\ onAir' = 0
  /\ arrivals' = arrivals + 1
  /\ UNCHANGED txbuf

FrameNext ==
  \/ \E p \in Datagrams : Enqueue(p)
  \/ \E p \in Foreign : DeviceSends(p)
  \/ \E n \in Cuts : Arrive(n)
  \/ \E f \in Flips : ArriveDamaged(f)

FrameSpec == FrameInit /\ [][FrameNext]_frameVars

-----------------------------------------------------------------------------
(* Properties *)

\* An undamaged frame is accepted if what rxbuf holds behind the bytes that have
\* arrived is what the frame has there, so always when all of it up to the CRC has
\* arrived, whatever rxbuf and the stack held before; and with all of the payload
\* there, it is accepted in no other case.  So for a payload of eleven or twelve
\* bytes, whose CRC does not fit into the 25 bytes sent, what earlier frames have
\* left in rxbuf decides.  (With less than the payload, old bytes may make up
\* something the CRC accepts although nobody sent it.)
CrcBytesDecide ==
  LET at == CrcAt(txbuf[I_LEN]) IN
  onAir = 0 /\ arrivals > 0 /\ latest.hit = Undamaged =>
    /\ (\A c \in latest.cut .. (at + 1) : rxbuf[c] = txbuf[c]) => CrcOk(rxbuf)
    /\ latest.cut >= at /\ CrcOk(rxbuf) => \A c \in {at, at + 1} : rxbuf[c] = txbuf[c]

\* Of a frame that arrives with its CRC, a damaged bit is noticed exactly when it is
\* in what the CRC is about or in the CRC.  So a frame whose destination was
\* damaged is accepted.  Nothing is said of a damaged length, which moves the place
\* where the CRC is looked for.
DamageNoticed ==
  LET at == CrcAt(txbuf[I_LEN]) IN
  /\ onAir = 0 /\ latest.cut > at + 1
  /\ latest.hit \notin {Undamaged, I_LEN}
  => (CrcOk(rxbuf) <=> latest.hit < I_SRC \/ latest.hit > at + 1)

\* What is expected of Crc for that: a bit makes a difference.
CrcValues == 0 .. (256 * 256 - 1)

DetectsABit(bytes) ==
  /\ Crc(bytes) \in CrcValues
  /\ \A n \in DOMAIN bytes, w \in Weights :
       Crc([bytes EXCEPT ![n] = Flipped(bytes[n], w)]) # Crc(bytes)
===============================================================================
