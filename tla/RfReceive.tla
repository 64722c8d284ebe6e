------------------------------- MODULE RfReceive -------------------------------
(***************************************************************************)
(* The receive side of the gateway: the loop of rfRecvThread (rf.c).  The  *)
(* thread shares nothing that changes with the other threads, so one       *)
(* iteration is one action.  What makes it hard is rxbuf: it outlives the  *)
(* iteration, recvfrom overwrites only as many bytes as have arrived, the  *)
(* length is not looked at again, and an encrypted frame is decrypted in   *)
(* place.                                                                  *)
(*                                                                         *)
(* A frame is what the code tells apart: the source address, the           *)
(* "encrypted" bit of the control byte, and the sixteen bytes behind it    *)
(* (the body) as a whole.  Two ideal functions stand for code that is not  *)
(* examined here: a CRC matches only the source and the control byte it    *)
(* was computed over, and a block decrypted under another key than it was  *)
(* encrypted with, or not encrypted at all, is noise that matches no CRC.  *)
(***************************************************************************)
EXTENDS Integers

CONSTANTS Known,    \* addresses in rf.devices
          Strangers,\* other addresses
          Peers,    \* the known ones whose serial number has a non-zero top
                    \* nibble: gateways
          Keys,     \* AES keys
          KeyOf,    \* dev->key of every known address
          GwKey,    \* rf.gw->key
          Commands, \* the commands devices and other gateways send
          CtrHalf,  \* half the number of counter values (0x80 in the code)
          Noise,    \* bytes without meaning
          None

ASSUME ReceiveAssumption ==
  /\ Known \cap Strangers = {}
  /\ Peers \subseteq Known
  /\ KeyOf \in [Known -> Keys]
  /\ GwKey \in Keys
  /\ CtrHalf \in Nat \ {0}

Addresses == Known \cup Strangers
CtrValues == 0 .. (2 * CtrHalf - 1)

\* The switch of rfRecvThread: what is answered, and with which command.  The
\* packet queue C_POLL looks into is never filled, so it is answered C_ACK.
Answer == [C_DISCOVER  |-> "C_DISCOVER_RESP",
           C_READ_REG  |-> "C_RW_RESP",
           C_WRITE_REG |-> "C_RW_RESP",
           C_NOTIFY    |-> "C_ACK",
           C_POLL      |-> "C_ACK"]

\* A message with its CRC; `src` and `enc` are those the CRC was computed over.
\* What strangers send matches no CRC behind a known address: it is noise here.
Message == [cmd : Commands, ctr : CtrValues, src : Known, enc : BOOLEAN]

Plain  == {m \in Message : ~m.enc}
Cipher == [key : Keys, msg : {m \in Message : m.enc}]
Body   == Message \cup Cipher \cup {Noise}

\* What may arrive: a body a sender has made, or noise, behind a header that
\* the radio may have damaged.
AirFrame == [src : Addresses, enc : BOOLEAN, body : Plain \cup Cipher \cup {Noise}]

\* What rxbuf may hold.
Buffer == [src : Addresses \cup {Noise}, enc : BOOLEAN, body : Body]

Reply == [dst : Addresses, enc : BOOLEAN, key : Keys \cup {None},
          cmd : {Answer[c] : c \in DOMAIN Answer}, ctr : CtrValues]

ASSUME ValuesAssumption ==
  /\ Noise \notin Addresses \cup Message \cup Cipher
  /\ None \notin Keys \cup AirFrame \cup Reply

VARIABLES
  rxbuf,  \* the receive buffer, on the stack of rfRecvThread
  reply,  \* what the iteration handed to send(), or None
  \* History, for the properties only:
  whole,  \* the latest frame that arrived in full, or None
  opened, \* how many encrypted requests were answered since it arrived (two
          \* stands for two or more)
  botched \* decryptPacket has failed since it arrived

receiveVars == <<rxbuf, reply, whole, opened, botched>>

ReceiveInit ==
  /\ rxbuf \in [src : Addresses \cup {Noise}, enc : BOOLEAN, body : {Noise}]
  /\ reply = None
  /\ whole = None
  /\ opened = 0
  /\ botched = FALSE

-----------------------------------------------------------------------------
(* recvfrom *)

\* How much of the datagram there is: less than the source address, part of
\* it, all of it, the control byte too, part of the body, or everything.
Cuts == {"none", "part of src", "src", "header", "part of body", "all"}

\* A field of rxbuf of which only the first bytes were overwritten.
Mixed(old, new) == IF old = new THEN old ELSE Noise

\* rxbuf after recvfrom has stored the first part of frame f.
Overwrite(f, cut) ==
  [src  |-> CASE cut = "none" -> rxbuf.src
              [] cut = "part of src" -> Mixed(rxbuf.src, f.src)
              [] OTHER -> f.src,
   enc  |-> IF cut \in {"header", "part of body", "all"} THEN f.enc
            ELSE rxbuf.enc,
   body |-> CASE cut = "all" -> f.body
              [] cut = "part of body" -> Mixed(rxbuf.body, f.body)
              [] OTHER -> rxbuf.body]

\* decryptPacket over the sixteen bytes of the body, in place.
Decrypt(body, key) ==
  IF body \in Cipher /\ body.key = key THEN body.msg ELSE Noise

\* decryptPacket is called; it may fail only then.
MustDecrypt(buf) == buf.src \in Known /\ buf.enc
DecryptOutcomes(buf) == IF MustDecrypt(buf) THEN BOOLEAN ELSE {TRUE}

\* rxbuf when the CRC is checked: decrypted if the control byte says so.  The
\* result of decryptPacket is not looked at; when it fails (`evp` is FALSE) the
\* body stays what it is.
Opened(buf, evp) ==
  IF MustDecrypt(buf) /\ evp
  THEN [buf EXCEPT !.body = Decrypt(buf.body, KeyOf[buf.src])]
  ELSE buf

\* Mutant of CrcOk: the CRC is computed from the control byte on.
CrcOkFromCtrl(buf) ==
  /\ buf.body \in Message
  /\ buf.body.enc = buf.enc

\* crc16 over rxbuf agrees with the CRC in it.
CrcOk(buf) ==
  /\ buf.body \in Message
  /\ buf.body.src = buf.src
  /\ buf.body.enc = buf.enc

\* Mutant of ReplyTo: the top bit is added instead of set.
ReplyToAdds(buf, evp) ==
  [dst |-> buf.src, enc |-> buf.enc, key |-> None,
   cmd |-> Answer[buf.body.cmd], ctr |-> buf.body.ctr + CtrHalf]

\* The reply to an accepted frame.  Its counter is that of the request with the
\* top bit set; a reply to another gateway is encrypted with the own key.  When
\* encryptPacket fails the body goes out in clear.
ReplyTo(buf, evp) ==
  [dst |-> buf.src,
   enc |-> buf.enc,
   key |-> IF ~buf.enc \/ ~evp THEN None
           ELSE IF buf.src \in Peers THEN GwKey ELSE KeyOf[buf.src],
   cmd |-> Answer[buf.body.cmd],
   ctr |-> IF buf.body.ctr >= CtrHalf THEN buf.body.ctr
           ELSE buf.body.ctr + CtrHalf]

-----------------------------------------------------------------------------
(* The outcomes of one iteration, by the place where it ends *)

\* History of a step that received part `cut` of f into buf.
Remember(f, cut, buf, evp) ==
  LET all == cut = "all" IN
  /\ whole' = IF all THEN f ELSE whole
  /\ LET before == IF all THEN 0 ELSE opened
         more   == IF reply' # None /\ buf.enc /\ before < 2 THEN 1 ELSE 0
     IN  opened' = before + more
  /\ botched' = ((~all /\ botched) \/ ~evp)

\* recvfrom fails or returns 0.
Nothing ==
  /\ reply' = None
  /\ UNCHANGED <<rxbuf, whole, opened, botched>>

\* hashmap_get does not find the source.
UnknownDevice(f, cut) ==
  LET buf == Overwrite(f, cut) IN
  /\ buf.src \notin Known
  /\ rxbuf' = buf
  /\ reply' = None
  /\ Remember(f, cut, buf, TRUE)

\* The CRC does not match.
CrcFail(f, cut, evp) ==
  LET buf == Opened(Overwrite(f, cut), evp) IN
  /\ buf.src \in Known
  /\ ~CrcOk(buf)
  /\ rxbuf' = buf
  /\ reply' = None
  /\ Remember(f, cut, buf, evp)

\* C_ACK, or a command the switch does not know.
NoResponse(f, cut, evp) ==
  LET buf == Opened(Overwrite(f, cut), evp) IN
  /\ buf.src \in Known
  /\ CrcOk(buf)
  /\ buf.body.cmd \notin DOMAIN Answer
  /\ rxbuf' = buf
  /\ reply' = None
  /\ Remember(f, cut, buf, evp)

\* Mutant of Respond: the frame is decrypted into another buffer.
RespondFromCopy(f, cut, evp) ==
  LET buf == Opened(Overwrite(f, cut), evp) IN
  /\ buf.src \in Known
  /\ CrcOk(buf)
  /\ buf.body.cmd \in DOMAIN Answer
  /\ rxbuf' = Overwrite(f, cut)
  /\ \E ok \in BOOLEAN : reply' = ReplyTo(buf, ok)
  /\ Remember(f, cut, buf, evp)

\* A request is answered.
Respond(f, cut, evp) ==
  LET buf == Opened(Overwrite(f, cut), evp) IN
  /\ buf.src \in Known
  /\ CrcOk(buf)
  /\ buf.body.cmd \in DOMAIN Answer
  /\ rxbuf' = buf
  /\ \E ok \in BOOLEAN : reply' = ReplyTo(buf, ok)
  /\ Remember(f, cut, buf, evp)

Receive(f, cut, evp) ==
  \/ CrcFail(f, cut, evp) \/ NoResponse(f, cut, evp) \/ Respond(f, cut, evp)

ReceiveNext ==
  \/ Nothing
  \/ \E f \in AirFrame, cut \in Cuts :
       \/ UnknownDevice(f, cut)
       \/ \E evp \in DecryptOutcomes(Overwrite(f, cut)) : Receive(f, cut, evp)

ReceiveSpec == ReceiveInit /\ [][ReceiveNext]_receiveVars

-----------------------------------------------------------------------------
(* Properties *)

ReceiveTypeOK ==
  /\ rxbuf \in Buffer
  /\ reply \in Reply \cup {None}
  /\ whole \in AirFrame \cup {None}
  /\ opened \in 0 .. 2
  /\ botched \in BOOLEAN

\* m is what a body says, in clear or encrypted.
Carries(body, m) == body = m \/ (body \in Cipher /\ body.msg = m)

\* Whatever short, damaged or stale data recvfrom leaves in rxbuf, a reply
\* answers a message that the latest frame received in full carried, and goes
\* to the address, with the encryption, the CRC of that message vouches for: a
\* frame is never pieced together from two senders' bytes, as long as the CRC
\* matches nothing but what it was made over.
AnswersLatestFrame ==
  reply # None =>
    /\ whole # None
    /\ \E m \in Message :
         /\ Carries(whole.body, m)
         /\ m.src = reply.dst
         /\ m.enc = reply.enc
         /\ m.cmd \in DOMAIN Answer /\ reply.cmd = Answer[m.cmd]
         /\ reply.ctr % CtrHalf = m.ctr % CtrHalf

\* An encrypted frame is answered at most once for each time it arrives in
\* full, although its plaintext stays behind in rxbuf: short datagrams cannot
\* make the gateway answer it again, unless decryptPacket, whose result is not
\* looked at, leaves that plaintext alone.  (A frame in clear may well be
\* answered again; nothing in the code prevents that.)
CipherAnsweredOnce == opened <= 1 \/ botched
===============================================================================
