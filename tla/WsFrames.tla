-------------------------------- MODULE WsFrames -------------------------------
(***************************************************************************)
(* One WebSocket connection (wsRecvThread, ws.c): frames are cut out of a  *)
(* stream of bytes, but the code takes what one recv() returns for one     *)
(* frame.  It looks at the first bytes of its buffer whether or not they   *)
(* have just arrived, waits for the rest of long frames only, and until    *)
(* the length is exactly right, and drops what arrived behind a frame.     *)
(*                                                                         *)
(* The stream is a sequence of cells, the pieces of a frame the code can   *)
(* tell apart: byte 0, the bytes from there to the mask, and the payload,  *)
(* for long frames in two cells.  A payload is what its frame says, or     *)
(* noise when header, mask and payload do not belong together.  How the    *)
(* thread is started, and errors of the connection, are in WsAccept.       *)
(***************************************************************************)
EXTENDS Integers, SequencesExt

CONSTANT Streams  \* what clients may send: sequences of kinds of frames

\* "text" and "bad" are short, with a packet in base64 or something else; "long"
\* has 126 bytes or more, and a packet; "empty" is a text without payload.
Kinds == {"text", "bad", "long", "empty", "ping", "close"}

\* Nothing is sent after a close.
ASSUME FramesAssumption ==
  \A s \in Streams :
    s \in Seq(Kinds) /\ \A k \in DOMAIN s : s[k] = "close" => k = Len(s)

\* How many cells a frame has.
Size(kind) == CASE kind \in {"text", "bad"} -> 3 [] kind = "long" -> 4 [] OTHER -> 2

\* A cell of a frame, numbered in the order of sending, or one the thread has
\* written itself: text, all below 0x80.
Cell == [frame : Nat \ {0}, part : 1 .. 4]
Own  == [frame |-> 0, part |-> 0]

\* The buffer, as far as it is ever looked at before it is filled.
BufferCells == 0 .. 3

Noise == 0    \* a packet nobody sent

VARIABLES
  pc,      \* "hello", "open" (frame loop), "frame" (a read is looked at),
           \* "refill", "payload", "lost", "closing", "dead" (the process)
  net,     \* the stream: cells not yet received
  sent,    \* kinds of the client's frames
  gone,    \* the client hangs up then
  buffer,  \* the cells in the receive buffer
  length,  \* cells received for the frame in work
  total,   \* cells the refill loop waits for
  handed,  \* frames whose packet went to rfEnqueuePacket, in order
  answers, \* what was written, [what, to]
  \* History, for the properties only:
  torn,    \* a read in the frame loop did not begin or end with a frame
  merged,  \* a read took cells of two frames
  taken,   \* the latest frame of which a cell was received
  starved  \* frames for which memory was missing

vars == <<pc, net, sent, gone, buffer, length, total, handed, answers,
          torn, merged, taken, starved>>
client == <<sent, gone>>
history == <<torn, merged, taken>>

\* The frames s as cells.
Cells(s) == FlattenSeq([k \in DOMAIN s |-> [p \in 1 .. Size(s[k]) |->
                                            [frame |-> k, part |-> p]]])

\* All the client will ever send is in the stream at once: how much of it a
\* recv() finds is left open anyway.  A client that hangs up may do so in the
\* middle of its last frame.
Init ==
  /\ pc = "hello"
  /\ sent \in Streams
  /\ gone \in BOOLEAN
  /\ \E rest \in IF gone THEN 0 .. 3 ELSE {0} :
       /\ Len(sent) > 0 => rest < Size(Last(sent))
       /\ net = SubSeq(Cells(sent), 1, Len(Cells(sent)) - rest)
  /\ buffer = [c \in BufferCells |-> Own]
  /\ length = 0 /\ total = 0
  /\ handed = <<>> /\ answers = <<>>
  /\ torn = FALSE /\ merged = FALSE
  /\ taken = 0
  /\ starved = {}

-----------------------------------------------------------------------------
(* The handshake *)

\* The first read.  It is not a GET, or has not got that far, and the thread
\* ends; it is a whole request and answered; or it is a part of one, and the
\* search for its empty line runs into a null pointer.  The answered one ends
\* with free() of a pointer into the buffer, which a heap may notice.
Hello ==
  /\ pc = "hello"
  /\ pc' \in {"closing", "open", "dead"}
  /\ UNCHANGED <<net, client, buffer, length, total, handed, answers, history, starved>>

-----------------------------------------------------------------------------
(* Reading *)

Kind(cell) == sent[cell.frame]

\* Cell c is the last one of its frame.
Final(cell) == cell.part = Size(Kind(cell))

\* The buffer with cells put from position `at` on.
Filled(at, cells) ==
  [c \in BufferCells |-> IF c - at + 1 \in DOMAIN cells THEN cells[c - at + 1]
                         ELSE buffer[c]]

\* recv() in the frame loop: the first n cells of what has arrived.
Recv(n) ==
  LET first == net[1]
      last  == net[n]
      split == ~Final(last) /\ ~(Kind(last) = "long" /\ last.part >= 2)
  IN
  /\ pc = "open" /\ n <= Len(net)
  /\ buffer' = Filled(0, SubSeq(net, 1, n))
  /\ length' = n
  /\ net' = SubSeq(net, n + 1, Len(net))
  /\ pc' = "frame"
  /\ torn' = (torn \/ first.part # 1 \/ split)
  /\ merged' = (merged \/ first.frame # last.frame)
  /\ taken' = last.frame
  /\ UNCHANGED <<client, total, handed, answers, starved>>

\* Mutant of Refill: the rest is stored at the start of the buffer.
RefillAtStart(n) ==
  /\ pc = "refill" /\ n <= Len(net)
  /\ buffer' = Filled(0, SubSeq(net, 1, n))
  /\ length' = length + n
  /\ net' = SubSeq(net, n + 1, Len(net))
  /\ pc' = CASE length' = total -> "payload" [] length' < total -> "refill" [] OTHER -> "lost"
  /\ merged' = (merged \/ net[n].frame # buffer[0].frame)
  /\ taken' = net[n].frame
  /\ UNCHANGED <<client, total, handed, answers, torn, starved>>

\* Mutant of Refill: more than the frame is waited for.
RefillPast(n) ==
  /\ pc = "refill" /\ n <= Len(net)
  /\ buffer' = Filled(length, SubSeq(net, 1, n))
  /\ length' = length + n
  /\ net' = SubSeq(net, n + 1, Len(net))
  /\ pc' = IF length' > total THEN "payload" ELSE "refill"
  /\ merged' = (merged \/ net[n].frame # buffer[0].frame)
  /\ taken' = net[n].frame
  /\ UNCHANGED <<client, total, handed, answers, torn, starved>>

\* recv() in the refill loop, which ends at the exact length only.
Refill(n) ==
  /\ pc = "refill" /\ n <= Len(net)
  /\ buffer' = Filled(length, SubSeq(net, 1, n))
  /\ length' = length + n
  /\ net' = SubSeq(net, n + 1, Len(net))
  /\ pc' = CASE length' = total -> "payload" [] length' < total -> "refill" [] OTHER -> "lost"
  /\ merged' = (merged \/ net[n].frame # buffer[0].frame)
  /\ taken' = net[n].frame
  /\ UNCHANGED <<client, total, handed, answers, torn, starved>>

\* recv() returns 0.
RecvEnds ==
  /\ gone /\ net = <<>>
  /\ \/ pc = "open" /\ pc' = "closing"
     \/ pc = "refill" /\ pc' = "lost"
  /\ UNCHANGED <<net, client, buffer, length, total, handed, answers, history, starved>>

-----------------------------------------------------------------------------
(* The header *)

\* What the low bits of byte 0 may say.  A cell that is not the first of a frame
\* is masked: any byte.
Opcodes(cell) ==
  IF cell.part # 1 THEN {"text", "ping", "close"}
  ELSE IF Kind(cell) \in {"ping", "close"} THEN {Kind(cell)} ELSE {"text"}

\* What the length in byte 1 may say: none or not masked, short, or long.
Lengths(cell) ==
  CASE cell = Own -> {"none"}
    [] cell.part = 2 -> CASE Kind(cell) \in {"text", "bad"} -> {"short"}
                          [] Kind(cell) = "long"            -> {"long"}
                          [] OTHER                          -> {"none"}
    [] OTHER -> {"none", "short", "long"}

\* The frame that is looked at, for the record of answers.
Looked == buffer[0].frame

Says(opcode) == pc = "frame" /\ opcode \in Opcodes(buffer[0])

Close ==
  /\ Says("close")
  /\ answers' = Append(answers, [what |-> "close", to |-> Looked])
  /\ pc' = "closing"
  /\ UNCHANGED <<net, client, buffer, length, total, handed, history, starved>>

\* Back to the top of the frame loop; what length and total were no longer counts.
Again == pc' = "open" /\ length' = 0 /\ total' = 0

\* Mutant of Pong: nothing is written.
PongSilent ==
  /\ Says("ping")
  /\ Again
  /\ UNCHANGED <<net, client, buffer, handed, answers, history, starved>>

\* The whole read goes back with another opcode.
Pong ==
  /\ Says("ping")
  /\ answers' = Append(answers, [what |-> "pong", to |-> Looked])
  /\ Again
  /\ UNCHANGED <<net, client, buffer, handed, history, starved>>

Ignored ==
  /\ Says("text") /\ "none" \in Lengths(buffer[1])
  /\ Again
  /\ UNCHANGED <<net, client, buffer, handed, answers, history, starved>>

\* A short frame is taken to be there.
Short ==
  /\ Says("text") /\ "short" \in Lengths(buffer[1])
  /\ pc' = "payload"
  /\ UNCHANGED <<net, client, buffer, length, total, handed, answers, history, starved>>

\* Mutant of Totals: the header is not counted.
TotalsShort == IF buffer[1].part = 2 THEN {2} ELSE {length - 2, length - 1, length}

\* The size of a long frame; any, when the header is noise.
Totals == IF buffer[1].part = 2 THEN {4} ELSE {length - 1, length, length + 1}

Long ==
  /\ Says("text") /\ "long" \in Lengths(buffer[1])
  /\ total' \in Totals
  /\ pc' = CASE length = total' -> "payload" [] length < total' -> "refill" [] OTHER -> "lost"
  /\ UNCHANGED <<net, client, buffer, length, handed, answers, history, starved>>

-----------------------------------------------------------------------------
(* The payload *)

\* The frame whose payload is in the buffer behind its own header, or noise.
Payload ==
  LET h == buffer[1] IN
  IF /\ h.part = 2
     /\ Kind(h) \in {"text", "bad", "long"}
     /\ \A p \in 3 .. Size(Kind(h)) : buffer[p - 1] = [frame |-> h.frame, part |-> p]
  THEN h.frame ELSE Noise

\* Whether it may be base64.
Decodable == IF Payload = Noise THEN BOOLEAN ELSE {sent[Payload] # "bad"}

\* The answer is laid out in the buffer; it covers a short frame.
Answered == [c \in BufferCells |-> IF c <= 2 THEN Own ELSE buffer[c]]

\* No memory for the decoded payload: nothing happens.
NoMemory ==
  /\ pc = "payload"
  /\ starved' = starved \cup {Looked}
  /\ Again
  /\ UNCHANGED <<net, client, buffer, handed, answers, history>>

\* EVP_DecodeBlock returns -1, taken for the length of what is read next.
NotBase64 ==
  /\ pc = "payload"
  /\ FALSE \in Decodable
  /\ pc' = "dead"
  /\ UNCHANGED <<net, client, buffer, length, total, handed, answers, history, starved>>

Decodes == pc = "payload" /\ TRUE \in Decodable

\* No memory for the packet.
Refused ==
  /\ Decodes
  /\ answers' = Append(answers, [what |-> "403", to |-> Looked])
  /\ buffer' = Answered
  /\ Again
  /\ UNCHANGED <<net, client, handed, history, starved>>

\* rfEnqueuePacket, whose result is not looked at, and the answer.
Handed ==
  /\ Decodes
  /\ handed' = Append(handed, Payload)
  /\ answers' = Append(answers, [what |-> "202", to |-> Looked])
  /\ buffer' = Answered
  /\ Again
  /\ UNCHANGED <<net, client, history, starved>>

-----------------------------------------------------------------------------

FrameStep == Close \/ Pong \/ Ignored \/ Short \/ Long
PayloadStep == NoMemory \/ NotBase64 \/ Refused \/ Handed

ThreadStep ==
  \/ \E n \in 1 .. Len(net) : Recv(n) \/ Refill(n)
  \/ RecvEnds \/ FrameStep \/ PayloadStep

Next == Hello \/ ThreadStep

SafeSpec == Init /\ [][Next]_vars

\* What has been sent arrives, in pieces of any size, and the thread is
\* scheduled.  Nothing is assumed of the client.
Spec == SafeSpec /\ WF_vars(ThreadStep)

-----------------------------------------------------------------------------
(* Properties *)

TypeOK ==
  /\ pc \in {"hello", "open", "frame", "refill", "payload", "lost", "closing", "dead"}
  /\ net \in Seq(Cell)
  /\ sent \in Streams
  /\ buffer \in [BufferCells -> Cell \cup {Own}]
  /\ length \in Nat /\ total \in Nat
  /\ handed \in Seq(0 .. Len(sent))
  /\ answers \in Seq([what : {"close", "pong", "202", "403"}, to : 1 .. Len(sent)])
  /\ {gone, torn, merged} \subseteq BOOLEAN
  /\ taken \in 0 .. Len(sent)
  /\ starved \subseteq 1 .. Len(sent)

\* The answer a frame may get.
Fits(what, kind) ==
  CASE what = "close" -> kind = "close"
    [] what = "pong"  -> kind = "ping"
    [] OTHER          -> kind \in {"text", "long"}

Increasing(s) == \A i, j \in DOMAIN s : i < j => s[i] < s[j]

\* As long as no read cuts a frame (the rest of a long one, after its header,
\* may come later), what reaches rfEnqueuePacket is the packets of the client's
\* text frames, in order and none twice, and what the client reads are answers to
\* its frames, of the right kind, in order, one each; 202 stands for a packet
\* handed on.  Only cut frames mix old bytes of the buffer with new ones.
InStep ==
  ~torn =>
    LET to == [i \in DOMAIN answers |-> answers[i].to] IN
    /\ Increasing(handed) /\ Increasing(to)
    /\ \A i \in DOMAIN handed : handed[i] # Noise /\ sent[handed[i]] \in {"text", "long"}
    /\ \A i \in DOMAIN answers : Fits(answers[i].what, sent[to[i]])
    /\ ToSet(handed) = {to[i] : i \in {j \in DOMAIN answers : answers[j].what = "202"}}

\* As long as no read takes two frames either, each frame received was answered
\* when the thread waits for the next, unless there is nothing in it or memory was
\* missing: frames are lost only behind another one in the same read.
NoneDropped ==
  pc = "open" /\ ~torn /\ ~merged =>
    \A k \in 1 .. taken :
      \/ \E i \in DOMAIN answers : answers[i].to = k
      \/ sent[k] = "empty"
      \/ k \in starved

MostFrames == Max({Len(s) : s \in Streams})

\* After the handshake every frame is dealt with in the end: received, and the
\* thread waits for the next one or has ended, unless a read cut or merged frames
\* or the client hung up.  In particular the refill loop ends for frames that come
\* alone.
FramesDealt ==
  \A k \in 1 .. MostFrames :
    pc = "open" /\ k <= Len(sent) ~>
      \/ taken >= k /\ pc = "open"
      \/ pc \in {"closing", "dead"}
      \/ torn \/ merged \/ gone
===============================================================================
