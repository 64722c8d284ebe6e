--------------------------------- MODULE RfLink --------------------------------
(***************************************************************************)
(* Several gateways and devices on one air.  Gateways run rfEnqueuePacket  *)
(* for their clients and rfRecvThread for what they hear; the devices are  *)
(* not part of this repository and send what they like, each with its own  *)
(* key.                                                                    *)
(*                                                                         *)
(* Which key a frame is encrypted with is decided in two places: by        *)
(* the destination when sending, where the own key is taken for serial     *)
(* numbers with a non-zero top nibble (gateways), and by the source when   *)
(* receiving.  The destination of a received frame is not looked at.       *)
(*                                                                         *)
(* The air is the set of frames sent so far: each may be heard by anybody  *)
(* in any order, again and again, or never.  How a frame is damaged or     *)
(* mixed with older ones is in RfFrame and RfReceive, races on a counter   *)
(* are in RfTransmit.                                                      *)
(***************************************************************************)
EXTENDS Integers

CONSTANTS Gateways, Devices, \* addresses
          Keys,
          Key,         \* every node's own key
          Tables,      \* configurations: what a gateway knows
          CtrHalf,     \* half the number of counter values (0x80 in the code)
          Commands,    \* what the nodes send
          Packets,     \* what clients hand to a gateway
          DeviceFrames, \* what devices send
          Failing,     \* bound: the gateways where encrypting and decrypting may fail
          MaxRequests, \* bound: the requests every node sends
          MaxRestarts, \* bound: the restarts of every gateway
          None

Nodes == Gateways \cup Devices
CtrValues == 0 .. (2 * CtrHalf - 1)

\* A configuration: which nodes a gateway knows, and the key it has for them.
Table == [Gateways -> [known : SUBSET Nodes, key : [Nodes -> Keys]]]

ASSUME LinkAssumption ==
  /\ Gateways \cap Devices = {}
  /\ Key \in [Nodes -> Keys]
  /\ Tables \subseteq Table
  /\ CtrHalf \in Nat \ {0}
  /\ Packets \subseteq [dst : Nodes, enc : BOOLEAN, cmd : Commands]
  /\ DeviceFrames \subseteq
       [dst : Gateways, enc : BOOLEAN, cmd : Commands, ctr : CtrValues]
  /\ Failing \subseteq Gateways
  /\ MaxRequests \in [Nodes -> Nat] /\ MaxRestarts \in [Gateways -> Nat]
  /\ None \notin Keys

\* The switch of rfRecvThread.
Answer == [C_DISCOVER  |-> "C_DISCOVER_RESP",
           C_READ_REG  |-> "C_RW_RESP",
           C_WRITE_REG |-> "C_RW_RESP",
           C_NOTIFY    |-> "C_ACK",
           C_POLL      |-> "C_ACK"]

Responses == {Answer[c] : c \in DOMAIN Answer}

\* `key` is what the body was encrypted with, None for a body in clear.  Not on
\* the wire: whether a frame is an answer, and for the request of a gateway, how
\* often it was started and how many packets to that node went before it.
Frame == [src : Nodes, dst : Nodes, enc : BOOLEAN, key : Keys \cup {None},
          cmd : Commands \cup Responses, ctr : CtrValues,
          answer : BOOLEAN, life : Nat, seq : Nat]

VARIABLES
  table,    \* the configurations of the gateways
  ctr,      \* dev->ctr of every gateway and node
  air,      \* the frames sent
  requests, \* how many of them are requests of which node
  \* History, for the properties only:
  life,     \* how often a gateway was restarted
  seq       \* the packets it has sent to a node since

vars == <<table, ctr, air, requests, life, seq>>

Init ==
  /\ table \in Tables
  /\ ctr = [g \in Gateways |-> [n \in Nodes |-> 0]]
  /\ air = {}
  /\ requests = [n \in Nodes |-> 0]
  /\ life = [g \in Gateways |-> 0]
  /\ seq = [g \in Gateways |-> [n \in Nodes |-> 0]]

-----------------------------------------------------------------------------

\* Mutant of KeyFor: always the key of the other side.
KeyForOther(g, n) == table[g].key[n]

\* The key for a frame to n: if (dev->sn & 0xF0000000) dev = rf.gw.
KeyFor(g, n) == IF n \in Gateways THEN Key[g] ELSE table[g].key[n]

\* encryptPacket, if asked for.  When it fails the body stays in clear.
Sealed(g, enc, key) ==
  IF enc THEN {key} \cup (IF g \in Failing THEN {None} ELSE {}) ELSE {None}

\* Mutant of NextCtr: the counter stays.
NextCtrSame(c) == c

NextCtr(c) == (c + 1) % (2 * CtrHalf)

Request(g, p, k) ==
  [src |-> g, dst |-> p.dst, enc |-> p.enc, key |-> k, cmd |-> p.cmd,
   ctr |-> ctr[g][p.dst], answer |-> FALSE, life |-> life[g], seq |-> seq[g][p.dst]]

\* rfEnqueuePacket for a client's packet p.
Enqueue(g, p) ==
  /\ requests[g] < MaxRequests[g]
  /\ p.dst \in table[g].known
  /\ \E k \in Sealed(g, p.enc, KeyFor(g, p.dst)) :
       air' = air \cup {Request(g, p, k)}
  /\ ctr' = [ctr EXCEPT ![g][p.dst] = NextCtr(@)]
  /\ seq' = [seq EXCEPT ![g][p.dst] = @ + 1]
  /\ requests' = [requests EXCEPT ![g] = @ + 1]
  /\ UNCHANGED <<table, life>>

DeviceFrame(d, p) ==
  [src |-> d, dst |-> p.dst, enc |-> p.enc, key |-> IF p.enc THEN Key[d] ELSE None,
   cmd |-> p.cmd, ctr |-> p.ctr, answer |-> FALSE, life |-> 0, seq |-> 0]

\* A device sends a request to a gateway.
DeviceSends(d, p) ==
  /\ requests[d] < MaxRequests[d]
  /\ air' = air \cup {DeviceFrame(d, p)}
  /\ requests' = [requests EXCEPT ![d] = @ + 1]
  /\ UNCHANGED <<table, ctr, life, seq>>

\* Mutant of Opens: what is encrypted is accepted as it is.
OpensAny(g, f) == TRUE

\* What g hears may match its CRC: in clear, or decrypted with the key that g has
\* for the source.  When decryptPacket fails, which g does not notice, the body
\* stays as it came: one that a failed encryption left in clear then matches.
Opens(g, f) ==
  \/ ~f.enc
  \/ f.key = table[g].key[f.src]
  \/ f.key = None /\ g \in Failing

Accepts(g, f) == f \in air /\ f.src # g /\ f.src \in table[g].known /\ Opens(g, f)

\* Mutant of ReplyCtr: the bit is added, not set.
ReplyCtrAdded(c) == c + CtrHalf

\* The counter of an answer: the request's with the top bit set.
ReplyCtr(c) == IF c < CtrHalf THEN c + CtrHalf ELSE c

Reply(g, f, k) ==
  [src |-> g, dst |-> f.src, enc |-> f.enc, key |-> k, cmd |-> Answer[f.cmd],
   ctr |-> ReplyCtr(f.ctr), answer |-> TRUE, life |-> 0, seq |-> 0]

\* A request is answered, whoever it was for.  What is not accepted, and a
\* command that is not in the switch, changes nothing.
Hear(g, f) ==
  /\ Accepts(g, f)
  /\ f.cmd \in DOMAIN Answer
  /\ \E k \in Sealed(g, f.enc, KeyFor(g, f.src)) :
       air' = air \cup {Reply(g, f, k)}
  /\ UNCHANGED <<table, ctr, requests, life, seq>>

\* A gateway is started again: configParse sets all counters to 0.
Restart(g) ==
  /\ life[g] < MaxRestarts[g]
  /\ ctr' = [ctr EXCEPT ![g] = [n \in Nodes |-> 0]]
  /\ life' = [life EXCEPT ![g] = @ + 1]
  /\ seq' = [seq EXCEPT ![g] = [n \in Nodes |-> 0]]
  /\ UNCHANGED <<table, air, requests>>

Next ==
  \/ \E g \in Gateways :
       \/ \E p \in Packets : Enqueue(g, p)
       \/ \E f \in air : Hear(g, f)
       \/ Restart(g)
  \/ \E d \in Devices, p \in DeviceFrames : DeviceSends(d, p)

Spec == Init /\ [][Next]_vars

-----------------------------------------------------------------------------
(* Properties *)

TypeOK ==
  /\ table \in Tables
  /\ ctr \in [Gateways -> [Nodes -> CtrValues]]
  /\ air \subseteq Frame
  /\ requests \in [Nodes -> Nat] /\ \A n \in Nodes : requests[n] <= MaxRequests[n]
  /\ life \in [Gateways -> Nat] /\ \A g \in Gateways : life[g] <= MaxRestarts[g]
  /\ seq \in [Gateways -> [Nodes -> Nat]]

\* A gateway has the right key for a node; nodes that are not gateways know theirs.
Knows(g, n) == g \in Gateways => table[g].key[n] = Key[n]

\* The node a frame is for can decrypt it, be it a request or an answer, to a
\* device or to a gateway, when either side has the other's own key; except when
\* the encryption failed, which the sender does not notice.  So what a table has
\* to hold for a gateway is that gateway's own key.
AddresseeOpens ==
  \A f \in air :
    f.enc /\ f.key # None /\ Knows(f.src, f.dst) /\ Knows(f.dst, f.src) =>
      f.key = (IF f.dst \in Gateways THEN table[f.dst].key[f.src] ELSE Key[f.dst])

\* Every node has a key of its own, and every gateway knows it.
KeysRight ==
  /\ \A m, n \in Nodes : Key[m] = Key[n] => m = n
  /\ \A g \in Gateways, n \in Nodes : Knows(g, n)

\* What gateway g can read, by who sent f to whom: everything in clear; what is
\* encrypted, unless a gateway sent it to a device; and what only says so, when
\* decrypting it fails as encrypting it did.
Readable(g, f) ==
  \/ ~f.enc
  \/ f.key = None /\ g \in Failing
  \/ f.key # None /\ (f.src \in Gateways => f.dst \in Gateways)

\* a says that it answers r.
Answers(a, r) ==
  /\ ~r.answer
  /\ r.src = a.dst /\ r.enc = a.enc
  /\ r.cmd \in DOMAIN Answer /\ a.cmd = Answer[r.cmd]
  /\ a.ctr = ReplyCtr(r.ctr)

\* The destination of a frame is not looked at, so keys alone decide who takes it
\* in.  With the right ones, a gateway that knows the sender accepts exactly what
\* is Readable, whoever it is for: also what a device sends to another gateway,
\* and what other gateways send each other.  Only what gateways send to devices is
\* kept from it, and no gateway answers that in the device's place.
WhoAnswers ==
  KeysRight =>
    /\ \A g \in Gateways, f \in air :
         f.src # g /\ f.src \in table[g].known => (Accepts(g, f) <=> Readable(g, f))
    /\ \A a \in air : a.answer =>
         \E r \in air : Answers(a, r) /\ Readable(a.src, r)

\* Every answer is to a request, with its command and counter, from a gateway that
\* accepts it.
Requested ==
  \A a \in air : a.answer => \E r \in air : Answers(a, r) /\ Accepts(a.src, r)

\* The requests of a gateway to one node for which it takes the same answer, by
\* the counter, are at least CtrHalf packets apart.
Distinguished ==
  \A a, q, r \in air :
    /\ a.answer /\ ~q.answer /\ ~r.answer /\ q # r
    /\ a.dst \in Gateways /\ q.src = a.dst /\ r.src = a.dst
    /\ q.dst = r.dst /\ q.life = r.life
    /\ a.ctr = ReplyCtr(q.ctr) /\ a.ctr = ReplyCtr(r.ctr)
    => q.seq + CtrHalf <= r.seq \/ r.seq + CtrHalf <= q.seq

\* An exchange is one request and its answers: every answer is to a request and
\* never to another answer, so none goes on by itself however often and by
\* however many gateways frames are heard; and the counter, whose top bit the
\* answer sets, tells the request apart from the CtrHalf - 1 before and after it,
\* as long as the gateway is not started again in between.
AnswersRequests == Requested /\ Distinguished
===============================================================================
