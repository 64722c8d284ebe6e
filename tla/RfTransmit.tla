------------------------------ MODULE RfTransmit ------------------------------
(***************************************************************************)
(* The transmit side of the gateway: rfEnqueuePacket (rf.c) as it is run   *)
(* at the same time by the UDP listener thread (udp.c) and by one thread   *)
(* per WebSocket client (ws.c).  None of them takes a lock.  They share    *)
(* the heap the packets are allocated from, the per-device counter         *)
(* dev->ctr and the radio socket.                                          *)
(*                                                                         *)
(* One action is one stretch of code between two accesses to shared state. *)
(* `dev->ctr++` is a load followed by a store.  A packet is a heap cell    *)
(* plus the request it carries; payload, CRC and encryption are left out   *)
(* here.                                                                   *)
(***************************************************************************)
EXTENDS Integers, Sequences, FiniteSets

CONSTANTS UdpThread,   \* the thread running udpListener
          WsThreads,   \* the threads running wsRecvThread
          Devices,     \* addresses registered in rf.devices
          Strangers,   \* addresses that are not registered
          Packets,     \* heap cells for RfPacket_t
          CtrMod,      \* number of values of the uint8_t ctr (256 in the code)
          MaxRequests, \* bound: requests taken in during a behaviour
          None

Threads   == {UdpThread} \cup WsThreads
Addresses == Devices \cup Strangers
CtrValues == 0 .. (CtrMod - 1)

\* What arrives from a client.  `whole` says that at least the I_DATA header
\* bytes were received: txbuf is filled from packet->len bytes only, and what
\* lies beyond them is whatever the stack held.
Request == [dst : Addresses, whole : BOOLEAN]

ASSUME TransmitAssumption ==
  /\ UdpThread \notin WsThreads
  /\ Devices \cap Strangers = {}
  /\ CtrMod \in Nat \ {0}
  /\ MaxRequests \in Nat
  /\ None \notin Packets
  /\ None \notin Request

\* What is handed to send().  `seq` is not on the wire: it numbers the uses of
\* one device's counter in the order of their loads.
Frame == [dst : Addresses, whole : BOOLEAN, ctr : CtrValues, seq : Nat]

VARIABLES
  pc,       \* where each thread is
  pkt,      \* the packet each thread holds, or None
  req,      \* the request in that packet
  reg,      \* the counter value a thread has loaded from dev->ctr
  heap,     \* the allocated packets
  ctr,      \* dev->ctr of every registered device
  air,      \* the frames passed to send(), in order
  received, \* number of requests taken in, bounded by MaxRequests
  \* History, for the properties only:
  issued,   \* per device, how many times its counter was loaded
  seqOf,    \* the number of a thread's latest load
  raced,    \* devices whose counter was loaded while another thread was
            \* between its load and its store
  orphans   \* packets dropped because their destination is not registered

code    == <<pc, pkt, req, reg, heap, ctr, air, received>>
history == <<issued, seqOf, raced, orphans>>
vars    == <<pc, pkt, req, reg, heap, ctr, air, received,
             issued, seqOf, raced, orphans>>

Init ==
  /\ pc = [t \in Threads |-> "loop"]
  /\ pkt = [t \in Threads |-> None]
  /\ req = [t \in Threads |-> None]
  /\ reg = [t \in Threads |-> 0]
  /\ heap = {}
  /\ ctr = [d \in Devices |-> 0]
  /\ air = <<>>
  /\ received = 0
  /\ issued = [d \in Devices |-> 0]
  /\ seqOf = [t \in Threads |-> 0]
  /\ raced = {}
  /\ orphans = {}

-----------------------------------------------------------------------------
(* The callers *)

\* udpListener: calloc, before the datagram is there.  When calloc returns
\* NULL the loop starts over with nothing changed.
UdpAlloc ==
  /\ pc[UdpThread] = "loop"
  /\ \E p \in Packets \ heap :
        /\ heap' = heap \cup {p}
        /\ pkt' = [pkt EXCEPT ![UdpThread] = p]
  /\ pc' = [pc EXCEPT ![UdpThread] = "recv"]
  /\ UNCHANGED <<req, reg, ctr, air, received, history>>

\* udpListener: recvfrom returns a datagram, rfEnqueuePacket is entered.
UdpRecv ==
  /\ pc[UdpThread] = "recv"
  /\ received < MaxRequests
  /\ \E r \in Request : req' = [req EXCEPT ![UdpThread] = r]
  /\ received' = received + 1
  /\ pc' = [pc EXCEPT ![UdpThread] = "lookup"]
  /\ UNCHANGED <<pkt, reg, heap, ctr, air, history>>

\* udpListener: recvfrom fails, the packet is freed.
UdpRecvFails ==
  /\ pc[UdpThread] = "recv"
  /\ heap' = heap \ {pkt[UdpThread]}
  /\ pkt' = [pkt EXCEPT ![UdpThread] = None]
  /\ pc' = [pc EXCEPT ![UdpThread] = "loop"]
  /\ UNCHANGED <<req, reg, ctr, air, received, history>>

\* wsRecvThread: a text frame has been decoded, calloc succeeds,
\* rfEnqueuePacket is entered.
WsText(t) ==
  /\ pc[t] = "loop"
  /\ received < MaxRequests
  /\ \E p \in Packets \ heap :
        /\ heap' = heap \cup {p}
        /\ pkt' = [pkt EXCEPT ![t] = p]
  /\ \E r \in Request : req' = [req EXCEPT ![t] = r]
  /\ received' = received + 1
  /\ pc' = [pc EXCEPT ![t] = "lookup"]
  /\ UNCHANGED <<reg, ctr, air, history>>

\* wsRecvThread: calloc returns NULL, the client is answered with an error.
WsRefuse(t) ==
  /\ pc[t] = "loop"
  /\ received < MaxRequests
  /\ received' = received + 1
  /\ UNCHANGED <<pc, pkt, req, reg, heap, ctr, air, history>>

-----------------------------------------------------------------------------
(* rfEnqueuePacket *)

\* Back in the caller's loop, its local variables dead.
Return(t) ==
  /\ pkt' = [pkt EXCEPT ![t] = None]
  /\ req' = [req EXCEPT ![t] = None]
  /\ pc' = [pc EXCEPT ![t] = "loop"]

\* hashmap_get finds the destination.
LookupHit(t) ==
  /\ pc[t] = "lookup"
  /\ req[t].dst \in Devices
  /\ pc' = [pc EXCEPT ![t] = "load"]
  /\ UNCHANGED <<pkt, req, reg, heap, ctr, air, received, history>>

\* Mutant of LookupMiss: a registered destination may be missed, too.
LookupMissAny(t) ==
  /\ pc[t] = "lookup"
  /\ orphans' = orphans \cup {pkt[t]}
  /\ Return(t)
  /\ UNCHANGED <<reg, heap, ctr, air, received, issued, seqOf, raced>>

\* hashmap_get finds nothing: return 1.  Neither rfEnqueuePacket nor a caller
\* frees the packet, and both callers ignore the result.
LookupMiss(t) ==
  /\ pc[t] = "lookup"
  /\ req[t].dst \notin Devices
  /\ orphans' = orphans \cup {pkt[t]}
  /\ Return(t)
  /\ UNCHANGED <<reg, heap, ctr, air, received, issued, seqOf, raced>>

\* dev->ctr++, the load.
LoadCtr(t) ==
  LET d == req[t].dst IN
  /\ pc[t] = "load"
  /\ reg' = [reg EXCEPT ![t] = ctr[d]]
  /\ seqOf' = [seqOf EXCEPT ![t] = issued[d]]
  /\ issued' = [issued EXCEPT ![d] = @ + 1]
  /\ raced' = IF \E u \in Threads : pc[u] = "store" /\ req[u].dst = d
               THEN raced \cup {d} ELSE raced
  /\ pc' = [pc EXCEPT ![t] = "store"]
  /\ UNCHANGED <<pkt, req, heap, ctr, air, received, orphans>>

\* Mutant of StoreCtr: a counter that does not wrap.
StoreCtrWide(t) ==
  /\ pc[t] = "store"
  /\ ctr' = [ctr EXCEPT ![req[t].dst] = reg[t] + 1]
  /\ pc' = [pc EXCEPT ![t] = "send"]
  /\ UNCHANGED <<pkt, req, reg, heap, air, received, history>>

\* Mutant of StoreCtr: a counter that wraps one value early.
StoreCtrShort(t) ==
  /\ pc[t] = "store"
  /\ ctr' = [ctr EXCEPT ![req[t].dst] = (reg[t] + 1) % (CtrMod - 1)]
  /\ pc' = [pc EXCEPT ![t] = "send"]
  /\ UNCHANGED <<pkt, req, reg, heap, air, received, history>>

\* dev->ctr++, the store, modulo the width of uint8_t.
StoreCtr(t) ==
  /\ pc[t] = "store"
  /\ ctr' = [ctr EXCEPT ![req[t].dst] = (reg[t] + 1) % CtrMod]
  /\ pc' = [pc EXCEPT ![t] = "send"]
  /\ UNCHANGED <<pkt, req, reg, heap, air, received, history>>

\* What txbuf may hold.  A packet without a complete header leaves stack
\* contents in the fields that were not copied.
TxFrames(t) ==
  {f \in [dst : Addresses, whole : {req[t].whole}, ctr : CtrValues,
          seq : {seqOf[t]}] :
     f.whole => f.dst = req[t].dst /\ f.ctr = reg[t]}

\* Mutant of Send: the packet is not freed.
SendKeepsPacket(t) ==
  /\ pc[t] = "send"
  /\ \E f \in TxFrames(t) : air' = Append(air, f)
  /\ reg' = [reg EXCEPT ![t] = 0]
  /\ seqOf' = [seqOf EXCEPT ![t] = 0]
  /\ Return(t)
  /\ UNCHANGED <<heap, ctr, received, issued, raced, orphans>>

\* Copy to txbuf, free the packet, complete the frame and send() it.
Send(t) ==
  /\ pc[t] = "send"
  /\ heap' = heap \ {pkt[t]}
  /\ \E f \in TxFrames(t) : air' = Append(air, f)
  /\ reg' = [reg EXCEPT ![t] = 0]
  /\ seqOf' = [seqOf EXCEPT ![t] = 0]
  /\ Return(t)
  /\ UNCHANGED <<ctr, received, issued, raced, orphans>>

EnqueueStep(t) ==
  \/ LookupHit(t) \/ LookupMiss(t)
  \/ LoadCtr(t) \/ StoreCtr(t) \/ Send(t)

-----------------------------------------------------------------------------

Next ==
  \/ UdpAlloc \/ UdpRecv \/ UdpRecvFails
  \/ \E t \in WsThreads : WsText(t) \/ WsRefuse(t)
  \/ \E t \in Threads : EnqueueStep(t)

SafeSpec == Init /\ [][Next]_vars

\* A thread inside rfEnqueuePacket blocks on nothing and is scheduled.
\* Nothing is assumed of the clients.
Fairness == \A t \in Threads : WF_vars(EnqueueStep(t))

Spec == SafeSpec /\ Fairness

-----------------------------------------------------------------------------
(* Properties *)

TypeOK ==
  /\ pc \in [Threads -> {"loop", "recv", "lookup", "load", "store", "send"}]
  /\ pkt \in [Threads -> Packets \cup {None}]
  /\ req \in [Threads -> Request \cup {None}]
  /\ reg \in [Threads -> CtrValues]
  /\ heap \subseteq Packets
  /\ ctr \in [Devices -> CtrValues]
  /\ air \in Seq(Frame)
  /\ received \in 0 .. MaxRequests
  /\ issued \in [Devices -> Nat]
  /\ seqOf \in [Threads -> Nat]
  /\ raced \subseteq Devices
  /\ orphans \subseteq Packets

\* The packets some thread holds.
Held == {pkt[t] : t \in {u \in Threads : pkt[u] # None}}

\* Packet memory: a thread only works on a packet that is still allocated, no
\* two threads work on the same one, and every allocated packet that no thread
\* holds was abandoned because its destination is unknown: no path through
\* rfEnqueuePacket and its callers frees twice, uses after free, or leaks in
\* any other way.
PacketMemory ==
  /\ \A t, u \in Threads : t # u /\ pkt[t] # None => pkt[t] # pkt[u]
  /\ heap = Held \cup orphans
  /\ Held \cap orphans = {}

\* Two frames for the same device carry the same counter only when at least
\* CtrMod uses of the counter lie between them (the uint8_t has wrapped), as
\* long as no two threads were inside dev->ctr++ of that device at once.  The
\* data race is the only way the gateway repeats a counter early.
CtrReuseOnlyAfterWrap ==
  \A i, j \in DOMAIN air :
     /\ i # j
     /\ air[i].whole /\ air[j].whole
     /\ air[i].dst = air[j].dst
     /\ air[i].dst \notin raced
     /\ air[i].ctr = air[j].ctr
     => \/ air[i].seq - air[j].seq >= CtrMod
        \/ air[j].seq - air[i].seq >= CtrMod

\* With the UDP listener as the only caller of rfEnqueuePacket the frames of a
\* device reach the radio in the order of their counters, and a counter is
\* never repeated before the uint8_t wraps: without WebSocket clients neither
\* the data race nor an overtaking between increment and send() is possible.
SerialCounters ==
  \A i, j \in DOMAIN air :
     /\ i < j
     /\ air[i].whole /\ air[j].whole
     /\ air[i].dst = air[j].dst
     => /\ air[i].seq < air[j].seq
        /\ air[i].ctr = air[j].ctr => air[j].seq - air[i].seq >= CtrMod

-----------------------------------------------------------------------------
(* The abstract promise *)

\* A request is pending from the moment rfEnqueuePacket is entered until it
\* returns.
InEnqueue(t) == pc[t] \in {"lookup", "load", "store", "send"}

Promise == INSTANCE Forwarder WITH
  pending <- [t \in Threads |-> IF InEnqueue(t) THEN req[t] ELSE None],
  out <- [i \in DOMAIN air |-> [dst |-> air[i].dst, whole |-> air[i].whole]]

\* Every behaviour of the code, counters and heap hidden, is one of Forwarder:
\* a request for a registered device is sent exactly once and eventually, one
\* for an unknown address never, whatever the threads' interleaving.
PromiseKept == Promise!FSpec
===============================================================================
