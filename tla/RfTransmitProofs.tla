--------------------------- MODULE RfTransmitProofs ---------------------------
(***************************************************************************)
(* Proofs about the transmit path: about RfTransmit, for every set of      *)
(* threads, devices and packets and every counter width; and about         *)
(* RfFrame, what the layout of a frame implies for every length byte,      *)
(* which bytes decide whether a frame is accepted, for every CRC function, *)
(* packet and old buffer, and which damage is noticed.                     *)
(***************************************************************************)
EXTENDS RfTransmit, RfFrame, TLAPS

-----------------------------------------------------------------------------
(* A counter that wraps *)

\* The quotient and the remainder of a natural number by M.
LEMMA ModFacts ==
  ASSUME NEW M \in Nat \ {0}, NEW a \in Nat
  PROVE  /\ a % M \in 0 .. (M - 1)
         /\ a \div M \in Nat
         /\ a = M * (a \div M) + (a % M)
BY SMT

\* The remainder is the only number below M at a multiple of M from a.
LEMMA ModUnique ==
  ASSUME NEW M \in Nat \ {0}, NEW a \in Nat, NEW q \in Nat,
         NEW r \in 0 .. (M - 1), a = M * q + r
  PROVE  a % M = r
BY SMT

\* Incrementing a counter of M values keeps it in step with the number of
\* increments: what dev->ctr++ does to the uint8_t.
LEMMA ModSucc ==
  ASSUME NEW M \in Nat \ {0}, NEW a \in Nat
  PROVE  ((a % M) + 1) % M = (a + 1) % M
<1> DEFINE q == a \div M
           r == a % M
<1>1. r \in 0 .. (M - 1) /\ q \in Nat /\ a = M * q + r
  BY ModFacts
<1> HIDE DEF q, r
<1>2. CASE r + 1 < M
  <2>1. /\ r + 1 \in 0 .. (M - 1)
        /\ a + 1 = M * q + (r + 1)
        /\ r + 1 = M * 0 + (r + 1)
    BY <1>1, <1>2
  <2>2. (a + 1) % M = r + 1 /\ (r + 1) % M = r + 1
    BY <2>1, <1>1, ModUnique
  <2> QED  BY <2>2 DEF r
<1>3. CASE r + 1 = M
  <2>1. /\ q + 1 \in Nat
        /\ a + 1 = M * (q + 1) + 0
        /\ r + 1 = M * 1 + 0
    BY <1>1, <1>3
  <2>2. (a + 1) % M = 0 /\ (r + 1) % M = 0
    BY <2>1, <1>1, ModUnique
  <2> QED  BY <2>2 DEF r
<1> QED  BY <1>1, <1>2, <1>3

\* Two different counts with the same counter value are a whole wrap apart.
LEMMA SameResidue ==
  ASSUME NEW M \in Nat \ {0}, NEW a \in Nat, NEW b \in Nat,
         a % M = b % M, a < b
  PROVE  b - a >= M
BY SMT

-----------------------------------------------------------------------------
(* Type correctness *)

\* A frame handed to send() is a Frame.
LEMMA TxFramesAreFrames ==
  ASSUME TypeOK, NEW t \in Threads, req[t] \in Request
  PROVE  TxFrames(t) \subseteq Frame
BY DEF TypeOK, TxFrames, Frame, Request

\* Appending keeps every element in its place and adds one behind them.
LEMMA AppendFacts ==
  ASSUME NEW S, NEW s \in Seq(S), NEW e \in S
  PROVE  /\ Append(s, e) \in Seq(S)
         /\ \A i \in DOMAIN Append(s, e) : i \in DOMAIN s \/ i = Len(s) + 1
         /\ \A i \in DOMAIN s : /\ i # Len(s) + 1
                               /\ i \in DOMAIN Append(s, e)
                               /\ Append(s, e)[i] = s[i]
         /\ Len(s) + 1 \in DOMAIN Append(s, e)
         /\ Append(s, e)[Len(s) + 1] = e
OBVIOUS

\* Every frame on the air has a use number.
LEMMA FramesTyped ==
  ASSUME TypeOK
  PROVE  \A i \in DOMAIN air : air[i] \in Frame /\ air[i].seq \in Nat
<1>1. air \in Seq(Frame)
  BY DEF TypeOK
<1>2. \A i \in DOMAIN air : air[i] \in Frame
  BY <1>1
<1>3. \A f \in Frame : f.seq \in Nat
  BY DEF Frame
<1> QED  BY <1>2, <1>3

\* What a thread holds is settled by where it is: a packet except in the
\* caller's loop, a request inside rfEnqueuePacket, a registered destination
\* once the lookup has succeeded.
PhaseInv ==
  \A t \in Threads :
    /\ pc[t] = "loop" <=> pkt[t] = None
    /\ InEnqueue(t) => req[t] \in Request
    /\ pc[t] \in {"load", "store", "send"} => req[t].dst \in Devices

\* Every variable has its type, and each thread holds what its place in the
\* code says, in every state of every interleaving.
THEOREM TypeCorrect == SafeSpec => [](TypeOK /\ PhaseInv)
<1> USE TransmitAssumption
<1>1. Init => TypeOK /\ PhaseInv
  BY DEF Init, TypeOK, PhaseInv, InEnqueue, CtrValues, Threads
<1>2. TypeOK /\ PhaseInv /\ [Next]_vars => TypeOK' /\ PhaseInv'
  <2> SUFFICES ASSUME TypeOK, PhaseInv, [Next]_vars
               PROVE  TypeOK' /\ PhaseInv'
    OBVIOUS
  <2> USE DEF TypeOK, PhaseInv, InEnqueue, history
  <2>1. CASE UdpAlloc
    BY <2>1 DEF UdpAlloc, Threads
  <2>2. CASE UdpRecv
    BY <2>2 DEF UdpRecv, Threads
  <2>3. CASE UdpRecvFails
    BY <2>3 DEF UdpRecvFails, Threads
  <2>4. ASSUME NEW t \in WsThreads, WsText(t)
        PROVE  TypeOK' /\ PhaseInv'
    BY <2>4 DEF WsText, Threads
  <2>5. ASSUME NEW t \in WsThreads, WsRefuse(t)
        PROVE  TypeOK' /\ PhaseInv'
    BY <2>5 DEF WsRefuse
  <2>6. ASSUME NEW t \in Threads, LookupHit(t)
        PROVE  TypeOK' /\ PhaseInv'
    BY <2>6 DEF LookupHit
  <2>7. ASSUME NEW t \in Threads, LookupMiss(t)
        PROVE  TypeOK' /\ PhaseInv'
    BY <2>7 DEF LookupMiss, Return
  <2>8. ASSUME NEW t \in Threads, LoadCtr(t)
        PROVE  TypeOK' /\ PhaseInv'
    BY <2>8 DEF LoadCtr
  <2>9. ASSUME NEW t \in Threads, StoreCtr(t)
        PROVE  TypeOK' /\ PhaseInv'
    <3>1. reg[t] + 1 \in Nat /\ CtrMod \in Nat \ {0}
      BY DEF CtrValues
    <3>2. (reg[t] + 1) % CtrMod \in CtrValues
      BY <3>1, ModFacts DEF CtrValues
    <3> QED  BY <2>9, <3>2 DEF StoreCtr
  <2>10. ASSUME NEW t \in Threads, Send(t)
         PROVE  TypeOK' /\ PhaseInv'
    <3>1. req[t] \in Request
      BY <2>10 DEF Send
    <3>2. air' \in Seq(Frame)
      BY <2>10, <3>1, TxFramesAreFrames DEF Send
    <3>3. 0 \in CtrValues
      BY DEF CtrValues
    <3> QED  BY <2>10, <3>2, <3>3 DEF Send, Return
  <2>11. CASE UNCHANGED vars
    BY <2>11 DEF vars
  <2> QED  BY <2>1, <2>2, <2>3, <2>4, <2>5, <2>6, <2>7, <2>8, <2>9, <2>10,
              <2>11 DEF Next, EnqueueStep
<1> QED  BY <1>1, <1>2, PTL DEF SafeSpec

-----------------------------------------------------------------------------
(* Packet memory *)

\* Every packet is held by at most one thread, an allocated packet that no
\* thread holds is one whose destination was not registered, and no thread
\* holds a packet that has been freed, for any number of threads and cells.
THEOREM PacketMemorySafe == SafeSpec => []PacketMemory
<1> USE TransmitAssumption
<1>1. Init => PacketMemory
  BY DEF Init, PacketMemory, Held
<1>2. /\ TypeOK /\ PhaseInv /\ PacketMemory
      /\ [Next]_vars
      => PacketMemory'
  <2> SUFFICES ASSUME TypeOK, PhaseInv, PacketMemory, [Next]_vars
               PROVE  PacketMemory'
    OBVIOUS
  <2> USE DEF TypeOK, PhaseInv, PacketMemory, Held, InEnqueue, history
  <2>1. CASE UdpAlloc
    BY <2>1 DEF UdpAlloc, Threads
  <2>2. CASE UdpRecv
    BY <2>2 DEF UdpRecv
  <2>3. CASE UdpRecvFails
    BY <2>3 DEF UdpRecvFails, Threads
  <2>4. ASSUME NEW t \in WsThreads, WsText(t)
        PROVE  PacketMemory'
    BY <2>4 DEF WsText, Threads
  <2>5. ASSUME NEW t \in WsThreads, WsRefuse(t)
        PROVE  PacketMemory'
    BY <2>5 DEF WsRefuse
  <2>6. ASSUME NEW t \in Threads, LookupHit(t)
        PROVE  PacketMemory'
    BY <2>6 DEF LookupHit
  <2>7. ASSUME NEW t \in Threads, LookupMiss(t)
        PROVE  PacketMemory'
    BY <2>7 DEF LookupMiss, Return
  <2>8. ASSUME NEW t \in Threads, LoadCtr(t)
        PROVE  PacketMemory'
    BY <2>8 DEF LoadCtr
  <2>9. ASSUME NEW t \in Threads, StoreCtr(t)
        PROVE  PacketMemory'
    BY <2>9 DEF StoreCtr
  <2>10. ASSUME NEW t \in Threads, Send(t)
         PROVE  PacketMemory'
    BY <2>10 DEF Send, Return
  <2>11. CASE UNCHANGED vars
    BY <2>11 DEF vars
  <2> QED  BY <2>1, <2>2, <2>3, <2>4, <2>5, <2>6, <2>7, <2>8, <2>9, <2>10,
              <2>11 DEF Next, EnqueueStep
<1> QED  BY <1>1, <1>2, TypeCorrect, PTL DEF SafeSpec

-----------------------------------------------------------------------------
(* The device counters *)

\* Between the load and the store, or between the store and send().
Using(t) == pc[t] \in {"store", "send"}

\* The numbering of counter uses is sound whether or not there are races: a
\* use has one number, and it is below the count of its device.
UseBelowCount ==
  \A t \in Threads : Using(t) => seqOf[t] < issued[req[t].dst]

UsesDistinct ==
  \A t, u \in Threads :
     t # u /\ Using(t) /\ Using(u) /\ req[t].dst = req[u].dst
     => seqOf[t] # seqOf[u]

SentBelowCount ==
  \A i \in DOMAIN air : air[i].whole =>
     /\ air[i].dst \in Devices
     /\ air[i].seq < issued[air[i].dst]

SentNotInUse ==
  \A i \in DOMAIN air, t \in Threads :
     air[i].whole /\ Using(t) /\ req[t].dst = air[i].dst
     => air[i].seq # seqOf[t]

SentDistinct ==
  \A i, j \in DOMAIN air :
     i # j /\ air[i].whole /\ air[j].whole /\ air[i].dst = air[j].dst
     => air[i].seq # air[j].seq

NumberInv == UseBelowCount /\ UsesDistinct /\ SentBelowCount
             /\ SentNotInUse /\ SentDistinct

\* Without a race at most one thread is inside dev->ctr++ of a device, ...
OneStorer ==
  \A t, u \in Threads :
     t # u /\ pc[t] = "store" /\ pc[u] = "store" /\ req[t].dst = req[u].dst
     => req[t].dst \in raced

\* ... and it is the one with the latest use; ...
StorerIsLatest ==
  \A t \in Threads :
     pc[t] = "store" /\ req[t].dst \notin raced
     => seqOf[t] + 1 = issued[req[t].dst]

\* ... every value taken is the number of the use modulo the width, ...
RegInStep ==
  \A t \in Threads :
     Using(t) /\ req[t].dst \notin raced => reg[t] = seqOf[t] % CtrMod

\* ... the counter is the number of its uses modulo the width unless a thread
\* has yet to store, ...
CtrInStep ==
  \A d \in Devices \ raced :
     (\A t \in Threads : pc[t] = "store" => req[t].dst # d)
     => ctr[d] = issued[d] % CtrMod

\* ... and so every frame on the air carries the number of its use modulo the
\* width.
SentInStep ==
  \A i \in DOMAIN air :
     air[i].whole /\ air[i].dst \notin raced
     => air[i].ctr = air[i].seq % CtrMod

CounterInv == OneStorer /\ StorerIsLatest /\ RegInStep /\ CtrInStep
              /\ SentInStep

\* A step of a thread outside dev->ctr++ and send() leaves the counters, their uses
\* and the threads that are inside alone.
LEMMA OutsideUse ==
  ASSUME NEW t \in Threads, ~Using(t), ~Using(t)',
         \A u \in Threads : u # t => pc'[u] = pc[u] /\ req'[u] = req[u],
         UNCHANGED <<reg, seqOf, issued, ctr, air, raced>>
  PROVE  (NumberInv => NumberInv') /\ (CounterInv => CounterInv')
<1>1. /\ reg' = reg /\ seqOf' = seqOf /\ issued' = issued /\ ctr' = ctr /\ air' = air
      /\ raced' = raced
  OBVIOUS
<1>2. \A u \in Threads : Using(u)' => Using(u) /\ u # t /\ req'[u] = req[u]
  BY DEF Using
<1>3. \A u \in Threads : /\ pc'[u] = "store" => pc[u] = "store" /\ req'[u] = req[u]
                         /\ pc[u] = "store" => pc'[u] = "store" /\ req'[u] = req[u]
  BY DEF Using
<1>4. ASSUME NumberInv PROVE NumberInv'
  <2>1. UseBelowCount' /\ UsesDistinct'
    BY <1>1, <1>2, <1>4 DEF NumberInv, UseBelowCount, UsesDistinct
  <2>2. SentBelowCount' /\ SentDistinct'
    BY <1>1, <1>4 DEF NumberInv, SentBelowCount, SentDistinct
  <2>3. SentNotInUse'
    BY <1>1, <1>2, <1>4 DEF NumberInv, SentNotInUse
  <2> QED  BY <2>1, <2>2, <2>3 DEF NumberInv
<1>5. ASSUME CounterInv PROVE CounterInv'
  <2>1. OneStorer' /\ StorerIsLatest'
    BY <1>1, <1>3, <1>5 DEF CounterInv, OneStorer, StorerIsLatest
  <2>2. RegInStep'
    BY <1>1, <1>2, <1>5 DEF CounterInv, RegInStep
  <2>3. CtrInStep'
    <3> SUFFICES ASSUME NEW d \in Devices \ raced,
                        \A u \in Threads : pc'[u] = "store" => req'[u].dst # d
                 PROVE  ctr[d] = issued[d] % CtrMod
      BY <1>1 DEF CtrInStep
    <3>1. \A u \in Threads : pc[u] = "store" => req[u].dst # d
      BY <1>3
    <3> QED  BY <1>5, <3>1 DEF CounterInv, CtrInStep
  <2>4. SentInStep'
    BY <1>1, <1>5 DEF CounterInv, SentInStep
  <2> QED  BY <2>1, <2>2, <2>3, <2>4 DEF CounterInv
<1> QED  BY <1>4, <1>5

\* The steps before the load are such steps.
LEMMA BeforeUse ==
  ASSUME TypeOK,
         \/ UdpAlloc \/ UdpRecv \/ UdpRecvFails
         \/ \E t \in WsThreads : WsText(t) \/ WsRefuse(t)
         \/ \E t \in Threads : LookupHit(t) \/ LookupMiss(t)
  PROVE  (NumberInv => NumberInv') /\ (CounterInv => CounterInv')
<1> DEFINE Before(t) ==
             /\ pc[t] \in {"loop", "recv", "lookup"}
             /\ pc'[t] \in {"loop", "recv", "lookup", "load"}
             /\ \A u \in Threads : u # t => pc'[u] = pc[u] /\ req'[u] = req[u]
<1>1. PICK t \in Threads : Before(t)
  <2>1. pc \in [Threads -> {"loop", "recv", "lookup", "load", "store", "send"}]
        /\ req \in [Threads -> Request \cup {None}]
    BY DEF TypeOK
  <2>2. CASE UdpAlloc \/ UdpRecv \/ UdpRecvFails
    <3>1. UdpThread \in Threads
      BY DEF Threads
    <3>2. Before(UdpThread)
      BY <2>1, <2>2, <3>1 DEF UdpAlloc, UdpRecv, UdpRecvFails
    <3> QED  BY <3>1, <3>2
  <2>3. ASSUME NEW t \in WsThreads, WsText(t) \/ WsRefuse(t)
        PROVE  t \in Threads /\ Before(t)
    <3>1. t \in Threads
      BY DEF Threads
    <3> QED  BY <2>1, <2>3, <3>1 DEF WsText, WsRefuse
  <2>4. ASSUME NEW t \in Threads, LookupHit(t) \/ LookupMiss(t)
        PROVE  Before(t)
    BY <2>1, <2>4 DEF LookupHit, LookupMiss, Return
  <2> HIDE DEF Before
  <2> QED  BY <2>2, <2>3, <2>4
<1>2. UNCHANGED <<reg, seqOf, issued, ctr, air, raced>>
  BY DEF UdpAlloc, UdpRecv, UdpRecvFails, WsText, WsRefuse, LookupHit, LookupMiss, history
<1>3. ~Using(t) /\ ~Using(t)'
  BY <1>1 DEF Using
<1> QED  BY <1>1, <1>2, <1>3, OutsideUse

\* The numbering is sound in every reachable state.
LEMMA Numbering == SafeSpec => []NumberInv
<1> USE TransmitAssumption
<1>1. Init => NumberInv
  BY DEF Init, NumberInv, UseBelowCount, UsesDistinct, SentBelowCount,
              SentNotInUse, SentDistinct, Using
<1>2. /\ TypeOK /\ PhaseInv /\ TypeOK' /\ NumberInv
      /\ [Next]_vars
      => NumberInv'
  <2> SUFFICES ASSUME TypeOK, PhaseInv, TypeOK', NumberInv, [Next]_vars
               PROVE  NumberInv'
    OBVIOUS
  <2> USE DEF TypeOK, PhaseInv, NumberInv, UseBelowCount, UsesDistinct,
              SentBelowCount, SentNotInUse, SentDistinct, Using, InEnqueue,
              history
  <2>1. CASE UdpAlloc
    BY <2>1, BeforeUse
  <2>2. CASE UdpRecv
    BY <2>2, BeforeUse
  <2>3. CASE UdpRecvFails
    BY <2>3, BeforeUse
  <2>4. ASSUME NEW t \in WsThreads, WsText(t)
        PROVE  NumberInv'
    BY <2>4, BeforeUse
  <2>5. ASSUME NEW t \in WsThreads, WsRefuse(t)
        PROVE  NumberInv'
    BY <2>5, BeforeUse
  <2>6. ASSUME NEW t \in Threads, LookupHit(t)
        PROVE  NumberInv'
    BY <2>6, BeforeUse
  <2>7. ASSUME NEW t \in Threads, LookupMiss(t)
        PROVE  NumberInv'
    BY <2>7, BeforeUse
  <2>8. ASSUME NEW t \in Threads, LoadCtr(t)
        PROVE  NumberInv'
    <3> DEFINE d == req[t].dst
    <3>1. /\ d \in Devices /\ issued[d] \in Nat
          /\ issued' = [issued EXCEPT ![d] = issued[d] + 1]
          /\ seqOf' = [seqOf EXCEPT ![t] = issued[d]]
          /\ \A u \in Threads : u # t => (Using(u)' <=> Using(u))
          /\ req' = req /\ air' = air
      BY <2>8 DEF LoadCtr
    <3>0. \A i \in DOMAIN air : air[i].seq \in Nat
      BY FramesTyped
    <3>2. /\ \A e \in Devices : issued'[e] = IF e = d THEN issued[d] + 1
                                             ELSE issued[e]
          /\ \A e \in Devices : issued[e] \in Nat
          /\ \A u \in Threads : seqOf'[u] = IF u = t THEN issued[d]
                                             ELSE seqOf[u]
          /\ \A u \in Threads : seqOf[u] \in Nat
          /\ \A u \in Threads : Using(u) => req[u].dst \in Devices
      BY <3>1
    <3> HIDE DEF d
    <3>3. UseBelowCount'
      BY <3>1, <3>2 DEF d
    <3>4. UsesDistinct'
      BY <3>1, <3>2 DEF d
    <3>5. SentBelowCount'
      BY <3>0, <3>1, <3>2
    <3>6. SentNotInUse'
      BY <3>0, <3>1, <3>2 DEF d
    <3>7. SentDistinct'
      BY <3>1
    <3> QED  BY <3>3, <3>4, <3>5, <3>6, <3>7
  <2>9. ASSUME NEW t \in Threads, StoreCtr(t)
        PROVE  NumberInv'
    BY <2>9 DEF StoreCtr
  <2>10. ASSUME NEW t \in Threads, Send(t)
         PROVE  NumberInv'
    <3>1. PICK f \in TxFrames(t) : air' = Append(air, f)
      BY <2>10 DEF Send
    <3>2. /\ f.seq = seqOf[t]
          /\ f.whole => f.dst = req[t].dst
          /\ Using(t) /\ req[t].dst \in Devices
          /\ issued' = issued
          /\ \A u \in Threads : Using(u)' <=> Using(u) /\ u # t
          /\ \A u \in Threads : u # t => req'[u] = req[u] /\ seqOf'[u] = seqOf[u]
      BY <2>10 DEF Send, Return, TxFrames
    <3>3. /\ \A i \in DOMAIN air' : i \in DOMAIN air \/ i = Len(air) + 1
          /\ \A i \in DOMAIN air : i # Len(air) + 1 /\ air'[i] = air[i]
          /\ air'[Len(air) + 1] = f
      <4>1. air \in Seq(Frame) /\ f \in Frame
        BY <3>1, TxFramesAreFrames, <2>10 DEF Send
      <4> QED  BY <4>1, <3>1, AppendFacts
    <3> HIDE DEF TypeOK, PhaseInv, NumberInv, UseBelowCount, UsesDistinct,
                 SentBelowCount, SentNotInUse, SentDistinct, Using
    <3>4. UseBelowCount'
      BY <3>2 DEF NumberInv, UseBelowCount
    <3>5. UsesDistinct'
      BY <3>2 DEF NumberInv, UsesDistinct
    <3>6. SentBelowCount'
      BY <3>2, <3>3 DEF NumberInv, SentBelowCount, UseBelowCount
    <3>7. SentNotInUse'
      BY <3>2, <3>3 DEF NumberInv, SentNotInUse, UsesDistinct
    <3>8. SentDistinct'
      <4> SUFFICES ASSUME NEW i \in DOMAIN air', NEW j \in DOMAIN air', i # j,
                          air'[i].whole, air'[j].whole,
                          air'[i].dst = air'[j].dst
                   PROVE  air'[i].seq # air'[j].seq
        BY DEF SentDistinct
      <4>1. CASE i \in DOMAIN air /\ j \in DOMAIN air
        BY <4>1, <3>3 DEF NumberInv, SentDistinct
      <4>2. ASSUME NEW k \in DOMAIN air, air[k].whole, f.whole,
                   air[k].dst = f.dst
            PROVE  air[k].seq # f.seq
        BY <4>2, <3>2 DEF NumberInv, SentNotInUse
      <4>3. CASE i = Len(air) + 1 /\ j \in DOMAIN air
        BY <4>3, <4>2, <3>3
      <4>4. CASE j = Len(air) + 1 /\ i \in DOMAIN air
        BY <4>4, <4>2, <3>3
      <4> QED  BY <4>1, <4>3, <4>4, <3>3
    <3> QED  BY <3>4, <3>5, <3>6, <3>7, <3>8 DEF NumberInv
  <2>11. CASE UNCHANGED vars
    BY <2>11 DEF vars
  <2> QED  BY <2>1, <2>2, <2>3, <2>4, <2>5, <2>6, <2>7, <2>8, <2>9, <2>10,
              <2>11 DEF Next, EnqueueStep
<1> QED  BY <1>1, <1>2, TypeCorrect, PTL DEF SafeSpec

\* The counters stay in step with their uses in every reachable state.
LEMMA Counting == SafeSpec => []CounterInv
<1> USE TransmitAssumption
<1>1. Init => CounterInv
  <2> SUFFICES ASSUME Init  PROVE  CounterInv
    OBVIOUS
  <2>1. 0 % CtrMod = 0
    BY ModUnique
  <2> QED  BY <2>1 DEF Init, CounterInv, OneStorer, StorerIsLatest, RegInStep,
                       CtrInStep, SentInStep, Using
<1>2. /\ TypeOK /\ PhaseInv /\ CounterInv
      /\ [Next]_vars
      => CounterInv'
  <2> SUFFICES ASSUME TypeOK, PhaseInv, CounterInv, [Next]_vars
               PROVE  CounterInv'
    OBVIOUS
  <2> USE DEF TypeOK, PhaseInv, CounterInv, OneStorer, StorerIsLatest,
              RegInStep, CtrInStep, SentInStep, Using, InEnqueue, history
  <2>1. CASE UdpAlloc
    BY <2>1, BeforeUse
  <2>2. CASE UdpRecv
    BY <2>2, BeforeUse
  <2>3. CASE UdpRecvFails
    BY <2>3, BeforeUse
  <2>4. ASSUME NEW t \in WsThreads, WsText(t)
        PROVE  CounterInv'
    BY <2>4, BeforeUse
  <2>5. ASSUME NEW t \in WsThreads, WsRefuse(t)
        PROVE  CounterInv'
    BY <2>5, BeforeUse
  <2>6. ASSUME NEW t \in Threads, LookupHit(t)
        PROVE  CounterInv'
    BY <2>6, BeforeUse
  <2>7. ASSUME NEW t \in Threads, LookupMiss(t)
        PROVE  CounterInv'
    BY <2>7, BeforeUse
  <2>8. ASSUME NEW t \in Threads, LoadCtr(t)
        PROVE  CounterInv'
    <3> DEFINE d == req[t].dst
    <3>1. /\ d \in Devices /\ issued[d] \in Nat
          /\ \A e \in Devices : e # d => issued'[e] = issued[e]
          /\ issued'[d] = issued[d] + 1
          /\ \A u \in Threads :
               u # t => seqOf'[u] = seqOf[u] /\ reg'[u] = reg[u] /\ pc'[u] = pc[u]
          /\ seqOf'[t] = issued[d] /\ reg'[t] = ctr[d] /\ pc'[t] = "store"
          /\ pc[t] = "load"
          /\ raced \subseteq raced'
          /\ d \in raced' \/ \A u \in Threads : pc[u] = "store" => req[u].dst # d
          /\ req' = req /\ air' = air /\ ctr' = ctr
      BY <2>8 DEF LoadCtr
    <3>2. d \notin raced' => ctr[d] = issued[d] % CtrMod
      BY <3>1
    <3>3. \A u \in Threads : Using(u) => req[u].dst \in Devices
      OBVIOUS
    <3> HIDE DEF d, TypeOK, PhaseInv, CounterInv, OneStorer, StorerIsLatest,
                 RegInStep, CtrInStep, SentInStep
    <3>4. OneStorer'
      BY <3>1 DEF CounterInv, OneStorer, d
    <3>5. StorerIsLatest'
      BY <3>1, <3>3 DEF CounterInv, StorerIsLatest, d
    <3>6. RegInStep'
      BY <3>1, <3>2 DEF CounterInv, RegInStep, d
    <3>7. CtrInStep'
      BY <3>1 DEF CounterInv, CtrInStep, d
    <3>8. SentInStep'
      BY <3>1 DEF CounterInv, SentInStep
    <3> QED  BY <3>4, <3>5, <3>6, <3>7, <3>8 DEF CounterInv
  <2>9. ASSUME NEW t \in Threads, StoreCtr(t)
        PROVE  CounterInv'
    <3> DEFINE d == req[t].dst
    <3>1. /\ d \in Devices
          /\ \A e \in Devices : e # d => ctr'[e] = ctr[e]
          /\ ctr'[d] = (reg[t] + 1) % CtrMod
          /\ pc[t] = "store" /\ pc'[t] = "send"
          /\ \A u \in Threads : u # t => pc'[u] = pc[u]
          /\ UNCHANGED <<req, reg, seqOf, issued, air, raced>>
      BY <2>9 DEF StoreCtr
    <3>2. d \notin raced => ctr'[d] = issued[d] % CtrMod
      <4> SUFFICES ASSUME d \notin raced  PROVE  ctr'[d] = issued[d] % CtrMod
        OBVIOUS
      <4>1. /\ reg[t] = seqOf[t] % CtrMod
            /\ seqOf[t] + 1 = issued[d]
            /\ seqOf[t] \in Nat
        BY <3>1
      <4> QED  BY <4>1, <3>1, ModSucc
    <3> HIDE DEF d, TypeOK, PhaseInv, CounterInv, OneStorer, StorerIsLatest,
                 RegInStep, CtrInStep, SentInStep
    <3>3. OneStorer' /\ StorerIsLatest' /\ RegInStep' /\ SentInStep'
      BY <3>1 DEF CounterInv, OneStorer, StorerIsLatest, RegInStep, SentInStep
    <3>4. CtrInStep'
      BY <3>1, <3>2 DEF CounterInv, CtrInStep, d
    <3> QED  BY <3>3, <3>4 DEF CounterInv
  <2>10. ASSUME NEW t \in Threads, Send(t)
         PROVE  CounterInv'
    <3>1. PICK f \in TxFrames(t) : air' = Append(air, f)
      BY <2>10 DEF Send
    <3>2. /\ f.seq = seqOf[t]
          /\ f.whole => f.dst = req[t].dst /\ f.ctr = reg[t]
          /\ pc[t] = "send" /\ pc'[t] = "loop"
          /\ \A u \in Threads : u # t => /\ req'[u] = req[u]
                                        /\ seqOf'[u] = seqOf[u]
                                        /\ reg'[u] = reg[u]
                                        /\ pc'[u] = pc[u]
          /\ UNCHANGED <<issued, ctr, raced>>
      BY <2>10 DEF Send, Return, TxFrames
    <3>3. air \in Seq(Frame) /\ f \in Frame
      BY <3>1, TxFramesAreFrames, <2>10 DEF Send
    <3>4. /\ \A i \in DOMAIN air' : i \in DOMAIN air \/ i = Len(air) + 1
          /\ \A i \in DOMAIN air : i # Len(air) + 1 /\ air'[i] = air[i]
          /\ air'[Len(air) + 1] = f
      BY <3>1, <3>3, AppendFacts
    <3> HIDE DEF TypeOK, PhaseInv, CounterInv, OneStorer, StorerIsLatest,
                 RegInStep, CtrInStep, SentInStep
    <3>5. OneStorer' /\ StorerIsLatest' /\ RegInStep' /\ CtrInStep'
      BY <3>2 DEF CounterInv, OneStorer, StorerIsLatest, RegInStep, CtrInStep
    <3>6. SentInStep'
      BY <3>2, <3>4 DEF CounterInv, SentInStep, RegInStep
    <3> QED  BY <3>5, <3>6 DEF CounterInv
  <2>11. CASE UNCHANGED vars
    BY <2>11 DEF vars
  <2> QED  BY <2>1, <2>2, <2>3, <2>4, <2>5, <2>6, <2>7, <2>8, <2>9, <2>10,
              <2>11 DEF Next, EnqueueStep
<1> QED  BY <1>1, <1>2, TypeCorrect, PTL DEF SafeSpec

\* A counter value is repeated for a device only after a whole wrap, unless
\* two threads were inside dev->ctr++ of that device at once: for any number
\* of threads and devices and any width of the counter.
THEOREM CounterReuse == SafeSpec => []CtrReuseOnlyAfterWrap
<1>1. TypeOK /\ NumberInv /\ CounterInv => CtrReuseOnlyAfterWrap
  <2> SUFFICES ASSUME TypeOK, NumberInv, CounterInv,
                      NEW i \in DOMAIN air, NEW j \in DOMAIN air,
                      i # j, air[i].whole, air[j].whole,
                      air[i].dst = air[j].dst, air[i].dst \notin raced,
                      air[i].ctr = air[j].ctr
               PROVE  \/ air[i].seq - air[j].seq >= CtrMod
                      \/ air[j].seq - air[i].seq >= CtrMod
    BY DEF CtrReuseOnlyAfterWrap
  <2>1. /\ air[i].ctr = air[i].seq % CtrMod
        /\ air[j].ctr = air[j].seq % CtrMod
    BY DEF CounterInv, SentInStep
  <2>2. air[i].seq # air[j].seq
    BY DEF NumberInv, SentDistinct
  <2>3. air[i].seq \in Nat /\ air[j].seq \in Nat
    BY FramesTyped
  <2>4. CASE air[i].seq < air[j].seq
    BY <2>1, <2>3, <2>4, SameResidue, TransmitAssumption
  <2>5. CASE air[j].seq < air[i].seq
    BY <2>1, <2>3, <2>5, SameResidue, TransmitAssumption
  <2> QED  BY <2>2, <2>3, <2>4, <2>5
<1> QED  BY <1>1, TypeCorrect, Numbering, Counting, PTL

-----------------------------------------------------------------------------
(* The UDP listener alone *)

\* With one thread there is no race, and its uses of a counter reach the radio
\* in the order of their numbers.
SerialInv ==
  /\ raced = {}
  /\ \A i \in DOMAIN air :
        /\ air[i].whole
        /\ Using(UdpThread)
        /\ req[UdpThread].dst = air[i].dst
        => air[i].seq < seqOf[UdpThread]
  /\ \A i, j \in DOMAIN air :
        i < j /\ air[i].whole /\ air[j].whole /\ air[i].dst = air[j].dst
        => air[i].seq < air[j].seq

\* Appending keeps the order: of two positions the earlier is an old one.
LEMMA AppendOrder ==
  ASSUME NEW S, NEW s \in Seq(S), NEW e \in S,
         NEW i \in DOMAIN Append(s, e), NEW j \in DOMAIN Append(s, e), i < j
  PROVE  /\ i \in DOMAIN s
         /\ j \in DOMAIN s \/ j = Len(s) + 1
OBVIOUS

\* Without WebSocket clients the frames of a device go out in the order of
\* their counters, for any number of devices and any width of the counter.
THEOREM SerialCase ==
  ASSUME WsThreads = {}
  PROVE  SafeSpec => []SerialCounters
<1> USE TransmitAssumption
<1>1. Init => SerialInv
  BY DEF Init, SerialInv, Using, Threads
<1>2. /\ TypeOK /\ PhaseInv /\ NumberInv /\ SerialInv
      /\ [Next]_vars
      => SerialInv'
  <2> SUFFICES ASSUME TypeOK, PhaseInv, NumberInv, SerialInv, [Next]_vars
               PROVE  SerialInv'
    OBVIOUS
  <2> DEFINE T == UdpThread
  <2>0. Threads = {T}
    BY DEF Threads
  <2>a. CASE \/ UdpAlloc \/ UdpRecv \/ UdpRecvFails \/ LookupHit(T)
             \/ LookupMiss(T) \/ UNCHANGED vars
    <3>1. Using(T)' => Using(T) /\ UNCHANGED <<req, seqOf>>
      BY <2>a, <2>0 DEF UdpAlloc, UdpRecv, UdpRecvFails, LookupHit, LookupMiss,
                        Return, Using, vars, history, TypeOK
    <3>2. UNCHANGED <<air, raced>>
      BY <2>a DEF UdpAlloc, UdpRecv, UdpRecvFails, LookupHit, LookupMiss,
                  vars, history
    <3> QED  BY <3>1, <3>2 DEF SerialInv
  <2>b. CASE LoadCtr(T)
    <3>1. /\ UNCHANGED <<air, req>>
          /\ seqOf'[T] = issued[req[T].dst]
          /\ pc[T] = "load"
      BY <2>b, <2>0 DEF LoadCtr, TypeOK
    <3>2. raced' = raced
      BY <2>b, <2>0, <3>1 DEF LoadCtr
    <3> QED  BY <3>1, <3>2 DEF SerialInv, NumberInv, SentBelowCount
  <2>c. CASE StoreCtr(T)
    BY <2>c, <2>0 DEF StoreCtr, SerialInv, Using, history, TypeOK
  <2>d. CASE Send(T)
    <3>1. PICK f \in TxFrames(T) : air' = Append(air, f)
      BY <2>d DEF Send
    <3>2. /\ f.seq = seqOf[T]
          /\ f.whole => f.dst = req[T].dst
          /\ Using(T) /\ ~Using(T)'
          /\ raced' = raced
      BY <2>d, <2>0 DEF Send, Return, TxFrames, Using, TypeOK
    <3>3. air \in Seq(Frame) /\ f \in Frame
      BY <2>d, <2>0, <3>1, TxFramesAreFrames
         DEF Send, TypeOK, PhaseInv, InEnqueue
    <3>4. ASSUME NEW i \in DOMAIN air', NEW j \in DOMAIN air', i < j,
                 air'[i].whole, air'[j].whole, air'[i].dst = air'[j].dst
          PROVE  air'[i].seq < air'[j].seq
      <4>1. i \in DOMAIN air /\ air'[i] = air[i]
        BY <3>1, <3>3, <3>4, AppendFacts, AppendOrder
      <4>2. CASE j \in DOMAIN air
        <5>1. air'[j] = air[j]
          BY <3>1, <3>3, <4>2, AppendFacts
        <5> QED  BY <4>1, <4>2, <5>1, <3>4 DEF SerialInv
      <4>3. CASE j = Len(air) + 1
        <5>1. air'[j] = f
          BY <3>1, <3>3, <4>3, AppendFacts
        <5> QED  BY <4>1, <5>1, <3>2, <3>4 DEF SerialInv
      <4> QED  BY <4>2, <4>3, <3>1, <3>3, <3>4, AppendOrder
    <3> QED  BY <3>2, <3>4 DEF SerialInv
  <2> QED  BY <2>0, <2>a, <2>b, <2>c, <2>d DEF Next, EnqueueStep
<1>3. TypeOK /\ CounterInv /\ SerialInv => SerialCounters
  <2> SUFFICES ASSUME TypeOK, CounterInv, SerialInv,
                      NEW i \in DOMAIN air, NEW j \in DOMAIN air, i < j,
                      air[i].whole, air[j].whole, air[i].dst = air[j].dst
               PROVE  /\ air[i].seq < air[j].seq
                      /\ air[i].ctr = air[j].ctr
                         => air[j].seq - air[i].seq >= CtrMod
    BY DEF SerialCounters
  <2>1. air[i].seq < air[j].seq
    BY DEF SerialInv
  <2>2. /\ air[i].ctr = air[i].seq % CtrMod
        /\ air[j].ctr = air[j].seq % CtrMod
    BY DEF CounterInv, SentInStep, SerialInv
  <2>3. air[i].seq \in Nat /\ air[j].seq \in Nat
    BY FramesTyped
  <2> QED  BY <2>1, <2>2, <2>3, SameResidue
<1> QED  BY <1>1, <1>2, <1>3, TypeCorrect, Numbering, Counting, PTL
         DEF SafeSpec

-----------------------------------------------------------------------------
(* The abstract promise *)

\* Every safe behaviour of the threads is one of Forwarder: nothing is put on
\* the air twice, for nobody, or for an unknown destination.
THEOREM Implements == SafeSpec => Promise!FSafety
<1> USE TransmitAssumption
<1> DEFINE P == [t \in Threads |-> IF InEnqueue(t) THEN req[t] ELSE None]
           O == [i \in DOMAIN air |-> [dst |-> air[i].dst,
                                      whole |-> air[i].whole]]
<1>1. Init => Promise!FInit
  BY DEF Init, Promise!FInit, InEnqueue
<1>2. /\ TypeOK /\ PhaseInv
      /\ [Next]_vars
      => [Promise!FNext]_(Promise!fvars)
  <2> SUFFICES ASSUME TypeOK, PhaseInv, [Next]_vars
               PROVE  Promise!FNext \/ UNCHANGED <<P, O>>
    BY DEF Promise!fvars
  <2>1. CASE UdpAlloc \/ UdpRecvFails \/ UNCHANGED vars
    <3>1. \A u \in Threads : (InEnqueue(u)' <=> InEnqueue(u)) /\ req' = req
      BY <2>1 DEF UdpAlloc, UdpRecvFails, vars, history, InEnqueue, TypeOK,
                  Threads
    <3>2. air' = air
      BY <2>1 DEF UdpAlloc, UdpRecvFails, vars
    <3> QED  BY <3>1, <3>2
  <2>2. ASSUME NEW t \in WsThreads, WsRefuse(t)
        PROVE  UNCHANGED <<P, O>>
    BY <2>2 DEF WsRefuse, InEnqueue
  <2>3. ASSUME NEW t \in Threads, LookupHit(t) \/ LoadCtr(t) \/ StoreCtr(t)
        PROVE  UNCHANGED <<P, O>>
    <3>1. /\ \A u \in Threads : InEnqueue(u)' <=> InEnqueue(u)
          /\ req' = req /\ air' = air
      BY <2>3 DEF LookupHit, LoadCtr, StoreCtr, InEnqueue, TypeOK
    <3> QED  BY <3>1
  <2>4. ASSUME NEW t \in Threads, ~InEnqueue(t), NEW r \in Request,
               req' = [req EXCEPT ![t] = r],
               pc' = [pc EXCEPT ![t] = "lookup"], air' = air
        PROVE  Promise!FNext
    <3>1. P[t] = None /\ P' = [P EXCEPT ![t] = r] /\ O' = O
      BY <2>4 DEF InEnqueue, TypeOK
    <3> QED  BY <3>1 DEF Promise!FNext, Promise!Accept, Promise!Request, Request
  <2>5. CASE UdpRecv
    <3>1. PICK r \in Request : req' = [req EXCEPT ![UdpThread] = r]
      BY <2>5 DEF UdpRecv
    <3>2. UdpThread \in Threads /\ ~InEnqueue(UdpThread)
      BY <2>5 DEF UdpRecv, Threads, InEnqueue
    <3> QED  BY <2>4, <2>5, <3>1, <3>2 DEF UdpRecv
  <2>6. ASSUME NEW t \in WsThreads, WsText(t)
        PROVE  Promise!FNext
    <3>1. PICK r \in Request : req' = [req EXCEPT ![t] = r]
      BY <2>6 DEF WsText
    <3>2. t \in Threads /\ ~InEnqueue(t)
      BY <2>6 DEF WsText, Threads, InEnqueue
    <3> QED  BY <2>4, <2>6, <3>1, <3>2 DEF WsText
  <2>7. ASSUME NEW t \in Threads, LookupMiss(t)
        PROVE  Promise!FNext
    <3>1. /\ P[t] = req[t] /\ req[t] \in Request
          /\ req[t].dst \notin Devices
      BY <2>7 DEF LookupMiss, InEnqueue, PhaseInv
    <3>2. P' = [P EXCEPT ![t] = None] /\ O' = O
      BY <2>7 DEF LookupMiss, Return, InEnqueue, TypeOK
    <3> QED  BY <3>1, <3>2 DEF Promise!FNext, Promise!Discard
  <2>8. ASSUME NEW t \in Threads, Send(t)
        PROVE  Promise!FNext
    <3>1. PICK f \in TxFrames(t) : air' = Append(air, f)
      BY <2>8 DEF Send
    <3>2. /\ P[t] = req[t] /\ req[t] \in Request
          /\ req[t].dst \in Devices
      BY <2>8 DEF Send, InEnqueue, PhaseInv
    <3>3. P' = [P EXCEPT ![t] = None]
      BY <2>8 DEF Send, Return, InEnqueue, TypeOK
    <3>4. /\ f.dst \in Addresses /\ f.whole = req[t].whole
          /\ f.whole => f.dst = req[t].dst
      BY DEF TxFrames
    <3>5. O' = Append(O, [dst |-> f.dst, whole |-> f.whole])
      <4>1. air \in Seq(Frame) /\ f \in Frame
        BY <2>8, <3>1, <3>2, TxFramesAreFrames DEF TypeOK
      <4> QED  BY <3>1, <4>1
    <3> QED  BY <3>2, <3>3, <3>4, <3>5 DEF Promise!FNext, Promise!Forward
  <2> QED  BY <2>1, <2>2, <2>3, <2>5, <2>6, <2>7, <2>8 DEF Next, EnqueueStep
<1> QED  BY <1>1, <1>2, TypeCorrect, PTL DEF SafeSpec, Promise!FSafety

-----------------------------------------------------------------------------
(* Arithmetic of the layout *)

\* The cells that are read to check the CRC of a frame with this length.
Read(len) == (I_SRC .. (I_SRC + CrcLen(len) - 1)) \cup {CrcAt(len), CrcAt(len) + 1}

\* With a length byte up to 241 neither sender nor receiver leaves the buffer of
\* 256 bytes; with any other both do: rf.c:175-176 and rf.c:246-248.
THEOREM BufferBoundary ==
  ASSUME NEW len \in Byte
  PROVE  Read(len) \subseteq 0 .. (BufferLen - 1) <=> len <= 241
<1>1. len <= 241 => CrcLen(len) = 9 + len
  BY DEF CrcLen, Byte
<1>2. len <= 241 => Read(len) \subseteq 0 .. (BufferLen - 1)
  BY <1>1 DEF Read, CrcAt, I_SRC, I_DATA, BufferLen, Byte
<1>3. CrcAt(len) + 1 \in Read(len)
  BY DEF Read
<1>4. len > 241 => CrcAt(len) + 1 \notin 0 .. (BufferLen - 1)
  BY DEF CrcAt, I_DATA, BufferLen, Byte
<1> QED
  BY <1>2, <1>3, <1>4 DEF Byte

\* The 25 bytes that are sent hold the CRC exactly when the payload has at most
\* ten bytes: rf.c:183 and rf.c:318.
THEOREM SentBoundary ==
  ASSUME NEW len \in Byte
  PROVE  CrcAt(len) + 1 < SentLen <=> len <= 10
BY DEF CrcAt, SentLen, I_DATA, Byte

\* The CRC is made over everything from the source address to the end of the
\* payload as long as 9 + LEN does not wrap; from 247 on it leaves out the length
\* itself.
THEOREM CoverBoundary ==
  ASSUME NEW len \in Byte
  PROVE  /\ len <= 246 => I_SRC + CrcLen(len) = CrcAt(len)
         /\ len >= 247 => I_SRC + CrcLen(len) <= I_LEN
<1>1. len <= 246 => CrcLen(len) = 9 + len
  BY DEF CrcLen, Byte
<1>2. len >= 247 => CrcLen(len) = len - 247
  BY DEF CrcLen, Byte
<1> QED
  BY <1>1, <1>2 DEF CrcAt, I_SRC, I_DATA, I_LEN, Byte

\* The sixteen bytes encrypted are those from the counter to the end of what is
\* sent: nothing behind the control byte is sent in clear.
THEOREM CipherCovers ==
  I_CTR .. (I_CTR + BlockLen - 1) = (I_CTRL + 1) .. (SentLen - 1)
BY DEF I_CTR, I_CTRL, BlockLen, SentLen

-----------------------------------------------------------------------------
(* Laying out and checking agree *)

IsBuffer(b) == b = [c \in Cells |-> b[c]] /\ b[I_LEN] \in Byte

LEMMA CellFacts ==
  ASSUME NEW len \in Byte
  PROVE  /\ I_LEN \in Cells /\ CrcAt(len) \in Cells /\ CrcAt(len) + 1 \in Cells
         /\ CrcAt(len) > I_LEN
         /\ \A n \in 1 .. CrcLen(len) : /\ I_SRC + n - 1 \in Cells
                                        /\ I_SRC + n - 1 < CrcAt(len)
<1>1. CrcLen(len) <= 9 + len /\ CrcLen(len) \in 0 .. 255
  BY SMTT(30) DEF CrcLen, Byte
<1>2. len \in Int /\ len >= 0 /\ len <= 255
  BY DEF Byte
<1>3. I_LEN = 12 /\ I_SRC = 4 /\ CrcAt(len) = 13 + len /\ Cells = 0 .. 269
  BY DEF CrcAt, Cells, I_LEN, I_SRC, I_DATA
<1>4. ASSUME NEW n \in 1 .. CrcLen(len)
      PROVE  I_SRC + n - 1 \in Cells /\ I_SRC + n - 1 < CrcAt(len)
  <2>1. n \in Int /\ 1 <= n /\ n <= 9 + len
    BY <1>1, <1>2
  <2> QED  BY <1>2, <1>3, <2>1
<1> QED  BY <1>2, <1>3, <1>4

\* Buffers that agree between the destination and the CRC cover the same bytes.
LEMMA SameCovered ==
  ASSUME NEW b, NEW d, IsBuffer(d), b[I_LEN] = d[I_LEN],
         \A c \in Cells : I_SRC <= c /\ c < CrcAt(d[I_LEN]) => b[c] = d[c]
  PROVE  Covered(b) = Covered(d)
<1>1. \A n \in 1 .. CrcLen(d[I_LEN]) : b[I_SRC + n - 1] = d[I_SRC + n - 1]
  <2> SUFFICES ASSUME NEW n \in 1 .. CrcLen(d[I_LEN])
               PROVE  b[I_SRC + n - 1] = d[I_SRC + n - 1]
    OBVIOUS
  <2>1. I_SRC + n - 1 \in Cells /\ I_SRC + n - 1 < CrcAt(d[I_LEN])
    BY CellFacts DEF IsBuffer
  <2>2. I_SRC <= I_SRC + n - 1
    BY DEF I_SRC
  <2> QED  BY <2>1, <2>2
<1> QED
  BY <1>1 DEF Covered

\* The receiver's check succeeds on what a sender has laid out.
LEMMA WithCrcOk ==
  ASSUME NEW b, IsBuffer(b)
  PROVE  IsBuffer(WithCrc(b)) /\ CrcOk(WithCrc(b)) /\ WithCrc(b)[I_LEN] = b[I_LEN]
<1> DEFINE len == b[I_LEN]
           crc == Crc(Covered(b))
           w == WithCrc(b)
<1>1. len \in Byte /\ CrcAt(len) \in Cells /\ CrcAt(len) + 1 \in Cells
      /\ CrcAt(len) > I_LEN /\ I_LEN \in Cells
  BY CellFacts DEF IsBuffer
<1>2. w = [b EXCEPT ![CrcAt(len)] = Low(crc), ![CrcAt(len) + 1] = High(crc)]
  BY DEF WithCrc
<1>3. \A c \in Cells : c # CrcAt(len) /\ c # CrcAt(len) + 1 => w[c] = b[c]
  BY <1>2 DEF IsBuffer
<1>4. CrcAt(len) \in Int /\ I_LEN \in Int
  BY <1>1 DEF CrcAt, I_DATA, I_LEN, Byte
<1>5. w[CrcAt(len)] = Low(crc) /\ w[CrcAt(len) + 1] = High(crc)
  <2>1. CrcAt(len) # CrcAt(len) + 1
    BY <1>4
  <2> QED
    BY <1>1, <1>2, <2>1 DEF IsBuffer
<1>6. w = [c \in Cells |-> w[c]]
  BY <1>2 DEF IsBuffer
<1>7. w[I_LEN] = len
  <2>1. I_LEN # CrcAt(len) /\ I_LEN # CrcAt(len) + 1
    BY <1>1, <1>4
  <2> QED
    BY <1>1, <1>3, <2>1
<1>8. Covered(w) = Covered(b)
  <2>1. \A c \in Cells : c < CrcAt(len) => c # CrcAt(len) /\ c # CrcAt(len) + 1
    BY <1>4 DEF Cells, I_DATA
  <2>2. \A c \in Cells : c < CrcAt(len) => w[c] = b[c]
    BY <1>3, <2>1
  <2> QED
    BY <1>7, <2>2, SameCovered
<1>9. IsBuffer(w)
  BY <1>1, <1>6, <1>7 DEF IsBuffer
<1>10. CrcOk(w)
  BY <1>5, <1>7, <1>8 DEF CrcOk
<1> QED
  BY <1>7, <1>9, <1>10

\* The check looks at nothing behind the CRC.
LEMMA CrcOkLocal ==
  ASSUME NEW b, NEW d, IsBuffer(d), CrcOk(d),
         \A c \in Cells : c < CrcAt(d[I_LEN]) + 2 => b[c] = d[c]
  PROVE  CrcOk(b)
<1> DEFINE len == d[I_LEN]
<1>1. /\ len \in Byte /\ I_LEN \in Cells /\ CrcAt(len) \in Cells
      /\ CrcAt(len) + 1 \in Cells /\ CrcAt(len) > I_LEN
  BY CellFacts DEF IsBuffer
<1>2. CrcAt(len) \in Int /\ I_LEN \in Int
  BY <1>1 DEF CrcAt, I_DATA, I_LEN, Byte
<1>3. b[I_LEN] = len /\ b[CrcAt(len)] = d[CrcAt(len)]
      /\ b[CrcAt(len) + 1] = d[CrcAt(len) + 1]
  BY <1>1, <1>2
<1>4. \A c \in Cells : c < CrcAt(len) => b[c] = d[c]
  BY <1>2, SMTT(20) DEF Cells, I_DATA
<1>5. Covered(b) = Covered(d)
  BY <1>3, <1>4, SameCovered
<1> QED
  BY <1>3, <1>5 DEF CrcOk

-----------------------------------------------------------------------------
(* The invariant *)

\* txbuf is a laid out frame once there is one; what has arrived of it is in
\* rxbuf.
FrameInv ==
  /\ IsBuffer(txbuf) /\ IsBuffer(rxbuf)
  /\ onAir \in 0 .. BufferLen
  /\ latest.cut \in 0 .. BufferLen
  /\ arrivals \in Nat
  /\ onAir > 0 \/ arrivals > 0 => CrcOk(txbuf)
  /\ onAir = 0 /\ arrivals > 0 /\ latest.hit = Undamaged =>
       \A c \in Cells : c < latest.cut => rxbuf[c] = txbuf[c]
  /\ latest.hit # Undamaged =>
       latest.hit \in 0 .. (BufferLen - 1) /\ latest.hit < latest.cut /\ arrivals > 0
  /\ onAir = 0 /\ latest.hit # Undamaged =>
       /\ \E w \in Weights : rxbuf[latest.hit] = Flipped(txbuf[latest.hit], w)
       /\ \A c \in Cells : c < latest.cut /\ c # latest.hit => rxbuf[c] = txbuf[c]

LEMMA FrameInvImplies == FrameInv => CrcBytesDecide
<1> SUFFICES ASSUME FrameInv, onAir = 0, arrivals > 0, latest.hit = Undamaged
             PROVE  LET at == CrcAt(txbuf[I_LEN]) IN
                    /\ (\A c \in latest.cut .. (at + 1) : rxbuf[c] = txbuf[c]) => CrcOk(rxbuf)
                    /\ latest.cut >= at /\ CrcOk(rxbuf) =>
                         \A c \in {at, at + 1} : rxbuf[c] = txbuf[c]
  BY DEF CrcBytesDecide
<1> DEFINE len == txbuf[I_LEN]
           at == CrcAt(len)
<1>1. IsBuffer(txbuf) /\ CrcOk(txbuf)
      /\ \A c \in Cells : c < latest.cut => rxbuf[c] = txbuf[c]
  BY DEF FrameInv
<1>2. at \in Int /\ latest.cut \in Int /\ Cells \subseteq Int
  <2>1. len \in Byte /\ latest.cut \in 0 .. BufferLen
    BY <1>1 DEF FrameInv, IsBuffer
  <2>2. at \in Int /\ latest.cut \in Int
    BY <2>1 DEF CrcAt, I_DATA, Byte, BufferLen
  <2> QED  BY <2>2 DEF Cells, I_DATA
<1>3. at > I_LEN /\ I_LEN \in Cells
  BY <1>1, CellFacts DEF IsBuffer
<1> HIDE DEF at
<1>4. ASSUME \A c \in latest.cut .. (at + 1) : rxbuf[c] = txbuf[c]
      PROVE  CrcOk(rxbuf)
  <2>1. \A c \in Cells : c < at + 2 => c < latest.cut \/ c \in latest.cut .. (at + 1)
    BY <1>2
  <2>2. \A c \in Cells : c < at + 2 => rxbuf[c] = txbuf[c]
    BY <1>1, <1>4, <2>1
  <2> QED  BY <1>1, <2>2, CrcOkLocal DEF at
<1>5. ASSUME latest.cut >= at, CrcOk(rxbuf)
      PROVE  \A c \in {at, at + 1} : rxbuf[c] = txbuf[c]
  <2>1. \A c \in Cells : c < at => rxbuf[c] = txbuf[c]
    BY <1>1, <1>2, <1>5
  <2>2. rxbuf[I_LEN] = len
    BY <1>3, <2>1
  <2>3. Covered(rxbuf) = Covered(txbuf)
    BY <1>1, <2>1, <2>2, SameCovered DEF at
  <2> QED  BY <1>1, <1>5, <2>2, <2>3 DEF CrcOk, at
<1> QED  BY <1>4, <1>5 DEF at

\* Copying the first bytes of a frame.
LEMMA OverFacts ==
  ASSUME NEW m, NEW data, NEW n \in Int, IsBuffer(m), IsBuffer(data)
  PROVE  /\ IsBuffer(Over(m, data, n))
         /\ \A c \in Cells : c < n => Over(m, data, n)[c] = data[c]
<1>1. I_LEN \in Cells
  BY DEF I_LEN, Cells, I_DATA
<1>2. \A c \in Cells : Over(m, data, n)[c] = IF c < n THEN data[c] ELSE m[c]
  BY DEF Over
<1>3. Over(m, data, n)[I_LEN] \in Byte
  BY <1>1, <1>2 DEF IsBuffer
<1>4. Over(m, data, n) = [c \in Cells |-> Over(m, data, n)[c]]
  BY <1>2 DEF Over
<1> QED
  BY <1>2, <1>3, <1>4 DEF IsBuffer

LEMMA MemoryIsBuffer ==
  ASSUME NEW m \in Memory
  PROVE  IsBuffer(m)
BY DEF Memory, IsBuffer, Cells, I_LEN, I_DATA

\* Flipping a bit of a byte gives a byte.
LEMMA FlippedByte ==
  ASSUME NEW b \in Byte, NEW w \in Weights
  PROVE  Flipped(b, w) \in Byte
BY DEF Byte, Weights, Flipped

LEMMA FrameStarted == FrameInit => FrameInv
BY MemoryIsBuffer, FrameAssumption DEF FrameInit, FrameInv, BufferLen, Undamaged

LEMMA FrameStepped == FrameInv /\ [FrameNext]_frameVars => FrameInv'
<1> SUFFICES ASSUME FrameInv, [FrameNext]_frameVars PROVE FrameInv'
  OBVIOUS
<1> USE DEF FrameInv
<1>1. ASSUME NEW p \in Datagrams, Enqueue(p) PROVE FrameInv'
  <2>1. PICK s \in Stack, rnd \in Random :
          txbuf' = WithCrc([Over(s, p.data, p.len) EXCEPT ![I_RND] = rnd])
    BY <1>1 DEF Enqueue
  <2> DEFINE m == Over(s, p.data, p.len)
  <2>2. s \in Memory /\ p.data \in Memory /\ p.len \in Int
    BY FrameAssumption DEF Datagram, BufferLen
  <2>3. IsBuffer(m)
    BY <2>2, MemoryIsBuffer, OverFacts
  <2>4. IsBuffer([m EXCEPT ![I_RND] = rnd])
    <3>1. I_RND # I_LEN /\ I_LEN \in Cells
      BY DEF I_RND, I_LEN, Cells, I_DATA
    <3> QED
      BY <2>3, <3>1 DEF IsBuffer
  <2>5. IsBuffer(txbuf') /\ CrcOk(txbuf')
    BY <2>1, <2>4, WithCrcOk
  <2> QED
    BY <1>1, <2>5 DEF Enqueue, SentLen, BufferLen
<1>2. ASSUME NEW p \in Foreign, DeviceSends(p) PROVE FrameInv'
  <2>1. p.data \in Memory /\ p.len \in 0 .. BufferLen /\ p.len > 0
    BY FrameAssumption DEF Datagram
  <2>2. IsBuffer(txbuf') /\ CrcOk(txbuf')
    BY <1>2, <2>1, MemoryIsBuffer, WithCrcOk DEF DeviceSends
  <2> QED
    BY <1>2, <2>1, <2>2 DEF DeviceSends, BufferLen
<1>3. ASSUME NEW n \in Cuts, Arrive(n) PROVE FrameInv'
  <2> DEFINE k == IF n < onAir THEN n ELSE onAir
  <2>1. k \in 0 .. BufferLen
    BY FrameAssumption DEF BufferLen
  <2>2. IsBuffer(rxbuf') /\ \A c \in Cells : c < k => rxbuf'[c] = txbuf[c]
    BY <1>3, <2>1, OverFacts DEF Arrive, BufferLen
  <2>3. /\ latest' = [cut |-> k, hit |-> Undamaged]
        /\ onAir' = 0 /\ arrivals' = arrivals + 1 /\ txbuf' = txbuf
        /\ onAir > 0
    BY <1>3 DEF Arrive
  <2> QED
    BY <2>1, <2>2, <2>3 DEF BufferLen
<1>4. ASSUME NEW f \in Flips, ArriveDamaged(f) PROVE FrameInv'
  <2> DEFINE m == Over(rxbuf, txbuf, onAir)
  <2>1. IsBuffer(m)
    BY OverFacts DEF BufferLen
  <2>2. f.at \in 0 .. (BufferLen - 1) /\ f.weight \in Weights
    BY FrameAssumption
  <2> HIDE DEF m
  <2>3. m[I_LEN] \in Byte
    BY <2>1 DEF IsBuffer
  <2>4. Flipped(m[I_LEN], f.weight) \in Byte
    BY <2>2, <2>3, FlippedByte
  <2>8. I_LEN \in Cells
    BY DEF I_LEN, Cells, I_DATA
  <2>5. rxbuf' = [m EXCEPT ![f.at] = Flipped(m[f.at], f.weight)]
    BY <1>4 DEF ArriveDamaged, m
  <2>6. IsBuffer(rxbuf')
    <3>1. rxbuf' = [c \in Cells |-> rxbuf'[c]]
      BY <2>1, <2>5 DEF IsBuffer
    <3>2. rxbuf'[I_LEN] \in Byte
      BY <2>1, <2>3, <2>4, <2>5, <2>8 DEF IsBuffer
    <3> QED
      BY <3>1, <3>2 DEF IsBuffer
  <2>7. /\ latest' = [cut |-> onAir, hit |-> f.at]
        /\ onAir' = 0 /\ arrivals' = arrivals + 1 /\ txbuf' = txbuf
        /\ onAir > f.at
    BY <1>4, Zenon DEF ArriveDamaged
  <2>9. onAir > 0 /\ f.at # Undamaged /\ f.at \in Cells
    BY <2>2, <2>7 DEF BufferLen, Undamaged, Cells, I_DATA
  <2>10. \A c \in Cells : c < onAir => m[c] = txbuf[c]
    BY OverFacts DEF BufferLen, m
  <2>11. rxbuf'[f.at] = Flipped(txbuf[f.at], f.weight)
    BY <2>1, <2>5, <2>7, <2>9, <2>10 DEF IsBuffer
  <2>12. \A c \in Cells : c < onAir /\ c # f.at => rxbuf'[c] = txbuf[c]
    BY <2>1, <2>5, <2>10 DEF IsBuffer
  <2> QED
    BY <2>2, <2>6, <2>7, <2>9, <2>11, <2>12 DEF BufferLen
<1>5. CASE UNCHANGED frameVars
  BY <1>5 DEF frameVars, CrcOk, IsBuffer
<1> QED
  BY <1>1, <1>2, <1>3, <1>4, <1>5 DEF FrameNext

\* For every CRC function, packet, old buffer and amount of the frame that has
\* arrived: what is there of the CRC, or was left in its place, decides.
THEOREM BytesDecide == FrameSpec => []CrcBytesDecide
<1>1. FrameInv => CrcBytesDecide
  BY FrameInvImplies
<1> QED
  BY FrameStarted, FrameStepped, <1>1, PTL DEF FrameSpec

-----------------------------------------------------------------------------
(* Damage *)

CrcDetects == \A bytes \in Seq(Byte) : DetectsABit(bytes)

\* With a CRC of sixteen bits, buffers hold bytes.
BytesInv == txbuf \in Memory /\ rxbuf \in Memory

LEMMA CoveredBytes ==
  ASSUME NEW m \in Memory
  PROVE  Covered(m) \in Seq(Byte)
<1>1. m[I_LEN] \in Byte
  BY MemoryIsBuffer DEF IsBuffer
<1>2. CrcLen(m[I_LEN]) \in Nat
  BY <1>1, SMTT(30) DEF CrcLen, Byte
<1>3. \A n \in 1 .. CrcLen(m[I_LEN]) : m[I_SRC + n - 1] \in Byte
  BY <1>1, CellFacts DEF Memory
<1> QED  BY <1>2, <1>3 DEF Covered

LEMMA CrcTyped ==
  ASSUME CrcDetects, NEW bytes \in Seq(Byte)
  PROVE  Crc(bytes) \in CrcValues
<1>1. DetectsABit(bytes)
  BY Zenon DEF CrcDetects
<1> QED  BY <1>1, Zenon DEF DetectsABit

\* The two bytes of a CRC are bytes, and determine it.
LEMMA BytesOfCrc ==
  ASSUME NEW x \in CrcValues
  PROVE  Low(x) \in Byte /\ High(x) \in Byte /\ x = 256 * High(x) + Low(x)
<1> DEFINE r == x % 256
           q == x \div 256
<1>1. x \in Nat /\ x < 256 * 256
  BY DEF CrcValues
<1>2. r \in 0 .. 255 /\ q \in Nat /\ x = 256 * q + r
  BY <1>1
<1> HIDE DEF r, q
<1>3. q <= 255
  BY <1>1, <1>2
<1>4. q \in 0 .. 255
  BY <1>2, <1>3
<1> QED  BY <1>2, <1>4 DEF r, q, Low, High, Byte

LEMMA WithCrcBytes ==
  ASSUME CrcDetects, NEW m \in Memory
  PROVE  WithCrc(m) \in Memory
<1> DEFINE crc == Crc(Covered(m))
<1>1. crc \in CrcValues
  BY CoveredBytes, CrcTyped, Zenon
<1> HIDE DEF crc
<1>2. Low(crc) \in Byte /\ High(crc) \in Byte
  BY <1>1, BytesOfCrc
<1>3. WithCrc(m) = [m EXCEPT ![CrcAt(m[I_LEN])] = Low(crc), ![CrcAt(m[I_LEN]) + 1] = High(crc)]
  BY DEF WithCrc, crc
<1> QED  BY <1>2, <1>3 DEF Memory

LEMMA OverBytes ==
  ASSUME NEW m \in Memory, NEW data \in Memory, NEW n \in Int
  PROVE  Over(m, data, n) \in Memory
BY DEF Over, Memory

LEMMA BytesStepped ==
  ASSUME CrcDetects, FrameInv, BytesInv, [FrameNext]_frameVars
  PROVE  BytesInv'
<1>1. ASSUME NEW p \in Datagrams, Enqueue(p) PROVE BytesInv'
  <2>1. PICK s \in Stack, rnd \in Random :
          txbuf' = WithCrc([Over(s, p.data, p.len) EXCEPT ![I_RND] = rnd])
    BY <1>1 DEF Enqueue
  <2>2. s \in Memory /\ p.data \in Memory /\ p.len \in Int /\ rnd \in Byte
    BY FrameAssumption DEF Datagram, BufferLen
  <2>3. [Over(s, p.data, p.len) EXCEPT ![I_RND] = rnd] \in Memory
    BY <2>2, OverBytes DEF Memory
  <2>4. rxbuf' = rxbuf
    BY <1>1 DEF Enqueue
  <2> QED  BY <2>1, <2>3, <2>4, WithCrcBytes DEF BytesInv
<1>2. ASSUME NEW p \in Foreign, DeviceSends(p) PROVE BytesInv'
  <2>1. p.data \in Memory
    BY FrameAssumption DEF Datagram
  <2> QED  BY <1>2, <2>1, WithCrcBytes DEF DeviceSends, BytesInv
<1>3. ASSUME NEW n \in Cuts, Arrive(n) PROVE BytesInv'
  <2>1. (IF n < onAir THEN n ELSE onAir) \in Int
    BY FrameAssumption DEF FrameInv, BufferLen
  <2> QED  BY <1>3, <2>1, OverBytes DEF Arrive, BytesInv
<1>4. ASSUME NEW f \in Flips, ArriveDamaged(f) PROVE BytesInv'
  <2> DEFINE m == Over(rxbuf, txbuf, onAir)
  <2>1. m \in Memory
    BY OverBytes DEF FrameInv, BytesInv, BufferLen
  <2>2. rxbuf' = [m EXCEPT ![f.at] = Flipped(m[f.at], f.weight)] /\ txbuf' = txbuf
    BY <1>4 DEF ArriveDamaged
  <2> HIDE DEF m
  <2>3. f.at \in Cells /\ f.weight \in Weights
    BY FrameAssumption DEF Cells, I_DATA, BufferLen
  <2>4. Flipped(m[f.at], f.weight) \in Byte
    BY <2>1, <2>3, FlippedByte DEF Memory
  <2> QED  BY <2>1, <2>2, <2>4 DEF Memory, BytesInv
<1>5. CASE UNCHANGED frameVars
  BY <1>5 DEF frameVars, BytesInv
<1> QED  BY <1>1, <1>2, <1>3, <1>4, <1>5 DEF FrameNext

\* A bit flipped in the bytes that are covered makes another CRC.
LEMMA CoveredFlipped ==
  ASSUME CrcDetects, NEW b \in Memory, NEW d \in Memory, NEW w \in Weights,
         b[I_LEN] = d[I_LEN], NEW n \in 1 .. CrcLen(d[I_LEN]),
         b[I_SRC + n - 1] = Flipped(d[I_SRC + n - 1], w),
         \A c \in Cells : c < CrcAt(d[I_LEN]) /\ c # I_SRC + n - 1 => b[c] = d[c]
  PROVE  Crc(Covered(b)) # Crc(Covered(d))
<1> DEFINE len == d[I_LEN]
<1>1. Covered(d) \in Seq(Byte) /\ DOMAIN Covered(d) = 1 .. CrcLen(len)
  BY CoveredBytes DEF Covered
<1>2. \A k \in 1 .. CrcLen(len) : I_SRC + k - 1 \in Cells /\ I_SRC + k - 1 < CrcAt(len)
  BY CellFacts, MemoryIsBuffer DEF IsBuffer
<1>3. \A k \in 1 .. CrcLen(len) :
        b[I_SRC + k - 1] = IF k = n THEN Flipped(d[I_SRC + n - 1], w) ELSE d[I_SRC + k - 1]
  BY <1>2 DEF I_SRC
<1>4. Covered(b) = [Covered(d) EXCEPT ![n] = Flipped(Covered(d)[n], w)]
  BY <1>3 DEF Covered
<1>5. DetectsABit(Covered(d))
  BY <1>1, Zenon DEF CrcDetects
<1>6. Crc([Covered(d) EXCEPT ![n] = Flipped(Covered(d)[n], w)]) # Crc(Covered(d))
  BY <1>1, <1>5, Zenon DEF DetectsABit
<1> QED  BY <1>4, <1>6, Zenon

\* Another byte results from flipping one of its bits.
LEMMA FlippedDiffers ==
  ASSUME NEW b \in Byte, NEW w \in Weights
  PROVE  Flipped(b, w) # b
BY DEF Byte, Weights, Flipped

LEMMA DamageIsNoticed ==
  ASSUME CrcDetects, FrameInv, BytesInv
  PROVE  DamageNoticed
<1> DEFINE len == txbuf[I_LEN]
           at == CrcAt(len)
           h == latest.hit
<1> SUFFICES ASSUME onAir = 0, latest.cut > at + 1, h # Undamaged, h # I_LEN
             PROVE  CrcOk(rxbuf) <=> h < I_SRC \/ h > at + 1
  BY DEF DamageNoticed
<1>1. IsBuffer(txbuf) /\ CrcOk(txbuf) /\ txbuf \in Memory /\ rxbuf \in Memory
  BY DEF FrameInv, BytesInv
<1>2. /\ h \in 0 .. (BufferLen - 1) /\ h \in Cells
      /\ \A c \in Cells : c < latest.cut /\ c # h => rxbuf[c] = txbuf[c]
  BY DEF FrameInv, Cells, BufferLen, I_DATA
<1>3. PICK w \in Weights : rxbuf[h] = Flipped(txbuf[h], w)
  BY DEF FrameInv
<1>4. len \in Byte /\ latest.cut \in 0 .. BufferLen
  BY <1>1 DEF IsBuffer, FrameInv
<1>5. at = 13 + len /\ len <= 241 /\ CrcLen(len) = 9 + len
  <2>1. at = 13 + len /\ len \in Int /\ latest.cut <= 256
    BY <1>4 DEF CrcAt, I_DATA, Byte, BufferLen
  <2>2. len <= 241 /\ len >= 0
    BY <1>4, <2>1 DEF Byte, BufferLen
  <2> QED  BY <2>1, <2>2 DEF CrcLen
<1>6. /\ I_LEN \in Cells /\ at \in Cells /\ at + 1 \in Cells /\ at > I_LEN
  BY <1>4, CellFacts
<1>7. Cells \subseteq Int /\ I_LEN = 12 /\ I_SRC = 4
  BY DEF Cells, I_DATA, I_LEN, I_SRC
<1>8. latest.cut \in Int /\ h \in Int
  BY <1>2, <1>4 DEF BufferLen
<1> HIDE DEF at, h, len
<1>9. /\ I_LEN \in Cells /\ at \in Cells /\ at + 1 \in Cells
      /\ I_LEN = 12 /\ I_SRC = 4 /\ Cells \subseteq Int /\ at \in Int /\ h \in Int /\ at > 12
  BY <1>6, <1>7, <1>8
<1>10. \A c \in Cells : c < at + 2 /\ c # h => rxbuf[c] = txbuf[c]
  <2>1. \A c \in Cells : c < at + 2 => c < latest.cut
    BY <1>8, <1>9
  <2> QED  BY <1>2, <2>1
<1>11. rxbuf[I_LEN] = len
  BY <1>9, <1>10 DEF len
<1>12. txbuf[at] = Low(Crc(Covered(txbuf))) /\ txbuf[at + 1] = High(Crc(Covered(txbuf)))
  BY <1>1 DEF CrcOk, at, len
<1>13. CASE h < I_SRC \/ h > at + 1
  <2>1. ASSUME NEW c \in Cells, I_SRC <= c, c < at
        PROVE  rxbuf[c] = txbuf[c]
    <3>1. c \in Int /\ at \in Int /\ h \in Int /\ I_SRC = 4
      BY <1>9
    <3>2. c < at + 2 /\ c # h
      BY <1>13, <2>1, <3>1
    <3> QED  BY <1>10, <3>2
  <2>2. Covered(rxbuf) = Covered(txbuf)
    BY <1>1, <1>11, <2>1, SameCovered DEF at, len
  <2>3. rxbuf[at] = txbuf[at] /\ rxbuf[at + 1] = txbuf[at + 1]
    BY <1>9, <1>10, <1>13
  <2> QED  BY <1>11, <1>12, <1>13, <2>2, <2>3 DEF CrcOk, at
<1>14. CASE h = at \/ h = at + 1
  <2>1. ASSUME NEW c \in Cells, I_SRC <= c, c < at
        PROVE  rxbuf[c] = txbuf[c]
    <3>1. c \in Int /\ at \in Int /\ h \in Int /\ I_SRC = 4
      BY <1>9
    <3>2. c < at + 2 /\ c # h
      BY <1>14, <2>1, <3>1
    <3> QED  BY <1>10, <3>2
  <2>2. Covered(rxbuf) = Covered(txbuf)
    BY <1>1, <1>11, <2>1, SameCovered DEF at, len
  <2>3. rxbuf[h] # txbuf[h]
    BY <1>1, <1>2, <1>3, FlippedDiffers DEF Memory
  <2>4. ~(h < I_SRC \/ h > at + 1)
    BY <1>9, <1>14
  <2> QED  BY <1>11, <1>12, <1>14, <2>2, <2>3, <2>4 DEF CrcOk, at
<1>15. CASE I_SRC <= h /\ h < at
  <2> DEFINE n == h - 3
  <2>1. n \in 1 .. CrcLen(len) /\ I_SRC + n - 1 = h
    BY <1>4, <1>5, <1>9, <1>15 DEF Byte
  <2>2. \A c \in Cells : c < at /\ c # h => rxbuf[c] = txbuf[c]
    BY <1>9, <1>10
  <2> HIDE DEF n
  <2>3. Crc(Covered(rxbuf)) # Crc(Covered(txbuf))
    BY <1>1, <1>3, <1>11, <2>1, <2>2, CoveredFlipped DEF at, len
  <2>4. Crc(Covered(rxbuf)) \in CrcValues /\ Crc(Covered(txbuf)) \in CrcValues
    BY <1>1, CoveredBytes, CrcTyped, Zenon
  <2>5. rxbuf[at] = txbuf[at] /\ rxbuf[at + 1] = txbuf[at + 1]
    BY <1>9, <1>10, <1>15
  <2>6. ~CrcOk(rxbuf)
    <3> SUFFICES ASSUME CrcOk(rxbuf) PROVE FALSE
      OBVIOUS
    <3> DEFINE x == Crc(Covered(rxbuf))
               y == Crc(Covered(txbuf))
    <3>1. Low(x) = Low(y) /\ High(x) = High(y)
      BY <1>11, <1>12, <2>5 DEF CrcOk, at
    <3>2. x \in CrcValues /\ y \in CrcValues /\ x # y
      BY <2>3, <2>4, Zenon
    <3> HIDE DEF x, y
    <3>3. x = 256 * High(x) + Low(x) /\ y = 256 * High(y) + Low(y)
      BY <3>2, BytesOfCrc, Zenon
    <3> QED  BY <3>1, <3>2, <3>3, Zenon
  <2>7. ~(h < I_SRC \/ h > at + 1)
    BY <1>9, <1>15
  <2> QED  BY <2>6, <2>7
<1> QED  BY <1>9, <1>13, <1>14, <1>15

\* With a CRC of sixteen bits that no flipped bit leaves as it was, as crc16 is, a
\* damaged bit is noticed in exactly the bytes from the source to the CRC.
THEOREM DamageSeen ==
  ASSUME CrcDetects
  PROVE  FrameSpec => []DamageNoticed
<1>1. FrameInit => FrameInv /\ BytesInv
  BY FrameStarted, FrameAssumption DEF FrameInit, BytesInv
<1>2. FrameInv /\ BytesInv /\ [FrameNext]_frameVars => (FrameInv /\ BytesInv)'
  BY FrameStepped, BytesStepped
<1>3. FrameInv /\ BytesInv => DamageNoticed
  BY DamageIsNoticed
<1> QED  BY <1>1, <1>2, <1>3, PTL DEF FrameSpec
===============================================================================
