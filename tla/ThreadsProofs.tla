----------------------------- MODULE ThreadsProofs -----------------------------
(***************************************************************************)
(* Proofs about the threads of the gateway: how main starts and stops them *)
(* (Lifecycle, for any set of WebSocket clients), what rfRecvThread makes  *)
(* of a datagram (RfReceive, for every set of known addresses, keys and    *)
(* commands, every counter width and every way datagrams are cut short or  *)
(* damaged), and how wsAcceptThread hands connections to the threads it    *)
(* starts (WsAccept, for any number of connections and descriptors).       *)
(***************************************************************************)
EXTENDS Lifecycle, RfReceive, WsAccept, TLAPS

-----------------------------------------------------------------------------
(* Lifecycle: starting and stopping *)

\* Every variable has its type, on every path through startup and shutdown.
THEOREM TypeCorrect == SafeSpec => []TypeOK
<1>1. Init => TypeOK
  BY DEF Init, TypeOK, Threads, Parts
<1>2. TypeOK /\ [Next]_vars => TypeOK'
  <2> SUFFICES ASSUME TypeOK, [Next]_vars  PROVE  TypeOK'
    OBVIOUS
  <2> USE DEF TypeOK, Threads, Parts
  <2>1. CASE Startup
    <3> USE DEF Goto, StartThread
    <3>1. CASE RfInitFails
      BY <3>1 DEF RfInitFails
    <3>2. CASE RfInitOk
      BY <3>2 DEF RfInitOk
    <3>3. CASE ConfigParse
      <4>1. /\ main' \in {"rfOpen", "rfDeInit"}
            /\ code' \in {code, 1}
            /\ UNCHANGED <<sock, run, devices, at, started, dangling, late,
                           closes>>
        BY <3>3, Zenon DEF ConfigParse
      <4> QED  BY <4>1
    <3>4. CASE RfOpenFails
      BY <3>4 DEF RfOpenFails
    <3>5. CASE RfOpenOk
      BY <3>5 DEF RfOpenOk
    <3>6. CASE UdpInitFails
      BY <3>6 DEF UdpInitFails
    <3>7. CASE UdpInitOk
      BY <3>7 DEF UdpInitOk
    <3>8. CASE WsInitFails
      BY <3>8 DEF WsInitFails
    <3>9. CASE WsInitOk
      BY <3>9 DEF WsInitOk
    <3> QED  BY <2>1, <3>1, <3>2, <3>3, <3>4, <3>5, <3>6, <3>7, <3>8, <3>9
             DEF Startup
  <2>2. CASE Quit
    BY <2>2 DEF Quit, Goto
  <2>3. CASE Shutdown
    <3> USE DEF Goto, Stop
    <3>1. CASE WsDeInit
      BY <3>1 DEF WsDeInit
    <3>2. CASE UdpDeInit
      BY <3>2 DEF UdpDeInit
    <3>3. CASE RfDeInitRun
      BY <3>3 DEF RfDeInitRun
    <3>4. CASE RfDeInitFree
      BY <3>4 DEF RfDeInitFree
    <3>5. CASE RfDeInitClose
      BY <3>5 DEF RfDeInitClose
    <3> QED  BY <2>3, <3>1, <3>2, <3>3, <3>4, <3>5 DEF Shutdown
  <2>4. ASSUME NEW t \in Threads, Check(t)  PROVE  TypeOK'
    BY <2>4 DEF Check, Step
  <2>5. ASSUME NEW t \in Threads, Enter(t)  PROVE  TypeOK'
    BY <2>5 DEF Enter, Step
  <2>6. ASSUME NEW t \in Threads, Fail(t)  PROVE  TypeOK'
    BY <2>6 DEF Fail, Step
  <2>7. ASSUME NEW t \in Threads, Packet(t)  PROVE  TypeOK'
    BY <2>7 DEF Packet, Step
  <2>8. ASSUME NEW t \in Threads, Lookup(t)  PROVE  TypeOK'
    <3>1. PICK pc \in {"use", "recv", "check"} : Step(t, pc)
      BY <2>8, Zenon DEF Lookup, Again
    <3>2. at' \in [Threads -> {"none", "check", "recv", "wait", "lookup", "use", "ended"}]
      BY <3>1 DEF Step
    <3>3. UNCHANGED <<code, sock, run, devices, closes, started, late>>
      BY <2>8, <3>1, Zenon DEF Step, Lookup
    <3>4. dangling' \subseteq Threads /\ main' \in {main, "aborted"}
      BY <2>8, Zenon DEF Lookup, Touch
    <3>5. main' \in {"rfInit", "config", "rfOpen", "udpInit", "wsInit", "serve", "wsDeInit",
                     "udpDeInit", "rfDeInit", "rfFree", "rfClose", "exit", "aborted"}
      BY <3>4
    <3>6. code' \in 0 .. 4 /\ started' \subseteq Threads /\ late' \in [Threads -> Nat]
      BY <3>3, Zenon
    <3>7. /\ sock' \in [Parts -> {"none", "open", "closed"}] /\ run' \in [Parts -> BOOLEAN]
          /\ devices' \in {"none", "live", "freed"} /\ closes' \in [Parts -> Nat]
      BY <3>3, Zenon
    <3> HIDE DEF Threads, Parts
    <3> QED  BY <3>2, <3>4, <3>5, <3>6, <3>7, Zenon
  <2>9. ASSUME NEW t \in Threads, Use(t)  PROVE  TypeOK'
    BY <2>9 DEF Use, Step, Touch, Again
  <2>10. ASSUME NEW c \in Clients, Accept(c)  PROVE  TypeOK'
    BY <2>10 DEF Accept
  <2>11. ASSUME NEW c \in Clients, Killed(c)  PROVE  TypeOK'
    BY <2>11 DEF Killed
  <2>12. CASE UNCHANGED vars
    BY <2>12 DEF vars
  <2> QED  BY <2>1, <2>2, <2>3, <2>4, <2>5, <2>6, <2>7, <2>8, <2>9, <2>10,
              <2>11, <2>12 DEF Next
<1> QED  BY <1>1, <1>2, PTL DEF SafeSpec

-----------------------------------------------------------------------------
(* The order in which main does things *)

\* Where main is before the first thread, and between rfOpen and rfDeInit.
Before  == {"rfInit", "config", "rfOpen"}
Between == {"udpInit", "wsInit", "serve", "wsDeInit", "udpDeInit"}

\* Threads are started one after the other, and only what was started runs.
Starting ==
  /\ \A t \in Threads : at[t] # "none" => t \in started
  /\ main \in Before => started = {}
  /\ main = "udpInit" => "udp" \notin started

\* What the threads use is there.
Supplied ==
  /\ main \in {"config", "rfOpen"} => devices = "live"
  /\ main \in Between \/ (main = "rfDeInit" /\ started # {})
       => devices = "live" /\ sock["rf"] = "open"

\* A thread that took in a packet after its flag was cleared will look at the
\* flag before it takes in another.
Draining ==
  \A p \in {"rf", "udp"} :
    late[p] # 0 =>
      /\ late[p] = 1
      /\ ~run[p]
      /\ at[p] \in {"lookup", "use", "check", "ended"}

\* How often each socket may have been closed by now.
Closing ==
  /\ closes["udp"] <= 1 /\ closes["ws"] <= 1
  /\ main \in Before \cup Between => closes["udp"] = 0
  /\ main \in (Before \cup Between) \ {"udpDeInit"} => closes["ws"] = 0
  /\ main \in Before \cup Between => closes["rf"] = 0
  /\ started # {} => closes["rf"] <= 1
  /\ started # {} /\ ~Over => closes["rf"] = 0

Inv == TypeOK /\ Starting /\ Supplied /\ Draining /\ Closing

\* The order of startup and shutdown, from which the properties follow.
THEOREM OrderKept == SafeSpec => []Inv
<1> USE DEF Threads, Parts
<1>1. Init => Inv
  <2> SUFFICES ASSUME Init  PROVE  Inv
    OBVIOUS
  <2>1. TypeOK
    BY DEF Init, TypeOK
  <2>2. Starting /\ Supplied /\ Draining
    BY DEF Init, Starting, Supplied, Draining, Between
  <2>3. Closing
    BY DEF Init, Closing
  <2> QED  BY <2>1, <2>2, <2>3 DEF Inv
<1>2. TypeOK /\ TypeOK' /\ Inv /\ [Next]_vars => Inv'
  <2> SUFFICES ASSUME TypeOK, TypeOK', Starting, Supplied, Draining, Closing,
                      [Next]_vars
               PROVE  (Starting /\ Supplied /\ Draining /\ Closing)'
    BY DEF Inv
  <2> USE DEF TypeOK, Before, Between, Over
  <2>1. CASE Startup
    <3> USE DEF Goto, StartThread, Starting, Supplied, Draining, Closing
    <3>1. CASE RfInitFails
      BY <3>1 DEF RfInitFails
    <3>2. CASE RfInitOk
      BY <3>2 DEF RfInitOk
    <3>3. CASE ConfigParse
      BY <3>3 DEF ConfigParse
    <3>4. CASE RfOpenFails
      BY <3>4, ZenonT(60) DEF RfOpenFails
    <3>5. CASE RfOpenOk
      BY <3>5 DEF RfOpenOk
    <3>6. CASE UdpInitFails
      BY <3>6 DEF UdpInitFails
    <3>7. CASE UdpInitOk
      BY <3>7 DEF UdpInitOk
    <3>8. CASE WsInitFails
      BY <3>8 DEF WsInitFails
    <3>9. CASE WsInitOk
      BY <3>9 DEF WsInitOk
    <3> QED  BY <2>1, <3>1, <3>2, <3>3, <3>4, <3>5, <3>6, <3>7, <3>8, <3>9
             DEF Startup
  <2>2. CASE Quit
    BY <2>2 DEF Quit, Goto, Starting, Supplied, Draining, Closing
  <2>3. CASE Shutdown
    <3> USE DEF Goto, Stop, Starting, Supplied, Draining, Closing
    <3>1. CASE WsDeInit
      BY <3>1 DEF WsDeInit
    <3>2. CASE UdpDeInit
      BY <3>2 DEF UdpDeInit
    <3>3. CASE RfDeInitRun
      BY <3>3 DEF RfDeInitRun
    <3>4. CASE RfDeInitFree
      BY <3>4 DEF RfDeInitFree
    <3>5. CASE RfDeInitClose
      BY <3>5 DEF RfDeInitClose
    <3> QED  BY <2>3, <3>1, <3>2, <3>3, <3>4, <3>5 DEF Shutdown
  \* The threads change nothing of main's, but may end the process.
  <2>4. ASSUME main' \in {main, "aborted"}, started' = started,
               UNCHANGED <<sock, devices, closes>>
        PROVE  (Supplied /\ Closing)'
    BY <2>4 DEF Supplied, Closing
  <2>5. ASSUME NEW t \in Threads, NEW pc \in {"recv", "wait", "lookup", "use",
                                              "check", "ended"},
               at[t] # "none", at' = [at EXCEPT ![t] = pc],
               main' \in {main, "aborted"}, started' = started
        PROVE  Starting'
    BY <2>5 DEF Starting
  <2>6. ASSUME NEW t \in Threads, Check(t)
        PROVE  (Starting /\ Supplied /\ Draining /\ Closing)'
    <3>1. Draining'
      BY <2>6 DEF Check, Step, Draining
    <3> QED  BY <2>4, <2>5, <2>6, <3>1 DEF Check, Step
  <2>7. ASSUME NEW t \in Threads, Enter(t)
        PROVE  (Starting /\ Supplied /\ Draining /\ Closing)'
    <3>1. Draining'
      BY <2>7 DEF Enter, Step, Draining
    <3> QED  BY <2>4, <2>5, <2>7, <3>1 DEF Enter, Step
  <2>8. ASSUME NEW t \in Threads, Fail(t)
        PROVE  (Starting /\ Supplied /\ Draining /\ Closing)'
    <3>1. Draining'
      BY <2>8 DEF Fail, Step, Draining
    <3> QED  BY <2>4, <2>5, <2>8, <3>1 DEF Fail, Step
  <2>9. ASSUME NEW t \in Threads, Packet(t)
        PROVE  (Starting /\ Supplied /\ Draining /\ Closing)'
    <3>1. Draining'
      BY <2>9 DEF Packet, Step, Draining
    <3> QED  BY <2>4, <2>5, <2>9, <3>1 DEF Packet, Step
  <2>10. ASSUME NEW t \in Threads, Lookup(t)
         PROVE  (Starting /\ Supplied /\ Draining /\ Closing)'
    <3>1. main' \in {main, "aborted"}
      BY <2>10 DEF Lookup, Touch
    <3>2. Draining'
      BY <2>10, LifecycleAssumption DEF Lookup, Step, Again, Draining
    <3> QED  BY <2>4, <2>5, <2>10, <3>1, <3>2 DEF Lookup, Step, Again
  <2>11. ASSUME NEW t \in Threads, Use(t)
         PROVE  (Starting /\ Supplied /\ Draining /\ Closing)'
    <3>1. main' \in {main, "aborted"}
      BY <2>11 DEF Use, Touch
    <3>2. Draining'
      BY <2>11, LifecycleAssumption DEF Use, Step, Again, Draining
    <3> QED  BY <2>4, <2>5, <2>11, <3>1, <3>2 DEF Use, Step, Again
  <2>12. ASSUME NEW c \in Clients, Accept(c)
         PROVE  (Starting /\ Supplied /\ Draining /\ Closing)'
    <3>1. "ws" \in started
      BY <2>12 DEF Accept, Starting
    <3>2. Starting'
      BY <2>12, <3>1, LifecycleAssumption DEF Accept, Starting
    <3>3. Draining'
      BY <2>12, LifecycleAssumption DEF Accept, Draining
    <3> QED  BY <2>12, <3>1, <3>2, <3>3 DEF Accept, Supplied, Closing
  <2>13. ASSUME NEW c \in Clients, Killed(c)
         PROVE  (Starting /\ Supplied /\ Draining /\ Closing)'
    BY <2>13 DEF Killed, Starting, Supplied, Draining, Closing
  <2>14. CASE UNCHANGED vars
    BY <2>14 DEF vars, Starting, Supplied, Draining, Closing
  <2> QED  BY <2>1, <2>2, <2>3, <2>6, <2>7, <2>8, <2>9, <2>10, <2>11, <2>12,
              <2>13, <2>14 DEF Next
<1> QED  BY <1>1, <1>2, TypeCorrect, PTL DEF SafeSpec

\* Until rf.run is cleared, a running thread finds the devices in place and
\* rf.sock open.
THEOREM ThreadsReady == SafeSpec => []ReadyForThreads
<1>1. Inv => ReadyForThreads
  BY DEF Inv, TypeOK, Starting, Supplied, ReadyForThreads, Before, Between
<1> QED  BY <1>1, OrderKept, PTL

\* After its flag is cleared, rfRecvThread or udpListener takes in at most one
\* more packet.
THEOREM AtMostOneMore == SafeSpec => []OneMorePacket
<1>1. Inv => OneMorePacket
  BY DEF Inv, Draining, OneMorePacket
<1> QED  BY <1>1, OrderKept, PTL

\* No socket is closed a second time once a thread exists.
THEOREM ClosedOnceWithThreads == SafeSpec => []SecondCloseAlone
<1>1. Inv => SecondCloseAlone
  BY DEF Inv, TypeOK, Closing, SecondCloseAlone, Parts
<1> QED  BY <1>1, OrderKept, PTL

-----------------------------------------------------------------------------
(* RfReceive: a counter that wraps *)

\* The remainder is the only number below M at a multiple of M from a.
LEMMA ModUnique ==
  ASSUME NEW M \in Nat \ {0}, NEW a \in Nat, NEW q \in Nat,
         NEW r \in 0 .. (M - 1), a = M * q + r
  PROVE  a % M = r
BY SMT

-----------------------------------------------------------------------------
(* RfReceive: the values in the buffer *)

\* A decrypted body is not taken for an encrypted one again.
LEMMA KindsDisjoint == Message \cap Cipher = {}
BY DEF Message, Cipher

\* recvfrom leaves a Buffer behind, and a body in it that is neither noise nor
\* the old one has arrived in full.
LEMMA OverwriteFacts ==
  ASSUME rxbuf \in Buffer, NEW f \in AirFrame, NEW cut \in Cuts
  PROVE  LET buf == Overwrite(f, cut) IN
         /\ buf \in Buffer
         /\ buf.body = Noise \/ buf.body = IF cut = "all" THEN f.body
                                           ELSE rxbuf.body
<1>1. f.body \in Body /\ f.src \in Addresses /\ f.enc \in BOOLEAN
  BY DEF AirFrame, Body, Plain
<1> QED  BY <1>1 DEF Overwrite, Mixed, Buffer, Body, Cuts

\* Decryption leaves the header alone, and a body that survives it is the old
\* one or the message the old one carried, which the header says is encrypted.
LEMMA OpenedFacts ==
  ASSUME NEW buf \in Buffer, NEW evp \in BOOLEAN
  PROVE  LET o == Opened(buf, evp) IN
         /\ o \in Buffer
         /\ o.src = buf.src
         /\ o.enc = buf.enc
         /\ \/ o.body = Noise
            \/ o.body = buf.body /\ ~(buf.src \in Known /\ buf.enc /\ evp)
            \/ buf.body \in Cipher /\ o.body = buf.body.msg
<1>1. Decrypt(buf.body, KeyOf[buf.src]) \in Body
  BY DEF Decrypt, Cipher, Body
<1> QED  BY <1>1 DEF Opened, MustDecrypt, Decrypt, Buffer

\* A reply is a Reply.
LEMMA ReplyTyped ==
  ASSUME NEW buf \in Buffer, buf.src \in Known, buf.body \in Message,
         buf.body.cmd \in DOMAIN Answer, NEW ok \in BOOLEAN
  PROVE  ReplyTo(buf, ok) \in Reply
<1> USE ReceiveAssumption
<1>1. buf.body.ctr \in CtrValues /\ buf.enc \in BOOLEAN
  BY DEF Message, Buffer
<1>2. ReplyTo(buf, ok).ctr \in CtrValues
  BY <1>1 DEF ReplyTo, CtrValues
<1>3. ReplyTo(buf, ok).key \in Keys \cup {None}
  BY DEF ReplyTo
<1> QED  BY <1>1, <1>2, <1>3 DEF ReplyTo, Reply, Addresses

\* Setting the top bit of a counter changes nothing below it.
LEMMA TopBit ==
  ASSUME NEW H \in Nat \ {0}, NEW c \in 0 .. (2 * H - 1), c < H
  PROVE  (c + H) % H = c % H
<1>1. c % H = c
  BY ModUnique
<1>2. (c + H) % H = c
  BY ModUnique
<1> QED  BY <1>1, <1>2

-----------------------------------------------------------------------------

\* Whatever body is in the buffer came with the latest frame received in full;
\* once it was answered encrypted it is no longer in its encrypted form.
Origin ==
  /\ rxbuf.body # Noise =>
       /\ whole # None
       /\ rxbuf.body = whole.body \/ Carries(whole.body, rxbuf.body)
  /\ opened > 0 => rxbuf.body \notin Cipher

ReceiveInv == ReceiveTypeOK /\ Origin /\ AnswersLatestFrame /\ CipherAnsweredOnce

\* The latest frame received in full is the origin of what is in the buffer
\* and of every reply, and an encrypted frame is answered once per arrival.
THEOREM ReceiveCorrect == ReceiveSpec => []ReceiveInv
<1> USE ReceiveAssumption, ValuesAssumption
<1>1. ReceiveInit => ReceiveInv
  <2> SUFFICES ASSUME ReceiveInit PROVE ReceiveInv
    OBVIOUS
  <2>1. /\ rxbuf \in Buffer /\ rxbuf.body = Noise /\ reply = None
        /\ whole = None /\ opened = 0 /\ botched = FALSE
    BY DEF ReceiveInit, Buffer, Body
  <2>2. ReceiveTypeOK
    <3>1. botched \in BOOLEAN
      BY <2>1
    <3>2. opened \in 0 .. 2
      BY <2>1
    <3> QED  BY <2>1, <3>1, <3>2, Zenon DEF ReceiveTypeOK
  <2> QED  BY <2>1, <2>2 DEF ReceiveInv, Origin, AnswersLatestFrame, CipherAnsweredOnce
<1>2. ReceiveInv /\ [ReceiveNext]_receiveVars => ReceiveInv'
  <2> SUFFICES ASSUME ReceiveInv, [ReceiveNext]_receiveVars  PROVE  ReceiveInv'
    OBVIOUS
  <2>1. CASE Nothing
    BY <2>1 DEF Nothing, ReceiveInv, ReceiveTypeOK, Origin, AnswersLatestFrame,
                CipherAnsweredOnce
  <2>2. CASE UNCHANGED receiveVars
    BY <2>2 DEF receiveVars, ReceiveInv, ReceiveTypeOK, Origin, AnswersLatestFrame,
                CipherAnsweredOnce
  <2>3. ASSUME NEW f \in AirFrame, NEW cut \in Cuts, NEW evp \in BOOLEAN,
               (UnknownDevice(f, cut) /\ evp) \/ Receive(f, cut, evp)
        PROVE  ReceiveInv'
    <3> DEFINE old == Overwrite(f, cut)
               buf == Opened(old, evp)
               before == IF cut = "all" THEN 0 ELSE opened
    <3>0. before \in 0 .. 2
      BY DEF ReceiveInv, ReceiveTypeOK
    <3>1. /\ rxbuf' = buf
          /\ \/ reply' = None
             \/ /\ buf.src \in Known /\ CrcOk(buf)
                /\ buf.body.cmd \in DOMAIN Answer
                /\ \E ok \in BOOLEAN : reply' = ReplyTo(buf, ok)
          /\ whole' = IF cut = "all" THEN f ELSE whole
          /\ opened' = IF reply' # None /\ buf.enc /\ before < 2 THEN before + 1
                       ELSE before
          /\ botched' = ((cut # "all" /\ botched) \/ ~evp)
      <4>1. CASE UnknownDevice(f, cut) /\ evp
        <5>1. buf = old /\ reply' = None
          BY <4>1 DEF UnknownDevice, Opened, MustDecrypt
        <5>2. botched' = ((cut # "all" /\ botched) \/ ~evp)
          BY <4>1, Zenon DEF UnknownDevice, Remember
        <5>3. /\ rxbuf' = buf
              /\ whole' = IF cut = "all" THEN f ELSE whole
              /\ opened' = before + (IF reply' # None /\ old.enc /\ before < 2
                                     THEN 1 ELSE 0)
          BY <4>1, <5>1, Zenon DEF UnknownDevice, Remember
        <5> HIDE DEF before
        <5>4. opened' = IF reply' # None /\ buf.enc /\ before < 2
                        THEN before + 1 ELSE before
          BY <5>1, <5>3, <3>0
        <5> QED  BY <5>1, <5>2, <5>3, <5>4, Zenon
      <4>2. CASE Receive(f, cut, evp)
        <5>1. /\ rxbuf' = buf
              /\ \/ reply' = None
                 \/ /\ buf.src \in Known /\ CrcOk(buf)
                    /\ buf.body.cmd \in DOMAIN Answer
                    /\ \E ok \in BOOLEAN : reply' = ReplyTo(buf, ok)
              /\ Remember(f, cut, buf, evp)
          BY <4>2, Zenon DEF Receive, CrcFail, NoResponse, Respond
        <5>2. botched' = ((cut # "all" /\ botched) \/ ~evp)
          BY <5>1, Zenon DEF Remember
        <5>3. /\ whole' = IF cut = "all" THEN f ELSE whole
              /\ opened' = before + (IF reply' # None /\ buf.enc /\ before < 2
                                     THEN 1 ELSE 0)
          BY <5>1, Zenon DEF Remember
        <5> HIDE DEF before
        <5>4. opened' = IF reply' # None /\ buf.enc /\ before < 2
                        THEN before + 1 ELSE before
          BY <5>3, <3>0
        <5> QED  BY <5>1, <5>2, <5>3, <5>4, Zenon
      <4> QED  BY <2>3, <4>1, <4>2
    <3>2. /\ old \in Buffer
          /\ old.body = Noise \/ old.body = IF cut = "all" THEN f.body
                                            ELSE rxbuf.body
      BY OverwriteFacts DEF ReceiveInv, ReceiveTypeOK
    <3>3. /\ buf \in Buffer
          /\ buf.src = old.src /\ buf.enc = old.enc
          /\ \/ buf.body = Noise
             \/ buf.body = old.body /\ ~(old.src \in Known /\ old.enc /\ evp)
             \/ old.body \in Cipher /\ buf.body = old.body.msg
      BY <3>2, OpenedFacts
    <3>4. /\ opened \in 0 .. 2 /\ before \in 0 .. 2
          /\ before <= 1 \/ (cut # "all" /\ botched)
          /\ before > 0 => cut # "all" /\ rxbuf.body \notin Cipher
      BY DEF ReceiveInv, ReceiveTypeOK, CipherAnsweredOnce, Origin
    <3> HIDE DEF old, buf, before
    <3>5. ASSUME reply' # None
          PROVE  /\ \E ok \in BOOLEAN : reply' = ReplyTo(buf, ok)
                 /\ reply' \in Reply
                 /\ buf.body \in Message /\ buf.src \in Known
                 /\ buf.body.src = buf.src /\ buf.body.enc = buf.enc
                 /\ buf.body.cmd \in DOMAIN Answer
                 /\ reply'.enc = buf.enc
      BY <3>1, <3>3, <3>5, ReplyTyped DEF CrcOk, ReplyTo
    <3>6. buf.body # Noise =>
            /\ whole' # None
            /\ buf.body = whole'.body \/ Carries(whole'.body, buf.body)
      <4> SUFFICES ASSUME buf.body # Noise
                   PROVE  /\ whole' # None
                          /\ \/ buf.body = whole'.body
                             \/ Carries(whole'.body, buf.body)
        OBVIOUS
      <4>1. old.body # Noise
        BY <3>3 DEF Cipher
      <4>2. CASE cut = "all"
        BY <3>1, <3>2, <3>3, <4>1, <4>2 DEF Carries
      <4>3. CASE cut # "all"
        BY <3>1, <3>2, <3>3, <4>1, <4>3, KindsDisjoint
           DEF Carries, ReceiveInv, Origin, Cipher
      <4> QED  BY <4>2, <4>3
    <3>7. reply' # None /\ buf.enc =>
            /\ before = 0 \/ botched'
            /\ buf.body \notin Cipher
      <4> SUFFICES ASSUME reply' # None, buf.enc
                   PROVE  (before = 0 \/ botched') /\ buf.body \notin Cipher
        OBVIOUS
      <4>1. old.body \in Cipher \/ ~evp
        BY <3>3, <3>5
      <4>2. CASE evp
        BY <4>1, <4>2, <3>2, <3>4, <3>5, KindsDisjoint
      <4>3. CASE ~evp
        BY <4>3, <3>1, <3>5, KindsDisjoint
      <4> QED  BY <4>2, <4>3
    <3>8. opened' > 0 => buf.body \notin Cipher
      <4>1. CASE reply' # None /\ buf.enc
        BY <4>1, <3>7
      <4>2. CASE ~(reply' # None /\ buf.enc)
        BY <4>2, <3>1, <3>2, <3>3, <3>4, KindsDisjoint DEF Cipher
      <4> QED  BY <4>1, <4>2
    <3>9. ReceiveTypeOK'
      BY <3>1, <3>3, <3>4, <3>5 DEF ReceiveInv, ReceiveTypeOK
    <3>10. Origin'
      BY <3>1, <3>6, <3>8 DEF Origin
    <3>11. CipherAnsweredOnce'
      <4>1. CASE reply' # None /\ buf.enc
        BY <4>1, <3>1, <3>4, <3>7 DEF CipherAnsweredOnce
      <4>2. CASE ~(reply' # None /\ buf.enc)
        BY <4>2, <3>1, <3>4 DEF CipherAnsweredOnce
      <4> QED  BY <4>1, <4>2
    <3>12. AnswersLatestFrame'
      <4> SUFFICES ASSUME reply' # None
                   PROVE  /\ whole' # None
                          /\ \E m \in Message :
                               /\ Carries(whole'.body, m)
                               /\ m.src = reply'.dst
                               /\ m.enc = reply'.enc
                               /\ m.cmd \in DOMAIN Answer
                               /\ reply'.cmd = Answer[m.cmd]
                               /\ reply'.ctr % CtrHalf = m.ctr % CtrHalf
        BY DEF AnswersLatestFrame
      <4> DEFINE m == buf.body
      <4>1. /\ reply'.dst = m.src /\ reply'.enc = m.enc
            /\ reply'.cmd = Answer[m.cmd]
            /\ m.cmd \in DOMAIN Answer
            /\ m \in Message
            /\ reply'.ctr = IF m.ctr >= CtrHalf THEN m.ctr
                           ELSE m.ctr + CtrHalf
        BY <3>5 DEF ReplyTo
      <4>2. whole' # None /\ Carries(whole'.body, m)
        BY <3>6, <4>1, ValuesAssumption DEF Carries
      <4>3. reply'.ctr % CtrHalf = m.ctr % CtrHalf
        <5>1. m.ctr \in 0 .. (2 * CtrHalf - 1)
          BY <4>1 DEF Message, CtrValues
        <5> QED  BY <4>1, <5>1, TopBit
      <4> QED  BY <4>1, <4>2, <4>3
    <3> QED  BY <3>9, <3>10, <3>11, <3>12 DEF ReceiveInv
  <2> QED  BY <2>1, <2>2, <2>3, ZenonT(30) DEF ReceiveNext, DecryptOutcomes
<1> QED  BY <1>1, <1>2, PTL DEF ReceiveSpec

\* Every variable has its type.
COROLLARY ReceiveTypeCorrect == ReceiveSpec => []ReceiveTypeOK
BY ReceiveCorrect, PTL DEF ReceiveInv

\* Every reply answers a message the latest complete frame carried and its CRC
\* vouches for.
COROLLARY LatestFrameAnswered == ReceiveSpec => []AnswersLatestFrame
BY ReceiveCorrect, PTL DEF ReceiveInv

\* An encrypted frame is answered at most once per arrival.
COROLLARY CipherOnce == ReceiveSpec => []CipherAnsweredOnce
BY ReceiveCorrect, PTL DEF ReceiveInv

-----------------------------------------------------------------------------
(* WsAccept: one connection, one thread *)

\* Threads are started in the order of the connections, and only a thread at
\* one of its recv() calls waits for data.
Shape ==
  /\ \A k \in Conns : k > accepted => phase[k] = "none"
  /\ acceptPc = "spawn" => accepted \in Conns /\ phase[accepted] = "none"
  /\ \A k \in Conns : on[k] # Free => phase[k] \in Receiving

\* Every variable has its type in every interleaving of the threads.
THEOREM AcceptTypeCorrect == AcceptSafeSpec => [](AcceptTypeOK /\ Shape)
<1> USE AcceptAssumption
<1>1. AcceptInit => AcceptTypeOK /\ Shape
  <2> SUFFICES ASSUME AcceptInit  PROVE  AcceptTypeOK /\ Shape
    OBVIOUS
  <2> USE DEF AcceptInit
  <2>1. accepted \in 0 .. MaxConns
    OBVIOUS
  <2>2. /\ readBy \in [Conns -> SUBSET Conns]
        /\ closedBy \in [Conns -> SUBSET Conns]
    OBVIOUS
  <2>3. alive \in BOOLEAN /\ raced \in BOOLEAN
    OBVIOUS
  <2>4. /\ table \in [Fds -> Conns \cup {Free}]
        /\ sockfd \in [Conns -> Fds \cup {NoFd}]
        /\ on \in [Conns -> Conns \cup {Free}]
    OBVIOUS
  <2>5. Shape
    BY DEF Shape
  <2> QED  BY <2>1, <2>2, <2>3, <2>4, <2>5 DEF AcceptTypeOK
<1> USE DEF Conns, Fds, Free, NoFd
<1>2. AcceptTypeOK /\ Shape /\ [AcceptNext]_acceptVars => (AcceptTypeOK /\ Shape)'
  <2> SUFFICES ASSUME AcceptTypeOK, Shape, [AcceptNext]_acceptVars  PROVE  (AcceptTypeOK /\ Shape)'
    OBVIOUS
  <2> USE DEF AcceptTypeOK, history, Shape, Receiving
  <2>1. CASE AcceptOk
    BY <2>1 DEF AcceptOk, FreeFds, Assign
  <2>2. CASE AcceptFails
    BY <2>2 DEF AcceptFails, Assign
  <2>3. CASE Spawn
    BY <2>3 DEF Spawn
  <2>4. CASE SpawnFails
    BY <2>4 DEF SpawnFails
  <2>5. ASSUME NEW k \in Conns, Start(k)  PROVE  (AcceptTypeOK /\ Shape)'
    BY <2>5 DEF Start
  <2>6. ASSUME NEW k \in Conns, RecvCall(k)  PROVE  (AcceptTypeOK /\ Shape)'
    BY <2>6 DEF RecvCall, OpenFd
  <2>7. ASSUME NEW k \in Conns, RecvBadFd(k)  PROVE  (AcceptTypeOK /\ Shape)'
    BY <2>7 DEF RecvBadFd
  <2>8. ASSUME NEW k \in Conns, RecvData(k)  PROVE  (AcceptTypeOK /\ Shape)'
    BY <2>8 DEF RecvData, RecvReturns
  <2>9. ASSUME NEW k \in Conns, RecvEnds(k)  PROVE  (AcceptTypeOK /\ Shape)'
    BY <2>9 DEF RecvEnds, RecvReturns
  <2>10. ASSUME NEW k \in Conns, RecvFails(k)  PROVE  (AcceptTypeOK /\ Shape)'
    BY <2>10 DEF RecvFails, RecvReturns
  <2>11. ASSUME NEW k \in Conns, ThreadKilled(k)  PROVE  (AcceptTypeOK /\ Shape)'
    BY <2>11 DEF ThreadKilled
  <2>12. ASSUME NEW k \in Conns, Close(k)  PROVE  (AcceptTypeOK /\ Shape)'
    <3>1. /\ table' \in [Fds -> Conns \cup {Free}]
          /\ closedBy' \in [Conns -> SUBSET Conns]
      <4>1. CASE OpenFd(sockfd[k])
        <5>1. sockfd[k] \in Fds /\ table[sockfd[k]] \in Conns
          BY <4>1 DEF OpenFd
        <5>2. /\ table' = [table EXCEPT ![sockfd[k]] = Free]
              /\ closedBy' = [closedBy EXCEPT ![table[sockfd[k]]] = @ \cup {k}]
          BY <2>12, <4>1 DEF Close
        <5>3. table' \in [Fds -> Conns \cup {Free}]
          BY <5>1, <5>2
        <5>4. \A c \in Conns : closedBy[c] \cup {k} \in SUBSET Conns
          OBVIOUS
        <5>5. closedBy' \in [Conns -> SUBSET Conns]
          BY <5>1, <5>2, <5>4
        <5> QED  BY <5>3, <5>5
      <4>2. CASE ~OpenFd(sockfd[k])
        BY <2>12, <4>2 DEF Close
      <4> QED  BY <4>1, <4>2
    <3>2. Shape'
      BY <2>12 DEF Close
    <3> QED  BY <2>12, <3>1, <3>2 DEF Close
  <2>13. ASSUME NEW k \in Conns, HangUp(k)  PROVE  (AcceptTypeOK /\ Shape)'
    BY <2>13 DEF HangUp
  <2>14. CASE UNCHANGED acceptVars
    BY <2>14 DEF acceptVars
  <2> QED  BY <2>1, <2>2, <2>3, <2>4, <2>5, <2>6, <2>7, <2>8, <2>9, <2>10,
              <2>11, <2>12, <2>13, <2>14 DEF AcceptNext, ThreadStep
<1> QED  BY <1>1, <1>2, PTL DEF AcceptSafeSpec

-----------------------------------------------------------------------------

\* Where a connection's descriptor is known, as long as no hand-off has raced:
\* first in remoteSockfd alone, then in the copy of its thread.
SlotOfNewest ==
  acceptPc = "spawn" =>
    /\ slot \in Fds /\ table[slot] = accepted
    /\ \A k \in Conns : phase[k] # "starting"

SlotOfStarting ==
  \A k \in Conns : phase[k] = "starting" =>
    k = accepted /\ slot \in Fds /\ table[slot] = k

CopyOfRunning ==
  \A k \in Conns : phase[k] \in Receiving \cup {"closing"} =>
    sockfd[k] \in Fds /\ table[sockfd[k]] = k

WaitsForOwn ==
  \A k \in Conns : on[k] # Free => on[k] = k

OneDescriptor ==
  /\ \A f \in Fds : table[f] <= accepted
  /\ \A f, g \in Fds : table[f] = table[g] /\ table[f] # Free => f = g

Accounted ==
  \A f \in Fds :
    table[f] # Free =>
      \/ table[f] \in unserved
      \/ table[f] = accepted /\ acceptPc = "spawn" /\ slot = f
      \/ phase[table[f]] = "starting" /\ slot = f
      \/ phase[table[f]] \in Receiving \cup {"closing"} /\ sockfd[table[f]] = f

OwnOnly ==
  \A c \in Conns : readBy[c] \subseteq {c} /\ closedBy[c] \subseteq {c}

HandOff == SlotOfNewest /\ SlotOfStarting /\ CopyOfRunning /\ WaitsForOwn
           /\ OneDescriptor /\ Accounted /\ OwnOnly

AcceptInv == ~raced => HandOff

\* A connection of a server whose hand-offs have not raced is in the hands of
\* its own thread, and of no other, from accept() to close().
LEMMA HandOffInvariant == AcceptSafeSpec => []AcceptInv
<1> USE AcceptAssumption DEF Conns, Fds, Free, NoFd
<1>1. AcceptInit => AcceptInv
  BY DEF AcceptInit, AcceptInv, HandOff, SlotOfNewest, SlotOfStarting,
         CopyOfRunning, WaitsForOwn, OneDescriptor, Accounted, OwnOnly,
         Receiving
<1>2. AcceptTypeOK /\ Shape /\ AcceptInv /\ [AcceptNext]_acceptVars => AcceptInv'
  <2> SUFFICES ASSUME AcceptTypeOK, Shape, AcceptInv, [AcceptNext]_acceptVars  PROVE  AcceptInv'
    OBVIOUS
  <2> USE DEF AcceptTypeOK, Shape, history, AcceptInv, HandOff, SlotOfNewest,
              SlotOfStarting, CopyOfRunning, WaitsForOwn, OneDescriptor,
              Accounted, OwnOnly, Receiving
  <2>1. CASE AcceptOk
    <3> SUFFICES ASSUME ~raced'  PROVE  HandOff'
      OBVIOUS
    <3>1. PICK f \in Fds : /\ table[f] = Free
                          /\ table' = [table EXCEPT ![f] = accepted + 1]
                          /\ slot' = f
      BY <2>1 DEF AcceptOk, FreeFds, Assign
    <3>2. /\ \A k \in Conns : phase[k] # "starting"
          /\ ~raced /\ HandOff
          /\ acceptPc = "accept" /\ acceptPc' = "spawn"
          /\ accepted' = accepted + 1 /\ accepted \in Nat
          /\ UNCHANGED <<phase, sockfd, on, unserved, readBy, closedBy>>
      <4>1. raced' = (raced \/ \E k \in Conns : phase[k] = "starting")
        BY <2>1 DEF AcceptOk, Assign
      <4>2. ~raced /\ \A k \in Conns : phase[k] # "starting"
        BY <4>1
      <4>3. /\ acceptPc = "accept" /\ acceptPc' = "spawn"
            /\ accepted' = accepted + 1 /\ accepted \in Nat
            /\ UNCHANGED <<phase, sockfd, on, unserved, readBy, closedBy>>
        BY <2>1 DEF AcceptOk
      <4> QED  BY <4>2, <4>3
    <3>3. /\ table'[f] = accepted + 1
          /\ \A g \in Fds : g # f => table'[g] = table[g]
          /\ \A g \in Fds : table[g] <= accepted /\ table[g] \in Nat
      BY <3>1, <3>2
    <3> HIDE DEF AcceptTypeOK, Shape, AcceptInv, HandOff, SlotOfNewest, SlotOfStarting,
                 CopyOfRunning, WaitsForOwn, OneDescriptor, Accounted, OwnOnly,
                 Receiving, Conns, Fds
    <3>4. SlotOfNewest' /\ SlotOfStarting'
      BY <3>1, <3>2, <3>3 DEF HandOff, SlotOfNewest, SlotOfStarting
    <3>5. CopyOfRunning'
      BY <3>1, <3>2, <3>3 DEF HandOff, CopyOfRunning, Conns
    <3>6. WaitsForOwn' /\ OwnOnly'
      BY <3>2 DEF HandOff, WaitsForOwn, OwnOnly
    <3>7. OneDescriptor'
      BY <3>2, <3>3 DEF HandOff, OneDescriptor
    <3>8. Accounted'
      <4> SUFFICES ASSUME NEW g \in Fds, table'[g] # Free
                   PROVE  \/ table'[g] \in unserved'
                          \/ /\ table'[g] = accepted' /\ acceptPc' = "spawn"
                             /\ slot' = g
                          \/ phase'[table'[g]] = "starting" /\ slot' = g
                          \/ /\ phase'[table'[g]] \in Receiving \cup {"closing"}
                             /\ sockfd'[table'[g]] = g
        BY DEF Accounted
      <4>1. CASE g = f
        BY <3>1, <3>2, <3>3, <4>1
      <4>2. CASE g # f
        <5>1. table'[g] = table[g] /\ table[g] \in Conns
          BY <3>3, <4>2 DEF AcceptTypeOK
        <5> QED  BY <3>2, <5>1 DEF HandOff, Accounted
      <4> QED  BY <4>1, <4>2
    <3> QED  BY <3>4, <3>5, <3>6, <3>7, <3>8 DEF HandOff
  <2>2. CASE AcceptFails
    <3> SUFFICES ASSUME ~raced'  PROVE  HandOff'
      OBVIOUS
    <3>1. /\ \A k \in Conns : phase[k] # "starting"
          /\ ~raced /\ HandOff
          /\ acceptPc = "accept"
          /\ UNCHANGED <<accepted, acceptPc, table, phase, sockfd, on, unserved,
                         readBy, closedBy>>
      BY <2>2 DEF AcceptFails, Assign
    <3> HIDE DEF AcceptTypeOK, Shape, AcceptInv, HandOff, SlotOfNewest, SlotOfStarting,
                 CopyOfRunning, WaitsForOwn, OneDescriptor, Accounted, OwnOnly,
                 Receiving
    <3>2. SlotOfNewest' /\ SlotOfStarting' /\ CopyOfRunning' /\ WaitsForOwn'
          /\ OneDescriptor' /\ OwnOnly'
      BY <3>1 DEF HandOff, SlotOfNewest, SlotOfStarting, CopyOfRunning,
                  WaitsForOwn, OneDescriptor, OwnOnly
    <3>3. Accounted'
      <4>1. table \in [Fds -> Conns \cup {Free}]
        BY DEF AcceptTypeOK
      <4> QED  BY <3>1, <4>1 DEF HandOff, Accounted
    <3> QED  BY <3>2, <3>3 DEF HandOff
  <2>3. CASE Spawn
    BY <2>3 DEF Spawn
  <2>4. CASE SpawnFails
    BY <2>4 DEF SpawnFails
  <2>5. ASSUME NEW k \in Conns, Start(k)  PROVE  AcceptInv'
    BY <2>5 DEF Start
  <2>6. ASSUME NEW k \in Conns, RecvCall(k)  PROVE  AcceptInv'
    BY <2>6 DEF RecvCall, OpenFd
  <2>7. ASSUME NEW k \in Conns, RecvBadFd(k)  PROVE  AcceptInv'
    BY <2>7 DEF RecvBadFd
  <2>8. ASSUME NEW k \in Conns, RecvData(k)  PROVE  AcceptInv'
    BY <2>8 DEF RecvData, RecvReturns
  <2>9. ASSUME NEW k \in Conns, RecvEnds(k)  PROVE  AcceptInv'
    BY <2>9 DEF RecvEnds, RecvReturns
  <2>10. ASSUME NEW k \in Conns, RecvFails(k)  PROVE  AcceptInv'
    BY <2>10 DEF RecvFails, RecvReturns
  <2>11. ASSUME NEW k \in Conns, ThreadKilled(k)  PROVE  AcceptInv'
    BY <2>11 DEF ThreadKilled
  <2>12. ASSUME NEW k \in Conns, Close(k)  PROVE  AcceptInv'
    <3> SUFFICES ASSUME ~raced'  PROVE  HandOff'
      OBVIOUS
    <3>1. /\ ~raced /\ HandOff /\ phase[k] = "closing"
          /\ UNCHANGED <<accepted, acceptPc, slot, sockfd, on, unserved, readBy>>
          /\ phase' = [phase EXCEPT ![k] = "done"]
      BY <2>12 DEF Close
    <3>2. /\ sockfd[k] \in Fds /\ table[sockfd[k]] = k
          /\ table' = [table EXCEPT ![sockfd[k]] = Free]
          /\ closedBy' = [closedBy EXCEPT ![k] = @ \cup {k}]
      BY <2>12, <3>1 DEF Close, OpenFd
    <3>3. /\ table'[sockfd[k]] = Free
          /\ \A g \in Fds : g # sockfd[k] => table'[g] = table[g]
          /\ \A g \in Fds : table[g] = k => g = sockfd[k]
          /\ \A j \in Conns : j # k => phase'[j] = phase[j]
          /\ phase'[k] = "done"
          /\ k # Free
      BY <3>1, <3>2
    <3>4. closedBy'[k] \subseteq {k}
          /\ \A j \in Conns : j # k => closedBy'[j] = closedBy[j]
      BY <3>1, <3>2
    <3>5. /\ acceptPc = "spawn" => accepted \in Conns /\ phase[accepted] = "none"
          /\ table \in [Fds -> Conns \cup {Free}]
          /\ on[k] = Free \/ on[k] = k
          /\ accepted \in Nat
      BY <3>1
    <3> HIDE DEF AcceptTypeOK, Shape, AcceptInv, HandOff, SlotOfNewest, SlotOfStarting,
                 CopyOfRunning, WaitsForOwn, OneDescriptor, Accounted, OwnOnly,
                 Receiving, Conns, Fds
    <3>6. SlotOfNewest' /\ SlotOfStarting'
      BY <3>1, <3>2, <3>3, <3>5 DEF HandOff, SlotOfNewest, SlotOfStarting
    <3>7. CopyOfRunning'
      BY <3>1, <3>2, <3>3 DEF HandOff, CopyOfRunning, Receiving
    <3>8. WaitsForOwn'
      BY <3>1 DEF HandOff, WaitsForOwn
    <3>9. OneDescriptor'
      BY <3>1, <3>3, <3>5 DEF HandOff, OneDescriptor
    <3>10. Accounted'
      <4> SUFFICES ASSUME NEW g \in Fds, table'[g] # Free
                   PROVE  \/ table'[g] \in unserved'
                          \/ /\ table'[g] = accepted' /\ acceptPc' = "spawn"
                             /\ slot' = g
                          \/ phase'[table'[g]] = "starting" /\ slot' = g
                          \/ /\ phase'[table'[g]] \in Receiving \cup {"closing"}
                             /\ sockfd'[table'[g]] = g
        BY DEF Accounted
      <4>1. g # sockfd[k] /\ table'[g] = table[g] /\ table[g] # k
        BY <3>3
      <4>2. table[g] \in Conns /\ phase'[table[g]] = phase[table[g]]
        BY <3>3, <3>5, <4>1
      <4> QED  BY <3>1, <4>1, <4>2 DEF HandOff, Accounted
    <3>11. OwnOnly'
      BY <3>1, <3>4 DEF HandOff, OwnOnly
    <3> QED  BY <3>6, <3>7, <3>8, <3>9, <3>10, <3>11 DEF HandOff
  <2>13. ASSUME NEW k \in Conns, HangUp(k)  PROVE  AcceptInv'
    BY <2>13 DEF HangUp
  <2>14. CASE UNCHANGED acceptVars
    BY <2>14 DEF acceptVars
  <2> QED  BY <2>1, <2>2, <2>3, <2>4, <2>5, <2>6, <2>7, <2>8, <2>9, <2>10,
              <2>11, <2>12, <2>13, <2>14 DEF AcceptNext, ThreadStep
<1> QED  BY <1>1, <1>2, AcceptTypeCorrect, PTL DEF AcceptSafeSpec

\* Only a raced hand-off puts two threads on one connection, for any number of
\* connections and descriptors.
THEOREM Exclusive == AcceptSafeSpec => []ExclusiveWhenSerial
<1>1. AcceptInv => ExclusiveWhenSerial
  BY DEF AcceptInv, HandOff, OwnOnly, ExclusiveWhenSerial
<1> QED  BY <1>1, HandOffInvariant, PTL

\* Without a raced hand-off no connection is lost.
THEOREM NoneLost == AcceptSafeSpec => []NoOrphan
<1>1. AcceptInv => NoOrphan
  BY DEF AcceptInv, HandOff, Accounted, NoOrphan
<1> QED  BY <1>1, HandOffInvariant, PTL
================================================================================
