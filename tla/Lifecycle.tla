------------------------------- MODULE Lifecycle -------------------------------
(***************************************************************************)
(* From start to exit of the gateway process: main (rfgw.c), the init and  *)
(* deinit functions it calls (rf.c, udp.c, ws.c), and the threads it       *)
(* starts.  No thread is ever joined.  rfDeInit frees the devices and      *)
(* their map while the other threads may be anywhere.                      *)
(*                                                                         *)
(* Of a thread only its use of the shared resources is kept: its run flag, *)
(* its socket, the device map, a device.  Touching freed memory may do     *)
(* nothing or abort the process.                                           *)
(***************************************************************************)
EXTENDS Integers, FiniteSets

CONSTANT Clients  \* threads for WebSocket clients that may come to run

\* The three parts; each names its socket, its run flag and its loop thread.
Parts   == {"rf", "udp", "ws"}
Threads == Parts \cup Clients

ASSUME LifecycleAssumption == Clients \cap Parts = {}

VARIABLES
  main,    \* where main is
  code,    \* the exit status, once there is one
  sock,    \* of each part: "none", "open", "closed"
  run,     \* of each part: the flag its loop thread looks at
  devices, \* the device map: "none", "live", "freed"
  at,      \* where each thread is
  \* History, for the properties only:
  started, \* the threads that were ever started
  dangling,\* the threads that touched the devices after they were freed
  late,    \* packets each thread took in after its run flag was cleared
  closes   \* how often each socket was closed

vars == <<main, code, sock, run, devices, at, started, dangling, late, closes>>

Init ==
  /\ main = "rfInit"
  /\ code = 0
  /\ sock = [p \in Parts |-> "none"]
  /\ run = [p \in Parts |-> FALSE]
  /\ devices = "none"
  /\ at = [t \in Threads |-> "none"]
  /\ started = {}
  /\ dangling = {}
  /\ late = [t \in Threads |-> 0]
  /\ closes = [p \in Parts |-> 0]

Over == main \in {"exit", "aborted"}

-----------------------------------------------------------------------------
(* Startup *)

\* A step of main that starts no thread.
Goto(pc) ==
  /\ main' = pc
  /\ UNCHANGED <<at, started, dangling, late>>

\* pthread_create() of a part's loop thread; it may fail, which goes unnoticed.
StartThread(t, pc) ==
  /\ main' = pc
  /\ \/ at' = [at EXCEPT ![t] = "check"] /\ started' = started \cup {t}
     \/ UNCHANGED <<at, started>>
  /\ UNCHANGED <<dangling, late>>

\* rfInit fails: main returns 1.
RfInitFails ==
  /\ main = "rfInit"
  /\ Goto("exit") /\ code' = 1
  /\ UNCHANGED <<sock, run, devices, closes>>

RfInitOk ==
  /\ main = "rfInit"
  /\ Goto("config")
  /\ devices' = "live"
  /\ UNCHANGED <<code, sock, run, closes>>

\* configParse registers the devices; on failure main calls rfDeInit.
ConfigParse ==
  /\ main = "config"
  /\ \/ Goto("rfOpen") /\ code' = code
     \/ Goto("rfDeInit") /\ code' = 1
  /\ UNCHANGED <<sock, run, devices, closes>>

\* Mutant of RfOpenFails: the receive thread is started before bind.
RfOpenFailsLate ==
  /\ main = "rfOpen"
  /\ StartThread("rf", "rfDeInit") /\ code' = 2
  /\ sock' = [sock EXCEPT !["rf"] = "closed"]
  /\ closes' = [closes EXCEPT !["rf"] = @ + 1]
  /\ UNCHANGED <<run, devices>>

\* rfOpen: the socket, the interface, bind.  Some error paths close the socket,
\* others leave it open; none resets rf.sock.
RfOpenFails ==
  /\ main = "rfOpen"
  /\ Goto("rfDeInit") /\ code' = 2
  /\ \/ sock' = sock /\ closes' = closes
     \/ sock' = [sock EXCEPT !["rf"] = "open"] /\ closes' = closes
     \/ /\ sock' = [sock EXCEPT !["rf"] = "closed"]
        /\ closes' = [closes EXCEPT !["rf"] = @ + 1]
  /\ UNCHANGED <<run, devices>>

RfOpenOk ==
  /\ main = "rfOpen"
  /\ sock' = [sock EXCEPT !["rf"] = "open"]
  /\ run' = [run EXCEPT !["rf"] = TRUE]
  /\ StartThread("rf", "udpInit")
  /\ UNCHANGED <<code, devices, closes>>

\* udpInit: a socket that cannot be bound stays open.
UdpInitFails ==
  /\ main = "udpInit"
  /\ Goto("rfDeInit") /\ code' = 3
  /\ \E s \in {"none", "open"} : sock' = [sock EXCEPT !["udp"] = s]
  /\ UNCHANGED <<run, devices, closes>>

UdpInitOk ==
  /\ main = "udpInit"
  /\ sock' = [sock EXCEPT !["udp"] = "open"]
  /\ run' = [run EXCEPT !["udp"] = TRUE]
  /\ StartThread("udp", "wsInit")
  /\ UNCHANGED <<code, devices, closes>>

\* Mutant of WsInitFails: main returns what wsInit has returned.
WsInitFailsNegative ==
  /\ main = "wsInit"
  /\ Goto("udpDeInit") /\ code' = -1
  /\ UNCHANGED <<sock, run, devices, closes>>

\* Mutant of WsInitFails: wsInit closes the UDP socket, udpDeInit once more.
WsInitFailsClosesUdp ==
  /\ main = "wsInit"
  /\ Goto("udpDeInit") /\ code' = 4
  /\ sock' = [sock EXCEPT !["udp"] = "closed"]
  /\ closes' = [closes EXCEPT !["udp"] = @ + 1]
  /\ UNCHANGED <<run, devices>>

\* wsInit: a socket that cannot be bound or listened on is closed.
WsInitFails ==
  /\ main = "wsInit"
  /\ Goto("udpDeInit") /\ code' = 4
  /\ \/ sock' = sock /\ closes' = closes
     \/ /\ sock' = [sock EXCEPT !["ws"] = "closed"]
        /\ closes' = [closes EXCEPT !["ws"] = @ + 1]
  /\ UNCHANGED <<run, devices>>

WsInitOk ==
  /\ main = "wsInit"
  /\ sock' = [sock EXCEPT !["ws"] = "open"]
  /\ run' = [run EXCEPT !["ws"] = TRUE]
  /\ StartThread("ws", "serve")
  /\ UNCHANGED <<code, devices, closes>>

-----------------------------------------------------------------------------
(* Shutdown *)

\* getline returns "quit".  Any other line, and the end of stdin, leave main
\* in its loop.
Quit ==
  /\ main = "serve"
  /\ Goto("wsDeInit")
  /\ UNCHANGED <<code, sock, run, devices, closes>>

\* wsDeInit, udpDeInit: clear the flag, close the socket.
Stop(p) ==
  /\ run' = [run EXCEPT ![p] = FALSE]
  /\ sock' = [sock EXCEPT ![p] = "closed"]
  /\ closes' = [closes EXCEPT ![p] = @ + 1]
  /\ UNCHANGED <<code, devices>>

\* Mutant of UdpDeInit: the listener is joined before its socket is closed.
UdpDeInitJoins ==
  /\ main = "udpDeInit"
  /\ at["udp"] \in {"none", "ended"}
  /\ Goto("rfDeInit") /\ Stop("udp")

WsDeInit  == main = "wsDeInit" /\ Goto("udpDeInit") /\ Stop("ws")
UdpDeInit == main = "udpDeInit" /\ Goto("rfDeInit") /\ Stop("udp")

\* rfDeInit: clear the flag, ...
RfDeInitRun ==
  /\ main = "rfDeInit"
  /\ run' = [run EXCEPT !["rf"] = FALSE]
  /\ Goto("rfFree")
  /\ UNCHANGED <<code, sock, devices, closes>>

\* ... free the devices, one by one, and their map, ...
RfDeInitFree ==
  /\ main = "rfFree"
  /\ devices' = "freed"
  /\ Goto("rfClose")
  /\ UNCHANGED <<code, sock, run, closes>>

\* ... close rf.sock unless it was never set, and return from main.
RfDeInitClose ==
  /\ main = "rfClose"
  /\ IF sock["rf"] = "none" THEN UNCHANGED <<sock, closes>>
     ELSE /\ sock' = [sock EXCEPT !["rf"] = "closed"]
          /\ closes' = [closes EXCEPT !["rf"] = @ + 1]
  /\ Goto("exit")
  /\ UNCHANGED <<code, run, devices>>

Startup ==
  \/ RfInitFails \/ RfInitOk \/ ConfigParse \/ RfOpenFails \/ RfOpenOk
  \/ UdpInitFails \/ UdpInitOk \/ WsInitFails \/ WsInitOk

Shutdown == WsDeInit \/ UdpDeInit \/ RfDeInitRun \/ RfDeInitFree \/ RfDeInitClose

-----------------------------------------------------------------------------
(* The threads *)

\* A thread goes on; main and what it owns stay as they are.
Step(t, pc) ==
  /\ ~Over
  /\ at' = [at EXCEPT ![t] = pc]
  /\ UNCHANGED <<code, sock, run, devices, closes>>

\* Mutant of Check: the flag is not looked at.
CheckForever(t) ==
  /\ t \in Parts /\ at[t] = "check"
  /\ Step(t, "recv")
  /\ UNCHANGED <<main, started, dangling, late>>

\* while (rf.run), while (udp.run), while (ws.run).  The thread of a WebSocket
\* client has no such test.
Check(t) ==
  /\ t \in Parts /\ at[t] = "check"
  /\ Step(t, IF run[t] THEN "recv" ELSE "ended")
  /\ UNCHANGED <<main, started, dangling, late>>

\* recvfrom, recv or accept is entered.  On a closed socket it fails at once; one
\* that waits already is not disturbed when another thread closes the socket.
Enter(t) ==
  /\ at[t] = "recv"
  /\ Step(t, IF t \in Clients \/ sock[t] = "open" THEN "wait" ELSE "check")
  /\ UNCHANGED <<main, started, dangling, late>>

\* It fails later.
Fail(t) ==
  /\ at[t] = "wait"
  /\ Step(t, IF t \in Clients THEN "ended" ELSE "check")
  /\ UNCHANGED <<main, started, dangling, late>>

\* A packet: rfRecvThread and rfEnqueuePacket go on to the device map.
Packet(t) ==
  /\ t # "ws" /\ at[t] = "wait"
  /\ Step(t, "lookup")
  /\ late' = [late EXCEPT ![t] = IF t \in Parts /\ ~run[t] THEN @ + 1 ELSE @]
  /\ UNCHANGED <<main, started, dangling>>

\* wsAcceptThread starts the thread of a client.
Accept(c) ==
  /\ at["ws"] = "wait" /\ at[c] = "none"
  /\ ~Over
  /\ at' = [at EXCEPT !["ws"] = "check", ![c] = "recv"]
  /\ started' = started \cup {c}
  /\ UNCHANGED <<main, code, sock, run, devices, dangling, late, closes>>

\* The thread of a client takes the process down: SIGPIPE from a write() to a
\* client that is gone, or a heap that notices what the handshake frees.
Killed(c) ==
  /\ at[c] = "wait"
  /\ ~Over
  /\ main' = "aborted"
  /\ UNCHANGED <<code, sock, run, devices, at, started, dangling, late, closes>>

\* The map, or a device found in it, is read; when it has been freed, anything
\* may come out, and the process may be aborted.
Touch(t) ==
  IF devices = "freed"
  THEN /\ dangling' = dangling \cup {t}
       /\ main' \in {main, "aborted"}
  ELSE UNCHANGED <<dangling, main>>

Again(t) == IF t \in Clients THEN "recv" ELSE "check"

\* hashmap_get: the device is there or not.
Lookup(t) ==
  /\ at[t] = "lookup"
  /\ \E pc \in {"use", Again(t)} : Step(t, pc)
  /\ Touch(t)
  /\ UNCHANGED <<started, late>>

\* The device's counter, key and serial number are used, and a frame is sent.
Use(t) ==
  /\ at[t] = "use"
  /\ Step(t, Again(t))
  /\ Touch(t)
  /\ UNCHANGED <<started, late>>

-----------------------------------------------------------------------------

Next ==
  \/ Startup \/ Quit \/ Shutdown
  \/ \E t \in Threads :
       Check(t) \/ Enter(t) \/ Fail(t) \/ Packet(t) \/ Lookup(t) \/ Use(t)
  \/ \E c \in Clients : Accept(c) \/ Killed(c)

\* main waits for nothing but its input.
Fairness == WF_vars(Startup) /\ WF_vars(Shutdown)

SafeSpec == Init /\ [][Next]_vars
Spec == SafeSpec /\ Fairness

-----------------------------------------------------------------------------
(* Properties *)

TypeOK ==
  /\ main \in {"rfInit", "config", "rfOpen", "udpInit", "wsInit", "serve",
               "wsDeInit", "udpDeInit", "rfDeInit", "rfFree", "rfClose",
               "exit", "aborted"}
  /\ code \in 0 .. 4
  /\ sock \in [Parts -> {"none", "open", "closed"}]
  /\ run \in [Parts -> BOOLEAN]
  /\ devices \in {"none", "live", "freed"}
  /\ at \in [Threads -> {"none", "check", "recv", "wait", "lookup", "use",
                         "ended"}]
  /\ started \subseteq Threads
  /\ dangling \subseteq Threads
  /\ late \in [Threads -> Nat]
  /\ closes \in [Parts -> Nat]

\* Until rf.run is cleared, a thread that may look up, use or send anything
\* finds the devices in place and rf.sock open, on every path through startup
\* and its failures, and however long the thread waits.
ReadyForThreads ==
  /\ main \notin {"rfFree", "rfClose", "exit", "aborted"}
  /\ \E t \in Threads : at[t] \in {"check", "recv", "wait", "lookup", "use"}
  => devices = "live" /\ sock["rf"] = "open"

\* After its flag is cleared, rfRecvThread and udpListener take in one more
\* packet at most: the one they were already waiting for.  So they touch freed
\* devices for at most two packets, this one and the one in hand.  (The threads
\* of WebSocket clients have no flag, and go on until the process is gone.)
OneMorePacket == late["rf"] <= 1 /\ late["udp"] <= 1

\* A socket is closed twice only by main alone: when rfOpen has failed, before
\* any thread was started.  So the second close() cannot hit a descriptor that
\* another thread has opened in between.
SecondCloseAlone ==
  (\E p \in Parts : closes[p] > 1) => started = {}

\* Told to quit, or unable to start, the process ends, whatever its threads do
\* or wait for.
EndsWhenTold ==
  /\ main = "wsDeInit" ~> Over
  /\ code # 0 ~> Over
===============================================================================
