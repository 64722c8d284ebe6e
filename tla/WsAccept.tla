-------------------------------- MODULE WsAccept -------------------------------
(***************************************************************************)
(* The WebSocket server of the gateway (ws.c): wsAcceptThread accepts      *)
(* connections and starts one wsRecvThread for each.  It passes the        *)
(* address of its own variable remoteSockfd, which the new thread copies   *)
(* when it gets to run and the next accept() overwrites.                   *)
(*                                                                         *)
(* Connections are numbered in the order they are accepted, and a thread   *)
(* has the number of the connection it was started for.  A descriptor is   *)
(* an entry of the process's table; close() frees it and accept() takes    *)
(* the lowest free one, so a number may come to mean another connection.   *)
(* Of the frames only what makes wsRecvThread leave a loop is kept.        *)
(***************************************************************************)
EXTENDS Integers

CONSTANTS MaxConns, \* bound: connections accepted during a behaviour
          MaxFd     \* descriptors 1 .. MaxFd are there for connections

ASSUME AcceptAssumption == MaxConns \in Nat /\ MaxFd \in Nat

Conns == 1 .. MaxConns
Fds   == 1 .. MaxFd
Free  == 0          \* not a connection
NoFd  == -1         \* what accept() returns when it fails

VARIABLES
  accepted, \* connections accepted so far
  acceptPc, \* "accept", or "spawn" between accept() and pthread_create()
  slot,     \* remoteSockfd, the variable all threads are pointed to
  table,    \* the connection behind each descriptor, or Free
  phase,    \* where each thread is
  sockfd,   \* each thread's copy of the descriptor
  on,       \* the connection whose data a thread waits for in recv(), or Free
  hungup,   \* connections the remote end has closed
  alive,    \* FALSE once the process has been killed
  \* History, for the properties only:
  raced,    \* remoteSockfd was overwritten before a thread had copied it
  unserved, \* connections for which pthread_create() failed
  readBy,   \* the threads that ever called recv() on a connection
  closedBy  \* the threads that closed a descriptor of a connection

acceptVars == <<accepted, acceptPc, slot, table, phase, sockfd, on, hungup, alive,
          raced, unserved, readBy, closedBy>>
history == <<raced, unserved, readBy, closedBy>>

AcceptInit ==
  /\ accepted = 0
  /\ acceptPc = "accept"
  /\ slot = NoFd
  /\ table = [f \in Fds |-> Free]
  /\ phase = [k \in Conns |-> "none"]
  /\ sockfd = [k \in Conns |-> NoFd]
  /\ on = [k \in Conns |-> Free]
  /\ hungup = {}
  /\ alive = TRUE
  /\ raced = FALSE
  /\ unserved = {}
  /\ readBy = [c \in Conns |-> {}]
  /\ closedBy = [c \in Conns |-> {}]

-----------------------------------------------------------------------------
(* wsAcceptThread *)

FreeFds == {f \in Fds : table[f] = Free}

\* remoteSockfd is assigned, whether or not a thread still has to copy it.
Assign(fd) ==
  /\ slot' = fd
  /\ raced' = (raced \/ \E k \in Conns : phase[k] = "starting")

\* accept() returns a connection.
AcceptOk ==
  /\ alive
  /\ acceptPc = "accept"
  /\ accepted < MaxConns
  /\ \E f \in FreeFds :
        /\ \A g \in FreeFds : f <= g
        /\ table' = [table EXCEPT ![f] = accepted + 1]
        /\ Assign(f)
  /\ accepted' = accepted + 1
  /\ acceptPc' = "spawn"
  /\ UNCHANGED <<phase, sockfd, on, hungup, alive, unserved, readBy, closedBy>>

\* accept() fails: no descriptor left, or the remote end has given up already.
AcceptFails ==
  /\ alive
  /\ acceptPc = "accept"
  /\ Assign(NoFd)
  /\ UNCHANGED <<accepted, acceptPc, table, phase, sockfd, on, hungup, alive,
                 unserved, readBy, closedBy>>

\* pthread_create(&client, NULL, wsRecvThread, &remoteSockfd) succeeds.
Spawn ==
  /\ alive
  /\ acceptPc = "spawn"
  /\ phase' = [phase EXCEPT ![accepted] = "starting"]
  /\ acceptPc' = "accept"
  /\ UNCHANGED <<accepted, slot, table, sockfd, on, hungup, alive, history>>

\* pthread_create() fails; its result is not looked at.
SpawnFails ==
  /\ alive
  /\ acceptPc = "spawn"
  /\ unserved' = unserved \cup {accepted}
  /\ acceptPc' = "accept"
  /\ UNCHANGED <<accepted, slot, table, phase, sockfd, on, hungup, alive,
                 raced, readBy, closedBy>>

-----------------------------------------------------------------------------
(* wsRecvThread *)

\* memcpy(&sockfd, arg, sizeof(int)), then malloc() of the buffer, which may
\* fail.
Start(k) ==
  /\ alive
  /\ phase[k] = "starting"
  /\ sockfd' = [sockfd EXCEPT ![k] = slot]
  /\ \E next \in {"hello", "closing"} : phase' = [phase EXCEPT ![k] = next]
  /\ UNCHANGED <<accepted, acceptPc, slot, table, on, hungup, alive, history>>

\* The places of the three recv() calls: the handshake, the frame loop and the
\* refill loop for a long frame.  "lost" is the refill loop once its length can
\* no longer become that of the frame.
Receiving == {"hello", "open", "refill", "lost"}

OpenFd(fd) == fd \in Fds /\ table[fd] # Free

\* recv() is entered: from here on it waits for that connection, whatever
\* becomes of the descriptor.
RecvCall(k) ==
  /\ alive
  /\ phase[k] \in Receiving
  /\ on[k] = Free
  /\ OpenFd(sockfd[k])
  /\ LET c == table[sockfd[k]] IN
     /\ on' = [on EXCEPT ![k] = c]
     /\ readBy' = [readBy EXCEPT ![c] = @ \cup {k}]
  /\ UNCHANGED <<accepted, acceptPc, slot, table, phase, sockfd, hungup, alive,
                 raced, unserved, closedBy>>

\* recv() on a descriptor that is not open returns -1.  Only the handshake
\* gives up; the two loops behind it call recv() again and again, which
\* changes nothing.
RecvBadFd(k) ==
  /\ alive
  /\ phase[k] = "hello"
  /\ on[k] = Free
  /\ ~OpenFd(sockfd[k])
  /\ phase' = [phase EXCEPT ![k] = "closing"]
  /\ UNCHANGED <<accepted, acceptPc, slot, table, sockfd, on, hungup, alive,
                 history>>

\* recv() returns and the thread goes on in phase `next`.
RecvReturns(k, next) ==
  /\ phase' = [phase EXCEPT ![k] = next]
  /\ on' = [on EXCEPT ![k] = Free]
  /\ UNCHANGED <<accepted, acceptPc, slot, table, sockfd, hungup, alive,
                 history>>

\* Data arrives.  A handshake is accepted or not a GET; a frame is dealt with,
\* closes the connection, or is a long one of which the rest is missing; the
\* refill loop ends only when the length is exactly that of the frame, and goes
\* on for ever when more has arrived.
RecvData(k) ==
  /\ alive
  /\ on[k] # Free
  /\ on[k] \notin hungup
  /\ \E next \in CASE phase[k] = "hello"  -> {"open", "closing"}
                   [] phase[k] = "open"   -> {"open", "refill", "closing"}
                   [] phase[k] = "refill" -> {"open", "refill", "lost"}
                   [] OTHER -> {"lost"} :
        RecvReturns(k, next)

\* Mutant of RecvEnds: the end of the connection is taken for a failure, after
\* which the frame loop goes on.
RecvEndsIgnored(k) ==
  /\ alive
  /\ on[k] # Free
  /\ on[k] \in hungup
  /\ RecvReturns(k, phase[k])

\* The remote end is gone: recv() returns 0.  That ends the handshake and the
\* frame loop but not the refill loop, which adds 0 to its length.  (A pending
\* error is reported first: RecvFails.)
RecvEnds(k) ==
  /\ alive
  /\ on[k] # Free
  /\ on[k] \in hungup
  /\ RecvReturns(k, IF phase[k] \in {"refill", "lost"} THEN "lost" ELSE "closing")

\* recv() returns -1.  The handshake ends; the frame loop goes on, as -1 is not
\* 0; the refill loop adds the -1, as an unsigned number, to its length.
RecvFails(k) ==
  /\ alive
  /\ on[k] # Free
  /\ on[k] \notin hungup
  /\ RecvReturns(k, CASE phase[k] = "hello" -> "closing"
                      [] phase[k] = "open"  -> "open"
                      [] OTHER -> "lost")

\* Data arrives, and dealing with it ends the process.  The handshake ends with
\* free() of a pointer into the receive buffer, at which a heap that notices
\* aborts (one that does not goes on: RecvData).  A write() to a remote end that
\* has reset the connection raises SIGPIPE, which nothing handles.
ThreadKilled(k) ==
  /\ alive
  /\ phase[k] \in {"hello", "open", "refill"}
  /\ on[k] # Free
  /\ on[k] \notin hungup
  /\ alive' = FALSE
  /\ UNCHANGED <<accepted, acceptPc, slot, table, phase, sockfd, on, hungup,
                 history>>

\* Mutant of Close: the descriptor is marked with -1 and cannot be used again.
CloseMarks(k) ==
  /\ alive
  /\ phase[k] = "closing"
  /\ phase' = [phase EXCEPT ![k] = "done"]
  /\ table' = [f \in Fds |-> IF f = sockfd[k] THEN NoFd ELSE table[f]]
  /\ UNCHANGED <<accepted, acceptPc, slot, sockfd, on, hungup, alive, history>>

\* Mutant of Close: the descriptor is closed more than once.
CloseTwice(k) ==
  /\ alive
  /\ phase[k] = "closing"
  /\ OpenFd(sockfd[k])
  /\ table' = [table EXCEPT ![sockfd[k]] = Free]
  /\ closedBy' = [closedBy EXCEPT ![table[sockfd[k]]] = @ \cup {k}]
  /\ UNCHANGED <<accepted, acceptPc, slot, phase, sockfd, on, hungup, alive,
                 raced, unserved, readBy>>

\* Mutant of Close: the thread ends without closing its descriptor.
CloseForgotten(k) ==
  /\ alive
  /\ phase[k] = "closing"
  /\ phase' = [phase EXCEPT ![k] = "done"]
  /\ UNCHANGED <<accepted, acceptPc, slot, table, sockfd, on, hungup, alive,
                 history>>

\* close(sockfd): of whatever connection the number stands for by now.
Close(k) ==
  /\ alive
  /\ phase[k] = "closing"
  /\ phase' = [phase EXCEPT ![k] = "done"]
  /\ IF OpenFd(sockfd[k])
     THEN /\ table' = [table EXCEPT ![sockfd[k]] = Free]
          /\ closedBy' = [closedBy EXCEPT ![table[sockfd[k]]] = @ \cup {k}]
     ELSE UNCHANGED <<table, closedBy>>
  /\ UNCHANGED <<accepted, acceptPc, slot, sockfd, on, hungup, alive, raced,
                 unserved, readBy>>

-----------------------------------------------------------------------------

\* The remote end of an accepted connection closes it.
HangUp(c) ==
  /\ alive
  /\ c <= accepted
  /\ c \notin hungup
  /\ hungup' = hungup \cup {c}
  /\ UNCHANGED <<accepted, acceptPc, slot, table, phase, sockfd, on, alive,
                 history>>

ThreadStep(k) ==
  \/ Start(k) \/ RecvCall(k) \/ RecvBadFd(k) \/ RecvData(k) \/ RecvEnds(k)
  \/ RecvFails(k) \/ ThreadKilled(k) \/ Close(k)

AcceptNext ==
  \/ AcceptOk \/ AcceptFails \/ Spawn \/ SpawnFails
  \/ \E k \in Conns : ThreadStep(k) \/ HangUp(k)

AcceptSafeSpec == AcceptInit /\ [][AcceptNext]_acceptVars

\* The threads are scheduled, and recv() returns once the remote end is gone.
\* Nothing is assumed of the remote ends.
AcceptFairness ==
  /\ WF_acceptVars(Spawn \/ SpawnFails)
  /\ \A k \in Conns :
       /\ WF_acceptVars(Start(k))
       /\ WF_acceptVars(RecvCall(k))
       /\ WF_acceptVars(RecvBadFd(k))
       /\ WF_acceptVars(RecvEnds(k))
       /\ WF_acceptVars(Close(k))

AcceptSpec == AcceptSafeSpec /\ AcceptFairness

-----------------------------------------------------------------------------
(* Properties *)

AcceptTypeOK ==
  /\ accepted \in 0 .. MaxConns
  /\ acceptPc \in {"accept", "spawn"}
  /\ slot \in Fds \cup {NoFd}
  /\ table \in [Fds -> Conns \cup {Free}]
  /\ phase \in [Conns -> {"none", "starting", "hello", "open", "refill",
                          "lost", "closing", "done"}]
  /\ sockfd \in [Conns -> Fds \cup {NoFd}]
  /\ on \in [Conns -> Conns \cup {Free}]
  /\ hungup \subseteq Conns
  /\ alive \in BOOLEAN
  /\ raced \in BOOLEAN
  /\ unserved \subseteq Conns
  /\ readBy \in [Conns -> SUBSET Conns]
  /\ closedBy \in [Conns -> SUBSET Conns]

\* As long as every thread has copied remoteSockfd before the next accept(), a
\* connection is read and closed by its own thread only, although descriptor
\* numbers are used again.  The unsynchronised hand-off is the only way two
\* threads get to work on one connection.
ExclusiveWhenSerial ==
  ~raced => \A c \in Conns : readBy[c] \subseteq {c} /\ closedBy[c] \subseteq {c}

\* As long as that holds, no connection is left open without a thread, except
\* those for which no thread could be started and the one about to get one.
NoOrphan ==
  ~raced =>
    \A f \in Fds :
      table[f] # Free =>
        LET c == table[f] IN
        \/ c \in unserved
        \/ c = accepted /\ acceptPc = "spawn" /\ slot = f
        \/ phase[c] = "starting" /\ slot = f
        \/ phase[c] \in Receiving \cup {"closing"} /\ sockfd[c] = f

\* When the remote end closes a connection its thread closes it too in the end,
\* or it is lost in the refill loop, waiting for the rest of a frame.  (As
\* long as the hand-off did not race, the thread could be started, and the
\* process was not killed.)
HangUpSettles ==
  \A c \in Conns :
    c \in hungup ~> \/ phase[c] \in {"done", "lost"}
                    \/ raced \/ ~alive \/ c \in unserved
===============================================================================
