------------------------------- MODULE Forwarder -------------------------------
(***************************************************************************)
(* What the transmit side of the gateway promises its callers, with the    *)
(* heap, the counters and the interleaving of rfEnqueuePacket abstracted   *)
(* away: a request a thread has taken in is put on the air exactly once    *)
(* when its destination is registered, and otherwise not at all; nothing   *)
(* is put on the air that nobody asked for.  RfTransmit implements it.     *)
(***************************************************************************)
EXTENDS Sequences

CONSTANTS Threads,   \* the threads that call rfEnqueuePacket
          Devices,   \* addresses registered in rf.devices
          Addresses, \* every address a packet may carry
          None       \* "no request in hand"

Request == [dst : Addresses, whole : BOOLEAN]

VARIABLES pending, \* the request each thread has taken in, or None
          out      \* what has been put on the air: sequence of [dst, whole]

fvars == <<pending, out>>

FInit ==
  /\ pending = [t \in Threads |-> None]
  /\ out = <<>>

\* A thread takes in one request; it works on one at a time.
Accept(t) ==
  /\ pending[t] = None
  /\ \E r \in Request : pending' = [pending EXCEPT ![t] = r]
  /\ UNCHANGED out

\* The request leaves as one frame.  The destination on the wire is the one
\* asked for when the packet held a complete header, otherwise any address.
Forward(t) ==
  /\ pending[t] # None
  /\ pending[t].dst \in Devices
  /\ \E a \in Addresses :
        /\ pending[t].whole => a = pending[t].dst
        /\ out' = Append(out, [dst |-> a, whole |-> pending[t].whole])
  /\ pending' = [pending EXCEPT ![t] = None]

\* A request for an address that is not registered goes nowhere.
Discard(t) ==
  /\ pending[t] # None
  /\ pending[t].dst \notin Devices
  /\ pending' = [pending EXCEPT ![t] = None]
  /\ UNCHANGED out

FNext == \E t \in Threads : Accept(t) \/ Forward(t) \/ Discard(t)

\* Whatever was taken in is settled in the end.
FFairness == \A t \in Threads : WF_fvars(Forward(t) \/ Discard(t))

FSafety == FInit /\ [][FNext]_fvars
FSpec == FSafety /\ FFairness
===============================================================================
