------------------------------ MODULE RfLinkProofs -----------------------------
(***************************************************************************)
(* Proofs about RfLink, for any number of gateways and devices, every      *)
(* configuration, every counter width and all packets of the clients.      *)
(***************************************************************************)
EXTENDS RfLink, TLAPS

-----------------------------------------------------------------------------
(* A counter that wraps *)

\* The quotient and the remainder of a natural number by M.
LEMMA ModFacts ==
  ASSUME NEW M \in Nat \ {0}, NEW a \in Nat
  PROVE  /\ a % M \in 0 .. (M - 1)
         /\ a \div M \in Nat
         /\ a = M * (a \div M) + (a % M)
BY SMT

\* The remainder is the only number below M at a multiple of M from a.
LEMMA ModUnique ==
  ASSUME NEW M \in Nat \ {0}, NEW a \in Nat, NEW q \in Nat,
         NEW r \in 0 .. (M - 1), a = M * q + r
  PROVE  a % M = r
BY SMT

\* Incrementing a counter of M values keeps it in step with the number of
\* increments: what dev->ctr++ does to the uint8_t.
LEMMA ModSucc ==
  ASSUME NEW M \in Nat \ {0}, NEW a \in Nat
  PROVE  ((a % M) + 1) % M = (a + 1) % M
<1> DEFINE q == a \div M
           r == a % M
<1>1. r \in 0 .. (M - 1) /\ q \in Nat /\ a = M * q + r
  BY ModFacts
<1> HIDE DEF q, r
<1>2. CASE r + 1 < M
  <2>1. /\ r + 1 \in 0 .. (M - 1)
        /\ a + 1 = M * q + (r + 1)
        /\ r + 1 = M * 0 + (r + 1)
    BY <1>1, <1>2
  <2>2. (a + 1) % M = r + 1 /\ (r + 1) % M = r + 1
    BY <2>1, <1>1, ModUnique
  <2> QED  BY <2>2 DEF r
<1>3. CASE r + 1 = M
  <2>1. /\ q + 1 \in Nat
        /\ a + 1 = M * (q + 1) + 0
        /\ r + 1 = M * 1 + 0
    BY <1>1, <1>3
  <2>2. (a + 1) % M = 0 /\ (r + 1) % M = 0
    BY <2>1, <1>1, ModUnique
  <2> QED  BY <2>2 DEF r
<1> QED  BY <1>1, <1>2, <1>3

\* Two different counts with the same counter value are a whole wrap apart.
LEMMA SameResidue ==
  ASSUME NEW M \in Nat \ {0}, NEW a \in Nat, NEW b \in Nat,
         a % M = b % M, a < b
  PROVE  b - a >= M
BY SMT

-----------------------------------------------------------------------------
(* Operators *)

\* The answer to a command in the switch is not itself in the switch.
LEMMA AnswerFacts ==
  ASSUME NEW c \in DOMAIN Answer
  PROVE  Answer[c] \in Responses /\ Answer[c] \notin DOMAIN Answer
BY DEF Answer, Responses

\* The counter of an answer is a counter value, and below the top bit it is the
\* request's.
LEMMA ReplyCtrFacts ==
  ASSUME NEW c \in CtrValues
  PROVE  ReplyCtr(c) \in CtrValues /\ ReplyCtr(c) % CtrHalf = c % CtrHalf
<1> USE LinkAssumption
<1>1. CASE c < CtrHalf
  <2>1. c \in Nat /\ c \in 0 .. (CtrHalf - 1) /\ c = CtrHalf * 0 + c
    BY <1>1 DEF CtrValues
  <2>2. c + CtrHalf \in Nat /\ c + CtrHalf = CtrHalf * 1 + c
    BY <2>1
  <2>3. c % CtrHalf = c
    BY <2>1, ModUnique
  <2>4. (c + CtrHalf) % CtrHalf = c
    BY <2>1, <2>2, ModUnique
  <2> QED  BY <1>1, <2>1, <2>3, <2>4 DEF ReplyCtr, CtrValues
<1>2. CASE ~(c < CtrHalf)
  BY <1>2 DEF ReplyCtr, CtrValues
<1> QED  BY <1>1, <1>2

\* Two counts whose counter values are told apart by the top bit at most are
\* CtrHalf apart.
LEMMA HalfApart ==
  ASSUME NEW a \in Nat, NEW b \in Nat, a # b,
         ReplyCtr(a % (2 * CtrHalf)) = ReplyCtr(b % (2 * CtrHalf))
  PROVE  a + CtrHalf <= b \/ b + CtrHalf <= a
<1> USE LinkAssumption
<1> DEFINE M == 2 * CtrHalf
<1>1. M \in Nat \ {0} /\ M = 2 * CtrHalf
  OBVIOUS
<1> HIDE DEF M
<1>2. ASSUME NEW x \in Nat
      PROVE  x % M \in CtrValues /\ (x % M) % CtrHalf = x % CtrHalf
  <2> DEFINE q == x \div M
             r == x % M
             e == r \div CtrHalf
             s == r % CtrHalf
  <2>1. r \in 0 .. (M - 1) /\ q \in Nat /\ x = M * q + r
    BY <1>1, ModFacts
  <2>2. r \in Nat
    BY <2>1, <1>1
  <2>3. s \in 0 .. (CtrHalf - 1) /\ e \in Nat /\ r = CtrHalf * e + s
    BY <2>2, ModFacts
  <2> HIDE DEF q, r, e, s
  <2>4. x = CtrHalf * (2 * q + e) + s /\ 2 * q + e \in Nat
    BY <1>1, <2>1, <2>3
  <2>5. x % CtrHalf = s
    BY <2>3, <2>4, ModUnique
  <2> QED  BY <1>1, <2>1, <2>5 DEF r, s, CtrValues
<1>3. a % CtrHalf = b % CtrHalf
  <2>1. ReplyCtr(a % M) = ReplyCtr(b % M)
    BY DEF M
  <2>2. /\ a % M \in CtrValues /\ (a % M) % CtrHalf = a % CtrHalf
        /\ b % M \in CtrValues /\ (b % M) % CtrHalf = b % CtrHalf
    BY <1>2
  <2>3. /\ ReplyCtr(a % M) % CtrHalf = (a % M) % CtrHalf
        /\ ReplyCtr(b % M) % CtrHalf = (b % M) % CtrHalf
    BY <2>2, ReplyCtrFacts
  <2> QED  BY <2>1, <2>2, <2>3
<1>4. CASE a < b
  <2>1. b - a >= CtrHalf
    BY <1>3, <1>4, SameResidue
  <2> QED  BY <2>1
<1>5. CASE b < a
  <2>1. a - b >= CtrHalf
    BY <1>3, <1>5, SameResidue
  <2> QED  BY <2>1
<1> QED  BY <1>4, <1>5

\* A body in clear has no key, an encrypted one the key that was asked for or,
\* when the encryption failed, none.
LEMMA SealedFacts ==
  ASSUME NEW g \in Gateways, NEW enc \in BOOLEAN, NEW key \in Keys,
         NEW k \in Sealed(g, enc, key)
  PROVE  k \in Keys \cup {None} /\ (k = None \/ (enc /\ k = key))
BY DEF Sealed

-----------------------------------------------------------------------------
(* The invariant *)

\* Who sends what, and what it is encrypted with.
Keyed ==
  \A f \in air :
    /\ f.src \notin Gateways => f.dst \in Gateways /\ ~f.answer
    /\ f.key # None =>
         f.enc /\ f.key = IF f.src \in Gateways THEN KeyFor(f.src, f.dst) ELSE Key[f.src]

\* The counter is the number of packets, and so is what requests carry.
Numbered ==
  /\ \A g \in Gateways, n \in Nodes : ctr[g][n] = seq[g][n] % (2 * CtrHalf)
  /\ \A f \in air : ~f.answer /\ f.src \in Gateways =>
       /\ f.ctr = f.seq % (2 * CtrHalf)
       /\ f.life <= life[f.src]
       /\ f.life = life[f.src] => f.seq < seq[f.src][f.dst]

\* No two requests of a gateway to a node have the same number.
Single ==
  \A q, r \in air :
    ~q.answer /\ ~r.answer /\ q.src \in Gateways /\ q.src = r.src /\ q.dst = r.dst
      /\ q.life = r.life /\ q.seq = r.seq => q = r

Inv == TypeOK /\ Keyed /\ Numbered /\ Single /\ Requested

-----------------------------------------------------------------------------
(* What the steps send *)

\* The key an encrypted frame to a known node gets is a key.
LEMMA KeyForTyped ==
  ASSUME TypeOK, NEW g \in Gateways, NEW n \in Nodes
  PROVE  KeyFor(g, n) \in Keys
<1>1. table \in Table
  BY LinkAssumption DEF TypeOK
<1>2. table[g].key[n] \in Keys
  BY <1>1 DEF Table
<1> QED  BY <1>2, LinkAssumption DEF KeyFor, Nodes

LEMMA RequestFacts ==
  ASSUME TypeOK, NEW g \in Gateways, NEW p \in Packets,
         NEW k \in Sealed(g, p.enc, KeyFor(g, p.dst))
  PROVE  /\ Request(g, p, k) \in Frame
         /\ k # None => p.enc /\ k = KeyFor(g, p.dst)
<1>1. p.dst \in Nodes /\ p.enc \in BOOLEAN /\ p.cmd \in Commands
  BY LinkAssumption
<1>2. k \in Keys \cup {None} /\ (k = None \/ (p.enc /\ k = KeyFor(g, p.dst)))
  BY <1>1, KeyForTyped, SealedFacts
<1>3. ctr[g][p.dst] \in CtrValues /\ life[g] \in Nat /\ seq[g][p.dst] \in Nat
  BY <1>1 DEF TypeOK
<1>4. g \in Nodes
  BY DEF Nodes
<1> QED  BY <1>1, <1>2, <1>3, <1>4 DEF Request, Frame

LEMMA DeviceFrameFacts ==
  ASSUME NEW d \in Devices, NEW p \in DeviceFrames
  PROVE  /\ DeviceFrame(d, p) \in Frame
         /\ p.dst \in Gateways
         /\ DeviceFrame(d, p).key # None => p.enc /\ DeviceFrame(d, p).key = Key[d]
<1>1. /\ p.dst \in Gateways /\ p.enc \in BOOLEAN /\ p.cmd \in Commands
      /\ p.ctr \in CtrValues
  BY LinkAssumption
<1>2. d \in Nodes /\ p.dst \in Nodes
  BY <1>1 DEF Nodes
<1>3. Key[d] \in Keys
  BY <1>2, LinkAssumption
<1> DEFINE k == IF p.enc THEN Key[d] ELSE None
<1>4. k \in Keys \cup {None} /\ (k # None => p.enc /\ k = Key[d])
  BY <1>3
<1> QED  BY <1>1, <1>2, <1>4 DEF DeviceFrame, Frame

LEMMA ReplyFacts ==
  ASSUME TypeOK, NEW g \in Gateways, NEW f \in air, f.cmd \in DOMAIN Answer,
         NEW k \in Sealed(g, f.enc, KeyFor(g, f.src))
  PROVE  /\ Reply(g, f, k) \in Frame
         /\ k # None => f.enc /\ k = KeyFor(g, f.src)
<1>1. f.src \in Nodes /\ f.enc \in BOOLEAN /\ f.ctr \in CtrValues
  BY DEF TypeOK, Frame
<1>2. k \in Keys \cup {None} /\ (k = None \/ (f.enc /\ k = KeyFor(g, f.src)))
  BY <1>1, KeyForTyped, SealedFacts
<1>3. ReplyCtr(f.ctr) \in CtrValues /\ Answer[f.cmd] \in Responses
  BY <1>1, ReplyCtrFacts, AnswerFacts
<1>4. g \in Nodes
  BY DEF Nodes
<1> QED  BY <1>1, <1>2, <1>3, <1>4 DEF Reply, Frame

-----------------------------------------------------------------------------
(* The steps *)

LEMMA InitInv ==
  ASSUME Init
  PROVE  Inv
<1> USE LinkAssumption
<1>1. 0 \in CtrValues /\ 0 = 0 % (2 * CtrHalf)
  <2>1. 2 * CtrHalf \in Nat \ {0} /\ 0 = 2 * CtrHalf * 0 + 0 /\ 0 \in 0 .. (2 * CtrHalf - 1)
    OBVIOUS
  <2> QED  BY <2>1, ModUnique DEF CtrValues
<1>2. TypeOK
  BY <1>1 DEF Init, TypeOK, Nodes
<1>3. Keyed /\ Single /\ Requested
  BY DEF Init, Keyed, Single, Requested
<1>4. Numbered
  BY <1>1 DEF Init, Numbered
<1> QED  BY <1>2, <1>3, <1>4 DEF Inv

\* A packet gets the number of packets before it, and its counter.
LEMMA EnqueueInv ==
  ASSUME Inv, NEW g \in Gateways, NEW p \in Packets, Enqueue(g, p)
  PROVE  Inv'
<1> USE LinkAssumption
<1>1. PICK k \in Sealed(g, p.enc, KeyFor(g, p.dst)) : air' = air \cup {Request(g, p, k)}
  BY DEF Enqueue
<1> DEFINE new == Request(g, p, k)
           n == p.dst
<1>2. TypeOK /\ g \in Nodes /\ n \in Nodes
  BY DEF Inv, Nodes
<1>3. new \in Frame /\ (k # None => p.enc /\ k = KeyFor(g, n))
  BY <1>2, RequestFacts
<1>4. /\ new.src = g /\ new.dst = n /\ new.key = k /\ new.enc = p.enc
      /\ new.ctr = ctr[g][n] /\ new.answer = FALSE
      /\ new.life = life[g] /\ new.seq = seq[g][n]
  BY DEF Request
<1>5. /\ ctr' = [ctr EXCEPT ![g][n] = NextCtr(@)]
      /\ seq' = [seq EXCEPT ![g][n] = @ + 1]
      /\ table' = table /\ life' = life /\ air' = air \cup {new}
  BY <1>1 DEF Enqueue
<1>6. /\ seq[g][n] \in Nat /\ ctr[g][n] = seq[g][n] % (2 * CtrHalf)
      /\ life \in [Gateways -> Nat] /\ seq \in [Gateways -> [Nodes -> Nat]]
      /\ ctr \in [Gateways -> [Nodes -> CtrValues]]
  BY <1>2 DEF TypeOK, Inv, Numbered
<1>7. /\ NextCtr(ctr[g][n]) \in CtrValues
      /\ NextCtr(ctr[g][n]) = (seq[g][n] + 1) % (2 * CtrHalf)
  <2>1. 2 * CtrHalf \in Nat \ {0}
    OBVIOUS
  <2>2. NextCtr(ctr[g][n]) = (seq[g][n] + 1) % (2 * CtrHalf)
    BY <1>6, <2>1, ModSucc DEF NextCtr
  <2>3. seq[g][n] + 1 \in Nat
    BY <1>6
  <2> QED  BY <2>1, <2>2, <2>3, ModFacts DEF CtrValues
<1>8. \A f \in air : f \in Frame
  BY <1>2 DEF TypeOK
<1> HIDE DEF new, n
<1>9. TypeOK'
  <2>1. /\ ctr' \in [Gateways -> [Nodes -> CtrValues]]
        /\ seq' \in [Gateways -> [Nodes -> Nat]]
    BY <1>2, <1>5, <1>6, <1>7
  <2>2. air' \subseteq Frame
    BY <1>3, <1>5, <1>8
  <2>3. requests' \in [Nodes -> Nat] /\ \A m \in Nodes : requests'[m] <= MaxRequests[m]
    <3>1. requests[g] < MaxRequests[g] /\ requests' = [requests EXCEPT ![g] = @ + 1]
      BY DEF Enqueue
    <3> QED  BY <3>1, <1>2 DEF TypeOK
  <2>4. table' \in Tables /\ life' \in [Gateways -> Nat] /\ \A h \in Gateways : life'[h] <= MaxRestarts[h]
    BY <1>2, <1>5 DEF TypeOK
  <2> QED  BY <2>1, <2>2, <2>3, <2>4 DEF TypeOK
<1>10. Keyed'
  BY <1>3, <1>4, <1>5 DEF Inv, Keyed, KeyFor
<1>11. \A h \in Gateways, m \in Nodes :
         /\ h # g \/ m # n => ctr'[h][m] = ctr[h][m] /\ seq'[h][m] = seq[h][m]
         /\ h = g /\ m = n => /\ ctr'[h][m] = NextCtr(ctr[g][n])
                            /\ seq'[h][m] = seq[g][n] + 1
  BY <1>2, <1>5, <1>6
<1>12. Numbered'
  <2>1. \A h \in Gateways, m \in Nodes : ctr'[h][m] = seq'[h][m] % (2 * CtrHalf)
    BY <1>7, <1>11 DEF Inv, Numbered
  <2>2. ASSUME NEW f \in air', ~f.answer, f.src \in Gateways
        PROVE  /\ f.ctr = f.seq % (2 * CtrHalf)
               /\ f.life <= life'[f.src]
               /\ f.life = life'[f.src] => f.seq < seq'[f.src][f.dst]
    <3>1. CASE f \in air
      <4>1. /\ f.ctr = f.seq % (2 * CtrHalf) /\ f.life <= life[f.src]
            /\ f.life = life[f.src] => f.seq < seq[f.src][f.dst]
        BY <2>2, <3>1 DEF Inv, Numbered
      <4>2. f.dst \in Nodes /\ f.seq \in Nat
        BY <1>8, <3>1 DEF Frame
      <4>3. seq[f.src][f.dst] \in Nat /\ seq'[f.src][f.dst] >= seq[f.src][f.dst]
        BY <1>6, <1>11, <2>2, <4>2
      <4>4. seq'[f.src][f.dst] \in Nat
        BY <1>9, <2>2, <4>2 DEF TypeOK
      <4> QED  BY <1>5, <4>1, <4>2, <4>3, <4>4
    <3>2. CASE f = new
      <4>1. seq'[g][n] = seq[g][n] + 1
        BY <1>2, <1>11
      <4>2. life[g] \in Nat
        BY <1>6
      <4> QED  BY <3>2, <1>4, <1>5, <1>6, <4>1, <4>2
    <3> QED  BY <1>5, <3>1, <3>2
  <2> QED  BY <2>1, <2>2 DEF Numbered
<1>13. Single'
  <2>1. ASSUME NEW f \in air, ~f.answer, f.src = g, f.dst = n, f.life = life[g]
        PROVE  f.seq # seq[g][n]
    <3>1. f.seq < seq[g][n]
      BY <2>1 DEF Inv, Numbered
    <3>2. f.seq \in Nat
      BY <1>8 DEF Frame
    <3> QED  BY <3>1, <3>2, <1>6
  <2> QED  BY <1>4, <1>5, <2>1 DEF Inv, Single
<1>14. Requested'
  BY <1>4, <1>5 DEF Inv, Requested, Answers, Accepts, Opens
<1> QED  BY <1>9, <1>10, <1>12, <1>13, <1>14 DEF Inv

\* What a device sends is no request of a gateway and no answer.
LEMMA DeviceSendsInv ==
  ASSUME Inv, NEW d \in Devices, NEW p \in DeviceFrames, DeviceSends(d, p)
  PROVE  Inv'
<1> USE LinkAssumption
<1> DEFINE new == DeviceFrame(d, p)
<1>1. /\ new \in Frame /\ p.dst \in Gateways
      /\ new.key # None => p.enc /\ new.key = Key[d]
  BY DeviceFrameFacts
<1>2. new.src = d /\ new.dst = p.dst /\ new.enc = p.enc /\ new.answer = FALSE
  BY DEF DeviceFrame
<1>3. d \notin Gateways /\ d \in Nodes
  BY DEF Nodes
<1>4. /\ air' = air \cup {new} /\ UNCHANGED <<table, ctr, life, seq>>
      /\ requests[d] < MaxRequests[d] /\ requests' = [requests EXCEPT ![d] = @ + 1]
  BY DEF DeviceSends
<1> HIDE DEF new
<1>5. TypeOK'
  <2>1. requests' \in [Nodes -> Nat] /\ \A m \in Nodes : requests'[m] <= MaxRequests[m]
    BY <1>3, <1>4 DEF Inv, TypeOK
  <2>2. air' \subseteq Frame
    BY <1>1, <1>4 DEF Inv, TypeOK
  <2> QED  BY <1>4, <2>1, <2>2 DEF Inv, TypeOK
<1>6. Keyed'
  BY <1>1, <1>2, <1>3, <1>4 DEF Inv, Keyed, KeyFor
<1>7. Numbered'
  BY <1>2, <1>3, <1>4 DEF Inv, Numbered
<1>8. Single'
  BY <1>2, <1>3, <1>4 DEF Inv, Single
<1>9. Requested'
  BY <1>2, <1>4 DEF Inv, Requested, Answers, Accepts, Opens
<1> QED  BY <1>5, <1>6, <1>7, <1>8, <1>9 DEF Inv

\* What is answered is a request: no answer has a command of the switch.
LEMMA HearInv ==
  ASSUME Inv, NEW g \in Gateways, NEW f \in air, Hear(g, f)
  PROVE  Inv'
<1> USE LinkAssumption
<1>1. PICK k \in Sealed(g, f.enc, KeyFor(g, f.src)) : air' = air \cup {Reply(g, f, k)}
  BY DEF Hear
<1> DEFINE new == Reply(g, f, k)
<1>2. TypeOK /\ f.cmd \in DOMAIN Answer
  BY DEF Inv, Hear
<1>3. new \in Frame /\ (k # None => f.enc /\ k = KeyFor(g, f.src))
  BY <1>2, ReplyFacts
<1>4. /\ new.src = g /\ new.dst = f.src /\ new.enc = f.enc /\ new.key = k
      /\ new.answer = TRUE /\ new.cmd = Answer[f.cmd] /\ new.ctr = ReplyCtr(f.ctr)
  BY DEF Reply
<1>5. air' = air \cup {new} /\ UNCHANGED <<table, ctr, requests, life, seq>>
  BY <1>1 DEF Hear
<1>6. ~f.answer
  <2>1. f.answer => f.cmd \notin DOMAIN Answer
    <3> SUFFICES ASSUME f.answer PROVE f.cmd \notin DOMAIN Answer
      OBVIOUS
    <3>1. PICK r \in air : r.cmd \in DOMAIN Answer /\ f.cmd = Answer[r.cmd]
      BY DEF Inv, Requested, Answers
    <3> QED  BY <3>1, AnswerFacts
  <2> QED  BY <1>2, <2>1
<1> HIDE DEF new
<1>7. TypeOK'
  BY <1>2, <1>3, <1>5 DEF TypeOK
<1>8. Keyed'
  BY <1>3, <1>4, <1>5 DEF Inv, Keyed, KeyFor
<1>9. Numbered'
  BY <1>4, <1>5 DEF Inv, Numbered
<1>10. Single'
  BY <1>4, <1>5 DEF Inv, Single
<1>11. Requested'
  <2>1. \A h \in Gateways, r \in air : Accepts(h, r) => Accepts(h, r)'
    BY <1>5 DEF Accepts, Opens
  <2>2. Answers(new, f) /\ Accepts(g, f)'
    <3>1. Accepts(g, f)
      BY DEF Hear
    <3> QED  BY <1>2, <1>4, <1>6, <2>1, <3>1 DEF Answers
  <2>3. ASSUME NEW a \in air, a.answer
        PROVE  \E r \in air : Answers(a, r) /\ Accepts(a.src, r)'
    <3>1. PICK r \in air : Answers(a, r) /\ Accepts(a.src, r)
      BY <2>3 DEF Inv, Requested
    <3> QED  BY <1>5, <3>1 DEF Accepts, Opens
  <2> QED  BY <1>4, <1>5, <2>2, <2>3 DEF Requested, Answers
<1> QED  BY <1>7, <1>8, <1>9, <1>10, <1>11 DEF Inv

\* After a restart the counters are 0, as are the numbers.
LEMMA RestartInv ==
  ASSUME Inv, NEW g \in Gateways, Restart(g)
  PROVE  Inv'
<1> USE LinkAssumption
<1>1. /\ life[g] < MaxRestarts[g]
      /\ ctr' = [ctr EXCEPT ![g] = [n \in Nodes |-> 0]]
      /\ life' = [life EXCEPT ![g] = @ + 1]
      /\ seq' = [seq EXCEPT ![g] = [n \in Nodes |-> 0]]
      /\ UNCHANGED <<table, air, requests>>
  BY DEF Restart
<1>2. 0 \in CtrValues /\ 0 = 0 % (2 * CtrHalf)
  <2>1. 2 * CtrHalf \in Nat \ {0} /\ 0 = 2 * CtrHalf * 0 + 0 /\ 0 \in 0 .. (2 * CtrHalf - 1)
    OBVIOUS
  <2> QED  BY <2>1, ModUnique DEF CtrValues
<1>3. TypeOK'
  <2>1. ctr' \in [Gateways -> [Nodes -> CtrValues]] /\ seq' \in [Gateways -> [Nodes -> Nat]]
    BY <1>1, <1>2 DEF Inv, TypeOK
  <2>2. life' \in [Gateways -> Nat] /\ \A h \in Gateways : life'[h] <= MaxRestarts[h]
    BY <1>1 DEF Inv, TypeOK
  <2> QED  BY <1>1, <2>1, <2>2 DEF Inv, TypeOK
<1>4. Keyed' /\ Single' /\ Requested'
  BY <1>1 DEF Inv, Keyed, KeyFor, Single, Requested, Answers, Accepts, Opens
<1>5. \A h \in Gateways, n \in Nodes :
        /\ h # g => /\ ctr'[h][n] = ctr[h][n] /\ seq'[h][n] = seq[h][n]
                    /\ life'[h] = life[h]
        /\ h = g => ctr'[h][n] = 0 /\ seq'[h][n] = 0 /\ life'[h] = life[g] + 1
  BY <1>1 DEF Inv, TypeOK
<1>6. Numbered'
  <2>1. \A h \in Gateways, n \in Nodes : ctr'[h][n] = seq'[h][n] % (2 * CtrHalf)
    BY <1>2, <1>5 DEF Inv, Numbered
  <2>2. ASSUME NEW f \in air, ~f.answer, f.src \in Gateways
        PROVE  /\ f.ctr = f.seq % (2 * CtrHalf)
               /\ f.life <= life'[f.src]
               /\ f.life = life'[f.src] => f.seq < seq'[f.src][f.dst]
    <3>1. /\ f.ctr = f.seq % (2 * CtrHalf) /\ f.life <= life[f.src]
          /\ f.life = life[f.src] => f.seq < seq[f.src][f.dst]
      BY <2>2 DEF Inv, Numbered
    <3>2. f.dst \in Nodes /\ f.life \in Nat /\ life[f.src] \in Nat
      BY <2>2 DEF Inv, TypeOK, Frame
    <3>3. CASE f.src # g
      BY <1>5, <2>2, <3>1, <3>2, <3>3
    <3>4. CASE f.src = g
      <4>1. life'[f.src] = life[f.src] + 1
        BY <1>5, <3>2, <3>4
      <4> QED  BY <3>1, <3>2, <4>1
    <3> QED  BY <3>3, <3>4
  <2> QED  BY <1>1, <2>1, <2>2 DEF Numbered
<1> QED  BY <1>3, <1>4, <1>6 DEF Inv

\* A step keeps the invariant.
LEMMA NextInv ==
  ASSUME Inv, [Next]_vars
  PROVE  Inv'
<1>1. CASE UNCHANGED vars
  BY <1>1 DEF vars, Inv, TypeOK, Keyed, KeyFor, Numbered, Single, Requested, Answers,
              Accepts, Opens
<1>2. CASE Next
  BY <1>2, EnqueueInv, HearInv, RestartInv, DeviceSendsInv DEF Next
<1> QED  BY <1>1, <1>2

-----------------------------------------------------------------------------
(* Theorems *)

\* The inductive invariant, of which the properties are consequences.
THEOREM Invariance == Spec => []Inv
<1>1. Init => Inv
  BY InitInv
<1>2. Inv /\ [Next]_vars => Inv'
  BY NextInv
<1> QED  BY <1>1, <1>2, PTL DEF Spec

\* Every variable keeps its type.
THEOREM TypeCorrect == Spec => []TypeOK
<1>1. Inv => TypeOK
  BY DEF Inv
<1> QED  BY <1>1, Invariance, PTL

\* The node a frame is for has the key it was encrypted with: for a node the
\* sender knows, that it is a gateway or not decides on both sides which of the
\* two keys is taken.
THEOREM RightKey == Spec => []AddresseeOpens
<1>1. Inv => AddresseeOpens
  <2> SUFFICES ASSUME Inv, NEW f \in air, f.enc, f.key # None,
                      Knows(f.src, f.dst), Knows(f.dst, f.src)
               PROVE  f.key = (IF f.dst \in Gateways THEN table[f.dst].key[f.src]
                                                     ELSE Key[f.dst])
    BY DEF AddresseeOpens
  <2>1. /\ f.src \notin Gateways => f.dst \in Gateways
        /\ f.key = IF f.src \in Gateways THEN KeyFor(f.src, f.dst) ELSE Key[f.src]
    BY DEF Inv, Keyed
  <2> QED  BY <2>1 DEF KeyFor, Knows
<1> QED  BY <1>1, Invariance, PTL

\* With the right keys a gateway accepts what is not a gateway's encrypted frame to a
\* device, whoever it is for: the key a frame was encrypted with is its sender's in
\* all other cases, which is the one the receiver takes.
LEMMA AcceptedIsReadable ==
  ASSUME Inv, KeysRight, NEW g \in Gateways, NEW f \in air,
         f.src # g, f.src \in table[g].known
  PROVE  Accepts(g, f) <=> Readable(g, f)
<1>1. /\ f.src \in Nodes /\ f.dst \in Nodes /\ f.key \in Keys \cup {None}
      /\ f.src \notin Gateways => f.dst \in Gateways
      /\ f.key # None =>
           f.enc /\ f.key = IF f.src \in Gateways THEN KeyFor(f.src, f.dst) ELSE Key[f.src]
  BY DEF Inv, TypeOK, Frame, Keyed
<1>2. table[g].key[f.src] = Key[f.src] /\ Key[f.src] # None
  BY <1>1, LinkAssumption DEF KeysRight, Knows
<1>3. Accepts(g, f) <=> Opens(g, f)
  BY DEF Accepts
<1>4. CASE ~f.enc
  BY <1>3, <1>4 DEF Opens, Readable
<1>5. CASE f.key = None
  BY <1>2, <1>3, <1>5 DEF Opens, Readable
<1>6. CASE f.enc /\ f.key # None
  <2>1. Opens(g, f) <=> f.key = Key[f.src]
    BY <1>2, <1>6 DEF Opens
  <2>2. CASE f.src \in Gateways /\ f.dst \notin Gateways
    <3>1. f.key = Key[f.dst]
      BY <1>1, <1>6, <2>2 DEF KeyFor, KeysRight, Knows
    <3>2. f.key # Key[f.src]
      BY <1>1, <2>2, <3>1 DEF KeysRight
    <3> QED  BY <1>3, <1>6, <2>1, <2>2, <3>2 DEF Readable
  <2>3. CASE f.src \in Gateways => f.dst \in Gateways
    <3>1. f.key = Key[f.src]
      BY <1>1, <1>6, <2>3 DEF KeyFor
    <3> QED  BY <1>3, <1>6, <2>1, <2>3, <3>1 DEF Readable
  <2> QED  BY <2>2, <2>3
<1> QED  BY <1>4, <1>5, <1>6

\* Who answers what: with the right keys, every gateway that knows the sender and
\* nobody else, unless a gateway sent it encrypted to a device; then none.
THEOREM Answering == Spec => []WhoAnswers
<1>1. Inv => WhoAnswers
  <2> SUFFICES ASSUME Inv, KeysRight
               PROVE  /\ \A g \in Gateways, f \in air :
                           f.src # g /\ f.src \in table[g].known =>
                             (Accepts(g, f) <=> Readable(g, f))
                      /\ \A a \in air : a.answer =>
                           \E r \in air : Answers(a, r) /\ Readable(a.src, r)
    BY DEF WhoAnswers
  <2>1. \A g \in Gateways, f \in air :
          f.src # g /\ f.src \in table[g].known => (Accepts(g, f) <=> Readable(g, f))
    BY AcceptedIsReadable
  <2>2. ASSUME NEW a \in air, a.answer
        PROVE  \E r \in air : Answers(a, r) /\ Readable(a.src, r)
    <3>1. PICK r \in air : Answers(a, r) /\ Accepts(a.src, r)
      BY <2>2 DEF Inv, Requested
    <3>2. a.src \in Gateways
      BY <2>2 DEF Inv, Keyed
    <3> QED  BY <2>1, <3>1, <3>2 DEF Accepts
  <2> QED  BY <2>1, <2>2
<1> QED  BY <1>1, Invariance, PTL

\* No answer answers an answer, and the counter of an answer belongs to one
\* request among the CtrHalf around it.
THEOREM Exchanges == Spec => []AnswersRequests
<1>1. Inv => Distinguished
  <2> SUFFICES ASSUME Inv, NEW a \in air, NEW q \in air, NEW r \in air,
                      ~q.answer, ~r.answer, q # r, a.dst \in Gateways,
                      q.src = a.dst, r.src = a.dst, q.dst = r.dst, q.life = r.life,
                      a.ctr = ReplyCtr(q.ctr), a.ctr = ReplyCtr(r.ctr)
               PROVE  q.seq + CtrHalf <= r.seq \/ r.seq + CtrHalf <= q.seq
    BY DEF Distinguished
  <2>1. q.seq \in Nat /\ r.seq \in Nat
    BY DEF Inv, TypeOK, Frame
  <2>2. q.ctr = q.seq % (2 * CtrHalf) /\ r.ctr = r.seq % (2 * CtrHalf)
    BY DEF Inv, Numbered
  <2>3. q.seq # r.seq
    BY DEF Inv, Single
  <2> QED  BY <2>1, <2>2, <2>3, HalfApart
<1>2. Inv => AnswersRequests
  BY <1>1 DEF Inv, AnswersRequests
<1> QED  BY <1>2, Invariance, PTL
===============================================================================
