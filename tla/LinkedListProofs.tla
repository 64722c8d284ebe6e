---------------------------- MODULE LinkedListProofs ---------------------------
(***************************************************************************)
(* Proofs that the pointers of LinkedList are sound and that its lists are *)
(* the sequences of ItemLists, for any lists, nodes and items.             *)
(***************************************************************************)
EXTENDS LinkedList, SequenceTheorems, FiniteSetTheorems, TLAPS

-----------------------------------------------------------------------------
(* Positions in a list *)

\* There is a node at the positions of a list and the null pointer elsewhere.
LEMMA AtFacts ==
  ASSUME NEW s \in Seq(Nodes), NEW i \in Int
  PROVE  /\ At(s, i) \in Pointer
         /\ i \in 1 .. Len(s) => At(s, i) = s[i] /\ At(s, i) \in Nodes
         /\ At(s, i) = Null <=> i \notin 1 .. Len(s)
BY ListAssumption DEF At, Pointer

LEMMA AppendAt ==
  ASSUME NEW s \in Seq(Nodes), NEW n \in Nodes
  PROVE  /\ Append(s, n) \in Seq(Nodes)
         /\ Len(Append(s, n)) = Len(s) + 1
         /\ \A i \in Int : At(Append(s, n), i) = IF i = Len(s) + 1 THEN n ELSE At(s, i)
<1>1. Append(s, n) \in Seq(Nodes) /\ Len(Append(s, n)) = Len(s) + 1
  OBVIOUS
<1>2. \A i \in 1 .. Len(s) : Append(s, n)[i] = s[i]
  OBVIOUS
<1>3. Append(s, n)[Len(s) + 1] = n /\ Len(s) \in Nat
  OBVIOUS
<1> QED  BY <1>1, <1>2, <1>3 DEF At

LEMMA PrependAt ==
  ASSUME NEW s \in Seq(Nodes), NEW n \in Nodes
  PROVE  /\ <<n>> \o s \in Seq(Nodes)
         /\ Len(<<n>> \o s) = Len(s) + 1
         /\ \A i \in Int : At(<<n>> \o s, i) = IF i = 1 THEN n ELSE At(s, i - 1)
<1>1. <<n>> \o s \in Seq(Nodes) /\ Len(<<n>> \o s) = Len(s) + 1
  OBVIOUS
<1>2. \A i \in 2 .. (Len(s) + 1) : (<<n>> \o s)[i] = s[i - 1]
  OBVIOUS
<1>3. (<<n>> \o s)[1] = n /\ Len(s) \in Nat
  OBVIOUS
<1> QED  BY <1>1, <1>2, <1>3 DEF At

LEMMA FrontAt ==
  ASSUME NEW s \in Seq(Nodes), s # <<>>
  PROVE  LET t == SubSeq(s, 1, Len(s) - 1) IN
         /\ t \in Seq(Nodes)
         /\ Len(t) = Len(s) - 1
         /\ \A i \in Int : At(t, i) = IF i = Len(s) THEN Null ELSE At(s, i)
<1> DEFINE t == SubSeq(s, 1, Len(s) - 1)
<1>1. Len(s) \in Nat /\ Len(s) > 0
  OBVIOUS
<1>2. t \in Seq(Nodes) /\ Len(t) = Len(s) - 1 /\ \A i \in 1 .. (Len(s) - 1) : t[i] = s[i]
  BY <1>1, SubSeqProperties, SMTT(20)
<1> QED  BY <1>1, <1>2 DEF At

LEMMA TailAt ==
  ASSUME NEW s \in Seq(Nodes), s # <<>>
  PROVE  /\ Tail(s) \in Seq(Nodes)
         /\ Len(Tail(s)) = Len(s) - 1
         /\ \A i \in Int : At(Tail(s), i) = IF i < 1 THEN Null ELSE At(s, i + 1)
<1>1. Len(s) \in Nat /\ Len(s) > 0
  OBVIOUS
<1>2. Tail(s) \in Seq(Nodes) /\ Len(Tail(s)) = Len(s) - 1
      /\ \A i \in 1 .. (Len(s) - 1) : Tail(s)[i] = s[i + 1]
  OBVIOUS
<1> QED  BY <1>1, <1>2 DEF At

-----------------------------------------------------------------------------
(* The invariant, read position by position *)

\* What Sound says of the node at a position.
LEMMA PositionFacts ==
  ASSUME Sound, NEW l \in Lists, NEW i \in 1 .. Len(order[l])
  PROVE  /\ order[l] \in Seq(Nodes) /\ l \in made
         /\ order[l][i] \in Nodes /\ order[l][i] \in live
         /\ At(order[l], i) = order[l][i]
         /\ node[order[l][i]].next = At(order[l], i + 1)
         /\ node[order[l][i]].prev = At(order[l], i - 1) \/ (Clearing(l) /\ i = 1)
<1>1. order[l] \in Seq(Nodes)
  BY DEF Sound, TypeOK
<1>2. order[l][i] \in live /\ l \in made
  BY DEF Sound, Listed
<1>3. /\ node[order[l][i]].next = At(order[l], i + 1)
      /\ node[order[l][i]].prev = At(order[l], i - 1) \/ (Clearing(l) /\ i = 1)
  BY DEF Sound, Chained
<1>4. order[l][i] \in Nodes
  BY <1>1
<1> QED  BY <1>1, <1>2, <1>3, <1>4 DEF At

\* The structure of a list that is not being cleared.
LEMMA HeadFacts ==
  ASSUME Sound, NEW l \in Lists, ~Clearing(l)
  PROVE  /\ list[l].head = At(order[l], 1)
         /\ list[l].tail = At(order[l], Len(order[l]))
         /\ list[l].length = Len(order[l])
         /\ list[l].head = Null <=> order[l] = <<>>
         /\ list[l].tail = Null <=> order[l] = <<>>
<1>1. order[l] \in Seq(Nodes)
  BY DEF Sound, TypeOK
<1>2. list[l] = [head |-> At(order[l], 1), tail |-> At(order[l], Len(order[l])),
                 length |-> Len(order[l])]
  BY DEF Sound, Headed
<1>3. Len(order[l]) \in Nat /\ (Len(order[l]) = 0 <=> order[l] = <<>>)
  BY <1>1
<1>4. /\ At(order[l], 1) = Null <=> 1 \notin 1 .. Len(order[l])
      /\ At(order[l], Len(order[l])) = Null <=> Len(order[l]) \notin 1 .. Len(order[l])
  BY <1>1, <1>3, AtFacts
<1> QED  BY <1>2, <1>3, <1>4

-----------------------------------------------------------------------------
(* A node more *)

\* One node more in list l, in front (off = 1) or at the end (off = 0).
LEMMA OneMore ==
  ASSUME Sound, made' = made, NEW l \in made, NEW n \in Nodes \ live,
         NEW t \in Seq(Nodes), NEW off \in {0, 1}, NEW p \in 1 .. Len(t),
         Len(t) = Len(order[l]) + 1, p = IF off = 1 THEN 1 ELSE Len(t), t[p] = n,
         \A i \in 1 .. Len(order[l]) : t[i + off] = order[l][i],
         order' = [order EXCEPT ![l] = t], live' = live \cup {n}
  PROVE  /\ order' \in [Lists -> Seq(Nodes)] /\ live' \subseteq Nodes
         /\ order'[l] = t /\ \A k \in Lists : k # l => order'[k] = order[k]
         /\ Apart' /\ Listed'
<1>1. l \in Lists /\ order \in [Lists -> Seq(Nodes)] /\ live \subseteq Nodes
  BY DEF Sound, TypeOK
<1>2. /\ order' \in [Lists -> Seq(Nodes)] /\ live' \subseteq Nodes
      /\ order'[l] = t /\ \A k \in Lists : k # l => order'[k] = order[k]
  BY <1>1
<1>3. Len(order[l]) \in Nat /\ off \in Int
  BY <1>1
<1>4. \A i \in 1 .. Len(t) : i = p \/ (i - off \in 1 .. Len(order[l]) /\ t[i] = order[l][i - off])
  <2> SUFFICES ASSUME NEW i \in 1 .. Len(t), i # p
               PROVE  i - off \in 1 .. Len(order[l]) /\ t[i] = order[l][i - off]
    OBVIOUS
  <2>1. i - off \in 1 .. Len(order[l])
    BY <1>3
  <2>2. (i - off) + off = i
    BY <1>3
  <2> QED  BY <2>1, <2>2
<1>5. \A k \in Lists : \A i \in 1 .. Len(order[k]) : order[k][i] \in live /\ k \in made
  BY DEF Sound, Listed
<1>6. Apart'
  <2> SUFFICES ASSUME NEW j \in Lists, NEW k \in Lists,
                      NEW a \in 1 .. Len(order'[j]), NEW b \in 1 .. Len(order'[k]),
                      order'[j][a] = order'[k][b]
               PROVE  j = k /\ a = b
    BY DEF Apart
  <2> DEFINE x == IF j = l THEN a - off ELSE a
             y == IF k = l THEN b - off ELSE b
  <2>1. \/ j = l /\ a = p /\ order'[j][a] = n
        \/ x \in 1 .. Len(order[j]) /\ order'[j][a] = order[j][x]
    BY <1>2, <1>4
  <2>2. \/ k = l /\ b = p /\ order'[k][b] = n
        \/ y \in 1 .. Len(order[k]) /\ order'[k][b] = order[k][y]
    BY <1>2, <1>4
  <2>3. a \in Int /\ b \in Int
    BY <1>2
  <2>4. CASE x \in 1 .. Len(order[j]) /\ order'[j][a] = order[j][x]
    <3>1. y \in 1 .. Len(order[k]) /\ order'[k][b] = order[k][y]
      BY <1>5, <2>2, <2>4
    <3> HIDE DEF x, y
    <3>2. j = k /\ x = y
      BY <2>4, <3>1 DEF Sound, Apart
    <3> QED  BY <1>3, <2>3, <3>2 DEF x, y
  <2>5. CASE j = l /\ a = p /\ order'[j][a] = n
    <3>1. ~(y \in 1 .. Len(order[k]) /\ order'[k][b] = order[k][y])
      BY <1>5, <2>5
    <3> QED  BY <2>2, <2>5, <3>1
  <2> QED  BY <2>1, <2>4, <2>5
<1>7. \A k \in Lists : \A i \in 1 .. Len(order'[k]) : order'[k][i] \in live' /\ k \in made'
  <2> SUFFICES ASSUME NEW k \in Lists, NEW i \in 1 .. Len(order'[k])
               PROVE  order'[k][i] \in live' /\ k \in made'
    OBVIOUS
  <2>1. CASE k = l
    BY <1>2, <1>4, <1>5, <2>1
  <2>2. CASE k # l
    BY <1>2, <1>5, <2>2
  <2> QED  BY <2>1, <2>2
<1>8. ASSUME NEW m \in live'
      PROVE  \E k \in Lists : \E i \in 1 .. Len(order'[k]) : m = order'[k][i]
  <2>1. CASE m = n
    BY <1>1, <1>2, <2>1
  <2>2. CASE m \in live
    <3>1. PICK k \in Lists : \E i \in 1 .. Len(order[k]) : m = order[k][i]
      BY <2>2 DEF Sound, Listed
    <3>2. PICK i \in 1 .. Len(order[k]) : m = order[k][i]
      BY <3>1
    <3>3. CASE k # l
      BY <1>2, <3>2, <3>3
    <3>4. CASE k = l
      <4>1. i + off \in 1 .. Len(t) /\ t[i + off] = m
        BY <1>3, <3>2, <3>4
      <4> QED  BY <1>1, <1>2, <4>1
    <3> QED  BY <3>3, <3>4
  <2> QED  BY <2>1, <2>2
<1> QED  BY <1>2, <1>6, <1>7, <1>8 DEF Listed

\* One node less in list l, in front (off = 1) or at the end (off = 0).
LEMMA OneLess ==
  ASSUME Sound, made' = made, NEW l \in Lists, NEW off \in {0, 1},
         NEW p \in 1 .. Len(order[l]), p = IF off = 1 THEN 1 ELSE Len(order[l]),
         NEW t \in Seq(Nodes), Len(t) = Len(order[l]) - 1,
         \A i \in 1 .. Len(t) : t[i] = order[l][i + off],
         order' = [order EXCEPT ![l] = t], live' = live \ {order[l][p]}
  PROVE  /\ order' \in [Lists -> Seq(Nodes)] /\ live' \subseteq Nodes
         /\ order'[l] = t /\ \A k \in Lists : k # l => order'[k] = order[k]
         /\ Apart' /\ Listed'
<1>1. order \in [Lists -> Seq(Nodes)] /\ live \subseteq Nodes
  BY DEF Sound, TypeOK
<1>2. /\ order' \in [Lists -> Seq(Nodes)] /\ live' \subseteq Nodes
      /\ order'[l] = t /\ \A k \in Lists : k # l => order'[k] = order[k]
  BY <1>1
<1>3. Len(order[l]) \in Nat /\ off \in Int
  BY <1>1
<1>4. \A i \in 1 .. Len(t) : i + off \in 1 .. Len(order[l]) /\ i + off # p
  BY <1>3
<1>5. Apart'
  <2> SUFFICES ASSUME NEW j \in Lists, NEW k \in Lists,
                      NEW a \in 1 .. Len(order'[j]), NEW b \in 1 .. Len(order'[k]),
                      order'[j][a] = order'[k][b]
               PROVE  j = k /\ a = b
    BY DEF Apart
  <2> DEFINE x == IF j = l THEN a + off ELSE a
             y == IF k = l THEN b + off ELSE b
  <2>1. x \in 1 .. Len(order[j]) /\ order'[j][a] = order[j][x]
    BY <1>2, <1>4
  <2>2. y \in 1 .. Len(order[k]) /\ order'[k][b] = order[k][y]
    BY <1>2, <1>4
  <2>3. a \in Int /\ b \in Int
    BY <1>2
  <2> HIDE DEF x, y
  <2>4. j = k /\ x = y
    BY <2>1, <2>2 DEF Sound, Apart
  <2> QED  BY <1>3, <2>3, <2>4 DEF x, y
<1>6. \A k \in Lists : \A i \in 1 .. Len(order'[k]) : order'[k][i] \in live' /\ k \in made'
  <2> SUFFICES ASSUME NEW k \in Lists, NEW i \in 1 .. Len(order'[k])
               PROVE  order'[k][i] \in live' /\ k \in made'
    OBVIOUS
  <2> DEFINE x == IF k = l THEN i + off ELSE i
  <2>1. x \in 1 .. Len(order[k]) /\ order'[k][i] = order[k][x] /\ (k = l => x # p)
    BY <1>2, <1>4
  <2> HIDE DEF x
  <2>2. order[k][x] \in live /\ k \in made
    BY <2>1 DEF Sound, Listed
  <2>3. order[k][x] # order[l][p]
    BY <2>1 DEF Sound, Apart
  <2> QED  BY <2>1, <2>2, <2>3
<1>7. ASSUME NEW m \in live'
      PROVE  \E k \in Lists : \E i \in 1 .. Len(order'[k]) : m = order'[k][i]
  <2>1. PICK k \in Lists : \E i \in 1 .. Len(order[k]) : m = order[k][i]
    BY <1>7 DEF Sound, Listed
  <2>2. PICK i \in 1 .. Len(order[k]) : m = order[k][i]
    BY <2>1
  <2>3. CASE k # l
    BY <1>2, <2>2, <2>3
  <2>4. CASE k = l
    <3>1. i # p
      BY <1>7, <2>2, <2>4
    <3>2. i - off \in 1 .. Len(t) /\ (i - off) + off = i
      BY <1>3, <2>2, <2>4, <3>1
    <3>3. t[i - off] = m
      BY <2>2, <2>4, <3>2
    <3> QED  BY <1>2, <3>2, <3>3
  <2> QED  BY <2>3, <2>4
<1> QED  BY <1>2, <1>5, <1>6, <1>7 DEF Listed

\* A new last node, in list_push and in copying.
LEMMA AddedKeeps ==
  ASSUME Sound, loop.kind \notin Clears, loop'.kind \notin Clears, made' = made,
         NEW l \in made, NEW n \in Nodes \ live, NEW v \in Items, Added(l, n, v)
  PROVE  /\ list' \in [Lists -> [head : Pointer, tail : Pointer, length : Nat]]
         /\ live' \subseteq Nodes
         /\ node' \in [Nodes -> NodeValue]
         /\ order' \in [Lists -> Seq(Nodes)]
         /\ \A k \in Lists : Headed(k)' /\ Chained(k)'
         /\ Apart' /\ Listed'
         /\ \A i \in 1 .. Len(order[l]) : order'[l][i] = order[l][i]
<1> DEFINE s == order[l]
           t == Append(s, n)
           last == list[l].tail
<1>1. l \in Lists /\ s \in Seq(Nodes) /\ n \in Nodes /\ TypeOK
  BY DEF Sound, TypeOK
<1>2. /\ t \in Seq(Nodes) /\ Len(t) = Len(s) + 1 /\ Len(s) \in Nat
      /\ \A i \in Int : At(t, i) = IF i = Len(s) + 1 THEN n ELSE At(s, i)
  BY <1>1, AppendAt
<1>3. /\ list[l].head = At(s, 1) /\ last = At(s, Len(s)) /\ list[l].length = Len(s)
      /\ list[l].head = Null <=> s = <<>>
  BY <1>1, HeadFacts DEF Clearing
<1>4. /\ order' = [order EXCEPT ![l] = t]
      /\ live' = live \cup {n}
      /\ list' = [list EXCEPT ![l] =
                    [head   |-> IF list[l].head = Null THEN n ELSE list[l].head,
                     tail   |-> n, length |-> list[l].length + 1]]
      /\ node' = [m \in Nodes |->
                    CASE m = n    -> [value |-> v, prev |-> last, next |-> Null]
                      [] m = last -> [node[m] EXCEPT !.next = n]
                      [] OTHER    -> node[m]]
  BY DEF Added
<1>5. /\ order' \in [Lists -> Seq(Nodes)] /\ order'[l] = t
      /\ \A k \in Lists : k # l => order'[k] = order[k] /\ list'[k] = list[k]
  BY <1>1, <1>2, <1>4 DEF TypeOK
<1>6. last \in Pointer /\ list[l].head \in Pointer
  BY <1>1 DEF TypeOK
<1>0. last # n
  <2>1. Len(s) \in Int
    BY <1>2
  <2>2. CASE Len(s) \in 1 .. Len(s)
    <3>1. At(s, Len(s)) \in live
      BY <1>1, <2>2, PositionFacts DEF At
    <3> QED  BY <1>3, <3>1
  <2>3. CASE Len(s) \notin 1 .. Len(s)
    BY <1>1, <1>3, <2>1, <2>3, AtFacts, ListAssumption
  <2> QED  BY <2>2, <2>3
<1>7. \A m \in Nodes :
        /\ m = n => node'[m] = [value |-> v, prev |-> last, next |-> Null]
        /\ m # n /\ m = last => node'[m] = [node[m] EXCEPT !.next = n]
        /\ m # n /\ m # last => node'[m] = node[m]
  <2> SUFFICES ASSUME NEW m \in Nodes
               PROVE  /\ m = n => node'[m] = [value |-> v, prev |-> last, next |-> Null]
                      /\ m # n /\ m = last => node'[m] = [node[m] EXCEPT !.next = n]
                      /\ m # n /\ m # last => node'[m] = node[m]
    OBVIOUS
  <2>1. node'[m] = CASE m = n    -> [value |-> v, prev |-> last, next |-> Null]
                     [] m = last -> [node[m] EXCEPT !.next = n]
                     [] OTHER    -> node[m]
    BY <1>4
  <2>2. m = n => node'[m] = [value |-> v, prev |-> last, next |-> Null]
    BY <1>0, <2>1
  <2>3. m # n /\ m = last => node'[m] = [node[m] EXCEPT !.next = n]
    BY <1>0, <2>1
  <2>4. m # n /\ m # last => node'[m] = node[m]
    BY <1>0, <2>1
  <2> QED  BY <2>2, <2>3, <2>4
<1> HIDE DEF s, t, last
<1>8. node' \in [Nodes -> NodeValue]
  <2>1. \A m \in Nodes : node[m] \in NodeValue
    BY <1>1 DEF TypeOK
  <2>2. [value |-> v, prev |-> last, next |-> Null] \in NodeValue
    BY <1>6 DEF NodeValue, Pointer
  <2>3. \A m \in Nodes : [node[m] EXCEPT !.next = n] \in NodeValue
    BY <1>1, <2>1 DEF NodeValue, Pointer
  <2>4. \A m \in Nodes : node'[m] \in NodeValue
    BY <1>7, <2>1, <2>2, <2>3
  <2> QED  BY <1>4, <2>4
<1>9. list'[l] = [head |-> At(t, 1), tail |-> At(t, Len(t)), length |-> Len(t)]
  <2>1. list'[l] = [head   |-> IF list[l].head = Null THEN n ELSE list[l].head,
                    tail   |-> n, length |-> Len(s) + 1]
    BY <1>1, <1>3, <1>4 DEF TypeOK
  <2>2. At(t, Len(t)) = n
    BY <1>2
  <2>3. At(t, 1) = IF s = <<>> THEN n ELSE At(s, 1)
    <3>1. s = <<>> <=> Len(s) = 0
      BY <1>1
    <3> QED  BY <1>2, <3>1
  <2> QED  BY <1>2, <1>3, <2>1, <2>2, <2>3
<1>10. list' \in [Lists -> [head : Pointer, tail : Pointer, length : Nat]]
  <2>1. list'[l] \in [head : Pointer, tail : Pointer, length : Nat]
    BY <1>2, <1>9, AtFacts
  <2> QED  BY <1>1, <1>4, <1>5, <2>1 DEF TypeOK
<1>11. \A k \in Lists : \A i \in 1 .. Len(order[k]) :
         /\ order[k][i] \in live /\ order[k][i] \in Nodes /\ order[k][i] # n
         /\ At(order[k], i) = order[k][i]
         /\ node[order[k][i]].next = At(order[k], i + 1)
         /\ node[order[k][i]].prev = At(order[k], i - 1)
  BY PositionFacts DEF Clearing
<1>12. \A k \in Lists : \A i \in 1 .. Len(order[k]) :
         order[k][i] = last => k = l /\ i = Len(s)
  <2> SUFFICES ASSUME NEW k \in Lists, NEW i \in 1 .. Len(order[k]), order[k][i] = last
               PROVE  k = l /\ i = Len(s)
    OBVIOUS
  <2>1. last # Null
    BY <1>11, ListAssumption
  <2>2. Len(s) \in 1 .. Len(s) /\ last = s[Len(s)]
    BY <1>1, <1>2, <1>3, <2>1, AtFacts
  <2> QED  BY <1>1, <2>2 DEF Sound, Apart, s
<1>13. \A i \in 1 .. Len(s) : t[i] = s[i]
  BY <1>1 DEF t
<1>14. t[Len(s) + 1] = n
  BY <1>1 DEF t
<1>15. \A k \in Lists : Headed(k)'
  <2> SUFFICES ASSUME NEW k \in Lists PROVE Headed(k)'
    OBVIOUS
  <2>1. ~Clearing(k)' /\ ~Clearing(k)
    BY DEF Clearing
  <2>2. CASE k = l
    BY <1>5, <1>9, <2>1, <2>2 DEF Headed, At
  <2>3. CASE k # l
    BY <1>5, <2>1, <2>3 DEF Sound, Headed, At
  <2> QED  BY <2>2, <2>3
<1>16. \A k \in Lists : Chained(k)'
  <2> SUFFICES ASSUME NEW k \in Lists, NEW i \in 1 .. Len(order'[k])
               PROVE  /\ node'[order'[k][i]].next = At(order'[k], i + 1)
                      /\ node'[order'[k][i]].prev = At(order'[k], i - 1)
    BY DEF Chained, At
  <2>1. CASE k # l
    <3>1. order'[k] = order[k]
      BY <1>5, <2>1
    <3>2. order[k][i] # last /\ order[k][i] # n /\ order[k][i] \in Nodes
      BY <1>11, <1>12, <2>1, <3>1
    <3>3. node'[order[k][i]] = node[order[k][i]]
      BY <1>7, <3>2
    <3> QED  BY <1>11, <3>1, <3>3
  <2>2. CASE k = l /\ i = Len(s) + 1
    <3>1. order'[k][i] = n /\ node'[n] = [value |-> v, prev |-> last, next |-> Null]
      BY <1>1, <1>5, <1>7, <1>14, <2>2
    <3>2. At(t, Len(s) + 2) = At(s, Len(s) + 2) /\ At(t, Len(s)) = At(s, Len(s))
      BY <1>2
    <3>3. At(s, Len(s) + 2) = Null
      BY <1>1, <1>2, AtFacts
    <3> QED  BY <1>2, <1>3, <1>5, <2>2, <3>1, <3>2, <3>3
  <2>3. CASE k = l /\ i # Len(s) + 1
    <3>1. i \in 1 .. Len(s) /\ order'[k] = t
      BY <1>2, <1>5, <2>3
    <3>2. t[i] = s[i] /\ s[i] \in Nodes /\ s[i] # n
      BY <1>1, <1>11, <1>13, <3>1 DEF s
    <3>3. node[s[i]].next = At(s, i + 1) /\ node[s[i]].prev = At(s, i - 1)
      BY <1>1, <1>11, <3>1 DEF s
    <3>4. At(t, i - 1) = At(s, i - 1)
      BY <1>2, <3>1
    <3>5. CASE s[i] = last
      <4>1. i = Len(s)
        BY <1>1, <1>12, <3>1, <3>5 DEF s
      <4>2. node'[s[i]] = [node[s[i]] EXCEPT !.next = n] /\ node[s[i]] \in NodeValue
        BY <1>1, <1>7, <3>2, <3>5 DEF TypeOK
      <4>3. node'[s[i]].next = n /\ node'[s[i]].prev = node[s[i]].prev
        BY <4>2 DEF NodeValue
      <4>4. At(t, i + 1) = n
        BY <1>2, <4>1
      <4> QED  BY <3>1, <3>2, <3>3, <3>4, <4>3, <4>4
    <3>6. CASE s[i] # last
      <4>1. node'[s[i]] = node[s[i]]
        BY <1>7, <3>2, <3>6
      <4>2. i # Len(s)
        <5>1. Len(s) \in Int /\ (Len(s) \in 1 .. Len(s) => At(s, Len(s)) = s[Len(s)])
          BY <1>1, <1>2, AtFacts
        <5> QED  BY <1>3, <3>1, <3>6, <5>1
      <4>3. At(t, i + 1) = At(s, i + 1)
        BY <1>2, <3>1, <4>2
      <4> QED  BY <3>1, <3>2, <3>3, <3>4, <4>1, <4>3
    <3> QED  BY <3>5, <3>6
  <2> QED  BY <2>1, <2>2, <2>3
<1>17. Apart' /\ Listed' /\ live' \subseteq Nodes
  <2>1. Len(t) \in 1 .. Len(t) /\ t[Len(t)] = n
    BY <1>2, <1>14
  <2>2. \A i \in 1 .. Len(order[l]) : t[i + 0] = order[l][i]
    BY <1>13 DEF s
  <2>3. 0 \in {0, 1} /\ Len(t) = IF 0 = 1 THEN 1 ELSE Len(t)
    OBVIOUS
  <2>4. Len(t) = Len(order[l]) + 1 /\ t \in Seq(Nodes)
    BY <1>2 DEF s
  <2>5. order' = [order EXCEPT ![l] = t] /\ live' = live \cup {n}
    BY <1>4
  <2> QED  BY <2>1, <2>2, <2>3, <2>4, <2>5, OneMore
<1> QED  BY <1>5, <1>8, <1>10, <1>13, <1>15, <1>16, <1>17 DEF s

\* A list whose nodes are left alone stays as it was.
LEMMA OtherKept ==
  ASSUME Sound, NEW k \in Lists, ~Clearing(k), ~Clearing(k)',
         order'[k] = order[k], list'[k] = list[k],
         \A i \in 1 .. Len(order[k]) : node'[order[k][i]] = node[order[k][i]]
  PROVE  Headed(k)' /\ Chained(k)'
<1>1. Headed(k)'
  BY DEF Sound, Headed, At
<1>2. \A i \in 1 .. Len(order[k]) :
        /\ node[order[k][i]].next = At(order[k], i + 1)
        /\ node[order[k][i]].prev = At(order[k], i - 1)
  BY PositionFacts
<1>3. Chained(k)'
  <2> SUFFICES ASSUME NEW i \in 1 .. Len(order[k])
               PROVE  /\ node'[order[k][i]].next = At(order[k], i + 1)
                      /\ node'[order[k][i]].prev = At(order[k], i - 1)
    BY DEF Chained, At
  <2>1. node'[order[k][i]] = node[order[k][i]]
    OBVIOUS
  <2> QED  BY <1>2, <2>1
<1> QED  BY <1>1, <1>3

\* The nodes of one list are not those of another, and different at different places.
LEMMA Different ==
  ASSUME Sound, NEW k \in Lists, NEW l \in Lists, NEW i \in 1 .. Len(order[k]),
         NEW j \in Int, k # l \/ i # j
  PROVE  order[k][i] # At(order[l], j)
<1>1. order[l] \in Seq(Nodes) /\ order[k][i] \in Nodes
  BY PositionFacts DEF Sound, TypeOK
<1>2. CASE j \in 1 .. Len(order[l])
  BY <1>2 DEF At, Sound, Apart
<1>3. CASE j \notin 1 .. Len(order[l])
  BY <1>1, <1>3, ListAssumption DEF At
<1> QED  BY <1>2, <1>3

\* A new first node.
LEMMA UnshiftKeeps ==
  ASSUME Sound, NEW l \in made, NEW n \in Nodes \ live, NEW v \in Items,
         list_unshift(l, n, v)
  PROVE  Sound'
<1> DEFINE s == order[l]
           t == <<n>> \o s
           first == list[l].head
<1>1. l \in Lists /\ s \in Seq(Nodes) /\ n \in Nodes /\ TypeOK
  BY DEF Sound, TypeOK
<1>2. /\ t \in Seq(Nodes) /\ Len(t) = Len(s) + 1 /\ Len(s) \in Nat
      /\ \A i \in Int : At(t, i) = IF i = 1 THEN n ELSE At(s, i - 1)
  BY <1>1, PrependAt
<1>3. loop = NoLoop /\ loop' = loop /\ made' = made
  BY DEF list_unshift, Idle
<1>4. /\ loop.kind = "none" /\ loop'.kind = "none"
      /\ \A k \in Lists : ~Clearing(k) /\ ~Clearing(k)'
  BY <1>3 DEF NoLoop, Clearing, Clears
<1>5. /\ first = At(s, 1) /\ list[l].tail = At(s, Len(s)) /\ list[l].length = Len(s)
      /\ list[l].tail = Null <=> s = <<>>
  BY <1>1, <1>4, HeadFacts
<1>6. /\ order' = [order EXCEPT ![l] = t]
      /\ live' = live \cup {n}
      /\ list' = [list EXCEPT ![l] =
                    [head   |-> n,
                     tail   |-> IF list[l].tail = Null THEN n ELSE list[l].tail,
                     length |-> list[l].length + 1]]
      /\ node' = [m \in Nodes |->
                    CASE m = n     -> [value |-> v, prev |-> Null, next |-> first]
                      [] m = first -> [node[m] EXCEPT !.prev = n]
                      [] OTHER     -> node[m]]
  BY DEF list_unshift
<1>7. \A i \in 1 .. Len(s) : t[i + 1] = s[i]
  BY <1>1, <1>2, SMTT(20) DEF t
<1>8. t[1] = n
  BY <1>1 DEF t
<1>9. first \in Pointer /\ list[l].tail \in Pointer
  BY <1>1 DEF TypeOK
<1>10. first # n
  <2>1. CASE 1 \in 1 .. Len(s)
    BY <1>1, <1>5, <2>1, PositionFacts
  <2>2. CASE 1 \notin 1 .. Len(s)
    BY <1>1, <1>5, <2>2, AtFacts, ListAssumption
  <2> QED  BY <2>1, <2>2
<1>11. \A m \in Nodes :
         /\ m = n => node'[m] = [value |-> v, prev |-> Null, next |-> first]
         /\ m # n /\ m = first => node'[m] = [node[m] EXCEPT !.prev = n]
         /\ m # n /\ m # first => node'[m] = node[m]
  <2> SUFFICES ASSUME NEW m \in Nodes
               PROVE  /\ m = n => node'[m] = [value |-> v, prev |-> Null, next |-> first]
                      /\ m # n /\ m = first => node'[m] = [node[m] EXCEPT !.prev = n]
                      /\ m # n /\ m # first => node'[m] = node[m]
    OBVIOUS
  <2>1. node'[m] = CASE m = n     -> [value |-> v, prev |-> Null, next |-> first]
                     [] m = first -> [node[m] EXCEPT !.prev = n]
                     [] OTHER     -> node[m]
    BY <1>6
  <2>2. m = n => node'[m] = [value |-> v, prev |-> Null, next |-> first]
    BY <1>10, <2>1
  <2>3. m # n /\ m = first => node'[m] = [node[m] EXCEPT !.prev = n]
    BY <1>10, <2>1
  <2>4. m # n /\ m # first => node'[m] = node[m]
    BY <1>10, <2>1
  <2> QED  BY <2>2, <2>3, <2>4
<1>apart. \A i \in 1 .. Len(s), j \in Int : i # j => s[i] # At(s, j)
  BY <1>1, Different
<1> HIDE DEF s, t, first
<1>12. node' \in [Nodes -> NodeValue]
  <2>1. \A m \in Nodes : node[m] \in NodeValue
    BY <1>1 DEF TypeOK
  <2>2. [value |-> v, prev |-> Null, next |-> first] \in NodeValue
    BY <1>9 DEF NodeValue, Pointer
  <2>3. \A m \in Nodes : [node[m] EXCEPT !.prev = n] \in NodeValue
    BY <1>1, <2>1 DEF NodeValue, Pointer
  <2>4. \A m \in Nodes : node'[m] \in NodeValue
    BY <1>11, <2>1, <2>2, <2>3
  <2> QED  BY <1>6, <2>4
<1>13. /\ order' \in [Lists -> Seq(Nodes)] /\ live' \subseteq Nodes
       /\ order'[l] = t /\ \A k \in Lists : k # l => order'[k] = order[k]
       /\ Apart' /\ Listed'
  <2>1. 1 \in 1 .. Len(t) /\ 1 \in {0, 1} /\ 1 = IF 1 = 1 THEN 1 ELSE Len(t)
    BY <1>2
  <2>2. \A i \in 1 .. Len(order[l]) : t[i + 1] = order[l][i]
    BY <1>7 DEF s
  <2>3. Len(t) = Len(order[l]) + 1 /\ t \in Seq(Nodes)
    BY <1>2 DEF s
  <2>4. order' = [order EXCEPT ![l] = t] /\ live' = live \cup {n}
    BY <1>6
  <2> QED  BY <1>3, <1>8, <2>1, <2>2, <2>3, <2>4, OneMore
<1>14. list'[l] = [head |-> At(t, 1), tail |-> At(t, Len(t)), length |-> Len(t)]
  <2>1. list'[l] = [head |-> n, tail |-> IF list[l].tail = Null THEN n ELSE list[l].tail,
                    length |-> Len(s) + 1]
    BY <1>1, <1>5, <1>6 DEF TypeOK
  <2>2. At(t, 1) = n
    BY <1>2
  <2>3. At(t, Len(t)) = IF s = <<>> THEN n ELSE At(s, Len(s))
    <3>1. s = <<>> <=> Len(s) = 0
      BY <1>1
    <3> QED  BY <1>2, <3>1
  <2> QED  BY <1>2, <1>5, <2>1, <2>2, <2>3
<1>15. /\ list' \in [Lists -> [head : Pointer, tail : Pointer, length : Nat]]
       /\ \A k \in Lists : k # l => list'[k] = list[k]
  <2>1. list'[l] \in [head : Pointer, tail : Pointer, length : Nat]
    BY <1>2, <1>14, AtFacts
  <2> QED  BY <1>1, <1>6, <2>1 DEF TypeOK
<1>16. \A k \in Lists : Headed(k)' /\ Chained(k)'
  <2> SUFFICES ASSUME NEW k \in Lists PROVE Headed(k)' /\ Chained(k)'
    OBVIOUS
  <2>1. CASE k # l
    <3> SUFFICES ASSUME NEW i \in 1 .. Len(order[k])
                 PROVE  node'[order[k][i]] = node[order[k][i]]
      BY <1>4, <1>13, <1>15, <2>1, OtherKept
    <3>1. order[k][i] # first
      BY <1>1, <1>5, <2>1, Different DEF s
    <3>2. order[k][i] \in Nodes /\ order[k][i] # n
      BY PositionFacts
    <3> QED  BY <1>11, <3>1, <3>2
  <2>2. CASE k = l
    <3>1. Headed(l)'
      BY <1>1, <1>4, <1>13, <1>14 DEF Headed, At
    <3>2. ASSUME NEW i \in 1 .. Len(t)
          PROVE  node'[t[i]].next = At(t, i + 1) /\ node'[t[i]].prev = At(t, i - 1)
      <4>1. CASE i = 1
        <5>1. node'[t[i]] = [value |-> v, prev |-> Null, next |-> first]
          BY <1>1, <1>8, <1>11, <4>1
        <5>2. At(t, 2) = At(s, 1) /\ At(t, 0) = At(s, -1) /\ At(s, -1) = Null
          BY <1>1, <1>2, AtFacts
        <5> QED  BY <1>5, <4>1, <5>1, <5>2
      <4>2. CASE i # 1
        <5>1. i - 1 \in 1 .. Len(s) /\ (i - 1) + 1 = i
          BY <1>2, <4>2
        <5>2. t[i] = s[i - 1]
          BY <1>7, <5>1
        <5>3. /\ s[i - 1] \in Nodes /\ s[i - 1] # n
              /\ node[s[i - 1]].next = At(s, i) /\ node[s[i - 1]].prev = At(s, i - 2)
          <6>1. (i - 1) - 1 = i - 2
            BY <5>1
          <6> QED  BY <1>1, <1>4, <5>1, <6>1, PositionFacts DEF s
        <5>4. At(t, i + 1) = At(s, i)
          BY <1>2, <4>2
        <5>5. CASE i = 2
          <6>1. s[i - 1] = first
            BY <1>5, <5>1, <5>5 DEF At
          <6>2. node[s[i - 1]] \in NodeValue
            BY <1>1, <5>3 DEF TypeOK
          <6>3. node'[s[i - 1]] = [node[s[i - 1]] EXCEPT !.prev = n]
            BY <1>11, <5>3, <6>1
          <6>4. node'[s[i - 1]].prev = n /\ node'[s[i - 1]].next = node[s[i - 1]].next
            BY <6>2, <6>3 DEF NodeValue
          <6>5. At(t, i - 1) = n
            BY <1>2, <5>5
          <6> QED  BY <5>2, <5>3, <5>4, <6>4, <6>5
        <5>6. CASE i # 2
          <6>1. s[i - 1] # first
            <7>1. i - 1 # 1
              BY <5>6
            <7> QED  BY <1>5, <1>apart, <5>1, <7>1
          <6>2. node'[s[i - 1]] = node[s[i - 1]]
            BY <1>11, <5>3, <6>1
          <6>3. At(t, i - 1) = At(s, i - 2)
            BY <1>2, <5>6
          <6> QED  BY <5>2, <5>3, <5>4, <6>2, <6>3
        <5> QED  BY <5>5, <5>6
      <4> QED  BY <4>1, <4>2
    <3>3. Chained(l)'
      BY <1>13, <3>2 DEF Chained, At
    <3> QED  BY <2>2, <3>1, <3>3
  <2> QED  BY <2>1, <2>2
<1>17. TypeOK' /\ LoopInside'
  BY <1>1, <1>3, <1>4, <1>12, <1>13, <1>15 DEF TypeOK, LoopInside, Copies
<1> QED  BY <1>13, <1>16, <1>17 DEF Sound

\* The last node goes.
LEMMA PopKeeps ==
  ASSUME Sound, NEW l \in made, list_pop(l)
  PROVE  Sound'
<1> DEFINE s == order[l]
           t == SubSeq(s, 1, Len(s) - 1)
           last == list[l].tail
           p == At(s, Len(s) - 1)
<1>1. l \in Lists /\ s \in Seq(Nodes) /\ Len(s) \in Nat /\ TypeOK
  BY DEF Sound, TypeOK
<1>2. loop = NoLoop /\ loop' = loop /\ made' = made /\ last # Null
  BY DEF list_pop, Idle
<1>3. /\ loop.kind = "none" /\ loop'.kind = "none"
      /\ \A k \in Lists : ~Clearing(k) /\ ~Clearing(k)'
  BY <1>2 DEF NoLoop, Clearing, Clears
<1>4. /\ last = At(s, Len(s)) /\ list[l].head = At(s, 1) /\ list[l].length = Len(s)
      /\ s # <<>>
  BY <1>1, <1>2, <1>3, HeadFacts
<1>5. /\ t \in Seq(Nodes) /\ Len(t) = Len(s) - 1 /\ Len(s) > 0
      /\ \A i \in Int : At(t, i) = IF i = Len(s) THEN Null ELSE At(s, i)
  BY <1>1, <1>4, FrontAt
<1>6. last = s[Len(s)] /\ last \in Nodes /\ node[last].prev = p
  <2>1. Len(s) \in 1 .. Len(s)
    BY <1>1, <1>5
  <2> QED  BY <1>1, <1>3, <1>4, <2>1, PositionFacts
<1>7. last = list[l].head <=> Len(s) = 1
  <2>1. CASE Len(s) = 1
    BY <1>4, <2>1
  <2>2. CASE Len(s) # 1
    <3>1. Len(s) \in 1 .. Len(s) /\ 1 \in Int
      BY <1>1, <1>5
    <3> QED  BY <1>1, <1>4, <1>6, <2>2, <3>1, Different
  <2> QED  BY <2>1, <2>2
<1>8. p # last /\ p \in Pointer /\ (Len(s) = 1 => p = Null)
  <2>1. Len(s) \in 1 .. Len(s) /\ Len(s) - 1 \in Int /\ Len(s) - 1 # Len(s)
    BY <1>1, <1>5
  <2>2. Len(s) = 1 => Len(s) - 1 \notin 1 .. Len(s)
    OBVIOUS
  <2> QED  BY <1>1, <1>6, <2>1, <2>2, Different, AtFacts
<1>9. /\ order' = [order EXCEPT ![l] = t]
      /\ live' = live \ {last}
      /\ list' = [list EXCEPT ![l] =
                    IF last = list[l].head
                    THEN [EmptyList EXCEPT !.length = list[l].length - 1]
                    ELSE [list[l] EXCEPT !.tail = p, !.length = @ - 1]]
      /\ node' = [m \in Nodes |->
                    CASE m = last -> FreeNode
                      [] m # last /\ last # list[l].head /\ m = p ->
                           [node[m] EXCEPT !.next = Null]
                      [] OTHER -> node[m]]
  BY <1>6 DEF list_pop
<1>10. \A m \in Nodes :
         /\ m = last => node'[m] = FreeNode
         /\ m # last /\ m = p => node'[m] = [node[m] EXCEPT !.next = Null]
         /\ m # last /\ m # p => node'[m] = node[m]
  <2> SUFFICES ASSUME NEW m \in Nodes
               PROVE  /\ m = last => node'[m] = FreeNode
                      /\ m # last /\ m = p => node'[m] = [node[m] EXCEPT !.next = Null]
                      /\ m # last /\ m # p => node'[m] = node[m]
    OBVIOUS
  <2>1. node'[m] = CASE m = last -> FreeNode
                     [] m # last /\ last # list[l].head /\ m = p ->
                          [node[m] EXCEPT !.next = Null]
                     [] OTHER -> node[m]
    BY <1>9
  <2>2. m = p => last # list[l].head
    BY <1>7, <1>8, ListAssumption
  <2>3. m = last => node'[m] = FreeNode
    BY <2>1
  <2>4. m # last /\ m = p => node'[m] = [node[m] EXCEPT !.next = Null]
    BY <2>1, <2>2
  <2>5. m # last /\ m # p => node'[m] = node[m]
    BY <2>1
  <2> QED  BY <2>3, <2>4, <2>5
<1>apart. \A i \in 1 .. Len(s), j \in Int : i # j => s[i] # At(s, j)
  BY <1>1, Different
<1> HIDE DEF s, t, last, p
<1>11. \A i \in 1 .. Len(t) : t[i] = s[i] /\ i \in 1 .. Len(s) /\ i # Len(s)
  <2> SUFFICES ASSUME NEW i \in 1 .. Len(t)
               PROVE  t[i] = s[i] /\ i \in 1 .. Len(s) /\ i # Len(s)
    OBVIOUS
  <2>1. i \in 1 .. Len(s) /\ i # Len(s)
    BY <1>1, <1>5
  <2>2. At(t, i) = At(s, i)
    BY <1>5, <2>1
  <2> QED  BY <2>1, <2>2 DEF At
<1>12. node' \in [Nodes -> NodeValue]
  <2>1. \A m \in Nodes : node[m] \in NodeValue
    BY <1>1 DEF TypeOK
  <2>2. FreeNode \in NodeValue
    BY ListAssumption DEF FreeNode, NodeValue, Pointer
  <2>3. \A m \in Nodes : [node[m] EXCEPT !.next = Null] \in NodeValue
    BY <2>1 DEF NodeValue, Pointer
  <2>4. \A m \in Nodes : node'[m] \in NodeValue
    BY <1>10, <2>1, <2>2, <2>3
  <2> QED  BY <1>9, <2>4
<1>13. /\ order' \in [Lists -> Seq(Nodes)] /\ live' \subseteq Nodes
       /\ order'[l] = t /\ \A k \in Lists : k # l => order'[k] = order[k]
       /\ Apart' /\ Listed'
  <2>1. Len(s) \in 1 .. Len(order[l]) /\ 0 \in {0, 1}
        /\ Len(s) = IF 0 = 1 THEN 1 ELSE Len(order[l])
    BY <1>1, <1>5 DEF s
  <2>2. \A i \in 1 .. Len(t) : t[i] = order[l][i + 0]
    BY <1>11 DEF s
  <2>3. Len(t) = Len(order[l]) - 1 /\ t \in Seq(Nodes)
    BY <1>5 DEF s
  <2>4. order' = [order EXCEPT ![l] = t] /\ live' = live \ {order[l][Len(s)]}
    BY <1>6, <1>9 DEF s
  <2> QED  BY <1>1, <1>2, <2>1, <2>2, <2>3, <2>4, OneLess
<1>14. list'[l] = [head |-> At(t, 1), tail |-> At(t, Len(t)), length |-> Len(t)]
  <2>1. list[l] \in [head : Pointer, tail : Pointer, length : Nat]
    BY <1>1 DEF TypeOK
  <2>2. CASE Len(s) = 1
    <3>1. list'[l] = [head |-> Null, tail |-> Null, length |-> Len(s) - 1]
      BY <1>1, <1>4, <1>7, <1>9, <2>2 DEF TypeOK, EmptyList
    <3>2. At(t, 1) = Null /\ At(t, Len(t)) = Null
      BY <1>5, <2>2 DEF At
    <3> QED  BY <1>5, <3>1, <3>2
  <2>3. CASE Len(s) # 1
    <3>1. list'[l] = [head |-> At(s, 1), tail |-> p, length |-> Len(s) - 1]
      BY <1>1, <1>4, <1>7, <1>9, <2>1, <2>3 DEF TypeOK
    <3>2. At(t, 1) = At(s, 1) /\ At(t, Len(s) - 1) = p
      BY <1>1, <1>5, <2>3 DEF p
    <3> QED  BY <1>5, <3>1, <3>2
  <2> QED  BY <2>2, <2>3
<1>15. /\ list' \in [Lists -> [head : Pointer, tail : Pointer, length : Nat]]
       /\ \A k \in Lists : k # l => list'[k] = list[k]
  <2>1. Len(t) \in Nat /\ 1 \in Int
    BY <1>5
  <2>2. list'[l] \in [head : Pointer, tail : Pointer, length : Nat]
    BY <1>5, <1>14, <2>1, AtFacts
  <2> QED  BY <1>1, <1>9, <2>2 DEF TypeOK
<1>16. \A k \in Lists : Headed(k)' /\ Chained(k)'
  <2> SUFFICES ASSUME NEW k \in Lists PROVE Headed(k)' /\ Chained(k)'
    OBVIOUS
  <2>1. CASE k # l
    <3> SUFFICES ASSUME NEW i \in 1 .. Len(order[k])
                 PROVE  node'[order[k][i]] = node[order[k][i]]
      BY <1>3, <1>13, <1>15, <2>1, OtherKept
    <3>1. order[k][i] # last /\ order[k][i] # p
      <4>1. Len(s) \in Int /\ Len(s) - 1 \in Int
        BY <1>1
      <4> QED  BY <1>1, <1>4, <2>1, <4>1, Different DEF s, p
    <3>2. order[k][i] \in Nodes
      BY PositionFacts
    <3> QED  BY <1>10, <3>1, <3>2
  <2>2. CASE k = l
    <3>1. Headed(l)'
      BY <1>1, <1>3, <1>13, <1>14 DEF Headed, At
    <3>2. ASSUME NEW i \in 1 .. Len(t)
          PROVE  node'[t[i]].next = At(t, i + 1) /\ node'[t[i]].prev = At(t, i - 1)
      <4>1. t[i] = s[i] /\ i \in 1 .. Len(s) /\ i # Len(s)
        BY <1>11
      <4>2. s[i] \in Nodes /\ node[s[i]].next = At(s, i + 1) /\ node[s[i]].prev = At(s, i - 1)
        BY <1>1, <1>3, <4>1, PositionFacts DEF s
      <4>3. s[i] # last
        BY <1>1, <1>4, <1>apart, <4>1
      <4>4. At(t, i - 1) = At(s, i - 1)
        BY <1>1, <1>5, <4>1
      <4>5. CASE i = Len(s) - 1
        <5>1. s[i] = p
          BY <4>1, <4>5 DEF p, At
        <5>2. node'[s[i]] = [node[s[i]] EXCEPT !.next = Null] /\ node[s[i]] \in NodeValue
          BY <1>1, <1>10, <4>2, <4>3, <5>1 DEF TypeOK
        <5>3. node'[s[i]].next = Null /\ node'[s[i]].prev = node[s[i]].prev
          BY <5>2 DEF NodeValue
        <5>4. At(t, i + 1) = Null
          BY <1>1, <1>5, <4>5
        <5> QED  BY <4>1, <4>2, <4>4, <5>3, <5>4
      <4>6. CASE i # Len(s) - 1
        <5>1. s[i] # p
          <6>1. Len(s) - 1 \in Int
            BY <1>1
          <6> QED  BY <1>apart, <4>1, <4>6, <6>1 DEF p
        <5>2. node'[s[i]] = node[s[i]]
          BY <1>10, <4>2, <4>3, <5>1
        <5>3. At(t, i + 1) = At(s, i + 1)
          BY <1>1, <1>5, <4>1, <4>6
        <5> QED  BY <4>1, <4>2, <4>4, <5>2, <5>3
      <4> QED  BY <4>5, <4>6
    <3>3. Chained(l)'
      BY <1>13, <3>2 DEF Chained, At
    <3> QED  BY <2>2, <3>1, <3>3
  <2> QED  BY <2>1, <2>2
<1>17. TypeOK' /\ LoopInside'
  BY <1>1, <1>2, <1>3, <1>12, <1>13, <1>15 DEF TypeOK, LoopInside, Copies
<1> QED  BY <1>13, <1>16, <1>17 DEF Sound

\* The first node goes.
LEMMA ShiftKeeps ==
  ASSUME Sound, NEW l \in made, list_shift(l)
  PROVE  Sound'
<1> DEFINE s == order[l]
           t == Tail(s)
           first == list[l].head
           p == At(s, 2)
<1>1. l \in Lists /\ s \in Seq(Nodes) /\ Len(s) \in Nat /\ TypeOK
  BY DEF Sound, TypeOK
<1>2. loop = NoLoop /\ loop' = loop /\ made' = made /\ first # Null
  BY DEF list_shift, Idle
<1>3. /\ loop.kind = "none" /\ loop'.kind = "none"
      /\ \A k \in Lists : ~Clearing(k) /\ ~Clearing(k)'
  BY <1>2 DEF NoLoop, Clearing, Clears
<1>4. /\ first = At(s, 1) /\ list[l].tail = At(s, Len(s)) /\ list[l].length = Len(s)
      /\ s # <<>>
  BY <1>1, <1>2, <1>3, HeadFacts
<1>5. /\ t \in Seq(Nodes) /\ Len(t) = Len(s) - 1 /\ Len(s) > 0
      /\ \A i \in Int : At(t, i) = IF i < 1 THEN Null ELSE At(s, i + 1)
  <2>1. Len(s) > 0
    BY <1>1, <1>4
  <2> HIDE DEF s
  <2> QED  BY <1>1, <1>4, <2>1, TailAt
<1>6. first = s[1] /\ first \in Nodes /\ node[first].next = p
  <2>1. 1 \in 1 .. Len(s)
    BY <1>1, <1>5
  <2> QED  BY <1>1, <1>3, <1>4, <2>1, PositionFacts
<1>7. first = list[l].tail <=> Len(s) = 1
  <2>1. CASE Len(s) = 1
    BY <1>4, <2>1
  <2>2. CASE Len(s) # 1
    <3>1. 1 \in 1 .. Len(s) /\ Len(s) \in Int
      BY <1>1, <1>5
    <3> QED  BY <1>1, <1>4, <1>6, <2>2, <3>1, Different
  <2> QED  BY <2>1, <2>2
<1>8. p # first /\ p \in Pointer /\ (Len(s) = 1 => p = Null)
  <2>1. 1 \in 1 .. Len(s) /\ 2 \in Int /\ 1 # 2
    BY <1>1, <1>5
  <2>2. Len(s) = 1 => 2 \notin 1 .. Len(s)
    OBVIOUS
  <2> QED  BY <1>1, <1>6, <2>1, <2>2, Different, AtFacts
<1>9. /\ order' = [order EXCEPT ![l] = t]
      /\ live' = live \ {first}
      /\ list' = [list EXCEPT ![l] =
                    IF first = list[l].tail
                    THEN [EmptyList EXCEPT !.length = list[l].length - 1]
                    ELSE [list[l] EXCEPT !.head = p, !.length = @ - 1]]
      /\ node' = [m \in Nodes |->
                    CASE m = first -> FreeNode
                      [] m # first /\ first # list[l].tail /\ m = p ->
                           [node[m] EXCEPT !.prev = Null]
                      [] OTHER -> node[m]]
  BY <1>6 DEF list_shift
<1>10. \A m \in Nodes :
         /\ m = first => node'[m] = FreeNode
         /\ m # first /\ m = p => node'[m] = [node[m] EXCEPT !.prev = Null]
         /\ m # first /\ m # p => node'[m] = node[m]
  <2> SUFFICES ASSUME NEW m \in Nodes
               PROVE  /\ m = first => node'[m] = FreeNode
                      /\ m # first /\ m = p => node'[m] = [node[m] EXCEPT !.prev = Null]
                      /\ m # first /\ m # p => node'[m] = node[m]
    OBVIOUS
  <2>1. node'[m] = CASE m = first -> FreeNode
                     [] m # first /\ first # list[l].tail /\ m = p ->
                          [node[m] EXCEPT !.prev = Null]
                     [] OTHER -> node[m]
    BY <1>9
  <2>2. m = p => first # list[l].tail
    BY <1>7, <1>8, ListAssumption
  <2>3. m = first => node'[m] = FreeNode
    BY <2>1
  <2>4. m # first /\ m = p => node'[m] = [node[m] EXCEPT !.prev = Null]
    BY <2>1, <2>2
  <2>5. m # first /\ m # p => node'[m] = node[m]
    BY <2>1
  <2> QED  BY <2>3, <2>4, <2>5
<1>apart. \A i \in 1 .. Len(s), j \in Int : i # j => s[i] # At(s, j)
  BY <1>1, Different
<1> HIDE DEF s, t, first, p
<1>11. \A i \in 1 .. Len(t) : t[i] = s[i + 1] /\ i + 1 \in 1 .. Len(s) /\ i + 1 # 1
  <2> SUFFICES ASSUME NEW i \in 1 .. Len(t)
               PROVE  t[i] = s[i + 1] /\ i + 1 \in 1 .. Len(s) /\ i + 1 # 1
    OBVIOUS
  <2>1. i + 1 \in 1 .. Len(s) /\ i + 1 # 1
    BY <1>1, <1>5
  <2>2. At(t, i) = At(s, i + 1)
    BY <1>5, <2>1
  <2> QED  BY <2>1, <2>2 DEF At
<1>12. node' \in [Nodes -> NodeValue]
  <2>1. \A m \in Nodes : node[m] \in NodeValue
    BY <1>1 DEF TypeOK
  <2>2. FreeNode \in NodeValue
    BY ListAssumption DEF FreeNode, NodeValue, Pointer
  <2>3. \A m \in Nodes : [node[m] EXCEPT !.prev = Null] \in NodeValue
    BY <2>1 DEF NodeValue, Pointer
  <2>4. \A m \in Nodes : node'[m] \in NodeValue
    BY <1>10, <2>1, <2>2, <2>3
  <2> QED  BY <1>9, <2>4
<1>13. /\ order' \in [Lists -> Seq(Nodes)] /\ live' \subseteq Nodes
       /\ order'[l] = t /\ \A k \in Lists : k # l => order'[k] = order[k]
       /\ Apart' /\ Listed'
  <2>1. 1 \in 1 .. Len(order[l]) /\ 1 \in {0, 1}
        /\ 1 = IF 1 = 1 THEN 1 ELSE Len(order[l])
    BY <1>1, <1>5, SMTT(20) DEF s
  <2>2. \A i \in 1 .. Len(t) : t[i] = order[l][i + 1]
    BY <1>11 DEF s
  <2>3. Len(t) = Len(order[l]) - 1 /\ t \in Seq(Nodes)
    BY <1>5 DEF s
  <2>4. order' = [order EXCEPT ![l] = t] /\ live' = live \ {order[l][1]}
    BY <1>6, <1>9 DEF s
  <2> QED  BY <1>1, <1>2, <2>1, <2>2, <2>3, <2>4, OneLess
<1>14. list'[l] = [head |-> At(t, 1), tail |-> At(t, Len(t)), length |-> Len(t)]
  <2>1. list[l] \in [head : Pointer, tail : Pointer, length : Nat]
    BY <1>1 DEF TypeOK
  <2>2. CASE Len(s) = 1
    <3>1. list'[l] = [head |-> Null, tail |-> Null, length |-> Len(s) - 1]
      BY <1>1, <1>4, <1>7, <1>9, <2>2 DEF TypeOK, EmptyList
    <3>2. At(t, 1) = Null /\ At(t, Len(t)) = Null
      BY <1>5, <2>2 DEF At
    <3> QED  BY <1>5, <3>1, <3>2
  <2>3. CASE Len(s) # 1
    <3>1. list'[l] = [head |-> p, tail |-> At(s, Len(s)), length |-> Len(s) - 1]
      BY <1>1, <1>4, <1>7, <1>9, <2>1, <2>3 DEF TypeOK
    <3>2. At(t, 1) = p /\ At(t, Len(s) - 1) = At(s, Len(s))
      BY <1>1, <1>5, <2>3 DEF p
    <3> QED  BY <1>5, <3>1, <3>2
  <2> QED  BY <2>2, <2>3
<1>15. /\ list' \in [Lists -> [head : Pointer, tail : Pointer, length : Nat]]
       /\ \A k \in Lists : k # l => list'[k] = list[k]
  <2>1. Len(t) \in Nat /\ 1 \in Int
    BY <1>5
  <2>2. list'[l] \in [head : Pointer, tail : Pointer, length : Nat]
    BY <1>5, <1>14, <2>1, AtFacts
  <2> QED  BY <1>1, <1>9, <2>2 DEF TypeOK
<1>16. \A k \in Lists : Headed(k)' /\ Chained(k)'
  <2> SUFFICES ASSUME NEW k \in Lists PROVE Headed(k)' /\ Chained(k)'
    OBVIOUS
  <2>1. CASE k # l
    <3> SUFFICES ASSUME NEW i \in 1 .. Len(order[k])
                 PROVE  node'[order[k][i]] = node[order[k][i]]
      BY <1>3, <1>13, <1>15, <2>1, OtherKept
    <3>1. order[k][i] # first /\ order[k][i] # p
      BY <1>1, <1>4, <2>1, Different DEF s, p
    <3>2. order[k][i] \in Nodes
      BY PositionFacts
    <3> QED  BY <1>10, <3>1, <3>2
  <2>2. CASE k = l
    <3>1. Headed(l)'
      BY <1>1, <1>3, <1>13, <1>14 DEF Headed, At
    <3>2. ASSUME NEW i \in 1 .. Len(t)
          PROVE  node'[t[i]].next = At(t, i + 1) /\ node'[t[i]].prev = At(t, i - 1)
      <4>1. t[i] = s[i + 1] /\ i + 1 \in 1 .. Len(s) /\ i + 1 # 1
        BY <1>11
      <4>2. /\ s[i + 1] \in Nodes /\ node[s[i + 1]].next = At(s, i + 2)
            /\ node[s[i + 1]].prev = At(s, i)
        <5>1. (i + 1) + 1 = i + 2 /\ (i + 1) - 1 = i
          OBVIOUS
        <5> QED  BY <1>1, <1>3, <4>1, <5>1, PositionFacts DEF s
      <4>3. s[i + 1] # first
        BY <1>4, <1>apart, <4>1
      <4>4. At(t, i + 1) = At(s, i + 2)
        BY <1>1, <1>5, <4>1
      <4>5. CASE i = 1
        <5>1. s[i + 1] = p
          BY <4>1, <4>5 DEF p, At
        <5>2. node'[s[i + 1]] = [node[s[i + 1]] EXCEPT !.prev = Null]
              /\ node[s[i + 1]] \in NodeValue
          BY <1>1, <1>10, <4>2, <4>3, <5>1 DEF TypeOK
        <5>3. /\ node'[s[i + 1]].prev = Null
              /\ node'[s[i + 1]].next = node[s[i + 1]].next
          BY <5>2 DEF NodeValue
        <5>4. At(t, i - 1) = Null
          BY <1>1, <1>5, <4>5
        <5> QED  BY <4>1, <4>2, <4>4, <5>3, <5>4
      <4>6. CASE i # 1
        <5>1. s[i + 1] # p
          <6>1. i + 1 # 2
            BY <4>6
          <6> QED  BY <1>apart, <4>1, <6>1 DEF p
        <5>2. node'[s[i + 1]] = node[s[i + 1]]
          BY <1>10, <4>2, <4>3, <5>1
        <5>3. At(t, i - 1) = At(s, i)
          BY <1>1, <1>5, <4>1, <4>6
        <5> QED  BY <4>1, <4>2, <4>4, <5>2, <5>3
      <4> QED  BY <4>5, <4>6
    <3>3. Chained(l)'
      BY <1>13, <3>2 DEF Chained, At
    <3> QED  BY <2>2, <3>1, <3>3
  <2> QED  BY <2>1, <2>2
<1>17. TypeOK' /\ LoopInside'
  BY <1>1, <1>2, <1>3, <1>12, <1>13, <1>15 DEF TypeOK, LoopInside, Copies
<1> QED  BY <1>13, <1>16, <1>17 DEF Sound

-----------------------------------------------------------------------------
(* Loops *)

\* The loop that clears a list frees its first node.
LEMMA ClearNodeKeeps ==
  ASSUME Sound, ClearNode
  PROVE  Sound'
<1> DEFINE l == loop.to
           s == order[l]
           t == Tail(s)
           first == loop.at
<1>1. loop.kind \in Clears /\ first # Null /\ loop.kind # "none"
  BY DEF ClearNode, Clears
<1>2. l \in Lists /\ l \in made /\ s \in Seq(Nodes) /\ Len(s) \in Nat /\ TypeOK
  BY <1>1 DEF Sound, TypeOK, LoopInside
<1>3. loop' = [loop EXCEPT !.at = node[first].next] /\ loop \in Loop
  BY <1>2 DEF ClearNode, TypeOK
<1>4. /\ loop'.kind = loop.kind /\ loop'.to = l /\ loop'.from = loop.from
      /\ loop'.at = node[first].next
      /\ \A k \in Lists : (Clearing(k) <=> k = l) /\ (Clearing(k)' <=> k = l)
  BY <1>1, <1>3 DEF Loop, Clearing
<1>5. first = At(s, 1)
  BY <1>2, <1>4 DEF Sound, Headed
<1>6. 1 \in 1 .. Len(s) /\ first = s[1] /\ first \in Nodes /\ node[first].next = At(s, 2)
      /\ s # <<>>
  <2>1. 1 \in 1 .. Len(s)
    BY <1>1, <1>2, <1>5, AtFacts
  <2> QED  BY <1>2, <1>5, <2>1, PositionFacts
<1>7. /\ order' = [order EXCEPT ![l] = t] /\ live' = live \ {first}
      /\ node' = [node EXCEPT ![first] = FreeNode] /\ made' = made /\ list' = list
  BY DEF ClearNode
<1>8. /\ t \in Seq(Nodes) /\ Len(t) = Len(s) - 1
      /\ \A i \in Int : At(t, i) = IF i < 1 THEN Null ELSE At(s, i + 1)
  <2> HIDE DEF s
  <2> QED  BY <1>2, <1>6, TailAt
<1>apart. \A i \in 1 .. Len(s), j \in Int : i # j => s[i] # At(s, j)
  BY <1>2, Different
<1> HIDE DEF l, s, t, first
<1>9. \A i \in 1 .. Len(t) : t[i] = s[i + 1] /\ i + 1 \in 1 .. Len(s) /\ i + 1 # 1
  <2> SUFFICES ASSUME NEW i \in 1 .. Len(t)
               PROVE  t[i] = s[i + 1] /\ i + 1 \in 1 .. Len(s) /\ i + 1 # 1
    OBVIOUS
  <2>1. i + 1 \in 1 .. Len(s) /\ i + 1 # 1
    BY <1>2, <1>8
  <2>2. At(t, i) = At(s, i + 1)
    BY <1>8, <2>1
  <2> QED  BY <2>1, <2>2 DEF At
<1>10. /\ order' \in [Lists -> Seq(Nodes)] /\ live' \subseteq Nodes
       /\ order'[l] = t /\ \A k \in Lists : k # l => order'[k] = order[k]
       /\ Apart' /\ Listed'
  <2>1. 1 \in 1 .. Len(order[l]) /\ 1 \in {0, 1}
        /\ 1 = IF 1 = 1 THEN 1 ELSE Len(order[l])
    BY <1>6 DEF s
  <2>2. \A i \in 1 .. Len(t) : t[i] = order[l][i + 1]
    BY <1>9 DEF s
  <2>3. Len(t) = Len(order[l]) - 1 /\ t \in Seq(Nodes)
    BY <1>8 DEF s
  <2>4. order' = [order EXCEPT ![l] = t] /\ live' = live \ {order[l][1]}
    BY <1>6, <1>7 DEF s
  <2> QED  BY <1>2, <1>7, <2>1, <2>2, <2>3, <2>4, OneLess
<1>11. \A m \in Nodes : m # first => node'[m] = node[m]
  BY <1>2, <1>7 DEF TypeOK
<1>12. \A k \in Lists : Headed(k)' /\ Chained(k)'
  <2> SUFFICES ASSUME NEW k \in Lists PROVE Headed(k)' /\ Chained(k)'
    OBVIOUS
  <2>1. CASE k # l
    <3> SUFFICES ASSUME NEW i \in 1 .. Len(order[k])
                 PROVE  node'[order[k][i]] = node[order[k][i]]
      BY <1>4, <1>7, <1>10, <2>1, OtherKept
    <3>1. order[k][i] # first
      BY <1>2, <1>5, <2>1, Different DEF s
    <3>2. order[k][i] \in Nodes
      BY PositionFacts
    <3> QED  BY <1>11, <3>1, <3>2
  <2>2. CASE k = l
    <3>1. loop'.at = At(t, 1)
      BY <1>4, <1>6, <1>8
    <3>2. Headed(k)'
      BY <1>4, <1>10, <2>2, <3>1 DEF Headed, At
    <3>3. ASSUME NEW i \in 1 .. Len(t)
          PROVE  node'[t[i]].next = At(t, i + 1) /\ (node'[t[i]].prev = At(t, i - 1) \/ i = 1)
      <4>1. t[i] = s[i + 1] /\ i + 1 \in 1 .. Len(s) /\ i + 1 # 1
        BY <1>9
      <4>2. /\ s[i + 1] \in Nodes /\ node[s[i + 1]].next = At(s, i + 2)
            /\ node[s[i + 1]].prev = At(s, i)
        <5>1. (i + 1) + 1 = i + 2 /\ (i + 1) - 1 = i
          OBVIOUS
        <5> QED  BY <1>2, <4>1, <5>1, PositionFacts DEF s
      <4>3. s[i + 1] # first
        BY <1>5, <1>apart, <4>1
      <4>4. node'[t[i]] = node[s[i + 1]]
        BY <1>11, <4>1, <4>2, <4>3
      <4>5. At(t, i + 1) = At(s, i + 2)
        BY <1>2, <1>8, <4>1
      <4>6. i # 1 => At(t, i - 1) = At(s, i)
        BY <1>2, <1>8, <4>1
      <4> QED  BY <4>2, <4>4, <4>5, <4>6
    <3>4. Chained(k)'
      BY <1>4, <1>10, <2>2, <3>3 DEF Chained, At
    <3> QED  BY <3>2, <3>4
  <2> QED  BY <2>1, <2>2
<1>13. TypeOK'
  <2>1. node' \in [Nodes -> NodeValue]
    <3>1. FreeNode \in NodeValue
      BY ListAssumption DEF FreeNode, NodeValue, Pointer
    <3> QED  BY <1>2, <1>7, <3>1 DEF TypeOK
  <2>2. node[first].next \in Pointer
    BY <1>2, <1>6 DEF TypeOK, NodeValue
  <2>3. loop' \in Loop
    BY <1>3, <2>2 DEF Loop
  <2> QED  BY <1>2, <1>7, <1>10, <2>1, <2>3 DEF TypeOK
<1>14. LoopInside'
  <2>1. loop'.kind \notin Copies \cup {"iterate"}
    BY <1>1, <1>4 DEF Clears, Copies
  <2> QED  BY <1>1, <1>4, <1>7, <2>1 DEF Sound, LoopInside, l
<1> QED  BY <1>10, <1>12, <1>13, <1>14 DEF Sound

\* The loop that copies adds a node, and goes on to the next one.
LEMMA CopyNodeKeeps ==
  ASSUME Sound, NEW n \in Nodes \ live, CopyNode(n)
  PROVE  Sound'
<1> DEFINE l == loop.to
           f == loop.from
           v == node[loop.at].value
<1>1. /\ loop.kind \in Copies /\ loop.at # Null /\ made' = made /\ Added(l, n, v)
      /\ loop' = [loop EXCEPT !.at = node'[loop.at].next]
  BY DEF CopyNode
<1>2. loop.kind \notin Clears /\ loop.kind # "none"
  BY <1>1 DEF Copies, Clears
<1>3. TypeOK /\ loop \in Loop /\ l \in made /\ f \in made /\ f \in Lists /\ l \in Lists
  BY <1>2 DEF Sound, TypeOK, LoopInside
<1>4. /\ loop'.kind = loop.kind /\ loop'.to = l /\ loop'.from = f
      /\ loop'.at = node'[loop.at].next
  BY <1>1, <1>3 DEF Loop
<1>5. PICK i \in 1 .. Len(order[f]) : loop.at = order[f][i]
  BY <1>1 DEF Sound, LoopInside
<1>6. loop.at \in Nodes /\ v \in Items
  <2>1. loop.at \in Nodes
    BY <1>3, <1>5, PositionFacts
  <2> QED  BY <1>3, <2>1 DEF TypeOK, NodeValue
<1> HIDE DEF l, f, v
<1>7. /\ list' \in [Lists -> [head : Pointer, tail : Pointer, length : Nat]]
      /\ live' \subseteq Nodes /\ node' \in [Nodes -> NodeValue]
      /\ order' \in [Lists -> Seq(Nodes)]
      /\ \A k \in Lists : Headed(k)' /\ Chained(k)'
      /\ Apart' /\ Listed'
      /\ \A j \in 1 .. Len(order[l]) : order'[l][j] = order[l][j]
  BY <1>1, <1>2, <1>3, <1>4, <1>6, AddedKeeps
<1>8. i \in 1 .. Len(order'[f]) /\ order'[f][i] = loop.at
  <2>1. order' = [order EXCEPT ![l] = Append(order[l], n)] /\ order \in [Lists -> Seq(Nodes)]
    BY <1>1, <1>3 DEF Added, TypeOK
  <2>2. CASE f # l
    BY <1>3, <1>5, <2>1, <2>2
  <2>3. CASE f = l
    <3>1. order[l] \in Seq(Nodes) /\ order'[l] = Append(order[l], n)
      BY <1>3, <2>1
    <3>2. Len(order'[l]) = Len(order[l]) + 1 /\ Len(order[l]) \in Nat
      BY <3>1
    <3> QED  BY <1>5, <1>7, <2>3, <3>2
  <2> QED  BY <2>2, <2>3
<1>9. loop'.at = At(order'[f], i + 1)
  <2>1. node'[order'[f][i]].next = At(order'[f], i + 1)
    BY <1>3, <1>7, <1>8 DEF Chained, At
  <2> QED  BY <1>4, <1>8, <2>1
<1>10. loop'.at # Null => \E j \in 1 .. Len(order'[f]) : loop'.at = order'[f][j]
  BY <1>9 DEF At
<1>11. LoopInside'
  BY <1>3, <1>1, <1>4, <1>10 DEF LoopInside
<1>12. loop' \in Loop
  <2>1. node'[loop.at].next \in Pointer
    BY <1>6, <1>7 DEF NodeValue
  <2> QED  BY <1>1, <1>3, <2>1 DEF Loop
<1> QED  BY <1>1, <1>3, <1>7, <1>11, <1>12 DEF Sound, TypeOK

\* What depends on nodes and their order only.
LEMMA NodesKept ==
  ASSUME Sound, order' = order, node' = node, live' = live,
         \A k \in Lists : order[k] # <<>> => k \in made' /\ (Clearing(k) => Clearing(k)')
  PROVE  Apart' /\ Listed' /\ \A k \in Lists : Chained(k)'
<1>1. \A k \in Lists : \A i \in 1 .. Len(order[k]) : order[k] # <<>>
  BY DEF Sound, TypeOK
<1>2. Apart'
  BY DEF Sound, Apart
<1>3. Listed'
  BY <1>1 DEF Sound, Listed
<1>4. \A k \in Lists : Chained(k)'
  BY <1>1 DEF Sound, Chained, At
<1> QED  BY <1>2, <1>3, <1>4

\* A list that has no nodes need not be there, one that has some is.
LEMMA MadeFacts ==
  ASSUME Sound, NEW k \in Lists, order[k] # <<>>
  PROVE  k \in made
<1>1. order[k] \in Seq(Nodes)
  BY DEF Sound, TypeOK
<1>2. 1 \in 1 .. Len(order[k])
  BY <1>1
<1> QED  BY <1>2 DEF Sound, Listed

\* A step that moves no more than a loop, and clears nothing.
LEMMA LoopTurns ==
  ASSUME Sound, made' = made, list' = list, live' = live, node' = node, order' = order,
         loop.kind \notin Clears, loop'.kind \notin Clears, loop' \in Loop, LoopInside'
  PROVE  Sound'
<1>1. \A k \in Lists : ~Clearing(k) /\ ~Clearing(k)'
  BY DEF Clearing
<1>2. Apart' /\ Listed' /\ \A k \in Lists : Chained(k)'
  BY <1>1, NodesKept, MadeFacts
<1>3. \A k \in Lists : Headed(k)'
  BY <1>1 DEF Sound, Headed, At
<1>4. TypeOK'
  BY DEF Sound, TypeOK
<1> QED  BY <1>2, <1>3, <1>4 DEF Sound

\* What a loop is when it starts.
LEMMA LoopingFacts ==
  ASSUME Sound, NEW kind \in Copies \cup Clears \cup {"iterate"},
         NEW to \in Lists, NEW from \in Lists
  PROVE  /\ Looping(kind, to, from) \in Loop
         /\ Looping(kind, to, from).kind = kind /\ Looping(kind, to, from).to = to
         /\ Looping(kind, to, from).from = from
         /\ Looping(kind, to, from).at = list[from].head
<1>1. list[from].head \in Pointer /\ list[to].length \in Nat
  BY DEF Sound, TypeOK
<1>2. <<>> \in Seq(Items)
  OBVIOUS
<1> QED  BY <1>1, <1>2 DEF Looping, Loop

\* A loop that starts is at the first node of the list it walks.
LEMMA StartsInside ==
  ASSUME Sound, NEW l \in Lists, ~Clearing(l), list[l].head # Null
  PROVE  \E i \in 1 .. Len(order[l]) : list[l].head = order[l][i]
<1>1. list[l].head = At(order[l], 1)
  BY HeadFacts
<1> QED  BY <1>1 DEF At

\* A list is being cleared from now on.
LEMMA ClearStarts ==
  ASSUME Sound, loop.kind \notin Clears, NEW kind \in Clears, NEW l \in made,
         loop' = Looping(kind, l, l),
         made' = made, list' = list, live' = live, node' = node, order' = order
  PROVE  Sound'
<1>1. l \in Lists /\ TypeOK
  BY DEF Sound, TypeOK
<1>2. /\ loop' \in Loop /\ loop'.kind = kind /\ loop'.to = l /\ loop'.from = l
      /\ loop'.at = list[l].head
  BY <1>1, LoopingFacts
<1>3. \A k \in Lists : ~Clearing(k) /\ (Clearing(k)' <=> k = l)
  BY <1>2 DEF Clearing
<1>4. Apart' /\ Listed' /\ \A k \in Lists : Chained(k)'
  BY <1>3, NodesKept, MadeFacts
<1>5. ASSUME NEW k \in Lists PROVE Headed(k)'
  <2>1. list[l].head = At(order[l], 1)
    BY <1>1, <1>3, HeadFacts
  <2>2. CASE k = l
    BY <1>2, <1>3, <2>1, <2>2 DEF Headed, At
  <2>3. CASE k # l
    BY <1>3, <2>3 DEF Sound, Headed, At
  <2> QED  BY <2>2, <2>3
<1>6. LoopInside'
  <2>1. kind \notin Copies \cup {"iterate"}
    BY DEF Copies, Clears
  <2> QED  BY <1>2, <2>1 DEF LoopInside
<1>7. TypeOK'
  BY <1>1, <1>2 DEF TypeOK
<1> QED  BY <1>4, <1>5, <1>6, <1>7 DEF Sound

\* A list is there from now on.
LEMMA ListStarts ==
  ASSUME Sound, Idle, NEW l \in Lists \ made, made' = made \cup {l},
         list' = [list EXCEPT ![l] = EmptyList], live' = live, node' = node, order' = order,
         loop'.kind \notin Clears, loop' \in Loop, LoopInside'
  PROVE  Sound'
<1>1. TypeOK /\ order[l] = <<>> /\ Len(order[l]) = 0
  BY MadeFacts DEF Sound, TypeOK
<1>2. \A k \in Lists : ~Clearing(k) /\ ~Clearing(k)'
  BY DEF Clearing, Idle, NoLoop, Clears
<1>3. Apart' /\ Listed' /\ \A k \in Lists : Chained(k)'
  BY <1>2, NodesKept, MadeFacts
<1>4. ASSUME NEW k \in Lists PROVE Headed(k)'
  <2>1. CASE k = l
    <3>1. list'[l] = EmptyList /\ order'[l] = <<>>
      BY <1>1 DEF TypeOK
    <3>2. At(<<>>, 1) = Null /\ At(<<>>, 0) = Null /\ Len(<<>>) = 0
      BY DEF At
    <3> QED  BY <1>2, <2>1, <3>1, <3>2 DEF Headed, EmptyList, At
  <2>2. CASE k # l
    <3>1. list'[k] = list[k]
      BY <1>1, <2>2 DEF TypeOK
    <3> QED  BY <1>2, <3>1 DEF Sound, Headed, At
  <2> QED  BY <2>1, <2>2
<1>5. TypeOK'
  <2>1. EmptyList \in [head : Pointer, tail : Pointer, length : Nat]
    BY DEF EmptyList, Pointer
  <2> QED  BY <1>1, <2>1 DEF TypeOK
<1> QED  BY <1>3, <1>4, <1>5 DEF Sound

\* The loop that clears a list ends when no node is left.
LEMMA ClearEndsKeeps ==
  ASSUME Sound, ClearEnds
  PROVE  Sound'
<1> DEFINE l == loop.to
<1>1. /\ loop.kind \in Clears /\ loop.at = Null /\ loop' = NoLoop /\ live' = live
      /\ node' = node /\ order' = order
      /\ list' = [list EXCEPT ![l] = EmptyList] /\ made \ {l} \subseteq made'
      /\ made' \subseteq made
  BY DEF ClearEnds
<1>2. TypeOK /\ l \in Lists /\ order[l] \in Seq(Nodes)
  BY <1>1 DEF Sound, TypeOK, LoopInside, Clears
<1>3. Clearing(l) /\ \A k \in Lists : ~Clearing(k)' /\ (k # l => ~Clearing(k))
  BY <1>1 DEF Clearing, NoLoop, Clears
<1>4. order[l] = <<>>
  <2>1. At(order[l], 1) = Null
    BY <1>1, <1>2, <1>3 DEF Sound, Headed
  <2>2. 1 \notin 1 .. Len(order[l])
    BY <1>2, <2>1, AtFacts
  <2>3. Len(order[l]) = 0
    BY <1>2, <2>2
  <2> QED  BY <1>2, <2>3
<1> HIDE DEF l
<1>5. Apart' /\ Listed' /\ \A k \in Lists : Chained(k)'
  <2> SUFFICES ASSUME NEW k \in Lists, order[k] # <<>>
               PROVE  k \in made' /\ (Clearing(k) => Clearing(k)')
    BY <1>1, NodesKept
  <2>1. k # l /\ k \in made
    BY <1>4, MadeFacts
  <2> QED  BY <1>1, <1>3, <2>1
<1>6. ASSUME NEW k \in Lists PROVE Headed(k)'
  <2>1. CASE k = l
    <3>1. list'[l] = EmptyList /\ order'[l] = <<>>
      BY <1>1, <1>2, <1>4 DEF TypeOK
    <3>2. At(<<>>, 1) = Null /\ At(<<>>, 0) = Null /\ Len(<<>>) = 0
      BY DEF At
    <3> QED  BY <1>3, <2>1, <3>1, <3>2 DEF Headed, EmptyList, At
  <2>2. CASE k # l
    <3>1. list'[k] = list[k]
      BY <1>1, <1>2, <2>2 DEF TypeOK
    <3> QED  BY <1>1, <1>3, <2>2, <3>1 DEF Sound, Headed, At
  <2> QED  BY <2>1, <2>2
<1>7. TypeOK'
  <2>1. EmptyList \in [head : Pointer, tail : Pointer, length : Nat]
    BY DEF EmptyList, Pointer
  <2>2. NoLoop \in Loop
    BY DEF NoLoop, Loop, Pointer
  <2> QED  BY <1>1, <1>2, <2>1, <2>2 DEF TypeOK
<1>8. LoopInside'
  BY <1>1 DEF LoopInside, NoLoop, Copies
<1> QED  BY <1>5, <1>6, <1>7, <1>8 DEF Sound

-----------------------------------------------------------------------------
(* The invariant *)

\* No list is there at first.
LEMMA InitSound == Init => Sound
<1> SUFFICES ASSUME Init PROVE Sound
  OBVIOUS
<1>1. \A l \in Lists : order[l] = <<>> /\ Len(order[l]) = 0 /\ ~Clearing(l)
  BY DEF Init, Clearing, NoLoop, Clears
<1>2. TypeOK
  <2>1. EmptyList \in [head : Pointer, tail : Pointer, length : Nat]
    BY DEF EmptyList, Pointer
  <2>2. FreeNode \in NodeValue
    BY ListAssumption DEF FreeNode, NodeValue, Pointer
  <2>3. NoLoop \in Loop
    BY DEF NoLoop, Loop, Pointer
  <2>4. order \in [Lists -> Seq(Nodes)]
    BY DEF Init
  <2> QED  BY <2>1, <2>2, <2>3, <2>4 DEF Init, TypeOK
<1>3. ASSUME NEW l \in Lists PROVE Headed(l) /\ Chained(l)
  <2>1. list[l] = EmptyList
    BY DEF Init
  <2>2. At(order[l], 1) = Null /\ At(order[l], 0) = Null
    BY <1>1 DEF At
  <2> QED  BY <1>1, <2>1, <2>2 DEF Headed, Chained, EmptyList
<1>4. Apart /\ Listed
  BY <1>1 DEF Apart, Listed, Init
<1>5. LoopInside
  BY DEF Init, LoopInside, NoLoop, Copies
<1> QED  BY <1>2, <1>3, <1>4, <1>5 DEF Sound

\* A call that changes nothing.
LEMMA NothingKeeps ==
  ASSUME Sound, UNCHANGED <<made, list, live, node, order>>, Idle, UNCHANGED loop
  PROVE  Sound'
<1>1. loop \in Loop /\ loop' = NoLoop /\ loop.kind \notin Clears /\ loop'.kind \notin Clears
  BY DEF Sound, TypeOK, Idle, NoLoop, Clears
<1>2. LoopInside'
  BY <1>1 DEF LoopInside, NoLoop, Copies
<1> QED  BY <1>1, <1>2, LoopTurns

\* A loop is over.
LEMMA LoopOver ==
  ASSUME Sound, UNCHANGED <<made, list, live, node, order>>, loop.kind \notin Clears,
         loop' = NoLoop
  PROVE  Sound'
<1>1. loop' \in Loop /\ loop'.kind \notin Clears
  BY DEF NoLoop, Loop, Pointer, Clears
<1>2. LoopInside'
  BY DEF LoopInside, NoLoop, Copies
<1> QED  BY <1>1, <1>2, LoopTurns

\* One call, or one step of its loop.
LEMMA NextSound == Sound /\ [Next]_vars => Sound'
<1> SUFFICES ASSUME Sound, [Next]_vars PROVE Sound'
  OBVIOUS
<1>1. TypeOK /\ made \subseteq Lists /\ loop \in Loop
  BY DEF Sound, TypeOK
<1>2. Idle => loop.kind \notin Clears /\ \A k \in Lists : ~Clearing(k)
  BY DEF Idle, NoLoop, Clears, Clearing
<1>3. loop.kind \in Copies \cup {"iterate"} => loop.kind \notin Clears
  BY DEF Copies, Clears
<1>4. CASE NoMemory
  BY <1>4, NothingKeeps DEF NoMemory
<1>5. ASSUME NEW n \in Nodes \ live, CopyNode(n) PROVE Sound'
  BY <1>5, CopyNodeKeeps
<1>6. CASE CopyFails
  <2>1. UNCHANGED <<made, list, live, node, order>> /\ loop.kind \in Copies
    BY <1>6 DEF CopyFails
  <2>2. CASE loop.kind = "clone"
    <3>1. loop' = Looping("undo", loop.to, loop.to) /\ loop.to \in made
      BY <1>6, <2>2 DEF CopyFails, Sound, LoopInside
    <3> QED  BY <1>3, <2>1, <3>1, ClearStarts DEF Clears
  <2>3. CASE loop.kind # "clone"
    BY <1>3, <1>6, <2>1, <2>3, LoopOver DEF CopyFails
  <2> QED  BY <2>2, <2>3
<1>7. CASE CopyEnds
  BY <1>3, <1>7, LoopOver DEF CopyEnds
<1>8. CASE ClearNode
  BY <1>8, ClearNodeKeeps
<1>9. CASE ClearEnds
  BY <1>9, ClearEndsKeeps
<1>10. CASE list_next_node
  <2>1. /\ loop.kind = "iterate" /\ loop.at # Null /\ Current = node[loop.at].value
        /\ loop' = [loop EXCEPT !.at = node[loop.at].next,
                               !.index = IF loop.seen = <<>> THEN @ ELSE @ + 1,
                               !.seen = Append(@, Current)]
    BY <1>10 DEF list_next_node, Current
  <2>2. loop.from \in made /\ loop.from \in Lists
    BY <1>1, <2>1 DEF Sound, LoopInside
  <2>3. PICK i \in 1 .. Len(order[loop.from]) : loop.at = order[loop.from][i]
    BY <2>1 DEF Sound, LoopInside
  <2>4. loop.at \in Nodes /\ node[loop.at].next = At(order[loop.from], i + 1)
    BY <2>2, <2>3, PositionFacts
  <2>5. node[loop.at] \in NodeValue
    BY <1>1, <2>4 DEF TypeOK
  <2>6. /\ loop'.kind = "iterate" /\ loop'.to = loop.to /\ loop'.from = loop.from
        /\ loop'.at = At(order[loop.from], i + 1)
    BY <1>1, <2>1, <2>4 DEF Loop
  <2>7. loop' \in Loop
    <3>1. node[loop.at].next \in Pointer /\ Current \in Items
      BY <2>1, <2>5 DEF NodeValue
    <3>2. Append(loop.seen, Current) \in Seq(Items)
      BY <1>1, <3>1 DEF Loop
    <3>3. (IF loop.seen = <<>> THEN loop.index ELSE loop.index + 1) \in Nat
      BY <1>1 DEF Loop
    <3>4. loop' = [loop EXCEPT !.at = node[loop.at].next,
                              !.index = IF loop.seen = <<>> THEN loop.index ELSE loop.index + 1,
                              !.seen = Append(loop.seen, Current)]
      BY <1>1, <2>1 DEF Loop
    <3> HIDE DEF Current
    <3> QED  BY <1>1, <3>1, <3>2, <3>3, <3>4 DEF Loop
  <2>8. UNCHANGED <<made, list, live, node, order>>
    BY <1>10 DEF list_next_node
  <2>9. loop'.at # Null =>
          \E j \in 1 .. Len(order[loop.from]) : loop'.at = order[loop.from][j]
    BY <2>6 DEF At
  <2>10. LoopInside'
    BY <2>1, <2>6, <2>8, <2>9 DEF Sound, LoopInside
  <2>11. loop.kind \notin Clears /\ loop'.kind \notin Clears
    BY <2>1, <2>6 DEF Clears
  <2> QED  BY <2>7, <2>8, <2>10, <2>11, LoopTurns
<1>11. CASE IterationEnds
  BY <1>3, <1>11, LoopOver DEF IterationEnds
<1>12. ASSUME NEW l \in Lists \ made, list_create(l) PROVE Sound'
  <2>1. loop' = NoLoop /\ loop' = loop
    BY <1>12 DEF list_create, Idle
  <2>2. LoopInside' /\ loop'.kind \notin Clears
    BY <2>1 DEF LoopInside, NoLoop, Copies, Clears
  <2> QED  BY <1>1, <1>12, <2>1, <2>2, ListStarts DEF list_create
<1>13. ASSUME NEW l \in made, Ends(l) PROVE Sound'
  <2>1. CASE Nothing(l) \/ list_first(l) \/ list_empty(l)
    BY <2>1, NothingKeeps DEF Nothing, list_first, list_empty
  <2>2. CASE list_pop(l)
    BY <2>2, PopKeeps
  <2>3. CASE list_shift(l)
    BY <2>3, ShiftKeeps
  <2>4. ASSUME NEW n \in Nodes \ live, NEW v \in Items, list_push(l, n, v) PROVE Sound'
    <3>1. loop = NoLoop /\ loop' = loop /\ made' = made /\ Added(l, n, v)
      BY <2>4 DEF list_push, Idle
    <3>2. loop.kind \notin Clears /\ loop'.kind \notin Clears
      BY <3>1 DEF NoLoop, Clears
    <3>3. /\ list' \in [Lists -> [head : Pointer, tail : Pointer, length : Nat]]
          /\ live' \subseteq Nodes /\ node' \in [Nodes -> NodeValue]
          /\ order' \in [Lists -> Seq(Nodes)]
          /\ \A k \in Lists : Headed(k)' /\ Chained(k)'
          /\ Apart' /\ Listed'
      BY <3>1, <3>2, AddedKeeps
    <3>4. LoopInside'
      BY <3>1 DEF LoopInside, NoLoop, Copies
    <3> QED  BY <1>1, <3>1, <3>3, <3>4 DEF Sound, TypeOK
  <2>5. ASSUME NEW n \in Nodes \ live, NEW v \in Items, list_unshift(l, n, v) PROVE Sound'
    BY <2>5, UnshiftKeeps
  <2> QED  BY <1>13, <2>1, <2>2, <2>3, <2>4, <2>5 DEF Ends
<1>14. ASSUME NEW kind \in {"clear", "destroy"}, NEW l \in made, list_clear(kind, l)
       PROVE  Sound'
  BY <1>2, <1>14, ClearStarts DEF list_clear, Clears
<1>15. ASSUME NEW l \in made, NEW m \in made,
              list_concat(l, m) \/ (l = m /\ list_iterator(l))
       PROVE  Sound'
  <2>1. PICK kind \in {"concat", "iterate"} :
          loop' = Looping(kind, l, m) /\ Idle /\ UNCHANGED <<made, list, live, node, order>>
    BY <1>15 DEF list_concat, list_iterator
  <2>2. /\ loop' \in Loop /\ loop'.kind = kind /\ loop'.to = l /\ loop'.from = m
        /\ loop'.at = list[m].head
    BY <1>1, <2>1, LoopingFacts DEF Copies
  <2>3. LoopInside'
    BY <1>1, <1>2, <2>1, <2>2, StartsInside DEF LoopInside
  <2>4. loop'.kind \notin Clears
    BY <2>2 DEF Clears
  <2> QED  BY <1>2, <2>1, <2>2, <2>3, <2>4, LoopTurns
<1>16. ASSUME NEW l \in made, NEW m \in Lists \ made, list_clone(l, m) PROVE Sound'
  <2>1. /\ Idle /\ made' = made \cup {m} /\ list' = [list EXCEPT ![m] = EmptyList]
        /\ loop' = [Looping("clone", m, l) EXCEPT !.before = 0]
        /\ UNCHANGED <<live, node, order>>
    BY <1>16 DEF list_clone
  <2>2. /\ Looping("clone", m, l) \in Loop /\ Looping("clone", m, l).kind = "clone"
        /\ Looping("clone", m, l).to = m /\ Looping("clone", m, l).from = l
        /\ Looping("clone", m, l).at = list[l].head
    BY <1>1, LoopingFacts DEF Copies
  <2>3. /\ loop' \in Loop /\ loop'.kind = "clone" /\ loop'.to = m /\ loop'.from = l
        /\ loop'.at = list[l].head
    BY <2>1, <2>2 DEF Loop
  <2>4. LoopInside'
    BY <1>1, <1>2, <2>1, <2>3, StartsInside DEF LoopInside
  <2>5. loop'.kind \notin Clears
    BY <2>3 DEF Clears
  <2> QED  BY <1>1, <2>1, <2>3, <2>4, <2>5, ListStarts
<1>17. CASE UNCHANGED vars
  BY <1>17 DEF vars, Sound, TypeOK, Headed, Chained, Apart, Listed, LoopInside, Clearing, At
<1>18. CASE LoopStep
  BY <1>5, <1>6, <1>7, <1>8, <1>9, <1>10, <1>11, <1>18 DEF LoopStep
<1> QED
  BY <1>4, <1>12, <1>13, <1>14, <1>15, <1>16, <1>17, <1>18 DEF Next

\* For any lists, nodes and items: whatever calls of list.c are made and whenever
\* malloc fails, the structures and the pointers of the lists agree, every node is in
\* one place of one list, and no pointer leads to freed memory.
THEOREM PointersSound == Spec => []Sound
<1> QED  BY InitSound, NextSound, PTL DEF Spec

-----------------------------------------------------------------------------
(* What the loops have done so far *)

\* A loop that copies has copied what it has walked past, and is at the next node.
Copied ==
  loop.kind \in Copies =>
    LET s == order[loop.from]
        t == order[loop.to]
        k == Len(t) - loop.before
    IN  /\ loop.before <= Len(t) /\ k <= Len(s)
        /\ loop.at = At(s, k + 1)
        /\ \A i \in 1 .. k : node[t[loop.before + i]].value = node[s[i]].value
        /\ loop.kind = "clone" => loop.before = 0 /\ loop.to # loop.from
        /\ loop.from = loop.to =>
             /\ loop.before = 0 => t = <<>>
             /\ \A i \in 1 .. Len(t) :
                  node[t[i]].value = node[t[((i - 1) % loop.before) + 1]].value

\* An iterator has returned what it has walked past, and is at the next node.
Seen ==
  loop.kind = "iterate" =>
    LET s == order[loop.from] IN
    /\ Len(loop.seen) <= Len(s) /\ loop.at = At(s, Len(loop.seen) + 1)
    /\ \A i \in 1 .. Len(loop.seen) :
         loop.seen[i] = node[s[i]].value /\ loop.seen[i] # NoItem

Inv == Sound /\ Copied /\ Seen

\* Where nothing but the values of nodes outside the lists changes.
SameValues ==
  \A k \in Lists : \A i \in 1 .. Len(order[k]) :
    node'[order[k][i]].value = node[order[k][i]].value

\* The items of nodes are a sequence.
LEMMA ItemsOf ==
  ASSUME NEW f \in [Nodes -> NodeValue], NEW s \in Seq(Nodes),
         NEW r, r = [i \in DOMAIN s |-> f[s[i]].value]
  PROVE  /\ r \in Seq(Items) /\ Len(r) = Len(s)
         /\ \A i \in 1 .. Len(s) : r[i] = f[s[i]].value
         /\ r = <<>> <=> s = <<>>
<1>1. \A n \in Nodes : f[n].value \in Items
  BY DEF NodeValue
<1>2. DOMAIN s = 1 .. Len(s) /\ Len(s) \in Nat
  OBVIOUS
<1>3. \A i \in 1 .. Len(s) : r[i] = f[s[i]].value /\ r[i] \in Items
  BY <1>1, <1>2
<1>4. r \in Seq(Items) /\ Len(r) = Len(s)
  <2>1. r = [i \in 1 .. Len(s) |-> r[i]]
    BY <1>2
  <2> QED  BY <1>2, <1>3, <2>1
<1> QED  BY <1>3, <1>4

LEMMA StoredFacts ==
  ASSUME Sound, NEW l \in Lists
  PROVE  /\ order[l] \in Seq(Nodes) /\ Stored(order[l]) \in Seq(Items)
         /\ Len(Stored(order[l])) = Len(order[l])
         /\ \A i \in 1 .. Len(order[l]) : Stored(order[l])[i] = node[order[l][i]].value
         /\ Stored(order[l]) = <<>> <=> order[l] = <<>>
<1>1. order[l] \in Seq(Nodes) /\ node \in [Nodes -> NodeValue]
  BY DEF Sound, TypeOK
<1> QED  BY <1>1, ItemsOf DEF Stored

LEMMA StoredNext ==
  ASSUME Sound', NEW l \in Lists
  PROVE  /\ order'[l] \in Seq(Nodes) /\ Stored(order[l])' \in Seq(Items)
         /\ Len(Stored(order[l])') = Len(order'[l])
         /\ \A i \in 1 .. Len(order'[l]) : Stored(order[l])'[i] = node'[order'[l][i]].value
         /\ Stored(order[l])' = <<>> <=> order'[l] = <<>>
<1>1. order'[l] \in Seq(Nodes) /\ node' \in [Nodes -> NodeValue]
  BY DEF Sound, TypeOK
<1> DEFINE r == Stored(order[l])'
           s == order'[l]
           f == node'
<1>2. r = [i \in DOMAIN s |-> f[s[i]].value]
  BY DEF Stored
<1>3. s \in Seq(Nodes) /\ f \in [Nodes -> NodeValue]
  BY <1>1
<1> HIDE DEF r, s, f
<1>4. /\ r \in Seq(Items) /\ Len(r) = Len(s)
      /\ \A i \in 1 .. Len(s) : r[i] = f[s[i]].value
      /\ r = <<>> <=> s = <<>>
  BY <1>2, <1>3, ItemsOf
<1> QED  BY <1>3, <1>4 DEF r, s, f

\* A list as its callers see it, when no loop is changing it.
Plain(l) == loop.kind \in {"none", "iterate"} \/ loop.to # l

LEMMA PlainVisible ==
  ASSUME NEW l \in Lists, Plain(l)
  PROVE  Visible[l] = Stored(order[l])
<1>1. ~Clearing(l) /\ ~(loop.kind = "clone" /\ loop.to = l) /\ ~(loop.kind = "concat" /\ loop.to = l)
  BY DEF Plain, Clearing, Clears
<1> QED  BY <1>1 DEF Visible

LEMMA LoopVisible ==
  ASSUME NEW l \in Lists, loop.to = l
  PROVE  /\ loop.kind \in Clears \cup {"clone"} => Visible[l] = <<>>
         /\ loop.kind = "concat" => Visible[l] = Stored(SubSeq(order[l], 1, loop.before))
<1>1. loop.kind \in Clears => Clearing(l)
  BY DEF Clearing
<1>2. loop.kind \in {"clone", "concat"} => ~Clearing(l)
  BY DEF Clearing, Clears
<1>3. Visible[l] = CASE Clearing(l)            -> <<>>
                     [] loop.kind = "clone"  -> <<>>
                     [] loop.kind = "concat" -> Stored(SubSeq(order[l], 1, loop.before))
                     [] OTHER                -> Stored(order[l])
  BY DEF Visible
<1> QED  BY <1>1, <1>2, <1>3

\* A list whose nodes are left alone stays as its callers see it.
LEMMA PlainKept ==
  ASSUME Sound, NEW k \in Lists, Plain(k), Plain(k)', order'[k] = order[k],
         \A i \in 1 .. Len(order[k]) : node'[order[k][i]].value = node[order[k][i]].value
  PROVE  Visible'[k] = Visible[k]
<1>1. Visible[k] = Stored(order[k])
  BY PlainVisible
<1>2. Visible'[k] = Stored(order[k])'
  <2>1. ~Clearing(k)' /\ ~(loop'.kind = "clone" /\ loop'.to = k)
        /\ ~(loop'.kind = "concat" /\ loop'.to = k)
    BY DEF Plain, Clearing, Clears
  <2> QED  BY <2>1 DEF Visible
<1>3. order[k] \in Seq(Nodes) /\ DOMAIN order[k] = 1 .. Len(order[k])
  BY DEF Sound, TypeOK
<1>4. Stored(order[k])' = Stored(order[k])
  BY <1>3 DEF Stored
<1> QED  BY <1>1, <1>2, <1>4

\* Two sequences of items that agree.
LEMMA SameItems ==
  ASSUME NEW S, NEW s \in Seq(S), NEW t \in Seq(S), Len(s) = Len(t),
         \A i \in 1 .. Len(s) : s[i] = t[i]
  PROVE  s = t
OBVIOUS

\* The lists their callers see differ in one.
LEMMA OneBecomes ==
  ASSUME NEW l \in Lists, \A k \in Lists : k # l => Visible'[k] = Visible[k]
  PROVE  Visible' = [Visible EXCEPT ![l] = Visible'[l]]
<1>1. Visible = [k \in Lists |-> Visible[k]] /\ Visible' = [k \in Lists |-> Visible'[k]]
  BY DEF Visible
<1> QED  BY <1>1

LEMMA AllKept ==
  ASSUME \A k \in Lists : Visible'[k] = Visible[k]
  PROVE  Visible' = Visible
<1>1. Visible = [k \in Lists |-> Visible[k]] /\ Visible' = [k \in Lists |-> Visible'[k]]
  BY DEF Visible
<1> QED  BY <1>1

\* Without a loop, all there is is seen.
LEMMA IdleFacts ==
  ASSUME Sound, Idle
  PROVE  /\ There = made /\ \A k \in Lists : Plain(k) /\ Visible[k] = Stored(order[k])
         /\ loop.kind = "none" /\ loop.kind \notin Clears /\ \A k \in Lists : ~Clearing(k)
<1>1. loop.kind = "none" /\ loop.kind \notin Clears
  BY DEF Idle, NoLoop, Clears
<1>2. \A k \in Lists : Plain(k)
  BY <1>1 DEF Plain
<1>3. \A k \in Lists : Visible[k] = Stored(order[k])
  BY <1>2, PlainVisible
<1>4. There = made
  BY <1>1 DEF There
<1> QED  BY <1>1, <1>2, <1>3, <1>4 DEF Clearing

\* After a step without a loop.
LEMMA IdleNext ==
  ASSUME loop' = NoLoop
  PROVE  /\ There' = made' /\ \A k \in Lists : Plain(k)' /\ Visible'[k] = Stored(order[k])'
<1>1. loop'.kind = "none" /\ loop'.kind \notin Clears
  BY DEF NoLoop, Clears
<1>2. \A k \in Lists : Plain(k)' /\ ~Clearing(k)'
  BY <1>1 DEF Plain, Clearing
<1>3. \A k \in Lists : Visible'[k] = Stored(order[k])'
  BY <1>1, <1>2 DEF Visible
<1>4. There' = made'
  BY <1>1 DEF There
<1> QED  BY <1>2, <1>3, <1>4

-----------------------------------------------------------------------------
(* The values of the nodes *)

\* A node that is added changes no item.
LEMMA AddedValues ==
  ASSUME Sound, NEW l \in made, NEW n \in Nodes \ live, NEW v \in Items, Added(l, n, v),
         ~Clearing(l)
  PROVE  /\ SameValues /\ node'[n].value = v
         /\ order'[l] = Append(order[l], n) /\ \A k \in Lists : k # l => order'[k] = order[k]
<1>1. TypeOK /\ l \in Lists
  BY DEF Sound, TypeOK
<1>2. n # list[l].tail
  <2>1. list[l].tail = At(order[l], Len(order[l])) /\ order[l] \in Seq(Nodes) /\ Len(order[l]) \in Int
    BY <1>1, HeadFacts DEF TypeOK
  <2>2. Len(order[l]) \in 1 .. Len(order[l]) => At(order[l], Len(order[l])) \in live
    BY <1>1, PositionFacts
  <2>3. Len(order[l]) \notin 1 .. Len(order[l]) => At(order[l], Len(order[l])) = Null
    BY DEF At
  <2> QED  BY <2>1, <2>2, <2>3, ListAssumption
<1>3. node' = [m \in Nodes |->
                CASE m = n            -> [value |-> v, prev |-> list[l].tail, next |-> Null]
                  [] m = list[l].tail -> [node[m] EXCEPT !.next = n]
                  [] OTHER            -> node[m]]
  BY DEF Added
<1>4. \A m \in Nodes : node[m] \in NodeValue
  BY <1>1 DEF TypeOK
<1>5. ASSUME NEW m \in Nodes
      PROVE  node'[m].value = IF m = n THEN v ELSE node[m].value
  <2>1. node'[m] = CASE m = n            -> [value |-> v, prev |-> list[l].tail, next |-> Null]
                     [] m = list[l].tail -> [node[m] EXCEPT !.next = n]
                     [] OTHER            -> node[m]
    BY <1>3
  <2>2. CASE m = n
    <3>1. node'[m] = [value |-> v, prev |-> list[l].tail, next |-> Null]
      BY <1>2, <2>1, <2>2
    <3> QED  BY <2>2, <3>1
  <2>3. CASE m # n /\ m = list[l].tail
    <3>1. node'[m] = [node[m] EXCEPT !.next = n]
      BY <2>1, <2>3
    <3> QED  BY <1>4, <2>3, <3>1 DEF NodeValue
  <2>4. CASE m # n /\ m # list[l].tail
    BY <2>1, <2>4
  <2> QED  BY <2>2, <2>3, <2>4
<1>6. SameValues
  <2> SUFFICES ASSUME NEW k \in Lists, NEW i \in 1 .. Len(order[k])
               PROVE  node'[order[k][i]].value = node[order[k][i]].value
    BY DEF SameValues
  <2>1. order[k][i] \in Nodes /\ order[k][i] # n
    BY PositionFacts
  <2> QED  BY <1>5, <2>1
<1>7. order' = [order EXCEPT ![l] = Append(order[l], n)]
  BY DEF Added
<1> QED  BY <1>1, <1>5, <1>6, <1>7 DEF TypeOK

LEMMA UnshiftValues ==
  ASSUME Sound, NEW l \in made, NEW n \in Nodes \ live, NEW v \in Items, list_unshift(l, n, v)
  PROVE  /\ SameValues /\ node'[n].value = v
         /\ order'[l] = <<n>> \o order[l] /\ \A k \in Lists : k # l => order'[k] = order[k]
<1>1. TypeOK /\ l \in Lists
  BY DEF Sound, TypeOK
<1>2. ~Clearing(l)
  BY <1>1, IdleFacts DEF list_unshift
<1>3. n # list[l].head
  <2>1. list[l].head = At(order[l], 1) /\ order[l] \in Seq(Nodes) /\ 1 \in Int
    BY <1>1, <1>2, HeadFacts DEF TypeOK
  <2>2. 1 \in 1 .. Len(order[l]) => At(order[l], 1) \in live
    BY <1>1, PositionFacts
  <2>3. 1 \notin 1 .. Len(order[l]) => At(order[l], 1) = Null
    BY DEF At
  <2> QED  BY <2>1, <2>2, <2>3, ListAssumption
<1>4. node' = [m \in Nodes |->
                CASE m = n            -> [value |-> v, prev |-> Null, next |-> list[l].head]
                  [] m = list[l].head -> [node[m] EXCEPT !.prev = n]
                  [] OTHER            -> node[m]]
  BY DEF list_unshift
<1>5. \A m \in Nodes : node[m] \in NodeValue
  BY <1>1 DEF TypeOK
<1>6. ASSUME NEW m \in Nodes
      PROVE  node'[m].value = IF m = n THEN v ELSE node[m].value
  <2>1. node'[m] = CASE m = n            -> [value |-> v, prev |-> Null, next |-> list[l].head]
                     [] m = list[l].head -> [node[m] EXCEPT !.prev = n]
                     [] OTHER            -> node[m]
    BY <1>4
  <2>2. CASE m = n
    <3>1. node'[m] = [value |-> v, prev |-> Null, next |-> list[l].head]
      BY <1>3, <2>1, <2>2
    <3> QED  BY <2>2, <3>1
  <2>3. CASE m # n /\ m = list[l].head
    <3>1. node'[m] = [node[m] EXCEPT !.prev = n]
      BY <2>1, <2>3
    <3> QED  BY <1>5, <2>3, <3>1 DEF NodeValue
  <2>4. CASE m # n /\ m # list[l].head
    BY <2>1, <2>4
  <2> QED  BY <2>2, <2>3, <2>4
<1>7. SameValues
  <2> SUFFICES ASSUME NEW k \in Lists, NEW i \in 1 .. Len(order[k])
               PROVE  node'[order[k][i]].value = node[order[k][i]].value
    BY DEF SameValues
  <2>1. order[k][i] \in Nodes /\ order[k][i] # n
    BY PositionFacts
  <2> QED  BY <1>6, <2>1
<1>8. order' = [order EXCEPT ![l] = <<n>> \o order[l]]
  BY DEF list_unshift
<1> QED  BY <1>1, <1>6, <1>7, <1>8 DEF TypeOK

\* A node that goes changes no item but its own.
LEMMA FreedValues ==
  ASSUME Sound, NEW l \in Lists, NEW p \in 1 .. Len(order[l]), NEW i \in Int, NEW k \in Lists,
         i \in 1 .. Len(order[k]), k # l \/ i # p,
         \A m \in Nodes : m # order[l][p] => node'[m].value = node[m].value
  PROVE  node'[order[k][i]].value = node[order[k][i]].value
<1>1. order[k][i] \in Nodes
  BY PositionFacts
<1>2. order[k][i] # order[l][p]
  <2>1. order[k][i] # At(order[l], p)
    BY Different
  <2>2. At(order[l], p) = order[l][p]
    BY DEF At
  <2> QED  BY <2>1, <2>2
<1> QED  BY <1>1, <1>2

LEMMA PopValues ==
  ASSUME Sound, NEW l \in made, list_pop(l)
  PROVE  /\ order[l] # <<>> /\ order' = [order EXCEPT ![l] = SubSeq(@, 1, Len(@) - 1)]
         /\ list[l].tail = order[l][Len(order[l])]
         /\ \A m \in Nodes : m # order[l][Len(order[l])] => node'[m].value = node[m].value
<1>1. TypeOK /\ l \in Lists /\ Idle /\ list[l].tail # Null
  BY DEF Sound, TypeOK, list_pop
<1>2. /\ list[l].tail = At(order[l], Len(order[l])) /\ order[l] # <<>>
  BY <1>1, IdleFacts, HeadFacts
<1>3. order[l] \in Seq(Nodes) /\ Len(order[l]) \in 1 .. Len(order[l])
  BY <1>1, <1>2 DEF TypeOK
<1>4. list[l].tail = order[l][Len(order[l])]
  BY <1>2, <1>3 DEF At
<1>5. \A m \in Nodes : node[m] \in NodeValue
  BY <1>1 DEF TypeOK
<1>6. \A m \in Nodes : m # list[l].tail => node'[m].value = node[m].value
  BY <1>5 DEF list_pop, NodeValue
<1> QED  BY <1>2, <1>4, <1>6 DEF list_pop

LEMMA ShiftValues ==
  ASSUME Sound, NEW l \in made, list_shift(l)
  PROVE  /\ order[l] # <<>> /\ order' = [order EXCEPT ![l] = Tail(@)]
         /\ list[l].head = order[l][1]
         /\ \A m \in Nodes : m # order[l][1] => node'[m].value = node[m].value
<1>1. TypeOK /\ l \in Lists /\ Idle /\ list[l].head # Null
  BY DEF Sound, TypeOK, list_shift
<1>2. /\ list[l].head = At(order[l], 1) /\ order[l] # <<>>
  BY <1>1, IdleFacts, HeadFacts
<1>3. order[l] \in Seq(Nodes) /\ 1 \in 1 .. Len(order[l])
  BY <1>1, <1>2 DEF TypeOK
<1>4. list[l].head = order[l][1]
  BY <1>2, <1>3 DEF At
<1>5. \A m \in Nodes : node[m] \in NodeValue
  BY <1>1 DEF TypeOK
<1>6. \A m \in Nodes : m # list[l].head => node'[m].value = node[m].value
  BY <1>5 DEF list_shift, NodeValue
<1> QED  BY <1>2, <1>4, <1>6 DEF list_shift

-----------------------------------------------------------------------------
(* The loops keep what they have done *)

\* The remainder is the only number below M at a multiple of M from a.
LEMMA ModUnique ==
  ASSUME NEW M \in Nat \ {0}, NEW a \in Nat, NEW q \in Nat,
         NEW r \in 0 .. (M - 1), a = M * q + r
  PROVE  a % M = r
BY SMT

\* i - 1 modulo b, counted from 1.
LEMMA ModPosition ==
  ASSUME NEW b \in Nat \ {0}, NEW i \in Nat \ {0}
  PROVE  /\ ((i - 1) % b) + 1 \in 1 .. b /\ ((i - 1) % b) + 1 <= i
         /\ i <= b => ((i - 1) % b) + 1 = i
         /\ ((b + i - 1) % b) + 1 = ((i - 1) % b) + 1
<1>1. /\ (i - 1) % b \in 0 .. (b - 1) /\ (i - 1) \div b \in Nat
      /\ i - 1 = b * ((i - 1) \div b) + ((i - 1) % b)
  OBVIOUS
<1>2. (i - 1) % b <= i - 1
  OBVIOUS
<1>3. i <= b => (i - 1) % b = i - 1
  OBVIOUS
<1>4. (b + i - 1) % b = (i - 1) % b
  <2> DEFINE q == (i - 1) \div b
             r == (i - 1) % b
  <2>1. r \in 0 .. (b - 1) /\ q \in Nat /\ i - 1 = b * q + r
    BY <1>1
  <2> HIDE DEF q, r
  <2>2. q + 1 \in Nat /\ b + i - 1 \in Nat /\ b + i - 1 = b * (q + 1) + r
    BY <2>1
  <2>3. (b + i - 1) % b = r
    BY <2>1, <2>2, ModUnique
  <2> QED  BY <2>3 DEF r
<1> QED  BY <1>1, <1>2, <1>3, <1>4

\* What Inv says of a loop that copies.
LEMMA CopiedFacts ==
  ASSUME Inv, loop.kind \in Copies
  PROVE  LET s == order[loop.from]
             t == order[loop.to]
             b == loop.before
             k == Len(t) - b
         IN  /\ loop.to \in made /\ loop.from \in made /\ loop.to \in Lists /\ loop.from \in Lists
             /\ s \in Seq(Nodes) /\ t \in Seq(Nodes) /\ b \in Nat /\ k \in 0 .. Len(s)
             /\ loop.at = At(s, k + 1)
             /\ \A i \in 1 .. k : node[t[b + i]].value = node[s[i]].value
             /\ loop.kind = "clone" => b = 0 /\ loop.to # loop.from
             /\ loop.from = loop.to =>
                  /\ b = 0 => t = <<>>
                  /\ \A i \in 1 .. Len(t) : node[t[i]].value = node[t[((i - 1) % b) + 1]].value
<1>1. loop.kind # "none" /\ TypeOK
  BY DEF Inv, Sound, Copies
<1>2. loop.to \in made /\ loop.from \in made /\ loop.to \in Lists /\ loop.from \in Lists
  BY <1>1 DEF Inv, Sound, LoopInside, TypeOK
<1>3. order[loop.from] \in Seq(Nodes) /\ order[loop.to] \in Seq(Nodes) /\ loop.before \in Nat
  BY <1>1, <1>2 DEF TypeOK, Loop
<1> DEFINE s == order[loop.from]
           t == order[loop.to]
           b == loop.before
           k == Len(t) - b
<1>4. /\ b <= Len(t) /\ k <= Len(s) /\ loop.at = At(s, k + 1)
      /\ \A i \in 1 .. k : node[t[b + i]].value = node[s[i]].value
      /\ loop.kind = "clone" => b = 0 /\ loop.to # loop.from
      /\ loop.from = loop.to =>
           /\ b = 0 => t = <<>>
           /\ \A i \in 1 .. Len(t) : node[t[i]].value = node[t[((i - 1) % b) + 1]].value
  BY DEF Inv, Copied
<1>5. k \in 0 .. Len(s)
  <2>1. s \in Seq(Nodes) /\ t \in Seq(Nodes) /\ b \in Nat /\ b <= Len(t)
        /\ Len(t) - b <= Len(s)
    BY <1>3, <1>4
  <2> HIDE DEF s, t, b
  <2> QED  BY <2>1
<1> HIDE DEF s, t, b, k
<1>6. s \in Seq(Nodes) /\ t \in Seq(Nodes) /\ b \in Nat
  BY <1>3 DEF s, t, b
<1> QED  BY <1>2, <1>4, <1>5, <1>6 DEF s, t, b, k

LEMMA InvInit == Init => Inv
BY InitSound DEF Init, NoLoop, Copied, Seen, Inv, Copies

\* list_concat starts with nothing copied.
LEMMA ConcatCopied ==
  ASSUME Sound, NEW l \in made, NEW m \in made, list_concat(l, m)
  PROVE  Copied' /\ Seen'
<1>1. l \in Lists /\ m \in Lists /\ TypeOK /\ Idle /\ order' = order /\ node' = node
  BY DEF Sound, TypeOK, list_concat
<1>2. loop' = Looping("concat", l, m)
  BY DEF list_concat
<1>3. /\ loop'.kind = "concat" /\ loop'.to = l /\ loop'.from = m
      /\ loop'.at = list[m].head /\ loop'.before = list[l].length
  BY <1>2 DEF Looping
<1>4. list[m].head = At(order[m], 1) /\ list[l].length = Len(order[l])
  BY <1>1, IdleFacts, HeadFacts
<1>5. order[l] \in Seq(Nodes) /\ order[m] \in Seq(Nodes)
  BY <1>1 DEF TypeOK
<1>6. Len(order[l]) \in Nat /\ Len(order[m]) \in Nat /\ (Len(order[l]) = 0 => order[l] = <<>>)
  BY <1>5
<1>7. \A i \in 1 .. Len(order[l]) : ((i - 1) % Len(order[l])) + 1 = i
  <2> TAKE i \in 1 .. Len(order[l])
  <2>1. i \in Nat \ {0} /\ Len(order[l]) \in Nat \ {0} /\ i <= Len(order[l])
    BY <1>6
  <2> QED  BY <2>1, ModPosition
<1>8. loop'.at = At(order[m], 1)'
  BY <1>1, <1>3, <1>4 DEF At
<1>9. Copied'
  <2>1. /\ loop'.before <= Len(order'[l]) /\ Len(order'[l]) - loop'.before = 0
        /\ 0 <= Len(order'[m])
    BY <1>1, <1>3, <1>4, <1>6
  <2>2. \A i \in 1 .. Len(order'[l]) :
          node'[order'[l][i]].value = node'[order'[l][((i - 1) % loop'.before) + 1]].value
    BY <1>1, <1>3, <1>4, <1>7, SMTT(20)
  <2>3. loop'.before = 0 => order'[l] = <<>>
    BY <1>1, <1>3, <1>4, <1>6
  <2> QED  BY <1>3, <1>8, <2>1, <2>2, <2>3 DEF Copied
<1> QED  BY <1>3, <1>9 DEF Seen

\* So does list_clone.
LEMMA CloneCopied ==
  ASSUME Sound, NEW l \in made, NEW m \in Lists \ made, list_clone(l, m)
  PROVE  /\ Copied' /\ Seen'
         /\ loop'.kind = "clone" /\ loop'.to = m /\ order[m] = <<>> /\ l # m
<1>1. l \in Lists /\ TypeOK /\ Idle /\ order' = order /\ node' = node /\ l # m
  BY DEF Sound, TypeOK, list_clone
<1>2. loop' = [Looping("clone", m, l) EXCEPT !.before = 0]
  BY DEF list_clone
<1>3. /\ loop'.kind = "clone" /\ loop'.to = m /\ loop'.from = l
      /\ loop'.at = list[l].head /\ loop'.before = 0
  BY <1>2 DEF Looping
<1>4. list[l].head = At(order[l], 1)
  BY <1>1, IdleFacts, HeadFacts
<1>5. order[m] = <<>>
  BY MadeFacts
<1>6. Len(order[m]) = 0 /\ Len(order[l]) \in Nat
  BY <1>1, <1>5 DEF TypeOK
<1>7. loop'.at = At(order[l], 1)'
  BY <1>1, <1>3, <1>4 DEF At
<1>8. Copied'
  <2>1. /\ loop'.before <= Len(order'[m]) /\ Len(order'[m]) - loop'.before = 0
        /\ 0 <= Len(order'[l])
    BY <1>1, <1>3, <1>6
  <2> QED  BY <1>1, <1>3, <1>7, <2>1 DEF Copied
<1> QED  BY <1>1, <1>3, <1>5, <1>8 DEF Seen

\* The next node in the chain after a step.
LEMMA ChainedNext ==
  ASSUME Sound', NEW l \in Lists
  PROVE  \A i \in 1 .. Len(order'[l]) : node'[order'[l][i]].next = At(order'[l], i + 1)
BY DEF Sound, Chained, At

\* So does list_push of one item more.
LEMMA CopyNodeCopied ==
  ASSUME Inv, Sound', NEW n \in Nodes \ live, CopyNode(n)
  PROVE  /\ Copied' /\ Seen' /\ SameValues /\ loop.kind \in Copies
         /\ loop'.kind = loop.kind /\ loop'.to = loop.to /\ loop'.before = loop.before
         /\ order'[loop.to] = Append(order[loop.to], n)
         /\ \A j \in Lists : j # loop.to => order'[j] = order[j]
<1> DEFINE f == loop.from
           l == loop.to
           s == order[f]
           t == order[l]
           b == loop.before
           k == Len(t) - b
           v == node[loop.at].value
           S == order'[f]
           T == order'[l]
<1>1. /\ loop.kind \in Copies /\ loop.at # Null /\ made' = made /\ Added(l, n, v)
      /\ loop' = [loop EXCEPT !.at = node'[loop.at].next]
  BY DEF CopyNode
<1>2. Sound /\ TypeOK /\ loop \in Loop
  BY DEF Inv, Sound, TypeOK
<1>3. /\ l \in made /\ f \in made /\ l \in Lists /\ f \in Lists
      /\ s \in Seq(Nodes) /\ t \in Seq(Nodes) /\ b \in Nat /\ k \in 0 .. Len(s)
      /\ loop.at = At(s, k + 1)
      /\ \A i \in 1 .. k : node[t[b + i]].value = node[s[i]].value
      /\ loop.kind = "clone" => b = 0 /\ l # f
      /\ f = l =>
           /\ b = 0 => t = <<>>
           /\ \A i \in 1 .. Len(t) : node[t[i]].value = node[t[((i - 1) % b) + 1]].value
  BY <1>1, CopiedFacts
<1>4. /\ loop'.kind = loop.kind /\ loop'.to = l /\ loop'.from = f /\ loop'.before = b
      /\ loop'.at = node'[loop.at].next
  BY <1>1, <1>2 DEF Loop
<1>5. k + 1 \in 1 .. Len(s) /\ loop.at = s[k + 1] /\ loop.at \in Nodes
  <2> HIDE DEF s, k
  <2>1. s \in Seq(Nodes) /\ k + 1 \in Int /\ At(s, k + 1) # Null /\ loop.at = At(s, k + 1)
    BY <1>1, <1>3
  <2> QED  BY <2>1, AtFacts
<1>6. v \in Items
  BY <1>2, <1>5 DEF TypeOK, NodeValue
<1>7. ~Clearing(l)
  BY <1>1 DEF Clearing, Copies, Clears
<1> HIDE DEF f, l, v
<1>8. /\ SameValues /\ node'[n].value = v
      /\ T = Append(t, n) /\ \A j \in Lists : j # l => order'[j] = order[j]
  BY <1>1, <1>2, <1>3, <1>6, <1>7, AddedValues
<1>9. /\ Len(T) = Len(t) + 1 /\ T[Len(t) + 1] = n /\ Len(t) \in Nat
      /\ \A i \in 1 .. Len(t) : T[i] = t[i]
  BY <1>3, <1>8
<1>10. /\ Len(s) \in Nat /\ Len(S) >= Len(s) /\ Len(S) \in Nat
       /\ \A i \in 1 .. Len(s) : S[i] = s[i]
  <2>1. CASE f = l
    BY <1>9, <2>1
  <2>2. CASE f # l
    BY <1>3, <1>8, <2>2
  <2> QED  BY <2>1, <2>2
<1>11. \A i \in 1 .. Len(t) : node'[t[i]].value = node[t[i]].value
  BY <1>3, <1>8 DEF SameValues
<1>12. \A i \in 1 .. Len(s) : node'[s[i]].value = node[s[i]].value
  BY <1>3, <1>8 DEF SameValues
<1>13. v = node[s[k + 1]].value
  BY <1>5 DEF v
<1> HIDE DEF s, t, b, S, T
<1>14. loop'.at = At(S, k + 2)
  <2>1. k + 1 \in 1 .. Len(S) /\ S[k + 1] = loop.at
    BY <1>5, <1>10
  <2>2. \A i \in 1 .. Len(S) : node'[S[i]].next = At(S, i + 1)
    BY <1>3, ChainedNext DEF S
  <2>3. (k + 1) + 1 = k + 2
    BY <1>3
  <2> QED  BY <1>4, <2>1, <2>2, <2>3
<1>15. /\ b <= Len(T) /\ Len(T) - b = k + 1 /\ k + 1 <= Len(S) /\ (Len(T) - b) + 1 = k + 2
  BY <1>3, <1>5, <1>9, <1>10
<1>16. ASSUME NEW i \in 1 .. (Len(T) - b)
       PROVE  node'[T[b + i]].value = node'[S[i]].value
  <2>1. i \in 1 .. (k + 1) /\ i \in 1 .. Len(s) /\ S[i] = s[i]
    BY <1>5, <1>10, <1>15
  <2>2. node'[S[i]].value = node[s[i]].value
    BY <1>12, <2>1
  <2>3. CASE i = k + 1
    <3>1. b + i = Len(t) + 1
      BY <1>3, <1>9, <2>3
    <3>2. T[b + i] = n
      BY <1>9, <3>1
    <3> QED  BY <1>8, <1>13, <2>2, <2>3, <3>2
  <2>4. CASE i # k + 1
    <3>1. i \in 1 .. k /\ b + i \in 1 .. Len(t)
      BY <1>3, <1>9, <2>1, <2>4
    <3>2. T[b + i] = t[b + i] /\ node'[t[b + i]].value = node[t[b + i]].value
      BY <1>9, <1>11, <3>1
    <3>3. node[t[b + i]].value = node[s[i]].value
      BY <1>3, <3>1
    <3> QED  BY <2>2, <3>2, <3>3
  <2> QED  BY <2>3, <2>4
<1>17. f = l => b # 0
  <2>1. f = l /\ b = 0 => Len(s) = 0
    BY <1>3 DEF s, t
  <2> QED  BY <1>5, <1>10, <2>1
<1>18. ASSUME f = l, NEW i \in 1 .. Len(T)
       PROVE  node'[T[i]].value = node'[T[((i - 1) % b) + 1]].value
  <2> DEFINE j == ((i - 1) % b) + 1
  <2>1. b \in Nat \ {0} /\ i \in Nat \ {0}
    BY <1>3, <1>9, <1>17, <1>18
  <2>2. j \in 1 .. b
    BY <2>1, ModPosition
  <2>3. b <= Len(t)
    BY <1>3, <1>9
  <2> HIDE DEF j
  <2>4. j \in 1 .. Len(t) /\ T[j] = t[j] /\ node'[T[j]].value = node[t[j]].value
    BY <1>9, <1>11, <2>1, <2>2, <2>3
  <2>5. CASE i \in 1 .. Len(t)
    <3>1. node[t[i]].value = node[t[j]].value
      BY <1>3, <1>18, <2>5 DEF j
    <3>2. node'[T[i]].value = node[t[i]].value
      BY <1>9, <1>11, <2>5
    <3> QED  BY <2>4, <3>1, <3>2 DEF j
  <2>6. CASE i = Len(t) + 1
    <3>1. i = b + (k + 1) /\ k + 1 \in Nat \ {0} /\ i - 1 = b + (k + 1) - 1
      BY <1>3, <1>9, <2>6
    <3>2. j = (((k + 1) - 1) % b) + 1
      <4> HIDE DEF k
      <4>1. ((b + (k + 1) - 1) % b) + 1 = (((k + 1) - 1) % b) + 1
        BY <2>1, <3>1, ModPosition
      <4> QED  BY <3>1, <4>1 DEF j
    <3>3. s = t /\ k + 1 \in 1 .. Len(t)
      BY <1>5, <1>18 DEF s, t
    <3>4. node[t[k + 1]].value = node[t[j]].value
      BY <1>3, <1>18, <3>2, <3>3
    <3>5. node'[T[i]].value = node[t[k + 1]].value
      BY <1>8, <1>9, <1>13, <2>6, <3>3
    <3> QED  BY <2>4, <3>4, <3>5 DEF j
  <2> QED  BY <1>9, <2>5, <2>6
<1>19. Copied'
  <2>1. /\ loop'.before <= Len(T) /\ Len(T) - loop'.before <= Len(S)
        /\ loop'.at = At(S, (Len(T) - loop'.before) + 1)
        /\ \A i \in 1 .. (Len(T) - loop'.before) :
             node'[T[loop'.before + i]].value = node'[S[i]].value
        /\ loop'.kind = "clone" => loop'.before = 0 /\ loop'.to # loop'.from
        /\ loop'.from = loop'.to =>
             /\ loop'.before # 0
             /\ \A i \in 1 .. Len(T) :
                  node'[T[i]].value = node'[T[((i - 1) % loop'.before) + 1]].value
    BY <1>3, <1>4, <1>14, <1>15, <1>16, <1>17, <1>18
  <2>2. At(S, (Len(T) - loop'.before) + 1)
          = At(order[loop.from], (Len(order[loop.to]) - loop.before) + 1)'
    BY <1>4 DEF At, S, T
  <2> HIDE DEF k
  <2> QED  BY <1>4, <2>1, <2>2 DEF Copied, S, T
<1>20. Seen'
  BY <1>1, <1>4 DEF Seen, Copies
<1> QED  BY <1>1, <1>4, <1>8, <1>19, <1>20 DEF l, b, t, T

\* What Inv says of a loop with an iterator.
LEMMA SeenFacts ==
  ASSUME Inv, loop.kind = "iterate"
  PROVE  LET s == order[loop.from]
             k == Len(loop.seen)
         IN  /\ loop.from \in made /\ loop.from \in Lists /\ s \in Seq(Nodes)
             /\ loop.seen \in Seq(Items) /\ k \in 0 .. Len(s) /\ loop.at = At(s, k + 1)
             /\ \A i \in 1 .. k : loop.seen[i] = node[s[i]].value /\ loop.seen[i] # NoItem
<1>1. TypeOK /\ loop \in Loop /\ loop.from \in made /\ loop.from \in Lists
  BY DEF Inv, Sound, LoopInside, TypeOK
<1>2. order[loop.from] \in Seq(Nodes) /\ loop.seen \in Seq(Items)
  BY <1>1 DEF TypeOK, Loop
<1>3. Len(loop.seen) \in Nat /\ Len(order[loop.from]) \in Nat
  BY <1>2
<1> QED  BY <1>1, <1>2, <1>3 DEF Inv, Seen

\* list_iterator starts with nothing returned.
LEMMA IterateSeen ==
  ASSUME Sound, NEW l \in made, list_iterator(l)
  PROVE  Copied' /\ Seen'
<1>1. l \in Lists /\ TypeOK /\ Idle /\ order' = order /\ node' = node
  BY DEF Sound, TypeOK, list_iterator
<1>2. /\ loop'.kind = "iterate" /\ loop'.from = l /\ loop'.at = list[l].head
      /\ loop'.seen = <<>> /\ Len(loop'.seen) = 0
  BY DEF list_iterator, Looping
<1>3. list[l].head = At(order[l], 1)
  BY <1>1, IdleFacts, HeadFacts
<1>4. Len(order[l]) \in Nat
  BY <1>1 DEF TypeOK
<1>5. loop'.at = At(order[l], 1)'
  BY <1>1, <1>2, <1>3 DEF At
<1>6. 0 <= Len(order'[l]) /\ Len(loop'.seen) + 1 = 1
  BY <1>1, <1>2, <1>4
<1>7. Seen'
  BY <1>2, <1>5, <1>6 DEF Seen
<1> QED  BY <1>2, <1>7 DEF Copied, Copies

\* list_next_node returns the next item.
LEMMA NextNodeSeen ==
  ASSUME Inv, list_next_node
  PROVE  Copied' /\ Seen' /\ loop'.kind = "iterate" /\ loop'.to = loop.to
<1> DEFINE s == order[loop.from]
           k == Len(loop.seen)
<1>1. /\ loop.kind = "iterate" /\ loop.at # Null /\ node[loop.at].value # NoItem
      /\ loop' = [loop EXCEPT !.at = node[loop.at].next,
                             !.index = IF loop.seen = <<>> THEN @ ELSE @ + 1,
                             !.seen = Append(@, node[loop.at].value)]
      /\ order' = order /\ node' = node
  BY DEF list_next_node, Current
<1>2. loop \in Loop /\ Sound
  BY DEF Inv, Sound, TypeOK
<1>3. /\ loop'.kind = "iterate" /\ loop'.to = loop.to /\ loop'.from = loop.from
      /\ loop'.at = node[loop.at].next
      /\ loop'.seen = Append(loop.seen, node[loop.at].value)
  BY <1>1, <1>2 DEF Loop
<1>4. /\ loop.from \in Lists /\ s \in Seq(Nodes)
      /\ loop.seen \in Seq(Items) /\ k \in 0 .. Len(s) /\ loop.at = At(s, k + 1)
      /\ \A i \in 1 .. k : loop.seen[i] = node[s[i]].value /\ loop.seen[i] # NoItem
  BY <1>1, SeenFacts
<1>5. k + 1 \in 1 .. Len(s) /\ loop.at = s[k + 1]
  <2> HIDE DEF s, k
  <2>1. s \in Seq(Nodes) /\ k + 1 \in Int /\ At(s, k + 1) # Null /\ loop.at = At(s, k + 1)
    BY <1>1, <1>4
  <2> QED  BY <2>1, AtFacts
<1>6. node[loop.at].next = At(s, k + 2) /\ node[loop.at].value \in Items
  <2>1. loop.at \in Nodes /\ node[s[k + 1]].next = At(s, (k + 1) + 1)
    BY <1>2, <1>4, <1>5, PositionFacts
  <2>2. (k + 1) + 1 = k + 2
    BY <1>4
  <2> QED  BY <1>2, <1>5, <2>1, <2>2 DEF Sound, TypeOK, NodeValue
<1>7. /\ Len(loop'.seen) = k + 1 /\ loop'.seen[k + 1] = node[loop.at].value
      /\ \A i \in 1 .. k : loop'.seen[i] = loop.seen[i]
  BY <1>3, <1>4, <1>6, AppendProperties
<1>8. Len(loop'.seen) <= Len(s) /\ Len(loop'.seen) + 1 = k + 2
  BY <1>4, <1>5, <1>7
<1>9. ASSUME NEW i \in 1 .. Len(loop'.seen)
      PROVE  loop'.seen[i] = node[s[i]].value /\ loop'.seen[i] # NoItem
  <2>1. CASE i = k + 1
    BY <1>1, <1>5, <1>7, <2>1
  <2>2. CASE i # k + 1
    <3>1. i \in 1 .. k
      BY <1>4, <1>7, <2>2
    <3> QED  BY <1>4, <1>7, <3>1
  <2> QED  BY <2>1, <2>2
<1>10. Seen'
  <2>1. At(s, k + 2) = At(order[loop.from], Len(loop.seen) + 1)'
    BY <1>1, <1>3, <1>8 DEF At
  <2> QED  BY <1>1, <1>3, <1>6, <1>8, <1>9, <2>1 DEF Seen
<1> QED  BY <1>3, <1>10 DEF Copied, Copies

\* What the loops have done is kept by any step.
LEMMA NextInv == Inv /\ [Next]_vars => Inv'
<1> SUFFICES ASSUME Inv, [Next]_vars PROVE Copied' /\ Seen'
  BY NextSound DEF Inv
<1>1. Sound /\ Sound' /\ (Idle => loop.kind = "none")
  BY NextSound DEF Inv, Idle, NoLoop
<1>2. ASSUME loop'.kind \notin Copies \cup {"iterate"} PROVE Copied' /\ Seen'
  BY <1>2 DEF Copied, Seen
<1>3. ASSUME Idle, loop' = loop PROVE Copied' /\ Seen'
  BY <1>1, <1>2, <1>3 DEF Copies
<1>4. ASSUME loop' = NoLoop PROVE Copied' /\ Seen'
  BY <1>2, <1>4 DEF NoLoop, Copies
<1>5. CASE NoMemory
  BY <1>3, <1>5 DEF NoMemory
<1>6. ASSUME NEW n \in Nodes \ live, CopyNode(n) PROVE Copied' /\ Seen'
  BY <1>1, <1>6, CopyNodeCopied
<1>7. CASE CopyFails
  <2>1. loop' = NoLoop \/ loop'.kind = "undo"
    BY <1>7 DEF CopyFails, Looping
  <2> QED  BY <1>2, <1>4, <2>1 DEF Copies
<1>8. CASE CopyEnds \/ ClearEnds \/ IterationEnds
  BY <1>4, <1>8 DEF CopyEnds, ClearEnds, IterationEnds
<1>9. CASE ClearNode
  <2>1. loop \in Loop /\ loop.kind \in Clears
    BY <1>1, <1>9 DEF Sound, TypeOK, ClearNode
  <2>2. loop'.kind = loop.kind
    BY <1>9, <2>1 DEF ClearNode, Loop
  <2> QED  BY <1>2, <2>1, <2>2 DEF Clears, Copies
<1>10. CASE list_next_node
  BY <1>10, NextNodeSeen
<1>11. ASSUME NEW l \in Lists, list_create(l) PROVE Copied' /\ Seen'
  BY <1>3, <1>11 DEF list_create
<1>12. ASSUME NEW l \in made, Ends(l) PROVE Copied' /\ Seen'
  <2>1. Idle /\ loop' = loop
    BY <1>12 DEF Ends, Nothing, list_pop, list_shift, list_first, list_empty, list_push,
                 list_unshift
  <2> QED  BY <1>3, <2>1
<1>13. ASSUME NEW l \in made, NEW kind \in {"clear", "destroy"}, list_clear(kind, l)
       PROVE  Copied' /\ Seen'
  <2>1. loop'.kind = kind
    BY <1>13 DEF list_clear, Looping
  <2> QED  BY <1>2, <2>1 DEF Copies
<1>14. ASSUME NEW l \in made, list_iterator(l) PROVE Copied' /\ Seen'
  BY <1>1, <1>14, IterateSeen
<1>15. ASSUME NEW l \in made, NEW m \in made, list_concat(l, m) PROVE Copied' /\ Seen'
  BY <1>1, <1>15, ConcatCopied
<1>16. ASSUME NEW l \in made, NEW m \in Lists \ made, list_clone(l, m) PROVE Copied' /\ Seen'
  BY <1>1, <1>16, CloneCopied
<1>17. CASE UNCHANGED vars
  <2>1. loop' = loop /\ order' = order /\ node' = node
    BY <1>17 DEF vars
  <2> QED  BY <2>1 DEF Inv, Copied, Seen, At
<1>18. CASE LoopStep
  BY <1>6, <1>7, <1>8, <1>9, <1>10, <1>18 DEF LoopStep
<1> QED
  BY <1>5, <1>11, <1>12, <1>13, <1>14, <1>15, <1>16, <1>17, <1>18 DEF Next

-----------------------------------------------------------------------------
(* Every step is one of ItemLists, or changes nothing its callers see *)

AStep == [Abstract!Next]_<<There, Visible, answer>>

\* What callers see is not changed.
LEMMA Stutters ==
  ASSUME There' = There, Visible' = Visible, answer' = answer
  PROVE  AStep
BY DEF AStep

\* A call that only answers.
LEMMA OnlyAnswers ==
  ASSUME Sound, Idle, UNCHANGED <<made, node, loop, order>>
  PROVE  There' = There /\ Visible' = Visible
<1>1. There' = There
  BY DEF There
<1>2. \A k \in Lists : Visible'[k] = Visible[k]
  <2> TAKE k \in Lists
  <2>1. Plain(k) /\ Plain(k)'
    BY IdleFacts DEF Plain
  <2> QED  BY <2>1, PlainKept
<1> QED  BY <1>1, <1>2, AllKept

\* A call that changes one list.
LEMMA OneChanged ==
  ASSUME Sound, Sound', Idle, loop' = loop, made' = made, NEW l \in Lists, NEW r \in Seq(Items),
         Len(order'[l]) = Len(r),
         \A i \in 1 .. Len(r) : node'[order'[l][i]].value = r[i],
         \A k \in Lists : k # l =>
           /\ order'[k] = order[k]
           /\ \A i \in 1 .. Len(order[k]) : node'[order[k][i]].value = node[order[k][i]].value
  PROVE  There' = There /\ Visible' = [Visible EXCEPT ![l] = r]
<1>1. loop' = NoLoop
  BY DEF Idle
<1>2. There' = There
  BY <1>1, IdleFacts, IdleNext
<1>3. ASSUME NEW k \in Lists, k # l PROVE Visible'[k] = Visible[k]
  <2>1. Plain(k) /\ Plain(k)'
    BY <1>1, IdleFacts, IdleNext
  <2> QED  BY <1>3, <2>1, PlainKept
<1>4. Visible'[l] = r
  <2> DEFINE q == Stored(order[l])'
  <2>1. Visible'[l] = q
    BY <1>1, IdleNext
  <2>2. /\ q \in Seq(Items) /\ Len(q) = Len(order'[l])
        /\ \A i \in 1 .. Len(order'[l]) : q[i] = node'[order'[l][i]].value
    BY StoredNext
  <2> HIDE DEF q
  <2>3. \A i \in 1 .. Len(q) : q[i] = r[i]
    BY <2>2
  <2>4. q = r
    BY <2>2, <2>3, SameItems
  <2> QED  BY <2>1, <2>4
<1> QED  BY <1>2, <1>3, <1>4, OneBecomes

LEMMA PrependFacts ==
  ASSUME NEW S, NEW s \in Seq(S), NEW x \in S
  PROVE  /\ <<x>> \o s \in Seq(S) /\ Len(<<x>> \o s) = Len(s) + 1 /\ (<<x>> \o s)[1] = x
         /\ \A i \in 1 .. Len(s) : (<<x>> \o s)[i + 1] = s[i]
OBVIOUS

LEMMA PushRefines ==
  ASSUME Sound, Sound', NEW l \in made, NEW n \in Nodes \ live, NEW v \in Items,
         list_push(l, n, v)
  PROVE  AStep
<1> DEFINE s == order[l]
           r == Append(Visible[l], v)
<1>1. /\ l \in Lists /\ Idle /\ loop' = loop /\ made' = made /\ answer' = <<TRUE>>
      /\ Added(l, n, v)
  BY DEF Sound, TypeOK, list_push
<1>2. l \in There /\ Visible[l] = Stored(s) /\ ~Clearing(l)
  BY <1>1, IdleFacts
<1>3. /\ s \in Seq(Nodes) /\ Stored(s) \in Seq(Items) /\ Len(Stored(s)) = Len(s)
      /\ \A i \in 1 .. Len(s) : Stored(s)[i] = node[s[i]].value
  BY <1>1, StoredFacts
<1>4. /\ SameValues /\ node'[n].value = v
      /\ order'[l] = Append(s, n) /\ \A k \in Lists : k # l => order'[k] = order[k]
  BY <1>1, <1>2, AddedValues
<1>5. /\ r \in Seq(Items) /\ Len(r) = Len(s) + 1 /\ r[Len(s) + 1] = v
      /\ \A i \in 1 .. Len(s) : r[i] = Stored(s)[i]
  BY <1>2, <1>3, AppendProperties
<1>6. /\ Len(order'[l]) = Len(s) + 1 /\ order'[l][Len(s) + 1] = n
      /\ \A i \in 1 .. Len(s) : order'[l][i] = s[i]
  BY <1>3, <1>4, AppendProperties
<1> HIDE DEF r
<1>7. \A i \in 1 .. Len(r) : node'[order'[l][i]].value = r[i]
  <2> TAKE i \in 1 .. Len(r)
  <2>1. CASE i = Len(s) + 1
    BY <1>4, <1>5, <1>6, <2>1
  <2>2. CASE i # Len(s) + 1
    <3>1. i \in 1 .. Len(s)
      BY <1>3, <1>5, <2>2
    <3>2. node'[s[i]].value = node[s[i]].value
      BY <1>1, <1>4, <3>1 DEF SameValues
    <3> QED  BY <1>3, <1>5, <1>6, <3>1, <3>2
  <2> QED  BY <2>1, <2>2
<1>8. There' = There /\ Visible' = [Visible EXCEPT ![l] = r]
  BY <1>1, <1>4, <1>5, <1>6, <1>7, OneChanged DEF SameValues
<1>9. Abstract!Push(l, v)
  BY <1>1, <1>8 DEF Abstract!Push, Abstract!Become, r
<1> QED  BY <1>2, <1>9 DEF AStep, Abstract!Next

LEMMA UnshiftRefines ==
  ASSUME Sound, Sound', NEW l \in made, NEW n \in Nodes \ live, NEW v \in Items,
         list_unshift(l, n, v)
  PROVE  AStep
<1> DEFINE s == order[l]
           r == <<v>> \o Visible[l]
<1>1. l \in Lists /\ Idle /\ loop' = loop /\ made' = made /\ answer' = <<TRUE>>
  BY DEF Sound, TypeOK, list_unshift
<1>2. l \in There /\ Visible[l] = Stored(s)
  BY <1>1, IdleFacts
<1>3. /\ s \in Seq(Nodes) /\ Stored(s) \in Seq(Items) /\ Len(Stored(s)) = Len(s)
      /\ \A i \in 1 .. Len(s) : Stored(s)[i] = node[s[i]].value
  BY <1>1, StoredFacts
<1>4. /\ SameValues /\ node'[n].value = v
      /\ order'[l] = <<n>> \o s /\ \A k \in Lists : k # l => order'[k] = order[k]
  BY UnshiftValues
<1>5. /\ r \in Seq(Items) /\ Len(r) = Len(s) + 1 /\ r[1] = v
      /\ \A i \in 1 .. Len(s) : r[i + 1] = Stored(s)[i]
  BY <1>2, <1>3, PrependFacts
<1>6. /\ Len(order'[l]) = Len(s) + 1 /\ order'[l][1] = n
      /\ \A i \in 1 .. Len(s) : order'[l][i + 1] = s[i]
  BY <1>3, <1>4, PrependFacts
<1> HIDE DEF r
<1>7. \A i \in 1 .. Len(r) : node'[order'[l][i]].value = r[i]
  <2> TAKE i \in 1 .. Len(r)
  <2>1. CASE i = 1
    BY <1>4, <1>5, <1>6, <2>1
  <2>2. CASE i # 1
    <3>1. PICK j \in 1 .. Len(s) : i = j + 1
      <4>1. i - 1 \in 1 .. Len(s) /\ i = (i - 1) + 1
        BY <1>3, <1>5, <2>2
      <4> QED  BY <4>1
    <3>2. node'[s[j]].value = node[s[j]].value
      BY <1>1, <1>4 DEF SameValues
    <3> QED  BY <1>3, <1>5, <1>6, <3>1, <3>2
  <2> QED  BY <2>1, <2>2
<1>8. There' = There /\ Visible' = [Visible EXCEPT ![l] = r]
  BY <1>1, <1>4, <1>5, <1>6, <1>7, OneChanged DEF SameValues
<1>9. Abstract!Unshift(l, v)
  BY <1>1, <1>8 DEF Abstract!Unshift, Abstract!Become, r
<1> QED  BY <1>2, <1>9 DEF AStep, Abstract!Next

LEMMA PopRefines ==
  ASSUME Sound, Sound', NEW l \in made, list_pop(l)
  PROVE  AStep
<1> DEFINE s == order[l]
           q == Stored(s)
           r == SubSeq(q, 1, Len(q) - 1)
           p == Len(s)
<1>1. /\ l \in Lists /\ Idle /\ loop' = loop /\ made' = made
      /\ answer' = <<node[list[l].tail].value>>
  BY DEF Sound, TypeOK, list_pop
<1>2. l \in There /\ Visible[l] = q
  BY <1>1, IdleFacts
<1>3. /\ s \in Seq(Nodes) /\ q \in Seq(Items) /\ Len(q) = Len(s)
      /\ \A i \in 1 .. Len(s) : q[i] = node[s[i]].value
      /\ q = <<>> <=> s = <<>>
  BY <1>1, StoredFacts
<1>4. /\ s # <<>> /\ order' = [order EXCEPT ![l] = SubSeq(s, 1, Len(s) - 1)]
      /\ list[l].tail = s[Len(s)]
      /\ \A m \in Nodes : m # s[Len(s)] => node'[m].value = node[m].value
  BY PopValues
<1>5. order \in [Lists -> Seq(Nodes)]
  BY DEF Sound, TypeOK
<1>6. order'[l] = SubSeq(s, 1, Len(s) - 1) /\ \A k \in Lists : k # l => order'[k] = order[k]
  BY <1>1, <1>4, <1>5
<1>7. p \in 1 .. Len(s) /\ p \in Nat
  BY <1>3, <1>4
<1>8. \A k \in Lists, i \in Int : i \in 1 .. Len(order[k]) /\ (k # l \/ i # p) =>
        node'[order[k][i]].value = node[order[k][i]].value
  BY <1>1, <1>4, <1>7, FreedValues
<1> HIDE DEF q
<1>9. Len(r) = p - 1 /\ r \in Seq(Items) /\ \A i \in 1 .. (p - 1) : r[i] = q[i]
  <2>1. Len(q) - 1 \in 0 .. Len(q) /\ Len(q) - 1 = p - 1
    BY <1>3, <1>7
  <2> QED  BY <1>3, <2>1, <1>7, SubSeqProperties
<1> HIDE DEF s
<1>10. Len(order'[l]) = p - 1 /\ \A i \in 1 .. (p - 1) : order'[l][i] = s[i]
  <2>1. Len(s) - 1 \in 0 .. Len(s) /\ Len(s) - 1 = p - 1
    BY <1>7
  <2> QED  BY <1>3, <1>6, <2>1, <1>7, SubSeqProperties
<1> HIDE DEF r, p
<1>11. \A i \in 1 .. Len(r) : node'[order'[l][i]].value = r[i]
  <2> TAKE i \in 1 .. Len(r)
  <2>1. i \in 1 .. (p - 1) /\ i \in 1 .. Len(s) /\ i # p
    BY <1>7, <1>9
  <2>2. node'[s[i]].value = node[s[i]].value
    BY <1>1, <1>8, <2>1 DEF s
  <2> QED  BY <1>3, <1>9, <1>10, <2>1, <2>2
<1>12. There' = There /\ Visible' = [Visible EXCEPT ![l] = r]
  <2>1. \A k \in Lists : k # l =>
          /\ order'[k] = order[k]
          /\ \A i \in 1 .. Len(order[k]) : node'[order[k][i]].value = node[order[k][i]].value
    BY <1>6, <1>8
  <2>2. Len(order'[l]) = Len(r)
    BY <1>9, <1>10
  <2> QED  BY <1>1, <1>9, <1>11, <2>1, <2>2, OneChanged
<1>13. answer' = <<q[Len(q)]>> /\ q # <<>>
  BY <1>1, <1>3, <1>4, <1>7 DEF p
<1>14. Abstract!Pop(l)
  BY <1>2, <1>12, <1>13 DEF Abstract!Pop, Abstract!Become, Abstract!Front, r
<1> QED  BY <1>2, <1>14 DEF AStep, Abstract!Next

LEMMA ShiftRefines ==
  ASSUME Sound, Sound', NEW l \in made, list_shift(l)
  PROVE  AStep
<1> DEFINE s == order[l]
           q == Stored(s)
           r == Tail(q)
<1>1. /\ l \in Lists /\ Idle /\ loop' = loop /\ made' = made
      /\ answer' = <<node[list[l].head].value>>
  BY DEF Sound, TypeOK, list_shift
<1>2. l \in There /\ Visible[l] = q
  BY <1>1, IdleFacts
<1>3. /\ s \in Seq(Nodes) /\ q \in Seq(Items) /\ Len(q) = Len(s)
      /\ \A i \in 1 .. Len(s) : q[i] = node[s[i]].value
      /\ q = <<>> <=> s = <<>>
  BY <1>1, StoredFacts
<1>4. /\ s # <<>> /\ order' = [order EXCEPT ![l] = Tail(s)]
      /\ list[l].head = s[1]
      /\ \A m \in Nodes : m # s[1] => node'[m].value = node[m].value
  BY ShiftValues
<1>5. order \in [Lists -> Seq(Nodes)]
  BY DEF Sound, TypeOK
<1>6. order'[l] = Tail(s) /\ \A k \in Lists : k # l => order'[k] = order[k]
  BY <1>1, <1>4, <1>5
<1>7. 1 \in 1 .. Len(s) /\ Len(s) \in Nat
  BY <1>3, <1>4
<1>8. \A k \in Lists, i \in Int : i \in 1 .. Len(order[k]) /\ (k # l \/ i # 1) =>
        node'[order[k][i]].value = node[order[k][i]].value
  BY <1>1, <1>4, <1>7, FreedValues
<1> HIDE DEF q
<1>9. Len(r) = Len(s) - 1 /\ r \in Seq(Items) /\ \A i \in 1 .. (Len(s) - 1) : r[i] = q[i + 1]
  BY <1>3, <1>4
<1> HIDE DEF s
<1>10. Len(order'[l]) = Len(s) - 1 /\ \A i \in 1 .. (Len(s) - 1) : order'[l][i] = s[i + 1]
  BY <1>3, <1>4, <1>6
<1> HIDE DEF r
<1>11. \A i \in 1 .. Len(r) : node'[order'[l][i]].value = r[i]
  <2> TAKE i \in 1 .. Len(r)
  <2>1. i \in 1 .. (Len(s) - 1) /\ i + 1 \in 1 .. Len(s) /\ i + 1 # 1
    BY <1>7, <1>9
  <2>2. node'[s[i + 1]].value = node[s[i + 1]].value
    BY <1>1, <1>8, <2>1 DEF s
  <2> QED  BY <1>3, <1>9, <1>10, <2>1, <2>2
<1>12. There' = There /\ Visible' = [Visible EXCEPT ![l] = r]
  <2>1. \A k \in Lists : k # l =>
          /\ order'[k] = order[k]
          /\ \A i \in 1 .. Len(order[k]) : node'[order[k][i]].value = node[order[k][i]].value
    BY <1>6, <1>8
  <2>2. Len(order'[l]) = Len(r)
    BY <1>9, <1>10
  <2> QED  BY <1>1, <1>9, <1>11, <2>1, <2>2, OneChanged
<1>13. answer' = <<q[1]>> /\ q # <<>>
  BY <1>1, <1>3, <1>4, <1>7
<1>14. Abstract!Shift(l)
  BY <1>2, <1>12, <1>13 DEF Abstract!Shift, Abstract!Become, r
<1> QED  BY <1>2, <1>14 DEF AStep, Abstract!Next

LEMMA AnswersRefine ==
  ASSUME Sound, NEW l \in made, Nothing(l) \/ list_first(l) \/ list_empty(l)
  PROVE  AStep
<1> DEFINE s == order[l]
<1>1. l \in Lists /\ Idle /\ UNCHANGED <<made, node, loop, order>>
  BY DEF Sound, TypeOK, Nothing, list_first, list_empty
<1>2. l \in There /\ Visible[l] = Stored(s) /\ ~Clearing(l)
  BY <1>1, IdleFacts
<1>3. /\ s \in Seq(Nodes) /\ Len(Stored(s)) = Len(s)
      /\ \A i \in 1 .. Len(s) : Stored(s)[i] = node[s[i]].value
      /\ Visible[l] = <<>> <=> s = <<>>
  BY <1>1, <1>2, StoredFacts
<1>4. /\ list[l].head = At(s, 1) /\ list[l].length = Len(s)
      /\ list[l].head = Null <=> s = <<>>
  BY <1>1, <1>2, HeadFacts
<1>5. There' = There /\ Visible' = Visible
  BY <1>1, OnlyAnswers
<1>6. CASE Nothing(l)
  <2>1. Abstract!Pop(l)
    BY <1>3, <1>4, <1>5, <1>6 DEF Nothing, Abstract!Pop
  <2> QED  BY <1>2, <2>1 DEF AStep, Abstract!Next
<1>7. CASE list_first(l)
  <2>1. s # <<>> /\ 1 \in 1 .. Len(s) /\ list[l].head = s[1]
    <3>1. s # <<>>
      BY <1>4, <1>7 DEF list_first
    <3> QED  BY <1>3, <1>4, <3>1 DEF At
  <2>2. answer' = <<Visible[l][1]>>
    BY <1>2, <1>3, <1>7, <2>1 DEF list_first
  <2>3. Abstract!First(l)
    BY <1>3, <1>5, <2>1, <2>2 DEF Abstract!First
  <2> QED  BY <1>2, <2>3 DEF AStep, Abstract!Next
<1>8. CASE list_empty(l)
  <2>1. (list[l].length = 0) = (Visible[l] = <<>>)
    BY <1>3, <1>4
  <2>2. Abstract!Empty(l)
    BY <1>5, <1>8, <2>1 DEF list_empty, Abstract!Empty
  <2> QED  BY <1>2, <2>2 DEF AStep, Abstract!Next
<1> QED  BY <1>6, <1>7, <1>8

LEMMA FailureRefines ==
  ASSUME Sound, NoMemory
  PROVE  AStep
<1>1. There' = There /\ Visible' = Visible /\ answer' = <<FALSE>>
  BY OnlyAnswers DEF NoMemory
<1> QED  BY <1>1 DEF AStep, Abstract!Next, Abstract!Fails

LEMMA CreateRefines ==
  ASSUME Sound, NEW l \in Lists \ made, list_create(l)
  PROVE  AStep
<1>1. Idle /\ loop' = NoLoop /\ UNCHANGED <<node, order>> /\ made' = made \cup {l}
      /\ answer' = <<TRUE>>
  BY DEF list_create, Idle
<1>2. There = made /\ There' = made' /\ \A k \in Lists : Plain(k) /\ Plain(k)'
  BY <1>1, IdleFacts, IdleNext
<1>3. \A k \in Lists : Visible'[k] = Visible[k]
  BY <1>1, <1>2, PlainKept
<1>4. Visible' = Visible
  BY <1>3, AllKept
<1>5. Abstract!Create(l)
  BY <1>1, <1>2, <1>4 DEF Abstract!Create
<1> QED  BY <1>2, <1>5 DEF AStep, Abstract!Next

-----------------------------------------------------------------------------
(* Loops that start *)

LEMMA IterateStarts ==
  ASSUME Sound, NEW l \in made, list_iterator(l)
  PROVE  AStep
<1>1. Idle /\ loop'.kind = "iterate" /\ UNCHANGED <<made, node, order, answer>>
  BY DEF list_iterator, Looping
<1>2. There = made /\ \A k \in Lists : Plain(k) /\ Plain(k)'
  BY <1>1, IdleFacts DEF Plain
<1>3. There' = made'
  BY <1>1 DEF There
<1>4. \A k \in Lists : Visible'[k] = Visible[k]
  BY <1>1, <1>2, PlainKept
<1> QED  BY <1>1, <1>2, <1>3, <1>4, AllKept, Stutters

LEMMA ConcatStarts ==
  ASSUME Sound, NEW l \in made, NEW m \in made, list_concat(l, m)
  PROVE  AStep
<1>1. /\ Idle /\ UNCHANGED <<made, node, order, answer>> /\ l \in Lists
      /\ loop'.kind = "concat" /\ loop'.to = l /\ loop'.before = list[l].length
  BY DEF list_concat, Looping, Sound, TypeOK
<1>2. There = made /\ \A k \in Lists : Plain(k) /\ ~Clearing(k) /\ Visible[k] = Stored(order[k])
  BY <1>1, IdleFacts
<1>3. There' = made'
  BY <1>1 DEF There
<1>4. ASSUME NEW k \in Lists, k # l PROVE Visible'[k] = Visible[k]
  <2>1. Plain(k)'
    BY <1>1, <1>4 DEF Plain
  <2> QED  BY <1>1, <1>2, <2>1, PlainKept
<1>5. Visible'[l] = Visible[l]
  <2>1. list[l].length = Len(order[l]) /\ order[l] \in Seq(Nodes)
    BY <1>1, <1>2, HeadFacts DEF Sound, TypeOK
  <2>2. SubSeq(order[l], 1, Len(order[l])) = order[l]
    BY <2>1, SubSeqFull
  <2>3. Visible'[l] = Stored(SubSeq(order[l], 1, loop.before))'
    <3>1. ~Clearing(l)' /\ loop'.kind # "clone"
      BY <1>1 DEF Clearing, Clears
    <3> QED  BY <1>1, <3>1 DEF Visible
  <2>4. Stored(SubSeq(order[l], 1, loop.before))' = Stored(order[l])
    BY <1>1, <2>1, <2>2 DEF Stored
  <2> QED  BY <1>1, <1>2, <2>3, <2>4
<1> QED  BY <1>1, <1>2, <1>3, <1>4, <1>5, AllKept, Stutters

LEMMA CloneStarts ==
  ASSUME Sound, NEW l \in made, NEW m \in Lists \ made, list_clone(l, m)
  PROVE  AStep
<1>1. /\ Idle /\ UNCHANGED <<node, order, answer>> /\ made' = made \cup {m}
      /\ loop'.kind = "clone" /\ loop'.to = m /\ order[m] = <<>>
  BY CloneCopied DEF list_clone
<1>2. There = made /\ \A k \in Lists : Plain(k) /\ Visible[k] = Stored(order[k])
  BY <1>1, IdleFacts
<1>3. There' = made' \ {m}
  BY <1>1 DEF There
<1>4. There' = There
  BY <1>1, <1>2, <1>3
<1>5. ASSUME NEW k \in Lists, k # m PROVE Visible'[k] = Visible[k]
  <2>1. Plain(k)'
    BY <1>1, <1>5 DEF Plain
  <2> QED  BY <1>1, <1>2, <2>1, PlainKept
<1>6. Visible'[m] = Visible[m]
  <2>1. Visible[m] = <<>>
    BY <1>1, <1>2, StoredFacts
  <2>2. ~Clearing(m)'
    BY <1>1 DEF Clearing, Clears
  <2> QED  BY <1>1, <2>1, <2>2 DEF Visible
<1> QED  BY <1>1, <1>4, <1>5, <1>6, AllKept, Stutters

LEMMA ClearStartsRefines ==
  ASSUME Sound, NEW kind \in {"clear", "destroy"}, NEW l \in made, list_clear(kind, l)
  PROVE  AStep
<1>1. /\ Idle /\ UNCHANGED <<made, node, order, answer>> /\ l \in Lists
      /\ loop'.kind = kind /\ loop'.to = l
  BY DEF list_clear, Looping, Sound, TypeOK
<1>2. There = made /\ \A k \in Lists : Plain(k) /\ Visible[k] = Stored(order[k])
  BY <1>1, IdleFacts
<1>3. ASSUME NEW k \in Lists, k # l PROVE Visible'[k] = Visible[k]
  <2>1. Plain(k)'
    BY <1>1, <1>3 DEF Plain
  <2> QED  BY <1>1, <1>2, <2>1, PlainKept
<1>4. Visible'[l] = <<>>
  <2>1. Clearing(l)'
    BY <1>1 DEF Clearing, Clears
  <2> QED  BY <1>1, <2>1 DEF Visible
<1>5. Visible' = [Visible EXCEPT ![l] = <<>>]
  BY <1>1, <1>3, <1>4, OneBecomes
<1>6. CASE kind = "clear"
  <2>1. There' = There
    BY <1>1, <1>2, <1>6 DEF There
  <2>2. Abstract!Clear(l)
    BY <1>1, <1>5, <2>1 DEF Abstract!Clear, Abstract!Become
  <2> QED  BY <1>2, <2>2 DEF AStep, Abstract!Next
<1>7. CASE kind = "destroy"
  <2>1. There' = There \ {l}
    BY <1>1, <1>2, <1>7 DEF There
  <2>2. Abstract!Destroy(l)
    BY <1>1, <1>5, <2>1 DEF Abstract!Destroy
  <2> QED  BY <1>2, <2>2 DEF AStep, Abstract!Next
<1> QED  BY <1>6, <1>7

-----------------------------------------------------------------------------
(* Loops that go on *)

\* A list that is being cleared after a step.
LEMMA ClearedNext ==
  ASSUME NEW l \in Lists, loop'.to = l, loop'.kind \in Clears
  PROVE  Visible'[l] = <<>>
<1>1. /\ Clearing(l)' /\ ~(loop'.kind = "clone" /\ loop'.to = l)
      /\ ~(loop'.kind = "concat" /\ loop'.to = l)
  BY DEF Clearing, Clears
<1> QED  BY <1>1 DEF Visible

LEMMA CopyNodeStutters ==
  ASSUME Inv, Sound', NEW n \in Nodes \ live, CopyNode(n)
  PROVE  AStep
<1> DEFINE l == loop.to
           t == order[l]
           b == loop.before
<1>1. /\ SameValues /\ loop.kind \in Copies
      /\ loop'.kind = loop.kind /\ loop'.to = l /\ loop'.before = b
      /\ order'[l] = Append(t, n)
      /\ \A j \in Lists : j # l => order'[j] = order[j]
  BY CopyNodeCopied
<1>2. made' = made /\ answer' = answer /\ Sound /\ l \in Lists
  BY <1>1, CopiedFacts DEF CopyNode, Inv
<1>3. t \in Seq(Nodes) /\ b \in Nat /\ b <= Len(t)
  BY <1>1, CopiedFacts
<1>4. There' = There
  BY <1>1, <1>2 DEF There
<1>5. ASSUME NEW k \in Lists, k # l PROVE Visible'[k] = Visible[k]
  <2>1. Plain(k) /\ Plain(k)'
    BY <1>1, <1>5 DEF Plain
  <2> QED  BY <1>1, <1>2, <1>5, <2>1, PlainKept DEF SameValues
<1>6. CASE loop.kind = "clone"
  <2>1. Visible[l] = <<>>
    BY <1>2, <1>6, LoopVisible
  <2>2. Visible'[l] = <<>>
    <3>1. ~Clearing(l)'
      BY <1>1, <1>6 DEF Clearing, Clears
    <3> QED  BY <1>1, <1>2, <1>6, <3>1 DEF Visible
  <2> QED  BY <1>2, <1>4, <1>5, <2>1, <2>2, AllKept, Stutters
<1>7. CASE loop.kind = "concat"
  <2> DEFINE q == SubSeq(t, 1, b)
             Q == SubSeq(Append(t, n), 1, b)
  <2>1. Visible[l] = Stored(q)
    BY <1>2, <1>7, LoopVisible
  <2>2. Visible'[l] = [i \in DOMAIN Q |-> node'[Q[i]].value]
    <3>1. ~Clearing(l)' /\ loop'.kind # "clone"
      BY <1>1, <1>7 DEF Clearing, Clears
    <3>2. Visible'[l] = Stored(SubSeq(order[l], 1, loop.before))'
      BY <1>1, <1>2, <1>7, <3>1 DEF Visible
    <3> QED  BY <1>1, <3>2 DEF Stored
  <2>3. Q = q
    BY <1>3
  <2>4. \A i \in DOMAIN q : node'[q[i]].value = node[q[i]].value
    <3>1. DOMAIN q = 1 .. b /\ \A i \in 1 .. b : q[i] = t[i] /\ i \in 1 .. Len(t)
      BY <1>3
    <3>2. \A i \in 1 .. Len(t) : node'[t[i]].value = node[t[i]].value
      BY <1>1, <1>2 DEF SameValues
    <3> HIDE DEF q, t, b
    <3> QED  BY <3>1, <3>2
  <2> HIDE DEF q, Q
  <2>5. Visible'[l] = Visible[l]
    BY <2>1, <2>2, <2>3, <2>4 DEF Stored
  <2> QED  BY <1>2, <1>4, <1>5, <2>5, AllKept, Stutters
<1> QED  BY <1>1, <1>6, <1>7 DEF Copies

LEMMA ClearNodeStutters ==
  ASSUME Inv, ClearNode
  PROVE  AStep
<1> DEFINE l == loop.to
           s == order[l]
<1>1. /\ loop.kind \in Clears /\ loop.at # Null /\ made' = made /\ answer' = answer
      /\ node' = [node EXCEPT ![loop.at] = FreeNode]
      /\ loop' = [loop EXCEPT !.at = node[loop.at].next]
      /\ order' = [order EXCEPT ![l] = Tail(s)]
  BY DEF ClearNode
<1>2. Sound /\ TypeOK /\ loop \in Loop /\ loop.kind # "none"
  BY <1>1 DEF Inv, Sound, TypeOK, Clears
<1>3. l \in Lists /\ Clearing(l)
  BY <1>1, <1>2 DEF Sound, LoopInside, TypeOK, Clearing
<1>4. loop.at = At(s, 1) /\ s \in Seq(Nodes)
  BY <1>2, <1>3 DEF Sound, Headed, TypeOK
<1>5. 1 \in 1 .. Len(s) /\ loop.at = s[1]
  BY <1>1, <1>4 DEF At
<1>6. loop'.kind = loop.kind /\ loop'.to = l
  BY <1>1, <1>2 DEF Loop
<1>7. There' = There
  BY <1>1, <1>6 DEF There
<1>8. Visible[l] = <<>> /\ Visible'[l] = <<>>
  <2>1. loop'.to = l /\ loop'.kind \in Clears
    BY <1>1, <1>6
  <2> QED  BY <1>1, <1>3, <2>1, LoopVisible, ClearedNext
<1>9. ASSUME NEW k \in Lists, k # l PROVE Visible'[k] = Visible[k]
  <2>1. Plain(k) /\ Plain(k)'
    BY <1>6, <1>9 DEF Plain
  <2>2. order'[k] = order[k]
    BY <1>1, <1>2, <1>3, <1>9 DEF TypeOK
  <2>3. \A m \in Nodes : m # s[1] => node'[m].value = node[m].value
    BY <1>1, <1>2, <1>5 DEF TypeOK
  <2>4. ASSUME NEW i \in 1 .. Len(order[k])
        PROVE  node'[order[k][i]].value = node[order[k][i]].value
    <3>1. i \in Int
      OBVIOUS
    <3> QED  BY <1>2, <1>3, <1>5, <1>9, <2>3, <3>1, FreedValues
  <2> QED  BY <1>2, <2>1, <2>2, <2>4, PlainKept
<1>10. Visible' = Visible
  BY <1>8, <1>9, AllKept
<1> QED  BY <1>1, <1>7, <1>10, Stutters

LEMMA NextNodeStutters ==
  ASSUME Inv, list_next_node
  PROVE  AStep
<1>1. /\ loop.kind = "iterate" /\ loop'.kind = "iterate" /\ Sound
      /\ UNCHANGED <<made, node, order, answer>>
  BY NextNodeSeen DEF list_next_node, Inv
<1>2. There' = There /\ \A k \in Lists : Plain(k) /\ Plain(k)'
  BY <1>1 DEF There, Plain
<1>3. \A k \in Lists : Visible'[k] = Visible[k]
  BY <1>1, <1>2, PlainKept
<1> QED  BY <1>1, <1>2, <1>3, AllKept, Stutters

-----------------------------------------------------------------------------
(* Loops that end *)

LEMMA IterationRefines ==
  ASSUME Inv, IterationEnds
  PROVE  AStep
<1> DEFINE l == loop.from
           s == order[l]
           q == Stored(s)
           k == Len(loop.seen)
           ends == {i \in DOMAIN q : q[i] = NoItem}
           c == CHOOSE i \in ends : \A j \in ends : i <= j
<1>1. /\ loop.kind = "iterate" /\ Current = NoItem /\ answer' = loop.seen /\ loop' = NoLoop
      /\ UNCHANGED <<made, node, order>> /\ Sound
  BY DEF IterationEnds, Inv
<1>2. There = made /\ There' = made' /\ \A j \in Lists : Plain(j) /\ Plain(j)'
  BY <1>1, IdleNext DEF There, Plain
<1>3. Visible' = Visible
  BY <1>1, <1>2, PlainKept, AllKept
<1>4. /\ l \in made /\ l \in Lists /\ s \in Seq(Nodes)
      /\ loop.seen \in Seq(Items) /\ k \in 0 .. Len(s) /\ loop.at = At(s, k + 1)
      /\ \A i \in 1 .. k : loop.seen[i] = node[s[i]].value /\ loop.seen[i] # NoItem
  BY <1>1, SeenFacts
<1>5. /\ q \in Seq(Items) /\ Len(q) = Len(s) /\ \A i \in 1 .. Len(s) : q[i] = node[s[i]].value
  BY <1>1, <1>4, StoredFacts
<1>6. Visible[l] = q
  BY <1>2, <1>4, PlainVisible
<1> HIDE DEF q
<1>7. DOMAIN q = 1 .. Len(s) /\ Len(s) \in Nat
  BY <1>4, <1>5
<1> HIDE DEF c
<1>8. answer' = IF ends = {} THEN q ELSE SubSeq(q, 1, c - 1)
  <2>1. CASE loop.at = Null
    <3>1. k = Len(s)
      <4> HIDE DEF s, k
      <4>1. k + 1 \notin 1 .. Len(s)
        BY <1>4, <2>1, AtFacts
      <4> QED  BY <1>4, <1>7, <4>1
    <3>2. loop.seen = q
      BY <1>4, <1>5, <3>1, SameItems
    <3>3. ends = {}
      BY <1>4, <1>7, <3>1, <3>2
    <3> QED  BY <1>1, <3>2, <3>3
  <2>2. CASE loop.at # Null
    <3>1. k + 1 \in 1 .. Len(s) /\ loop.at = s[k + 1]
      <4> HIDE DEF s, k
      <4>1. k + 1 \in Int
        BY <1>4
      <4> QED  BY <1>4, <2>2, <4>1, AtFacts
    <3>2. node[loop.at].value = NoItem
      BY <1>1, <2>2 DEF Current
    <3>3. k + 1 \in ends
      BY <1>5, <1>7, <3>1, <3>2
    <3>4. \A j \in ends : k + 1 <= j
      BY <1>4, <1>5, <1>7
    <3>5. c \in ends /\ \A j \in ends : c <= j
      BY <3>3, <3>4 DEF c
    <3>6. c = k + 1
      BY <1>4, <1>7, <3>3, <3>4, <3>5
    <3>7. loop.seen = SubSeq(q, 1, k)
      <4>1. /\ SubSeq(q, 1, k) \in Seq(Items) /\ Len(SubSeq(q, 1, k)) = k
            /\ \A i \in 1 .. k : SubSeq(q, 1, k)[i] = q[i]
        BY <1>4, <1>5
      <4>2. \A i \in 1 .. k : loop.seen[i] = q[i]
        BY <1>4, <1>5
      <4> HIDE DEF k
      <4> QED  BY <1>4, <4>1, <4>2, SameItems DEF k
    <3> HIDE DEF ends
    <3>8. c - 1 = k
      BY <1>4, <3>6
    <3>9. answer' = SubSeq(q, 1, c - 1) /\ ends # {}
      BY <1>1, <3>3, <3>7, <3>8
    <3> QED  BY <3>9
  <2> QED  BY <2>1, <2>2
<1>9. Abstract!Iterate(l)
  BY <1>1, <1>2, <1>3, <1>6, <1>8 DEF Abstract!Iterate, c
<1> QED  BY <1>2, <1>4, <1>9 DEF AStep, Abstract!Next

LEMMA ClearEndsStutters ==
  ASSUME Inv, ClearEnds
  PROVE  AStep
<1> DEFINE l == loop.to
           s == order[l]
<1>1. /\ loop.kind \in Clears /\ loop.at = Null /\ loop' = NoLoop
      /\ made' = IF loop.kind = "clear" THEN made ELSE made \ {l}
      /\ UNCHANGED <<node, answer, order>> /\ Sound
  BY DEF ClearEnds, Inv
<1>2. l \in Lists /\ Clearing(l)
  <2>1. loop.kind # "none"
    BY <1>1 DEF Clears
  <2> QED  BY <1>1, <2>1 DEF Sound, LoopInside, TypeOK, Clearing
<1>3. At(s, 1) = Null /\ s \in Seq(Nodes)
  BY <1>1, <1>2 DEF Sound, Headed, TypeOK
<1>4. s = <<>>
  <2>1. 1 \notin 1 .. Len(s)
    BY <1>3, AtFacts
  <2> QED  BY <1>3, <2>1
<1>5. There' = There
  <2>1. There' = made'
    BY <1>1, IdleNext
  <2>2. There = made'
    BY <1>1 DEF There, Clears
  <2> QED  BY <2>1, <2>2
<1>6. Visible'[l] = Visible[l]
  <2>1. Visible[l] = <<>>
    BY <1>1, <1>2, LoopVisible
  <2>2. \A k \in Lists : Visible'[k] = Stored(order[k])'
    BY <1>1, IdleNext
  <2>3. \A k \in Lists : Stored(order[k])' = Stored(order[k])
    BY <1>1 DEF Stored
  <2>4. Stored(s) = <<>>
    BY <1>1, <1>2, <1>4, StoredFacts
  <2>5. Visible'[l] = Stored(s)
    BY <1>2, <2>2, <2>3
  <2> QED  BY <2>1, <2>4, <2>5
<1>7. ASSUME NEW k \in Lists, k # l PROVE Visible'[k] = Visible[k]
  <2>1. Plain(k) /\ Plain(k)'
    BY <1>1, <1>7, IdleNext DEF Plain
  <2> QED  BY <1>1, <2>1, PlainKept
<1>8. Visible' = Visible
  BY <1>6, <1>7, AllKept
<1> QED  BY <1>1, <1>5, <1>8, Stutters

\* A list is no longer than there are nodes.
LEMMA LengthBound ==
  ASSUME Sound, NEW l \in Lists
  PROVE  Len(order[l]) \in Nat /\ Cardinality(Nodes) \in Nat
         /\ Len(order[l]) <= Cardinality(Nodes)
<1> DEFINE s == order[l]
           n == Len(s)
<1>1. s \in Seq(Nodes) /\ n \in Nat /\ s \in [1 .. n -> Nodes]
  BY DEF Sound, TypeOK
<1>2. \A i, j \in 1 .. n : s[i] = s[j] => i = j
  BY DEF Sound, Apart
<1>3. s \in Injection(1 .. n, Nodes)
  BY <1>1, <1>2 DEF Injection, IsInjective
<1>4. IsFiniteSet(Nodes)
  BY ListAssumption
<1>5. Cardinality(1 .. n) = n
  <2> HIDE DEF n
  <2>1. Cardinality(1 .. n) = IF 1 > n THEN 0 ELSE n - 1 + 1
    BY <1>1, FS_Interval
  <2> QED  BY <1>1, <2>1
<1>6. Cardinality(1 .. n) <= Cardinality(Nodes)
  BY <1>3, <1>4, FS_Injection
<1> QED  BY <1>1, <1>4, <1>5, <1>6, FS_CardinalityType

\* After a loop that copies, the nodes are as they were and all is seen.
LEMMA CopyOver ==
  ASSUME Inv, loop.kind \in Copies, UNCHANGED <<made, node, order>>, loop' = NoLoop,
         NEW l \in Lists, loop.to = l
  PROVE  /\ There' = made /\ Visible' = [Visible EXCEPT ![l] = Stored(order[l])]
         /\ Visible'[l] = Stored(order[l])
         /\ \A k \in Lists : k # l => Visible[k] = Stored(order[k])
<1>1. Sound
  BY DEF Inv
<1>2. There' = made
  BY IdleNext
<1>3. \A k \in Lists : Visible'[k] = Stored(order[k])
  <2>1. \A k \in Lists : Visible'[k] = Stored(order[k])'
    BY IdleNext
  <2>2. \A k \in Lists : Stored(order[k])' = Stored(order[k])
    BY DEF Stored
  <2> QED  BY <2>1, <2>2
<1>4. \A k \in Lists : k # l => Visible[k] = Stored(order[k])
  BY PlainVisible DEF Plain
<1> QED  BY <1>2, <1>3, <1>4, OneBecomes

\* The items of list l, before and after a list_concat that has copied k items.
LEMMA ConcatItems ==
  ASSUME Inv, loop.kind = "concat", NEW l \in Lists, loop.to = l
  PROVE  LET t == order[l]
             b == loop.before
         IN  /\ t \in Seq(Nodes) /\ b \in 0 .. Len(t)
             /\ Visible[l] \in Seq(Items) /\ Len(Visible[l]) = b
             /\ \A i \in 1 .. b : Visible[l][i] = node[t[i]].value
             /\ Stored(t) \in Seq(Items) /\ Len(Stored(t)) = Len(t)
             /\ \A i \in 1 .. Len(t) : Stored(t)[i] = node[t[i]].value
<1> DEFINE t == order[l]
           b == loop.before
           q == SubSeq(t, 1, b)
<1>1. Sound /\ loop.kind \in Copies
  BY DEF Inv, Copies
<1>2. t \in Seq(Nodes) /\ b \in Nat /\ Len(t) - b \in Nat /\ Len(t) \in Nat
  BY <1>1, CopiedFacts
<1>3. b \in 0 .. Len(t)
  BY <1>2
<1>4. q \in Seq(Nodes) /\ Len(q) = b /\ \A i \in 1 .. b : q[i] = t[i]
  BY <1>2, <1>3
<1>5. Visible[l] = Stored(q)
  BY LoopVisible
<1>6. node \in [Nodes -> NodeValue]
  BY <1>1 DEF Sound, TypeOK
<1> HIDE DEF q
<1>7. /\ Stored(q) \in Seq(Items) /\ Len(Stored(q)) = b
      /\ \A i \in 1 .. b : Stored(q)[i] = node[q[i]].value
  BY <1>4, <1>6, ItemsOf DEF Stored
<1>8. /\ Stored(t) \in Seq(Items) /\ Len(Stored(t)) = Len(t)
      /\ \A i \in 1 .. Len(t) : Stored(t)[i] = node[t[i]].value
  BY <1>1, StoredFacts
<1> HIDE DEF t, b
<1>9. \A i \in 1 .. b : Visible[l][i] = node[t[i]].value
  BY <1>4, <1>5, <1>7
<1> QED  BY <1>2, <1>3, <1>5, <1>7, <1>8, <1>9 DEF t, b

\* list_concat of another list has added the first k items of that.
LEMMA ConcatAdds ==
  ASSUME Inv, loop.kind = "concat", NEW l \in Lists, NEW m \in Lists, loop.to = l,
         loop.from = m, l # m
  PROVE  LET k == Len(order[l]) - loop.before IN
         /\ k \in 0 .. Len(Visible[m]) /\ Len(Visible[m]) = Len(order[m])
         /\ Stored(order[l]) = Visible[l] \o SubSeq(Visible[m], 1, k)
<1> DEFINE s == order[m]
           t == order[l]
           b == loop.before
           k == Len(t) - b
           x == Visible[l]
           y == Visible[m]
           z == Stored(t)
           w == SubSeq(y, 1, k)
<1>1. Sound /\ loop.kind \in Copies
  BY DEF Inv, Copies
<1>2. /\ k \in 0 .. Len(s) /\ s \in Seq(Nodes)
      /\ \A i \in 1 .. k : node[t[b + i]].value = node[s[i]].value
  BY <1>1, CopiedFacts
<1>3. /\ t \in Seq(Nodes) /\ b \in 0 .. Len(t)
      /\ x \in Seq(Items) /\ Len(x) = b /\ \A i \in 1 .. b : x[i] = node[t[i]].value
      /\ z \in Seq(Items) /\ Len(z) = Len(t)
      /\ \A i \in 1 .. Len(t) : z[i] = node[t[i]].value
  BY ConcatItems
<1>4. y = Stored(s)
  BY PlainVisible DEF Plain
<1>5. y \in Seq(Items) /\ Len(y) = Len(s) /\ \A i \in 1 .. Len(s) : y[i] = node[s[i]].value
  BY <1>1, <1>4, StoredFacts
<1>6. Len(t) \in Nat /\ Len(s) \in Nat /\ b \in Nat /\ Len(t) = b + k
  BY <1>2, <1>3
<1> HIDE DEF s, t, b, x, y, z, k
<1>7. w \in Seq(Items) /\ Len(w) = k /\ \A i \in 1 .. k : w[i] = y[i]
  BY <1>2, <1>5, <1>6
<1> HIDE DEF w
<1>8. /\ x \o w \in Seq(Items) /\ Len(x \o w) = b + k
      /\ \A i \in 1 .. (b + k) : (x \o w)[i] = IF i <= b THEN x[i] ELSE w[i - b]
  <2>1. x \in Seq(Items) /\ w \in Seq(Items) /\ Len(x) = b /\ Len(w) = k
    BY <1>3, <1>7
  <2> QED  BY <2>1, ConcatProperties
<1>9. ASSUME NEW i \in 1 .. Len(z) PROVE z[i] = (x \o w)[i]
  <2>1. i \in 1 .. (b + k) /\ i \in 1 .. Len(t) /\ z[i] = node[t[i]].value
    BY <1>3, <1>6
  <2>2. CASE i <= b
    <3>1. i \in 1 .. b
      BY <1>6, <2>1, <2>2
    <3> QED  BY <1>3, <1>8, <2>1, <2>2, <3>1
  <2>3. CASE ~(i <= b)
    <3>1. i - b \in 1 .. k /\ b + (i - b) = i /\ i - b \in 1 .. Len(s)
      BY <1>2, <1>6, <2>1, <2>3
    <3>2. node[t[i]].value = node[s[i - b]].value
      BY <1>2, <3>1
    <3>3. w[i - b] = node[s[i - b]].value
      BY <1>5, <1>7, <3>1
    <3> QED  BY <1>8, <2>1, <2>3, <3>2, <3>3
  <2> QED  BY <2>2, <2>3
<1>10. z = x \o w
  BY <1>3, <1>6, <1>8, <1>9, SameItems
<1> QED  BY <1>2, <1>5, <1>10 DEF s, t, b, x, y, z, w, k

\* list_concat of a list and itself goes round its items.
LEMMA ConcatRepeats ==
  ASSUME Inv, loop.kind = "concat", NEW l \in Lists, loop.to = l, loop.from = l, loop.before # 0
  PROVE  /\ Visible[l] # <<>> /\ Len(order[l]) \in Len(Visible[l]) .. Cardinality(Nodes)
         /\ Stored(order[l]) = Abstract!Repeated(Visible[l], Len(order[l]))
<1> DEFINE t == order[l]
           b == loop.before
           x == Visible[l]
           z == Stored(t)
<1>1. Sound /\ loop.kind \in Copies
  BY DEF Inv, Copies
<1>2. \A i \in 1 .. Len(t) : node[t[i]].value = node[t[((i - 1) % b) + 1]].value
  BY <1>1, CopiedFacts
<1>3. /\ t \in Seq(Nodes) /\ b \in 0 .. Len(t)
      /\ x \in Seq(Items) /\ Len(x) = b /\ \A i \in 1 .. b : x[i] = node[t[i]].value
      /\ z \in Seq(Items) /\ Len(z) = Len(t)
      /\ \A i \in 1 .. Len(t) : z[i] = node[t[i]].value
  BY ConcatItems
<1>4. Len(t) \in Nat /\ Cardinality(Nodes) \in Nat /\ Len(t) <= Cardinality(Nodes)
  BY <1>1, LengthBound
<1>5. b \in Nat \ {0}
  BY <1>3, <1>4
<1> HIDE DEF t, b, x, z
<1>6. x # <<>>
  BY <1>3, <1>5
<1>7. ASSUME NEW i \in 1 .. Len(t) PROVE z[i] = x[((i - 1) % b) + 1]
  <2> DEFINE j == ((i - 1) % b) + 1
  <2>1. j \in 1 .. b
    <3>1. i \in Nat \ {0}
      BY <1>4
    <3> QED  BY <1>5, <3>1, ModPosition
  <2> HIDE DEF j
  <2>2. x[j] = node[t[j]].value /\ z[i] = node[t[i]].value
    BY <1>3, <2>1
  <2>3. node[t[i]].value = node[t[j]].value
    BY <1>2 DEF j
  <2> QED  BY <2>2, <2>3 DEF j
<1>8. z = [i \in 1 .. Len(t) |-> x[((i - 1) % Len(x)) + 1]]
  <2>1. z = [i \in 1 .. Len(t) |-> z[i]]
    BY <1>3, <1>4
  <2> QED  BY <1>3, <1>7, <2>1
<1>9. Len(t) \in Len(x) .. Cardinality(Nodes)
  BY <1>3, <1>4
<1> QED  BY <1>6, <1>8, <1>9 DEF t, x, z, Abstract!Repeated

LEMMA CopyEndsRefines ==
  ASSUME Inv, CopyEnds
  PROVE  AStep
<1> DEFINE l == loop.to
           m == loop.from
           s == order[m]
           t == order[l]
           b == loop.before
           k == Len(t) - b
<1>1. /\ loop.kind \in Copies /\ loop.at = Null /\ loop' = NoLoop /\ answer' = <<TRUE>>
      /\ UNCHANGED <<made, node, order>> /\ Sound
  BY DEF CopyEnds, Inv
<1>2. /\ l \in made /\ m \in made /\ l \in Lists /\ m \in Lists
      /\ s \in Seq(Nodes) /\ t \in Seq(Nodes) /\ b \in Nat /\ k \in 0 .. Len(s)
      /\ loop.at = At(s, k + 1)
      /\ \A i \in 1 .. k : node[t[b + i]].value = node[s[i]].value
      /\ loop.kind = "clone" => b = 0 /\ l # m
      /\ l = m /\ b = 0 => t = <<>>
  BY <1>1, CopiedFacts
<1>3. /\ There' = made /\ Visible' = [Visible EXCEPT ![l] = Stored(t)]
      /\ Visible'[l] = Stored(t)
      /\ \A j \in Lists : j # l => Visible[j] = Stored(order[j])
  BY <1>1, <1>2, CopyOver
<1>4. k = Len(s)
  <2> HIDE DEF s, k
  <2>1. k + 1 \notin 1 .. Len(s) /\ Len(s) \in Nat
    BY <1>1, <1>2, AtFacts
  <2> QED  BY <1>2, <2>1
<1>5. CASE loop.kind = "clone"
  <2>1. There = made \ {l} /\ made = There \cup {l} /\ m \in There /\ l \in Lists \ There
    BY <1>2, <1>5 DEF There
  <2>2. Stored(t) = Stored(s)
    <3>1. /\ Stored(t) \in Seq(Items) /\ Len(Stored(t)) = Len(t)
          /\ \A i \in 1 .. Len(t) : Stored(t)[i] = node[t[i]].value
          /\ Stored(s) \in Seq(Items) /\ Len(Stored(s)) = Len(s)
          /\ \A i \in 1 .. Len(s) : Stored(s)[i] = node[s[i]].value
      BY <1>1, <1>2, StoredFacts
    <3>2. Len(t) = Len(s) /\ \A i \in 1 .. Len(s) : node[t[i]].value = node[s[i]].value
      <4>1. k = Len(t) - b /\ k = Len(s)
        BY <1>4
      <4> HIDE DEF l, m, s, t, b, k
      <4>2. b = 0 /\ Len(t) \in Nat /\ \A i \in 1 .. k : node[t[b + i]].value = node[s[i]].value
        BY <1>2, <1>5
      <4>3. k = Len(t) /\ \A i \in 1 .. k : b + i = i
        BY <4>1, <4>2
      <4> QED  BY <4>1, <4>2, <4>3
    <3> HIDE DEF s, t
    <3>3. \A i \in 1 .. Len(Stored(t)) : Stored(t)[i] = Stored(s)[i]
      BY <3>1, <3>2
    <3> QED  BY <3>1, <3>2, <3>3, SameItems
  <2>3. Visible' = [Visible EXCEPT ![l] = Visible[m]]
    BY <1>2, <1>3, <1>5, <2>2
  <2>4. Abstract!Clone(m, l)
    BY <1>1, <1>3, <2>1, <2>3 DEF Abstract!Clone
  <2> QED  BY <2>1, <2>4 DEF AStep, Abstract!Next
<1>6. CASE loop.kind = "concat"
  <2>1. There = made
    BY <1>6 DEF There
  <2>2. CASE l # m
    <3>1. /\ k \in 0 .. Len(Visible[m]) /\ Len(Visible[m]) = Len(s)
          /\ Stored(t) = Visible[l] \o SubSeq(Visible[m], 1, k)
      BY <1>2, <1>6, <2>2, ConcatAdds
    <3>2. answer' = <<k = Len(Visible[m])>>
      BY <1>1, <1>4, <3>1
    <3> HIDE DEF l, m, s, t, k
    <3>3. Abstract!Concat(l, m)
      BY <1>3, <2>1, <3>1, <3>2 DEF Abstract!Concat, Abstract!Become
    <3> QED  BY <1>2, <2>1, <2>2, <3>3 DEF AStep, Abstract!Next
  <2>3. CASE l = m
    <3>1. b = 0 /\ t = <<>>
      BY <1>2, <1>4, <2>3
    <3>2. Visible[l] = <<>> /\ Stored(t) = <<>>
      <4>1. Visible[l] \in Seq(Items) /\ Len(Visible[l]) = b
        BY <1>2, <1>6, ConcatItems
      <4>2. Stored(t) = <<>>
        BY <1>1, <1>2, <3>1, StoredFacts
      <4> HIDE DEF b, l, t
      <4> QED  BY <3>1, <4>1, <4>2
    <3> HIDE DEF l, m, t
    <3>3. Visible' = [Visible EXCEPT ![l] = Visible[l] \o SubSeq(Visible[l], 1, 0)]
      <4>1. <<>> \o SubSeq(<<>>, 1, 0) = <<>>
        OBVIOUS
      <4> QED  BY <1>3, <3>2, <4>1
    <3> DEFINE n == Len(Visible[l])
    <3>4. n = 0 /\ 0 \in 0 .. n
      BY <3>2
    <3> HIDE DEF n
    <3>5. (0 = n) = TRUE
      BY <3>4
    <3>6. answer' = <<0 = n>>
      BY <1>1, <3>5, Zenon
    <3>7. Abstract!Concat(l, l)
      BY <1>3, <2>1, <3>3, <3>4, <3>6 DEF Abstract!Concat, Abstract!Become, n
    <3> QED  BY <1>2, <2>1, <3>2, <3>7 DEF AStep, Abstract!Next
  <2> QED  BY <2>2, <2>3
<1> QED  BY <1>1, <1>5, <1>6 DEF Copies

LEMMA CopyFailsRefines ==
  ASSUME Inv, CopyFails
  PROVE  AStep
<1> DEFINE l == loop.to
           m == loop.from
           s == order[m]
           t == order[l]
           b == loop.before
           k == Len(t) - b
<1>1. /\ loop.kind \in Copies /\ loop.at # Null /\ answer' = <<FALSE>>
      /\ loop' = IF loop.kind = "clone" THEN Looping("undo", l, l) ELSE NoLoop
      /\ UNCHANGED <<made, node, order>> /\ Sound
  BY DEF CopyFails, Inv
<1>2. /\ l \in made /\ m \in made /\ l \in Lists /\ m \in Lists
      /\ s \in Seq(Nodes) /\ t \in Seq(Nodes) /\ b \in Nat /\ k \in 0 .. Len(s)
      /\ loop.at = At(s, k + 1)
      /\ l = m /\ b = 0 => t = <<>>
  BY <1>1, CopiedFacts
<1>3. k + 1 \in 1 .. Len(s) /\ Len(s) \in Nat
  <2> HIDE DEF s, k
  <2> QED  BY <1>1, <1>2, AtFacts
<1>4. CASE loop.kind = "clone"
  <2>1. loop'.kind = "undo" /\ loop'.to = l
    BY <1>1, <1>4 DEF Looping
  <2>2. There' = There
    BY <1>1, <1>4, <2>1 DEF There
  <2>3. Visible[l] = <<>> /\ Visible'[l] = <<>>
    BY <1>2, <1>4, <2>1, LoopVisible, ClearedNext DEF Clears
  <2>4. \A j \in Lists : j # l => Visible'[j] = Visible[j]
    <3>1. \A j \in Lists : j # l => Plain(j) /\ Plain(j)'
      BY <2>1 DEF Plain
    <3> QED  BY <1>1, <3>1, PlainKept
  <2>5. Visible' = Visible
    BY <2>3, <2>4, AllKept
  <2> QED  BY <1>1, <2>2, <2>5 DEF AStep, Abstract!Next, Abstract!Fails
<1>5. CASE loop.kind = "concat"
  <2>1. There = made
    BY <1>5 DEF There
  <2>2. /\ There' = made /\ Visible' = [Visible EXCEPT ![l] = Stored(t)]
    BY <1>1, <1>2, <1>5, CopyOver
  <2>3. CASE l # m
    <3>1. /\ k \in 0 .. Len(Visible[m]) /\ Len(Visible[m]) = Len(s)
          /\ Stored(t) = Visible[l] \o SubSeq(Visible[m], 1, k)
      BY <1>2, <1>5, <2>3, ConcatAdds
    <3> HIDE DEF l, m, s, t, k
    <3>2. answer' = <<k = Len(Visible[m])>>
      <4>1. k # Len(Visible[m])
        BY <1>2, <1>3, <3>1
      <4> QED  BY <1>1, <4>1
    <3>3. Abstract!Concat(l, m)
      BY <2>1, <2>2, <3>1, <3>2 DEF Abstract!Concat, Abstract!Become
    <3> QED  BY <1>2, <2>1, <2>3, <3>3 DEF AStep, Abstract!Next
  <2>4. CASE l = m
    <3>1. b # 0
      BY <1>2, <1>3, <2>4
    <3>2. /\ Visible[l] # <<>> /\ Len(t) \in Len(Visible[l]) .. Cardinality(Nodes)
          /\ Stored(t) = Abstract!Repeated(Visible[l], Len(t))
      BY <1>2, <1>5, <2>4, <3>1, ConcatRepeats
    <3> HIDE DEF l, t
    <3>3. Abstract!ConcatSelf(l)
      BY <1>1, <2>1, <2>2, <3>2 DEF Abstract!ConcatSelf, Abstract!Become
    <3> QED  BY <1>2, <2>1, <3>3 DEF AStep, Abstract!Next
  <2> QED  BY <2>3, <2>4
<1> QED  BY <1>1, <1>4, <1>5 DEF Copies

-----------------------------------------------------------------------------
(* LinkedList implements ItemLists *)

LEMMA InitRefines ==
  ASSUME Init
  PROVE  Abstract!Init
<1>1. loop = NoLoop /\ made = {} /\ answer = <<>>
  BY DEF Init
<1>2. There = {}
  BY <1>1 DEF There
<1>3. Visible = [l \in Lists |-> <<>>]
  <2>1. ASSUME NEW l \in Lists PROVE Visible[l] = <<>>
    <3>1. Plain(l) /\ Sound
      BY <1>1, InitSound DEF Plain, NoLoop
    <3>2. order[l] = <<>>
      BY DEF Init
    <3> QED  BY <3>1, <3>2, PlainVisible, StoredFacts
  <2>2. Visible = [l \in Lists |-> Visible[l]]
    BY DEF Visible
  <2> QED  BY <2>1, <2>2
<1> QED  BY <1>1, <1>2, <1>3 DEF Abstract!Init

LEMMA StepRefines ==
  ASSUME Inv, Inv', [Next]_vars
  PROVE  AStep
<1>1. Sound /\ Sound'
  BY DEF Inv
<1>2. CASE NoMemory
  BY <1>1, <1>2, FailureRefines
<1>3. CASE LoopStep
  BY <1>1, <1>3, CopyNodeStutters, CopyFailsRefines, CopyEndsRefines, ClearNodeStutters,
     ClearEndsStutters, NextNodeStutters, IterationRefines DEF LoopStep
<1>4. ASSUME NEW l \in Lists \ made, list_create(l) PROVE AStep
  BY <1>1, <1>4, CreateRefines
<1>5. ASSUME NEW l \in made, Ends(l) PROVE AStep
  BY <1>1, <1>5, AnswersRefine, PopRefines, ShiftRefines, PushRefines, UnshiftRefines DEF Ends
<1>6. ASSUME NEW l \in made, list_iterator(l) PROVE AStep
  BY <1>1, <1>6, IterateStarts
<1>7. ASSUME NEW kind \in {"clear", "destroy"}, NEW l \in made, list_clear(kind, l) PROVE AStep
  BY <1>1, <1>7, ClearStartsRefines
<1>8. ASSUME NEW l \in made, NEW m \in made, list_concat(l, m) PROVE AStep
  BY <1>1, <1>8, ConcatStarts
<1>9. ASSUME NEW l \in made, NEW m \in Lists \ made, list_clone(l, m) PROVE AStep
  BY <1>1, <1>9, CloneStarts
<1>10. CASE UNCHANGED vars
  <2>1. UNCHANGED <<made, node, loop, order, answer>>
    BY <1>10 DEF vars
  <2>2. There' = There /\ Visible' = Visible
    BY <2>1 DEF There, Visible, Clearing, Stored
  <2> QED  BY <2>1, <2>2, Stutters
<1> QED  BY <1>2, <1>3, <1>4, <1>5, <1>6, <1>7, <1>8, <1>9, <1>10 DEF Next

\* For any lists, nodes and items: whatever calls of list.c are made, and wherever
\* malloc fails in them, what they return and what the lists hold then is what
\* sequences give that grow and shrink at both ends: pointers, node-by-node loops and
\* half-made copies are not to be seen.
THEOREM ListsAreSequences == Spec => RefinesItemLists
<1>1. Init => Abstract!Init
  BY InitRefines
<1>2. Inv /\ Inv' /\ [Next]_vars => AStep
  BY StepRefines
<1>3. Spec => []Inv
  BY InvInit, NextInv, PTL DEF Spec
<1> QED  BY <1>1, <1>2, <1>3, PTL DEF Spec, AStep, RefinesItemLists, Abstract!Spec
===============================================================================
