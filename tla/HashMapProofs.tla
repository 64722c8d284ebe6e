----------------------------- MODULE HashMapProofs -----------------------------
(***************************************************************************)
(* The pointers of HashMap hold a map, for any keys, values and number of  *)
(* buckets, and at whichever allocation memory runs out.                   *)
(***************************************************************************)
EXTENDS HashMap, FiniteSetTheorems, WellFoundedInduction, TLAPS

-----------------------------------------------------------------------------
(* Induction *)

\* A set of natural numbers has a least one.
LEMMA LeastNatural ==
  ASSUME NEW T \in SUBSET Nat, T # {}
  PROVE  \E x \in T : \A y \in T : x <= y
<1>1. PICK N \in T : TRUE
  OBVIOUS
<1> DEFINE U == {0 .. n : n \in {m \in T : m <= N}}
<1>2. IsWellFoundedOn(StrictSubsetOrdering(0 .. N), SUBSET (0 .. N))
  <2>1. IsFiniteSet(0 .. N)
    BY <1>1, FS_Interval
  <2> QED  BY <2>1, FS_StrictSubsetOrderingWellFounded, FS_FiniteSubsetsOfFinite
<1>3. U \subseteq SUBSET (0 .. N) /\ U # {}
  BY <1>1
<1>4. PICK x \in U : \A y \in U : ~(<<y, x>> \in StrictSubsetOrdering(0 .. N))
  <2> HIDE DEF U
  <2> QED  BY <1>2, <1>3, WFMin
<1>5. PICK n \in T : n <= N /\ x = 0 .. n
  OBVIOUS
<1>6. ASSUME NEW m \in T, m < n
      PROVE  FALSE
  <2>1. 0 .. m \in U /\ m \in Nat /\ n \in Nat /\ N \in Nat
    BY <1>5, <1>6
  <2>2. <<0 .. m, x>> \notin StrictSubsetOrdering(0 .. N)
    BY <1>4, <2>1
  <2>3. 0 .. m \in SUBSET (0 .. N) /\ x \in SUBSET (0 .. N)
    BY <1>3, <2>1
  <2>4. 0 .. m \subseteq x /\ 0 .. m # x
    <3>1. n \in 0 .. n /\ n \notin 0 .. m
      BY <1>6, <2>1
    <3> QED  BY <1>5, <1>6, <2>1, <3>1
  <2> QED  BY <2>2, <2>3, <2>4 DEF StrictSubsetOrdering
<1> QED  BY <1>6, <1>5

\* Induction, for a set of natural numbers.
LEMMA AllNaturals ==
  ASSUME NEW T \in SUBSET Nat, 0 \in T, \A n \in T : n + 1 \in T
  PROVE  T = Nat
<1>1. SUFFICES ASSUME Nat \ T # {} PROVE FALSE
  OBVIOUS
<1>2. PICK x \in Nat \ T : \A y \in Nat \ T : x <= y
  BY <1>1, LeastNatural
<1>3. x - 1 \in Nat /\ (x - 1) + 1 = x
  BY <1>2
<1>4. x - 1 \in T
  BY <1>2, <1>3
<1> QED  BY <1>2, <1>3, <1>4

-----------------------------------------------------------------------------
(* Walking along links *)

\* The entry at place i, and Null next to the first and the last.
At(s, i) == IF i \in 1 .. Len(s) THEN s[i] ELSE Null

\* The links lead from e through s, and end there.
Path(link, e, s) ==
  /\ s \in Seq(Entries)
  /\ e = At(s, 1)
  /\ \A i \in 1 .. Len(s) : link[s[i]] = At(s, i + 1)

Apart(s) == \A i, j \in 1 .. Len(s) : s[i] = s[j] => i = j

IsLink(link) == link \in [Entries -> Pointer]

\* What the recursion in Walk builds up, for paths of up to N entries.
Walked(link, N, p) ==
  p = [n \in 0 .. N |->
         [x \in Pointer |->
            IF n = 0 \/ x = Null THEN <<>> ELSE <<x>> \o p[n - 1][link[x]]]]

LEMMA WalkedOnce ==
  ASSUME NEW link, NEW N \in Nat, NEW p, Walked(link, N, p)
  PROVE  \E q : Walked(link, N + 1, q)
<1> DEFINE One(n, x, r) == IF n = 0 \/ x = Null THEN <<>> ELSE <<x>> \o r[n - 1][link[x]]
           q == [n \in 0 .. (N + 1) |-> [x \in Pointer |-> One(n, x, p)]]
<1>1. p = [n \in 0 .. N |-> [x \in Pointer |-> One(n, x, p)]]
  BY DEF Walked
<1>2. ASSUME NEW n \in 0 .. N PROVE q[n] = p[n]
  <2> HIDE DEF One
  <2>1. p[n] = [x \in Pointer |-> One(n, x, p)]
    BY <1>1
  <2>2. n \in 0 .. (N + 1)
    OBVIOUS
  <2> QED  BY <2>1, <2>2
<1>3. ASSUME NEW n \in 0 .. (N + 1), NEW x \in Pointer
      PROVE  One(n, x, p) = One(n, x, q)
  <2> HIDE DEF q
  <2>1. CASE n = 0
    BY <2>1
  <2>2. CASE n # 0
    <3>1. n - 1 \in 0 .. N
      BY <2>2
    <3> QED  BY <1>2, <3>1
  <2> QED  BY <2>1, <2>2
<1>4. q = [n \in 0 .. (N + 1) |-> [x \in Pointer |-> One(n, x, q)]]
  <2> HIDE DEF One
  <2>1. \A n \in 0 .. (N + 1) : [x \in Pointer |-> One(n, x, p)] = [x \in Pointer |-> One(n, x, q)]
    BY <1>3
  <2> DEFINE r == q
  <2>2. r = [n \in 0 .. (N + 1) |-> [x \in Pointer |-> One(n, x, p)]]
    OBVIOUS
  <2>3. \A n \in 0 .. (N + 1) : [x \in Pointer |-> One(n, x, p)] = [x \in Pointer |-> One(n, x, r)]
    BY <2>1
  <2> HIDE DEF r
  <2>4. r = [n \in 0 .. (N + 1) |-> [x \in Pointer |-> One(n, x, r)]]
    BY <2>2, <2>3
  <2> QED  BY <2>4 DEF r
<1>5. Walked(link, N + 1, q)
  <2> HIDE DEF q
  <2> QED  BY <1>4 DEF Walked
<1> QED  BY <1>5

LEMMA WalkedExists ==
  ASSUME NEW link, NEW N \in Nat
  PROVE  \E p : Walked(link, N, p)
<1> DEFINE T == {n \in Nat : \E p : Walked(link, n, p)}
<1>1. 0 \in T
  <2> DEFINE p == [n \in 0 .. 0 |-> [x \in Pointer |-> <<>>]]
  <2>1. Walked(link, 0, p)
    BY DEF Walked
  <2> QED  BY <2>1
<1>2. \A n \in T : n + 1 \in T
  BY WalkedOnce
<1>3. T \subseteq Nat
  OBVIOUS
<1> HIDE DEF T
<1>4. T = Nat
  BY <1>1, <1>2, <1>3, AllNaturals
<1> QED  BY <1>4 DEF T

\* The rest of a path is the path from where its first entry leads.
LEMMA PathTail ==
  ASSUME NEW link, NEW x, NEW s, Path(link, x, s), s # <<>>
  PROVE  /\ x = s[1] /\ x \in Entries
         /\ Path(link, link[x], Tail(s)) /\ Len(Tail(s)) = Len(s) - 1
         /\ s = <<x>> \o Tail(s)
<1>1. s \in Seq(Entries) /\ Len(s) \in Nat /\ Len(s) >= 1
  BY DEF Path
<1>2. x = s[1] /\ x \in Entries
  BY <1>1 DEF Path, At
<1>3. /\ Tail(s) \in Seq(Entries) /\ Len(Tail(s)) = Len(s) - 1
      /\ \A i \in 1 .. (Len(s) - 1) : Tail(s)[i] = s[i + 1]
  BY <1>1
<1>4. \A i \in 1 .. (Len(s) - 1) : i + 1 \in 1 .. Len(s) /\ i \in Nat
  BY <1>1
<1>5. \A i \in 1 .. Len(s) : At(Tail(s), i) = At(s, i + 1)
  <2> TAKE i \in 1 .. Len(s)
  <2>1. CASE i = Len(s)
    BY <1>1, <1>3, <2>1 DEF At
  <2>2. CASE i # Len(s)
    <3>1. i \in 1 .. (Len(s) - 1) /\ i + 1 \in 1 .. Len(s)
      BY <1>1, <2>2
    <3> QED  BY <1>3, <3>1 DEF At
  <2> QED  BY <2>1, <2>2
<1>6. link[x] = At(Tail(s), 1)
  <2>1. 1 \in 1 .. Len(s) /\ link[s[1]] = At(s, 1 + 1)
    BY <1>1 DEF Path
  <2> QED  BY <1>2, <1>5, <2>1
<1>7. \A i \in 1 .. Len(Tail(s)) : link[Tail(s)[i]] = At(Tail(s), i + 1)
  <2> TAKE i \in 1 .. Len(Tail(s))
  <2>1. i \in 1 .. (Len(s) - 1) /\ i + 1 \in 1 .. Len(s) /\ i \in Nat
    BY <1>3, <1>4
  <2>2. link[s[i + 1]] = At(s, (i + 1) + 1)
    BY <2>1 DEF Path
  <2>3. At(Tail(s), i + 1) = At(s, (i + 1) + 1)
    BY <1>5, <2>1
  <2> QED  BY <1>3, <2>1, <2>2, <2>3
<1>8. s = <<x>> \o Tail(s)
  BY <1>1, <1>2
<1> QED  BY <1>2, <1>3, <1>6, <1>7, <1>8 DEF Path

\* Walk meets the entries of a path.
LEMMA WalkIs ==
  ASSUME NEW link, IsLink(link), NEW e, NEW s, Path(link, e, s), Len(s) <= MaxEntries
  PROVE  Walk(link, e) = s
<1> DEFINE N == MaxEntries
           Is(p) == Walked(link, N, p)
           p == CHOOSE p : Is(p)
<1>1. N \in Nat
  BY MapAssumption
<1>2. Is(p)
  <2>1. \E q : Is(q)
    BY <1>1, WalkedExists
  <2> HIDE DEF Is
  <2> QED  BY <2>1
<1>3. Walk(link, e) = p[N][e]
  BY DEF Walk, Walked
<1> HIDE DEF p
<1> DEFINE Good(n) == \A x, t : Path(link, x, t) /\ Len(t) <= n => p[n][x] = t
           T == {n \in Nat : n <= N => Good(n)}
<1>4. ASSUME NEW n \in 0 .. N, NEW x \in Pointer
      PROVE  p[n][x] = IF n = 0 \/ x = Null THEN <<>> ELSE <<x>> \o p[n - 1][link[x]]
  <2> DEFINE Here(r) == [y \in Pointer |->
                           IF n = 0 \/ y = Null THEN <<>> ELSE <<y>> \o r[link[y]]]
  <2>1. p[n] = Here(p[n - 1])
    BY <1>2, Zenon DEF Walked
  <2> QED  BY <2>1
<1>5. ASSUME NEW n \in 0 .. N, NEW x, Path(link, x, <<>>)
      PROVE  p[n][x] = <<>>
  <2>1. x = Null /\ x \in Pointer
    BY <1>5 DEF Path, At, Pointer
  <2> QED  BY <1>4, <2>1
<1>6. 0 \in T
  <2>1. ASSUME NEW x, NEW t, Path(link, x, t), Len(t) <= 0
        PROVE  p[0][x] = t
    <3>1. t = <<>>
      BY <2>1 DEF Path
    <3>2. 0 \in 0 .. N
      BY <1>1
    <3> QED  BY <1>5, <2>1, <3>1, <3>2
  <2> QED  BY <2>1
<1>7. ASSUME NEW n \in T PROVE n + 1 \in T
  <2>1. SUFFICES ASSUME n + 1 <= N, NEW x, NEW t, Path(link, x, t), Len(t) <= n + 1
                 PROVE  p[n + 1][x] = t
    OBVIOUS
  <2>2. n + 1 \in 0 .. N /\ n \in Nat /\ n <= N
    BY <1>1, <2>1
  <2>3. CASE t = <<>>
    BY <1>5, <2>1, <2>2, <2>3
  <2>4. CASE t # <<>>
    <3>1. /\ x \in Entries /\ Path(link, link[x], Tail(t)) /\ Len(Tail(t)) = Len(t) - 1
          /\ t = <<x>> \o Tail(t)
      BY <2>1, <2>4, PathTail
    <3>2. Len(t) \in Nat /\ Len(Tail(t)) <= n
      BY <2>1, <2>2, <3>1 DEF Path
    <3>3. p[n][link[x]] = Tail(t)
      BY <2>2, <3>1, <3>2
    <3>4. x \in Pointer /\ x # Null
      BY <3>1 DEF Pointer, Entries, Null
    <3>5. (n + 1) - 1 = n /\ n + 1 # 0
      BY <2>2
    <3>6. p[n + 1][x] = <<x>> \o p[(n + 1) - 1][link[x]]
      BY <1>4, <2>2, <3>4, <3>5
    <3> QED  BY <3>1, <3>3, <3>5, <3>6
  <2> QED  BY <2>3, <2>4
<1>8. T \subseteq Nat
  OBVIOUS
<1>9. N \in T
  <2> HIDE DEF T
  <2> QED  BY <1>1, <1>6, <1>7, <1>8, AllNaturals
<1>10. Good(N)
  BY <1>1, <1>9
<1> QED  BY <1>3, <1>10

\* Entries of which no two are the same are no more than there are.
LEMMA LengthBound ==
  ASSUME NEW s \in Seq(Entries), Apart(s)
  PROVE  Len(s) \in Nat /\ Len(s) <= MaxEntries
<1> DEFINE n == Len(s)
<1>1. n \in Nat /\ s \in [1 .. n -> Entries] /\ MaxEntries \in Nat
  BY MapAssumption
<1>2. s \in Injection(1 .. n, Entries)
  BY <1>1 DEF Injection, IsInjective, Apart
<1>3. ASSUME NEW k \in Nat PROVE IsFiniteSet(1 .. k) /\ Cardinality(1 .. k) = k
  <2>1. Cardinality(1 .. k) = IF 1 > k THEN 0 ELSE k - 1 + 1
    BY FS_Interval
  <2>2. IsFiniteSet(1 .. k)
    BY FS_Interval
  <2> QED  BY <2>1, <2>2
<1> HIDE DEF n
<1>4. Cardinality(1 .. n) <= Cardinality(Entries)
  BY <1>1, <1>2, <1>3, FS_Injection DEF Entries
<1>5. n <= MaxEntries
  BY <1>1, <1>3, <1>4 DEF Entries
<1> QED  BY <1>1, <1>5 DEF n

-----------------------------------------------------------------------------
(* What becomes of a path when an entry comes or goes *)

\* A sequence without what is at place k.
Drop(s, k) == [i \in 1 .. (Len(s) - 1) |-> IF i < k THEN s[i] ELSE s[i + 1]]

LEMMA Members ==
  ASSUME NEW S, NEW s \in Seq(S)
  PROVE  /\ Len(s) \in Nat /\ ToSet(s) \subseteq S
         /\ \A i \in 1 .. Len(s) : s[i] \in S /\ s[i] \in ToSet(s)
         /\ \A e \in ToSet(s) : \E i \in 1 .. Len(s) : s[i] = e
BY DEF ToSet

LEMMA PathSame ==
  ASSUME NEW link, NEW link2, NEW x, NEW s, Path(link, x, s),
         \A d \in ToSet(s) : link2[d] = link[d]
  PROVE  Path(link2, x, s)
<1>1. s \in Seq(Entries)
  BY DEF Path
<1>2. \A i \in 1 .. Len(s) : s[i] \in ToSet(s)
  BY <1>1, Members
<1> QED  BY <1>2 DEF Path

\* An entry in front.
LEMMA PathPush ==
  ASSUME NEW link, NEW link2, NEW x, NEW s, Path(link, x, s), Apart(s),
         NEW e \in Entries \ ToSet(s), link2[e] = x,
         \A d \in ToSet(s) : link2[d] = link[d]
  PROVE  /\ Path(link2, e, <<e>> \o s) /\ Apart(<<e>> \o s)
         /\ ToSet(<<e>> \o s) = ToSet(s) \cup {e}
<1> DEFINE t == <<e>> \o s
           n == Len(s)
<1>1. s \in Seq(Entries) /\ n \in Nat
  BY DEF Path
<1>2. /\ t \in Seq(Entries) /\ Len(t) = n + 1 /\ t[1] = e
      /\ \A i \in 1 .. n : t[i + 1] = s[i]
  BY <1>1
<1>3. ASSUME NEW i \in 1 .. (n + 1), i # 1
      PROVE  i - 1 \in 1 .. n /\ t[i] = s[i - 1]
  <2>1. i - 1 \in 1 .. n /\ (i - 1) + 1 = i
    BY <1>1, <1>3
  <2> QED  BY <1>2, <2>1
<1>4. \A i \in 1 .. n : s[i] \in ToSet(s) /\ s[i] \in Entries
  BY <1>1, Members
<1> HIDE DEF t
<1>5. \A i \in 1 .. (n + 1) : At(t, i + 1) = At(s, i)
  <2> TAKE i \in 1 .. (n + 1)
  <2>1. i + 1 \in 1 .. (n + 1) <=> i \in 1 .. n
    BY <1>1
  <2> QED  BY <1>2, <2>1 DEF At
<1>6. \A i \in 1 .. Len(t) : link2[t[i]] = At(t, i + 1)
  <2> TAKE i \in 1 .. Len(t)
  <2>1. CASE i = 1
    <3>1. At(t, i + 1) = At(s, 1)
      BY <1>1, <1>5, <2>1
    <3> QED  BY <1>2, <2>1, <3>1 DEF Path
  <2>2. CASE i # 1
    <3>1. i - 1 \in 1 .. n /\ t[i] = s[i - 1] /\ (i - 1) + 1 = i
      BY <1>2, <1>3, <2>2
    <3>2. link[s[i - 1]] = At(s, (i - 1) + 1)
      BY <3>1 DEF Path
    <3>3. link2[t[i]] = link[s[i - 1]]
      BY <1>4, <3>1
    <3> QED  BY <1>2, <1>5, <3>1, <3>2, <3>3
  <2> QED  BY <2>1, <2>2
<1>7. Path(link2, e, t)
  <2>1. At(t, 1) = e
    BY <1>1, <1>2 DEF At
  <2> QED  BY <1>2, <1>6, <2>1 DEF Path
<1>8. Apart(t)
  <2>1. ASSUME NEW i \in 1 .. (n + 1), NEW j \in 1 .. (n + 1), t[i] = t[j]
        PROVE  i = j
    <3>1. CASE i = 1 /\ j = 1
      BY <3>1
    <3>2. CASE i = 1 /\ j # 1
      BY <1>2, <1>3, <1>4, <2>1, <3>2
    <3>3. CASE i # 1 /\ j = 1
      BY <1>2, <1>3, <1>4, <2>1, <3>3
    <3>4. CASE i # 1 /\ j # 1
      <4>1. i - 1 \in 1 .. n /\ j - 1 \in 1 .. n /\ s[i - 1] = s[j - 1]
        BY <1>3, <2>1, <3>4
      <4>2. i - 1 = j - 1
        BY <4>1 DEF Apart
      <4> QED  BY <1>1, <4>2
    <3> QED  BY <3>1, <3>2, <3>3, <3>4
  <2> QED  BY <1>2, <2>1 DEF Apart
<1>9. ToSet(t) = ToSet(s) \cup {e}
  <2>1. \A d \in ToSet(t) : d \in ToSet(s) \cup {e}
    <3> TAKE d \in ToSet(t)
    <3>1. PICK i \in 1 .. (n + 1) : t[i] = d
      BY <1>2, Members
    <3> QED  BY <1>2, <1>3, <1>4, <3>1
  <2>2. \A d \in ToSet(s) : d \in ToSet(t)
    <3> TAKE d \in ToSet(s)
    <3>1. PICK i \in 1 .. n : s[i] = d
      BY <1>1, Members
    <3>2. i + 1 \in 1 .. Len(t) /\ t[i + 1] = d
      BY <1>1, <1>2, <3>1
    <3> QED  BY <1>2, <3>2, Members
  <2>3. e \in ToSet(t)
    <3>1. 1 \in 1 .. Len(t)
      BY <1>1, <1>2
    <3> QED  BY <1>2, <3>1, Members
  <2> QED  BY <2>1, <2>2, <2>3
<1> QED  BY <1>7, <1>8, <1>9 DEF t

\* An entry behind.
LEMMA PathAppend ==
  ASSUME NEW link, NEW link2, NEW x, NEW s, Path(link, x, s), Apart(s),
         NEW e \in Entries \ ToSet(s), link2[e] = Null,
         \A i \in 1 .. Len(s) : link2[s[i]] = IF i = Len(s) THEN e ELSE link[s[i]]
  PROVE  /\ Path(link2, IF s = <<>> THEN e ELSE x, Append(s, e))
         /\ Apart(Append(s, e))
         /\ ToSet(Append(s, e)) = ToSet(s) \cup {e}
<1> DEFINE t == Append(s, e)
           n == Len(s)
<1>1. s \in Seq(Entries) /\ n \in Nat
  BY DEF Path
<1>2. /\ t \in Seq(Entries) /\ Len(t) = n + 1 /\ t[n + 1] = e
      /\ \A i \in 1 .. n : t[i] = s[i]
  BY <1>1
<1>4. \A i \in 1 .. n : s[i] \in ToSet(s) /\ s[i] \in Entries
  BY <1>1, Members
<1> HIDE DEF t
<1>5. \A i \in 1 .. n : At(t, i) = At(s, i)
  BY <1>1, <1>2 DEF At
<1>6. \A i \in 1 .. Len(t) : link2[t[i]] = At(t, i + 1)
  <2> TAKE i \in 1 .. Len(t)
  <2>1. CASE i = n + 1
    BY <1>1, <1>2, <2>1 DEF At
  <2>2. CASE i = n /\ n # 0
    <3>1. At(t, i + 1) = e /\ i \in 1 .. n
      BY <1>1, <1>2, <2>2 DEF At
    <3> QED  BY <1>2, <2>2, <3>1
  <2>3. CASE i # n + 1 /\ i # n
    <3>1. i \in 1 .. n /\ i + 1 \in 1 .. n
      BY <1>1, <1>2, <2>3
    <3>2. link[s[i]] = At(s, i + 1)
      BY <3>1 DEF Path
    <3> QED  BY <1>2, <1>5, <2>3, <3>1, <3>2
  <2> QED  BY <1>1, <1>2, <2>1, <2>2, <2>3
<1>7. Path(link2, IF s = <<>> THEN e ELSE x, t)
  <2>1. At(t, 1) = IF s = <<>> THEN e ELSE x
    <3>1. CASE s = <<>>
      BY <1>2, <3>1 DEF At
    <3>2. CASE s # <<>>
      <4>1. 1 \in 1 .. n
        BY <1>1, <3>2
      <4> QED  BY <1>5, <3>2, <4>1 DEF Path
    <3> QED  BY <3>1, <3>2
  <2> QED  BY <1>2, <1>6, <2>1 DEF Path
<1>8. Apart(t)
  <2>1. ASSUME NEW i \in 1 .. (n + 1), NEW j \in 1 .. (n + 1), t[i] = t[j]
        PROVE  i = j
    <3>1. \A k \in 1 .. (n + 1) : k # n + 1 => k \in 1 .. n
      BY <1>1
    <3>2. CASE i = n + 1 /\ j # n + 1
      BY <1>2, <1>4, <2>1, <3>1, <3>2
    <3>3. CASE i # n + 1 /\ j = n + 1
      BY <1>2, <1>4, <2>1, <3>1, <3>3
    <3>4. CASE i # n + 1 /\ j # n + 1
      BY <1>2, <2>1, <3>1, <3>4 DEF Apart
    <3> QED  BY <3>2, <3>3, <3>4
  <2> QED  BY <1>2, <2>1 DEF Apart
<1>9. ToSet(t) = ToSet(s) \cup {e}
  <2>1. \A d \in ToSet(t) : d \in ToSet(s) \cup {e}
    <3> TAKE d \in ToSet(t)
    <3>1. PICK i \in 1 .. (n + 1) : t[i] = d
      BY <1>2, Members
    <3>2. i = n + 1 \/ i \in 1 .. n
      BY <1>1
    <3> QED  BY <1>2, <1>4, <3>1, <3>2
  <2>2. \A d \in ToSet(s) : d \in ToSet(t)
    <3> TAKE d \in ToSet(s)
    <3>1. PICK i \in 1 .. n : s[i] = d
      BY <1>1, Members
    <3>2. i \in 1 .. Len(t) /\ t[i] = d
      BY <1>1, <1>2, <3>1
    <3> QED  BY <1>2, <3>2, Members
  <2>3. e \in ToSet(t)
    <3>1. n + 1 \in 1 .. Len(t)
      BY <1>1, <1>2
    <3> QED  BY <1>2, <3>1, Members
  <2> QED  BY <2>1, <2>2, <2>3
<1> QED  BY <1>7, <1>8, <1>9 DEF t

LEMMA DropFacts ==
  ASSUME NEW s \in Seq(Entries), Apart(s), NEW k \in 1 .. Len(s)
  PROVE  /\ Drop(s, k) \in Seq(Entries) /\ Len(Drop(s, k)) = Len(s) - 1
         /\ Apart(Drop(s, k)) /\ ToSet(Drop(s, k)) = ToSet(s) \ {s[k]}
<1> DEFINE t == Drop(s, k)
           n == Len(s)
<1>1. n \in Nat /\ n >= 1 /\ k \in 1 .. n
  OBVIOUS
<1>2. \A i \in 1 .. (n - 1) : /\ i \in 1 .. n /\ i + 1 \in 1 .. n
                              /\ t[i] = IF i < k THEN s[i] ELSE s[i + 1]
  BY <1>1 DEF Drop
<1>3. t \in Seq(Entries) /\ Len(t) = n - 1
  <2>1. n - 1 \in Nat
    BY <1>1
  <2>2. t \in [1 .. (n - 1) -> Entries]
    <3>1. \A i \in 1 .. (n - 1) : (IF i < k THEN s[i] ELSE s[i + 1]) \in Entries
      BY <1>2
    <3> QED  BY <3>1 DEF Drop
  <2> QED  BY <2>1, <2>2
<1> HIDE DEF t
<1>4. Apart(t)
  <2>1. ASSUME NEW i \in 1 .. (n - 1), NEW j \in 1 .. (n - 1), t[i] = t[j]
        PROVE  i = j
    <3>1. CASE i < k /\ j < k
      BY <1>2, <2>1, <3>1 DEF Apart
    <3>2. CASE i < k /\ ~(j < k)
      <4>1. i = j + 1
        BY <1>2, <2>1, <3>2 DEF Apart
      <4> QED  BY <1>1, <3>2, <4>1
    <3>3. CASE ~(i < k) /\ j < k
      <4>1. i + 1 = j
        BY <1>2, <2>1, <3>3 DEF Apart
      <4> QED  BY <1>1, <3>3, <4>1
    <3>4. CASE ~(i < k) /\ ~(j < k)
      <4>1. i + 1 = j + 1
        BY <1>2, <2>1, <3>4 DEF Apart
      <4> QED  BY <1>1, <4>1
    <3> QED  BY <3>1, <3>2, <3>3, <3>4
  <2> QED  BY <1>3, <2>1 DEF Apart
<1>5. \A d \in ToSet(t) : d \in ToSet(s) \ {s[k]}
  <2> TAKE d \in ToSet(t)
  <2>1. PICK i \in 1 .. (n - 1) : t[i] = d
    BY <1>3, Members
  <2>2. PICK j \in 1 .. n : j # k /\ s[j] = d
    <3>1. CASE i < k
      BY <1>2, <2>1, <3>1
    <3>2. CASE ~(i < k)
      <4>1. i + 1 # k /\ i + 1 \in 1 .. n
        BY <1>1, <1>2, <3>2
      <4> QED  BY <1>2, <2>1, <3>2, <4>1
    <3> QED  BY <3>1, <3>2
  <2>3. d # s[k]
    BY <2>2 DEF Apart
  <2> QED  BY <2>2, <2>3, Members
<1>6. \A d \in ToSet(s) \ {s[k]} : d \in ToSet(t)
  <2> TAKE d \in ToSet(s) \ {s[k]}
  <2>1. PICK j \in 1 .. n : s[j] = d
    BY Members
  <2>2. j # k
    BY <2>1
  <2>3. PICK i \in 1 .. (n - 1) : t[i] = d
    <3>1. CASE j < k
      <4>1. j \in 1 .. (n - 1)
        BY <1>1, <3>1
      <4> QED  BY <1>2, <2>1, <3>1, <4>1
    <3>2. CASE ~(j < k)
      <4>1. j - 1 \in 1 .. (n - 1) /\ ~(j - 1 < k) /\ (j - 1) + 1 = j
        BY <1>1, <2>2, <3>2
      <4>2. t[j - 1] = d
        BY <1>2, <2>1, <4>1
      <4> QED  BY <4>1, <4>2
    <3> QED  BY <3>1, <3>2
  <2> QED  BY <1>3, <2>3, Members
<1> QED  BY <1>3, <1>4, <1>5, <1>6 DEF t

\* An entry is bypassed by the link that led to it.
LEMMA PathDrop ==
  ASSUME NEW link, NEW link2, NEW x, NEW s, Path(link, x, s), Apart(s),
         NEW k \in 1 .. Len(s),
         \A d \in ToSet(s) \ {s[k]} :
           link2[d] = IF link[d] = s[k] THEN link[s[k]] ELSE link[d]
  PROVE  Path(link2, IF x = s[k] THEN link[s[k]] ELSE x, Drop(s, k))
<1> DEFINE t == Drop(s, k)
           n == Len(s)
           x2 == IF x = s[k] THEN link[s[k]] ELSE x
<1>1. s \in Seq(Entries) /\ n \in Nat /\ k \in 1 .. n /\ n >= 1
  BY DEF Path
<1>2. t \in Seq(Entries) /\ Len(t) = n - 1
  BY <1>1, DropFacts
<1>3. \A i \in 1 .. (n - 1) : /\ i \in 1 .. n /\ i + 1 \in 1 .. n
                              /\ t[i] = IF i < k THEN s[i] ELSE s[i + 1]
  BY <1>1 DEF Drop
<1> HIDE DEF t
<1>4. \A i \in 1 .. n : At(t, i) = IF i < k THEN At(s, i) ELSE At(s, i + 1)
  <2> TAKE i \in 1 .. n
  <2>1. CASE i = n
    BY <1>1, <1>2, <2>1 DEF At
  <2>2. CASE i # n
    <3>1. i \in 1 .. (n - 1)
      BY <1>1, <2>2
    <3> QED  BY <1>2, <1>3, <3>1 DEF At
  <2> QED  BY <2>1, <2>2
<1>5. \A i \in 1 .. n : /\ s[i] \in Entries /\ link[s[i]] = At(s, i + 1)
                        /\ s[i] # Null /\ s[i] \in ToSet(s)
  <2>1. \A i \in 1 .. n : s[i] \in Entries /\ s[i] \in ToSet(s)
    BY <1>1, Members
  <2>2. \A i \in 1 .. n : s[i] # Null
    BY <2>1 DEF Entries, Null
  <2>3. \A i \in 1 .. n : link[s[i]] = At(s, i + 1)
    BY DEF Path
  <2> QED  BY <2>1, <2>2, <2>3
<1>6. \A i \in 1 .. n : link[s[i]] = s[k] <=> i + 1 = k
  <2> TAKE i \in 1 .. n
  <2>1. ASSUME link[s[i]] = s[k] PROVE i + 1 = k
    <3>1. At(s, i + 1) # Null
      BY <1>5, <2>1
    <3>2. i + 1 \in 1 .. n /\ s[i + 1] = s[k]
      BY <1>5, <2>1, <3>1 DEF At
    <3> QED  BY <3>2 DEF Apart
  <2>2. ASSUME i + 1 = k PROVE link[s[i]] = s[k]
    BY <1>5, <2>2 DEF At
  <2> QED  BY <2>1, <2>2
<1>7. \A i \in 1 .. n : i # k => link2[s[i]] = IF i + 1 = k THEN At(s, k + 1) ELSE At(s, i + 1)
  <2> TAKE i \in 1 .. n
  <2> HAVE i # k
  <2>1. s[i] \in ToSet(s) \ {s[k]}
    BY <1>5 DEF Apart
  <2> QED  BY <1>5, <1>6, <2>1
<1>8. \A i \in 1 .. (n - 1) : link2[t[i]] = At(t, i + 1)
  <2> TAKE i \in 1 .. (n - 1)
  <2>1. i + 1 \in 1 .. n /\ i \in 1 .. n
    BY <1>3
  <2>2. At(t, i + 1) = IF i + 1 < k THEN At(s, i + 1) ELSE At(s, (i + 1) + 1)
    BY <1>4, <2>1
  <2>3. CASE i < k
    <3>1. t[i] = s[i] /\ i # k
      BY <1>3, <2>3
    <3>2. link2[s[i]] = IF i + 1 = k THEN At(s, k + 1) ELSE At(s, i + 1)
      BY <1>7, <2>1, <3>1
    <3>3. CASE i + 1 = k
      BY <2>2, <3>1, <3>2, <3>3
    <3>4. CASE i + 1 # k
      <4>1. i + 1 < k
        BY <2>3, <3>4
      <4> QED  BY <2>2, <3>1, <3>2, <3>4, <4>1
    <3> QED  BY <3>3, <3>4
  <2>4. CASE ~(i < k)
    <3>1. t[i] = s[i + 1] /\ i + 1 # k /\ (i + 1) + 1 # k /\ ~(i + 1 < k)
      BY <1>3, <2>4
    <3>2. link2[s[i + 1]] = At(s, (i + 1) + 1)
      BY <1>7, <2>1, <3>1
    <3> QED  BY <2>2, <3>1, <3>2
  <2> QED  BY <2>3, <2>4
<1>9. x2 = At(t, 1)
  <2>1. At(t, 1) = IF 1 < k THEN At(s, 1) ELSE At(s, 1 + 1)
    <3>1. 1 \in 1 .. n
      BY <1>1
    <3> QED  BY <1>4, <3>1
  <2>2. x = At(s, 1) /\ x = s[1] /\ 1 \in 1 .. n
    BY <1>1 DEF Path, At
  <2>3. x = s[k] <=> k = 1
    BY <2>2 DEF Apart
  <2>4. CASE k = 1
    BY <1>5, <2>1, <2>2, <2>3, <2>4
  <2>5. CASE k # 1
    <3>1. 1 < k
      BY <1>1, <2>5
    <3> QED  BY <2>1, <2>2, <2>3, <2>5, <3>1
  <2> QED  BY <2>4, <2>5
<1>10. Path(link2, x2, t)
  <2> HIDE DEF x2
  <2> QED  BY <1>2, <1>8, <1>9 DEF Path
<1> QED  BY <1>10 DEF t

-----------------------------------------------------------------------------
(* The list, read backwards *)

LEMMA ReverseFacts ==
  ASSUME NEW s \in Seq(Entries)
  PROVE  /\ Reverse(s) \in Seq(Entries) /\ Len(Reverse(s)) = Len(s)
         /\ \A i \in 1 .. Len(s) : /\ (Len(s) - i) + 1 \in 1 .. Len(s)
                                   /\ Reverse(s)[i] = s[(Len(s) - i) + 1]
         /\ Apart(s) => Apart(Reverse(s))
         /\ ToSet(Reverse(s)) = ToSet(s)
<1> DEFINE n == Len(s)
           t == Reverse(s)
<1>1. n \in Nat /\ \A i \in 1 .. n : (n - i) + 1 \in 1 .. n
  OBVIOUS
<1>2. t = [i \in 1 .. n |-> s[(n - i) + 1]]
  BY DEF Reverse
<1>3. t \in [1 .. n -> Entries]
  BY <1>1, <1>2
<1>4. t \in Seq(Entries) /\ Len(t) = n
  BY <1>1, <1>3
<1>5. \A i \in 1 .. n : t[i] = s[(n - i) + 1]
  BY <1>2
<1> HIDE DEF t
<1>6. Apart(s) => Apart(t)
  <2> SUFFICES ASSUME Apart(s), NEW i \in 1 .. n, NEW j \in 1 .. n, t[i] = t[j]
               PROVE  i = j
    BY <1>4 DEF Apart
  <2>1. (n - i) + 1 = (n - j) + 1
    <3>1. s[(n - i) + 1] = s[(n - j) + 1]
      BY <1>5
    <3> QED  BY <1>1, <3>1 DEF Apart
  <2> QED  BY <1>1, <2>1
<1>7. \A d \in ToSet(t) : d \in ToSet(s)
  <2> TAKE d \in ToSet(t)
  <2>1. PICK i \in 1 .. n : t[i] = d
    BY <1>4, Members
  <2> QED  BY <1>1, <1>5, <2>1, Members
<1>8. \A d \in ToSet(s) : d \in ToSet(t)
  <2> TAKE d \in ToSet(s)
  <2>1. PICK i \in 1 .. n : s[i] = d
    BY Members
  <2>2. (n - i) + 1 \in 1 .. n /\ (n - ((n - i) + 1)) + 1 = i
    BY <1>1
  <2>3. t[(n - i) + 1] = d
    BY <1>5, <2>1, <2>2
  <2> QED  BY <1>4, <2>2, <2>3, Members
<1> QED  BY <1>1, <1>4, <1>5, <1>6, <1>7, <1>8 DEF t

LEMMA ReverseAppend ==
  ASSUME NEW s \in Seq(Entries), NEW e \in Entries
  PROVE  Reverse(Append(s, e)) = <<e>> \o Reverse(s)
<1> DEFINE n == Len(s)
           a == Append(s, e)
           b == <<e>> \o Reverse(s)
<1>1. n \in Nat /\ a \in Seq(Entries) /\ Len(a) = n + 1 /\ a[n + 1] = e
      /\ \A i \in 1 .. n : a[i] = s[i]
  OBVIOUS
<1>2. /\ Reverse(a) \in Seq(Entries) /\ Len(Reverse(a)) = n + 1
      /\ \A i \in 1 .. (n + 1) : Reverse(a)[i] = a[((n + 1) - i) + 1]
  <2> HIDE DEF a
  <2> QED  BY <1>1, ReverseFacts
<1>3. /\ Reverse(s) \in Seq(Entries) /\ Len(Reverse(s)) = n
      /\ \A i \in 1 .. n : (n - i) + 1 \in 1 .. n /\ Reverse(s)[i] = s[(n - i) + 1]
  BY ReverseFacts
<1>4. /\ b \in Seq(Entries) /\ Len(b) = n + 1 /\ b[1] = e
      /\ \A i \in 1 .. n : b[i + 1] = Reverse(s)[i]
  BY <1>1, <1>3
<1> HIDE DEF a, b
<1>5. ASSUME NEW i \in 1 .. (n + 1) PROVE Reverse(a)[i] = b[i]
  <2>1. CASE i = 1
    <3>1. ((n + 1) - i) + 1 = n + 1
      BY <1>1, <2>1
    <3>2. Reverse(a)[i] = a[n + 1]
      BY <1>2, <3>1
    <3> QED  BY <1>1, <1>4, <2>1, <3>2
  <2>2. CASE i # 1
    <3>1. i - 1 \in 1 .. n /\ (i - 1) + 1 = i /\ ((n + 1) - i) + 1 = (n - (i - 1)) + 1
      BY <1>1, <2>2
    <3>2. (n - (i - 1)) + 1 \in 1 .. n /\ b[i] = s[(n - (i - 1)) + 1]
      BY <1>3, <1>4, <3>1
    <3>3. Reverse(a)[i] = a[(n - (i - 1)) + 1]
      BY <1>2, <3>1
    <3> QED  BY <1>1, <3>2, <3>3
  <2> QED  BY <2>1, <2>2
<1>6. Reverse(a) = b
  BY <1>2, <1>4, <1>5
<1> QED  BY <1>6 DEF a, b

LEMMA ReverseDrop ==
  ASSUME NEW s \in Seq(Entries), Apart(s), NEW k \in 1 .. Len(s)
  PROVE  /\ (Len(s) - k) + 1 \in 1 .. Len(s)
         /\ Reverse(s)[(Len(s) - k) + 1] = s[k]
         /\ Reverse(Drop(s, k)) = Drop(Reverse(s), (Len(s) - k) + 1)
<1> DEFINE n == Len(s)
           m == (n - k) + 1
           a == Drop(s, k)
           r == Reverse(s)
           b == Drop(r, m)
<1>1. n \in Nat /\ m \in 1 .. n /\ (n - m) + 1 = k /\ n >= 1
  OBVIOUS
<1>2. /\ r \in Seq(Entries) /\ Len(r) = n /\ Apart(r)
      /\ \A i \in 1 .. n : r[i] = s[(n - i) + 1]
  BY ReverseFacts
<1>3. /\ a \in Seq(Entries) /\ Len(a) = n - 1
      /\ \A i \in 1 .. (n - 1) : a[i] = IF i < k THEN s[i] ELSE s[i + 1]
  BY <1>1, DropFacts DEF Drop
<1> HIDE DEF r
<1>4. /\ b \in Seq(Entries) /\ Len(b) = n - 1
      /\ \A i \in 1 .. (n - 1) : b[i] = IF i < m THEN r[i] ELSE r[i + 1]
  <2>1. m \in 1 .. Len(r)
    BY <1>1, <1>2
  <2>2. b \in Seq(Entries) /\ Len(b) = n - 1
    <3> HIDE DEF m
    <3> QED  BY <1>2, <2>1, DropFacts
  <2>3. b = [i \in 1 .. (n - 1) |-> IF i < m THEN r[i] ELSE r[i + 1]]
    BY <1>2 DEF Drop
  <2> QED  BY <2>2, <2>3
<1>5. /\ Reverse(a) \in Seq(Entries) /\ Len(Reverse(a)) = n - 1
      /\ \A i \in 1 .. (n - 1) : Reverse(a)[i] = a[((n - 1) - i) + 1]
  <2> HIDE DEF a, n
  <2>1. /\ Reverse(a) \in Seq(Entries) /\ Len(Reverse(a)) = Len(a)
        /\ \A i \in 1 .. Len(a) : Reverse(a)[i] = a[(Len(a) - i) + 1]
    BY <1>3, ReverseFacts
  <2> QED  BY <1>3, <2>1
<1> HIDE DEF a, b
<1>6. ASSUME NEW i \in 1 .. (n - 1) PROVE Reverse(a)[i] = b[i]
  <2>1. n - i \in 1 .. (n - 1) /\ ((n - 1) - i) + 1 = n - i
        /\ i \in 1 .. n /\ i + 1 \in 1 .. n /\ (n - (i + 1)) + 1 = n - i
    BY <1>1
  <2>2. Reverse(a)[i] = IF n - i < k THEN s[n - i] ELSE s[(n - i) + 1]
    BY <1>3, <1>5, <2>1
  <2>3. b[i] = IF i < m THEN s[(n - i) + 1] ELSE s[n - i]
    BY <1>2, <1>4, <2>1
  <2>4. n - i < k <=> ~(i < m)
    BY <1>1
  <2> QED  BY <2>2, <2>3, <2>4
<1>7. Reverse(a) = b
  <2> HIDE DEF n
  <2>1. b = [i \in 1 .. (n - 1) |-> b[i]]
    BY <1>1, <1>4
  <2>2. Reverse(a) = [i \in 1 .. (n - 1) |-> Reverse(a)[i]]
    BY <1>1, <1>5
  <2> QED  BY <1>6, <2>1, <2>2
<1>8. r[m] = s[k]
  BY <1>1, <1>2
<1> QED  BY <1>1, <1>7, <1>8 DEF a, b, r

-----------------------------------------------------------------------------
(* The invariant *)

\* A record with the fields of struct hashmap, each of its type, in which unused
\* entries lead nowhere.
IsMap(m) ==
  /\ m = [live |-> m.live, key |-> m.key, val |-> m.val, chain |-> m.chain,
          prev |-> m.prev, next |-> m.next, bucket |-> m.bucket, cap |-> m.cap,
          size |-> m.size, head |-> m.head, tail |-> m.tail]
  /\ m.live \subseteq Entries
  /\ m.key \in [Entries -> Keys \cup {0}]
  /\ m.val \in [Entries -> Values \cup {NoValue}]
  /\ IsLink(m.chain) /\ IsLink(m.prev) /\ IsLink(m.next)
  /\ m.cap \in Nat \ {0}
  /\ m.bucket \in [0 .. (m.cap - 1) -> Pointer]
  /\ \A e \in Entries \ m.live : m.next[e] = Null

\* The entries of s are the list, read in either direction.
Listing(m, s) ==
  /\ Apart(s) /\ ToSet(s) = m.live /\ m.size = Len(s)
  /\ Path(m.next, m.head, s)
  /\ Path(m.prev, m.tail, Reverse(s))

\* The links lead from e through T and nothing else.
Chained(link, e, T) == \E c : Path(link, e, c) /\ Apart(c) /\ ToSet(c) = T

\* Of the entries D, those that belong in bucket b.
Hashed(D, key, cap, b) == {e \in D : key[e] % cap = b}

\* The chains hold the entries D, each where it belongs.
Bucketed(chain, bucket, key, cap, D) ==
  \A b \in 0 .. (cap - 1) : Chained(chain, bucket[b], Hashed(D, key, cap, b))

Keyed(m) ==
  /\ \A e \in m.live : m.key[e] \in Keys /\ m.val[e] \in Values
  /\ \A d, e \in m.live : m.key[d] = m.key[e] => d = e

SoundMap(m) ==
  /\ IsMap(m)
  /\ \E s : Listing(m, s)
  /\ Bucketed(m.chain, m.bucket, m.key, m.cap, m.live)
  /\ Keyed(m)

LEMMA KeyFacts ==
  ASSUME NEW k \in Keys, NEW c \in Nat \ {0}
  PROVE  k \in Nat /\ k % c \in 0 .. (c - 1)
BY MapAssumption

LEMMA PointerFacts ==
  /\ Entries \subseteq Pointer /\ Null \in Pointer /\ Null \notin Entries
  /\ Entries \subseteq Nat \ {0}
BY DEF Pointer, Entries, Null

LEMMA PathStart ==
  ASSUME NEW link, NEW e, NEW s, Path(link, e, s)
  PROVE  s \in Seq(Entries) /\ e \in Pointer
<1>1. s \in Seq(Entries) /\ e = At(s, 1)
  BY DEF Path
<1>2. 1 \in 1 .. Len(s) => s[1] \in Entries
  BY <1>1
<1> QED  BY <1>1, <1>2, PointerFacts DEF At

\* What the operators that walk return.
LEMMA ListedIs ==
  ASSUME NEW m, IsMap(m), NEW s, Listing(m, s)
  PROVE  /\ s \in Seq(Entries) /\ Listed(m) = s /\ Walk(m.prev, m.tail) = Reverse(s)
         /\ m.head \in Pointer /\ m.tail \in Pointer /\ m.size \in Nat
<1>1. s \in Seq(Entries) /\ m.head \in Pointer /\ m.tail \in Pointer
  BY PathStart DEF Listing
<1>2. Len(s) <= MaxEntries /\ Len(s) \in Nat
  BY <1>1, LengthBound DEF Listing
<1>3. Listed(m) = s
  BY <1>2, WalkIs DEF Listed, Listing, IsMap
<1>4. Len(Reverse(s)) = Len(s)
  BY <1>1, ReverseFacts
<1>5. Walk(m.prev, m.tail) = Reverse(s)
  BY <1>2, <1>4, WalkIs DEF Listing, IsMap
<1> QED  BY <1>1, <1>2, <1>3, <1>5 DEF Listing

LEMMA ChainIs ==
  ASSUME NEW m, IsMap(m), NEW b, NEW T, Chained(m.chain, m.bucket[b], T)
  PROVE  /\ Chain(m, b) \in Seq(Entries) /\ Apart(Chain(m, b)) /\ ToSet(Chain(m, b)) = T
         /\ Path(m.chain, m.bucket[b], Chain(m, b))
<1>1. PICK c : Path(m.chain, m.bucket[b], c) /\ Apart(c) /\ ToSet(c) = T
  BY DEF Chained
<1>2. c \in Seq(Entries)
  BY <1>1, PathStart
<1>3. Len(c) <= MaxEntries
  BY <1>1, <1>2, LengthBound
<1>4. Chain(m, b) = c
  BY <1>1, <1>3, WalkIs DEF Chain, IsMap
<1> QED  BY <1>1, <1>2, <1>4

LEMMA FindIs ==
  ASSUME NEW m, SoundMap(m), NEW k \in Keys
  PROVE  \/ Find(m, k) = Null /\ \A e \in m.live : m.key[e] # k
         \/ Find(m, k) \in m.live /\ Find(m, k) # Null /\ m.key[Find(m, k)] = k
<1> DEFINE b == k % m.cap
           c == Chain(m, b)
           hits == {i \in DOMAIN c : m.key[c[i]] = k}
           i == CHOOSE i \in hits : \A j \in hits : i <= j
<1>1. IsMap(m) /\ m.cap \in Nat \ {0} /\ m.live \subseteq Entries
  BY DEF SoundMap, IsMap
<1>2. b \in 0 .. (m.cap - 1)
  BY <1>1, KeyFacts
<1> HIDE DEF b
<1>3. c \in Seq(Entries) /\ ToSet(c) = Hashed(m.live, m.key, m.cap, b)
  BY <1>1, <1>2, ChainIs DEF SoundMap, Bucketed
<1>4. Find(m, k) = IF hits = {} THEN Null ELSE c[i]
  BY Zenon DEF Find, b
<1>5. \A e \in m.live : m.key[e] = k => e \in ToSet(c)
  BY <1>3 DEF Hashed, b
<1> HIDE DEF c
<1>6. hits \subseteq Nat
  BY <1>3
<1>7. CASE hits = {}
  <2>1. \A e \in m.live : m.key[e] # k
    <3> SUFFICES ASSUME NEW e \in m.live, m.key[e] = k PROVE FALSE
      OBVIOUS
    <3>1. PICK j \in 1 .. Len(c) : c[j] = e
      BY <1>3, <1>5, Members
    <3>2. j \in hits
      BY <1>3, <3>1
    <3> QED  BY <1>7, <3>2
  <2> QED  BY <1>4, <1>7, <2>1
<1>8. CASE hits # {}
  <2>1. \E x \in hits : \A y \in hits : x <= y
    <3> HIDE DEF hits
    <3> QED  BY <1>6, <1>8, LeastNatural
  <2>2. i \in hits
    <3> HIDE DEF hits
    <3> QED  BY <2>1
  <2> HIDE DEF i
  <2>3. i \in 1 .. Len(c) /\ m.key[c[i]] = k
    BY <1>3, <2>2
  <2>4. c[i] \in ToSet(c)
    BY <1>3, <2>3, Members
  <2>5. c[i] \in m.live
    BY <1>3, <2>4 DEF Hashed
  <2> QED  BY <1>1, <1>4, <1>8, <2>3, <2>5, PointerFacts
<1> QED  BY <1>7, <1>8

\* hashmap_get returns the value of the entry with the key, or null.
LEMMA GetIs ==
  ASSUME NEW m, SoundMap(m), NEW k \in Keys
  PROVE  /\ \A e \in m.live : m.key[e] = k => Get(m, k) = m.val[e]
         /\ (\A e \in m.live : m.key[e] # k) => Get(m, k) = NoValue
<1>1. \A d, e \in m.live : m.key[d] = m.key[e] => d = e
  BY DEF SoundMap, Keyed
<1>2. Get(m, k) = IF Find(m, k) = Null THEN NoValue ELSE m.val[Find(m, k)]
  BY DEF Get
<1>3. m.live \subseteq Entries
  BY DEF SoundMap, IsMap
<1> QED  BY <1>1, <1>2, <1>3, FindIs

LEMMA SoundConsistent ==
  ASSUME SoundMap(map), errno \in {0, 1}, strained \in BOOLEAN
  PROVE  Consistent
<1>1. IsMap(map)
  BY DEF SoundMap
<1>2. PICK s : Listing(map, s)
  BY DEF SoundMap
<1>3. /\ s \in Seq(Entries) /\ Listed(map) = s /\ Walk(map.prev, map.tail) = Reverse(s)
      /\ map.head \in Pointer /\ map.tail \in Pointer /\ map.size \in Nat
  BY <1>1, <1>2, ListedIs
<1>4. TypeOK
  BY <1>1, <1>3 DEF TypeOK, IsMap, IsLink
<1>5. ASSUME NEW b \in DOMAIN map.bucket
      PROVE  /\ ToSet(Chain(map, b)) = {e \in map.live : map.key[e] % map.cap = b}
             /\ IsInjective(Chain(map, b))
  <2>1. b \in 0 .. (map.cap - 1)
    BY <1>1 DEF IsMap
  <2>2. Chained(map.chain, map.bucket[b], Hashed(map.live, map.key, map.cap, b))
    BY <2>1 DEF SoundMap, Bucketed
  <2>3. /\ Chain(map, b) \in Seq(Entries) /\ Apart(Chain(map, b))
        /\ ToSet(Chain(map, b)) = Hashed(map.live, map.key, map.cap, b)
    BY <1>1, <2>2, ChainIs
  <2> QED  BY <2>3 DEF Hashed, Apart, IsInjective
<1>6. \A d, e \in map.live : map.key[d] = map.key[e] => d = e
  BY DEF SoundMap, Keyed
<1>7. ToSet(s) = map.live /\ map.size = Len(s)
  BY <1>2 DEF Listing
<1> QED  BY <1>3, <1>4, <1>5, <1>6, <1>7 DEF Consistent

-----------------------------------------------------------------------------
(* Chains *)

LEMMA ChainedSame ==
  ASSUME NEW link, NEW link2, NEW x, NEW T, Chained(link, x, T),
         \A d \in T : link2[d] = link[d]
  PROVE  Chained(link2, x, T)
<1>1. PICK c : Path(link, x, c) /\ Apart(c) /\ ToSet(c) = T
  BY DEF Chained
<1>2. Path(link2, x, c)
  BY <1>1, PathSame
<1> QED  BY <1>1, <1>2 DEF Chained

LEMMA ChainedPush ==
  ASSUME NEW link, NEW link2, NEW x, NEW T, Chained(link, x, T),
         NEW e \in Entries \ T, link2[e] = x, \A d \in T : link2[d] = link[d]
  PROVE  Chained(link2, e, T \cup {e})
<1>1. PICK c : Path(link, x, c) /\ Apart(c) /\ ToSet(c) = T
  BY DEF Chained
<1>2. /\ Path(link2, e, <<e>> \o c) /\ Apart(<<e>> \o c)
      /\ ToSet(<<e>> \o c) = ToSet(c) \cup {e}
  BY <1>1, PathPush
<1> QED  BY <1>1, <1>2 DEF Chained

LEMMA ChainedDrop ==
  ASSUME NEW link, NEW link2, NEW x, NEW T, Chained(link, x, T), NEW e \in T,
         \A d \in T \ {e} : link2[d] = IF link[d] = e THEN link[e] ELSE link[d]
  PROVE  Chained(link2, IF x = e THEN link[e] ELSE x, T \ {e})
<1>1. PICK c : Path(link, x, c) /\ Apart(c) /\ ToSet(c) = T
  BY DEF Chained
<1>2. c \in Seq(Entries)
  BY <1>1, PathStart
<1>3. PICK k \in 1 .. Len(c) : c[k] = e
  BY <1>1, <1>2, Members
<1>4. Path(link2, IF x = e THEN link[e] ELSE x, Drop(c, k))
  BY <1>1, <1>3, PathDrop
<1>5. Apart(Drop(c, k)) /\ ToSet(Drop(c, k)) = T \ {e}
  BY <1>1, <1>2, <1>3, DropFacts
<1> QED  BY <1>4, <1>5 DEF Chained

\* An entry is put in front of its chain, in bucket b.
InFront(chain, bucket, key, cap, D, e, chain2, bucket2, key2, b) ==
  /\ e \in Entries /\ e \notin D /\ key2[e] % cap = b
  /\ chain2[e] = bucket[b] /\ bucket2[b] = e
  /\ \A d \in D : key2[d] = key[d] /\ chain2[d] = chain[d]
  /\ \A a \in 0 .. (cap - 1) : a # b => bucket2[a] = bucket[a]

LEMMA BucketedPush ==
  ASSUME NEW cap, NEW chain, NEW bucket, NEW key, NEW D,
         Bucketed(chain, bucket, key, cap, D),
         NEW e, NEW chain2, NEW bucket2, NEW key2, NEW b,
         InFront(chain, bucket, key, cap, D, e, chain2, bucket2, key2, b)
  PROVE  Bucketed(chain2, bucket2, key2, cap, D \cup {e})
<1> USE DEF InFront
<1>1. ASSUME NEW a \in 0 .. (cap - 1)
      PROVE  Chained(chain2, bucket2[a], Hashed(D \cup {e}, key2, cap, a))
  <2> DEFINE T == Hashed(D, key, cap, a)
  <2>1. Chained(chain, bucket[a], T) /\ T \subseteq D
    BY DEF Bucketed, Hashed
  <2>2. Hashed(D \cup {e}, key2, cap, a) = IF a = b THEN T \cup {e} ELSE T
    BY DEF Hashed
  <2> HIDE DEF T
  <2>3. e \notin T /\ \A d \in T : chain2[d] = chain[d]
    BY <2>1
  <2>4. CASE a = b
    <3>1. chain2[e] = bucket[a] /\ bucket2[a] = e
      BY <2>4
    <3>2. Chained(chain2, e, T \cup {e})
      BY <2>1, <2>3, <3>1, ChainedPush
    <3> QED  BY <2>2, <2>4, <3>1, <3>2
  <2>5. CASE a # b
    <3>1. Chained(chain2, bucket[a], T)
      BY <2>1, <2>3, ChainedSame
    <3> QED  BY <2>2, <2>5, <3>1
  <2> QED  BY <2>4, <2>5
<1> QED  BY <1>1 DEF Bucketed

\* An entry is taken out of its chain.
Bypassed(chain, bucket, key, cap, D, e, chain2, bucket2, key2, b) ==
  /\ e \in D /\ key[e] % cap = b
  /\ bucket2[b] = IF bucket[b] = e THEN chain[e] ELSE bucket[b]
  /\ \A d \in D \ {e} :
       /\ key2[d] = key[d]
       /\ chain2[d] = IF d \in Hashed(D, key, cap, b) /\ chain[d] = e
                      THEN chain[e] ELSE chain[d]
  /\ \A a \in 0 .. (cap - 1) : a # b => bucket2[a] = bucket[a]

LEMMA BucketedDrop ==
  ASSUME NEW cap, NEW chain, NEW bucket, NEW key, NEW D,
         Bucketed(chain, bucket, key, cap, D),
         NEW e, NEW chain2, NEW bucket2, NEW key2, NEW b,
         Bypassed(chain, bucket, key, cap, D, e, chain2, bucket2, key2, b)
  PROVE  Bucketed(chain2, bucket2, key2, cap, D \ {e})
<1> USE DEF Bypassed
<1>1. ASSUME NEW a \in 0 .. (cap - 1)
      PROVE  Chained(chain2, bucket2[a], Hashed(D \ {e}, key2, cap, a))
  <2> DEFINE T == Hashed(D, key, cap, a)
  <2>1. Chained(chain, bucket[a], T)
    BY DEF Bucketed
  <2>2. Hashed(D \ {e}, key2, cap, a) = IF a = b THEN T \ {e} ELSE T
    BY DEF Hashed
  <2>3. CASE a = b
    <3>1. e \in T
      BY <2>3 DEF Hashed
    <3>2. \A d \in T \ {e} : chain2[d] = IF chain[d] = e THEN chain[e] ELSE chain[d]
      BY <2>3 DEF Hashed
    <3> HIDE DEF T
    <3>3. Chained(chain2, IF bucket[a] = e THEN chain[e] ELSE bucket[a], T \ {e})
      BY <2>1, <3>1, <3>2, ChainedDrop
    <3> QED  BY <2>2, <2>3, <3>3
  <2>4. CASE a # b
    <3>1. \A d \in T : d \in D \ {e} /\ d \notin Hashed(D, key, cap, b)
      BY <2>4 DEF Hashed
    <3> HIDE DEF T
    <3>2. \A d \in T : chain2[d] = chain[d]
      BY <3>1
    <3> QED  BY <2>1, <2>2, <2>4, <3>2, ChainedSame
  <2> QED  BY <2>3, <2>4
<1> QED  BY <1>1 DEF Bucketed

\* No entries, no chains.
LEMMA BucketedNone ==
  ASSUME NEW cap \in Nat, NEW chain, NEW bucket, NEW key,
         \A b \in 0 .. (cap - 1) : bucket[b] = Null
  PROVE  Bucketed(chain, bucket, key, cap, {})
<1>1. Path(chain, Null, <<>>) /\ Apart(<<>>) /\ ToSet(<<>>) = {}
  BY DEF Path, At, Apart, ToSet
<1>2. Chained(chain, Null, {})
  BY <1>1 DEF Chained
<1>3. \A b \in 0 .. (cap - 1) : Hashed({}, key, cap, b) = {}
  BY DEF Hashed
<1> QED  BY <1>2, <1>3 DEF Bucketed

-----------------------------------------------------------------------------
(* Folds from left to right *)

LEMMA Greatest ==
  ASSUME NEW n \in Nat, NEW u \in SUBSET (1 .. n), u # {}
  PROVE  Max(u) \in u /\ \A y \in u : Max(u) >= y
<1> DEFINE T == {n - x : x \in u}
<1>1. T \in SUBSET Nat /\ T # {}
  <2>1. \A x \in u : x \in 1 .. n /\ n - x \in Nat
    OBVIOUS
  <2>2. \A t \in T : t \in Nat
    BY <2>1
  <2> QED  BY <2>2
<1>2. PICK t \in T : \A y \in T : t <= y
  <2> HIDE DEF T
  <2> QED  BY <1>1, LeastNatural
<1>3. PICK x \in u : t = n - x
  OBVIOUS
<1>4. \A y \in u : x >= y
  <2> TAKE y \in u
  <2>1. n - y \in T
    OBVIOUS
  <2>2. n - x <= n - y
    <3> HIDE DEF T
    <3> QED  BY <1>2, <1>3, <2>1
  <2>3. x \in 1 .. n /\ y \in 1 .. n
    OBVIOUS
  <2> QED  BY <2>2, <2>3
<1>5. \E z \in u : \A y \in u : z >= y
  BY <1>4
<1> QED  BY <1>5 DEF Max

\* What is folded before the last element.
LEMMA FoldsLast ==
  ASSUME NEW n \in Nat
  PROVE  /\ \A u \in SUBSET (1 .. (n + 1)) : u # {} => u \ {Max(u)} \in SUBSET (1 .. n)
         /\ \A i \in 1 .. n : Max(1 .. i) = i /\ (1 .. i) \ {i} = 1 .. (i - 1)
<1>1. ASSUME NEW u \in SUBSET (1 .. (n + 1)), u # {}, NEW y \in u \ {Max(u)}
      PROVE  y \in 1 .. n
  <2>1. Max(u) \in u /\ Max(u) >= y
    <3>1. n + 1 \in Nat /\ y \in u
      OBVIOUS
    <3> QED  BY <1>1, <3>1, Greatest
  <2>2. Max(u) \in 1 .. (n + 1) /\ y \in 1 .. (n + 1) /\ y # Max(u)
    BY <2>1
  <2> QED  BY <2>1, <2>2
<1>2. ASSUME NEW i \in 1 .. n
      PROVE  Max(1 .. i) = i /\ (1 .. i) \ {i} = 1 .. (i - 1)
  <2>1. i \in 1 .. i /\ i \in Nat
    OBVIOUS
  <2>2. 1 .. i \in SUBSET (1 .. i) /\ 1 .. i # {}
    BY <2>1
  <2>3. Max(1 .. i) \in 1 .. i /\ \A y \in 1 .. i : Max(1 .. i) >= y
    BY <2>1, <2>2, Greatest
  <2>4. Max(1 .. i) = i
    BY <2>1, <2>3
  <2> QED  BY <2>4
<1> QED  BY <1>1, <1>2

Put(q, k, v) == Abstract!Put(q, k, v)

\* One entry put in front of its chain, as Rehashed does it.
Pushed(m, c, a, e) ==
  LET b == m.key[e] % c IN
  [chain |-> [a.chain EXCEPT ![e] = a.bucket[b]],
   bucket |-> [a.bucket EXCEPT ![b] = e]]

\* One binding set, as MergeIn does it.
Added(a, b) ==
  IF ~a.ok THEN a
  ELSE LET r == SetIn(a.map, b.key, b.val, a.mem) IN
       [map |-> r.map, errno |-> r.errno, mem |-> r.mem,
        short |-> r.short,
        ok |-> ~(r.ret = NoValue /\ r.errno # 0)]

\* One step of a fold: of Rehashed, of MergeIn, or of PutAll.
Folded(op, m, c, a, x) ==
  IF op = "rehash" THEN Pushed(m, c, a, x)
  ELSE IF op = "merge" THEN Added(a, x)
  ELSE Put(a, x.key, x.val)

\* What a fold builds up, over sets of places.
Folding(op, m, c, base, s, S, g) ==
  g = [u \in SUBSET S |->
         IF u = {} THEN base ELSE Folded(op, m, c, g[u \ {Max(u)}], s[Max(u)])]

LEMMA FoldingOnce ==
  ASSUME NEW op, NEW m, NEW c, NEW base, NEW s, NEW n \in Nat, NEW g,
         Folding(op, m, c, base, s, 1 .. n, g)
  PROVE  \E h : Folding(op, m, c, base, s, 1 .. (n + 1), h)
<1> DEFINE One(u, r) == IF u = {} THEN base
                        ELSE Folded(op, m, c, r[u \ {Max(u)}], s[Max(u)])
           h == [u \in SUBSET (1 .. (n + 1)) |-> One(u, g)]
<1>1. g = [u \in SUBSET (1 .. n) |-> One(u, g)]
  BY Zenon DEF Folding
<1>2. ASSUME NEW u \in SUBSET (1 .. n) PROVE h[u] = g[u]
  <2> HIDE DEF One
  <2>1. u \in SUBSET (1 .. (n + 1))
    OBVIOUS
  <2> QED  BY <1>1, <2>1
<1>3. ASSUME NEW u \in SUBSET (1 .. (n + 1)) PROVE One(u, g) = One(u, h)
  <2> HIDE DEF h
  <2>1. CASE u = {}
    BY <2>1
  <2>2. CASE u # {}
    <3>1. h[u \ {Max(u)}] = g[u \ {Max(u)}]
      BY <1>2, <2>2, FoldsLast
    <3> QED  BY <3>1
  <2> QED  BY <2>1, <2>2
<1>4. Folding(op, m, c, base, s, 1 .. (n + 1), h)
  <2> DEFINE r == h
  <2>1. r = [u \in SUBSET (1 .. (n + 1)) |-> One(u, g)]
    OBVIOUS
  <2>2. \A u \in SUBSET (1 .. (n + 1)) : One(u, g) = One(u, r)
    BY <1>3
  <2> HIDE DEF r
  <2>3. r = [u \in SUBSET (1 .. (n + 1)) |-> One(u, r)]
    <3> HIDE DEF One
    <3> QED  BY <2>1, <2>2
  <2>4. Folding(op, m, c, base, s, 1 .. (n + 1), r)
    BY <2>3, Zenon DEF Folding
  <2> QED  BY <2>4 DEF r
<1> QED  BY <1>4

LEMMA FoldingExists ==
  ASSUME NEW op, NEW m, NEW c, NEW base, NEW s, NEW n \in Nat
  PROVE  \E g : Folding(op, m, c, base, s, 1 .. n, g)
<1> DEFINE T == {k \in Nat : \E g : Folding(op, m, c, base, s, 1 .. k, g)}
<1>1. 0 \in T
  <2> DEFINE g == [u \in SUBSET (1 .. 0) |-> base]
  <2>1. Folding(op, m, c, base, s, 1 .. 0, g)
    BY DEF Folding
  <2> QED  BY <2>1
<1>2. \A k \in T : k + 1 \in T
  BY FoldingOnce
<1>3. T \subseteq Nat
  OBVIOUS
<1> HIDE DEF T
<1>4. T = Nat
  BY <1>1, <1>2, <1>3, AllNaturals
<1> QED  BY <1>4 DEF T

\* The results after each element of s.
FoldSteps(op, m, c, base, s, f) ==
  /\ f[0] = base
  /\ \A i \in 1 .. Len(s) : f[i] = Folded(op, m, c, f[i - 1], s[i])

LEMMA FoldedSteps ==
  ASSUME NEW op, NEW m, NEW c, NEW base, NEW s, Len(s) \in Nat, NEW g,
         Folding(op, m, c, base, s, 1 .. Len(s), g)
  PROVE  \E f : FoldSteps(op, m, c, base, s, f) /\ f[Len(s)] = g[1 .. Len(s)]
<1> DEFINE n == Len(s)
           f == [i \in 0 .. n |-> g[1 .. i]]
<1>1. g = [u \in SUBSET (1 .. n) |->
             IF u = {} THEN base ELSE Folded(op, m, c, g[u \ {Max(u)}], s[Max(u)])]
  BY Zenon DEF Folding
<1>2. n \in Nat
  OBVIOUS
<1> HIDE DEF n
<1>3. \A i \in 0 .. n : f[i] = g[1 .. i]
  OBVIOUS
<1>4. f[0] = base
  <2>1. 1 .. 0 = {} /\ {} \in SUBSET (1 .. n) /\ 0 \in 0 .. n
    BY <1>2
  <2>2. g[{}] = base
    BY <1>1, <2>1
  <2> QED  BY <1>3, <2>1, <2>2
<1>5. ASSUME NEW i \in 1 .. n PROVE f[i] = Folded(op, m, c, f[i - 1], s[i])
  <2>1. 1 .. i \in SUBSET (1 .. n) /\ 1 .. i # {} /\ i \in 0 .. n /\ i - 1 \in 0 .. n
    <3>1. i \in Nat /\ i <= n /\ 1 <= i
      BY <1>2
    <3>2. 1 \in 1 .. i /\ \A j \in 1 .. i : j \in 1 .. n
      BY <1>2, <3>1
    <3>3. 1 .. i \in SUBSET (1 .. n)
      BY <3>2, Zenon
    <3>4. 1 .. i # {}
      BY <3>2, Zenon
    <3>5. i \in 0 .. n /\ i - 1 \in 0 .. n
      BY <1>2, <3>1
    <3> QED  BY <3>3, <3>4, <3>5
  <2>2. Max(1 .. i) = i /\ (1 .. i) \ {i} = 1 .. (i - 1)
    BY <1>2, FoldsLast
  <2>3. g[1 .. i] = Folded(op, m, c, g[(1 .. i) \ {Max(1 .. i)}], s[Max(1 .. i)])
    <3> HIDE DEF f
    <3> QED  BY <1>1, <2>1
  <2> QED  BY <1>3, <2>1, <2>2, <2>3
<1>6. f[n] = g[1 .. n]
  BY <1>2, <1>3
<1> HIDE DEF f
<1>7. FoldSteps(op, m, c, base, s, f) /\ f[Len(s)] = g[1 .. Len(s)]
  BY <1>4, <1>5, <1>6 DEF n, FoldSteps
<1> QED  BY <1>7

-----------------------------------------------------------------------------
(* hashmap_resize *)

Unhashed(m, c) == [chain |-> m.chain, bucket |-> [b \in 0 .. (c - 1) |-> Null]]

\* The steps of the fold in Rehashed, over the list s.
RehashSteps(m, c, s, f) ==
  /\ f[0] = Unhashed(m, c)
  /\ \A i \in 1 .. Len(s) : f[i] = Pushed(m, c, f[i - 1], s[i])
  /\ Rehashed(m, c) = [m EXCEPT !.chain = f[Len(s)].chain, !.bucket = f[Len(s)].bucket,
                                !.cap = c]

\* Rehashed is what is left after the last entry of the list.
LEMMA RehashedSteps ==
  ASSUME NEW m, NEW c, Listed(m) \in Seq(Entries)
  PROVE  \E f : RehashSteps(m, c, Listed(m), f)
<1> DEFINE s == Listed(m)
           n == Len(s)
           base == Unhashed(m, c)
           Is(g) == g = [u \in SUBSET (DOMAIN s) |->
                           IF u = {} THEN base ELSE Pushed(m, c, g[u \ {Max(u)}], s[Max(u)])]
           g == CHOOSE g : Is(g)
           r == g[DOMAIN s]
<1>1. Rehashed(m, c) = [m EXCEPT !.chain = r.chain, !.bucket = r.bucket, !.cap = c]
  BY Zenon DEF Rehashed, FoldLeft, MapThenFoldSet, Pushed, Unhashed
<1>2. DOMAIN s = 1 .. n /\ n \in Nat
  OBVIOUS
<1> HIDE DEF s, base, n
<1>3. \A h : Folding("rehash", m, c, base, s, 1 .. n, h) <=> Is(h)
  <2>1. \A a, x : Folded("rehash", m, c, a, x) = Pushed(m, c, a, x)
    BY DEF Folded
  <2> TAKE h
  <2>2. \A u \in SUBSET (1 .. n) :
          Folded("rehash", m, c, h[u \ {Max(u)}], s[Max(u)])
            = Pushed(m, c, h[u \ {Max(u)}], s[Max(u)])
    BY <2>1, Zenon
  <2>3. [u \in SUBSET (1 .. n) |->
           IF u = {} THEN base ELSE Folded("rehash", m, c, h[u \ {Max(u)}], s[Max(u)])]
        = [u \in SUBSET (1 .. n) |->
             IF u = {} THEN base ELSE Pushed(m, c, h[u \ {Max(u)}], s[Max(u)])]
    BY <2>2
  <2> QED  BY <1>2, <2>3, Zenon DEF Folding
<1>4. Folding("rehash", m, c, base, s, 1 .. n, g)
  <2>1. \E h : Is(h)
    BY <1>2, <1>3, FoldingExists
  <2>2. Is(g)
    <3> HIDE DEF Is
    <3> QED  BY <2>1
  <2> HIDE DEF Is, g
  <2> QED  BY <1>3, <2>2
<1> HIDE DEF g
<1>5. PICK f : FoldSteps("rehash", m, c, base, s, f) /\ f[n] = g[1 .. n]
  BY <1>2, <1>4, FoldedSteps DEF n
<1>6. /\ f[0] = base
      /\ \A i \in 1 .. n : f[i] = Pushed(m, c, f[i - 1], s[i])
  BY <1>5 DEF FoldSteps, Folded, n
<1>7. f[n] = r
  BY <1>2, <1>5
<1> HIDE DEF r
<1>8. RehashSteps(m, c, s, f)
  BY <1>1, <1>6, <1>7 DEF n, base, RehashSteps
<1> QED  BY <1>8 DEF s

\* The entries D have been put into c buckets.
Shelf(m, c, a, D) ==
  /\ a.chain \in [Entries -> Pointer] /\ a.bucket \in [0 .. (c - 1) -> Pointer]
  /\ Bucketed(a.chain, a.bucket, m.key, c, D)

LEMMA ShelfPush ==
  ASSUME NEW m, NEW c \in Nat \ {0}, NEW a, NEW D \in SUBSET Entries, Shelf(m, c, a, D),
         NEW e \in Entries, e \notin D, m.key[e] % c \in 0 .. (c - 1)
  PROVE  Shelf(m, c, Pushed(m, c, a, e), D \cup {e})
<1> DEFINE b == m.key[e] % c
           a2 == Pushed(m, c, a, e)
<1>1. a2.chain = [a.chain EXCEPT ![e] = a.bucket[b]] /\ a2.bucket = [a.bucket EXCEPT ![b] = e]
  BY DEF Pushed
<1>2. /\ a.chain \in [Entries -> Pointer] /\ a.bucket \in [0 .. (c - 1) -> Pointer]
      /\ Bucketed(a.chain, a.bucket, m.key, c, D)
  BY DEF Shelf
<1>3. /\ a2.chain \in [Entries -> Pointer] /\ a2.chain[e] = a.bucket[b]
      /\ \A d \in D : a2.chain[d] = a.chain[d]
  BY <1>1, <1>2
<1>4. /\ a2.bucket \in [0 .. (c - 1) -> Pointer] /\ a2.bucket[b] = e
      /\ \A k \in 0 .. (c - 1) : k # b => a2.bucket[k] = a.bucket[k]
  BY <1>1, <1>2, PointerFacts
<1> HIDE DEF a2
<1>5. InFront(a.chain, a.bucket, m.key, c, D, e, a2.chain, a2.bucket, m.key, b)
  BY <1>3, <1>4 DEF InFront
<1>6. Bucketed(a2.chain, a2.bucket, m.key, c, D \cup {e})
  BY <1>2, <1>5, BucketedPush
<1> QED  BY <1>3, <1>4, <1>6 DEF Shelf, a2

\* The same entries in another number of buckets, in chains of their own.
LEMMA RehashedIs ==
  ASSUME NEW m, SoundMap(m), NEW s, Listing(m, s), NEW c \in Nat \ {0}
  PROVE  LET r == Rehashed(m, c) IN
         /\ SoundMap(r) /\ Listing(r, s) /\ r.cap = c
         /\ r.live = m.live /\ r.key = m.key /\ r.val = m.val /\ r.size = m.size
<1> DEFINE n == Len(s)
           Done(i) == {s[j] : j \in 1 .. i}
<1>1. IsMap(m) /\ Keyed(m)
  BY DEF SoundMap
<1>2. /\ Listed(m) = s /\ s \in Seq(Entries) /\ n \in Nat /\ Apart(s)
      /\ ToSet(s) = m.live
  BY <1>1, ListedIs DEF Listing
<1>17. PICK f : RehashSteps(m, c, s, f)
  BY <1>2, RehashedSteps
<1>3. /\ f[0] = Unhashed(m, c)
      /\ \A i \in 1 .. n : f[i] = Pushed(m, c, f[i - 1], s[i])
      /\ Rehashed(m, c) = [m EXCEPT !.chain = f[n].chain, !.bucket = f[n].bucket, !.cap = c]
  BY <1>17 DEF RehashSteps
<1> DEFINE Good(i) == Shelf(m, c, f[i], Done(i))
           T == {i \in Nat : i <= n => Good(i)}
<1>4. 0 \in T
  <2>1. f[0].chain = m.chain /\ f[0].bucket = [b \in 0 .. (c - 1) |-> Null]
    BY <1>3 DEF Unhashed
  <2>2. f[0].chain \in [Entries -> Pointer]
    BY <1>1, <2>1 DEF IsMap, IsLink
  <2>3. f[0].bucket \in [0 .. (c - 1) -> Pointer] /\ \A b \in 0 .. (c - 1) : f[0].bucket[b] = Null
    BY <2>1, PointerFacts
  <2>4. Done(0) = {}
    OBVIOUS
  <2>5. Bucketed(f[0].chain, f[0].bucket, m.key, c, {})
    BY <2>3, BucketedNone
  <2> QED  BY <2>2, <2>3, <2>4, <2>5 DEF Shelf
<1>5. ASSUME NEW i \in T PROVE i + 1 \in T
  <2>1. SUFFICES ASSUME i + 1 <= n PROVE Good(i + 1)
    OBVIOUS
  <2>2. i \in Nat /\ i + 1 \in 1 .. n /\ (i + 1) - 1 = i /\ Good(i)
    BY <1>2, <2>1
  <2> DEFINE e == s[i + 1]
             a == f[i]
  <2>3. e \in m.live /\ e \in Entries /\ m.key[e] \in Keys
    BY <1>1, <1>2, <2>2, Members DEF Keyed
  <2>4. m.key[e] % c \in 0 .. (c - 1)
    BY <2>3, KeyFacts
  <2>5. e \notin Done(i)
    <3> SUFFICES ASSUME NEW j \in 1 .. i, s[j] = s[i + 1] PROVE FALSE
      OBVIOUS
    <3>1. j \in 1 .. n /\ j # i + 1
      BY <1>2, <2>2
    <3> QED  BY <1>2, <2>2, <3>1 DEF Apart
  <2>6. Done(i) \in SUBSET Entries
    <3>1. \A j \in 1 .. i : j \in 1 .. n
      BY <1>2, <2>2
    <3> QED  BY <1>2, <3>1
  <2>7. f[i + 1] = Pushed(m, c, a, e)
    BY <1>3, <2>2
  <2>8. Done(i + 1) = Done(i) \cup {e}
    <3>1. 1 .. (i + 1) = (1 .. i) \cup {i + 1}
      BY <2>2
    <3> QED  BY <3>1
  <2>9. Shelf(m, c, a, Done(i))
    BY <2>2
  <2> HIDE DEF Done, e, a
  <2>10. Shelf(m, c, Pushed(m, c, a, e), Done(i) \cup {e})
    BY <2>3, <2>4, <2>5, <2>6, <2>9, ShelfPush
  <2> QED  BY <2>7, <2>8, <2>10
<1>6. T \subseteq Nat
  OBVIOUS
<1> HIDE DEF T
<1>7. T = Nat
  BY <1>4, <1>5, <1>6, AllNaturals
<1>8. Good(n)
  <2>1. n \in T
    BY <1>2, <1>7
  <2> QED  BY <1>2, <2>1 DEF T
<1>16. /\ f[n].chain \in [Entries -> Pointer] /\ f[n].bucket \in [0 .. (c - 1) -> Pointer]
       /\ Bucketed(f[n].chain, f[n].bucket, m.key, c, Done(n))
  BY <1>8 DEF Shelf
<1>9. Done(n) = m.live
  BY <1>2 DEF ToSet
<1> DEFINE r == Rehashed(m, c)
<1>10. /\ r.chain = f[n].chain /\ r.bucket = f[n].bucket /\ r.cap = c
       /\ r.live = m.live /\ r.key = m.key /\ r.val = m.val /\ r.size = m.size
       /\ r.next = m.next /\ r.prev = m.prev /\ r.head = m.head /\ r.tail = m.tail
       /\ r = [live |-> r.live, key |-> r.key, val |-> r.val, chain |-> r.chain,
               prev |-> r.prev, next |-> r.next, bucket |-> r.bucket, cap |-> r.cap,
               size |-> r.size, head |-> r.head, tail |-> r.tail]
  BY <1>1, <1>3 DEF IsMap
<1> HIDE DEF r, Done, n
<1>11. IsMap(r)
  BY <1>1, <1>10, <1>16 DEF IsMap, IsLink
<1>12. Listing(r, s)
  BY <1>10 DEF Listing
<1>13. Keyed(r)
  BY <1>1, <1>10 DEF Keyed
<1>14. Bucketed(r.chain, r.bucket, r.key, r.cap, r.live)
  BY <1>9, <1>10, <1>16
<1>15. SoundMap(r)
  BY <1>11, <1>12, <1>13, <1>14 DEF SoundMap
<1> QED  BY <1>10, <1>12, <1>15 DEF r

-----------------------------------------------------------------------------
(* hashmap_set *)

\* While a key is missing there is an address for its entry.
LEMMA Unused ==
  ASSUME NEW m, SoundMap(m), NEW k \in Keys, \A e \in m.live : m.key[e] # k
  PROVE  \E x \in Entries \ m.live : \A y \in Entries \ m.live : x <= y
<1>1. Entries \ m.live # {}
  <2> SUFFICES ASSUME Entries \subseteq m.live PROVE FALSE
    OBVIOUS
  <2> DEFINE f == [e \in Entries |-> m.key[e]]
             K == Keys \ {k}
  <2>1. /\ \A e \in m.live : m.key[e] \in Keys
        /\ \A d, e \in m.live : m.key[d] = m.key[e] => d = e
    BY DEF SoundMap, Keyed
  <2>2. f \in Injection(Entries, K)
    BY <2>1 DEF Injection, IsInjective
  <2>3. IsFiniteSet(K) /\ Cardinality(K) = Cardinality(Keys) - 1
    BY MapAssumption, FS_RemoveElement
  <2>4. Cardinality(Entries) <= Cardinality(K)
    <3> HIDE DEF f, K
    <3> QED  BY <2>2, <2>3, FS_Injection
  <2>5. Cardinality(Entries) = MaxEntries
    <3>1. MaxEntries \in Nat
      BY MapAssumption
    <3> QED  BY <3>1, FS_Interval DEF Entries
  <2>6. Cardinality(Keys) \in Nat
    BY MapAssumption, FS_CardinalityType
  <2> QED  BY <2>3, <2>4, <2>5, <2>6, MapAssumption
<1>2. Entries \ m.live \in SUBSET Nat
  BY DEF Entries
<1> QED  BY <1>1, <1>2, LeastNatural

\* l is m with entry e for key k, behind the list's tail.
Extended(m, l, s, k, v, e) ==
  /\ SoundMap(l) /\ Listing(l, Append(s, e)) /\ l.cap = m.cap
  /\ e \in Entries \ m.live /\ l.live = m.live \cup {e} /\ l.size = m.size + 1
  /\ l.key[e] = k /\ l.val[e] = v
  /\ \A d \in m.live : l.key[d] = m.key[d] /\ l.val[d] = m.val[d]

LEMMA LinkedIs ==
  ASSUME NEW m, SoundMap(m), NEW s, Listing(m, s), NEW k \in Keys, NEW v \in Values,
         \A e \in m.live : m.key[e] # k
  PROVE  \E e : Extended(m, Linked(m, k, v), s, k, v, e)
<1> DEFINE e == CHOOSE x \in Entries \ m.live : \A y \in Entries \ m.live : x <= y
           b == k % m.cap
           l == Linked(m, k, v)
<1>1. e \in Entries \ m.live
  BY Unused
<1>2. l = [m EXCEPT !.live = @ \cup {e}, !.key[e] = k, !.val[e] = v,
                !.chain[e] = m.bucket[b], !.bucket[b] = e,
                !.next = IF m.tail = Null THEN @ ELSE [@ EXCEPT ![m.tail] = e],
                !.prev[e] = m.tail,
                !.head = IF @ = Null THEN e ELSE @,
                !.tail = e,
                !.size = @ + 1]
  BY Zenon DEF Linked
<1> HIDE DEF e, l
<1>3. /\ IsMap(m) /\ Keyed(m) /\ m.live \subseteq Entries
      /\ Bucketed(m.chain, m.bucket, m.key, m.cap, m.live)
  BY DEF SoundMap, IsMap
<1>4. /\ l.live = m.live \cup {e} /\ l.key = [m.key EXCEPT ![e] = k]
      /\ l.val = [m.val EXCEPT ![e] = v] /\ l.chain = [m.chain EXCEPT ![e] = m.bucket[b]]
      /\ l.bucket = [m.bucket EXCEPT ![b] = e] /\ l.prev = [m.prev EXCEPT ![e] = m.tail]
      /\ l.next = (IF m.tail = Null THEN m.next ELSE [m.next EXCEPT ![m.tail] = e])
      /\ l.head = (IF m.head = Null THEN e ELSE m.head) /\ l.tail = e
      /\ l.size = m.size + 1 /\ l.cap = m.cap
      /\ l = [live |-> l.live, key |-> l.key, val |-> l.val, chain |-> l.chain,
               prev |-> l.prev, next |-> l.next, bucket |-> l.bucket, cap |-> l.cap,
               size |-> l.size, head |-> l.head, tail |-> l.tail]
  BY <1>2, <1>3 DEF IsMap
<1>5. b \in 0 .. (m.cap - 1) /\ m.bucket[b] \in Pointer /\ m.cap \in Nat \ {0}
  BY <1>3, KeyFacts DEF IsMap
<1>6. /\ s \in Seq(Entries) /\ Apart(s) /\ ToSet(s) = m.live /\ m.size = Len(s)
      /\ Path(m.next, m.head, s) /\ Path(m.prev, m.tail, Reverse(s))
      /\ m.head \in Pointer /\ m.tail \in Pointer /\ m.size \in Nat
  BY <1>3, ListedIs DEF Listing
<1> HIDE DEF b
<1>7. IsMap(l)
  <2>1. l.live \subseteq Entries /\ l.key \in [Entries -> Keys \cup {0}]
    BY <1>1, <1>3, <1>4 DEF IsMap
  <2>2. l.val \in [Entries -> Values \cup {NoValue}]
    BY <1>1, <1>3, <1>4 DEF IsMap
  <2>3. IsLink(l.chain) /\ IsLink(l.prev)
    BY <1>1, <1>3, <1>4, <1>5, <1>6, PointerFacts DEF IsMap, IsLink
  <2>4. IsLink(l.next)
    <3>1. m.next \in [Entries -> Pointer] /\ e \in Pointer
      BY <1>1, <1>3, PointerFacts DEF IsMap, IsLink
    <3>2. \A x \in Pointer : [m.next EXCEPT ![x] = e] \in [Entries -> Pointer]
      BY <3>1
    <3>3. l.next = m.next \/ l.next = [m.next EXCEPT ![m.tail] = e]
      BY <1>4
    <3> QED  BY <1>6, <3>1, <3>2, <3>3 DEF IsLink
  <2>5. l.bucket \in [0 .. (l.cap - 1) -> Pointer] /\ l.cap \in Nat \ {0}
    BY <1>1, <1>3, <1>4, <1>5, PointerFacts DEF IsMap
  <2>6. \A d \in Entries \ l.live : l.next[d] = Null
    <3>1. \A d \in Entries \ l.live : d \notin m.live /\ d \in Entries /\ m.next[d] = Null
      BY <1>3, <1>4 DEF IsMap
    <3>2. m.tail = Null \/ m.tail \in m.live
      <4>1. m.tail = At(Reverse(s), 1) /\ Reverse(s) \in Seq(Entries) /\ ToSet(Reverse(s)) = m.live
        BY <1>6, ReverseFacts DEF Path
      <4> QED  BY <4>1, Members DEF At
    <3>3. m.next \in [Entries -> Pointer]
      BY <1>3 DEF IsMap, IsLink
    <3> QED  BY <1>3, <1>4, <3>1, <3>2, <3>3
  <2> QED  BY <1>4, <2>1, <2>2, <2>3, <2>4, <2>5, <2>6 DEF IsMap
<1>8. \A d \in m.live : /\ d # e /\ l.key[d] = m.key[d] /\ l.val[d] = m.val[d]
                        /\ l.chain[d] = m.chain[d] /\ l.prev[d] = m.prev[d]
  BY <1>1, <1>3, <1>4 DEF IsMap, IsLink
<1>9. /\ l.key[e] = k /\ l.val[e] = v /\ l.chain[e] = m.bucket[b] /\ l.prev[e] = m.tail
      /\ l.bucket[b] = e /\ \A a \in 0 .. (m.cap - 1) : a # b => l.bucket[a] = m.bucket[a]
  BY <1>1, <1>3, <1>4, <1>5 DEF IsMap, IsLink
<1>10. Keyed(l)
  BY <1>3, <1>4, <1>8, <1>9 DEF Keyed
<1>11. Bucketed(l.chain, l.bucket, l.key, l.cap, l.live)
  <2>1. l.key[e] % m.cap = b
    BY <1>9 DEF b
  <2>2. InFront(m.chain, m.bucket, m.key, m.cap, m.live, e, l.chain, l.bucket, l.key, b)
    BY <1>1, <1>8, <1>9, <2>1 DEF InFront
  <2> QED  BY <1>3, <1>4, <2>2, BucketedPush
<1>12. Path(l.prev, e, <<e>> \o Reverse(s))
  <2>1. Apart(Reverse(s)) /\ ToSet(Reverse(s)) = m.live
    BY <1>6, ReverseFacts
  <2> QED  BY <1>1, <1>6, <1>8, <1>9, <2>1, PathPush
<1>13. Path(l.prev, l.tail, Reverse(Append(s, e)))
  BY <1>1, <1>4, <1>6, <1>12, ReverseAppend
<1> DEFINE n == Len(s)
<1>14. n \in Nat /\ \A i \in 1 .. n : s[i] \in m.live /\ s[i] \in Entries /\ s[i] # Null
  BY <1>3, <1>6, Members, PointerFacts
<1>15. m.tail = IF n = 0 THEN Null ELSE s[n]
  <2>1. m.tail = At(Reverse(s), 1)
    BY <1>6 DEF Path
  <2>2. Len(Reverse(s)) = n /\ \A i \in 1 .. n : Reverse(s)[i] = s[(n - i) + 1]
    BY <1>6, ReverseFacts
  <2>3. CASE n = 0
    BY <2>1, <2>2, <2>3 DEF At
  <2>4. CASE n # 0
    <3>1. 1 \in 1 .. n /\ (n - 1) + 1 = n
      BY <1>14, <2>4
    <3>2. Reverse(s)[1] = s[n]
      BY <2>2, <3>1
    <3> QED  BY <2>1, <2>2, <2>4, <3>1, <3>2 DEF At
  <2> QED  BY <2>3, <2>4
<1>16. l.next[e] = Null
  <2>1. m.next[e] = Null
    BY <1>1, <1>3 DEF IsMap
  <2> QED  BY <1>1, <1>4, <1>14, <1>15, <2>1
<1>17. \A i \in 1 .. n : l.next[s[i]] = IF i = n THEN e ELSE m.next[s[i]]
  <2> TAKE i \in 1 .. n
  <2>1. n # 0 /\ n \in 1 .. n /\ s[i] \in Entries /\ s[n] # Null
    BY <1>14
  <2>2. l.next = [m.next EXCEPT ![s[n]] = e] /\ m.next \in [Entries -> Pointer]
    BY <1>3, <1>4, <1>15, <2>1 DEF IsMap, IsLink
  <2>3. s[i] = s[n] <=> i = n
    BY <1>6, <2>1 DEF Apart
  <2> QED  BY <2>1, <2>2, <2>3
<1>18. l.head = IF s = <<>> THEN e ELSE m.head
  <2>1. m.head = At(s, 1)
    BY <1>6 DEF Path
  <2>2. CASE n = 0
    BY <1>4, <1>6, <2>1, <2>2 DEF At
  <2>3. CASE n # 0
    BY <1>4, <1>14, <2>1, <2>3 DEF At
  <2> QED  BY <2>2, <2>3
<1>19. /\ Path(l.next, l.head, Append(s, e)) /\ Apart(Append(s, e))
       /\ ToSet(Append(s, e)) = m.live \cup {e}
  BY <1>1, <1>6, <1>16, <1>17, <1>18, PathAppend
<1>20. Listing(l, Append(s, e))
  BY <1>4, <1>6, <1>13, <1>19 DEF Listing
<1>21. SoundMap(l)
  BY <1>7, <1>10, <1>11, <1>20 DEF SoundMap
<1>22. Extended(m, l, s, k, v, e)
  BY <1>1, <1>4, <1>8, <1>9, <1>20, <1>21 DEF Extended
<1> QED  BY <1>22 DEF l

\* An entry's value is replaced.
LEMMA ReplacedIs ==
  ASSUME NEW m, SoundMap(m), NEW s, Listing(m, s), NEW e \in m.live, NEW v \in Values
  PROVE  LET r == [m EXCEPT !.val[e] = v] IN
         /\ SoundMap(r) /\ Listing(r, s) /\ r.live = m.live /\ r.key = m.key
         /\ r.size = m.size /\ r.cap = m.cap
         /\ \A d \in m.live : r.val[d] = IF d = e THEN v ELSE m.val[d]
<1> DEFINE r == [m EXCEPT !.val[e] = v]
<1>1. IsMap(m) /\ Keyed(m) /\ Bucketed(m.chain, m.bucket, m.key, m.cap, m.live)
  BY DEF SoundMap
<1>2. /\ r.live = m.live /\ r.key = m.key /\ r.val = [m.val EXCEPT ![e] = v]
      /\ r.chain = m.chain /\ r.bucket = m.bucket /\ r.prev = m.prev /\ r.next = m.next
      /\ r.head = m.head /\ r.tail = m.tail /\ r.size = m.size /\ r.cap = m.cap
      /\ r = [live |-> r.live, key |-> r.key, val |-> r.val, chain |-> r.chain,
              prev |-> r.prev, next |-> r.next, bucket |-> r.bucket, cap |-> r.cap,
              size |-> r.size, head |-> r.head, tail |-> r.tail]
  <2> DEFINE w == [m.val EXCEPT ![e] = v]
  <2>1. m = [live |-> m.live, key |-> m.key, val |-> m.val, chain |-> m.chain,
             prev |-> m.prev, next |-> m.next, bucket |-> m.bucket, cap |-> m.cap,
             size |-> m.size, head |-> m.head, tail |-> m.tail]
    BY <1>1 DEF IsMap
  <2>2. r = [m EXCEPT !.val = w]
    OBVIOUS
  <2> HIDE DEF w, r
  <2>3. r = [live |-> m.live, key |-> m.key, val |-> w, chain |-> m.chain,
             prev |-> m.prev, next |-> m.next, bucket |-> m.bucket, cap |-> m.cap,
             size |-> m.size, head |-> m.head, tail |-> m.tail]
    BY <2>1, <2>2
  <2>4. /\ r.live = m.live /\ r.key = m.key /\ r.val = w
        /\ r.chain = m.chain /\ r.bucket = m.bucket /\ r.prev = m.prev /\ r.next = m.next
        /\ r.head = m.head /\ r.tail = m.tail /\ r.size = m.size /\ r.cap = m.cap
    BY <2>3
  <2> QED  BY <2>3, <2>4 DEF w
<1> HIDE DEF r
<1>3. /\ r.val \in [Entries -> Values \cup {NoValue}]
      /\ \A d \in m.live : r.val[d] = IF d = e THEN v ELSE m.val[d]
  BY <1>1, <1>2 DEF IsMap
<1>4. IsMap(r)
  BY <1>1, <1>2, <1>3 DEF IsMap
<1>5. Listing(r, s)
  BY <1>2 DEF Listing
<1>6. Keyed(r)
  BY <1>1, <1>2, <1>3 DEF Keyed
<1>7. SoundMap(r)
  BY <1>1, <1>2, <1>4, <1>5, <1>6 DEF SoundMap
<1> QED  BY <1>2, <1>3, <1>5, <1>7 DEF r

-----------------------------------------------------------------------------
(* hashmap_remove *)

\* Entry s[i] is gone from r.
Cut(m, r, s, i) ==
  /\ SoundMap(r) /\ Listing(r, Drop(s, i)) /\ r.cap = m.cap
  /\ r.live = m.live \ {s[i]} /\ r.size = m.size - 1
  /\ \A d \in r.live : r.key[d] = m.key[d] /\ r.val[d] = m.val[d]

\* Backwards, an entry's link leads to the place before it.
LEMMA BackwardIs ==
  ASSUME NEW link, NEW x, NEW s \in Seq(Entries), Path(link, x, Reverse(s))
  PROVE  \A j \in 1 .. Len(s) : link[s[j]] = At(s, j - 1)
<1> DEFINE n == Len(s)
           t == Reverse(s)
<1>1. /\ t \in Seq(Entries) /\ Len(t) = n /\ n \in Nat
      /\ \A j \in 1 .. n : (n - j) + 1 \in 1 .. n /\ t[j] = s[(n - j) + 1]
  BY ReverseFacts
<1>2. \A j \in 1 .. n : link[t[j]] = At(t, j + 1)
  BY <1>1 DEF Path
<1> HIDE DEF t
<1>3. ASSUME NEW j \in 1 .. n PROVE link[s[j]] = At(s, j - 1)
  <2> DEFINE a == (n - j) + 1
  <2>1. a \in 1 .. n /\ (n - a) + 1 = j /\ a + 1 = (n - (j - 1)) + 1
    BY <1>1
  <2>2. link[s[j]] = At(t, a + 1)
    <3>1. t[a] = s[(n - a) + 1]
      BY <1>1, <2>1
    <3>2. link[t[a]] = At(t, a + 1)
      BY <1>2, <2>1
    <3> QED  BY <2>1, <3>1, <3>2
  <2>3. CASE j = 1
    <3>1. a + 1 \notin 1 .. n /\ j - 1 \notin 1 .. n
      BY <1>1, <2>3
    <3> QED  BY <1>1, <2>2, <3>1 DEF At
  <2>4. CASE j # 1
    <3>1. j - 1 \in 1 .. n /\ a + 1 \in 1 .. n /\ (n - (a + 1)) + 1 = j - 1
      BY <1>1, <2>4
    <3>2. t[a + 1] = s[j - 1]
      <4> HIDE DEF a
      <4> QED  BY <1>1, <3>1
    <3> QED  BY <1>1, <2>2, <3>1, <3>2 DEF At
  <2> QED  BY <2>3, <2>4
<1> QED  BY <1>3

LEMMA UnlinkedIs ==
  ASSUME NEW m, SoundMap(m), NEW s, Listing(m, s), NEW i \in 1 .. Len(s)
  PROVE  Cut(m, Unlinked(m, s[i]), s, i)
<1> DEFINE e == s[i]
           b == m.key[e] % m.cap
           before == {x \in ToSet(Chain(m, b)) : m.chain[x] = e}
           p == m.prev[e]
           n == m.next[e]
           r == Unlinked(m, e)
<1>1. /\ IsMap(m) /\ Keyed(m) /\ m.live \subseteq Entries
      /\ Bucketed(m.chain, m.bucket, m.key, m.cap, m.live)
  BY DEF SoundMap, IsMap
<1>2. /\ s \in Seq(Entries) /\ Apart(s) /\ ToSet(s) = m.live /\ m.size = Len(s)
      /\ Path(m.next, m.head, s) /\ Path(m.prev, m.tail, Reverse(s))
      /\ m.head \in Pointer /\ m.tail \in Pointer /\ m.size \in Nat
  BY <1>1, ListedIs DEF Listing
<1>3. e \in m.live /\ e \in Entries /\ m.key[e] \in Keys /\ m.cap \in Nat \ {0}
  BY <1>1, <1>2, Members DEF Keyed, IsMap
<1>4. b \in 0 .. (m.cap - 1)
  BY <1>3, KeyFacts
<1> HIDE DEF e
<1>5. before = {x \in Hashed(m.live, m.key, m.cap, b) : m.chain[x] = e}
  <2>1. ToSet(Chain(m, b)) = Hashed(m.live, m.key, m.cap, b)
    BY <1>1, <1>4, ChainIs DEF Bucketed
  <2> QED  BY <2>1
<1>6. r = [m EXCEPT
        !.live = @ \ {e},
        !.chain = [x \in Entries |-> IF x \in before THEN m.chain[e]
                                     ELSE IF x = e THEN Null ELSE @[x]],
        !.bucket[b] = IF @ = e THEN m.chain[e] ELSE @,
        !.head = IF @ = e THEN n ELSE @,
        !.tail = IF @ = e THEN p ELSE @,
        !.next = [x \in Entries |-> IF x = e THEN Null
                                    ELSE IF x = p THEN n ELSE @[x]],
        !.prev = [x \in Entries |-> IF x = e THEN Null
                                    ELSE IF x = n THEN p ELSE @[x]],
        !.key[e] = 0, !.val[e] = NoValue,
        !.size = @ - 1]
  BY Zenon DEF Unlinked
<1> HIDE DEF r, before, b
<1>7. /\ r.live = m.live \ {e} /\ r.key = [m.key EXCEPT ![e] = 0]
      /\ r.val = [m.val EXCEPT ![e] = NoValue]
      /\ r.chain = [x \in Entries |-> IF x \in before THEN m.chain[e]
                                      ELSE IF x = e THEN Null ELSE m.chain[x]]
      /\ r.bucket = [m.bucket EXCEPT ![b] = IF m.bucket[b] = e THEN m.chain[e] ELSE m.bucket[b]]
      /\ r.next = [x \in Entries |-> IF x = e THEN Null ELSE IF x = p THEN n ELSE m.next[x]]
      /\ r.prev = [x \in Entries |-> IF x = e THEN Null ELSE IF x = n THEN p ELSE m.prev[x]]
      /\ r.head = (IF m.head = e THEN n ELSE m.head) /\ r.tail = (IF m.tail = e THEN p ELSE m.tail)
      /\ r.size = m.size - 1 /\ r.cap = m.cap
      /\ r = [live |-> r.live, key |-> r.key, val |-> r.val, chain |-> r.chain,
               prev |-> r.prev, next |-> r.next, bucket |-> r.bucket, cap |-> r.cap,
               size |-> r.size, head |-> r.head, tail |-> r.tail]
  BY <1>1, <1>4, <1>6 DEF IsMap
<1>8. m.chain[e] \in Pointer /\ p \in Pointer /\ n \in Pointer
  BY <1>1, <1>3 DEF IsMap, IsLink
<1>9. \A d \in r.live : d \in m.live /\ d # e /\ d \in Entries
  BY <1>1, <1>7
<1>10. Bucketed(r.chain, r.bucket, r.key, r.cap, r.live)
  <2>1. /\ r.bucket[b] = IF m.bucket[b] = e THEN m.chain[e] ELSE m.bucket[b]
        /\ \A a \in 0 .. (m.cap - 1) : a # b => r.bucket[a] = m.bucket[a]
    BY <1>1, <1>4, <1>7 DEF IsMap
  <2>2. \A d \in m.live \ {e} : r.key[d] = m.key[d]
    BY <1>1, <1>7 DEF IsMap
  <2>3. \A d \in m.live \ {e} :
          r.chain[d] = IF d \in Hashed(m.live, m.key, m.cap, b) /\ m.chain[d] = e
                       THEN m.chain[e] ELSE m.chain[d]
    BY <1>1, <1>5, <1>7
  <2>4. m.key[e] % m.cap = b
    BY DEF b
  <2>5. Bypassed(m.chain, m.bucket, m.key, m.cap, m.live, e, r.chain, r.bucket, r.key, b)
    BY <1>3, <2>1, <2>2, <2>3, <2>4 DEF Bypassed
  <2> QED  BY <1>1, <1>7, <2>5, BucketedDrop
<1> DEFINE N == Len(s)
<1>11. /\ N \in Nat /\ i \in 1 .. N /\ e = s[i] /\ \A j \in 1 .. N : s[j] \in Entries /\ s[j] # Null
       /\ p = At(s, i - 1) /\ n = At(s, i + 1)
  <2>1. \A j \in 1 .. N : s[j] \in Entries /\ s[j] # Null
    BY <1>2, Members, PointerFacts
  <2>2. p = At(s, i - 1)
    BY <1>2, BackwardIs DEF e
  <2>3. n = At(s, i + 1)
    BY <1>2 DEF Path, e
  <2> QED  BY <1>2, <2>1, <2>2, <2>3 DEF e
<1>12. \A j \in 1 .. N : /\ s[j] = e <=> j = i
                         /\ s[j] = p <=> j = i - 1
                         /\ s[j] = n <=> j = i + 1
  BY <1>2, <1>11 DEF Apart, At
<1>13. \A j \in 1 .. N : /\ m.next[s[j]] = At(s, j + 1) /\ m.prev[s[j]] = At(s, j - 1)
                         /\ m.next[s[j]] = e <=> j = i - 1
                         /\ m.prev[s[j]] = e <=> j = i + 1
  <2> TAKE j \in 1 .. N
  <2>1. m.next[s[j]] = At(s, j + 1) /\ m.prev[s[j]] = At(s, j - 1)
    BY <1>2, BackwardIs DEF Path
  <2>2. At(s, j + 1) = e <=> j = i - 1
    BY <1>11, <1>12 DEF At
  <2>3. At(s, j - 1) = e <=> j = i + 1
    BY <1>11, <1>12 DEF At
  <2> QED  BY <2>1, <2>2, <2>3
<1> HIDE DEF p, n
<1>14. \A d \in ToSet(s) \ {e} :
         /\ r.next[d] = IF m.next[d] = e THEN n ELSE m.next[d]
         /\ r.prev[d] = IF m.prev[d] = e THEN p ELSE m.prev[d]
  <2> TAKE d \in ToSet(s) \ {e}
  <2>1. PICK j \in 1 .. N : s[j] = d
    BY <1>2, Members
  <2>2. d \in Entries /\ d # e
    BY <1>11, <2>1
  <2>3. r.next[d] = IF d = p THEN n ELSE m.next[d]
    BY <1>7, <2>2
  <2>4. r.prev[d] = IF d = n THEN p ELSE m.prev[d]
    BY <1>7, <2>2
  <2>5. /\ d = p <=> m.next[d] = e
        /\ d = n <=> m.prev[d] = e
    BY <1>12, <1>13, <2>1
  <2> QED  BY <2>3, <2>4, <2>5
<1>15. Path(r.next, r.head, Drop(s, i))
  <2>1. \A d \in ToSet(s) \ {s[i]} :
           r.next[d] = IF m.next[d] = s[i] THEN m.next[s[i]] ELSE m.next[d]
    BY <1>11, <1>14 DEF n
  <2>2. Path(r.next, IF m.head = s[i] THEN m.next[s[i]] ELSE m.head, Drop(s, i))
    BY <1>2, <2>1, PathDrop
  <2> QED  BY <1>7, <1>11, <2>2 DEF n
<1>16. Path(r.prev, r.tail, Reverse(Drop(s, i)))
  <2> DEFINE t == Reverse(s)
             k == (N - i) + 1
  <2>1. /\ t \in Seq(Entries) /\ Len(t) = N /\ Apart(t) /\ ToSet(t) = ToSet(s)
        /\ k \in 1 .. N /\ t[k] = e /\ Reverse(Drop(s, i)) = Drop(t, k)
    BY <1>2, <1>11, ReverseFacts, ReverseDrop
  <2>2. Path(m.prev, m.tail, t)
    BY <1>2
  <2> HIDE DEF t, k
  <2>3. \A d \in ToSet(t) \ {t[k]} :
           r.prev[d] = IF m.prev[d] = t[k] THEN m.prev[t[k]] ELSE m.prev[d]
    BY <1>14, <2>1 DEF p
  <2>4. Path(r.prev, IF m.tail = t[k] THEN m.prev[t[k]] ELSE m.tail, Drop(t, k))
    BY <2>1, <2>2, <2>3, PathDrop
  <2> QED  BY <1>7, <2>1, <2>4 DEF p
<1>17. Listing(r, Drop(s, i))
  <2>1. /\ Apart(Drop(s, i)) /\ ToSet(Drop(s, i)) = m.live \ {e} /\ Len(Drop(s, i)) = N - 1
    BY <1>2, <1>11, DropFacts
  <2> QED  BY <1>2, <1>7, <1>15, <1>16, <2>1 DEF Listing
<1>18. IsMap(r)
  <2>1. r.live \subseteq Entries /\ r.key \in [Entries -> Keys \cup {0}]
    BY <1>1, <1>3, <1>7 DEF IsMap
  <2>2. r.val \in [Entries -> Values \cup {NoValue}]
    BY <1>1, <1>3, <1>7 DEF IsMap
  <2>3. IsLink(r.chain)
    BY <1>1, <1>7, <1>8, PointerFacts DEF IsMap, IsLink
  <2>4. IsLink(r.prev)
    BY <1>1, <1>7, <1>8, PointerFacts DEF IsMap, IsLink
  <2>5. IsLink(r.next)
    BY <1>1, <1>7, <1>8, PointerFacts DEF IsMap, IsLink
  <2>6. r.bucket \in [0 .. (r.cap - 1) -> Pointer] /\ r.cap \in Nat \ {0}
    <3>1. m.bucket \in [0 .. (m.cap - 1) -> Pointer]
      BY <1>1 DEF IsMap
    <3> QED  BY <1>3, <1>4, <1>7, <1>8, <3>1
  <2>7. \A d \in Entries \ r.live : r.next[d] = Null
    <3> SUFFICES ASSUME NEW d \in Entries, d \notin r.live PROVE r.next[d] = Null
      OBVIOUS
    <3>1. CASE d = e
      BY <1>7, <3>1
    <3>2. CASE d # e
      <4>1. d \notin m.live /\ m.next[d] = Null
        BY <1>1, <1>7, <3>2 DEF IsMap
      <4>2. p = Null \/ p \in m.live
        BY <1>2, <1>11, Members DEF At
      <4>3. d # Null
        BY PointerFacts
      <4> QED  BY <1>7, <3>2, <4>1, <4>2, <4>3
    <3> QED  BY <3>1, <3>2
  <2> QED  BY <1>7, <2>1, <2>2, <2>3, <2>4, <2>5, <2>6, <2>7 DEF IsMap
<1>19. \A d \in r.live : r.key[d] = m.key[d] /\ r.val[d] = m.val[d]
  BY <1>1, <1>7, <1>9 DEF IsMap
<1>20. Keyed(r)
  BY <1>1, <1>9, <1>19 DEF Keyed
<1>21. SoundMap(r)
  BY <1>10, <1>17, <1>18, <1>20 DEF SoundMap
<1>22. Cut(m, r, s, i)
  BY <1>7, <1>11, <1>17, <1>19, <1>21 DEF Cut
<1> QED  BY <1>22 DEF r, e

-----------------------------------------------------------------------------
(* hashmap_clear, and a new map *)

\* No entry, and buckets for them.
Bare(m, cap) ==
  /\ SoundMap(m) /\ Listing(m, <<>>) /\ m.live = {} /\ m.size = 0 /\ m.cap = cap

LEMMA BareIs ==
  ASSUME NEW m, IsMap(m), m.live = {}, m.size = 0, m.head = Null, m.tail = Null,
         \A b \in 0 .. (m.cap - 1) : m.bucket[b] = Null
  PROVE  Bare(m, m.cap)
<1>1. Apart(<<>>) /\ ToSet(<<>>) = {} /\ Len(<<>>) = 0 /\ <<>> \in Seq(Entries)
  BY DEF Apart, ToSet
<1>2. Reverse(<<>>) = <<>>
  BY DEF Reverse
<1>3. Path(m.next, Null, <<>>) /\ Path(m.prev, Null, <<>>)
  BY <1>1 DEF Path, At
<1>4. Listing(m, <<>>)
  BY <1>1, <1>2, <1>3 DEF Listing
<1>5. m.cap \in Nat
  BY DEF IsMap
<1>6. Bucketed(m.chain, m.bucket, m.key, m.cap, m.live)
  BY <1>5, BucketedNone
<1>7. Keyed(m)
  BY DEF Keyed
<1> QED  BY <1>4, <1>6, <1>7 DEF Bare, SoundMap

LEMMA EmptyIs == Bare(EmptyMap, InitCap)
<1> DEFINE m == EmptyMap
<1>1. /\ m.live = {} /\ m.size = 0 /\ m.head = Null /\ m.tail = Null /\ m.cap = InitCap
      /\ m.bucket = [b \in 0 .. (InitCap - 1) |-> Null]
      /\ m.key = [e \in Entries |-> 0] /\ m.val = [e \in Entries |-> NoValue]
      /\ m.chain = [e \in Entries |-> Null] /\ m.prev = [e \in Entries |-> Null]
      /\ m.next = [e \in Entries |-> Null]
      /\ m = [live |-> m.live, key |-> m.key, val |-> m.val, chain |-> m.chain,
               prev |-> m.prev, next |-> m.next, bucket |-> m.bucket, cap |-> m.cap,
               size |-> m.size, head |-> m.head, tail |-> m.tail]
  BY DEF EmptyMap
<1> HIDE DEF m
<1>2. InitCap \in Nat \ {0}
  BY MapAssumption
<1>3. IsLink(m.chain) /\ IsLink(m.prev) /\ IsLink(m.next)
  BY <1>1, PointerFacts DEF IsLink
<1>4. IsMap(m)
  BY <1>1, <1>2, <1>3, PointerFacts DEF IsMap
<1>5. Bare(m, m.cap)
  BY <1>1, <1>4, BareIs
<1> QED  BY <1>1, <1>5 DEF m

LEMMA ClearedIs ==
  ASSUME NEW m, SoundMap(m)
  PROVE  Bare(Cleared(m), m.cap)
<1> DEFINE gone == ToSet(Listed(m))
           r == Cleared(m)
<1>1. IsMap(m) /\ m.live \subseteq Entries
  BY DEF SoundMap, IsMap
<1>2. gone = m.live
  BY <1>1, ListedIs DEF SoundMap, Listing
<1>3. r = [m EXCEPT !.live = @ \ gone,
            !.key  = [x \in Entries |-> IF x \in gone THEN 0 ELSE @[x]],
            !.val  = [x \in Entries |-> IF x \in gone THEN NoValue ELSE @[x]],
            !.chain = [x \in Entries |-> IF x \in gone THEN Null ELSE @[x]],
            !.prev = [x \in Entries |-> IF x \in gone THEN Null ELSE @[x]],
            !.next = [x \in Entries |-> IF x \in gone THEN Null ELSE @[x]],
            !.bucket = [b \in DOMAIN m.bucket |-> Null],
            !.head = Null, !.tail = Null, !.size = 0]
  BY Zenon DEF Cleared
<1> HIDE DEF r, gone
<1>4. /\ r.live = {} /\ r.size = 0 /\ r.head = Null /\ r.tail = Null /\ r.cap = m.cap
      /\ r.key = [x \in Entries |-> IF x \in gone THEN 0 ELSE m.key[x]]
      /\ r.val = [x \in Entries |-> IF x \in gone THEN NoValue ELSE m.val[x]]
      /\ r.chain = [x \in Entries |-> IF x \in gone THEN Null ELSE m.chain[x]]
      /\ r.prev = [x \in Entries |-> IF x \in gone THEN Null ELSE m.prev[x]]
      /\ r.next = [x \in Entries |-> IF x \in gone THEN Null ELSE m.next[x]]
      /\ r.bucket = [b \in DOMAIN m.bucket |-> Null]
      /\ r = [live |-> r.live, key |-> r.key, val |-> r.val, chain |-> r.chain,
               prev |-> r.prev, next |-> r.next, bucket |-> r.bucket, cap |-> r.cap,
               size |-> r.size, head |-> r.head, tail |-> r.tail]
  BY <1>1, <1>2, <1>3 DEF IsMap
<1>5. r.key \in [Entries -> Keys \cup {0}] /\ r.val \in [Entries -> Values \cup {NoValue}]
  BY <1>1, <1>4 DEF IsMap
<1>6. IsLink(r.chain) /\ IsLink(r.prev) /\ IsLink(r.next)
  BY <1>1, <1>4, PointerFacts DEF IsMap, IsLink
<1>7. /\ r.cap \in Nat \ {0} /\ r.bucket \in [0 .. (r.cap - 1) -> Pointer]
      /\ \A b \in 0 .. (r.cap - 1) : r.bucket[b] = Null
  BY <1>1, <1>4, PointerFacts DEF IsMap
<1>8. \A e \in Entries \ r.live : r.next[e] = Null
  BY <1>1, <1>2, <1>4 DEF IsMap
<1>9. IsMap(r)
  BY <1>4, <1>5, <1>6, <1>7, <1>8 DEF IsMap
<1>10. Bare(r, r.cap)
  BY <1>4, <1>7, <1>9, BareIs
<1> QED  BY <1>4, <1>10 DEF r

-----------------------------------------------------------------------------
(* What an iterator returns *)

\* The bindings of the entries in s.
Bound(m, s) == [i \in 1 .. Len(s) |-> [key |-> m.key[s[i]], val |-> m.val[s[i]]]]

\* No key is bound twice.
Unambiguous(q) == \A i, j \in 1 .. Len(q) : q[i].key = q[j].key => i = j

LEMMA ContentsAre ==
  ASSUME NEW m, SoundMap(m), NEW s, Listing(m, s)
  PROVE  /\ Contents(m) = Bound(m, s) /\ Contents(m) \in Seq(Binding)
         /\ Len(Contents(m)) = Len(s) /\ DOMAIN Contents(m) = 1 .. Len(s)
         /\ \A i \in 1 .. Len(s) : /\ Contents(m)[i].key = m.key[s[i]]
                                   /\ Contents(m)[i].val = m.val[s[i]]
                                   /\ s[i] \in m.live
         /\ Unambiguous(Contents(m)) /\ Len(Contents(m)) = m.size
<1> DEFINE n == Len(s)
           q == Bound(m, s)
<1>1. IsMap(m) /\ Keyed(m)
  BY DEF SoundMap
<1>2. /\ Listed(m) = s /\ s \in Seq(Entries) /\ n \in Nat /\ Apart(s)
      /\ ToSet(s) = m.live /\ m.size = n
  BY <1>1, ListedIs DEF Listing
<1>3. Contents(m) = q
  <2>1. DOMAIN s = 1 .. n
    BY <1>2
  <2> QED  BY <1>2, <2>1 DEF Contents, Bound
<1>4. \A i \in 1 .. n : s[i] \in m.live
  BY <1>2, Members
<1>5. q = [i \in 1 .. n |-> [key |-> m.key[s[i]], val |-> m.val[s[i]]]]
  BY DEF Bound
<1> HIDE DEF q
<1>6. \A i \in 1 .. n : q[i] \in Binding /\ q[i].key = m.key[s[i]] /\ q[i].val = m.val[s[i]]
  BY <1>1, <1>4, <1>5 DEF Keyed, Binding
<1>7. q \in [1 .. n -> Binding]
  BY <1>5, <1>6
<1>8. q \in Seq(Binding) /\ Len(q) = n /\ DOMAIN q = 1 .. n
  BY <1>2, <1>7
<1>9. Unambiguous(q)
  BY <1>1, <1>2, <1>4, <1>6, <1>8 DEF Unambiguous, Keyed, Apart
<1> QED  BY <1>2, <1>3, <1>4, <1>6, <1>8, <1>9 DEF q

\* The key is one that an iterator returns, or has no entry.
LEMMA ContentsKeys ==
  ASSUME NEW m, SoundMap(m)
  PROVE  /\ \A i \in DOMAIN Contents(m) :
              \E e \in m.live : m.key[e] = Contents(m)[i].key /\ m.val[e] = Contents(m)[i].val
         /\ \A e \in m.live :
              \E i \in DOMAIN Contents(m) :
                Contents(m)[i].key = m.key[e] /\ Contents(m)[i].val = m.val[e]
<1>1. PICK s : Listing(m, s)
  BY DEF SoundMap
<1>2. s \in Seq(Entries) /\ ToSet(s) = m.live
  BY <1>1, ListedIs DEF Listing, SoundMap
<1>3. \A e \in m.live : \E i \in 1 .. Len(s) : s[i] = e
  BY <1>2, Members
<1>4. /\ DOMAIN Contents(m) = 1 .. Len(s)
      /\ \A i \in 1 .. Len(s) : /\ Contents(m)[i].key = m.key[s[i]]
                                /\ Contents(m)[i].val = m.val[s[i]]
                                /\ s[i] \in m.live
  BY <1>1, ContentsAre
<1> DEFINE q == Contents(m)
<1>5. ASSUME NEW i \in DOMAIN q
      PROVE  \E e \in m.live : m.key[e] = q[i].key /\ m.val[e] = q[i].val
  BY <1>4
<1>6. ASSUME NEW e \in m.live
      PROVE  \E i \in DOMAIN q : q[i].key = m.key[e] /\ q[i].val = m.val[e]
  <2>1. PICK i \in 1 .. Len(s) : s[i] = e
    BY <1>3
  <2> QED  BY <1>4, <2>1
<1> QED  BY <1>5, <1>6\* hashmap_get and an iterator agree.
LEMMA GetContents ==
  ASSUME NEW m, SoundMap(m), NEW k \in Keys
  PROVE  /\ \A i \in DOMAIN Contents(m) : Contents(m)[i].key = k => Get(m, k) = Contents(m)[i].val
         /\ (\A i \in DOMAIN Contents(m) : Contents(m)[i].key # k) => Get(m, k) = NoValue
<1>1. /\ \A e \in m.live : m.key[e] = k => Get(m, k) = m.val[e]
      /\ (\A e \in m.live : m.key[e] # k) => Get(m, k) = NoValue
  BY GetIs
<1> QED  BY <1>1, ContentsKeys

LEMMA PutIs ==
  ASSUME NEW q \in Seq(Binding), NEW k \in Keys, NEW v \in Values
  PROVE  /\ (\A i \in DOMAIN q : q[i].key # k) => Put(q, k, v) = Append(q, [key |-> k, val |-> v])
         /\ (\E i \in DOMAIN q : q[i].key = k) =>
              /\ Put(q, k, v) = [i \in 1 .. Len(q) |->
                                   [key |-> q[i].key, val |-> IF q[i].key = k THEN v ELSE q[i].val]]
<1>1. \A i \in DOMAIN q : /\ q[i] = [key |-> q[i].key, val |-> q[i].val]
                          /\ [q[i] EXCEPT !.val = v] = [key |-> q[i].key, val |-> v]
  <2>1. \A b \in Binding : /\ b = [key |-> b.key, val |-> b.val]
                           /\ [b EXCEPT !.val = v] = [key |-> b.key, val |-> v]
    BY DEF Binding
  <2>2. \A i \in DOMAIN q : q[i] \in Binding
    OBVIOUS
  <2> QED  BY <2>1, <2>2
<1>2. DOMAIN q = 1 .. Len(q)
  OBVIOUS
<1> QED  BY <1>1, <1>2 DEF Put, Abstract!Put

\* What a set does to what hashmap_get returns.
LEMMA GetPut ==
  ASSUME NEW m, SoundMap(m), NEW r, SoundMap(r), NEW k \in Keys, NEW v \in Values,
         Contents(r) = Put(Contents(m), k, v)
  PROVE  /\ Get(r, k) = v
         /\ \A j \in Keys : j # k => Get(r, j) = Get(m, j)
<1> DEFINE q == Contents(m)
           p == Contents(r)
<1>1. q \in Seq(Binding) /\ p \in Seq(Binding)
  BY ContentsAre DEF SoundMap
<1>2. p = Put(q, k, v)
  OBVIOUS
<1>3. /\ \A j \in Keys : \A i \in DOMAIN q : q[i].key = j => Get(m, j) = q[i].val
      /\ \A j \in Keys : (\A i \in DOMAIN q : q[i].key # j) => Get(m, j) = NoValue
  BY GetContents
<1>4. /\ \A j \in Keys : \A i \in DOMAIN p : p[i].key = j => Get(r, j) = p[i].val
      /\ \A j \in Keys : (\A i \in DOMAIN p : p[i].key # j) => Get(r, j) = NoValue
  BY GetContents
<1> HIDE DEF p, q
<1>5. CASE \A i \in DOMAIN q : q[i].key # k
  <2>1. p = Append(q, [key |-> k, val |-> v])
    BY <1>1, <1>2, <1>5, PutIs
  <2>2. /\ Len(q) \in Nat /\ DOMAIN q = 1 .. Len(q) /\ DOMAIN p = 1 .. (Len(q) + 1)
        /\ p[Len(q) + 1] = [key |-> k, val |-> v] /\ \A i \in 1 .. Len(q) : p[i] = q[i]
    <3>1. [key |-> k, val |-> v] \in Binding
      BY DEF Binding
    <3> QED  BY <1>1, <2>1, <3>1
  <2>3. Len(q) + 1 \in DOMAIN p
    BY <2>2
  <2>4. Get(r, k) = v
    BY <1>4, <2>2, <2>3
  <2>5. ASSUME NEW j \in Keys, j # k PROVE Get(r, j) = Get(m, j)
    <3>1. CASE \A i \in DOMAIN q : q[i].key # j
      <4>1. \A i \in DOMAIN p : p[i].key # j
        BY <2>2, <2>5, <3>1
      <4> QED  BY <1>3, <1>4, <3>1, <4>1
    <3>2. CASE \E i \in DOMAIN q : q[i].key = j
      BY <1>3, <1>4, <2>2, <3>2
    <3> QED  BY <3>1, <3>2
  <2> QED  BY <2>4, <2>5
<1>6. CASE \E i \in DOMAIN q : q[i].key = k
  <2>1. p = [i \in 1 .. Len(q) |-> [key |-> q[i].key, val |-> IF q[i].key = k THEN v ELSE q[i].val]]
    <3>1. Put(q, k, v) =
            [i \in 1 .. Len(q) |->
               [key |-> q[i].key, val |-> IF q[i].key = k THEN v ELSE q[i].val]]
      BY <1>1, <1>6, PutIs
    <3> QED  BY <1>2, <3>1, Zenon
  <2>2. /\ DOMAIN q = 1 .. Len(q) /\ DOMAIN p = 1 .. Len(q)
        /\ \A i \in 1 .. Len(q) : p[i].key = q[i].key
                                     /\ p[i].val = IF q[i].key = k THEN v ELSE q[i].val
    BY <1>1, <2>1
  <2>3. Get(r, k) = v
    BY <1>4, <1>6, <2>2
  <2>4. ASSUME NEW j \in Keys, j # k PROVE Get(r, j) = Get(m, j)
    <3>1. CASE \A i \in DOMAIN q : q[i].key # j
      <4>1. \A i \in DOMAIN p : p[i].key # j
        BY <2>2, <3>1
      <4> QED  BY <1>3, <1>4, <3>1, <4>1
    <3>2. CASE \E i \in DOMAIN q : q[i].key = j
      BY <1>3, <1>4, <2>2, <2>4, <3>2
    <3> QED  BY <3>1, <3>2
  <2> QED  BY <2>3, <2>4
<1> QED  BY <1>5, <1>6

\* A binding is its key and its value.
LEMMA BindingsEqual ==
  /\ \A b, c \in Binding : b.key = c.key /\ b.val = c.val => b = c
  /\ \A k \in Keys, v \in Values :
       LET b == [key |-> k, val |-> v] IN b \in Binding /\ b.key = k /\ b.val = v
<1>1. \A b, c \in Binding : b.key = c.key /\ b.val = c.val => b = c
  <2> SUFFICES ASSUME NEW b \in Binding, NEW c \in Binding, b.key = c.key, b.val = c.val
               PROVE  b = c
    OBVIOUS
  <2>1. b = [key |-> b.key, val |-> b.val] /\ c = [key |-> c.key, val |-> c.val]
    BY DEF Binding
  <2> QED  BY <2>1
<1>2. \A k \in Keys, v \in Values :
       LET b == [key |-> k, val |-> v] IN b \in Binding /\ b.key = k /\ b.val = v
  BY DEF Binding
<1> QED  BY <1>1, <1>2

LEMMA LinkedContents ==
  ASSUME NEW m, SoundMap(m), NEW s, Listing(m, s), NEW k \in Keys, NEW v \in Values,
         \A d \in m.live : m.key[d] # k, NEW l, NEW e, Extended(m, l, s, k, v, e)
  PROVE  Contents(l) = Put(Contents(m), k, v)
<1> DEFINE n == Len(s)
           t == Append(s, e)
           q == Contents(m)
           p == Contents(l)
           b == [key |-> k, val |-> v]
           a == Append(q, b)
<1>1. /\ q \in Seq(Binding) /\ Len(q) = n /\ DOMAIN q = 1 .. n
      /\ \A i \in 1 .. n : /\ q[i].key = m.key[s[i]] /\ q[i].val = m.val[s[i]]
                           /\ s[i] \in m.live
  BY ContentsAre
<1>2. s \in Seq(Entries) /\ n \in Nat /\ e \in Entries
  BY ListedIs DEF SoundMap, Extended
<1>3. SoundMap(l) /\ Listing(l, t)
  BY DEF Extended
<1>4. Len(t) = n + 1 /\ t[n + 1] = e /\ \A i \in 1 .. n : t[i] = s[i]
  BY <1>2
<1> HIDE DEF t
<1>5. /\ p \in Seq(Binding) /\ Len(p) = Len(t)
      /\ \A i \in 1 .. Len(t) : p[i].key = l.key[t[i]] /\ p[i].val = l.val[t[i]]
  BY <1>3, ContentsAre
<1>6. /\ l.key[e] = k /\ l.val[e] = v
      /\ \A d \in m.live : l.key[d] = m.key[d] /\ l.val[d] = m.val[d]
  BY DEF Extended
<1>7. \A i \in DOMAIN q : q[i].key # k
  BY <1>1
<1> HIDE DEF p, q, n
<1>8. Put(q, k, v) = Append(q, b)
  BY <1>1, <1>7, PutIs
<1>9. b \in Binding /\ b.key = k /\ b.val = v
  BY BindingsEqual
<1> HIDE DEF b
<1>10. /\ a \in Seq(Binding) /\ Len(a) = n + 1
       /\ a[n + 1] = b /\ \A i \in 1 .. n : a[i] = q[i]
  BY <1>1, <1>9
<1> HIDE DEF a
<1>11. ASSUME NEW i \in 1 .. (n + 1) PROVE p[i] = a[i]
  <2>1. p[i] \in Binding /\ a[i] \in Binding
    BY <1>2, <1>4, <1>5, <1>10
  <2>2. p[i].key = a[i].key /\ p[i].val = a[i].val
    <3>1. CASE i = n + 1
      BY <1>4, <1>5, <1>6, <1>9, <1>10, <3>1
    <3>2. CASE i # n + 1
      <4>1. i \in 1 .. n
        BY <1>2, <3>2
      <4>2. q[i].key = m.key[s[i]] /\ q[i].val = m.val[s[i]] /\ s[i] \in m.live
        BY <1>1, <4>1
      <4>3. p[i].key = l.key[t[i]] /\ p[i].val = l.val[t[i]]
        BY <1>4, <1>5
      <4>4. t[i] = s[i] /\ a[i] = q[i]
        BY <1>4, <1>10, <4>1
      <4> QED  BY <1>6, <4>2, <4>3, <4>4
    <3> QED  BY <3>1, <3>2
  <2> QED  BY <2>1, <2>2, BindingsEqual
<1>12. p = a
  BY <1>4, <1>5, <1>10, <1>11
<1> QED  BY <1>8, <1>12 DEF p, q, a

LEMMA ReplacedContents ==
  ASSUME NEW m, SoundMap(m), NEW s, Listing(m, s), NEW e \in m.live, NEW v \in Values,
         m.key[e] \in Keys,
         NEW r, SoundMap(r), Listing(r, s), r.key = m.key,
         \A d \in m.live : r.val[d] = IF d = e THEN v ELSE m.val[d]
  PROVE  Contents(r) = Put(Contents(m), m.key[e], v)
<1> DEFINE n == Len(s)
           k == m.key[e]
           q == Contents(m)
           p == Contents(r)
           a == Put(q, k, v)
<1>1. /\ q \in Seq(Binding) /\ Len(q) = n /\ DOMAIN q = 1 .. n
      /\ \A i \in 1 .. n : /\ q[i].key = m.key[s[i]] /\ q[i].val = m.val[s[i]]
                           /\ s[i] \in m.live
  BY ContentsAre
<1>2. /\ p \in Seq(Binding) /\ Len(p) = n /\ DOMAIN p = 1 .. n
      /\ \A i \in 1 .. n : /\ p[i].key = r.key[s[i]] /\ p[i].val = r.val[s[i]]
  BY ContentsAre
<1>3. \E i \in DOMAIN q : q[i].key = k
  BY ContentsKeys
<1>4. \A d \in m.live : m.key[d] = k => d = e
  BY DEF SoundMap, Keyed
<1>5. a = [i \in 1 .. n |-> [key |-> q[i].key, val |-> IF q[i].key = k THEN v ELSE q[i].val]]
  <2> HIDE DEF q, k
  <2>1. k \in Keys
    BY DEF k
  <2>2. q \in Seq(Binding) /\ Len(q) = n
    BY <1>1
  <2> HIDE DEF n, a
  <2>3. Put(q, k, v) = [i \in 1 .. Len(q) |->
                          [key |-> q[i].key, val |-> IF q[i].key = k THEN v ELSE q[i].val]]
    BY <1>3, <2>1, <2>2, PutIs
  <2> QED  BY <2>2, <2>3 DEF a
<1> HIDE DEF p, q, a
<1>6. ASSUME NEW i \in 1 .. n PROVE p[i] = a[i]
  <2>1. p[i] \in Binding
    BY <1>2
  <2>2. p[i].key = q[i].key
    BY <1>1, <1>2
  <2>3. p[i].val = IF q[i].key = k THEN v ELSE q[i].val
    BY <1>1, <1>2, <1>4
  <2>4. a[i] = [key |-> q[i].key, val |-> IF q[i].key = k THEN v ELSE q[i].val]
    BY <1>5
  <2>5. q[i].key \in Keys /\ (IF q[i].key = k THEN v ELSE q[i].val) \in Values
    <3>1. q[i] \in Binding
      BY <1>1
    <3> QED  BY <3>1 DEF Binding
  <2> HIDE DEF k
  <2> QED  BY <2>1, <2>2, <2>3, <2>4, <2>5, BindingsEqual
<1>7. p = a
  <2>1. p = [i \in 1 .. n |-> p[i]]
    BY <1>2
  <2>2. a = [i \in 1 .. n |-> a[i]]
    BY <1>5
  <2> QED  BY <1>6, <2>1, <2>2
<1> QED  BY <1>7 DEF p, q, a

LEMMA SameContents ==
  ASSUME NEW m, SoundMap(m), NEW r, SoundMap(r), NEW s, Listing(m, s), Listing(r, s),
         r.key = m.key, r.val = m.val
  PROVE  Contents(r) = Contents(m)
<1>1. Bound(r, s) = Bound(m, s)
  BY DEF Bound
<1>2. Contents(m) = Bound(m, s)
  BY ContentsAre
<1>3. Contents(r) = Bound(r, s)
  BY ContentsAre
<1> QED  BY <1>1, <1>2, <1>3

\* At most three entries for four buckets.
Loaded(m) == 4 * m.size <= 3 * m.cap

\* A set with result r: errno tells a failure, and null is returned with it; a
\* resize that fails is such a failure.
SetDone(m, r, k, v) ==
  /\ SoundMap(r.map) /\ r.mem \in Nat /\ r.errno \in {0, 1} /\ r.short \in BOOLEAN
  /\ \/ Contents(r.map) = Put(Contents(m), k, v)
     \/ Contents(r.map) = Contents(m) /\ r.errno = 1
  /\ r.errno = 1 => r.ret = NoValue
  /\ r.short = FALSE \/ r.errno = 1
  /\ Loaded(m) => r.short = TRUE \/ Loaded(r.map)

LEMMA SetIs ==
  ASSUME NEW m, SoundMap(m), NEW k \in Keys, NEW v \in Values, NEW mem \in Nat
  PROVE  SetDone(m, SetIn(m, k, v, mem), k, v)
<1> DEFINE e == Find(m, k)
           l == Linked(m, k, v)
           r == SetIn(m, k, v, mem)
           Is(m2, ret, err, left, short) ==
             /\ r.map = m2 /\ r.ret = ret /\ r.errno = err /\ r.mem = left /\ r.short = short
<1>1. PICK s : Listing(m, s)
  BY DEF SoundMap
<1>2. r = IF e # Null
          THEN [map |-> [m EXCEPT !.val[e] = v], ret |-> m.val[e], errno |-> 0, mem |-> mem,
                short |-> FALSE]
          ELSE IF mem = 0
          THEN [map |-> m, ret |-> NoValue, errno |-> 1, mem |-> 0, short |-> FALSE]
          ELSE IF ~Overloaded(l)
          THEN [map |-> l, ret |-> NoValue, errno |-> 0, mem |-> mem - 1, short |-> FALSE]
          ELSE IF mem = 1
          THEN [map |-> l, ret |-> NoValue, errno |-> 1, mem |-> 0, short |-> TRUE]
          ELSE [map |-> Rehashed(l, 2 * l.cap), ret |-> NoValue, errno |-> 0, mem |-> mem - 2,
                short |-> FALSE]
  BY Zenon DEF SetIn
<1>3. IsMap(m) /\ Keyed(m) /\ m.live \subseteq Entries /\ m.cap \in Nat \ {0} /\ m.size \in Nat
  BY <1>1, ListedIs DEF SoundMap, IsMap
<1>4. \/ e = Null /\ \A d \in m.live : m.key[d] # k
      \/ e \in m.live /\ e # Null /\ m.key[e] = k
  BY FindIs
<1> SUFFICES SetDone(m, r, k, v)
  OBVIOUS
<1> HIDE DEF r, e
<1>5. CASE e # Null
  <2> DEFINE m2 == [m EXCEPT !.val[e] = v]
  <2>1. e \in m.live /\ m.key[e] = k /\ m.val[e] \in Values
    BY <1>3, <1>4, <1>5 DEF Keyed
  <2>2. Is(m2, m.val[e], 0, mem, FALSE)
    BY <1>2, <1>5
  <2>3. /\ SoundMap(m2) /\ Listing(m2, s) /\ m2.key = m.key /\ m2.size = m.size /\ m2.cap = m.cap
        /\ \A d \in m.live : m2.val[d] = IF d = e THEN v ELSE m.val[d]
    BY <1>1, <2>1, ReplacedIs
  <2> HIDE DEF m2
  <2>4. Contents(m2) = Put(Contents(m), k, v)
    BY <1>1, <2>1, <2>3, ReplacedContents
  <2>5. Loaded(m) => Loaded(m2)
    BY <2>3 DEF Loaded
  <2>6. SoundMap(r.map) /\ r.mem \in Nat /\ r.errno \in {0, 1}
    BY <2>2, <2>3
  <2>7. r.short \in BOOLEAN
    BY <2>2
  <2>8. Contents(r.map) = Put(Contents(m), k, v)
    BY <2>2, <2>4
  <2>9. r.errno # 1 /\ r.short = FALSE
    BY <2>2
  <2>10. Loaded(m) => Loaded(r.map)
    BY <2>2, <2>5
  <2> QED  BY <2>6, <2>7, <2>8, <2>9, <2>10 DEF SetDone
<1>6. CASE e = Null /\ mem = 0
  <2>1. Is(m, NoValue, 1, 0, FALSE)
    BY <1>2, <1>6
  <2>2. SoundMap(r.map) /\ r.mem \in Nat /\ r.errno \in {0, 1}
    BY <2>1
  <2>3. r.short \in BOOLEAN
    BY <2>1
  <2>4. Contents(r.map) = Contents(m) /\ r.errno = 1
    BY <2>1
  <2>5. r.errno = 1 => r.ret = NoValue
    BY <2>1
  <2>6. r.short = FALSE
    BY <2>1
  <2>7. Loaded(m) => Loaded(r.map)
    BY <2>1
  <2> QED  BY <2>2, <2>3, <2>4, <2>5, <2>6, <2>7 DEF SetDone
<1>7. CASE e = Null /\ mem # 0
  <2>1. PICK d : Extended(m, l, s, k, v, d)
    BY <1>1, <1>4, <1>7, LinkedIs
  <2> HIDE DEF l
  <2>2. /\ SoundMap(l) /\ Listing(l, Append(s, d)) /\ l.cap = m.cap /\ l.size = m.size + 1
    BY <2>1 DEF Extended
  <2>3. Contents(l) = Put(Contents(m), k, v)
    BY <1>1, <1>4, <1>7, <2>1, LinkedContents
  <2>4. CASE ~Overloaded(l)
    <3>1. Is(l, NoValue, 0, mem - 1, FALSE)
      BY <1>2, <1>7, <2>4
    <3>2. Loaded(l) /\ mem - 1 \in Nat
      BY <1>3, <1>7, <2>2, <2>4 DEF Overloaded, Loaded
    <3> QED  BY <2>2, <2>3, <3>1, <3>2 DEF SetDone
  <2>5. CASE Overloaded(l) /\ mem = 1
    <3>1. Is(l, NoValue, 1, 0, TRUE)
      BY <1>2, <1>7, <2>5
    <3>2. SoundMap(r.map) /\ r.mem \in Nat /\ r.errno \in {0, 1}
      BY <2>2, <3>1
    <3>3. r.short \in BOOLEAN
      BY <3>1
    <3>4. Contents(r.map) = Put(Contents(m), k, v)
      BY <2>3, <3>1
    <3>5. r.errno = 1 /\ r.ret = NoValue /\ r.short = TRUE
      BY <3>1
    <3> QED  BY <3>2, <3>3, <3>4, <3>5 DEF SetDone
  <2>6. CASE Overloaded(l) /\ mem # 1
    <3> DEFINE c == 2 * l.cap
               h == Rehashed(l, c)
    <3>1. Is(h, NoValue, 0, mem - 2, FALSE)
      BY <1>2, <1>7, <2>6
    <3>2. c \in Nat \ {0} /\ mem - 2 \in Nat
      BY <1>3, <1>7, <2>2, <2>6
    <3> HIDE DEF c
    <3>3. /\ SoundMap(h) /\ Listing(h, Append(s, d)) /\ h.cap = c
          /\ h.key = l.key /\ h.val = l.val /\ h.size = l.size
      BY <2>2, <3>2, RehashedIs
    <3> HIDE DEF h
    <3>4. Contents(h) = Contents(l)
      BY <2>2, <3>3, SameContents
    <3>5. Loaded(m) => Loaded(h)
      BY <1>3, <2>2, <3>3 DEF Loaded, c
    <3> QED  BY <2>3, <3>1, <3>2, <3>3, <3>4, <3>5 DEF SetDone
  <2> QED  BY <2>4, <2>5, <2>6
<1> QED  BY <1>5, <1>6, <1>7

-----------------------------------------------------------------------------
(* hashmap_merge *)

\* Where the fold in MergeIn begins.
Started(m, other, err, mem) ==
  LET total == m.size + Len(other)
      grow == m.cap < total
  IN  [map |-> IF grow THEN Rehashed(m, total) ELSE m,
       errno |-> err, mem |-> IF grow THEN mem - 1 ELSE mem,
       short |-> FALSE, ok |-> TRUE]

\* The steps of the fold in MergeIn, with result r.
MergeSteps(m, other, err, mem, f, r) ==
  /\ f[0] = Started(m, other, err, mem)
  /\ \A i \in 1 .. Len(other) : f[i] = Added(f[i - 1], other[i])
  /\ r = f[Len(other)]

LEMMA MergedSteps ==
  ASSUME NEW m, NEW other, DOMAIN other = 1 .. Len(other), Len(other) \in Nat,
         NEW err, NEW mem, ~(m.cap < m.size + Len(other) /\ mem = 0)
  PROVE  \E f : MergeSteps(m, other, err, mem, f, MergeIn(m, other, err, mem))
<1> DEFINE s == other
           n == Len(s)
           base == Started(m, other, err, mem)
           Is(g) == g = [u \in SUBSET (DOMAIN s) |->
                           IF u = {} THEN base ELSE Added(g[u \ {Max(u)}], s[Max(u)])]
           g == CHOOSE g : Is(g)
           r == g[DOMAIN s]
<1>1. MergeIn(m, other, err, mem) =
        IF m.cap < m.size + Len(other) /\ mem = 0
        THEN [map |-> m, errno |-> 1, mem |-> 0, short |-> TRUE, ok |-> FALSE]
        ELSE r
  BY Zenon DEF MergeIn, FoldLeft, MapThenFoldSet, Added, Started
<1>2. MergeIn(m, other, err, mem) = r
  <2> HIDE DEF r
  <2> QED  BY <1>1, Zenon
<1>3. DOMAIN s = 1 .. n /\ n \in Nat
  OBVIOUS
<1> HIDE DEF s, base, n
<1>4. \A h : Folding("merge", m, 0, base, s, 1 .. n, h) <=> Is(h)
  <2>1. \A a, x : Folded("merge", m, 0, a, x) = Added(a, x)
    BY DEF Folded
  <2> TAKE h
  <2>2. \A u \in SUBSET (1 .. n) :
          Folded("merge", m, 0, h[u \ {Max(u)}], s[Max(u)]) = Added(h[u \ {Max(u)}], s[Max(u)])
    BY <2>1, Zenon
  <2>3. [u \in SUBSET (1 .. n) |->
           IF u = {} THEN base ELSE Folded("merge", m, 0, h[u \ {Max(u)}], s[Max(u)])]
        = [u \in SUBSET (1 .. n) |->
             IF u = {} THEN base ELSE Added(h[u \ {Max(u)}], s[Max(u)])]
    BY <2>2
  <2> QED  BY <1>3, <2>3, Zenon DEF Folding
<1>5. Folding("merge", m, 0, base, s, 1 .. n, g)
  <2>1. \E h : Is(h)
    BY <1>3, <1>4, FoldingExists
  <2>2. Is(g)
    <3> HIDE DEF Is
    <3> QED  BY <2>1
  <2> HIDE DEF Is, g
  <2> QED  BY <1>4, <2>2
<1> HIDE DEF g
<1>6. PICK f : FoldSteps("merge", m, 0, base, s, f) /\ f[n] = g[1 .. n]
  BY <1>3, <1>5, FoldedSteps DEF n
<1>7. /\ f[0] = base
      /\ \A i \in 1 .. n : f[i] = Added(f[i - 1], s[i])
  BY <1>6 DEF FoldSteps, Folded, n
<1>8. f[n] = r
  BY <1>3, <1>6
<1> HIDE DEF r
<1>9. MergeSteps(m, other, err, mem, f, MergeIn(m, other, err, mem))
  BY <1>2, <1>7, <1>8 DEF n, s, base, MergeSteps
<1> QED  BY <1>9

\* After i bindings of the other map; p[j] is what an iterator returns with the
\* first j of them set.
Merging(m, other, p, a, i) ==
  /\ SoundMap(a.map) /\ a.errno \in {0, 1} /\ a.mem \in Nat
  /\ a.short \in BOOLEAN /\ a.ok \in BOOLEAN
  /\ a.ok = TRUE => /\ a.short = FALSE /\ Contents(a.map) = p[i]
                    /\ \A j \in 1 .. i : Get(a.map, other[j].key) = other[j].val
  /\ \E j \in 0 .. i : Contents(a.map) = p[j]
  /\ Loaded(m) => a.short = TRUE \/ Loaded(a.map)

\* No memory for the buckets is a failed resize, and nothing is merged.
Refused(m, r) == r.map = m /\ r.errno = 1 /\ r.short = TRUE /\ r.ok = FALSE

LEMMA AddedIs ==
  ASSUME NEW m, NEW other \in Seq(Binding), Unambiguous(other), NEW p,
         NEW i \in Nat, i + 1 \in 1 .. Len(other),
         p[i + 1] = Put(p[i], other[i + 1].key, other[i + 1].val),
         NEW a, Merging(m, other, p, a, i)
  PROVE  Merging(m, other, p, Added(a, other[i + 1]), i + 1)
<1> DEFINE b == other[i + 1]
           r == SetIn(a.map, b.key, b.val, a.mem)
           a2 == Added(a, b)
<1>1. b \in Binding /\ b.key \in Keys /\ b.val \in Values
  <2>1. b \in Binding
    OBVIOUS
  <2>2. \A c \in Binding : c.key \in Keys /\ c.val \in Values
    BY DEF Binding
  <2> QED  BY <2>1, <2>2
<1>2. /\ SoundMap(a.map) /\ a.errno \in {0, 1} /\ a.mem \in Nat
      /\ a.short \in BOOLEAN /\ a.ok \in BOOLEAN
      /\ Loaded(m) => a.short = TRUE \/ Loaded(a.map)
  BY DEF Merging
<1>3. PICK j \in 0 .. i : Contents(a.map) = p[j]
  BY DEF Merging
<1>4. CASE a.ok = FALSE
  <2>1. a2 = a
    BY <1>4 DEF Added
  <2>2. j \in 0 .. (i + 1)
    OBVIOUS
  <2>3. Merging(m, other, p, a, i + 1)
    BY <1>2, <1>3, <1>4, <2>2 DEF Merging
  <2> QED  BY <2>1, <2>3
<1>5. CASE a.ok = TRUE
  <2>1. /\ a2.map = r.map /\ a2.errno = r.errno /\ a2.mem = r.mem /\ a2.short = r.short
        /\ a2.ok = ~(r.ret = NoValue /\ r.errno # 0)
    BY <1>5 DEF Added
  <2>2. SetDone(a.map, r, b.key, b.val)
    BY <1>1, <1>2, SetIs
  <2>3. /\ Contents(a.map) = p[i] /\ a.short = FALSE
        /\ \A k \in 1 .. i : Get(a.map, other[k].key) = other[k].val
    BY <1>5 DEF Merging
  <2>4. p[i + 1] = Put(p[i], b.key, b.val)
    OBVIOUS
  <2>5. \A k \in 1 .. i : other[k].key # b.key /\ other[k].key \in Keys
    <3> TAKE k \in 1 .. i
    <3>1. k \in 1 .. Len(other) /\ k # i + 1
      OBVIOUS
    <3>2. other[k] \in Binding
      BY <3>1
    <3> QED  BY <3>1, <3>2 DEF Unambiguous, Binding
  <2> HIDE DEF a2, r, b
  <2>6. /\ SoundMap(r.map) /\ r.mem \in Nat /\ r.errno \in {0, 1} /\ r.short \in BOOLEAN
        /\ \/ Contents(r.map) = Put(Contents(a.map), b.key, b.val)
           \/ Contents(r.map) = Contents(a.map) /\ r.errno = 1
        /\ r.errno = 1 => r.ret = NoValue
        /\ r.short = FALSE \/ r.errno = 1
        /\ Loaded(a.map) => r.short = TRUE \/ Loaded(r.map)
    BY <2>2 DEF SetDone
  <2>7. a2.ok \in BOOLEAN /\ (a2.ok = TRUE <=> r.errno = 0)
    BY <2>1, <2>6
  <2>8. \E k \in 0 .. (i + 1) : Contents(a2.map) = p[k]
    <3>1. i \in 0 .. (i + 1) /\ i + 1 \in 0 .. (i + 1)
      OBVIOUS
    <3>2. Contents(r.map) = p[i + 1] \/ Contents(r.map) = p[i]
      BY <2>3, <2>4, <2>6
    <3> QED  BY <2>1, <3>1, <3>2
  <2>9. ASSUME a2.ok = TRUE
        PROVE  /\ a2.short = FALSE /\ Contents(a2.map) = p[i + 1]
               /\ \A k \in 1 .. (i + 1) : Get(a2.map, other[k].key) = other[k].val
    <3>1. r.errno = 0
      BY <2>7, <2>9
    <3>2. Contents(r.map) = Put(Contents(a.map), b.key, b.val) /\ r.short = FALSE
      BY <2>6, <3>1
    <3>3. Get(r.map, b.key) = b.val /\ \A k \in Keys : k # b.key => Get(r.map, k) = Get(a.map, k)
      BY <1>1, <1>2, <2>6, <3>2, GetPut
    <3>4. \A k \in 1 .. (i + 1) : Get(r.map, other[k].key) = other[k].val
      <4> TAKE k \in 1 .. (i + 1)
      <4>1. CASE k = i + 1
        BY <3>3, <4>1 DEF b
      <4>2. CASE k # i + 1
        <5>1. k \in 1 .. i
          BY <4>2
        <5> QED  BY <2>3, <2>5, <3>3, <5>1
      <4> QED  BY <4>1, <4>2
    <3> QED  BY <2>1, <2>3, <2>4, <3>2, <3>4
  <2>10. Loaded(m) => a2.short = TRUE \/ Loaded(a2.map)
    BY <1>2, <2>1, <2>3, <2>6
  <2>11. /\ SoundMap(a2.map) /\ a2.errno \in {0, 1} /\ a2.mem \in Nat /\ a2.short \in BOOLEAN
    BY <2>1, <2>6
  <2>12. Merging(m, other, p, a2, i + 1)
    BY <2>7, <2>8, <2>9, <2>10, <2>11 DEF Merging
  <2> QED  BY <2>12 DEF a2, b
<1> QED  BY <1>2, <1>4, <1>5

\* Rehashing changes nothing an iterator returns.
LEMMA RehashedContents ==
  ASSUME NEW m, SoundMap(m), NEW c \in Nat \ {0}
  PROVE  LET r == Rehashed(m, c) IN
         SoundMap(r) /\ Contents(r) = Contents(m) /\ r.cap = c /\ r.size = m.size
<1> DEFINE r == Rehashed(m, c)
<1>1. PICK s : Listing(m, s)
  BY DEF SoundMap
<1>2. /\ SoundMap(r) /\ Listing(r, s) /\ r.cap = c
      /\ r.key = m.key /\ r.val = m.val /\ r.size = m.size
  BY <1>1, RehashedIs
<1> HIDE DEF r
<1>3. Contents(r) = Contents(m)
  BY <1>1, <1>2, SameContents
<1> QED  BY <1>2, <1>3 DEF r

\* The results of setting the bindings of other one after the other.
PutSteps(m, other, p) ==
  /\ p[0] = Contents(m)
  /\ \A i \in 1 .. Len(other) : p[i] = Put(p[i - 1], other[i].key, other[i].val)

LEMMA MergeInIs ==
  ASSUME NEW m, SoundMap(m), NEW other \in Seq(Binding), Unambiguous(other),
         NEW err \in {0, 1}, NEW mem \in Nat, NEW p, PutSteps(m, other, p)
  PROVE  \/ Refused(m, MergeIn(m, other, err, mem))
         \/ Merging(m, other, p, MergeIn(m, other, err, mem), Len(other))
<1> DEFINE n == Len(other)
           total == m.size + n
           grow == m.cap < total
           start == Started(m, other, err, mem)
           r == MergeIn(m, other, err, mem)
<1>1. m.cap \in Nat \ {0} /\ m.size \in Nat /\ n \in Nat /\ DOMAIN other = 1 .. n
  BY ListedIs DEF SoundMap, IsMap
<1>2. CASE grow /\ mem = 0
  <2>1. r = [map |-> m, errno |-> 1, mem |-> 0, short |-> TRUE, ok |-> FALSE]
    BY <1>2, Zenon DEF MergeIn
  <2> HIDE DEF r
  <2>2. Refused(m, r)
    BY <2>1 DEF Refused
  <2> QED  BY <2>2 DEF r
<1>3. CASE ~(grow /\ mem = 0)
  <2>1. PICK f : MergeSteps(m, other, err, mem, f, r)
    BY <1>1, <1>3, MergedSteps
  <2> HIDE DEF r
  <2>2. f[0] = start /\ r = f[n] /\ \A i \in 1 .. n : f[i] = Added(f[i - 1], other[i])
    BY <2>1 DEF MergeSteps
  <2>3. Merging(m, other, p, start, 0)
    <3>1. /\ start.map = (IF grow THEN Rehashed(m, total) ELSE m) /\ start.errno = err
          /\ start.mem = (IF grow THEN mem - 1 ELSE mem)
          /\ start.short = FALSE /\ start.ok = TRUE
      BY DEF Started
    <3> HIDE DEF start
    <3>2. start.mem \in Nat /\ start.errno \in {0, 1}
      BY <1>3, <3>1
    <3>3. /\ SoundMap(start.map) /\ Contents(start.map) = Contents(m)
          /\ Loaded(m) => Loaded(start.map)
      <4>1. CASE grow
        <5>1. total \in Nat \ {0} /\ total > m.cap
          BY <1>1, <4>1
        <5> DEFINE h == Rehashed(m, total)
        <5> HIDE DEF total
        <5>2. SoundMap(h) /\ Contents(h) = Contents(m) /\ h.cap = total /\ h.size = m.size
          BY <5>1, RehashedContents
        <5> HIDE DEF h
        <5>3. Loaded(m) => Loaded(h)
          BY <1>1, <5>1, <5>2 DEF Loaded
        <5>4. start.map = h
          BY <3>1, <4>1 DEF h
        <5> QED  BY <5>2, <5>3, <5>4
      <4>2. CASE ~grow
        BY <3>1, <4>2
      <4> QED  BY <4>1, <4>2
    <3>4. p[0] = Contents(m) /\ 0 \in 0 .. 0 /\ \A j \in 1 .. 0 : FALSE
      BY DEF PutSteps
    <3>5. start.short \in BOOLEAN /\ start.ok \in BOOLEAN
      BY <3>1
    <3>6. start.ok = TRUE => /\ start.short = FALSE /\ Contents(start.map) = p[0]
                             /\ \A j \in 1 .. 0 : Get(start.map, other[j].key) = other[j].val
      BY <3>1, <3>3, <3>4
    <3>7. \E j \in 0 .. 0 : Contents(start.map) = p[j]
      BY <3>3, <3>4
    <3>8. Loaded(m) => start.short = TRUE \/ Loaded(start.map)
      BY <3>3
    <3> QED  BY <3>2, <3>3, <3>5, <3>6, <3>7, <3>8 DEF Merging
  <2> DEFINE T == {i \in Nat : i <= n => Merging(m, other, p, f[i], i)}
  <2>4. 0 \in T
    BY <2>2, <2>3
  <2>5. ASSUME NEW i \in T PROVE i + 1 \in T
    <3>1. SUFFICES ASSUME i + 1 <= n PROVE Merging(m, other, p, f[i + 1], i + 1)
      OBVIOUS
    <3>2. i \in Nat /\ i + 1 \in 1 .. n /\ (i + 1) - 1 = i /\ Merging(m, other, p, f[i], i)
      BY <1>1, <3>1
    <3> HIDE DEF T
    <3>3. p[i + 1] = Put(p[i], other[i + 1].key, other[i + 1].val)
      BY <3>2 DEF PutSteps
    <3>4. f[i + 1] = Added(f[i], other[i + 1])
      BY <2>2, <3>2
    <3>5. Merging(m, other, p, Added(f[i], other[i + 1]), i + 1)
      BY <3>2, <3>3, AddedIs
    <3> QED  BY <3>4, <3>5
  <2>6. T \subseteq Nat
    OBVIOUS
  <2>7. n \in T
    <3> HIDE DEF T
    <3>1. T = Nat
      BY <2>4, <2>5, <2>6, AllNaturals
    <3> QED  BY <1>1, <3>1
  <2>8. Merging(m, other, p, f[n], n)
    BY <1>1, <2>7
  <2> QED  BY <2>2, <2>8 DEF r
<1> QED  BY <1>2, <1>3

\* There are such results.
LEMMA PutStepsExist ==
  ASSUME NEW m, NEW other \in Seq(Binding)
  PROVE  \E p : PutSteps(m, other, p)
<1>1. Len(other) \in Nat
  OBVIOUS
<1>2. PICK g : Folding("put", m, 0, Contents(m), other, 1 .. Len(other), g)
  BY <1>1, FoldingExists
<1>3. PICK p : FoldSteps("put", m, 0, Contents(m), other, p)
  BY <1>1, <1>2, FoldedSteps
<1>4. PutSteps(m, other, p)
  BY <1>3 DEF FoldSteps, Folded, PutSteps
<1> QED  BY <1>4

-----------------------------------------------------------------------------
(* What the abstract map does *)

LEMMA RemoveAtIs ==
  ASSUME NEW S, NEW s \in Seq(S), NEW k \in 1 .. Len(s)
  PROVE  RemoveAt(s, k) = Drop(s, k)
<1> DEFINE a == SubSeq(s, 1, k - 1)
           b == SubSeq(s, k + 1, Len(s))
           c == a \o b
           n == Len(s)
<1>1. n \in Nat /\ k \in 1 .. n
  OBVIOUS
<1>2. a \in Seq(S) /\ Len(a) = k - 1 /\ \A i \in 1 .. (k - 1) : a[i] = s[i]
  OBVIOUS
<1>3. b \in Seq(S) /\ Len(b) = n - k /\ \A i \in 1 .. (n - k) : b[i] = s[k + i]
  OBVIOUS
<1>4. RemoveAt(s, k) = c
  BY DEF RemoveAt
<1> HIDE DEF a, b, n
<1>5. c \in Seq(S) /\ Len(c) = n - 1
  <2>1. c \in Seq(S) /\ Len(c) = Len(a) + Len(b)
    <3>1. a \in Seq(S) /\ b \in Seq(S)
      BY <1>2, <1>3
    <3> QED  BY <3>1
  <2> QED  BY <1>1, <1>2, <1>3, <2>1
<1>6. ASSUME NEW i \in 1 .. (n - 1) PROVE c[i] = IF i < k THEN s[i] ELSE s[i + 1]
  <2>1. c[i] = IF i <= Len(a) THEN a[i] ELSE b[i - Len(a)]
    <3>1. i \in 1 .. (Len(a) + Len(b))
      BY <1>1, <1>2, <1>3
    <3> QED  BY <1>2, <1>3, <3>1
  <2>2. CASE i < k
    BY <1>1, <1>2, <2>1, <2>2
  <2>3. CASE ~(i < k)
    <3>1. i - (k - 1) \in 1 .. (n - k) /\ k + (i - (k - 1)) = i + 1 /\ ~(i <= k - 1)
      BY <1>1, <2>3
    <3> QED  BY <1>2, <1>3, <2>1, <2>3, <3>1
  <2> QED  BY <2>2, <2>3
<1> HIDE DEF c
<1>7. c = [i \in 1 .. (n - 1) |-> IF i < k THEN s[i] ELSE s[i + 1]]
  <2>1. c = [i \in 1 .. (n - 1) |-> c[i]]
    BY <1>5
  <2> QED  BY <1>6, <2>1
<1> QED  BY <1>4, <1>7 DEF Drop, n

\* A removal takes the binding of its key from what an iterator returns.
LEMMA CutContents ==
  ASSUME NEW m, SoundMap(m), NEW s, Listing(m, s), NEW i \in 1 .. Len(s), NEW r, Cut(m, r, s, i)
  PROVE  Contents(r) = Abstract!Without(Contents(m), m.key[s[i]])
<1> DEFINE n == Len(s)
           k == m.key[s[i]]
           q == Contents(m)
           p == Contents(r)
           t == Drop(s, i)
           at == {j \in DOMAIN q : q[j].key = k}
<1>1. /\ q \in Seq(Binding) /\ Len(q) = n /\ DOMAIN q = 1 .. n
      /\ \A j \in 1 .. n : q[j].key = m.key[s[j]] /\ q[j].val = m.val[s[j]]
      /\ Unambiguous(q)
  BY ContentsAre
<1>2. s \in Seq(Entries) /\ n \in Nat /\ i \in 1 .. n /\ Apart(s)
  BY ListedIs DEF SoundMap, Listing
<1>3. t \in Seq(Entries) /\ Len(t) = n - 1
  BY <1>2, DropFacts
<1>4. \A j \in 1 .. (n - 1) : t[j] = IF j < i THEN s[j] ELSE s[j + 1]
  BY DEF Drop
<1>5. /\ p \in Seq(Binding) /\ Len(p) = n - 1 /\ DOMAIN p = 1 .. (n - 1)
      /\ \A j \in 1 .. (n - 1) : p[j].key = r.key[t[j]] /\ p[j].val = r.val[t[j]] /\ t[j] \in r.live
  <2>1. SoundMap(r) /\ Listing(r, t)
    BY DEF Cut
  <2> HIDE DEF t, p
  <2>2. /\ p \in Seq(Binding) /\ Len(p) = Len(t) /\ DOMAIN p = 1 .. Len(t)
        /\ \A j \in 1 .. Len(t) : /\ p[j].key = r.key[t[j]] /\ p[j].val = r.val[t[j]]
                                  /\ t[j] \in r.live
    BY <2>1, ContentsAre DEF p
  <2> QED  BY <1>3, <2>2
<1>6. \A d \in r.live : r.key[d] = m.key[d] /\ r.val[d] = m.val[d]
  BY DEF Cut
<1>7. at = {i}
  BY <1>1, <1>2 DEF Unambiguous
<1>8. Abstract!Without(q, k) = RemoveAt(q, i)
  <2>1. Abstract!Without(q, k) = IF at = {} THEN q ELSE RemoveAt(q, CHOOSE j \in at : TRUE)
    BY Zenon DEF Abstract!Without, Abstract!RemoveAt, RemoveAt
  <2> HIDE DEF at, q, k
  <2>2. (CHOOSE j \in at : TRUE) = i /\ at # {}
    BY <1>7
  <2> QED  BY <2>1, <2>2
<1>9. RemoveAt(q, i) = Drop(q, i)
  BY <1>1, <1>2, RemoveAtIs
<1> HIDE DEF p, q, t, n, k
<1>10. p = Drop(q, i)
  <2>1. ASSUME NEW j \in 1 .. (n - 1) PROVE p[j] = IF j < i THEN q[j] ELSE q[j + 1]
    <3> DEFINE l == IF j < i THEN j ELSE j + 1
    <3>1. l \in 1 .. n /\ q[l] = IF j < i THEN q[j] ELSE q[j + 1]
      BY <1>2
    <3>2. t[j] = s[l]
      BY <1>4
    <3> HIDE DEF l
    <3>3. p[j].key = q[l].key /\ p[j].val = q[l].val
      <4>1. p[j].key = r.key[t[j]] /\ p[j].val = r.val[t[j]] /\ t[j] \in r.live
        BY <1>5
      <4>2. q[l].key = m.key[s[l]] /\ q[l].val = m.val[s[l]]
        BY <1>1, <3>1
      <4> QED  BY <1>6, <3>2, <4>1, <4>2
    <3>4. p[j] \in Binding /\ q[l] \in Binding
      BY <1>1, <1>5, <3>1
    <3> QED  BY <3>1, <3>3, <3>4, BindingsEqual
  <2>2. p = [j \in 1 .. (n - 1) |-> p[j]]
    BY <1>5
  <2>3. Drop(q, i) = [j \in 1 .. (n - 1) |-> IF j < i THEN q[j] ELSE q[j + 1]]
    BY <1>1 DEF Drop
  <2> QED  BY <2>1, <2>2, <2>3
<1> QED  BY <1>8, <1>9, <1>10 DEF p, q, k

\* Setting all bindings of bs is setting one after the other.
LEMMA PutAllSteps ==
  ASSUME NEW m, NEW bs \in Seq(Binding)
  PROVE  \E p : PutSteps(m, bs, p) /\ Abstract!PutAll(Contents(m), bs) = p[Len(bs)]
<1> DEFINE s == bs
           n == Len(s)
           base == Contents(m)
           Is(g) == g = [u \in SUBSET (DOMAIN s) |->
                           IF u = {} THEN base
                           ELSE Put(g[u \ {Max(u)}], s[Max(u)].key, s[Max(u)].val)]
           g == CHOOSE g : Is(g)
           r == g[DOMAIN s]
<1>1. Abstract!PutAll(Contents(m), bs) = r
  BY Zenon DEF Abstract!PutAll, Abstract!FoldLeft, Abstract!MapThenFoldSet, Abstract!Max, Max,
               Put
<1>2. DOMAIN s = 1 .. n /\ n \in Nat
  OBVIOUS
<1> HIDE DEF s, base, n
<1>3. \A h : Folding("put", m, 0, base, s, 1 .. n, h) <=> Is(h)
  <2>1. \A a, x : Folded("put", m, 0, a, x) = Put(a, x.key, x.val)
    BY DEF Folded
  <2> TAKE h
  <2>2. \A u \in SUBSET (1 .. n) :
          Folded("put", m, 0, h[u \ {Max(u)}], s[Max(u)])
            = Put(h[u \ {Max(u)}], s[Max(u)].key, s[Max(u)].val)
    BY <2>1, Zenon
  <2>3. [u \in SUBSET (1 .. n) |->
           IF u = {} THEN base ELSE Folded("put", m, 0, h[u \ {Max(u)}], s[Max(u)])]
        = [u \in SUBSET (1 .. n) |->
             IF u = {} THEN base ELSE Put(h[u \ {Max(u)}], s[Max(u)].key, s[Max(u)].val)]
    BY <2>2
  <2> QED  BY <1>2, <2>3, Zenon DEF Folding
<1>4. Folding("put", m, 0, base, s, 1 .. n, g)
  <2>1. \E h : Is(h)
    BY <1>2, <1>3, FoldingExists
  <2>2. Is(g)
    <3> HIDE DEF Is
    <3> QED  BY <2>1
  <2> HIDE DEF Is, g
  <2> QED  BY <1>3, <2>2
<1> HIDE DEF g
<1>5. PICK p : FoldSteps("put", m, 0, base, s, p) /\ p[n] = g[1 .. n]
  BY <1>2, <1>4, FoldedSteps DEF n
<1>6. /\ p[0] = base
      /\ \A i \in 1 .. n : p[i] = Put(p[i - 1], s[i].key, s[i].val)
  BY <1>5 DEF FoldSteps, Folded, n
<1>7. p[n] = r
  BY <1>2, <1>5
<1> HIDE DEF r
<1>8. PutSteps(m, bs, p) /\ Abstract!PutAll(Contents(m), bs) = p[Len(bs)]
  BY <1>1, <1>6, <1>7 DEF n, s, base, PutSteps
<1> QED  BY <1>8

\* A first part of them is set on the way.
LEMMA PutAllParts ==
  ASSUME NEW m, NEW other \in Seq(Binding), NEW p, PutSteps(m, other, p),
         NEW j \in 0 .. Len(other)
  PROVE  Abstract!PutAll(Contents(m), SubSeq(other, 1, j)) = p[j]
<1> DEFINE bs == SubSeq(other, 1, j)
<1>1. /\ bs \in Seq(Binding) /\ Len(bs) = j /\ j \in Nat /\ j <= Len(other)
      /\ \A i \in 1 .. j : bs[i] = other[i]
  OBVIOUS
<1> HIDE DEF bs
<1>2. PICK q : PutSteps(m, bs, q) /\ Abstract!PutAll(Contents(m), bs) = q[j]
  BY <1>1, PutAllSteps
<1> DEFINE T == {i \in Nat : i <= j => q[i] = p[i]}
<1>3. 0 \in T
  BY <1>2 DEF PutSteps
<1>4. ASSUME NEW i \in T PROVE i + 1 \in T
  <2>1. SUFFICES ASSUME i + 1 <= j PROVE q[i + 1] = p[i + 1]
    OBVIOUS
  <2>2. /\ i \in Nat /\ i + 1 \in 1 .. j /\ i + 1 \in 1 .. Len(other) /\ (i + 1) - 1 = i
        /\ q[i] = p[i]
    BY <1>1, <2>1
  <2>3. q[i + 1] = Put(q[i], bs[i + 1].key, bs[i + 1].val)
    BY <1>1, <1>2, <2>2 DEF PutSteps
  <2>4. p[i + 1] = Put(p[i], other[i + 1].key, other[i + 1].val)
    BY <2>2 DEF PutSteps
  <2> QED  BY <1>1, <2>2, <2>3, <2>4
<1>5. T \subseteq Nat
  OBVIOUS
<1>6. j \in T
  <2> HIDE DEF T
  <2>1. T = Nat
    BY <1>3, <1>4, <1>5, AllNaturals
  <2> QED  BY <1>1, <2>1
<1>7. q[j] = p[j]
  BY <1>1, <1>6
<1> QED  BY <1>2, <1>7 DEF bs

LEMMA BareContents ==
  ASSUME NEW m, NEW c, Bare(m, c)
  PROVE  Contents(m) = <<>> /\ \A k \in Keys : Get(m, k) = NoValue
<1>1. SoundMap(m) /\ Listing(m, <<>>) /\ m.live = {}
  BY DEF Bare
<1>2. Contents(m) \in Seq(Binding) /\ Len(Contents(m)) = Len(<<>>)
  BY <1>1, ContentsAre
<1>3. Contents(m) = <<>>
  BY <1>2
<1>4. ASSUME NEW k \in Keys PROVE Get(m, k) = NoValue
  BY <1>1, GetIs
<1> QED  BY <1>3, <1>4

-----------------------------------------------------------------------------
(* hashmap_clone *)

\* Into an empty map, bindings of different keys go as they are.
LEMMA PutIntoEmpty ==
  ASSUME NEW other \in Seq(Binding), Unambiguous(other), NEW p, PutSteps(EmptyMap, other, p)
  PROVE  p[Len(other)] = other
<1> DEFINE n == Len(other)
           Good(i) == /\ p[i] \in Seq(Binding) /\ Len(p[i]) = i
                      /\ \A j \in 1 .. i : p[i][j] = other[j]
           T == {i \in Nat : i <= n => Good(i)}
<1>1. n \in Nat
  OBVIOUS
<1>2. 0 \in T
  <2>1. p[0] = <<>>
    BY EmptyIs, BareContents DEF PutSteps
  <2>2. Good(0)
    <3>1. p[0] \in Seq(Binding) /\ Len(p[0]) = 0
      BY <2>1
    <3>2. \A j \in 1 .. 0 : FALSE
      OBVIOUS
    <3> QED  BY <3>1, <3>2
  <2> HIDE DEF Good
  <2> QED  BY <2>2
<1>3. ASSUME NEW i \in T PROVE i + 1 \in T
  <2>1. SUFFICES ASSUME i + 1 <= n PROVE Good(i + 1)
    OBVIOUS
  <2> DEFINE b == other[i + 1]
             q == p[i]
  <2>2. i \in Nat /\ i + 1 \in 1 .. n /\ (i + 1) - 1 = i /\ Good(i)
    BY <1>1, <2>1
  <2>3. b \in Binding
    BY <2>2
  <2>4. b.key \in Keys /\ b.val \in Values /\ b = [key |-> b.key, val |-> b.val]
    BY <2>3 DEF Binding
  <2>5. \A j \in 1 .. i : q[j].key # b.key
    <3> TAKE j \in 1 .. i
    <3>1. j \in 1 .. n /\ j # i + 1 /\ q[j] = other[j]
      BY <2>2
    <3> QED  BY <2>2, <3>1 DEF Unambiguous
  <2>6. q \in Seq(Binding) /\ Len(q) = i /\ DOMAIN q = 1 .. i /\ \A j \in 1 .. i : q[j] = other[j]
    BY <2>2
  <2>7. p[i + 1] = Put(q, b.key, b.val)
    BY <2>2 DEF PutSteps
  <2> HIDE DEF q, b, T
  <2>8. Put(q, b.key, b.val) = Append(q, b)
    <3>1. \A j \in DOMAIN q : q[j].key # b.key
      BY <2>5, <2>6
    <3>2. Put(q, b.key, b.val) = Append(q, [key |-> b.key, val |-> b.val])
      <4>1. q \in Seq(Binding) /\ b.key \in Keys /\ b.val \in Values
        BY <2>4, <2>6
      <4> HIDE DEF Put
      <4> QED  BY <3>1, <4>1, PutIs, Zenon
    <3> QED  BY <2>4, <3>2
  <2>9. /\ Append(q, b) \in Seq(Binding) /\ Len(Append(q, b)) = i + 1
        /\ Append(q, b)[i + 1] = b /\ \A j \in 1 .. i : Append(q, b)[j] = q[j]
    BY <2>3, <2>6
  <2>10. \A j \in 1 .. (i + 1) : Append(q, b)[j] = other[j]
    <3> TAKE j \in 1 .. (i + 1)
    <3>1. j = i + 1 \/ j \in 1 .. i
      BY <2>2
    <3> QED  BY <2>6, <2>9, <3>1 DEF b
  <2> QED  BY <2>7, <2>8, <2>9, <2>10
<1>4. T \subseteq Nat
  OBVIOUS
<1>5. n \in T
  <2> HIDE DEF T
  <2>1. T = Nat
    BY <1>2, <1>3, <1>4, AllNaturals
  <2> QED  BY <1>1, <2>1
<1>6. Good(n)
  BY <1>1, <1>5
<1> HIDE DEF T
<1> QED  BY <1>6

\* A clone returned has the same contents, and room for more.
LEMMA CloneOfIs ==
  ASSUME NEW m, SoundMap(m), NEW err \in {0, 1}, NEW mem \in Nat
  PROVE  LET r == CloneOf(m, err, mem) IN
         /\ r.errno \in {0, 1} /\ r.ok \in BOOLEAN
         /\ r.ok = TRUE => SoundMap(r.map) /\ Contents(r.map) = Contents(m) /\ Loaded(r.map)
<1> DEFINE r == CloneOf(m, err, mem)
           q == Contents(m)
<1>1. CASE mem < 2
  <2>1. r = [map |-> m, errno |-> 1, short |-> FALSE, ok |-> FALSE]
    BY <1>1, Zenon DEF CloneOf
  <2> HIDE DEF r
  <2>2. r.errno \in {0, 1} /\ r.ok = FALSE
    BY <2>1
  <2> QED  BY <2>2 DEF r
<1>2. CASE ~(mem < 2)
  <2> DEFINE r2 == MergeIn(EmptyMap, q, err, mem - 2)
  <2>1. r = r2
    BY <1>2, Zenon DEF CloneOf
  <2>2. q \in Seq(Binding) /\ Unambiguous(q) /\ mem - 2 \in Nat
    BY <1>2, ContentsAre DEF SoundMap
  <2>3. SoundMap(EmptyMap) /\ Loaded(EmptyMap)
    <3>1. Bare(EmptyMap, InitCap) /\ InitCap \in Nat
      BY EmptyIs, MapAssumption
    <3> QED  BY <3>1 DEF Bare, Loaded
  <2> HIDE DEF r, q, r2
  <2>4. PICK p : PutSteps(EmptyMap, q, p)
    BY <2>2, PutStepsExist
  <2>5. Refused(EmptyMap, r2) \/ Merging(EmptyMap, q, p, r2, Len(q))
    BY <2>2, <2>3, <2>4, MergeInIs DEF r2
  <2>6. p[Len(q)] = q
    BY <2>2, <2>4, PutIntoEmpty
  <2>7. CASE Refused(EmptyMap, r2)
    <3>1. r.errno = 1 /\ r.ok = FALSE
      BY <2>1, <2>7 DEF Refused
    <3> QED  BY <3>1 DEF r
  <2>8. CASE Merging(EmptyMap, q, p, r2, Len(q))
    <3>1. /\ SoundMap(r.map) /\ r.errno \in {0, 1} /\ r.ok \in BOOLEAN
          /\ r.ok = TRUE => r.short = FALSE /\ Contents(r.map) = p[Len(q)]
          /\ r.short = TRUE \/ Loaded(r.map)
      BY <2>1, <2>3, <2>8 DEF Merging
    <3> QED  BY <2>6, <3>1 DEF r, q
  <2> QED  BY <2>5, <2>7, <2>8
<1> QED  BY <1>1, <1>2

-----------------------------------------------------------------------------
(* The operations *)

\* The pointers hold a map, errno and the history are right.
HashInv ==
  /\ SoundMap(map) /\ errno \in {0, 1} /\ strained \in BOOLEAN
  /\ LoadBounded /\ SuccessMeansDone

\* From what the iterator returned to what it returns now the abstract map takes
\* a step, or none.
Follows(q, q2) ==
  \/ q2 = q
  \/ \E k \in Keys, v \in Values : q2 = Abstract!Put(q, k, v)
  \/ \E k \in Keys : q2 = Abstract!Without(q, k)
  \/ q2 = <<>>
  \/ \E bs \in Parts : q2 = Abstract!PutAll(q, bs)

LEMMA VerdictIs ==
  ASSUME NEW ok \in BOOLEAN, NEW done \in BOOLEAN, ok => done
  PROVE  Verdict(ok, done) # "not done"
<1>1. CASE ok = TRUE /\ done = TRUE
  BY <1>1 DEF Verdict
<1>2. CASE ok = FALSE /\ done = TRUE
  BY <1>2 DEF Verdict
<1>3. CASE ok = FALSE /\ done = FALSE
  BY <1>3 DEF Verdict
<1> QED  BY <1>1, <1>2, <1>3

LEMMA SetStep ==
  ASSUME HashInv, NEW k \in Keys, NEW v \in Values, NEW mem \in Nat, hashmap_set(k, v, mem)
  PROVE  HashInv' /\ Follows(Contents(map), Contents(map'))
<1> DEFINE r == SetIn(map, k, v, mem)
<1>1. /\ map' = r.map /\ errno' = r.errno
      /\ last' = Verdict(r.errno = 0, Get(r.map, k) = v)
      /\ strained' = (strained \/ r.short)
  BY DEF hashmap_set
<1>2. SetDone(map, r, k, v)
  BY SetIs DEF HashInv
<1> HIDE DEF r
<1>3. /\ SoundMap(r.map) /\ r.errno \in {0, 1} /\ r.short \in BOOLEAN
      /\ \/ Contents(r.map) = Put(Contents(map), k, v)
         \/ Contents(r.map) = Contents(map) /\ r.errno = 1
      /\ Loaded(map) => r.short = TRUE \/ Loaded(r.map)
  BY <1>2 DEF SetDone
<1>4. r.errno = 0 => Get(r.map, k) = v
  BY <1>3, GetPut DEF HashInv
<1>5. last' # "not done"
  <2> DEFINE ok == r.errno = 0
             done == Get(r.map, k) = v
  <2>1. ok \in BOOLEAN /\ done \in BOOLEAN /\ (ok => done)
    BY <1>4
  <2>2. last' = Verdict(ok, done)
    BY <1>1
  <2> HIDE DEF ok, done
  <2> QED  BY <2>1, <2>2, VerdictIs
<1>6. strained' \in BOOLEAN /\ (strained' = FALSE => strained = FALSE /\ r.short = FALSE)
  BY <1>1, <1>3 DEF HashInv
<1>7. strained' = FALSE => Loaded(map')
  BY <1>1, <1>3, <1>6 DEF HashInv, LoadBounded, Loaded
<1>8. LoadBounded'
  BY <1>6, <1>7 DEF LoadBounded, Loaded
<1>9. Follows(Contents(map), Contents(map'))
  BY <1>1, <1>3 DEF Follows, Put
<1> QED  BY <1>1, <1>3, <1>5, <1>6, <1>8, <1>9 DEF HashInv, SuccessMeansDone

LEMMA RemoveStep ==
  ASSUME HashInv, NEW k \in Keys, hashmap_remove(k)
  PROVE  HashInv' /\ Follows(Contents(map), Contents(map'))
<1> DEFINE e == Find(map, k)
<1>1. /\ map' = (IF e = Null THEN map ELSE Unlinked(map, e))
      /\ last' = Verdict(TRUE, Get(map', k) = NoValue)
      /\ errno' = errno /\ strained' = strained
  BY DEF hashmap_remove
<1>2. SoundMap(map) /\ errno \in {0, 1} /\ strained \in BOOLEAN /\ LoadBounded
  BY DEF HashInv
<1>3. \/ e = Null /\ \A d \in map.live : map.key[d] # k
      \/ e \in map.live /\ e # Null /\ map.key[e] = k
  BY <1>2, FindIs
<1> HIDE DEF e
<1>4. /\ SoundMap(map') /\ Get(map', k) = NoValue /\ (strained = FALSE => Loaded(map'))
      /\ Follows(Contents(map), Contents(map'))
  <2>1. CASE e = Null
    <3>1. map' = map
      BY <1>1, <2>1
    <3>2. Get(map, k) = NoValue
      <4>1. \A d \in map.live : map.key[d] # k
        BY <1>2, <1>3, <2>1, PointerFacts DEF SoundMap, IsMap
      <4> QED  BY <1>2, <4>1, GetIs
    <3>3. Follows(Contents(map), Contents(map))
      BY DEF Follows
    <3> QED  BY <1>2, <3>1, <3>2, <3>3 DEF LoadBounded, Loaded
  <2>2. CASE e # Null
    <3>1. PICK s : Listing(map, s)
      BY <1>2 DEF SoundMap
    <3>2. /\ s \in Seq(Entries) /\ ToSet(s) = map.live /\ map.size = Len(s) /\ map.size \in Nat
          /\ map.cap \in Nat
      BY <1>2, <3>1, ListedIs DEF Listing, SoundMap, IsMap
    <3>3. PICK i \in 1 .. Len(s) : s[i] = e
      BY <1>3, <2>2, <3>2, Members
    <3> DEFINE r == Unlinked(map, e)
    <3>4. Cut(map, r, s, i)
      BY <1>2, <3>1, <3>3, UnlinkedIs
    <3>5. map' = r
      BY <1>1, <2>2
    <3> HIDE DEF r
    <3>6. /\ SoundMap(r) /\ r.cap = map.cap /\ r.live = map.live \ {e} /\ r.size = map.size - 1
          /\ \A d \in r.live : r.key[d] = map.key[d]
      BY <3>3, <3>4 DEF Cut
    <3>7. Get(r, k) = NoValue
      <4>1. \A d \in r.live : r.key[d] # k
        BY <1>2, <1>3, <2>2, <3>6 DEF SoundMap, Keyed
      <4> QED  BY <3>6, <4>1, GetIs
    <3>8. strained = FALSE => Loaded(r)
      BY <1>2, <3>2, <3>6 DEF LoadBounded, Loaded
    <3>9. Contents(r) = Abstract!Without(Contents(map), map.key[s[i]])
      BY <1>2, <3>1, <3>4, CutContents
    <3>10. map.key[s[i]] = k
      BY <1>3, <2>2, <3>3
    <3>11. Follows(Contents(map), Contents(r))
      BY <3>9, <3>10 DEF Follows
    <3> QED  BY <3>5, <3>6, <3>7, <3>8, <3>11
  <2> QED  BY <2>1, <2>2
<1>5. last' # "not done"
  <2>1. last' = Verdict(TRUE, TRUE)
    BY <1>1, <1>4
  <2> QED  BY <2>1, VerdictIs
<1>6. LoadBounded'
  BY <1>1, <1>2, <1>4 DEF LoadBounded, Loaded
<1> QED  BY <1>1, <1>2, <1>4, <1>5, <1>6 DEF HashInv, SuccessMeansDone

LEMMA ClearStep ==
  ASSUME HashInv, hashmap_clear
  PROVE  HashInv' /\ Follows(Contents(map), Contents(map'))
<1>1. /\ map' = Cleared(map)
      /\ last' = Verdict(TRUE, \A k \in Keys : Get(map', k) = NoValue)
      /\ errno' = errno /\ strained' = strained
  BY DEF hashmap_clear
<1>2. SoundMap(map) /\ errno \in {0, 1} /\ strained \in BOOLEAN /\ map.cap \in Nat
  BY DEF HashInv, SoundMap, IsMap
<1>3. Bare(map', map.cap)
  BY <1>1, <1>2, ClearedIs
<1>4. /\ SoundMap(map') /\ map'.size = 0 /\ map'.cap = map.cap
      /\ Contents(map') = <<>> /\ \A k \in Keys : Get(map', k) = NoValue
  BY <1>3, BareContents DEF Bare
<1>5. last' # "not done"
  <2>1. last' = Verdict(TRUE, TRUE)
    BY <1>1, <1>4
  <2> QED  BY <2>1, VerdictIs
<1>6. LoadBounded'
  BY <1>2, <1>4 DEF LoadBounded
<1>7. Follows(Contents(map), Contents(map'))
  BY <1>4 DEF Follows
<1> QED  BY <1>1, <1>2, <1>4, <1>5, <1>6, <1>7 DEF HashInv, SuccessMeansDone

LEMMA MergeStep ==
  ASSUME HashInv, NEW other \in Others, NEW mem \in Nat, hashmap_merge(other, mem)
  PROVE  HashInv' /\ Follows(Contents(map), Contents(map'))
<1> DEFINE r == MergeIn(map, other, errno, mem)
           n == Len(other)
           done == \A i \in DOMAIN other : Get(r.map, other[i].key) = other[i].val
<1>1. /\ map' = r.map /\ errno' = r.errno
      /\ last' = (IF r.ok THEN Verdict(TRUE, done) ELSE "refused")
      /\ strained' = (strained \/ r.short)
  BY DEF hashmap_merge
<1>2. SoundMap(map) /\ errno \in {0, 1} /\ strained \in BOOLEAN /\ LoadBounded
  BY DEF HashInv
<1>3. other \in Seq(Binding) /\ Unambiguous(other) /\ n \in Nat /\ DOMAIN other = 1 .. n
  <2>1. other \in Seq(Binding) /\ \A i, j \in DOMAIN other : other[i].key = other[j].key => i = j
    BY MapAssumption
  <2> QED  BY <2>1 DEF Unambiguous
<1>4. PICK p : PutSteps(map, other, p)
  BY <1>3, PutStepsExist
<1>5. Refused(map, r) \/ Merging(map, other, p, r, n)
  BY <1>2, <1>3, <1>4, MergeInIs
<1>6. \A j \in 0 .. n : p[j] = Abstract!PutAll(Contents(map), SubSeq(other, 1, j))
  BY <1>3, <1>4, PutAllParts
<1> HIDE DEF r
<1>7. /\ SoundMap(r.map) /\ r.errno \in {0, 1} /\ r.short \in BOOLEAN /\ r.ok \in BOOLEAN
      /\ r.ok = TRUE => done
      /\ Loaded(map) => r.short = TRUE \/ Loaded(r.map)
      /\ Follows(Contents(map), Contents(r.map))
  <2>1. CASE Refused(map, r)
    <3>1. r.map = map /\ r.errno = 1 /\ r.short = TRUE /\ r.ok = FALSE
      BY <2>1 DEF Refused
    <3>2. Follows(Contents(map), Contents(r.map))
      BY <3>1 DEF Follows
    <3> QED  BY <1>2, <3>1, <3>2
  <2>2. CASE Merging(map, other, p, r, n)
    <3>1. /\ SoundMap(r.map) /\ r.errno \in {0, 1} /\ r.short \in BOOLEAN /\ r.ok \in BOOLEAN
          /\ r.ok = TRUE => \A j \in 1 .. n : Get(r.map, other[j].key) = other[j].val
          /\ Loaded(map) => r.short = TRUE \/ Loaded(r.map)
      BY <2>2 DEF Merging
    <3>2. PICK j \in 0 .. n : Contents(r.map) = p[j]
      BY <2>2 DEF Merging
    <3>3. SubSeq(other, 1, j) \in Parts
      BY <3>2 DEF Parts
    <3>4. Follows(Contents(map), Contents(r.map))
      BY <1>6, <3>2, <3>3 DEF Follows
    <3> QED  BY <1>3, <3>1, <3>4
  <2> QED  BY <1>5, <2>1, <2>2
<1> HIDE DEF done
<1>8. last' # "not done"
  <2>1. CASE r.ok = TRUE
    <3>1. done = TRUE
      BY <1>7, <2>1 DEF done
    <3>2. last' = Verdict(TRUE, TRUE)
      BY <1>1, <2>1, <3>1
    <3> QED  BY <3>2, VerdictIs
  <2>2. CASE r.ok = FALSE
    BY <1>1, <2>2
  <2> QED  BY <1>7, <2>1, <2>2
<1>9. strained' \in BOOLEAN /\ (strained' = FALSE => strained = FALSE /\ r.short = FALSE)
  BY <1>1, <1>2, <1>7
<1>10. strained' = FALSE => Loaded(map')
  BY <1>1, <1>2, <1>7, <1>9 DEF LoadBounded, Loaded
<1>11. LoadBounded'
  BY <1>9, <1>10 DEF LoadBounded, Loaded
<1> QED  BY <1>1, <1>7, <1>8, <1>9, <1>11 DEF HashInv, SuccessMeansDone

LEMMA CloneStep ==
  ASSUME HashInv, NEW mem \in Nat, CloneAndDestroy(mem)
  PROVE  HashInv' /\ Follows(Contents(map), Contents(map'))
<1> DEFINE r == CloneOf(map, errno, mem)
<1>1. /\ map' = (IF r.ok THEN r.map ELSE map) /\ errno' = r.errno
      /\ last' = (IF r.ok THEN "done" ELSE "refused")
      /\ strained' = (IF r.ok THEN FALSE ELSE strained)
  BY DEF CloneAndDestroy
<1>2. SoundMap(map) /\ errno \in {0, 1} /\ strained \in BOOLEAN /\ LoadBounded
  BY DEF HashInv
<1>3. /\ r.errno \in {0, 1} /\ r.ok \in BOOLEAN
      /\ r.ok = TRUE => SoundMap(r.map) /\ Contents(r.map) = Contents(map) /\ Loaded(r.map)
  BY <1>2, CloneOfIs
<1> HIDE DEF r
<1>4. CASE r.ok = TRUE
  <2>1. map' = r.map /\ last' = "done" /\ strained' = FALSE
    BY <1>1, <1>4
  <2>2. LoadBounded'
    BY <1>3, <1>4, <2>1 DEF LoadBounded, Loaded
  <2>3. SoundMap(map') /\ Contents(map') = Contents(map)
    BY <1>3, <1>4, <2>1
  <2> QED  BY <1>1, <1>3, <2>1, <2>2, <2>3 DEF HashInv, SuccessMeansDone, Follows
<1>5. CASE r.ok = FALSE
  <2>1. map' = map /\ last' = "refused" /\ strained' = strained
    BY <1>1, <1>5
  <2>2. LoadBounded'
    BY <1>2, <2>1 DEF LoadBounded
  <2> QED  BY <1>1, <1>2, <1>3, <2>1, <2>2 DEF HashInv, SuccessMeansDone, Follows
<1> QED  BY <1>3, <1>4, <1>5

LEMMA HashInit == Init => HashInv /\ Contents(map) = <<>>
<1> SUFFICES ASSUME Init PROVE HashInv /\ Contents(map) = <<>>
  OBVIOUS
<1>1. map = EmptyMap /\ errno = 0 /\ last = "done" /\ strained = FALSE
  BY DEF Init
<1>2. Bare(map, InitCap) /\ InitCap \in Nat
  BY <1>1, EmptyIs, MapAssumption
<1>3. SoundMap(map) /\ map.size = 0 /\ map.cap = InitCap
  BY <1>2 DEF Bare
<1>4. LoadBounded
  BY <1>2, <1>3 DEF LoadBounded
<1> QED  BY <1>1, <1>2, <1>3, <1>4, BareContents DEF HashInv, SuccessMeansDone

LEMMA HashStep ==
  HashInv /\ [Next]_vars => HashInv' /\ Follows(Contents(map), Contents(map'))
<1> SUFFICES ASSUME HashInv, [Next]_vars
             PROVE  HashInv' /\ Follows(Contents(map), Contents(map'))
  OBVIOUS
<1>1. CASE UNCHANGED vars
  <2>1. map' = map /\ errno' = errno /\ last' = last /\ strained' = strained
    BY <1>1 DEF vars
  <2> QED  BY <2>1 DEF HashInv, LoadBounded, SuccessMeansDone, Follows
<1>2. ASSUME NEW k \in Keys, NEW v \in Values, NEW mem \in 0 .. 2, hashmap_set(k, v, mem)
      PROVE  HashInv' /\ Follows(Contents(map), Contents(map'))
  <2>1. mem \in Nat
    OBVIOUS
  <2> QED  BY <1>2, <2>1, SetStep
<1>3. ASSUME NEW k \in Keys, hashmap_remove(k)
      PROVE  HashInv' /\ Follows(Contents(map), Contents(map'))
  BY <1>3, RemoveStep
<1>4. CASE hashmap_clear
  BY <1>4, ClearStep
<1>5. ASSUME NEW other \in Others, NEW mem \in 0 .. (1 + 2 * Len(other)),
             hashmap_merge(other, mem)
      PROVE  HashInv' /\ Follows(Contents(map), Contents(map'))
  <2>1. mem \in Nat
    OBVIOUS
  <2> QED  BY <1>5, <2>1, MergeStep
<1>6. ASSUME NEW mem \in 0 .. (3 + 2 * MaxEntries), CloneAndDestroy(mem)
      PROVE  HashInv' /\ Follows(Contents(map), Contents(map'))
  <2>1. mem \in Nat
    OBVIOUS
  <2> QED  BY <1>6, <2>1, CloneStep
<1> QED  BY <1>1, <1>2, <1>3, <1>4, <1>5, <1>6 DEF Next

-----------------------------------------------------------------------------
(* The theorems *)

LEMMA HashInvariant == Spec => []HashInv
BY HashInit, HashStep, PTL DEF Spec

\* The list, read either way, and the chains hold the allocated entries, each
\* once and where it belongs, through every operation of hashmap.c.
THEOREM MapConsistent == Spec => []Consistent
<1>1. HashInv => Consistent
  BY SoundConsistent DEF HashInv
<1> QED  BY <1>1, HashInvariant, PTL

\* hashmap_set and hashmap_merge resize in time: while no resize has failed,
\* there are at most three entries for four buckets.
THEOREM MapLoadBounded == Spec => []LoadBounded
<1>1. HashInv => LoadBounded
  BY DEF HashInv
<1> QED  BY <1>1, HashInvariant, PTL

\* A set or a merge that reports success has stored what it was given, and what
\* hashmap_remove and hashmap_clear took out is not found.
THEOREM MapSuccessMeansDone == Spec => []SuccessMeansDone
<1>1. HashInv => SuccessMeansDone
  BY DEF HashInv
<1> QED  BY <1>1, HashInvariant, PTL

\* hashmap.c implements an insertion-ordered map: every operation is one of the
\* abstract map's on what an iterator returns, or changes nothing there.
THEOREM MapIsOrdered == Spec => RefinesOrderedMap
<1>1. Init => Abstract!Init
  BY HashInit DEF Abstract!Init, Content
<1>2. HashInv /\ [Next]_vars => [Abstract!Next]_Content
  <2> SUFFICES ASSUME HashInv, [Next]_vars PROVE [Abstract!Next]_Content
    OBVIOUS
  <2>1. Follows(Content, Content')
    BY HashStep DEF Content
  <2> QED  BY <2>1 DEF Follows, Abstract!Next, Abstract!Store, Abstract!Delete, Abstract!Empty,
                       Abstract!Absorb
<1> QED  BY <1>1, <1>2, HashInvariant, PTL DEF Spec, RefinesOrderedMap, Abstract!Spec
===============================================================================
