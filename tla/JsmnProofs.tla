------------------------------- MODULE JsmnProofs ------------------------------
(***************************************************************************)
(* The tokenizer finds the tokens that a file means, whatever the file,    *)
(* and where its members, devices and fields stand among them.             *)
(***************************************************************************)
EXTENDS Jsmn, ConfigFile, FiniteSetTheorems, SequenceTheorems, WellFoundedInduction, TLAPS

-----------------------------------------------------------------------------
(* Induction *)

\* A set of natural numbers has a least one.
LEMMA LeastNatural ==
  ASSUME NEW T \in SUBSET Nat, T # {}
  PROVE  \E x \in T : \A y \in T : x <= y
<1>1. PICK N \in T : TRUE
  OBVIOUS
<1> DEFINE U == {0 .. n : n \in {m \in T : m <= N}}
<1>2. IsWellFoundedOn(StrictSubsetOrdering(0 .. N), SUBSET (0 .. N))
  <2>1. IsFiniteSet(0 .. N)
    BY <1>1, FS_Interval
  <2> QED  BY <2>1, FS_StrictSubsetOrderingWellFounded, FS_FiniteSubsetsOfFinite
<1>3. U \subseteq SUBSET (0 .. N) /\ U # {}
  BY <1>1
<1>4. PICK x \in U : \A y \in U : ~(<<y, x>> \in StrictSubsetOrdering(0 .. N))
  <2> HIDE DEF U
  <2> QED  BY <1>2, <1>3, WFMin
<1>5. PICK n \in T : n <= N /\ x = 0 .. n
  OBVIOUS
<1>6. ASSUME NEW m \in T, m < n
      PROVE  FALSE
  <2>1. 0 .. m \in U /\ m \in Nat /\ n \in Nat /\ N \in Nat
    BY <1>5, <1>6
  <2>2. <<0 .. m, x>> \notin StrictSubsetOrdering(0 .. N)
    BY <1>4, <2>1
  <2>3. 0 .. m \in SUBSET (0 .. N) /\ x \in SUBSET (0 .. N)
    BY <1>3, <2>1
  <2>4. 0 .. m \subseteq x /\ 0 .. m # x
    <3>1. n \in 0 .. n /\ n \notin 0 .. m
      BY <1>6, <2>1
    <3> QED  BY <1>5, <1>6, <2>1, <3>1
  <2> QED  BY <2>2, <2>3, <2>4 DEF StrictSubsetOrdering
<1> QED  BY <1>6, <1>5

\* Induction, for a set of natural numbers.
LEMMA AllNaturals ==
  ASSUME NEW T \in SUBSET Nat, 0 \in T, \A n \in T : n + 1 \in T
  PROVE  T = Nat
<1>1. SUFFICES ASSUME Nat \ T # {} PROVE FALSE
  OBVIOUS
<1>2. PICK x \in Nat \ T : \A y \in Nat \ T : x <= y
  BY <1>1, LeastNatural
<1>3. x - 1 \in Nat /\ (x - 1) + 1 = x
  BY <1>2
<1>4. x - 1 \in T
  BY <1>2, <1>3
<1> QED  BY <1>2, <1>3, <1>4

-----------------------------------------------------------------------------
(* Folds from left to right *)

LEMMA Greatest ==
  ASSUME NEW n \in Nat, NEW u \in SUBSET (1 .. n), u # {}
  PROVE  Max(u) \in u /\ \A y \in u : Max(u) >= y
<1> DEFINE T == {n - x : x \in u}
<1>1. T \in SUBSET Nat /\ T # {}
  <2>1. \A x \in u : x \in 1 .. n /\ n - x \in Nat
    OBVIOUS
  <2>2. \A t \in T : t \in Nat
    BY <2>1
  <2> QED  BY <2>2
<1>2. PICK t \in T : \A y \in T : t <= y
  <2> HIDE DEF T
  <2> QED  BY <1>1, LeastNatural
<1>3. PICK x \in u : t = n - x
  OBVIOUS
<1>4. \A y \in u : x >= y
  <2> TAKE y \in u
  <2>1. n - y \in T
    OBVIOUS
  <2>2. n - x <= n - y
    <3> HIDE DEF T
    <3> QED  BY <1>2, <1>3, <2>1
  <2>3. x \in 1 .. n /\ y \in 1 .. n
    OBVIOUS
  <2> QED  BY <2>2, <2>3
<1>5. \E z \in u : \A y \in u : z >= y
  BY <1>4
<1> QED  BY <1>5 DEF Max

\* What is folded before the last element.
LEMMA FoldsLast ==
  ASSUME NEW n \in Nat
  PROVE  /\ \A u \in SUBSET (1 .. (n + 1)) : u # {} => u \ {Max(u)} \in SUBSET (1 .. n)
         /\ \A i \in 1 .. n : Max(1 .. i) = i /\ (1 .. i) \ {i} = 1 .. (i - 1)
<1>1. ASSUME NEW u \in SUBSET (1 .. (n + 1)), u # {}, NEW y \in u \ {Max(u)}
      PROVE  y \in 1 .. n
  <2>1. Max(u) \in u /\ Max(u) >= y
    <3>1. n + 1 \in Nat /\ y \in u
      OBVIOUS
    <3> QED  BY <1>1, <3>1, Greatest
  <2>2. Max(u) \in 1 .. (n + 1) /\ y \in 1 .. (n + 1) /\ y # Max(u)
    BY <2>1
  <2> QED  BY <2>1, <2>2
<1>2. ASSUME NEW i \in 1 .. n
      PROVE  Max(1 .. i) = i /\ (1 .. i) \ {i} = 1 .. (i - 1)
  <2>1. i \in 1 .. i /\ i \in Nat
    OBVIOUS
  <2>2. 1 .. i \in SUBSET (1 .. i) /\ 1 .. i # {}
    BY <2>1
  <2>3. Max(1 .. i) \in 1 .. i /\ \A y \in 1 .. i : Max(1 .. i) >= y
    BY <2>1, <2>2, Greatest
  <2>4. Max(1 .. i) = i
    BY <2>1, <2>3
  <2> QED  BY <2>4
<1> QED  BY <1>1, <1>2

\* One step of a fold: of Parse, of List, or of what is said of a device.
Folded(op, a, x) ==
  IF op = "lexeme" THEN Lexeme(a, x)
  ELSE IF op = "list" THEN (IF a = <<>> THEN x ELSE a \o Mark(",") \o x)
  ELSE IF op = "id" THEN (IF x.name = "id" THEN NumberOr(a, x.text) ELSE a)
  ELSE (IF x.name = "key" THEN KeyOr(a, x.text) ELSE a)

\* What a fold builds up, over sets of places.
Folding(op, base, s, S, g) ==
  g = [u \in SUBSET S |->
         IF u = {} THEN base ELSE Folded(op, g[u \ {Max(u)}], s[Max(u)])]

LEMMA FoldingOnce ==
  ASSUME NEW op, NEW base, NEW s, NEW n \in Nat, NEW g,
         Folding(op, base, s, 1 .. n, g)
  PROVE  \E h : Folding(op, base, s, 1 .. (n + 1), h)
<1> DEFINE One(u, r) == IF u = {} THEN base
                        ELSE Folded(op, r[u \ {Max(u)}], s[Max(u)])
           h == [u \in SUBSET (1 .. (n + 1)) |-> One(u, g)]
<1>1. g = [u \in SUBSET (1 .. n) |-> One(u, g)]
  BY Zenon DEF Folding
<1>2. ASSUME NEW u \in SUBSET (1 .. n) PROVE h[u] = g[u]
  <2> HIDE DEF One
  <2>1. u \in SUBSET (1 .. (n + 1))
    OBVIOUS
  <2> QED  BY <1>1, <2>1
<1>3. ASSUME NEW u \in SUBSET (1 .. (n + 1)) PROVE One(u, g) = One(u, h)
  <2> HIDE DEF h
  <2>1. CASE u = {}
    BY <2>1
  <2>2. CASE u # {}
    <3>1. h[u \ {Max(u)}] = g[u \ {Max(u)}]
      BY <1>2, <2>2, FoldsLast
    <3> QED  BY <3>1
  <2> QED  BY <2>1, <2>2
<1>4. Folding(op, base, s, 1 .. (n + 1), h)
  <2> DEFINE r == h
  <2>1. r = [u \in SUBSET (1 .. (n + 1)) |-> One(u, g)]
    OBVIOUS
  <2>2. \A u \in SUBSET (1 .. (n + 1)) : One(u, g) = One(u, r)
    BY <1>3
  <2> HIDE DEF r
  <2>3. r = [u \in SUBSET (1 .. (n + 1)) |-> One(u, r)]
    <3> HIDE DEF One
    <3> QED  BY <2>1, <2>2
  <2>4. Folding(op, base, s, 1 .. (n + 1), r)
    BY <2>3, Zenon DEF Folding
  <2> QED  BY <2>4 DEF r
<1> QED  BY <1>4

LEMMA FoldingExists ==
  ASSUME NEW op, NEW base, NEW s, NEW n \in Nat
  PROVE  \E g : Folding(op, base, s, 1 .. n, g)
<1> DEFINE T == {k \in Nat : \E g : Folding(op, base, s, 1 .. k, g)}
<1>1. 0 \in T
  <2> DEFINE g == [u \in SUBSET (1 .. 0) |-> base]
  <2>1. Folding(op, base, s, 1 .. 0, g)
    BY DEF Folding
  <2> QED  BY <2>1
<1>2. \A k \in T : k + 1 \in T
  BY FoldingOnce
<1>3. T \subseteq Nat
  OBVIOUS
<1> HIDE DEF T
<1>4. T = Nat
  BY <1>1, <1>2, <1>3, AllNaturals
<1> QED  BY <1>4 DEF T

\* The results after each element of s.
FoldSteps(op, base, s, f) ==
  /\ f[0] = base
  /\ \A i \in 1 .. Len(s) : f[i] = Folded(op, f[i - 1], s[i])

LEMMA FoldedSteps ==
  ASSUME NEW op, NEW base, NEW s, Len(s) \in Nat, NEW g,
         Folding(op, base, s, 1 .. Len(s), g)
  PROVE  \E f : FoldSteps(op, base, s, f) /\ f[Len(s)] = g[1 .. Len(s)]
<1> DEFINE n == Len(s)
           f == [i \in 0 .. n |-> g[1 .. i]]
<1>1. g = [u \in SUBSET (1 .. n) |->
             IF u = {} THEN base ELSE Folded(op, g[u \ {Max(u)}], s[Max(u)])]
  BY Zenon DEF Folding
<1>2. n \in Nat
  OBVIOUS
<1> HIDE DEF n
<1>3. \A i \in 0 .. n : f[i] = g[1 .. i]
  OBVIOUS
<1>4. f[0] = base
  <2>1. 1 .. 0 = {} /\ {} \in SUBSET (1 .. n) /\ 0 \in 0 .. n
    BY <1>2
  <2>2. g[{}] = base
    BY <1>1, <2>1
  <2> QED  BY <1>3, <2>1, <2>2
<1>5. ASSUME NEW i \in 1 .. n PROVE f[i] = Folded(op, f[i - 1], s[i])
  <2>1. 1 .. i \in SUBSET (1 .. n) /\ 1 .. i # {} /\ i \in 0 .. n /\ i - 1 \in 0 .. n
    <3>1. i \in Nat /\ i <= n /\ 1 <= i
      BY <1>2
    <3>2. 1 \in 1 .. i /\ \A j \in 1 .. i : j \in 1 .. n
      BY <1>2, <3>1
    <3>3. 1 .. i \in SUBSET (1 .. n)
      BY <3>2, Zenon
    <3>4. 1 .. i # {}
      BY <3>2, Zenon
    <3>5. i \in 0 .. n /\ i - 1 \in 0 .. n
      BY <1>2, <3>1
    <3> QED  BY <3>3, <3>4, <3>5
  <2>2. Max(1 .. i) = i /\ (1 .. i) \ {i} = 1 .. (i - 1)
    BY <1>2, FoldsLast
  <2>3. g[1 .. i] = Folded(op, g[(1 .. i) \ {Max(1 .. i)}], s[Max(1 .. i)])
    <3> HIDE DEF f
    <3> QED  BY <1>1, <2>1
  <2> QED  BY <1>3, <2>1, <2>2, <2>3
<1>6. f[n] = g[1 .. n]
  BY <1>2, <1>3
<1> HIDE DEF f
<1>7. FoldSteps(op, base, s, f) /\ f[Len(s)] = g[1 .. Len(s)]
  BY <1>4, <1>5, <1>6 DEF n, FoldSteps
<1> QED  BY <1>7


\* A fold over s, by its steps.
FoldIs(op, base, s, r) == \E f : FoldSteps(op, base, s, f) /\ f[Len(s)] = r

\* How a fold is chosen.
Chosen(op, base, s, g) ==
  g = [u \in SUBSET (DOMAIN s) |->
         IF u = {} THEN base ELSE Folded(op, g[u \ {Max(u)}], s[Max(u)])]

LEMMA ChosenIs ==
  ASSUME NEW op, NEW base, NEW s, Len(s) \in Nat, DOMAIN s = 1 .. Len(s)
  PROVE  FoldIs(op, base, s, (CHOOSE g : Chosen(op, base, s, g))[DOMAIN s])
<1> DEFINE g == CHOOSE g : Chosen(op, base, s, g)
<1>1. \A h : Chosen(op, base, s, h) <=> Folding(op, base, s, 1 .. Len(s), h)
  BY Zenon DEF Chosen, Folding
<1>2. Chosen(op, base, s, g)
  <2>1. \E h : Chosen(op, base, s, h)
    BY <1>1, FoldingExists
  <2> QED  BY <2>1, Zenon
<1> HIDE DEF g
<1>3. PICK f : FoldSteps(op, base, s, f) /\ f[Len(s)] = g[1 .. Len(s)]
  BY <1>1, <1>2, FoldedSteps
<1>4. FoldIs(op, base, s, g[DOMAIN s])
  BY <1>3, Zenon DEF FoldIs
<1> QED  BY <1>4 DEF g

LEMMA LexemeFold ==
  ASSUME NEW base, NEW s, Len(s) \in Nat, DOMAIN s = 1 .. Len(s)
  PROVE  FoldIs("lexeme", base, s, FoldLeft(Lexeme, base, s))
<1> DEFINE Is(g) == g = [u \in SUBSET (DOMAIN s) |->
                           IF u = {} THEN base ELSE Lexeme(g[u \ {Max(u)}], s[Max(u)])]
<1>1. FoldLeft(Lexeme, base, s) = (CHOOSE g : Is(g))[DOMAIN s]
  BY Zenon DEF FoldLeft, MapThenFoldSet
<1>2. \A g : Is(g) <=> Chosen("lexeme", base, s, g)
  <2>1. \A a, x : Folded("lexeme", a, x) = Lexeme(a, x)
    BY DEF Folded
  <2> QED  BY <2>1, Zenon DEF Chosen
<1>3. (CHOOSE g : Is(g)) = CHOOSE g : Chosen("lexeme", base, s, g)
  <2> HIDE DEF Is
  <2> QED  BY <1>2
<1> QED  BY <1>1, <1>3, ChosenIs

LEMMA ListFold ==
  ASSUME NEW s, Len(s) \in Nat, DOMAIN s = 1 .. Len(s)
  PROVE  FoldIs("list", <<>>, s, List(s))
<1> DEFINE One(a, x) == IF a = <<>> THEN x ELSE a \o Mark(",") \o x
           Is(g) == g = [u \in SUBSET (DOMAIN s) |->
                           IF u = {} THEN <<>> ELSE One(g[u \ {Max(u)}], s[Max(u)])]
<1>1. List(s) = (CHOOSE g : Is(g))[DOMAIN s]
  BY Zenon DEF List, FoldLeft, MapThenFoldSet
<1>2. \A g : Is(g) <=> Chosen("list", <<>>, s, g)
  <2>1. \A a, x : Folded("list", a, x) = One(a, x)
    BY DEF Folded
  <2> HIDE DEF One
  <2> QED  BY <2>1, Zenon DEF Chosen
<1>3. (CHOOSE g : Is(g)) = CHOOSE g : Chosen("list", <<>>, s, g)
  <2> HIDE DEF Is
  <2> QED  BY <1>2
<1> QED  BY <1>1, <1>3, ChosenIs

LEMMA IdFold ==
  ASSUME NEW base, NEW s, Len(s) \in Nat, DOMAIN s = 1 .. Len(s)
  PROVE  FoldIs("id", base, s, Said(s, "id", NumberOr, base))
<1> DEFINE One(a, x) == IF x.name = "id" THEN NumberOr(a, x.text) ELSE a
           Is(g) == g = [u \in SUBSET (DOMAIN s) |->
                           IF u = {} THEN base ELSE One(g[u \ {Max(u)}], s[Max(u)])]
<1>1. Said(s, "id", NumberOr, base) = (CHOOSE g : Is(g))[DOMAIN s]
  BY Zenon DEF Said, FoldLeft, MapThenFoldSet
<1>2. \A g : Is(g) <=> Chosen("id", base, s, g)
  <2>1. \A a, x : Folded("id", a, x) = One(a, x)
    BY DEF Folded
  <2> HIDE DEF One
  <2> QED  BY <2>1, Zenon DEF Chosen
<1>3. (CHOOSE g : Is(g)) = CHOOSE g : Chosen("id", base, s, g)
  <2> HIDE DEF Is
  <2> QED  BY <1>2
<1> QED  BY <1>1, <1>3, ChosenIs

LEMMA KeyFold ==
  ASSUME NEW base, NEW s, Len(s) \in Nat, DOMAIN s = 1 .. Len(s)
  PROVE  FoldIs("key", base, s, Said(s, "key", KeyOr, base))
<1> DEFINE One(a, x) == IF x.name = "key" THEN KeyOr(a, x.text) ELSE a
           Is(g) == g = [u \in SUBSET (DOMAIN s) |->
                           IF u = {} THEN base ELSE One(g[u \ {Max(u)}], s[Max(u)])]
<1>1. Said(s, "key", KeyOr, base) = (CHOOSE g : Is(g))[DOMAIN s]
  BY Zenon DEF Said, FoldLeft, MapThenFoldSet
<1>2. \A g : Is(g) <=> Chosen("key", base, s, g)
  <2>1. \A a, x : Folded("key", a, x) = One(a, x)
    BY DEF Folded
  <2> HIDE DEF One
  <2> QED  BY <2>1, Zenon DEF Chosen
<1>3. (CHOOSE g : Is(g)) = CHOOSE g : Chosen("key", base, s, g)
  <2> HIDE DEF Is
  <2> QED  BY <1>2
<1> QED  BY <1>1, <1>3, ChosenIs

\* A fold has one result.
LEMMA FoldUnique ==
  ASSUME NEW op, NEW base, NEW s, Len(s) \in Nat, NEW r, NEW t,
         FoldIs(op, base, s, r), FoldIs(op, base, s, t)
  PROVE  r = t
<1>1. PICK f : FoldSteps(op, base, s, f) /\ f[Len(s)] = r
  BY DEF FoldIs
<1>2. PICK g : FoldSteps(op, base, s, g) /\ g[Len(s)] = t
  BY DEF FoldIs
<1> DEFINE T == {n \in Nat : n <= Len(s) => f[n] = g[n]}
<1>3. 0 \in T
  BY <1>1, <1>2 DEF FoldSteps
<1>4. ASSUME NEW n \in T PROVE n + 1 \in T
  <2>1. SUFFICES ASSUME n + 1 <= Len(s) PROVE f[n + 1] = g[n + 1]
    OBVIOUS
  <2>2. n + 1 \in 1 .. Len(s) /\ (n + 1) - 1 = n /\ f[n] = g[n]
    BY <2>1
  <2>3. f[n + 1] = Folded(op, f[(n + 1) - 1], s[n + 1])
    BY <1>1, <2>2 DEF FoldSteps
  <2>4. g[n + 1] = Folded(op, g[(n + 1) - 1], s[n + 1])
    BY <1>2, <2>2 DEF FoldSteps
  <2> QED  BY <2>2, <2>3, <2>4
<1>5. T \subseteq Nat
  OBVIOUS
<1>6. Len(s) \in T
  <2> HIDE DEF T
  <2> QED  BY <1>3, <1>4, <1>5, AllNaturals
<1> QED  BY <1>1, <1>2, <1>6

\* Folding nothing, one element, and one sequence after another.
LEMMA FoldNothing ==
  ASSUME NEW op, NEW base
  PROVE  FoldIs(op, base, <<>>, base)
<1>1. FoldSteps(op, base, <<>>, [i \in {0} |-> base])
  BY DEF FoldSteps
<1>2. [i \in {0} |-> base][Len(<<>>)] = base
  OBVIOUS
<1> QED  BY <1>1, <1>2, Zenon DEF FoldIs

LEMMA FoldOne ==
  ASSUME NEW op, NEW base, NEW x
  PROVE  FoldIs(op, base, <<x>>, Folded(op, base, x))
<1> DEFINE f == [i \in 0 .. 1 |-> IF i = 0 THEN base ELSE Folded(op, base, x)]
<1>1. /\ Len(<<x>>) = 1 /\ <<x>>[1] = x /\ f[0] = base /\ f[1] = Folded(op, base, x)
      /\ 1 .. 1 = {1} /\ 1 - 1 = 0
  OBVIOUS
<1> HIDE DEF f
<1>2. \A i \in 1 .. 1 : f[i] = Folded(op, f[i - 1], <<x>>[i])
  BY <1>1
<1>3. FoldSteps(op, base, <<x>>, f)
  BY <1>1, <1>2, Zenon DEF FoldSteps
<1> QED  BY <1>1, <1>3, Zenon DEF FoldIs

LEMMA FoldJoin ==
  ASSUME NEW op, NEW base, NEW S, NEW s \in Seq(S), NEW t \in Seq(S), NEW q, NEW r,
         FoldIs(op, base, s, q), FoldIs(op, q, t, r)
  PROVE  FoldIs(op, base, s \o t, r)
<1>1. PICK f : FoldSteps(op, base, s, f) /\ f[Len(s)] = q
  BY DEF FoldIs
<1>2. PICK g : FoldSteps(op, q, t, g) /\ g[Len(t)] = r
  BY DEF FoldIs
<1> DEFINE u == s \o t
           a == Len(s)
           b == Len(t)
           h == [i \in 0 .. (a + b) |-> IF i <= a THEN f[i] ELSE g[i - a]]
<1>3. /\ a \in Nat /\ b \in Nat /\ Len(u) = a + b
      /\ \A i \in 1 .. a : u[i] = s[i]
      /\ \A i \in 1 .. b : u[a + i] = t[i]
  OBVIOUS
<1>4. f[0] = base /\ f[a] = q /\ g[0] = q /\ g[b] = r
  BY <1>1, <1>2 DEF FoldSteps
<1>5. \A i \in 1 .. a : f[i] = Folded(op, f[i - 1], s[i])
  BY <1>1 DEF FoldSteps
<1>6. \A i \in 1 .. b : g[i] = Folded(op, g[i - 1], t[i])
  BY <1>2 DEF FoldSteps
<1> HIDE DEF u, a, b
<1>7. \A i \in 0 .. a : h[i] = f[i]
  BY <1>3
<1>8. \A i \in 0 .. b : h[a + i] = g[i]
  <2> TAKE i \in 0 .. b
  <2>1. CASE i = 0
    BY <1>3, <1>4, <1>7, <2>1
  <2>2. CASE i # 0
    <3>1. a + i \in 0 .. (a + b) /\ ~(a + i <= a) /\ (a + i) - a = i
      BY <1>3, <2>2
    <3> QED  BY <3>1
  <2> QED  BY <2>1, <2>2
<1> HIDE DEF h
<1>9. ASSUME NEW i \in 1 .. (a + b) PROVE h[i] = Folded(op, h[i - 1], u[i])
  <2>1. CASE i <= a
    <3>1. i \in 1 .. a /\ i \in 0 .. a /\ i - 1 \in 0 .. a
      BY <1>3, <2>1
    <3> QED  BY <1>3, <1>5, <1>7, <3>1
  <2>2. CASE ~(i <= a)
    <3> DEFINE j == i - a
    <3>1. j \in 1 .. b /\ j \in 0 .. b /\ j - 1 \in 0 .. b /\ i = a + j /\ i - 1 = a + (j - 1)
      BY <1>3, <2>2
    <3> HIDE DEF j
    <3> QED  BY <1>3, <1>6, <1>8, <3>1
  <2> QED  BY <2>1, <2>2
<1>10. h[0] = base /\ h[a + b] = r
  <2>1. 0 \in 0 .. a /\ b \in 0 .. b
    BY <1>3
  <2> QED  BY <1>4, <1>7, <1>8, <2>1
<1>11. FoldSteps(op, base, u, h)
  BY <1>3, <1>9, <1>10, Zenon DEF FoldSteps
<1>12. FoldIs(op, base, u, r)
  BY <1>3, <1>10, <1>11, Zenon DEF FoldIs
<1> QED  BY <1>12 DEF u

-----------------------------------------------------------------------------
(* Sequences of sequences *)

LEMMA ConcatFacts ==
  ASSUME NEW S, NEW s \in Seq(S), NEW t \in Seq(S)
  PROVE  /\ s \o t \in Seq(S)
         /\ Len(s) \in Nat /\ Len(t) \in Nat
         /\ Len(s \o t) = Len(s) + Len(t)
         /\ DOMAIN (s \o t) = 1 .. (Len(s) + Len(t))
         /\ \A i \in 1 .. Len(s) : (s \o t)[i] = s[i]
         /\ \A i \in (Len(s) + 1) .. (Len(s) + Len(t)) : (s \o t)[i] = t[i - Len(s)]
OBVIOUS

\* What FlattenSeq builds up, element by element.
LEMMA FlattenFacts ==
  ASSUME NEW S, NEW ss \in Seq(S), ss # <<>>
  PROVE  \E f : /\ FlattenSeq(ss) = f[Len(ss)]
               /\ f = [i \in 1 .. Len(ss) |-> IF i = 1 THEN ss[i] ELSE f[i - 1] \o ss[i]]
<1> DEFINE Join(a, i) == a \o ss[i]
           Builds(g, n) == g = [i \in 1 .. n |-> IF i = 1 THEN ss[i] ELSE Join(g[i - 1], i)]
           T == {n \in Nat : \E g : Builds(g, n)}
<1>1. 0 \in T
  <2> HIDE DEF Join
  <2>1. Builds(<<>>, 0)
    OBVIOUS
  <2> QED  BY <2>1
<1>2. ASSUME NEW n \in T PROVE n + 1 \in T
  <2> HIDE DEF Join
  <2>1. PICK g : Builds(g, n)
    OBVIOUS
  <2> DEFINE h == [i \in 1 .. (n + 1) |-> IF i = 1 THEN ss[i] ELSE Join(g[i - 1], i)]
  <2>2. ASSUME NEW i \in 1 .. n PROVE h[i] = g[i]
    <3>1. g[i] = IF i = 1 THEN ss[i] ELSE Join(g[i - 1], i)
      BY <2>1
    <3>2. i \in 1 .. (n + 1)
      OBVIOUS
    <3> QED  BY <3>1, <3>2
  <2>3. \A i \in 1 .. (n + 1) : i # 1 => i - 1 \in 1 .. n
    OBVIOUS
  <2>4. \A i \in 1 .. (n + 1) : i # 1 => h[i - 1] = g[i - 1]
    BY <2>2, <2>3
  <2>5. h = [i \in 1 .. (n + 1) |-> IF i = 1 THEN ss[i] ELSE Join(h[i - 1], i)]
    BY <2>4
  <2> HIDE DEF h
  <2> QED  BY <2>5
<1>3. Len(ss) \in T
  <2> HIDE DEF T
  <2>1. T \subseteq Nat
    BY DEF T
  <2>2. T = Nat
    BY <1>1, <1>2, <2>1, AllNaturals
  <2> QED  BY <2>2
<1> DEFINE f == CHOOSE g : Builds(g, Len(ss))
<1>4. Builds(f, Len(ss))
  <2> HIDE DEF Builds
  <2> QED  BY <1>3
<1>5. FlattenSeq(ss) = f[Len(ss)]
  BY DEF FlattenSeq
<1> HIDE DEF f
<1> QED  BY <1>4, <1>5

\* FlattenSeq by its steps: what the first i parts are together.
FlatSteps(ss, g) ==
  /\ g[0] = <<>>
  /\ \A i \in 1 .. Len(ss) : g[i] = g[i - 1] \o ss[i]
  /\ FlattenSeq(ss) = g[Len(ss)]

LEMMA FlattenSteps ==
  ASSUME NEW S, NEW ss \in Seq(Seq(S))
  PROVE  \E g : /\ FlatSteps(ss, g)
               /\ \A i \in 0 .. Len(ss) : g[i] \in Seq(S)
<1> DEFINE n == Len(ss)
<1>1. n \in Nat /\ \A i \in 1 .. n : ss[i] \in Seq(S)
  OBVIOUS
<1>2. CASE n = 0
  <2> DEFINE g == [i \in {0} |-> <<>>]
  <2>1. FlattenSeq(ss) = ss /\ ss = <<>>
    BY <1>2 DEF FlattenSeq
  <2>2. FlatSteps(ss, g) /\ \A i \in 0 .. Len(ss) : g[i] \in Seq(S)
    BY <1>2, <2>1 DEF FlatSteps
  <2> QED  BY <2>2
<1>3. CASE n # 0
  <2>1. PICK f : /\ FlattenSeq(ss) = f[n]
                 /\ f = [i \in 1 .. n |-> IF i = 1 THEN ss[i] ELSE f[i - 1] \o ss[i]]
    <3>1. ss # <<>> /\ ss \in Seq(Seq(S))
      BY <1>3
    <3> QED  BY <3>1, FlattenFacts, Zenon
  <2> DEFINE g == [i \in 0 .. n |-> IF i = 0 THEN <<>> ELSE f[i]]
  <2>2. \A i \in 1 .. n : f[i] = IF i = 1 THEN ss[i] ELSE f[i - 1] \o ss[i]
    <3> DEFINE One(i, r) == IF i = 1 THEN ss[i] ELSE r[i - 1] \o ss[i]
    <3>1. f = [i \in 1 .. n |-> One(i, f)]
      BY <2>1
    <3> HIDE DEF One
    <3>2. \A i \in 1 .. n : f[i] = One(i, f)
      BY <3>1
    <3> QED  BY <3>2 DEF One
  <2>3. g[0] = <<>> /\ g[n] = f[n] /\ \A i \in 1 .. n : g[i] = f[i]
    BY <1>1, <1>3
  <2> HIDE DEF g, n
  <2>4. ASSUME NEW i \in 1 .. n PROVE g[i] = g[i - 1] \o ss[i]
    <3>1. CASE i = 1
      <4>1. g[i - 1] = <<>> /\ g[i] = ss[i] /\ ss[i] \in Seq(S)
        BY <1>1, <2>2, <2>3, <3>1
      <4>2. <<>> \o ss[i] = ss[i]
        BY <4>1
      <4> QED  BY <4>1, <4>2
    <3>2. CASE i # 1
      <4>1. i - 1 \in 1 .. n
        BY <1>1, <3>2
      <4> QED  BY <2>2, <2>3, <3>2, <4>1
    <3> QED  BY <3>1, <3>2
  <2> DEFINE T == {i \in Nat : i <= n => g[i] \in Seq(S)}
  <2>5. 0 \in T
    <3>1. <<>> \in Seq(S)
      OBVIOUS
    <3> QED  BY <2>3, <3>1
  <2>6. ASSUME NEW i \in T PROVE i + 1 \in T
    <3>1. SUFFICES ASSUME i + 1 <= n PROVE g[i + 1] \in Seq(S)
      OBVIOUS
    <3>2. i + 1 \in 1 .. n /\ (i + 1) - 1 = i /\ g[i] \in Seq(S)
      BY <1>1, <3>1
    <3>3. g[i + 1] = g[i] \o ss[i + 1] /\ ss[i + 1] \in Seq(S)
      BY <1>1, <2>4, <3>2
    <3> QED  BY <3>2, <3>3
  <2>7. T \subseteq Nat
    OBVIOUS
  <2>8. T = Nat
    <3> HIDE DEF T
    <3> QED  BY <2>5, <2>6, <2>7, AllNaturals
  <2>9. \A i \in 0 .. n : g[i] \in Seq(S)
    BY <1>1, <2>8
  <2>10. FlatSteps(ss, g)
    BY <2>1, <2>3, <2>4 DEF FlatSteps, n
  <2> QED  BY <2>9, <2>10 DEF n
<1> QED  BY <1>2, <1>3

-----------------------------------------------------------------------------
(* What the tokenizer does with a part of the text *)

\* The types the code knows, and the characters and errors.
Containers == {"object", "array"}
Kinds == {"object", "array", "string", "primitive"}
Marks == {"{", "}", "[", "]", ":", ","}
Errors == {"none", "nomem", "inval", "part"}
TokenRecords == [type : Kinds, text : Texts, size : Nat, open : BOOLEAN]
Lexemes == [c : Marks \cup {"string", "primitive"}, text : Texts]

\* A tokenizer between two lexemes; only objects and arrays are open.
Parser(p) ==
  /\ p \in [tok : Seq(TokenRecords), super : Nat, error : Errors]
  /\ \A i \in DOMAIN p.tok : p.tok[i].open => p.tok[i].type \in Containers

\* The innermost open token.
Innermost(p) == Max(Open(p))

\* The superior token is the innermost open one, or the name of a member of it.
Back(p) ==
  /\ p.super \in DOMAIN p.tok
  /\ p.super = Innermost(p) \/ p.tok[p.super].type \notin Containers

\* Within an object or an array.
Ready(p) ==
  /\ Parser(p) /\ p.error = "none"
  /\ Open(p) # {} /\ Back(p)
  /\ Len(p.tok) <= MaxTokens

\* n more tokens under the one at s.
Bigger(t, n) == [t EXCEPT !.size = @ + n]

\* The tokens tok, with n more under the one at s.
Grown(tok, s, n) == [i \in DOMAIN tok |-> IF i = s THEN Bigger(tok[i], n) ELSE tok[i]]

\* Reading the text leads from p to q.
Reads(p, text, q) == FoldIs("lexeme", p, text, q)

\* From p to q, toks were added under the superior token, or did not fit.
Yields(p, q, toks) ==
  IF Len(p.tok) + Len(toks) <= MaxTokens
  THEN /\ q.tok = Grown(p.tok, p.super, 1) \o toks
       /\ q.error = "none" /\ Parser(q) /\ Back(q)
  ELSE q.error = "nomem"

\* Tokens of which none is still open.
Closed(toks) == toks \in Seq(TokenRecords) /\ \A i \in DOMAIN toks : ~toks[i].open

\* The text v, wherever a value may stand, becomes toks.
Takes(v, toks) ==
  /\ v \in Seq(Lexemes) /\ v # <<>>
  /\ Closed(toks)
  /\ \A p : Ready(p) => \E q : Reads(p, v, q) /\ Yields(p, q, toks)

LEMMA GrownFacts ==
  ASSUME NEW tok \in Seq(TokenRecords), NEW s, NEW n \in Nat
  PROVE  /\ Grown(tok, s, n) \in Seq(TokenRecords)
         /\ Len(Grown(tok, s, n)) = Len(tok)
         /\ \A i \in 1 .. Len(tok) :
              /\ Grown(tok, s, n)[i].type = tok[i].type
              /\ Grown(tok, s, n)[i].text = tok[i].text
              /\ Grown(tok, s, n)[i].open = tok[i].open
              /\ i # s => Grown(tok, s, n)[i] = tok[i]
              /\ i = s => Grown(tok, s, n)[i] = Bigger(tok[i], n)
<1> DEFINE g == Grown(tok, s, n)
<1>1. /\ Len(tok) \in Nat /\ DOMAIN tok = 1 .. Len(tok)
      /\ \A i \in 1 .. Len(tok) : tok[i] \in TokenRecords
  OBVIOUS
<1>2. ASSUME NEW t \in TokenRecords
      PROVE  /\ Bigger(t, n) \in TokenRecords
             /\ Bigger(t, n).type = t.type /\ Bigger(t, n).text = t.text
             /\ Bigger(t, n).open = t.open
  BY DEF TokenRecords, Bigger
<1>3. \A i \in 1 .. Len(tok) : g[i] = IF i = s THEN Bigger(tok[i], n) ELSE tok[i]
  BY <1>1 DEF Grown
<1>4. g = [i \in 1 .. Len(tok) |-> g[i]]
  BY <1>1 DEF Grown
<1> HIDE DEF g
<1>5. \A i \in 1 .. Len(tok) :
        /\ g[i] \in TokenRecords
        /\ g[i].type = tok[i].type /\ g[i].text = tok[i].text /\ g[i].open = tok[i].open
  BY <1>1, <1>2, <1>3
<1>6. g \in Seq(TokenRecords) /\ Len(g) = Len(tok)
  BY <1>1, <1>4, <1>5
<1> QED  BY <1>3, <1>5, <1>6 DEF g

LEMMA InnermostIs ==
  ASSUME NEW p, Parser(p), Open(p) # {}
  PROVE  /\ Innermost(p) \in Open(p)
         /\ \A i \in Open(p) : i <= Innermost(p)
<1>1. Len(p.tok) \in Nat /\ Open(p) \in SUBSET (1 .. Len(p.tok))
  BY DEF Parser, Open
<1>2. \A i \in Open(p) : Innermost(p) >= i
  BY <1>1, Greatest DEF Innermost
<1>3. Innermost(p) \in Open(p)
  BY <1>1, Greatest DEF Innermost
<1>4. \A i \in Open(p) : i \in Nat
  BY <1>1
<1> QED  BY <1>2, <1>3, <1>4

\* q has the tokens of p, n more of them under s, and toks behind them.
Extends(p, q, s, n, toks) ==
  /\ Open(q) = Open(p) /\ Innermost(q) = Innermost(p)
  /\ q.tok \in Seq(TokenRecords) /\ Len(q.tok) = Len(p.tok) + Len(toks)
  /\ \A i \in DOMAIN q.tok : q.tok[i].open => q.tok[i].type \in Containers
  /\ \A i \in 1 .. Len(p.tok) : /\ i \in DOMAIN q.tok
                               /\ q.tok[i] = Grown(p.tok, s, n)[i]
                               /\ q.tok[i].type = p.tok[i].type
  /\ \A i \in 1 .. Len(toks) : /\ Len(p.tok) + i \in DOMAIN q.tok
                               /\ q.tok[Len(p.tok) + i] = toks[i]

LEMMA OpenSame ==
  ASSUME NEW p, Parser(p), NEW q, NEW s, NEW n \in Nat, NEW toks, Closed(toks),
         q.tok = Grown(p.tok, s, n) \o toks
  PROVE  Extends(p, q, s, n, toks)
<1> DEFINE t == p.tok
           g == Grown(p.tok, s, n)
           a == Len(t)
           b == Len(toks)
<1>1. /\ t \in Seq(TokenRecords) /\ a \in Nat /\ DOMAIN t = 1 .. a
      /\ \A i \in 1 .. a : t[i].open => t[i].type \in Containers
  BY DEF Parser
<1>2. toks \in Seq(TokenRecords) /\ b \in Nat /\ \A i \in 1 .. b : ~toks[i].open
  BY DEF Closed
<1>3. /\ g \in Seq(TokenRecords) /\ Len(g) = a
      /\ \A i \in 1 .. a : g[i].open = t[i].open /\ g[i].type = t[i].type
  <2>1. g \in Seq(TokenRecords) /\ Len(g) = a
    BY <1>1, GrownFacts
  <2>2. \A i \in 1 .. Len(p.tok) :
          Grown(p.tok, s, n)[i].open = p.tok[i].open /\ Grown(p.tok, s, n)[i].type = p.tok[i].type
    BY <1>1, GrownFacts
  <2> QED  BY <2>1, <2>2
<1> HIDE DEF g
<1>4. /\ q.tok \in Seq(TokenRecords) /\ Len(q.tok) = a + b /\ DOMAIN q.tok = 1 .. (a + b)
      /\ \A i \in 1 .. a : q.tok[i] = g[i]
      /\ \A i \in (a + 1) .. (a + b) : q.tok[i] = toks[i - a]
  <2>1. q.tok = g \o toks
    BY DEF g
  <2> HIDE DEF a, b
  <2>2. Len(g) = a /\ Len(toks) = b
    BY <1>3 DEF b
  <2> DEFINE u == g \o toks
  <2>3. /\ u \in Seq(TokenRecords)
        /\ Len(u) = Len(g) + Len(toks) /\ DOMAIN u = 1 .. (Len(g) + Len(toks))
        /\ \A i \in 1 .. Len(g) : u[i] = g[i]
        /\ \A i \in (Len(g) + 1) .. (Len(g) + Len(toks)) : u[i] = toks[i - Len(g)]
    <3>1. g \in Seq(TokenRecords) /\ toks \in Seq(TokenRecords)
      BY <1>2, <1>3
    <3> QED  BY <3>1, ConcatFacts, Zenon
  <2> HIDE DEF u
  <2>4. /\ u \in Seq(TokenRecords) /\ Len(u) = a + b /\ DOMAIN u = 1 .. (a + b)
        /\ \A i \in 1 .. a : u[i] = g[i]
        /\ \A i \in (a + 1) .. (a + b) : u[i] = toks[i - a]
    BY <2>2, <2>3, Zenon
  <2>5. q.tok = u
    BY <2>1 DEF u
  <2> QED  BY <2>4, <2>5, Zenon
<1>5. \A i \in 1 .. (a + b) : i \in 1 .. a \/ (i \in (a + 1) .. (a + b) /\ i - a \in 1 .. b)
  BY <1>1, <1>2
<1>6. \A i \in 1 .. a : i \in 1 .. (a + b)
  BY <1>1, <1>2
<1> HIDE DEF t, a, b
<1>7. \A i \in 1 .. (a + b) :
        q.tok[i].open <=> i \in 1 .. a /\ t[i].open
  <2> TAKE i \in 1 .. (a + b)
  <2>1. CASE i \in 1 .. a
    BY <1>3, <1>4, <2>1
  <2>2. CASE i \notin 1 .. a
    <3>1. i \in (a + 1) .. (a + b) /\ i - a \in 1 .. b
      BY <1>5, <2>2
    <3>2. q.tok[i] = toks[i - a]
      BY <1>4, <3>1, Zenon
    <3> QED  BY <1>2, <2>2, <3>1, <3>2, Zenon
  <2> QED  BY <2>1, <2>2
<1>8. Open(q) = Open(p)
  <2>1. Open(p) = {i \in 1 .. a : t[i].open}
    BY <1>1 DEF Open, t
  <2>2. Open(q) = {i \in 1 .. (a + b) : q.tok[i].open}
    BY <1>4 DEF Open
  <2>3. \A i : i \in Open(q) <=> i \in Open(p)
    BY <1>6, <1>7, <2>1, <2>2
  <2> QED  BY <2>3
<1>9. \A i \in DOMAIN q.tok : q.tok[i].open => q.tok[i].type \in Containers
  BY <1>1, <1>3, <1>4, <1>7
<1>10. \A i \in 1 .. a : i \in DOMAIN q.tok /\ q.tok[i] = g[i] /\ q.tok[i].type = t[i].type
  BY <1>3, <1>4, <1>6
<1>11. \A i \in 1 .. b : a + i \in DOMAIN q.tok /\ q.tok[a + i] = toks[i]
  <2> TAKE i \in 1 .. b
  <2>1. a + i \in (a + 1) .. (a + b) /\ (a + i) - a = i /\ a + i \in 1 .. (a + b)
    BY <1>1, <1>2
  <2> QED  BY <1>4, <2>1
<1>12. Innermost(q) = Innermost(p)
  BY <1>8 DEF Innermost
<1> QED  BY <1>4, <1>8, <1>9, <1>10, <1>11, <1>12 DEF t, a, b, g, Extends

\* The first lexeme of a kind, and what Lexeme does with it.
LEMMA LexemeCases ==
  ASSUME NEW p, p.error = "none", NEW x
  PROVE  /\ x.c = "{" => Lexeme(p, x) = Down(p, "{") /\ Opening["{"] = "object"
         /\ x.c = "[" => Lexeme(p, x) = Down(p, "[") /\ Opening["["] = "array"
         /\ x.c = "}" => Lexeme(p, x) = Up(p, "}") /\ Closing["}"] = "object"
         /\ x.c = "]" => Lexeme(p, x) = Up(p, "]") /\ Closing["]"] = "array"
         /\ x.c = ":" => Lexeme(p, x) = [p EXCEPT !.super = Len(p.tok)]
         /\ x.c = "," => Lexeme(p, x) = Comma(p)
         /\ x.c \in {"string", "primitive"} => Lexeme(p, x) = Alloc(p, x.c, x.text, FALSE)
<1>1. DOMAIN Opening = {"{", "["} /\ Opening["{"] = "object" /\ Opening["["] = "array"
  BY DEF Opening
<1>2. DOMAIN Closing = {"}", "]"} /\ Closing["}"] = "object" /\ Closing["]"] = "array"
  BY DEF Closing
<1> QED  BY <1>1, <1>2 DEF Lexeme

LEMMA ParserFields ==
  ASSUME NEW p, Parser(p)
  PROVE  /\ \A v : [p EXCEPT !.tok = v] = [tok |-> v, super |-> p.super, error |-> p.error]
         /\ \A v : [p EXCEPT !.super = v] = [tok |-> p.tok, super |-> v, error |-> p.error]
         /\ \A v : [p EXCEPT !.error = v] = [tok |-> p.tok, super |-> p.super, error |-> v]
<1>1. p \in [tok : Seq(TokenRecords), super : Nat, error : Errors]
  BY DEF Parser
<1>2. ASSUME NEW v
      PROVE  [p EXCEPT !.tok = v] = [tok |-> v, super |-> p.super, error |-> p.error]
  BY <1>1
<1>3. ASSUME NEW v
      PROVE  [p EXCEPT !.super = v] = [tok |-> p.tok, super |-> v, error |-> p.error]
  BY <1>1
<1>4. ASSUME NEW v
      PROVE  [p EXCEPT !.error = v] = [tok |-> p.tok, super |-> p.super, error |-> v]
  BY <1>1
<1> QED  BY <1>2, <1>3, <1>4

LEMMA AllocIs ==
  ASSUME NEW p, Parser(p), p.error = "none", NEW type, NEW text, NEW open
  PROVE  Alloc(p, type, text, open) =
           IF Len(p.tok) = MaxTokens THEN [p EXCEPT !.error = "nomem"]
           ELSE [tok |-> Grown(p.tok, p.super, 1)
                           \o <<[type |-> type, text |-> text, size |-> 0, open |-> open]>>,
                 super |-> p.super, error |-> "none"]
<1> DEFINE r == [type |-> type, text |-> text, size |-> 0, open |-> open]
           g == Grown(p.tok, p.super, 1)
<1>1. p = [tok |-> p.tok, super |-> p.super, error |-> "none"]
  BY DEF Parser
<1>2. g = [i \in DOMAIN p.tok |-> IF i = p.super THEN [p.tok[i] EXCEPT !.size = @ + 1]
                                                ELSE p.tok[i]]
  BY DEF Grown, Bigger
<1>3. g \in Seq(TokenRecords)
  BY GrownFacts DEF Parser
<1>4. Append(g, r) = g \o <<r>>
  <2> HIDE DEF g, r
  <2> QED  BY <1>3
<1>5. CASE Len(p.tok) = MaxTokens
  BY <1>5 DEF Alloc, Failed
<1>6. CASE Len(p.tok) # MaxTokens
  <2>1. Alloc(p, type, text, open) = [p EXCEPT !.tok = Append(g, r)]
    <3>1. Counted(p) = g
      BY <1>2 DEF Counted
    <3> QED  BY <1>6, <3>1 DEF Alloc
  <2>2. Alloc(p, type, text, open) = [p EXCEPT !.tok = g \o <<r>>]
    BY <1>4, <2>1
  <2> HIDE DEF g, r
  <2>3. [p EXCEPT !.tok = g \o <<r>>] = [tok |-> g \o <<r>>, super |-> p.super, error |-> "none"]
    BY ParserFields
  <2> QED  BY <1>6, <2>2, <2>3 DEF g, r
<1> QED  BY <1>5, <1>6

LEMMA MakesParser ==
  ASSUME NEW v \in Seq(TokenRecords), NEW s \in Nat, NEW e \in Errors,
         \A i \in DOMAIN v : v[i].open => v[i].type \in Containers
  PROVE  Parser([tok |-> v, super |-> s, error |-> e])
BY DEF Parser

\* What is added under the superior token, which stays superior.
LEMMA AddedYields ==
  ASSUME NEW p, Ready(p), NEW toks, Closed(toks), NEW q,
         q = [tok |-> Grown(p.tok, p.super, 1) \o toks, super |-> p.super, error |-> "none"]
  PROVE  Parser(q) /\ Back(q) /\ Open(q) = Open(p)
<1>1. Parser(p) /\ Back(p) /\ q.tok = Grown(p.tok, p.super, 1) \o toks /\ q.super = p.super
  BY DEF Ready
<1>2. /\ Open(q) = Open(p) /\ Innermost(q) = Innermost(p)
      /\ q.tok \in Seq(TokenRecords)
      /\ \A i \in DOMAIN q.tok : q.tok[i].open => q.tok[i].type \in Containers
      /\ \A i \in 1 .. Len(p.tok) : i \in DOMAIN q.tok /\ q.tok[i].type = p.tok[i].type
  <2>1. Extends(p, q, p.super, 1, toks)
    BY <1>1, OpenSame
  <2> QED  BY <2>1 DEF Extends
<1>3. p.super \in 1 .. Len(p.tok) /\ p.super \in Nat
  BY <1>1 DEF Back, Parser
<1>4. Parser(q)
  <2> DEFINE v == Grown(p.tok, p.super, 1) \o toks
  <2>1. v \in Seq(TokenRecords) /\ \A i \in DOMAIN v : v[i].open => v[i].type \in Containers
    BY <1>1, <1>2, Zenon
  <2>2. "none" \in Errors
    BY DEF Errors
  <2>3. q = [tok |-> v, super |-> p.super, error |-> "none"]
    OBVIOUS
  <2> HIDE DEF v
  <2> QED  BY <1>3, <2>1, <2>2, <2>3, MakesParser, Zenon
<1>5. Back(q)
  BY <1>1, <1>2, <1>3 DEF Back
<1> QED  BY <1>2, <1>4, <1>5

LEMMA TokenFacts ==
  ASSUME NEW c \in Kinds, NEW t \in Texts, NEW n \in Nat
  PROVE  /\ Closed(Token(c, t, n)) /\ Len(Token(c, t, n)) = 1
         /\ Token(c, t, n) = <<[type |-> c, text |-> t, size |-> n, open |-> FALSE]>>
<1> DEFINE r == [type |-> c, text |-> t, size |-> n, open |-> FALSE]
<1>1. Token(c, t, n) = <<r>>
  BY DEF Token
<1>2. r \in TokenRecords /\ ~r.open
  BY DEF TokenRecords
<1> HIDE DEF r
<1>3. Closed(<<r>>) /\ Len(<<r>>) = 1
  BY <1>2 DEF Closed
<1> QED  BY <1>1, <1>3 DEF r

LEMMA ReadsOne ==
  ASSUME NEW p, NEW x
  PROVE  Reads(p, <<x>>, Lexeme(p, x))
<1>1. Folded("lexeme", p, x) = Lexeme(p, x)
  BY DEF Folded
<1> QED  BY <1>1, FoldOne DEF Reads

\* A string or an unquoted value.
LEMMA TakesOne ==
  ASSUME NEW c \in {"string", "primitive"}, NEW t \in Texts
  PROVE  Takes(<<[c |-> c, text |-> t]>>, Token(c, t, 0))
<1> DEFINE x == [c |-> c, text |-> t]
           toks == Token(c, t, 0)
<1>1. c \in Kinds /\ x.c = c /\ x.text = t /\ x \in Lexemes
  <2>1. c \in Kinds
    BY DEF Kinds
  <2>2. c \in Marks \cup {"string", "primitive"}
    OBVIOUS
  <2> QED  BY <2>1, <2>2 DEF Lexemes
<1>2. /\ Closed(toks) /\ Len(toks) = 1
      /\ toks = <<[type |-> c, text |-> t, size |-> 0, open |-> FALSE]>>
  BY <1>1, TokenFacts
<1>3. <<x>> \in Seq(Lexemes) /\ <<x>> # <<>>
  <2> HIDE DEF x
  <2> QED  BY <1>1
<1> HIDE DEF x, toks
<1>4. ASSUME NEW p, Ready(p)
      PROVE  Yields(p, Lexeme(p, x), toks)
  <2> DEFINE q == Lexeme(p, x)
  <2> SUFFICES Yields(p, q, toks)
    OBVIOUS
  <2>1. Parser(p) /\ p.error = "none" /\ Len(p.tok) \in Nat /\ Len(p.tok) <= MaxTokens
    BY <1>4 DEF Ready, Parser
  <2>2. q = Alloc(p, c, t, FALSE)
    <3>1. x.c \in {"string", "primitive"} => Lexeme(p, x) = Alloc(p, x.c, x.text, FALSE)
      BY <2>1, LexemeCases, Zenon
    <3>2. x.c \in {"string", "primitive"}
      BY <1>1
    <3> QED  BY <1>1, <3>1, <3>2, Zenon
  <2>3. q = IF Len(p.tok) = MaxTokens THEN [p EXCEPT !.error = "nomem"]
            ELSE [tok |-> Grown(p.tok, p.super, 1) \o toks, super |-> p.super, error |-> "none"]
    <3> DEFINE r == [type |-> c, text |-> t, size |-> 0, open |-> FALSE]
    <3>1. Alloc(p, c, t, FALSE)
            = IF Len(p.tok) = MaxTokens THEN [p EXCEPT !.error = "nomem"]
              ELSE [tok |-> Grown(p.tok, p.super, 1) \o <<r>>, super |-> p.super, error |-> "none"]
      BY <2>1, AllocIs, Zenon
    <3>2. toks = <<r>>
      BY <1>2
    <3> HIDE DEF r
    <3> QED  BY <2>2, <3>1, <3>2, Zenon
  <2> HIDE DEF q
  <2>4. CASE Len(p.tok) = MaxTokens
    <3>1. q.error = "nomem"
      BY <2>1, <2>3, <2>4, ParserFields
    <3>2. ~(Len(p.tok) + Len(toks) <= MaxTokens)
      BY <1>2, <2>1, <2>4, TokensAssumption
    <3> QED  BY <3>1, <3>2, Zenon DEF Yields
  <2>5. CASE Len(p.tok) # MaxTokens
    <3>1. Parser(q) /\ Back(q) /\ q.tok = Grown(p.tok, p.super, 1) \o toks /\ q.error = "none"
      BY <1>2, <1>4, <2>3, <2>5, AddedYields
    <3>2. Len(p.tok) + Len(toks) <= MaxTokens
      BY <1>2, <2>1, <2>5, TokensAssumption
    <3> QED  BY <3>1, <3>2, Zenon DEF Yields
  <2> QED  BY <2>4, <2>5 DEF q
<1>5. Takes(<<x>>, toks)
  BY <1>2, <1>3, <1>4, ReadsOne DEF Takes
<1> QED  BY <1>5 DEF x, toks

LEMMA ReadsFailed ==
  ASSUME NEW p, p.error # "none", NEW text, Len(text) \in Nat
  PROVE  Reads(p, text, p)
<1> DEFINE f == [i \in 0 .. Len(text) |-> p]
<1>1. \A i \in 0 .. Len(text) : f[i] = p
  OBVIOUS
<1>2. \A x : Folded("lexeme", p, x) = p
  BY DEF Folded, Lexeme
<1>3. \A i \in 1 .. Len(text) : i \in 0 .. Len(text) /\ i - 1 \in 0 .. Len(text)
  OBVIOUS
<1>4. 0 \in 0 .. Len(text) /\ Len(text) \in 0 .. Len(text)
  OBVIOUS
<1> HIDE DEF f
<1>5. FoldSteps("lexeme", p, text, f)
  BY <1>1, <1>2, <1>3, <1>4 DEF FoldSteps
<1> QED  BY <1>1, <1>4, <1>5, Zenon DEF Reads, FoldIs

\* One part after another.
LEMMA ReadsJoin ==
  ASSUME NEW p, NEW q, NEW r, NEW s \in Seq(Lexemes), NEW t \in Seq(Lexemes),
         Reads(p, s, q), Reads(q, t, r)
  PROVE  Reads(p, s \o t, r)
BY FoldJoin DEF Reads

LEMMA MarkFacts ==
  ASSUME NEW c \in Marks
  PROVE  Mark(c) \in Seq(Lexemes) /\ Mark(c) # <<>> /\ Len(Mark(c)) = 1
<1> DEFINE x == [c |-> c, text |-> ""]
<1>1. x \in Lexemes
  BY TextsAssumption DEF Lexemes
<1> HIDE DEF x
<1>2. <<x>> \in Seq(Lexemes) /\ <<x>> # <<>> /\ Len(<<x>>) = 1
  BY <1>1
<1> QED  BY <1>2 DEF Mark, x

LEMMA BiggerIs ==
  ASSUME NEW c, NEW t, NEW m, NEW o, NEW n
  PROVE  Bigger([type |-> c, text |-> t, size |-> m, open |-> o], n)
           = [type |-> c, text |-> t, size |-> m + n, open |-> o]
<1> DEFINE r == [type |-> c, text |-> t, size |-> m, open |-> o]
<1>1. r.size = m
  OBVIOUS
<1>2. \A v : [r EXCEPT !.size = v] = [type |-> c, text |-> t, size |-> v, open |-> o]
  OBVIOUS
<1> QED  BY <1>1, <1>2, Zenon DEF Bigger

LEMMA BiggerClosed ==
  ASSUME NEW c, NEW t, NEW m, NEW n
  PROVE  Bigger([type |-> c, text |-> t, size |-> m, open |-> FALSE], n)
                       = [type |-> c, text |-> t, size |-> m + n, open |-> FALSE]
<1> DEFINE o == FALSE
<1> HIDE DEF o
<1>1. Bigger([type |-> c, text |-> t, size |-> m, open |-> o], n)
                       = [type |-> c, text |-> t, size |-> m + n, open |-> o]
  BY BiggerIs
<1> QED  BY <1>1, Zenon DEF o

\* A key, before its value is counted and after.
LEMMA GrownLast ==
  ASSUME NEW g \in Seq(TokenRecords), NEW k \in TokenRecords, NEW n \in Nat
  PROVE  Grown(g \o <<k>>, Len(g) + 1, n) = g \o <<Bigger(k, n)>>
<1> DEFINE a == Len(g)
           t == g \o <<k>>
           u == g \o <<Bigger(k, n)>>
<1>1. Bigger(k, n) \in TokenRecords
  BY DEF Bigger, TokenRecords
<1>2. /\ t \in Seq(TokenRecords) /\ DOMAIN t = 1 .. (a + 1) /\ a \in Nat
      /\ t[a + 1] = k /\ \A i \in 1 .. a : t[i] = g[i]
  OBVIOUS
<1>3. /\ u \in Seq(TokenRecords) /\ DOMAIN u = 1 .. (a + 1) /\ Len(u) = a + 1
      /\ u[a + 1] = Bigger(k, n) /\ \A i \in 1 .. a : u[i] = g[i]
  <2> HIDE DEF a
  <2>1. a = Len(g)
    BY DEF a
  <2> QED  BY <1>1, <2>1
<1> HIDE DEF t, u, a
<1>4. Grown(t, a + 1, n) = [i \in 1 .. (a + 1) |-> IF i = a + 1 THEN Bigger(t[i], n) ELSE t[i]]
  BY <1>2 DEF Grown
<1>5. ASSUME NEW i \in 1 .. (a + 1)
      PROVE  (IF i = a + 1 THEN Bigger(t[i], n) ELSE t[i]) = u[i]
  <2>1. CASE i = a + 1
    BY <1>2, <1>3, <2>1
  <2>2. CASE i # a + 1
    <3>1. i \in 1 .. a
      BY <1>2, <2>2
    <3> QED  BY <1>2, <1>3, <2>2, <3>1
  <2> QED  BY <2>1, <2>2
<1>6. u = [i \in 1 .. (a + 1) |-> u[i]]
  BY <1>3
<1>7. Grown(t, a + 1, n) = u
  BY <1>4, <1>5, <1>6
<1> QED  BY <1>7 DEF t, u, a

LEMMA PairTokens ==
  ASSUME NEW name \in Texts, NEW toks, Closed(toks)
  PROVE  /\ Closed(Token("string", name, 1) \o toks)
         /\ Len(Token("string", name, 1) \o toks) = 1 + Len(toks)
         /\ Len(toks) \in Nat
<1> DEFINE one == Token("string", name, 1)
<1>1. Closed(one) /\ Len(one) = 1
  BY TokenFacts DEF Kinds
<1> HIDE DEF one
<1>2. /\ one \in Seq(TokenRecords) /\ \A i \in DOMAIN one : ~one[i].open
      /\ toks \in Seq(TokenRecords) /\ \A i \in DOMAIN toks : ~toks[i].open
  BY <1>1 DEF Closed
<1>3. /\ one \o toks \in Seq(TokenRecords) /\ Len(one \o toks) = 1 + Len(toks)
      /\ Len(toks) \in Nat
  BY <1>1, <1>2, ConcatFacts, SMTT(60)
<1>4. \A i \in DOMAIN (one \o toks) : ~(one \o toks)[i].open
  <2> DEFINE u == one \o toks
             b == Len(toks)
  <2>1. /\ DOMAIN u = 1 .. (1 + b) /\ u[1] = one[1] /\ b \in Nat
        /\ \A i \in 2 .. (1 + b) : u[i] = toks[i - 1]
    <3>1. /\ DOMAIN u = 1 .. (Len(one) + b)
          /\ \A i \in 1 .. Len(one) : u[i] = one[i]
          /\ \A i \in (Len(one) + 1) .. (Len(one) + b) : u[i] = toks[i - Len(one)]
      BY <1>2, ConcatFacts, Zenon
    <3> HIDE DEF u, b
    <3>2. /\ DOMAIN u = 1 .. (1 + b)
          /\ \A i \in 1 .. 1 : u[i] = one[i]
          /\ \A i \in (1 + 1) .. (1 + b) : u[i] = toks[i - 1]
      BY <1>1, <3>1
    <3> QED  BY <1>3, <3>2 DEF b
  <2>2. DOMAIN one = 1 .. 1 /\ DOMAIN toks = 1 .. b
    BY <1>1, <1>2
  <2> HIDE DEF u, b
  <2>3. ASSUME NEW i \in 1 .. (1 + b) PROVE ~u[i].open
    <3>1. CASE i = 1
      BY <1>2, <2>1, <2>2, <3>1
    <3>2. CASE i # 1
      <4>1. i \in 2 .. (1 + b) /\ i - 1 \in 1 .. b
        BY <2>1, <3>2
      <4> QED  BY <1>2, <2>1, <2>2, <4>1
    <3> QED  BY <3>1, <3>2
  <2> QED  BY <2>1, <2>3 DEF u
<1> QED  BY <1>3, <1>4 DEF one, Closed

\* A name and its value.
LEMMA TakesPair ==
  ASSUME NEW name \in Texts, NEW v, NEW toks, Takes(v, toks)
  PROVE  Takes(Pair(name, v), Token("string", name, 1) \o toks)
<1> DEFINE one == Quoted(name)
           all == Token("string", name, 1) \o toks
           k0 == [type |-> "string", text |-> name, size |-> 0, open |-> FALSE]
           k1 == [type |-> "string", text |-> name, size |-> 1, open |-> FALSE]
<1>1. v \in Seq(Lexemes) /\ v # <<>> /\ Closed(toks)
  BY DEF Takes
<1>2. Closed(all) /\ Len(all) = 1 + Len(toks) /\ Len(toks) \in Nat /\ toks \in Seq(TokenRecords)
  BY <1>1, PairTokens DEF Closed
<1>3. Takes(one, Token("string", name, 0))
  BY TakesOne DEF Quoted
<1>4. /\ Token("string", name, 0) = <<k0>> /\ Token("string", name, 1) = <<k1>>
      /\ Closed(<<k0>>)
  BY TokenFacts DEF Kinds
<1>5. k0 \in TokenRecords /\ k1 \in TokenRecords /\ Bigger(k0, 1) = k1 /\ ~k0.open
      /\ k0.type \notin Containers
  <2>1. k0 \in TokenRecords /\ k1 \in TokenRecords
    BY DEF TokenRecords, Kinds
  <2>2. Bigger(k0, 1) = k1
    <3>1. Bigger(k0, 1) = [type |-> "string", text |-> name, size |-> 0 + 1, open |-> FALSE]
      BY BiggerClosed
    <3>2. 0 + 1 = 1
      OBVIOUS
    <3> QED  BY <3>1, <3>2, Zenon
  <2>3. ~k0.open /\ k0.type \notin Containers
    BY DEF Containers
  <2> QED  BY <2>1, <2>2, <2>3
<1> HIDE DEF k0, k1
<1>9. Len(all) = 1 + Len(toks) /\ Len(toks) \in Nat
  BY <1>2
<1>6. /\ one \in Seq(Lexemes) /\ one # <<>>
      /\ Mark(":") \in Seq(Lexemes)
      /\ one \o Mark(":") \in Seq(Lexemes)
      /\ Pair(name, v) \in Seq(Lexemes)
      /\ Pair(name, v) = (one \o Mark(":")) \o v
  <2>1. one \in Seq(Lexemes) /\ one # <<>>
    BY <1>3 DEF Takes
  <2>2. Mark(":") \in Seq(Lexemes)
    BY MarkFacts DEF Marks
  <2>3. Pair(name, v) = (one \o Mark(":")) \o v
    BY DEF Pair
  <2> HIDE DEF one
  <2> QED  BY <1>1, <2>1, <2>2, <2>3
<1>7. Pair(name, v) # <<>>
  <2>1. Len((one \o Mark(":")) \o v) = Len(one \o Mark(":")) + Len(v) /\ Len(v) > 0
        /\ Len(one \o Mark(":")) \in Nat /\ Len(v) \in Nat
    <3> HIDE DEF one
    <3> QED  BY <1>1, <1>6, ConcatFacts
  <2> QED  BY <1>6, <2>1
<1>8. ASSUME NEW p, Ready(p)
      PROVE  \E q : Reads(p, Pair(name, v), q) /\ Yields(p, q, all)
  <2> HIDE DEF one, all
  <2>1. PICK p1 : Reads(p, one, p1) /\ Yields(p, p1, <<k0>>)
    BY <1>3, <1>4, <1>8 DEF Takes
  <2>2. /\ Parser(p) /\ Len(p.tok) \in Nat /\ Len(p.tok) <= MaxTokens /\ Len(<<k0>>) = 1
        /\ MaxTokens \in Nat /\ p.tok \in Seq(TokenRecords)
    BY <1>8, TokensAssumption DEF Ready, Parser
  <2>3. CASE ~(Len(p.tok) + 1 <= MaxTokens)
    <3>1. p1.error = "nomem"
      BY <2>1, <2>2, <2>3 DEF Yields
    <3>2. Reads(p1, Mark(":"), p1) /\ Reads(p1, v, p1)
      <4>1. Len(Mark(":")) \in Nat /\ Len(v) \in Nat
        BY <1>1, <1>6
      <4> QED  BY <3>1, <4>1, ReadsFailed
    <3>3. Reads(p, Pair(name, v), p1)
      BY <1>1, <1>6, <2>1, <3>2, ReadsJoin
    <3>4. ~(Len(p.tok) + Len(all) <= MaxTokens)
      <4> DEFINE a == Len(all)
                 b == Len(toks)
                 n == Len(p.tok)
      <4>1. a = 1 + b /\ b \in Nat /\ n \in Nat /\ MaxTokens \in Nat /\ ~(n + 1 <= MaxTokens)
        BY <1>9, <2>2, <2>3
      <4> HIDE DEF a, b, n
      <4>2. ~(n + a <= MaxTokens)
        BY <4>1
      <4> QED  BY <4>2 DEF n, a
    <3>5. Yields(p, p1, all)
      BY <3>1, <3>4, Zenon DEF Yields
    <3> QED  BY <3>3, <3>5
  <2>4. CASE Len(p.tok) + 1 <= MaxTokens
    <3> DEFINE g == Grown(p.tok, p.super, 1)
               n == Len(p.tok)
               p2 == [tok |-> p1.tok, super |-> Len(p1.tok), error |-> "none"]
    <3>1. p1.tok = g \o <<k0>> /\ p1.error = "none" /\ Parser(p1)
      BY <2>1, <2>2, <2>4 DEF Yields
    <3>2. g \in Seq(TokenRecords) /\ Len(g) = n
      BY <2>2, GrownFacts
    <3>3. Extends(p, p1, p.super, 1, <<k0>>)
      BY <1>4, <2>2, <3>1, OpenSame
    <3>4. /\ Open(p1) = Open(p) /\ Innermost(p1) = Innermost(p)
          /\ Len(p1.tok) = n + 1 /\ p1.tok \in Seq(TokenRecords)
          /\ p1.tok[n + 1] = k0
      <4>1. 1 \in 1 .. Len(<<k0>>) /\ <<k0>>[1] = k0
        BY <2>2
      <4> QED  BY <2>2, <3>3, <4>1 DEF Extends
    <3>5. Reads(p1, Mark(":"), p2)
      <4> DEFINE x == [c |-> ":", text |-> ""]
      <4>1. Lexeme(p1, x) = [p1 EXCEPT !.super = Len(p1.tok)]
        BY <3>1, LexemeCases
      <4>2. Lexeme(p1, x) = p2
        BY <3>1, <4>1, ParserFields
      <4> QED  BY <4>2, ReadsOne DEF Mark
    <3>6. Ready(p2)
      <4>1. Parser(p2)
        <5>1. "none" \in Errors
          BY DEF Errors
        <5> QED  BY <2>2, <3>1, <3>4, <5>1, MakesParser DEF Parser
      <4>2. Open(p2) = Open(p1)
        BY DEF Open
      <4>3. Back(p2)
        BY <1>5, <2>2, <3>4 DEF Back
      <4>4. Len(p2.tok) <= MaxTokens /\ Open(p) # {}
        BY <1>8, <2>4, <3>4 DEF Ready
      <4> QED  BY <3>4, <4>1, <4>2, <4>3, <4>4 DEF Ready
    <3>7. PICK q : Reads(p2, v, q) /\ Yields(p2, q, toks)
      BY <3>6 DEF Takes
    <3>8. Reads(p, Pair(name, v), q)
      <4>1. Reads(p, one \o Mark(":"), p2)
        BY <1>6, <2>1, <3>5, ReadsJoin
      <4> QED  BY <1>1, <1>6, <3>7, <4>1, ReadsJoin
    <3>9. p2.tok = p1.tok /\ p2.super = n + 1
      BY <3>4
    <3> HIDE DEF p2
    <3>10. Len(p2.tok) + Len(toks) = n + Len(all)
      <4> DEFINE a == Len(all)
                 b == Len(toks)
                 m == Len(p2.tok)
      <4>1. a = 1 + b /\ b \in Nat /\ n \in Nat /\ m = n + 1
        BY <1>9, <2>2, <3>4, <3>9
      <4> HIDE DEF a, b, n, m
      <4>2. m + b = n + a
        BY <4>1
      <4> QED  BY <4>2 DEF n, m, a, b
    <3>11. CASE n + Len(all) <= MaxTokens
      <4>1. /\ q.tok = Grown(p2.tok, p2.super, 1) \o toks
            /\ q.error = "none" /\ Parser(q) /\ Back(q)
        BY <3>7, <3>10, <3>11, Zenon DEF Yields
      <4>2. Grown(p2.tok, p2.super, 1) = g \o <<k1>>
        <5>1. Grown(g \o <<k0>>, Len(g) + 1, 1) = g \o <<Bigger(k0, 1)>>
          <6> HIDE DEF g
          <6> QED  BY <1>5, <3>2, GrownLast
        <5> QED  BY <1>5, <3>1, <3>2, <3>9, <5>1
      <4>3. (g \o <<k1>>) \o toks = g \o (<<k1>> \o toks)
        <5>1. <<k1>> \in Seq(TokenRecords)
          BY <1>5
        <5> QED  BY <1>2, <3>2, <5>1, ConcatAssociative
      <4>4. q.tok = g \o all
        BY <1>4, <4>1, <4>2, <4>3 DEF all
      <4> QED  BY <3>8, <3>11, <4>1, <4>4 DEF Yields
    <3>12. CASE ~(n + Len(all) <= MaxTokens)
      <4>1. q.error = "nomem"
        BY <3>7, <3>10, <3>12, Zenon DEF Yields
      <4>2. Yields(p, q, all)
        BY <3>12, <4>1, Zenon DEF Yields
      <4> QED  BY <3>8, <4>2
    <3> QED  BY <3>11, <3>12
  <2> QED  BY <2>3, <2>4
<1> HIDE DEF all
<1> QED  BY <1>2, <1>6, <1>7, <1>8 DEF Takes, all

-----------------------------------------------------------------------------
(* Parts with commas between them *)

LEMMA BiggerTwice ==
  ASSUME NEW k \in TokenRecords, NEW m \in Nat, NEW n \in Nat
  PROVE  Bigger(Bigger(k, m), n) = Bigger(k, m + n) /\ Bigger(k, 0) = k
<1>1. PICK c, t, z, o : k = [type |-> c, text |-> t, size |-> z, open |-> o] /\ z \in Nat
  <2>1. k = [type |-> k.type, text |-> k.text, size |-> k.size, open |-> k.open] /\ k.size \in Nat
    BY DEF TokenRecords
  <2> QED  BY <2>1, Zenon
<1> DEFINE r(x) == [type |-> c, text |-> t, size |-> x, open |-> o]
<1>2. \A x, y : Bigger(r(x), y) = r(x + y)
  BY BiggerIs
<1> HIDE DEF r
<1>3. Bigger(r(z), m) = r(z + m) /\ Bigger(r(z + m), n) = r((z + m) + n)
      /\ Bigger(r(z), m + n) = r(z + (m + n)) /\ Bigger(r(z), 0) = r(z + 0)
  BY <1>2
<1>4. (z + m) + n = z + (m + n) /\ z + 0 = z
  BY <1>1
<1>5. k = r(z)
  BY <1>1 DEF r
<1> QED  BY <1>3, <1>4, <1>5

LEMMA GrownFirst ==
  ASSUME NEW tok \in Seq(TokenRecords), NEW s \in 1 .. Len(tok), NEW m \in Nat, NEW n \in Nat,
         NEW t \in Seq(TokenRecords)
  PROVE  Grown(Grown(tok, s, m) \o t, s, n) = Grown(tok, s, m + n) \o t
<1> DEFINE g == Grown(tok, s, m)
           h == Grown(tok, s, m + n)
           u == g \o t
           w == h \o t
           a == Len(tok)
           b == Len(t)
<1>1. /\ a \in Nat /\ b \in Nat /\ s \in 1 .. a /\ m + n \in Nat
      /\ \A i \in 1 .. a : tok[i] \in TokenRecords
  OBVIOUS
<1>2. /\ g \in Seq(TokenRecords) /\ Len(g) = a
      /\ \A i \in 1 .. a : (i # s => g[i] = tok[i]) /\ (i = s => g[i] = Bigger(tok[i], m))
  BY GrownFacts
<1>3. /\ h \in Seq(TokenRecords) /\ Len(h) = a
      /\ \A i \in 1 .. a : (i # s => h[i] = tok[i]) /\ (i = s => h[i] = Bigger(tok[i], m + n))
  BY <1>1, GrownFacts
<1> HIDE DEF g, h, a, b
<1>4. /\ u \in Seq(TokenRecords) /\ DOMAIN u = 1 .. (a + b)
      /\ \A i \in 1 .. a : u[i] = g[i]
      /\ \A i \in (a + 1) .. (a + b) : u[i] = t[i - a]
  BY <1>2, ConcatFacts, ZenonT(60) DEF b
<1>5. /\ w \in Seq(TokenRecords) /\ DOMAIN w = 1 .. (a + b)
      /\ \A i \in 1 .. a : w[i] = h[i]
      /\ \A i \in (a + 1) .. (a + b) : w[i] = t[i - a]
  BY <1>3, ConcatFacts, ZenonT(60) DEF b
<1> HIDE DEF u, w
<1>6. Grown(u, s, n) = [i \in 1 .. (a + b) |-> IF i = s THEN Bigger(u[i], n) ELSE u[i]]
  BY <1>4 DEF Grown
<1>7. ASSUME NEW i \in 1 .. (a + b)
      PROVE  (IF i = s THEN Bigger(u[i], n) ELSE u[i]) = w[i]
  <2>1. CASE i \in 1 .. a /\ i = s
    <3>1. u[i] = Bigger(tok[i], m) /\ w[i] = Bigger(tok[i], m + n) /\ tok[i] \in TokenRecords
      BY <1>1, <1>2, <1>3, <1>4, <1>5, <2>1
    <3>2. Bigger(Bigger(tok[i], m), n) = Bigger(tok[i], m + n)
      BY <3>1, BiggerTwice
    <3> QED  BY <2>1, <3>1, <3>2, Zenon
  <2>2. CASE i \in 1 .. a /\ i # s
    BY <1>2, <1>3, <1>4, <1>5, <2>2
  <2>3. CASE i \notin 1 .. a
    <3>1. i \in (a + 1) .. (a + b) /\ i # s
      BY <1>1, <2>3
    <3> QED  BY <1>4, <1>5, <3>1
  <2> QED  BY <2>1, <2>2, <2>3
<1>8. w = [i \in 1 .. (a + b) |-> w[i]]
  BY <1>5
<1>9. Grown(u, s, n) = w
  BY <1>6, <1>7, <1>8
<1> QED  BY <1>9 DEF u, w, g, h

LEMMA GrownNone ==
  ASSUME NEW tok \in Seq(TokenRecords), NEW s
  PROVE  Grown(tok, s, 0) \o <<>> = tok
<1>1. \A i \in DOMAIN tok : tok[i] \in TokenRecords
  OBVIOUS
<1>2. \A i \in DOMAIN tok : (IF i = s THEN Bigger(tok[i], 0) ELSE tok[i]) = tok[i]
  <2>1. 0 \in Nat
    OBVIOUS
  <2> QED  BY <1>1, <2>1, BiggerTwice
<1>3. Grown(tok, s, 0) = [i \in DOMAIN tok |-> tok[i]]
  BY <1>2 DEF Grown
<1>4. Grown(tok, s, 0) = tok
  BY <1>3
<1> QED  BY <1>4, ConcatEmptySeq

\* After a comma the innermost open token is superior.
Again(q) == [tok |-> q.tok, super |-> Innermost(q), error |-> "none"]

LEMMA CommaIs ==
  ASSUME NEW q, Parser(q), q.error = "none", Back(q), Open(q) # {}
  PROVE  /\ Reads(q, Mark(","), Again(q))
         /\ Open(Again(q)) = Open(q) /\ Innermost(Again(q)) = Innermost(q)
         /\ Len(q.tok) <= MaxTokens => Ready(Again(q))
<1> DEFINE x == [c |-> ",", text |-> ""]
           a == Again(q)
<1>1. Innermost(q) \in Open(q) /\ Open(q) \subseteq DOMAIN q.tok
  BY InnermostIs DEF Open
<1>2. q.tok \in Seq(TokenRecords) /\ q.tok[Innermost(q)].open
      /\ Innermost(q) \in DOMAIN q.tok /\ Innermost(q) \in Nat /\ Innermost(q) # 0
      /\ \A i \in DOMAIN q.tok : i # 0
  BY <1>1 DEF Parser, Open
<1>3. Comma(q) = [q EXCEPT !.super = Innermost(q)]
  <2>1. q.super # 0
    BY <1>2 DEF Back
  <2>2. CASE q.tok[q.super].type \in Containers
    <3>1. q.super = Innermost(q)
      BY <2>2 DEF Back
    <3>2. [q EXCEPT !.super = q.super] = q
      BY DEF Parser
    <3>3. Comma(q) = q
      BY <2>2 DEF Comma, Containers
    <3> QED  BY <3>1, <3>2, <3>3
  <2>3. CASE q.tok[q.super].type \notin Containers
    <3>1. Comma(q) = [q EXCEPT !.super = Max(Open(q))]
      BY <2>1, <2>3 DEF Comma, Containers
    <3> QED  BY <3>1 DEF Innermost
  <2> QED  BY <2>2, <2>3
<1>4. Lexeme(q, x) = a
  <2>1. Lexeme(q, x) = Comma(q)
    BY LexemeCases
  <2>2. [q EXCEPT !.super = Innermost(q)] = a
    BY ParserFields DEF Again
  <2> QED  BY <1>3, <2>1, <2>2
<1>5. Reads(q, Mark(","), a)
  BY <1>4, ReadsOne DEF Mark
<1>6. a.tok = q.tok /\ a.super = Innermost(q) /\ a.error = "none"
  BY DEF Again
<1>7. Open(a) = Open(q) /\ Innermost(a) = Innermost(q)
  BY <1>6 DEF Open, Innermost
<1>8. Parser(a)
  <2>1. "none" \in Errors
    BY DEF Errors
  <2> QED  BY <1>2, <2>1, MakesParser DEF Parser, Again
<1> HIDE DEF a
<1>9. Len(q.tok) <= MaxTokens => Ready(a)
  BY <1>2, <1>6, <1>7, <1>8 DEF Ready, Back
<1> QED  BY <1>5, <1>7, <1>9 DEF a

LEMMA ClosedJoin ==
  ASSUME NEW s, Closed(s), NEW t, Closed(t)
  PROVE  /\ Closed(s \o t) /\ Len(s \o t) = Len(s) + Len(t)
         /\ Len(s) \in Nat /\ Len(t) \in Nat
<1> DEFINE u == s \o t
           a == Len(s)
           b == Len(t)
<1>1. /\ s \in Seq(TokenRecords) /\ \A i \in 1 .. a : ~s[i].open
      /\ t \in Seq(TokenRecords) /\ \A i \in 1 .. b : ~t[i].open
  BY DEF Closed
<1>2. /\ u \in Seq(TokenRecords) /\ a \in Nat /\ b \in Nat
      /\ Len(u) = a + b /\ DOMAIN u = 1 .. (a + b)
      /\ \A i \in 1 .. a : u[i] = s[i]
      /\ \A i \in (a + 1) .. (a + b) : u[i] = t[i - a]
  BY <1>1, ConcatFacts, Zenon
<1> HIDE DEF u, a, b
<1>3. ASSUME NEW i \in 1 .. (a + b) PROVE ~u[i].open
  <2>1. CASE i \in 1 .. a
    BY <1>1, <1>2, <2>1
  <2>2. CASE i \notin 1 .. a
    <3>1. i \in (a + 1) .. (a + b) /\ i - a \in 1 .. b
      BY <1>2, <2>2
    <3> QED  BY <1>1, <1>2, <3>1
  <2> QED  BY <2>1, <2>2
<1>4. Closed(u)
  BY <1>2, <1>3 DEF Closed
<1> QED  BY <1>2, <1>4 DEF u, a, b

\* From p to q, toks were added as n under the superior token, or did not fit.
Listed(p, q, n, toks) ==
  IF Len(p.tok) + Len(toks) <= MaxTokens
  THEN /\ q.tok = Grown(p.tok, p.super, n) \o toks
       /\ q.error = "none" /\ Parser(q) /\ Back(q)
  ELSE q.error = "nomem"

\* One more part, behind a comma.
LEMMA ListStep ==
  ASSUME NEW p, Ready(p), p.super = Innermost(p), NEW l \in Seq(Lexemes), NEW q, Reads(p, l, q),
         NEW k \in Nat, NEW t, Closed(t), Listed(p, q, k, t),
         NEW v, NEW toks, Takes(v, toks)
  PROVE  \E r : Reads(p, (l \o Mark(",")) \o v, r) /\ Listed(p, r, k + 1, t \o toks)
<1>1. /\ Parser(p) /\ Len(p.tok) \in Nat /\ p.tok \in Seq(TokenRecords)
      /\ p.super \in 1 .. Len(p.tok)
      /\ MaxTokens \in Nat /\ Open(p) # {}
  BY TokensAssumption DEF Ready, Parser, Back
<1>2. v \in Seq(Lexemes) /\ Closed(toks) /\ Mark(",") \in Seq(Lexemes)
  BY MarkFacts DEF Takes, Marks
<1>3. /\ Closed(t \o toks) /\ Len(t \o toks) = Len(t) + Len(toks)
      /\ Len(t) \in Nat /\ Len(toks) \in Nat
  BY <1>2, ClosedJoin
<1>4. l \o Mark(",") \in Seq(Lexemes) /\ Len(Mark(",")) \in Nat /\ Len(v) \in Nat
  BY <1>2, ConcatFacts
<1> DEFINE a == Len(t)
           b == Len(toks)
           c == Len(t \o toks)
           n == Len(p.tok)
<1>5. a \in Nat /\ b \in Nat /\ c = a + b /\ n \in Nat /\ n <= MaxTokens
  BY <1>1, <1>3 DEF Ready
<1>6. CASE ~(Len(p.tok) + Len(t) <= MaxTokens)
  <2>1. q.error = "nomem"
    BY <1>6, Zenon DEF Listed
  <2>2. Reads(q, Mark(","), q) /\ Reads(q, v, q)
    BY <1>4, <2>1, ReadsFailed
  <2>3. Reads(p, (l \o Mark(",")) \o v, q)
    BY <1>2, <1>4, <2>2, ReadsJoin
  <2>4. ~(n + c <= MaxTokens)
    <3>1. ~(n + a <= MaxTokens)
      BY <1>6
    <3> HIDE DEF a, b, c, n
    <3> QED  BY <1>1, <1>5, <3>1
  <2>5. Listed(p, q, k + 1, t \o toks)
    BY <2>1, <2>4, Zenon DEF Listed
  <2> QED  BY <2>3, <2>5
<1>7. CASE Len(p.tok) + Len(t) <= MaxTokens
  <2> DEFINE g == Grown(p.tok, p.super, k)
             q2 == Again(q)
  <2>1. q.tok = g \o t /\ q.error = "none" /\ Parser(q) /\ Back(q)
    BY <1>7, Zenon DEF Listed
  <2>2. Extends(p, q, p.super, k, t)
    BY <1>1, <2>1, OpenSame
  <2>3. Open(q) = Open(p) /\ Innermost(q) = Innermost(p) /\ Len(q.tok) = n + a
    BY <2>2 DEF Extends
  <2>4. Reads(q, Mark(","), q2) /\ Ready(q2)
    <3>1. Len(q.tok) <= MaxTokens
      BY <1>7, <2>3
    <3> QED  BY <1>1, <2>1, <2>3, <3>1, CommaIs
  <2>5. q2.tok = q.tok /\ q2.super = p.super
    BY <2>3 DEF Again
  <2> HIDE DEF q2
  <2>6. PICK r : Reads(q2, v, r) /\ Yields(q2, r, toks)
    BY <2>4 DEF Takes
  <2>7. Reads(p, (l \o Mark(",")) \o v, r)
    <3>1. Reads(p, l \o Mark(","), q2)
      BY <1>2, <2>4, ReadsJoin
    <3> QED  BY <1>2, <1>4, <2>6, <3>1, ReadsJoin
  <2>8. Len(q2.tok) + Len(toks) = n + c
    <3> DEFINE m == Len(q2.tok)
    <3>1. m = n + a
      BY <2>3, <2>5
    <3> HIDE DEF a, b, c, m, n
    <3>2. m + b = n + c
      BY <1>5, <3>1
    <3> QED  BY <3>2 DEF m, n, b, c
  <2>9. CASE n + c <= MaxTokens
    <3>1. /\ r.tok = Grown(q2.tok, q2.super, 1) \o toks
          /\ r.error = "none" /\ Parser(r) /\ Back(r)
      BY <2>6, <2>8, <2>9, Zenon DEF Yields
    <3> DEFINE h == Grown(p.tok, p.super, k + 1)
    <3>2. Grown(q2.tok, q2.super, 1) = h \o t
      <4>1. Grown(g \o t, p.super, 1) = h \o t
        <5>1. t \in Seq(TokenRecords) /\ 1 \in Nat
          BY DEF Closed
        <5> QED  BY <1>1, <5>1, GrownFirst, ZenonT(60)
      <4> QED  BY <2>1, <2>5, <4>1
    <3>3. (h \o t) \o toks = h \o (t \o toks)
      <4>1. h \in Seq(TokenRecords) /\ t \in Seq(TokenRecords) /\ toks \in Seq(TokenRecords)
        <5>1. k + 1 \in Nat
          OBVIOUS
        <5> QED  BY <1>1, <1>2, <5>1, GrownFacts DEF Closed
      <4> QED  BY <4>1, ConcatAssociative, SMTT(60)
    <3>4. r.tok = h \o (t \o toks)
      BY <3>1, <3>2, <3>3
    <3>5. Listed(p, r, k + 1, t \o toks)
      BY <2>9, <3>1, <3>4, Zenon DEF Listed
    <3> QED  BY <2>7, <3>5
  <2>10. CASE ~(n + c <= MaxTokens)
    <3>1. r.error = "nomem"
      BY <2>6, <2>8, <2>10, Zenon DEF Yields
    <3>2. Listed(p, r, k + 1, t \o toks)
      BY <2>10, <3>1, Zenon DEF Listed
    <3> QED  BY <2>7, <3>2
  <2> QED  BY <2>9, <2>10
<1> QED  BY <1>6, <1>7

\* A list within the innermost object or array.
LEMMA ListReads ==
  ASSUME NEW parts \in Seq(Seq(Lexemes)), NEW toks \in Seq(Seq(TokenRecords)),
         Len(parts) = Len(toks), \A i \in 1 .. Len(parts) : Takes(parts[i], toks[i])
  PROVE  /\ List(parts) \in Seq(Lexemes) /\ Closed(FlattenSeq(toks))
         /\ \A p : Ready(p) /\ p.super = Innermost(p) =>
              \E q : Reads(p, List(parts), q) /\ Listed(p, q, Len(parts), FlattenSeq(toks))
<1> DEFINE n == Len(parts)
<1>1. n \in Nat /\ DOMAIN parts = 1 .. n /\ \A i \in 1 .. n : parts[i] \in Seq(Lexemes)
  OBVIOUS
<1>2. PICK l : FoldSteps("list", <<>>, parts, l) /\ l[n] = List(parts)
  BY ListFold DEF FoldIs
<1>3. PICK g : FlatSteps(toks, g) /\ \A i \in 0 .. n : g[i] \in Seq(TokenRecords)
  BY FlattenSteps
<1>4. l[0] = <<>> /\ g[0] = <<>> /\ g[n] = FlattenSeq(toks)
  BY <1>2, <1>3 DEF FoldSteps, FlatSteps
<1>5. \A i \in 1 .. n : /\ l[i] = IF l[i - 1] = <<>> THEN parts[i]
                                  ELSE (l[i - 1] \o Mark(",")) \o parts[i]
                        /\ g[i] = g[i - 1] \o toks[i]
                        /\ Takes(parts[i], toks[i])
  <2>1. \A i \in 1 .. n : g[i] = g[i - 1] \o toks[i]
    BY <1>3 DEF FlatSteps
  <2>2. \A i \in 1 .. n : l[i] = Folded("list", l[i - 1], parts[i])
    BY <1>2 DEF FoldSteps
  <2>3. \A a, x : Folded("list", a, x) = IF a = <<>> THEN x ELSE (a \o Mark(",")) \o x
    BY DEF Folded
  <2> QED  BY <2>1, <2>2, <2>3
<1> DEFINE Good(i) == /\ l[i] \in Seq(Lexemes) /\ (i > 0 => l[i] # <<>>)
                      /\ Closed(g[i])
                      /\ \A p : Ready(p) /\ p.super = Innermost(p) =>
                           \E q : Reads(p, l[i], q) /\ Listed(p, q, i, g[i])
           T == {i \in Nat : i <= n => Good(i)}
<1> HIDE DEF n
<1>6. Good(0)
  <2>1. Closed(<<>>)
    BY DEF Closed
  <2>2. <<>> \in Seq(Lexemes)
    OBVIOUS
  <2>3. ASSUME NEW p, Ready(p) PROVE Reads(p, <<>>, p) /\ Listed(p, p, 0, <<>>)
    <3>1. Reads(p, <<>>, p)
      BY FoldNothing DEF Reads
    <3>2. p.tok \in Seq(TokenRecords) /\ Parser(p) /\ Back(p) /\ p.error = "none"
          /\ Len(p.tok) \in Nat /\ Len(p.tok) <= MaxTokens
      BY <2>3 DEF Ready, Parser
    <3>3. Grown(p.tok, p.super, 0) \o <<>> = p.tok
      BY <3>2, GrownNone
    <3>4. Len(p.tok) + Len(<<>>) <= MaxTokens
      BY <3>2
    <3> QED  BY <3>1, <3>2, <3>3, <3>4, Zenon DEF Listed
  <2> QED  BY <1>4, <2>1, <2>2, <2>3
<1>7. ASSUME NEW i \in Nat, i + 1 <= n, Good(i) PROVE Good(i + 1)
  <2> DEFINE v == parts[i + 1]
             u == toks[i + 1]
  <2>1. /\ i + 1 \in 1 .. n /\ (i + 1) - 1 = i /\ i + 1 > 0 /\ i \in 0 .. n
    BY <1>1, <1>7
  <2>2. /\ l[i + 1] = IF l[i] = <<>> THEN v ELSE (l[i] \o Mark(",")) \o v
        /\ g[i + 1] = g[i] \o u
        /\ Takes(v, u) /\ v \in Seq(Lexemes) /\ v # <<>> /\ Closed(u)
    BY <1>5, <2>1 DEF Takes
  <2> HIDE DEF v, u
  <2>3. Closed(g[i + 1])
    BY <1>7, <2>2, ClosedJoin
  <2>4. CASE i = 0
    <3>1. l[i + 1] = v /\ g[i + 1] = u
      <4>1. l[i] = <<>> /\ g[i] = <<>>
        BY <1>4, <2>4
      <4>2. u \in Seq(TokenRecords)
        BY <2>2 DEF Closed
      <4>3. <<>> \o u = u
        BY <4>2
      <4> QED  BY <2>2, <4>1, <4>3
    <3>2. ASSUME NEW p, Ready(p) PROVE \E q : Reads(p, v, q) /\ Listed(p, q, i + 1, u)
      <4>1. PICK q : Reads(p, v, q) /\ Yields(p, q, u)
        BY <2>2, <3>2 DEF Takes
      <4>2. i + 1 = 1
        BY <2>4
      <4>3. Listed(p, q, 1, u)
        BY <4>1, Zenon DEF Yields, Listed
      <4> QED  BY <4>1, <4>2, <4>3
    <3> QED  BY <2>2, <2>3, <3>1, <3>2
  <2>5. CASE i # 0
    <3>1. l[i] # <<>> /\ l[i] \in Seq(Lexemes)
      BY <1>7, <2>5
    <3>2. l[i + 1] = (l[i] \o Mark(",")) \o v
      BY <2>2, <3>1
    <3>3. Mark(",") \in Seq(Lexemes)
      BY MarkFacts DEF Marks
    <3>4. l[i + 1] \in Seq(Lexemes) /\ l[i + 1] # <<>>
      <4> DEFINE x == l[i] \o Mark(",")
      <4>1. x \in Seq(Lexemes)
        BY <3>1, <3>3, ConcatFacts
      <4> HIDE DEF x
      <4>2. x \o v \in Seq(Lexemes) /\ x \o v # <<>>
        <5>1. x \o v \in Seq(Lexemes) /\ Len(x \o v) = Len(x) + Len(v)
              /\ Len(x) \in Nat /\ Len(v) \in Nat
          BY <2>2, <4>1, ConcatFacts
        <5>2. Len(v) # 0
          <6>1. v \in Seq(Lexemes) /\ v # <<>>
            BY <2>2
          <6> QED  BY <6>1
        <5> QED  BY <5>1, <5>2
      <4> QED  BY <3>2, <4>2 DEF x
    <3>5. ASSUME NEW p, Ready(p), p.super = Innermost(p)
          PROVE  \E q : Reads(p, l[i + 1], q) /\ Listed(p, q, i + 1, g[i + 1])
      <4>1. PICK q : Reads(p, l[i], q) /\ Listed(p, q, i, g[i])
        BY <1>7, <3>5
      <4>2. Closed(g[i])
        BY <1>7
      <4>3. \E r : Reads(p, (l[i] \o Mark(",")) \o v, r) /\ Listed(p, r, i + 1, g[i] \o u)
        BY <2>2, <3>1, <3>5, <4>1, <4>2, ListStep
      <4> QED  BY <2>2, <3>2, <4>3
    <3> QED  BY <2>3, <3>4, <3>5
  <2> QED  BY <2>4, <2>5
<1>8. Good(n)
  <2> HIDE DEF Good
  <2>1. 0 \in T /\ \A i \in T : i + 1 \in T
    BY <1>1, <1>6, <1>7
  <2>2. T = Nat
    <3>1. T \in SUBSET Nat
      OBVIOUS
    <3> HIDE DEF T
    <3> QED  BY <2>1, <3>1, AllNaturals
  <2> QED  BY <1>1, <2>2
<1>9. l[n] = List(parts) /\ g[n] = FlattenSeq(toks)
  BY <1>2, <1>4
<1> QED  BY <1>8, <1>9, Zenon DEF n

-----------------------------------------------------------------------------
(* Objects and arrays *)

\* An object or an array whose bracket has not been closed.
OpenToken(type, n) == [type |-> type, text |-> "", size |-> n, open |-> TRUE]

LEMMA OpenIs ==
  ASSUME NEW c, NEW t, NEW m, NEW o, NEW v
  PROVE  [[type |-> c, text |-> t, size |-> m, open |-> o] EXCEPT !.open = v]
           = [type |-> c, text |-> t, size |-> m, open |-> v]
OBVIOUS

LEMMA OpenTokenFacts ==
  ASSUME NEW k \in Containers, NEW n \in Nat
  PROVE  /\ OpenToken(k, n) \in TokenRecords
         /\ OpenToken(k, n).open /\ OpenToken(k, n).type = k
         /\ Bigger(OpenToken(k, 0), n) = OpenToken(k, n)
         /\ [OpenToken(k, n) EXCEPT !.open = FALSE]
              = [type |-> k, text |-> "", size |-> n, open |-> FALSE]
<1> DEFINE o == TRUE
           c == FALSE
           e == ""
           r(m, v) == [type |-> k, text |-> e, size |-> m, open |-> v]
<1>1. OpenToken(k, n) = r(n, o) /\ OpenToken(k, 0) = r(0, o)
  BY Zenon DEF OpenToken
<1>2. k \in Kinds /\ e \in Texts /\ o \in BOOLEAN
  BY TextsAssumption DEF Kinds, Containers
<1> HIDE DEF o, c, e
<1>3. r(n, o) \in TokenRecords
  BY <1>2 DEF TokenRecords
<1>4. r(n, o).open = o /\ r(n, o).type = k
  OBVIOUS
<1>5. Bigger(r(0, o), n) = r(n, o)
  <2>1. Bigger(r(0, o), n) = r(0 + n, o)
    BY BiggerIs
  <2>2. 0 + n = n
    OBVIOUS
  <2> QED  BY <2>1, <2>2, Zenon
<1>6. [r(n, o) EXCEPT !.open = c] = r(n, c)
  BY OpenIs
<1> HIDE DEF r
<1>7. o = TRUE /\ c = FALSE /\ r(n, c) = [type |-> k, text |-> "", size |-> n, open |-> FALSE]
  BY Zenon DEF o, c, e, r
<1> QED  BY <1>1, <1>3, <1>4, <1>5, <1>6, <1>7, Zenon DEF o

\* A token between others.
LEMMA ThreeParts ==
  ASSUME NEW S, NEW g \in Seq(S), NEW r \in S, NEW t \in Seq(S),
         NEW n, n = Len(g), NEW b, b = Len(t),
         NEW u, u = (g \o <<r>>) \o t
  PROVE  /\ u \in Seq(S) /\ n \in Nat /\ b \in Nat
         /\ Len(u) = n + 1 + b /\ DOMAIN u = 1 .. (n + 1 + b)
         /\ \A i \in 1 .. n : u[i] = g[i]
         /\ u[n + 1] = r
         /\ \A i \in (n + 2) .. (n + 1 + b) : u[i] = t[i - (n + 1)]
<1> DEFINE h == g \o <<r>>
<1>1. h \in Seq(S) /\ Len(h) = n + 1 /\ h[n + 1] = r /\ \A i \in 1 .. n : h[i] = g[i]
  OBVIOUS
<1> HIDE DEF h
<1>2. /\ u \in Seq(S) /\ Len(u) = Len(h) + b /\ DOMAIN u = 1 .. (Len(h) + b)
      /\ \A i \in 1 .. Len(h) : u[i] = h[i]
      /\ \A i \in (Len(h) + 1) .. (Len(h) + b) : u[i] = t[i - Len(h)]
  <2>1. u = h \o t
    BY DEF h
  <2>2. /\ h \o t \in Seq(S) /\ Len(h \o t) = Len(h) + Len(t)
        /\ DOMAIN (h \o t) = 1 .. (Len(h) + Len(t))
        /\ \A i \in 1 .. Len(h) : (h \o t)[i] = h[i]
        /\ \A i \in (Len(h) + 1) .. (Len(h) + Len(t)) : (h \o t)[i] = t[i - Len(h)]
    <3>1. h \in Seq(S) /\ t \in Seq(S)
      BY <1>1
    <3> QED  BY <3>1, ConcatFacts, Zenon
  <2>3. b = Len(t)
    OBVIOUS
  <2> QED  BY <2>1, <2>2, <2>3, Zenon
<1>3. n \in Nat /\ b \in Nat
  OBVIOUS
<1>4. (n + 1) + 1 = n + 2
  BY <1>3
<1>5. /\ DOMAIN u = 1 .. (n + 1 + b)
      /\ \A i \in 1 .. (n + 1) : u[i] = h[i]
      /\ \A i \in (n + 2) .. (n + 1 + b) : u[i] = t[i - (n + 1)]
  BY <1>1, <1>2, <1>4, Zenon
<1>6. n + 1 \in 1 .. (n + 1) /\ \A i \in 1 .. n : i \in 1 .. (n + 1)
  BY <1>3
<1> QED  BY <1>1, <1>2, <1>3, <1>5, <1>6, Zenon

ClosedAt(u, n, w) == [u EXCEPT ![n].open = FALSE] = w

LEMMA CloseAt ==
  ASSUME NEW g \in Seq(TokenRecords), NEW r \in TokenRecords, NEW t \in Seq(TokenRecords),
         NEW c \in TokenRecords, c = [r EXCEPT !.open = FALSE],
         NEW n, n = Len(g), NEW u, u = (g \o <<r>>) \o t
  PROVE  ClosedAt(u, n + 1, (g \o <<c>>) \o t)
<1> DEFINE b == Len(t)
           w == (g \o <<c>>) \o t
<1>1. /\ n \in Nat /\ b \in Nat /\ DOMAIN u = 1 .. (n + 1 + b)
      /\ \A i \in 1 .. n : u[i] = g[i]
      /\ u[n + 1] = r
      /\ \A i \in (n + 2) .. (n + 1 + b) : u[i] = t[i - (n + 1)]
      /\ u \in Seq(TokenRecords)
  <2> HIDE DEF b
  <2>1. b = Len(t)
    BY Zenon DEF b
  <2> QED  BY <2>1, ThreeParts
<1>2. /\ DOMAIN w = 1 .. (n + 1 + b)
      /\ \A i \in 1 .. n : w[i] = g[i]
      /\ w[n + 1] = c
      /\ \A i \in (n + 2) .. (n + 1 + b) : w[i] = t[i - (n + 1)]
      /\ w \in Seq(TokenRecords)
  <2> HIDE DEF b, w
  <2>1. b = Len(t) /\ w = (g \o <<c>>) \o t
    BY Zenon DEF b, w
  <2> QED  BY <2>1, ThreeParts
<1> HIDE DEF w, b
<1>3. [u EXCEPT ![n + 1].open = FALSE]
        = [i \in 1 .. (n + 1 + b) |-> IF i = n + 1 THEN c ELSE u[i]]
  BY <1>1
<1>4. ASSUME NEW i \in 1 .. (n + 1 + b) PROVE (IF i = n + 1 THEN c ELSE u[i]) = w[i]
  <2>1. i \in 1 .. n \/ i = n + 1 \/ i \in (n + 2) .. (n + 1 + b)
    BY <1>1
  <2>2. i \in 1 .. n => i # n + 1
    BY <1>1
  <2>3. i \in (n + 2) .. (n + 1 + b) => i # n + 1
    BY <1>1
  <2> QED  BY <1>1, <1>2, <2>1, <2>2, <2>3
<1>5. w = [i \in 1 .. (n + 1 + b) |-> w[i]]
  BY <1>2
<1>6. [u EXCEPT ![n + 1].open = FALSE] = w
  BY <1>3, <1>4, <1>5
<1> QED  BY <1>6 DEF w, ClosedAt

\* An open token r behind g, and only closed ones behind it.
LastOpen(q, g, r, n) ==
  /\ n \in Nat
  /\ Open(q) = {i \in 1 .. n : g[i].open} \cup {n + 1}
  /\ Innermost(q) = n + 1
  /\ Open(q) \ {n + 1} = {i \in 1 .. n : g[i].open}
  /\ \A i \in DOMAIN q.tok : \/ i \in 1 .. n /\ q.tok[i] = g[i]
                             \/ i = n + 1 /\ q.tok[i] = r
                             \/ ~q.tok[i].open

LEMMA AppendOpen ==
  ASSUME NEW g \in Seq(TokenRecords), NEW r \in TokenRecords, r.open,
         NEW t, Closed(t), NEW q, q.tok = (g \o <<r>>) \o t, NEW n, n = Len(g)
  PROVE  LastOpen(q, g, r, n)
<1> DEFINE b == Len(t)
           u == q.tok
<1>1. t \in Seq(TokenRecords) /\ \A i \in 1 .. b : ~t[i].open
  BY DEF Closed
<1> HIDE DEF b, u
<1>2. /\ u \in Seq(TokenRecords) /\ n \in Nat /\ b \in Nat
      /\ DOMAIN u = 1 .. (n + 1 + b)
      /\ \A i \in 1 .. n : u[i] = g[i]
      /\ u[n + 1] = r
      /\ \A i \in (n + 2) .. (n + 1 + b) : u[i] = t[i - (n + 1)]
  <2>1. u = (g \o <<r>>) \o t /\ b = Len(t)
    BY DEF b, u
  <2> QED  BY <1>1, <2>1, ThreeParts
<1>3. \A i \in (n + 2) .. (n + 1 + b) : ~u[i].open
  <2>1. \A i \in (n + 2) .. (n + 1 + b) : i - (n + 1) \in 1 .. b
    BY <1>2
  <2> QED  BY <1>1, <1>2, <2>1
<1>4. \A i \in 1 .. (n + 1 + b) : i \in 1 .. n \/ i = n + 1 \/ i \in (n + 2) .. (n + 1 + b)
  BY <1>2
<1>5. /\ n + 1 \in 1 .. (n + 1 + b) /\ \A i \in 1 .. n : i \in 1 .. (n + 1 + b) /\ i # n + 1
  BY <1>2
<1>6. Open(q) = {i \in 1 .. n : g[i].open} \cup {n + 1}
  <2>1. Open(q) = {i \in 1 .. (n + 1 + b) : u[i].open}
    BY <1>2 DEF Open, u
  <2>2. \A i : i \in Open(q) <=> i \in {j \in 1 .. n : g[j].open} \cup {n + 1}
    BY <1>2, <1>3, <1>4, <1>5, <2>1
  <2> QED  BY <2>2
<1>7. Innermost(q) = n + 1
  <2> DEFINE w == Open(q)
  <2>1. w \in SUBSET (1 .. (n + 1)) /\ n + 1 \in w /\ w # {}
    BY <1>2, <1>6
  <2> HIDE DEF w
  <2>2. Max(w) \in w /\ Max(w) >= n + 1
    <3>1. n + 1 \in Nat
      BY <1>2
    <3> QED  BY <2>1, <3>1, Greatest
  <2>3. Max(w) = n + 1
    <3>1. Max(w) \in 1 .. (n + 1)
      BY <2>1, <2>2
    <3> QED  BY <1>2, <2>2, <3>1
  <2> QED  BY <2>3 DEF Innermost, w
<1>8. \A i \in DOMAIN u : \/ i \in 1 .. n /\ u[i] = g[i]
                          \/ i = n + 1 /\ u[i] = r
                          \/ ~u[i].open
  <2> TAKE i \in DOMAIN u
  <2>1. i \in 1 .. n \/ i = n + 1 \/ i \in (n + 2) .. (n + 1 + b)
    BY <1>2, <1>4
  <2>2. i \in 1 .. n => u[i] = g[i]
    BY <1>2
  <2>3. i = n + 1 => u[i] = r
    BY <1>2
  <2>4. i \in (n + 2) .. (n + 1 + b) => ~u[i].open
    BY <1>3
  <2> QED  BY <2>1, <2>2, <2>3, <2>4, Zenon
<1>9. Open(q) \ {n + 1} = {i \in 1 .. n : g[i].open}
  BY <1>2, <1>5, <1>6
<1> QED  BY <1>2, <1>6, <1>7, <1>8, <1>9, Zenon DEF u, LastOpen

Brackets == {<<"{", "}", "object">>, <<"[", "]", "array">>}

\* What p becomes at an opening bracket.
Opened(p, type) ==
  [tok |-> Grown(p.tok, p.super, 1) \o <<OpenToken(type, 0)>>, super |-> Len(p.tok) + 1,
   error |-> "none"]

LEMMA DownIs ==
  ASSUME NEW p, Parser(p), p.error = "none", Len(p.tok) < MaxTokens,
         NEW o, NEW c, NEW type, <<o, c, type>> \in Brackets
  PROVE  LET q == Opened(p, type) IN
         /\ Reads(p, Mark(o), q) /\ Ready(q)
         /\ q.super = Len(p.tok) + 1 /\ Innermost(q) = Len(p.tok) + 1
         /\ Len(q.tok) = Len(p.tok) + 1
<1> DEFINE q == Opened(p, type)
           n == Len(p.tok)
           g == Grown(p.tok, p.super, 1)
           r == OpenToken(type, 0)
           x == [c |-> o, text |-> ""]
<1>1. /\ type \in Containers /\ o \in {"{", "["} /\ Opening[o] = type
      /\ Lexeme(p, x) = Down(p, o)
  <2>1. x.c = o
    OBVIOUS
  <2> HIDE DEF x
  <2>2. \/ o = "{" /\ c = "}" /\ type = "object"
        \/ o = "[" /\ c = "]" /\ type = "array"
    BY DEF Brackets
  <2>3. CASE o = "{" /\ c = "}" /\ type = "object"
    BY <2>1, <2>3, LexemeCases, ZenonT(60) DEF Containers
  <2>4. CASE o = "[" /\ c = "]" /\ type = "array"
    BY <2>1, <2>4, LexemeCases, ZenonT(60) DEF Containers
  <2> QED  BY <2>2, <2>3, <2>4, Zenon
<1>2. p.tok \in Seq(TokenRecords) /\ n \in Nat /\ MaxTokens \in Nat
      /\ \A i \in 1 .. n : p.tok[i].open => p.tok[i].type \in Containers
  BY TokensAssumption DEF Parser
<1>3. g \in Seq(TokenRecords) /\ Len(g) = n
      /\ \A i \in 1 .. n : g[i].open = p.tok[i].open /\ g[i].type = p.tok[i].type
  BY <1>2, GrownFacts
<1>4. r \in TokenRecords /\ r.open /\ r.type = type
  BY <1>1, OpenTokenFacts
<1>5. Alloc(p, type, "", TRUE) = [tok |-> g \o <<r>>, super |-> p.super, error |-> "none"]
  <2>1. Alloc(p, type, "", TRUE)
          = IF n = MaxTokens THEN [p EXCEPT !.error = "nomem"]
            ELSE [tok |-> g \o <<[type |-> type, text |-> "", size |-> 0, open |-> TRUE]>>,
                  super |-> p.super, error |-> "none"]
    BY AllocIs, Zenon
  <2>2. n # MaxTokens
    BY <1>2
  <2> QED  BY <2>1, <2>2, Zenon DEF OpenToken
<1>6. Len(g \o <<r>>) = n + 1 /\ g \o <<r>> \in Seq(TokenRecords)
  <2> HIDE DEF g, r
  <2> QED  BY <1>3, <1>4
<1>7. q = [tok |-> g \o <<r>>, super |-> n + 1, error |-> "none"]
  BY DEF Opened
<1> HIDE DEF g, r, q
<1>8. Lexeme(p, x) = q
  <2> DEFINE a == Alloc(p, type, "", TRUE)
  <2>4. a = [tok |-> g \o <<r>>, super |-> p.super, error |-> "none"]
    BY <1>5, Zenon
  <2> HIDE DEF a
  <2>1. a.error = "none" /\ a.tok = g \o <<r>>
    BY <2>4
  <2>2. [a EXCEPT !.super = n + 1] = q
    <3> DEFINE e == "none"
               s == n + 1
               v == g \o <<r>>
    <3> HIDE DEF e, s, v
    <3>1. a = [tok |-> v, super |-> p.super, error |-> e]
      BY <2>4, Zenon DEF e, v
    <3>2. q = [tok |-> v, super |-> s, error |-> e]
      BY <1>7, Zenon DEF e, v, s
    <3>3. [a EXCEPT !.super = s] = q
      BY <3>1, <3>2
    <3> QED  BY <3>3, Zenon DEF s
  <2>3. Down(p, o) = [a EXCEPT !.super = Len(a.tok)]
    BY <1>1, <2>1 DEF Down, a
  <2> QED  BY <1>1, <1>6, <2>1, <2>2, <2>3
<1>9. Reads(p, Mark(o), q)
  BY <1>8, ReadsOne DEF Mark
<1>10. /\ Innermost(q) = n + 1 /\ n + 1 \in Open(q)
       /\ \A i \in DOMAIN q.tok : q.tok[i].open => q.tok[i].type \in Containers
  <2>1. Closed(<<>>)
    BY DEF Closed
  <2>2. q.tok = (g \o <<r>>) \o <<>>
    BY <1>6, <1>7
  <2>3. /\ Open(q) = {i \in 1 .. n : g[i].open} \cup {n + 1} /\ Innermost(q) = n + 1
        /\ \A i \in DOMAIN q.tok : \/ i \in 1 .. n /\ q.tok[i] = g[i]
                                   \/ i = n + 1 /\ q.tok[i] = r
                                   \/ ~q.tok[i].open
    <3> HIDE DEF n
    <3>1. n = Len(g) /\ g \in Seq(TokenRecords)
      BY <1>3
    <3>2. r \in TokenRecords /\ r.open
      BY <1>4
    <3>3. LastOpen(q, g, r, n)
      BY <2>1, <2>2, <3>1, <3>2, AppendOpen, Zenon
    <3> QED  BY <3>3, Zenon DEF LastOpen
  <2> QED  BY <1>1, <1>2, <1>3, <1>4, <2>3
<1>11. Ready(q)
  <2>1. q.tok = g \o <<r>> /\ q.super = n + 1 /\ q.error = "none"
    BY <1>7
  <2>2. Parser(q)
    <3>1. "none" \in Errors /\ n + 1 \in Nat
      BY <1>2 DEF Errors
    <3> QED  BY <1>6, <1>7, <1>10, <2>1, <3>1, MakesParser
  <2>3. Back(q)
    <3>1. n + 1 \in DOMAIN q.tok
      BY <1>2, <1>6, <2>1
    <3> QED  BY <1>10, <2>1, <3>1 DEF Back
  <2>4. Len(q.tok) <= MaxTokens
    BY <1>2, <1>6, <2>1
  <2> QED  BY <1>10, <2>1, <2>2, <2>3, <2>4 DEF Ready
<1>12. q.super = n + 1 /\ Len(q.tok) = n + 1
  BY <1>6, <1>7
<1> QED  BY <1>9, <1>10, <1>11, <1>12 DEF q

\* What p becomes once toks are closed around it.
Passed(p, toks) ==
  [tok |-> Grown(p.tok, p.super, 1) \o toks,
   super |-> IF Open(p) = {} THEN 0 ELSE Innermost(p), error |-> "none"]

LEMMA UpIs ==
  ASSUME NEW p, Parser(p), NEW o, NEW c, NEW type, <<o, c, type>> \in Brackets,
         NEW k \in Nat, NEW t, Closed(t), NEW q, Parser(q), q.error = "none",
         q.tok = (Grown(p.tok, p.super, 1) \o <<OpenToken(type, k)>>) \o t
  PROVE  /\ Reads(q, Mark(c), Passed(p, Token(type, "", k) \o t))
         /\ Closed(Token(type, "", k) \o t) /\ Len(Token(type, "", k) \o t) = 1 + Len(t)
         /\ Open(q) # {}
<1> DEFINE n == Len(p.tok)
           g == Grown(p.tok, p.super, 1)
           r == OpenToken(type, k)
           d == [type |-> type, text |-> "", size |-> k, open |-> FALSE]
           x == [c |-> c, text |-> ""]
           w == (g \o <<d>>) \o t
           super == IF Open(p) = {} THEN 0 ELSE Innermost(p)
           none == "none"
<1>1. type \in Containers /\ type \in Kinds /\ c \in {"}", "]"} /\ Closing[c] = type
      /\ Lexeme(q, x) = Up(q, c)
  <2>1. x.c = c
    OBVIOUS
  <2> HIDE DEF x
  <2>2. \/ o = "{" /\ c = "}" /\ type = "object"
        \/ o = "[" /\ c = "]" /\ type = "array"
    BY DEF Brackets
  <2>3. CASE o = "{" /\ c = "}" /\ type = "object"
    <3>1. Lexeme(q, x) = Up(q, "}") /\ Closing["}"] = "object"
      BY <2>1, <2>3, LexemeCases, Zenon
    <3>2. "object" \in Containers /\ "object" \in Kinds /\ "}" \in {"}", "]"}
      BY DEF Containers, Kinds
    <3> QED  BY <2>3, <3>1, <3>2, Zenon
  <2>4. CASE o = "[" /\ c = "]" /\ type = "array"
    <3>1. Lexeme(q, x) = Up(q, "]") /\ Closing["]"] = "array"
      BY <2>1, <2>4, LexemeCases, Zenon
    <3>2. "array" \in Containers /\ "array" \in Kinds /\ "]" \in {"}", "]"}
      BY DEF Containers, Kinds
    <3> QED  BY <2>4, <3>1, <3>2, Zenon
  <2> QED  BY <2>2, <2>3, <2>4
<1>2. /\ p.tok \in Seq(TokenRecords) /\ n \in Nat /\ t \in Seq(TokenRecords)
      /\ \A i \in 1 .. n : p.tok[i].open => p.tok[i].type \in Containers
  BY DEF Parser, Closed
<1>3. g \in Seq(TokenRecords) /\ Len(g) = n
      /\ \A i \in 1 .. n : g[i].open = p.tok[i].open /\ g[i].type = p.tok[i].type
  BY <1>2, GrownFacts
<1>4. r \in TokenRecords /\ r.open /\ r.type = type /\ [r EXCEPT !.open = FALSE] = d
  <2>1. r \in TokenRecords /\ r.open /\ r.type = type
    BY <1>1, OpenTokenFacts
  <2>2. [r EXCEPT !.open = FALSE] = d
    BY <1>1, OpenTokenFacts, Zenon
  <2> QED  BY <2>1, <2>2
<1>5. /\ Token(type, "", k) = <<d>> /\ Closed(<<d>>) /\ Len(<<d>>) = 1
      /\ d \in TokenRecords
  <2>1. "" \in Texts
    BY TextsAssumption
  <2>2. Token(type, "", k) = <<d>> /\ Closed(Token(type, "", k)) /\ Len(Token(type, "", k)) = 1
    BY <1>1, <2>1, TokenFacts, Zenon
  <2> HIDE DEF d
  <2>3. <<d>> \in Seq(TokenRecords)
    BY <2>2 DEF Closed
  <2>4. d \in TokenRecords
    <3>1. 1 \in 1 .. Len(<<d>>) /\ <<d>>[1] = d
      OBVIOUS
    <3>2. \A i \in 1 .. Len(<<d>>) : <<d>>[i] \in TokenRecords
      BY <2>3
    <3> QED  BY <3>1, <3>2
  <2> QED  BY <2>2, <2>4
<1> HIDE DEF g, r, d, x, n
<1>6. q.tok = (g \o <<r>>) \o t
  BY Zenon DEF g, r
<1>7. LastOpen(q, g, r, n)
  <2>1. n = Len(g)
    BY <1>3
  <2> QED  BY <1>2, <1>3, <1>4, <1>6, <2>1, AppendOpen, Zenon
<1>8. Open(q) # {} /\ Innermost(q) = n + 1 /\ Open(q) \ {n + 1} = Open(p)
  <2>1. Open(p) = {i \in 1 .. n : g[i].open}
    <3>1. Open(p) = {i \in 1 .. n : p.tok[i].open}
      BY <1>2 DEF Open, n
    <3>2. \A i : i \in Open(p) <=> i \in {j \in 1 .. n : g[j].open}
      BY <1>3, <3>1
    <3> QED  BY <3>2
  <2>2. Open(q) = {i \in 1 .. n : g[i].open} \cup {n + 1} /\ Innermost(q) = n + 1
        /\ Open(q) \ {n + 1} = {i \in 1 .. n : g[i].open}
    BY <1>7, Zenon DEF LastOpen
  <2> QED  BY <2>1, <2>2
<1>9. q.tok[n + 1] = r
  <2>1. n = Len(g)
    BY <1>3
  <2> QED  BY <1>2, <1>3, <1>4, <1>6, <2>1, ThreeParts
<1>10. super = IF Open(q) = {n + 1} THEN 0 ELSE Max(Open(q) \ {n + 1})
  <2>1. Open(q) = {n + 1} <=> Open(p) = {}
    <3>1. n + 1 \in Open(q)
      BY <1>7, Zenon DEF LastOpen
    <3> QED  BY <1>8, <3>1
  <2> QED  BY <1>8, <2>1, Zenon DEF Innermost
<1>11. Lexeme(q, x) = [tok |-> [q.tok EXCEPT ![n + 1].open = FALSE], super |-> super,
                       error |-> q.error]
  <2>1. Max(Open(q)) = n + 1
    BY <1>8 DEF Innermost
  <2>2. ~(Open(q) = {} \/ q.tok[Max(Open(q))].type # Closing[c])
    BY <1>1, <1>4, <1>8, <1>9, <2>1
  <2> HIDE DEF super
  <2>3. Up(q, c) = [tok |-> [q.tok EXCEPT ![n + 1].open = FALSE],
                    super |-> IF Open(q) = {n + 1} THEN 0 ELSE Max(Open(q) \ {n + 1}),
                    error |-> q.error]
    BY <2>1, <2>2, Zenon DEF Up
  <2> QED  BY <1>1, <1>10, <2>3, Zenon
<1>12. [q.tok EXCEPT ![n + 1].open = FALSE] = w
  <2>1. g \in Seq(TokenRecords) /\ r \in TokenRecords /\ t \in Seq(TokenRecords)
        /\ d \in TokenRecords /\ d = [r EXCEPT !.open = FALSE] /\ n = Len(g)
    BY <1>2, <1>3, <1>4, <1>5, Zenon
  <2>2. ClosedAt(q.tok, n + 1, (g \o <<d>>) \o t)
    BY <1>6, <2>1, CloseAt, Zenon
  <2> QED  BY <2>2, Zenon DEF ClosedAt
<1> HIDE DEF super, none
<1>13. Lexeme(q, x) = [tok |-> w, super |-> super, error |-> none]
  <2>1. q.error = none
    BY Zenon DEF none
  <2> QED  BY <1>11, <1>12, <2>1, Zenon
<1>14. w = g \o (<<d>> \o t)
  <2>1. <<d>> \in Seq(TokenRecords)
    BY <1>5 DEF Closed
  <2> QED  BY <1>2, <1>3, <2>1, ConcatAssociative, SMTT(60)
<1>15. Lexeme(q, x) = Passed(p, Token(type, "", k) \o t)
  BY <1>5, <1>13, <1>14, Zenon DEF Passed, super, none, g
<1>16. Reads(q, Mark(c), Passed(p, Token(type, "", k) \o t))
  BY <1>15, ReadsOne DEF Mark, x
<1>17. /\ Closed(Token(type, "", k) \o t)
       /\ Len(Token(type, "", k) \o t) = 1 + Len(t)
  BY <1>5, ClosedJoin
<1> QED  BY <1>8, <1>16, <1>17

LEMMA FullReads ==
  ASSUME NEW p, Parser(p), p.error = "none", Len(p.tok) = MaxTokens,
         NEW o, NEW c, NEW type, <<o, c, type>> \in Brackets
  PROVE  \E q : Reads(p, Mark(o), q) /\ q.error = "nomem"
<1> DEFINE x == [c |-> o, text |-> ""]
           q == Lexeme(p, x)
           a == Alloc(p, type, "", TRUE)
<1>1. Lexeme(p, x) = Down(p, o) /\ Opening[o] = type
  <2>1. x.c = o
    OBVIOUS
  <2> HIDE DEF x
  <2>2. \/ o = "{" /\ c = "}" /\ type = "object"
        \/ o = "[" /\ c = "]" /\ type = "array"
    BY DEF Brackets
  <2>3. CASE o = "{" /\ c = "}" /\ type = "object"
    BY <2>1, <2>3, LexemeCases, ZenonT(60)
  <2>4. CASE o = "[" /\ c = "]" /\ type = "array"
    BY <2>1, <2>4, LexemeCases, ZenonT(60)
  <2> QED  BY <2>2, <2>3, <2>4
<1>2. a = [p EXCEPT !.error = "nomem"]
  BY AllocIs, Zenon
<1>3. a.error = "nomem"
  BY <1>2, ParserFields
<1> HIDE DEF a
<1>4. Down(p, o) = a
  BY <1>1, <1>3, Zenon DEF Down, a
<1>5. Reads(p, Mark(o), q)
  BY ReadsOne DEF Mark
<1> QED  BY <1>1, <1>3, <1>4, <1>5

\* The parts, each of which becomes one of toks.
TakesEach(parts, toks) ==
  /\ parts \in Seq(Seq(Lexemes)) /\ toks \in Seq(Seq(TokenRecords))
  /\ Len(parts) = Len(toks)
  /\ \A i \in 1 .. Len(parts) : Takes(parts[i], toks[i])

\* A list in brackets, as a whole and without the closing one, and its tokens.
Unclosed(o, parts) == Mark(o) \o List(parts)
Enclosed(o, c, parts) == Unclosed(o, parts) \o Mark(c)
EnclosedTokens(type, toks) == Token(type, "", Len(toks)) \o FlattenSeq(toks)

\* o and c are the brackets of such a token.
Bracketing(o, c, type) == <<o, c, type>> \in Brackets

EnclosedFacts(o, c, type, parts, toks) ==
  /\ Mark(o) \in Seq(Lexemes) /\ Mark(c) \in Seq(Lexemes)
  /\ List(parts) \in Seq(Lexemes)
  /\ Unclosed(o, parts) \in Seq(Lexemes) /\ Enclosed(o, c, parts) \in Seq(Lexemes)
  /\ Enclosed(o, c, parts) # <<>>
  /\ Len(Enclosed(o, c, parts)) = Len(Unclosed(o, parts)) + 1
  /\ Len(List(parts)) \in Nat /\ Len(Mark(c)) \in Nat
  /\ Closed(EnclosedTokens(type, toks)) /\ Closed(FlattenSeq(toks))
  /\ Len(EnclosedTokens(type, toks)) = 1 + Len(FlattenSeq(toks))
  /\ Len(FlattenSeq(toks)) \in Nat
  /\ Len(toks) \in Nat /\ type \in Containers

LEMMA EnclosedAre ==
  ASSUME NEW parts, NEW toks, TakesEach(parts, toks),
         NEW o, NEW c, NEW type, Bracketing(o, c, type)
  PROVE  EnclosedFacts(o, c, type, parts, toks)
<1> DEFINE k == Len(toks)
           l == List(parts)
           t == FlattenSeq(toks)
           one == Token(type, "", k)
           part == Unclosed(o, parts)
           whole == part \o Mark(c)
           all == one \o t
<1>1. /\ o \in Marks /\ c \in Marks /\ type \in Containers /\ type \in Kinds
  <2>1. \/ o = "{" /\ c = "}" /\ type = "object"
        \/ o = "[" /\ c = "]" /\ type = "array"
    BY DEF Bracketing, Brackets
  <2>2. \A s \in {"{", "}", "[", "]"} : s \in Marks
    BY DEF Marks
  <2>3. \A s \in {"object", "array"} : s \in Containers /\ s \in Kinds
    BY DEF Containers, Kinds
  <2> QED  BY <2>1, <2>2, <2>3
<1>2. l \in Seq(Lexemes) /\ Closed(t)
  BY ListReads, Zenon DEF TakesEach
<1>3. k \in Nat /\ "" \in Texts
  <2>1. toks \in Seq(Seq(TokenRecords))
    BY DEF TakesEach
  <2>2. k \in Nat
    BY <2>1
  <2> HIDE DEF k
  <2> QED  BY <2>2, TextsAssumption
<1>4. /\ Mark(o) \in Seq(Lexemes) /\ Mark(c) \in Seq(Lexemes) /\ Len(Mark(c)) = 1
  BY <1>1, MarkFacts
<1>5. Closed(one) /\ Len(one) = 1
  BY <1>1, <1>3, TokenFacts, Zenon
<1> HIDE DEF k, l, t, one
<1>6. Closed(all) /\ Len(all) = Len(one) + Len(t) /\ Len(t) \in Nat
  BY <1>2, <1>5, ClosedJoin
<1>7. part \in Seq(Lexemes)
  BY <1>2, <1>4, ConcatFacts DEF l, Unclosed
<1> HIDE DEF part, all
<1>8. /\ whole \in Seq(Lexemes) /\ Len(part) \in Nat
      /\ Len(whole) = Len(part) + Len(Mark(c))
  <2>1. part \in Seq(Lexemes) /\ Mark(c) \in Seq(Lexemes)
    BY <1>4, <1>7
  <2> QED  BY <2>1, ConcatFacts, Zenon
<1>9. whole # <<>>
  <2> DEFINE n == Len(part)
             m == Len(whole)
  <2>1. n \in Nat /\ m = n + 1
    BY <1>4, <1>8, Zenon
  <2> HIDE DEF n, m, whole
  <2>2. m # 0 /\ Len(<<>>) = 0
    BY <2>1
  <2> QED  BY <2>2, Zenon DEF m
<1>10. Len(l) \in Nat /\ Len(Mark(c)) \in Nat
  <2>1. Len(l) \in Nat
    BY <1>2
  <2> QED  BY <1>4, <2>1
<1> HIDE DEF whole
<1>11. Enclosed(o, c, parts) = whole /\ EnclosedTokens(type, toks) = all
  BY Zenon DEF Enclosed, EnclosedTokens, whole, part, all, one, t, k
<1> QED  BY <1>1, <1>2, <1>3, <1>4, <1>5, <1>6, <1>7, <1>8, <1>9, <1>10, <1>11, Zenon
            DEF EnclosedFacts, l, t, k, part

\* From p to q, all was added and is closed, or did not fit.
Enclosing(p, q, all) ==
  IF Len(p.tok) + Len(all) <= MaxTokens THEN q = Passed(p, all) ELSE q.error = "nomem"

\* Without room for the bracket's token.
LEMMA EnclosedFull ==
  ASSUME NEW parts, NEW toks, TakesEach(parts, toks),
         NEW o, NEW c, NEW type, Bracketing(o, c, type),
         NEW p, Parser(p), p.error = "none", Len(p.tok) = MaxTokens
  PROVE  \E q : /\ Reads(p, Enclosed(o, c, parts), q) /\ Reads(p, Unclosed(o, parts), q)
                /\ Enclosing(p, q, EnclosedTokens(type, toks)) /\ q.error = "nomem"
<1>1. EnclosedFacts(o, c, type, parts, toks)
  BY EnclosedAre
<1>2. PICK q : Reads(p, Mark(o), q) /\ q.error = "nomem"
  BY FullReads DEF Bracketing
<1>3. Reads(q, List(parts), q) /\ Reads(q, Mark(c), q)
  <2>1. q.error # "none" /\ Len(List(parts)) \in Nat /\ Len(Mark(c)) \in Nat
    BY <1>1, <1>2 DEF EnclosedFacts
  <2> QED  BY <2>1, ReadsFailed
<1>4. Reads(p, Unclosed(o, parts), q)
  <2>1. Mark(o) \in Seq(Lexemes) /\ List(parts) \in Seq(Lexemes)
    BY <1>1 DEF EnclosedFacts
  <2> QED  BY <1>2, <1>3, <2>1, ReadsJoin, Zenon DEF Unclosed
<1>5. Reads(p, Enclosed(o, c, parts), q)
  <2>1. Mark(c) \in Seq(Lexemes) /\ Unclosed(o, parts) \in Seq(Lexemes)
    BY <1>1 DEF EnclosedFacts
  <2> QED  BY <1>3, <1>4, <2>1, ReadsJoin, Zenon DEF Enclosed
<1>6. ~(Len(p.tok) + Len(EnclosedTokens(type, toks)) <= MaxTokens)
  <2> DEFINE n == Len(p.tok)
             a == Len(EnclosedTokens(type, toks))
             b == Len(FlattenSeq(toks))
  <2>1. n = MaxTokens /\ a = 1 + b /\ b \in Nat
    BY <1>1 DEF EnclosedFacts
  <2> HIDE DEF n, a, b
  <2>2. ~(n + a <= MaxTokens)
    BY <2>1, TokensAssumption
  <2> QED  BY <2>2 DEF n, a
<1>7. Enclosing(p, q, EnclosedTokens(type, toks))
  BY <1>2, <1>6, Zenon DEF Enclosing
<1> QED  BY <1>2, <1>4, <1>5, <1>7

\* With room for it.
LEMMA EnclosedListed ==
  ASSUME NEW parts, NEW toks, TakesEach(parts, toks),
         NEW o, NEW c, NEW type, Bracketing(o, c, type),
         NEW p, Parser(p), p.error = "none", Len(p.tok) < MaxTokens
  PROVE  \E q : /\ Reads(p, Unclosed(o, parts), q)
                /\ Listed(Opened(p, type), q, Len(toks), FlattenSeq(toks))
                /\ Len(Opened(p, type).tok) = Len(p.tok) + 1 /\ Len(p.tok) \in Nat
                /\ Opened(p, type).super = Len(p.tok) + 1
<1> DEFINE q1 == Opened(p, type)
<1>1. EnclosedFacts(o, c, type, parts, toks)
  BY EnclosedAre
<1>2. /\ Reads(p, Mark(o), q1) /\ Ready(q1) /\ Innermost(q1) = q1.super
      /\ q1.super = Len(p.tok) + 1 /\ Len(q1.tok) = Len(p.tok) + 1
  BY DownIs DEF Bracketing
<1> HIDE DEF q1
<1>3. /\ \A r : Ready(r) /\ r.super = Innermost(r) =>
           \E q : Reads(r, List(parts), q) /\ Listed(r, q, Len(toks), FlattenSeq(toks))
  <2>1. Len(parts) = Len(toks)
    BY DEF TakesEach
  <2> QED  BY <2>1, ListReads, Zenon DEF TakesEach
<1>4. PICK q : Reads(q1, List(parts), q) /\ Listed(q1, q, Len(toks), FlattenSeq(toks))
  BY <1>2, <1>3, Zenon
<1>5. Reads(p, Unclosed(o, parts), q)
  <2>1. Mark(o) \in Seq(Lexemes) /\ List(parts) \in Seq(Lexemes)
    BY <1>1 DEF EnclosedFacts
  <2> QED  BY <1>2, <1>4, <2>1, ReadsJoin, Zenon DEF Unclosed
<1>6. Len(p.tok) \in Nat
  <2>1. p.tok \in Seq(TokenRecords)
    BY DEF Parser
  <2> QED  BY <2>1
<1> QED  BY <1>2, <1>4, <1>5, <1>6 DEF q1

\* The text may end here, but a bracket is open.
Unfinished(q) == Parser(q) /\ q.error = "none" /\ Open(q) # {}

EnclosedReads(p, o, c, type, parts, toks) ==
  /\ \E q : /\ Reads(p, Enclosed(o, c, parts), q)
            /\ Enclosing(p, q, EnclosedTokens(type, toks))
  /\ \E q : Reads(p, Unclosed(o, parts), q) /\ (q.error # "none" \/ Unfinished(q))

LEMMA EnclosedRead ==
  ASSUME NEW parts, NEW toks, TakesEach(parts, toks),
         NEW o, NEW c, NEW type, Bracketing(o, c, type),
         NEW p, Parser(p), p.error = "none", Len(p.tok) <= MaxTokens
  PROVE  EnclosedReads(p, o, c, type, parts, toks)
<1> DEFINE all == EnclosedTokens(type, toks)
           n == Len(p.tok)
           a == Len(all)
           t == FlattenSeq(toks)
           b == Len(t)
           k == Len(toks)
<1>1. EnclosedFacts(o, c, type, parts, toks)
  BY EnclosedAre
<1>2. n \in Nat /\ n <= MaxTokens
  <2>1. p.tok \in Seq(TokenRecords)
    BY DEF Parser
  <2> QED  BY <2>1
<1>3. CASE n = MaxTokens
  <2>1. PICK q : /\ Reads(p, Enclosed(o, c, parts), q) /\ Reads(p, Unclosed(o, parts), q)
                 /\ Enclosing(p, q, EnclosedTokens(type, toks)) /\ q.error = "nomem"
    BY <1>3, EnclosedFull, Zenon
  <2>2. q.error # "none"
    BY <2>1
  <2> QED  BY <2>1, <2>2, Zenon DEF EnclosedReads
<1>4. CASE n < MaxTokens
  <2> DEFINE q1 == Opened(p, type)
             g == Grown(p.tok, p.super, 1)
  <2>1. PICK q : /\ Reads(p, Unclosed(o, parts), q) /\ Listed(q1, q, k, t)
                 /\ Len(q1.tok) = n + 1 /\ q1.super = n + 1
    BY <1>4, EnclosedListed, Zenon
  <2> HIDE DEF q1
  <2>2. Len(q1.tok) + b = n + a
    <3> DEFINE m == Len(q1.tok)
    <3>1. a = 1 + b /\ b \in Nat
      BY <1>1 DEF EnclosedFacts
    <3>2. m = n + 1
      BY <2>1
    <3> HIDE DEF n, a, b, m
    <3>3. m + b = n + a
      BY <1>2, <3>1, <3>2
    <3> QED  BY <3>3 DEF m
  <2>3. CASE n + a <= MaxTokens
    <3>1. q.tok = Grown(q1.tok, q1.super, k) \o t /\ q.error = "none" /\ Parser(q)
      <4>1. Len(q1.tok) + Len(t) <= MaxTokens
        BY <2>2, <2>3, Zenon
      <4> QED  BY <2>1, <4>1, Zenon DEF Listed
    <3>2. Grown(q1.tok, q1.super, k) = g \o <<OpenToken(type, k)>>
      <4>1. g \in Seq(TokenRecords) /\ Len(g) = n
        <5>1. p.tok \in Seq(TokenRecords) /\ 1 \in Nat
          BY DEF Parser
        <5> QED  BY <5>1, GrownFacts, ZenonT(60)
      <4>2. k \in Nat /\ type \in Containers
        BY <1>1 DEF EnclosedFacts
      <4>3. /\ OpenToken(type, 0) \in TokenRecords
            /\ Bigger(OpenToken(type, 0), k) = OpenToken(type, k)
        <5>1. 0 \in Nat
          OBVIOUS
        <5> QED  BY <4>2, <5>1, OpenTokenFacts, Zenon
      <4>4. q1.tok = g \o <<OpenToken(type, 0)>>
        BY DEF Opened, q1
      <4>5. Grown(g \o <<OpenToken(type, 0)>>, Len(g) + 1, k)
              = g \o <<Bigger(OpenToken(type, 0), k)>>
        BY <4>1, <4>2, <4>3, GrownLast, Zenon
      <4> QED  BY <2>1, <4>1, <4>3, <4>4, <4>5, Zenon
    <3>3. q.tok = (g \o <<OpenToken(type, k)>>) \o t
      BY <3>1, <3>2, Zenon
    <3>4. Reads(q, Mark(c), Passed(p, all)) /\ Open(q) # {}
      <4>1. k \in Nat /\ Closed(t)
        BY <1>1 DEF EnclosedFacts
      <4>2. /\ Reads(q, Mark(c), Passed(p, Token(type, "", k) \o t))
            /\ Open(q) # {}
        <5>1. <<o, c, type>> \in Brackets
          BY DEF Bracketing
        <5> HIDE DEF k, t
        <5>2. Parser(q) /\ q.error = "none" /\ k \in Nat /\ Closed(t)
          BY <3>1, <4>1
        <5> QED  BY <3>3, <5>1, <5>2, UpIs, Zenon
      <4> QED  BY <4>2, Zenon DEF EnclosedTokens
    <3>5. Reads(p, Enclosed(o, c, parts), Passed(p, all))
      <4>1. Mark(c) \in Seq(Lexemes) /\ Unclosed(o, parts) \in Seq(Lexemes)
        BY <1>1 DEF EnclosedFacts
      <4> QED  BY <2>1, <3>4, <4>1, ReadsJoin, Zenon DEF Enclosed
    <3>6. Enclosing(p, Passed(p, all), all)
      BY <2>3, Zenon DEF Enclosing
    <3>7. Unfinished(q)
      BY <3>1, <3>4, Zenon DEF Unfinished
    <3> QED  BY <2>1, <3>5, <3>6, <3>7, Zenon DEF EnclosedReads
  <2>4. CASE ~(n + a <= MaxTokens)
    <3>1. q.error = "nomem"
      <4>1. ~(Len(q1.tok) + Len(t) <= MaxTokens)
        BY <2>2, <2>4, Zenon
      <4> QED  BY <2>1, <4>1, Zenon DEF Listed
    <3>2. Reads(q, Mark(c), q) /\ q.error # "none"
      <4>1. q.error # "none" /\ Len(Mark(c)) \in Nat
        BY <1>1, <3>1 DEF EnclosedFacts
      <4> QED  BY <4>1, ReadsFailed
    <3>3. Reads(p, Enclosed(o, c, parts), q)
      <4>1. Mark(c) \in Seq(Lexemes) /\ Unclosed(o, parts) \in Seq(Lexemes)
        BY <1>1 DEF EnclosedFacts
      <4> QED  BY <2>1, <3>2, <4>1, ReadsJoin, Zenon DEF Enclosed
    <3>4. Enclosing(p, q, all)
      BY <2>4, <3>1, Zenon DEF Enclosing
    <3> QED  BY <2>1, <3>2, <3>3, <3>4, Zenon DEF EnclosedReads
  <2> QED  BY <2>3, <2>4
<1>5. n = MaxTokens \/ n < MaxTokens
  <2> HIDE DEF n
  <2> QED  BY <1>2, TokensAssumption
<1> QED  BY <1>3, <1>4, <1>5

LEMMA PassedYields ==
  ASSUME NEW p, Ready(p), NEW all, Closed(all)
  PROVE  LET q == Passed(p, all) IN
         /\ q.tok = Grown(p.tok, p.super, 1) \o all
         /\ q.error = "none" /\ Parser(q) /\ Back(q)
<1> DEFINE q == Passed(p, all)
           v == Grown(p.tok, p.super, 1) \o all
           s == Innermost(p)
<1>1. Parser(p) /\ Open(p) # {} /\ p.tok \in Seq(TokenRecords)
  BY DEF Ready, Parser
<1>2. s \in Open(p) /\ s \in 1 .. Len(p.tok) /\ s \in Nat
  <2>1. s \in Open(p)
    BY <1>1, InnermostIs
  <2>2. s \in DOMAIN p.tok
    BY <2>1 DEF Open
  <2> HIDE DEF s
  <2> QED  BY <1>1, <2>1, <2>2
<1>3. q = [tok |-> v, super |-> s, error |-> "none"]
  BY <1>1, Zenon DEF Passed
<1> HIDE DEF q
<1>4. q.tok = v /\ q.super = s /\ q.error = "none"
  BY <1>3
<1>5. Extends(p, q, p.super, 1, all)
  BY <1>1, <1>4, OpenSame
<1>6. /\ Innermost(q) = s /\ v \in Seq(TokenRecords)
      /\ \A i \in DOMAIN v : v[i].open => v[i].type \in Containers
      /\ s \in DOMAIN q.tok
  <2> HIDE DEF s, v
  <2> QED  BY <1>2, <1>4, <1>5, Zenon DEF Extends, s
<1> HIDE DEF v, s
<1>7. Parser(q)
  <2>1. "none" \in Errors
    BY DEF Errors
  <2> QED  BY <1>2, <1>3, <1>6, <2>1, MakesParser, Zenon
<1>8. Back(q)
  BY <1>4, <1>6, Zenon DEF Back
<1> QED  BY <1>4, <1>7, <1>8, Zenon DEF q, v

LEMMA TakesEnclosed ==
  ASSUME NEW parts, NEW toks, TakesEach(parts, toks),
         NEW o, NEW c, NEW type, Bracketing(o, c, type)
  PROVE  Takes(Enclosed(o, c, parts), EnclosedTokens(type, toks))
<1> DEFINE v == Enclosed(o, c, parts)
           all == EnclosedTokens(type, toks)
<1>1. v \in Seq(Lexemes) /\ v # <<>> /\ Closed(all)
  BY EnclosedAre DEF EnclosedFacts
<1> HIDE DEF v, all
<1>2. ASSUME NEW p, Ready(p) PROVE \E q : Reads(p, v, q) /\ Yields(p, q, all)
  <2>1. Parser(p) /\ p.error = "none" /\ Len(p.tok) <= MaxTokens
    BY <1>2 DEF Ready
  <2>2. PICK q : Reads(p, v, q) /\ Enclosing(p, q, all)
    <3>1. EnclosedReads(p, o, c, type, parts, toks)
      BY <2>1, EnclosedRead, Zenon
    <3> QED  BY <3>1, Zenon DEF EnclosedReads, v, all
  <2>3. CASE Len(p.tok) + Len(all) <= MaxTokens
    <3>1. q = Passed(p, all)
      BY <2>2, <2>3, Zenon DEF Enclosing
    <3>2. /\ q.tok = Grown(p.tok, p.super, 1) \o all
          /\ q.error = "none" /\ Parser(q) /\ Back(q)
      BY <1>1, <1>2, <3>1, PassedYields, Zenon
    <3> QED  BY <2>2, <2>3, <3>2, Zenon DEF Yields
  <2>4. CASE ~(Len(p.tok) + Len(all) <= MaxTokens)
    <3>1. q.error = "nomem"
      BY <2>2, <2>4, Zenon DEF Enclosing
    <3> QED  BY <2>2, <2>4, <3>1, Zenon DEF Yields
  <2> QED  BY <2>3, <2>4
<1> QED  BY <1>1, <1>2, Zenon DEF Takes, v, all

-----------------------------------------------------------------------------
(* Files *)

LEMMA TakesPlain ==
  ASSUME NEW t \in Texts
  PROVE  Takes(Plain(t), PlainToken(t))
<1> DEFINE k == IF t \in DOMAIN Number THEN "primitive" ELSE "string"
<1>1. k \in {"string", "primitive"}
  OBVIOUS
<1> HIDE DEF k
<1>2. Plain(t) = <<[c |-> k, text |-> t]>>
  BY Zenon DEF Plain, k
<1>3. Plain(t)[1].c = k
  BY <1>2
<1>4. PlainToken(t) = Token(k, t, 0)
  BY <1>3, Zenon DEF PlainToken
<1>5. Takes(<<[c |-> k, text |-> t]>>, Token(k, t, 0))
  BY <1>1, TakesOne, Zenon
<1> QED  BY <1>2, <1>4, <1>5

\* A function on the places of s.
Along(s, g) == DOMAIN g = DOMAIN s /\ g = [i \in DOMAIN s |-> g[i]]

LEMMA AlongSeq ==
  ASSUME NEW S, NEW s, NEW n, n \in Nat, DOMAIN s = 1 .. n, NEW g, Along(s, g),
         \A i \in 1 .. n : g[i] \in S
  PROVE  g \in Seq(S) /\ Len(g) = n
BY DEF Along

\* Parts given one by one.
LEMMA Given ==
  ASSUME NEW s, Len(s) \in Nat, DOMAIN s = 1 .. Len(s),
         NEW parts, Along(s, parts), NEW toks, Along(s, toks),
         \A i \in DOMAIN s : Takes(parts[i], toks[i])
  PROVE  TakesEach(parts, toks) /\ Len(toks) = Len(s)
<1> DEFINE n == Len(s)
<1>1. n \in Nat /\ DOMAIN s = 1 .. n
  OBVIOUS
<1> HIDE DEF n
<1>2. \A i \in 1 .. n : parts[i] \in Seq(Lexemes) /\ toks[i] \in Seq(TokenRecords)
  BY <1>1 DEF Takes, Closed
<1>3. parts \in Seq(Seq(Lexemes)) /\ Len(parts) = n
  <2>1. \A i \in 1 .. n : parts[i] \in Seq(Lexemes)
    BY <1>2
  <2> QED  BY <1>1, <2>1, AlongSeq, Zenon
<1>4. toks \in Seq(Seq(TokenRecords)) /\ Len(toks) = n
  <2>1. \A i \in 1 .. n : toks[i] \in Seq(TokenRecords)
    BY <1>2
  <2> QED  BY <1>1, <2>1, AlongSeq, Zenon
<1>5. \A i \in 1 .. Len(parts) : Takes(parts[i], toks[i])
  BY <1>1, <1>3
<1> QED  BY <1>3, <1>4, <1>5, Zenon DEF TakesEach, n

\* A field and a member of a file, as text and as tokens.
FieldPair(x) == Pair(x.name, Plain(x.text))
FieldTokens(x) == Token("string", x.name, 1) \o PlainToken(x.text)

LEMMA TakesObject ==
  ASSUME NEW fields \in Seq(Fields)
  PROVE  Takes(Object(fields), ObjectTokens(fields))
<1> DEFINE parts == [i \in DOMAIN fields |-> FieldPair(fields[i])]
           toks == [i \in DOMAIN fields |-> FieldTokens(fields[i])]
<1>1. Len(fields) \in Nat /\ DOMAIN fields = 1 .. Len(fields)
  OBVIOUS
<1>2. ASSUME NEW i \in DOMAIN fields PROVE Takes(parts[i], toks[i])
  <2>1. fields[i].name \in Texts /\ fields[i].text \in Texts
    <3>1. fields[i] \in Fields
      OBVIOUS
    <3> QED  BY <3>1 DEF Fields
  <2>2. Takes(FieldPair(fields[i]), FieldTokens(fields[i]))
    BY <2>1, TakesPlain, TakesPair, Zenon DEF FieldPair, FieldTokens
  <2> QED  BY <2>2
<1>3. TakesEach(parts, toks) /\ Len(toks) = Len(fields)
  <2>1. Along(fields, parts) /\ Along(fields, toks)
    BY DEF Along
  <2> QED  BY <1>1, <1>2, <2>1, Given
<1>4. Bracketing("{", "}", "object")
  BY DEF Bracketing, Brackets
<1>5. Takes(Enclosed("{", "}", parts), EnclosedTokens("object", toks))
  BY <1>3, <1>4, TakesEnclosed, Zenon
<1>6. Object(fields) = Enclosed("{", "}", parts)
  BY Zenon DEF Object, Enclosed, Unclosed, FieldPair
<1>7. ObjectTokens(fields) = EnclosedTokens("object", toks)
  <2>1. ObjectTokens(fields) = Token("object", "", Len(fields)) \o FlattenSeq(toks)
    BY Zenon DEF ObjectTokens, FieldTokens
  <2> HIDE DEF toks
  <2> QED  BY <1>3, <2>1, Zenon DEF EnclosedTokens
<1> QED  BY <1>5, <1>6, <1>7, Zenon

\* What Value and MemberTokens are, member by member.
LEMMA TakesValue ==
  ASSUME NEW f, IsFile(f), NEW m \in Members
  PROVE  Takes(Pair(m, Value(f, m)), MemberTokens(f, m))
<1>1. /\ f.version \in Texts /\ f.comment \in Texts
      /\ f.gateway \in Seq(Fields) /\ f.site \in Seq(Fields)
      /\ f.devices \in Seq(Seq(Fields)) /\ m \in Texts
  BY TextsAssumption DEF IsFile
<1> SUFFICES \E toks : /\ Takes(Value(f, m), toks)
                       /\ MemberTokens(f, m) = Token("string", m, 1) \o toks
  BY <1>1, TakesPair
<1>2. CASE m = "version"
  <2>1. /\ Value(f, m) = Plain(f.version)
        /\ MemberTokens(f, m) = Token("string", m, 1) \o PlainToken(f.version)
    BY <1>2 DEF Value, MemberTokens
  <2> QED  BY <1>1, <2>1, TakesPlain
<1>3. CASE m = "comment"
  <2>1. /\ Value(f, m) = Plain(f.comment)
        /\ MemberTokens(f, m) = Token("string", m, 1) \o PlainToken(f.comment)
    BY <1>3 DEF Value, MemberTokens
  <2> QED  BY <1>1, <2>1, TakesPlain
<1>4. CASE m = "gateway"
  <2>1. Value(f, m) = Object(f.gateway)
        /\ MemberTokens(f, m) = Token("string", m, 1) \o ObjectTokens(f.gateway)
    BY <1>4 DEF Value, MemberTokens
  <2> QED  BY <1>1, <2>1, TakesObject
<1>5. CASE m = "site"
  <2>1. Value(f, m) = Object(f.site)
        /\ MemberTokens(f, m) = Token("string", m, 1) \o ObjectTokens(f.site)
    BY <1>5 DEF Value, MemberTokens
  <2> QED  BY <1>1, <2>1, TakesObject
<1>6. CASE m = "devices"
  <2> DEFINE s == f.devices
             parts == [i \in DOMAIN s |-> Object(s[i])]
             toks == [i \in DOMAIN s |-> ObjectTokens(s[i])]
             all == Token("array", "", Len(s)) \o FlattenSeq(toks)
  <2>1. /\ Value(f, m) = Mark("[") \o List(parts) \o Mark("]")
        /\ MemberTokens(f, m) = Token("string", m, 1) \o all
    BY <1>6 DEF Value, MemberTokens
  <2>2. Len(s) \in Nat /\ DOMAIN s = 1 .. Len(s) /\ \A i \in DOMAIN s : s[i] \in Seq(Fields)
    BY <1>1
  <2> HIDE DEF s
  <2>3. ASSUME NEW i \in DOMAIN s PROVE Takes(parts[i], toks[i])
    BY <2>2, TakesObject
  <2>4. TakesEach(parts, toks) /\ Len(toks) = Len(s)
    <3>1. Along(s, parts) /\ Along(s, toks)
      BY DEF Along
    <3> QED  BY <2>2, <2>3, <3>1, Given
  <2>5. Bracketing("[", "]", "array")
    BY DEF Bracketing, Brackets
  <2> HIDE DEF parts, toks
  <2>6. Takes(Enclosed("[", "]", parts), EnclosedTokens("array", toks))
    BY <2>4, <2>5, TakesEnclosed, Zenon
  <2>7. Value(f, m) = Enclosed("[", "]", parts) /\ all = EnclosedTokens("array", toks)
    BY <2>1, <2>4, Zenon DEF Enclosed, Unclosed, EnclosedTokens
  <2> QED  BY <2>1, <2>6, <2>7, Zenon
<1> QED  BY <1>2, <1>3, <1>4, <1>5, <1>6 DEF Members

LEMMA FreshFacts ==
  /\ Parser(Fresh) /\ Fresh.error = "none" /\ Fresh.tok = <<>> /\ Open(Fresh) = {}
  /\ Len(Fresh.tok) = 0
<1>1. Fresh.error = "none" /\ Fresh.tok = <<>>
  BY DEF Fresh
<1>2. Open(Fresh) = {} /\ Len(Fresh.tok) = 0
  BY <1>1 DEF Open
<1>3. Parser(Fresh)
  <2>1. "none" \in Errors /\ 0 \in Nat
    BY DEF Errors
  <2>2. /\ <<>> \in Seq(TokenRecords)
        /\ \A i \in DOMAIN <<>> : <<>>[i].open => <<>>[i].type \in Containers
    OBVIOUS
  <2> QED  BY <2>1, <2>2, MakesParser, Zenon DEF Fresh
<1> QED  BY <1>1, <1>2, <1>3

MemberPair(f, m) == Pair(m, Value(f, m))

\* The text of a file, all of it and without its last bracket.
LEMMA TextReads ==
  ASSUME NEW f, IsFile(f)
  PROVE  \E part :
           /\ part \in Seq(Lexemes) /\ Text(f) = part \o Mark("}")
           /\ Text(f) \in Seq(Lexemes) /\ Len(Text(f)) = Len(part) + 1
           /\ Closed(Tokens(f))
           /\ \E q : Reads(Fresh, Text(f), q) /\ Enclosing(Fresh, q, Tokens(f))
           /\ \E q : Reads(Fresh, part, q) /\ (q.error # "none" \/ Unfinished(q))
<1> DEFINE s == f.order
           parts == [i \in DOMAIN s |-> MemberPair(f, s[i])]
           toks == [i \in DOMAIN s |-> MemberTokens(f, s[i])]
           part == Unclosed("{", parts)
<1>1. Len(s) \in Nat /\ DOMAIN s = 1 .. Len(s) /\ \A i \in DOMAIN s : s[i] \in Members
  BY DEF IsFile
<1> HIDE DEF s
<1>2. ASSUME NEW i \in DOMAIN s PROVE Takes(parts[i], toks[i])
  BY <1>1, TakesValue DEF MemberPair
<1>3. TakesEach(parts, toks) /\ Len(toks) = Len(s)
  <2>1. Along(s, parts) /\ Along(s, toks)
    BY DEF Along
  <2> QED  BY <1>1, <1>2, <2>1, Given
<1>4. Bracketing("{", "}", "object")
  BY DEF Bracketing, Brackets
<1>5. EnclosedFacts("{", "}", "object", parts, toks)
  BY <1>3, <1>4, EnclosedAre, Zenon
<1>6. EnclosedReads(Fresh, "{", "}", "object", parts, toks)
  <2>1. Len(Fresh.tok) <= MaxTokens
    BY FreshFacts, TokensAssumption
  <2> QED  BY <1>3, <1>4, <2>1, EnclosedRead, FreshFacts, Zenon
<1>7. Text(f) = Enclosed("{", "}", parts)
  BY Zenon DEF Text, Enclosed, Unclosed, MemberPair, s
<1>8. Tokens(f) = EnclosedTokens("object", toks)
  <2>1. Tokens(f) = Token("object", "", Len(s)) \o FlattenSeq(toks)
    BY Zenon DEF Tokens, s
  <2> HIDE DEF toks
  <2> QED  BY <1>3, <2>1, Zenon DEF EnclosedTokens
<1> HIDE DEF parts, toks
<1>9. /\ part \in Seq(Lexemes) /\ Text(f) = part \o Mark("}")
      /\ Text(f) \in Seq(Lexemes) /\ Len(Text(f)) = Len(part) + 1
      /\ Closed(Tokens(f))
  BY <1>5, <1>7, <1>8, Zenon DEF EnclosedFacts, Enclosed
<1>10. /\ \E q : Reads(Fresh, Text(f), q) /\ Enclosing(Fresh, q, Tokens(f))
       /\ \E q : Reads(Fresh, part, q) /\ (q.error # "none" \/ Unfinished(q))
  BY <1>6, <1>7, <1>8, Zenon DEF EnclosedReads
<1> HIDE DEF part
<1> QED  BY <1>9, <1>10, Zenon

\* The last state of the tokenizer and the result.
LEMMA ParseIs ==
  ASSUME NEW text \in Seq(Lexemes), NEW q, Reads(Fresh, text, q)
  PROVE  Parse(text) = IF q.error = "none" /\ Open(q) # {} THEN Failed(q, "part") ELSE q
<1>1. Len(text) \in Nat /\ DOMAIN text = 1 .. Len(text)
  OBVIOUS
<1>2. FoldLeft(Lexeme, Fresh, text) = q
  <2>1. FoldIs("lexeme", Fresh, text, FoldLeft(Lexeme, Fresh, text))
    BY <1>1, LexemeFold
  <2>2. FoldIs("lexeme", Fresh, text, q)
    BY DEF Reads
  <2> QED  BY <1>1, <2>1, <2>2, FoldUnique, Zenon
<1> QED  BY <1>2, Zenon DEF Parse

LEMMA Cut ==
  ASSUME NEW s \in Seq(Lexemes), NEW c \in Seq(Lexemes), NEW t, t = s \o c, Len(t) = Len(s) + 1
  PROVE  SubSeq(t, 1, Len(t) - 1) = s /\ SubSeq(t, 1, Len(t) - 0) = t
<1>1. t \in Seq(Lexemes) /\ \A i \in 1 .. Len(s) : t[i] = s[i]
  OBVIOUS
<1>2. SubSeq(t, 1, Len(t) - 0) = t
  BY <1>1
<1> DEFINE n == Len(s)
<1>3. n \in Nat /\ Len(t) - 1 = n /\ DOMAIN s = 1 .. n
  OBVIOUS
<1> HIDE DEF n
<1>4. SubSeq(t, 1, n) = [i \in 1 .. n |-> t[i]]
  BY <1>1, <1>3 DEF n
<1>5. s = [i \in 1 .. n |-> s[i]]
  BY <1>3
<1>6. SubSeq(t, 1, n) = s
  BY <1>1, <1>4, <1>5 DEF n
<1> QED  BY <1>2, <1>3, <1>6

\* jsmn_parse finds, in the text of any file, the tokens the file means if there is room
\* for them; if there is not, or the last bracket is missing, it reports an error.
THEOREM TextParses ==
  ASSUME NEW f, IsFile(f), NEW missing \in {0, 1}
  PROVE  LET p == Parse(SubSeq(Text(f), 1, Len(Text(f)) - missing)) IN
         /\ p.error = "none" <=> missing = 0 /\ Len(Tokens(f)) <= MaxTokens
         /\ p.error = "none" => p.tok = Tokens(f)
<1>1. PICK part :
        /\ part \in Seq(Lexemes) /\ Text(f) = part \o Mark("}")
        /\ Text(f) \in Seq(Lexemes) /\ Len(Text(f)) = Len(part) + 1
        /\ Closed(Tokens(f))
        /\ \E q : Reads(Fresh, Text(f), q) /\ Enclosing(Fresh, q, Tokens(f))
        /\ \E q : Reads(Fresh, part, q) /\ (q.error # "none" \/ Unfinished(q))
  BY TextReads, Zenon
<1>2. Mark("}") \in Seq(Lexemes)
  BY MarkFacts DEF Marks
<1>3. /\ SubSeq(Text(f), 1, Len(Text(f)) - 1) = part
      /\ SubSeq(Text(f), 1, Len(Text(f)) - 0) = Text(f)
  BY <1>1, <1>2, Cut, Zenon
<1>4. CASE missing = 0
  <2>1. PICK q : Reads(Fresh, Text(f), q) /\ Enclosing(Fresh, q, Tokens(f))
    BY <1>1
  <2>2. Parse(SubSeq(Text(f), 1, Len(Text(f)) - missing))
          = IF q.error = "none" /\ Open(q) # {} THEN Failed(q, "part") ELSE q
    BY <1>1, <1>3, <1>4, <2>1, ParseIs, Zenon
  <2>3. Tokens(f) \in Seq(TokenRecords) /\ Len(Tokens(f)) \in Nat
    <3>1. Tokens(f) \in Seq(TokenRecords)
      BY <1>1 DEF Closed
    <3> QED  BY <3>1
  <2>4. Len(Fresh.tok) + Len(Tokens(f)) = Len(Tokens(f))
    <3> DEFINE a == Len(Tokens(f))
               b == Len(Fresh.tok)
    <3>1. a \in Nat /\ b = 0
      BY <2>3, FreshFacts
    <3> HIDE DEF a, b
    <3>2. b + a = a
      BY <3>1
    <3> QED  BY <3>2 DEF a, b
  <2>5. CASE Len(Tokens(f)) <= MaxTokens
    <3>1. q = Passed(Fresh, Tokens(f))
      BY <2>1, <2>4, <2>5, Zenon DEF Enclosing
    <3>2. q.error = "none" /\ q.tok = Grown(Fresh.tok, Fresh.super, 1) \o Tokens(f)
      BY <3>1 DEF Passed
    <3>3. q.tok = Tokens(f)
      <4>1. Grown(Fresh.tok, Fresh.super, 1) = <<>>
        BY FreshFacts DEF Grown
      <4> QED  BY <2>3, <3>2, <4>1
    <3>4. Open(q) = {}
      BY <1>1, <3>3 DEF Closed, Open
    <3>5. Parse(SubSeq(Text(f), 1, Len(Text(f)) - missing)) = q
      BY <2>2, <3>4, Zenon
    <3> QED  BY <1>4, <2>5, <3>2, <3>3, <3>5, Zenon
  <2>6. CASE ~(Len(Tokens(f)) <= MaxTokens)
    <3>1. q.error = "nomem"
      BY <2>1, <2>4, <2>6, Zenon DEF Enclosing
    <3>2. q.error # "none"
      BY <3>1
    <3>3. Parse(SubSeq(Text(f), 1, Len(Text(f)) - missing)) = q
      BY <2>2, <3>2, Zenon
    <3> QED  BY <2>6, <3>2, <3>3, Zenon
  <2> QED  BY <2>5, <2>6
<1>5. CASE missing = 1
  <2>1. PICK q : Reads(Fresh, part, q) /\ (q.error # "none" \/ Unfinished(q))
    BY <1>1
  <2>2. Parse(SubSeq(Text(f), 1, Len(Text(f)) - missing))
          = IF q.error = "none" /\ Open(q) # {} THEN Failed(q, "part") ELSE q
    BY <1>1, <1>3, <1>5, <2>1, ParseIs, Zenon
  <2>3. CASE q.error # "none"
    <3>1. Parse(SubSeq(Text(f), 1, Len(Text(f)) - missing)) = q
      BY <2>2, <2>3, Zenon
    <3> QED  BY <1>5, <2>3, <3>1
  <2>4. CASE Unfinished(q)
    <3>1. Parse(SubSeq(Text(f), 1, Len(Text(f)) - missing)) = Failed(q, "part")
      BY <2>2, <2>4, Zenon DEF Unfinished
    <3>2. Failed(q, "part").error = "part"
      <4>1. Parser(q)
        BY <2>4 DEF Unfinished
      <4>2. Failed(q, "part") = [tok |-> q.tok, super |-> q.super, error |-> "part"]
        BY <4>1, ParserFields, Zenon DEF Failed
      <4> QED  BY <4>2
    <3> QED  BY <1>5, <3>1, <3>2
  <2> QED  BY <2>1, <2>3, <2>4
<1> QED  BY <1>4, <1>5

-----------------------------------------------------------------------------
(* Where a file stands among its tokens *)

\* At x: a name, a value without tokens of its own, the head of an object or array.
NameAt(T, x, name) == T[x].type = "string" /\ T[x].text = name /\ T[x].size = 1
PlainAt(T, x, t) == T[x].type \in {"string", "primitive"} /\ T[x].text = t /\ T[x].size = 0
HeadAt(T, x, type, n) == T[x].type = type /\ T[x].text = "" /\ T[x].size = n

\* At x: the tokens of an object with these fields.
ObjectAt(T, x, fields) ==
  /\ HeadAt(T, x, "object", Len(fields))
  /\ \A j \in 1 .. Len(fields) : /\ NameAt(T, x + 2 * j - 1, fields[j].name)
                                 /\ PlainAt(T, x + 2 * j, fields[j].text)

\* From x up to y: the list of devices, of which the n-th begins at obj[n].
DevicesAt(f, T, x, y, obj) ==
  /\ HeadAt(T, x, "array", Len(f.devices))
  /\ \A n \in 1 .. (Len(f.devices) + 1) : obj[n] \in Nat
  /\ obj[1] = x + 1 /\ obj[Len(f.devices) + 1] = y
  /\ \A n \in 1 .. Len(f.devices) :
       /\ ObjectAt(T, obj[n], f.devices[n])
       /\ obj[n + 1] = obj[n] + 1 + 2 * Len(f.devices[n])

\* From x up to y: the member m of the file.
MemberAt(f, T, x, y, m, obj) ==
  /\ NameAt(T, x, m)
  /\ m = "version" => y = x + 2 /\ PlainAt(T, x + 1, f.version)
  /\ m = "comment" => y = x + 2 /\ PlainAt(T, x + 1, f.comment)
  /\ m = "gateway" => y = x + 2 + 2 * Len(f.gateway) /\ ObjectAt(T, x + 1, f.gateway)
  /\ m = "site"    => y = x + 2 + 2 * Len(f.site) /\ ObjectAt(T, x + 1, f.site)
  /\ m = "devices" => DevicesAt(f, T, x + 1, y, obj)

\* p.at says where the members stand, p.obj where the devices stand.
IsPlan(f, p) ==
  /\ HeadAt(Tokens(f), 1, "object", Len(f.order))
  /\ \A k \in 1 .. (Len(f.order) + 1) : p.at[k] \in Nat
  /\ p.at[1] = 2 /\ p.at[Len(f.order) + 1] = Len(Tokens(f)) + 1
  /\ \A k \in 1 .. Len(f.order) :
       /\ p.at[k + 1] >= p.at[k] + 2
       /\ MemberAt(f, Tokens(f), p.at[k], p.at[k + 1], f.order[k], p.obj)

\* Where the parts of a joined sequence start, less one.
Starts(ss, all, st) ==
  /\ \A k \in 0 .. Len(ss) : st[k] \in Nat
  /\ st[0] = 0 /\ st[Len(ss)] = Len(all)
  /\ \A k \in 1 .. Len(ss) :
       /\ st[k] = st[k - 1] + Len(ss[k])
       /\ \A j \in 1 .. Len(ss[k]) : all[st[k - 1] + j] = ss[k][j]

LEMMA FlatStarts ==
  ASSUME NEW S, NEW ss \in Seq(Seq(S))
  PROVE  \E st : Starts(ss, FlattenSeq(ss), st)
<1>1. PICK g : /\ FlatSteps(ss, g)
               /\ \A k \in 0 .. Len(ss) : g[k] \in Seq(S)
  BY FlattenSteps
<1> DEFINE N == Len(ss)
           st == [k \in 0 .. N |-> Len(g[k])]
           all == FlattenSeq(ss)
<1>2. N \in Nat /\ \A k \in 1 .. N : ss[k] \in Seq(S)
  OBVIOUS
<1>3. /\ g[0] = <<>> /\ all = g[N]
      /\ \A k \in 1 .. N : g[k] = g[k - 1] \o ss[k]
  BY <1>1 DEF FlatSteps
<1>4. \A k \in 0 .. N : g[k] \in Seq(S) /\ st[k] = Len(g[k]) /\ st[k] \in Nat
  <2>1. \A k \in 0 .. N : g[k] \in Seq(S)
    BY <1>1
  <2>2. \A k \in 0 .. N : Len(g[k]) \in Nat
    BY <2>1
  <2> QED  BY <2>1, <2>2
<1> HIDE DEF N, all, st
<1>5. ASSUME NEW k \in 1 .. N
      PROVE  /\ k - 1 \in 0 .. N /\ k \in 0 .. N
             /\ st[k] = st[k - 1] + Len(ss[k])
             /\ \A x \in 1 .. st[k - 1] : g[k][x] = g[k - 1][x]
             /\ \A x \in 1 .. Len(ss[k]) : g[k][st[k - 1] + x] = ss[k][x]
  <2>1. k - 1 \in 0 .. N /\ k \in 0 .. N
    BY <1>2
  <2> DEFINE s == g[k - 1]
             t == ss[k]
  <2>2. s \in Seq(S) /\ t \in Seq(S) /\ g[k] = s \o t
    BY <1>2, <1>3, <1>4, <2>1
  <2>3. Len(s) = st[k - 1] /\ Len(g[k]) = st[k]
    BY <1>4, <2>1
  <2> HIDE DEF s, t
  <2>4. /\ Len(s) \in Nat /\ Len(t) \in Nat
        /\ Len(s \o t) = Len(s) + Len(t)
        /\ \A x \in 1 .. Len(s) : (s \o t)[x] = s[x]
        /\ \A x \in (Len(s) + 1) .. (Len(s) + Len(t)) : (s \o t)[x] = t[x - Len(s)]
    BY <2>2, ConcatFacts, Zenon
  <2> DEFINE a == Len(s)
             b == Len(t)
             u == s \o t
  <2>5. \A x \in 1 .. b : u[a + x] = t[x]
    <3> HIDE DEF a, b, u
    <3>1. a \in Nat /\ b \in Nat /\ \A x \in (a + 1) .. (a + b) : u[x] = t[x - a]
      BY <2>4 DEF a, b, u
    <3> TAKE x \in 1 .. b
    <3>2. a + x \in (a + 1) .. (a + b) /\ (a + x) - a = x
      BY <3>1
    <3>3. u[a + x] = t[(a + x) - a]
      BY <3>1, <3>2
    <3> QED  BY <3>2, <3>3
  <2> QED  BY <2>1, <2>2, <2>3, <2>4, <2>5 DEF s, t
<1>6. ASSUME NEW k \in 0 .. N
      PROVE  \A x \in 1 .. st[k] : all[x] = g[k][x]
  <2> DEFINE T == {m \in Nat : k + m <= N => /\ st[k] <= st[k + m]
                                            /\ \A x \in 1 .. st[k] : g[k + m][x] = g[k][x]}
  <2>1. 0 \in T
    <3>1. k + 0 = k /\ k \in 0 .. N /\ st[k] \in Nat
      BY <1>2, <1>4
    <3> QED  BY <3>1
  <2>2. ASSUME NEW m \in T PROVE m + 1 \in T
    <3>1. SUFFICES ASSUME k + (m + 1) <= N
                   PROVE  /\ st[k] <= st[k + (m + 1)]
                          /\ \A x \in 1 .. st[k] : g[k + (m + 1)][x] = g[k][x]
      OBVIOUS
    <3> DEFINE n == k + (m + 1)
    <3>2. n \in 1 .. N /\ n - 1 = k + m /\ k + m <= N
      BY <1>2, <3>1
    <3>3. /\ st[k] <= st[n - 1]
          /\ \A x \in 1 .. st[k] : g[n - 1][x] = g[k][x]
      BY <3>2
    <3> HIDE DEF n
    <3>4. /\ st[n] = st[n - 1] + Len(ss[n])
          /\ st[n - 1] \in Nat /\ st[k] \in Nat /\ Len(ss[n]) \in Nat
          /\ \A x \in 1 .. st[n - 1] : g[n][x] = g[n - 1][x]
      BY <1>2, <1>4, <1>5, <3>2
    <3>5. st[k] <= st[n]
      BY <3>3, <3>4
    <3>6. ASSUME NEW x \in 1 .. st[k] PROVE g[n][x] = g[k][x]
      <4>1. x \in 1 .. st[n - 1]
        BY <3>3, <3>4
      <4> QED  BY <3>3, <3>4, <4>1
    <3> QED  BY <3>5, <3>6 DEF n
  <2>3. T \subseteq Nat
    OBVIOUS
  <2>4. N - k \in T
    <3> HIDE DEF T
    <3>1. T = Nat
      BY <2>1, <2>2, <2>3, AllNaturals
    <3>2. N - k \in Nat
      BY <1>2
    <3> QED  BY <3>1, <3>2
  <2>5. k + (N - k) = N
    BY <1>2
  <2> QED  BY <1>3, <2>4, <2>5
<1>7. ASSUME NEW k \in 1 .. N, NEW j \in 1 .. Len(ss[k])
      PROVE  all[st[k - 1] + j] = ss[k][j]
  <2>1. /\ k - 1 \in 0 .. N /\ k \in 0 .. N /\ st[k] = st[k - 1] + Len(ss[k])
        /\ g[k][st[k - 1] + j] = ss[k][j]
    BY <1>5
  <2>2. st[k - 1] \in Nat /\ Len(ss[k]) \in Nat
    BY <1>2, <1>4, <2>1
  <2> DEFINE a == st[k - 1]
             b == Len(ss[k])
  <2>3. a + j \in 1 .. (a + b)
    <3>1. a \in Nat /\ b \in Nat /\ j \in 1 .. b
      BY <2>2
    <3> HIDE DEF a, b
    <3> QED  BY <3>1
  <2>4. all[a + j] = g[k][a + j]
    BY <1>6, <2>1, <2>3
  <2> QED  BY <2>1, <2>4
<1>8. st[0] = 0 /\ st[N] = Len(all)
  <2>1. 0 \in 0 .. N /\ N \in 0 .. N /\ Len(<<>>) = 0
    BY <1>2
  <2> QED  BY <1>3, <1>4, <2>1
<1>9. Starts(ss, all, st)
  BY <1>4, <1>5, <1>7, <1>8 DEF Starts, N
<1> QED  BY <1>9 DEF all

LEMMA PlainTokenIs ==
  ASSUME NEW t
  PROVE  \E r : /\ PlainToken(t) = <<r>> /\ r.text = t
               /\ r.type \in {"string", "primitive"} /\ r.size = 0
<1>1. Plain(t)[1].c \in {"string", "primitive"}
  BY DEF Plain
<1> DEFINE r == [type |-> Plain(t)[1].c, text |-> t, size |-> 0, open |-> FALSE]
<1>2. PlainToken(t) = <<r>>
  BY Zenon DEF PlainToken, Token
<1> QED  BY <1>1, <1>2

LEMMA TokenIs ==
  ASSUME NEW type, NEW text, NEW n
  PROVE  \E r : Token(type, text, n) = <<r>> /\ r.text = text /\ r.type = type /\ r.size = n
<1> DEFINE r == [type |-> type, text |-> text, size |-> n, open |-> FALSE]
<1>1. Token(type, text, n) = <<r>>
  BY Zenon DEF Token
<1> QED  BY <1>1

LEMMA FieldTokensAre ==
  ASSUME NEW x \in Fields
  PROVE  LET t == FieldTokens(x) IN
         t \in Seq(TokenRecords) /\ Len(t) = 2 /\ NameAt(t, 1, x.name) /\ PlainAt(t, 2, x.text)
<1>1. x.name \in Texts /\ x.text \in Texts
  BY DEF Fields
<1>2. Takes(FieldPair(x), FieldTokens(x))
  BY <1>1, TakesPlain, TakesPair, Zenon DEF FieldPair, FieldTokens
<1>3. FieldTokens(x) \in Seq(TokenRecords)
  BY <1>2 DEF Takes, Closed
<1>4. PICK r : /\ Token("string", x.name, 1) = <<r>> /\ r.text = x.name /\ r.type = "string"
               /\ r.size = 1
  BY TokenIs
<1>5. PICK u : /\ PlainToken(x.text) = <<u>> /\ u.text = x.text /\ u.size = 0
               /\ u.type \in {"string", "primitive"}
  BY PlainTokenIs
<1>6. FieldTokens(x) = <<r>> \o <<u>>
  BY <1>4, <1>5, Zenon DEF FieldTokens
<1> DEFINE t == FieldTokens(x)
<1> HIDE DEF t
<1>7. Len(t) = 2 /\ t[1] = r /\ t[2] = u
  <2>1. <<r>> \in Seq({r, u}) /\ <<u>> \in Seq({r, u}) /\ Len(<<r>>) = 1 /\ Len(<<u>>) = 1
    OBVIOUS
  <2> QED  BY <1>6, <2>1 DEF t
<1>8. NameAt(t, 1, x.name) /\ PlainAt(t, 2, x.text)
  BY <1>4, <1>5, <1>7 DEF NameAt, PlainAt
<1> QED  BY <1>3, <1>7, <1>8 DEF t

\* The tokens of an object.
LEMMA ObjectLayout ==
  ASSUME NEW fields \in Seq(Fields)
  PROVE  LET t == ObjectTokens(fields) IN
         /\ Closed(t) /\ Len(t) = 1 + 2 * Len(fields) /\ ObjectAt(t, 1, fields)
<1> DEFINE N == Len(fields)
           ss == [n \in DOMAIN fields |-> FieldTokens(fields[n])]
           body == FlattenSeq(ss)
           t == ObjectTokens(fields)
<1>1. /\ N \in Nat /\ DOMAIN fields = 1 .. N
      /\ \A n \in 1 .. N : fields[n] \in Fields
  OBVIOUS
<1>2. Closed(t)
  BY TakesObject DEF Takes
<1> DEFINE r == Token("object", "", N)[1]
<1>3. Token("object", "", N) = <<r>> /\ r.text = "" /\ r.type = "object" /\ r.size = N
  BY DEF Token
<1> HIDE DEF r
<1>4. t = <<r>> \o body
  BY <1>3, Zenon DEF ObjectTokens, FieldTokens
<1> HIDE DEF N
<1>5. \A n \in 1 .. N :
         /\ ss[n] = FieldTokens(fields[n])
         /\ ss[n] \in Seq(TokenRecords) /\ Len(ss[n]) = 2
         /\ NameAt(ss[n], 1, fields[n].name) /\ PlainAt(ss[n], 2, fields[n].text)
  BY <1>1, FieldTokensAre
<1>6. ss \in Seq(Seq(TokenRecords)) /\ Len(ss) = N
  <2>1. Along(fields, ss) /\ \A n \in 1 .. N : ss[n] \in Seq(TokenRecords)
    BY <1>5 DEF Along
  <2> HIDE DEF ss
  <2>2. DOMAIN ss = DOMAIN fields
    BY <2>1 DEF Along
  <2>3. \A n \in 1 .. N : ss[n] \in Seq(TokenRecords)
    BY <2>1
  <2> HIDE DEF ss
  <2>4. N \in Nat /\ DOMAIN fields = 1 .. N /\ Along(fields, ss)
    BY <1>1, <2>1
  <2> DEFINE S == Seq(TokenRecords)
  <2>5. \A n \in 1 .. N : ss[n] \in S
    BY <2>3
  <2> HIDE DEF S
  <2>6. ss \in Seq(S)
    BY <2>4, <2>5, AlongSeq, Zenon
  <2>7. Len(ss) = N
    BY <2>4, <2>5, AlongSeq, Zenon
  <2> QED  BY <2>6, <2>7 DEF S
<1> HIDE DEF ss
<1>7. PICK st : /\ \A k \in 0 .. N : st[k] \in Nat
                /\ st[0] = 0 /\ st[N] = Len(body)
                /\ \A k \in 1 .. N :
                     /\ st[k] = st[k - 1] + Len(ss[k])
                     /\ \A j \in 1 .. Len(ss[k]) : body[st[k - 1] + j] = ss[k][j]
  <2> DEFINE P(m) == \E st : /\ \A k \in 0 .. m : st[k] \in Nat
                             /\ st[0] = 0 /\ st[m] = Len(body)
                             /\ \A k \in 1 .. m :
                                  /\ st[k] = st[k - 1] + Len(ss[k])
                                  /\ \A j \in 1 .. Len(ss[k]) :
                                       body[st[k - 1] + j] = ss[k][j]
  <2>1. \E st : Starts(ss, body, st)
    <3>1. ss \in Seq(Seq(TokenRecords))
      BY <1>6
    <3> QED  BY <3>1, FlatStarts, Zenon
  <2>2. P(Len(ss))
    <3>1. PICK st : Starts(ss, body, st)
      BY <2>1
    <3>2. /\ \A k \in 0 .. Len(ss) : st[k] \in Nat
          /\ st[0] = 0 /\ st[Len(ss)] = Len(body)
          /\ \A k \in 1 .. Len(ss) :
               /\ st[k] = st[k - 1] + Len(ss[k])
               /\ \A j \in 1 .. Len(ss[k]) : body[st[k - 1] + j] = ss[k][j]
      BY <3>1 DEF Starts
    <3> QED  BY <3>2, Zenon
  <2>3. P(N)
    <3> HIDE DEF P
    <3> QED  BY <1>6, <2>2
  <2> QED  BY <2>3
<1>8. \A k \in 0 .. N : st[k] = 2 * k
  <2> DEFINE T == {m \in Nat : m <= N => st[m] = 2 * m}
  <2>1. 0 \in T
    BY <1>7
  <2>2. ASSUME NEW m \in T PROVE m + 1 \in T
    <3>1. SUFFICES ASSUME m + 1 <= N PROVE st[m + 1] = 2 * (m + 1)
      OBVIOUS
    <3>2. m + 1 \in 1 .. N /\ (m + 1) - 1 = m /\ st[m] = 2 * m
      BY <1>1, <3>1
    <3>3. st[m + 1] = st[m] + 2
      BY <1>5, <1>7, <3>2
    <3> QED  BY <3>2, <3>3
  <2>3. T \subseteq Nat
    OBVIOUS
  <2>4. T = Nat
    <3> HIDE DEF T
    <3> QED  BY <2>1, <2>2, <2>3, AllNaturals
  <2> QED  BY <1>1, <2>4
<1>9. body \in Seq(TokenRecords) /\ Len(body) = 2 * N
  <2>1. PICK g : /\ FlatSteps(ss, g) /\ \A k \in 0 .. Len(ss) : g[k] \in Seq(TokenRecords)
    BY <1>6, FlattenSteps
  <2>2. body = g[N] /\ N \in 0 .. N
    BY <1>1, <1>6, <2>1 DEF FlatSteps
  <2> QED  BY <1>1, <1>6, <1>7, <1>8, <2>1, <2>2
<1> HIDE DEF body, t
<1>10. r \in TokenRecords
  <2>1. t \in Seq(TokenRecords) /\ t[1] = r /\ Len(t) >= 1
    BY <1>1, <1>2, <1>4, <1>9 DEF Closed
  <2> QED  BY <2>1
<1>11. /\ Len(t) = 1 + 2 * N /\ t[1] = r
       /\ \A x \in 1 .. (2 * N) : t[1 + x] = body[x]
  BY <1>1, <1>4, <1>9, <1>10
<1>12. ASSUME NEW j \in 1 .. N
       PROVE  NameAt(t, 1 + 2 * j - 1, fields[j].name) /\ PlainAt(t, 1 + 2 * j, fields[j].text)
  <2>1. j - 1 \in 0 .. N /\ st[j - 1] = 2 * (j - 1)
    <3>1. j - 1 \in 0 .. N
      BY <1>1
    <3> QED  BY <1>8, <3>1
  <2>2. body[2 * (j - 1) + 1] = ss[j][1] /\ body[2 * (j - 1) + 2] = ss[j][2]
    <3>1. 1 \in 1 .. Len(ss[j]) /\ 2 \in 1 .. Len(ss[j])
      <4>1. Len(ss[j]) = 2
        BY <1>5, Zenon
      <4> QED  BY <4>1
    <3> QED  BY <1>7, <2>1, <3>1
  <2>3. /\ 2 * (j - 1) + 1 \in 1 .. (2 * N) /\ 2 * (j - 1) + 2 \in 1 .. (2 * N)
        /\ 1 + (2 * (j - 1) + 1) = 1 + 2 * j - 1 /\ 1 + (2 * (j - 1) + 2) = 1 + 2 * j
    BY <1>1
  <2>4. t[1 + 2 * j - 1] = ss[j][1] /\ t[1 + 2 * j] = ss[j][2]
    BY <1>11, <2>2, <2>3
  <2> QED  BY <1>5, <2>4 DEF NameAt, PlainAt
<1>13. HeadAt(t, 1, "object", N)
  BY <1>3, <1>11 DEF HeadAt
<1> QED  BY <1>2, <1>11, <1>12, <1>13 DEF ObjectAt, N, t

\* The same tokens, further on in a longer sequence.
Within(T, c, t) == \A x \in 1 .. Len(t) : T[c + x] = t[x]

LEMMA ObjectShift ==
  ASSUME NEW fields \in Seq(Fields), NEW t, NEW b \in Nat \ {0}, ObjectAt(t, b, fields),
         Len(t) \in Nat, b + 2 * Len(fields) <= Len(t),
         NEW T, NEW c \in Nat, Within(T, c, t)
  PROVE  ObjectAt(T, c + b, fields)
<1> DEFINE N == Len(fields)
           M == Len(t)
<1>1. N \in Nat /\ M \in Nat /\ b + 2 * N <= M
  OBVIOUS
<1>2. /\ HeadAt(t, b, "object", N)
      /\ \A j \in 1 .. N : /\ NameAt(t, b + 2 * j - 1, fields[j].name)
                           /\ PlainAt(t, b + 2 * j, fields[j].text)
  BY DEF ObjectAt
<1>3. \A x \in 1 .. M : T[c + x] = t[x]
  BY DEF Within
<1> HIDE DEF N, M
<1>4. HeadAt(T, c + b, "object", N)
  <2>1. b \in 1 .. M
    BY <1>1
  <2> QED  BY <1>2, <1>3, <2>1 DEF HeadAt
<1>5. ASSUME NEW j \in 1 .. N
      PROVE  /\ NameAt(T, (c + b) + 2 * j - 1, fields[j].name)
             /\ PlainAt(T, (c + b) + 2 * j, fields[j].text)
  <2>1. /\ b + 2 * j - 1 \in 1 .. M /\ b + 2 * j \in 1 .. M
        /\ c + (b + 2 * j - 1) = (c + b) + 2 * j - 1 /\ c + (b + 2 * j) = (c + b) + 2 * j
    BY <1>1
  <2>2. T[(c + b) + 2 * j - 1] = t[b + 2 * j - 1] /\ T[(c + b) + 2 * j] = t[b + 2 * j]
    BY <1>3, <2>1
  <2> QED  BY <1>2, <2>2 DEF NameAt, PlainAt
<1> QED  BY <1>4, <1>5 DEF ObjectAt, N


\* The tokens of the list of devices, without the array's.
ObjectsAt(objects, all, obj) ==
  /\ \A n \in 1 .. (Len(objects) + 1) : obj[n] \in Nat \ {0}
  /\ obj[1] = 1 /\ obj[Len(objects) + 1] = Len(all) + 1
  /\ \A n \in 1 .. Len(objects) :
       /\ ObjectAt(all, obj[n], objects[n])
       /\ obj[n + 1] = obj[n] + 1 + 2 * Len(objects[n])
       /\ obj[n] + 2 * Len(objects[n]) <= Len(all)

LEMMA DevicesLayout ==
  ASSUME NEW objects \in Seq(Seq(Fields))
  PROVE  LET all == FlattenSeq([n \in DOMAIN objects |-> ObjectTokens(objects[n])])
         IN  \E obj : ObjectsAt(objects, all, obj) /\ Len(all) \in Nat
<1> DEFINE N == Len(objects)
           ss == [n \in DOMAIN objects |-> ObjectTokens(objects[n])]
           body == FlattenSeq(ss)
<1>1. /\ N \in Nat /\ DOMAIN objects = 1 .. N
      /\ \A n \in 1 .. N : objects[n] \in Seq(Fields)
  OBVIOUS
<1> HIDE DEF N
<1>2. ASSUME NEW n \in 1 .. N
      PROVE  /\ ss[n] \in Seq(TokenRecords) /\ Len(ss[n]) = 1 + 2 * Len(objects[n])
             /\ ObjectAt(ss[n], 1, objects[n]) /\ Len(objects[n]) \in Nat
  <2>1. objects[n] \in Seq(Fields) /\ ss[n] = ObjectTokens(objects[n])
    BY <1>1
  <2>2. Len(objects[n]) \in Nat
    BY <2>1
  <2> DEFINE t == ObjectTokens(objects[n])
  <2>3. Closed(t) /\ Len(t) = 1 + 2 * Len(objects[n]) /\ ObjectAt(t, 1, objects[n])
    BY <2>1, ObjectLayout, Zenon
  <2>4. t \in Seq(TokenRecords)
    BY <2>3, Zenon DEF Closed
  <2> HIDE DEF t, ss
  <2> QED  BY <2>1, <2>2, <2>3, <2>4, Zenon DEF t
<1>3. ss \in Seq(Seq(TokenRecords)) /\ Len(ss) = N
  <2> DEFINE S == Seq(TokenRecords)
  <2>1. Along(objects, ss)
    BY DEF Along
  <2>2. \A n \in 1 .. N : ss[n] \in S
    BY <1>2
  <2> HIDE DEF ss, S
  <2>3. N \in Nat /\ DOMAIN objects = 1 .. N
    BY <1>1
  <2>4. ss \in Seq(S)
    BY <2>1, <2>2, <2>3, AlongSeq, Zenon
  <2>5. Len(ss) = N
    BY <2>1, <2>2, <2>3, AlongSeq, Zenon
  <2> QED  BY <2>4, <2>5 DEF S
<1> HIDE DEF ss
<1>4. PICK st : /\ \A k \in 0 .. N : st[k] \in Nat
                /\ st[0] = 0 /\ st[N] = Len(body)
                /\ \A k \in 1 .. N :
                     /\ st[k] = st[k - 1] + Len(ss[k])
                     /\ \A j \in 1 .. Len(ss[k]) : body[st[k - 1] + j] = ss[k][j]
  <2> DEFINE P(m) == \E st : /\ \A k \in 0 .. m : st[k] \in Nat
                             /\ st[0] = 0 /\ st[m] = Len(body)
                             /\ \A k \in 1 .. m :
                                  /\ st[k] = st[k - 1] + Len(ss[k])
                                  /\ \A j \in 1 .. Len(ss[k]) :
                                       body[st[k - 1] + j] = ss[k][j]
  <2>1. \E st : Starts(ss, body, st)
    <3>1. ss \in Seq(Seq(TokenRecords))
      BY <1>3
    <3> QED  BY <3>1, FlatStarts, Zenon
  <2>2. P(Len(ss))
    <3>1. PICK st : Starts(ss, body, st)
      BY <2>1
    <3>2. /\ \A k \in 0 .. Len(ss) : st[k] \in Nat
          /\ st[0] = 0 /\ st[Len(ss)] = Len(body)
          /\ \A k \in 1 .. Len(ss) :
               /\ st[k] = st[k - 1] + Len(ss[k])
               /\ \A j \in 1 .. Len(ss[k]) : body[st[k - 1] + j] = ss[k][j]
      BY <3>1 DEF Starts
    <3> QED  BY <3>2, Zenon
  <2>3. P(N)
    <3> HIDE DEF P
    <3> QED  BY <1>3, <2>2
  <2> QED  BY <2>3
<1> HIDE DEF body
<1> DEFINE obj == [n \in 1 .. (N + 1) |-> st[n - 1] + 1]
<1>5. \A n \in 1 .. (N + 1) : obj[n] \in Nat \ {0} /\ obj[n] = st[n - 1] + 1
  <2> TAKE n \in 1 .. (N + 1)
  <2>1. n - 1 \in 0 .. N
    BY <1>1
  <2>2. st[n - 1] \in Nat
    BY <1>4, <2>1
  <2> QED  BY <2>2
<1> HIDE DEF obj
<1>6. obj[1] = 1 /\ obj[N + 1] = Len(body) + 1
  <2>1. 1 \in 1 .. (N + 1) /\ N + 1 \in 1 .. (N + 1) /\ 1 - 1 = 0 /\ (N + 1) - 1 = N
    BY <1>1
  <2>2. obj[1] = st[0] + 1 /\ obj[N + 1] = st[N] + 1
    BY <1>5, <2>1
  <2>3. st[0] = 0 /\ st[N] = Len(body)
    BY <1>4
  <2> QED  BY <2>2, <2>3
<1>7. ASSUME NEW k \in Nat, NEW m \in Nat, m + k <= N PROVE st[m] <= st[m + k]
  <2> DEFINE T == {x \in Nat : m + x <= N => st[m] <= st[m + x]}
  <2>1. 0 \in T
    <3>1. m + 0 = m /\ (m <= N => m \in 0 .. N)
      OBVIOUS
    <3> QED  BY <1>4, <3>1
  <2>2. ASSUME NEW x \in T PROVE x + 1 \in T
    <3>1. SUFFICES ASSUME m + (x + 1) <= N PROVE st[m] <= st[m + (x + 1)]
      OBVIOUS
    <3> DEFINE y == m + (x + 1)
    <3>2. y \in 1 .. N /\ y - 1 = m + x /\ y \in 0 .. N /\ m \in 0 .. N /\ y - 1 \in 0 .. N
      BY <1>1, <3>1
    <3>3. st[m] <= st[y - 1]
      BY <3>1, <3>2
    <3> HIDE DEF y
    <3> DEFINE d == Len(ss[y])
    <3>4. st[y] = st[y - 1] + d
      BY <1>4, <3>2
    <3>5. d \in Nat
      BY <1>2, <3>2
    <3> HIDE DEF d
    <3>6. st[m] \in Nat /\ st[y - 1] \in Nat
      BY <1>4, <3>2
    <3> QED  BY <3>3, <3>4, <3>5, <3>6 DEF y
  <2>3. T \subseteq Nat
    OBVIOUS
  <2>4. k \in T
    <3> HIDE DEF T
    <3>1. T = Nat
      BY <2>1, <2>2, <2>3, AllNaturals
    <3> QED  BY <3>1
  <2> QED  BY <1>7, <2>4
<1>8. ASSUME NEW n \in 1 .. N
      PROVE  /\ ObjectAt(body, obj[n], objects[n])
             /\ obj[n + 1] = obj[n] + 1 + 2 * Len(objects[n])
             /\ obj[n] + 2 * Len(objects[n]) <= Len(body)
  <2> DEFINE fields == objects[n]
             t == ss[n]
             c == st[n - 1]
             K == Len(fields)
  <2>1. n \in 1 .. (N + 1) /\ n + 1 \in 1 .. (N + 1) /\ (n + 1) - 1 = n /\ n - 1 \in 0 .. N
        /\ n \in 0 .. N
    BY <1>1
  <2>2. c \in Nat /\ K \in Nat /\ Len(t) = 1 + 2 * K /\ fields \in Seq(Fields)
        /\ ObjectAt(t, 1, fields) /\ st[n] = c + Len(t) /\ obj[n] = c + 1 /\ obj[n + 1] = st[n] + 1
    BY <1>1, <1>2, <1>4, <1>5, <2>1, Zenon
  <2>3. Within(body, c, t)
    BY <1>4, Zenon DEF Within
  <2>4. Len(t) \in Nat /\ 1 + 2 * K <= Len(t) /\ 1 \in Nat \ {0}
    <3> HIDE DEF t, K
    <3> QED  BY <2>2
  <2>5. ObjectAt(body, c + 1, fields)
    BY <2>2, <2>3, <2>4, ObjectShift, Zenon
  <2>6. obj[n + 1] = obj[n] + 1 + 2 * K
    <3> HIDE DEF t, K, c
    <3> QED  BY <2>2
  <2>7. obj[n] + 2 * K <= Len(body)
    <3>1. st[n] <= st[N]
      <4>1. n \in Nat /\ N - n \in Nat /\ n + (N - n) = N /\ n + (N - n) <= N
        BY <1>1
      <4>2. st[n] <= st[n + (N - n)]
        BY <1>7, <4>1
      <4> QED  BY <4>1, <4>2
    <3>2. st[N] = Len(body) /\ st[N] \in Nat /\ st[n] \in Nat
      BY <1>1, <1>4, <2>1
    <3> HIDE DEF t, K, c
    <3> QED  BY <2>2, <3>1, <3>2
  <2> QED  BY <2>2, <2>5, <2>6, <2>7, Zenon
<1>9. ObjectsAt(objects, body, obj)
  BY <1>5, <1>6, <1>8 DEF ObjectsAt, N
<1>10. Len(body) \in Nat
  <2>1. N \in 0 .. N
    BY <1>1
  <2> QED  BY <1>4, <2>1
<1> QED  BY <1>9, <1>10, Zenon DEF body, ss


\* One token before others.
LEMMA Headed ==
  ASSUME NEW r \in TokenRecords, NEW v \in Seq(TokenRecords), NEW t, t = <<r>> \o v
  PROVE  /\ t \in Seq(TokenRecords) /\ Len(v) \in Nat /\ Len(t) = 1 + Len(v) /\ t[1] = r
         /\ Within(t, 1, v)
<1> DEFINE b == Len(v)
           h == <<r>>
<1>1. h \in Seq(TokenRecords) /\ Len(h) = 1 /\ h[1] = r
  OBVIOUS
<1> HIDE DEF h
<1>2. t = h \o v
  BY DEF h
<1>3. /\ t \in Seq(TokenRecords) /\ b \in Nat /\ Len(t) = Len(h) + b
      /\ \A x \in 1 .. Len(h) : t[x] = h[x]
      /\ \A x \in (Len(h) + 1) .. (Len(h) + b) : t[x] = v[x - Len(h)]
  <2> DEFINE w == h \o v
  <2>1. /\ w \in Seq(TokenRecords) /\ Len(v) \in Nat /\ Len(w) = Len(h) + Len(v)
        /\ \A x \in 1 .. Len(h) : w[x] = h[x]
        /\ \A x \in (Len(h) + 1) .. (Len(h) + Len(v)) : w[x] = v[x - Len(h)]
    BY <1>1, ConcatFacts, Zenon
  <2>2. t = w
    BY <1>2
  <2> HIDE DEF w
  <2> QED  BY <2>1, <2>2
<1> HIDE DEF b
<1>4. t[1] = r
  BY <1>1, <1>3
<1>5. ASSUME NEW x \in 1 .. b PROVE t[1 + x] = v[x]
  <2>1. 1 + x \in (1 + 1) .. (1 + b) /\ (1 + x) - 1 = x
    BY <1>3
  <2>2. t[1 + x] = v[(1 + x) - 1]
    BY <1>1, <1>3, <2>1
  <2> QED  BY <2>1, <2>2
<1> QED  BY <1>1, <1>3, <1>4, <1>5 DEF Within, b


LEMMA NameToken ==
  ASSUME NEW m \in Texts
  PROVE  \E r \in TokenRecords :
           Token("string", m, 1) = <<r>> /\ r.type = "string" /\ r.text = m /\ r.size = 1
<1> DEFINE r == Token("string", m, 1)[1]
<1>1. /\ Token("string", m, 1) = <<r>> /\ r.type = "string" /\ r.text = m /\ r.size = 1
      /\ r = [type |-> "string", text |-> m, size |-> 1, open |-> FALSE]
  BY DEF Token
<1>2. "string" \in Kinds /\ 1 \in Nat /\ FALSE \in BOOLEAN
  BY DEF Kinds
<1>3. r \in TokenRecords
  <2> HIDE DEF r
  <2> QED  BY <1>1, <1>2 DEF TokenRecords
<1> HIDE DEF r
<1> QED  BY <1>1, <1>3

LEMMA HeadToken ==
  ASSUME NEW n \in Nat, NEW c \in Containers
  PROVE  \E r \in TokenRecords :
           Token(c, "", n) = <<r>> /\ r.type = c /\ r.text = "" /\ r.size = n
<1> DEFINE e == ""
           r == [type |-> c, text |-> e, size |-> n, open |-> FALSE]
<1>1. e \in Texts /\ c \in Kinds
  BY TextsAssumption DEF Kinds, Containers
<1>2. r.type = c /\ r.text = e /\ r.size = n
  OBVIOUS
<1> HIDE DEF e
<1>3. Token(c, e, n) = <<r>> /\ r \in TokenRecords
  BY <1>1 DEF Token, TokenRecords
<1> HIDE DEF r
<1> QED  BY <1>2, <1>3, Zenon DEF e

\* The tokens of a member.
LEMMA MemberLayout ==
  ASSUME NEW f, IsFile(f), NEW m \in Members
  PROVE  LET t == MemberTokens(f, m) IN
         /\ Closed(t) /\ Len(t) >= 2 /\ Len(t) \in Nat
         /\ \E obj : MemberAt(f, t, 1, Len(t) + 1, m, obj)
<1> DEFINE t == MemberTokens(f, m)
<1>1. /\ f.version \in Texts /\ f.comment \in Texts
      /\ f.gateway \in Seq(Fields) /\ f.site \in Seq(Fields)
      /\ f.devices \in Seq(Seq(Fields)) /\ m \in Texts
  BY TextsAssumption DEF IsFile
<1>2. Closed(t) /\ t \in Seq(TokenRecords)
  BY TakesValue DEF Takes, Closed
<1>3. PICK r \in TokenRecords :
        Token("string", m, 1) = <<r>> /\ r.type = "string" /\ r.text = m /\ r.size = 1
  BY <1>1, NameToken
<1>4. ASSUME NEW v \in Seq(TokenRecords), t = Token("string", m, 1) \o v
      PROVE  Len(v) \in Nat /\ Len(t) = 1 + Len(v) /\ NameAt(t, 1, m) /\ Within(t, 1, v)
  <2>1. t = <<r>> \o v
    BY <1>3, <1>4
  <2> HIDE DEF t
  <2>2. Len(v) \in Nat /\ Len(t) = 1 + Len(v) /\ t[1] = r /\ Within(t, 1, v)
    BY <2>1, Headed, Zenon
  <2>3. NameAt(t, 1, m)
    BY <1>3, <2>2 DEF NameAt
  <2> QED  BY <2>2, <2>3
<1>5. ASSUME NEW x \in Texts, t = Token("string", m, 1) \o PlainToken(x)
      PROVE  Len(t) = 2 /\ NameAt(t, 1, m) /\ PlainAt(t, 2, x)
  <2>1. PICK u : /\ PlainToken(x) = <<u>> /\ u.text = x /\ u.type \in {"string", "primitive"}
                 /\ u.size = 0
    BY PlainTokenIs
  <2>2. PlainToken(x) \in Seq(TokenRecords)
    BY TakesPlain DEF Takes, Closed
  <2>3. Len(t) = 1 + Len(PlainToken(x)) /\ NameAt(t, 1, m) /\ Within(t, 1, PlainToken(x))
    BY <1>4, <1>5, <2>2
  <2> HIDE DEF t
  <2>4. Len(<<u>>) = 1 /\ <<u>>[1] = u /\ 1 \in 1 .. 1 /\ 1 + 1 = 2
    OBVIOUS
  <2>5. Len(t) = 2 /\ t[2] = u
    BY <2>1, <2>3, <2>4 DEF Within
  <2> QED  BY <2>1, <2>3, <2>5 DEF PlainAt
<1>6. ASSUME NEW fields \in Seq(Fields), t = Token("string", m, 1) \o ObjectTokens(fields)
      PROVE  /\ Len(fields) \in Nat /\ Len(t) = 2 + 2 * Len(fields)
             /\ NameAt(t, 1, m) /\ ObjectAt(t, 2, fields)
  <2> DEFINE v == ObjectTokens(fields)
             K == Len(fields)
  <2>1. Closed(v) /\ Len(v) = 1 + 2 * K /\ ObjectAt(v, 1, fields)
    BY ObjectLayout, Zenon
  <2>2. v \in Seq(TokenRecords)
    BY <2>1, Zenon DEF Closed
  <2>3. Len(v) \in Nat /\ Len(t) = 1 + Len(v) /\ NameAt(t, 1, m) /\ Within(t, 1, v)
    BY <1>4, <1>6, <2>2, Zenon
  <2>4. K \in Nat
    OBVIOUS
  <2> HIDE DEF t, v, K
  <2>5. 1 \in Nat \ {0} /\ 1 \in Nat /\ 1 + 2 * K <= Len(v)
    BY <2>1, <2>3, <2>4
  <2>6. ObjectAt(t, 1 + 1, fields)
    BY <2>1, <2>3, <2>5, ObjectShift, Zenon DEF K
  <2>7. 1 + 1 = 2 /\ Len(t) = 2 + 2 * K
    BY <2>1, <2>3, <2>4
  <2> QED  BY <2>3, <2>4, <2>6, <2>7 DEF K
<1>7. CASE m = "version"
  <2>1. t = Token("string", m, 1) \o PlainToken(f.version)
    BY <1>7 DEF MemberTokens
  <2>2. Len(t) = 2 /\ NameAt(t, 1, m) /\ PlainAt(t, 2, f.version)
    BY <1>1, <1>5, <2>1
  <2> HIDE DEF t
  <2>3. MemberAt(f, t, 1, Len(t) + 1, m, <<>>)
    BY <1>7, <2>2 DEF MemberAt
  <2> QED  BY <1>2, <2>2, <2>3 DEF t
<1>8. CASE m = "comment"
  <2>1. t = Token("string", m, 1) \o PlainToken(f.comment)
    BY <1>8 DEF MemberTokens
  <2>2. Len(t) = 2 /\ NameAt(t, 1, m) /\ PlainAt(t, 2, f.comment)
    BY <1>1, <1>5, <2>1
  <2> HIDE DEF t
  <2>3. MemberAt(f, t, 1, Len(t) + 1, m, <<>>)
    BY <1>8, <2>2 DEF MemberAt
  <2> QED  BY <1>2, <2>2, <2>3 DEF t
<1>9. CASE m = "gateway"
  <2>1. t = Token("string", m, 1) \o ObjectTokens(f.gateway)
    BY <1>9 DEF MemberTokens
  <2> DEFINE K == Len(f.gateway)
  <2>2. K \in Nat /\ Len(t) = 2 + 2 * K /\ NameAt(t, 1, m) /\ ObjectAt(t, 2, f.gateway)
    BY <1>1, <1>6, <2>1
  <2> HIDE DEF t, K
  <2>3. Len(t) >= 2 /\ Len(t) \in Nat /\ Len(t) + 1 = 1 + 2 + 2 * K /\ 1 + 1 = 2
    BY <2>2
  <2>4. MemberAt(f, t, 1, Len(t) + 1, m, <<>>)
    BY <1>9, <2>2, <2>3 DEF MemberAt, K
  <2> QED  BY <1>2, <2>3, <2>4 DEF t
<1>10. CASE m = "site"
  <2>1. t = Token("string", m, 1) \o ObjectTokens(f.site)
    BY <1>10 DEF MemberTokens
  <2> DEFINE K == Len(f.site)
  <2>2. K \in Nat /\ Len(t) = 2 + 2 * K /\ NameAt(t, 1, m) /\ ObjectAt(t, 2, f.site)
    BY <1>1, <1>6, <2>1
  <2> HIDE DEF t, K
  <2>3. Len(t) >= 2 /\ Len(t) \in Nat /\ Len(t) + 1 = 1 + 2 + 2 * K /\ 1 + 1 = 2
    BY <2>2
  <2>4. MemberAt(f, t, 1, Len(t) + 1, m, <<>>)
    BY <1>10, <2>2, <2>3 DEF MemberAt, K
  <2> QED  BY <1>2, <2>3, <2>4 DEF t
<1>11. CASE m = "devices"
  <2> DEFINE objects == f.devices
             N == Len(objects)
             body == FlattenSeq([n \in DOMAIN objects |-> ObjectTokens(objects[n])])
             v == Token("array", "", N) \o body
  <2>1. t = Token("string", m, 1) \o v
    BY <1>11 DEF MemberTokens
  <2> HIDE DEF t
  <2>2. PICK u \in TokenRecords :
          Token("array", "", N) = <<u>> /\ u.type = "array" /\ u.text = "" /\ u.size = N
    <3> DEFINE c == "array"
    <3>1. N \in Nat /\ c \in Containers
      BY <1>1 DEF Containers
    <3> HIDE DEF N, c
    <3>2. \E u \in TokenRecords : Token(c, "", N) = <<u>> /\ u.type = c /\ u.text = "" /\ u.size = N
      BY <3>1, HeadToken, Zenon
    <3> QED  BY <3>2, Zenon DEF c
  <2>3. body \in Seq(TokenRecords)
    <3> DEFINE ss == [n \in DOMAIN objects |-> ObjectTokens(objects[n])]
    <3>1. N \in Nat /\ DOMAIN objects = 1 .. N /\ \A n \in 1 .. N : objects[n] \in Seq(Fields)
      BY <1>1
    <3>2. \A n \in 1 .. N : ss[n] \in Seq(TokenRecords)
      BY <3>1, TakesObject DEF Takes, Closed
    <3>3. Along(objects, ss)
      BY DEF Along
    <3> DEFINE S == Seq(TokenRecords)
    <3>4. \A n \in 1 .. N : ss[n] \in S
      BY <3>2
    <3> HIDE DEF ss, S, N, objects
    <3>5. ss \in Seq(S)
      BY <3>1, <3>3, <3>4, AlongSeq, Zenon
    <3>6. ss \in Seq(Seq(TokenRecords))
      BY <3>5 DEF S
    <3>7. PICK g : /\ FlatSteps(ss, g) /\ \A n \in 0 .. Len(ss) : g[n] \in Seq(TokenRecords)
      BY <3>6, FlattenSteps
    <3>8. FlattenSeq(ss) = g[Len(ss)] /\ Len(ss) \in 0 .. Len(ss)
      BY <3>6, <3>7 DEF FlatSteps
    <3> QED  BY <3>7, <3>8 DEF ss
  <2>4. \E obj : ObjectsAt(objects, body, obj) /\ Len(body) \in Nat
    BY <1>1, DevicesLayout, Zenon
  <2> HIDE DEF body
  <2>5. PICK obj : ObjectsAt(objects, body, obj) /\ Len(body) \in Nat
    BY <2>4
  <2>6. v = <<u>> \o body
    BY <2>2
  <2> HIDE DEF v
  <2>7. v \in Seq(TokenRecords) /\ Len(v) = 1 + Len(body) /\ v[1] = u /\ Within(v, 1, body)
    BY <2>3, <2>6, Headed, Zenon
  <2>8. Len(v) \in Nat /\ Len(t) = 1 + Len(v) /\ NameAt(t, 1, m) /\ Within(t, 1, v)
    BY <1>4, <2>1, <2>7 DEF t
  <2> DEFINE b == Len(body)
  <2>9. b \in Nat /\ Len(t) = 2 + b /\ t[2] = u /\ Within(t, 2, body)
    <3> DEFINE a == Len(v)
    <3>1. a \in Nat /\ b \in Nat /\ a = 1 + b /\ Len(t) = 1 + a
      BY <2>5, <2>7, <2>8
    <3>2. /\ \A x \in 1 .. b : v[1 + x] = body[x]
          /\ \A x \in 1 .. a : t[1 + x] = v[x]
      BY <2>7, <2>8 DEF Within
    <3> HIDE DEF a, b
    <3>3. Len(t) = 2 + b
      BY <3>1
    <3>4. t[2] = u
      <4>1. 1 \in 1 .. a /\ 1 + 1 = 2
        BY <3>1
      <4> QED  BY <2>7, <3>2, <4>1
    <3>5. \A x \in 1 .. b : t[2 + x] = body[x]
      <4> TAKE x \in 1 .. b
      <4>1. 1 + x \in 1 .. a /\ 1 + (1 + x) = 2 + x
        BY <3>1
      <4> QED  BY <3>2, <4>1
    <3> QED  BY <3>1, <3>3, <3>4, <3>5 DEF Within, b
  <2> DEFINE there == [n \in 1 .. (N + 1) |-> 2 + obj[n]]
  <2>10. DevicesAt(f, t, 1 + 1, Len(t) + 1, there)
    <3>1. N \in Nat /\ \A n \in 1 .. N : objects[n] \in Seq(Fields)
      BY <1>1
    <3>2. /\ \A n \in 1 .. (N + 1) : obj[n] \in Nat \ {0}
          /\ obj[1] = 1 /\ obj[N + 1] = b + 1
          /\ \A n \in 1 .. N :
               /\ ObjectAt(body, obj[n], objects[n])
               /\ obj[n + 1] = obj[n] + 1 + 2 * Len(objects[n])
               /\ obj[n] + 2 * Len(objects[n]) <= b
      BY <2>5 DEF ObjectsAt
    <3>3. HeadAt(t, 2, "array", N)
      BY <2>2, <2>9 DEF HeadAt
    <3> HIDE DEF N, b
    <3>4. \A n \in 1 .. (N + 1) : there[n] = 2 + obj[n]
      OBVIOUS
    <3> HIDE DEF there
    <3>5. \A n \in 1 .. (N + 1) : there[n] \in Nat
      BY <3>2, <3>4
    <3>6. there[1] = 2 + 1 /\ there[N + 1] = Len(t) + 1
      <4>1. 1 \in 1 .. (N + 1) /\ N + 1 \in 1 .. (N + 1)
        BY <3>1
      <4>2. there[1] = 2 + obj[1] /\ there[N + 1] = 2 + obj[N + 1]
        BY <3>4, <4>1
      <4> QED  BY <2>9, <3>2, <4>2
    <3>7. ASSUME NEW n \in 1 .. N
          PROVE  /\ ObjectAt(t, there[n], objects[n])
                 /\ there[n + 1] = there[n] + 1 + 2 * Len(objects[n])
      <4> DEFINE fields == objects[n]
                 K == Len(fields)
                 c == obj[n]
      <4>1. n \in 1 .. (N + 1) /\ n + 1 \in 1 .. (N + 1)
        BY <3>1
      <4>2. fields \in Seq(Fields) /\ K \in Nat
        BY <3>1
      <4>3. /\ c \in Nat \ {0} /\ ObjectAt(body, c, fields) /\ obj[n + 1] = c + 1 + 2 * K
            /\ c + 2 * K <= b
        BY <3>2, <4>1, Zenon
      <4>4. there[n] = 2 + c /\ there[n + 1] = 2 + obj[n + 1]
        BY <3>4, <4>1
      <4>5. ObjectAt(t, 2 + c, fields)
        <5>1. c \in Nat \ {0} /\ Len(body) \in Nat /\ c + 2 * Len(fields) <= Len(body) /\ 2 \in Nat
          BY <2>5, <4>3 DEF b
        <5> HIDE DEF c, fields
        <5> QED  BY <2>9, <4>2, <4>3, <5>1, ObjectShift, Zenon
      <4>6. there[n + 1] = there[n] + 1 + 2 * K
        <5> HIDE DEF c, K
        <5> QED  BY <4>2, <4>3, <4>4
      <4> QED  BY <4>4, <4>5, <4>6
    <3>8. 1 + 1 = 2
      OBVIOUS
    <3> QED  BY <3>3, <3>5, <3>6, <3>7, <3>8, Zenon DEF DevicesAt, N
  <2> HIDE DEF there
  <2>11. MemberAt(f, t, 1, Len(t) + 1, m, there)
    BY <1>11, <2>8, <2>10 DEF MemberAt
  <2>12. Len(t) >= 2 /\ Len(t) \in Nat
    <3> HIDE DEF b
    <3> QED  BY <2>9
  <2> QED  BY <1>2, <2>11, <2>12 DEF t
<1> QED  BY <1>7, <1>8, <1>9, <1>10, <1>11 DEF Members

\* What never falls from one place to the next.
LEMMA NeverFalls ==
  ASSUME NEW N \in Nat, NEW h, \A k \in 1 .. (N + 1) : h[k] \in Nat,
         \A k \in 1 .. N : h[k] <= h[k + 1],
         NEW m \in 1 .. (N + 1), NEW n \in 1 .. (N + 1), m <= n
  PROVE  h[m] <= h[n]
<1> DEFINE T == {x \in Nat : m + x <= N + 1 => h[m] <= h[m + x]}
<1>1. 0 \in T
  <2>1. m + 0 = m /\ h[m] \in Nat
    OBVIOUS
  <2> QED  BY <2>1
<1>2. ASSUME NEW x \in T PROVE x + 1 \in T
  <2>1. SUFFICES ASSUME m + (x + 1) <= N + 1 PROVE h[m] <= h[m + (x + 1)]
    OBVIOUS
  <2>2. m + x \in 1 .. N /\ m + (x + 1) = (m + x) + 1 /\ m + x <= N + 1
    BY <2>1
  <2> DEFINE y == m + x
  <2>3. h[m] <= h[y]
    BY <2>2
  <2>4. y \in 1 .. N /\ y \in 1 .. (N + 1) /\ y + 1 \in 1 .. (N + 1) /\ m + (x + 1) = y + 1
    BY <2>2
  <2> HIDE DEF y
  <2>5. h[y] \in Nat /\ h[y + 1] \in Nat /\ h[m] \in Nat /\ h[y] <= h[y + 1]
    BY <2>4
  <2> QED  BY <2>3, <2>4, <2>5
<1>3. T \subseteq Nat
  OBVIOUS
<1>4. n - m \in T
  <2> HIDE DEF T
  <2>1. T = Nat
    BY <1>1, <1>2, <1>3, AllNaturals
  <2>2. n - m \in Nat
    OBVIOUS
  <2> QED  BY <2>1, <2>2
<1>5. m + (n - m) = n
  OBVIOUS
<1> QED  BY <1>4, <1>5

\* Every place between the first and the last is in one of the parts.
LEMMA Covered ==
  ASSUME NEW N \in Nat, NEW h, \A k \in 1 .. (N + 1) : h[k] \in Nat,
         NEW x \in Nat, h[1] <= x, x < h[N + 1]
  PROVE  \E k \in 1 .. N : h[k] <= x /\ x < h[k + 1]
<1> DEFINE U == {k \in Nat : k \in 1 .. (N + 1) /\ x < h[k]}
<1>1. N + 1 \in U
  OBVIOUS
<1>2. PICK k \in U : \A y \in U : k <= y
  <2>1. U \in SUBSET Nat /\ U # {}
    BY <1>1
  <2> HIDE DEF U
  <2> QED  BY <2>1, LeastNatural
<1>3. k \in 1 .. (N + 1) /\ x < h[k]
  BY <1>2
<1>4. k # 1
  BY <1>3
<1>5. k - 1 \in 1 .. N /\ (k - 1) + 1 = k /\ k - 1 \in 1 .. (N + 1)
  BY <1>3, <1>4
<1>6. ~(x < h[k - 1])
  <2>1. k - 1 \in Nat
    BY <1>5
  <2>2. ~(k <= k - 1)
    BY <1>3
  <2>3. k - 1 \notin U
    <3> HIDE DEF U
    <3> QED  BY <1>2, <2>2
  <2> QED  BY <1>5, <2>1, <2>3
<1>7. h[k - 1] \in Nat
  BY <1>5
<1>8. h[k - 1] <= x
  BY <1>6, <1>7
<1> QED  BY <1>3, <1>5, <1>8

\* The tokens of a member, further on.
LEMMA MemberShift ==
  ASSUME NEW f, IsFile(f), NEW m \in Members, NEW t, Len(t) \in Nat, NEW obj,
         MemberAt(f, t, 1, Len(t) + 1, m, obj),
         NEW T, NEW c \in Nat, Within(T, c, t), Len(t) >= 2
  PROVE  \E there : MemberAt(f, T, c + 1, c + Len(t) + 1, m, there)
<1> DEFINE M == Len(t)
<1>1. /\ f.gateway \in Seq(Fields) /\ f.site \in Seq(Fields)
      /\ f.devices \in Seq(Seq(Fields)) /\ M \in Nat /\ M >= 2
  BY DEF IsFile
<1>2. /\ NameAt(t, 1, m)
      /\ m = "version" => M + 1 = 1 + 2 /\ PlainAt(t, 1 + 1, f.version)
      /\ m = "comment" => M + 1 = 1 + 2 /\ PlainAt(t, 1 + 1, f.comment)
      /\ m = "gateway" => M + 1 = 1 + 2 + 2 * Len(f.gateway) /\ ObjectAt(t, 1 + 1, f.gateway)
      /\ m = "site"    => M + 1 = 1 + 2 + 2 * Len(f.site) /\ ObjectAt(t, 1 + 1, f.site)
      /\ m = "devices" => DevicesAt(f, t, 1 + 1, M + 1, obj)
  BY DEF MemberAt
<1>3. \A x \in 1 .. M : T[c + x] = t[x]
  BY DEF Within
<1>4. NameAt(T, c + 1, m)
  <2>1. 1 \in 1 .. M
    BY <1>1
  <2> QED  BY <1>2, <1>3, <2>1 DEF NameAt
<1>5. ASSUME NEW x, PlainAt(t, 1 + 1, x) PROVE PlainAt(T, (c + 1) + 1, x)
  <2>1. 1 + 1 \in 1 .. M /\ c + (1 + 1) = (c + 1) + 1
    BY <1>1
  <2> QED  BY <1>3, <1>5, <2>1 DEF PlainAt
<1>6. ASSUME NEW fields \in Seq(Fields), M + 1 = 1 + 2 + 2 * Len(fields),
             ObjectAt(t, 1 + 1, fields)
      PROVE  ObjectAt(T, (c + 1) + 1, fields)
             /\ c + M + 1 = (c + 1) + 2 + 2 * Len(fields)
  <2> DEFINE K == Len(fields)
  <2>1. K \in Nat /\ M + 1 = 1 + 2 + 2 * K
    BY <1>6
  <2>2. 1 + 1 \in Nat \ {0} /\ 1 + 1 + 2 * K <= M /\ c + (1 + 1) = (c + 1) + 1
        /\ c + M + 1 = (c + 1) + 2 + 2 * K
    <3> HIDE DEF K, M
    <3> QED  BY <1>1, <2>1
  <2>3. ObjectAt(T, c + (1 + 1), fields)
    BY <1>6, <2>2, ObjectShift, Zenon
  <2> QED  BY <2>2, <2>3
<1> HIDE DEF M
<1>7. CASE m = "version"
  <2>1. c + M + 1 = (c + 1) + 2
    BY <1>1, <1>2, <1>7
  <2>2. MemberAt(f, T, c + 1, c + M + 1, m, <<>>)
    BY <1>2, <1>4, <1>5, <1>7, <2>1 DEF MemberAt
  <2> QED  BY <2>2 DEF M
<1>8. CASE m = "comment"
  <2>1. c + M + 1 = (c + 1) + 2
    BY <1>1, <1>2, <1>8
  <2>2. MemberAt(f, T, c + 1, c + M + 1, m, <<>>)
    BY <1>2, <1>4, <1>5, <1>8, <2>1 DEF MemberAt
  <2> QED  BY <2>2 DEF M
<1>9. CASE m = "gateway"
  <2>1. ObjectAt(T, (c + 1) + 1, f.gateway) /\ c + M + 1 = (c + 1) + 2 + 2 * Len(f.gateway)
    BY <1>1, <1>2, <1>6, <1>9
  <2>2. MemberAt(f, T, c + 1, c + M + 1, m, <<>>)
    BY <1>4, <1>9, <2>1 DEF MemberAt
  <2> QED  BY <2>2 DEF M
<1>10. CASE m = "site"
  <2>1. ObjectAt(T, (c + 1) + 1, f.site) /\ c + M + 1 = (c + 1) + 2 + 2 * Len(f.site)
    BY <1>1, <1>2, <1>6, <1>10
  <2>2. MemberAt(f, T, c + 1, c + M + 1, m, <<>>)
    BY <1>4, <1>10, <2>1 DEF MemberAt
  <2> QED  BY <2>2 DEF M
<1>11. CASE m = "devices"
  <2> DEFINE objects == f.devices
             N == Len(objects)
             there == [n \in 1 .. (N + 1) |-> c + obj[n]]
  <2>1. N \in Nat /\ \A n \in 1 .. N : objects[n] \in Seq(Fields)
    BY <1>1
  <2>2. /\ HeadAt(t, 1 + 1, "array", N)
        /\ \A n \in 1 .. (N + 1) : obj[n] \in Nat
        /\ obj[1] = 1 + 1 + 1 /\ obj[N + 1] = M + 1
        /\ \A n \in 1 .. N :
             /\ ObjectAt(t, obj[n], objects[n])
             /\ obj[n + 1] = obj[n] + 1 + 2 * Len(objects[n])
    BY <1>2, <1>11 DEF DevicesAt
  <2> HIDE DEF N, objects
  <2>3. \A n \in 1 .. (N + 1) : there[n] = c + obj[n]
    OBVIOUS
  <2> HIDE DEF there
  <2>4. \A n \in 1 .. N : Len(objects[n]) \in Nat
    BY <2>1
  <2>5. \A n \in 1 .. N : obj[n] <= obj[n + 1]
    <3> TAKE n \in 1 .. N
    <3> DEFINE K == Len(objects[n])
    <3>1. K \in Nat /\ obj[n] \in Nat /\ obj[n + 1] = obj[n] + 1 + 2 * K
      <4>1. n \in 1 .. (N + 1)
        BY <2>1
      <4> QED  BY <2>2, <2>4, <4>1
    <3> HIDE DEF K
    <3> QED  BY <3>1
  <2>6. \A n \in 1 .. (N + 1) : obj[1] <= obj[n] /\ obj[n] <= obj[N + 1]
    <3> TAKE n \in 1 .. (N + 1)
    <3>1. 1 \in 1 .. (N + 1) /\ N + 1 \in 1 .. (N + 1) /\ 1 <= n /\ n <= N + 1
      BY <2>1
    <3>2. \A k \in 1 .. (N + 1) : obj[k] \in Nat
      BY <2>2
    <3> QED  BY <2>1, <2>5, <3>1, <3>2, NeverFalls
  <2>7. HeadAt(T, (c + 1) + 1, "array", N)
    <3>1. 1 + 1 \in 1 .. M /\ c + (1 + 1) = (c + 1) + 1
      BY <1>1
    <3> QED  BY <1>3, <2>2, <3>1 DEF HeadAt, M
  <2>8. \A n \in 1 .. (N + 1) : there[n] \in Nat
    BY <2>2, <2>3
  <2>9. there[1] = (c + 1) + 1 + 1 /\ there[N + 1] = c + M + 1
    <3>1. 1 \in 1 .. (N + 1) /\ N + 1 \in 1 .. (N + 1)
      BY <2>1
    <3>2. there[1] = c + obj[1] /\ there[N + 1] = c + obj[N + 1]
      BY <2>3, <3>1
    <3> QED  BY <1>1, <2>2, <3>2
  <2>10. ASSUME NEW n \in 1 .. N
         PROVE  /\ ObjectAt(T, there[n], objects[n])
                /\ there[n + 1] = there[n] + 1 + 2 * Len(objects[n])
    <3> DEFINE fields == objects[n]
               K == Len(fields)
               d == obj[n]
    <3>1. n \in 1 .. (N + 1) /\ n + 1 \in 1 .. (N + 1)
      BY <2>1
    <3>2. fields \in Seq(Fields) /\ K \in Nat
      BY <2>1, <2>4
    <3>3. d \in Nat /\ ObjectAt(t, d, fields) /\ obj[n + 1] = d + 1 + 2 * K
      BY <2>2, <3>1, Zenon
    <3>4. obj[n + 1] <= M + 1 /\ 3 <= d
      <4>1. obj[n + 1] <= obj[N + 1] /\ obj[1] <= d
        BY <2>6, <3>1
      <4> QED  BY <2>2, <4>1
    <3>5. there[n] = c + d /\ there[n + 1] = c + obj[n + 1]
      BY <2>3, <3>1
    <3>6. ObjectAt(T, c + d, fields)
      <4>1. d \in Nat \ {0} /\ Len(t) \in Nat /\ d + 2 * Len(fields) <= Len(t)
        <5>1. d \in Nat \ {0} /\ d + 2 * K <= M /\ M \in Nat
          <6> HIDE DEF K, d
          <6> QED  BY <1>1, <3>2, <3>3, <3>4
        <5> QED  BY <5>1 DEF M
      <4> HIDE DEF fields, d
      <4> QED  BY <3>2, <3>3, <4>1, ObjectShift, Zenon
    <3>7. there[n + 1] = there[n] + 1 + 2 * K
      <4> HIDE DEF K, d
      <4> QED  BY <3>2, <3>3, <3>5
    <3> QED  BY <3>5, <3>6, <3>7
  <2>11. DevicesAt(f, T, (c + 1) + 1, c + M + 1, there)
    BY <2>7, <2>8, <2>9, <2>10, Zenon DEF DevicesAt, N, objects
  <2>12. MemberAt(f, T, c + 1, c + M + 1, m, there)
    BY <1>4, <1>11, <2>11 DEF MemberAt
  <2> QED  BY <2>12 DEF M
<1> QED  BY <1>7, <1>8, <1>9, <1>10, <1>11 DEF Members

\* Where the members and the devices of a file stand among its tokens.
Plan(f) == CHOOSE p : IsPlan(f, p)

LEMMA PlanExists ==
  ASSUME NEW f, IsFile(f)
  PROVE  IsPlan(f, Plan(f)) /\ Closed(Tokens(f))
<1> DEFINE M == Len(f.order)
           ss == [k \in DOMAIN f.order |-> MemberTokens(f, f.order[k])]
           body == FlattenSeq(ss)
           T == Tokens(f)
<1>1. /\ M \in Nat /\ DOMAIN f.order = 1 .. M /\ \A k \in 1 .. M : f.order[k] \in Members
      /\ \A k, n \in 1 .. M : f.order[k] = f.order[n] => k = n
  BY DEF IsFile
<1>2. Closed(T) /\ T \in Seq(TokenRecords)
  <2>1. Closed(T)
    BY TextReads
  <2> QED  BY <2>1 DEF Closed
<1>3. T = Token("object", "", M) \o body
  BY Zenon DEF Tokens
<1> HIDE DEF M
<1>4. PICK r \in TokenRecords :
        Token("object", "", M) = <<r>> /\ r.type = "object" /\ r.text = "" /\ r.size = M
  <2> DEFINE c == "object"
  <2>1. M \in Nat /\ c \in Containers
    BY <1>1 DEF Containers
  <2> HIDE DEF c
  <2>2. \E u \in TokenRecords : Token(c, "", M) = <<u>> /\ u.type = c /\ u.text = "" /\ u.size = M
    BY <2>1, HeadToken, Zenon
  <2> QED  BY <2>2, Zenon DEF c
<1>5. ASSUME NEW k \in 1 .. M
      PROVE  /\ ss[k] \in Seq(TokenRecords) /\ Len(ss[k]) >= 2 /\ Len(ss[k]) \in Nat
             /\ \E obj : MemberAt(f, ss[k], 1, Len(ss[k]) + 1, f.order[k], obj)
  <2>1. f.order[k] \in Members /\ ss[k] = MemberTokens(f, f.order[k])
    BY <1>1
  <2> DEFINE m == f.order[k]
             t == MemberTokens(f, m)
  <2>2. /\ Closed(t) /\ Len(t) >= 2 /\ Len(t) \in Nat
        /\ \E obj : MemberAt(f, t, 1, Len(t) + 1, m, obj)
    BY <2>1, MemberLayout, Zenon
  <2>3. t \in Seq(TokenRecords)
    BY <2>2, Zenon DEF Closed
  <2> HIDE DEF ss, t
  <2> QED  BY <2>1, <2>2, <2>3, Zenon DEF t
<1>6. ss \in Seq(Seq(TokenRecords)) /\ Len(ss) = M
  <2> DEFINE S == Seq(TokenRecords)
  <2>1. Along(f.order, ss)
    BY DEF Along
  <2>2. \A n \in 1 .. M : ss[n] \in S
    BY <1>5
  <2> HIDE DEF ss, S
  <2>3. M \in Nat /\ DOMAIN f.order = 1 .. M
    BY <1>1
  <2>4. ss \in Seq(S)
    BY <2>1, <2>2, <2>3, AlongSeq, Zenon
  <2>5. Len(ss) = M
    BY <2>1, <2>2, <2>3, AlongSeq, Zenon
  <2> QED  BY <2>4, <2>5 DEF S
<1> HIDE DEF ss
<1>7. PICK st : /\ \A k \in 0 .. M : st[k] \in Nat
                /\ st[0] = 0 /\ st[M] = Len(body)
                /\ \A k \in 1 .. M :
                     /\ st[k] = st[k - 1] + Len(ss[k])
                     /\ \A j \in 1 .. Len(ss[k]) : body[st[k - 1] + j] = ss[k][j]
  <2> DEFINE P(m) == \E st : /\ \A k \in 0 .. m : st[k] \in Nat
                             /\ st[0] = 0 /\ st[m] = Len(body)
                             /\ \A k \in 1 .. m :
                                  /\ st[k] = st[k - 1] + Len(ss[k])
                                  /\ \A j \in 1 .. Len(ss[k]) :
                                       body[st[k - 1] + j] = ss[k][j]
  <2>1. \E st : Starts(ss, body, st)
    <3>1. ss \in Seq(Seq(TokenRecords))
      BY <1>6
    <3> QED  BY <3>1, FlatStarts, Zenon
  <2>2. P(Len(ss))
    <3>1. PICK st : Starts(ss, body, st)
      BY <2>1
    <3>2. /\ \A k \in 0 .. Len(ss) : st[k] \in Nat
          /\ st[0] = 0 /\ st[Len(ss)] = Len(body)
          /\ \A k \in 1 .. Len(ss) :
               /\ st[k] = st[k - 1] + Len(ss[k])
               /\ \A j \in 1 .. Len(ss[k]) : body[st[k - 1] + j] = ss[k][j]
      BY <3>1 DEF Starts
    <3> QED  BY <3>2, ZenonT(60)
  <2>3. P(M)
    <3> HIDE DEF P
    <3> QED  BY <1>6, <2>2
  <2> QED  BY <2>3
<1>8. body \in Seq(TokenRecords)
  <2>1. PICK g : /\ FlatSteps(ss, g) /\ \A n \in 0 .. Len(ss) : g[n] \in Seq(TokenRecords)
    BY <1>6, FlattenSteps
  <2>2. body = g[Len(ss)] /\ Len(ss) \in 0 .. Len(ss)
    BY <1>1, <1>6, <2>1 DEF FlatSteps
  <2> QED  BY <2>1, <2>2
<1> HIDE DEF body
<1>9. T = <<r>> \o body
  BY <1>3, <1>4
<1> HIDE DEF T
<1>10. Len(body) \in Nat /\ Len(T) = 1 + Len(body) /\ T[1] = r /\ Within(T, 1, body)
  BY <1>8, <1>9, Headed, Zenon
<1> DEFINE at == [k \in 1 .. (M + 1) |-> st[k - 1] + 2]
<1>11. \A k \in 1 .. (M + 1) : at[k] = st[k - 1] + 2 /\ st[k - 1] \in Nat /\ at[k] \in Nat
  <2> TAKE k \in 1 .. (M + 1)
  <2>1. k - 1 \in 0 .. M
    BY <1>1
  <2>2. st[k - 1] \in Nat
    BY <1>7, <2>1
  <2> QED  BY <2>2
<1> HIDE DEF at
<1>12. at[1] = 2 /\ at[M + 1] = Len(T) + 1
  <2>1. 1 \in 1 .. (M + 1) /\ M + 1 \in 1 .. (M + 1) /\ 1 - 1 = 0 /\ (M + 1) - 1 = M
    BY <1>1
  <2>2. at[1] = st[0] + 2 /\ at[M + 1] = st[M] + 2
    BY <1>11, <2>1
  <2> QED  BY <1>7, <1>10, <2>2
<1>13. ASSUME NEW k \in 1 .. M
       PROVE  /\ k \in 1 .. (M + 1) /\ k + 1 \in 1 .. (M + 1)
              /\ at[k + 1] = at[k] + Len(ss[k]) /\ at[k + 1] >= at[k] + 2
              /\ \E there : MemberAt(f, T, at[k], at[k + 1], f.order[k], there)
  <2> DEFINE c == st[k - 1] + 1
             t == ss[k]
             m == f.order[k]
             d == Len(t)
  <2>1. k \in 1 .. (M + 1) /\ k + 1 \in 1 .. (M + 1) /\ (k + 1) - 1 = k
    BY <1>1
  <2>2. st[k] = st[k - 1] + d /\ d >= 2 /\ d \in Nat /\ st[k - 1] \in Nat /\ st[k] \in Nat
    BY <1>5, <1>7, <1>11, <2>1
  <2>3. at[k] = st[k - 1] + 2 /\ at[k + 1] = st[k] + 2
    BY <1>11, <2>1
  <2>4. c \in Nat /\ at[k] = c + 1 /\ at[k + 1] = c + d + 1 /\ at[k + 1] = at[k] + d
        /\ at[k + 1] >= at[k] + 2
    <3> HIDE DEF d
    <3> QED  BY <2>2, <2>3
  <2>5. Within(T, c, t)
    <3> DEFINE b == Len(body)
               s == st[k - 1]
    <3>1. \A x \in 1 .. b : T[1 + x] = body[x]
      BY <1>10 DEF Within
    <3>2. \A x \in 1 .. d : body[s + x] = t[x]
      BY <1>7
    <3>3. b \in Nat /\ s \in Nat /\ st[k] = s + d /\ d \in Nat /\ c = s + 1
      BY <1>10, <2>2
    <3>4. st[k] <= b
      <4>1. \A n \in 1 .. M : at[n] <= at[n + 1]
        <5> TAKE n \in 1 .. M
        <5> DEFINE e == Len(ss[n])
        <5>1. n \in 1 .. (M + 1) /\ n + 1 \in 1 .. (M + 1) /\ (n + 1) - 1 = n
          BY <1>1
        <5>2. at[n] = st[n - 1] + 2 /\ at[n + 1] = st[n] + 2 /\ st[n] = st[n - 1] + e
              /\ e \in Nat /\ st[n - 1] \in Nat
          BY <1>5, <1>7, <1>11, <5>1
        <5> HIDE DEF e
        <5> QED  BY <5>2
      <4>2. M + 1 \in 1 .. (M + 1) /\ k + 1 <= M + 1
        BY <1>1
      <4>3. at[k + 1] <= at[M + 1]
        BY <1>1, <1>11, <2>1, <4>1, <4>2, NeverFalls
      <4>4. at[M + 1] = b + 2
        BY <1>10, <1>12
      <4> HIDE DEF b
      <4> QED  BY <2>2, <2>3, <3>3, <4>3, <4>4
    <3> HIDE DEF b, s, d, c
    <3>5. ASSUME NEW x \in 1 .. d PROVE T[c + x] = t[x]
      <4>1. s + x \in 1 .. b /\ 1 + (s + x) = c + x
        BY <3>3, <3>4
      <4>2. T[1 + (s + x)] = body[s + x]
        BY <3>1, <4>1
      <4> QED  BY <3>2, <4>1, <4>2
    <3> QED  BY <3>5 DEF Within, d
  <2>6. PICK obj : MemberAt(f, t, 1, Len(t) + 1, m, obj)
    BY <1>5
  <2>7. m \in Members
    BY <1>1
  <2>8. \E there : MemberAt(f, T, c + 1, c + Len(t) + 1, m, there)
    <3> HIDE DEF c, m, t
    <3> QED  BY <2>2, <2>4, <2>5, <2>6, <2>7, MemberShift, Zenon
  <2> QED  BY <2>1, <2>4, <2>8
<1>14. \E obj : \A k \in 1 .. M : MemberAt(f, T, at[k], at[k + 1], f.order[k], obj)
  <2>1. ASSUME NEW k \in 1 .. M, f.order[k] # "devices", NEW o, NEW p,
               MemberAt(f, T, at[k], at[k + 1], f.order[k], o)
        PROVE  MemberAt(f, T, at[k], at[k + 1], f.order[k], p)
    BY <2>1 DEF MemberAt
  <2>2. CASE \E k \in 1 .. M : f.order[k] = "devices"
    <3>1. PICK k \in 1 .. M : f.order[k] = "devices"
      BY <2>2
    <3>2. PICK obj : MemberAt(f, T, at[k], at[k + 1], f.order[k], obj)
      BY <1>13
    <3>3. ASSUME NEW n \in 1 .. M
          PROVE  MemberAt(f, T, at[n], at[n + 1], f.order[n], obj)
      <4>1. CASE n = k
        BY <3>2, <4>1
      <4>2. CASE n # k
        <5>1. f.order[n] # "devices"
          BY <1>1, <3>1, <4>2
        <5>2. PICK o : MemberAt(f, T, at[n], at[n + 1], f.order[n], o)
          BY <1>13
        <5> QED  BY <2>1, <5>1, <5>2
      <4> QED  BY <4>1, <4>2
    <3> QED  BY <3>3
  <2>3. CASE ~ \E k \in 1 .. M : f.order[k] = "devices"
    <3>1. ASSUME NEW n \in 1 .. M
          PROVE  MemberAt(f, T, at[n], at[n + 1], f.order[n], <<>>)
      <4>1. PICK o : MemberAt(f, T, at[n], at[n + 1], f.order[n], o)
        BY <1>13
      <4> QED  BY <2>1, <2>3, <4>1
    <3> QED  BY <3>1
  <2> QED  BY <2>2, <2>3
<1>15. PICK obj : \A k \in 1 .. M : MemberAt(f, T, at[k], at[k + 1], f.order[k], obj)
  BY <1>14
<1> DEFINE p == [at |-> at, obj |-> obj]
<1>16. p.at = at /\ p.obj = obj
  OBVIOUS
<1> HIDE DEF p
<1>17. HeadAt(T, 1, "object", M)
  BY <1>4, <1>10 DEF HeadAt
<1>18. IsPlan(f, p)
  <2>1. \A k \in 1 .. (M + 1) : p.at[k] \in Nat
    BY <1>11, <1>16
  <2>2. p.at[1] = 2 /\ p.at[M + 1] = Len(T) + 1
    BY <1>12, <1>16
  <2>3. \A k \in 1 .. M :
          /\ p.at[k + 1] >= p.at[k] + 2
          /\ MemberAt(f, T, p.at[k], p.at[k + 1], f.order[k], p.obj)
    BY <1>13, <1>15, <1>16
  <2> QED  BY <1>17, <2>1, <2>2, <2>3 DEF IsPlan, M, T
<1>19. IsPlan(f, Plan(f))
  BY <1>18, Zenon DEF Plan
<1> QED  BY <1>2, <1>19 DEF T

\* The number of a member, 0 if the file does not have it.
LEMMA PositionIs ==
  ASSUME NEW f, IsFile(f), NEW m \in Members
  PROVE  /\ Position(f, m) \in 0 .. Len(f.order)
         /\ Position(f, m) > 0 => f.order[Position(f, m)] = m
         /\ \A k \in 1 .. Len(f.order) : f.order[k] = m => k = Position(f, m)
<1> DEFINE M == Len(f.order)
           Is(k) == IF m \in ToSet(f.order) THEN k > 0 /\ f.order[k] = m ELSE k = 0
<1>1. /\ M \in Nat /\ DOMAIN f.order = 1 .. M
      /\ \A k, n \in 1 .. M : f.order[k] = f.order[n] => k = n
  BY DEF IsFile
<1> HIDE DEF M
<1>2. m \in ToSet(f.order) <=> \E k \in 1 .. M : f.order[k] = m
  BY <1>1 DEF ToSet
<1>3. \E k \in 0 .. M : Is(k)
  <2>1. CASE m \in ToSet(f.order)
    <3>1. PICK k \in 1 .. M : f.order[k] = m
      BY <1>2, <2>1
    <3>2. k \in 0 .. M /\ k > 0
      BY <1>1
    <3> QED  BY <2>1, <3>1, <3>2
  <2>2. CASE m \notin ToSet(f.order)
    <3>1. 0 \in 0 .. M
      BY <1>1
    <3> QED  BY <2>2, <3>1
  <2> QED  BY <2>1, <2>2
<1>4. Position(f, m) \in 0 .. M /\ Is(Position(f, m))
  <2>1. Position(f, m) = CHOOSE k \in 0 .. M : Is(k)
    BY Zenon DEF Position, M
  <2> HIDE DEF Is
  <2> QED  BY <1>3, <2>1
<1> DEFINE p == Position(f, m)
<1> HIDE DEF p
<1>5. p \in 0 .. M /\ Is(p)
  BY <1>4 DEF p
<1>6. p > 0 => f.order[p] = m
  <2>1. SUFFICES ASSUME p > 0 PROVE f.order[p] = m
    OBVIOUS
  <2>2. p # 0
    BY <1>5, <2>1
  <2> QED  BY <1>5, <2>2
<1>7. ASSUME NEW k \in 1 .. M, f.order[k] = m PROVE k = p
  <2>1. m \in ToSet(f.order)
    BY <1>2, <1>7
  <2>2. p > 0 /\ f.order[p] = m
    BY <1>5, <2>1
  <2>3. p \in 1 .. M
    BY <1>1, <1>5, <2>2
  <2> QED  BY <1>1, <1>7, <2>2, <2>3
<1> QED  BY <1>5, <1>6, <1>7 DEF p, M

\* Whether the file has a member, where it begins and ends, and where the devices begin.
Has(f, m) == Position(f, m) > 0
At(f, m) == Plan(f).at[Position(f, m)]
Ends(f, m) == Plan(f).at[Position(f, m) + 1]
Obj(f, n) == Plan(f).obj[n]

\* A member, where it stands.
LEMMA MemberStands ==
  ASSUME NEW f, IsFile(f), NEW m \in Members, Has(f, m)
  PROVE  /\ At(f, m) \in Nat /\ Ends(f, m) \in Nat
         /\ At(f, m) >= 2 /\ Ends(f, m) >= At(f, m) + 2 /\ Ends(f, m) <= Len(Tokens(f)) + 1
         /\ MemberAt(f, Tokens(f), At(f, m), Ends(f, m), m, Plan(f).obj)
         /\ Len(Tokens(f)) \in Nat
<1> DEFINE M == Len(f.order)
           L == Len(Tokens(f))
           p == Position(f, m)
           at == Plan(f).at
<1>1. M \in Nat
  BY DEF IsFile
<1>2. p \in 1 .. M /\ f.order[p] = m
  BY <1>1, PositionIs DEF Has
<1>3. /\ \A k \in 1 .. (M + 1) : at[k] \in Nat
      /\ at[1] = 2 /\ at[M + 1] = L + 1
      /\ \A k \in 1 .. M : /\ at[k + 1] >= at[k] + 2
                           /\ MemberAt(f, Tokens(f), at[k], at[k + 1], f.order[k], Plan(f).obj)
  BY PlanExists DEF IsPlan
<1>4. L \in Nat
  <2>1. Tokens(f) \in Seq(TokenRecords)
    BY PlanExists DEF Closed
  <2> QED  BY <2>1
<1> HIDE DEF M, L, p, at
<1>5. /\ p \in 1 .. (M + 1) /\ p + 1 \in 1 .. (M + 1) /\ 1 \in 1 .. (M + 1)
      /\ M + 1 \in 1 .. (M + 1) /\ 1 <= p /\ p + 1 <= M + 1
  BY <1>1, <1>2
<1>6. \A k \in 1 .. M : at[k] <= at[k + 1]
  <2> TAKE k \in 1 .. M
  <2>1. k \in 1 .. (M + 1) /\ k + 1 \in 1 .. (M + 1)
    BY <1>1
  <2>2. at[k] \in Nat /\ at[k + 1] \in Nat /\ at[k + 1] >= at[k] + 2
    BY <1>3, <2>1
  <2> QED  BY <2>2
<1>7. at[1] <= at[p] /\ at[p + 1] <= at[M + 1]
  BY <1>1, <1>3, <1>5, <1>6, NeverFalls
<1>8. /\ at[p] \in Nat /\ at[p + 1] \in Nat /\ at[p] >= 2 /\ at[p + 1] >= at[p] + 2
      /\ at[p + 1] <= L + 1
      /\ MemberAt(f, Tokens(f), at[p], at[p + 1], m, Plan(f).obj)
  BY <1>2, <1>3, <1>4, <1>5, <1>7
<1> QED  BY <1>4, <1>8 DEF At, Ends, L, p, at

\* Members stand in their order, one right behind the other.
LEMMA MembersApart ==
  ASSUME NEW f, IsFile(f), NEW m \in Members, NEW n \in Members, Has(f, m), Has(f, n)
  PROVE  /\ Position(f, m) < Position(f, n) => Ends(f, m) <= At(f, n)
         /\ Position(f, m) + 1 = Position(f, n) => Ends(f, m) = At(f, n)
         /\ Position(f, m) + 1 < Position(f, n) => Ends(f, m) + 2 <= At(f, n)
         /\ m # n => Position(f, m) < Position(f, n) \/ Position(f, n) < Position(f, m)
         /\ Position(f, m) \in Nat /\ Position(f, n) \in Nat
<1> DEFINE M == Len(f.order)
           p == Position(f, m)
           q == Position(f, n)
           at == Plan(f).at
<1>1. M \in Nat
  BY DEF IsFile
<1>2. p \in 1 .. M /\ f.order[p] = m /\ q \in 1 .. M /\ f.order[q] = n
  BY <1>1, PositionIs DEF Has
<1>3. /\ \A k \in 1 .. (M + 1) : at[k] \in Nat
      /\ \A k \in 1 .. M : at[k + 1] >= at[k] + 2
  BY PlanExists DEF IsPlan
<1> HIDE DEF M, p, q, at
<1>4. p + 1 \in 1 .. (M + 1) /\ q \in 1 .. (M + 1)
  BY <1>1, <1>2
<1>5. \A k \in 1 .. M : at[k] <= at[k + 1]
  <2> TAKE k \in 1 .. M
  <2>1. k \in 1 .. (M + 1) /\ k + 1 \in 1 .. (M + 1)
    BY <1>1
  <2>2. at[k] \in Nat /\ at[k + 1] \in Nat /\ at[k + 1] >= at[k] + 2
    BY <1>3, <2>1
  <2> QED  BY <2>2
<1>6. ASSUME p < q PROVE at[p + 1] <= at[q]
  <2>1. p + 1 <= q
    BY <1>2, <1>6
  <2> QED  BY <1>1, <1>3, <1>4, <1>5, <2>1, NeverFalls
<1>9. ASSUME p + 1 < q PROVE at[p + 1] + 2 <= at[q]
  <2>1. p + 2 <= q /\ p + 1 \in 1 .. M /\ p + 2 \in 1 .. (M + 1)
    BY <1>1, <1>2, <1>9
  <2>2. at[p + 2] <= at[q]
    BY <1>1, <1>3, <1>4, <1>5, <2>1, NeverFalls
  <2>3. at[p + 2] >= at[p + 1] + 2
    <3>1. (p + 1) + 1 = p + 2
      BY <1>2
    <3> QED  BY <1>3, <2>1, <3>1
  <2>4. at[p + 2] \in Nat /\ at[p + 1] \in Nat /\ at[q] \in Nat
    BY <1>3, <1>4, <2>1
  <2> QED  BY <2>2, <2>3, <2>4
<1>7. m # n => p < q \/ q < p
  BY <1>2
<1>8. p \in Nat /\ q \in Nat /\ (p + 1 = q => at[p + 1] = at[q])
  BY <1>2
<1> QED  BY <1>6, <1>7, <1>8, <1>9 DEF At, Ends, p, q, at

\* Every token but the first belongs to a member.
LEMMA InMember ==
  ASSUME NEW f, IsFile(f), NEW x \in 2 .. Len(Tokens(f))
  PROVE  \E m \in Members : Has(f, m) /\ At(f, m) <= x /\ x < Ends(f, m)
<1> DEFINE M == Len(f.order)
           L == Len(Tokens(f))
           at == Plan(f).at
<1>1. M \in Nat /\ \A k \in 1 .. M : f.order[k] \in Members
  BY DEF IsFile
<1>2. \A k \in 1 .. (M + 1) : at[k] \in Nat
  BY PlanExists DEF IsPlan
<1>3. at[1] = 2 /\ at[M + 1] = L + 1
  BY PlanExists DEF IsPlan
<1>4. L \in Nat
  <2>1. Tokens(f) \in Seq(TokenRecords)
    BY PlanExists DEF Closed
  <2> QED  BY <2>1
<1> HIDE DEF M, L, at
<1>5. x \in Nat /\ at[1] <= x /\ x < at[M + 1]
  BY <1>3, <1>4 DEF L
<1>6. PICK k \in 1 .. M : at[k] <= x /\ x < at[k + 1]
  BY <1>1, <1>2, <1>5, Covered
<1>7. f.order[k] \in Members /\ k = Position(f, f.order[k])
  <2>1. f.order[k] \in Members
    BY <1>1
  <2> QED  BY <2>1, PositionIs DEF M
<1>8. k > 0
  BY <1>1
<1> DEFINE m == f.order[k]
<1>9. Has(f, m) /\ At(f, m) <= x /\ x < Ends(f, m)
  <2> HIDE DEF m
  <2>1. Position(f, m) = k
    BY <1>7 DEF m
  <2> QED  BY <1>6, <1>8, <2>1 DEF Has, At, Ends, at
<1> QED  BY <1>7, <1>9

\* The object o stands at b.
Stands(f, b, o) ==
  \/ Has(f, "gateway") /\ b = At(f, "gateway") + 1 /\ o = f.gateway
  \/ Has(f, "site") /\ b = At(f, "site") + 1 /\ o = f.site
  \/ Has(f, "devices") /\ \E n \in 1 .. Len(f.devices) : b = Obj(f, n) /\ o = f.devices[n]

LEMMA MemberNames ==
  {"version", "gateway", "site", "devices", "comment"} = Members
BY DEF Members

\* The devices, where they stand.
LEMMA DevicesStand ==
  ASSUME NEW f, IsFile(f), Has(f, "devices")
  PROVE  /\ HeadAt(Tokens(f), At(f, "devices") + 1, "array", Len(f.devices))
         /\ Len(f.devices) \in Nat
         /\ \A n \in 1 .. (Len(f.devices) + 1) :
              /\ Obj(f, n) \in Nat
              /\ Obj(f, 1) <= Obj(f, n) /\ Obj(f, n) <= Obj(f, Len(f.devices) + 1)
         /\ Obj(f, 1) = At(f, "devices") + 2
         /\ Obj(f, Len(f.devices) + 1) = Ends(f, "devices")
         /\ \A n \in 1 .. Len(f.devices) :
              /\ f.devices[n] \in Seq(Fields) /\ Len(f.devices[n]) \in Nat
              /\ ObjectAt(Tokens(f), Obj(f, n), f.devices[n])
              /\ Obj(f, n + 1) = Obj(f, n) + 1 + 2 * Len(f.devices[n])
<1> DEFINE N == Len(f.devices)
           T == Tokens(f)
           obj == Plan(f).obj
           x == At(f, "devices")
           y == Ends(f, "devices")
<1>1. x \in Nat /\ MemberAt(f, T, x, y, "devices", obj)
  BY MemberNames, MemberStands
<1>2. DevicesAt(f, T, x + 1, y, obj)
  <2> HIDE DEF T, x, y, obj
  <2> QED  BY <1>1 DEF MemberAt
<1>3. N \in Nat /\ \A n \in 1 .. N : f.devices[n] \in Seq(Fields) /\ Len(f.devices[n]) \in Nat
  <2>1. f.devices \in Seq(Seq(Fields))
    BY DEF IsFile
  <2>2. N \in Nat /\ \A n \in 1 .. N : f.devices[n] \in Seq(Fields)
    BY <2>1
  <2>3. \A n \in 1 .. N : Len(f.devices[n]) \in Nat
    BY <2>2
  <2> QED  BY <2>2, <2>3
<1>4. /\ HeadAt(T, x + 1, "array", N)
      /\ \A n \in 1 .. (N + 1) : obj[n] \in Nat
      /\ obj[1] = x + 1 + 1 /\ obj[N + 1] = y
      /\ \A n \in 1 .. N :
           /\ ObjectAt(T, obj[n], f.devices[n])
           /\ obj[n + 1] = obj[n] + 1 + 2 * Len(f.devices[n])
  BY <1>2, Zenon DEF DevicesAt
<1> HIDE DEF N, T, obj, x, y
<1>5. \A n \in 1 .. N : obj[n] <= obj[n + 1]
  <2> TAKE n \in 1 .. N
  <2> DEFINE K == Len(f.devices[n])
  <2>1. n \in 1 .. (N + 1)
    BY <1>3
  <2>2. obj[n] \in Nat /\ obj[n + 1] = obj[n] + 1 + 2 * K /\ K \in Nat
    BY <1>3, <1>4, <2>1
  <2> HIDE DEF K
  <2> QED  BY <2>2
<1>6. \A n \in 1 .. (N + 1) : obj[1] <= obj[n] /\ obj[n] <= obj[N + 1]
  <2> TAKE n \in 1 .. (N + 1)
  <2>1. 1 \in 1 .. (N + 1) /\ N + 1 \in 1 .. (N + 1) /\ 1 <= n /\ n <= N + 1
    BY <1>3
  <2>2. \A k \in 1 .. (N + 1) : obj[k] \in Nat
    BY <1>4
  <2> QED  BY <1>3, <1>5, <2>1, <2>2, NeverFalls
<1>7. \A n : Obj(f, n) = obj[n]
  BY DEF Obj, obj
<1>8. x + 1 + 1 = x + 2
  BY <1>1
<1>9. \A n \in 1 .. (N + 1) :
        Obj(f, n) \in Nat /\ Obj(f, 1) <= Obj(f, n) /\ Obj(f, n) <= Obj(f, N + 1)
  BY <1>4, <1>6, <1>7
<1>10. Obj(f, 1) = x + 2 /\ Obj(f, N + 1) = y
  BY <1>4, <1>7, <1>8
<1>11. \A n \in 1 .. N :
         /\ f.devices[n] \in Seq(Fields) /\ Len(f.devices[n]) \in Nat
         /\ ObjectAt(T, Obj(f, n), f.devices[n])
         /\ Obj(f, n + 1) = Obj(f, n) + 1 + 2 * Len(f.devices[n])
  BY <1>3, <1>4, <1>7, Zenon
<1> QED  BY <1>3, <1>4, <1>9, <1>10, <1>11, Zenon DEF N, T, x, y

\* An object, where it stands.
LEMMA ObjectStands ==
  ASSUME NEW f, IsFile(f), NEW b, NEW o, Stands(f, b, o)
  PROVE  /\ o \in Objects(f) /\ o \in Seq(Fields) /\ Len(o) \in Nat /\ b \in Nat /\ b >= 3
         /\ ObjectAt(Tokens(f), b, o) /\ b + 2 * Len(o) <= Len(Tokens(f))
<1> DEFINE L == Len(Tokens(f))
           K == Len(o)
<1>1. /\ f.gateway \in Seq(Fields) /\ f.site \in Seq(Fields) /\ f.devices \in Seq(Seq(Fields))
  BY DEF IsFile
<1>2. ASSUME NEW m \in {"gateway", "site"}, Has(f, m), b = At(f, m) + 1,
             m = "gateway" => o = f.gateway, m = "site" => o = f.site
      PROVE  /\ o \in Objects(f) /\ o \in Seq(Fields) /\ Len(o) \in Nat /\ b \in Nat /\ b >= 3
             /\ ObjectAt(Tokens(f), b, o) /\ b + 2 * Len(o) <= L
  <2>1. o \in Objects(f) /\ o \in Seq(Fields)
    BY <1>1, <1>2 DEF Objects
  <2>2. K \in Nat
    BY <2>1
  <2> DEFINE x == At(f, m)
             y == Ends(f, m)
  <2>3. /\ x \in Nat /\ y \in Nat /\ x >= 2 /\ y <= L + 1 /\ L \in Nat
        /\ MemberAt(f, Tokens(f), x, y, m, Plan(f).obj)
    BY <1>2, MemberNames, MemberStands
  <2> HIDE DEF x, y, L
  <2>4. y = x + 2 + 2 * K /\ ObjectAt(Tokens(f), x + 1, o)
    BY <1>2, <2>3 DEF MemberAt
  <2>5. b = x + 1
    BY <1>2 DEF x
  <2> HIDE DEF K
  <2>6. b \in Nat /\ b >= 3 /\ b + 2 * K <= L
    BY <2>2, <2>3, <2>4, <2>5
  <2> QED  BY <2>1, <2>2, <2>4, <2>5, <2>6 DEF K
<1>3. ASSUME Has(f, "devices"), NEW n \in 1 .. Len(f.devices), b = Obj(f, n), o = f.devices[n]
      PROVE  /\ o \in Objects(f) /\ o \in Seq(Fields) /\ Len(o) \in Nat /\ b \in Nat /\ b >= 3
             /\ ObjectAt(Tokens(f), b, o) /\ b + 2 * Len(o) <= L
  <2> DEFINE N == Len(f.devices)
             x == At(f, "devices")
             y == Ends(f, "devices")
  <2>1. o \in Objects(f)
    BY <1>1, <1>3 DEF Objects, ToSet
  <2>2. /\ N \in Nat /\ \A k \in 1 .. (N + 1) : /\ Obj(f, k) \in Nat
                                               /\ Obj(f, 1) <= Obj(f, k) /\ Obj(f, k) <= Obj(f, N + 1)
        /\ Obj(f, 1) = x + 2 /\ Obj(f, N + 1) = y
        /\ \A k \in 1 .. N :
             /\ f.devices[k] \in Seq(Fields) /\ Len(f.devices[k]) \in Nat
             /\ ObjectAt(Tokens(f), Obj(f, k), f.devices[k])
             /\ Obj(f, k + 1) = Obj(f, k) + 1 + 2 * Len(f.devices[k])
    BY <1>3, DevicesStand, Zenon
  <2>3. x \in Nat /\ x >= 2 /\ y <= L + 1 /\ L \in Nat /\ y \in Nat
    BY <1>3, MemberNames, MemberStands
  <2> HIDE DEF N, x, y, L
  <2>4. n \in 1 .. N /\ n \in 1 .. (N + 1) /\ n + 1 \in 1 .. (N + 1)
    BY <1>3, <2>2 DEF N
  <2>5. /\ o \in Seq(Fields) /\ K \in Nat /\ b \in Nat /\ ObjectAt(Tokens(f), b, o)
        /\ Obj(f, n + 1) = b + 1 + 2 * K
    BY <1>3, <2>2, <2>4, Zenon
  <2>6. x + 2 <= b /\ Obj(f, n + 1) <= y
    BY <1>3, <2>2, <2>4
  <2> HIDE DEF K
  <2>7. b >= 3 /\ b + 2 * K <= L
    BY <2>3, <2>5, <2>6
  <2> QED  BY <2>1, <2>5, <2>7 DEF K
<1>4. CASE Has(f, "gateway") /\ b = At(f, "gateway") + 1 /\ o = f.gateway
  <2> DEFINE m == "gateway"
  <2>1. m \in {"gateway", "site"} /\ m # "site" /\ Has(f, m) /\ b = At(f, m) + 1
        /\ (m = "gateway" => o = f.gateway) /\ (m = "site" => o = f.site)
    BY <1>4
  <2> HIDE DEF m
  <2> QED  BY <1>2, <2>1
<1>5. CASE Has(f, "site") /\ b = At(f, "site") + 1 /\ o = f.site
  <2> DEFINE m == "site"
  <2>1. m \in {"gateway", "site"} /\ Has(f, m) /\ b = At(f, m) + 1
        /\ (m = "gateway" => o = f.gateway) /\ (m = "site" => o = f.site)
    BY <1>5
  <2> HIDE DEF m
  <2> QED  BY <1>2, <2>1
<1>6. CASE Has(f, "devices") /\ \E n \in 1 .. Len(f.devices) : b = Obj(f, n) /\ o = f.devices[n]
  BY <1>3, <1>6
<1> QED  BY <1>4, <1>5, <1>6 DEF Stands, L

\* One, two, three ... are the first and the second of a pair.
LEMMA Pairs ==
  ASSUME NEW K \in Nat, NEW d \in 1 .. (2 * K)
  PROVE  \E j \in 1 .. K : d = 2 * j - 1 \/ d = 2 * j
<1> DEFINE T == {x \in Nat : \E j \in Nat : x = 2 * j \/ x = 2 * j + 1}
<1>1. 0 \in T
  <2>1. 0 = 2 * 0
    OBVIOUS
  <2> QED  BY <2>1
<1>2. ASSUME NEW x \in T PROVE x + 1 \in T
  <2>1. PICK j \in Nat : x = 2 * j \/ x = 2 * j + 1
    OBVIOUS
  <2>2. x + 1 = 2 * j + 1 \/ x + 1 = 2 * (j + 1)
    BY <2>1
  <2>3. j + 1 \in Nat /\ x + 1 \in Nat
    OBVIOUS
  <2> QED  BY <2>2, <2>3
<1>3. T \subseteq Nat
  OBVIOUS
<1>4. d - 1 \in T
  <2> HIDE DEF T
  <2>1. T = Nat
    BY <1>1, <1>2, <1>3, AllNaturals
  <2> QED  BY <2>1
<1>5. PICK j \in Nat : d - 1 = 2 * j \/ d - 1 = 2 * j + 1
  BY <1>4
<1>6. j + 1 \in 1 .. K /\ (d = 2 * (j + 1) - 1 \/ d = 2 * (j + 1))
  BY <1>5
<1> QED  BY <1>6

\* The text of a token between the first and the last of an object is a name or a
\* value.
LEMMA InObject ==
  ASSUME NEW b \in Nat, NEW o \in Seq(Fields), NEW x \in Nat, b <= x, x <= b + 2 * Len(o)
  PROVE  x = b \/ \E j \in 1 .. Len(o) : x = b + 2 * j - 1 \/ x = b + 2 * j
<1> DEFINE K == Len(o)
<1>1. K \in Nat /\ x <= b + 2 * K
  OBVIOUS
<1> HIDE DEF K
<1>2. CASE x # b
  <2>1. x - b \in 1 .. (2 * K)
    BY <1>1, <1>2
  <2>2. PICK j \in 1 .. K : x - b = 2 * j - 1 \/ x - b = 2 * j
    BY <1>1, <2>1, Pairs
  <2>3. x = b + 2 * j - 1 \/ x = b + 2 * j
    BY <2>2
  <2> QED  BY <2>3 DEF K
<1> QED  BY <1>2

\* The j-th field of the object o, which stands at b, stands at x.
IsField(f, x, b, o, j) == Stands(f, b, o) /\ j \in 1 .. Len(o) /\ x = b + 2 * j - 1

\* The value of a field or a member.
IsValue(f, x) ==
  \/ \E b, o, j : Stands(f, b, o) /\ j \in 1 .. Len(o) /\ PlainAt(Tokens(f), x, o[j].text)
  \/ PlainAt(Tokens(f), x, f.version)
  \/ PlainAt(Tokens(f), x, f.comment)

\* What the tokens of a file are.
LEMMA Parts ==
  ASSUME NEW f, IsFile(f), NEW x \in 2 .. Len(Tokens(f))
  PROVE  \/ \E m \in Members : Has(f, m) /\ x = At(f, m)
         \/ \E o : Stands(f, x, o)
         \/ \E b, o, j : IsField(f, x, b, o, j)
         \/ IsValue(f, x)
         \/ Has(f, "devices") /\ x = At(f, "devices") + 1
<1> DEFINE T == Tokens(f)
<1>1. PICK m \in Members : Has(f, m) /\ At(f, m) <= x /\ x < Ends(f, m)
  BY InMember
<1> DEFINE a == At(f, m)
           y == Ends(f, m)
<1>2. a \in Nat /\ y \in Nat /\ MemberAt(f, T, a, y, m, Plan(f).obj) /\ a <= x /\ x < y
      /\ x \in Nat
  BY <1>1, MemberStands
<1>3. ASSUME NEW b, NEW o, Stands(f, b, o), b <= x, x <= b + 2 * Len(o)
      PROVE  \/ \E u : Stands(f, x, u)
             \/ \E c, u, j : IsField(f, x, c, u, j)
             \/ IsValue(f, x)
  <2>1. /\ o \in Objects(f) /\ o \in Seq(Fields) /\ b \in Nat /\ ObjectAt(T, b, o)
        /\ Len(o) \in Nat
    BY <1>3, ObjectStands
  <2>2. x = b \/ \E j \in 1 .. Len(o) : x = b + 2 * j - 1 \/ x = b + 2 * j
    BY <1>2, <1>3, <2>1, InObject
  <2>3. CASE x = b
    BY <1>3, <2>3
  <2>4. ASSUME NEW j \in 1 .. Len(o), x = b + 2 * j - 1
        PROVE  \E c, u, k : IsField(f, x, c, u, k)
    <3>1. IsField(f, x, b, o, j)
      BY <1>3, <2>4 DEF IsField
    <3> QED  BY <3>1
  <2>5. ASSUME NEW j \in 1 .. Len(o), x = b + 2 * j
        PROVE  IsValue(f, x)
    <3>1. PlainAt(T, x, o[j].text)
      BY <2>1, <2>5 DEF ObjectAt
    <3> HIDE DEF T
    <3> QED  BY <1>3, <3>1, Zenon DEF IsValue, T
  <2> QED  BY <2>2, <2>3, <2>4, <2>5
<1>4. CASE x = a
  BY <1>1, <1>4
<1>5. CASE x # a
  <2>1. x >= a + 1
    BY <1>2, <1>5
  <2> HIDE DEF a, y, T
  <2>2. ASSUME NEW t, y = a + 2, PlainAt(T, a + 1, t)
        PROVE  PlainAt(T, x, t)
    <3>1. x = a + 1
      BY <1>2, <2>1, <2>2
    <3> QED  BY <2>2, <3>1
  <2>4. CASE m = "version"
    <3>1. y = a + 2 /\ PlainAt(T, a + 1, f.version)
      BY <1>2, <2>4 DEF MemberAt
    <3> QED  BY <2>2, <3>1 DEF IsValue, T
  <2>5. CASE m = "comment"
    <3>1. y = a + 2 /\ PlainAt(T, a + 1, f.comment)
      BY <1>2, <2>5 DEF MemberAt
    <3> QED  BY <2>2, <3>1 DEF IsValue, T
  <2>6. CASE m = "gateway"
    <3> DEFINE K == Len(f.gateway)
    <3>1. y = a + 2 + 2 * K
      BY <1>2, <2>6 DEF MemberAt
    <3>2. Stands(f, a + 1, f.gateway)
      BY <1>1, <2>6 DEF Stands, a
    <3>3. K \in Nat
      BY DEF IsFile
    <3>4. a + 1 <= x /\ x <= (a + 1) + 2 * K
      <4> HIDE DEF K
      <4> QED  BY <1>2, <2>1, <3>1, <3>3
    <3> QED  BY <1>3, <3>2, <3>4
  <2>7. CASE m = "site"
    <3> DEFINE K == Len(f.site)
    <3>1. y = a + 2 + 2 * K
      BY <1>2, <2>7 DEF MemberAt
    <3>2. Stands(f, a + 1, f.site)
      BY <1>1, <2>7 DEF Stands, a
    <3>3. K \in Nat
      BY DEF IsFile
    <3>4. a + 1 <= x /\ x <= (a + 1) + 2 * K
      <4> HIDE DEF K
      <4> QED  BY <1>2, <2>1, <3>1, <3>3
    <3> QED  BY <1>3, <3>2, <3>4
  <2>8. CASE m = "devices"
    <3> DEFINE N == Len(f.devices)
    <3>1. Has(f, "devices") /\ a = At(f, "devices") /\ y = Ends(f, "devices")
      BY <1>1, <2>8 DEF a, y
    <3>2. /\ HeadAt(T, a + 1, "array", N)
          /\ N \in Nat
          /\ \A n \in 1 .. (N + 1) : Obj(f, n) \in Nat
          /\ Obj(f, 1) = a + 2 /\ Obj(f, N + 1) = y
          /\ \A n \in 1 .. N : Obj(f, n + 1) = Obj(f, n) + 1 + 2 * Len(f.devices[n])
                               /\ Len(f.devices[n]) \in Nat
      BY <3>1, DevicesStand DEF T
    <3>3. CASE x = a + 1
      BY <3>1, <3>3
    <3>4. CASE x # a + 1
      <4> DEFINE h == [n \in 1 .. (N + 1) |-> Obj(f, n)]
      <4> HIDE DEF N
      <4>1. Obj(f, 1) <= x /\ x < Obj(f, N + 1)
        BY <1>2, <2>1, <3>2, <3>4
      <4>2. 1 \in 1 .. (N + 1) /\ N + 1 \in 1 .. (N + 1)
        BY <3>2
      <4>3. \A n \in 1 .. (N + 1) : h[n] \in Nat /\ h[n] = Obj(f, n)
        BY <3>2
      <4> HIDE DEF h
      <4>4. h[1] <= x /\ x < h[N + 1]
        BY <4>1, <4>2, <4>3
      <4>5. PICK n \in 1 .. N : h[n] <= x /\ x < h[n + 1]
        BY <1>2, <3>2, <4>3, <4>4, Covered
      <4>6. n \in 1 .. (N + 1) /\ n + 1 \in 1 .. (N + 1)
        BY <3>2
      <4> DEFINE K == Len(f.devices[n])
                 b == Obj(f, n)
      <4>7. K \in Nat /\ b \in Nat /\ b <= x /\ x < b + 1 + 2 * K
        BY <3>2, <4>3, <4>5, <4>6
      <4>8. Stands(f, b, f.devices[n])
        BY <3>1 DEF Stands, N
      <4>9. x <= b + 2 * K
        <5> HIDE DEF K, b
        <5> QED  BY <1>2, <4>7
      <4> QED  BY <1>3, <4>7, <4>8, <4>9
    <3> QED  BY <3>3, <3>4
  <2> QED  BY <2>4, <2>5, <2>6, <2>7, <2>8 DEF Members
<1> QED  BY <1>4, <1>5


LEMMA NotRecognised ==
  "" \notin Recognised /\ "site" \notin Recognised /\ "comment" \notin Recognised
BY DEF Recognised

\* No name of a setting.
Silent(f, x) == Tokens(f)[x].text \notin Recognised /\ Tokens(f)[x].type # "object"

\* What they are where no text reads like a name.
LEMMA Roles ==
  ASSUME NEW f, IsFile(f), NamesApart(f), NEW x \in 2 .. Len(Tokens(f))
  PROVE  \/ \E m \in Members : Has(f, m) /\ x = At(f, m)
         \/ \E o : Stands(f, x, o)
         \/ \E b, o, j : IsField(f, x, b, o, j)
         \/ Silent(f, x)
<1> DEFINE T == Tokens(f)
<1>1. ASSUME NEW t, t \notin Recognised, PlainAt(T, x, t) PROVE Silent(f, x)
  BY <1>1 DEF PlainAt, Silent
<1>2. CASE IsValue(f, x)
  <2>1. f.version \notin Recognised /\ f.comment \notin Recognised
    BY DEF NamesApart
  <2>2. ASSUME NEW b, NEW o, NEW j, Stands(f, b, o), j \in 1 .. Len(o)
        PROVE  o[j].text \notin Recognised
    <3>1. o \in Objects(f) /\ o \in Seq(Fields)
      BY <2>2, ObjectStands
    <3>2. j \in DOMAIN o
      BY <2>2, <3>1
    <3> QED  BY <3>1, <3>2 DEF NamesApart
  <2> HIDE DEF T
  <2> QED  BY <1>1, <1>2, <2>1, <2>2 DEF IsValue, T
<1>3. CASE Has(f, "devices") /\ x = At(f, "devices") + 1
  <2>1. HeadAt(T, x, "array", Len(f.devices))
    BY <1>3, DevicesStand
  <2>2. T[x].text = "" /\ T[x].type # "object"
    BY <2>1 DEF HeadAt
  <2> QED  BY <2>2, NotRecognised DEF Silent
<1> QED  BY <1>2, <1>3, Parts

\* No size exceeds the number of tokens.
LEMMA SizesBounded ==
  ASSUME NEW f, IsFile(f), NEW x \in 1 .. Len(Tokens(f))
  PROVE  Tokens(f)[x].size \in 0 .. Len(Tokens(f))
<1> DEFINE T == Tokens(f)
           L == Len(T)
           M == Len(f.order)
           at == Plan(f).at
<1>1. M \in Nat
  BY DEF IsFile
<1>2. L \in Nat
  <2>1. T \in Seq(TokenRecords)
    BY PlanExists DEF Closed
  <2> QED  BY <2>1
<1>3. x = 1 \/ x \in 2 .. L
  BY <1>2
<1>4. ASSUME x = 1 PROVE T[x].size \in 0 .. L
  <2>1. T[x].size = M
    BY <1>4, PlanExists DEF IsPlan, HeadAt
  <2>2. /\ \A k \in 1 .. (M + 1) : at[k] \in Nat
        /\ at[1] = 2 /\ at[M + 1] = L + 1
        /\ \A k \in 1 .. M : at[k + 1] >= at[k] + 2
    BY PlanExists DEF IsPlan
  <2> DEFINE h == [k \in 1 .. (M + 1) |-> at[k] - k]
  <2> HIDE DEF M, L, at, T
  <2> DEFINE U == {k \in Nat : k + 1 <= M + 1 => at[k + 1] >= 2 + k}
  <2>3. 0 \in U
    BY <2>2
  <2>4. ASSUME NEW k \in U PROVE k + 1 \in U
    <3>1. SUFFICES ASSUME (k + 1) + 1 <= M + 1 PROVE at[(k + 1) + 1] >= 2 + (k + 1)
      OBVIOUS
    <3>2. k + 1 \in 1 .. M /\ k + 1 \in 1 .. (M + 1) /\ (k + 1) + 1 \in 1 .. (M + 1)
      BY <1>1, <3>1
    <3>3. at[k + 1] >= 2 + k
      BY <1>1, <3>1
    <3>4. at[(k + 1) + 1] >= at[k + 1] + 2 /\ at[k + 1] \in Nat /\ at[(k + 1) + 1] \in Nat
      BY <2>2, <3>2
    <3> QED  BY <3>3, <3>4
  <2>5. U \subseteq Nat
    OBVIOUS
  <2>6. M \in U
    <3> HIDE DEF U
    <3>1. U = Nat
      BY <2>3, <2>4, <2>5, AllNaturals
    <3> QED  BY <1>1, <3>1
  <2>7. at[M + 1] >= 2 + M
    BY <1>1, <2>6
  <2> QED  BY <1>1, <1>2, <2>1, <2>2, <2>7
<1>5. ASSUME NEW m \in Members, Has(f, m), x = At(f, m) PROVE T[x].size = 1
  BY <1>5, MemberStands DEF MemberAt, NameAt
<1>6. ASSUME NEW b, NEW o, Stands(f, b, o), x = b PROVE T[x].size \in 0 .. L
  <2> DEFINE K == Len(o)
  <2>1. K \in Nat /\ b \in Nat /\ ObjectAt(T, b, o) /\ b + 2 * K <= L
    BY <1>6, ObjectStands
  <2>2. T[x].size = K
    BY <1>6, <2>1 DEF ObjectAt, HeadAt
  <2> HIDE DEF T, L, K
  <2> QED  BY <1>2, <2>1, <2>2
<1>7. ASSUME NEW b, NEW o, NEW j, IsField(f, x, b, o, j) PROVE T[x].size = 1
  <2>1. NameAt(T, x, o[j].name)
    BY <1>7, ObjectStands DEF IsField, ObjectAt
  <2> QED  BY <2>1 DEF NameAt
<1>8. ASSUME IsValue(f, x) PROVE T[x].size = 0
  BY <1>8 DEF IsValue, PlainAt
<1>9. ASSUME Has(f, "devices"), x = At(f, "devices") + 1 PROVE T[x].size \in 0 .. L
  <2> DEFINE N == Len(f.devices)
             y == Ends(f, "devices")
             a == At(f, "devices")
  <2>1. /\ HeadAt(T, x, "array", N) /\ N \in Nat
        /\ \A n \in 1 .. (N + 1) : Obj(f, n) \in Nat
        /\ Obj(f, 1) = a + 2 /\ Obj(f, N + 1) = y
        /\ \A n \in 1 .. N : Obj(f, n + 1) = Obj(f, n) + 1 + 2 * Len(f.devices[n])
                             /\ Len(f.devices[n]) \in Nat
    BY <1>9, DevicesStand
  <2>2. a \in Nat /\ y \in Nat /\ y <= L + 1
    BY <1>9, MemberNames, MemberStands
  <2>3. T[x].size = N
    BY <2>1 DEF HeadAt
  <2> HIDE DEF N, y, a, L, T
  <2> DEFINE U == {k \in Nat : k + 1 <= N + 1 => Obj(f, k + 1) >= a + 2 + k}
  <2>4. 0 \in U
    BY <2>1, <2>2
  <2>5. ASSUME NEW k \in U PROVE k + 1 \in U
    <3>1. SUFFICES ASSUME (k + 1) + 1 <= N + 1 PROVE Obj(f, (k + 1) + 1) >= a + 2 + (k + 1)
      OBVIOUS
    <3> DEFINE n == k + 1
               K == Len(f.devices[n])
    <3>2. n \in 1 .. N /\ n \in 1 .. (N + 1) /\ n + 1 \in 1 .. (N + 1)
      BY <2>1, <3>1
    <3>3. Obj(f, n) >= a + 2 + k
      BY <2>1, <3>1
    <3>4. Obj(f, n + 1) = Obj(f, n) + 1 + 2 * K /\ K \in Nat /\ Obj(f, n) \in Nat
      BY <2>1, <3>2
    <3> HIDE DEF K
    <3> QED  BY <2>2, <3>3, <3>4
  <2>6. U \subseteq Nat
    OBVIOUS
  <2>7. N \in U
    <3> HIDE DEF U
    <3>1. U = Nat
      BY <2>4, <2>5, <2>6, AllNaturals
    <3> QED  BY <2>1, <3>1
  <2>8. Obj(f, N + 1) >= a + 2 + N
    BY <2>1, <2>7
  <2> QED  BY <1>2, <2>1, <2>2, <2>3, <2>8
<1> HIDE DEF T, L, M, at
<1>10. 0 \in 0 .. L /\ 1 \in 0 .. L
  <2>1. x \in 1 .. L
    BY DEF L, T
  <2> QED  BY <1>2, <2>1
<1>11. ASSUME x \in 2 .. L PROVE T[x].size \in 0 .. L
  <2>1. \/ \E m \in Members : Has(f, m) /\ x = At(f, m)
        \/ \E o : Stands(f, x, o)
        \/ \E b, o, j : IsField(f, x, b, o, j)
        \/ IsValue(f, x)
        \/ Has(f, "devices") /\ x = At(f, "devices") + 1
    BY <1>11, Parts DEF L, T
  <2> QED  BY <1>5, <1>6, <1>7, <1>8, <1>9, <1>10, <2>1
<1>12. T[x].size \in 0 .. L
  BY <1>3, <1>4, <1>11
<1> QED  BY <1>12 DEF T, L

\* What stands behind the name of a member.
LEMMA NameStands ==
  ASSUME NEW f, IsFile(f), NamesApart(f), NEW m \in Members, Has(f, m)
  PROVE  LET x == At(f, m) T == Tokens(f) IN
         /\ x \in 2 .. Len(T) /\ x + 1 \in 2 .. Len(T)
         /\ T[x].type = "string" /\ T[x].text = m
         /\ T[x + 1].text \notin Recognised
         /\ m = "version" => T[x + 1].text = f.version
         /\ m = "devices" => T[x + 1].size = Len(f.devices) /\ T[x + 1].type = "array"
<1> DEFINE x == At(f, m)
           y == Ends(f, m)
           T == Tokens(f)
           L == Len(T)
<1>1. /\ x \in Nat /\ y \in Nat /\ x >= 2 /\ y >= x + 2 /\ y <= L + 1 /\ L \in Nat
      /\ MemberAt(f, T, x, y, m, Plan(f).obj)
  BY MemberStands
<1>2. f.version \notin Recognised /\ f.comment \notin Recognised
  BY DEF NamesApart
<1> HIDE DEF x, y, T, L
<1>3. x \in 2 .. L /\ x + 1 \in 2 .. L
  BY <1>1
<1>4. T[x].type = "string" /\ T[x].text = m
  BY <1>1 DEF MemberAt, NameAt
<1>5. CASE m = "version"
  <2>1. T[x + 1].text = f.version
    BY <1>1, <1>5 DEF MemberAt, PlainAt
  <2> QED  BY <1>2, <1>3, <1>4, <1>5, <2>1 DEF x, T, L
<1>6. CASE m = "comment"
  <2>1. T[x + 1].text = f.comment
    BY <1>1, <1>6 DEF MemberAt, PlainAt
  <2> QED  BY <1>2, <1>3, <1>4, <1>6, <2>1 DEF x, T, L
<1>7. CASE m = "gateway"
  <2>1. T[x + 1].text = ""
    BY <1>1, <1>7 DEF MemberAt, ObjectAt, HeadAt
  <2>2. T[x + 1].text \notin Recognised
    BY <2>1, NotRecognised
  <2> QED  BY <1>3, <1>4, <1>7, <2>2 DEF x, T, L
<1>8. CASE m = "site"
  <2>1. T[x + 1].text = ""
    BY <1>1, <1>8 DEF MemberAt, ObjectAt, HeadAt
  <2>2. T[x + 1].text \notin Recognised
    BY <2>1, NotRecognised
  <2> QED  BY <1>3, <1>4, <1>8, <2>2 DEF x, T, L
<1>9. CASE m = "devices"
  <2>1. T[x + 1].text = "" /\ T[x + 1].size = Len(f.devices) /\ T[x + 1].type = "array"
    BY <1>1, <1>9 DEF MemberAt, DevicesAt, HeadAt
  <2>2. T[x + 1].text \notin Recognised
    BY <2>1, NotRecognised
  <2> QED  BY <1>3, <1>4, <1>9, <2>1, <2>2 DEF x, T, L
<1> QED  BY <1>5, <1>6, <1>7, <1>8, <1>9 DEF Members

\* What stands behind the name of a field.
LEMMA FieldStands ==
  ASSUME NEW f, IsFile(f), NamesApart(f), NEW x, NEW b, NEW o, NEW j, IsField(f, x, b, o, j)
  PROVE  LET T == Tokens(f) IN
         /\ x \in 2 .. Len(T) /\ x + 1 \in 2 .. Len(T)
         /\ T[x].type = "string" /\ T[x].text = o[j].name
         /\ T[x + 1].text = o[j].text /\ o[j].text \notin Recognised
         /\ o[j].name \notin Members
<1> DEFINE T == Tokens(f)
           L == Len(T)
           K == Len(o)
<1>1. Stands(f, b, o) /\ j \in 1 .. K /\ x = b + 2 * j - 1
  BY DEF IsField
<1>2. /\ o \in Objects(f) /\ o \in Seq(Fields) /\ b \in Nat /\ b >= 3 /\ K \in Nat
      /\ ObjectAt(T, b, o) /\ b + 2 * K <= L
  BY <1>1, ObjectStands
<1>3. NameAt(T, b + 2 * j - 1, o[j].name) /\ PlainAt(T, b + 2 * j, o[j].text)
  BY <1>1, <1>2 DEF ObjectAt
<1>4. o[j].text \notin Recognised /\ o[j].name \notin Members
  <2>1. j \in DOMAIN o
    BY <1>1, <1>2
  <2> QED  BY <1>2, <2>1 DEF NamesApart
<1>5. L \in Nat
  <2>1. T \in Seq(TokenRecords)
    BY PlanExists DEF Closed
  <2> QED  BY <2>1
<1> HIDE DEF T, L, K
<1>6. x \in 2 .. L /\ x + 1 \in 2 .. L /\ x + 1 = b + 2 * j
  BY <1>1, <1>2, <1>5
<1> QED  BY <1>1, <1>3, <1>4, <1>6 DEF NameAt, PlainAt, T, L

\* What the walk looks for: names of members, and of fields.
Named == {"version", "gateway", "devices"}
Settings == {"interface", "id", "bcast", "key"}

\* Where the name of a setting is found, it is one, and its value is the next token.
LEMMA SettingIs ==
  ASSUME NEW f, IsFile(f), NamesApart(f), NEW x \in 2 .. Len(Tokens(f)),
         Tokens(f)[x].text \in Recognised
  PROVE  LET T == Tokens(f) IN
         /\ T[x].type = "string" /\ x + 1 \in 2 .. Len(T) /\ T[x + 1].text \notin Recognised
         /\ \/ \E m \in Named : T[x].text = m /\ Has(f, m) /\ x = At(f, m)
            \/ /\ T[x].text \in Settings
               /\ \E b, o, j : /\ IsField(f, x, b, o, j)
                               /\ o[j].name = T[x].text /\ T[x + 1].text = o[j].text
<1> DEFINE T == Tokens(f)
<1>1. ~Silent(f, x)
  BY DEF Silent
<1>2. ASSUME NEW o, Stands(f, x, o) PROVE FALSE
  <2>1. T[x].text = ""
    BY <1>2, ObjectStands DEF ObjectAt, HeadAt
  <2> QED  BY <2>1, NotRecognised
<1>3. CASE \E m \in Members : Has(f, m) /\ x = At(f, m)
  <2>1. PICK m \in Members : Has(f, m) /\ x = At(f, m)
    BY <1>3
  <2>2. /\ x + 1 \in 2 .. Len(T) /\ T[x].type = "string" /\ T[x].text = m
        /\ T[x + 1].text \notin Recognised
    BY <2>1, NameStands
  <2>3. m \in Named
    BY <2>2, NotRecognised DEF Members, Named
  <2> QED  BY <2>1, <2>2, <2>3
<1>4. CASE \E b, o, j : IsField(f, x, b, o, j)
  <2>1. PICK b, o, j : IsField(f, x, b, o, j)
    BY <1>4
  <2>2. /\ x + 1 \in 2 .. Len(T) /\ T[x].type = "string" /\ T[x].text = o[j].name
        /\ T[x + 1].text = o[j].text /\ o[j].text \notin Recognised
        /\ o[j].name \notin Members
    BY <2>1, FieldStands
  <2>3. T[x].text \in Settings
    BY <2>2 DEF Members, Recognised, Settings
  <2>4. /\ IsField(f, x, b, o, j)
        /\ o[j].name = T[x].text /\ T[x + 1].text = o[j].text
    BY <2>1, <2>2
  <2> QED  BY <2>2, <2>3, <2>4
<1>5. \/ \E m \in Members : Has(f, m) /\ x = At(f, m)
      \/ \E b, o, j : IsField(f, x, b, o, j)
  BY <1>1, <1>2, Roles
<1> QED  BY <1>3, <1>4, <1>5

\* An object token is the first of an object.
LEMMA HeadIs ==
  ASSUME NEW f, IsFile(f), NamesApart(f), NEW x \in 2 .. Len(Tokens(f)),
         Tokens(f)[x].type = "object"
  PROVE  \E o : Stands(f, x, o)
<1> DEFINE T == Tokens(f)
<1>1. ~Silent(f, x)
  BY DEF Silent
<1>2. ASSUME NEW m \in Members, Has(f, m), x = At(f, m) PROVE FALSE
  <2>1. T[x].type = "string"
    BY <1>2, NameStands
  <2> QED  BY <2>1
<1>3. ASSUME NEW b, NEW o, NEW j, IsField(f, x, b, o, j) PROVE FALSE
  <2>1. T[x].type = "string"
    BY <1>3, FieldStands
  <2> QED  BY <2>1
<1> QED  BY <1>1, <1>2, <1>3, Roles
===============================================================================
