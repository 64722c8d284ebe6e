----------------------------- MODULE WsFramesProofs ----------------------------
(***************************************************************************)
(* What WsFrames keeps to as long as no read cuts or merges frames, proved *)
(* for all streams a client may send.                                      *)
(***************************************************************************)
EXTENDS WsFrames, FiniteSetTheorems, SequenceTheorems, TLAPS

\* The cells of the frames s.
CellsOf(s) == {c \in Cell : c.frame \in 1 .. Len(s) /\ c.part \in 1 .. Size(s[c.frame])}

\* The cell sent after cell c.
After(s, c) ==
  IF c.part = Size(s[c.frame]) THEN [frame |-> c.frame + 1, part |-> 1]
  ELSE [frame |-> c.frame, part |-> c.part + 1]

\* t is a piece of the stream of frames s.
Piece(s, t) ==
  /\ t \in Seq(CellsOf(s))
  /\ \A k \in 1 .. (Len(t) - 1) : t[k + 1] = After(s, t[k])

\* A read is being dealt with.
Busy == pc \in {"frame", "refill", "payload"}

\* What is received next begins the next frame or goes on with the latest.
Ahead ==
  net # <<>> => \/ net[1] = [frame |-> taken + 1, part |-> 1]
                \/ net[1].frame = taken /\ net[1].part # 1

\* What has not been received is the rest of the stream; the buffer holds cells of
\* it, and in a read there is at least the first.
Stream ==
  /\ sent \in Seq(Kinds)
  /\ Piece(sent, net)
  /\ Ahead
  /\ \A c \in BufferCells : buffer[c] \in CellsOf(sent) \cup {Own}
  /\ Busy => buffer[0] \in CellsOf(sent) /\ length >= 1 /\ Looked <= taken

Behind(f, n) == [frame |-> f, part |-> n + 1]

\* The frame that is looked at lies at the start of the buffer as far as it has
\* arrived, which is whole unless it is a long one; the rest comes next.
Whole ==
  ~torn /\ Busy =>
    LET kind == sent[Looked] IN
    /\ length >= 2 /\ (length >= Size(kind) \/ kind = "long")
    /\ \A p \in 1 .. Size(kind) :
         p <= length => buffer[p - 1] = [frame |-> Looked, part |-> p]
    /\ length < Size(kind) /\ net # <<>> => net[1] = Behind(Looked, length)
    /\ pc = "refill" => total = 4 /\ length < 4 /\ kind = "long"
    /\ pc = "payload" => length >= Size(kind) /\ kind \in {"text", "bad", "long"}

\* Frames up to this one have been dealt with.
Settled == IF Busy THEN Looked - 1 ELSE taken

\* What was handed on and answered is of those.
Told ==
  /\ InStep
  /\ ~torn => /\ \A i \in DOMAIN handed : handed[i] <= Settled
              /\ \A i \in DOMAIN answers : answers[i].to <= Settled

\* Frame k was answered, or there was no reason or no memory to.
Covered(k) ==
  \/ \E i \in DOMAIN answers : answers[i].to = k
  \/ sent[k] = "empty"
  \/ k \in starved

AllCovered ==
  ~torn /\ ~merged /\ (Busy \/ pc \in {"hello", "open"}) =>
    /\ Busy => Looked = taken
    /\ \A k \in 1 .. Settled : Covered(k)

Inv == TypeOK /\ Stream /\ Whole /\ Told /\ AllCovered

-----------------------------------------------------------------------------
(* Induction, and the stream a client sends *)

\* A set of natural numbers has a least one.
LEMMA LeastNatural ==
  ASSUME NEW T \in SUBSET Nat, T # {}
  PROVE  \E x \in T : \A y \in T : x <= y
<1>1. PICK N \in T : TRUE
  OBVIOUS
<1> DEFINE U == {0 .. n : n \in {m \in T : m <= N}}
<1>2. IsWellFoundedOn(StrictSubsetOrdering(0 .. N), SUBSET (0 .. N))
  <2>1. IsFiniteSet(0 .. N)
    BY <1>1, FS_Interval
  <2> QED  BY <2>1, FS_StrictSubsetOrderingWellFounded, FS_FiniteSubsetsOfFinite
<1>3. U \subseteq SUBSET (0 .. N) /\ U # {}
  BY <1>1
<1>4. PICK x \in U : \A y \in U : ~(<<y, x>> \in StrictSubsetOrdering(0 .. N))
  <2> HIDE DEF U
  <2> QED  BY <1>2, <1>3, WFMin
<1>5. PICK n \in T : n <= N /\ x = 0 .. n
  OBVIOUS
<1>6. ASSUME NEW m \in T, m < n
      PROVE  FALSE
  <2>1. 0 .. m \in U /\ m \in Nat /\ n \in Nat /\ N \in Nat
    BY <1>5, <1>6
  <2>2. <<0 .. m, x>> \notin StrictSubsetOrdering(0 .. N)
    BY <1>4, <2>1
  <2>3. 0 .. m \in SUBSET (0 .. N) /\ x \in SUBSET (0 .. N)
    BY <1>3, <2>1
  <2>4. 0 .. m \subseteq x /\ 0 .. m # x
    <3>1. n \in 0 .. n /\ n \notin 0 .. m
      BY <1>6, <2>1
    <3> QED  BY <1>5, <1>6, <2>1, <3>1
  <2> QED  BY <2>2, <2>3, <2>4 DEF StrictSubsetOrdering
<1> QED  BY <1>6, <1>5

\* Induction, for a set of natural numbers.
LEMMA AllNaturals ==
  ASSUME NEW T \in SUBSET Nat, 0 \in T, \A n \in T : n + 1 \in T
  PROVE  T = Nat
<1>1. SUFFICES ASSUME Nat \ T # {} PROVE FALSE
  OBVIOUS
<1>2. PICK x \in Nat \ T : \A y \in Nat \ T : x <= y
  BY <1>1, LeastNatural
<1>3. x - 1 \in Nat /\ (x - 1) + 1 = x
  BY <1>2
<1>4. x - 1 \in T
  BY <1>2, <1>3
<1> QED  BY <1>2, <1>3, <1>4

\* What FlattenSeq builds up, element by element.
LEMMA FlattenFacts ==
  ASSUME NEW S, NEW ss \in Seq(S), ss # <<>>
  PROVE  \E f : /\ FlattenSeq(ss) = f[Len(ss)]
               /\ f = [i \in 1 .. Len(ss) |-> IF i = 1 THEN ss[i] ELSE f[i - 1] \o ss[i]]
<1> DEFINE Join(a, i) == a \o ss[i]
           Builds(g, n) == g = [i \in 1 .. n |-> IF i = 1 THEN ss[i] ELSE Join(g[i - 1], i)]
           T == {n \in Nat : \E g : Builds(g, n)}
<1>1. 0 \in T
  <2> HIDE DEF Join
  <2>1. Builds(<<>>, 0)
    OBVIOUS
  <2> QED  BY <2>1
<1>2. ASSUME NEW n \in T PROVE n + 1 \in T
  <2> HIDE DEF Join
  <2>1. PICK g : Builds(g, n)
    OBVIOUS
  <2> DEFINE h == [i \in 1 .. (n + 1) |-> IF i = 1 THEN ss[i] ELSE Join(g[i - 1], i)]
  <2>2. ASSUME NEW i \in 1 .. n PROVE h[i] = g[i]
    <3>1. g[i] = IF i = 1 THEN ss[i] ELSE Join(g[i - 1], i)
      BY <2>1
    <3>2. i \in 1 .. (n + 1)
      OBVIOUS
    <3> QED  BY <3>1, <3>2
  <2>3. \A i \in 1 .. (n + 1) : i # 1 => i - 1 \in 1 .. n
    OBVIOUS
  <2>4. \A i \in 1 .. (n + 1) : i # 1 => h[i - 1] = g[i - 1]
    BY <2>2, <2>3
  <2>5. h = [i \in 1 .. (n + 1) |-> IF i = 1 THEN ss[i] ELSE Join(h[i - 1], i)]
    BY <2>4
  <2> HIDE DEF h
  <2> QED  BY <2>5
<1>3. Len(ss) \in T
  <2> HIDE DEF T
  <2>1. T \subseteq Nat
    BY DEF T
  <2>2. T = Nat
    BY <1>1, <1>2, <2>1, AllNaturals
  <2> QED  BY <2>2
<1> DEFINE f == CHOOSE g : Builds(g, Len(ss))
<1>4. Builds(f, Len(ss))
  <2> HIDE DEF Builds
  <2> QED  BY <1>3
<1>5. FlattenSeq(ss) = f[Len(ss)]
  BY DEF FlattenSeq
<1> HIDE DEF f
<1> QED  BY <1>4, <1>5

\* Two pieces of a stream, the second next to the first, are one.
LEMMA PiecesJoin ==
  ASSUME NEW s \in Seq(Kinds), NEW t, NEW u, Piece(s, t), Piece(s, u),
         t # <<>>, u # <<>>, u[1] = After(s, t[Len(t)])
  PROVE  /\ Piece(s, t \o u)
         /\ (t \o u)[1] = t[1] /\ (t \o u)[Len(t \o u)] = u[Len(u)] /\ t \o u # <<>>
<1>1. t \in Seq(CellsOf(s)) /\ u \in Seq(CellsOf(s)) /\ Len(t) > 0 /\ Len(u) > 0
  BY DEF Piece
<1>2. /\ t \o u \in Seq(CellsOf(s)) /\ Len(t \o u) = Len(t) + Len(u)
      /\ \A k \in 1 .. Len(t \o u) : (t \o u)[k] = IF k <= Len(t) THEN t[k] ELSE u[k - Len(t)]
  BY <1>1, ConcatProperties
<1>3. ASSUME NEW k \in 1 .. (Len(t \o u) - 1)
      PROVE  (t \o u)[k + 1] = After(s, (t \o u)[k])
  <2>1. k \in 1 .. Len(t \o u) /\ k + 1 \in 1 .. Len(t \o u)
    BY <1>1, <1>2
  <2>2. CASE k < Len(t)
    <3>1. k \in 1 .. (Len(t) - 1) /\ k <= Len(t) /\ k + 1 <= Len(t)
      BY <1>1, <1>2, <2>2
    <3> QED  BY <1>2, <2>1, <3>1 DEF Piece
  <2>3. CASE k = Len(t)
    <3>1. ~(k + 1 <= Len(t)) /\ (k + 1) - Len(t) = 1 /\ k <= Len(t)
      BY <1>1, <2>3
    <3> QED  BY <1>2, <2>1, <2>3, <3>1
  <2>4. CASE k > Len(t)
    <3>1. /\ ~(k + 1 <= Len(t)) /\ (k + 1) - Len(t) = (k - Len(t)) + 1
          /\ ~(k <= Len(t)) /\ k - Len(t) \in 1 .. (Len(u) - 1)
      BY <1>1, <1>2, <2>4
    <3>2. u[(k - Len(t)) + 1] = After(s, u[k - Len(t)])
      BY <3>1 DEF Piece
    <3> QED  BY <1>2, <2>1, <3>1, <3>2
  <2> QED  BY <1>1, <2>2, <2>3, <2>4
<1> QED  BY <1>1, <1>2, <1>3 DEF Piece

\* The cells of one frame.
LEMMA FrameIsPiece ==
  ASSUME NEW s \in Seq(Kinds), NEW k \in 1 .. Len(s),
         NEW u, u = [p \in 1 .. Size(s[k]) |-> [frame |-> k, part |-> p]]
  PROVE  /\ Piece(s, u) /\ u # <<>>
         /\ u[1] = [frame |-> k, part |-> 1]
         /\ u[Len(u)] = [frame |-> k, part |-> Size(s[k])]
<1>1. Size(s[k]) \in 2 .. 4
  BY DEF Size
<1>2. u \in Seq(CellsOf(s)) /\ Len(u) = Size(s[k])
  BY <1>1, SMTT(20) DEF CellsOf, Cell
<1>3. \A p \in 1 .. (Len(u) - 1) : u[p + 1] = After(s, u[p])
  BY <1>1, <1>2 DEF After
<1>4. 1 \in 1 .. Size(s[k]) /\ Size(s[k]) \in 1 .. Size(s[k])
  BY <1>1
<1>5. u[1] = [frame |-> k, part |-> 1] /\ u[Size(s[k])] = [frame |-> k, part |-> Size(s[k])]
  BY <1>4
<1>6. u # <<>>
  BY <1>1, <1>2
<1> QED  BY <1>2, <1>3, <1>5, <1>6 DEF Piece

\* All the cells of a client's frames are a piece of the stream, the first one first.
LEMMA CellsArePiece ==
  ASSUME NEW s \in Seq(Kinds)
  PROVE  /\ Piece(s, Cells(s))
         /\ Cells(s) # <<>> => Cells(s)[1] = [frame |-> 1, part |-> 1]
<1> DEFINE F(k) == [p \in 1 .. Size(s[k]) |-> [frame |-> k, part |-> p]]
           ss == [k \in DOMAIN s |-> F(k)]
<1>1. ss \in Seq(Seq(CellsOf(s))) /\ Len(ss) = Len(s) /\ DOMAIN s = 1 .. Len(s)
  <2>1. \A k \in 1 .. Len(s) : F(k) \in Seq(CellsOf(s))
    BY FrameIsPiece DEF Piece
  <2> QED  BY <2>1
<1>2. Cells(s) = FlattenSeq(ss)
  BY DEF Cells
<1>3. CASE s = <<>>
  <2>1. Cells(s) = <<>>
    BY <1>1, <1>2, <1>3 DEF FlattenSeq
  <2> QED  BY <2>1 DEF Piece
<1>4. CASE s # <<>>
  <2>1. Len(s) > 0 /\ ss # <<>>
    BY <1>1, <1>4
  <2>2. PICK f : /\ FlattenSeq(ss) = f[Len(ss)]
                 /\ f = [k \in 1 .. Len(ss) |-> IF k = 1 THEN ss[k] ELSE f[k - 1] \o ss[k]]
    <3> HIDE DEF ss
    <3> QED  BY <1>1, <2>1, FlattenFacts
  <2> DEFINE Good(k) == /\ Piece(s, f[k]) /\ f[k] # <<>>
                        /\ f[k][1] = [frame |-> 1, part |-> 1]
                        /\ f[k][Len(f[k])] = [frame |-> k, part |-> Size(s[k])]
             T == {n \in Nat : n + 1 \in 1 .. Len(s) => Good(n + 1)}
  <2>3. \A k \in 1 .. Len(s) : /\ Piece(s, ss[k]) /\ ss[k] # <<>>
                              /\ ss[k][1] = [frame |-> k, part |-> 1]
                              /\ ss[k][Len(ss[k])] = [frame |-> k, part |-> Size(s[k])]
    BY FrameIsPiece, <1>1
  <2>4. Good(1)
    <3>1. 1 \in 1 .. Len(s)
      BY <2>1
    <3>2. f[1] = ss[1]
      BY <1>1, <2>2, <3>1
    <3> HIDE DEF ss
    <3> QED  BY <2>3, <3>1, <3>2
  <2>5. ASSUME NEW k \in 1 .. Len(s), k + 1 \in 1 .. Len(s), Good(k)
        PROVE  Good(k + 1)
    <3>1. k + 1 # 1 /\ (k + 1) - 1 = k
      OBVIOUS
    <3>2. f[k + 1] = f[k] \o ss[k + 1]
      <4> HIDE DEF ss
      <4> QED  BY <1>1, <2>2, <2>5, <3>1
    <3> HIDE DEF ss
    <3>3. /\ Piece(s, ss[k + 1]) /\ ss[k + 1] # <<>>
          /\ ss[k + 1][1] = [frame |-> k + 1, part |-> 1]
          /\ ss[k + 1][Len(ss[k + 1])] = [frame |-> k + 1, part |-> Size(s[k + 1])]
      BY <2>3, <2>5
    <3>4. /\ Piece(s, f[k]) /\ f[k] # <<>> /\ f[k][1] = [frame |-> 1, part |-> 1]
          /\ f[k][Len(f[k])] = [frame |-> k, part |-> Size(s[k])]
      BY <2>5
    <3>5. After(s, [frame |-> k, part |-> Size(s[k])]) = [frame |-> k + 1, part |-> 1]
      BY DEF After
    <3>6. /\ Piece(s, f[k + 1]) /\ f[k + 1] # <<>> /\ f[k + 1][1] = f[k][1]
          /\ f[k + 1][Len(f[k + 1])] = ss[k + 1][Len(ss[k + 1])]
      <4>1. ss[k + 1][1] = After(s, f[k][Len(f[k])])
        BY <3>3, <3>4, <3>5
      <4> DEFINE t == f[k]
                 u == ss[k + 1]
      <4>2. Piece(s, t) /\ Piece(s, u) /\ t # <<>> /\ u # <<>> /\ u[1] = After(s, t[Len(t)])
        BY <3>3, <3>4, <4>1
      <4> HIDE DEF t, u
      <4>3. /\ Piece(s, t \o u) /\ t \o u # <<>> /\ (t \o u)[1] = t[1]
            /\ (t \o u)[Len(t \o u)] = u[Len(u)]
        BY <4>2, PiecesJoin
      <4>4. f[k + 1] = t \o u
        BY <3>2 DEF t, u
      <4> QED  BY <4>3, <4>4 DEF t, u
    <3> QED  BY <3>3, <3>4, <3>6
  <2>6. Good(Len(s))
    <3> HIDE DEF Good
    <3>1. 0 \in T
      BY <2>4
    <3>2. ASSUME NEW n \in T PROVE n + 1 \in T
      <4>1. SUFFICES ASSUME (n + 1) + 1 \in 1 .. Len(s) PROVE Good((n + 1) + 1)
        OBVIOUS
      <4>2. n + 1 \in 1 .. Len(s)
        BY <4>1
      <4> QED  BY <2>5, <4>1, <4>2
    <3>3. T = Nat
      <4> HIDE DEF T
      <4>1. T \subseteq Nat
        BY DEF T
      <4> QED  BY <3>1, <3>2, <4>1, AllNaturals
    <3>4. Len(s) - 1 \in Nat /\ (Len(s) - 1) + 1 = Len(s) /\ Len(s) \in 1 .. Len(s)
      BY <2>1
    <3> QED  BY <3>3, <3>4
  <2> QED  BY <1>1, <1>2, <2>2, <2>6
<1> QED  BY <1>3, <1>4
\* A cell of a frame.
LEMMA CellFacts ==
  ASSUME NEW s \in Seq(Kinds), NEW c \in CellsOf(s)
  PROVE  /\ c \in Cell /\ c = [frame |-> c.frame, part |-> c.part]
         /\ c.frame \in 1 .. Len(s) /\ c.part \in 1 .. Size(s[c.frame])
         /\ s[c.frame] \in Kinds /\ Size(s[c.frame]) \in 2 .. 4
         /\ After(s, c).frame \in {c.frame, c.frame + 1}
<1>1. /\ c \in Cell /\ c = [frame |-> c.frame, part |-> c.part]
      /\ c.frame \in 1 .. Len(s) /\ c.part \in 1 .. Size(s[c.frame])
  BY DEF CellsOf, Cell
<1>2. s[c.frame] \in Kinds
  BY <1>1
<1>3. Size(s[c.frame]) \in 2 .. 4
  BY DEF Size
<1>4. After(s, c).frame \in {c.frame, c.frame + 1}
  BY DEF After
<1> QED  BY <1>1, <1>2, <1>3, <1>4

\* A part of a piece is one.
LEMMA PieceCut ==
  ASSUME NEW s \in Seq(Kinds), NEW t, Piece(s, t), NEW a \in Nat \ {0},
         NEW b \in Int, b <= Len(t)
  PROVE  /\ Piece(s, SubSeq(t, a, b))
         /\ Len(SubSeq(t, a, b)) = IF a <= b THEN b - a + 1 ELSE 0
         /\ \A k \in 1 .. Len(SubSeq(t, a, b)) : SubSeq(t, a, b)[k] = t[a + k - 1]
         /\ SubSeq(t, a, b) # <<>> => a \in 1 .. Len(t) /\ SubSeq(t, a, b)[1] = t[a]
<1> DEFINE u == SubSeq(t, a, b)
<1>1. t \in Seq(CellsOf(s)) /\ Len(t) \in Nat
  BY DEF Piece
<1>2. \A k \in a .. b : t[k] \in CellsOf(s)
  BY <1>1
<1>3. /\ u \in Seq(CellsOf(s)) /\ Len(u) = IF a <= b THEN b - a + 1 ELSE 0
      /\ \A k \in 1 .. (b - a + 1) : u[k] = t[a + k - 1]
  BY <1>2, SubSeqProperties
<1> HIDE DEF u
<1>4. \A k \in 1 .. Len(u) : u[k] = t[a + k - 1]
  BY <1>3
<1>5. ASSUME NEW k \in 1 .. (Len(u) - 1)
      PROVE  u[k + 1] = After(s, u[k])
  <2>1. /\ k \in 1 .. Len(u) /\ k + 1 \in 1 .. Len(u)
        /\ a + (k + 1) - 1 = (a + k - 1) + 1 /\ a + k - 1 \in 1 .. (Len(t) - 1)
    BY <1>1, <1>3
  <2>2. u[k] = t[a + k - 1] /\ u[k + 1] = t[(a + k - 1) + 1]
    BY <1>4, <2>1
  <2> QED  BY <2>1, <2>2 DEF Piece
<1>6. u # <<>> => a \in 1 .. Len(t) /\ u[1] = t[a]
  <2>1. u # <<>> => Len(u) > 0
    BY <1>3
  <2>2. Len(u) > 0 => a <= b /\ 1 \in 1 .. Len(u) /\ a + 1 - 1 = a
    BY <1>1, <1>3
  <2> QED  BY <1>1, <1>4, <2>1, <2>2
<1> QED  BY <1>3, <1>4, <1>5, <1>6 DEF u, Piece

\* Frames do not go back within a piece.
LEMMA FramesGrow ==
  ASSUME NEW s \in Seq(Kinds), NEW t, Piece(s, t), NEW n \in 1 .. Len(t)
  PROVE  t[1].frame <= t[n].frame
<1> DEFINE T == {m \in Nat : m + 1 \in 1 .. Len(t) => t[1].frame <= t[m + 1].frame}
<1>1. t \in Seq(CellsOf(s)) /\ Len(t) \in Nat
  BY DEF Piece
<1>2. \A k \in 1 .. Len(t) : t[k] \in CellsOf(s) /\ t[k].frame \in Nat
  BY <1>1 DEF CellsOf
<1>3. 0 \in T
  BY <1>2
<1>4. ASSUME NEW m \in T PROVE m + 1 \in T
  <2>1. SUFFICES ASSUME (m + 1) + 1 \in 1 .. Len(t) PROVE t[1].frame <= t[(m + 1) + 1].frame
    OBVIOUS
  <2>2. m + 1 \in 1 .. (Len(t) - 1) /\ m + 1 \in 1 .. Len(t) /\ 1 \in 1 .. Len(t)
    BY <1>1, <2>1
  <2>3. t[(m + 1) + 1] = After(s, t[m + 1])
    BY <2>2 DEF Piece
  <2>4. t[(m + 1) + 1].frame \in {t[m + 1].frame, t[m + 1].frame + 1}
    BY <1>2, <2>2, <2>3, CellFacts
  <2>5. t[1].frame <= t[m + 1].frame
    BY <2>2
  <2>6. t[1].frame \in Nat /\ t[m + 1].frame \in Nat
    BY <1>2, <2>2
  <2> QED  BY <2>4, <2>5, <2>6, SMTT(20)
<1>5. T = Nat
  <2> HIDE DEF T
  <2>1. T \subseteq Nat
    BY DEF T
  <2> QED  BY <1>3, <1>4, <2>1, AllNaturals
<1>6. n - 1 \in Nat /\ (n - 1) + 1 = n
  BY <1>1
<1> QED  BY <1>5, <1>6

-----------------------------------------------------------------------------
(* The start *)

LEMMA InitInv == Init => Inv
<1> SUFFICES ASSUME Init PROVE Inv
  OBVIOUS
<1>1. sent \in Seq(Kinds) /\ sent \in Streams /\ Len(sent) \in Nat
  BY FramesAssumption DEF Init
<1> DEFINE all == Cells(sent)
<1>2. PICK rest \in 0 .. 3 : net = SubSeq(all, 1, Len(all) - rest)
  BY DEF Init
<1>3. Piece(sent, all) /\ (all # <<>> => all[1] = [frame |-> 1, part |-> 1])
  BY <1>1, CellsArePiece
<1> HIDE DEF all
<1>4. all \in Seq(CellsOf(sent)) /\ Len(all) \in Nat
  BY <1>3 DEF Piece
<1>5. Len(all) - rest \in Int /\ Len(all) - rest <= Len(all) /\ 1 \in Nat \ {0}
  BY <1>4
<1>6. Piece(sent, net) /\ (net # <<>> => 1 \in 1 .. Len(all) /\ net[1] = all[1])
  BY <1>1, <1>2, <1>3, <1>5, PieceCut
<1>7. net # <<>> => net[1] = [frame |-> 0 + 1, part |-> 1]
  BY <1>3, <1>4, <1>6
<1>8. taken = 0 /\ pc = "hello" /\ handed = <<>> /\ answers = <<>> /\ torn = FALSE
      /\ merged = FALSE /\ starved = {} /\ length = 0 /\ total = 0 /\ gone \in BOOLEAN
      /\ buffer = [c \in BufferCells |-> Own]
  BY DEF Init
<1>9. net \in Seq(Cell)
  <2>1. CellsOf(sent) \subseteq Cell
    BY DEF CellsOf
  <2> QED  BY <1>6, <2>1 DEF Piece
<1>10. TypeOK
  <2>1. handed \in Seq(0 .. Len(sent))
        /\ answers \in Seq([what : {"close", "pong", "202", "403"}, to : 1 .. Len(sent)])
    BY <1>8
  <2>2. buffer \in [BufferCells -> Cell \cup {Own}]
    BY <1>8
  <2>3. {gone, torn, merged} \subseteq BOOLEAN
    BY <1>8
  <2>4. taken \in 0 .. Len(sent) /\ starved \subseteq 1 .. Len(sent)
    BY <1>1, <1>8
  <2> QED  BY <1>1, <1>8, <1>9, <2>1, <2>2, <2>3, <2>4 DEF TypeOK
<1>11. Stream
  BY <1>1, <1>6, <1>7, <1>8 DEF Stream, Ahead, Busy
<1>12. Whole /\ AllCovered
  BY <1>8 DEF Whole, AllCovered, Settled, Busy
<1>13. Told
  BY <1>8 DEF Told, InStep, Increasing, ToSet
<1> QED  BY <1>10, <1>11, <1>12, <1>13 DEF Inv

-----------------------------------------------------------------------------
(* What the actions do *)

\* The frame that is looked at.
LEMMA LookedFacts ==
  ASSUME Inv, Busy
  PROVE  /\ Looked \in 1 .. Len(sent) /\ Looked <= taken
         /\ sent[Looked] \in Kinds /\ Size(sent[Looked]) \in 2 .. 4
         /\ buffer[0] \in CellsOf(sent) /\ buffer[0] \in Cell /\ length >= 1
<1>1. sent \in Seq(Kinds) /\ buffer[0] \in CellsOf(sent) /\ Looked <= taken /\ length >= 1
  BY DEF Inv, Stream
<1> QED  BY <1>1, CellFacts DEF Looked

\* In step with the stream, header and mask are in front of it.
LEMMA HeaderFacts ==
  ASSUME Inv, Busy, ~torn
  PROVE  /\ buffer[0] = [frame |-> Looked, part |-> 1]
         /\ buffer[1] = [frame |-> Looked, part |-> 2]
         /\ buffer[1] # Own
         /\ length >= 2 /\ (length >= Size(sent[Looked]) \/ sent[Looked] = "long")
<1>1. Looked \in 1 .. Len(sent) /\ Size(sent[Looked]) \in 2 .. 4 /\ length \in Nat
  BY LookedFacts DEF Inv, TypeOK
<1>2. /\ length >= 2 /\ (length >= Size(sent[Looked]) \/ sent[Looked] = "long")
      /\ \A p \in 1 .. Size(sent[Looked]) :
           p <= length => buffer[p - 1] = [frame |-> Looked, part |-> p]
  BY DEF Inv, Whole
<1>3. 1 \in 1 .. Size(sent[Looked]) /\ 2 \in 1 .. Size(sent[Looked]) /\ 1 <= length
      /\ 1 - 1 = 0 /\ 2 - 1 = 1
  BY <1>1, <1>2
<1>4. /\ buffer[0] = [frame |-> Looked, part |-> 1]
      /\ buffer[1] = [frame |-> Looked, part |-> 2]
  BY <1>2, <1>3
<1> QED  BY <1>2, <1>4 DEF Own

\* The buffer after a read.
LEMMA FilledFacts ==
  ASSUME Inv, NEW at \in Nat, NEW n \in 1 .. Len(net)
  PROVE  \A c \in BufferCells :
           Filled(at, SubSeq(net, 1, n))[c] =
             IF c - at + 1 \in 1 .. n THEN net[c - at + 1] ELSE buffer[c]
<1>1. sent \in Seq(Kinds) /\ Piece(sent, net) /\ n \in Int /\ n <= Len(net) /\ 1 \in Nat \ {0}
      /\ net \in Seq(CellsOf(sent))
  BY DEF Inv, Stream, Piece
<1> DEFINE u == SubSeq(net, 1, n)
<1>2. Len(u) = n /\ \A k \in 1 .. Len(u) : u[k] = net[1 + k - 1]
  BY <1>1, PieceCut
<1>3. u \in Seq(CellsOf(sent))
  BY <1>1, PieceCut DEF Piece
<1> HIDE DEF u
<1>4. DOMAIN u = 1 .. n /\ \A k \in 1 .. n : u[k] = net[k]
  BY <1>2, <1>3
<1>5. \A c \in BufferCells :
        Filled(at, u)[c] = IF c - at + 1 \in 1 .. n THEN net[c - at + 1] ELSE buffer[c]
  BY <1>4 DEF Filled
<1> QED  BY <1>5 DEF u

\* The cells that follow a cell, to the end of its frame.
LEMMA FrameFollows ==
  ASSUME NEW s \in Seq(Kinds), NEW t, Piece(s, t), NEW f \in 1 .. Len(s),
         NEW q \in 1 .. Size(s[f]), t # <<>>, t[1] = [frame |-> f, part |-> q],
         NEW p \in 1 .. Len(t), q + p - 1 <= Size(s[f])
  PROVE  t[p] = [frame |-> f, part |-> q + p - 1]
<1> DEFINE T == {m \in Nat : m + 1 \in 1 .. Len(t) /\ q + m <= Size(s[f])
                               => t[m + 1] = [frame |-> f, part |-> q + m]}
<1>1. Size(s[f]) \in 2 .. 4
  BY DEF Size
<1>2. 0 \in T
  BY <1>1
<1>3. ASSUME NEW m \in T PROVE m + 1 \in T
  <2>1. SUFFICES ASSUME (m + 1) + 1 \in 1 .. Len(t), q + (m + 1) <= Size(s[f])
                 PROVE  t[(m + 1) + 1] = [frame |-> f, part |-> q + (m + 1)]
    OBVIOUS
  <2>2. Len(t) \in Nat
    BY DEF Piece
  <2>3. m + 1 \in 1 .. (Len(t) - 1) /\ m + 1 \in 1 .. Len(t) /\ q + m < Size(s[f])
    BY <1>1, <2>1, <2>2
  <2>4. t[m + 1] = [frame |-> f, part |-> q + m]
    BY <1>1, <2>3
  <2>5. t[(m + 1) + 1] = After(s, t[m + 1])
    BY <2>3 DEF Piece
  <2>6. q + m # Size(s[f]) /\ (q + m) + 1 = q + (m + 1)
    BY <1>1, <2>3
  <2> QED  BY <2>4, <2>5, <2>6 DEF After
<1>4. T = Nat
  <2> HIDE DEF T
  <2>1. T \subseteq Nat
    BY DEF T
  <2> QED  BY <1>2, <1>3, <2>1, AllNaturals
<1>5. Len(t) \in Nat
  BY DEF Piece
<1>6. p - 1 \in Nat /\ (p - 1) + 1 = p /\ q + (p - 1) = q + p - 1
  BY <1>1, <1>5
<1>7. p - 1 \in T
  BY <1>4, <1>6
<1> QED  BY <1>6, <1>7

\* A read: what is left of the stream, and where it goes on.
LEMMA ReadFacts ==
  ASSUME Inv, NEW n \in 1 .. Len(net), net' = SubSeq(net, n + 1, Len(net)),
         taken' = net[n].frame, sent' = sent
  PROVE  /\ Piece(sent, net)' /\ net' \in Seq(Cell)
         /\ net' # <<>> => n + 1 \in 1 .. Len(net) /\ net'[1] = net[n + 1]
         /\ Ahead' /\ net # <<>> /\ net[1].frame \in Nat /\ net[1] \in CellsOf(sent)
         /\ taken <= net[1].frame /\ net[1].frame <= taken'
         /\ taken' \in 1 .. Len(sent) /\ net[n] \in CellsOf(sent)
<1>1. /\ sent \in Seq(Kinds) /\ Piece(sent, net) /\ net \in Seq(CellsOf(sent)) /\ Len(net) \in Nat
      /\ taken \in Nat
  BY DEF Inv, Stream, Piece, TypeOK
<1>2. /\ n + 1 \in Nat \ {0} /\ Len(net) \in Int /\ Len(net) <= Len(net) /\ 1 \in 1 .. Len(net)
      /\ net # <<>>
  BY <1>1
<1>3. Piece(sent, net') /\ (net' # <<>> => n + 1 \in 1 .. Len(net) /\ net'[1] = net[n + 1])
  BY <1>1, <1>2, PieceCut
<1>4. net[n] \in CellsOf(sent) /\ net[1] \in CellsOf(sent)
  BY <1>1, <1>2
<1>5. /\ net[1].frame \in 1 .. Len(sent) /\ taken' \in 1 .. Len(sent) /\ net[n].frame \in Nat
      /\ net[n].part \in 1 .. Size(sent[net[n].frame]) /\ Size(sent[net[n].frame]) \in 2 .. 4
  <2>1. \A c \in CellsOf(sent) :
          c.frame \in 1 .. Len(sent) /\ c.part \in 1 .. Size(sent[c.frame])
          /\ Size(sent[c.frame]) \in 2 .. 4
    BY <1>1, CellFacts
  <2>2. Len(sent) \in Nat
    BY <1>1
  <2>3. /\ net[1].frame \in 1 .. Len(sent) /\ net[n].frame \in 1 .. Len(sent)
        /\ net[n].part \in 1 .. Size(sent[net[n].frame]) /\ Size(sent[net[n].frame]) \in 2 .. 4
    BY <1>4, <2>1
  <2> QED  BY <2>2, <2>3
<1>6. net[1].frame <= taken'
  BY <1>1, FramesGrow
<1>7. taken <= net[1].frame
  BY <1>1, <1>2 DEF Inv, Stream, Ahead
<1>8. ASSUME net' # <<>>
      PROVE  \/ net'[1] = [frame |-> taken' + 1, part |-> 1]
             \/ net'[1].frame = taken' /\ net'[1].part # 1
  <2>1. n \in 1 .. (Len(net) - 1)
    BY <1>1, <1>3, <1>8
  <2>2. net'[1] = After(sent, net[n])
    BY <1>1, <1>3, <1>8, <2>1 DEF Piece
  <2>3. net[n].part + 1 # 1
    BY <1>5
  <2> DEFINE c == net[n]
             d == net'[1]
  <2>4. d = After(sent, c) /\ c.part + 1 # 1 /\ c.frame = taken'
    BY <2>2, <2>3
  <2> HIDE DEF c, d
  <2>5. \/ d = [frame |-> c.frame + 1, part |-> 1]
        \/ d = [frame |-> c.frame, part |-> c.part + 1]
    BY <2>4 DEF After
  <2>6. d = [frame |-> taken' + 1, part |-> 1] \/ (d.frame = taken' /\ d.part # 1)
    BY <2>4, <2>5
  <2> QED  BY <2>6 DEF d
<1>9. net' \in Seq(Cell)
  <2>1. CellsOf(sent) \subseteq Cell
    BY DEF CellsOf
  <2> QED  BY <1>3, <2>1 DEF Piece
<1>10. Piece(sent, net)' /\ Ahead'
  BY <1>3, <1>8 DEF Ahead
<1> QED  BY <1>2, <1>3, <1>4, <1>5, <1>6, <1>7, <1>8, <1>9, <1>10, SMTT(20)

\* An answer is to a frame.
LEMMA AnswersTyped ==
  ASSUME Inv
  PROVE  \A i \in DOMAIN answers : answers[i].to \in 1 .. Len(sent) /\ answers[i].to \in Int
<1> DEFINE Answer == [what : {"close", "pong", "202", "403"}, to : 1 .. Len(sent)]
<1>1. answers \in Seq(Answer)
  BY DEF Inv, TypeOK
<1>2. \A i \in DOMAIN answers : answers[i] \in Answer
  <2> HIDE DEF Answer
  <2> QED  BY <1>1
<1>3. \A a \in Answer : a.to \in 1 .. Len(sent)
  OBVIOUS
<1> HIDE DEF Answer
<1>4. \A k \in 1 .. Len(sent) : k \in Int
  OBVIOUS
<1> QED  BY <1>2, <1>3, <1>4

\* What was answered stays within what is settled.
LEMMA NoAnswer ==
  ASSUME Inv, Settled <= Settled', Settled' \in Int,
         answers' = answers, handed' = handed, sent' = sent, torn' = torn
  PROVE  Told'
<1>1. InStep'
  BY DEF Inv, Told, InStep
<1>2. Settled \in Int
  BY LookedFacts DEF Settled, Inv, TypeOK
<1>3. ASSUME ~torn
      PROVE  /\ \A i \in DOMAIN handed : handed[i] <= Settled'
             /\ \A i \in DOMAIN answers : answers[i].to <= Settled'
  <2>1. /\ \A i \in DOMAIN handed : handed[i] \in Int /\ handed[i] <= Settled
        /\ \A i \in DOMAIN answers : answers[i].to \in Int /\ answers[i].to <= Settled
    <3>1. /\ handed \in Seq(0 .. Len(sent))
          /\ answers \in Seq([what : {"close", "pong", "202", "403"}, to : 1 .. Len(sent)])
      BY DEF Inv, TypeOK
    <3>2. \A i \in DOMAIN handed : handed[i] \in Int
      BY <3>1
    <3>3. \A i \in DOMAIN answers : answers[i].to \in Int
      BY AnswersTyped
    <3> QED  BY <1>3, <3>2, <3>3 DEF Inv, Told
  <2> QED  BY <1>2, <2>1
<1> QED  BY <1>1, <1>3 DEF Told

\* A larger element at its end leaves a sequence increasing.
LEMMA AppendIncreasing ==
  ASSUME NEW t \in Seq(Int), Increasing(t), NEW v \in Int, \A i \in DOMAIN t : t[i] < v
  PROVE  Increasing(Append(t, v))
<1>1. DOMAIN t = 1 .. Len(t) /\ Len(t) \in Nat
  OBVIOUS
<1>2. /\ DOMAIN Append(t, v) = 1 .. (Len(t) + 1)
      /\ \A i \in 1 .. Len(t) : Append(t, v)[i] = t[i]
      /\ Append(t, v)[Len(t) + 1] = v
  OBVIOUS
<1>3. ASSUME NEW i \in 1 .. (Len(t) + 1), NEW j \in 1 .. (Len(t) + 1), i < j
      PROVE  Append(t, v)[i] < Append(t, v)[j]
  <2>1. i \in 1 .. Len(t) /\ (j \in 1 .. Len(t) \/ j = Len(t) + 1)
    BY <1>1, <1>3
  <2> QED  BY <1>1, <1>2, <1>3, <2>1 DEF Increasing
<1> QED  BY <1>2, <1>3 DEF Increasing

\* An answer to the frame that is looked at, and its packet handed on with 202.
LEMMA AnswerAdded ==
  ASSUME Inv, Busy, ~Busy', sent' = sent, torn' = torn, taken' = taken,
         NEW w, answers' = Append(answers, [what |-> w, to |-> Looked]),
         ~torn => Fits(w, sent[Looked]),
         ~torn => IF w = "202" THEN handed' = Append(handed, Looked) ELSE handed' = handed
  PROVE  Told'
<1> SUFFICES ASSUME ~torn PROVE Told'
  BY DEF Told, InStep
<1>1. /\ handed \in Seq(0 .. Len(sent))
      /\ answers \in Seq([what : {"close", "pong", "202", "403"}, to : 1 .. Len(sent)])
      /\ taken \in Nat
  BY DEF Inv, TypeOK
<1>2. Looked \in 1 .. Len(sent) /\ Looked <= taken /\ sent[Looked] \in Kinds
  BY LookedFacts
<1>3. Settled = Looked - 1 /\ Settled' = taken /\ Looked \in Nat
  BY <1>2 DEF Settled
<1> DEFINE to == [i \in DOMAIN answers |-> answers[i].to]
<1>4. \A i \in DOMAIN answers : answers[i].to \in 1 .. Len(sent) /\ answers[i].to < Looked
  <2>2. \A i \in DOMAIN answers : answers[i].to \in 1 .. Len(sent)
    BY AnswersTyped
  <2>3. \A i \in DOMAIN answers : answers[i].to <= Looked - 1
    BY <1>3 DEF Inv, Told
  <2> QED  BY <1>3, <2>2, <2>3
<1>5. \A i \in DOMAIN handed : handed[i] \in Int /\ handed[i] < Looked
  <2>1. \A i \in DOMAIN handed : handed[i] \in 0 .. Len(sent)
    BY <1>1
  <2>2. \A i \in DOMAIN handed : handed[i] <= Looked - 1
    BY <1>3 DEF Inv, Told
  <2> QED  BY <1>3, <2>1, <2>2
<1>6. /\ DOMAIN answers = 1 .. Len(answers) /\ Len(answers) \in Nat
      /\ DOMAIN answers' = 1 .. (Len(answers) + 1)
      /\ \A i \in 1 .. Len(answers) : answers'[i] = answers[i]
      /\ answers'[Len(answers) + 1] = [what |-> w, to |-> Looked]
  BY <1>1
<1>7. /\ Increasing(handed) /\ Increasing(to)
      /\ \A i \in DOMAIN handed : handed[i] # Noise /\ sent[handed[i]] \in {"text", "long"}
      /\ \A i \in DOMAIN answers : Fits(answers[i].what, sent[answers[i].to])
      /\ ToSet(handed) = {answers[i].to : i \in {j \in DOMAIN answers : answers[j].what = "202"}}
  BY DEF Inv, Told, InStep
<1>8. Increasing(to')
  <2>1. to \in Seq(Int) /\ Len(to) = Len(answers)
    BY <1>4, <1>6
  <2>2. to' = Append(to, Looked)
    <3>1. to' = [i \in 1 .. (Len(answers) + 1) |->
                   IF i <= Len(answers) THEN answers[i].to ELSE Looked]
      BY <1>6
    <3>2. Append(to, Looked) = [i \in 1 .. (Len(answers) + 1) |->
                                  IF i <= Len(answers) THEN answers[i].to ELSE Looked]
      BY <1>6, <2>1, <1>3
    <3> QED  BY <3>1, <3>2
  <2>3. \A i \in DOMAIN to : to[i] < Looked
    BY <1>4
  <2> HIDE DEF to
  <2> QED  BY <1>3, <1>7, <2>1, <2>2, <2>3, AppendIncreasing
<1>9. \A i \in DOMAIN answers' : Fits(answers'[i].what, sent[answers'[i].to])
  <2>1. Fits(answers'[Len(answers) + 1].what, sent[answers'[Len(answers) + 1].to])
    BY <1>6
  <2>2. \A i \in 1 .. Len(answers) : Fits(answers'[i].what, sent[answers'[i].to])
    BY <1>6, <1>7
  <2> QED  BY <1>6, <2>1, <2>2
<1>10. \A i \in DOMAIN answers' : answers'[i].to <= taken
  <2>1. \A i \in 1 .. Len(answers) : answers'[i].to <= taken
    BY <1>1, <1>2, <1>3, <1>4, <1>6, SMTT(20)
  <2> QED  BY <1>2, <1>6, <2>1
<1> DEFINE Told202(a) == {a[i].to : i \in {j \in DOMAIN a : a[j].what = "202"}}
<1>11. Told202(answers') = Told202(answers) \cup (IF w = "202" THEN {Looked} ELSE {})
  <2>1. \A k : k \in Told202(answers') =>
                 k \in Told202(answers) \/ (w = "202" /\ k = Looked)
    BY <1>6
  <2>2. \A k : k \in Told202(answers) => k \in Told202(answers')
    BY <1>6
  <2>3. w = "202" => Looked \in Told202(answers')
    BY <1>6
  <2> HIDE DEF Told202
  <2> QED  BY <2>1, <2>2, <2>3
<1>12. CASE w # "202"
  <2>1. handed' = handed
    BY <1>12
  <2>2. ToSet(handed') = Told202(answers')
    BY <1>7, <1>11, <1>12, <2>1
  <2>3. \A i \in DOMAIN handed' : handed'[i] <= taken
    <3>1. \A x \in Int : x < Looked => x <= taken
      BY <1>1, <1>2, <1>3
    <3> QED  BY <1>5, <2>1, <3>1
  <2> QED  BY <1>3, <1>7, <1>8, <1>9, <1>10, <2>1, <2>2, <2>3 DEF Told, InStep
<1>13. CASE w = "202"
  <2>1. handed' = Append(handed, Looked) /\ sent[Looked] \in {"text", "long"}
    BY <1>13 DEF Fits
  <2>2. /\ DOMAIN handed = 1 .. Len(handed) /\ Len(handed) \in Nat
        /\ DOMAIN handed' = 1 .. (Len(handed) + 1)
        /\ \A i \in 1 .. Len(handed) : handed'[i] = handed[i]
        /\ handed'[Len(handed) + 1] = Looked
    BY <1>1, <2>1
  <2>3. handed \in Seq(Int)
    BY <1>1
  <2>4. Increasing(handed')
    BY <1>3, <1>5, <1>7, <2>1, <2>3, AppendIncreasing
  <2>5. \A i \in DOMAIN handed' : handed'[i] # Noise /\ sent[handed'[i]] \in {"text", "long"}
    <3>1. \A i \in 1 .. Len(handed) :
            handed'[i] # Noise /\ sent[handed'[i]] \in {"text", "long"}
      BY <1>7, <2>2
    <3>2. Looked # Noise
      BY <1>2 DEF Noise
    <3>3. \A i \in DOMAIN handed' : i \in 1 .. Len(handed) \/ i = Len(handed) + 1
      BY <2>2
    <3> QED  BY <2>1, <2>2, <3>1, <3>2, <3>3
  <2>6. ToSet(handed') = ToSet(handed) \cup {Looked}
    BY <2>2 DEF ToSet
  <2>7. \A i \in DOMAIN handed' : handed'[i] <= taken
    <3>1. \A x \in Int : x < Looked => x <= taken
      BY <1>1, <1>2, <1>3
    <3>2. \A i \in 1 .. Len(handed) : handed'[i] <= taken
      BY <1>5, <2>2, <3>1
    <3>3. \A i \in DOMAIN handed' : i \in 1 .. Len(handed) \/ i = Len(handed) + 1
      BY <2>2
    <3> QED  BY <1>2, <2>2, <3>2, <3>3
  <2>8. ToSet(handed') = Told202(answers')
    BY <1>7, <1>11, <1>13, <2>6
  <2> QED  BY <1>3, <1>8, <1>9, <1>10, <2>4, <2>5, <2>7, <2>8 DEF Told, InStep
<1> QED  BY <1>12, <1>13

LEMMA RecvInv ==
  ASSUME Inv, NEW n \in 1 .. Len(net), Recv(n)
  PROVE  Inv'
<1> DEFINE first == net[1]
           last  == net[n]
           f     == first.frame
           split == ~Final(last) /\ ~(Kind(last) = "long" /\ last.part >= 2)
<1>1. /\ pc = "open" /\ n <= Len(net) /\ buffer' = Filled(0, SubSeq(net, 1, n)) /\ length' = n
      /\ net' = SubSeq(net, n + 1, Len(net)) /\ pc' = "frame"
      /\ torn' = (torn \/ first.part # 1 \/ split)
      /\ merged' = (merged \/ f # last.frame) /\ taken' = last.frame
      /\ sent' = sent /\ gone' = gone /\ total' = total /\ handed' = handed
      /\ answers' = answers /\ starved' = starved
  BY DEF Recv, client
<1>2. /\ Piece(sent, net)' /\ net' \in Seq(Cell)
      /\ net' # <<>> => n + 1 \in 1 .. Len(net) /\ net'[1] = net[n + 1]
      /\ Ahead' /\ net # <<>> /\ f \in Nat /\ first \in CellsOf(sent)
      /\ taken <= f /\ f <= taken' /\ taken' \in 1 .. Len(sent) /\ last \in CellsOf(sent)
  BY <1>1, ReadFacts
<1>3. /\ sent \in Seq(Kinds) /\ Piece(sent, net) /\ net \in Seq(CellsOf(sent))
      /\ Len(net) \in Nat /\ n \in Nat
  BY DEF Inv, Stream, Piece
<1>4. \A c \in BufferCells :
        buffer'[c] = IF c + 1 \in 1 .. n THEN net[c + 1] ELSE buffer[c]
  <2>1. \A c \in BufferCells :
          buffer'[c] = IF c - 0 + 1 \in 1 .. n THEN net[c - 0 + 1] ELSE buffer[c]
    BY <1>1, FilledFacts
  <2>2. \A c \in BufferCells : c - 0 + 1 = c + 1
    BY DEF BufferCells
  <2> QED  BY <2>1, <2>2
<1>5. \A c \in BufferCells : buffer'[c] \in CellsOf(sent) \cup {Own}
  <2>1. \A c \in BufferCells : buffer[c] \in CellsOf(sent) \cup {Own}
    BY DEF Inv, Stream
  <2>2. \A k \in 1 .. n : net[k] \in CellsOf(sent)
    BY <1>3
  <2> QED  BY <1>4, <2>1, <2>2
<1>6. buffer'[0] = first
  <2>1. 0 \in BufferCells /\ 0 + 1 = 1 /\ 1 \in 1 .. n
    BY DEF BufferCells
  <2> QED  BY <1>4, <2>1
<1>7. Looked' = f
  BY <1>6 DEF Looked
<1>8. Busy' /\ ~Busy
  BY <1>1 DEF Busy
<1>9. TypeOK'
  <2>1. buffer' \in [BufferCells -> Cell \cup {Own}]
    <3>1. CellsOf(sent) \subseteq Cell
      BY DEF CellsOf
    <3>2. buffer' = [c \in BufferCells |-> buffer'[c]]
      BY <1>1 DEF Filled
    <3> QED  BY <1>5, <3>1, <3>2
  <2>2. {gone, torn, merged}' \subseteq BOOLEAN
    <3>1. {gone, torn, merged} \subseteq BOOLEAN
      BY DEF Inv, TypeOK
    <3>2. torn' \in BOOLEAN /\ merged' \in BOOLEAN
      BY <1>1, <3>1
    <3> QED  BY <1>1, <3>1, <3>2
  <2>3. pc' \in {"hello", "open", "frame", "refill", "payload", "lost", "closing", "dead"}
    BY <1>1
  <2>4. length' \in Nat /\ total' \in Nat /\ taken' \in 0 .. Len(sent')
    <3>1. total \in Nat /\ Len(sent) \in Nat
      BY <1>3 DEF Inv, TypeOK
    <3>2. taken' \in 0 .. Len(sent)
      BY <1>2, <3>1
    <3> QED  BY <1>1, <1>3, <3>1, <3>2
  <2> QED  BY <1>1, <1>2, <2>1, <2>2, <2>3, <2>4 DEF Inv, TypeOK
<1>10. Stream'
  <2>1. Looked' <= taken' /\ length' >= 1
    BY <1>1, <1>2, <1>3, <1>7
  <2>2. sent' \in Seq(Kinds) /\ buffer'[0] \in CellsOf(sent')
    BY <1>1, <1>2, <1>3, <1>6
  <2>3. \A c \in BufferCells : buffer'[c] \in CellsOf(sent') \cup {Own}
    BY <1>1, <1>5
  <2> QED  BY <1>2, <2>1, <2>2, <2>3 DEF Stream
<1>11. ~torn' => ~torn /\ first = [frame |-> f, part |-> 1] /\ ~split /\ f = taken + 1
                 /\ f \in 1 .. Len(sent) /\ Size(sent[f]) \in 2 .. 4 /\ last.frame \in Nat
  <2>1. first = [frame |-> f, part |-> first.part] /\ f \in 1 .. Len(sent)
        /\ Size(sent[f]) \in 2 .. 4 /\ last.frame \in 1 .. Len(sent)
    BY <1>2, <1>3, CellFacts
  <2>2. first = [frame |-> taken + 1, part |-> 1] \/ first.part # 1
    BY <1>2 DEF Inv, Stream, Ahead
  <2>3. first = [frame |-> taken + 1, part |-> 1] => f = taken + 1
    OBVIOUS
  <2>4. last.frame \in Nat
    BY <2>1
  <2> HIDE DEF first, f, last, split
  <2>5. ~torn' => ~torn /\ first.part = 1 /\ ~split
    BY <1>1 DEF first, split, last
  <2> QED  BY <2>1, <2>2, <2>3, <2>4, <2>5
<1>12. Whole'
  <2> SUFFICES ASSUME ~torn'
               PROVE  /\ length' >= 2 /\ (length' >= Size(sent[f]) \/ sent[f] = "long")
                      /\ \A p \in 1 .. Size(sent[f]) :
                           p <= length' => buffer'[p - 1] = [frame |-> f, part |-> p]
                      /\ length' < Size(sent[f]) /\ net' # <<>> => net'[1] = Behind(f, length')
    BY <1>1, <1>7 DEF Whole
  <2>1. \A p \in 1 .. Len(net) : p <= Size(sent[f]) => net[p] = [frame |-> f, part |-> p]
    <3>1. SUFFICES ASSUME NEW p \in 1 .. Len(net), p <= Size(sent[f])
                   PROVE  net[p] = [frame |-> f, part |-> p]
      OBVIOUS
    <3>2. 1 + p - 1 = p /\ 1 \in 1 .. Size(sent[f])
      BY <1>3, <1>11
    <3>3. net[p] = [frame |-> f, part |-> 1 + p - 1]
      BY <1>2, <1>3, <1>11, <3>1, <3>2, FrameFollows
    <3> QED  BY <3>2, <3>3
  <2>2. length' >= 2 /\ (length' >= Size(sent[f]) \/ sent[f] = "long")
    <3>1. CASE n < Size(sent[f])
      <4>1. last = [frame |-> f, part |-> n]
        BY <1>11, <2>1, <3>1
      <4>2. ~Final(last) /\ Kind(last) = sent[f]
        BY <1>3, <1>11, <4>1, <3>1 DEF Final, Kind
      <4> QED  BY <1>1, <1>11, <4>1, <4>2
    <3>2. CASE n >= Size(sent[f])
      BY <1>1, <1>3, <1>11, <3>2
    <3> QED  BY <1>3, <1>11, <3>1, <3>2
  <2>3. ASSUME NEW p \in 1 .. Size(sent[f]), p <= length'
        PROVE  buffer'[p - 1] = [frame |-> f, part |-> p]
    <3>1. p - 1 \in BufferCells /\ (p - 1) + 1 = p /\ p \in 1 .. n /\ p \in 1 .. Len(net)
          /\ p <= Size(sent[f])
      <4>1. p \in Nat /\ 1 <= p /\ p <= 4 /\ p <= n /\ n <= Len(net) /\ p <= Size(sent[f])
        BY <1>1, <1>3, <1>11, <2>3
      <4> QED  BY <1>3, <4>1 DEF BufferCells
    <3> QED  BY <1>4, <2>1, <3>1
  <2>4. ASSUME length' < Size(sent[f]), net' # <<>>
        PROVE  net'[1] = Behind(f, length')
    <3>1. n + 1 \in 1 .. Len(net) /\ n + 1 <= Size(sent[f])
      BY <1>1, <1>2, <1>3, <1>11, <2>4
    <3> QED  BY <1>1, <1>2, <2>1, <2>4, <3>1 DEF Behind
  <2> QED  BY <2>2, <2>3, <2>4
<1>13. ~torn' => Settled' = Settled
  <2>1. taken \in Nat
    BY DEF Inv, TypeOK
  <2> QED  BY <1>7, <1>8, <1>11, <2>1 DEF Settled
<1>14. Told'
  BY <1>1, <1>11, <1>13 DEF Inv, Told, InStep
<1>15. AllCovered'
  <2> SUFFICES ASSUME ~torn', ~merged'
               PROVE  Looked' = taken' /\ \A k \in 1 .. Settled' : Covered(k)'
    BY DEF AllCovered
  <2>1. Looked' = taken'
    BY <1>1, <1>7
  <2>2. \A k \in 1 .. Settled : Covered(k)
    BY <1>1, <1>11, <1>8 DEF Inv, AllCovered
  <2>3. \A k : Covered(k) => Covered(k)'
    BY <1>1 DEF Covered
  <2> QED  BY <2>1, <2>2, <2>3, <1>13
<1> QED  BY <1>9, <1>10, <1>12, <1>14, <1>15 DEF Inv

LEMMA RefillInv ==
  ASSUME Inv, NEW n \in 1 .. Len(net), Refill(n)
  PROVE  Inv'
<1>1. /\ pc = "refill" /\ buffer' = Filled(length, SubSeq(net, 1, n)) /\ length' = length + n
      /\ net' = SubSeq(net, n + 1, Len(net))
      /\ pc' = (CASE length' = total -> "payload" [] length' < total -> "refill" [] OTHER -> "lost")
      /\ merged' = (merged \/ net[n].frame # buffer[0].frame) /\ taken' = net[n].frame
      /\ sent' = sent /\ gone' = gone /\ total' = total /\ handed' = handed
      /\ answers' = answers /\ starved' = starved /\ torn' = torn
  BY DEF Refill, client
<1>2. /\ Piece(sent, net)' /\ net' \in Seq(Cell)
      /\ net' # <<>> => n + 1 \in 1 .. Len(net) /\ net'[1] = net[n + 1]
      /\ Ahead' /\ net # <<>> /\ net[1].frame \in Nat
      /\ taken <= net[1].frame /\ net[1].frame <= taken' /\ taken' \in 1 .. Len(sent)
  BY <1>1, ReadFacts
<1>3. /\ sent \in Seq(Kinds) /\ Piece(sent, net) /\ net \in Seq(CellsOf(sent))
      /\ Len(net) \in Nat /\ n \in Nat /\ Len(sent) \in Nat
      /\ length \in Nat /\ total \in Nat /\ taken \in Nat
  BY DEF Inv, Stream, Piece, TypeOK
<1>4. Busy
  BY <1>1 DEF Busy
<1>5. /\ Looked \in 1 .. Len(sent) /\ Looked <= taken /\ Size(sent[Looked]) \in 2 .. 4
      /\ buffer[0] \in CellsOf(sent) /\ length >= 1
  BY <1>4, LookedFacts
<1>6. \A c \in BufferCells :
        buffer'[c] = IF c - length + 1 \in 1 .. n THEN net[c - length + 1] ELSE buffer[c]
  BY <1>1, <1>3, FilledFacts
<1>7. \A c \in BufferCells : buffer'[c] \in CellsOf(sent) \cup {Own}
  <2>1. \A c \in BufferCells : buffer[c] \in CellsOf(sent) \cup {Own}
    BY DEF Inv, Stream
  <2>2. \A k \in 1 .. n : net[k] \in CellsOf(sent)
    BY <1>3
  <2> QED  BY <1>6, <2>1, <2>2
<1>8. buffer'[0] = buffer[0] /\ Looked' = Looked
  <2>1. 0 \in BufferCells /\ 0 - length + 1 \notin 1 .. n
    BY <1>3, <1>5 DEF BufferCells
  <2> QED  BY <1>6, <2>1 DEF Looked
<1>9. pc' \in {"payload", "refill", "lost"}
  BY <1>1
<1>10. Looked <= taken'
  BY <1>2, <1>3, <1>5
<1>11. TypeOK'
  <2>1. buffer' \in [BufferCells -> Cell \cup {Own}]
    <3>1. CellsOf(sent) \subseteq Cell
      BY DEF CellsOf
    <3>2. buffer' = [c \in BufferCells |-> buffer'[c]]
      BY <1>1 DEF Filled
    <3> QED  BY <1>7, <3>1, <3>2
  <2>2. {gone, torn, merged}' \subseteq BOOLEAN
    <3>1. {gone, torn, merged} \subseteq BOOLEAN
      BY DEF Inv, TypeOK
    <3>2. merged' \in BOOLEAN
      BY <1>1, <3>1
    <3> QED  BY <1>1, <3>1, <3>2
  <2>3. pc' \in {"hello", "open", "frame", "refill", "payload", "lost", "closing", "dead"}
    BY <1>9
  <2>4. length' \in Nat /\ total' \in Nat /\ taken' \in 0 .. Len(sent')
    <3>1. taken' \in 0 .. Len(sent)
      BY <1>2, <1>3
    <3> QED  BY <1>1, <1>3, <3>1
  <2> QED  BY <1>1, <1>2, <2>1, <2>2, <2>3, <2>4 DEF Inv, TypeOK
<1>12. Stream'
  <2>1. Looked' <= taken' /\ length' >= 1
    BY <1>1, <1>3, <1>5, <1>8, <1>10
  <2>2. sent' \in Seq(Kinds) /\ buffer'[0] \in CellsOf(sent')
    BY <1>1, <1>3, <1>5, <1>8
  <2>3. \A c \in BufferCells : buffer'[c] \in CellsOf(sent') \cup {Own}
    BY <1>1, <1>7
  <2> QED  BY <1>2, <2>1, <2>2, <2>3 DEF Stream
<1>13. Whole'
  <2> DEFINE f == Looked
  <2> SUFFICES ASSUME ~torn, Busy'
               PROVE  /\ length' >= 2 /\ (length' >= Size(sent[f]) \/ sent[f] = "long")
                      /\ \A p \in 1 .. Size(sent[f]) :
                           p <= length' => buffer'[p - 1] = [frame |-> f, part |-> p]
                      /\ length' < Size(sent[f]) /\ net' # <<>> => net'[1] = Behind(f, length')
                      /\ pc' = "refill" => total' = 4 /\ length' < 4 /\ sent[f] = "long"
                      /\ pc' = "payload" => /\ length' >= Size(sent[f])
                                            /\ sent[f] \in {"text", "bad", "long"}
    BY <1>1, <1>8 DEF Whole
  <2>1. /\ length >= 2 /\ total = 4 /\ length < 4 /\ sent[f] = "long" /\ Size(sent[f]) = 4
        /\ \A p \in 1 .. 4 : p <= length => buffer[p - 1] = [frame |-> f, part |-> p]
        /\ net[1] = [frame |-> f, part |-> length + 1]
    <3>1. length >= 2 /\ total = 4 /\ length < 4 /\ sent[f] = "long"
      BY <1>1, <1>4 DEF Inv, Whole
    <3>2. Size(sent[f]) = 4
      BY <3>1 DEF Size
    <3> QED  BY <1>2, <1>4, <3>1, <3>2 DEF Inv, Whole, Behind
  <2> HIDE DEF f
  <2>2. f \in 1 .. Len(sent)
    BY <1>5 DEF f
  <2>3. \A p \in 1 .. Len(net) : length + p <= 4 => net[p] = [frame |-> f, part |-> length + p]
    <3>1. SUFFICES ASSUME NEW p \in 1 .. Len(net), length + p <= 4
                   PROVE  net[p] = [frame |-> f, part |-> length + p]
      OBVIOUS
    <3>2. length + 1 \in 1 .. Size(sent[f]) /\ (length + 1) + p - 1 = length + p
      BY <1>3, <2>1
    <3> DEFINE q == length + 1
    <3>3. /\ q \in 1 .. Size(sent[f]) /\ q + p - 1 <= Size(sent[f])
          /\ net # <<>> /\ net[1] = [frame |-> f, part |-> q]
      BY <1>2, <1>3, <2>1, <3>1, <3>2
    <3> HIDE DEF q
    <3>4. net[p] = [frame |-> f, part |-> q + p - 1]
      BY <1>3, <2>2, <3>3, FrameFollows
    <3> QED  BY <3>2, <3>4 DEF q
  <2>4. length' >= 2 /\ sent[f] = "long"
    BY <1>1, <1>3, <2>1
  <2>5. ASSUME NEW p \in 1 .. Size(sent[f]), p <= length'
        PROVE  buffer'[p - 1] = [frame |-> f, part |-> p]
    <3>1. p \in 1 .. 4 /\ p - 1 \in BufferCells
      BY <2>1 DEF BufferCells
    <3>2. CASE p <= length
      <4>1. (p - 1) - length + 1 \notin 1 .. n
        BY <1>3, <3>1, <3>2
      <4> QED  BY <1>6, <2>1, <3>1, <3>2, <4>1
    <3>3. CASE p > length
      <4>1. /\ (p - 1) - length + 1 \in 1 .. n /\ (p - 1) - length + 1 \in 1 .. Len(net)
            /\ length + ((p - 1) - length + 1) = p /\ p <= 4
        <5>1. p \in Nat /\ p <= 4 /\ p > length /\ p <= length + n /\ n <= Len(net)
          BY <1>1, <1>3, <2>5, <3>1, <3>3, SMTT(20)
        <5> QED  BY <1>3, <5>1
      <4>2. net[(p - 1) - length + 1] = [frame |-> f, part |-> p]
        <5> DEFINE q == (p - 1) - length + 1
        <5>1. q \in 1 .. Len(net) /\ length + q = p /\ p <= 4
          BY <4>1
        <5> HIDE DEF q
        <5>2. net[q] = [frame |-> f, part |-> p]
          BY <2>3, <5>1
        <5> QED  BY <5>2 DEF q
      <4> QED  BY <1>6, <3>1, <4>1, <4>2
    <3> QED  BY <1>3, <3>1, <3>2, <3>3
  <2>6. ASSUME length' < Size(sent[f]), net' # <<>>
        PROVE  net'[1] = Behind(f, length')
    <3>1. n + 1 \in 1 .. Len(net) /\ length + (n + 1) <= 4 /\ length' + 1 = length + (n + 1)
      <4>1. n + 1 \in 1 .. Len(net) /\ length + n < 4 /\ length' = length + n
        BY <1>1, <1>2, <2>1, <2>6
      <4> QED  BY <1>3, <4>1
    <3> QED  BY <1>2, <2>3, <2>6, <3>1 DEF Behind
  <2>7. pc' = "refill" => total' = 4 /\ length' < 4
    BY <1>1, <2>1
  <2>8. pc' = "payload" => length' >= Size(sent[f])
    BY <1>1, <1>3, <2>1
  <2> QED  BY <2>1, <2>4, <2>5, <2>6, <2>7, <2>8
<1>14. Settled <= Settled' /\ Settled' \in Int
  BY <1>2, <1>3, <1>4, <1>5, <1>8, <1>10 DEF Settled
<1>15. Told'
  BY <1>1, <1>14, NoAnswer
<1>16. AllCovered'
  <2> SUFFICES ASSUME ~torn', ~merged', Busy' \/ pc' \in {"hello", "open"}
               PROVE  (Busy' => Looked' = taken') /\ \A k \in 1 .. Settled' : Covered(k)'
    BY DEF AllCovered
  <2>1. Busy'
    BY <1>9 DEF Busy
  <2>2. Looked' = taken'
    BY <1>1, <1>8 DEF Looked
  <2>3. \A k \in 1 .. Settled : Covered(k)
    BY <1>1, <1>4 DEF Inv, AllCovered
  <2>4. \A k : Covered(k) => Covered(k)'
    BY <1>1 DEF Covered
  <2>5. Settled' = Settled
    BY <1>4, <1>8, <2>1 DEF Settled
  <2> QED  BY <2>2, <2>3, <2>4, <2>5
<1> QED  BY <1>11, <1>12, <1>13, <1>15, <1>16 DEF Inv

\* The packet of a payload in step is that of the frame that is looked at.
LEMMA PayloadFacts ==
  ASSUME Inv, Busy
  PROVE  /\ Payload \in 0 .. Len(sent)
         /\ pc = "payload" /\ ~torn => Payload = Looked
<1>1. sent \in Seq(Kinds) /\ buffer[1] \in CellsOf(sent) \cup {Own} /\ Len(sent) \in Nat
  BY DEF Inv, Stream, BufferCells
<1>2. Payload \in 0 .. Len(sent)
  <2>1. buffer[1].part = 2 => buffer[1] \in CellsOf(sent)
    BY <1>1 DEF Own
  <2>2. buffer[1] \in CellsOf(sent) => buffer[1].frame \in 1 .. Len(sent)
    BY DEF CellsOf
  <2>3. buffer[1].part = 2 => buffer[1].frame \in 0 .. Len(sent)
    BY <1>1, <2>1, <2>2
  <2> QED  BY <1>1, <2>3 DEF Payload, Noise
<1>3. ASSUME pc = "payload", ~torn
      PROVE  Payload = Looked
  <2>1. /\ buffer[1] = [frame |-> Looked, part |-> 2]
        /\ length >= Size(sent[Looked]) /\ sent[Looked] \in {"text", "bad", "long"}
    BY <1>3, HeaderFacts DEF Inv, Whole
  <2>2. Size(sent[Looked]) \in 2 .. 4 /\ length \in Nat
    BY LookedFacts DEF Inv, TypeOK
  <2>3. \A p \in 1 .. Size(sent[Looked]) :
          p <= length => buffer[p - 1] = [frame |-> Looked, part |-> p]
    BY <1>3 DEF Inv, Whole
  <2>4. \A p \in 3 .. Size(sent[Looked]) : p \in 1 .. Size(sent[Looked]) /\ p <= length
    BY <2>1, <2>2
  <2>5. \A p \in 3 .. Size(sent[Looked]) : buffer[p - 1] = [frame |-> Looked, part |-> p]
    BY <2>3, <2>4
  <2>6. Kind(buffer[1]) = sent[Looked] /\ buffer[1].frame = Looked /\ buffer[1].part = 2
    BY <2>1 DEF Kind
  <2> QED  BY <2>1, <2>5, <2>6 DEF Payload
<1> QED  BY <1>2, <1>3

\* The thread is done with a read.
LEMMA Leaves ==
  ASSUME Inv, Busy, pc' \in {"open", "closing", "lost", "dead"},
         net' = net, sent' = sent, gone' = gone, taken' = taken, torn' = torn, merged' = merged,
         buffer' \in {buffer, Answered}, length' \in Nat, total' \in Nat,
         handed' \in {handed, Append(handed, Payload)},
         \/ answers' = answers
         \/ \E w \in {"close", "pong", "202", "403"} :
              answers' = Append(answers, [what |-> w, to |-> Looked]),
         starved' \in {starved, starved \cup {Looked}}
  PROVE  TypeOK' /\ Stream' /\ Whole' /\ ~Busy' /\ Settled' = taken /\ Settled <= Settled'
         /\ Settled' \in Int
<1>1. /\ Looked \in 1 .. Len(sent) /\ Looked <= taken /\ Payload \in 0 .. Len(sent)
      /\ taken \in Nat /\ Looked \in Nat
  <2>1. Looked \in 1 .. Len(sent) /\ Looked <= taken
    BY LookedFacts
  <2>2. taken \in Nat
    BY DEF Inv, TypeOK
  <2> QED  BY <2>1, <2>2, PayloadFacts
<1>2. ~Busy'
  BY DEF Busy
<1>3. \A c \in BufferCells : buffer'[c] \in {buffer[c], Own}
  BY DEF Answered
<1>4. buffer' \in [BufferCells -> Cell \cup {Own}]
  <2>1. buffer \in [BufferCells -> Cell \cup {Own}]
    BY DEF Inv, TypeOK
  <2>2. Answered \in [BufferCells -> Cell \cup {Own}]
    BY <2>1 DEF Answered
  <2> QED  BY <2>1, <2>2
<1>5. handed' \in Seq(0 .. Len(sent))
  <2>1. handed \in Seq(0 .. Len(sent))
    BY DEF Inv, TypeOK
  <2>2. Append(handed, Payload) \in Seq(0 .. Len(sent))
    BY <1>1, <2>1
  <2> QED  BY <2>1, <2>2
<1>6. answers' \in Seq([what : {"close", "pong", "202", "403"}, to : 1 .. Len(sent)])
  <2> DEFINE Answer == [what : {"close", "pong", "202", "403"}, to : 1 .. Len(sent)]
  <2>1. answers \in Seq(Answer)
    BY DEF Inv, TypeOK
  <2>2. \A w \in {"close", "pong", "202", "403"} : [what |-> w, to |-> Looked] \in Answer
    BY <1>1
  <2> HIDE DEF Answer
  <2>3. \A a \in Answer : Append(answers, a) \in Seq(Answer)
    BY <2>1
  <2>4. answers' \in Seq(Answer)
    BY <2>1, <2>2, <2>3
  <2> QED  BY <2>4 DEF Answer
<1>7. TypeOK'
  <2>1. starved' \subseteq 1 .. Len(sent')
    BY <1>1 DEF Inv, TypeOK
  <2>2. {gone, torn, merged}' \subseteq BOOLEAN
    BY DEF Inv, TypeOK
  <2> QED  BY <1>4, <1>5, <1>6, <2>1, <2>2 DEF Inv, TypeOK
<1>8. Stream'
  <2>1. \A c \in BufferCells : buffer'[c] \in CellsOf(sent) \cup {Own}
    BY <1>3 DEF Inv, Stream
  <2>2. Ahead'
    BY DEF Inv, Stream, Ahead
  <2> QED  BY <1>2, <2>1, <2>2 DEF Inv, Stream
<1>9. Whole'
  BY <1>2 DEF Whole
<1>10. Settled' = taken /\ Settled <= Settled' /\ Settled' \in Int
  BY <1>1, <1>2 DEF Settled
<1> QED  BY <1>2, <1>7, <1>8, <1>9, <1>10

\* It goes on with the next read, and the frame is covered.
LEMMA CoversLooked ==
  ASSUME Inv, Busy, ~Busy', Settled' = taken, sent' = sent, taken' = taken,
         torn' = torn, merged' = merged, starved \subseteq starved',
         \/ answers' = answers
         \/ \E w : answers' = Append(answers, [what |-> w, to |-> Looked]),
         ~torn => \/ \E i \in DOMAIN answers' : answers'[i].to = Looked
                  \/ sent[Looked] = "empty"
                  \/ Looked \in starved'
  PROVE  AllCovered'
<1> SUFFICES ASSUME ~torn, ~merged
             PROVE  \A k \in 1 .. Settled' : Covered(k)'
  BY DEF AllCovered
<1>1. Looked \in 1 .. Len(sent) /\ Looked <= taken /\ taken \in Nat /\ Looked \in Nat
  BY LookedFacts DEF Inv, TypeOK
<1>2. Looked = taken /\ \A k \in 1 .. (Looked - 1) : Covered(k)
  BY DEF Inv, AllCovered, Settled
<1>3. \A k : Covered(k) => Covered(k)'
  <2> DEFINE Answer == [what : {"close", "pong", "202", "403"}, to : 1 .. Len(sent)]
  <2>1. answers \in Seq(Answer)
    BY DEF Inv, TypeOK
  <2> HIDE DEF Answer
  <2>2. answers' = answers \/ \E a : answers' = Append(answers, a)
    OBVIOUS
  <2>3. \A i \in DOMAIN answers : i \in DOMAIN answers' /\ answers'[i] = answers[i]
    BY <2>1, <2>2
  <2> QED  BY <2>3 DEF Covered
<1>4. \A k \in 1 .. taken : k = Looked \/ k \in 1 .. (Looked - 1)
  BY <1>1, <1>2
<1>5. \A k : k = Looked => Covered(k)'
  BY DEF Covered
<1> QED  BY <1>2, <1>3, <1>4, <1>5

\* An answer covers its frame.
LEMMA AnswerCovers ==
  ASSUME Inv, NEW w, answers' = Append(answers, [what |-> w, to |-> Looked])
  PROVE  \E i \in DOMAIN answers' : answers'[i].to = Looked
<1>1. answers \in Seq([what : {"close", "pong", "202", "403"}, to : 1 .. Len(sent)])
  BY DEF Inv, TypeOK
<1>2. Len(answers) + 1 \in DOMAIN answers'
      /\ answers'[Len(answers) + 1] = [what |-> w, to |-> Looked]
  BY <1>1
<1> QED  BY <1>2

-----------------------------------------------------------------------------
(* The actions *)

LEMMA HelloInv ==
  ASSUME Inv, Hello
  PROVE  Inv'
<1>1. /\ pc = "hello" /\ pc' \in {"closing", "open", "dead"} /\ net' = net /\ sent' = sent
      /\ gone' = gone /\ buffer' = buffer /\ length' = length /\ total' = total
      /\ handed' = handed /\ answers' = answers /\ torn' = torn /\ merged' = merged
      /\ taken' = taken /\ starved' = starved
  BY DEF Hello, client, history
<1>2. ~Busy /\ ~Busy' /\ Settled' = Settled /\ Settled \in Int /\ Settled <= Settled'
  BY <1>1 DEF Busy, Settled, Inv, TypeOK
<1>3. TypeOK'
  BY <1>1 DEF Inv, TypeOK
<1>4. Stream'
  BY <1>1, <1>2 DEF Inv, Stream, Ahead
<1>5. Whole'
  BY <1>2 DEF Whole
<1>6. Told'
  BY <1>1, <1>2, NoAnswer
<1>7. AllCovered'
  BY <1>1, <1>2 DEF Inv, AllCovered, Covered
<1> QED  BY <1>3, <1>4, <1>5, <1>6, <1>7 DEF Inv

LEMMA RecvEndsInv ==
  ASSUME Inv, RecvEnds
  PROVE  Inv'
<1>1. /\ pc' \in {"closing", "lost"} /\ net' = net /\ sent' = sent
      /\ gone' = gone /\ buffer' = buffer /\ length' = length /\ total' = total
      /\ handed' = handed /\ answers' = answers /\ torn' = torn /\ merged' = merged
      /\ taken' = taken /\ starved' = starved
  BY DEF RecvEnds, client, history
<1>2. ~Busy' /\ Settled' = taken /\ Settled' \in Int
  BY <1>1 DEF Busy, Settled, Inv, TypeOK
<1>3. Settled <= Settled'
  BY <1>2, LookedFacts DEF Settled, Inv, TypeOK
<1>4. TypeOK'
  BY <1>1 DEF Inv, TypeOK
<1>5. Stream'
  BY <1>1, <1>2 DEF Inv, Stream, Ahead
<1>6. Whole'
  BY <1>2 DEF Whole
<1>7. Told'
  BY <1>1, <1>2, <1>3, NoAnswer
<1>8. AllCovered'
  BY <1>1, <1>2 DEF AllCovered
<1> QED  BY <1>4, <1>5, <1>6, <1>7, <1>8 DEF Inv

\* What the header of a frame in step may say.
LEMMA SaysKind ==
  ASSUME Inv, ~torn, NEW opcode, Says(opcode)
  PROVE  /\ Busy
         /\ opcode = IF sent[Looked] \in {"ping", "close"} THEN sent[Looked] ELSE "text"
         /\ Lengths(buffer[1]) =
              CASE sent[Looked] \in {"text", "bad"} -> {"short"}
                [] sent[Looked] = "long"            -> {"long"}
                [] OTHER                            -> {"none"}
<1>1. Busy
  BY DEF Says, Busy
<1>2. /\ buffer[0] = [frame |-> Looked, part |-> 1]
      /\ buffer[1] = [frame |-> Looked, part |-> 2] /\ buffer[1] # Own
  BY <1>1, HeaderFacts
<1>3. Kind(buffer[0]) = sent[Looked] /\ Kind(buffer[1]) = sent[Looked] /\ buffer[0].part = 1
      /\ buffer[1].part = 2
  BY <1>2 DEF Kind
<1>4. opcode = IF sent[Looked] \in {"ping", "close"} THEN sent[Looked] ELSE "text"
  BY <1>3 DEF Says, Opcodes
<1> QED  BY <1>1, <1>2, <1>3, <1>4 DEF Lengths

LEMMA CloseInv ==
  ASSUME Inv, Close
  PROVE  Inv'
<1>1. /\ Says("close") /\ answers' = Append(answers, [what |-> "close", to |-> Looked])
      /\ pc' = "closing" /\ net' = net /\ sent' = sent /\ gone' = gone /\ buffer' = buffer
      /\ length' = length /\ total' = total /\ handed' = handed /\ torn' = torn
      /\ merged' = merged /\ taken' = taken /\ starved' = starved
  BY DEF Close, client, history
<1>2. Busy /\ length \in Nat /\ total \in Nat
  BY <1>1 DEF Says, Busy, Inv, TypeOK
<1>3. TypeOK' /\ Stream' /\ Whole' /\ ~Busy'
  BY <1>1, <1>2, Leaves
<1>4. ~torn => Fits("close", sent[Looked])
  BY <1>1, SaysKind DEF Fits
<1>5. Told'
  BY <1>1, <1>2, <1>3, <1>4, AnswerAdded
<1>6. AllCovered'
  BY <1>1, <1>3 DEF AllCovered
<1> QED  BY <1>3, <1>5, <1>6 DEF Inv

LEMMA PongInv ==
  ASSUME Inv, Pong
  PROVE  Inv'
<1>1. /\ Says("ping") /\ answers' = Append(answers, [what |-> "pong", to |-> Looked])
      /\ pc' = "open" /\ net' = net /\ sent' = sent /\ gone' = gone /\ buffer' = buffer
      /\ length' = 0 /\ total' = 0 /\ handed' = handed /\ torn' = torn
      /\ merged' = merged /\ taken' = taken /\ starved' = starved
  BY DEF Pong, Again, client, history
<1>2. Busy
  BY <1>1 DEF Says, Busy
<1>3. TypeOK' /\ Stream' /\ Whole' /\ ~Busy' /\ Settled' = taken
  BY <1>1, <1>2, Leaves
<1>4. ~torn => Fits("pong", sent[Looked])
  BY <1>1, SaysKind DEF Fits
<1>5. Told'
  BY <1>1, <1>2, <1>3, <1>4, AnswerAdded
<1>6. \E i \in DOMAIN answers' : answers'[i].to = Looked
  BY <1>1, AnswerCovers
<1>7. AllCovered'
  BY <1>1, <1>2, <1>3, <1>6, CoversLooked
<1> QED  BY <1>3, <1>5, <1>7 DEF Inv

LEMMA IgnoredInv ==
  ASSUME Inv, Ignored
  PROVE  Inv'
<1>1. /\ Says("text") /\ "none" \in Lengths(buffer[1]) /\ answers' = answers
      /\ pc' = "open" /\ net' = net /\ sent' = sent /\ gone' = gone /\ buffer' = buffer
      /\ length' = 0 /\ total' = 0 /\ handed' = handed /\ torn' = torn
      /\ merged' = merged /\ taken' = taken /\ starved' = starved
  BY DEF Ignored, Again, client, history
<1>2. Busy
  BY <1>1 DEF Says, Busy
<1>3. /\ TypeOK' /\ Stream' /\ Whole' /\ ~Busy' /\ Settled' = taken /\ Settled <= Settled'
      /\ Settled' \in Int
  BY <1>1, <1>2, Leaves
<1>4. ~torn => sent[Looked] = "empty"
  <2>1. sent[Looked] \in Kinds
    BY <1>2, LookedFacts
  <2> QED  BY <1>1, <2>1, SaysKind DEF Kinds
<1>5. Told'
  BY <1>1, <1>3, NoAnswer
<1>6. AllCovered'
  BY <1>1, <1>2, <1>3, <1>4, CoversLooked
<1> QED  BY <1>3, <1>5, <1>6 DEF Inv

\* A frame that is there, or awaited, stays the one that is looked at.
LEMMA Goes ==
  ASSUME Inv, pc = "frame", pc' \in {"payload", "refill", "lost"},
         net' = net, sent' = sent, gone' = gone, buffer' = buffer, length' = length,
         total' \in Nat, handed' = handed, answers' = answers, torn' = torn,
         merged' = merged, taken' = taken, starved' = starved,
         ~torn => /\ pc' = "refill" => total' = 4 /\ length < 4 /\ sent[Looked] = "long"
                  /\ pc' = "payload" => /\ length >= Size(sent[Looked])
                                        /\ sent[Looked] \in {"text", "bad", "long"}
  PROVE  Inv'
<1>1. Busy /\ Looked' = Looked /\ (Busy' \/ pc' = "lost")
  BY DEF Busy, Looked
<1>2. Looked \in 1 .. Len(sent) /\ Looked <= taken /\ taken \in Nat
  BY <1>1, LookedFacts DEF Inv, TypeOK
<1>3. Settled <= Settled' /\ Settled' \in Int /\ (Busy' => Settled' = Settled)
  BY <1>1, <1>2 DEF Settled
<1>4. TypeOK'
  BY DEF Inv, TypeOK
<1>5. Stream'
  BY <1>1 DEF Inv, Stream, Ahead
<1>6. Whole'
  BY <1>1 DEF Inv, Whole
<1>7. Told'
  BY <1>3, NoAnswer
<1>8. AllCovered'
  <2> SUFFICES ASSUME ~torn, ~merged, Busy'
               PROVE  Looked' = taken' /\ \A k \in 1 .. Settled' : Covered(k)'
    BY DEF AllCovered, Busy
  <2> QED  BY <1>1, <1>3 DEF Inv, AllCovered, Covered
<1> QED  BY <1>4, <1>5, <1>6, <1>7, <1>8 DEF Inv

LEMMA ShortInv ==
  ASSUME Inv, Short
  PROVE  Inv'
<1>1. /\ Says("text") /\ "short" \in Lengths(buffer[1]) /\ answers' = answers
      /\ pc' = "payload" /\ net' = net /\ sent' = sent /\ gone' = gone /\ buffer' = buffer
      /\ length' = length /\ total' = total /\ handed' = handed /\ torn' = torn
      /\ merged' = merged /\ taken' = taken /\ starved' = starved
  BY DEF Short, client, history
<1>2. pc = "frame" /\ Busy /\ total \in Nat
  BY <1>1 DEF Says, Busy, Inv, TypeOK
<1>3. ~torn => sent[Looked] \in {"text", "bad"}
  BY <1>1, SaysKind
<1>4. ~torn => length >= Size(sent[Looked])
  BY <1>2, <1>3, HeaderFacts
<1> QED  BY <1>1, <1>2, <1>3, <1>4, Goes

LEMMA LongInv ==
  ASSUME Inv, Long
  PROVE  Inv'
<1>1. /\ Says("text") /\ "long" \in Lengths(buffer[1]) /\ total' \in Totals
      /\ answers' = answers
      /\ pc' = (CASE length = total' -> "payload" [] length < total' -> "refill" [] OTHER -> "lost")
      /\ net' = net /\ sent' = sent /\ gone' = gone /\ buffer' = buffer
      /\ length' = length /\ handed' = handed /\ torn' = torn
      /\ merged' = merged /\ taken' = taken /\ starved' = starved
  BY DEF Long, client, history
<1>2. pc = "frame" /\ Busy /\ length \in Nat
  BY <1>1 DEF Says, Busy, Inv, TypeOK
<1>3. pc' \in {"payload", "refill", "lost"}
  BY <1>1
<1>4. total' \in Nat
  <2>1. length >= 1
    BY <1>2, LookedFacts
  <2> QED  BY <1>1, <1>2, <2>1 DEF Totals
<1>5. ~torn => sent[Looked] = "long" /\ Size(sent[Looked]) = 4 /\ total' = 4
  <2> SUFFICES ASSUME ~torn PROVE sent[Looked] = "long" /\ Size(sent[Looked]) = 4 /\ total' = 4
    OBVIOUS
  <2>1. sent[Looked] = "long"
    BY <1>1, SaysKind
  <2>2. buffer[1].part = 2
    BY <1>2, HeaderFacts
  <2> QED  BY <1>1, <2>1, <2>2 DEF Totals, Size
<1>6. ~torn => /\ pc' = "refill" => length < 4
               /\ pc' = "payload" => length = 4
  BY <1>1, <1>5
<1>7. ~torn => /\ pc' = "refill" => total' = 4 /\ length < 4 /\ sent[Looked] = "long"
               /\ pc' = "payload" => /\ length >= Size(sent[Looked])
                                     /\ sent[Looked] \in {"text", "bad", "long"}
  BY <1>2, <1>5, <1>6
<1> QED  BY <1>1, <1>2, <1>3, <1>4, <1>7, Goes

LEMMA NoMemoryInv ==
  ASSUME Inv, NoMemory
  PROVE  Inv'
<1>1. /\ pc = "payload" /\ answers' = answers
      /\ pc' = "open" /\ net' = net /\ sent' = sent /\ gone' = gone /\ buffer' = buffer
      /\ length' = 0 /\ total' = 0 /\ handed' = handed /\ torn' = torn
      /\ merged' = merged /\ taken' = taken /\ starved' = starved \cup {Looked}
  BY DEF NoMemory, Again, client, history
<1>2. Busy
  BY <1>1 DEF Busy
<1>3. /\ TypeOK' /\ Stream' /\ Whole' /\ ~Busy' /\ Settled' = taken /\ Settled <= Settled'
      /\ Settled' \in Int
  BY <1>1, <1>2, Leaves
<1>4. Told'
  BY <1>1, <1>3, NoAnswer
<1>5. AllCovered'
  BY <1>1, <1>2, <1>3, CoversLooked
<1> QED  BY <1>3, <1>4, <1>5 DEF Inv

LEMMA NotBase64Inv ==
  ASSUME Inv, NotBase64
  PROVE  Inv'
<1>1. /\ pc = "payload" /\ answers' = answers
      /\ pc' = "dead" /\ net' = net /\ sent' = sent /\ gone' = gone /\ buffer' = buffer
      /\ length' = length /\ total' = total /\ handed' = handed /\ torn' = torn
      /\ merged' = merged /\ taken' = taken /\ starved' = starved
  BY DEF NotBase64, client, history
<1>2. Busy /\ length \in Nat /\ total \in Nat
  BY <1>1 DEF Busy, Inv, TypeOK
<1>3. /\ TypeOK' /\ Stream' /\ Whole' /\ ~Busy' /\ Settled <= Settled' /\ Settled' \in Int
  BY <1>1, <1>2, Leaves
<1>4. Told'
  BY <1>1, <1>3, NoAnswer
<1>5. AllCovered'
  BY <1>1, <1>3 DEF AllCovered
<1> QED  BY <1>3, <1>4, <1>5 DEF Inv

\* What decodes, in step, is a packet.
LEMMA DecodesFacts ==
  ASSUME Inv, Decodes
  PROVE  Busy /\ (~torn => Payload = Looked /\ sent[Looked] \in {"text", "long"})
<1>1. Busy /\ pc = "payload"
  BY DEF Decodes, Busy
<1>2. ASSUME ~torn PROVE Payload = Looked /\ sent[Looked] \in {"text", "long"}
  <2>1. Payload = Looked /\ Looked # Noise
    BY <1>1, <1>2, PayloadFacts, LookedFacts DEF Noise
  <2>2. sent[Looked] # "bad"
    BY <2>1 DEF Decodes, Decodable
  <2>3. sent[Looked] \in {"text", "bad", "long"}
    BY <1>1, <1>2 DEF Inv, Whole
  <2> QED  BY <2>1, <2>2, <2>3
<1> QED  BY <1>1, <1>2

LEMMA RefusedInv ==
  ASSUME Inv, Refused
  PROVE  Inv'
<1>1. /\ Decodes /\ answers' = Append(answers, [what |-> "403", to |-> Looked])
      /\ pc' = "open" /\ net' = net /\ sent' = sent /\ gone' = gone /\ buffer' = Answered
      /\ length' = 0 /\ total' = 0 /\ handed' = handed /\ torn' = torn
      /\ merged' = merged /\ taken' = taken /\ starved' = starved
  BY DEF Refused, Again, client, history
<1>2. Busy
  BY <1>1, DecodesFacts
<1>3. TypeOK' /\ Stream' /\ Whole' /\ ~Busy' /\ Settled' = taken
  BY <1>1, <1>2, Leaves
<1>4. ~torn => Fits("403", sent[Looked])
  BY <1>1, DecodesFacts DEF Fits
<1>5. Told'
  BY <1>1, <1>2, <1>3, <1>4, AnswerAdded
<1>6. \E i \in DOMAIN answers' : answers'[i].to = Looked
  BY <1>1, AnswerCovers
<1>7. AllCovered'
  BY <1>1, <1>2, <1>3, <1>6, CoversLooked
<1> QED  BY <1>3, <1>5, <1>7 DEF Inv

LEMMA HandedInv ==
  ASSUME Inv, Handed
  PROVE  Inv'
<1>1. /\ Decodes /\ answers' = Append(answers, [what |-> "202", to |-> Looked])
      /\ handed' = Append(handed, Payload)
      /\ pc' = "open" /\ net' = net /\ sent' = sent /\ gone' = gone /\ buffer' = Answered
      /\ length' = 0 /\ total' = 0 /\ torn' = torn
      /\ merged' = merged /\ taken' = taken /\ starved' = starved
  BY DEF Handed, Again, client, history
<1>2. Busy
  BY <1>1, DecodesFacts
<1>3. TypeOK' /\ Stream' /\ Whole' /\ ~Busy' /\ Settled' = taken
  BY <1>1, <1>2, Leaves
<1>4. ~torn => Fits("202", sent[Looked]) /\ handed' = Append(handed, Looked)
  BY <1>1, DecodesFacts DEF Fits
<1>5. Told'
  BY <1>1, <1>2, <1>3, <1>4, AnswerAdded
<1>6. \E i \in DOMAIN answers' : answers'[i].to = Looked
  BY <1>1, AnswerCovers
<1>7. AllCovered'
  BY <1>1, <1>2, <1>3, <1>6, CoversLooked
<1> QED  BY <1>3, <1>5, <1>7 DEF Inv

LEMMA NextInv == Inv /\ [Next]_vars => Inv'
<1> SUFFICES ASSUME Inv, [Next]_vars PROVE Inv'
  OBVIOUS
<1>1. CASE \E n \in 1 .. Len(net) : Recv(n) \/ Refill(n)
  BY <1>1, RecvInv, RefillInv
<1>2. CASE Hello
  BY <1>2, HelloInv
<1>3. CASE RecvEnds
  BY <1>3, RecvEndsInv
<1>4. CASE FrameStep
  BY <1>4, CloseInv, PongInv, IgnoredInv, ShortInv, LongInv DEF FrameStep
<1>5. CASE PayloadStep
  BY <1>5, NoMemoryInv, NotBase64Inv, RefusedInv, HandedInv DEF PayloadStep
<1>6. CASE UNCHANGED vars
  <2>1. /\ pc' = pc /\ net' = net /\ sent' = sent /\ gone' = gone /\ buffer' = buffer
        /\ length' = length /\ total' = total /\ handed' = handed /\ answers' = answers
        /\ torn' = torn /\ merged' = merged /\ taken' = taken /\ starved' = starved
    BY <1>6 DEF vars, client, history
  <2>2. TypeOK'
    BY <2>1 DEF Inv, TypeOK
  <2>3. Stream' /\ Whole'
    BY <2>1 DEF Inv, Stream, Ahead, Busy, Looked, Whole
  <2>4. Told'
    BY <2>1 DEF Inv, Told, InStep, Settled, Busy, Looked
  <2>5. AllCovered'
    BY <2>1 DEF Inv, AllCovered, Covered, Settled, Busy, Looked
  <2> QED  BY <2>2, <2>3, <2>4, <2>5 DEF Inv
<1> QED  BY <1>1, <1>2, <1>3, <1>4, <1>5, <1>6 DEF Next, ThreadStep

-----------------------------------------------------------------------------
(* The theorems *)

\* Whatever a client sends and however it arrives, the variables of the thread
\* keep their types: it answers and hands on frames of the client only.
THEOREM FramesTypeCorrect == SafeSpec => []TypeOK
<1>1. Inv => TypeOK
  BY DEF Inv
<1> QED  BY <1>1, InitInv, NextInv, PTL DEF SafeSpec

\* For every stream: as long as no read cuts a frame, the packets handed on are
\* those of the client's text frames, in order and none twice, and so are the
\* answers, each of the kind its frame calls for, with 202 for the packets handed on.
THEOREM FramesInStep == SafeSpec => []InStep
<1>1. Inv => InStep
  BY DEF Inv, Told
<1> QED  BY <1>1, InitInv, NextInv, PTL DEF SafeSpec

\* For every stream: as long as no read cuts or merges frames, no frame received has
\* been passed over when the thread waits for the next.
THEOREM FramesNoneDropped == SafeSpec => []NoneDropped
<1>1. Inv => NoneDropped
  BY DEF Inv, AllCovered, NoneDropped, Settled, Busy, Covered
<1> QED  BY <1>1, InitInv, NextInv, PTL DEF SafeSpec
===============================================================================
