------------------------------- MODULE ConfigProofs ------------------------------
(***************************************************************************)
(* Proofs about Config, for every file, every number of tokens and every   *)
(* hash.                                                                   *)
(***************************************************************************)
EXTENDS Config, JsmnProofs

-----------------------------------------------------------------------------
(* Types *)

\* A structure, and what is kept of a registration.
Device == [sn : Serials, addr : Nat, key : KeyValues, queue : BOOLEAN, live : BOOLEAN]
Entry == [sn : Serials, key : KeyValues, stored : BOOLEAN]

\* What every structure is, and every element of the history.
Arrays == dev \in Seq(Device) /\ log \in Seq(Entry) /\ tok \in Seq(TokenRecords)

\* The control variables; behind "name" there is a token.
Numbers ==
  /\ pc \in {"start", "item", "name", "done", "crashed"}
  /\ ret \in 0 .. 2
  /\ i \in 0 .. (MaxTokens + 3)
  /\ rd \in 0 .. Len(dev)
  /\ indev \in Bytes
  /\ version \in Words
  /\ queues = Len(log)
  /\ pc = "name" => i \in 2 .. Len(tok)
  /\ pc = "start" => i = 0 /\ tok = <<>>
  /\ i = 0 \/ i >= 2
  /\ pc \in {"item", "name"} => i >= 2
  /\ indev > 0 => rd > 0
  /\ Len(dev) >= 1

\* What is registered is a structure.
Registered ==
  /\ DOMAIN registry \subseteq Addresses
  /\ \A a \in DOMAIN registry : registry[a] \in DOMAIN dev

\* The tokens, and that they are those of the file.
Tokenized ==
  /\ file \in [content : Files, missing : {0, 1}]
  /\ Len(tok) <= MaxTokens
  /\ \A n \in DOMAIN tok : tok[n].size \in 0 .. MaxTokens /\ ~tok[n].open
  /\ TokensRight

TypeInv == Arrays /\ Numbers /\ Registered /\ Tokenized

LEMMA SerialFacts ==
  /\ 0 \in Serials /\ Serials \subseteq Nat
  /\ \A s \in Serials : Hash[s] \in Addresses
  /\ Addresses \subseteq Nat
  /\ \A s \in Serials : \A t : NumberOr(s, t) \in Serials
  /\ \A n \in Nat : \A t : NumberOr(n, t) \in Nat
<1>1. /\ \A t \in DOMAIN Number : Number[t] \in Nat
  BY NumberAssumption
<1>2. /\ Addresses \subseteq Nat /\ Hash[0] \in Addresses
      /\ \A t \in DOMAIN Number : Hash[Number[t]] \in Addresses
  BY ConfigAssumption
<1>3. \A s \in Serials : s = 0 \/ \E t \in DOMAIN Number : s = Number[t]
  BY DEF Serials
<1>4. \A t \in DOMAIN Number : Number[t] \in Serials
  BY DEF Serials
<1>5. 0 \in Serials
  BY DEF Serials
<1> QED  BY <1>1, <1>2, <1>3, <1>4, <1>5 DEF NumberOr

LEMMA KeyFacts == Blank \in KeyValues /\ \A t : Decoded(t) \in KeyValues
BY DEF KeyValues, Decoded

LEMMA ZeroedDevice == Zeroed \in Device
BY SerialFacts, KeyFacts DEF Zeroed, Device

\* The file was tokenized, or there are no tokens.
LEMMA TokenizeIs ==
  ASSUME TypeInv, Tokenize
  PROVE  /\ tok' \in Seq(TokenRecords) /\ Len(tok') <= MaxTokens
         /\ \A n \in DOMAIN tok' : tok'[n].size \in 0 .. MaxTokens /\ ~tok'[n].open
         /\ tok' # <<>> <=> file.missing = 0 /\ Len(Tokens(file.content)) <= MaxTokens
         /\ tok' # <<>> => tok' = Tokens(file.content)
<1> DEFINE f == file.content
           missing == file.missing
           text == Text(f)
           p == Parse(SubSeq(text, 1, Len(text) - missing))
           T == Tokens(f)
<1>1. IsFile(f) /\ missing \in {0, 1}
  BY ConfigAssumption DEF TypeInv, Tokenized
<1>2. tok' = IF p.error = "none" THEN p.tok ELSE <<>>
  BY DEF Tokenize
<1>3. /\ p.error = "none" <=> missing = 0 /\ Len(T) <= MaxTokens
      /\ p.error = "none" => p.tok = T
  <2> HIDE DEF f, missing
  <2> QED  BY <1>1, TextParses
<1>4. Closed(T) /\ \A x \in 1 .. Len(T) : T[x].size \in 0 .. Len(T)
  <2> HIDE DEF f
  <2> QED  BY <1>1, PlanExists, SizesBounded
<1>5. T # <<>>
  <2>1. /\ HeadAt(T, 1, "object", Len(f.order)) /\ Plan(f).at[1] = 2
        /\ Plan(f).at[Len(f.order) + 1] = Len(T) + 1
        /\ \A k \in 1 .. (Len(f.order) + 1) : Plan(f).at[k] \in Nat
        /\ \A k \in 1 .. Len(f.order) : Plan(f).at[k + 1] >= Plan(f).at[k] + 2
    <3> HIDE DEF f
    <3> QED  BY <1>1, PlanExists DEF IsPlan
  <2> DEFINE M == Len(f.order)
             at == Plan(f).at
  <2>2. M \in Nat
    BY <1>1 DEF IsFile
  <2> HIDE DEF M, at
  <2>3. at[1] <= at[M + 1]
    <3>1. 1 \in 1 .. (M + 1) /\ M + 1 \in 1 .. (M + 1) /\ 1 <= M + 1
      BY <2>2
    <3>2. \A k \in 1 .. (M + 1) : at[k] \in Nat
      BY <2>1 DEF M, at
    <3>3. \A k \in 1 .. M : at[k] <= at[k + 1]
      <4> TAKE k \in 1 .. M
      <4>1. k \in 1 .. (M + 1) /\ k + 1 \in 1 .. (M + 1)
        BY <2>2
      <4>2. at[k] \in Nat /\ at[k + 1] \in Nat /\ at[k + 1] >= at[k] + 2
        BY <2>1, <3>2, <4>1 DEF M, at
      <4> QED  BY <4>2
    <3> QED  BY <2>2, <3>1, <3>2, <3>3, NeverFalls
  <2>4. Len(T) # 0
    BY <2>1, <2>3 DEF M, at
  <2> QED  BY <2>4
<1> HIDE DEF T, p, f, missing
<1>6. T \in Seq(TokenRecords) /\ \A x \in 1 .. Len(T) : ~T[x].open
  BY <1>4 DEF Closed
<1>7. /\ tok' # <<>> <=> missing = 0 /\ Len(T) <= MaxTokens
      /\ tok' # <<>> => tok' = T
  BY <1>2, <1>3, <1>5
<1>8. Len(T) \in Nat /\ MaxTokens \in Nat
  BY <1>6, TokensAssumption
<1>9. CASE tok' # <<>>
  <2>1. tok' = T /\ Len(T) <= MaxTokens /\ DOMAIN T = 1 .. Len(T)
    BY <1>6, <1>7, <1>9
  <2>2. \A n \in 1 .. Len(T) : T[n].size \in 0 .. MaxTokens /\ ~T[n].open
    BY <1>4, <1>6, <1>8, <2>1
  <2> QED  BY <1>6, <1>7, <2>1, <2>2 DEF T, f, missing
<1>10. CASE tok' = <<>>
  <2>1. Len(tok') = 0 /\ DOMAIN tok' = {} /\ tok' \in Seq(TokenRecords)
    BY <1>10
  <2> QED  BY <1>7, <1>8, <1>10, <2>1 DEF T, f, missing
<1> QED  BY <1>9, <1>10

\* The parts together are the type invariant, and the sizes.
LEMMA TypeInvGives == TypeInv => TypeOK /\ TokensRight
<1> SUFFICES ASSUME TypeInv PROVE TypeOK /\ TokensRight
  OBVIOUS
<1>1. Arrays /\ Numbers /\ Registered /\ Tokenized
  BY DEF TypeInv
<1>2. \A d \in DOMAIN dev :
        dev[d] \in [sn : Serials, addr : Nat, key : KeyValues, queue : BOOLEAN, live : BOOLEAN]
  <2>1. dev \in Seq(Device)
    BY <1>1 DEF Arrays
  <2>2. \A d \in DOMAIN dev : dev[d] \in Device
    BY <2>1
  <2> QED  BY <2>2 DEF Device
<1>3. TokensRight
  BY <1>1 DEF Tokenized
<1>4. TypeOK
  <2>1. /\ pc \in {"start", "item", "name", "done", "crashed"} /\ ret \in 0 .. 2
        /\ i \in 0 .. (MaxTokens + 3) /\ rd \in 0 .. Len(dev) /\ indev \in Bytes
        /\ version \in Words /\ queues = Len(log)
    BY Zenon, <1>1 DEF Numbers
  <2>2. /\ Len(tok) <= MaxTokens
        /\ \A n \in DOMAIN tok : tok[n].size \in 0 .. MaxTokens /\ ~tok[n].open
    BY Zenon, <1>1 DEF Tokenized
  <2>3. /\ DOMAIN registry \subseteq Addresses
        /\ \A a \in DOMAIN registry : registry[a] \in DOMAIN dev
    BY Zenon, <1>1 DEF Registered
  <2> QED  BY Zenon, <1>2, <2>1, <2>2, <2>3 DEF TypeOK
<1> QED  BY <1>3, <1>4

LEMMA TypeInitial == Init => TypeInv
<1> SUFFICES ASSUME Init PROVE TypeInv
  OBVIOUS
<1>1. Zeroed \in Device
  BY ZeroedDevice
<1>2. /\ file \in [content : Files, missing : {0, 1}]
      /\ pc = "start" /\ ret = 0 /\ tok = <<>> /\ i = 0 /\ rd = 0 /\ indev = 0
      /\ dev = <<Zeroed>> /\ queues = 0 /\ registry = <<>> /\ version = 0 /\ log = <<>>
  BY Zenon DEF Init
<1>3. dev \in Seq(Device) /\ Len(dev) = 1
  <2> HIDE DEF Zeroed
  <2> QED  BY <1>1, <1>2
<1>4. log \in Seq(Entry) /\ Len(log) = 0
  BY <1>2
<1>5. tok \in Seq(TokenRecords) /\ Len(tok) = 0 /\ DOMAIN tok = {}
  BY <1>2
<1>6. Arrays
  BY <1>3, <1>4, <1>5 DEF Arrays
<1>7. MaxTokens \in Nat
  BY TokensAssumption
<1>8. Numbers
  <2>1. 0 \in 0 .. 2 /\ 0 \in 0 .. (MaxTokens + 3) /\ 0 \in 0 .. 1 /\ 0 \in Bytes
        /\ 0 \in Words /\ ~(0 > 0)
    BY <1>7 DEF Bytes, Words
  <2>2. i = 0 /\ pc \in {"start", "item", "name", "done", "crashed"}
        /\ ~(pc \in {"item", "name"}) /\ pc # "name"
    BY <1>2
  <2> QED  BY <1>2, <1>3, <1>4, <2>1, <2>2 DEF Numbers
<1>9. Registered
  <2>1. DOMAIN registry = {}
    BY <1>2
  <2> QED  BY <2>1 DEF Registered
<1>10. Tokenized
  <2>1. Len(tok) <= MaxTokens
    BY <1>5, <1>7
  <2> QED  BY <1>2, <1>5, <2>1 DEF Tokenized, TokensRight
<1> QED  BY <1>6, <1>8, <1>9, <1>10 DEF TypeInv

\* A step that leaves the file and the tokens alone.
LEMMA TokenizedKept ==
  ASSUME Tokenized, UNCHANGED <<file, tok>>
  PROVE  Tokenized'
BY DEF Tokenized, TokensRight

LEMMA SetDevice ==
  ASSUME NEW s \in Seq(Device), NEW d \in 1 .. Len(s), NEW e \in Device
  PROVE  /\ [s EXCEPT ![d] = e] \in Seq(Device)
         /\ Len([s EXCEPT ![d] = e]) = Len(s)
OBVIOUS

LEMMA AddDevice ==
  ASSUME NEW s \in Seq(Device), NEW e \in Device
  PROVE  /\ Append(s, e) \in Seq(Device)
         /\ Len(Append(s, e)) = Len(s) + 1
         /\ Len(s) + 1 \in 1 .. Len(Append(s, e))
OBVIOUS

\* rfAddDevice: the structure is complete and has its list.
LEMMA CompletedIs ==
  ASSUME dev \in Seq(Device), NEW d \in 1 .. Len(dev)
  PROVE  Completed(d) \in Device
<1>1. dev[d] \in Device
  OBVIOUS
<1> DEFINE e == dev[d]
           yes == TRUE
           a == Hash[e.sn]
<1>2. e.sn \in Serials /\ e.key \in KeyValues /\ e.live \in BOOLEAN
  BY <1>1 DEF Device
<1>3. yes \in BOOLEAN /\ a \in Nat
  BY <1>2, SerialFacts
<1>4. Completed(d) = [sn |-> e.sn, addr |-> a, key |-> e.key, queue |-> yes, live |-> e.live]
  BY DEF Completed
<1> HIDE DEF yes, e, a
<1>5. [sn |-> e.sn, addr |-> a, key |-> e.key, queue |-> yes, live |-> e.live] \in Device
  BY <1>2, <1>3 DEF Device
<1> QED  BY <1>4, <1>5

\* A structure that is freed.
LEMMA FreedIs ==
  ASSUME NEW s \in Seq(Device), NEW d \in 1 .. Len(s)
  PROVE  /\ [s EXCEPT ![d].live = FALSE] \in Seq(Device)
         /\ Len([s EXCEPT ![d].live = FALSE]) = Len(s)
<1>1. s[d] \in Device
  OBVIOUS
<1>2. [s[d] EXCEPT !.live = FALSE] \in Device
  BY <1>1 DEF Device
<1>3. [s EXCEPT ![d].live = FALSE] = [s EXCEPT ![d] = [s[d] EXCEPT !.live = FALSE]]
  OBVIOUS
<1> QED  BY <1>2, <1>3, SetDevice

-----------------------------------------------------------------------------
(* Steps and types *)

LEMMA Sizes == MaxTokens \in Nat \ {0} /\ MaxTokens < 256
BY TokensAssumption, ConfigAssumption

\* A value of a field is a value the field may have.
LEMMA ValuesIn ==
  ASSUME NEW e \in Device, NEW t
  PROVE  /\ [e EXCEPT !.sn = NumberOr(@, t)] \in Device
         /\ [e EXCEPT !.addr = NumberOr(@, t)] \in Device
         /\ [e EXCEPT !.key = Decoded(t)] \in Device
<1>1. e.sn \in Serials /\ e.addr \in Nat
  BY DEF Device
<1>2. NumberOr(e.sn, t) \in Serials /\ NumberOr(e.addr, t) \in Nat /\ Decoded(t) \in KeyValues
  BY <1>1, SerialFacts, KeyFacts
<1> DEFINE s == NumberOr(e.sn, t)
           a == NumberOr(e.addr, t)
           k == Decoded(t)
<1>3. s \in Serials /\ a \in Nat /\ k \in KeyValues
  BY <1>2
<1> HIDE DEF s, a, k
<1>4. /\ [e EXCEPT !.sn = s] \in Device
      /\ [e EXCEPT !.addr = a] \in Device
      /\ [e EXCEPT !.key = k] \in Device
  BY <1>3 DEF Device
<1> QED  BY <1>4 DEF s, a, k

LEMMA TypeReadFails == ASSUME TypeInv, ReadFails PROVE TypeInv'
<1>1. /\ pc = "start" /\ pc' = "done" /\ ret' \in {1, 2}
      /\ UNCHANGED <<file, tok, i, rd, indev, dev, queues, registry, version, log>>
  BY Zenon DEF ReadFails
<1>2. Arrays /\ Numbers /\ Registered /\ Tokenized
  BY DEF TypeInv
<1>3. Arrays' /\ Registered'
  BY <1>1, <1>2 DEF Arrays, Registered
<1>4. Tokenized'
  BY <1>1, <1>2, TokenizedKept
<1>5. Numbers'
  BY <1>1, <1>2 DEF Numbers
<1> QED  BY <1>3, <1>4, <1>5 DEF TypeInv

LEMMA TypeTokenize == ASSUME TypeInv, Tokenize PROVE TypeInv'
<1>1. /\ pc = "start" /\ pc' = "item" /\ i' = 2
      /\ UNCHANGED <<file, ret, rd, indev, dev, queues, registry, version, log>>
  BY Zenon DEF Tokenize
<1>2. Arrays /\ Numbers /\ Registered /\ Tokenized
  BY DEF TypeInv
<1>3. /\ tok' \in Seq(TokenRecords) /\ Len(tok') <= MaxTokens
      /\ \A n \in DOMAIN tok' : tok'[n].size \in 0 .. MaxTokens /\ ~tok'[n].open
      /\ tok' # <<>> <=> file.missing = 0 /\ Len(Tokens(file.content)) <= MaxTokens
      /\ tok' # <<>> => tok' = Tokens(file.content)
  BY TokenizeIs
<1>4. Arrays' /\ Registered'
  BY <1>1, <1>2, <1>3 DEF Arrays, Registered
<1>5. Tokenized'
  BY <1>1, <1>2, <1>3 DEF Tokenized, TokensRight
<1>6. Numbers'
  BY <1>1, <1>2, Sizes DEF Numbers
<1> QED  BY <1>4, <1>5, <1>6 DEF TypeInv

\* A step that changes neither structures nor tokens, only where the loop is.
LEMMA TypeMoves ==
  ASSUME TypeInv, UNCHANGED <<file, tok, dev, queues, registry, log>>,
         ret' \in 0 .. 2, indev' \in Bytes, version' \in Words, rd' \in 0 .. Len(dev),
         indev' > 0 => rd' > 0,
         pc' \in {"item", "name", "done", "crashed"},
         i' \in 0 .. (MaxTokens + 3), i' = 0 \/ i' >= 2,
         pc' = "name" => i' \in 2 .. Len(tok), pc' \in {"item", "name"} => i' >= 2
  PROVE  TypeInv'
<1>1. Arrays /\ Numbers /\ Registered /\ Tokenized
  BY DEF TypeInv
<1>2. Arrays' /\ Registered'
  BY <1>1 DEF Arrays, Registered
<1>3. Tokenized'
  BY <1>1, TokenizedKept
<1>4. Numbers'
  BY <1>1 DEF Numbers
<1> QED  BY <1>2, <1>3, <1>4 DEF TypeInv

\* The loop steps over n tokens.
LEMMA SkipMoves ==
  ASSUME TypeInv, NEW n \in 0 .. 2, pc = "name", Skip(n)
  PROVE  /\ i' \in 0 .. (MaxTokens + 3) /\ (i' = 0 \/ i' >= 2) /\ pc' = "item"
         /\ pc' \in {"item", "name", "done", "crashed"} /\ pc' # "name"
         /\ i' >= 2
<1>1. i \in 2 .. Len(tok) /\ Len(tok) <= MaxTokens /\ tok \in Seq(TokenRecords)
  BY DEF TypeInv, Numbers, Tokenized, Arrays
<1>2. i' = i + n + 1 /\ pc' = "item"
  BY DEF Skip
<1>3. Len(tok) \in Nat
  BY <1>1
<1> QED  BY <1>1, <1>2, <1>3, Sizes

\* What every step finds.
LEMMA TypeNow ==
  ASSUME TypeInv
  PROVE  /\ dev \in Seq(Device) /\ Len(dev) \in Nat /\ log \in Seq(Entry)
         /\ tok \in Seq(TokenRecords) /\ Len(tok) \in Nat /\ DOMAIN tok = 1 .. Len(tok)
         /\ Len(tok) <= MaxTokens
         /\ ret \in 0 .. 2 /\ rd \in 0 .. Len(dev) /\ indev \in Bytes /\ version \in Words
         /\ i \in 0 .. (MaxTokens + 3) /\ (i = 0 \/ i >= 2)
         /\ (pc = "name" => i \in 2 .. Len(tok)) /\ (indev > 0 => rd > 0)
         /\ (pc = "item" => i >= 2) /\ Len(dev) >= 1
<1>1. Arrays /\ Numbers /\ Tokenized
  BY DEF TypeInv
<1> QED  BY <1>1 DEF Arrays, Numbers, Tokenized

LEMMA TypeVersion == ASSUME TypeInv, Version PROVE TypeInv'
<1>1. /\ pc = "name" /\ Skip(1)
      /\ UNCHANGED <<file, ret, tok, rd, indev, dev, queues, registry, log>>
      /\ \E t \in Ahead(1) : version' = Word(NumberOr(version, t.text))
  BY Zenon DEF Version, Is
<1>2. PICK t \in Ahead(1) : version' = Word(NumberOr(version, t.text))
  BY <1>1
<1>3. version \in Nat
  BY TypeNow DEF Words
<1>4. NumberOr(version, t.text) \in Nat
  BY <1>3, SerialFacts
<1>5. version' \in Words
  BY <1>2, <1>4 DEF Word, Words
<1>6. 1 \in 0 .. 2
  OBVIOUS
<1> QED  BY <1>1, <1>5, <1>6, TypeNow, SkipMoves, TypeMoves

LEMMA TypeGateway == ASSUME TypeInv, Gateway PROVE TypeInv'
<1>1. /\ pc = "name" /\ Skip(1) /\ rd' = 1
      /\ UNCHANGED <<file, ret, tok, indev, dev, queues, registry, version, log>>
  BY Zenon DEF Gateway, Is
<1>2. 1 \in 0 .. 2
  OBVIOUS
<1>3. Len(dev) >= 1
  BY TypeNow
<1>4. rd' \in 0 .. Len(dev) /\ rd' > 0
  BY <1>1, <1>3, TypeNow
<1> QED  BY <1>1, <1>2, <1>4, TypeNow, SkipMoves, TypeMoves

LEMMA TypeInterface == ASSUME TypeInv, Interface PROVE TypeInv'
<1>1. /\ pc = "name" /\ Skip(1)
      /\ UNCHANGED <<file, ret, tok, rd, indev, dev, queues, registry, version, log>>
  BY Zenon DEF Interface, Is
<1>2. 1 \in 0 .. 2
  OBVIOUS
<1> QED  BY <1>1, <1>2, TypeNow, SkipMoves, TypeMoves

LEMMA TypeKeyNotRead == ASSUME TypeInv, KeyNotRead PROVE TypeInv'
<1>1. /\ pc = "name" /\ Skip(1)
      /\ UNCHANGED <<file, ret, tok, rd, indev, dev, queues, registry, version, log>>
  BY Zenon DEF KeyNotRead, Is
<1>2. 1 \in 0 .. 2
  OBVIOUS
<1> QED  BY <1>1, <1>2, TypeNow, SkipMoves, TypeMoves

LEMMA TypeUnknown == ASSUME TypeInv, Unknown PROVE TypeInv'
<1>1. /\ pc = "name" /\ Skip(0)
      /\ UNCHANGED <<file, ret, tok, rd, indev, dev, queues, registry, version, log>>
  BY Zenon DEF Unknown
<1>2. 0 \in 0 .. 2
  OBVIOUS
<1> QED  BY <1>1, <1>2, TypeNow, SkipMoves, TypeMoves

LEMMA TypeIncomplete == ASSUME TypeInv, Incomplete PROVE TypeInv'
<1>1. /\ pc = "item" /\ i <= Len(tok) /\ pc' = "name"
      /\ UNCHANGED <<file, ret, tok, i, rd, indev, dev, queues, registry, version, log>>
  BY Zenon DEF Incomplete
<1> QED  BY <1>1, TypeNow, TypeMoves

LEMMA TypeFinish == ASSUME TypeInv, Finish PROVE TypeInv'
<1>1. /\ pc = "item" /\ i > Len(tok) /\ pc' = "done"
      /\ ret' = IF version = 1 THEN 0 ELSE 1
      /\ UNCHANGED <<file, tok, i, rd, indev, dev, queues, registry, version, log>>
  BY Zenon DEF Finish
<1>2. ret' \in 0 .. 2
  BY <1>1
<1> QED  BY <1>1, <1>2, TypeNow, TypeMoves

LEMMA TypeRegisterCrashes == ASSUME TypeInv, RegisterCrashes PROVE TypeInv'
<1>1. /\ pc' = "crashed" /\ pc = "item"
      /\ UNCHANGED <<file, ret, tok, i, rd, indev, dev, queues, registry, version, log>>
  BY Zenon DEF RegisterCrashes
<1> QED  BY <1>1, TypeNow, TypeMoves

\* A field is written, in a device structure that stays one.
LEMMA TypeField ==
  ASSUME TypeInv, NEW e, rd # 0 => e \in Device, pc = "name", Field(e),
         UNCHANGED <<file, ret, tok, rd, indev, queues, registry, version, log>>
  PROVE  TypeInv'
<1>1. CASE rd # 0 /\ dev' = [dev EXCEPT ![rd] = e] /\ Skip(1)
  <2>1. rd \in 1 .. Len(dev) /\ e \in Device
    BY <1>1, TypeNow
  <2>2. dev' \in Seq(Device) /\ Len(dev') = Len(dev)
    BY <1>1, <2>1, TypeNow, SetDevice
  <2>3. 1 \in 0 .. 2
    OBVIOUS
  <2>4. /\ i' \in 0 .. (MaxTokens + 3) /\ (i' = 0 \/ i' >= 2) /\ pc' = "item"
        /\ pc' \in {"item", "name", "done", "crashed"} /\ pc' # "name" /\ i' >= 2
    BY <1>1, <2>3, SkipMoves
  <2>5. Arrays /\ Numbers /\ Registered /\ Tokenized
    BY DEF TypeInv
  <2>6. Arrays'
    BY <2>2, <2>5 DEF Arrays
  <2>7. Registered'
    <3>1. DOMAIN dev' = DOMAIN dev
      BY <2>2, TypeNow
    <3> QED  BY <2>5, <3>1 DEF Registered
  <2>8. Tokenized'
    BY <2>5, TokenizedKept
  <2>9. Numbers'
    BY <2>2, <2>4, <2>5 DEF Numbers
  <2> QED  BY <2>6, <2>7, <2>8, <2>9 DEF TypeInv
<1>2. CASE dev' = dev /\ Skip(1)
  <2>1. 1 \in 0 .. 2
    OBVIOUS
  <2> QED  BY <1>2, <2>1, TypeNow, SkipMoves, TypeMoves
<1>3. CASE pc' = "crashed" /\ UNCHANGED <<dev, i>>
  BY <1>3, TypeNow, TypeMoves
<1> QED  BY Zenon, <1>1, <1>2, <1>3 DEF Field

LEMMA TypeId == ASSUME TypeInv, Id PROVE TypeInv'
<1>1. PICK t \in Ahead(1) : Field([dev[rd] EXCEPT !.sn = NumberOr(@, t.text)])
  BY Zenon DEF Id
<1>2. pc = "name" /\ UNCHANGED <<file, ret, tok, rd, indev, queues, registry, version, log>>
  BY Zenon DEF Id, Is
<1>3. rd # 0 => [dev[rd] EXCEPT !.sn = NumberOr(@, t.text)] \in Device
  <2> SUFFICES ASSUME rd # 0 PROVE [dev[rd] EXCEPT !.sn = NumberOr(@, t.text)] \in Device
    OBVIOUS
  <2>1. dev[rd] \in Device
    BY TypeNow
  <2> QED  BY <2>1, ValuesIn
<1> QED  BY <1>1, <1>2, <1>3, TypeField

LEMMA TypeBcast == ASSUME TypeInv, Bcast PROVE TypeInv'
<1>1. PICK t \in Ahead(1) : Field([dev[rd] EXCEPT !.addr = NumberOr(@, t.text)])
  BY Zenon DEF Bcast
<1>2. pc = "name" /\ UNCHANGED <<file, ret, tok, rd, indev, queues, registry, version, log>>
  BY Zenon DEF Bcast, Is
<1>3. rd # 0 => [dev[rd] EXCEPT !.addr = NumberOr(@, t.text)] \in Device
  <2> SUFFICES ASSUME rd # 0 PROVE [dev[rd] EXCEPT !.addr = NumberOr(@, t.text)] \in Device
    OBVIOUS
  <2>1. dev[rd] \in Device
    BY TypeNow
  <2> QED  BY <2>1, ValuesIn
<1> QED  BY <1>1, <1>2, <1>3, TypeField

LEMMA TypeKey == ASSUME TypeInv, Key PROVE TypeInv'
<1>1. PICK t \in Ahead(1) : Field([dev[rd] EXCEPT !.key = Decoded(t.text)])
  BY Zenon DEF Key
<1>2. pc = "name" /\ UNCHANGED <<file, ret, tok, rd, indev, queues, registry, version, log>>
  BY Zenon DEF Key, Is
<1>3. rd # 0 => [dev[rd] EXCEPT !.key = Decoded(t.text)] \in Device
  <2> SUFFICES ASSUME rd # 0 PROVE [dev[rd] EXCEPT !.key = Decoded(t.text)] \in Device
    OBVIOUS
  <2>1. dev[rd] \in Device
    BY TypeNow
  <2> QED  BY <2>1, ValuesIn
<1> QED  BY <1>1, <1>2, <1>3, TypeField

\* The list of devices begins: a structure of zeros, and the size of the array.
LEMMA TypeDevices == ASSUME TypeInv, Devices PROVE TypeInv'
<1>1. /\ pc = "name" /\ Skip(2)
      /\ dev' = Append(dev, Zeroed) /\ rd' = Len(dev) + 1
      /\ UNCHANGED <<file, ret, tok, queues, registry, version, log>>
      /\ \E t \in Ahead(1) : indev' = Byte(t.size)
  BY Zenon DEF Devices, Is
<1>2. /\ dev' \in Seq(Device) /\ Len(dev') = Len(dev) + 1 /\ Len(dev) \in Nat
      /\ DOMAIN dev = 1 .. Len(dev) /\ DOMAIN dev' = 1 .. Len(dev')
  BY <1>1, AddDevice, ZeroedDevice, TypeNow
<1>3. indev' \in Bytes
  <2>1. PICK t \in Ahead(1) : indev' = Byte(t.size)
    BY <1>1
  <2>2. t.size \in Int
    <3>1. CASE i + 1 \in DOMAIN tok
      <4>1. t = tok[i + 1]
        BY <2>1, <3>1 DEF Ahead
      <4>2. tok[i + 1].size \in 0 .. MaxTokens
        BY <3>1 DEF TypeInv, Tokenized
      <4> QED  BY <4>1, <4>2
    <3>2. CASE i + 1 \notin DOMAIN tok
      <4>1. t \in Garbage
        BY <2>1, <3>2 DEF Ahead
      <4> QED  BY <4>1, ConfigAssumption
    <3> QED  BY <3>1, <3>2
  <2> QED  BY <2>1, <2>2 DEF Byte, Bytes
<1>4. 2 \in 0 .. 2
  OBVIOUS
<1>5. /\ i' \in 0 .. (MaxTokens + 3) /\ (i' = 0 \/ i' >= 2) /\ pc' = "item"
      /\ pc' \in {"item", "name", "done", "crashed"} /\ pc' # "name" /\ i' >= 2
  BY <1>1, <1>4, SkipMoves
<1>6. Arrays /\ Numbers /\ Registered /\ Tokenized
  BY DEF TypeInv
<1>7. Arrays'
  BY <1>1, <1>2, <1>6 DEF Arrays
<1>8. Registered'
  <2>1. DOMAIN dev \subseteq DOMAIN dev'
    BY <1>2
  <2> QED  BY <1>1, <1>6, <2>1 DEF Registered
<1>9. Tokenized'
  BY <1>1, <1>6, TokenizedKept
<1>10. Numbers'
  BY <1>1, <1>2, <1>3, <1>5, <1>6 DEF Numbers
<1> QED  BY <1>7, <1>8, <1>9, <1>10 DEF TypeInv

\* What a registration adds to the history.
LEMMA EntryIs ==
  ASSUME NEW e \in Device, NEW b \in BOOLEAN
  PROVE  [sn |-> e.sn, key |-> e.key, stored |-> b] \in Entry
<1>1. e.sn \in Serials /\ e.key \in KeyValues
  BY DEF Device
<1> QED  BY <1>1 DEF Entry

\* A registration: s is what the structures are when it is done, and a structure of
\* zeros follows unless that was the last device.
LEMMA TypeRegistered ==
  ASSUME TypeInv, pc = "item", i <= Len(tok), indev > 0,
         NEW s \in Seq(Device), Len(s) = Len(dev), NEW b \in BOOLEAN,
         dev' = IF indev > 1 THEN Append(s, Zeroed) ELSE s,
         rd' = IF indev > 1 THEN Len(dev) + 1 ELSE rd,
         indev' = indev - 1, queues' = queues + 1, pc' = "name",
         log' = Append(log, [sn |-> dev[rd].sn, key |-> dev[rd].key, stored |-> b]),
         DOMAIN registry' \subseteq DOMAIN registry \cup {Hash[dev[rd].sn]},
         \A a \in DOMAIN registry' : registry'[a] = rd \/ registry'[a] \in DOMAIN dev,
         UNCHANGED <<file, ret, tok, i, version>>
  PROVE  TypeInv' /\ Len(dev') \in {Len(dev), Len(dev) + 1}
<1>1. dev \in Seq(Device) /\ rd \in 1 .. Len(dev) /\ Len(dev) \in Nat /\ DOMAIN dev = 1 .. Len(dev)
      /\ log \in Seq(Entry) /\ indev \in Bytes
  BY TypeNow
<1>2. dev[rd] \in Device
  BY <1>1
<1>3. /\ dev' \in Seq(Device) /\ Len(dev') \in {Len(dev), Len(dev) + 1}
      /\ rd' \in 1 .. Len(dev') /\ DOMAIN dev' = 1 .. Len(dev')
  <2>1. CASE indev > 1
    <3>1. dev' = Append(s, Zeroed) /\ rd' = Len(dev) + 1
      BY <2>1
    <3>2. /\ Append(s, Zeroed) \in Seq(Device) /\ Len(Append(s, Zeroed)) = Len(s) + 1
          /\ Len(s) + 1 \in 1 .. Len(Append(s, Zeroed))
      BY AddDevice, ZeroedDevice
    <3>3. dev' \in Seq(Device) /\ Len(dev') = Len(dev) + 1 /\ rd' \in 1 .. Len(dev')
      BY <3>1, <3>2
    <3> QED  BY <1>1, <3>3
  <2>2. CASE ~(indev > 1)
    BY <1>1, <2>2
  <2> QED  BY <2>1, <2>2
<1> DEFINE e == [sn |-> dev[rd].sn, key |-> dev[rd].key, stored |-> b]
<1>4. e \in Entry /\ log' = Append(log, e)
  BY <1>2, EntryIs
<1> HIDE DEF e
<1>5. log' \in Seq(Entry) /\ Len(log') = Len(log) + 1 /\ Len(log) \in Nat
  BY <1>1, <1>4
<1>6. Arrays /\ Numbers /\ Registered /\ Tokenized
  BY DEF TypeInv
<1>7. Arrays'
  BY <1>3, <1>5, <1>6 DEF Arrays
<1>8. Registered'
  <2>1. dev[rd].sn \in Serials
    BY <1>2 DEF Device
  <2>2. Hash[dev[rd].sn] \in Addresses
    BY <2>1, SerialFacts
  <2>3. DOMAIN registry' \subseteq Addresses
    BY <1>6, <2>2 DEF Registered
  <2>4. rd \in DOMAIN dev' /\ DOMAIN dev \subseteq DOMAIN dev'
    BY <1>1, <1>3
  <2> QED  BY <2>3, <2>4 DEF Registered
<1>9. Tokenized'
  BY <1>6, TokenizedKept
<1>10. indev' \in Bytes /\ indev \in Nat
  BY <1>1 DEF Bytes
<1>11. Numbers'
  BY <1>1, <1>3, <1>5, <1>6, <1>10, TypeNow DEF Numbers
<1> QED  BY <1>3, <1>7, <1>8, <1>9, <1>11 DEF TypeInv

\* What rfAddDevice makes of the structures, and of the registry.
LEMMA AddedIs ==
  ASSUME TypeInv, rd > 0, NEW x, x = rfAddDevice(rd)
  PROVE  /\ x.registry = Entered(Hash[dev[rd].sn], rd)
         /\ Hash[dev[rd].sn] \notin DOMAIN registry =>
              x.dev = [dev EXCEPT ![rd] = Completed(rd)]
         /\ Hash[dev[rd].sn] \in DOMAIN registry =>
              x.dev = [[dev EXCEPT ![rd] = Completed(rd)]
                         EXCEPT ![registry[Hash[dev[rd].sn]]].live = FALSE]
         /\ x.dev \in Seq(Device) /\ Len(x.dev) = Len(dev)
<1> DEFINE a == Hash[dev[rd].sn]
           new == [dev EXCEPT ![rd] = Completed(rd)]
<1>1. rd \in 1 .. Len(dev) /\ dev \in Seq(Device)
  BY TypeNow
<1>2. new \in Seq(Device) /\ Len(new) = Len(dev)
  BY <1>1, CompletedIs, SetDevice
<1>3. /\ x.registry = Entered(a, rd)
      /\ a \notin DOMAIN registry => x.dev = new
      /\ a \in DOMAIN registry => x.dev = [new EXCEPT ![registry[a]].live = FALSE]
  <2> DEFINE freed == [new EXCEPT ![registry[a]].live = FALSE]
             R == Entered(a, rd)
             D == IF a \in DOMAIN registry THEN freed ELSE new
  <2>1. x = [dev |-> D, registry |-> R]
    BY DEF rfAddDevice
  <2> HIDE DEF D, R
  <2>2. x.dev = D /\ x.registry = R
    BY <2>1
  <2> HIDE DEF freed, new, a
  <2> QED  BY <2>2 DEF D, R, freed
<1> HIDE DEF new
<1>4. CASE a \notin DOMAIN registry
  BY <1>2, <1>3, <1>4 DEF new
<1>5. CASE a \in DOMAIN registry
  <2>1. registry[a] \in 1 .. Len(new)
    BY <1>1, <1>2, <1>5 DEF TypeInv, Registered
  <2>2. [new EXCEPT ![registry[a]].live = FALSE] \in Seq(Device)
        /\ Len([new EXCEPT ![registry[a]].live = FALSE]) = Len(new)
    BY <1>2, <2>1, FreedIs
  <2> QED  BY <1>2, <1>3, <1>5, <2>2 DEF new
<1> QED  BY <1>4, <1>5

LEMMA TypeRegister == ASSUME TypeInv, Register PROVE TypeInv'
<1> DEFINE x == rfAddDevice(rd)
           a == Hash[dev[rd].sn]
<1>1. /\ pc = "item" /\ i <= Len(tok) /\ indev > 0
      /\ registry' = x.registry
      /\ dev' = IF indev > 1 THEN Append(x.dev, Zeroed) ELSE x.dev
      /\ rd' = IF indev > 1 THEN Len(dev) + 1 ELSE rd
      /\ indev' = indev - 1 /\ queues' = queues + 1 /\ pc' = "name"
      /\ log' = Append(log, [sn |-> dev[rd].sn, key |-> dev[rd].key, stored |-> TRUE])
      /\ UNCHANGED <<file, ret, tok, i, version>>
  BY Zenon DEF Register, Complete
<1>2. rd > 0 /\ rd \in 1 .. Len(dev) /\ dev \in Seq(Device)
  BY <1>1, TypeNow
<1>3. x.registry = Entered(a, rd) /\ x.dev \in Seq(Device) /\ Len(x.dev) = Len(dev)
  BY <1>2, AddedIs
<1> HIDE DEF x, a
<1>4. /\ DOMAIN registry' = DOMAIN registry \cup {a}
      /\ registry'[a] = rd
      /\ \A b \in DOMAIN registry : b # a => registry'[b] = registry[b]
  <2>1. registry' = Entered(a, rd)
    BY <1>1, <1>3
  <2> QED  BY <2>1 DEF Entered
<1>5. \A b \in DOMAIN registry' : registry'[b] = rd \/ registry'[b] \in DOMAIN dev
  BY <1>4 DEF TypeInv, Registered
<1>6. DOMAIN registry' \subseteq DOMAIN registry \cup {Hash[dev[rd].sn]}
  BY <1>4 DEF a
<1> DEFINE yes == TRUE
<1>7. /\ yes \in BOOLEAN
      /\ log' = Append(log, [sn |-> dev[rd].sn, key |-> dev[rd].key, stored |-> yes])
  BY <1>1
<1> HIDE DEF yes
<1> QED  BY <1>1, <1>3, <1>5, <1>6, <1>7, TypeRegistered

LEMMA TypeRegisterForgets == ASSUME TypeInv, RegisterForgets PROVE TypeInv'
<1> DEFINE s == [dev EXCEPT ![rd] = Completed(rd)]
           no == FALSE
<1>1. /\ pc = "item" /\ i <= Len(tok) /\ indev > 0
      /\ dev' = IF indev > 1 THEN Append(s, Zeroed) ELSE s
      /\ rd' = IF indev > 1 THEN Len(dev) + 1 ELSE rd
      /\ indev' = indev - 1 /\ queues' = queues + 1 /\ pc' = "name"
      /\ log' = Append(log, [sn |-> dev[rd].sn, key |-> dev[rd].key, stored |-> no])
      /\ UNCHANGED <<file, ret, tok, i, registry, version>>
  BY Zenon DEF RegisterForgets, Complete
<1>2. rd > 0 /\ rd \in 1 .. Len(dev) /\ dev \in Seq(Device)
  BY <1>1, TypeNow
<1>3. s \in Seq(Device) /\ Len(s) = Len(dev)
  BY <1>2, CompletedIs, SetDevice
<1>4. no \in BOOLEAN
  OBVIOUS
<1> HIDE DEF s, no
<1>5. /\ DOMAIN registry' \subseteq DOMAIN registry \cup {Hash[dev[rd].sn]}
      /\ \A b \in DOMAIN registry' : registry'[b] = rd \/ registry'[b] \in DOMAIN dev
  BY <1>1 DEF TypeInv, Registered
<1> QED  BY <1>1, <1>3, <1>4, <1>5, TypeRegistered

LEMMA TypeStep == TypeInv /\ [Next]_vars => TypeInv'
<1> SUFFICES ASSUME TypeInv, [Next]_vars PROVE TypeInv'
  OBVIOUS
<1>1. CASE UNCHANGED vars
  <2>1. UNCHANGED <<file, pc, ret, tok, i, rd, indev, dev, queues, registry, version, log>>
    BY <1>1 DEF vars
  <2>2. Arrays /\ Numbers /\ Registered /\ Tokenized
    BY DEF TypeInv
  <2>3. Tokenized'
    BY <2>1, <2>2, TokenizedKept
  <2>4. Arrays' /\ Numbers' /\ Registered'
    BY <2>1, <2>2 DEF Arrays, Numbers, Registered
  <2> QED  BY <2>3, <2>4 DEF TypeInv
<1>2. CASE Next
  BY Zenon, <1>2, TypeReadFails, TypeTokenize, TypeRegister, TypeRegisterForgets, TypeRegisterCrashes,
     TypeIncomplete, TypeFinish, TypeVersion, TypeGateway, TypeInterface, TypeId, TypeBcast, TypeKey,
     TypeKeyNotRead, TypeDevices, TypeUnknown DEF Next
<1> QED  BY <1>1, <1>2

LEMMA TypeAlways == Spec => []TypeInv
BY TypeInitial, TypeStep, PTL DEF Spec

\* Every variable has its type: in particular the walk never gets more than a few tokens
\* behind the last one, and what is written to and registered are structures that exist.
THEOREM TypeRight == Spec => []TypeOK
<1>1. TypeInv => TypeOK
  BY TypeInvGives
<1> QED  BY <1>1, TypeAlways, PTL

\* Whatever is walked over is the tokens the whole file has, with the right sizes.
THEOREM TokensAreRight == Spec => []TokensRight
<1>1. TypeInv => TokensRight
  BY TypeInvGives
<1> QED  BY <1>1, TypeAlways, PTL

-----------------------------------------------------------------------------
(* Steps over names *)

\* A list of no devices, behind which nothing but the version can hide.
Hidden(f) == /\ Has(f, "devices") /\ f.devices = <<>>
             /\ Position(f, "version") = Position(f, "devices") + 1

\* The name at x is that of no member, nor is its value's text; but both are skipped.
Passes(f, m, x) == Has(f, m) => /\ x # At(f, m) /\ x + 1 # At(f, m)
                                /\ At(f, m) \in Nat

\* What a step over a name of the file finds.
LEMMA NameFound ==
  ASSUME TypeInv, tok # <<>>, pc = "name"
  PROVE  /\ IsFile(file.content) /\ tok = Tokens(file.content) /\ Len(tok) \in Nat
         /\ i \in 2 .. Len(tok) /\ i \in Nat
<1>1. file.content \in Files /\ tok = Tokens(file.content)
  BY DEF TypeInv, Tokenized, TokensRight
<1>2. i \in 2 .. Len(tok) /\ Len(tok) \in Nat
  BY TypeNow
<1> QED  BY <1>1, <1>2, ConfigAssumption

\* Where the name of a setting is found, it is one, and its value is the next token.
LEMMA SettingFound ==
  ASSUME TypeInv, tok # <<>>, pc = "name", NamesApart(file.content),
         NEW m \in Recognised, Is(m)
  PROVE  /\ tok[i].text = m /\ i + 1 \in 2 .. Len(tok) /\ tok[i + 1].text \notin Recognised
         /\ Ahead(1) = {tok[i + 1]}
         /\ m \in Named => Has(file.content, m) /\ i = At(file.content, m)
         /\ m \in Settings => \E b, o, j : /\ IsField(file.content, i, b, o, j)
                                           /\ o[j].name = m /\ tok[i + 1].text = o[j].text
<1> DEFINE f == file.content
           T == Tokens(f)
<1>1. IsFile(f) /\ tok = T /\ i \in 2 .. Len(T)
  BY NameFound
<1>2. T[i].text = m
  BY <1>1 DEF Is
<1>3. T[i].text \in Recognised
  BY <1>2
<1> HIDE DEF f
<1>4. /\ T[i].type = "string" /\ i + 1 \in 2 .. Len(T) /\ T[i + 1].text \notin Recognised
      /\ \/ \E n \in Named : T[i].text = n /\ Has(f, n) /\ i = At(f, n)
         \/ /\ T[i].text \in Settings
            /\ \E b, o, j : /\ IsField(f, i, b, o, j)
                            /\ o[j].name = T[i].text /\ T[i + 1].text = o[j].text
  <2>1. NamesApart(f)
    BY DEF f
  <2> QED  BY <1>1, <1>3, <2>1, SettingIs
<1>5. ~(m \in Named /\ m \in Settings)
  BY DEF Named, Settings
<1>6. Ahead(1) = {tok[i + 1]}
  <2>1. i + 1 \in DOMAIN tok
    BY <1>1, <1>4, TypeNow
  <2> QED  BY <2>1 DEF Ahead
<1> HIDE DEF T
<1>7. tok[i].text = m /\ i + 1 \in 2 .. Len(tok) /\ tok[i + 1].text \notin Recognised
  BY <1>1, <1>2, <1>4
<1>8. m \in Named => Has(f, m) /\ i = At(f, m)
  BY <1>2, <1>4, <1>5
<1>9. m \in Settings => \E b, o, j : /\ IsField(f, i, b, o, j)
                                     /\ o[j].name = m /\ tok[i + 1].text = o[j].text
  BY <1>1, <1>2, <1>4, <1>5
<1> QED  BY Zenon, <1>6, <1>7, <1>8, <1>9 DEF f

\* A setting is none of the other members.
LEMMA SettingPasses ==
  ASSUME TypeInv, tok # <<>>, pc = "name", NamesApart(file.content),
         NEW m \in Recognised, Is(m), NEW n \in Recognised \cap Members, n # m
  PROVE  Passes(file.content, n, i)
<1> DEFINE f == file.content
<1>1. tok[i].text = m /\ tok[i + 1].text \notin Recognised
  BY SettingFound
<1>2. IsFile(f) /\ tok = Tokens(f)
  BY NameFound
<1>3. ASSUME Has(f, n)
      PROVE  tok[At(f, n)].text = n /\ At(f, n) \in Nat
  <2>1. NamesApart(f) /\ n \in Members
    OBVIOUS
  <2> HIDE DEF f
  <2>2. At(f, n) \in 2 .. Len(Tokens(f)) /\ Tokens(f)[At(f, n)].text = n
    BY <1>2, <1>3, <2>1, NameStands
  <2>3. At(f, n) \in Nat
    BY <1>2, <1>3, <2>1, MemberStands
  <2> QED  BY <1>2, <2>2, <2>3
<1> HIDE DEF f
<1>4. Has(f, n) => /\ i # At(f, n) /\ i + 1 # At(f, n)
                   /\ At(f, n) \in Nat
  BY <1>1, <1>3
<1> QED  BY <1>4 DEF f, Passes

\* What is not recognised is no member's name.
LEMMA UnknownPasses ==
  ASSUME TypeInv, tok # <<>>, pc = "name", NamesApart(file.content),
         \A m \in Recognised : ~Is(m), NEW n \in Recognised \cap Members,
         Has(file.content, n)
  PROVE  i # At(file.content, n) /\ At(file.content, n) \in Nat
<1> DEFINE f == file.content
<1>1. IsFile(f) /\ tok = Tokens(f) /\ NamesApart(f) /\ n \in Members /\ Has(f, n)
  BY NameFound
<1> HIDE DEF f
<1>2. Tokens(f)[At(f, n)].text = n /\ Tokens(f)[At(f, n)].type = "string"
  BY <1>1, NameStands
<1>3. At(f, n) \in Nat
  BY <1>1, MemberStands
<1>4. i # At(f, n)
  <2>1. ~Is(n)
    OBVIOUS
  <2> QED  BY <1>1, <1>2, <2>1 DEF Is
<1> QED  BY <1>3, <1>4 DEF f

-----------------------------------------------------------------------------
(* The version *)

\* The file is whole and its tokens fit.
Fits == file.missing = 0 /\ Len(Tokens(file.content)) <= MaxTokens

\* The version as it is known when the loop has come to x.
VersionAt(f, x) ==
  IF Has(f, "version") /\ ~Hidden(f) /\ x > At(f, "version")
  THEN Word(NumberOr(0, f.version)) ELSE 0

\* What is known of the version is what the variable holds.
VersionRead(f, x) ==
  /\ Hidden(f) => x <= At(f, "devices") \/ x > At(f, "version")
  /\ version = VersionAt(f, x)

\* The inductive invariant for the version and the result.
VersionInv ==
  /\ i = 0 => pc \in {"start", "done"} /\ version = 0
  /\ pc = "done" => \/ i = 0 /\ ret # 0
                    \/ i > Len(tok) /\ (ret = 0 <=> version = 1)
  /\ i > 0 => (tok # <<>> <=> Fits)
  /\ tok = <<>> => version = 0
  /\ NamesApart(file.content) /\ tok # <<>> => VersionRead(file.content, i)

\* The list without devices ends where the version begins.
LEMMA HiddenIs ==
  ASSUME NEW f, IsFile(f), Hidden(f)
  PROVE  /\ Has(f, "version") /\ At(f, "version") = At(f, "devices") + 2
         /\ At(f, "devices") \in Nat
<1>1. Has(f, "devices") /\ f.devices = <<>> /\ Position(f, "version") = Position(f, "devices") + 1
  BY DEF Hidden
<1>2. "devices" \in Members /\ "version" \in Members
  BY DEF Members
<1>3. Position(f, "devices") \in Nat
  BY <1>1, <1>2, MembersApart
<1>4. Has(f, "version")
  BY <1>1, <1>3 DEF Has
<1>5. Ends(f, "devices") = At(f, "version")
  BY <1>1, <1>2, <1>4, MembersApart
<1>6. Len(f.devices) = 0
  BY <1>1
<1>7. Obj(f, 1) = At(f, "devices") + 2 /\ Obj(f, 1) = Ends(f, "devices")
  BY <1>1, <1>6, DevicesStand
<1>8. At(f, "devices") \in Nat
  BY <1>1, <1>2, MemberStands
<1> QED  BY <1>4, <1>5, <1>7, <1>8

\* The version is not among the three tokens that the list of devices takes, unless hidden.
LEMMA VersionBehind ==
  ASSUME NEW f, IsFile(f), NamesApart(f), Has(f, "devices"), Has(f, "version"), ~Hidden(f)
  PROVE  /\ At(f, "version") \in Nat /\ At(f, "devices") \in Nat
         /\ At(f, "version") < At(f, "devices") \/ At(f, "version") >= At(f, "devices") + 3
<1>1. "devices" \in Members /\ "version" \in Members /\ "devices" # "version"
  BY DEF Members
<1> DEFINE V == At(f, "version")
           D == At(f, "devices")
<1>2. V \in Nat /\ D \in Nat /\ Ends(f, "version") >= V + 2 /\ Ends(f, "devices") >= D + 2
      /\ Ends(f, "version") \in Nat /\ Ends(f, "devices") \in Nat
  BY <1>1, MemberStands
<1>3. /\ Position(f, "devices") \in Nat /\ Position(f, "version") \in Nat
      /\ Position(f, "version") < Position(f, "devices") => Ends(f, "version") <= D
      /\ Position(f, "devices") + 1 = Position(f, "version") => Ends(f, "devices") = V
      /\ Position(f, "devices") + 1 < Position(f, "version") => Ends(f, "devices") + 2 <= V
      /\ \/ Position(f, "devices") < Position(f, "version")
         \/ Position(f, "version") < Position(f, "devices")
  BY <1>1, MembersApart
<1>4. CASE Position(f, "devices") + 1 = Position(f, "version")
  <2>1. f.devices # <<>>
    BY <1>3, <1>4 DEF Hidden
  <2> DEFINE N == Len(f.devices)
  <2>2. N \in Nat /\ N # 0
    <3>1. f.devices \in Seq(Seq(Fields))
      BY DEF IsFile
    <3> QED  BY <2>1, <3>1
  <2>3. /\ Obj(f, 1) = D + 2 /\ Obj(f, N + 1) = Ends(f, "devices")
        /\ \A n \in 1 .. (N + 1) : Obj(f, n) \in Nat /\ Obj(f, n) <= Obj(f, N + 1)
        /\ \A n \in 1 .. N : /\ Len(f.devices[n]) \in Nat
                             /\ Obj(f, n + 1) = Obj(f, n) + 1 + 2 * Len(f.devices[n])
    BY DevicesStand
  <2> HIDE DEF N
  <2>4. 1 \in 1 .. N /\ 1 + 1 \in 1 .. (N + 1) /\ 1 \in 1 .. (N + 1)
    BY <2>2
  <2>5. Obj(f, 1 + 1) >= Obj(f, 1) + 1
    BY <2>3, <2>4
  <2>6. Obj(f, 1 + 1) \in Nat /\ Obj(f, 1 + 1) <= Ends(f, "devices")
    BY <2>3, <2>4
  <2> QED  BY <1>2, <1>3, <1>4, <2>3, <2>5, <2>6
<1> QED  BY <1>2, <1>3, <1>4

\* Nothing is known of the version, or all, before and after names that are not the version's.
LEMMA VersionPassed ==
  ASSUME NEW f, NEW x \in Nat, NEW y \in Nat, y = x + 1 \/ y = x + 2, IsFile(f),
         Has(f, "version") => /\ At(f, "version") \in Nat /\ At(f, "version") # x
                              /\ y = x + 2 => At(f, "version") # x + 1,
         Has(f, "devices") => /\ At(f, "devices") \in Nat /\ At(f, "devices") # x
                              /\ y = x + 2 => At(f, "devices") # x + 1,
         UNCHANGED version, VersionRead(f, x)
  PROVE  version' = VersionAt(f, y)
         /\ (Hidden(f) => y <= At(f, "devices") \/ y > At(f, "version"))
<1>1. Has(f, "version") => (x > At(f, "version") <=> y > At(f, "version"))
  OBVIOUS
<1>2. VersionAt(f, y) = VersionAt(f, x)
  BY <1>1 DEF VersionAt
<1>3. Hidden(f) => y <= At(f, "devices") \/ y > At(f, "version")
  <2> SUFFICES ASSUME Hidden(f) PROVE y <= At(f, "devices") \/ y > At(f, "version")
    OBVIOUS
  <2>1. Has(f, "version") /\ Has(f, "devices")
    BY HiddenIs DEF Hidden
  <2>2. x <= At(f, "devices") \/ x > At(f, "version")
    BY DEF VersionRead
  <2> QED  BY <2>1, <2>2
<1> QED  BY <1>2, <1>3 DEF VersionRead

\* Where the name of no member is.
LEMMA VersionSkips ==
  ASSUME TypeInv, VersionInv, tok # <<>>, pc = "name", NamesApart(file.content),
         UNCHANGED <<file, tok, version>>,
         NEW n \in {0, 1}, Skip(n),
         \A m \in {"version", "devices"} : Has(file.content, m) =>
           /\ At(file.content, m) \in Nat /\ At(file.content, m) # i
           /\ n = 1 => At(file.content, m) # i + 1
  PROVE  VersionRead(file.content, i)'
<1> DEFINE f == file.content
<1>1. IsFile(f) /\ i \in Nat
  BY NameFound
<1>2. i' \in Nat /\ i' = i + n + 1
  BY <1>1 DEF Skip
<1>3. VersionRead(f, i)
  BY DEF VersionInv
<1>5. f' = f
  OBVIOUS
<1>6. \A m \in {"version", "devices"} : Has(f, m) =>
         At(f, m) \in Nat /\ At(f, m) # i /\ (n = 1 => At(f, m) # i + 1)
  OBVIOUS
<1> HIDE DEF f
<1>7. i' = i + 1 \/ i' = i + 2
  BY <1>1, <1>2
<1>8. n = 1 <=> i' = i + 2
  BY <1>1, <1>2
<1>9. /\ Has(f, "version") => /\ At(f, "version") \in Nat /\ At(f, "version") # i
                              /\ i' = i + 2 => At(f, "version") # i + 1
      /\ Has(f, "devices") => /\ At(f, "devices") \in Nat /\ At(f, "devices") # i
                              /\ i' = i + 2 => At(f, "devices") # i + 1
  BY <1>6, <1>8
<1>10. version' = VersionAt(f, i') /\ (Hidden(f) => i' <= At(f, "devices") \/ i' > At(f, "version"))
  BY <1>1, <1>2, <1>3, <1>7, <1>9, VersionPassed
<1> QED  BY <1>5, <1>10 DEF VersionRead, f

\* A step of the loop that leaves the version alone.
LEMMA VersionKept ==
  ASSUME TypeInv, VersionInv, UNCHANGED <<file, tok, version>>, i > 0, i' > 0,
         pc' = "done" => i' > Len(tok) /\ (ret' = 0 <=> version = 1),
         tok # <<>> /\ NamesApart(file.content) => VersionRead(file.content, i)'
  PROVE  VersionInv'
<1>1. Fits' <=> Fits
  BY DEF Fits
<1> QED  BY <1>1 DEF VersionInv

LEMMA VersionStays ==
  ASSUME TypeInv, VersionInv, UNCHANGED <<file, tok, version, i>>, i > 0,
         pc' = "done" => i' > Len(tok) /\ (ret' = 0 <=> version = 1)
  PROVE  VersionInv'
<1>1. tok # <<>> /\ NamesApart(file.content) => VersionRead(file.content, i)'
  BY DEF VersionInv, VersionRead
<1> QED  BY <1>1, VersionKept

\* A step over the name of a setting, and its value.
LEMMA VersionOverSetting ==
  ASSUME TypeInv, VersionInv, UNCHANGED <<file, tok, version>>, pc = "name",
         NEW m \in Recognised \ {"version", "devices"}, Is(m),
         \/ Skip(1)
         \/ pc' = "crashed" /\ UNCHANGED i
  PROVE  VersionInv'
<1>1. i > 0 /\ i \in Nat
  BY TypeNow
<1>2. CASE Skip(1)
  <2>1. i' > 0 /\ pc' = "item"
    BY <1>1, <1>2 DEF Skip
  <2>2. ASSUME tok # <<>>, NamesApart(file.content) PROVE VersionRead(file.content, i)'
    <3>1. 1 \in {0, 1} /\ {"version", "devices"} \subseteq Recognised \cap Members
      BY DEF Recognised, Members
    <3>2. \A n \in {"version", "devices"} : Passes(file.content, n, i)
      <4>1. \A n \in {"version", "devices"} : n \in Recognised \cap Members /\ n # m
        BY <3>1
      <4> QED  BY <2>2, <4>1, SettingPasses
    <3>3. \A n \in {"version", "devices"} : Has(file.content, n) =>
            /\ At(file.content, n) \in Nat /\ At(file.content, n) # i
            /\ 1 = 1 => At(file.content, n) # i + 1
      BY <3>2 DEF Passes
    <3> QED  BY <1>2, <2>2, <3>1, <3>3, VersionSkips
  <2> QED  BY <1>1, <2>1, <2>2, VersionKept
<1>3. CASE pc' = "crashed" /\ UNCHANGED i
  BY <1>1, <1>3, VersionStays
<1> QED  BY <1>2, <1>3

LEMMA VersionOverUnknown == ASSUME TypeInv, VersionInv, Unknown PROVE VersionInv'
<1>1. /\ pc = "name" /\ Skip(0) /\ UNCHANGED <<file, tok, version>>
      /\ \A m \in Recognised : ~Is(m)
  BY Zenon DEF Unknown
<1>2. i > 0 /\ i \in Nat
  BY <1>1, TypeNow
<1>3. i' > 0 /\ pc' = "item"
  BY <1>1, <1>2 DEF Skip
<1>4. ASSUME tok # <<>>, NamesApart(file.content) PROVE VersionRead(file.content, i)'
  <2>1. 0 \in {0, 1} /\ {"version", "devices"} \subseteq Recognised \cap Members
    BY DEF Recognised, Members
  <2>2. \A n \in {"version", "devices"} : Has(file.content, n) =>
          At(file.content, n) \in Nat /\ At(file.content, n) # i
    BY <1>1, <1>4, <2>1, UnknownPasses
  <2>3. \A n \in {"version", "devices"} : Has(file.content, n) =>
          /\ At(file.content, n) \in Nat /\ At(file.content, n) # i
          /\ 0 = 1 => At(file.content, n) # i + 1
    BY <2>2
  <2> QED  BY <1>1, <1>4, <2>1, <2>3, VersionSkips
<1> QED  BY <1>1, <1>2, <1>3, <1>4, VersionKept

LEMMA VersionOverDevices == ASSUME TypeInv, VersionInv, Devices PROVE VersionInv'
<1>1. pc = "name" /\ Skip(2) /\ UNCHANGED <<file, tok, version>> /\ Is("devices")
  BY Zenon DEF Devices, Is
<1>2. i > 0 /\ i \in Nat
  BY <1>1, TypeNow
<1>3. i' = i + 3 /\ i' > 0 /\ pc' = "item"
  BY <1>1, <1>2 DEF Skip
<1>4. ASSUME tok # <<>>, NamesApart(file.content) PROVE VersionRead(file.content, i)'
  <2> DEFINE f == file.content
  <2>1. "devices" \in Recognised /\ "devices" \in Named
    BY DEF Recognised, Named
  <2>2. Has(f, "devices") /\ i = At(f, "devices")
    BY <1>1, <1>4, <2>1, SettingFound
  <2>3. IsFile(f) /\ VersionRead(f, i) /\ NamesApart(f) /\ f' = f
    BY <1>1, <1>4, NameFound DEF VersionInv
  <2> HIDE DEF f
  <2>4. CASE Hidden(f)
    <3>1. At(f, "version") = i + 2 /\ Has(f, "version")
      BY <2>2, <2>3, <2>4, HiddenIs
    <3>2. i' > At(f, "version")
      BY <1>2, <1>3, <3>1
    <3>3. VersionAt(f, i) = 0 /\ VersionAt(f, i') = 0
      BY <2>4 DEF VersionAt
    <3> QED  BY <1>1, <2>3, <3>2, <3>3 DEF VersionRead, f
  <2>5. CASE ~Hidden(f)
    <3>1. Has(f, "version") => (i > At(f, "version") <=> i' > At(f, "version"))
      <4> SUFFICES ASSUME Has(f, "version")
                   PROVE  i > At(f, "version") <=> i' > At(f, "version")
        OBVIOUS
      <4>1. /\ At(f, "version") \in Nat
            /\ At(f, "version") < i \/ At(f, "version") >= i + 3
        BY <2>2, <2>3, <2>5, VersionBehind
      <4> QED  BY <1>2, <1>3, <4>1
    <3>2. VersionAt(f, i') = VersionAt(f, i)
      BY <3>1 DEF VersionAt
    <3> QED  BY <1>1, <2>3, <2>5, <3>2 DEF VersionRead, f
  <2> QED  BY <2>4, <2>5
<1> QED  BY <1>1, <1>2, <1>3, <1>4, VersionKept

LEMMA VersionOverVersion == ASSUME TypeInv, VersionInv, Version PROVE VersionInv'
<1>1. pc = "name" /\ Skip(1) /\ UNCHANGED <<file, tok>> /\ Is("version")
      /\ \E t \in Ahead(1) : version' = Word(NumberOr(version, t.text))
  BY Zenon DEF Version, Is
<1>2. i > 0 /\ i \in Nat /\ i \in 2 .. Len(tok) /\ tok \in Seq(TokenRecords)
  BY <1>1, TypeNow
<1>3. i' = i + 2 /\ i' > 0 /\ pc' = "item"
  BY <1>1, <1>2 DEF Skip
<1>4. tok # <<>>
  BY <1>2
<1>5. ASSUME NamesApart(file.content) PROVE VersionRead(file.content, i)'
  <2> DEFINE f == file.content
  <2>1. "version" \in Recognised /\ "version" \in Named /\ "version" \in Members
    BY DEF Recognised, Named, Members
  <2>2. Has(f, "version") /\ i = At(f, "version") /\ Ahead(1) = {tok[i + 1]}
    BY <1>1, <1>4, <1>5, <2>1, SettingFound
  <2>3. IsFile(f) /\ VersionRead(f, i) /\ NamesApart(f) /\ f' = f /\ tok = Tokens(f)
    BY <1>1, <1>4, <1>5, NameFound DEF VersionInv
  <2> HIDE DEF f
  <2>4. ~Hidden(f)
    <3> SUFFICES ASSUME Hidden(f) PROVE FALSE
      OBVIOUS
    <3>1. i = At(f, "devices") + 2 /\ At(f, "devices") \in Nat
      BY <2>2, <2>3, HiddenIs
    <3>2. i <= At(f, "devices") \/ i > i
      BY <2>2, <2>3 DEF VersionRead
    <3> QED  BY <1>2, <3>1, <3>2
  <2>5. version = 0
    BY <1>2, <2>2, <2>3 DEF VersionRead, VersionAt
  <2>6. tok[i + 1].text = f.version
    BY <2>1, <2>2, <2>3, NameStands
  <2>7. version' = Word(NumberOr(0, f.version))
    BY <1>1, <2>2, <2>5, <2>6
  <2>8. i' > At(f, "version")
    BY <1>2, <1>3, <2>2
  <2>9. VersionAt(f, i') = Word(NumberOr(0, f.version))
    BY <2>2, <2>4, <2>8 DEF VersionAt
  <2> QED  BY <2>3, <2>4, <2>7, <2>9 DEF VersionRead, f
<1>6. Fits' <=> Fits
  BY <1>1 DEF Fits
<1> QED  BY <1>1, <1>2, <1>3, <1>4, <1>5, <1>6 DEF VersionInv

LEMMA VersionTokenize == ASSUME TypeInv, VersionInv, Tokenize PROVE VersionInv'
<1>1. pc = "start" /\ i' = 2 /\ pc' = "item" /\ UNCHANGED <<file, version>>
  BY Zenon DEF Tokenize
<1>2. i = 0 /\ tok = <<>>
  BY <1>1 DEF TypeInv, Numbers
<1>3. version = 0
  BY <1>2 DEF VersionInv
<1>4. tok' # <<>> <=> Fits'
  BY <1>1, TokenizeIs DEF Fits
<1>5. ASSUME tok' # <<>>, NamesApart(file.content) PROVE VersionRead(file.content, i)'
  <2> DEFINE f == file.content
  <2>1. IsFile(f) /\ f' = f /\ "version" \in Members /\ "devices" \in Members
    BY <1>1, ConfigAssumption DEF TypeInv, Tokenized, Members
  <2> HIDE DEF f
  <2>2. Has(f, "version") => At(f, "version") >= 2 /\ At(f, "version") \in Nat
    BY <2>1, MemberStands
  <2>3. Has(f, "devices") => At(f, "devices") >= 2 /\ At(f, "devices") \in Nat
    BY <2>1, MemberStands
  <2>4. VersionAt(f, 2) = 0
    BY <2>2 DEF VersionAt
  <2>5. Hidden(f) => 2 <= At(f, "devices")
    BY <2>3 DEF Hidden
  <2> QED  BY <1>1, <1>3, <2>1, <2>4, <2>5 DEF VersionRead, f
<1> QED  BY <1>1, <1>3, <1>4, <1>5 DEF VersionInv

LEMMA VersionReadFails == ASSUME TypeInv, VersionInv, ReadFails PROVE VersionInv'
<1>1. /\ pc = "start" /\ pc' = "done" /\ ret' \in {1, 2}
      /\ UNCHANGED <<file, tok, i, version>>
  BY Zenon DEF ReadFails
<1>2. i = 0 /\ tok = <<>>
  BY <1>1 DEF TypeInv, Numbers
<1>3. version = 0
  BY <1>2 DEF VersionInv
<1>4. i' = 0 /\ tok' = <<>> /\ version' = 0 /\ ret' # 0 /\ pc' = "done" /\ ~(i' > 0)
  BY <1>1, <1>2, <1>3
<1>5. pc' \in {"start", "done"}
  BY <1>4
<1>6. NamesApart(file.content)' /\ tok' # <<>> => VersionRead(file.content, i)'
  BY <1>4
<1>7. i' > 0 => (tok' # <<>> <=> Fits')
  BY <1>4
<1>8. /\ i' = 0 => pc' \in {"start", "done"} /\ version' = 0
      /\ pc' = "done" => i' = 0 /\ ret' # 0
      /\ tok' = <<>> => version' = 0
  BY <1>4, <1>5
<1> QED  BY <1>6, <1>7, <1>8 DEF VersionInv

\* The value of a setting is written, and stepped over, or the process ends.
LEMMA FieldMoves ==
  ASSUME NEW e, Field(e)
  PROVE  Skip(1) \/ (pc' = "crashed" /\ UNCHANGED i)
BY DEF Field

LEMMA VersionStep == TypeInv /\ VersionInv /\ [Next]_vars => VersionInv'
<1> SUFFICES ASSUME TypeInv, VersionInv, [Next]_vars PROVE VersionInv'
  OBVIOUS
<1>0. pc = "item" => i > 0
  BY TypeNow
<1>1. CASE UNCHANGED vars
  <2>1. UNCHANGED <<file, pc, ret, tok, i, version>>
    BY <1>1 DEF vars
  <2>2. Fits' <=> Fits
    BY <2>1 DEF Fits
  <2>3. NamesApart(file.content) /\ tok # <<>> => VersionRead(file.content, i)'
    BY <2>1 DEF VersionInv, VersionRead
  <2> QED  BY <2>1, <2>2, <2>3 DEF VersionInv
<1>2. CASE Register
  <2>1. pc = "item" /\ pc' = "name" /\ UNCHANGED <<file, tok, version, i>>
    BY Zenon, <1>2 DEF Register
  <2> QED  BY <1>0, <2>1, VersionStays
<1>3. CASE RegisterForgets
  <2>1. pc = "item" /\ pc' = "name" /\ UNCHANGED <<file, tok, version, i>>
    BY Zenon, <1>3 DEF RegisterForgets
  <2> QED  BY <1>0, <2>1, VersionStays
<1>4. CASE RegisterCrashes
  <2>1. pc = "item" /\ pc' = "crashed" /\ UNCHANGED <<file, tok, version, i>>
    BY Zenon, <1>4 DEF RegisterCrashes
  <2> QED  BY <1>0, <2>1, VersionStays
<1>5. CASE Incomplete
  <2>1. pc = "item" /\ pc' = "name" /\ UNCHANGED <<file, tok, version, i>>
    BY Zenon, <1>5 DEF Incomplete
  <2> QED  BY <1>0, <2>1, VersionStays
<1>6. CASE Finish
  <2>1. pc = "item" /\ pc' = "done" /\ UNCHANGED <<file, tok, version, i>> /\ i > Len(tok)
        /\ ret' = IF version = 1 THEN 0 ELSE 1
    BY Zenon, <1>6 DEF Finish
  <2>2. ret' = 0 <=> version = 1
    BY <2>1
  <2> QED  BY <1>0, <2>1, <2>2, VersionStays
<1>7. ASSUME NEW m \in Recognised \ {"version", "devices"}, Is(m),
             UNCHANGED <<file, tok, version>>,
             Skip(1) \/ (pc' = "crashed" /\ UNCHANGED i)
      PROVE  VersionInv'
  <2>1. pc = "name"
    BY <1>7 DEF Is
  <2> QED  BY <1>7, <2>1, VersionOverSetting
<1>8. \A m \in {"gateway", "interface", "id", "bcast", "key"} :
        m \in Recognised \ {"version", "devices"}
  BY DEF Recognised
<1>9. CASE Gateway
  <2>1. Is("gateway") /\ Skip(1) /\ UNCHANGED <<file, tok, version>>
    BY Zenon, <1>9 DEF Gateway
  <2>2. "gateway" \in Recognised \ {"version", "devices"}
    BY <1>8
  <2>3. Skip(1) \/ (pc' = "crashed" /\ UNCHANGED i)
    BY Zenon, <2>1
  <2> QED  BY <1>7, <2>1, <2>2, <2>3
<1>10. CASE Interface
  <2>1. Is("interface") /\ Skip(1) /\ UNCHANGED <<file, tok, version>>
    BY Zenon, <1>10 DEF Interface
  <2>2. "interface" \in Recognised \ {"version", "devices"}
    BY <1>8
  <2>3. Skip(1) \/ (pc' = "crashed" /\ UNCHANGED i)
    BY Zenon, <2>1
  <2> QED  BY <1>7, <2>1, <2>2, <2>3
<1>11. CASE Id
  <2>1. Is("id") /\ UNCHANGED <<file, tok, version>>
    BY Zenon, <1>11 DEF Id
  <2>2. PICK t \in Ahead(1) : Field([dev[rd] EXCEPT !.sn = NumberOr(@, t.text)])
    BY Zenon, <1>11 DEF Id
  <2>3. Skip(1) \/ (pc' = "crashed" /\ UNCHANGED i)
    BY <2>2, FieldMoves
  <2> QED  BY <1>7, <1>8, <2>1, <2>3
<1>12. CASE Bcast
  <2>1. Is("bcast") /\ UNCHANGED <<file, tok, version>>
    BY Zenon, <1>12 DEF Bcast
  <2>2. PICK t \in Ahead(1) : Field([dev[rd] EXCEPT !.addr = NumberOr(@, t.text)])
    BY Zenon, <1>12 DEF Bcast
  <2>3. Skip(1) \/ (pc' = "crashed" /\ UNCHANGED i)
    BY <2>2, FieldMoves
  <2> QED  BY <1>7, <1>8, <2>1, <2>3
<1>13. CASE Key
  <2>1. Is("key") /\ UNCHANGED <<file, tok, version>>
    BY Zenon, <1>13 DEF Key
  <2>2. PICK t \in Ahead(1) : Field([dev[rd] EXCEPT !.key = Decoded(t.text)])
    BY Zenon, <1>13 DEF Key
  <2>3. Skip(1) \/ (pc' = "crashed" /\ UNCHANGED i)
    BY <2>2, FieldMoves
  <2> QED  BY <1>7, <1>8, <2>1, <2>3
<1>14. CASE KeyNotRead
  <2>1. Is("key") /\ Skip(1) /\ UNCHANGED <<file, tok, version>>
    BY Zenon, <1>14 DEF KeyNotRead
  <2>2. "key" \in Recognised \ {"version", "devices"}
    BY <1>8
  <2>3. Skip(1) \/ (pc' = "crashed" /\ UNCHANGED i)
    BY Zenon, <2>1
  <2> QED  BY <1>7, <2>1, <2>2, <2>3
<1>15. CASE Next
  BY Zenon, <1>2, <1>3, <1>4, <1>5, <1>6, <1>9, <1>10, <1>11, <1>12, <1>13, <1>14, <1>15,
     VersionTokenize, VersionReadFails, VersionOverVersion, VersionOverDevices, VersionOverUnknown
  DEF Next
<1> QED  BY <1>1, <1>15

LEMMA VersionAlways == Spec => []VersionInv
<1>1. Init => VersionInv
  <2> SUFFICES ASSUME Init PROVE VersionInv
    OBVIOUS
  <2>1. pc = "start" /\ i = 0 /\ version = 0 /\ tok = <<>>
    BY Zenon DEF Init
  <2> QED  BY <2>1 DEF VersionInv
<1> QED  BY <1>1, VersionStep, TypeAlways, PTL DEF Spec

\* configParse accepts a file exactly when it is read, fits and has the supported version: a
\* version that no other text shadows is found wherever it stands, but for the one place
\* behind an empty list of devices.
THEOREM AcceptedRight == Spec => []AcceptedIff
<1>1. TypeInv /\ VersionInv => AcceptedIff
  <2> SUFFICES ASSUME TypeInv, VersionInv, pc = "done", NamesApart(file.content)
               PROVE  LET f == file.content
                          v == Position(f, "version")
                          d == Position(f, "devices")
                          hidden == d > 0 /\ v = d + 1 /\ f.devices = <<>>
                      IN  ret = 0 <=> /\ i > 0
                                      /\ file.missing = 0
                                      /\ Len(Tokens(f)) <= MaxTokens
                                      /\ v > 0 /\ Word(NumberOr(0, f.version)) = 1
                                      /\ ~hidden
    BY DEF AcceptedIff
  <2> DEFINE f == file.content
             W == Word(NumberOr(0, f.version))
  <2>1. i \in Nat /\ Len(tok) \in Nat
    BY TypeNow
  <2>2. IsFile(f) /\ "version" \in Members
    BY ConfigAssumption DEF TypeInv, Tokenized, Members
  <2>3. Hidden(f) <=> /\ Position(f, "devices") > 0 /\ f.devices = <<>>
                      /\ Position(f, "version") = Position(f, "devices") + 1
    BY DEF Hidden, Has
  <2>4. \/ i = 0 /\ ret # 0
        \/ i > Len(tok) /\ i > 0 /\ (ret = 0 <=> version = 1)
    BY <2>1 DEF VersionInv
  <2>5. CASE i = 0 /\ ret # 0
    BY <2>5
  <2>6. CASE i > Len(tok) /\ i > 0 /\ (ret = 0 <=> version = 1)
    <3>1. tok # <<>> <=> Fits
      BY <2>6 DEF VersionInv
    <3>2. CASE tok = <<>>
      <4>1. version = 0
        BY <3>2 DEF VersionInv
      <4> QED  BY <2>6, <3>1, <3>2, <4>1 DEF Fits
    <3>3. CASE tok # <<>>
      <4>1. version = VersionAt(f, i) /\ tok = Tokens(f)
        BY <3>3 DEF VersionInv, VersionRead, TypeInv, Tokenized, TokensRight
      <4>2. Has(f, "version") => i > At(f, "version")
        <5> HIDE DEF f
        <5> SUFFICES ASSUME Has(f, "version") PROVE i > At(f, "version")
          OBVIOUS
        <5>1. /\ At(f, "version") \in Nat /\ Ends(f, "version") \in Nat
              /\ Ends(f, "version") >= At(f, "version") + 2
              /\ Ends(f, "version") <= Len(Tokens(f)) + 1
          BY <2>2, MemberStands
        <5> QED  BY <2>1, <2>6, <4>1, <5>1
      <4> HIDE DEF W
      <4>3. version = IF Has(f, "version") /\ ~Hidden(f) THEN W ELSE 0
        BY <4>1, <4>2 DEF VersionAt, W
      <4>4. ret = 0 <=> Has(f, "version") /\ ~Hidden(f) /\ W = 1
        BY <2>6, <4>3
      <4> QED  BY <2>3, <2>6, <3>1, <3>3, <4>4 DEF Fits, Has, W
    <3> QED  BY <3>2, <3>3
  <2> QED  BY <2>4, <2>5, <2>6
<1> QED  BY <1>1, TypeAlways, VersionAlways, PTL

-----------------------------------------------------------------------------
(* Where the walk is among the devices *)

\* The number of devices, the last token, the list, and that "site" comes behind it.
Count(f) == Len(f.devices)
Final(f) == Len(Tokens(f))
Start(f) == At(f, "devices")
ClosedBySite(f) == Position(f, "site") > Position(f, "devices")

\* The devices, what is before them, and what is behind.
LEMMA Ordered ==
  ASSUME NEW f, IsFile(f), Conventional(f)
  PROVE  /\ Has(f, "devices") /\ Count(f) \in Nat /\ Final(f) \in Nat
         /\ Start(f) \in Nat /\ Start(f) >= 2
         /\ \A n \in 1 .. (Count(f) + 1) : Obj(f, n) \in Nat
         /\ Obj(f, 1) = Start(f) + 2 /\ Obj(f, Count(f) + 1) <= Final(f) + 1
         /\ Obj(f, Count(f) + 1) = Ends(f, "devices")
         /\ \A n \in 1 .. Count(f) : /\ Tokens(f)[Obj(f, n)].type = "object"
                                     /\ Len(f.devices[n]) \in Nat /\ Len(f.devices[n]) >= 1
                                     /\ Obj(f, n + 1) = Obj(f, n) + 1 + 2 * Len(f.devices[n])
         /\ f.devices = <<>> <=> Count(f) = 0
<1>1. "devices" \in Members /\ "gateway" \in Members
  BY DEF Members
<1>2. Position(f, "gateway") \in Nat /\ Position(f, "devices") \in Nat
  <2>1. f.order \in Seq(Members)
    BY DEF IsFile
  <2> QED  BY <1>1, <2>1, PositionIs
<1>3. Has(f, "devices")
  <2>1. Position(f, "gateway") < Position(f, "devices")
    BY DEF Conventional
  <2> QED  BY <1>2, <2>1 DEF Has
<1>4. /\ At(f, "devices") \in Nat /\ At(f, "devices") >= 2
      /\ Ends(f, "devices") <= Len(Tokens(f)) + 1 /\ Len(Tokens(f)) \in Nat
  BY <1>1, <1>3, MemberStands
<1>5. /\ Len(f.devices) \in Nat
      /\ \A n \in 1 .. (Len(f.devices) + 1) : Obj(f, n) \in Nat
      /\ Obj(f, 1) = At(f, "devices") + 2
      /\ Obj(f, Len(f.devices) + 1) = Ends(f, "devices")
      /\ \A n \in 1 .. Len(f.devices) :
           /\ f.devices[n] \in Seq(Fields) /\ Len(f.devices[n]) \in Nat
           /\ ObjectAt(Tokens(f), Obj(f, n), f.devices[n])
           /\ Obj(f, n + 1) = Obj(f, n) + 1 + 2 * Len(f.devices[n])
  BY <1>3, DevicesStand
<1>6. f.devices \in Seq(Seq(Fields))
  BY DEF IsFile
<1>7. \A n \in 1 .. Len(f.devices) : f.devices[n] # <<>>
  BY <1>6 DEF Conventional
<1>8. \A n \in 1 .. Len(f.devices) : Len(f.devices[n]) >= 1
  <2> TAKE n \in 1 .. Len(f.devices)
  <2> DEFINE o == f.devices[n]
  <2>1. o \in Seq(Fields) /\ o # <<>>
    BY <1>5, <1>7
  <2> HIDE DEF o
  <2>2. Len(o) >= 1
    BY <2>1
  <2> QED  BY <2>2 DEF o
<1>9. \A n \in 1 .. Len(f.devices) : Tokens(f)[Obj(f, n)].type = "object"
  BY <1>5 DEF ObjectAt, HeadAt
<1>10. f.devices = <<>> <=> Len(f.devices) = 0
  BY <1>6
<1> QED  BY <1>3, <1>4, <1>5, <1>8, <1>9, <1>10 DEF Count, Final, Start

\* Every device has its own tokens, three at least.
LEMMA Increasing ==
  ASSUME NEW f, IsFile(f), Conventional(f), NEW m \in 1 .. (Count(f) + 1), NEW n \in 1 .. (Count(f) + 1)
  PROVE  /\ m < n => Obj(f, m) + 3 <= Obj(f, n)
         /\ m <= n => Obj(f, m) <= Obj(f, n)
         /\ Start(f) + 2 <= Obj(f, m)
<1> DEFINE N == Count(f)
           h == [k \in 1 .. (N + 1) |-> Obj(f, k)]
<1>1. N \in Nat /\ \A k \in 1 .. (N + 1) : Obj(f, k) \in Nat
  BY Ordered
<1>2. \A k \in 1 .. N : Obj(f, k + 1) >= Obj(f, k) + 3
  <2> TAKE k \in 1 .. N
  <2> DEFINE K == Len(f.devices[k])
  <2>1. K \in Nat /\ K >= 1 /\ Obj(f, k + 1) = Obj(f, k) + 1 + 2 * K
    BY Ordered
  <2>2. Obj(f, k) \in Nat
    BY <1>1
  <2> HIDE DEF K
  <2> QED  BY <2>1, <2>2
<1> HIDE DEF N
<1>3. \A k \in 1 .. (N + 1) : h[k] \in Nat
  BY <1>1
<1>4. \A k \in 1 .. N : h[k] <= h[k + 1]
  <2> TAKE k \in 1 .. N
  <2>1. k \in 1 .. (N + 1) /\ k + 1 \in 1 .. (N + 1)
    BY <1>1
  <2> QED  BY <1>1, <1>2, <2>1
<1>5. m \in 1 .. (N + 1) /\ n \in 1 .. (N + 1)
  BY DEF N
<1>6. ASSUME NEW p \in 1 .. (N + 1), NEW q \in 1 .. (N + 1), p <= q PROVE Obj(f, p) <= Obj(f, q)
  <2>1. h[p] = Obj(f, p) /\ h[q] = Obj(f, q)
    OBVIOUS
  <2> HIDE DEF h
  <2>2. h[p] <= h[q]
    BY <1>1, <1>3, <1>4, <1>6, NeverFalls
  <2> QED  BY <2>1, <2>2
<1> HIDE DEF h
<1>7. ASSUME m < n PROVE Obj(f, m) + 3 <= Obj(f, n)
  <2>1. m \in 1 .. N /\ m + 1 \in 1 .. (N + 1) /\ m + 1 <= n
    BY <1>1, <1>5, <1>7
  <2>2. Obj(f, m + 1) <= Obj(f, n)
    BY <1>5, <1>6, <2>1
  <2>3. Obj(f, m + 1) >= Obj(f, m) + 3
    BY <1>2, <2>1
  <2> QED  BY <1>1, <1>5, <2>1, <2>2, <2>3
<1>8. Start(f) + 2 <= Obj(f, m)
  <2>1. 1 \in 1 .. (N + 1) /\ 1 <= m
    BY <1>1, <1>5
  <2>2. Obj(f, 1) <= Obj(f, m)
    BY <1>5, <1>6, <2>1
  <2>3. Obj(f, 1) = Start(f) + 2
    BY Ordered
  <2> QED  BY <2>2, <2>3
<1> QED  BY <1>5, <1>6, <1>7, <1>8

\* The site behind the devices.
LEMMA SiteBehind ==
  ASSUME NEW f, IsFile(f), Conventional(f), ClosedBySite(f)
  PROVE  /\ Has(f, "site") /\ At(f, "site") \in Nat
         /\ Obj(f, Count(f) + 1) <= At(f, "site") /\ At(f, "site") + 1 <= Final(f)
         /\ Tokens(f)[At(f, "site") + 1].type = "object"
<1>1. "devices" \in Members /\ "site" \in Members
  BY DEF Members
<1>2. Position(f, "site") \in Nat /\ Position(f, "devices") \in Nat
  <2>1. f.order \in Seq(Members)
    BY DEF IsFile
  <2> QED  BY <1>1, <2>1, PositionIs
<1>3. Has(f, "site") /\ Has(f, "devices")
  BY <1>2, Ordered DEF Has, ClosedBySite
<1>4. Ends(f, "devices") <= At(f, "site")
  BY <1>1, <1>2, <1>3, MembersApart DEF ClosedBySite
<1>5. /\ At(f, "site") \in Nat /\ Ends(f, "site") \in Nat
      /\ Ends(f, "site") >= At(f, "site") + 2 /\ Ends(f, "site") <= Len(Tokens(f)) + 1
      /\ Len(Tokens(f)) \in Nat
  BY <1>1, <1>3, MemberStands
<1>6. Stands(f, At(f, "site") + 1, f.site)
  BY <1>3 DEF Stands
<1>7. ObjectAt(Tokens(f), At(f, "site") + 1, f.site)
  BY <1>6, ObjectStands
<1>8. Tokens(f)[At(f, "site") + 1].type = "object"
  BY <1>7 DEF ObjectAt, HeadAt
<1>9. Obj(f, Count(f) + 1) = Ends(f, "devices")
  BY Ordered
<1> QED  BY <1>3, <1>4, <1>5, <1>8, <1>9 DEF Final

\* The gateway before the devices.
LEMMA GatewayBefore ==
  ASSUME NEW f, IsFile(f), Conventional(f), Has(f, "gateway")
  PROVE  /\ At(f, "gateway") \in Nat /\ At(f, "gateway") >= 2
         /\ Ends(f, "gateway") \in Nat
         /\ At(f, "gateway") + 2 <= Ends(f, "gateway") /\ Ends(f, "gateway") <= Start(f)
<1>1. "devices" \in Members /\ "gateway" \in Members
  BY DEF Members
<1>2. Has(f, "devices")
  BY Ordered
<1>3. Position(f, "gateway") < Position(f, "devices")
  BY DEF Conventional
<1>4. Ends(f, "gateway") <= At(f, "devices")
  BY <1>1, <1>2, <1>3, MembersApart
<1>5. /\ At(f, "gateway") \in Nat /\ Ends(f, "gateway") \in Nat /\ At(f, "gateway") >= 2
      /\ Ends(f, "gateway") >= At(f, "gateway") + 2
  BY <1>1, MemberStands
<1> QED  BY <1>4, <1>5 DEF Start

\* Behind the beginning of the list, objects are devices or the site.
LEMMA ObjectsBehind ==
  ASSUME NEW f, IsFile(f), Conventional(f), NEW x \in 2 .. Final(f), x > Start(f),
         Tokens(f)[x].type = "object"
  PROVE  \/ \E m \in 1 .. Count(f) : x = Obj(f, m)
         \/ ClosedBySite(f) /\ x = At(f, "site") + 1
<1>1. NamesApart(f)
  BY DEF Conventional
<1>2. PICK o : Stands(f, x, o)
  BY <1>1, HeadIs DEF Final
<1>3. CASE Has(f, "gateway") /\ x = At(f, "gateway") + 1
  <2>1. x <= Start(f)
    BY <1>3, GatewayBefore, Ordered
  <2> QED  BY <2>1, Ordered
<1>4. CASE Has(f, "site") /\ x = At(f, "site") + 1
  <2>1. "devices" \in Members /\ "site" \in Members /\ "site" # "devices"
    BY DEF Members
  <2>2. /\ Position(f, "site") < Position(f, "devices") => Ends(f, "site") <= At(f, "devices")
        /\ \/ Position(f, "site") < Position(f, "devices")
           \/ Position(f, "devices") < Position(f, "site")
        /\ Position(f, "site") \in Nat /\ Position(f, "devices") \in Nat
    BY <1>4, <2>1, MembersApart, Ordered
  <2>3. At(f, "site") \in Nat /\ Ends(f, "site") \in Nat /\ Ends(f, "site") >= At(f, "site") + 2
    BY <1>4, <2>1, MemberStands
  <2>4. Start(f) \in Nat /\ Start(f) = At(f, "devices")
    BY Ordered DEF Start
  <2> QED  BY <1>4, <2>2, <2>3, <2>4 DEF ClosedBySite
<1>5. CASE Has(f, "devices") /\ \E n \in 1 .. Len(f.devices) : x = Obj(f, n) /\ o = f.devices[n]
  BY <1>5 DEF Count
<1> QED  BY <1>2, <1>3, <1>4, <1>5 DEF Stands

\* The settings of the gateway are in its object, before the devices, and all others are those
\* of devices.
InGateway(f, x) ==
  Has(f, "gateway") /\ At(f, "gateway") + 2 <= x /\ x + 1 < Ends(f, "gateway")
InDevice(f, x, m, j) ==
  m \in 1 .. Count(f) /\ j \in 1 .. Len(f.devices[m]) /\ x = Obj(f, m) + 2 * j - 1

LEMMA SettingsStand ==
  ASSUME NEW f, IsFile(f), Conventional(f), NEW x, NEW b, NEW o, NEW j, IsField(f, x, b, o, j),
         o[j].name \in Recognised
  PROVE  \/ InGateway(f, x)
         \/ \E m : InDevice(f, x, m, j) /\ o = f.devices[m]
<1>1. j \in 1 .. Len(o) /\ x = b + 2 * j - 1 /\ Stands(f, b, o)
  BY DEF IsField
<1>2. CASE Has(f, "gateway") /\ b = At(f, "gateway") + 1 /\ o = f.gateway
  <2> DEFINE K == Len(f.gateway)
             G == At(f, "gateway")
  <2>1. "gateway" \in Members
    BY DEF Members
  <2>2. MemberAt(f, Tokens(f), G, Ends(f, "gateway"), "gateway", Plan(f).obj) /\ G \in Nat
    BY <1>2, <2>1, MemberStands
  <2>3. Ends(f, "gateway") = G + 2 + 2 * K
    BY <2>2 DEF MemberAt
  <2>4. K \in Nat /\ j \in 1 .. K /\ x = G + 1 + 2 * j - 1
    BY <1>1, <1>2 DEF IsFile
  <2> HIDE DEF K
  <2>5. G + 2 <= x /\ x + 1 < G + 2 + 2 * K
    BY <2>2, <2>4
  <2> QED  BY <1>2, <2>3, <2>5 DEF InGateway
<1>3. CASE Has(f, "site") /\ b = At(f, "site") + 1 /\ o = f.site
  <2>1. f.site \in Seq(Fields)
    BY DEF IsFile
  <2>2. j \in DOMAIN f.site
    BY <1>1, <1>3, <2>1
  <2>3. f.site[j].name \notin Recognised
    BY <2>2 DEF Conventional
  <2> QED  BY <1>3, <2>3
<1>4. CASE Has(f, "devices") /\ \E n \in 1 .. Len(f.devices) : b = Obj(f, n) /\ o = f.devices[n]
  <2>1. PICK n \in 1 .. Len(f.devices) : b = Obj(f, n) /\ o = f.devices[n]
    BY <1>4
  <2>2. InDevice(f, x, n, j)
    BY <1>1, <2>1 DEF InDevice, Count
  <2> QED  BY <2>1, <2>2
<1> QED  BY <1>1, <1>2, <1>3, <1>4 DEF Stands

LEMMA InDeviceIs ==
  ASSUME NEW f, IsFile(f), Conventional(f), NEW x, NEW m, NEW j, InDevice(f, x, m, j)
  PROVE  /\ m \in 1 .. Count(f) /\ Obj(f, m) \in Nat /\ Obj(f, m + 1) \in Nat /\ x \in Nat
         /\ Obj(f, m) < x /\ x + 2 <= Obj(f, m + 1) /\ x > Start(f)
         /\ Obj(f, m + 1) <= Final(f) + 1
<1> DEFINE K == Len(f.devices[m])
           a == Obj(f, m)
           b == Obj(f, m + 1)
           N == Count(f)
<1>1. m \in 1 .. N /\ j \in 1 .. K /\ x = a + 2 * j - 1
  BY DEF InDevice
<1>2. K \in Nat /\ b = a + 1 + 2 * K /\ N \in Nat
  BY <1>1, Ordered
<1>3. m \in 1 .. (N + 1) /\ m + 1 \in 1 .. (N + 1) /\ N + 1 \in 1 .. (N + 1) /\ m + 1 <= N + 1
  BY <1>1, <1>2
<1>4. a \in Nat /\ b \in Nat
  BY <1>3, Ordered
<1>5. b <= Obj(f, N + 1) /\ Obj(f, N + 1) <= Final(f) + 1 /\ Start(f) + 2 <= a
  BY <1>3, Increasing, Ordered
<1>6. Obj(f, N + 1) \in Nat /\ Final(f) \in Nat /\ Start(f) \in Nat
  BY <1>3, Ordered
<1> HIDE DEF K, a, b, N
<1>7. a < x /\ x + 2 <= b /\ x \in Nat
  BY <1>1, <1>2, <1>4
<1> QED  BY <1>1, <1>4, <1>5, <1>6, <1>7 DEF a, b, N

\* The loop is at x, before p, while n devices are registered.
Place(f, n, x, p) ==
  /\ n \in 0 .. Count(f) /\ x > Obj(f, 1)
  /\ n < Count(f) => x >= Obj(f, n + 1) /\ (p = "item" => x > Obj(f, n + 1))
  /\ n = Count(f) => x + 1 >= Obj(f, n + 1)
  /\ n + 1 < Count(f) => x <= Obj(f, n + 2) /\ (p = "name" => x < Obj(f, n + 2))
  /\ n < Count(f) /\ ClosedBySite(f) =>
       x <= At(f, "site") + 1 /\ (p = "name" => x < At(f, "site") + 1)
  /\ n < Count(f) /\ ~EndsWithSetting(f) => x <= Final(f) /\ (p = "name" => x < Final(f))
  /\ Count(f) > 0 /\ EndsWithSetting(f) /\ p = "item" => x # Final(f)
  /\ n = Count(f) /\ n > 0 => ClosedBySite(f) \/ ~EndsWithSetting(f)

LEMMA EndsIs ==
  ASSUME NEW f, IsFile(f), Conventional(f)
  PROVE  EndsWithSetting(f) <=> Tokens(f)[Final(f) - 1].text \in Recognised
<1>1. Final(f) > 1
  <2>1. Obj(f, Count(f) + 1) <= Final(f) + 1 /\ Start(f) >= 2 /\ Final(f) \in Nat /\ Start(f) \in Nat
    BY Ordered
  <2>2. Count(f) \in Nat
    BY Ordered
  <2>3. Count(f) + 1 \in 1 .. (Count(f) + 1)
    BY <2>2
  <2>4. Start(f) + 2 <= Obj(f, Count(f) + 1) /\ Obj(f, Count(f) + 1) \in Nat
    BY <2>3, Increasing, Ordered
  <2> QED  BY <2>1, <2>4
<1> QED  BY <1>1 DEF EndsWithSetting, Final

\* The walk behind the beginning of the list.
LEMMA PlaceBegins ==
  ASSUME NEW f, IsFile(f), Conventional(f)
  PROVE  Place(f, 0, Start(f) + 3, "item")
<1> DEFINE N == Count(f)
           x == Start(f) + 3
<1>1. N \in Nat /\ Obj(f, 1) = Start(f) + 2 /\ Start(f) \in Nat /\ Final(f) \in Nat
  BY Ordered
<1>2. x = Obj(f, 1) + 1 /\ x \in Nat /\ Obj(f, 1) \in Nat
  BY <1>1
<1> HIDE DEF x, N
<1>3. ASSUME N > 0
      PROVE  /\ x + 2 <= Obj(f, N + 1) /\ Obj(f, N + 1) <= Final(f) + 1 /\ Obj(f, N + 1) \in Nat
             /\ N > 1 => x + 2 <= Obj(f, 2) /\ Obj(f, 2) \in Nat
             /\ ClosedBySite(f) => x <= At(f, "site") + 1
  <2>1. 1 \in 1 .. (N + 1) /\ N + 1 \in 1 .. (N + 1) /\ 1 < N + 1 /\ 2 \in 1 .. (N + 1) /\ 1 < 2
    BY <1>1, <1>3
  <2>2. Obj(f, 1) + 3 <= Obj(f, N + 1) /\ Obj(f, 1) + 3 <= Obj(f, 2)
    BY <2>1, Increasing DEF N
  <2>3. Obj(f, N + 1) <= Final(f) + 1 /\ Obj(f, N + 1) \in Nat /\ Obj(f, 2) \in Nat
    BY <2>1, Ordered DEF N
  <2>4. ClosedBySite(f) => Obj(f, N + 1) <= At(f, "site") /\ At(f, "site") \in Nat
    BY SiteBehind DEF N
  <2> QED  BY <1>2, <2>2, <2>3, <2>4
<1>4. ASSUME N > 0 PROVE x < Final(f)
  BY <1>1, <1>2, <1>3, <1>4
<1>5. 0 \in 0 .. N /\ x > Obj(f, 1) /\ 0 + 1 = 1 /\ 0 + 2 = 2
  BY <1>1, <1>2
<1>6. /\ 0 < N => x >= Obj(f, 0 + 1) /\ x > Obj(f, 0 + 1)
      /\ 0 = N => x + 1 >= Obj(f, 0 + 1)
      /\ 0 + 1 < N => x <= Obj(f, 0 + 2)
  BY <1>1, <1>2, <1>3, <1>5
<1>7. /\ 0 < N /\ ClosedBySite(f) => x <= At(f, "site") + 1
      /\ 0 < N => x <= Final(f) /\ x # Final(f)
  BY <1>1, <1>2, <1>3, <1>4
<1> DEFINE c == "item"
<1>8. c = "item" /\ c # "name"
  OBVIOUS
<1> HIDE DEF c
<1>9. Place(f, 0, x, c)
  BY <1>5, <1>6, <1>7, <1>8 DEF Place, N
<1> QED  BY <1>9 DEF c, x

\* An object that ends no device.
LEMMA PlaceIncomplete ==
  ASSUME NEW f, IsFile(f), Conventional(f), NEW n, NEW x \in 2 .. Final(f), Place(f, n, x, "item"),
         ~(n < Count(f) /\ (Tokens(f)[x].type = "object" \/ x = Final(f)))
  PROVE  Place(f, n, x, "name")
<1> DEFINE N == Count(f)
<1>1. n \in 0 .. N /\ N \in Nat /\ Final(f) \in Nat
  BY Ordered DEF Place
<1> HIDE DEF N
<1>2. ASSUME n + 1 < N PROVE x < Obj(f, n + 2)
  <2>1. n + 2 \in 1 .. N /\ n + 2 \in 1 .. (N + 1) /\ n < N
    BY <1>1, <1>2
  <2>2. Tokens(f)[Obj(f, n + 2)].type = "object" /\ Obj(f, n + 2) \in Nat
    BY <2>1, Ordered DEF N
  <2>3. x <= Obj(f, n + 2)
    BY <1>2 DEF Place, N
  <2>4. x # Obj(f, n + 2)
    BY <2>1, <2>2 DEF N
  <2> QED  BY <2>2, <2>3, <2>4
<1>3. ASSUME n < N, ClosedBySite(f) PROVE x < At(f, "site") + 1
  <2>1. At(f, "site") \in Nat /\ Tokens(f)[At(f, "site") + 1].type = "object"
    BY <1>3, SiteBehind
  <2>2. x <= At(f, "site") + 1
    BY <1>3 DEF Place, N
  <2>3. x # At(f, "site") + 1
    BY <1>3, <2>1 DEF N
  <2> QED  BY <2>1, <2>2, <2>3
<1>4. ASSUME n < N, ~EndsWithSetting(f) PROVE x < Final(f)
  BY <1>1, <1>4 DEF N
<1> DEFINE c == "name"
<1>5. c = "name" /\ c # "item"
  OBVIOUS
<1> HIDE DEF c
<1>6. /\ n \in 0 .. N /\ x > Obj(f, 1)
      /\ n < N => x >= Obj(f, n + 1)
      /\ n = N => x + 1 >= Obj(f, n + 1)
      /\ n = N /\ n > 0 => ClosedBySite(f) \/ ~EndsWithSetting(f)
  BY DEF Place, N
<1>7. Place(f, n, x, c)
  BY <1>1, <1>2, <1>3, <1>4, <1>5, <1>6 DEF Place, N
<1> QED  BY <1>7 DEF c

\* Where a device is registered: at the next device, at the site, or at the last token.
LEMMA RegistersAt ==
  ASSUME NEW f, IsFile(f), Conventional(f), NEW n, NEW x \in 2 .. Final(f), Place(f, n, x, "item"),
         n < Count(f), Tokens(f)[x].type = "object" \/ x = Final(f)
  PROVE  \/ n + 1 < Count(f) /\ x = Obj(f, n + 2)
         \/ n + 1 = Count(f) /\ ClosedBySite(f) /\ x = At(f, "site") + 1
         \/ n + 1 = Count(f) /\ x = Final(f)
<1> DEFINE N == Count(f)
<1>1. n \in 0 .. N /\ N \in Nat /\ Final(f) \in Nat /\ n < N /\ x > Obj(f, n + 1)
  BY Ordered DEF Place
<1>2. \A m \in 1 .. (N + 1) : Obj(f, m) \in Nat
  BY Ordered
<1> HIDE DEF N
<1>3. n + 1 \in 1 .. N /\ n + 1 \in 1 .. (N + 1) /\ n + 2 \in 1 .. (N + 1) /\ N + 1 \in 1 .. (N + 1)
  BY <1>1
<1>4. ASSUME n + 1 < N PROVE x <= Obj(f, n + 2) /\ Obj(f, n + 2) + 3 <= Obj(f, N + 1)
  <2>1. x <= Obj(f, n + 2)
    BY <1>4 DEF Place, N
  <2>2. n + 2 < N + 1
    BY <1>1, <1>4
  <2> QED  BY <1>3, <2>1, <2>2, Increasing DEF N
<1>5. Obj(f, N + 1) <= Final(f) + 1 /\ Obj(f, N + 1) \in Nat
  BY <1>2, <1>3, Ordered DEF N
<1>6. CASE x = Final(f)
  <2>1. ~(n + 1 < N)
    BY <1>2, <1>3, <1>4, <1>5, <1>6
  <2> QED  BY <1>1, <1>6, <2>1 DEF N
<1>7. CASE Tokens(f)[x].type = "object"
  <2>1. x > Start(f)
    <3>1. Start(f) + 2 <= Obj(f, n + 1) /\ Start(f) \in Nat
      BY <1>3, Increasing, Ordered DEF N
    <3> QED  BY <1>1, <1>2, <1>3, <3>1
  <2>2. \/ \E m \in 1 .. N : x = Obj(f, m)
        \/ ClosedBySite(f) /\ x = At(f, "site") + 1
    BY <1>7, <2>1, ObjectsBehind DEF N
  <2>3. ASSUME NEW m \in 1 .. N, x = Obj(f, m) PROVE n + 1 < N /\ x = Obj(f, n + 2)
    <3>1. m \in 1 .. (N + 1) /\ m \in Nat
      BY <1>1
    <3>2. ~(m <= n + 1)
      <4> SUFFICES ASSUME m <= n + 1 PROVE FALSE
        OBVIOUS
      <4>1. Obj(f, m) <= Obj(f, n + 1)
        BY <1>3, <3>1, Increasing DEF N
      <4> QED  BY <1>1, <1>2, <1>3, <2>3, <3>1, <4>1
    <3>3. n + 1 < N
      BY <1>1, <2>3, <3>1, <3>2
    <3>4. ~(n + 2 < m)
      <4> SUFFICES ASSUME n + 2 < m PROVE FALSE
        OBVIOUS
      <4>1. Obj(f, n + 2) + 3 <= Obj(f, m)
        BY <1>3, <3>1, Increasing DEF N
      <4> QED  BY <1>2, <1>3, <1>4, <2>3, <3>1, <3>3, <4>1
    <3>5. m = n + 2
      BY <1>1, <3>1, <3>2, <3>4
    <3> QED  BY <2>3, <3>3, <3>5
  <2>4. ASSUME ClosedBySite(f), x = At(f, "site") + 1 PROVE n + 1 = N
    <3>1. At(f, "site") \in Nat /\ Obj(f, N + 1) <= At(f, "site")
      BY <2>4, SiteBehind DEF N
    <3>2. ~(n + 1 < N)
      BY <1>2, <1>3, <1>4, <1>5, <2>4, <3>1
    <3> QED  BY <1>1, <3>2
  <2> QED  BY <2>2, <2>3, <2>4 DEF N
<1> QED  BY <1>6, <1>7

LEMMA PlaceRegister ==
  ASSUME NEW f, IsFile(f), Conventional(f), NEW n, NEW x \in 2 .. Final(f), Place(f, n, x, "item"),
         n < Count(f), Tokens(f)[x].type = "object" \/ x = Final(f)
  PROVE  Place(f, n + 1, x, "name")
<1> DEFINE N == Count(f)
           S == At(f, "site")
           L == Final(f)
<1>1. n \in 0 .. N /\ N \in Nat /\ L \in Nat /\ n < N /\ x > Obj(f, 1)
  BY Ordered DEF Place
<1>2. \A m \in 1 .. (N + 1) : Obj(f, m) \in Nat
  BY Ordered
<1>3. \/ n + 1 < N /\ x = Obj(f, n + 2)
      \/ n + 1 = N /\ ClosedBySite(f) /\ x = S + 1
      \/ n + 1 = N /\ x = L
  BY RegistersAt
<1>4. ClosedBySite(f) => S \in Nat /\ Obj(f, N + 1) <= S
  BY SiteBehind
<1>5. Obj(f, N + 1) <= L + 1
  BY Ordered
<1>6. N > 0 /\ EndsWithSetting(f) => x # L
  BY DEF Place
<1> HIDE DEF N, S, L
<1>7. N + 1 \in 1 .. (N + 1) /\ (n + 1) + 1 = n + 2 /\ (n + 1) + 2 = n + 3 /\ n + 1 \in 0 .. N
  BY <1>1
<1> DEFINE c == "name"
<1>8. c = "name" /\ c # "item"
  OBVIOUS
<1> HIDE DEF c
<1>9. CASE n + 1 < N /\ x = Obj(f, n + 2)
  <2>1. n + 2 \in 1 .. (N + 1) /\ n + 2 < N + 1
    BY <1>1, <1>9
  <2>2. x + 3 <= Obj(f, N + 1)
    BY <1>7, <1>9, <2>1, Increasing DEF N
  <2>3. ASSUME n + 2 < N PROVE x < Obj(f, n + 3) /\ x <= Obj(f, n + 3)
    <3>1. n + 3 \in 1 .. (N + 1) /\ n + 2 < n + 3
      BY <1>1, <2>3
    <3>2. x + 3 <= Obj(f, n + 3)
      BY <1>9, <2>1, <3>1, Increasing DEF N
    <3> QED  BY <1>2, <1>9, <2>1, <3>1, <3>2
  <2>4. x < L /\ x <= L
    BY <1>1, <1>2, <1>5, <1>7, <1>9, <2>1, <2>2
  <2>5. ClosedBySite(f) => x < S + 1 /\ x <= S + 1
    BY <1>2, <1>4, <1>7, <1>9, <2>1, <2>2
  <2>6. /\ n + 1 \in 0 .. N /\ x > Obj(f, 1)
        /\ n + 1 < N => x >= Obj(f, n + 2)
        /\ ~(n + 1 = N)
        /\ n + 2 < N => x <= Obj(f, n + 3) /\ x < Obj(f, n + 3)
    BY <1>1, <1>2, <1>7, <1>9, <2>1, <2>3
  <2>7. (n + 1) + 1 < N <=> n + 2 < N
    BY <1>7
  <2>8. Place(f, n + 1, x, c)
    BY <1>7, <1>8, <2>4, <2>5, <2>6, <2>7 DEF Place, N, S, L
  <2> QED  BY <2>8 DEF c
<1>10. CASE n + 1 = N
  <2>1. x + 1 >= Obj(f, N + 1)
    BY <1>1, <1>2, <1>3, <1>4, <1>5, <1>7, <1>10
  <2>2. ClosedBySite(f) \/ ~EndsWithSetting(f)
    BY <1>1, <1>3, <1>6, <1>10
  <2>3. ~(n + 1 < N) /\ ~((n + 1) + 1 < N) /\ (n + 1) + 1 = N + 1
    BY <1>1, <1>10
  <2>4. Place(f, n + 1, x, c)
    BY <1>1, <1>7, <1>8, <2>1, <2>2, <2>3 DEF Place, N, S, L
  <2> QED  BY <2>4 DEF c
<1> QED  BY <1>3, <1>9, <1>10

\* The version behind the beginning of the list is behind all devices, and not at the site.
LEMMA VersionElsewhere ==
  ASSUME NEW f, IsFile(f), Conventional(f), Has(f, "version"), At(f, "version") > Start(f)
  PROVE  /\ At(f, "version") \in Nat
         /\ Obj(f, Count(f) + 1) <= At(f, "version")
         /\ ClosedBySite(f) => At(f, "version") + 2 <= At(f, "site")
                                \/ At(f, "site") + 2 <= At(f, "version")
<1>1. "devices" \in Members /\ "version" \in Members /\ "site" \in Members
      /\ "devices" # "version" /\ "site" # "version"
  BY DEF Members
<1> DEFINE V == At(f, "version")
           S == At(f, "site")
<1>2. Has(f, "devices") /\ Start(f) = At(f, "devices") /\ Start(f) \in Nat
      /\ Obj(f, Count(f) + 1) = Ends(f, "devices")
  BY Ordered DEF Start
<1>3. V \in Nat /\ Ends(f, "version") \in Nat /\ Ends(f, "version") >= V + 2
  BY <1>1, MemberStands
<1>4. Ends(f, "devices") <= V
  <2>1. /\ Position(f, "version") < Position(f, "devices") => Ends(f, "version") <= At(f, "devices")
        /\ Position(f, "devices") < Position(f, "version") => Ends(f, "devices") <= V
        /\ \/ Position(f, "devices") < Position(f, "version")
           \/ Position(f, "version") < Position(f, "devices")
    BY <1>1, <1>2, MembersApart
  <2> QED  BY <1>2, <1>3, <2>1
<1>5. ASSUME ClosedBySite(f) PROVE V + 2 <= S \/ S + 2 <= V
  <2>1. Has(f, "site") /\ S \in Nat
    BY <1>5, SiteBehind
  <2>2. Ends(f, "site") \in Nat /\ Ends(f, "site") >= S + 2
    BY <1>1, <2>1, MemberStands
  <2>3. /\ Position(f, "version") < Position(f, "site") => Ends(f, "version") <= S
        /\ Position(f, "site") < Position(f, "version") => Ends(f, "site") <= V
        /\ \/ Position(f, "site") < Position(f, "version")
           \/ Position(f, "version") < Position(f, "site")
    BY <1>1, <2>1, MembersApart
  <2> QED  BY <1>3, <2>1, <2>2, <2>3
<1> QED  BY <1>2, <1>3, <1>4, <1>5

\* Behind the beginning of the list, names are the version's or those of devices' settings.
LEMMA NamesBehind ==
  ASSUME NEW f, IsFile(f), Conventional(f), NEW x \in 2 .. Final(f), x > Start(f),
         Tokens(f)[x].text \in Recognised
  PROVE  /\ x + 1 \in 2 .. Final(f) /\ Tokens(f)[x + 1].text \notin Recognised
         /\ \/ Tokens(f)[x].text = "version" /\ Has(f, "version") /\ x = At(f, "version")
            \/ \E m, j : /\ InDevice(f, x, m, j) /\ Tokens(f)[x].text \in Settings
                         /\ f.devices[m][j].name = Tokens(f)[x].text
                         /\ Tokens(f)[x + 1].text = f.devices[m][j].text
<1> DEFINE T == Tokens(f)
<1>1. NamesApart(f)
  BY DEF Conventional
<1>2. /\ x + 1 \in 2 .. Final(f) /\ T[x + 1].text \notin Recognised
      /\ \/ \E m \in Named : T[x].text = m /\ Has(f, m) /\ x = At(f, m)
         \/ /\ T[x].text \in Settings
            /\ \E b, o, j : /\ IsField(f, x, b, o, j)
                            /\ o[j].name = T[x].text /\ T[x + 1].text = o[j].text
  BY <1>1, SettingIs DEF Final
<1> HIDE DEF T
<1>3. Start(f) \in Nat /\ Start(f) = At(f, "devices") /\ x \in Nat
  BY Ordered DEF Start
<1>4. ASSUME NEW m \in Named, T[x].text = m, Has(f, m), x = At(f, m)
      PROVE  T[x].text = "version" /\ Has(f, "version") /\ x = At(f, "version")
  <2>1. m # "devices"
    BY <1>3, <1>4
  <2>2. m # "gateway"
    <3> SUFFICES ASSUME m = "gateway" PROVE FALSE
      OBVIOUS
    <3>1. Has(f, "gateway") /\ x = At(f, "gateway")
      BY <1>4
    <3>2. x + 2 <= Ends(f, "gateway") /\ Ends(f, "gateway") <= Start(f) /\ Ends(f, "gateway") \in Nat
      BY <3>1, GatewayBefore
    <3> QED  BY <1>3, <3>2
  <2>3. m = "version"
    BY <2>1, <2>2 DEF Named
  <2> QED  BY <1>4, <2>3
<1>5. ASSUME T[x].text \in Settings, NEW b, NEW o, NEW j, IsField(f, x, b, o, j),
             o[j].name = T[x].text, T[x + 1].text = o[j].text
      PROVE  \E m, k : /\ InDevice(f, x, m, k) /\ T[x].text \in Settings
                       /\ f.devices[m][k].name = T[x].text
                       /\ T[x + 1].text = f.devices[m][k].text
  <2>1. o[j].name \in Recognised
    BY <1>5 DEF T
  <2>2. \/ InGateway(f, x)
        \/ \E m : InDevice(f, x, m, j) /\ o = f.devices[m]
    BY <1>5, <2>1, SettingsStand
  <2>3. ~InGateway(f, x)
    <3> SUFFICES ASSUME InGateway(f, x) PROVE FALSE
      OBVIOUS
    <3>1. x + 1 < Ends(f, "gateway") /\ Has(f, "gateway")
      BY DEF InGateway
    <3>2. Ends(f, "gateway") <= Start(f) /\ Ends(f, "gateway") \in Nat
      BY <3>1, GatewayBefore
    <3> QED  BY <1>3, <3>1, <3>2
  <2> QED  BY <1>5, <2>2, <2>3
<1>6. \/ T[x].text = "version" /\ Has(f, "version") /\ x = At(f, "version")
      \/ \E m, j : /\ InDevice(f, x, m, j) /\ T[x].text \in Settings
                   /\ f.devices[m][j].name = T[x].text
                   /\ T[x + 1].text = f.devices[m][j].text
  BY <1>2, <1>4, <1>5
<1> QED  BY <1>2, <1>6 DEF T

\* A name and its value, behind the beginning of the list.
LEMMA PlaceOver ==
  ASSUME NEW f, IsFile(f), Conventional(f), NEW n, NEW x \in 2 .. Final(f), Place(f, n, x, "name"),
         Tokens(f)[x].text \in Recognised
  PROVE  Place(f, n, x + 2, "item")
<1> DEFINE N == Count(f)
           S == At(f, "site")
           L == Final(f)
<1>1. n \in 0 .. N /\ N \in Nat /\ L \in Nat /\ x \in Nat /\ x > Obj(f, 1)
      /\ Start(f) \in Nat /\ Obj(f, 1) = Start(f) + 2
  BY Ordered DEF Place
<1>2. \A m \in 1 .. (N + 1) : Obj(f, m) \in Nat
  BY Ordered
<1>3. x > Start(f)
  BY <1>1
<1>4. /\ Tokens(f)[x + 1].text \notin Recognised
      /\ \/ Tokens(f)[x].text = "version" /\ Has(f, "version") /\ x = At(f, "version")
         \/ \E m, j : /\ InDevice(f, x, m, j) /\ Tokens(f)[x].text \in Settings
                      /\ f.devices[m][j].name = Tokens(f)[x].text
                      /\ Tokens(f)[x + 1].text = f.devices[m][j].text
  BY <1>3, NamesBehind
<1>5. \/ Has(f, "version") /\ x = At(f, "version")
      \/ \E m, j : InDevice(f, x, m, j)
  BY <1>4
<1>6. EndsWithSetting(f) <=> Tokens(f)[L - 1].text \in Recognised
  BY EndsIs
<1>7. ClosedBySite(f) => S \in Nat /\ Obj(f, N + 1) <= S
  BY SiteBehind
<1> HIDE DEF N, S, L
<1>8. ASSUME n + 1 < N PROVE x + 2 <= Obj(f, n + 2)
  <2>1. n + 2 \in 1 .. (N + 1) /\ N + 1 \in 1 .. (N + 1) /\ n + 2 < N + 1
    BY <1>1, <1>8
  <2>2. x < Obj(f, n + 2)
    BY <1>8 DEF Place, N
  <2>3. Obj(f, n + 2) + 3 <= Obj(f, N + 1)
    BY <2>1, Increasing DEF N
  <2>4. CASE Has(f, "version") /\ x = At(f, "version")
    <3>1. Obj(f, N + 1) <= x
      BY <1>3, <2>4, VersionElsewhere DEF N
    <3> QED  BY <1>1, <1>2, <2>1, <2>2, <2>3, <3>1
  <2>5. ASSUME NEW m, NEW j, InDevice(f, x, m, j) PROVE x + 2 <= Obj(f, n + 2)
    <3>1. m \in 1 .. N /\ Obj(f, m) < x /\ x + 2 <= Obj(f, m + 1)
          /\ Obj(f, m) \in Nat /\ Obj(f, m + 1) \in Nat
      BY <2>5, InDeviceIs DEF N
    <3>2. m \in 1 .. (N + 1) /\ m + 1 \in 1 .. (N + 1) /\ m \in Nat
      BY <1>1, <3>1
    <3>3. ~(n + 2 <= m)
      <4> SUFFICES ASSUME n + 2 <= m PROVE FALSE
        OBVIOUS
      <4>1. Obj(f, n + 2) <= Obj(f, m)
        BY <2>1, <3>2, Increasing DEF N
      <4> QED  BY <1>1, <1>2, <2>1, <2>2, <3>1, <4>1
    <3>4. m + 1 <= n + 2
      BY <1>1, <3>2, <3>3
    <3>5. Obj(f, m + 1) <= Obj(f, n + 2)
      BY <2>1, <3>2, <3>4, Increasing DEF N
    <3> QED  BY <1>1, <1>2, <2>1, <3>1, <3>5
  <2> QED  BY <1>5, <2>4, <2>5
<1>9. ASSUME n < N, ClosedBySite(f) PROVE x + 2 <= S + 1
  <2>1. x < S + 1 /\ S \in Nat /\ Obj(f, N + 1) <= S /\ N + 1 \in 1 .. (N + 1)
    BY <1>1, <1>7, <1>9 DEF Place, N, S
  <2>2. CASE Has(f, "version") /\ x = At(f, "version")
    <3>1. x + 2 <= S \/ S + 2 <= x
      BY <1>3, <1>9, <2>2, VersionElsewhere DEF S
    <3> QED  BY <1>1, <2>1, <3>1
  <2>3. ASSUME NEW m, NEW j, InDevice(f, x, m, j) PROVE x + 2 <= S + 1
    <3>1. m \in 1 .. N /\ x + 2 <= Obj(f, m + 1) /\ Obj(f, m + 1) \in Nat
      BY <2>3, InDeviceIs DEF N
    <3>2. m + 1 \in 1 .. (N + 1) /\ m + 1 <= N + 1
      BY <1>1, <3>1
    <3>3. Obj(f, m + 1) <= Obj(f, N + 1)
      BY <2>1, <3>2, Increasing DEF N
    <3> QED  BY <1>1, <1>2, <2>1, <3>1, <3>3
  <2> QED  BY <1>5, <2>2, <2>3
<1>10. ASSUME n < N, ~EndsWithSetting(f) PROVE x + 2 <= L
  <2>1. x < L
    BY <1>10 DEF Place, N, L
  <2>2. x # L - 1
    BY <1>6, <1>10
  <2> QED  BY <1>1, <2>1, <2>2
<1>11. ASSUME EndsWithSetting(f) PROVE x + 2 # L
  <2>1. L - 1 # x + 1
    BY <1>4, <1>6, <1>11
  <2> QED  BY <1>1, <2>1
<1>12. /\ x + 2 > Obj(f, 1)
       /\ n < N => x + 2 > Obj(f, n + 1) /\ x + 2 >= Obj(f, n + 1)
       /\ n = N => (x + 2) + 1 >= Obj(f, n + 1)
       /\ n = N /\ n > 0 => ClosedBySite(f) \/ ~EndsWithSetting(f)
  <2>1. n < N => x >= Obj(f, n + 1)
    BY DEF Place, N
  <2>2. n = N => x + 1 >= Obj(f, n + 1)
    BY DEF Place, N
  <2>3. n + 1 \in 1 .. (N + 1) /\ 1 \in 1 .. (N + 1)
    BY <1>1
  <2>4. n = N /\ n > 0 => ClosedBySite(f) \/ ~EndsWithSetting(f)
    BY DEF Place, N
  <2> QED  BY <1>1, <1>2, <2>1, <2>2, <2>3, <2>4
<1> DEFINE c == "item"
<1>13. c = "item" /\ c # "name"
  OBVIOUS
<1> HIDE DEF c
<1>14. Place(f, n, x + 2, c)
  BY <1>1, <1>8, <1>9, <1>10, <1>11, <1>12, <1>13 DEF Place, N, S, L
<1> QED  BY <1>14 DEF c

\* Anything else, behind the beginning of the list.
LEMMA PlaceUnknown ==
  ASSUME NEW f, IsFile(f), Conventional(f), NEW n, NEW x \in 2 .. Final(f), Place(f, n, x, "name"),
         Tokens(f)[x].text \notin Recognised
  PROVE  Place(f, n, x + 1, "item")
<1> DEFINE N == Count(f)
           S == At(f, "site")
           L == Final(f)
<1>1. n \in 0 .. N /\ N \in Nat /\ L \in Nat /\ x \in Nat /\ x > Obj(f, 1)
  BY Ordered DEF Place
<1>2. \A m \in 1 .. (N + 1) : Obj(f, m) \in Nat
  BY Ordered
<1>3. EndsWithSetting(f) <=> Tokens(f)[L - 1].text \in Recognised
  BY EndsIs
<1>4. ClosedBySite(f) => S \in Nat
  BY SiteBehind
<1> HIDE DEF N, S, L
<1>5. ASSUME n + 1 < N PROVE x + 1 <= Obj(f, n + 2)
  <2>1. n + 2 \in 1 .. (N + 1)
    BY <1>1, <1>5
  <2>2. x < Obj(f, n + 2)
    BY <1>5 DEF Place, N
  <2> QED  BY <1>1, <1>2, <2>1, <2>2
<1>6. ASSUME n < N, ClosedBySite(f) PROVE x + 1 <= S + 1
  <2>1. x < S + 1
    BY <1>6 DEF Place, N, S
  <2> QED  BY <1>1, <1>4, <1>6, <2>1
<1>7. ASSUME n < N, ~EndsWithSetting(f) PROVE x + 1 <= L
  <2>1. x < L
    BY <1>7 DEF Place, N, L
  <2> QED  BY <1>1, <2>1
<1>8. ASSUME EndsWithSetting(f) PROVE x + 1 # L
  <2>1. L - 1 # x
    BY <1>3, <1>8
  <2> QED  BY <1>1, <2>1
<1>9. /\ x + 1 > Obj(f, 1)
      /\ n < N => x + 1 > Obj(f, n + 1) /\ x + 1 >= Obj(f, n + 1)
      /\ n = N => (x + 1) + 1 >= Obj(f, n + 1)
      /\ n = N /\ n > 0 => ClosedBySite(f) \/ ~EndsWithSetting(f)
  <2>1. n < N => x >= Obj(f, n + 1)
    BY DEF Place, N
  <2>2. n = N => x + 1 >= Obj(f, n + 1)
    BY DEF Place, N
  <2>3. n + 1 \in 1 .. (N + 1) /\ 1 \in 1 .. (N + 1)
    BY <1>1
  <2>4. n = N /\ n > 0 => ClosedBySite(f) \/ ~EndsWithSetting(f)
    BY DEF Place, N
  <2> QED  BY <1>1, <1>2, <2>1, <2>2, <2>3, <2>4
<1> DEFINE c == "item"
<1>10. c = "item" /\ c # "name"
  OBVIOUS
<1> HIDE DEF c
<1>11. Place(f, n, x + 1, c)
  BY <1>1, <1>5, <1>6, <1>7, <1>8, <1>9, <1>10 DEF Place, N, S, L
<1> QED  BY <1>11 DEF c

\* Behind the last token all are registered, but for one if the file ends with a setting.
LEMMA PlaceEnds ==
  ASSUME NEW f, IsFile(f), Conventional(f), NEW n, NEW x \in Nat, NEW c, Place(f, n, x, c), x > Final(f)
  PROVE  n = Count(f) - (IF f.devices # <<>> /\ EndsWithSetting(f) /\ ~ClosedBySite(f)
                         THEN 1 ELSE 0)
<1> DEFINE N == Count(f)
           L == Final(f)
<1>1. n \in 0 .. N /\ N \in Nat /\ L \in Nat /\ (f.devices = <<>> <=> N = 0)
  BY Ordered DEF Place
<1>2. \A m \in 1 .. (N + 1) : Obj(f, m) \in Nat
  BY Ordered
<1>3. Obj(f, N + 1) <= L + 1
  BY Ordered
<1> HIDE DEF N, L
<1>4. CASE n < N
  <2>1. ~(n + 1 < N)
    <3> SUFFICES ASSUME n + 1 < N PROVE FALSE
      OBVIOUS
    <3>1. n + 2 \in 1 .. (N + 1) /\ N + 1 \in 1 .. (N + 1) /\ n + 2 < N + 1
      BY <1>1
    <3>2. Obj(f, n + 2) + 3 <= Obj(f, N + 1)
      BY <3>1, Increasing DEF N
    <3>3. x <= Obj(f, n + 2)
      BY DEF Place, N
    <3>4. x > L
      BY DEF L
    <3> QED  BY <1>1, <1>2, <1>3, <3>1, <3>2, <3>3, <3>4
  <2>2. ~ClosedBySite(f)
    <3> SUFFICES ASSUME ClosedBySite(f) PROVE FALSE
      OBVIOUS
    <3>1. x <= At(f, "site") + 1
      BY <1>4 DEF Place, N
    <3>2. At(f, "site") + 1 <= L /\ At(f, "site") \in Nat
      BY SiteBehind DEF L
    <3> QED  BY <1>1, <3>1, <3>2 DEF L
  <2>3. EndsWithSetting(f)
    <3> SUFFICES ASSUME ~EndsWithSetting(f) PROVE FALSE
      OBVIOUS
    <3>1. x <= L
      BY <1>4 DEF Place, N, L
    <3> QED  BY <1>1, <3>1 DEF L
  <2>4. f.devices # <<>> /\ n = N - 1
    BY <1>1, <1>4, <2>1
  <2> QED  BY <2>2, <2>3, <2>4 DEF N
<1>5. CASE n = N
  <2>1. n > 0 => ClosedBySite(f) \/ ~EndsWithSetting(f)
    BY <1>5 DEF Place, N
  <2>2. ~(f.devices # <<>> /\ EndsWithSetting(f) /\ ~ClosedBySite(f))
    BY <1>1, <1>5, <2>1
  <2> QED  BY <1>1, <1>5, <2>2 DEF N
<1> QED  BY <1>1, <1>4, <1>5

-----------------------------------------------------------------------------
(* What a device declares, field by field *)

\* The serial number and the key that the first fields of o declare.
Sns(o) == CHOOSE g : FoldSteps("id", 0, o, g) /\ g[Len(o)] = Said(o, "id", NumberOr, 0)
Keys(o) == CHOOSE g : FoldSteps("key", Blank, o, g) /\ g[Len(o)] = Said(o, "key", KeyOr, Blank)

LEMMA DeclaredSteps ==
  ASSUME NEW o \in Seq(Fields)
  PROVE  /\ Sns(o)[0] = 0 /\ Keys(o)[0] = Blank
         /\ Sns(o)[Len(o)] = Declared(o, Blank).sn /\ Keys(o)[Len(o)] = Declared(o, Blank).key
         /\ \A j \in 1 .. Len(o) :
              /\ Sns(o)[j] = IF o[j].name = "id" THEN NumberOr(Sns(o)[j - 1], o[j].text)
                             ELSE Sns(o)[j - 1]
              /\ Keys(o)[j] = IF o[j].name = "key" THEN KeyOr(Keys(o)[j - 1], o[j].text)
                              ELSE Keys(o)[j - 1]
<1>1. Len(o) \in Nat /\ DOMAIN o = 1 .. Len(o)
  OBVIOUS
<1> DEFINE A == Said(o, "id", NumberOr, 0)
           B == Said(o, "key", KeyOr, Blank)
           x == "id"
           y == "key"
<1>2. FoldIs("id", 0, o, A)
  BY <1>1, IdFold
<1>3. FoldIs("key", Blank, o, B)
  BY <1>1, KeyFold
<1>4. Declared(o, Blank) = [sn |-> A, key |-> B]
  BY Zenon DEF Declared
<1> HIDE DEF A, B
<1>5. Declared(o, Blank).sn = A /\ Declared(o, Blank).key = B
  BY <1>4
<1>6. FoldSteps("id", 0, o, Sns(o)) /\ Sns(o)[Len(o)] = A
  <2> DEFINE P(g) == FoldSteps("id", 0, o, g) /\ g[Len(o)] = A
  <2>1. \E g : P(g)
    BY <1>2, Zenon DEF FoldIs
  <2>2. Sns(o) = CHOOSE g : P(g)
    BY Zenon DEF Sns, A
  <2> HIDE DEF P
  <2>3. P(Sns(o))
    BY <2>1, <2>2, Zenon
  <2> QED  BY <2>3 DEF P
<1>7. FoldSteps("key", Blank, o, Keys(o)) /\ Keys(o)[Len(o)] = B
  <2> DEFINE P(g) == FoldSteps("key", Blank, o, g) /\ g[Len(o)] = B
  <2>1. \E g : P(g)
    BY <1>3, Zenon DEF FoldIs
  <2>2. Keys(o) = CHOOSE g : P(g)
    BY Zenon DEF Keys, B
  <2> HIDE DEF P
  <2>3. P(Keys(o))
    BY <2>1, <2>2, Zenon
  <2> QED  BY <2>3 DEF P
<1>8. \A j \in 1 .. Len(o) :
        Sns(o)[j] = IF o[j].name = "id" THEN NumberOr(Sns(o)[j - 1], o[j].text)
                    ELSE Sns(o)[j - 1]
  <2>1. \A j \in 1 .. Len(o) : Sns(o)[j] = Folded("id", Sns(o)[j - 1], o[j])
    BY <1>6, Zenon DEF FoldSteps
  <2>2. ASSUME NEW a, NEW e
        PROVE  Folded("id", a, e) = IF e.name = "id" THEN NumberOr(a, e.text) ELSE a
    BY DEF Folded
  <2> QED  BY <2>1, <2>2
<1>9. \A j \in 1 .. Len(o) :
        Keys(o)[j] = IF o[j].name = "key" THEN KeyOr(Keys(o)[j - 1], o[j].text)
                     ELSE Keys(o)[j - 1]
  <2>1. \A j \in 1 .. Len(o) : Keys(o)[j] = Folded("key", Keys(o)[j - 1], o[j])
    BY <1>7, Zenon DEF FoldSteps
  <2>2. ASSUME NEW a, NEW e
        PROVE  Folded("key", a, e) = IF e.name = "key" THEN KeyOr(a, e.text) ELSE a
    BY DEF Folded
  <2> QED  BY <2>1, <2>2
<1>10. Sns(o)[0] = 0 /\ Keys(o)[0] = Blank
  BY <1>6, <1>7, Zenon DEF FoldSteps
<1> QED  BY <1>5, <1>6, <1>7, <1>8, <1>9, <1>10

\* What was said up to the walk at x, of the device after n: its first J fields.  e is its
\* structure.
Reached(f, n, J, x) ==
  /\ J \in 0 .. Len(f.devices[n + 1])
  /\ Obj(f, n + 1) + 2 * J <= x
  /\ J < Len(f.devices[n + 1]) => x <= Obj(f, n + 1) + 2 * J + 1
\* e is what the first J fields of o say; a key may not have been decoded.
Says(o, J, e) ==
  /\ e.sn = Sns(o)[J] /\ e.key \in {Keys(o)[J], Blank}
  /\ Keys(o)[J] = Blank \/ \E k \in 1 .. J : o[k].name = "key"

\* With the walk at x, e is the device after n as far as it was read.
Built(f, n, x, e) == \E J : Reached(f, n, J, x) /\ Says(f.devices[n + 1], J, e)

LEMMA DeviceIs ==
  ASSUME NEW f, IsFile(f), Conventional(f), NEW n \in 1 .. Count(f)
  PROVE  LET o == f.devices[n] IN
         /\ o \in Seq(Fields) /\ Len(o) \in Nat /\ Len(o) >= 1
         /\ Obj(f, n) \in Nat /\ Obj(f, n + 1) = Obj(f, n) + 1 + 2 * Len(o)
         /\ Obj(f, n + 1) <= Obj(f, Count(f) + 1) /\ Obj(f, Count(f) + 1) <= Final(f) + 1
         /\ Start(f) + 2 <= Obj(f, n)
         /\ \A j \in 1 .. Len(o) :
              /\ Tokens(f)[Obj(f, n) + 2 * j - 1].text = o[j].name
              /\ Tokens(f)[Obj(f, n) + 2 * j - 1].type = "string"
              /\ Tokens(f)[Obj(f, n) + 2 * j].text = o[j].text
              /\ o[j].text \notin Recognised /\ o[j].name \notin Members
              /\ o[j].name = "key" => o[j].text \in GoodKeys \cup ShortKeys
         /\ \A j, k \in 1 .. Len(o) : o[j].name = o[k].name => j = k
<1> DEFINE o == f.devices[n]
<1>1. /\ Has(f, "devices") /\ Len(o) \in Nat /\ Len(o) >= 1 /\ Count(f) \in Nat
      /\ Obj(f, n) \in Nat /\ Obj(f, n + 1) = Obj(f, n) + 1 + 2 * Len(o)
      /\ Obj(f, Count(f) + 1) <= Final(f) + 1
  <2>1. Count(f) \in Nat
    BY Ordered
  <2>2. n \in 1 .. (Count(f) + 1)
    BY <2>1
  <2>3. Obj(f, n) \in Nat
    BY <2>2, Ordered
  <2>4. Len(o) \in Nat /\ Len(o) >= 1 /\ Obj(f, n + 1) = Obj(f, n) + 1 + 2 * Len(o)
    BY Ordered
  <2>5. Has(f, "devices") /\ Obj(f, Count(f) + 1) <= Final(f) + 1
    BY Ordered
  <2> QED  BY <2>1, <2>3, <2>4, <2>5
<1>2. n \in 1 .. (Count(f) + 1) /\ n + 1 \in 1 .. (Count(f) + 1)
      /\ Count(f) + 1 \in 1 .. (Count(f) + 1) /\ n + 1 <= Count(f) + 1
  BY <1>1
<1>3. Obj(f, n + 1) <= Obj(f, Count(f) + 1) /\ Start(f) + 2 <= Obj(f, n)
  BY <1>2, Increasing
<1>4. f.devices \in Seq(Seq(Fields)) /\ n \in DOMAIN f.devices
  BY DEF IsFile, Count
<1>5. o \in Seq(Fields) /\ o \in ToSet(f.devices) /\ o \in Objects(f)
  BY <1>4 DEF ToSet, Objects
<1>6. ObjectAt(Tokens(f), Obj(f, n), o)
  BY <1>1, DevicesStand DEF Count
<1>7. /\ NamesApart(f) /\ KeysDecode(f)
      /\ \A j, k \in DOMAIN o : o[j].name = o[k].name => j = k
  BY <1>4 DEF Conventional
<1> HIDE DEF o
<1>8. DOMAIN o = 1 .. Len(o)
  BY <1>5
<1>9. ASSUME NEW j \in 1 .. Len(o)
      PROVE  /\ Tokens(f)[Obj(f, n) + 2 * j - 1].text = o[j].name
             /\ Tokens(f)[Obj(f, n) + 2 * j - 1].type = "string"
             /\ Tokens(f)[Obj(f, n) + 2 * j].text = o[j].text
             /\ o[j].text \notin Recognised /\ o[j].name \notin Members
             /\ o[j].name = "key" => o[j].text \in GoodKeys \cup ShortKeys
  <2>1. NameAt(Tokens(f), Obj(f, n) + 2 * j - 1, o[j].name)
        /\ PlainAt(Tokens(f), Obj(f, n) + 2 * j, o[j].text)
    BY <1>6 DEF ObjectAt
  <2>2. o[j].text \notin Recognised /\ o[j].name \notin Members
    BY <1>5, <1>7, <1>8 DEF NamesApart
  <2>3. o[j].name = "key" => o[j].text \in GoodKeys \cup ShortKeys
    BY <1>5, <1>7, <1>8 DEF KeysDecode
  <2> QED  BY <2>1, <2>2, <2>3 DEF NameAt, PlainAt
<1> QED  BY <1>1, <1>3, <1>5, <1>7, <1>8, <1>9 DEF o

\* A structure of zeros says what no fields say.
LEMMA BuiltBegins ==
  ASSUME NEW f, IsFile(f), Conventional(f), NEW n \in Nat, n < Count(f),
         NEW x, x = Obj(f, n + 1) \/ x = Obj(f, n + 1) + 1
  PROVE  Built(f, n, x, Zeroed)
<1> DEFINE o == f.devices[n + 1]
           N == Count(f)
<1>1. N \in Nat /\ n + 1 \in 1 .. N
  BY Ordered
<1>2. o \in Seq(Fields) /\ Len(o) \in Nat /\ Obj(f, n + 1) \in Nat
  BY <1>1, DeviceIs
<1>3. Sns(o)[0] = 0 /\ Keys(o)[0] = Blank
  BY <1>2, DeclaredSteps
<1>4. Reached(f, n, 0, x)
  BY <1>2 DEF Reached
<1>5. Zeroed.sn = 0 /\ Zeroed.key = Blank
  BY DEF Zeroed
<1>6. Says(o, 0, Zeroed)
  BY <1>3, <1>5 DEF Says
<1> QED  BY <1>4, <1>6 DEF Built

\* Behind a device nothing more is said of it.
LEMMA BuiltBehind ==
  ASSUME NEW f, IsFile(f), Conventional(f), NEW n \in Nat, n < Count(f), NEW x \in Nat, NEW e,
         Built(f, n, x, e), x + 1 >= Obj(f, n + 2)
  PROVE  /\ Says(f.devices[n + 1], Len(f.devices[n + 1]), e)
         /\ \A y \in Nat : y >= x => Built(f, n, y, e)
         /\ e.sn = Declared(f.devices[n + 1], Blank).sn
         /\ e.key \in {Declared(f.devices[n + 1], Blank).key, Blank}
<1> DEFINE o == f.devices[n + 1]
           N == Count(f)
           K == Len(o)
           b == Obj(f, n + 1)
<1>1. N \in Nat /\ n + 1 \in 1 .. N /\ (n + 1) + 1 = n + 2
  BY Ordered
<1>2. o \in Seq(Fields) /\ K \in Nat /\ b \in Nat /\ Obj(f, (n + 1) + 1) = b + 1 + 2 * K
  BY <1>1, DeviceIs
<1>3. PICK J : Reached(f, n, J, x) /\ Says(o, J, e)
  BY DEF Built
<1>4. /\ J \in 0 .. K /\ b + 2 * J <= x /\ (J < K => x <= b + 2 * J + 1)
  BY <1>3 DEF Reached
<1>5. Sns(o)[K] = Declared(o, Blank).sn /\ Keys(o)[K] = Declared(o, Blank).key
  BY <1>2, DeclaredSteps
<1> HIDE DEF o, N, K, b
<1>6. J = K
  BY <1>1, <1>2, <1>4
<1>7. Says(o, K, e)
  BY <1>3, <1>6
<1>8. ASSUME NEW y \in Nat, y >= x PROVE Built(f, n, y, e)
  <2>1. Reached(f, n, K, y)
    <3>1. K \in 0 .. K /\ b + 2 * K <= y /\ ~(K < K)
      BY <1>2, <1>4, <1>6, <1>8
    <3> QED  BY <3>1, Zenon DEF Reached, K, b, o
  <2> QED  BY <1>7, <2>1 DEF Built, o
<1>9. e.sn = Declared(o, Blank).sn /\ e.key \in {Declared(o, Blank).key, Blank}
  BY <1>5, <1>7 DEF Says
<1> QED  BY <1>7, <1>8, <1>9 DEF o, K

\* What is no name of a setting says nothing.
LEMMA BuiltPast ==
  ASSUME NEW f, IsFile(f), Conventional(f), NEW n \in Nat, n < Count(f), NEW x \in Nat, NEW e,
         Built(f, n, x, e), Tokens(f)[x].text \notin Recognised
  PROVE  Built(f, n, x + 1, e)
<1> DEFINE o == f.devices[n + 1]
           N == Count(f)
           K == Len(o)
           b == Obj(f, n + 1)
<1>1. N \in Nat /\ n + 1 \in 1 .. N
  BY Ordered
<1>2. o \in Seq(Fields) /\ K \in Nat /\ b \in Nat
      /\ \A j \in 1 .. K : Tokens(f)[b + 2 * j - 1].text = o[j].name
  BY <1>1, DeviceIs
<1>3. PICK J : Reached(f, n, J, x) /\ Says(o, J, e)
  BY DEF Built
<1>4. /\ J \in 0 .. K /\ b + 2 * J <= x /\ (J < K => x <= b + 2 * J + 1)
  BY <1>3 DEF Reached
<1>5. \A j \in 1 .. K :
        /\ Sns(o)[j] = IF o[j].name = "id" THEN NumberOr(Sns(o)[j - 1], o[j].text)
                       ELSE Sns(o)[j - 1]
        /\ Keys(o)[j] = IF o[j].name = "key" THEN KeyOr(Keys(o)[j - 1], o[j].text)
                        ELSE Keys(o)[j - 1]
  BY <1>2, DeclaredSteps
<1> HIDE DEF o, N, K, b
<1>6. CASE J = K \/ x = b + 2 * J
  <2>1. Reached(f, n, J, x + 1)
    BY <1>2, <1>4, <1>6 DEF Reached, K, b, o
  <2> QED  BY <1>3, <2>1 DEF Built, o
<1>7. CASE ~(J = K \/ x = b + 2 * J)
  <2>1. J + 1 \in 1 .. K /\ x = b + 2 * (J + 1) - 1 /\ (J + 1) - 1 = J /\ J \in Nat
    BY <1>2, <1>4, <1>7
  <2>2. o[J + 1].name \notin Recognised
    BY <1>2, <2>1
  <2>3. o[J + 1].name # "id" /\ o[J + 1].name # "key"
    BY <2>2 DEF Recognised
  <2>4. Sns(o)[J + 1] = Sns(o)[J] /\ Keys(o)[J + 1] = Keys(o)[J]
    BY <1>5, <2>1, <2>3
  <2>5. Says(o, J + 1, e)
    <3>1. \A k \in 1 .. J : k \in 1 .. (J + 1)
      BY <2>1
    <3> QED  BY <1>3, <2>4, <3>1 DEF Says
  <2>6. Reached(f, n, J + 1, x + 1)
    <3>1. /\ J + 1 \in 0 .. K /\ b + 2 * (J + 1) <= x + 1
          /\ J + 1 < K => x + 1 <= b + 2 * (J + 1) + 1
      BY <1>2, <1>4, <2>1
    <3> QED  BY <3>1, Zenon DEF Reached, K, b, o
  <2> QED  BY <2>5, <2>6 DEF Built, o
<1> QED  BY <1>6, <1>7

\* Where a setting is named it is the next one of the device.
LEMMA BuiltAt ==
  ASSUME NEW f, IsFile(f), Conventional(f), NEW n \in Nat, n < Count(f), NEW x \in Nat, NEW e,
         Built(f, n, x, e), Place(f, n, x, "name"), NEW m, NEW j, InDevice(f, x, m, j)
  PROVE  /\ m = n + 1 /\ j \in 1 .. Len(f.devices[n + 1])
         /\ Says(f.devices[n + 1], j - 1, e) /\ Reached(f, n, j, x + 2)
<1> DEFINE o == f.devices[n + 1]
           N == Count(f)
           K == Len(o)
           b == Obj(f, n + 1)
<1>1. N \in Nat /\ n + 1 \in 1 .. N /\ n + 1 \in 1 .. (N + 1) /\ n + 2 \in 1 .. (N + 1)
  BY Ordered
<1>2. K \in Nat /\ b \in Nat /\ Obj(f, n + 2) \in Nat
  BY <1>1, DeviceIs, Ordered
<1>3. PICK J : Reached(f, n, J, x) /\ Says(o, J, e)
  BY DEF Built
<1>4. /\ J \in 0 .. K /\ b + 2 * J <= x /\ (J < K => x <= b + 2 * J + 1)
  BY <1>3 DEF Reached
<1>5. /\ m \in 1 .. N /\ Obj(f, m) \in Nat /\ Obj(f, m + 1) \in Nat
      /\ Obj(f, m) < x /\ x + 2 <= Obj(f, m + 1)
  BY InDeviceIs
<1>6. x >= b /\ (n + 1 < N => x < Obj(f, n + 2))
  BY DEF Place
<1> HIDE DEF o, N, K, b
<1>7. m \in 1 .. (N + 1) /\ m + 1 \in 1 .. (N + 1) /\ m \in Nat
  BY <1>1, <1>5
<1>8. ~(m <= n)
  <2> SUFFICES ASSUME m <= n PROVE FALSE
    OBVIOUS
  <2>1. m + 1 <= n + 1
    BY <1>7
  <2>2. Obj(f, m + 1) <= b
    BY <1>1, <1>7, <2>1, Increasing DEF N, b
  <2> QED  BY <1>2, <1>5, <1>6, <2>2
<1>9. ~(n + 2 <= m)
  <2> SUFFICES ASSUME n + 2 <= m PROVE FALSE
    OBVIOUS
  <2>1. Obj(f, n + 2) <= Obj(f, m)
    BY <1>1, <1>7, Increasing DEF N
  <2>2. n + 1 < N
    BY <1>1, <1>5
  <2> QED  BY <1>2, <1>5, <1>6, <2>1, <2>2
<1>10. m = n + 1
  BY <1>7, <1>8, <1>9
<1>11. j \in 1 .. K /\ x = b + 2 * j - 1
  BY <1>10 DEF InDevice, K, b, o
<1>12. J = j - 1
  BY <1>2, <1>4, <1>11
<1>13. Reached(f, n, j, x + 2)
  BY <1>2, <1>11 DEF Reached, K, b, o
<1> QED  BY <1>3, <1>10, <1>11, <1>12, <1>13 DEF K, o

\* One field more is said.
LEMMA SaysNext ==
  ASSUME NEW o \in Seq(Fields), \A p, q \in 1 .. Len(o) : o[p].name = o[q].name => p = q,
         NEW j \in 1 .. Len(o), o[j].name = "key" => o[j].text \in GoodKeys \cup ShortKeys,
         NEW e, Says(o, j - 1, e), NEW d,
         o[j].name = "id" => d.sn = NumberOr(e.sn, o[j].text),
         o[j].name # "id" => d.sn = e.sn,
         o[j].name = "key" => d.key = Decoded(o[j].text) \/ d.key = e.key,
         o[j].name # "key" => d.key = e.key
  PROVE  Says(o, j, d)
<1>1. /\ Sns(o)[j] = IF o[j].name = "id" THEN NumberOr(Sns(o)[j - 1], o[j].text)
                     ELSE Sns(o)[j - 1]
      /\ Keys(o)[j] = IF o[j].name = "key" THEN KeyOr(Keys(o)[j - 1], o[j].text)
                      ELSE Keys(o)[j - 1]
  BY DeclaredSteps
<1>2. /\ e.sn = Sns(o)[j - 1] /\ e.key \in {Keys(o)[j - 1], Blank}
      /\ Keys(o)[j - 1] = Blank \/ \E k \in 1 .. (j - 1) : o[k].name = "key"
  BY DEF Says
<1>3. d.sn = Sns(o)[j]
  BY <1>1, <1>2
<1>4. CASE o[j].name = "key"
  <2>1. Keys(o)[j] = Decoded(o[j].text)
    BY <1>1, <1>4 DEF KeyOr, Decoded
  <2>2. Keys(o)[j - 1] = Blank
    <3>1. \A k \in 1 .. (j - 1) : k \in 1 .. Len(o) /\ k # j
      OBVIOUS
    <3> QED  BY <1>2, <1>4, <3>1
  <2>3. d.key \in {Keys(o)[j], Blank}
    BY <1>2, <1>4, <2>1, <2>2
  <2>4. j \in 1 .. j
    OBVIOUS
  <2> QED  BY <1>3, <1>4, <2>3, <2>4 DEF Says
<1>5. CASE o[j].name # "key"
  <2>1. Keys(o)[j] = Keys(o)[j - 1] /\ d.key = e.key
    BY <1>1, <1>5
  <2>2. \A k \in 1 .. (j - 1) : k \in 1 .. j
    OBVIOUS
  <2> QED  BY <1>2, <1>3, <2>1, <2>2 DEF Says
<1> QED  BY <1>4, <1>5

-----------------------------------------------------------------------------
(* The walk and the registrations *)

\* Before the list of devices nothing is registered.
Unregistered ==
  log = <<>> /\ DOMAIN registry = {} /\ indev = 0 /\ Len(dev) = 1 /\ ~dev[1].queue

\* The walk is not behind the beginning of the list.
Before(f) ==
  /\ Unregistered
  /\ tok = <<>> => rd = 0
  /\ tok # <<>> => /\ pc # "done" /\ i <= Start(f)
                   /\ rd = IF Has(f, "gateway") /\ i > At(f, "gateway") THEN 1 ELSE 0

\* The structures: main's, those of the registered devices, the one of the next device.
Structures(f) ==
  /\ Len(log) <= Count(f) /\ indev = Count(f) - Len(log)
  /\ Len(dev) = rd
  /\ rd = IF Len(log) < Count(f) \/ Count(f) = 0 THEN Len(log) + 2 ELSE Len(log) + 1
  /\ ~dev[1].queue
  /\ Len(log) < Count(f) \/ Count(f) = 0 => ~dev[rd].queue
  /\ Len(log) < Count(f) => dev[rd].live

\* Every registration is the device of the file with its number.
Declares(f) ==
  \A m \in 1 .. Len(log) :
    /\ log[m].sn = Declared(f.devices[m], Blank).sn
    /\ log[m].key \in {Declared(f.devices[m], Blank).key, Blank}

\* The registrations l, the structures s they left, and the registry r: what was stored and not
\* replaced, or not stored, is allocated, and an address is its latest device's.
Recorded(l, s, r) ==
  /\ \A m \in 1 .. Len(l) :
       /\ s[m + 1].sn = l[m].sn /\ s[m + 1].key = l[m].key
       /\ s[m + 1].addr = Hash[l[m].sn] /\ s[m + 1].queue
       /\ l[m].stored => Hash[l[m].sn] \in DOMAIN r
       /\ s[m + 1].live <=> (l[m].stored => r[Hash[l[m].sn]] = m + 1)
  /\ \A a \in DOMAIN r : \E m \in 1 .. Len(l) :
       /\ r[a] = m + 1 /\ l[m].stored /\ Hash[l[m].sn] = a
       /\ \A k \in 1 .. Len(l) : l[k].stored /\ Hash[l[k].sn] = a => k <= m

\* The walk is behind the beginning of the list.
After(f) ==
  /\ tok # <<>> /\ i > Start(f)
  /\ pc = "done" => i > Final(f)
  /\ Place(f, Len(log), i, pc)
  /\ Structures(f) /\ Declares(f) /\ Recorded(log, dev, registry)
  /\ Len(log) < Count(f) => Built(f, Len(log), i, dev[rd])

\* The inductive invariant for the registrations.
WalkInv ==
  Conventional(file.content) =>
    pc # "crashed" /\ (Before(file.content) \/ After(file.content))

\* A structure of nobody's may change.
LEMMA RecordedKept ==
  ASSUME NEW l \in Seq(Entry), NEW s, NEW r, NEW t, Recorded(l, s, r),
         \A m \in 1 .. Len(l) : t[m + 1] = s[m + 1]
  PROVE  Recorded(l, t, r)
<1>1. \A m \in 1 .. Len(l) :
        /\ t[m + 1].sn = l[m].sn /\ t[m + 1].key = l[m].key
        /\ t[m + 1].addr = Hash[l[m].sn] /\ t[m + 1].queue
        /\ l[m].stored => Hash[l[m].sn] \in DOMAIN r
        /\ t[m + 1].live <=> (l[m].stored => r[Hash[l[m].sn]] = m + 1)
  <2> TAKE m \in 1 .. Len(l)
  <2>1. t[m + 1] = s[m + 1]
    OBVIOUS
  <2>2. /\ s[m + 1].sn = l[m].sn /\ s[m + 1].key = l[m].key
        /\ s[m + 1].addr = Hash[l[m].sn] /\ s[m + 1].queue
        /\ l[m].stored => Hash[l[m].sn] \in DOMAIN r
        /\ s[m + 1].live <=> (l[m].stored => r[Hash[l[m].sn]] = m + 1)
    BY Zenon DEF Recorded
  <2> QED  BY <2>1, <2>2, Zenon
<1>2. \A a \in DOMAIN r : \E m \in 1 .. Len(l) :
        /\ r[a] = m + 1 /\ l[m].stored /\ Hash[l[m].sn] = a
        /\ \A k \in 1 .. Len(l) : l[k].stored /\ Hash[l[k].sn] = a => k <= m
  BY Zenon DEF Recorded
<1> QED  BY <1>1, <1>2, Zenon DEF Recorded

\* What a registration does: e is added to the history l, the structure after those of l is
\* completed, and if b, it is stored, and the one it replaces is freed.
Adds(l, s, r, b, e, t, q) ==
  LET d == Len(l) + 2
      a == Hash[e.sn]
  IN
  /\ e.sn = s[d].sn /\ e.key = s[d].key /\ (e.stored <=> b)
  /\ \A m \in 1 .. Len(l) :
       /\ t[m + 1].sn = s[m + 1].sn /\ t[m + 1].key = s[m + 1].key
       /\ t[m + 1].addr = s[m + 1].addr /\ (t[m + 1].queue <=> s[m + 1].queue)
       /\ t[m + 1].live <=> s[m + 1].live /\ ~(b /\ a \in DOMAIN r /\ r[a] = m + 1)
  /\ t[d].sn = s[d].sn /\ t[d].key = s[d].key /\ t[d].addr = a /\ t[d].queue /\ t[d].live
  /\ DOMAIN q = IF b THEN DOMAIN r \cup {a} ELSE DOMAIN r
  /\ b => q[a] = d
  /\ \A c \in DOMAIN r : ~(b /\ c = a) => q[c] = r[c]

LEMMA RecordedNext ==
  ASSUME NEW l \in Seq(Entry), NEW s, NEW r, Recorded(l, s, r), NEW b \in BOOLEAN, NEW e,
         NEW t, NEW q, Adds(l, s, r, b, e, t, q)
  PROVE  Recorded(Append(l, e), t, q)
<1> DEFINE n == Len(l)
           k == Append(l, e)
           d == n + 2
           a == Hash[e.sn]
<1>0. /\ e.sn = s[d].sn /\ e.key = s[d].key /\ (e.stored <=> b)
      /\ \A m \in 1 .. n :
           /\ t[m + 1].sn = s[m + 1].sn /\ t[m + 1].key = s[m + 1].key
           /\ t[m + 1].addr = s[m + 1].addr /\ (t[m + 1].queue <=> s[m + 1].queue)
           /\ t[m + 1].live <=> s[m + 1].live /\ ~(b /\ a \in DOMAIN r /\ r[a] = m + 1)
      /\ t[d].sn = s[d].sn /\ t[d].key = s[d].key /\ t[d].addr = a /\ t[d].queue /\ t[d].live
      /\ DOMAIN q = IF b THEN DOMAIN r \cup {a} ELSE DOMAIN r
      /\ b => q[a] = d
      /\ \A c \in DOMAIN r : ~(b /\ c = a) => q[c] = r[c]
  BY Zenon DEF Adds
<1>1. n \in Nat /\ d = n + 2 /\ n + 1 \in 1 .. (n + 1)
  OBVIOUS
<1>2. Len(k) = n + 1 /\ k[n + 1] = e /\ \A m \in 1 .. n : k[m] = l[m]
  OBVIOUS
<1>3. \A m \in 1 .. n : m \in 1 .. (n + 1) /\ m <= n + 1 /\ m # n + 1 /\ m + 1 # d
  BY <1>1
<1>4. \A m \in 1 .. (n + 1) : m \in 1 .. n \/ m = n + 1
  BY <1>1
<1> HIDE DEF n, k, d, a
<1>5. ASSUME NEW m \in 1 .. n
      PROVE  /\ t[m + 1].sn = k[m].sn /\ t[m + 1].key = k[m].key
             /\ t[m + 1].addr = Hash[k[m].sn] /\ t[m + 1].queue
             /\ k[m].stored => Hash[k[m].sn] \in DOMAIN q
             /\ t[m + 1].live <=> (k[m].stored => q[Hash[k[m].sn]] = m + 1)
  <2>1. /\ s[m + 1].sn = l[m].sn /\ s[m + 1].key = l[m].key
        /\ s[m + 1].addr = Hash[l[m].sn] /\ s[m + 1].queue
        /\ l[m].stored => Hash[l[m].sn] \in DOMAIN r
        /\ s[m + 1].live <=> (l[m].stored => r[Hash[l[m].sn]] = m + 1)
    BY DEF Recorded, n
  <2>2. /\ t[m + 1].sn = s[m + 1].sn /\ t[m + 1].key = s[m + 1].key
        /\ t[m + 1].addr = s[m + 1].addr /\ (t[m + 1].queue <=> s[m + 1].queue)
        /\ t[m + 1].live <=> s[m + 1].live /\ ~(b /\ a \in DOMAIN r /\ r[a] = m + 1)
    BY <1>0
  <2>3. k[m] = l[m] /\ m + 1 # d
    BY <1>2, <1>3
  <2> DEFINE h == Hash[l[m].sn]
             z == l[m].stored
  <2> HIDE DEF h, z
  <2>4. z => h \in DOMAIN q
    BY <1>0, <2>1 DEF h, z
  <2>5. ASSUME a \in DOMAIN r, r[a] = m + 1 PROVE h = a /\ z
    <3>1. PICK p \in 1 .. n : r[a] = p + 1 /\ l[p].stored /\ Hash[l[p].sn] = a
      BY <2>5 DEF Recorded, n
    <3>2. p = m
      BY <1>1, <2>5, <3>1
    <3> QED  BY <3>1, <3>2 DEF h, z
  <2>6. t[m + 1].live <=> (z => q[h] = m + 1)
    <3>1. CASE b /\ h = a
      <4>1. q[h] # m + 1
        BY <1>0, <2>3, <3>1
      <4>2. z => h \in DOMAIN r
        BY <2>1 DEF h, z
      <4> QED  BY <2>1, <2>2, <2>5, <3>1, <4>1, <4>2 DEF h, z
    <3>2. CASE ~(b /\ h = a)
      <4>1. z => q[h] = r[h]
        BY <1>0, <2>1, <3>2 DEF h, z
      <4> QED  BY <2>1, <2>2, <2>5, <3>2, <4>1 DEF h, z
    <3> QED  BY <3>1, <3>2
  <2> QED  BY <2>1, <2>2, <2>3, <2>4, <2>6 DEF h, z
<1>6. /\ t[d].sn = k[n + 1].sn /\ t[d].key = k[n + 1].key
      /\ t[d].addr = Hash[k[n + 1].sn] /\ t[d].queue
      /\ k[n + 1].stored => Hash[k[n + 1].sn] \in DOMAIN q
      /\ t[d].live <=> (k[n + 1].stored => q[Hash[k[n + 1].sn]] = d)
  BY <1>0, <1>2 DEF a
<1>7. (n + 1) + 1 = d
  BY <1>1
<1>8. \A m \in 1 .. (n + 1) :
       /\ t[m + 1].sn = k[m].sn /\ t[m + 1].key = k[m].key
       /\ t[m + 1].addr = Hash[k[m].sn] /\ t[m + 1].queue
       /\ k[m].stored => Hash[k[m].sn] \in DOMAIN q
       /\ t[m + 1].live <=> (k[m].stored => q[Hash[k[m].sn]] = m + 1)
  BY <1>4, <1>5, <1>6, <1>7
<1>9. ASSUME NEW c \in DOMAIN q
      PROVE  \E m \in 1 .. (n + 1) :
               /\ q[c] = m + 1 /\ k[m].stored /\ Hash[k[m].sn] = c
               /\ \A p \in 1 .. (n + 1) : k[p].stored /\ Hash[k[p].sn] = c => p <= m
  <2>1. CASE b /\ c = a
    <3>1. q[c] = (n + 1) + 1 /\ k[n + 1].stored /\ Hash[k[n + 1].sn] = c
      BY <1>0, <1>2, <1>7, <2>1 DEF a
    <3>2. \A p \in 1 .. (n + 1) : p <= n + 1
      BY <1>1
    <3> QED  BY <1>1, <3>1, <3>2
  <2>2. CASE ~(b /\ c = a)
    <3>1. c \in DOMAIN r /\ q[c] = r[c]
      BY <1>0, <2>2
    <3>2. PICK m \in 1 .. n :
            /\ r[c] = m + 1 /\ l[m].stored /\ Hash[l[m].sn] = c
            /\ \A p \in 1 .. n : l[p].stored /\ Hash[l[p].sn] = c => p <= m
      BY <3>1 DEF Recorded, n
    <3>3. m \in 1 .. (n + 1) /\ k[m] = l[m]
      BY <1>2, <1>3
    <3>4. ASSUME NEW p \in 1 .. (n + 1), k[p].stored, Hash[k[p].sn] = c PROVE p <= m
      <4>1. p # n + 1
        BY <1>0, <1>2, <2>2, <3>4 DEF a
      <4>2. p \in 1 .. n /\ k[p] = l[p]
        BY <1>2, <1>4, <4>1
      <4> QED  BY <3>2, <3>4, <4>2
    <3> QED  BY <3>1, <3>2, <3>3, <3>4
  <2> QED  BY <2>1, <2>2
<1> QED  BY <1>2, <1>8, <1>9 DEF Recorded, k

-----------------------------------------------------------------------------
(* Steps before the list of devices *)

\* WalkInv of a conventional file.
Walked(f) == pc # "crashed" /\ (Before(f) \/ After(f))

\* Nothing is registered, and the loop is not behind the list.
LEMMA BeforeKept ==
  ASSUME NEW f, Before(f), UNCHANGED <<log, registry, indev>>,
         Len(dev') = 1, ~dev'[1].queue, pc' # "crashed",
         tok' = <<>> => rd' = 0,
         tok' # <<>> => /\ pc' # "done" /\ i' <= Start(f)
                        /\ rd' = IF Has(f, "gateway") /\ i' > At(f, "gateway") THEN 1 ELSE 0
  PROVE  Walked(f)'
<1>1. Unregistered'
  BY DEF Before, Unregistered
<1>2. Before(f)'
  BY <1>1 DEF Before
<1> QED  BY <1>2 DEF Walked

\* There are tokens where a name is looked at.
LEMMA NameHasTokens == ASSUME TypeInv, pc = "name" PROVE tok # <<>>
<1>1. i \in 2 .. Len(tok)
  BY TypeNow
<1> QED  BY <1>1

\* A setting before the list is the gateway's, and rd points to it.
LEMMA BeforeSetting ==
  ASSUME TypeInv, NEW f, file.content = f, Conventional(f), Before(f), pc = "name",
         NEW m \in Settings, Is(m)
  PROVE  rd = 1
<1>1. tok # <<>>
  BY NameHasTokens
<1>2. IsFile(f) /\ NamesApart(f) /\ i \in Nat
  BY <1>1, NameFound DEF Conventional
<1>3. m \in Recognised
  BY DEF Settings, Recognised
<1>4. PICK b, o, j : IsField(f, i, b, o, j) /\ o[j].name = m
  BY <1>1, <1>2, <1>3, SettingFound
<1>5. i <= Start(f) /\ rd = IF Has(f, "gateway") /\ i > At(f, "gateway") THEN 1 ELSE 0
  BY <1>1 DEF Before
<1>6. o[j].name \in Recognised
  BY <1>3, <1>4
<1>7. \/ InGateway(f, i)
      \/ \E p : InDevice(f, i, p, j) /\ o = f.devices[p]
  BY <1>2, <1>4, <1>6, SettingsStand
<1>8. CASE InGateway(f, i)
  <2>1. Has(f, "gateway") /\ At(f, "gateway") + 2 <= i
    BY <1>8 DEF InGateway
  <2>2. At(f, "gateway") \in Nat
    BY <1>2, <2>1, GatewayBefore
  <2> QED  BY <1>2, <1>5, <2>1, <2>2
<1>9. ASSUME NEW p, InDevice(f, i, p, j) PROVE FALSE
  <2>1. i > Start(f) /\ Start(f) \in Nat
    BY <1>2, <1>9, InDeviceIs, Ordered
  <2> QED  BY <1>2, <1>5, <2>1
<1> QED  BY <1>7, <1>8, <1>9

\* A name and its value, not the list, are stepped over.
LEMMA BeforeOver ==
  ASSUME TypeInv, NEW f, file.content = f, Conventional(f), Before(f), pc = "name",
         NEW m \in Recognised, m # "devices", Is(m), Skip(1),
         UNCHANGED <<file, tok, indev, registry, log>>,
         Len(dev') = 1, ~dev'[1].queue,
         m = "gateway" => rd' = 1, m # "gateway" => rd' = rd
  PROVE  Walked(f)'
<1>1. tok # <<>>
  BY NameHasTokens
<1>2. IsFile(f) /\ NamesApart(f) /\ i \in Nat
  BY <1>1, NameFound DEF Conventional
<1>3. i <= Start(f) /\ rd = IF Has(f, "gateway") /\ i > At(f, "gateway") THEN 1 ELSE 0
  BY <1>1 DEF Before
<1>4. i' = i + 2 /\ pc' = "item"
  BY <1>2 DEF Skip
<1>5. "devices" \in Recognised \cap Members /\ "gateway" \in Recognised \cap Members
      /\ "gateway" \in Named
  BY DEF Recognised, Members, Named
<1>6. Passes(f, "devices", i)
  BY <1>1, <1>2, <1>5, SettingPasses
<1>7. i' <= Start(f)
  <2>1. Has(f, "devices") /\ Start(f) \in Nat
    BY <1>2, Ordered
  <2>2. i # Start(f) /\ i + 1 # Start(f)
    BY <1>6, <2>1 DEF Passes, Start
  <2> QED  BY <1>2, <1>3, <1>4, <2>1, <2>2
<1>8. rd' = IF Has(f, "gateway") /\ i' > At(f, "gateway") THEN 1 ELSE 0
  <2>1. CASE m = "gateway"
    <3>1. Has(f, "gateway") /\ i = At(f, "gateway")
      BY <1>1, <1>2, <1>5, <2>1, SettingFound
    <3> QED  BY <1>2, <1>4, <2>1, <3>1
  <2>2. CASE m # "gateway"
    <3>1. Passes(f, "gateway", i)
      BY <1>1, <1>2, <1>5, <2>2, SettingPasses
    <3> QED  BY <1>2, <1>3, <1>4, <2>2, <3>1 DEF Passes
  <2> QED  BY <2>1, <2>2
<1>9. tok' # <<>> /\ pc' # "crashed" /\ pc' # "done"
  BY <1>1, <1>4
<1> QED  BY <1>7, <1>8, <1>9, BeforeKept

LEMMA BeforeUnknown ==
  ASSUME TypeInv, NEW f, file.content = f, Conventional(f), Before(f), Unknown
  PROVE  Walked(f)'
<1>0. /\ pc = "name" /\ Skip(0) /\ UNCHANGED <<file, tok, rd, indev, dev, registry, log>>
      /\ \A m \in Recognised : ~Is(m)
  BY Zenon DEF Unknown
<1>1. tok # <<>>
  BY <1>0, NameHasTokens
<1>2. IsFile(f) /\ NamesApart(f) /\ i \in Nat
  BY <1>0, <1>1, NameFound DEF Conventional
<1>3. i <= Start(f) /\ rd = IF Has(f, "gateway") /\ i > At(f, "gateway") THEN 1 ELSE 0
  BY <1>1 DEF Before
<1>4. i' = i + 1 /\ pc' = "item"
  BY <1>0, <1>2 DEF Skip
<1>5. "devices" \in Recognised \cap Members /\ "gateway" \in Recognised \cap Members
  BY DEF Recognised, Members
<1>6. \A n \in Recognised \cap Members : Has(f, n) => i # At(f, n) /\ At(f, n) \in Nat
  BY <1>0, <1>1, <1>2, UnknownPasses
<1>7. i' <= Start(f)
  <2>1. Has(f, "devices") /\ Start(f) \in Nat
    BY <1>2, Ordered
  <2>2. i # Start(f)
    BY <1>5, <1>6, <2>1 DEF Start
  <2> QED  BY <1>2, <1>3, <1>4, <2>1, <2>2
<1>8. rd' = IF Has(f, "gateway") /\ i' > At(f, "gateway") THEN 1 ELSE 0
  <2>1. Has(f, "gateway") => i # At(f, "gateway") /\ At(f, "gateway") \in Nat
    BY <1>5, <1>6
  <2>2. rd' = rd
    BY <1>0
  <2> QED  BY <1>2, <1>3, <1>4, <2>1, <2>2
<1>9. tok' # <<>> /\ pc' # "crashed" /\ pc' # "done" /\ Len(dev') = 1 /\ ~dev'[1].queue
  BY <1>0, <1>1, <1>4 DEF Before, Unregistered
<1> QED  BY <1>0, <1>7, <1>8, <1>9, BeforeKept

\* What writing the text x of the setting m makes of the structure d.
Writes(m, x, d, e) ==
  /\ (e.queue <=> d.queue) /\ (e.live <=> d.live)
  /\ m = "id" => e.sn = NumberOr(d.sn, x)
  /\ m # "id" => e.sn = d.sn
  /\ m = "key" => e.key = Decoded(x)
  /\ m # "key" => e.key = d.key

LEMMA WritesIs ==
  ASSUME NEW d \in Device, NEW x
  PROVE  /\ Writes("id", x, d, [d EXCEPT !.sn = NumberOr(@, x)])
         /\ Writes("bcast", x, d, [d EXCEPT !.addr = NumberOr(@, x)])
         /\ Writes("key", x, d, [d EXCEPT !.key = Decoded(x)])
<1> DEFINE s == NumberOr(d.sn, x)
           a == NumberOr(d.addr, x)
           k == Decoded(x)
<1>1. \A z : /\ [d EXCEPT !.sn = z].sn = z /\ [d EXCEPT !.sn = z].key = d.key
             /\ [d EXCEPT !.sn = z].queue = d.queue /\ [d EXCEPT !.sn = z].live = d.live
             /\ [d EXCEPT !.addr = z].sn = d.sn /\ [d EXCEPT !.addr = z].key = d.key
             /\ [d EXCEPT !.addr = z].queue = d.queue /\ [d EXCEPT !.addr = z].live = d.live
             /\ [d EXCEPT !.key = z].sn = d.sn /\ [d EXCEPT !.key = z].key = z
             /\ [d EXCEPT !.key = z].queue = d.queue /\ [d EXCEPT !.key = z].live = d.live
  BY DEF Device
<1> HIDE DEF s, a, k
<1> DEFINE m1 == "id"
           m2 == "bcast"
           m3 == "key"
<1>2. m1 = "id" /\ m1 # "key" /\ m2 # "id" /\ m2 # "key" /\ m3 = "key" /\ m3 # "id"
  OBVIOUS
<1> HIDE DEF m1, m2, m3
<1>3. Writes(m1, x, d, [d EXCEPT !.sn = s])
  BY <1>1, <1>2 DEF Writes, s
<1>4. Writes(m2, x, d, [d EXCEPT !.addr = a])
  BY <1>1, <1>2 DEF Writes, a
<1>5. Writes(m3, x, d, [d EXCEPT !.key = k])
  BY <1>1, <1>2 DEF Writes, k
<1> QED  BY <1>3, <1>4, <1>5 DEF s, a, k, m1, m2, m3

\* The three settings of a structure.
LEMMA FieldIs ==
  ASSUME TypeInv, Id \/ Bcast \/ Key
  PROVE  \E m \in Settings, t \in Ahead(1) : \E e :
           /\ Is(m) /\ Field(e) /\ (rd # 0 => Writes(m, t.text, dev[rd], e))
           /\ UNCHANGED <<file, tok, rd, indev, registry, log>>
<1>1. rd # 0 => dev[rd] \in Device
  BY TypeNow
<1>2. "id" \in Settings /\ "bcast" \in Settings /\ "key" \in Settings
  BY DEF Settings
<1>3. CASE Id
  <2>1. PICK t \in Ahead(1) : Field([dev[rd] EXCEPT !.sn = NumberOr(@, t.text)])
    BY <1>3, Zenon DEF Id
  <2>2. Is("id") /\ UNCHANGED <<file, tok, rd, indev, registry, log>>
    BY <1>3, Zenon DEF Id
  <2>3. rd # 0 => Writes("id", t.text, dev[rd], [dev[rd] EXCEPT !.sn = NumberOr(@, t.text)])
    BY <1>1, WritesIs
  <2> QED  BY <1>2, <2>1, <2>2, <2>3, Zenon
<1>4. CASE Bcast
  <2>1. PICK t \in Ahead(1) : Field([dev[rd] EXCEPT !.addr = NumberOr(@, t.text)])
    BY <1>4, Zenon DEF Bcast
  <2>2. Is("bcast") /\ UNCHANGED <<file, tok, rd, indev, registry, log>>
    BY <1>4, Zenon DEF Bcast
  <2>3. rd # 0 => Writes("bcast", t.text, dev[rd], [dev[rd] EXCEPT !.addr = NumberOr(@, t.text)])
    BY <1>1, WritesIs
  <2> QED  BY <1>2, <2>1, <2>2, <2>3, Zenon
<1>5. CASE Key
  <2>1. PICK t \in Ahead(1) : Field([dev[rd] EXCEPT !.key = Decoded(t.text)])
    BY <1>5, Zenon DEF Key
  <2>2. Is("key") /\ UNCHANGED <<file, tok, rd, indev, registry, log>>
    BY <1>5, Zenon DEF Key
  <2>3. rd # 0 => Writes("key", t.text, dev[rd], [dev[rd] EXCEPT !.key = Decoded(t.text)])
    BY <1>1, WritesIs
  <2> QED  BY <1>2, <2>1, <2>2, <2>3, Zenon
<1> QED  BY <1>3, <1>4, <1>5

\* A field is written: the gateway's.
LEMMA BeforeField ==
  ASSUME TypeInv, NEW f, file.content = f, Conventional(f), Before(f),
         NEW m \in Settings, Is(m), NEW e, Field(e), ~e.queue,
         UNCHANGED <<file, tok, rd, indev, registry, log>>
  PROVE  Walked(f)'
<1>1. pc = "name" /\ m \in Recognised /\ m # "devices" /\ m # "gateway"
  BY DEF Is, Settings, Recognised
<1>2. rd = 1
  BY <1>1, BeforeSetting
<1>3. dev' = [dev EXCEPT ![rd] = e] /\ Skip(1)
  <2>1. rd # 0
    BY <1>2
  <2> QED  BY <2>1, Zenon DEF Field
<1>4. Len(dev) = 1 /\ dev \in Seq(Device)
  BY TypeNow DEF Before, Unregistered
<1>5. dev'[1] = e /\ Len(dev') = 1
  BY <1>2, <1>3, <1>4
<1>6. ~dev'[1].queue
  BY <1>5
<1> QED  BY <1>1, <1>3, <1>5, <1>6, BeforeOver

\* The list of devices begins.
LEMMA BeforeDevices ==
  ASSUME TypeInv, NEW f, file.content = f, Conventional(f), Before(f), Devices
  PROVE  Walked(f)'
<1>0. /\ pc = "name" /\ Skip(2) /\ UNCHANGED <<file, tok, registry, log>> /\ Is("devices")
      /\ dev' = Append(dev, Zeroed) /\ rd' = Len(dev) + 1
      /\ \E t \in Ahead(1) : indev' = Byte(t.size)
  BY Zenon DEF Devices, Is
<1>1. tok # <<>>
  BY <1>0, NameHasTokens
<1>2. IsFile(f) /\ NamesApart(f) /\ i \in Nat /\ tok = Tokens(f)
  BY <1>0, <1>1, NameFound DEF Conventional
<1> DEFINE N == Count(f)
<1>3. "devices" \in Recognised /\ "devices" \in Members /\ "devices" \in Named
  BY DEF Recognised, Members, Named
<1>4. Has(f, "devices") /\ i = Start(f) /\ Ahead(1) = {tok[i + 1]} /\ i + 1 \in 2 .. Len(tok)
  BY <1>0, <1>1, <1>2, <1>3, SettingFound DEF Start
<1>5. i' = i + 3 /\ pc' = "item"
  BY <1>0, <1>2 DEF Skip
<1>6. tok[i + 1].size = N
  BY <1>2, <1>3, <1>4, NameStands DEF Start, N, Count
<1>7. N \in Nat /\ N < 256
  <2>1. N \in Nat
    BY <1>2, Ordered
  <2>2. i + 1 \in DOMAIN tok
    BY <1>4, TypeNow
  <2>3. tok[i + 1].size \in 0 .. MaxTokens
    BY <2>2 DEF TypeInv, Tokenized
  <2> HIDE DEF N
  <2> QED  BY <1>6, <2>1, <2>3, Sizes
<1>8. indev' = N
  <2>1. indev' = Byte(N)
    BY <1>0, <1>4, <1>6
  <2> HIDE DEF N
  <2> QED  BY <1>7, <2>1 DEF Byte
<1>9. log = <<>> /\ DOMAIN registry = {} /\ Len(dev) = 1 /\ ~dev[1].queue
  BY DEF Before, Unregistered
<1>10. Len(dev') = 2 /\ dev'[1] = dev[1] /\ dev'[2] = Zeroed /\ rd' = 2 /\ Len(log) = 0
  <2>1. dev \in Seq(Device)
    BY TypeNow
  <2> HIDE DEF Zeroed
  <2> QED  BY <1>0, <1>9, <2>1
<1>11. ~Zeroed.queue /\ Zeroed.live
  BY DEF Zeroed
<1>12. Structures(f)'
  <2> HIDE DEF Zeroed
  <2> QED  BY <1>0, <1>7, <1>8, <1>9, <1>10, <1>11 DEF Structures, N
<1>13. Declares(f)' /\ Recorded(log, dev, registry)'
  <2>1. Len(log)' = 0 /\ DOMAIN registry' = {} /\ 1 .. 0 = {}
    BY <1>0, <1>9, <1>10
  <2> QED  BY <2>1 DEF Declares, Recorded
<1>14. Obj(f, 1) = Start(f) + 2 /\ Start(f) \in Nat
  BY <1>2, Ordered
<1>15. Place(f, Len(log), i, pc)'
  <2>1. Place(f, 0, Start(f) + 3, "item")
    BY <1>2, PlaceBegins
  <2>2. i' = Start(f) + 3 /\ Len(log)' = 0
    BY <1>0, <1>4, <1>5, <1>10
  <2> QED  BY <1>5, <2>1, <2>2
<1>16. (Len(log) < Count(f) => Built(f, Len(log), i, dev[rd]))'
  <2>1. i' = Obj(f, 0 + 1) + 1 /\ Len(log)' = 0 /\ dev'[rd'] = Zeroed
    BY <1>0, <1>4, <1>5, <1>10, <1>14
  <2>2. 0 < Count(f) => Built(f, 0, i', Zeroed)
    BY <1>2, <2>1, BuiltBegins
  <2> QED  BY <2>1, <2>2
<1>17. tok' # <<>> /\ i' > Start(f) /\ pc' # "done" /\ pc' # "crashed"
  BY <1>0, <1>1, <1>4, <1>5, <1>14
<1> QED  BY <1>12, <1>13, <1>15, <1>16, <1>17 DEF After, Walked

\* The steps that do not look at names.
LEMMA BeforeTokenize ==
  ASSUME TypeInv, NEW f, file.content = f, Conventional(f), Before(f), Tokenize
  PROVE  Walked(f)'
<1>1. pc = "start" /\ i' = 2 /\ pc' = "item" /\ UNCHANGED <<rd, indev, dev, registry, log>>
  BY Zenon DEF Tokenize
<1>2. tok = <<>>
  BY <1>1 DEF TypeInv, Numbers
<1>3. rd = 0 /\ Len(dev) = 1 /\ ~dev[1].queue
  BY <1>2 DEF Before, Unregistered
<1>4. IsFile(f)
  BY ConfigAssumption DEF TypeInv, Tokenized
<1>5. i' <= Start(f)
  BY <1>1, <1>4, Ordered
<1>6. rd' = IF Has(f, "gateway") /\ i' > At(f, "gateway") THEN 1 ELSE 0
  <2>1. Has(f, "gateway") => At(f, "gateway") >= 2 /\ At(f, "gateway") \in Nat
    BY <1>4, GatewayBefore
  <2> QED  BY <1>1, <1>3, <2>1
<1>7. rd' = 0 /\ pc' # "done" /\ pc' # "crashed" /\ Len(dev') = 1 /\ ~dev'[1].queue
  BY <1>1, <1>3
<1> QED  BY <1>1, <1>5, <1>6, <1>7, BeforeKept

LEMMA BeforeLoop ==
  ASSUME TypeInv, NEW f, file.content = f, Conventional(f), Before(f), pc # "crashed",
         ReadFails \/ Incomplete \/ Finish \/ UNCHANGED vars
  PROVE  Walked(f)'
<1>1. /\ UNCHANGED <<tok, i, rd, indev, dev, registry, log>> /\ pc' # "crashed"
      /\ pc' = "done" => pc = "done" \/ pc = "start" \/ (pc = "item" /\ i > Len(tok))
  <2>1. CASE ReadFails
    BY <2>1 DEF ReadFails
  <2>2. CASE Incomplete
    BY <2>2 DEF Incomplete
  <2>3. CASE Finish
    BY <2>3 DEF Finish
  <2>4. CASE UNCHANGED vars
    BY <2>4 DEF vars
  <2> QED  BY <2>1, <2>2, <2>3, <2>4
<1>2. Len(dev') = 1 /\ ~dev'[1].queue /\ (tok' = <<>> => rd' = 0)
  BY <1>1 DEF Before, Unregistered
<1>3. ASSUME tok' # <<>>
      PROVE  /\ pc' # "done" /\ i' <= Start(f)
             /\ rd' = IF Has(f, "gateway") /\ i' > At(f, "gateway") THEN 1 ELSE 0
  <2>1. /\ pc # "done" /\ i <= Start(f) /\ tok # <<>>
        /\ rd = IF Has(f, "gateway") /\ i > At(f, "gateway") THEN 1 ELSE 0
    BY <1>1, <1>3 DEF Before
  <2>2. file.content \in Files /\ tok = Tokens(f)
    BY <2>1 DEF TypeInv, Tokenized, TokensRight
  <2>3. Start(f) \in Nat /\ Start(f) < Final(f) /\ Final(f) = Len(tok) /\ i \in Nat
    <3>1. IsFile(f)
      BY <2>2, ConfigAssumption
    <3>2. NamesApart(f) /\ Has(f, "devices") /\ "devices" \in Members
      BY <3>1, Ordered DEF Conventional, Members
    <3>3. Start(f) + 1 \in 2 .. Final(f) /\ Start(f) \in Nat /\ Final(f) \in Nat
      BY <3>1, <3>2, NameStands, Ordered DEF Start, Final
    <3> QED  BY <2>2, <3>3, TypeNow DEF Final
  <2>4. ~(pc = "item" /\ i > Len(tok))
    BY <2>1, <2>3
  <2>5. pc # "start"
    BY <2>1 DEF TypeInv, Numbers
  <2> QED  BY <1>1, <2>1, <2>4, <2>5
<1> QED  BY <1>1, <1>2, <1>3, BeforeKept

LEMMA BeforeStep ==
  ASSUME TypeInv, NEW f, file.content = f, Conventional(f), Before(f), pc # "crashed", [Next]_vars
  PROVE  Walked(f)'
<1>0. indev = 0 /\ Len(dev) = 1 /\ ~dev[1].queue
  BY DEF Before, Unregistered
<1>1. CASE Register \/ RegisterForgets \/ RegisterCrashes
  <2>1. Complete
    BY <1>1, Zenon DEF Register, RegisterForgets, RegisterCrashes
  <2> QED  BY <1>0, <2>1 DEF Complete
<1>2. ASSUME NEW m \in Recognised, m # "devices", Is(m), Skip(1),
             UNCHANGED <<file, tok, indev, dev, registry, log>>,
             m = "gateway" => rd' = 1, m # "gateway" => rd' = rd
      PROVE  Walked(f)'
  <2>1. pc = "name" /\ Len(dev') = 1 /\ ~dev'[1].queue
    BY <1>0, <1>2 DEF Is
  <2> QED  BY <1>2, <2>1, BeforeOver
<1>3. /\ "version" \in Recognised /\ "gateway" \in Recognised /\ "interface" \in Recognised
      /\ "key" \in Recognised
  BY DEF Recognised
<1>4. CASE Version
  <2>1. Is("version") /\ Skip(1) /\ UNCHANGED <<file, tok, rd, indev, dev, registry, log>>
    BY <1>4, Zenon DEF Version
  <2> QED  BY <1>2, <1>3, <2>1
<1>5. CASE Gateway
  <2>1. Is("gateway") /\ Skip(1) /\ rd' = 1 /\ UNCHANGED <<file, tok, indev, dev, registry, log>>
    BY <1>5, Zenon DEF Gateway
  <2> QED  BY <1>2, <1>3, <2>1
<1>6. CASE Interface
  <2>1. Is("interface") /\ Skip(1) /\ UNCHANGED <<file, tok, rd, indev, dev, registry, log>>
    BY <1>6, Zenon DEF Interface
  <2> QED  BY <1>2, <1>3, <2>1
<1>7. CASE KeyNotRead
  <2>1. Is("key") /\ Skip(1) /\ UNCHANGED <<file, tok, rd, indev, dev, registry, log>>
    BY <1>7, Zenon DEF KeyNotRead
  <2> QED  BY <1>2, <1>3, <2>1
<1>8. CASE Id \/ Bcast \/ Key
  <2>1. PICK m \in Settings, t \in Ahead(1) : \E e :
          /\ Is(m) /\ Field(e) /\ (rd # 0 => Writes(m, t.text, dev[rd], e))
          /\ UNCHANGED <<file, tok, rd, indev, registry, log>>
    BY <1>8, FieldIs
  <2>2. PICK e : /\ Field(e) /\ (rd # 0 => Writes(m, t.text, dev[rd], e))
    BY <2>1
  <2>3. pc = "name" /\ Is(m) /\ UNCHANGED <<file, tok, rd, indev, registry, log>>
    BY <2>1 DEF Is
  <2>4. rd = 1
    BY <2>3, BeforeSetting
  <2>5. ~e.queue
    BY <1>0, <2>2, <2>4 DEF Writes
  <2> QED  BY <2>2, <2>3, <2>5, BeforeField
<1>9. CASE Next
  BY <1>1, <1>4, <1>5, <1>6, <1>7, <1>8, <1>9, BeforeUnknown, BeforeDevices, BeforeTokenize,
     BeforeLoop, Zenon DEF Next
<1>10. CASE UNCHANGED vars
  BY <1>10, BeforeLoop
<1> QED  BY <1>9, <1>10
-----------------------------------------------------------------------------
(* Steps behind the beginning of the list *)

\* Nothing is registered, and only the structure of the next device may change.
LEMMA AfterKept ==
  ASSUME TypeInv, NEW f, After(f), UNCHANGED <<tok, rd, indev, registry, log>>,
         pc' # "crashed", pc' # "done", i' > Start(f), Place(f, Len(log), i', pc'),
         Count(f) \in Nat,
         Len(dev') = Len(dev), \A d \in 1 .. Len(dev) : d # rd => dev'[d] = dev[d],
         dev'[rd].queue <=> dev[rd].queue, dev'[rd].live <=> dev[rd].live,
         dev' = dev \/ Len(log) < Count(f),
         Len(log) < Count(f) => Built(f, Len(log), i', dev'[rd])
  PROVE  Walked(f)'
<1> DEFINE n == Len(log)
<1>1. n \in Nat /\ log \in Seq(Entry) /\ Len(dev) \in Nat
  BY TypeNow
<1>2. Structures(f) /\ Declares(f) /\ Recorded(log, dev, registry)
  BY DEF After
<1>3. Len(log)' = n /\ log' = log
  OBVIOUS
<1>4. /\ rd = IF n < Count(f) \/ Count(f) = 0 THEN n + 2 ELSE n + 1
      /\ Len(dev) = rd
  BY <1>2 DEF Structures
<1>5. Recorded(log, dev', registry)
  <2>1. CASE dev' = dev
    BY <1>2, <2>1
  <2>2. CASE n < Count(f)
    <3>1. rd = n + 2
      BY <1>4, <2>2
    <3>2. \A m \in 1 .. n : m + 1 \in 1 .. Len(dev) /\ m + 1 # rd
      BY <1>1, <1>4, <3>1
    <3>3. \A m \in 1 .. n : dev'[m + 1] = dev[m + 1]
      BY <3>2
    <3> QED  BY <1>1, <1>2, <3>3, RecordedKept
  <2> QED  BY <2>1, <2>2
<1>6. Structures(f)'
  <2>1. ~dev'[1].queue
    <3>1. CASE rd = 1
      BY <1>2, <3>1 DEF Structures
    <3>2. CASE rd # 1
      <4>1. 1 \in 1 .. Len(dev)
        BY <1>1, <1>4
      <4> QED  BY <1>2, <3>2, <4>1 DEF Structures
    <3> QED  BY <3>1, <3>2
  <2> QED  BY <1>2, <2>1 DEF Structures
<1>7. Declares(f)'
  BY <1>2 DEF Declares
<1>8. After(f)'
  <2>1. (Len(log) < Count(f) => Built(f, Len(log), i, dev[rd]))'
    BY <1>3
  <2>2. Recorded(log, dev, registry)'
    BY <1>5
  <2>3. Place(f, Len(log), i, pc)'
    BY <1>3
  <2> QED  BY <1>6, <1>7, <2>1, <2>2, <2>3 DEF After
<1> QED  BY <1>8 DEF Walked

\* What a step over a name finds.
LEMMA AfterNow ==
  ASSUME TypeInv, NEW f, file.content = f, Conventional(f), After(f)
  PROVE  /\ IsFile(f) /\ NamesApart(f) /\ tok = Tokens(f) /\ Len(tok) = Final(f)
         /\ i \in Nat /\ i > Start(f) /\ i >= 2 /\ Start(f) \in Nat /\ Final(f) \in Nat
         /\ Count(f) \in Nat /\ Len(log) \in Nat /\ log \in Seq(Entry)
         /\ Place(f, Len(log), i, pc)
         /\ (pc = "name" => i \in 2 .. Final(f) /\ i \in 2 .. Len(tok))
         /\ Len(dev) = rd /\ Len(log) <= Count(f) /\ indev = Count(f) - Len(log)
         /\ (Len(log) < Count(f) => rd = Len(log) + 2 /\ Built(f, Len(log), i, dev[rd]))
<1>1. file.content \in Files /\ tok = Tokens(f) /\ Structures(f)
      /\ Place(f, Len(log), i, pc) /\ i > Start(f)
      /\ (Len(log) < Count(f) => Built(f, Len(log), i, dev[rd]))
  BY DEF After, TypeInv, Tokenized, TokensRight
<1>2. IsFile(f)
  BY <1>1, ConfigAssumption
<1>3. Start(f) \in Nat /\ Start(f) >= 2 /\ Final(f) \in Nat /\ Count(f) \in Nat
  BY <1>2, Ordered
<1>4. i \in Nat /\ i >= 2 /\ Len(log) \in Nat /\ log \in Seq(Entry)
      /\ (pc = "name" => i \in 2 .. Len(tok))
  BY <1>1, <1>3, TypeNow
<1> QED  BY <1>1, <1>2, <1>3, <1>4 DEF Structures, Conventional, Final

\* A setting behind the beginning of the list is the next one of the next device.
LEMMA AfterSetting ==
  ASSUME TypeInv, NEW f, file.content = f, Conventional(f), After(f), pc = "name",
         NEW m \in Settings, Is(m)
  PROVE  LET n == Len(log)
             o == f.devices[n + 1]
         IN  /\ n < Count(f)
             /\ \E j \in 1 .. Len(o) : /\ o[j].name = m /\ o[j].text = tok[i + 1].text
                                       /\ Says(o, j - 1, dev[rd]) /\ Reached(f, n, j, i + 2)
<1> DEFINE n == Len(log)
           N == Count(f)
           o == f.devices[n + 1]
<1>1. IsFile(f) /\ NamesApart(f) /\ tok = Tokens(f) /\ Len(tok) = Final(f)
      /\ i \in Nat /\ i > Start(f) /\ i \in 2 .. Final(f) /\ N \in Nat /\ n \in Nat
      /\ Place(f, n, i, pc)
      /\ (n < N => Built(f, n, i, dev[rd]))
  BY AfterNow
<1>2. tok[i].text = m /\ m \in Recognised /\ m # "version"
  BY DEF Is, Settings, Recognised
<1>3. PICK p, j : /\ InDevice(f, i, p, j)
                  /\ f.devices[p][j].name = m /\ tok[i + 1].text = f.devices[p][j].text
  BY <1>1, <1>2, NamesBehind
<1>4. /\ p \in 1 .. N /\ Obj(f, p + 1) \in Nat /\ i + 2 <= Obj(f, p + 1)
  BY <1>1, <1>3, InDeviceIs
<1>5. n < N
  <2> SUFFICES ASSUME n >= N PROVE FALSE
    BY <1>1
  <2>1. n = N
    BY <1>1 DEF Place
  <2>2. i + 1 >= Obj(f, N + 1)
    BY <1>1, <2>1 DEF Place
  <2> HIDE DEF N, n
  <2>3. p + 1 \in 1 .. (N + 1) /\ N + 1 \in 1 .. (N + 1) /\ p + 1 <= N + 1
    BY <1>1, <1>4
  <2>4. Obj(f, p + 1) <= Obj(f, N + 1) /\ Obj(f, N + 1) \in Nat
    BY <1>1, <2>3, Increasing, Ordered DEF N
  <2> QED  BY <1>1, <1>4, <2>2, <2>4
<1>6. Place(f, n, i, "name")
  BY <1>1
<1>7. /\ p = n + 1 /\ j \in 1 .. Len(o)
      /\ Says(o, j - 1, dev[rd]) /\ Reached(f, n, j, i + 2)
  BY <1>1, <1>3, <1>5, <1>6, BuiltAt
<1>8. o[j].name = m /\ o[j].text = tok[i + 1].text
  BY <1>3, <1>7
<1> QED  BY <1>5, <1>7, <1>8

\* A setting of the next device is read, or passed over.
LEMMA AfterField ==
  ASSUME TypeInv, NEW f, file.content = f, Conventional(f), After(f),
         NEW m \in Settings, Is(m), Skip(1), UNCHANGED <<tok, rd, indev, registry, log>>,
         Len(dev') = Len(dev), \A d \in 1 .. Len(dev) : d # rd => dev'[d] = dev[d],
         \/ Writes(m, tok[i + 1].text, dev[rd], dev'[rd])
         \/ m # "id" /\ dev'[rd] = dev[rd]
  PROVE  Walked(f)'
<1> DEFINE n == Len(log)
           o == f.devices[n + 1]
           e == dev[rd]
           d == dev'[rd]
<1>1. IsFile(f) /\ NamesApart(f) /\ tok = Tokens(f) /\ Len(tok) = Final(f)
      /\ i \in Nat /\ i > Start(f) /\ Start(f) \in Nat /\ Count(f) \in Nat /\ n \in Nat
      /\ Place(f, n, i, pc) /\ (pc = "name" => i \in 2 .. Final(f))
  BY AfterNow
<1>2. pc = "name" /\ tok[i].text = m /\ m \in Recognised
  BY DEF Is, Settings, Recognised
<1>3. n < Count(f)
      /\ \E j \in 1 .. Len(o) : /\ o[j].name = m /\ o[j].text = tok[i + 1].text
                                /\ Says(o, j - 1, dev[rd]) /\ Reached(f, n, j, i + 2)
  BY <1>2, AfterSetting
<1>4. PICK j \in 1 .. Len(o) : /\ o[j].name = m /\ o[j].text = tok[i + 1].text
                               /\ Says(o, j - 1, e) /\ Reached(f, n, j, i + 2)
  BY <1>3
<1>5. n + 1 \in 1 .. Count(f)
  BY <1>1, <1>3
<1>6. /\ o \in Seq(Fields) /\ \A p, q \in 1 .. Len(o) : o[p].name = o[q].name => p = q
      /\ o[j].name = "key" => o[j].text \in GoodKeys \cup ShortKeys
  <2>1. /\ o \in Seq(Fields) /\ \A p, q \in 1 .. Len(o) : o[p].name = o[q].name => p = q
        /\ \A p \in 1 .. Len(o) : o[p].name = "key" => o[p].text \in GoodKeys \cup ShortKeys
    <3> DEFINE k == n + 1
    <3>1. k \in 1 .. Count(f) /\ o = f.devices[k]
      BY <1>5
    <3> HIDE DEF k, o
    <3>2. o \in Seq(Fields)
      BY <1>1, <3>1, DeviceIs
    <3>3. \A p, q \in 1 .. Len(o) : o[p].name = o[q].name => p = q
      <4> SUFFICES ASSUME NEW p \in 1 .. Len(o), NEW q \in 1 .. Len(o), o[p].name = o[q].name
                   PROVE  p = q
        OBVIOUS
      <4>1. f.devices \in Seq(Seq(Fields)) /\ k \in DOMAIN f.devices
        BY <1>1, <3>1 DEF IsFile, Count
      <4>2. p \in DOMAIN o /\ q \in DOMAIN o
        BY <3>2
      <4> QED  BY <3>1, <4>1, <4>2, Zenon DEF Conventional
    <3>4. \A p \in 1 .. Len(o) : o[p].name = "key" => o[p].text \in GoodKeys \cup ShortKeys
      BY <1>1, <3>1, DeviceIs, Zenon
    <3> QED  BY <3>2, <3>3, <3>4
  <2> QED  BY <1>4, <2>1
<1>7. /\ o[j].name = "id" => d.sn = NumberOr(e.sn, o[j].text)
      /\ o[j].name # "id" => d.sn = e.sn
      /\ o[j].name = "key" => d.key = Decoded(o[j].text) \/ d.key = e.key
      /\ o[j].name # "key" => d.key = e.key
      /\ (d.queue <=> e.queue) /\ (d.live <=> e.live)
  <2> HIDE DEF d, e, o
  <2>1. CASE Writes(m, tok[i + 1].text, e, d)
    BY <1>4, <2>1 DEF Writes
  <2>2. CASE m # "id" /\ d = e
    BY <1>4, <2>2
  <2> QED  BY <2>1, <2>2 DEF d, e
<1>8. Says(o, j, d)
  <2> HIDE DEF d, e, o
  <2> QED  BY <1>4, <1>6, <1>7, SaysNext
<1>9. i' = i + 2 /\ pc' = "item"
  BY <1>1 DEF Skip
<1>10. Built(f, n, i', d)
  BY <1>4, <1>8, <1>9 DEF Built
<1>11. Place(f, n, i', pc')
  <2>1. Place(f, n, i, "name") /\ i \in 2 .. Final(f)
    BY <1>1, <1>2
  <2>2. Place(f, n, i + 2, "item")
    BY <1>1, <1>2, <2>1, PlaceOver
  <2> QED  BY <1>9, <2>2
<1>12. i' > Start(f) /\ pc' # "crashed" /\ pc' # "done"
  BY <1>1, <1>9
<1> QED  BY <1>1, <1>3, <1>7, <1>10, <1>11, <1>12, AfterKept

\* The next device, as it was, elsewhere.
LEMMA BuiltElsewhere ==
  ASSUME NEW f, IsFile(f), Conventional(f), Has(f, "version"), At(f, "version") > Start(f),
         NEW n \in Nat, n < Count(f), NEW x \in Nat, x = At(f, "version"), NEW e, Built(f, n, x, e)
  PROVE  Built(f, n, x + 2, e)
<1> DEFINE N == Count(f)
<1>1. N \in Nat
  BY Ordered
<1>2. Obj(f, N + 1) <= x
  BY VersionElsewhere
<1> HIDE DEF N
<1>3. n + 2 \in 1 .. (N + 1) /\ N + 1 \in 1 .. (N + 1) /\ n + 2 <= N + 1
  BY <1>1 DEF N
<1>4. Obj(f, n + 2) <= Obj(f, N + 1) /\ Obj(f, n + 2) \in Nat /\ Obj(f, N + 1) \in Nat
  BY <1>3, Increasing, Ordered DEF N
<1>5. x + 1 >= Obj(f, n + 2) /\ x + 2 \in Nat /\ x + 2 >= x
  BY <1>2, <1>4
<1> QED  BY <1>5, BuiltBehind

LEMMA AfterVersion ==
  ASSUME TypeInv, NEW f, file.content = f, Conventional(f), After(f), Version
  PROVE  Walked(f)'
<1>0. Is("version") /\ Skip(1) /\ UNCHANGED <<tok, rd, indev, dev, registry, log>>
  BY Zenon DEF Version
<1> DEFINE n == Len(log)
<1>1. IsFile(f) /\ NamesApart(f) /\ tok = Tokens(f) /\ Len(tok) = Final(f)
      /\ i \in Nat /\ i > Start(f) /\ Start(f) \in Nat /\ Count(f) \in Nat /\ n \in Nat
      /\ Place(f, n, i, pc) /\ (pc = "name" => i \in 2 .. Final(f))
      /\ (n < Count(f) => Built(f, n, i, dev[rd]))
  BY AfterNow
<1>2. pc = "name" /\ tok[i].text = "version" /\ "version" \in Recognised /\ "version" \in Named
  BY <1>0 DEF Is, Recognised, Named
<1>3. tok # <<>>
  BY <1>2, NameHasTokens
<1>4. Has(f, "version") /\ i = At(f, "version")
  BY <1>0, <1>1, <1>2, <1>3, SettingFound
<1>5. i' = i + 2 /\ pc' = "item"
  BY <1>0, <1>1 DEF Skip
<1>6. n < Count(f) => Built(f, n, i', dev'[rd])
  BY <1>0, <1>1, <1>4, <1>5, BuiltElsewhere
<1>7. Place(f, n, i', pc')
  <2>1. Place(f, n, i, "name") /\ i \in 2 .. Final(f) /\ Tokens(f)[i].text \in Recognised
    BY <1>1, <1>2
  <2>2. Place(f, n, i + 2, "item")
    BY <1>1, <2>1, PlaceOver
  <2> QED  BY <1>5, <2>2
<1>8. i' > Start(f) /\ pc' # "crashed" /\ pc' # "done"
  BY <1>1, <1>5
<1> QED  BY <1>0, <1>1, <1>6, <1>7, <1>8, AfterKept

LEMMA AfterUnknown ==
  ASSUME TypeInv, NEW f, file.content = f, Conventional(f), After(f), Unknown
  PROVE  Walked(f)'
<1>0. /\ pc = "name" /\ Skip(0) /\ UNCHANGED <<tok, rd, indev, dev, registry, log>>
      /\ \A m \in Recognised : ~Is(m)
  BY Zenon DEF Unknown
<1> DEFINE n == Len(log)
<1>1. IsFile(f) /\ NamesApart(f) /\ tok = Tokens(f) /\ Len(tok) = Final(f)
      /\ i \in Nat /\ i > Start(f) /\ Start(f) \in Nat /\ Count(f) \in Nat /\ n \in Nat
      /\ Place(f, n, i, pc) /\ (pc = "name" => i \in 2 .. Final(f))
      /\ (n < Count(f) => Built(f, n, i, dev[rd]))
  BY AfterNow
<1>2. i \in 2 .. Final(f)
  BY <1>0, <1>1
<1>3. Tokens(f)[i].text \notin Recognised
  <2> SUFFICES ASSUME Tokens(f)[i].text \in Recognised PROVE FALSE
    OBVIOUS
  <2>1. i \in 2 .. Len(Tokens(f))
    BY <1>2 DEF Final
  <2>2. Tokens(f)[i].type = "string"
    BY <1>1, <2>1, SettingIs
  <2>3. ~Is(Tokens(f)[i].text)
    BY <1>0
  <2> QED  BY <1>0, <1>1, <2>2, <2>3 DEF Is
<1>4. i' = i + 1 /\ pc' = "item"
  BY <1>0, <1>1 DEF Skip
<1>5. n < Count(f) => Built(f, n, i', dev'[rd])
  BY <1>0, <1>1, <1>3, <1>4, BuiltPast
<1>6. Place(f, n, i', pc')
  <2>1. Place(f, n, i, "name")
    BY <1>0, <1>1
  <2>2. Place(f, n, i + 1, "item")
    BY <1>1, <1>2, <1>3, <2>1, PlaceUnknown
  <2> QED  BY <1>4, <2>2
<1>7. i' > Start(f) /\ pc' # "crashed" /\ pc' # "done"
  BY <1>1, <1>4
<1> QED  BY <1>0, <1>1, <1>5, <1>6, <1>7, AfterKept

\* The gateway and the list are not found again.
LEMMA AfterNames ==
  ASSUME TypeInv, NEW f, file.content = f, Conventional(f), After(f)
  PROVE  ~Is("gateway") /\ ~Is("devices")
<1>1. IsFile(f) /\ NamesApart(f) /\ i \in Nat /\ i > Start(f) /\ Start(f) \in Nat
  BY AfterNow
<1>2. "devices" \in Recognised /\ "gateway" \in Recognised /\ "devices" \in Named
      /\ "gateway" \in Named
  BY DEF Recognised, Named
<1>3. ~Is("gateway")
  <2> SUFFICES ASSUME Is("gateway") PROVE FALSE
    OBVIOUS
  <2>1. pc = "name" /\ tok # <<>>
    BY NameHasTokens DEF Is
  <2>2. Has(f, "gateway") /\ i = At(f, "gateway")
    BY <1>1, <1>2, <2>1, SettingFound
  <2>3. i + 2 <= Ends(f, "gateway") /\ Ends(f, "gateway") <= Start(f) /\ Ends(f, "gateway") \in Nat
    BY <1>1, <2>2, GatewayBefore
  <2> QED  BY <1>1, <2>3
<1>4. ~Is("devices")
  <2> SUFFICES ASSUME Is("devices") PROVE FALSE
    OBVIOUS
  <2>1. pc = "name" /\ tok # <<>>
    BY NameHasTokens DEF Is
  <2>2. i = At(f, "devices")
    BY <1>1, <1>2, <2>1, SettingFound
  <2> QED  BY <1>1, <2>2 DEF Start
<1> QED  BY <1>3, <1>4

\* The loop goes on without a registration, or ends.
LEMMA AfterIncomplete ==
  ASSUME TypeInv, NEW f, file.content = f, Conventional(f), After(f), Incomplete
  PROVE  Walked(f)'
<1>0. /\ pc = "item" /\ i <= Len(tok) /\ ~Complete /\ pc' = "name"
      /\ UNCHANGED <<tok, i, rd, indev, dev, registry, log>>
  BY Zenon DEF Incomplete
<1> DEFINE n == Len(log)
<1>1. IsFile(f) /\ tok = Tokens(f) /\ Len(tok) = Final(f)
      /\ i \in Nat /\ i >= 2 /\ i > Start(f) /\ Count(f) \in Nat /\ n \in Nat /\ Final(f) \in Nat
      /\ Place(f, n, i, pc) /\ indev = Count(f) - n /\ n <= Count(f)
      /\ (n < Count(f) => Built(f, n, i, dev[rd]))
  BY AfterNow
<1>2. ~(n < Count(f) /\ (Tokens(f)[i].type = "object" \/ i = Final(f)))
  BY <1>0, <1>1 DEF Complete
<1>3. Place(f, n, i, "item") /\ i \in 2 .. Final(f)
  BY <1>0, <1>1
<1>4. Place(f, n, i, "name")
  BY <1>1, <1>2, <1>3, PlaceIncomplete
<1>5. Place(f, n, i', pc') /\ pc' # "crashed" /\ pc' # "done"
  BY <1>0, <1>4
<1> QED  BY <1>0, <1>1, <1>5, AfterKept

LEMMA PlaceDone ==
  ASSUME NEW f, NEW n, NEW x, Place(f, n, x, "item")
  PROVE  Place(f, n, x, "done")
<1> DEFINE c == "item"
           p == "done"
<1>1. p # "item" /\ p # "name" /\ c = "item" /\ c # "name" /\ Place(f, n, x, c)
  OBVIOUS
<1> HIDE DEF c, p
<1>2. Place(f, n, x, p)
  BY <1>1 DEF Place
<1> QED  BY <1>2 DEF p

LEMMA AfterFinish ==
  ASSUME TypeInv, NEW f, file.content = f, Conventional(f), After(f), Finish
  PROVE  Walked(f)'
<1>0. /\ pc = "item" /\ i > Len(tok) /\ pc' = "done"
      /\ UNCHANGED <<tok, i, rd, indev, dev, registry, log>>
  BY Zenon DEF Finish
<1>1. Len(tok) = Final(f)
  BY AfterNow
<1>2. Place(f, Len(log), i, "done")
  <2>1. Place(f, Len(log), i, "item")
    BY <1>0 DEF After
  <2> QED  BY <2>1, PlaceDone
<1>3. Structures(f)' /\ Declares(f)' /\ Recorded(log, dev, registry)'
  BY <1>0 DEF After, Structures, Declares, Recorded
<1>4. Place(f, Len(log), i, pc)'
  BY <1>0, <1>2
<1>5. (Len(log) < Count(f) => Built(f, Len(log), i, dev[rd]))'
  BY <1>0 DEF After
<1>6. tok' # <<>> /\ i' > Start(f) /\ i' > Final(f) /\ pc' # "crashed"
  BY <1>0, <1>1 DEF After
<1> QED  BY <1>3, <1>4, <1>5, <1>6 DEF After, Walked

-----------------------------------------------------------------------------
(* Registrations *)

\* Where a device is registered its structure says what its object declares.
LEMMA RegisterAt ==
  ASSUME TypeInv, NEW f, file.content = f, Conventional(f), After(f),
         pc = "item", i <= Len(tok), Complete
  PROVE  LET n == Len(log)
             o == f.devices[n + 1]
         IN  /\ n < Count(f) /\ rd = n + 2
             /\ Place(f, n + 1, i, "name")
             /\ dev[rd].sn = Declared(o, Blank).sn
             /\ dev[rd].key \in {Declared(o, Blank).key, Blank}
             /\ n + 1 < Count(f) => Built(f, n + 1, i, Zeroed)
<1> DEFINE n == Len(log)
           N == Count(f)
           S == At(f, "site")
<1>1. IsFile(f) /\ tok = Tokens(f) /\ Len(tok) = Final(f)
      /\ i \in Nat /\ i >= 2 /\ N \in Nat /\ n \in Nat /\ Final(f) \in Nat
      /\ Place(f, n, i, pc) /\ indev = N - n /\ n <= N
      /\ (n < N => rd = n + 2 /\ Built(f, n, i, dev[rd]))
  BY AfterNow
<1>2. n < N /\ (Tokens(f)[i].type = "object" \/ i = Final(f))
  BY <1>1 DEF Complete
<1>3. Place(f, n, i, "item") /\ i \in 2 .. Final(f)
  BY <1>1
<1>4. Place(f, n + 1, i, "name")
  BY <1>1, <1>2, <1>3, PlaceRegister
<1>5. \/ n + 1 < N /\ i = Obj(f, n + 2)
      \/ n + 1 = N /\ ClosedBySite(f) /\ i = S + 1
      \/ n + 1 = N /\ i = Final(f)
  BY <1>1, <1>2, <1>3, RegistersAt
<1>6. /\ \A m \in 1 .. (N + 1) : Obj(f, m) \in Nat
      /\ Obj(f, N + 1) <= Final(f) + 1
      /\ ClosedBySite(f) => S \in Nat /\ Obj(f, N + 1) <= S
  BY <1>1, Ordered, SiteBehind
<1>7. i + 1 >= Obj(f, n + 2)
  <2> HIDE DEF n, N, S
  <2>1. n + 2 \in 1 .. (N + 1) /\ N + 1 \in 1 .. (N + 1) /\ (n + 1 = N => n + 2 = N + 1)
    BY <1>1, <1>2
  <2> QED  BY <1>1, <1>5, <1>6, <2>1
<1>8. /\ dev[rd].sn = Declared(f.devices[n + 1], Blank).sn
      /\ dev[rd].key \in {Declared(f.devices[n + 1], Blank).key, Blank}
  BY <1>1, <1>2, <1>7, BuiltBehind
<1>9. n + 1 < N => Built(f, n + 1, i, Zeroed)
  <2> SUFFICES ASSUME n + 1 < N PROVE Built(f, n + 1, i, Zeroed)
    OBVIOUS
  <2>1. n + 1 \in Nat /\ (n + 1) + 1 = n + 2
    BY <1>1
  <2>2. i = Obj(f, (n + 1) + 1)
    BY <1>5, <2>1
  <2> HIDE DEF n
  <2> QED  BY <1>1, <2>1, <2>2, BuiltBegins
<1> QED  BY <1>1, <1>2, <1>4, <1>8, <1>9

\* What is in the registry are the structures of registered devices.
LEMMA RegistryHolds ==
  ASSUME TypeInv, NEW f, After(f), NEW a \in DOMAIN registry
  PROVE  registry[a] \in 2 .. (Len(log) + 1)
<1>1. Recorded(log, dev, registry) /\ Len(log) \in Nat
  BY TypeNow DEF After
<1>2. PICK m \in 1 .. Len(log) : registry[a] = m + 1
  BY <1>1 DEF Recorded
<1> QED  BY <1>1, <1>2

\* A device is registered: s is what the structures are then, but for the next one's.
LEMMA Registering ==
  ASSUME TypeInv, NEW f, file.content = f, Conventional(f), After(f),
         pc = "item", i <= Len(tok), Complete,
         NEW s \in Seq(Device), Len(s) = Len(dev), NEW b \in BOOLEAN,
         dev' = IF indev > 1 THEN Append(s, Zeroed) ELSE s,
         rd' = IF indev > 1 THEN Len(dev) + 1 ELSE rd,
         indev' = indev - 1, pc' = "name",
         log' = Append(log, [sn |-> dev[rd].sn, key |-> dev[rd].key, stored |-> b]),
         UNCHANGED <<file, tok, i>>,
         s[1].queue <=> dev[1].queue,
         Recorded(log', s, registry')
  PROVE  Walked(f)'
<1> DEFINE n == Len(log)
           N == Count(f)
           e == [sn |-> dev[rd].sn, key |-> dev[rd].key, stored |-> b]
           z == Zeroed
<1>1. IsFile(f) /\ tok = Tokens(f) /\ Len(tok) = Final(f) /\ i > Start(f)
      /\ N \in Nat /\ n \in Nat /\ log \in Seq(Entry)
      /\ Len(dev) = rd /\ indev = N - n /\ n <= N
  BY AfterNow
<1>2. n < N /\ rd = n + 2 /\ Place(f, n + 1, i, "name")
      /\ dev[rd].sn = Declared(f.devices[n + 1], Blank).sn
      /\ dev[rd].key \in {Declared(f.devices[n + 1], Blank).key, Blank}
      /\ (n + 1 < N => Built(f, n + 1, i, z))
  BY RegisterAt
<1>3. e.sn = dev[rd].sn /\ e.key = dev[rd].key /\ log' = Append(log, e)
  OBVIOUS
<1>4. z \in Device /\ ~z.queue /\ z.live
  BY ZeroedDevice DEF Zeroed
<1>5. ~dev[1].queue
  BY DEF After, Structures
<1> HIDE DEF e, z
<1>6. Len(log') = n + 1 /\ log'[n + 1] = e /\ \A m \in 1 .. n : log'[m] = log[m]
  BY <1>1, <1>3
<1>7. ASSUME Structures(f)', Recorded(log, dev, registry)',
             (Len(log) < Count(f) => Built(f, Len(log), i, dev[rd]))'
      PROVE  Walked(f)'
  <2>1. Declares(f)'
    <3>1. \A m \in 1 .. n : /\ log[m].sn = Declared(f.devices[m], Blank).sn
                            /\ log[m].key \in {Declared(f.devices[m], Blank).key, Blank}
      BY DEF After, Declares
    <3>2. \A m \in 1 .. (n + 1) : m \in 1 .. n \/ m = n + 1
      BY <1>1
    <3>3. \A m \in 1 .. (n + 1) : /\ log'[m].sn = Declared(f.devices[m], Blank).sn
                                  /\ log'[m].key \in {Declared(f.devices[m], Blank).key, Blank}
      BY <1>2, <1>3, <1>6, <3>1, <3>2
    <3> QED  BY <1>6, <3>3 DEF Declares
  <2>2. Place(f, Len(log), i, pc)'
    BY <1>2, <1>6
  <2>3. tok' # <<>> /\ i' > Start(f) /\ pc' # "done" /\ pc' # "crashed"
    BY <1>1 DEF After
  <2> QED  BY <1>7, <2>1, <2>2, <2>3 DEF After, Walked
<1>8. CASE indev > 1
  <2>1. dev' = Append(s, z) /\ rd' = n + 3 /\ n + 1 < N /\ (n + 1) + 2 = n + 3
    BY <1>1, <1>2, <1>8 DEF z
  <2>2. Len(dev') = n + 3 /\ dev'[n + 3] = z /\ \A d \in 1 .. (n + 2) : dev'[d] = s[d]
    BY <1>1, <1>2, <1>4, <2>1
  <2>3. dev'[1] = s[1]
    <3>1. 1 \in 1 .. (n + 2)
      BY <1>1
    <3> QED  BY <2>2, <3>1
  <2>4. Structures(f)'
    <3>1. /\ Len(log') <= N /\ indev' = N - Len(log') /\ Len(dev') = rd'
          /\ rd' = Len(log') + 2 /\ Len(log') < N
      BY <1>1, <1>6, <2>1, <2>2
    <3>2. ~dev'[1].queue /\ ~dev'[rd'].queue /\ dev'[rd'].live
      BY <1>4, <1>5, <2>1, <2>2, <2>3
    <3> QED  BY <3>1, <3>2 DEF Structures
  <2>5. Recorded(log', dev', registry')
    <3>1. \A m \in 1 .. (n + 1) : m + 1 \in 1 .. (n + 2)
      BY <1>1
    <3>2. \A m \in 1 .. (n + 1) : dev'[m + 1] = s[m + 1]
      BY <2>2, <3>1
    <3>3. log' \in Seq(Entry)
      <4>1. dev[rd] \in Device
        <5>1. rd \in 1 .. Len(dev) /\ dev \in Seq(Device)
          BY <1>1, <1>2, TypeNow
        <5> QED  BY <5>1
      <4>2. e \in Entry
        BY <4>1, EntryIs DEF e
      <4> QED  BY <1>1, <1>3, <4>2
    <3> QED  BY <1>6, <3>2, <3>3, RecordedKept
  <2>6. (Len(log) < Count(f) => Built(f, Len(log), i, dev[rd]))'
    BY <1>2, <1>6, <2>1, <2>2
  <2> QED  BY <1>7, <2>4, <2>5, <2>6
<1>9. CASE ~(indev > 1)
  <2>1. dev' = s /\ rd' = n + 2 /\ n + 1 = N /\ Len(s) = n + 2
    BY <1>1, <1>2, <1>9
  <2>2. Structures(f)'
    <3>1. /\ Len(log') <= N /\ indev' = N - Len(log') /\ Len(dev') = rd'
          /\ rd' = Len(log') + 1 /\ ~(Len(log') < N) /\ N # 0
      BY <1>1, <1>6, <2>1
    <3>2. ~dev'[1].queue
      BY <1>5, <2>1
    <3> QED  BY <3>1, <3>2 DEF Structures
  <2>3. (Len(log) < Count(f) => Built(f, Len(log), i, dev[rd]))'
    BY <1>6, <2>1
  <2> QED  BY <1>7, <2>1, <2>2, <2>3
<1> QED  BY <1>8, <1>9

\* A structure that is replaced is freed, and no other changes.
LEMMA FreedOnly ==
  ASSUME NEW s \in Seq(Device), NEW c \in 1 .. Len(s), NEW t, t = [s EXCEPT ![c].live = FALSE]
  PROVE  /\ \A k \in 1 .. Len(s) :
              /\ t[k].sn = s[k].sn /\ t[k].key = s[k].key /\ t[k].addr = s[k].addr
              /\ (t[k].queue <=> s[k].queue)
              /\ (t[k].live <=> s[k].live /\ k # c)
         /\ \A k \in 1 .. Len(s) : k # c => t[k] = s[k]
<1> DEFINE e == [s[c] EXCEPT !.live = FALSE]
<1>1. s[c] \in Device
  OBVIOUS
<1>2. /\ e.sn = s[c].sn /\ e.key = s[c].key /\ e.addr = s[c].addr /\ e.queue = s[c].queue
      /\ e.live = FALSE
  BY <1>1 DEF Device
<1>3. t[c] = e /\ \A k \in 1 .. Len(s) : k # c => t[k] = s[k]
  <2>1. t = [s EXCEPT ![c] = e]
    OBVIOUS
  <2> HIDE DEF e
  <2> QED  BY <2>1
<1> HIDE DEF e
<1>4. ~e.live
  BY <1>2
<1> QED  BY <1>2, <1>3, <1>4

\* rfAddDevice: the structure is completed, one with its address is freed.
LEMMA AddDeviceIs ==
  ASSUME TypeInv, rd \in 1 .. Len(dev), NEW a, a = Hash[dev[rd].sn],
         a \in DOMAIN registry => registry[a] \in 1 .. Len(dev) /\ registry[a] # rd
  PROVE  LET s == rfAddDevice(rd).dev IN
         /\ s \in Seq(Device) /\ Len(s) = Len(dev)
         /\ \A k \in 1 .. Len(dev) : k # rd =>
              /\ s[k].sn = dev[k].sn /\ s[k].key = dev[k].key /\ s[k].addr = dev[k].addr
              /\ (s[k].queue <=> dev[k].queue)
              /\ (s[k].live <=> dev[k].live /\ ~(a \in DOMAIN registry /\ registry[a] = k))
         /\ s[rd].sn = dev[rd].sn /\ s[rd].key = dev[rd].key /\ s[rd].addr = a /\ s[rd].queue
         /\ (s[rd].live <=> dev[rd].live)
<1> DEFINE e == Completed(rd)
           t == [dev EXCEPT ![rd] = e]
           c == registry[a]
           s == rfAddDevice(rd).dev
<1>1. dev \in Seq(Device) /\ Len(dev) \in Nat
  BY TypeNow
<1>2. e \in Device
  BY <1>1, CompletedIs
<1>3. /\ e.sn = dev[rd].sn /\ e.key = dev[rd].key /\ e.addr = a /\ e.queue
      /\ e.live = dev[rd].live
  BY DEF Completed
<1>4. s = IF a \in DOMAIN registry THEN [t EXCEPT ![c].live = FALSE] ELSE t
  BY DEF rfAddDevice
<1> HIDE DEF e, s, c
<1>5. /\ t \in Seq(Device) /\ Len(t) = Len(dev) /\ t[rd] = e
      /\ \A k \in 1 .. Len(dev) : k # rd => t[k] = dev[k]
  BY <1>1, <1>2
<1> HIDE DEF t
<1>6. CASE a \in DOMAIN registry
  <2>1. s = [t EXCEPT ![c].live = FALSE] /\ c \in 1 .. Len(t) /\ c # rd
    BY <1>4, <1>5, <1>6 DEF c
  <2>2. s \in Seq(Device) /\ Len(s) = Len(t)
    BY <1>5, <2>1, FreedIs
  <2>3. /\ \A k \in 1 .. Len(t) :
             /\ s[k].sn = t[k].sn /\ s[k].key = t[k].key /\ s[k].addr = t[k].addr
             /\ (s[k].queue <=> t[k].queue)
             /\ (s[k].live <=> t[k].live /\ k # c)
        /\ \A k \in 1 .. Len(t) : k # c => s[k] = t[k]
    BY <1>5, <2>1, FreedOnly
  <2>4. s[rd] = e
    BY <1>5, <2>1, <2>3
  <2> QED  BY <1>3, <1>5, <1>6, <2>2, <2>3, <2>4 DEF s, c
<1>7. CASE a \notin DOMAIN registry
  <2>1. s = t
    BY <1>4, <1>7
  <2> QED  BY <1>3, <1>5, <1>7, <2>1 DEF s
<1> QED  BY <1>6, <1>7

LEMMA AfterRegister ==
  ASSUME TypeInv, NEW f, file.content = f, Conventional(f), After(f), Register
  PROVE  Walked(f)'
<1> DEFINE n == Len(log)
           a == Hash[dev[rd].sn]
           s == rfAddDevice(rd).dev
           e == [sn |-> dev[rd].sn, key |-> dev[rd].key, stored |-> TRUE]
<1>0. /\ pc = "item" /\ i <= Len(tok) /\ Complete
      /\ registry' = rfAddDevice(rd).registry
      /\ dev' = IF indev > 1 THEN Append(s, Zeroed) ELSE s
      /\ rd' = IF indev > 1 THEN Len(dev) + 1 ELSE rd
      /\ indev' = indev - 1 /\ pc' = "name"
      /\ log' = Append(log, e)
      /\ UNCHANGED <<file, tok, i>>
  BY Zenon DEF Register
<1>1. n \in Nat /\ log \in Seq(Entry) /\ Len(dev) = rd
  BY AfterNow
<1>2. rd = n + 2
  BY <1>0, RegisterAt
<1>3. \A b \in DOMAIN registry : registry[b] \in 2 .. (n + 1)
  BY RegistryHolds
<1>4. rd \in 1 .. Len(dev) /\ 1 \in 1 .. Len(dev) /\ 1 # rd
      /\ (a \in DOMAIN registry => registry[a] \in 1 .. Len(dev) /\ registry[a] # rd)
  BY <1>1, <1>2, <1>3
<1>5. registry' = Entered(a, rd)
  BY <1>0 DEF rfAddDevice
<1>6. /\ dev[rd].live /\ Recorded(log, dev, registry)
  <2>1. n < Count(f)
    BY <1>0, RegisterAt
  <2> QED  BY <2>1 DEF After, Structures
<1>7. /\ s \in Seq(Device) /\ Len(s) = Len(dev)
      /\ \A k \in 1 .. Len(dev) : k # rd =>
           /\ s[k].sn = dev[k].sn /\ s[k].key = dev[k].key /\ s[k].addr = dev[k].addr
           /\ (s[k].queue <=> dev[k].queue)
           /\ (s[k].live <=> dev[k].live /\ ~(a \in DOMAIN registry /\ registry[a] = k))
      /\ s[rd].sn = dev[rd].sn /\ s[rd].key = dev[rd].key /\ s[rd].addr = a /\ s[rd].queue
      /\ (s[rd].live <=> dev[rd].live)
  <2> HIDE DEF a
  <2>1. a = Hash[dev[rd].sn]
    BY DEF a
  <2> QED  BY <1>4, <2>1, AddDeviceIs
<1>8. e.sn = dev[rd].sn /\ e.key = dev[rd].key /\ e.stored = TRUE /\ a = Hash[e.sn]
  OBVIOUS
<1>9. /\ DOMAIN registry' = DOMAIN registry \cup {a} /\ registry'[a] = rd
      /\ \A c \in DOMAIN registry : c # a => registry'[c] = registry[c]
  <2> HIDE DEF a
  <2>1. registry' = [b \in DOMAIN registry \cup {a} |-> IF b = a THEN rd ELSE registry[b]]
    BY <1>5, Zenon DEF Entered
  <2> QED  BY <2>1
<1> DEFINE yes == TRUE
<1>10. yes \in BOOLEAN /\ yes /\ (e.stored <=> yes)
  BY <1>8
<1> HIDE DEF a, s, e, yes
<1>11. Recorded(Append(log, e), s, registry')
  <2>1. \A m \in 1 .. n : m + 1 \in 1 .. Len(dev) /\ m + 1 # rd
    BY <1>1, <1>2
  <2>2. \A m \in 1 .. n :
          /\ s[m + 1].sn = dev[m + 1].sn /\ s[m + 1].key = dev[m + 1].key
          /\ s[m + 1].addr = dev[m + 1].addr /\ (s[m + 1].queue <=> dev[m + 1].queue)
          /\ s[m + 1].live <=>
               dev[m + 1].live /\ ~(yes /\ a \in DOMAIN registry /\ registry[a] = m + 1)
    BY <1>7, <1>10, <2>1
  <2>3. /\ DOMAIN registry' = IF yes THEN DOMAIN registry \cup {a} ELSE DOMAIN registry
        /\ yes => registry'[a] = rd
        /\ \A c \in DOMAIN registry : ~(yes /\ c = a) => registry'[c] = registry[c]
    BY <1>9, <1>10
  <2>4. s[rd].live
    BY <1>6, <1>7
  <2>5. Adds(log, dev, registry, yes, e, s, registry')
    BY <1>2, <1>7, <1>8, <1>10, <2>2, <2>3, <2>4 DEF Adds
  <2> QED  BY <1>1, <1>6, <1>10, <2>5, RecordedNext
<1>12. s[1].queue <=> dev[1].queue
  BY <1>4, <1>7
<1>13. log' = Append(log, [sn |-> dev[rd].sn, key |-> dev[rd].key, stored |-> yes])
  BY <1>0 DEF e, yes
<1>14. Recorded(log', s, registry')
  BY <1>0, <1>11
<1> QED  BY <1>0, <1>7, <1>10, <1>12, <1>13, <1>14, Registering

\* No memory: the structure is completed, and in no registry.
LEMMA AfterRegisterForgets ==
  ASSUME TypeInv, NEW f, file.content = f, Conventional(f), After(f), RegisterForgets
  PROVE  Walked(f)'
<1> DEFINE n == Len(log)
           a == Hash[dev[rd].sn]
           s == [dev EXCEPT ![rd] = Completed(rd)]
           e == [sn |-> dev[rd].sn, key |-> dev[rd].key, stored |-> FALSE]
           d == Completed(rd)
<1>0. /\ pc = "item" /\ i <= Len(tok) /\ Complete
      /\ dev' = IF indev > 1 THEN Append(s, Zeroed) ELSE s
      /\ rd' = IF indev > 1 THEN Len(dev) + 1 ELSE rd
      /\ indev' = indev - 1 /\ pc' = "name"
      /\ log' = Append(log, e)
      /\ UNCHANGED <<file, tok, i, registry>>
  BY Zenon DEF RegisterForgets
<1>1. n \in Nat /\ log \in Seq(Entry) /\ Len(dev) = rd /\ dev \in Seq(Device)
  BY AfterNow, TypeNow
<1>2. rd = n + 2
  BY <1>0, RegisterAt
<1>3. rd \in 1 .. Len(dev) /\ 1 \in 1 .. Len(dev) /\ 1 # rd
  BY <1>1, <1>2
<1>4. /\ d.sn = dev[rd].sn /\ d.key = dev[rd].key /\ d.addr = a /\ d.queue
      /\ d.live = dev[rd].live
  BY DEF Completed
<1>5. d \in Device
  BY <1>1, <1>3, CompletedIs
<1>6. /\ dev[rd].live /\ Recorded(log, dev, registry)
  <2>1. n < Count(f)
    BY <1>0, RegisterAt
  <2> QED  BY <2>1 DEF After, Structures
<1>7. e.sn = dev[rd].sn /\ e.key = dev[rd].key /\ e.stored = FALSE /\ a = Hash[e.sn]
  OBVIOUS
<1> DEFINE no == FALSE
<1>8. no \in BOOLEAN /\ ~no /\ (e.stored <=> no)
  BY <1>7
<1> HIDE DEF d, a, e, no
<1>9. /\ s \in Seq(Device) /\ Len(s) = Len(dev) /\ s[rd] = d
      /\ \A k \in 1 .. Len(dev) : k # rd => s[k] = dev[k]
  BY <1>1, <1>3, <1>5 DEF d
<1> HIDE DEF s
<1>10. Recorded(Append(log, e), s, registry')
  <2>1. \A m \in 1 .. n : m + 1 \in 1 .. Len(dev) /\ m + 1 # rd
    BY <1>1, <1>2
  <2>2. \A m \in 1 .. n : s[m + 1] = dev[m + 1]
    BY <1>9, <2>1
  <2>3. \A m \in 1 .. n :
          /\ s[m + 1].sn = dev[m + 1].sn /\ s[m + 1].key = dev[m + 1].key
          /\ s[m + 1].addr = dev[m + 1].addr /\ (s[m + 1].queue <=> dev[m + 1].queue)
          /\ s[m + 1].live <=>
               dev[m + 1].live /\ ~(no /\ a \in DOMAIN registry /\ registry[a] = m + 1)
    BY <1>8, <2>2
  <2>4. /\ DOMAIN registry' = IF no THEN DOMAIN registry \cup {a} ELSE DOMAIN registry
        /\ no => registry'[a] = rd
        /\ \A c \in DOMAIN registry : ~(no /\ c = a) => registry'[c] = registry[c]
    BY <1>0, <1>8
  <2>5. s[rd].live /\ s[rd].sn = dev[rd].sn /\ s[rd].key = dev[rd].key /\ s[rd].addr = a
        /\ s[rd].queue
    BY <1>4, <1>6, <1>9
  <2>6. Adds(log, dev, registry, no, e, s, registry')
    BY <1>2, <1>7, <1>8, <2>3, <2>4, <2>5 DEF Adds
  <2> QED  BY <1>1, <1>6, <1>8, <2>6, RecordedNext
<1>11. s[1].queue <=> dev[1].queue
  BY <1>3, <1>9
<1>12. log' = Append(log, [sn |-> dev[rd].sn, key |-> dev[rd].key, stored |-> no])
  BY <1>0 DEF e, no
<1>13. Recorded(log', s, registry')
  BY <1>0, <1>10
<1> QED  BY <1>0, <1>8, <1>9, <1>11, <1>12, <1>13, Registering

\* The process does not end: what is replaced is no variable of main's.
LEMMA AfterCrashes ==
  ASSUME TypeInv, NEW f, file.content = f, Conventional(f), After(f)
  PROVE  ~RegisterCrashes
<1> SUFFICES ASSUME RegisterCrashes PROVE FALSE
  OBVIOUS
<1>1. PICK a \in DOMAIN registry : registry[a] = 1
  BY DEF RegisterCrashes, FreesGateway
<1>2. registry[a] \in 2 .. (Len(log) + 1)
  BY RegistryHolds
<1> QED  BY <1>1, <1>2

LEMMA AfterStep ==
  ASSUME TypeInv, NEW f, file.content = f, Conventional(f), After(f), pc # "crashed", [Next]_vars
  PROVE  Walked(f)'
<1>0. tok # <<>> /\ pc # "start"
  <2>1. tok # <<>>
    BY DEF After
  <2> QED  BY <2>1 DEF TypeInv, Numbers
<1>1. ~ReadFails /\ ~Tokenize
  BY <1>0, Zenon DEF ReadFails, Tokenize
<1>2. ~RegisterCrashes
  BY AfterCrashes
<1>3. ~Gateway /\ ~Devices
  <2>1. ~Is("gateway") /\ ~Is("devices")
    BY AfterNames
  <2> QED  BY <2>1, Zenon DEF Gateway, Devices
<1>4. Len(dev) \in Nat /\ Len(dev) = rd
  BY AfterNow, TypeNow
<1>5. CASE Interface
  <2>1. Is("interface") /\ Skip(1) /\ UNCHANGED <<tok, rd, indev, dev, registry, log>>
    BY <1>5, Zenon DEF Interface
  <2>2. "interface" \in Settings /\ "interface" # "id"
    BY DEF Settings
  <2>3. Len(dev') = Len(dev) /\ dev'[rd] = dev[rd] /\ \A d \in 1 .. Len(dev) : dev'[d] = dev[d]
    BY <2>1
  <2> QED  BY <2>1, <2>2, <2>3, AfterField
<1>6. CASE KeyNotRead
  <2>1. Is("key") /\ Skip(1) /\ UNCHANGED <<tok, rd, indev, dev, registry, log>>
    BY <1>6, Zenon DEF KeyNotRead
  <2>2. "key" \in Settings /\ "key" # "id"
    BY DEF Settings
  <2>3. Len(dev') = Len(dev) /\ dev'[rd] = dev[rd] /\ \A d \in 1 .. Len(dev) : dev'[d] = dev[d]
    BY <2>1
  <2> QED  BY <2>1, <2>2, <2>3, AfterField
<1>7. CASE Id \/ Bcast \/ Key
  <2>1. PICK m \in Settings, t \in Ahead(1) : \E e :
          /\ Is(m) /\ Field(e) /\ (rd # 0 => Writes(m, t.text, dev[rd], e))
          /\ UNCHANGED <<file, tok, rd, indev, registry, log>>
    BY <1>7, FieldIs
  <2>2. PICK e : Field(e) /\ (rd # 0 => Writes(m, t.text, dev[rd], e))
    BY <2>1
  <2>3. pc = "name" /\ Is(m) /\ UNCHANGED <<tok, rd, indev, registry, log>>
    BY <2>1 DEF Is
  <2>4. Len(log) < Count(f) /\ Len(log) \in Nat /\ IsFile(f) /\ NamesApart(f)
    BY <2>3, AfterSetting, AfterNow
  <2>5. rd # 0 /\ rd \in 1 .. Len(dev)
    BY <1>4, <2>4, AfterNow
  <2>6. m \in Recognised
    BY DEF Settings, Recognised
  <2>7. t = tok[i + 1]
    BY <1>0, <2>3, <2>4, <2>6, SettingFound
  <2>8. dev' = [dev EXCEPT ![rd] = e] /\ Skip(1)
    BY <2>2, <2>5, Zenon DEF Field
  <2>9. /\ Len(dev') = Len(dev) /\ dev'[rd] = e
        /\ \A d \in 1 .. Len(dev) : d # rd => dev'[d] = dev[d]
    <3>1. dev \in Seq(Device)
      BY TypeNow
    <3> QED  BY <2>5, <2>8, <3>1
  <2>10. Writes(m, tok[i + 1].text, dev[rd], dev'[rd])
    BY <2>2, <2>5, <2>7, <2>9
  <2> QED  BY <2>3, <2>8, <2>9, <2>10, AfterField
<1>8. CASE Next
  BY <1>1, <1>2, <1>3, <1>5, <1>6, <1>7, <1>8, AfterRegister, AfterRegisterForgets,
     AfterIncomplete, AfterFinish, AfterVersion, AfterUnknown, Zenon DEF Next
<1>9. CASE UNCHANGED vars
  <2>1. UNCHANGED <<pc, tok, i, rd, indev, dev, registry, log>>
    BY <1>9, Zenon DEF vars
  <2>2. Structures(f)' /\ Declares(f)' /\ Recorded(log, dev, registry)'
    BY <2>1 DEF After, Structures, Declares, Recorded
  <2>3. Place(f, Len(log), i, pc)' /\ (Len(log) < Count(f) => Built(f, Len(log), i, dev[rd]))'
    BY <2>1 DEF After
  <2>4. tok' # <<>> /\ i' > Start(f) /\ (pc' = "done" => i' > Final(f)) /\ pc' # "crashed"
    BY <2>1 DEF After
  <2> QED  BY <2>2, <2>3, <2>4 DEF After, Walked
<1> QED  BY <1>8, <1>9

LEMMA WalkStep == TypeInv /\ WalkInv /\ [Next]_vars => WalkInv'
<1> SUFFICES ASSUME TypeInv, WalkInv, [Next]_vars PROVE WalkInv'
  OBVIOUS
<1>1. PICK f : f = file.content
  OBVIOUS
<1>2. file' = file
  <2>1. CASE UNCHANGED vars
    BY <2>1, Zenon DEF vars
  <2>2. CASE Next
    BY <2>2, Zenon DEF Next, ReadFails, Tokenize, Register, RegisterForgets, RegisterCrashes,
       Incomplete, Finish, Version, Gateway, Interface, Id, Bcast, Key, KeyNotRead, Devices, Unknown
  <2> QED  BY <2>1, <2>2
<1>3. file.content = f /\ file'.content = f
  BY <1>1, <1>2
<1> SUFFICES ASSUME Conventional(f) PROVE Walked(f)'
  BY <1>3 DEF WalkInv, Walked
<1>4. pc # "crashed" /\ (Before(f) \/ After(f))
  BY <1>3 DEF WalkInv
<1>5. CASE Before(f)
  BY <1>3, <1>4, <1>5, BeforeStep
<1>6. CASE After(f)
  BY <1>3, <1>4, <1>6, AfterStep
<1> QED  BY <1>4, <1>5, <1>6

LEMMA WalkInitial == Init => WalkInv
<1> SUFFICES ASSUME Init PROVE WalkInv
  OBVIOUS
<1>1. /\ pc = "start" /\ tok = <<>> /\ rd = 0 /\ indev = 0 /\ dev = <<Zeroed>>
      /\ registry = <<>> /\ log = <<>>
  BY Zenon DEF Init
<1>2. DOMAIN registry = {}
  BY <1>1
<1>3. ~Zeroed.queue
  BY DEF Zeroed
<1>4. Len(dev) = 1 /\ dev[1] = Zeroed
  <2> HIDE DEF Zeroed
  <2> QED  BY <1>1
<1>5. Unregistered
  <2> HIDE DEF Zeroed
  <2> QED  BY <1>1, <1>2, <1>3, <1>4 DEF Unregistered
<1>6. \A f : Before(f)
  BY <1>1, <1>5 DEF Before
<1> QED  BY <1>1, <1>6 DEF WalkInv

LEMMA WalkAlways == Spec => []WalkInv
BY WalkInitial, WalkStep, TypeAlways, PTL DEF Spec

\* The n-th device of a conventional file is the n-th to be registered, with its own serial
\* number and its own key, whatever else the file says and wherever it says it: no setting
\* of one object reaches the structure of another.
THEOREM RegisteredInOrder == Spec => []InOrder
<1>1. TypeInv /\ WalkInv => InOrder
  <2> SUFFICES ASSUME TypeInv, WalkInv, Conventional(file.content)
               PROVE  \A n \in DOMAIN log :
                        /\ n <= Len(file.content.devices)
                        /\ LET d == Declared(file.content.devices[n], Blank)
                           IN  log[n].sn = d.sn /\ log[n].key \in {d.key, Blank}
    BY DEF InOrder
  <2>1. DOMAIN log = 1 .. Len(log) /\ Len(log) \in Nat
    BY TypeNow
  <2>2. CASE Before(file.content)
    <3>1. Len(log) = 0
      BY <2>2 DEF Before, Unregistered
    <3> QED  BY <2>1, <3>1
  <2>3. CASE After(file.content)
    <3>1. Structures(file.content) /\ Declares(file.content)
      BY <2>3 DEF After
    <3>2. Len(log) <= Len(file.content.devices) /\ Len(file.content.devices) \in Nat
      <4>1. Count(file.content) \in Nat
        BY <2>3, AfterNow
      <4> QED  BY <3>1, <4>1 DEF Structures, Count
    <3> QED  BY <2>1, <3>1, <3>2 DEF Declares
  <2> QED  BY <2>2, <2>3 DEF WalkInv
<1> QED  BY <1>1, TypeAlways, WalkAlways, PTL

\* Every device of a conventional file is registered, but for the last one if the file ends
\* with the value of a setting: the loop has stepped over its last token.  No other way of
\* writing such a file loses a device.
THEOREM LastMayBeLost == Spec => []LosesOnlyLast
<1>1. TypeInv /\ WalkInv => LosesOnlyLast
  <2> SUFFICES ASSUME TypeInv, WalkInv, pc = "done", tok # <<>>, Conventional(file.content)
               PROVE  LET f == file.content
                          closed == Position(f, "site") > Position(f, "devices")
                          lost == f.devices # <<>> /\ EndsWithSetting(f) /\ ~closed
                      IN  Len(log) = Len(f.devices) - (IF lost THEN 1 ELSE 0)
    BY DEF LosesOnlyLast
  <2>1. PICK f : f = file.content
    OBVIOUS
  <2>2. After(f)
    BY <2>1 DEF WalkInv, Before
  <2>3. IsFile(f) /\ Conventional(f) /\ i \in Nat /\ Place(f, Len(log), i, pc) /\ i > Final(f)
    BY <2>1, <2>2, AfterNow DEF After
  <2>4. Len(log) = Count(f) - (IF f.devices # <<>> /\ EndsWithSetting(f) /\ ~ClosedBySite(f)
                               THEN 1 ELSE 0)
    BY <2>3, PlaceEnds
  <2> QED  BY <2>1, <2>4 DEF Count, ClosedBySite
<1> QED  BY <1>1, TypeAlways, WalkAlways, PTL

-----------------------------------------------------------------------------
(* What is lost *)

\* The structures of the registrations of A.
Filled(A) == {m + 1 : m \in A}

LEMMA ShiftedSize ==
  ASSUME NEW A \in SUBSET Nat, IsFiniteSet(A), NEW B, B = {m + 1 : m \in A}
  PROVE  IsFiniteSet(B) /\ Cardinality(B) = Cardinality(A)
<1> DEFINE g == [m \in A |-> m + 1]
<1>1. g \in [A -> B]
  OBVIOUS
<1>2. \A p, q \in A : g[p] = g[q] => p = q
  OBVIOUS
<1>3. \A b \in B : \E m \in A : g[m] = b
  OBVIOUS
<1>4. DOMAIN g = A
  OBVIOUS
<1> HIDE DEF g
<1>5. g \in Bijection(A, B)
  BY <1>1, <1>2, <1>3, <1>4 DEF Bijection, Injection, IsInjective, Surjection
<1>6. ExistsBijection(A, B)
  BY <1>5 DEF ExistsBijection
<1> QED  BY <1>6, FS_Bijection

LEMMA DisjointSize ==
  ASSUME NEW A, IsFiniteSet(A), NEW B, IsFiniteSet(B), A \cap B = {}
  PROVE  /\ IsFiniteSet(A \cup B) /\ Cardinality(A \cup B) = Cardinality(A) + Cardinality(B)
         /\ Cardinality(A) \in Nat /\ Cardinality(B) \in Nat
<1>1. Cardinality(A) \in Nat /\ Cardinality(B) \in Nat
  BY FS_CardinalityType
<1>2. Cardinality(A \cap B) = 0
  BY FS_EmptySet
<1>3. /\ IsFiniteSet(A \cup B)
      /\ Cardinality(A \cup B) = Cardinality(A) + Cardinality(B) - Cardinality(A \cap B)
  BY FS_Union
<1> QED  BY <1>1, <1>2, <1>3

\* Of n registrations, those of S stored in the structures H, the others are in the structures L.
LEMMA LossesAre ==
  ASSUME NEW n \in Nat, NEW S \in SUBSET (1 .. n), NEW H \in SUBSET Filled(S)
  PROVE  LET L == Filled((1 .. n) \ S)
         IN  /\ Cardinality(L) = n - Cardinality(S)
             /\ n - Cardinality(L \cup H) = Cardinality(S) - Cardinality(H)
<1> DEFINE U == (1 .. n) \ S
           T == Filled(S)
           L == Filled(U)
           Q == L \cup H
<1>1. IsFiniteSet(1 .. n) /\ Cardinality(1 .. n) = n
  <2>1. IsFiniteSet(1 .. n) /\ Cardinality(1 .. n) = IF 1 > n THEN 0 ELSE n - 1 + 1
    BY FS_Interval
  <2> QED  BY <2>1
<1>2. IsFiniteSet(S) /\ IsFiniteSet(U)
  <2>1. S \in SUBSET (1 .. n) /\ U \in SUBSET (1 .. n)
    OBVIOUS
  <2> QED  BY <1>1, <2>1, FS_Subset
<1>3. S \cap U = {} /\ S \cup U = 1 .. n /\ S \in SUBSET Nat /\ U \in SUBSET Nat
  <2>1. S \in SUBSET Nat /\ U \in SUBSET Nat
    OBVIOUS
  <2>2. S \cap U = {}
    OBVIOUS
  <2>3. S \cup U = 1 .. n
    <3> DEFINE I == 1 .. n
    <3>1. S \in SUBSET I /\ U = I \ S
      OBVIOUS
    <3> HIDE DEF I, U
    <3>2. S \cup U = I
      BY <3>1
    <3> QED  BY <3>2 DEF I
  <2> QED  BY <2>1, <2>2, <2>3
<1>4. L \cap T = {}
  BY DEF Filled
<1>5. L \cap H = {}
  BY <1>4
<1> HIDE DEF U
<1>6. n = Cardinality(S) + Cardinality(U) /\ Cardinality(S) \in Nat /\ Cardinality(U) \in Nat
  BY <1>1, <1>2, <1>3, DisjointSize
<1>7. IsFiniteSet(L) /\ Cardinality(L) = Cardinality(U)
  BY <1>2, <1>3, ShiftedSize DEF Filled
<1>8. IsFiniteSet(T)
  BY <1>2, <1>3, ShiftedSize DEF Filled
<1>9. IsFiniteSet(H)
  BY <1>8, FS_Subset
<1>10. Cardinality(Q) = Cardinality(L) + Cardinality(H) /\ Cardinality(H) \in Nat
  BY <1>5, <1>7, <1>9, DisjointSize
<1>11. /\ Cardinality(L) = n - Cardinality(S)
       /\ n - Cardinality(Q) = Cardinality(S) - Cardinality(H)
  BY <1>6, <1>7, <1>10
<1> QED  BY <1>11 DEF U

\* What is recorded, of every structure.
LEMMA RecordedIs ==
  ASSUME TypeInv, NEW f, file.content = f, Conventional(f), After(f)
  PROVE  LET n == Len(log)
             S == {m \in DOMAIN log : log[m].stored}
             H == {registry[a] : a \in DOMAIN registry}
             Q == {d \in DOMAIN dev : dev[d].live /\ dev[d].queue}
             L == {d \in DOMAIN dev : dev[d].live /\ dev[d].queue /\ d \notin H}
         IN  /\ n \in Nat /\ DOMAIN log = 1 .. n /\ S \in SUBSET (1 .. n)
             /\ H \in SUBSET Filled(S)
             /\ L = Filled((1 .. n) \ S)
             /\ Q = L \cup H
             /\ \A d \in DOMAIN dev \ {1, rd} : dev[d].queue
<1> DEFINE n == Len(log)
           S == {m \in DOMAIN log : log[m].stored}
           H == {registry[a] : a \in DOMAIN registry}
           Q == {d \in DOMAIN dev : dev[d].live /\ dev[d].queue}
           L == {d \in DOMAIN dev : dev[d].live /\ dev[d].queue /\ d \notin H}
<1>1. n \in Nat /\ DOMAIN log = 1 .. n /\ Len(dev) \in Nat /\ DOMAIN dev = 1 .. Len(dev)
  BY TypeNow
<1>2. Recorded(log, dev, registry) /\ Structures(f)
  BY DEF After
<1>3. S \in SUBSET (1 .. n) /\ \A m \in 1 .. n : m \in S <=> log[m].stored
  BY <1>1
<1>4. \A m \in 1 .. n :
        /\ dev[m + 1].queue
        /\ log[m].stored => Hash[log[m].sn] \in DOMAIN registry
        /\ dev[m + 1].live <=> (log[m].stored => registry[Hash[log[m].sn]] = m + 1)
  BY <1>2 DEF Recorded
<1>5. \A a \in DOMAIN registry : \E m \in 1 .. n :
        registry[a] = m + 1 /\ log[m].stored /\ Hash[log[m].sn] = a
  BY <1>2 DEF Recorded
<1>6. Count(f) \in Nat
  BY AfterNow
<1>7. /\ n <= Count(f) /\ Len(dev) = rd
      /\ rd = IF n < Count(f) \/ Count(f) = 0 THEN n + 2 ELSE n + 1
      /\ ~dev[1].queue
      /\ n < Count(f) \/ Count(f) = 0 => ~dev[rd].queue
  BY <1>2 DEF Structures
<1>8. \A d \in DOMAIN dev : \/ d = 1
                            \/ d = n + 2 /\ d = rd /\ ~dev[d].queue
                            \/ \E m \in 1 .. n : d = m + 1
  <2> TAKE d \in DOMAIN dev
  <2>1. d \in Nat /\ d >= 1 /\ d <= rd
    BY <1>1, <1>7
  <2>2. CASE d # 1 /\ d <= n + 1
    <3>1. d - 1 \in 1 .. n /\ d = (d - 1) + 1
      BY <1>1, <2>1, <2>2
    <3> QED  BY <3>1
  <2>3. CASE d # 1 /\ ~(d <= n + 1)
    <3>1. rd = n + 2 /\ d = rd
      BY <1>1, <1>7, <2>1, <2>3
    <3>2. n < Count(f) \/ Count(f) = 0
      BY <1>1, <1>7, <3>1
    <3> QED  BY <1>7, <3>1, <3>2
  <2> QED  BY <2>2, <2>3
<1>9. \A m \in 1 .. n : m + 1 \in DOMAIN dev
  BY <1>1, <1>6, <1>7
<1> HIDE DEF S
<1>10. H \in SUBSET Filled(S)
  BY <1>3, <1>5 DEF Filled
<1>11. \A m \in 1 .. n : m + 1 \in H <=> log[m].stored /\ dev[m + 1].live
  <2> TAKE m \in 1 .. n
  <2>1. ASSUME m + 1 \in H PROVE log[m].stored /\ dev[m + 1].live
    <3>1. PICK a \in DOMAIN registry : registry[a] = m + 1
      BY <2>1
    <3>2. PICK p \in 1 .. n : registry[a] = p + 1 /\ log[p].stored /\ Hash[log[p].sn] = a
      BY <1>5
    <3>3. p = m
      BY <1>1, <3>1, <3>2
    <3> QED  BY <1>4, <3>1, <3>2, <3>3
  <2>2. ASSUME log[m].stored, dev[m + 1].live PROVE m + 1 \in H
    BY <1>4, <2>2
  <2> QED  BY <2>1, <2>2
<1>12. \A m \in 1 .. n : ~log[m].stored => dev[m + 1].live
  BY <1>4
<1> HIDE DEF H
<1>13. \A d : d \in L <=> \E m \in (1 .. n) \ S : d = m + 1
  <2> TAKE d
  <2>1. ASSUME d \in L PROVE \E m \in (1 .. n) \ S : d = m + 1
    <3>1. PICK m \in 1 .. n : d = m + 1
      BY <1>7, <1>8, <2>1
    <3> QED  BY <1>3, <1>11, <2>1, <3>1
  <2>2. ASSUME NEW m \in (1 .. n) \ S, d = m + 1 PROVE d \in L
    <3>1. m \in 1 .. n /\ ~log[m].stored
      BY <1>3
    <3> QED  BY <1>4, <1>9, <1>11, <1>12, <2>2, <3>1
  <2> QED  BY <2>1, <2>2
<1>14. \A d : d \in Q <=> d \in L \/ d \in H
  <2> TAKE d
  <2>1. d \in Q => d \in L \/ d \in H
    OBVIOUS
  <2>2. ASSUME d \in H PROVE d \in Q
    <3>1. PICK m \in 1 .. n : d = m + 1
      BY <1>3, <1>10, <2>2 DEF Filled
    <3> QED  BY <1>4, <1>9, <1>11, <2>2, <3>1
  <2> QED  BY <2>1, <2>2
<1>15. L = Filled((1 .. n) \ S)
  <2> HIDE DEF L, n
  <2> QED  BY <1>13 DEF Filled
<1>16. Q = L \cup H
  <2> HIDE DEF L, Q
  <2> QED  BY <1>14
<1>17. \A d \in DOMAIN dev \ {1, rd} : dev[d].queue
  BY <1>4, <1>8
<1> QED  BY <1>1, <1>3, <1>10, <1>15, <1>16, <1>17 DEF S, H

\* What holds of the registry where nothing is registered.
LEMMA SoundBefore ==
  ASSUME TypeInv, Unregistered, pc # "crashed"
  PROVE  RegistrySound
<1>1. log = <<>> /\ DOMAIN registry = {} /\ Len(dev) = 1 /\ ~dev[1].queue /\ Len(log) = 0
  BY DEF Unregistered
<1>2. DOMAIN log = {} /\ DOMAIN dev = 1 .. 1 /\ queues = 0
  BY <1>1, TypeNow DEF TypeInv, Numbers
<1> DEFINE S == {m \in DOMAIN log : log[m].stored}
           H == {registry[a] : a \in DOMAIN registry}
           Q == {d \in DOMAIN dev : dev[d].live /\ dev[d].queue}
           L == {d \in DOMAIN dev : dev[d].live /\ dev[d].queue /\ d \notin H}
<1>3. S = {} /\ H = {}
  BY <1>1, <1>2
<1>4. \A d \in DOMAIN dev : d = 1
  BY <1>2
<1>5. Q = {} /\ L = {}
  BY <1>1, <1>4
<1>6. DOMAIN registry = {Hash[log[m].sn] : m \in S}
  BY <1>1, <1>3
<1>7. \A d \in DOMAIN dev \ {1, rd} : dev[d].live => d \in H \cup L
  BY <1>4
<1>8. /\ Cardinality(L) = Len(log) - Cardinality(S)
      /\ queues - Cardinality(Q) = Cardinality(S) - Cardinality(H)
  <2>1. Cardinality({}) = 0
    BY FS_EmptySet
  <2> HIDE DEF S, H, Q, L
  <2>2. Cardinality(S) = 0 /\ Cardinality(H) = 0 /\ Cardinality(Q) = 0 /\ Cardinality(L) = 0
    BY <1>3, <1>5, <2>1
  <2> QED  BY <1>1, <1>2, <2>2
<1> QED  BY <1>3, <1>6, <1>7, <1>8, Zenon DEF RegistrySound

LEMMA SoundAfter ==
  ASSUME TypeInv, NEW f, file.content = f, Conventional(f), After(f), pc # "crashed"
  PROVE  RegistrySound
<1> DEFINE n == Len(log)
           S == {m \in DOMAIN log : log[m].stored}
           H == {registry[a] : a \in DOMAIN registry}
           Q == {d \in DOMAIN dev : dev[d].live /\ dev[d].queue}
           L == {d \in DOMAIN dev : dev[d].live /\ dev[d].queue /\ d \notin H}
<1>1. /\ n \in Nat /\ DOMAIN log = 1 .. n /\ S \in SUBSET (1 .. n)
      /\ H \in SUBSET Filled(S)
      /\ L = Filled((1 .. n) \ S)
      /\ Q = L \cup H
      /\ \A d \in DOMAIN dev \ {1, rd} : dev[d].queue
  BY RecordedIs
<1>2. queues = n
  BY DEF TypeInv, Numbers
<1>3. Recorded(log, dev, registry)
  BY DEF After
<1>4. /\ Cardinality(L) = n - Cardinality(S)
      /\ n - Cardinality(Q) = Cardinality(S) - Cardinality(H)
  <2> HIDE DEF n, S, H, Q, L
  <2>1. n \in Nat /\ S \in SUBSET (1 .. n)
    BY <1>1, Zenon
  <2>2. H \in SUBSET Filled(S)
    BY <1>1, Zenon
  <2>3. L = Filled((1 .. n) \ S) /\ Q = L \cup H
    BY <1>1, Zenon
  <2> QED  BY <2>1, <2>2, <2>3, LossesAre
<1>5. DOMAIN registry = {Hash[log[m].sn] : m \in S}
  <2>1. \A a \in DOMAIN registry : \E m \in 1 .. n : log[m].stored /\ Hash[log[m].sn] = a
    BY <1>3 DEF Recorded
  <2>2. \A m \in 1 .. n : log[m].stored => Hash[log[m].sn] \in DOMAIN registry
    BY <1>3 DEF Recorded
  <2>3. \A m : m \in S <=> m \in 1 .. n /\ log[m].stored
    BY <1>1
  <2> HIDE DEF S, n
  <2>4. \A a : a \in DOMAIN registry <=> \E m \in S : a = Hash[log[m].sn]
    BY <2>1, <2>2, <2>3
  <2> QED  BY <2>4
<1>6. \A m \in S : LET a == Hash[log[m].sn]
                       d == dev[registry[a]]
                   IN  /\ registry[a] # 1 /\ d.live /\ d.queue /\ d.addr = a
                       /\ \/ d.sn = log[m].sn /\ d.key = log[m].key
                          \/ \E k \in S : k > m /\ Hash[log[k].sn] = a
  <2> TAKE m \in S
  <2> DEFINE a == Hash[log[m].sn]
             d == dev[registry[a]]
  <2>1. m \in 1 .. n /\ log[m].stored /\ a \in DOMAIN registry
    BY <1>1, <1>3 DEF Recorded
  <2>2. PICK p \in 1 .. n :
          /\ registry[a] = p + 1 /\ log[p].stored /\ Hash[log[p].sn] = a
          /\ \A k \in 1 .. n : log[k].stored /\ Hash[log[k].sn] = a => k <= p
    BY <1>3, <2>1 DEF Recorded
  <2>3. /\ dev[p + 1].sn = log[p].sn /\ dev[p + 1].key = log[p].key
        /\ dev[p + 1].addr = a /\ dev[p + 1].queue /\ dev[p + 1].live
    BY <1>3, <2>2 DEF Recorded
  <2>4. registry[a] # 1
    BY <1>1, <2>2
  <2>5. p \in S /\ (m = p \/ p > m)
    BY <1>1, <2>1, <2>2
  <2>6. \/ d.sn = log[m].sn /\ d.key = log[m].key
        \/ \E k \in S : k > m /\ Hash[log[k].sn] = a
    BY <2>2, <2>3, <2>5
  <2> QED  BY <2>2, <2>3, <2>4, <2>6
<1>7. \A d \in DOMAIN dev \ {1, rd} : dev[d].live => d \in H \cup L
  BY <1>1
<1>8. Cardinality(L) = Len(log) - Cardinality(S)
      /\ queues - Cardinality(Q) = Cardinality(S) - Cardinality(H)
  BY <1>2, <1>4
<1> QED  BY <1>5, <1>6, <1>7, <1>8, Zenon DEF RegistrySound

\* rfAddDevice never frees main's variable; the registry holds, for every address, its latest
\* device, allocated and complete; what was replaced is free, and only its packetQueue is lost;
\* and only what there was no memory to store is lost itself.
THEOREM RegistryIsSound == Spec => []RegistrySound
<1>1. TypeInv /\ WalkInv => RegistrySound
  <2> SUFFICES ASSUME TypeInv, WalkInv PROVE RegistrySound
    OBVIOUS
  <2>1. PICK f : f = file.content
    OBVIOUS
  <2>2. CASE ~Conventional(f)
    BY <2>1, <2>2, Zenon DEF RegistrySound
  <2>3. CASE Conventional(f)
    <3>1. pc # "crashed" /\ (Before(f) \/ After(f))
      BY <2>1, <2>3 DEF WalkInv
    <3>2. CASE Before(f)
      BY <3>1, <3>2, SoundBefore DEF Before
    <3>3. CASE After(f)
      BY <2>1, <2>3, <3>1, <3>3, SoundAfter
    <3> QED  BY <3>1, <3>2, <3>3
  <2> QED  BY <2>2, <2>3
<1> QED  BY <1>1, TypeAlways, WalkAlways, PTL
===============================================================================
