-------------------------------- MODULE HashMap --------------------------------
(***************************************************************************)
(* The hash map of hashmap.c, down to its pointers.  Every entry is in two *)
(* linked structures: the chain of its bucket, for lookup, and a doubly    *)
(* linked list of all entries, for iteration in insertion order.  The      *)
(* gateway keeps its devices in such a map.                                *)
(*                                                                         *)
(* An operation is one action; its allocations succeed until memory runs   *)
(* out, at a point the action chooses.  An entry's address is the lowest   *)
(* free one, so addresses are used again as soon as they can be.           *)
(***************************************************************************)
EXTENDS Integers, SequencesExt

CONSTANTS Keys,        \* keys stored, a set of natural numbers
          Values,      \* values stored
          InitCap,     \* buckets of a new map (16 in the code)
          MaxEntries,  \* bound: addresses for entries, enough for every key
          Others,      \* what the maps merged into this one iterate over
          NoValue      \* the null value

Binding == [key : Keys, val : Values]

ASSUME MapAssumption ==
  /\ Keys \subseteq Nat /\ IsFiniteSet(Keys)
  /\ MaxEntries \in Nat /\ Cardinality(Keys) <= MaxEntries
  /\ NoValue \notin Values
  /\ InitCap \in Nat \ {0}
  /\ \A s \in Others : /\ s \in Seq(Binding)
                       /\ \A i, j \in DOMAIN s : s[i].key = s[j].key => i = j

Null    == 0
Entries == 1 .. MaxEntries
Pointer == Entries \cup {Null}

VARIABLES
  map,      \* the struct hashmap and its entries
  errno,    \* 0 or not
  \* History, for the properties only:
  last,     \* how the latest operation's report and its effect agree
  strained  \* a resize has failed

vars == <<map, errno, last, strained>>

\* The fields of unused entries are zero.
EmptyMap ==
  [live |-> {},
   key  |-> [e \in Entries |-> 0],   val  |-> [e \in Entries |-> NoValue],
   chain|-> [e \in Entries |-> Null],
   prev |-> [e \in Entries |-> Null], next |-> [e \in Entries |-> Null],
   bucket |-> [b \in 0 .. (InitCap - 1) |-> Null],
   cap |-> InitCap, size |-> 0, head |-> Null, tail |-> Null]

Init ==
  /\ map = EmptyMap
  /\ errno = 0
  /\ last = "done"
  /\ strained = FALSE

-----------------------------------------------------------------------------
(* Walking the links *)

\* The entries met from e along the links, at most MaxEntries of them.
Walk(link, e) ==
  LET path[n \in 0 .. MaxEntries] ==
        [x \in Pointer |->
           IF n = 0 \/ x = Null THEN <<>> ELSE <<x>> \o path[n - 1][link[x]]]
  IN  path[MaxEntries][e]

Listed(m) == Walk(m.next, m.head)
Chain(m, b) == Walk(m.chain, m.bucket[b])

\* The entry found for key k, or Null.
Find(m, k) ==
  LET c == Chain(m, k % m.cap)
      hits == {i \in DOMAIN c : m.key[c[i]] = k}
  IN  IF hits = {} THEN Null ELSE c[CHOOSE i \in hits : \A j \in hits : i <= j]

\* hashmap_get
Get(m, k) == LET e == Find(m, k) IN IF e = Null THEN NoValue ELSE m.val[e]

-----------------------------------------------------------------------------
(* The operations as functions of the map *)

\* hashmap_resize: every entry, in list order, is put in front of its chain.
Rehashed(m, c) ==
  LET Push(a, e) ==
        LET b == m.key[e] % c IN
        [chain |-> [a.chain EXCEPT ![e] = a.bucket[b]],
         bucket |-> [a.bucket EXCEPT ![b] = e]]
      r == FoldLeft(Push, [chain |-> m.chain,
                           bucket |-> [b \in 0 .. (c - 1) |-> Null]], Listed(m))
  IN  [m EXCEPT !.chain = r.chain, !.bucket = r.bucket, !.cap = c]

\* Mutant of Linked: the new entry is put in front of the list.
LinkedInFront(m, k, v) ==
  LET e == CHOOSE x \in Entries \ m.live :
             \A y \in Entries \ m.live : x <= y
      b == k % m.cap
  IN  [m EXCEPT !.live = @ \cup {e}, !.key[e] = k, !.val[e] = v,
                !.chain[e] = m.bucket[b], !.bucket[b] = e,
                !.prev = IF m.head = Null THEN @ ELSE [@ EXCEPT ![m.head] = e],
                !.next[e] = m.head,
                !.tail = IF @ = Null THEN e ELSE @,
                !.head = e,
                !.size = @ + 1]

\* The new entry is linked in front of its chain and behind the list's tail.
Linked(m, k, v) ==
  LET e == CHOOSE x \in Entries \ m.live :
             \A y \in Entries \ m.live : x <= y
      b == k % m.cap
  IN  [m EXCEPT !.live = @ \cup {e}, !.key[e] = k, !.val[e] = v,
                !.chain[e] = m.bucket[b], !.bucket[b] = e,
                !.next = IF m.tail = Null THEN @ ELSE [@ EXCEPT ![m.tail] = e],
                !.prev[e] = m.tail,
                !.head = IF @ = Null THEN e ELSE @,
                !.tail = e,
                !.size = @ + 1]

\* Mutant of Overloaded: a load factor of one.
OverloadedLate(m) == m.size > m.cap

\* load > MAX_LOAD_FACTOR
Overloaded(m) == 4 * m.size > 3 * m.cap

\* hashmap_set with memory for `mem` more allocations: the map, the value
\* returned, errno, the memory left, and whether a resize failed.
SetIn(m, k, v, mem) ==
  LET e == Find(m, k)
      l == Linked(m, k, v)
      Result(m2, ret, err, left, short) ==
        [map |-> m2, ret |-> ret, errno |-> err, mem |-> left, short |-> short]
  IN  IF e # Null
      THEN Result([m EXCEPT !.val[e] = v], m.val[e], 0, mem, FALSE)
      ELSE IF mem = 0
      THEN Result(m, NoValue, 1, 0, FALSE)
      ELSE IF ~Overloaded(l)
      THEN Result(l, NoValue, 0, mem - 1, FALSE)
      ELSE IF mem = 1
      THEN Result(l, NoValue, 1, 0, TRUE)
      ELSE Result(Rehashed(l, 2 * l.cap), NoValue, 0, mem - 2, FALSE)

\* Mutant of Unlinked: the neighbours are linked, head and tail are forgotten.
UnlinkedInside(m, e) ==
  LET b == m.key[e] % m.cap IN
  [m EXCEPT !.live = @ \ {e},
            !.bucket[b] = IF @ = e THEN m.chain[e] ELSE @,
            !.next = [x \in Entries |-> IF x = m.prev[e] THEN m.next[e] ELSE @[x]],
            !.prev = [x \in Entries |-> IF x = m.next[e] THEN m.prev[e] ELSE @[x]],
            !.size = @ - 1]

\* hashmap_remove of entry e, found in its chain.
Unlinked(m, e) ==
  LET b == m.key[e] % m.cap
      before == {x \in ToSet(Chain(m, b)) : m.chain[x] = e}
      p == m.prev[e]
      n == m.next[e]
  IN  [m EXCEPT
        !.live = @ \ {e},
        !.chain = [x \in Entries |-> IF x \in before THEN m.chain[e]
                                     ELSE IF x = e THEN Null ELSE @[x]],
        !.bucket[b] = IF @ = e THEN m.chain[e] ELSE @,
        !.head = IF @ = e THEN n ELSE @,
        !.tail = IF @ = e THEN p ELSE @,
        !.next = [x \in Entries |-> IF x = e THEN Null
                                    ELSE IF x = p THEN n ELSE @[x]],
        !.prev = [x \in Entries |-> IF x = e THEN Null
                                    ELSE IF x = n THEN p ELSE @[x]],
        !.key[e] = 0, !.val[e] = NoValue,
        !.size = @ - 1]

\* hashmap_clear: every listed entry is freed; the buckets stay, emptied.
Cleared(m) ==
  LET gone == ToSet(Listed(m)) IN
  [m EXCEPT !.live = @ \ gone,
            !.key  = [x \in Entries |-> IF x \in gone THEN 0 ELSE @[x]],
            !.val  = [x \in Entries |-> IF x \in gone THEN NoValue ELSE @[x]],
            !.chain = [x \in Entries |-> IF x \in gone THEN Null ELSE @[x]],
            !.prev = [x \in Entries |-> IF x \in gone THEN Null ELSE @[x]],
            !.next = [x \in Entries |-> IF x \in gone THEN Null ELSE @[x]],
            !.bucket = [b \in DOMAIN m.bucket |-> Null],
            !.head = Null, !.tail = Null, !.size = 0]

\* hashmap_merge: room for all first, then one set after the other until one
\* returns null and has set errno.
MergeIn(m, other, err, mem) ==
  LET total == m.size + Len(other)
      grow == m.cap < total
      start == [map |-> IF grow THEN Rehashed(m, total) ELSE m,
                errno |-> err, mem |-> IF grow THEN mem - 1 ELSE mem,
                short |-> FALSE, ok |-> TRUE]
      One(a, b) ==
        IF ~a.ok THEN a
        ELSE LET r == SetIn(a.map, b.key, b.val, a.mem) IN
             [map |-> r.map, errno |-> r.errno, mem |-> r.mem,
              short |-> r.short,
              ok |-> ~(r.ret = NoValue /\ r.errno # 0)]
  IN  IF grow /\ mem = 0
      THEN [map |-> m, errno |-> 1, mem |-> 0, short |-> TRUE, ok |-> FALSE]
      ELSE FoldLeft(One, start, other)

\* What an iterator over the map returns, from the list's head on.
Contents(m) ==
  LET l == Listed(m)
  IN  [i \in DOMAIN l |-> [key |-> m.key[l[i]], val |-> m.val[l[i]]]]

\* hashmap_clone: two allocations for an empty map, then a merge.
CloneOf(m, err, mem) ==
  IF mem < 2
  THEN [map |-> m, errno |-> 1, short |-> FALSE, ok |-> FALSE]
  ELSE MergeIn(EmptyMap, Contents(m), err, mem - 2)

-----------------------------------------------------------------------------
(* The operations *)

\* What the call was for is done, against what it reported.
Verdict(ok, done) ==
  CASE ok /\ done   -> "done"
    [] ~ok /\ ~done -> "refused"
    [] ~ok /\ done  -> "done unreported"
    [] ok /\ ~done  -> "not done"

\* Mutant of hashmap_set: errno is cleared at the end instead of the beginning.
hashmap_setSilent(k, v, mem) ==
  LET r == SetIn(map, k, v, mem) IN
  /\ map' = r.map
  /\ errno' = 0
  /\ last' = Verdict(TRUE, Get(r.map, k) = v)
  /\ strained' = (strained \/ r.short)

hashmap_set(k, v, mem) ==
  LET r == SetIn(map, k, v, mem) IN
  /\ map' = r.map
  /\ errno' = r.errno
  /\ last' = Verdict(r.errno = 0, Get(r.map, k) = v)
  /\ strained' = (strained \/ r.short)

hashmap_remove(k) ==
  LET e == Find(map, k) IN
  /\ map' = IF e = Null THEN map ELSE Unlinked(map, e)
  /\ last' = Verdict(TRUE, Get(map', k) = NoValue)
  /\ UNCHANGED <<errno, strained>>

hashmap_clear ==
  /\ map' = Cleared(map)
  /\ last' = Verdict(TRUE, \A k \in Keys : Get(map', k) = NoValue)
  /\ UNCHANGED <<errno, strained>>

hashmap_merge(other, mem) ==
  LET r == MergeIn(map, other, errno, mem) IN
  /\ map' = r.map
  /\ errno' = r.errno
  /\ last' = IF r.ok
             THEN Verdict(TRUE, \A i \in DOMAIN other :
                                  Get(r.map, other[i].key) = other[i].val)
             ELSE "refused"
  /\ strained' = (strained \/ r.short)

\* The caller clones the map and, if that succeeds, destroys the original and
\* goes on with the clone.
CloneAndDestroy(mem) ==
  LET r == CloneOf(map, errno, mem) IN
  /\ map' = IF r.ok THEN r.map ELSE map
  /\ errno' = r.errno
  /\ last' = IF r.ok THEN "done" ELSE "refused"
  /\ strained' = IF r.ok THEN FALSE ELSE strained

Next ==
  \/ \E k \in Keys, v \in Values, mem \in 0 .. 2 : hashmap_set(k, v, mem)
  \/ \E k \in Keys : hashmap_remove(k)
  \/ hashmap_clear
  \/ \E other \in Others : \E mem \in 0 .. (1 + 2 * Len(other)) :
        hashmap_merge(other, mem)
  \/ \E mem \in 0 .. (3 + 2 * MaxEntries) : CloneAndDestroy(mem)

Spec == Init /\ [][Next]_vars

-----------------------------------------------------------------------------
(* Properties *)

TypeOK ==
  /\ map.live \subseteq Entries
  /\ map.key \in [Entries -> Keys \cup {0}]
  /\ map.val \in [Entries -> Values \cup {NoValue}]
  /\ {map.chain, map.prev, map.next} \subseteq [Entries -> Pointer]
  /\ map.cap \in Nat \ {0}
  /\ map.bucket \in [0 .. (map.cap - 1) -> Pointer]
  /\ map.size \in Nat
  /\ {map.head, map.tail} \subseteq Pointer
  /\ errno \in {0, 1}
  /\ strained \in BOOLEAN

\* The map is of its type, and both structures hold exactly the allocated
\* entries, each once: the list, read forwards from head or backwards from tail,
\* and the chains, each entry in the chain of its key; size is their number.  No
\* pointer leads to a freed entry.
Consistent ==
  LET l == Listed(map) IN
  /\ TypeOK
  /\ ToSet(l) = map.live
  /\ Walk(map.prev, map.tail) = Reverse(l)
  /\ map.size = Len(l)
  /\ \A b \in DOMAIN map.bucket :
       /\ ToSet(Chain(map, b)) = {e \in map.live : map.key[e] % map.cap = b}
       /\ IsInjective(Chain(map, b))
  /\ \A d, e \in map.live : map.key[d] = map.key[e] => d = e

\* The chains stay short: at most three entries for four buckets, unless a
\* resize has failed for lack of memory.
LoadBounded == ~strained => 4 * map.size <= 3 * map.cap

\* An allocation failure is never silent: when errno is zero after a set, or a
\* merge reports success, everything handed over can be found.  What was removed
\* cannot.
SuccessMeansDone == last # "not done"

\* What the comment of hashmap_set says of errno: non-zero if the set failed,
\* zero if the value was stored.
ErrnoTells == last \notin {"not done", "done unreported"}

\* The list seen as what an iterator returns.
Content == Contents(map)

\* A failed merge has stored a first part of the other map.
Parts == UNION {{SubSeq(s, 1, n) : n \in 0 .. Len(s)} : s \in Others}

Abstract == INSTANCE OrderedMap WITH bindings <- Content, Others <- Parts

\* Through collisions, rehashing, removals and failed allocations the map is an
\* insertion-ordered map; a failed merge has stored a first part of the other
\* map, and a clone is the same map.
RefinesOrderedMap == Abstract!Spec
===============================================================================
