-------------------------------- MODULE LinkedList -----------------------------
(***************************************************************************)
(* The doubly linked lists of list.c, with their pointers, and iterators   *)
(* over them.  Every device of the gateway has one for its packets, into   *)
(* which nothing is put at present.                                        *)
(*                                                                         *)
(* A call is one action, except those that loop: list_concat, list_clone   *)
(* and a caller's loop with an iterator go node by node.  Nothing else     *)
(* happens to lists in between, a list has one thread at a time.           *)
(***************************************************************************)
EXTENDS Integers, Sequences, FiniteSets

CONSTANTS Lists,   \* list structures
          Nodes,   \* addresses of nodes: what memory there is
          Items,   \* what is stored, NoItem included
          NoItem,  \* the null pointer, as an item
          Null     \* the null pointer, as a node

ASSUME ListAssumption ==
  /\ IsFiniteSet(Nodes)
  /\ NoItem \in Items
  /\ Null \notin Nodes

Pointer == Nodes \cup {Null}

VARIABLES
  made,   \* the lists there are
  list,   \* struct list: head, tail, length
  live,   \* nodes allocated
  node,   \* struct lnode: value, prev, next
  loop,   \* the loop that is under way
  answer, \* <<what the latest call returned>>, or the items a loop has seen
  \* History, for the properties only:
  order   \* the nodes of every list, in order

vars == <<made, list, live, node, loop, answer, order>>

EmptyList == [head |-> Null, tail |-> Null, length |-> 0]
FreeNode  == [value |-> NoItem, prev |-> Null, next |-> Null]

\* A loop: what for, the list that changes, the list that is walked, the node
\* it is at, and the index of an iterator.  History: how long the changing list
\* was, and what an iterator has returned.
Looping(kind, to, from) ==
  [kind |-> kind, to |-> to, from |-> from, at |-> list[from].head, index |-> 0,
   before |-> list[to].length, seen |-> <<>>]

NoLoop == [kind |-> "none", to |-> Null, from |-> Null, at |-> Null, index |-> 0,
           before |-> 0, seen |-> <<>>]

Init ==
  /\ made = {}
  /\ list = [l \in Lists |-> EmptyList]
  /\ live = {}
  /\ node = [n \in Nodes |-> FreeNode]
  /\ loop = NoLoop
  /\ answer = <<>>
  /\ order = [l \in Lists |-> <<>>]

Idle == loop = NoLoop

-----------------------------------------------------------------------------
(* The ends of a list *)

\* malloc has failed in a call.
NoMemory ==
  /\ Idle
  /\ answer' = <<FALSE>>
  /\ UNCHANGED <<made, list, live, node, loop, order>>

list_create(l) ==
  /\ Idle
  /\ made' = made \cup {l}
  /\ list' = [list EXCEPT ![l] = EmptyList]
  /\ answer' = <<TRUE>>
  /\ UNCHANGED <<live, node, loop, order>>

\* Node n with item v becomes the last one.
Added(l, n, v) ==
  LET this == list[l] IN
  /\ node' = [m \in Nodes |->
                CASE m = n         -> [value |-> v, prev |-> this.tail, next |-> Null]
                  [] m = this.tail -> [node[m] EXCEPT !.next = n]
                  [] OTHER         -> node[m]]
  /\ list' = [list EXCEPT ![l] =
                [head   |-> IF this.head = Null THEN n ELSE this.head,
                 tail   |-> n,
                 length |-> this.length + 1]]
  /\ live' = live \cup {n}
  /\ order' = [order EXCEPT ![l] = Append(@, n)]

list_push(l, n, v) ==
  /\ Idle
  /\ Added(l, n, v)
  /\ answer' = <<TRUE>>
  /\ UNCHANGED <<made, loop>>

list_unshift(l, n, v) ==
  LET this == list[l] IN
  /\ Idle
  /\ node' = [m \in Nodes |->
                CASE m = n         -> [value |-> v, prev |-> Null, next |-> this.head]
                  [] m = this.head -> [node[m] EXCEPT !.prev = n]
                  [] OTHER         -> node[m]]
  /\ list' = [list EXCEPT ![l] =
                [head   |-> n,
                 tail   |-> IF this.tail = Null THEN n ELSE this.tail,
                 length |-> this.length + 1]]
  /\ live' = live \cup {n}
  /\ order' = [order EXCEPT ![l] = <<n>> \o @]
  /\ answer' = <<TRUE>>
  /\ UNCHANGED <<made, loop>>

\* list_pop or list_shift of an empty list.
Nothing(l) ==
  /\ Idle /\ list[l].head = Null
  /\ answer' = <<NoItem>>
  /\ UNCHANGED <<made, list, live, node, loop, order>>

\* Mutant of list_pop: the new last node still points to the freed one.
list_popDangling(l) ==
  LET this == list[l]
      last == this.tail
  IN
  /\ Idle /\ last # Null
  /\ list' = [list EXCEPT ![l] =
                IF last = this.head THEN [EmptyList EXCEPT !.length = this.length - 1]
                ELSE [this EXCEPT !.tail = node[last].prev, !.length = @ - 1]]
  /\ node' = [node EXCEPT ![last] = FreeNode]
  /\ live' = live \ {last}
  /\ order' = [order EXCEPT ![l] = SubSeq(@, 1, Len(@) - 1)]
  /\ answer' = <<node[last].value>>
  /\ UNCHANGED <<made, loop>>

list_pop(l) ==
  LET this == list[l]
      last == this.tail
  IN
  /\ Idle /\ last # Null
  /\ list' = [list EXCEPT ![l] =
                IF last = this.head THEN [EmptyList EXCEPT !.length = this.length - 1]
                ELSE [this EXCEPT !.tail = node[last].prev, !.length = @ - 1]]
  /\ node' = [m \in Nodes |->
                CASE m = last -> FreeNode
                  [] m # last /\ last # this.head /\ m = node[last].prev ->
                       [node[m] EXCEPT !.next = Null]
                  [] OTHER -> node[m]]
  /\ live' = live \ {last}
  /\ order' = [order EXCEPT ![l] = SubSeq(@, 1, Len(@) - 1)]
  /\ answer' = <<node[last].value>>
  /\ UNCHANGED <<made, loop>>

list_shift(l) ==
  LET this  == list[l]
      first == this.head
  IN
  /\ Idle /\ first # Null
  /\ list' = [list EXCEPT ![l] =
                IF first = this.tail THEN [EmptyList EXCEPT !.length = this.length - 1]
                ELSE [this EXCEPT !.head = node[first].next, !.length = @ - 1]]
  /\ node' = [m \in Nodes |->
                CASE m = first -> FreeNode
                  [] m # first /\ first # this.tail /\ m = node[first].next ->
                       [node[m] EXCEPT !.prev = Null]
                  [] OTHER -> node[m]]
  /\ live' = live \ {first}
  /\ order' = [order EXCEPT ![l] = Tail(@)]
  /\ answer' = <<node[first].value>>
  /\ UNCHANGED <<made, loop>>

\* Not to be called for an empty list.
list_first(l) ==
  /\ Idle /\ list[l].head # Null
  /\ answer' = <<node[list[l].head].value>>
  /\ UNCHANGED <<made, list, live, node, loop, order>>

list_empty(l) ==
  /\ Idle
  /\ answer' = <<list[l].length = 0>>
  /\ UNCHANGED <<made, list, live, node, loop, order>>

-----------------------------------------------------------------------------
(* Loops *)

Copies == {"concat", "clone"}
Clears == {"clear", "destroy", "undo"}

list_concat(l, m) ==
  /\ Idle
  /\ loop' = Looping("concat", l, m)
  /\ UNCHANGED <<made, list, live, node, answer, order>>

\* m is the clone.
list_clone(l, m) ==
  /\ Idle
  /\ made' = made \cup {m}
  /\ list' = [list EXCEPT ![m] = EmptyList]
  /\ loop' = [Looping("clone", m, l) EXCEPT !.before = 0]
  /\ UNCHANGED <<live, node, answer, order>>

\* list_push of the item of the node the loop is at; then the next node.
CopyNode(n) ==
  /\ loop.kind \in Copies /\ loop.at # Null
  /\ Added(loop.to, n, node[loop.at].value)
  /\ loop' = [loop EXCEPT !.at = node'[@].next]
  /\ UNCHANGED <<made, answer>>

\* Mutant of CopyFails: a clone that cannot be finished stays.
CopyFailsKeeps ==
  /\ loop.kind \in Copies /\ loop.at # Null
  /\ answer' = <<FALSE>>
  /\ loop' = NoLoop
  /\ UNCHANGED <<made, list, live, node, order>>

\* A clone that cannot be finished is destroyed.
CopyFails ==
  /\ loop.kind \in Copies /\ loop.at # Null
  /\ answer' = <<FALSE>>
  /\ loop' = IF loop.kind = "clone" THEN Looping("undo", loop.to, loop.to) ELSE NoLoop
  /\ UNCHANGED <<made, list, live, node, order>>

CopyEnds ==
  /\ loop.kind \in Copies /\ loop.at = Null
  /\ answer' = <<TRUE>>
  /\ loop' = NoLoop
  /\ UNCHANGED <<made, list, live, node, order>>

\* list_clear and list_destroy.
list_clear(kind, l) ==
  /\ Idle
  /\ loop' = Looping(kind, l, l)
  /\ UNCHANGED <<made, list, live, node, answer, order>>

ClearNode ==
  /\ loop.kind \in Clears /\ loop.at # Null
  /\ live' = live \ {loop.at}
  /\ node' = [node EXCEPT ![loop.at] = FreeNode]
  /\ loop' = [loop EXCEPT !.at = node[@].next]
  /\ order' = [order EXCEPT ![loop.to] = Tail(@)]
  /\ UNCHANGED <<made, list, answer>>

ClearEnds ==
  /\ loop.kind \in Clears /\ loop.at = Null
  /\ list' = [list EXCEPT ![loop.to] = EmptyList]
  /\ made' = IF loop.kind = "clear" THEN made ELSE made \ {loop.to}
  /\ loop' = NoLoop
  /\ UNCHANGED <<live, node, answer, order>>

list_iterator(l) ==
  /\ Idle
  /\ loop' = Looping("iterate", l, l)
  /\ UNCHANGED <<made, list, live, node, answer, order>>

\* What list_next_node returns.
Current == IF loop.at = Null THEN NoItem ELSE node[loop.at].value

\* list_next_node returns an item; the index stays 0 for the first.
list_next_node ==
  /\ loop.kind = "iterate" /\ Current # NoItem
  /\ loop' = [loop EXCEPT !.at = node[@].next,
                         !.index = IF loop.seen = <<>> THEN @ ELSE @ + 1,
                         !.seen = Append(@, Current)]
  /\ UNCHANGED <<made, list, live, node, answer, order>>

\* It returns null, at the end or for a null item: the caller's loop is over.
IterationEnds ==
  /\ loop.kind = "iterate" /\ Current = NoItem
  /\ answer' = loop.seen
  /\ loop' = NoLoop
  /\ UNCHANGED <<made, list, live, node, order>>

-----------------------------------------------------------------------------

Ends(l) ==
  \/ Nothing(l) \/ list_pop(l) \/ list_shift(l) \/ list_first(l) \/ list_empty(l)
  \/ \E n \in Nodes \ live, v \in Items : list_push(l, n, v) \/ list_unshift(l, n, v)

LoopStep ==
  \/ \E n \in Nodes \ live : CopyNode(n)
  \/ CopyFails \/ CopyEnds \/ ClearNode \/ ClearEnds \/ list_next_node \/ IterationEnds

Next ==
  \/ NoMemory
  \/ LoopStep
  \/ \E l \in Lists \ made : list_create(l)
  \/ \E l \in made :
       \/ Ends(l) \/ list_iterator(l)
       \/ list_clear("clear", l) \/ list_clear("destroy", l)
       \/ \E m \in made : list_concat(l, m)
       \/ \E m \in Lists \ made : list_clone(l, m)

Spec == Init /\ [][Next]_vars

-----------------------------------------------------------------------------
(* Properties *)

NodeValue == [value : Items, prev : Pointer, next : Pointer]

Loop == [kind : Copies \cup Clears \cup {"none", "iterate"}, to : Lists \cup {Null},
         from : Lists \cup {Null}, at : Pointer, index : Nat, before : Nat,
         seen : Seq(Items)]

TypeOK ==
  /\ made \subseteq Lists
  /\ list \in [Lists -> [head : Pointer, tail : Pointer, length : Nat]]
  /\ live \subseteq Nodes
  /\ node \in [Nodes -> NodeValue]
  /\ loop \in Loop
  /\ order \in [Lists -> Seq(Nodes)]

\* The node at position i, and the null pointer beyond both ends.
At(s, i) == IF i \in 1 .. Len(s) THEN s[i] ELSE Null

Clearing(l) == loop.kind \in Clears /\ loop.to = l

\* The structure of a list shows both ends and the length; while the list is
\* cleared, the loop is at the first node left.
Headed(l) ==
  LET s == order[l] IN
  IF Clearing(l) THEN loop.at = At(s, 1)
  ELSE list[l] = [head |-> At(s, 1), tail |-> At(s, Len(s)), length |-> Len(s)]

\* The pointers lead through the nodes in order, in both directions.
Chained(l) ==
  \A i \in 1 .. Len(order[l]) :
    /\ node[order[l][i]].next = At(order[l], i + 1)
    /\ node[order[l][i]].prev = At(order[l], i - 1) \/ (Clearing(l) /\ i = 1)

\* No node is in two places.
Apart ==
  \A k, l \in Lists : \A i \in 1 .. Len(order[k]), j \in 1 .. Len(order[l]) :
    order[k][i] = order[l][j] => k = l /\ i = j

\* The nodes in lists are those that are allocated, and only lists there are have any.
Listed ==
  /\ \A l \in Lists : \A i \in 1 .. Len(order[l]) : order[l][i] \in live /\ l \in made
  /\ \A n \in live : \E l \in Lists : \E i \in 1 .. Len(order[l]) : n = order[l][i]

\* A loop works on lists there are, and is at a node of the one it walks, or past
\* its end.
LoopInside ==
  /\ loop.kind # "none" => {loop.to, loop.from} \subseteq made
  /\ loop.kind \in Copies \cup {"iterate"} /\ loop.at # Null =>
       \E i \in 1 .. Len(order[loop.from]) : loop.at = order[loop.from][i]

\* After any calls, and inside their loops: the structure and the pointers of a list
\* agree, every allocated node is in one place of one list, and no pointer leads to
\* a freed node.
Sound ==
  /\ TypeOK
  /\ \A l \in Lists : Headed(l) /\ Chained(l)
  /\ Apart /\ Listed /\ LoopInside

Stored(s) == [i \in DOMAIN s |-> node[s[i]].value]

\* The lists as their callers see them: a loop that changes one takes effect when
\* it starts, if it clears the list, and when it ends, if it copies.
Visible ==
  [l \in Lists |->
     CASE Clearing(l)                                -> <<>>
       [] loop.kind = "clone" /\ loop.to = l  -> <<>>
       [] loop.kind = "concat" /\ loop.to = l -> Stored(SubSeq(order[l], 1, loop.before))
       [] OTHER                              -> Stored(order[l])]

There == made \ (IF loop.kind \in {"clone", "undo", "destroy"} THEN {loop.to} ELSE {})

Abstract == INSTANCE ItemLists WITH
  made <- There, items <- Visible, Most <- Cardinality(Nodes)

\* Whatever calls are made and whenever memory is short, what they return and what
\* is in the lists is what sequences would give.
RefinesItemLists == Abstract!Spec
===============================================================================
