-------------------------------- MODULE ItemLists ------------------------------
(***************************************************************************)
(* What list.c promises: lists of items that grow and shrink at both ends, *)
(* where memory may be missing.  LinkedList implements it.                 *)
(***************************************************************************)
EXTENDS Integers, Sequences

CONSTANTS Lists,
          Items,   \* what lists hold, NoItem included
          NoItem,  \* the null pointer
          Most     \* bound: items of a list

VARIABLES
  made,   \* the lists there are
  items,  \* [list -> the sequence of its items]
  answer  \* <<what the latest call returned>>, or the items a loop has seen

Init ==
  /\ made = {}
  /\ items = [l \in Lists |-> <<>>]
  /\ answer = <<>>

Front(s) == SubSeq(s, 1, Len(s) - 1)

\* n items, those of s over and over.
Repeated(s, n) == [i \in 1 .. n |-> s[((i - 1) % Len(s)) + 1]]

\* List l holds s then.
Become(l, s) == items' = [items EXCEPT ![l] = s] /\ UNCHANGED made

\* A call fails for lack of memory and changes nothing.
Fails == answer' = <<FALSE>> /\ UNCHANGED <<made, items>>

Create(l) == made' = made \cup {l} /\ answer' = <<TRUE>> /\ UNCHANGED items

Destroy(l) ==
  /\ made' = made \ {l}
  /\ items' = [items EXCEPT ![l] = <<>>]
  /\ UNCHANGED answer

Clear(l) == Become(l, <<>>) /\ UNCHANGED answer

Push(l, v)    == Become(l, Append(items[l], v)) /\ answer' = <<TRUE>>
Unshift(l, v) == Become(l, <<v>> \o items[l]) /\ answer' = <<TRUE>>

Pop(l) ==
  IF items[l] = <<>> THEN answer' = <<NoItem>> /\ UNCHANGED <<made, items>>
  ELSE Become(l, Front(items[l])) /\ answer' = <<items[l][Len(items[l])]>>

Shift(l) ==
  IF items[l] = <<>> THEN answer' = <<NoItem>> /\ UNCHANGED <<made, items>>
  ELSE Become(l, Tail(items[l])) /\ answer' = <<items[l][1]>>

First(l) ==
  /\ items[l] # <<>>
  /\ answer' = <<items[l][1]>>
  /\ UNCHANGED <<made, items>>

Empty(l) == answer' = <<items[l] = <<>>>> /\ UNCHANGED <<made, items>>

\* The items of another list are added, or a first part of them when memory is
\* short; the other list stays as it is.
Concat(l, m) ==
  \E n \in 0 .. Len(items[m]) :
    /\ Become(l, items[l] \o SubSeq(items[m], 1, n))
    /\ answer' = <<n = Len(items[m])>>

\* A list that is added to itself grows until memory is short.
ConcatSelf(l) ==
  /\ items[l] # <<>>
  /\ \E n \in Len(items[l]) .. Most : Become(l, Repeated(items[l], n))
  /\ answer' = <<FALSE>>

\* m, which there was not, holds the same items.
Clone(l, m) ==
  /\ made' = made \cup {m}
  /\ items' = [items EXCEPT ![m] = items[l]]
  /\ answer' = <<TRUE>>

\* What a loop over the list sees: it ends at a null pointer among the items.
Iterate(l) ==
  /\ answer' = LET ends == {i \in DOMAIN items[l] : items[l][i] = NoItem}
               IN  IF ends = {} THEN items[l]
                   ELSE SubSeq(items[l], 1, (CHOOSE i \in ends : \A j \in ends : i <= j) - 1)
  /\ UNCHANGED <<made, items>>

Next ==
  \/ Fails
  \/ \E l \in Lists \ made : Create(l)
  \/ \E l \in made :
       \/ Destroy(l) \/ Clear(l) \/ Pop(l) \/ Shift(l) \/ First(l) \/ Empty(l)
       \/ ConcatSelf(l) \/ Iterate(l)
       \/ \E v \in Items : Push(l, v) \/ Unshift(l, v)
       \/ \E m \in made : (m # l \/ items[l] = <<>>) /\ Concat(l, m)
       \/ \E m \in Lists \ made : Clone(l, m)

Spec == Init /\ [][Next]_<<made, items, answer>>
===============================================================================
