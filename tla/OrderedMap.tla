------------------------------- MODULE OrderedMap ------------------------------
(***************************************************************************)
(* What hashmap.c promises: a map that keeps its bindings in the order     *)
(* their keys were first stored.  HashMap implements it.                   *)
(***************************************************************************)
EXTENDS SequencesExt

CONSTANTS Keys, Values,
          Others  \* what other maps hold: sequences of bindings, no key twice

VARIABLE bindings  \* sequence of [key, val], no key twice

Binding == [key : Keys, val : Values]

Init == bindings = <<>>

\* s with k bound to v: in its place if k is there, else at the end.
Put(s, k, v) ==
  IF \E i \in DOMAIN s : s[i].key = k
  THEN [i \in DOMAIN s |-> IF s[i].key = k THEN [s[i] EXCEPT !.val = v]
                           ELSE s[i]]
  ELSE Append(s, [key |-> k, val |-> v])

PutAll(s, bs) == FoldLeft(LAMBDA a, b : Put(a, b.key, b.val), s, bs)

\* s without the binding of k.
Without(s, k) ==
  LET at == {i \in DOMAIN s : s[i].key = k}
  IN  IF at = {} THEN s ELSE RemoveAt(s, CHOOSE i \in at : TRUE)

Store  == \E k \in Keys, v \in Values : bindings' = Put(bindings, k, v)
Delete == \E k \in Keys : bindings' = Without(bindings, k)
Empty  == bindings' = <<>>

\* Several bindings of another map, in its order.
Absorb == \E bs \in Others : bindings' = PutAll(bindings, bs)

Next == Store \/ Delete \/ Empty \/ Absorb

Spec == Init /\ [][Next]_bindings
===============================================================================
