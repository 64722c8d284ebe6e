------------------------------- MODULE MCHashMap -------------------------------
(* A small instance of HashMap for TLC: keys that collide in every, in some   *)
(* and in few bucket counts, and other maps with known keys, new keys, both,  *)
(* and in another order.                                                      *)
EXTENDS HashMap, TLC

CONSTANTS v, w

B(k, x) == [key |-> k, val |-> x]

MCOthers == {<<>>, <<B(5, w)>>, <<B(5, w), B(1, v)>>, <<B(1, w), B(3, w)>>,
             <<B(3, v), B(5, v), B(1, v)>>}
===============================================================================
