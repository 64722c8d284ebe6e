------------------------------- MODULE MCWsFrames ------------------------------
(* Streams for TLC: all of up to two frames, and some of three in which a frame *)
(* follows one that leaves its bytes behind.                                    *)
EXTENDS WsFrames

MCStreams ==
  {s \in {<<>>} \cup {<<a>> : a \in Kinds} \cup {<<a, b>> : a, b \in Kinds} :
     \A k \in DOMAIN s : s[k] = "close" => k = Len(s)} \cup
  {<<"text", "long", "ping">>, <<"empty", "text", "ping">>, <<"ping", "text", "close">>}
===============================================================================
