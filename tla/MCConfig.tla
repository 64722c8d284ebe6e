-------------------------------- MODULE MCConfig -------------------------------
(* Configuration files for TLC: every order of the members, objects that end   *)
(* with a setting or not, serial numbers that are equal or share an address,   *)
(* keys that do not decode, texts that read like names, an object of another   *)
(* kind, and more tokens than there is room for.                               *)
EXTENDS Config

MCTexts == Recognised \cup Members \cup
  {"", "1", "2", "11", "12", "13", "K", "short", "junk", "name", "city", "x", "rf0", "long"}
MCNumber == "1" :> 1 @@ "2" :> 2 @@ "11" :> 11 @@ "12" :> 12 @@ "13" :> 13
MCHash == 0 :> 7 @@ 1 :> 21 @@ 2 :> 22 @@ 11 :> 31 @@ 12 :> 32 @@ 13 :> 32
MCAddresses == {7, 21, 22, 31, 32}
MCGarbage == {[type |-> "string", text |-> "x", size |-> 2, open |-> FALSE]}

F(n, t) == [name |-> n, text |-> t]

Usual == {<<F("id", "11"), F("key", "K"), F("name", "x")>>,
          <<F("id", "12"), F("key", "K")>>,
          <<F("key", "short"), F("id", "13")>>,
          <<F("name", "x"), F("id", "11")>>}

Odd == {<<F("id", "12"), F("key", "junk"), F("name", "x")>>,
        <<F("id", "11"), F("name", "id")>>,
        <<F("name", "gateway"), F("id", "12")>>,
        <<F("id", "1"), F("name", "devices")>>}

Lists == {<<>>} \cup {<<d>> : d \in Usual \cup Odd}
           \cup {<<c, d>> : c, d \in Usual} \cup {<<c, d>> : c \in Odd, d \in Odd}
           \cup {<<c, d, c>> : c, d \in Usual}

Gateway1 == <<F("interface", "rf0"), F("id", "1"), F("bcast", "2"), F("key", "K")>>
Gateway2 == <<F("interface", "long"), F("id", "2")>>
Site1 == <<F("city", "x")>>
Site2 == <<F("id", "13"), F("city", "x")>>

File(order, ver, gw, site, devices) ==
  [order |-> order, version |-> ver, gateway |-> gw, site |-> site,
   comment |-> "x", devices |-> devices]

Three == {<<"version", "gateway", "devices">>, <<"gateway", "devices", "version">>,
          <<"gateway", "version", "devices">>, <<"devices", "version", "gateway">>,
          <<"version", "devices", "gateway">>, <<"devices", "gateway", "version">>}

MCFiles ==
  {File(o, "1", Gateway1, Site1, l) : o \in Three, l \in Lists} \cup
  {File(o \o <<m>>, "1", Gateway2, s, l) :
     o \in Three,
     m \in {"comment", "site"}, s \in {Site1, Site2},
     l \in {<<c, d>> : c, d \in Usual}} \cup
  {File(o, v, Gateway1, Site2, <<d>>) :
     o \in {<<"site", "version", "gateway", "devices">>, <<"version", "devices">>,
            <<"version", "gateway", "site", "devices", "comment">>},
     v \in {"1", "2"}, d \in Usual}
===============================================================================
