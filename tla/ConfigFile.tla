------------------------------- MODULE ConfigFile ------------------------------
(***************************************************************************)
(* Configuration files as their authors mean them: what is declared, how   *)
(* it is written down as JSON, and which tokens that text has.  Config is  *)
(* checked against this.                                                   *)
(***************************************************************************)
EXTENDS Integers, SequencesExt

CONSTANTS Texts,     \* the names and values that files are made of
          Number,    \* the numerals and what they stand for, in 32 bits
          GoodKeys,  \* key texts that decode to at least 32 bytes
          ShortKeys, \* key texts that decode to fewer
          Default    \* the key used instead of those

ASSUME NumberAssumption == \A t \in DOMAIN Number : Number[t] \in Nat

Recognised == {"version", "gateway", "interface", "id", "bcast", "key", "devices"}

Members == {"version", "gateway", "site", "devices", "comment"}
Fields == [name : Texts, text : Texts]

ASSUME TextsAssumption == Recognised \cup Members \cup {""} \subseteq Texts

\* A file has some of the members, in some order: "version", a text; "gateway" and
\* "site", objects; "devices", an array of objects; "comment", a text.  An
\* object is a sequence of fields.
IsFile(f) ==
  /\ f.order \in Seq(Members)
  /\ \A i, j \in DOMAIN f.order : f.order[i] = f.order[j] => i = j
  /\ f.version \in Texts /\ f.comment \in Texts
  /\ f.gateway \in Seq(Fields) /\ f.site \in Seq(Fields)
  /\ f.devices \in Seq(Seq(Fields))

-----------------------------------------------------------------------------
(* As text *)

Mark(c) == <<[c |-> c, text |-> ""]>>

Plain(t) ==
  <<[c |-> IF t \in DOMAIN Number THEN "primitive" ELSE "string", text |-> t]>>

Quoted(t) == <<[c |-> "string", text |-> t]>>

\* The parts with commas between them.
List(parts) ==
  FoldLeft(LAMBDA a, p : IF a = <<>> THEN p ELSE a \o Mark(",") \o p, <<>>, parts)

Pair(name, value) == Quoted(name) \o Mark(":") \o value

Object(fields) ==
  Mark("{") \o List([i \in DOMAIN fields |-> Pair(fields[i].name, Plain(fields[i].text))])
            \o Mark("}")

Value(f, m) ==
  CASE m = "version" -> Plain(f.version)
    [] m = "comment" -> Plain(f.comment)
    [] m = "gateway" -> Object(f.gateway)
    [] m = "site"    -> Object(f.site)
    [] m = "devices" -> Mark("[") \o List([i \in DOMAIN f.devices |-> Object(f.devices[i])])
                                  \o Mark("]")

Text(f) ==
  Mark("{") \o List([i \in DOMAIN f.order |-> Pair(f.order[i], Value(f, f.order[i]))])
            \o Mark("}")

-----------------------------------------------------------------------------
(* As tokens *)

Token(type, text, size) ==
  <<[type |-> type, text |-> text, size |-> size, open |-> FALSE]>>

PlainToken(t) == Token(Plain(t)[1].c, t, 0)

ObjectTokens(fields) ==
  Token("object", "", Len(fields)) \o
  FlattenSeq([i \in DOMAIN fields |-> Token("string", fields[i].name, 1)
                                      \o PlainToken(fields[i].text)])

MemberTokens(f, m) ==
  Token("string", m, 1) \o
  CASE m = "version" -> PlainToken(f.version)
    [] m = "comment" -> PlainToken(f.comment)
    [] m = "gateway" -> ObjectTokens(f.gateway)
    [] m = "site"    -> ObjectTokens(f.site)
    [] m = "devices" -> Token("array", "", Len(f.devices)) \o
                        FlattenSeq([i \in DOMAIN f.devices |-> ObjectTokens(f.devices[i])])

Tokens(f) ==
  Token("object", "", Len(f.order)) \o
  FlattenSeq([i \in DOMAIN f.order |-> MemberTokens(f, f.order[i])])

-----------------------------------------------------------------------------
(* As declarations *)

\* What the fields named `name` say, the last one counting; `other` if none does.
Said(fields, name, Meaning(_, _), other) ==
  FoldLeft(LAMBDA a, x : IF x.name = name THEN Meaning(a, x.text) ELSE a, other, fields)

NumberOr(a, t) == IF t \in DOMAIN Number THEN Number[t] ELSE a
KeyOr(a, t) == IF t \in GoodKeys THEN t ELSE Default

\* A device object declares a serial number and a key; `blank` is the key of
\* zeros that calloc leaves.
Declared(fields, blank) ==
  [sn |-> Said(fields, "id", NumberOr, 0), key |-> Said(fields, "key", KeyOr, blank)]

Position(f, m) == CHOOSE i \in 0 .. Len(f.order) :
                    IF m \in ToSet(f.order) THEN i > 0 /\ f.order[i] = m ELSE i = 0

Objects(f) == ToSet(f.devices) \cup {f.gateway, f.site}

\* No text in the file reads like the name of a setting, and no field of an
\* object has the name of a member of the file.
NamesApart(f) ==
  /\ f.version \notin Recognised /\ f.comment \notin Recognised
  /\ \A o \in Objects(f) : \A i \in DOMAIN o :
       o[i].text \notin Recognised /\ o[i].name \notin Members

\* Every key in the file is base64.
KeysDecode(f) ==
  \A o \in ToSet(f.devices) \cup {f.gateway} : \A i \in DOMAIN o :
     o[i].name = "key" => o[i].text \in GoodKeys \cup ShortKeys

\* The file ends with the value of a setting.
EndsWithSetting(f) ==
  LET t == Tokens(f) IN Len(t) > 1 /\ t[Len(t) - 1].text \in Recognised
===============================================================================
