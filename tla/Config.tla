--------------------------------- MODULE Config --------------------------------
(***************************************************************************)
(* configParse and rfAddDevice: the configuration file becomes tokens, one *)
(* walk over the tokens fills the gateway's structure and registers the    *)
(* devices.  The walk knows no nesting: it looks for names wherever they   *)
(* are, writes through rd, and registers what rd points to when the next   *)
(* object begins or the last token is reached.                             *)
(*                                                                         *)
(* Not kept: ingw, which is counted down but never read.  Memory suffices, *)
(* but for the file's buffer and the decoded key, where the code asks, and *)
(* for the entry of the map, where it does not.                            *)
(***************************************************************************)
EXTENDS Jsmn, ConfigFile

CONSTANTS Files,     \* the configuration files
          Hash,      \* fnv1aHash of a serial number
          Addresses, \* its values
          LongName,  \* interface texts that do not fit
          Garbage,   \* what token memory behind the last token may hold, any
                     \* integer as the size
          Blank,     \* the key of zeros
          Noise      \* a key of undecoded memory

\* The tokens can be counted in a uint8_t.
ASSUME ConfigAssumption ==
  /\ MaxTokens < 256
  /\ \A f \in Files : IsFile(f)
  /\ Addresses \subseteq Nat
  /\ Hash[0] \in Addresses
  /\ \A t \in DOMAIN Number : Hash[Number[t]] \in Addresses
  /\ \A t \in Garbage : t.size \in Int

\* uint8_t and uint16_t
Bytes == {n \in Nat : n < 256}
Byte(n) == n % 256
Words == {n \in Nat : n < 65536}
Word(n) == n % 65536

VARIABLES
  file,     \* the file, and how many of its last lexemes are missing
  pc,       \* "start", "item" (top of the loop), "name", "done", "crashed"
  ret,      \* what configParse returns
  tok,      \* the tokens
  i,        \* the current one
  rd,       \* the structure written to, 0 while uninitialised
  indev,    \* devices still to be registered
  dev,      \* structures: 1 is main's gw, the others come from calloc
  queues,   \* lists created for packetQueue
  registry, \* rf.devices, a function on addresses in use
  version,
  iface,
  \* History, for the properties only:
  log       \* what rfAddDevice was called with, in order, and whether it was stored

vars == <<file, pc, ret, tok, i, rd, indev, dev, queues, registry, version, iface, log>>

Zeroed == [sn |-> 0, addr |-> 0, key |-> Blank, queue |-> FALSE, live |-> TRUE]

Init ==
  /\ file \in [content : Files, missing : {0, 1}]
  /\ pc = "start" /\ ret = 0
  /\ tok = <<>> /\ i = 0
  /\ rd = 0 /\ indev = 0
  /\ dev = <<Zeroed>>
  /\ queues = 0
  /\ registry = <<>>
  /\ version = 0 /\ iface = ""
  /\ log = <<>>

-----------------------------------------------------------------------------
(* Reading the file *)

\* The file cannot be opened, or there is no memory for it.
ReadFails ==
  /\ pc = "start"
  /\ pc' = "done"
  /\ ret' \in {1, 2}
  /\ UNCHANGED <<file, tok, i, rd, indev, dev, queues, registry, version, iface, log>>

\* An error of jsmn_parse is a negative count: the loop is not entered.
Tokenize ==
  /\ pc = "start"
  /\ LET text == Text(file.content)
         p == Parse(SubSeq(text, 1, Len(text) - file.missing))
     IN  tok' = IF p.error = "none" THEN p.tok ELSE <<>>
  /\ i' = 2
  /\ pc' = "item"
  /\ UNCHANGED <<file, ret, rd, indev, dev, queues, registry, version, iface, log>>

-----------------------------------------------------------------------------
(* Top of the loop *)

\* Mutant of Complete: only an object completes a device.
CompleteAtObject == indev > 0 /\ tok[i].type = "object"

\* The device under construction is complete.
Complete == indev > 0 /\ (tok[i].type = "object" \/ i = Len(tok))

\* The structure d with its address and its list.
Completed(d) == [sn |-> dev[d].sn, addr |-> Hash[dev[d].sn], key |-> dev[d].key,
                 queue |-> TRUE, live |-> dev[d].live]

\* hashmap_set: the registry with d under the address a.
Entered(a, d) == [b \in DOMAIN registry \cup {a} |-> IF b = a THEN d ELSE registry[b]]

\* Mutant of rfAddDevice: the wrong structure is freed.
rfAddDeviceFreesNew(d) ==
  LET addr == Hash[dev[d].sn]
      new  == [dev EXCEPT ![d] = Completed(d)]
  IN  [dev |-> IF addr \in DOMAIN registry
               THEN [new EXCEPT ![d].live = FALSE]
               ELSE new,
       registry |-> Entered(addr, d)]

\* The new list and the registration: a structure registered under the same
\* address is replaced and freed, but not its packetQueue.
rfAddDevice(d) ==
  LET addr == Hash[dev[d].sn]
      new  == [dev EXCEPT ![d] = Completed(d)]
  IN  [dev |-> IF addr \in DOMAIN registry
               THEN [new EXCEPT ![registry[addr]].live = FALSE]
               ELSE new,
       registry |-> Entered(addr, d)]

\* The structure to be replaced is main's variable: free() ends the process.
FreesGateway ==
  \E a \in DOMAIN registry : a = Hash[dev[rd].sn] /\ registry[a] = 1

Register ==
  /\ pc = "item" /\ i <= Len(tok) /\ Complete /\ ~FreesGateway
  /\ LET r == rfAddDevice(rd) IN
     /\ registry' = r.registry
     /\ dev' = IF indev > 1 THEN Append(r.dev, Zeroed) ELSE r.dev
     /\ rd' = IF indev > 1 THEN Len(dev) + 1 ELSE rd
  /\ indev' = indev - 1
  /\ queues' = queues + 1
  /\ log' = Append(log, [sn |-> dev[rd].sn, key |-> dev[rd].key, stored |-> TRUE])
  /\ pc' = "name"
  /\ UNCHANGED <<file, ret, tok, i, version, iface>>

\* hashmap_set has no memory for an entry and returns null, as it does for a new
\* address: nobody notices.
RegisterForgets ==
  LET addr == Hash[dev[rd].sn]
      new  == [dev EXCEPT ![rd] = Completed(rd)]
  IN
  /\ pc = "item" /\ i <= Len(tok) /\ Complete
  /\ addr \notin DOMAIN registry
  /\ dev' = IF indev > 1 THEN Append(new, Zeroed) ELSE new
  /\ rd' = IF indev > 1 THEN Len(dev) + 1 ELSE rd
  /\ indev' = indev - 1
  /\ queues' = queues + 1
  /\ log' = Append(log, [sn |-> dev[rd].sn, key |-> dev[rd].key, stored |-> FALSE])
  /\ pc' = "name"
  /\ UNCHANGED <<file, ret, tok, i, registry, version, iface>>

RegisterCrashes ==
  /\ pc = "item" /\ i <= Len(tok) /\ Complete /\ FreesGateway
  /\ pc' = "crashed"
  /\ UNCHANGED <<file, ret, tok, i, rd, indev, dev, queues, registry, version, iface, log>>

Incomplete ==
  /\ pc = "item" /\ i <= Len(tok) /\ ~Complete
  /\ pc' = "name"
  /\ UNCHANGED <<file, ret, tok, i, rd, indev, dev, queues, registry, version, iface, log>>

\* Mutant of Finish: the version is not looked at.
FinishAnyVersion ==
  /\ pc = "item" /\ i > Len(tok)
  /\ ret' = 0
  /\ pc' = "done"
  /\ UNCHANGED <<file, tok, i, rd, indev, dev, queues, registry, version, iface, log>>

\* Behind the loop.
Finish ==
  /\ pc = "item" /\ i > Len(tok)
  /\ ret' = IF version = 1 THEN 0 ELSE 1
  /\ pc' = "done"
  /\ UNCHANGED <<file, tok, i, rd, indev, dev, queues, registry, version, iface, log>>

-----------------------------------------------------------------------------
(* The names, and the tokens taken as their values *)

\* jsoneq
Is(name) == pc = "name" /\ tok[i].type = "string" /\ tok[i].text = name

\* What is read as the token n places on.
Ahead(n) == IF i + n \in DOMAIN tok THEN {tok[i + n]} ELSE Garbage

\* n tokens are used, then the loop goes on with the next one.
Skip(n) == i' = i + n + 1 /\ pc' = "item"

Version ==
  /\ Is("version")
  /\ \E t \in Ahead(1) : version' = Word(NumberOr(version, t.text))
  /\ Skip(1)
  /\ UNCHANGED <<file, ret, tok, rd, indev, dev, queues, registry, iface, log>>

Gateway ==
  /\ Is("gateway")
  /\ rd' = 1
  /\ Skip(1)
  /\ UNCHANGED <<file, ret, tok, indev, dev, queues, registry, version, iface, log>>

Interface ==
  /\ Is("interface")
  /\ \E t \in Ahead(1) : iface' = IF t.text \in LongName THEN "rf0" ELSE t.text
  /\ Skip(1)
  /\ UNCHANGED <<file, ret, tok, rd, indev, dev, queues, registry, version, log>>

\* A field of the structure rd points to.  Through the uninitialised rd the
\* value goes anywhere, or the process ends.
Field(new) ==
  \/ /\ rd # 0
     /\ dev' = [dev EXCEPT ![rd] = new]
     /\ Skip(1)
  \/ /\ rd = 0
     /\ dev' = dev
     /\ Skip(1)
  \/ /\ rd = 0
     /\ pc' = "crashed"
     /\ UNCHANGED <<dev, i>>

Id ==
  /\ Is("id")
  /\ \E t \in Ahead(1) : Field([dev[rd] EXCEPT !.sn = NumberOr(@, t.text)])
  /\ UNCHANGED <<file, ret, tok, rd, indev, queues, registry, version, iface, log>>

Bcast ==
  /\ Is("bcast")
  /\ \E t \in Ahead(1) : Field([dev[rd] EXCEPT !.addr = NumberOr(@, t.text)])
  /\ UNCHANGED <<file, ret, tok, rd, indev, queues, registry, version, iface, log>>

\* EVP_DecodeBlock and the comparison of its result, which is size_t here: the
\* -1 for text that is not base64 counts as long enough.
Decoded(t) ==
  IF t \in GoodKeys THEN t ELSE IF t \in ShortKeys THEN Default ELSE Noise

Key ==
  /\ Is("key")
  /\ \E t \in Ahead(1) : Field([dev[rd] EXCEPT !.key = Decoded(t.text)])
  /\ UNCHANGED <<file, ret, tok, rd, indev, queues, registry, version, iface, log>>

\* No memory for the decoded key: the field stays as it is.
KeyNotRead ==
  /\ Is("key")
  /\ Skip(1)
  /\ UNCHANGED <<file, ret, tok, rd, indev, dev, queues, registry, version, iface, log>>

\* Mutant of Devices: the first object is not skipped.
DevicesOneShort ==
  /\ Is("devices")
  /\ dev' = Append(dev, Zeroed) /\ rd' = Len(dev) + 1
  /\ \E t \in Ahead(1) : indev' = Byte(t.size)
  /\ Skip(1)
  /\ UNCHANGED <<file, ret, tok, queues, registry, version, iface, log>>

\* The array and what comes behind it, its first object, are skipped.
Devices ==
  /\ Is("devices")
  /\ dev' = Append(dev, Zeroed) /\ rd' = Len(dev) + 1
  /\ \E t \in Ahead(1) : indev' = Byte(t.size)
  /\ Skip(2)
  /\ UNCHANGED <<file, ret, tok, queues, registry, version, iface, log>>

\* Anything else is passed over.
Unknown ==
  /\ pc = "name"
  /\ \A name \in Recognised : ~Is(name)
  /\ Skip(0)
  /\ UNCHANGED <<file, ret, tok, rd, indev, dev, queues, registry, version, iface, log>>

Next ==
  \/ ReadFails \/ Tokenize
  \/ Register \/ RegisterForgets \/ RegisterCrashes \/ Incomplete \/ Finish
  \/ Version \/ Gateway \/ Interface \/ Id \/ Bcast \/ Key \/ KeyNotRead
  \/ Devices \/ Unknown

Spec == Init /\ [][Next]_vars

-----------------------------------------------------------------------------
(* Properties *)

KeyValues == GoodKeys \cup {Default, Blank, Noise}
Serials == {Number[t] : t \in DOMAIN Number} \cup {0}

TypeOK ==
  /\ pc \in {"start", "item", "name", "done", "crashed"}
  /\ ret \in 0 .. 2
  /\ Len(tok) <= MaxTokens
  /\ \A n \in DOMAIN tok : tok[n].size \in 0 .. MaxTokens /\ ~tok[n].open
  /\ i \in 0 .. (MaxTokens + 3)
  /\ rd \in 0 .. Len(dev)
  /\ indev \in Bytes
  /\ \A d \in DOMAIN dev :
       dev[d] \in [sn : Serials, addr : Nat, key : KeyValues,
                   queue : BOOLEAN, live : BOOLEAN]
  /\ DOMAIN registry \subseteq Addresses
  /\ \A a \in DOMAIN registry : registry[a] \in DOMAIN dev
  /\ version \in Words
  /\ queues = Len(log)

\* The sizes of the tokens, which the number of devices is taken from, are those
\* of the objects and arrays in the text, and every token is there.
TokensRight ==
  tok # <<>> => file.missing = 0 /\ tok = Tokens(file.content)

\* A file like the sample: settings are not shadowed by texts, by other objects or
\* by each other, keys are base64, and the gateway comes before the devices.
Conventional(f) ==
  /\ NamesApart(f)
  /\ KeysDecode(f)
  /\ \A n \in DOMAIN f.site : f.site[n].name \notin Recognised
  /\ \A n \in DOMAIN f.devices :
       /\ f.devices[n] # <<>>
       /\ \A x, y \in DOMAIN f.devices[n] :
            f.devices[n][x].name = f.devices[n][y].name => x = y
  /\ Position(f, "gateway") < Position(f, "devices")

\* Devices are registered in the order of the file, each with the serial number
\* and the key of its own object; the key is missing if memory was short.
InOrder ==
  Conventional(file.content) =>
    \A n \in DOMAIN log :
      /\ n <= Len(file.content.devices)
      /\ LET d == Declared(file.content.devices[n], Blank)
         IN  log[n].sn = d.sn /\ log[n].key \in {d.key, Blank}

\* At the end rfAddDevice was called for all devices, but for the last one if the file ends
\* with the value of a setting: the loop has stepped over its last token.
LosesOnlyLast ==
  LET f == file.content
      closed == Position(f, "site") > Position(f, "devices")
      lost == f.devices # <<>> /\ EndsWithSetting(f) /\ ~closed
  IN  pc = "done" /\ tok # <<>> /\ Conventional(f) =>
        Len(log) = Len(f.devices) - (IF lost THEN 1 ELSE 0)

\* A file is accepted when it is read whole, fits, and has the supported version,
\* unless an empty list of devices stands before its version.
AcceptedIff ==
  LET f == file.content
      v == Position(f, "version")
      d == Position(f, "devices")
      hidden == d > 0 /\ v = d + 1 /\ f.devices = <<>>
  IN  pc = "done" /\ NamesApart(f) =>
        (ret = 0 <=> /\ i > 0
                     /\ file.missing = 0
                     /\ Len(Tokens(f)) <= MaxTokens
                     /\ v > 0 /\ Word(NumberOr(0, f.version)) = 1
                     /\ ~hidden)

\* The registry is what the registrations make of it, the latest one counting
\* for an address; what it holds is allocated, of its own address and not main's
\* variable.  What was replaced is free, and its packetQueue is lost.  What there
\* was no memory for is in no registry, and its structure is lost.  There is no
\* other loss.
RegistrySound ==
  LET stored == {n \in DOMAIN log : log[n].stored}
      held   == {registry[a] : a \in DOMAIN registry}
      lost   == {d \in DOMAIN dev : dev[d].live /\ dev[d].queue /\ d \notin held}
  IN
  Conventional(file.content) =>
    /\ pc # "crashed"
    /\ DOMAIN registry = {Hash[log[n].sn] : n \in stored}
    /\ \A n \in stored :
         LET a == Hash[log[n].sn]
             d == dev[registry[a]]
         IN  /\ registry[a] # 1 /\ d.live /\ d.queue /\ d.addr = a
             /\ \/ d.sn = log[n].sn /\ d.key = log[n].key
                \/ \E m \in stored : m > n /\ Hash[log[m].sn] = a
    /\ \A d \in DOMAIN dev \ {1, rd} : dev[d].live => d \in held \cup lost
    /\ Cardinality(lost) = Len(log) - Cardinality(stored)
    /\ queues - Cardinality({d \in DOMAIN dev : dev[d].live /\ dev[d].queue})
         = Cardinality(stored) - Cardinality(held)
===============================================================================
