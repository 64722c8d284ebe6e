--------------------------------- MODULE Jsmn ---------------------------------
(***************************************************************************)
(* jsmn.h, the tokenizer of the configuration file, as it is compiled here *)
(* (neither strict nor with parent links).  Text arrives as lexemes: a     *)
(* bracket, comma or colon, a quoted string or an unquoted value.  What is *)
(* kept is the token array with its sizes and the superior node, which the *)
(* sizes depend on.                                                        *)
(***************************************************************************)
EXTENDS Integers, SequencesExt

CONSTANT MaxTokens  \* tokens there is room for (128 in config.c)

ASSUME TokensAssumption == MaxTokens \in Nat \ {0}

Opening == [c \in {"{", "["} |-> IF c = "{" THEN "object" ELSE "array"]
Closing == [c \in {"}", "]"} |-> IF c = "}" THEN "object" ELSE "array"]

\* jsmn_init.  super is the index of the superior token, 0 for none.
Fresh == [tok |-> <<>>, super |-> 0, error |-> "none"]

Failed(p, e) == [p EXCEPT !.error = e]

\* The open objects and arrays.
Open(p) == {i \in DOMAIN p.tok : p.tok[i].open}

\* The superior token has one more below it.
Counted(p) ==
  [i \in DOMAIN p.tok |-> IF i = p.super THEN [p.tok[i] EXCEPT !.size = @ + 1] ELSE p.tok[i]]

\* Mutant of Alloc: one token more than there is room for.
AllocOneMore(p, type, text, open) ==
  IF Len(p.tok) = MaxTokens + 1
  THEN Failed(p, "nomem")
  ELSE [p EXCEPT !.tok =
          Append(Counted(p), [type |-> type, text |-> text, size |-> 0, open |-> open])]

\* jsmn_alloc_token and jsmn_fill_token; the superior token grows by one.
Alloc(p, type, text, open) ==
  IF Len(p.tok) = MaxTokens
  THEN Failed(p, "nomem")
  ELSE [p EXCEPT !.tok =
          Append(Counted(p), [type |-> type, text |-> text, size |-> 0, open |-> open])]

\* '{' and '['
Down(p, c) ==
  LET q == Alloc(p, Opening[c], "", TRUE)
  IN  IF q.error = "none" THEN [q EXCEPT !.super = Len(q.tok)] ELSE q

\* '}' and ']': the innermost open token ends, the one around it is superior.
Up(p, c) ==
  IF Open(p) = {} \/ p.tok[Max(Open(p))].type # Closing[c]
  THEN Failed(p, "inval")
  ELSE LET i == Max(Open(p)) IN
       [tok   |-> [p.tok EXCEPT ![i].open = FALSE],
        super |-> IF Open(p) = {i} THEN 0 ELSE Max(Open(p) \ {i}),
        error |-> p.error]

\* Mutant of Comma: the key before stays superior.
CommaKeepsKey(p) == p

\* ',': after a key's value the object around it is superior again.
Comma(p) ==
  IF \/ p.super = 0
     \/ p.tok[p.super].type \in {"array", "object"}
     \/ Open(p) = {}
  THEN p
  ELSE [p EXCEPT !.super = Max(Open(p))]

Lexeme(p, x) ==
  IF p.error # "none" THEN p ELSE
  CASE x.c \in DOMAIN Opening    -> Down(p, x.c)
    [] x.c \in DOMAIN Closing    -> Up(p, x.c)
    [] x.c = ":"                 -> [p EXCEPT !.super = Len(p.tok)]
    [] x.c = ","                 -> Comma(p)
    [] OTHER                     -> Alloc(p, x.c, x.text, FALSE)

\* jsmn_parse: the tokens, or an error.  What is still open at the end of the
\* text makes it partial.
Parse(text) ==
  LET p == FoldLeft(Lexeme, Fresh, text)
  IN  IF p.error = "none" /\ Open(p) # {} THEN Failed(p, "part") ELSE p
===============================================================================
