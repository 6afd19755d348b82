------------------------------- MODULE Params -------------------------------
(***************************************************************************)
(* Request parameters: a map[string]interface{} decoded from JSON, and the *)
(* getters of internal/policy/policy.go that read one.                     *)
(*                                                                         *)
(* A parameter map is a function from the names that are present to typed  *)
(* values.  The Go type of a value is kept, because the getters and the    *)
(* gog argument builder decide on it.  The text of a string is a sequence  *)
(* of tokens, the pieces a comma (a blank, in a search query) separates;   *)
(* a token stands for a trimmed and lower-cased piece, which is how labels *)
(* and addresses are compared; the token of a calendar id, which is        *)
(* compared as it is, stands for the text itself.                          *)
(***************************************************************************)
EXTENDS Naturals, Sequences, SequencesExt

Str(toks)     == [type |-> "string", toks |-> toks]   \* string
List(toks)    == [type |-> "list", toks |-> toks]     \* []interface{} of strings
Strings(toks) == [type |-> "strings", toks |-> toks]  \* []string, built by Go code
Flag(on)      == [type |-> "bool", on |-> on]         \* bool
Num(n)        == [type |-> "number", n |-> n]         \* float64 of a JSON number
Null          == [type |-> "nil"]                     \* JSON null, or an object

\* Any other []interface{}, with items that are no strings: the strings among
\* its items, the texts of all its leaves (those of the lists in it too, the
\* numbers and the booleans written out), and whether each leaf has a text: a
\* null and an object have none.
Mixed(strings, toks, converts) ==
  [type |-> "mixed", strings |-> strings, toks |-> toks, converts |-> converts]

\* The empty token: a piece that is empty once trimmed.
Blank == ""

\* The token of blanks where tokens are not words but the terms of a query or
\* the expression of a time; and a text of nothing else.
BlankTerm == [op |-> "blank", form |-> "blank"]
OnlyBlanks(text) == \A j \in DOMAIN text : text[j] = BlankTerm

NoParams == [k \in {} |-> Null]

\* params[k] = v, and delete(params, k) for every k of ks.
Put(p, k, v) == [x \in DOMAIN p \cup {k} |-> IF x = k THEN v ELSE p[x]]
Delete(p, ks) == [x \in DOMAIN p \ ks |-> p[x]]

HasString(p, k) == k \in DOMAIN p /\ p[k].type = "string"

\* The text of parameter k, the empty string when getString finds none.
Text(p, k) == IF HasString(p, k) THEN p[k].toks ELSE <<>>

\* The text under the first of these names that holds a string.
TextAny(p, keys) ==
  LET found == SelectInSeq(keys, LAMBDA k : HasString(p, k))
  IN  IF found = 0 THEN <<>> ELSE p[keys[found]].toks

\* strings.TrimSpace(s) == ""
IsBlank(text) == \A i \in DOMAIN text : text[i] = Blank

\* The pieces of a text that are not blank, in their order.
NonBlank(text) ==
  LET kept[n \in 0..Len(text)] ==
        IF n = 0 THEN <<>>
        ELSE IF text[n] = Blank THEN kept[n - 1] ELSE Append(kept[n - 1], text[n])
  IN  kept[Len(text)]

\* The pieces of a text, or the items of a JSON array that are strings.
StringItems(v) ==
  CASE v.type \in {"string", "list"} -> v.toks
    [] v.type = "mixed" -> v.strings
    [] OTHER -> <<>>

\* The list under k, <<>> when it is absent, empty or of another type: a
\* comma string loses its blank pieces, a JSON array keeps them, and loses the
\* items that are no strings.
StringSlice(p, k) ==
  IF k \notin DOMAIN p THEN <<>>
  ELSE IF p[k].type = "string" THEN NonBlank(p[k].toks) ELSE StringItems(p[k])

\* A flag that is present and true, as a JSON boolean or the string "true".
IsOn(p, k) ==
  /\ k \in DOMAIN p
  /\ \/ p[k].type = "bool" /\ p[k].on
     \/ p[k].type = "string" /\ p[k].toks = <<"true">>

\* A numeric parameter, 0 when it is absent or not a number (a string of
\* digits stands for the number it denotes).
Number(p, k) == IF k \in DOMAIN p /\ p[k].type = "number" THEN p[k].n ELSE 0
=============================================================================
