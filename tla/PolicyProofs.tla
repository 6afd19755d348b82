---------------------------- MODULE PolicyProofs ----------------------------
(***************************************************************************)
(* The rules of internal/policy against the limits they enforce: whatever  *)
(* ValidateAndRewrite accepts and leaves for the gog runner, the arguments *)
(* gog gets from it keep the policy's limits, for every policy and every   *)
(* request.                                                                *)
(*                                                                         *)
(* What a recursive function computes for every text is proved by least    *)
(* counterexample: the naturals are well founded.                          *)
(***************************************************************************)
EXTENDS Limits, PolicyRules, GogRunner, SequenceTheorems, WellFoundedInduction, TLAPS

-----------------------------------------------------------------------------
(* Numbers and sequences *)

\* A set of naturals that is not empty has a least element.
LEMMA LeastNatural ==
  ASSUME NEW S, S \subseteq Nat, S # {}
  PROVE  \E m \in S : \A x \in S : m <= x
<1> DEFINE Less == {p \in Nat \X Nat : p[1] < p[2]}
<1>1. IsWellFoundedOn(Less, Nat)
  <2>1. IsWellFoundedOn(OpToRel(<, Nat), Nat)
    BY NatLessThanWellFounded
  <2>2. OpToRel(<, Nat) \cap (Nat \X Nat) = Less
    BY DEF OpToRel
  <2> QED
    BY <2>1, <2>2, IsWellFoundedOnSubrelation
<1>2. PICK m \in S : \A y \in S : ~(<<y, m>> \in Less)
  BY <1>1, WFMin
<1>3. ASSUME NEW x \in S PROVE m <= x
  <2>1. <<x, m>> \in Nat \X Nat /\ <<x, m>> \notin Less
    BY <1>2
  <2>2. <<x, m>>[1] = x /\ <<x, m>>[2] = m
    OBVIOUS
  <2>3. ~(x < m)
    BY <2>1, <2>2
  <2> QED
    BY <2>3
<1> QED
  BY <1>3

LEMMA MinIsLeast ==
  ASSUME NEW S, S \subseteq Nat, S # {}
  PROVE  Min(S) \in S /\ \A x \in S : Min(S) <= x
BY LeastNatural DEF Min

LEMMA SequenceOfItsRange ==
  ASSUME NEW s, IsSequence(s)
  PROVE  s \in Seq(Range(s)) /\ DOMAIN s = 1..Len(s) /\ Len(s) \in Nat
<1> DEFINE n == Len(s)
           T == Range(s)
<1>1. DOMAIN s = 1..n
  BY DEF IsSequence
<1>2. \A j \in 1..n : s[j] \in T
  BY <1>1 DEF Range
<1>3. n \in Nat /\ s = [j \in 1..n |-> s[j]]
  BY DEF IsSequence
<1>4. s \in [1..n -> T]
  <2> HIDE DEF n, T
  <2> QED
    BY <1>2, <1>3
<1>5. s \in UNION {[1..k -> T] : k \in Nat}
  <2> HIDE DEF n, T
  <2> QED
    BY <1>3, <1>4
<1> QED
  BY <1>1, <1>3, <1>5, SeqDef

LEMMA RangeOfAppend ==
  ASSUME NEW T, NEW s \in Seq(T), NEW x
  PROVE  Range(Append(s, x)) = Range(s) \cup {x}
<1>1. s \in Seq(T \cup {x}) /\ x \in T \cup {x}
  OBVIOUS
<1>2. /\ DOMAIN Append(s, x) = 1..(Len(s) + 1) /\ DOMAIN s = 1..Len(s) /\ Len(s) \in Nat
      /\ Append(s, x)[Len(s) + 1] = x
      /\ \A j \in 1..Len(s) : Append(s, x)[j] = s[j]
  BY <1>1
<1> QED
  BY <1>2 DEF Range

-----------------------------------------------------------------------------
(* The pieces of a text that are not blank *)

\* The recursive function behind NonBlank exists.
LEMMA NonBlankSteps ==
  ASSUME NEW text, Len(text) \in Nat
  PROVE  \E f : f = [n \in 0..Len(text) |->
                       IF n = 0 THEN <<>>
                       ELSE IF text[n] = Blank THEN f[n - 1] ELSE Append(f[n - 1], text[n])]
<1> DEFINE Step(f, n) == IF n = 0 THEN <<>>
                         ELSE IF text[n] = Blank THEN f[n - 1] ELSE Append(f[n - 1], text[n])
           Fits(f, m) == f = [n \in 0..m |-> Step(f, n)]
           Without == {m \in Nat : ~ \E f : Fits(f, m)}
<1>1. \E f : Fits(f, 0)
  <2>1. Fits([n \in 0..0 |-> <<>>], 0)
    OBVIOUS
  <2> QED
    BY <2>1
<1>2. ASSUME NEW m \in Nat, m # 0, NEW f, Fits(f, m - 1)
      PROVE  \E g : Fits(g, m)
  <2> DEFINE g == [n \in 0..m |-> IF n = m THEN Step(f, m) ELSE f[n]]
  <2>1. \A n \in 0..m : g[n] = Step(g, n)
    <3> SUFFICES ASSUME NEW n \in 0..m PROVE g[n] = Step(g, n)
      OBVIOUS
    <3>1. CASE n = m
      <4>1. g[n] = Step(f, n)
        BY <3>1
      <4>2. g[n - 1] = f[n - 1]
        BY <1>2, <3>1
      <4> QED
        BY <4>1, <4>2
    <3>2. CASE n # m
      <4>1. n \in 0..(m - 1)
        BY <3>2
      <4>2. g[n] = Step(f, n)
        BY <1>2, <3>2, <4>1
      <4>3. n # 0 => g[n - 1] = f[n - 1]
        BY <4>1
      <4> QED
        BY <4>2, <4>3
    <3> QED
      BY <3>1, <3>2
  <2> HIDE DEF Step
  <2>2. Fits(g, m)
    BY <2>1
  <2> QED
    BY <2>2
<1>3. Without = {}
  <2> SUFFICES ASSUME Without # {} PROVE FALSE
    OBVIOUS
  <2>1. PICK m \in Without : \A x \in Without : m <= x
    <3> HIDE DEF Without
    <3>1. Without \subseteq Nat
      BY DEF Without
    <3> QED
      BY <3>1, LeastNatural
  <2> HIDE DEF Fits
  <2>2. m # 0 /\ m \in Nat
    BY <1>1
  <2>3. m - 1 \in Nat /\ m - 1 \notin Without
    BY <2>1, <2>2
  <2>4. \E f : Fits(f, m - 1)
    BY <2>3
  <2> QED
    BY <1>2, <2>2, <2>4
<1>4. \E f : Fits(f, Len(text))
  <2> HIDE DEF Fits
  <2> QED
    BY <1>3
<1> QED
  BY <1>4

\* A comma string's list has exactly the pieces that are not blank
\* (policy.go:617-625).
LEMMA NonBlankRange ==
  ASSUME NEW T, NEW text \in Seq(T)
  PROVE  /\ NonBlank(text) \in Seq(T)
         /\ Range(NonBlank(text)) = Range(text) \ {Blank}
<1> DEFINE kept == CHOOSE f : f = [n \in 0..Len(text) |->
                     IF n = 0 THEN <<>>
                     ELSE IF text[n] = Blank THEN f[n - 1] ELSE Append(f[n - 1], text[n])]
           Kept(n) == /\ kept[n] \in Seq(T)
                      /\ Range(kept[n]) = {text[j] : j \in 1..n} \ {Blank}
           Wrong == {n \in 0..Len(text) : ~Kept(n)}
<1>1. NonBlank(text) = kept[Len(text)]
  BY DEF NonBlank
<1>2. kept = [n \in 0..Len(text) |->
                IF n = 0 THEN <<>>
                ELSE IF text[n] = Blank THEN kept[n - 1] ELSE Append(kept[n - 1], text[n])]
  <2>1. Len(text) \in Nat
    OBVIOUS
  <2> QED
    BY <2>1, NonBlankSteps
<1> HIDE DEF kept
<1>3. Kept(0)
  BY <1>2 DEF Range
<1>4. ASSUME NEW n \in 1..Len(text), Kept(n - 1) PROVE Kept(n)
  <2>1. kept[n] = IF text[n] = Blank THEN kept[n - 1] ELSE Append(kept[n - 1], text[n])
    <3>1. n \in 0..Len(text) /\ n # 0
      OBVIOUS
    <3> QED
      BY <1>2, <3>1
  <2>2. text[n] \in T
    OBVIOUS
  <2>3. {text[j] : j \in 1..n} = {text[j] : j \in 1..(n - 1)} \cup {text[n]}
    OBVIOUS
  <2>4. CASE text[n] = Blank
    BY <1>4, <2>1, <2>3, <2>4
  <2>5. CASE text[n] # Blank
    <3>1. kept[n] \in Seq(T)
      BY <1>4, <2>1, <2>2, <2>5
    <3>2. Range(kept[n]) = Range(kept[n - 1]) \cup {text[n]}
      BY <1>4, <2>1, <2>5, RangeOfAppend
    <3> QED
      BY <1>4, <2>3, <2>5, <3>1, <3>2
  <2> QED
    BY <2>4, <2>5
<1>5. Wrong = {}
  <2> SUFFICES ASSUME Wrong # {} PROVE FALSE
    OBVIOUS
  <2>1. PICK m \in Wrong : \A x \in Wrong : m <= x
    <3> HIDE DEF Wrong
    <3>1. Wrong \subseteq Nat
      BY DEF Wrong
    <3> QED
      BY <3>1, LeastNatural
  <2> HIDE DEF Kept
  <2>2. m # 0 /\ m \in 0..Len(text) /\ ~Kept(m)
    BY <1>3
  <2>3. m - 1 \in 0..Len(text) /\ m - 1 \notin Wrong /\ m \in 1..Len(text)
    BY <2>1, <2>2
  <2>4. Kept(m - 1)
    BY <2>3
  <2> QED
    BY <1>4, <2>2, <2>3, <2>4
<1>6. Kept(Len(text))
  <2> HIDE DEF Kept
  <2> QED
    BY <1>5
<1>7. Range(text) = {text[j] : j \in 1..Len(text)}
  BY DEF Range
<1> QED
  BY <1>1, <1>6, <1>7

-----------------------------------------------------------------------------
(* What reaches gog *)

\* A text under any parameter reaches gog as it is.
LEMMA TextReachesGog ==
  ASSUME NEW action, NEW p, NEW k \in DOMAIN p, p[k].type = "string"
  PROVE  k \in DOMAIN GogArgs(action, p) /\ GogArgs(action, p)[k] = p[k]
<1>1. ~IsArray(p[k]) /\ p[k] # Flag(FALSE)
  BY DEF Flag, IsArray
<1> QED
  BY <1>1 DEF GogArgs, NoArgument

\* Of a list all of it, or its first item alone (runner.go:232-240).
LEMMA ListReachesGog ==
  ASSUME NEW action, NEW p, NEW k \in DOMAIN GogArgs(action, p), p[k].type = "list"
  PROVE  /\ p[k].toks # <<>>
         /\ GogArgs(action, p)[k].type = "string"
         /\ GogArgs(action, p)[k].toks \in {p[k].toks, <<p[k].toks[1]>>}
BY DEF GogArgs, NoArgument, Str, IsArray

\* gog gets no argument the request has no parameter for.
LEMMA ArgsAreParams ==
  ASSUME NEW action, NEW p
  PROVE  DOMAIN GogArgs(action, p) \subseteq DOMAIN p
BY DEF GogArgs

\* The words of an argument are words of the parameter.
LEMMA ArgWords ==
  ASSUME NEW action, NEW p, NEW k \in DOMAIN GogArgs(action, p),
         IsText(p[k]), IsSequence(p[k].toks)
  PROVE  /\ GogArgs(action, p)[k].type = "string"
         /\ Range(GogArgs(action, p)[k].toks) \subseteq Range(p[k].toks)
<1>1. k \in DOMAIN p
  BY ArgsAreParams
<1>2. CASE p[k].type = "string"
  BY <1>1, <1>2, TextReachesGog
<1>3. CASE p[k].type = "list"
  <2> DEFINE toks == p[k].toks
  <2>1. toks \in Seq(Range(toks)) /\ DOMAIN toks = 1..Len(toks) /\ Len(toks) \in Nat
    BY SequenceOfItsRange
  <2>2. /\ toks # <<>> /\ GogArgs(action, p)[k].toks \in {toks, <<toks[1]>>}
        /\ GogArgs(action, p)[k].type = "string"
    BY <1>3, ListReachesGog
  <2> HIDE DEF toks
  <2>3. 1 \in DOMAIN toks
    BY <2>1, <2>2
  <2>4. Range(<<toks[1]>>) = {toks[1]}
    BY DEF Range
  <2> QED
    BY <2>2, <2>3, <2>4 DEF Range, toks
<1> QED
  BY <1>2, <1>3 DEF IsText

-----------------------------------------------------------------------------
(* Labels *)

\* What a table built from a mailbox's labels allows, the policy lists: the word
\* itself or another word for the same label (policy.go:77-96 and 406-440).
LEMMA AllowedIsListed ==
  ASSUME NEW m, NEW t \in LabelTables(m), NEW w, NEW allowed,
         isLabelAllowed(w, allowed, t)
  PROVE  Listed(m, w, allowed)
<1>1. t.nameOf = m /\ \A n \in DOMAIN t.idOf : t.idOf[n] \in DOMAIN m /\ m[t.idOf[n]] = n
  <2> DEFINE names == {m[id] : id \in DOMAIN m}
  <2>1. PICK back \in [names -> DOMAIN m] :
          /\ \A n \in names : m[back[n]] = n
          /\ t = [nameOf |-> m, idOf |-> back]
    BY Zenon DEF LabelTables
  <2> HIDE DEF names
  <2> QED
    BY <2>1
<1>2. CASE w \in allowed
  BY <1>2 DEF Listed
<1>3. CASE w \in DOMAIN t.idOf /\ t.idOf[w] \in allowed
  BY <1>1, <1>3 DEF Listed, Denoted
<1>4. CASE w \in DOMAIN t.nameOf /\ t.nameOf[w] \in allowed
  BY <1>1, <1>4 DEF Listed, Denoted
<1> QED
  BY <1>2, <1>3, <1>4 DEF isLabelAllowed

\* The list of a parameter has the words of its text, but for blanks.
LEMMA SliceWords ==
  ASSUME NEW p, NEW k \in DOMAIN p, IsText(p[k]), IsSequence(p[k].toks)
  PROVE  /\ StringSlice(p, k) \in Seq(Range(p[k].toks))
         /\ Range(StringSlice(p, k)) \ {Blank} = Range(p[k].toks) \ {Blank}
<1> DEFINE toks == p[k].toks
<1>1. toks \in Seq(Range(toks))
  BY SequenceOfItsRange
<1>2. NonBlank(toks) \in Seq(Range(toks)) /\ Range(NonBlank(toks)) = Range(toks) \ {Blank}
  BY <1>1, NonBlankRange
<1> QED
  BY <1>1, <1>2 DEF StringSlice, StringItems, IsText

\* A list of labels the rules accept reaches gog with listed labels only.
LEMMA ListedLabelsReachGog ==
  ASSUME NEW m, NEW t, NEW allowed, allowed # {} => t \in LabelTables(m),
         NEW p, NEW q, NEW k, NEW action,
         validateLabels(StringSlice(p, k), allowed, FALSE, t),
         k \in DOMAIN q <=> k \in DOMAIN p,
         k \in DOMAIN p =>
           /\ IsText(p[k]) /\ IsSequence(p[k].toks)
           /\ q[k] = IF StringSlice(p, k) # <<>> THEN Str(StringSlice(p, k)) ELSE p[k]
  PROVE  AllListed(m, GogArgs(action, q), k, allowed)
<1> DEFINE slice == StringSlice(p, k)
           args == GogArgs(action, q)
<1>1. CASE k \notin DOMAIN p
  <2>1. DOMAIN args \subseteq DOMAIN q
    BY ArgsAreParams
  <2>2. k \notin DOMAIN args
    BY <1>1, <2>1
  <2> QED
    BY <1>1, <2>2 DEF AllListed
<1>2. CASE k \in DOMAIN p /\ slice # <<>>
  <2>1. q[k] = Str(slice) /\ k \in DOMAIN q
    BY <1>2
  <2>2. args[k].type = "string" /\ args[k].toks = slice
    BY <2>1, TextReachesGog DEF Str
  <2>3. allowed # {}
    BY <1>2 DEF validateLabels
  <2>4. \A j \in DOMAIN slice : slice[j] # Blank => isLabelAllowed(slice[j], allowed, t)
    BY <2>3 DEF validateLabels
  <2>5. \A j \in DOMAIN slice : slice[j] # Blank => Listed(m, slice[j], allowed)
    BY <2>3, <2>4, AllowedIsListed
  <2> QED
    BY <2>2, <2>5 DEF AllListed, WordsOf, Range
<1>3. CASE k \in DOMAIN p /\ slice = <<>>
  <2>1. q[k] = p[k]
    BY <1>3
  <2>2. Range(p[k].toks) \ {Blank} = {}
    <3>1. Range(slice) = {}
      BY <1>3 DEF Range
    <3> QED
      BY <1>3, <3>1, SliceWords
  <2>3. k \in DOMAIN args =>
          args[k].type = "string" /\ Range(args[k].toks) \subseteq Range(p[k].toks)
    BY <1>3, <2>1, ArgWords
  <2>4. k \in DOMAIN args => WordsOf(args[k]) = {}
    BY <2>2, <2>3 DEF WordsOf
  <2> QED
    BY <2>4 DEF AllListed
<1> QED
  BY <1>1, <1>2, <1>3

\* What InputsAreParsed says of one request's parameters.
Parsed(p) ==
  \A k \in DOMAIN p :
    /\ IsText(p[k]) \/ p[k].type = "mixed" => IsSequence(p[k].toks)
    /\ p[k].type = "mixed" =>
         IsSequence(p[k].strings) /\ Range(p[k].strings) \subseteq Range(p[k].toks)

\* The parameters of K that there are hold texts, or lists of strings.
Plain(p, K) == \A k \in K \cap DOMAIN p : IsText(p[k])

\* A change of labels the rules accept changes something, and listed labels only
\* (policy.go:223-249 and 341-372).
LEMMA LabelChangeReachesGog ==
  ASSUME NEW g, NEW m, NEW t, g.add # {} \/ g.remove # {} => t \in LabelTables(m),
         NEW p, Parsed(p), NEW K, Plain(p, K), LabelChangeAllowed(g, t, p), NEW action,
         NEW q, \A k \in {"add", "remove"} : /\ k \in DOMAIN q <=> k \in DOMAIN p
                                             /\ k \in DOMAIN p => q[k] = JoinLabels(p)[k]
  PROVE  /\ DOMAIN GogArgs(action, q) \cap {"add", "remove"} # {}
         /\ "add" \in K => AllListed(m, GogArgs(action, q), "add", g.add)
         /\ "remove" \in K => AllListed(m, GogArgs(action, q), "remove", g.remove)
<1>1. ASSUME NEW k \in {"add", "remove"}, k \in DOMAIN p
      PROVE  /\ k \in K => IsText(p[k]) /\ IsSequence(p[k].toks)
             /\ q[k] = IF StringSlice(p, k) # <<>> THEN Str(StringSlice(p, k)) ELSE p[k]
  BY <1>1 DEF Parsed, Plain, JoinLabels
<1>2. "add" \in K => AllListed(m, GogArgs(action, q), "add", g.add)
  <2>1. validateLabels(StringSlice(p, "add"), g.add, FALSE, t)
    BY DEF LabelChangeAllowed
  <2> QED
    BY <1>1, <2>1, ListedLabelsReachGog
<1>3. "remove" \in K => AllListed(m, GogArgs(action, q), "remove", g.remove)
  <2>1. validateLabels(StringSlice(p, "remove"), g.remove, FALSE, t)
    BY DEF LabelChangeAllowed
  <2> QED
    BY <1>1, <2>1, ListedLabelsReachGog
<1>4. PICK k \in {"add", "remove"} : StringSlice(p, k) # <<>>
  BY DEF LabelChangeAllowed
<1>5. k \in DOMAIN p
  BY <1>4 DEF StringSlice
<1>6. k \in DOMAIN q /\ q[k].type = "string"
  BY <1>1, <1>4, <1>5 DEF Str
<1>7. k \in DOMAIN GogArgs(action, q)
  BY <1>6, TextReachesGog
<1> QED
  BY <1>2, <1>3, <1>7

\* A thread change the rules accept names listed labels only (policy.go:223-249).
LEMMA ThreadModifyWithin ==
  ASSUME NEW g, NEW m, NEW t, g.add # {} \/ g.remove # {} => t \in LabelTables(m),
         NEW p, Parsed(p), NEW K, Plain(p, K), NEW action,
         rewriteGmailThreadModify(g, t, p).accepted
  PROVE  LET args == GogArgs(action, rewriteGmailThreadModify(g, t, p).params)
         IN  /\ DOMAIN args \cap {"add", "remove"} # {}
             /\ "add" \in K => AllListed(m, args, "add", g.add)
             /\ "remove" \in K => AllListed(m, args, "remove", g.remove)
<1> DEFINE q == rewriteGmailThreadModify(g, t, p).params
<1>1. LabelChangeAllowed(g, t, p)
  BY DEF rewriteGmailThreadModify, Outcome
<1>2. q = Put(JoinLabels(p), "thread_id", Str(TextAny(p, <<"thread_id", "id">>)))
  BY DEF rewriteGmailThreadModify, Outcome
<1> HIDE DEF q
<1>3. \A k \in {"add", "remove"} : /\ k \in DOMAIN q <=> k \in DOMAIN p
                                   /\ k \in DOMAIN p => q[k] = JoinLabels(p)[k]
  BY <1>2 DEF Put, JoinLabels
<1>4. /\ DOMAIN GogArgs(action, q) \cap {"add", "remove"} # {}
      /\ "add" \in K => AllListed(m, GogArgs(action, q), "add", g.add)
      /\ "remove" \in K => AllListed(m, GogArgs(action, q), "remove", g.remove)
  BY <1>1, <1>3, LabelChangeReachesGog
<1> QED
  BY <1>4 DEF q

\* So does a change of many threads (policy.go:341-372).
LEMMA LabelsModifyWithin ==
  ASSUME NEW g, NEW m, NEW t, g.add # {} \/ g.remove # {} => t \in LabelTables(m),
         NEW p, Parsed(p), NEW K, Plain(p, K), NEW action,
         rewriteGmailLabelsModify(g, t, p).accepted
  PROVE  LET args == GogArgs(action, rewriteGmailLabelsModify(g, t, p).params)
         IN  /\ DOMAIN args \cap {"add", "remove"} # {}
             /\ "add" \in K => AllListed(m, args, "add", g.add)
             /\ "remove" \in K => AllListed(m, args, "remove", g.remove)
<1> DEFINE q == rewriteGmailLabelsModify(g, t, p).params
<1>1. LabelChangeAllowed(g, t, p)
  BY DEF rewriteGmailLabelsModify, Outcome
<1>2. PICK ids : q = Put(JoinLabels(p), "thread_ids", Strings(ids))
  BY DEF rewriteGmailLabelsModify, Outcome
<1> HIDE DEF q
<1>3. \A k \in {"add", "remove"} : /\ k \in DOMAIN q <=> k \in DOMAIN p
                                   /\ k \in DOMAIN p => q[k] = JoinLabels(p)[k]
  BY <1>2 DEF Put, JoinLabels
<1>4. /\ DOMAIN GogArgs(action, q) \cap {"add", "remove"} # {}
      /\ "add" \in K => AllListed(m, GogArgs(action, q), "add", g.add)
      /\ "remove" \in K => AllListed(m, GogArgs(action, q), "remove", g.remove)
  BY <1>1, <1>3, LabelChangeReachesGog
<1> QED
  BY <1>4 DEF q

\* A label whose threads are listed is one the policy lets the agent read
\* (policy.go:328-339).
LEMMA LabelsGetWithin ==
  ASSUME NEW g, NEW m, NEW t, g.read # {} => t \in LabelTables(m),
         NEW p, NEW action, g.read # {},
         rewriteGmailLabelsGet(g, t, p).accepted
  PROVE  AllListed(m, GogArgs(action, rewriteGmailLabelsGet(g, t, p).params), "label", g.read)
<1> DEFINE label == TextAny(p, <<"label", "label_id", "id">>)
           q == rewriteGmailLabelsGet(g, t, p).params
           args == GogArgs(action, q)
<1>1. validateLabels(label, g.read, TRUE, t) /\ q = Put(p, "label", Str(label))
  BY DEF rewriteGmailLabelsGet, Outcome
<1> HIDE DEF label, q
<1>2. "label" \in DOMAIN q /\ q["label"] = Str(label)
  BY <1>1 DEF Put
<1>3. args["label"].type = "string" /\ args["label"].toks = label
  BY <1>2, TextReachesGog DEF Str
<1>4. \A j \in DOMAIN label : label[j] # Blank => isLabelAllowed(label[j], g.read, t)
  BY <1>1 DEF validateLabels
<1>5. \A j \in DOMAIN label : label[j] # Blank => Listed(m, label[j], g.read)
  BY <1>4, AllowedIsListed
<1> QED
  BY <1>3, <1>5 DEF AllListed, WordsOf, Range, q

-----------------------------------------------------------------------------
(* Search *)

\* The term the regular expression finds is one of the query, of its kind.
LEMMA FirstTermIsTerm ==
  ASSUME NEW query, IsSequence(query), NEW op, FirstTerm(query, op) # 0
  PROVE  FirstTerm(query, op) \in DOMAIN query /\ query[FirstTerm(query, op)].op = op
<1> DEFINE I == {j \in 1..Len(query) : query[j].op = op}
<1>1. DOMAIN query = 1..Len(query) /\ Len(query) \in Nat
  BY SequenceOfItsRange
<1>2. I # {} /\ FirstTerm(query, op) = Min(I)
  BY DEF FirstTerm, SelectInSeq
<1>3. I \subseteq Nat
  BY <1>1
<1>4. Min(I) \in I
  BY <1>2, <1>3, MinIsLeast
<1> QED
  BY <1>1, <1>2, <1>4

\* What is appended to a query of terms that bind binds as well.
LEMMA ExtendedBinds ==
  ASSUME NEW T, NEW query \in Seq(T), \A x \in Range(query) : x.op # "dangling", NEW term
  PROVE  Extended(query, term) = Append(query, term)
<1>1. query # <<>> => Last(query) \in Range(query)
  BY DEF Last, Range
<1>2. ~(query # <<>> /\ Last(query) = Dangling)
  BY <1>1 DEF Dangling
<1> QED
  BY <1>2 DEF Extended

\* Of a query all of whose terms must match, a search the rules accept finds no
\* message older than max_days and none that is not from an allowed sender
\* (policy.go:177-209).
LEMMA SearchReachesGogWithin ==
  ASSUME NEW g, g.maxDays \in Int, NEW p, Parsed(p), NEW action,
         Conjunction(Text(p, "query")), rewriteGmailQuery(g, p).accepted
  PROVE  LET terms == Range(GogArgs(action, rewriteGmailQuery(g, p).params)["query"].toks)
         IN  /\ g.maxDays > 0 =>
                  \E t \in terms :
                    \/ t.op = "newer_than" /\ t.binds /\ t.days <= g.maxDays
                    \/ t.op = "after" /\ t.binds /\ t.valid /\ t.ago < g.maxDays
             /\ g.senders # {} =>
                  \E t \in terms : t.op = "from" /\ t.binds /\ t.domains \subseteq g.senders
<1> DEFINE query   == Text(p, "query")
           bounded == IF g.maxDays > 0 THEN WithWindow(query, g.maxDays) ELSE query
           final   == IF g.senders # {} THEN Extended(bounded, FromAny(g.senders)) ELSE bounded
           T       == Range(query) \cup {NewerThan(g.maxDays)}
           args    == GogArgs(action, rewriteGmailQuery(g, p).params)
           Bounds(t) == \/ t.op = "newer_than" /\ t.binds /\ t.days <= g.maxDays
                        \/ t.op = "after" /\ t.binds /\ t.valid /\ t.ago < g.maxDays
<1>1. args["query"].toks = final
  <2>1. rewriteGmailQuery(g, p).params = Put(p, "query", Str(final))
    BY DEF rewriteGmailQuery, Outcome
  <2> HIDE DEF final
  <2>2. "query" \in DOMAIN Put(p, "query", Str(final)) /\ Put(p, "query", Str(final))["query"] = Str(final)
    BY DEF Put
  <2> QED
    BY <2>1, <2>2, TextReachesGog DEF Str
<1>2. g.maxDays > 0 => WindowAllowed(query, g.maxDays)
  BY DEF rewriteGmailQuery, Outcome
<1>3. IsSequence(query)
  <2>1. IsSequence(<<>>)
    BY DEF IsSequence
  <2> QED
    BY <2>1 DEF Text, HasString, Parsed, IsText
<1>4. query \in Seq(T)
  <2>1. query \in Seq(Range(query))
    BY <1>3, SequenceOfItsRange
  <2> HIDE DEF query
  <2> QED
    BY <2>1
<1>5. /\ \A x \in Range(query) : x.op # "dangling"
      /\ \A j \in DOMAIN query : query[j].op \in {"newer_than", "after"} => query[j].binds
  BY DEF Conjunction, Range
<1> HIDE DEF query, args
<1>6. /\ bounded \in Seq(T)
      /\ g.maxDays > 0 => \E t \in Range(bounded) : Bounds(t)
      /\ \A x \in Range(bounded) : x.op # "dangling"
  <2>1. CASE ~(g.maxDays > 0)
    BY <1>4, <1>5, <2>1
  <2>2. CASE g.maxDays > 0 /\ FirstTerm(query, "newer_than") # 0
    <3> DEFINE n == FirstTerm(query, "newer_than")
    <3>1. n \in DOMAIN query /\ query[n].op = "newer_than"
      BY <1>3, <2>2, FirstTermIsTerm
    <3>2. query[n].days <= g.maxDays /\ query[n].binds /\ bounded = query
      BY <1>2, <1>5, <2>2, <3>1 DEF WindowAllowed, WithWindow
    <3> HIDE DEF n, bounded
    <3> QED
      BY <1>4, <1>5, <3>1, <3>2 DEF Range
  <2>3. CASE g.maxDays > 0 /\ FirstTerm(query, "newer_than") = 0 /\ HasAfterDate(query)
    <3> DEFINE a == FirstTerm(query, "after")
    <3>1. a # 0 /\ query[a].valid
      BY <2>3 DEF HasAfterDate
    <3>2. a \in DOMAIN query /\ query[a].op = "after"
      BY <1>3, <3>1, FirstTermIsTerm
    <3>3. query[a].ago < g.maxDays /\ query[a].binds /\ bounded = query
      BY <1>2, <1>5, <2>3, <3>2 DEF WindowAllowed, WithWindow
    <3> HIDE DEF a, bounded
    <3> QED
      BY <1>4, <1>5, <3>1, <3>2, <3>3 DEF Range
  <2>4. CASE g.maxDays > 0 /\ FirstTerm(query, "newer_than") = 0 /\ ~HasAfterDate(query)
    <3>1. bounded = Append(query, NewerThan(g.maxDays))
      <4>1. bounded = Extended(query, NewerThan(g.maxDays))
        BY <2>4 DEF WithWindow
      <4> QED
        BY <1>4, <1>5, <4>1, ExtendedBinds
    <3>2. Range(bounded) = Range(query) \cup {NewerThan(g.maxDays)}
      BY <1>4, <3>1, RangeOfAppend
    <3>3. bounded \in Seq(T)
      BY <1>4, <3>1
    <3>4. Bounds(NewerThan(g.maxDays)) /\ NewerThan(g.maxDays).op # "dangling"
      BY DEF NewerThan
    <3> QED
      BY <1>5, <3>2, <3>3, <3>4
  <2> QED
    BY <2>1, <2>2, <2>3, <2>4
<1>7. g.senders # {} => Range(final) = Range(bounded) \cup {FromAny(g.senders)}
  <2> HIDE DEF bounded
  <2>1. Extended(bounded, FromAny(g.senders)) = Append(bounded, FromAny(g.senders))
    BY <1>6, ExtendedBinds
  <2> QED
    BY <1>6, <2>1, RangeOfAppend
<1>8. g.maxDays > 0 => \E t \in Range(final) : Bounds(t)
  <2> HIDE DEF bounded, Bounds
  <2> QED
    BY <1>6, <1>7
<1>9. g.senders # {} =>
        \E t \in Range(final) : t.op = "from" /\ t.binds /\ t.domains \subseteq g.senders
  <2>1. /\ FromAny(g.senders).op = "from" /\ FromAny(g.senders).binds
        /\ FromAny(g.senders).domains \subseteq g.senders
    BY Zenon DEF FromAny
  <2> HIDE DEF final
  <2> QED
    BY <1>7, <2>1
<1> HIDE DEF final
<1> QED
  BY <1>1, <1>8, <1>9 DEF args

-----------------------------------------------------------------------------
(* Messages and mails *)

\* A message is read as metadata, with no choice of headers (policy.go:251-271).
LEMMA GetReachesGogAsMetadata ==
  ASSUME NEW p, NEW action
  PROVE  LET args == GogArgs(action, rewriteGmailGet(p).params)
         IN  args["format"] = Str(<<"metadata">>) /\ "headers" \notin DOMAIN args
<1> DEFINE id == Str(TextAny(p, <<"id", "message_id">>))
           q == rewriteGmailGet(p).params
<1>1. q = Delete(Put(Put(p, "message_id", id), "format", Str(<<"metadata">>)), {"headers"})
  BY DEF rewriteGmailGet, Outcome
<1> HIDE DEF q, id
<1>2. "format" \in DOMAIN q /\ q["format"] = Str(<<"metadata">>) /\ "headers" \notin DOMAIN q
  BY <1>1 DEF Delete, Put
<1>3. GogArgs(action, q)["format"] = Str(<<"metadata">>)
  BY <1>2, TextReachesGog DEF Str
<1>4. "headers" \notin DOMAIN GogArgs(action, q)
  BY <1>2, ArgsAreParams
<1> QED
  BY <1>3, <1>4 DEF q

\* Whoever collectRecipients finds the request names, and of a text or a list of
\* strings it finds everyone (policy.go:776-815).
LEMMA RecipientsAreNamed ==
  ASSUME NEW p, Parsed(p)
  PROVE  /\ Recipients(p) \subseteq Named(p)
         /\ \A k \in DOMAIN p \cap {"to", "cc", "bcc"} :
              IsText(p[k]) => Range(p[k].toks) \ {Blank} \subseteq Recipients(p)
<1>1. ASSUME NEW k \in DOMAIN p \cap {"to", "cc", "bcc"}
      PROVE  /\ Range(StringItems(p[k])) \ {Blank} \subseteq WordsOf(p[k])
             /\ IsText(p[k]) => StringItems(p[k]) = p[k].toks
  <2>1. CASE p[k].type \in {"string", "list"}
    BY <2>1 DEF StringItems, WordsOf
  <2>2. CASE p[k].type = "mixed"
    BY <2>2 DEF StringItems, WordsOf, Parsed, IsText
  <2>3. CASE p[k].type \notin {"string", "list", "mixed"}
    <3>1. Range(<<>>) = {}
      BY DEF Range
    <3> QED
      BY <2>3, <3>1 DEF StringItems, IsText
  <2> QED
    BY <2>1, <2>2, <2>3
<1> DEFINE fields == DOMAIN p \cap {"to", "cc", "bcc"}
<1>2. Recipients(p) = (UNION {Range(StringItems(p[k])) : k \in fields}) \ {Blank}
  BY DEF Recipients
<1>3. Named(p) = UNION {WordsOf(p[k]) : k \in fields}
  BY DEF Named
<1> HIDE DEF fields
<1>4. ASSUME NEW w \in Recipients(p) PROVE w \in Named(p)
  <2>1. PICK k \in fields : w \in Range(StringItems(p[k])) \ {Blank}
    BY <1>2, <1>4
  <2>2. w \in WordsOf(p[k])
    BY <1>1, <2>1 DEF fields
  <2> QED
    BY <1>3, <2>1, <2>2
<1>5. ASSUME NEW k \in fields, IsText(p[k])
      PROVE  Range(p[k].toks) \ {Blank} \subseteq Recipients(p)
  <2>1. StringItems(p[k]) = p[k].toks
    BY <1>1, <1>5 DEF fields
  <2> QED
    BY <1>2, <2>1
<1> QED
  BY <1>4, <1>5 DEF fields

\* A mail keeps the policy's limits as it is sent, and as a draft when the broker
\* makes one of it (policy.go:273-326 and 442-460).
LEMMA MailReachesGogWithin ==
  ASSUME NEW g, NEW p, Parsed(p), NEW K, Plain(p, K), NEW action,
         \/ rewriteGmailSend(g, p).accepted
         \/ rewriteGmailDraftCreate(g, p).accepted
  PROVE  LET args == GogArgs(action, p)
         IN  /\ DOMAIN args \cap {"track", "track_split", "reply_all"} = {}
             /\ "attach" \in DOMAIN args => g.allowAttachments
             /\ ~DraftSendRequired(g, p) =>
                  /\ ~g.draftOnly
                  /\ g.recipients # {} =>
                       /\ Named(p) # {}
                       /\ \A k \in DOMAIN args \cap K \cap {"to", "cc", "bcc"} :
                            WordsOf(args[k]) \subseteq g.recipients
<1> DEFINE args == GogArgs(action, p)
<1>1. /\ DOMAIN p \cap {"track", "track_split", "reply_all"} = {}
      /\ "attach" \in DOMAIN p => g.allowAttachments
  BY DEF rewriteGmailSend, rewriteGmailDraftCreate, Outcome
<1>2. DOMAIN args \subseteq DOMAIN p
  BY ArgsAreParams
<1>3. ~DraftSendRequired(g, p) =>
         /\ ~g.draftOnly
         /\ g.recipients # {} => Recipients(p) # {} /\ Recipients(p) \subseteq g.recipients
  BY DEF DraftSendRequired
<1>4. ASSUME NEW k \in DOMAIN args \cap K \cap {"to", "cc", "bcc"}
      PROVE  WordsOf(args[k]) \subseteq Recipients(p)
  <2>1. k \in DOMAIN p /\ IsText(p[k]) /\ IsSequence(p[k].toks)
    BY <1>2 DEF Parsed, Plain
  <2>2. args[k].type = "string" /\ Range(args[k].toks) \subseteq Range(p[k].toks)
    BY <2>1, ArgWords
  <2>3. Range(p[k].toks) \ {Blank} \subseteq Recipients(p)
    BY <2>1, RecipientsAreNamed
  <2> QED
    BY <2>2, <2>3 DEF WordsOf
<1> HIDE DEF args
<1>5. Recipients(p) \subseteq Named(p)
  BY RecipientsAreNamed
<1>6. ~DraftSendRequired(g, p) =>
        /\ ~g.draftOnly
        /\ g.recipients # {} =>
             /\ Named(p) # {}
             /\ \A k \in DOMAIN args \cap K \cap {"to", "cc", "bcc"} :
                  WordsOf(args[k]) \subseteq g.recipients
  BY <1>3, <1>4, <1>5
<1>7. /\ DOMAIN args \cap {"track", "track_split", "reply_all"} = {}
      /\ "attach" \in DOMAIN args => g.allowAttachments
  BY <1>1, <1>2
<1> QED
  BY <1>6, <1>7 DEF args

-----------------------------------------------------------------------------
(* Calendars *)

\* The calendar commands of gog and their options (runner.go:132-150).
LEMMA CalendarCommands ==
  /\ actionSpecs["calendar.events"] = Command({"calendar_id"}, EventFlags, {})
  /\ actionSpecs["calendar.freebusy"] = Command({"calendar_ids"}, {"time_min", "time_max"}, {})
BY DEF actionSpecs, GogActions

\* A range reaches gog with both its ends, and leaves the calendars as they were.
LEMMA RangeReachesGog ==
  ASSUME NEW p, NEW hours \in Int, NEW action
  PROVE  LET args == GogArgs(action, WithRange(p, hours))
         IN  /\ {"time_min", "time_max"} \subseteq DOMAIN args
             /\ args["time_max"].toks[1].hour - args["time_min"].toks[1].hour = hours
             /\ \A k \in {"calendar_id", "calendar_ids"} :
                  /\ k \in DOMAIN WithRange(p, hours) <=> k \in DOMAIN p
                  /\ k \in DOMAIN p => WithRange(p, hours)[k] = p[k]
<1> DEFINE q == WithRange(p, hours)
<1>1. /\ "time_min" \in DOMAIN q /\ q["time_min"] = Str(<<AtHour(0)>>)
      /\ "time_max" \in DOMAIN q /\ q["time_max"] = Str(<<AtHour(hours)>>)
  BY DEF WithRange, Put
<1>2. \A k \in {"calendar_id", "calendar_ids"} :
              /\ k \in DOMAIN q <=> k \in DOMAIN p
              /\ k \in DOMAIN p => q[k] = p[k]
  BY DEF WithRange, Put, Delete, TimeParams
<1> HIDE DEF q
<1>3. \A k \in {"time_min", "time_max"} : k \in DOMAIN GogArgs(action, q) /\ GogArgs(action, q)[k] = q[k]
  BY <1>1, TextReachesGog DEF Str
<1>4. GogArgs(action, q)["time_max"].toks[1].hour - GogArgs(action, q)["time_min"].toks[1].hour = hours
  BY <1>1, <1>3 DEF Str, AtHour
<1> QED
  BY <1>2, <1>3, <1>4 DEF q

\* Events are read from a listed calendar, within a range that fits the policy
\* (policy.go:462-480).
LEMMA EventsReachGogWithin ==
  ASSUME NEW c, NEW p, Parsed(p), CalendarIdAllowed(c, p), NEW K,
         NEW hours \in Int, RangeAllowed(c, hours),
         GogAccepts("calendar.events", WithRange(p, hours))
  PROVE  \A e : e.args = GogArgs("calendar.events", WithRange(p, hours)) => CalendarWithin(c, e, K)
<1> DEFINE q == WithRange(p, hours)
           args == GogArgs("calendar.events", q)
<1>1. DOMAIN q \subseteq {"calendar_id"} \cup EventFlags
  BY CalendarCommands DEF GogAccepts, Command
<1>2. "calendar_ids" \notin DOMAIN q
  BY <1>1 DEF EventFlags
<1>3. "calendar_ids" \notin DOMAIN args
  BY <1>2, ArgsAreParams
<1>4. /\ "calendar_id" \in DOMAIN p /\ p["calendar_id"].type = "string"
      /\ c.calendars # {} => \E id \in c.calendars : p["calendar_id"].toks = <<id>>
  BY DEF CalendarIdAllowed, HasString, Text
<1>5. "calendar_id" \in DOMAIN q /\ q["calendar_id"] = p["calendar_id"]
  BY <1>4, RangeReachesGog
<1>6. args["calendar_id"] = p["calendar_id"]
  BY <1>4, <1>5, TextReachesGog
<1>7. c.calendars # {} => WordsOf(args["calendar_id"]) \subseteq c.calendars
  BY <1>4, <1>6 DEF WordsOf, Range
<1>8. /\ {"time_min", "time_max"} \subseteq DOMAIN args
      /\ args["time_max"].toks[1].hour - args["time_min"].toks[1].hour = hours
  BY RangeReachesGog
<1>9. 0 <= hours /\ (c.maxDays > 0 => hours <= c.maxDays * 24)
  BY DEF RangeAllowed
<1> HIDE DEF args
<1> QED
  BY <1>3, <1>7, <1>8, <1>9 DEF CalendarWithin, args

\* Free and busy times are read from listed calendars only, within a range that
\* fits the policy, when the calendars come as a text or a list of strings
\* (policy.go:481-500).
LEMMA FreeBusyReachesGogWithin ==
  ASSUME NEW c, NEW p, Parsed(p), NEW K, Plain(p, K), CalendarIdsAllowed(c, p),
         NEW hours \in Int, RangeAllowed(c, hours),
         GogAccepts("calendar.freebusy", WithRange(p, hours))
  PROVE  \A e : e.args = GogArgs("calendar.freebusy", WithRange(p, hours)) => CalendarWithin(c, e, K)
<1> DEFINE q == WithRange(p, hours)
           args == GogArgs("calendar.freebusy", q)
           ids == StringSlice(p, "calendar_ids")
<1>1. DOMAIN q \subseteq {"calendar_ids", "time_min", "time_max"}
  BY CalendarCommands DEF GogAccepts, Command
<1>2. "calendar_id" \notin DOMAIN args
  BY <1>1, ArgsAreParams
<1>3. c.calendars # {} => Range(ids) \subseteq c.calendars
  BY DEF CalendarIdsAllowed, Range
<1>4. ASSUME "calendar_ids" \in DOMAIN args, "calendar_ids" \in K
      PROVE  c.calendars # {} => WordsOf(args["calendar_ids"]) \subseteq c.calendars
  <2>1. "calendar_ids" \in DOMAIN q
    BY <1>4, ArgsAreParams
  <2>2. "calendar_ids" \in DOMAIN p /\ q["calendar_ids"] = p["calendar_ids"]
    BY <2>1, RangeReachesGog
  <2>3. IsText(p["calendar_ids"]) /\ IsSequence(p["calendar_ids"].toks)
    BY <1>4, <2>2 DEF Parsed, Plain
  <2>4. /\ args["calendar_ids"].type = "string"
        /\ Range(args["calendar_ids"].toks) \subseteq Range(p["calendar_ids"].toks)
    BY <1>4, <2>2, <2>3, ArgWords
  <2>5. Range(p["calendar_ids"].toks) \ {Blank} = Range(ids) \ {Blank}
    BY <2>2, <2>3, SliceWords
  <2> HIDE DEF args, ids
  <2> QED
    BY <1>3, <2>4, <2>5 DEF WordsOf
<1>5. /\ {"time_min", "time_max"} \subseteq DOMAIN args
      /\ args["time_max"].toks[1].hour - args["time_min"].toks[1].hour = hours
  BY RangeReachesGog
<1>6. 0 <= hours /\ (c.maxDays > 0 => hours <= c.maxDays * 24)
  BY DEF RangeAllowed
<1> HIDE DEF args, ids
<1> QED
  BY <1>2, <1>4, <1>5, <1>6 DEF CalendarWithin, args

=============================================================================
