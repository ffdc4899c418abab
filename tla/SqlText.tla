--------------------------------- MODULE SqlText ---------------------------------
(***************************************************************************)
(* The two scans of SQL text whose result is acted on: the form in which the result   *)
(* cache keeps a text, and the statements a text is split into.  Both walk the text    *)
(* with a state for comments and quotes.                                      *)
(*                                                                          *)
(* A text is a sequence of characters: those the scans tell apart, "A" for every       *)
(* other, which lower() turns into "a".  The reference is Lex: the tokens of a text,    *)
(* a quoted region being one.                                                *)
(***************************************************************************)
EXTENDS Naturals, Sequences, FiniteSets, Functions

CONSTANTS
  Alphabet, \* the characters that are tried
  MaxText   \* bound: characters of a text

\* "" stands for what is beyond the end, and no character is it.
ASSUME TextAssumption == "" \notin Alphabet /\ MaxText \in Nat

VARIABLE sql

-------------------------------------------------------------------------------
Space   == {" ", "nl"}
Quotes  == {"'", "\""}
Letters == {"A", "a"}
Lower(c) == IF c = "A" THEN "a" ELSE c

At(s, i) == IF i \in 1 .. Len(s) THEN s[i] ELSE ""
Pair(s, i, a, b) == At(s, i) = a /\ At(s, i + 1) = b

LineStarts(s, i)  == Pair(s, i, "-", "-")
BlockStarts(s, i) == Pair(s, i, "/", "*")
BlockEnds(s, i)   == Pair(s, i, "*", "/")

Least(S)    == CHOOSE n \in S : \A k \in S : n <= k
Greatest(S) == CHOOSE n \in S : \A k \in S : k <= n

Strip(s) ==
  LET shown == {i \in DOMAIN s : s[i] \notin Space} IN
  IF shown = {} THEN <<>> ELSE SubSeq(s, Least(shown), Greatest(shown))

-------------------------------------------------------------------------------
(* The loops of both scans, one character at a time: the state they are in after it, and how many of the next *)
(* characters they have dealt with too.                                       *)

Outside == [state |-> "normal", ahead |-> 0]

\* The scans differ in the quotes that stay open when they are doubled; of others, one closes and the next one opens.
Moved(s, i, w, doubled) ==
  IF w.ahead = 1 THEN [state |-> w.state, ahead |-> 0]
  ELSE IF w.state = "normal" THEN
    IF LineStarts(s, i) THEN [state |-> "line", ahead |-> 1]
    ELSE IF BlockStarts(s, i) THEN [state |-> "block", ahead |-> 1]
    ELSE IF s[i] \in Quotes THEN [state |-> s[i], ahead |-> 0] ELSE w
  ELSE IF w.state = "line" THEN IF s[i] = "nl" THEN Outside ELSE w
  ELSE IF w.state = "block" THEN IF BlockEnds(s, i) THEN [state |-> "normal", ahead |-> 1] ELSE w
  ELSE IF w.state \in doubled /\ Pair(s, i, w.state, w.state) THEN [state |-> w.state, ahead |-> 1]
  ELSE IF s[i] = w.state THEN Outside ELSE w
Walk(s, doubled) ==
  LET walk[i \in 0 .. Len(s)] == IF i = 0 THEN Outside ELSE Moved(s, i, walk[i - 1], doubled) IN walk

-------------------------------------------------------------------------------
(* normalize_sql_for_cache. *)

\* One space, unless the output is empty or ends in one.
Spaced(out) == IF out = <<>> \/ out[Len(out)] = " " THEN out ELSE Append(out, " ")

GapGlued(s, i, w) ==
  w.ahead = 0 /\ \/ w.state = "normal" /\ s[i] \in Space
                 \/ w.state = "line" /\ s[i] = "nl"

\* White space, and the end of a comment, leave a gap.
Gap(s, i, w) ==
  w.ahead = 0 /\ \/ w.state = "normal" /\ s[i] \in Space
                 \/ w.state = "line" /\ s[i] = "nl"
                 \/ w.state = "block" /\ BlockEnds(s, i)

\* What is in quotes is copied as it is, what is in no comment in lower case.
Copied(s, i, w) ==
  \/ w.state \in Quotes
  \/ w = Outside /\ ~LineStarts(s, i) /\ ~BlockStarts(s, i) /\ s[i] \notin Space
Written(s, i, w, out) ==
  IF Gap(s, i, w) THEN Spaced(out)
  ELSE IF Copied(s, i, w) THEN Append(out, IF w.state = "normal" THEN Lower(s[i]) ELSE s[i]) ELSE out

Output(s) ==
  LET walk == Walk(s, {"'"})
      out[i \in 0 .. Len(s)] == IF i = 0 THEN <<>> ELSE Written(s, i, walk[i - 1], out[i - 1])
  IN out
NormalizeSqlForCache(s) == Strip(Output(s)[Len(s)])

-------------------------------------------------------------------------------
(* split_sql_statements. *)

Cut(s, i, w) == w = Outside /\ s[i] = ";"

\* Only what is not empty counts.
AddTo(list, x) == IF x = <<>> THEN list ELSE Append(list, x)

CutAt(s, i, w, z) ==
  IF Cut(s, i, w) THEN [start |-> i + 1, done |-> AddTo(z.done, Strip(SubSeq(s, z.start, i - 1)))] ELSE z
Pieces(s) ==
  LET walk == Walk(s, Quotes)
      pieces[i \in 0 .. Len(s)] ==
        IF i = 0 THEN [start |-> 1, done |-> <<>>] ELSE CutAt(s, i, walk[i - 1], pieces[i - 1])
  IN pieces
SplitSqlStatements(s) ==
  LET last == Pieces(s)[Len(s)] IN AddTo(last.done, Strip(SubSeq(s, last.start, Len(s))))

-------------------------------------------------------------------------------
TextInit == sql = <<>>
Type     == Len(sql) < MaxText /\ \E c \in Alphabet : sql' = Append(sql, c)

SqlSpec == TextInit /\ [][Type]_sql

-------------------------------------------------------------------------------
(* The reference: the tokens of a text as Trino reads it. *)

Count(s, i, n) == Cardinality({k \in i .. n : s[k] = s[i]})

\* Whether what begins at i may end at n: it ends at the first such place.
Closes(s, i, n) ==
  IF LineStarts(s, i) THEN s[n] = "nl" \/ n = Len(s)
  ELSE IF BlockStarts(s, i) THEN n >= i + 3 /\ BlockEnds(s, n - 1)
  ELSE IF s[i] \in Quotes THEN s[n] = s[i] /\ At(s, n + 1) # s[i] /\ Count(s, i, n) % 2 = 0
  ELSE s[i] \in Letters => At(s, n + 1) \notin Letters
Closings(s, i) == {n \in i .. Len(s) : Closes(s, i, n)}

\* 0 if it does not end.
EndOf(s, i) == LET ends == Closings(s, i) IN IF ends = {} THEN 0 ELSE Least(ends)

\* What is from i to n, or does not end; outside quotes the case of a letter says nothing.
Unclosed == <<"unclosed">>
TokenAt(s, i, n) ==
  IF n = 0 THEN Unclosed
  ELSE IF s[i] \in Quotes THEN SubSeq(s, i, n) ELSE [k \in 1 .. n + 1 - i |-> Lower(s[i + k - 1])]
Blank(s, i, n) == n # 0 /\ (s[i] \in Space \/ LineStarts(s, i) \/ BlockStarts(s, i))

\* The tokens of what begins up to i, and where the last of it ends.
LexAt(s, i, z) ==
  IF i <= z.end THEN z
  ELSE LET n == EndOf(s, i) IN
       [end |-> IF n = 0 THEN Len(s) ELSE n,
        tokens |-> IF Blank(s, i, n) THEN z.tokens ELSE Append(z.tokens, TokenAt(s, i, n))]
LexScan(s) ==
  LET lex[i \in 0 .. Len(s)] == IF i = 0 THEN [end |-> 0, tokens |-> <<>>] ELSE LexAt(s, i, lex[i - 1]) IN lex
Lex(s) == LexScan(s)[Len(s)].tokens

\* What the tokens of each text in a list are.
LexEach(texts) ==
  LET each[n \in 0 .. Len(texts)] == IF n = 0 THEN <<>> ELSE AddTo(each[n - 1], Lex(texts[n])) IN each[Len(texts)]

\* The tokens between semicolons.
PartAt(t, z) ==
  IF t = <<";">> THEN [done |-> AddTo(z.done, z.open), open |-> <<>>] ELSE [z EXCEPT !.open = Append(@, t)]
Parts(tokens) ==
  LET parts[n \in 0 .. Len(tokens)] ==
        IF n = 0 THEN [done |-> <<>>, open |-> <<>>] ELSE PartAt(tokens[n], parts[n - 1])
  IN parts[Len(tokens)]
Statements(tokens) == AddTo(Parts(tokens).done, Parts(tokens).open)

\* The cache keeps a text under its tokens, so two texts with one key are one statement to Trino; and a text is
\* split at the semicolons Trino would see, not at one in a comment or in quotes, with nothing lost.
TokensAreKept ==
  LET tokens == Lex(sql) IN
  Unclosed \notin Range(tokens) =>
    /\ Lex(NormalizeSqlForCache(sql)) = tokens
    /\ LexEach(SplitSqlStatements(sql)) = Statements(tokens)
=============================================================================
