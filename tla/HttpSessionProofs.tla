-------------------------- MODULE HttpSessionProofs --------------------------
(***************************************************************************)
(* Theorems about the http example, for every text of any length, cut into *)
(* reads of any size: the request parser accepts exactly the texts that    *)
(* hold a request by the grammar of RequestParser, a session answers each  *)
(* read with what the read itself deserves, and the path and the type of   *)
(* what it answers are what the uri spells.                                *)
(*                                                                         *)
(* The argument is what the state of the parser says of the text before it *)
(* (Described): where the current line begins, that all lines before are   *)
(* good, and what there is of this one.  If the text holds a request, then *)
(* its next character is one that the state admits (Accepts).  The         *)
(* recursion of parse() and that of url_decode are solved by the least and *)
(* the greatest element of a set of positions.                             *)
(***************************************************************************)
EXTENDS HttpSession, SequenceTheorems, WellFoundedInduction, TLAPS

-----------------------------------------------------------------------------
(* Characters *)

LEMMA Classes ==
  /\ Token \subseteq Text \ {"sp"} /\ Digit \subseteq Token /\ Text \subseteq Chars
  /\ Token \cap Blank = {} /\ (Text \ {"sp"}) \cap Blank = {}
  /\ "sp" \in Text /\ "sp" \in Blank /\ "dot" \notin Digit /\ "colon" \notin Token
  /\ "cr" \notin Text /\ "lf" \notin Text /\ "cr" \notin Blank /\ "lf" \notin Blank
  /\ "H" # "sp" /\ "cr" \in Chars /\ "lf" \in Chars /\ Chars \ {"sp"} \subseteq Chars
BY DEF Token, Text, Hex, Digit, Blank, Control, Chars

\* The least element of a set of numbers.
LEMMA LeastElement ==
  ASSUME NEW T \in SUBSET Nat, T # {}
  PROVE  \E i \in T : \A j \in T : i <= j
<1>1. PICK R : IsWellFoundedOn(R, Nat) /\ R = {ss \in Nat \X Nat : ss[1] < ss[2]}
  BY NatLessThanWellFounded DEF OpToRel
<1>2. PICK i \in T : \A j \in T : ~(<<j, i>> \in R)
  BY <1>1, WFMin
<1>3. \A j \in T : i <= j
  <2> SUFFICES ASSUME NEW j \in T, j < i PROVE FALSE
    OBVIOUS
  <2>1. <<j, i>> \in Nat \X Nat /\ <<j, i>>[1] < <<j, i>>[2]
    OBVIOUS
  <2>2. QED
    BY <1>1, <1>2, <2>1
<1>4. QED
  BY <1>3

-----------------------------------------------------------------------------
(* The lines of a text *)

Cuts(t) == {i \in 1..(Len(t) - 1) : t[i] = "cr" /\ t[i + 1] = "lf"}
Before(t, e) == {c \in Cuts(t) : c < e}
StartOf(t, e) ==
  IF \A c \in Cuts(t) : c >= e THEN 1
  ELSE 2 + CHOOSE c \in Cuts(t) : c < e /\ \A k \in Cuts(t) : k < e => k <= c
LineTo(t, e) == SubSeq(t, StartOf(t, e), e - 1)
Good(t, e) ==
  IF Before(t, e) = {} THEN IsRequestLine(LineTo(t, e))
  ELSE IsHeaderLine(LineTo(t, e), \A c \in Before(t, e) : Before(t, c) = {})

\* IsRequest in these terms.
LEMMA RequestLines ==
  ASSUME NEW t
  PROVE  IsRequest(t) <=> \E end \in Cuts(t) : /\ Before(t, end) # {} /\ LineTo(t, end) = <<>>
                                               /\ \A e \in Before(t, end) : Good(t, e)
BY DEF IsRequest, Cuts, Before, StartOf, LineTo, Good

\* The request line before position e, with a and b the spaces and d the dot.
Http == <<"H", "T", "T", "P", "slash">>
Asks(t, a, b) ==
  /\ 1 < a /\ a < b /\ t[a] = "sp" /\ t[b] = "sp"
  /\ All(t, 1, a - 1, Token) /\ All(t, a + 1, b - 1, Text \ {"sp"})
RequestLineAt(t, e, a, b, d) ==
  /\ Asks(t, a, b) /\ \A k \in 1..5 : t[b + k] = Http[k]
  /\ b + 6 < d /\ d < e - 1 /\ t[d] = "dot"
  /\ All(t, b + 6, d - 1, Digit) /\ All(t, d + 1, e - 1, Digit)

\* A header from position s to before e, with the colon at c.
HeaderAt(t, s, e, c) ==
  /\ s < c /\ c + 1 < e /\ t[c] = "colon" /\ t[c + 1] = "sp"
  /\ All(t, s, c - 1, Token) /\ All(t, c + 2, e - 1, Text)

\* A continuation from position s to before e, with blanks to k at least.
ContinuedAt(t, s, e, k) ==
  s <= k /\ k < e /\ All(t, s, k, Blank) /\ All(t, k + 1, e - 1, Text)

\* A part of a text by its positions.
LEMMA PartOf ==
  ASSUME NEW t \in Seq(Chars), NEW s \in 1..(Len(t) + 1), NEW e \in s..(Len(t) + 1)
  PROVE  /\ Len(SubSeq(t, s, e - 1)) = e - s /\ e - s \in Nat
         /\ \A k \in 1..(e - s) : SubSeq(t, s, e - 1)[k] = t[s + k - 1]
OBVIOUS

LEMMA RequestLineOf ==
  ASSUME NEW t \in Seq(Chars), NEW e \in 1..Len(t)
  PROVE  IsRequestLine(SubSeq(t, 1, e - 1)) <=>
           \E a, b, d \in 1..(e - 1) : RequestLineAt(t, e, a, b, d)
<1> DEFINE l == SubSeq(t, 1, e - 1)
<1>1. e \in 1..(Len(t) + 1) /\ Len(t) \in Nat
  OBVIOUS
<1>2. Len(l) = e - 1 /\ \A k \in 1..(e - 1) : l[k] = t[k]
  BY <1>1, PartOf
<1>6. l \in Seq(Chars)
  BY <1>1, SubSeqProperties
<1> HIDE DEF l
<1>3. ASSUME NEW a \in 1..(e - 1), NEW b \in 1..(e - 1), NEW d \in 1..(e - 1),
             1 < a /\ a < b /\ b + 6 < d /\ d < e - 1
      PROVE  RequestLineAt(t, e, a, b, d) <=>
               /\ l[a] = "sp" /\ l[b] = "sp" /\ l[d] = "dot"
               /\ All(l, 1, a - 1, Token) /\ All(l, a + 1, b - 1, Text \ {"sp"})
               /\ SubSeq(l, b + 1, b + 5) = Http
               /\ All(l, b + 6, d - 1, Digit) /\ All(l, d + 1, Len(l), Digit)
  <2>1. \A f \in 1..e, g \in 0..(e - 1) : \A S : All(l, f, g, S) <=> All(t, f, g, S)
    BY <1>2 DEF All
  <2>2. (SubSeq(l, b + 1, b + 5) = Http) <=> (\A k \in 1..5 : t[b + k] = Http[k])
    <3>1. b + 1 \in 1..(Len(l) + 1) /\ b + 6 \in (b + 1)..(Len(l) + 1) /\ (b + 6) - 1 = b + 5
          /\ b + 6 - (b + 1) = 5 /\ \A k \in 1..5 : (b + 1) + k - 1 = b + k
      BY <1>2, <1>3
    <3>2. Len(SubSeq(l, b + 1, b + 5)) = 5 /\ \A k \in 1..5 : SubSeq(l, b + 1, b + 5)[k] = l[b + k]
      BY <1>6, <3>1, PartOf
    <3>3. \A k \in 1..5 : l[b + k] = t[b + k]
      BY <1>2, <1>3
    <3>4. Http \in Seq(Chars) /\ Len(Http) = 5
      BY DEF Http, Chars, Token
    <3>5. SubSeq(l, b + 1, b + 5) \in Seq(Chars)
      BY <1>2, <1>3, <1>6, SubSeqProperties
    <3>6. (\A k \in 1..5 : SubSeq(l, b + 1, b + 5)[k] = Http[k]) => SubSeq(l, b + 1, b + 5) = Http
      BY <3>2, <3>4, <3>5, SeqEqual
    <3>7. QED
      BY <3>2, <3>3, <3>6
  <2>3. a - 1 \in 0..(e - 1) /\ a + 1 \in 1..e /\ b - 1 \in 0..(e - 1) /\ b + 6 \in 1..e
        /\ d - 1 \in 0..(e - 1) /\ d + 1 \in 1..e /\ e - 1 \in 0..(e - 1) /\ 1 \in 1..e
    BY <1>1, <1>3
  <2>4. QED
    BY <1>2, <1>3, <2>1, <2>2, <2>3 DEF RequestLineAt, Asks
<1>4. IsRequestLine(l) <=>
        \E a, b, d \in 1..(e - 1) :
               /\ 1 < a /\ a < b /\ b + 6 < d /\ d < e - 1
               /\ l[a] = "sp" /\ l[b] = "sp" /\ l[d] = "dot"
               /\ All(l, 1, a - 1, Token) /\ All(l, a + 1, b - 1, Text \ {"sp"})
               /\ SubSeq(l, b + 1, b + 5) = Http
               /\ All(l, b + 6, d - 1, Digit) /\ All(l, d + 1, Len(l), Digit)
  <2>1. Len(l) = e - 1
    BY <1>2
  <2>2. QED
    BY ONLY <2>1, ZenonT(60) DEF IsRequestLine, Http
<1>5. \A a, b, d \in 1..(e - 1) :
        RequestLineAt(t, e, a, b, d) => 1 < a /\ a < b /\ b + 6 < d /\ d < e - 1
  BY DEF RequestLineAt, Asks
<1>7. IsRequestLine(l) <=> \E a, b, d \in 1..(e - 1) : RequestLineAt(t, e, a, b, d)
  <2>1. ASSUME NEW a \in 1..(e - 1), NEW b \in 1..(e - 1), NEW d \in 1..(e - 1),
               RequestLineAt(t, e, a, b, d)
        PROVE  IsRequestLine(l)
    <3>1. 1 < a /\ a < b /\ b + 6 < d /\ d < e - 1
      BY <1>5, <2>1
    <3>2. /\ l[a] = "sp" /\ l[b] = "sp" /\ l[d] = "dot"
          /\ All(l, 1, a - 1, Token) /\ All(l, a + 1, b - 1, Text \ {"sp"})
          /\ SubSeq(l, b + 1, b + 5) = Http
          /\ All(l, b + 6, d - 1, Digit) /\ All(l, d + 1, Len(l), Digit)
      BY <1>3, <2>1, <3>1
    <3>3. QED
      BY <1>4, <3>1, <3>2
  <2>2. ASSUME IsRequestLine(l)
        PROVE  \E a, b, d \in 1..(e - 1) : RequestLineAt(t, e, a, b, d)
    <3>1. PICK a \in 1..(e - 1), b \in 1..(e - 1), d \in 1..(e - 1) :
               /\ 1 < a /\ a < b /\ b + 6 < d /\ d < e - 1
               /\ l[a] = "sp" /\ l[b] = "sp" /\ l[d] = "dot"
               /\ All(l, 1, a - 1, Token) /\ All(l, a + 1, b - 1, Text \ {"sp"})
               /\ SubSeq(l, b + 1, b + 5) = Http
               /\ All(l, b + 6, d - 1, Digit) /\ All(l, d + 1, Len(l), Digit)
      BY <1>4, <2>2
    <3>2. RequestLineAt(t, e, a, b, d)
      BY <1>3, <3>1
    <3>3. QED
      BY <3>2
  <2>3. QED
    BY <2>1, <2>2
<1>8. QED
  BY <1>7 DEF l

LEMMA HeaderLineOf ==
  ASSUME NEW t \in Seq(Chars), NEW s \in 1..Len(t), NEW e \in s..Len(t), NEW first \in BOOLEAN
  PROVE  IsHeaderLine(SubSeq(t, s, e - 1), first) <=>
           \/ \E c \in s..e : HeaderAt(t, s, e, c)
           \/ ~first /\ \E k \in s..e : ContinuedAt(t, s, e, k)
<1> DEFINE l == SubSeq(t, s, e - 1)
           n == e - s
<1>1. s \in 1..(Len(t) + 1) /\ e \in s..(Len(t) + 1) /\ Len(t) \in Nat
  OBVIOUS
<1>2. Len(l) = n /\ n \in Nat /\ \A k \in 1..n : l[k] = t[s + k - 1]
  BY <1>1, PartOf
<1> HIDE DEF l
<1>3. ASSUME NEW f \in 1..(n + 1), NEW g \in 0..n, NEW S
      PROVE  All(l, f, g, S) <=> All(t, s + f - 1, s + g - 1, S)
  <2>1. ASSUME All(l, f, g, S), NEW i \in (s + f - 1)..(s + g - 1) PROVE t[i] \in S
    <3>1. i - s + 1 \in f..g /\ i - s + 1 \in 1..n /\ s + (i - s + 1) - 1 = i
      BY <1>1
    <3>2. l[i - s + 1] \in S /\ l[i - s + 1] = t[i]
      BY <1>2, <2>1, <3>1 DEF All
    <3>3. QED
      BY <3>2
  <2>2. ASSUME All(t, s + f - 1, s + g - 1, S), NEW i \in f..g PROVE l[i] \in S
    <3>1. i \in 1..n /\ s + i - 1 \in (s + f - 1)..(s + g - 1)
      BY <1>1
    <3>2. QED
      BY <1>2, <2>2, <3>1 DEF All
  <2>3. QED
    BY <2>1, <2>2 DEF All
<1>4. ASSUME NEW c \in 2..(n - 1)
      PROVE  HeaderAt(t, s, e, s + c - 1) <=>
               /\ l[c] = "colon" /\ l[c + 1] = "sp"
               /\ All(l, 1, c - 1, Token) /\ All(l, c + 2, Len(l), Text)
  <2>1. c \in 1..n /\ c + 1 \in 1..n /\ s + (c + 1) - 1 = (s + c - 1) + 1
        /\ 1 \in 1..(n + 1) /\ c - 1 \in 0..n /\ c + 2 \in 1..(n + 1) /\ n \in 0..n
        /\ s + 1 - 1 = s /\ s + (c - 1) - 1 = (s + c - 1) - 1
        /\ s + (c + 2) - 1 = (s + c - 1) + 2 /\ s + n - 1 = e - 1
        /\ s < s + c - 1 /\ (s + c - 1) + 1 < e
    BY <1>1, <1>2
  <2>2. l[c] = t[s + c - 1] /\ l[c + 1] = t[(s + c - 1) + 1]
    BY <1>2, <2>1
  <2>3. All(l, 1, c - 1, Token) <=> All(t, s, (s + c - 1) - 1, Token)
    BY <1>3, <2>1
  <2>4. All(l, c + 2, n, Text) <=> All(t, (s + c - 1) + 2, e - 1, Text)
    BY <1>3, <2>1
  <2>5. QED
    BY <1>2, <2>1, <2>2, <2>3, <2>4 DEF HeaderAt
<1>5. ASSUME NEW k \in 1..n
      PROVE  ContinuedAt(t, s, e, s + k - 1) <=>
               All(l, 1, k, Blank) /\ All(l, k + 1, Len(l), Text)
  <2>1. 1 \in 1..(n + 1) /\ k \in 0..n /\ k + 1 \in 1..(n + 1) /\ n \in 0..n
        /\ s + 1 - 1 = s /\ s + (k + 1) - 1 = (s + k - 1) + 1 /\ s + n - 1 = e - 1
        /\ s <= s + k - 1 /\ s + k - 1 < e
    BY <1>1, <1>2
  <2>2. All(l, 1, k, Blank) <=> All(t, s, s + k - 1, Blank)
    BY <1>3, <2>1
  <2>3. All(l, k + 1, n, Text) <=> All(t, (s + k - 1) + 1, e - 1, Text)
    BY <1>3, <2>1
  <2>4. QED
    BY <1>2, <2>1, <2>2, <2>3 DEF ContinuedAt
<1>6. (\E c \in s..e : HeaderAt(t, s, e, c)) <=> \E c \in 2..(n - 1) : HeaderAt(t, s, e, s + c - 1)
  <2>1. ASSUME NEW c \in s..e, HeaderAt(t, s, e, c)
        PROVE  \E j \in 2..(n - 1) : HeaderAt(t, s, e, s + j - 1)
    <3>1. s < c /\ c + 1 < e
      BY <2>1 DEF HeaderAt
    <3>2. c - s + 1 \in 2..(n - 1) /\ s + (c - s + 1) - 1 = c
      BY <1>1, <3>1
    <3>3. QED
      BY <2>1, <3>2
  <2>2. \A c \in 2..(n - 1) : s + c - 1 \in s..e
    BY <1>1, <1>2
  <2>3. QED
    BY <2>1, <2>2
<1>7. (\E k \in s..e : ContinuedAt(t, s, e, k)) <=> \E k \in 1..n : ContinuedAt(t, s, e, s + k - 1)
  <2>1. ASSUME NEW k \in s..e, ContinuedAt(t, s, e, k)
        PROVE  \E j \in 1..n : ContinuedAt(t, s, e, s + j - 1)
    <3>1. s <= k /\ k < e
      BY <2>1 DEF ContinuedAt
    <3>2. k - s + 1 \in 1..n /\ s + (k - s + 1) - 1 = k
      BY <1>1, <3>1
    <3>3. QED
      BY <2>1, <3>2
  <2>2. \A k \in 1..n : s + k - 1 \in s..e
    BY <1>1, <1>2
  <2>3. QED
    BY <2>1, <2>2
<1>8. IsHeaderLine(l, first) <=>
        \/ \E c \in 2..(n - 1) : /\ l[c] = "colon" /\ l[c + 1] = "sp"
                                 /\ All(l, 1, c - 1, Token) /\ All(l, c + 2, Len(l), Text)
        \/ ~first /\ \E k \in 1..n : All(l, 1, k, Blank) /\ All(l, k + 1, Len(l), Text)
  BY <1>2 DEF IsHeaderLine
<1>9. QED
  BY <1>4, <1>5, <1>6, <1>7, <1>8 DEF l

-----------------------------------------------------------------------------
(* The transition table, and what one character does *)

Newlines == {"expecting_newline_1", "expecting_newline_2", "expecting_newline_3"}
LineStates ==
  {"method_start", "method", "uri_start", "uri", "http_version_h", "http_version_t_1",
   "http_version_t_2", "http_version_p", "http_version_slash", "http_version_major_start",
   "http_version_major", "http_version_minor_start", "http_version_minor", "expecting_newline_1"}
HeaderStates ==
  {"header_line_start", "header_lws", "header_name", "space_before_header_value",
   "header_value", "expecting_newline_2", "expecting_newline_3"}
Parser == [state : States, uri : Seq(Text), headers : Nat, result : Results]

LEMMA StateSets == DOMAIN LineMoves = LineStates /\ States = LineStates \cup HeaderStates
BY DEF LineMoves, LineStates, HeaderMoves, HeaderStates, States

LEMMA LineMovesOf ==
  ASSUME NEW h
  PROVE  /\ Moves("method_start", h) = {<<Token, "method">>}
         /\ Moves("method", h) = {<<Token, "method">>, <<{"sp"}, "uri">>}
         /\ Moves("uri_start", h) = {<<Text, "uri">>}
         /\ Moves("uri", h) = {<<Text \ {"sp"}, "uri">>, <<{"sp"}, "http_version_h">>}
         /\ Moves("http_version_h", h) = {<<{"H"}, "http_version_t_1">>}
         /\ Moves("http_version_t_1", h) = {<<{"T"}, "http_version_t_2">>}
         /\ Moves("http_version_t_2", h) = {<<{"T"}, "http_version_p">>}
         /\ Moves("http_version_p", h) = {<<{"P"}, "http_version_slash">>}
         /\ Moves("http_version_slash", h) = {<<{"slash"}, "http_version_major_start">>}
         /\ Moves("http_version_major_start", h) = {<<Digit, "http_version_major">>}
         /\ Moves("http_version_major", h) =
              {<<Digit, "http_version_major">>, <<{"dot"}, "http_version_minor_start">>}
         /\ Moves("http_version_minor_start", h) = {<<Digit, "http_version_minor">>}
         /\ Moves("http_version_minor", h) =
              {<<Digit, "http_version_minor">>, <<{"cr"}, "expecting_newline_1">>}
         /\ Moves("expecting_newline_1", h) = {<<{"lf"}, "header_line_start">>}
BY StateSets DEF Moves, LineMoves, LineStates

LEMMA HeaderMovesOf ==
  ASSUME NEW h
  PROVE  /\ Moves("header_line_start", h) =
              {<<{"cr"}, "expecting_newline_3">>, <<Token, "header_name">>,
               <<IF h > 0 THEN Blank ELSE {}, "header_lws">>}
         /\ Moves("header_lws", h) =
              {<<{"cr"}, "expecting_newline_2">>, <<Blank, "header_lws">>,
               <<Text \ {"sp"}, "header_value">>}
         /\ Moves("header_name", h) =
              {<<Token, "header_name">>, <<{"colon"}, "space_before_header_value">>}
         /\ Moves("space_before_header_value", h) = {<<{"sp"}, "header_value">>}
         /\ Moves("header_value", h) = {<<{"cr"}, "expecting_newline_2">>, <<Text, "header_value">>}
         /\ Moves("expecting_newline_2", h) = {<<{"lf"}, "header_line_start">>}
         /\ Moves("expecting_newline_3", h) = {<<{"lf"}, "complete">>}
BY StateSets DEF Moves, HeaderMoves, LineStates

\* An update of two fields of a parser.
LEMMA TwoFields ==
  ASSUME NEW a, NEW b, NEW c, NEW d, NEW s, NEW r,
         r = [state |-> a, uri |-> b, headers |-> c, result |-> d]
  PROVE  [r EXCEPT !.state = s, !.result = "indeterminate"] =
         [state |-> s, uri |-> b, headers |-> c, result |-> "indeterminate"]
<1>1. PICK r1 : r1 = [r EXCEPT !.state = s]
  OBVIOUS
<1>2. r1 = [state |-> s, uri |-> b, headers |-> c, result |-> d]
  BY <1>1
<1>3. [r1 EXCEPT !.result = "indeterminate"] =
      [state |-> s, uri |-> b, headers |-> c, result |-> "indeterminate"]
  BY <1>2
<1>4. [[r EXCEPT !.state = s] EXCEPT !.result = "indeterminate"] =
      [r1 EXCEPT !.result = "indeterminate"]
  BY ONLY <1>1, Zenon
<1>5. [r EXCEPT !.state = s, !.result = "indeterminate"] =
      [[r EXCEPT !.state = s] EXCEPT !.result = "indeterminate"]
  OBVIOUS
<1>6. QED
  BY ONLY <1>3, <1>4, <1>5, Zenon

\* Where the state after the next character is another, p is this.
Moved(p, c, state) ==
  [state |-> state,
   uri |-> IF p.state \in {"uri_start", "uri"} /\ c # "sp" THEN Append(p.uri, c) ELSE p.uri,
   headers |-> IF p.state = "header_line_start" /\ c \in Token THEN p.headers + 1 ELSE p.headers,
   result |-> "indeterminate"]

\* consume(): the character is not admitted, it is the last one, or it leads to a state.
LEMMA Consumes ==
  ASSUME NEW p \in Parser, NEW c
  PROVE  \/ /\ Consume(p, c) = [p EXCEPT !.result = "false"]
            /\ \A n \in Moves(p.state, p.headers) : c \notin n[1]
         \/ /\ Consume(p, c) = [p EXCEPT !.result = "true"]
            /\ \E n \in Moves(p.state, p.headers) : c \in n[1] /\ n[2] = "complete"
         \/ /\ \E n \in Moves(p.state, p.headers) :
                 c \in n[1] /\ Consume(p, c) = Moved(p, c, n[2])
            /\ \E n \in Moves(p.state, p.headers) : c \in n[1] /\ n[2] # "complete"
<1> DEFINE next == {m[2] : m \in {n \in Moves(p.state, p.headers) : c \in n[1]}}
<1>1. CASE next = {}
  <2>1. \A n \in Moves(p.state, p.headers) : c \notin n[1]
    BY <1>1
  <2>2. Consume(p, c) = [p EXCEPT !.result = "false"]
    BY <1>1 DEF Consume
  <2>3. QED
    BY <2>1, <2>2
<1>2. CASE next = {"complete"}
  <2>1. \E n \in Moves(p.state, p.headers) : c \in n[1] /\ n[2] = "complete"
    BY <1>2
  <2>2. Consume(p, c) = [p EXCEPT !.result = "true"]
    BY <1>2 DEF Consume
  <2>3. QED
    BY <2>1, <2>2
<1>3. CASE next # {} /\ next # {"complete"}
  <2>1. \E n \in Moves(p.state, p.headers) : c \in n[1] /\ n[2] # "complete"
    BY <1>3
  <2>2. PICK s : s = CHOOSE x \in next : TRUE
    OBVIOUS
  <2>3. s \in next
    BY <1>3, <2>2
  <2>4. PICK n \in Moves(p.state, p.headers) : c \in n[1] /\ n[2] = s
    BY <2>3
  <2>5. PICK r : r = Recorded(p, c)
    OBVIOUS
  <2>6. p = [state |-> p.state, uri |-> p.uri, headers |-> p.headers, result |-> p.result]
    BY DEF Parser
  <2>7. PICK u, h : /\ r = [state |-> p.state, uri |-> u, headers |-> h, result |-> p.result]
                    /\ Moved(p, c, s) =
                         [state |-> s, uri |-> u, headers |-> h, result |-> "indeterminate"]
    <3>1. CASE p.state \in {"uri_start", "uri"} /\ c # "sp"
      <4>1. r = [state |-> p.state, uri |-> Append(p.uri, c), headers |-> p.headers,
                 result |-> p.result]
        BY <2>5, <2>6, <3>1 DEF Recorded
      <4>2. QED
        BY ONLY <3>1, <4>1 DEF Moved
    <3>2. CASE p.state = "header_line_start" /\ c \in Token
      <4>1. r = [state |-> p.state, uri |-> p.uri, headers |-> p.headers + 1,
                 result |-> p.result]
        BY <2>5, <2>6, <3>2 DEF Recorded
      <4>2. QED
        BY ONLY <3>2, <4>1 DEF Moved
    <3>3. CASE /\ ~(p.state \in {"uri_start", "uri"} /\ c # "sp")
               /\ ~(p.state = "header_line_start" /\ c \in Token)
      <4>1. r = p
        BY <2>5, <3>3 DEF Recorded
      <4>2. QED
        BY ONLY <2>6, <3>3, <4>1 DEF Moved
    <3>4. QED
      BY <3>1, <3>2, <3>3
  <2>8. Consume(p, c) = [r EXCEPT !.state = s, !.result = "indeterminate"]
    <3>1. Consume(p, c) = [Recorded(p, c) EXCEPT !.state = s, !.result = "indeterminate"]
      BY <1>3, <2>2 DEF Consume
    <3>2. QED
      BY ONLY <2>5, <3>1, Zenon
  <2>9. Consume(p, c) = Moved(p, c, s)
    BY <2>7, <2>8, TwoFields
  <2>10. QED
    BY <2>1, <2>4, <2>9
<1>4. QED
  BY <1>1, <1>2, <1>3

-----------------------------------------------------------------------------
(* What the state of the parser says of the text before it *)

\* Line e ended by s is good: so begins a line at s, after the good ones before it.
NotFirst(t, s) == \E c, k \in Cuts(t) : k < c /\ c < s
Begun(t, s) == (s = 1 \/ s - 2 \in Cuts(t)) /\ \A e \in Before(t, s) : Good(t, e)

\* In the request line, which begins the text, after i characters; b is the space
\* before the version.
Version(t, b, i, state) ==
  /\ \A k \in 1..5 : b + k <= i => t[b + k] = Http[k]
  /\ state = "http_version_h" => i = b
  /\ state = "http_version_t_1" => i = b + 1
  /\ state = "http_version_t_2" => i = b + 2
  /\ state = "http_version_p" => i = b + 3
  /\ state = "http_version_slash" => i = b + 4
  /\ state = "http_version_major_start" => i = b + 5
  /\ state = "http_version_major" => b + 6 <= i /\ All(t, b + 6, i, Digit)
  /\ state = "http_version_minor_start" =>
       b + 6 < i /\ t[i] = "dot" /\ All(t, b + 6, i - 1, Digit)
  /\ state = "http_version_minor" =>
       \E d \in 1..i : /\ b + 6 < d /\ d < i /\ t[d] = "dot"
                       /\ All(t, b + 6, d - 1, Digit) /\ All(t, d + 1, i, Digit)
UriIs(t, i, uri) ==
  \E a \in 2..i : /\ t[a] = "sp" /\ All(t, 1, a - 1, Token)
                  /\ All(t, a + 1, i, Text \ {"sp"}) /\ uri = SubSeq(t, a + 1, i)
VersionIs(t, i, state, uri) ==
  \E a, b \in 1..i : /\ Asks(t, a, b) /\ uri = SubSeq(t, a + 1, b - 1)
                     /\ Version(t, b, i, state)
LineIs(t, i, uri) ==
  \E a, b, d \in 1..i :
    RequestLineAt(t, i, a, b, d) /\ uri = SubSeq(t, a + 1, b - 1)
InLine(t, i, state, uri) ==
  /\ state # "uri_start"
  /\ state = "method_start" => i = 0 /\ uri = <<>>
  /\ state = "method" => 1 <= i /\ All(t, 1, i, Token) /\ uri = <<>>
  /\ state = "uri" => UriIs(t, i, uri)
  /\ state \notin {"method_start", "method", "uri", "expecting_newline_1"} =>
       VersionIs(t, i, state, uri)
  /\ state = "expecting_newline_1" => LineIs(t, i, uri)

\* In a header line, which begins at s.
ValueIs(t, s, e) ==
  \/ \E c \in s..e : HeaderAt(t, s, e, c)
  \/ NotFirst(t, s) /\ \E k \in s..e : ContinuedAt(t, s, e, k)
InValue(t, s, i) ==
  \/ \E c \in s..i : HeaderAt(t, s, i + 1, c)
  \/ /\ NotFirst(t, s)
     /\ \E k \in s..i : k < i /\ t[k + 1] \in Text \ {"sp"} /\ ContinuedAt(t, s, i + 1, k)
InHeader(t, s, i, state, headers) ==
  /\ state = "header_line_start" => i = s - 1 /\ (headers > 0 <=> NotFirst(t, s))
  /\ state \in HeaderStates \ {"header_line_start", "expecting_newline_3"} => headers > 0 /\ s <= i
  /\ state = "header_name" => All(t, s, i, Token)
  /\ state = "space_before_header_value" =>
       s < i /\ t[i] = "colon" /\ All(t, s, i - 1, Token)
  /\ state = "header_lws" => NotFirst(t, s) /\ All(t, s, i, Blank)
  /\ state = "header_value" => InValue(t, s, i)
  /\ state = "expecting_newline_2" => s < i /\ ValueIs(t, s, i)
  /\ state = "expecting_newline_3" => i = s

\* Everything that is known after i characters, in the line that begins at s.
Described(t, s, i, q) ==
  /\ Begun(t, s)
  /\ \A j \in s..(i - 1) : t[j] # "cr"
  /\ q.state \in Newlines <=> s <= i /\ t[i] = "cr"
  /\ s = 1 => q.state \in LineStates /\ q.headers = 0 /\ InLine(t, i, q.state, q.uri)
  /\ s > 1 => /\ q.state \in HeaderStates /\ InHeader(t, s, i, q.state, q.headers)
              /\ \E a, b \in 1..i : Asks(t, a, b) /\ q.uri = SubSeq(t, a + 1, b - 1)

LEMMA Extend ==
  ASSUME NEW t, NEW f \in Nat, NEW i \in Nat, NEW S, All(t, f, i, S), t[i + 1] \in S
  PROVE  All(t, f, i + 1, S)
BY DEF All

LEMMA OneOf == \A t, S : \A i \in Nat : t[i] \in S => All(t, i, i, S)
BY DEF All

LEMMA NoneOf == \A t, S : \A i \in Nat : All(t, i + 1, i, S)
BY DEF All

LEMMA LongerPart ==
  ASSUME NEW t \in Seq(Chars), NEW i \in 0..(Len(t) - 1), NEW a \in 0..i
  PROVE  SubSeq(t, a + 1, i + 1) = Append(SubSeq(t, a + 1, i), t[i + 1])
<1>1. a + 1 \in 1..Len(t) /\ i + 1 \in (a + 1)..Len(t) /\ (i + 1) - 1 = i
  OBVIOUS
<1>2. SubSeq(t, a + 1, i + 1) = SubSeq(t, a + 1, (i + 1) - 1) \o <<t[i + 1]>>
  BY <1>1, SubSeqRecursiveSecond
<1>3. SubSeq(t, a + 1, i) \in Seq(Chars) /\ t[i + 1] \in Chars
  BY <1>1, SubSeqProperties, ElementOfSeq
<1>4. QED
  BY <1>1, <1>2, <1>3, AppendIsConcat

-----------------------------------------------------------------------------
(* One more character in the same line *)

\* The version, from the space before it on.
LEMMA VersionKeeps ==
  ASSUME NEW t, NEW i \in Nat, NEW b \in 1..i, NEW h, NEW state, NEW n,
         state \in {"http_version_h", "http_version_t_1", "http_version_t_2", "http_version_p",
                    "http_version_slash", "http_version_major_start", "http_version_major",
                    "http_version_minor_start", "http_version_minor"},
         Version(t, b, i, state), n \in Moves(state, h), t[i + 1] \in n[1],
         n[2] # "expecting_newline_1"
  PROVE  Version(t, b, i + 1, n[2])
<1>1. CASE state = "http_version_h"
  <2>1. n = <<{"H"}, "http_version_t_1">>
    BY <1>1, LineMovesOf
  <2>2. QED
    BY <1>1, <2>1 DEF Version, Http
<1>2. CASE state = "http_version_t_1"
  <2>1. n = <<{"T"}, "http_version_t_2">>
    BY <1>2, LineMovesOf
  <2>2. QED
    BY <1>2, <2>1 DEF Version, Http
<1>3. CASE state = "http_version_t_2"
  <2>1. n = <<{"T"}, "http_version_p">>
    BY <1>3, LineMovesOf
  <2>2. QED
    BY <1>3, <2>1 DEF Version, Http
<1>4. CASE state = "http_version_p"
  <2>1. n = <<{"P"}, "http_version_slash">>
    BY <1>4, LineMovesOf
  <2>2. QED
    BY <1>4, <2>1 DEF Version, Http
<1>5. CASE state = "http_version_slash"
  <2>1. n = <<{"slash"}, "http_version_major_start">>
    BY <1>5, LineMovesOf
  <2>2. QED
    BY <1>5, <2>1 DEF Version, Http
<1>6. CASE state = "http_version_major_start"
  <2>1. n = <<Digit, "http_version_major">>
    BY <1>6, LineMovesOf
  <2>2. All(t, b + 6, i + 1, Digit)
    BY <1>6, <2>1 DEF Version, All
  <2>3. QED
    BY <1>6, <2>1, <2>2 DEF Version
<1>7. CASE state = "http_version_major"
  <2>1. n = <<Digit, "http_version_major">> \/ n = <<{"dot"}, "http_version_minor_start">>
    BY <1>7, LineMovesOf
  <2>2. b + 6 <= i /\ All(t, b + 6, i, Digit) /\ \A k \in 1..5 : t[b + k] = Http[k]
    BY <1>7 DEF Version
  <2>3. CASE n = <<Digit, "http_version_major">>
    <3>1. All(t, b + 6, i + 1, Digit)
      BY <2>2, <2>3 DEF All
    <3>2. QED
      BY <2>2, <2>3, <3>1 DEF Version
  <2>4. CASE n = <<{"dot"}, "http_version_minor_start">>
    BY <2>2, <2>4 DEF Version
  <2>5. QED
    BY <2>1, <2>3, <2>4
<1>8. CASE state = "http_version_minor_start"
  <2>1. n = <<Digit, "http_version_minor">>
    BY <1>8, LineMovesOf
  <2>2. /\ b + 6 < i /\ t[i] = "dot" /\ All(t, b + 6, i - 1, Digit)
        /\ \A k \in 1..5 : t[b + k] = Http[k]
    BY <1>8 DEF Version
  <2>3. All(t, i + 1, i + 1, Digit)
    BY <2>1 DEF All
  <2>4. QED
    BY <2>1, <2>2, <2>3 DEF Version
<1>9. CASE state = "http_version_minor"
  <2>1. n = <<Digit, "http_version_minor">>
    BY <1>9, LineMovesOf
  <2>2. PICK d \in 1..i : /\ b + 6 < d /\ d < i /\ t[d] = "dot"
                          /\ All(t, b + 6, d - 1, Digit) /\ All(t, d + 1, i, Digit)
    BY <1>9 DEF Version
  <2>3. \A k \in 1..5 : t[b + k] = Http[k]
    BY <1>9, <2>2 DEF Version
  <2>4. All(t, d + 1, i + 1, Digit)
    BY <2>1, <2>2 DEF All
  <2>5. QED
    BY <2>1, <2>2, <2>3, <2>4 DEF Version
<1>10. QED
  BY <1>1, <1>2, <1>3, <1>4, <1>5, <1>6, <1>7, <1>8, <1>9

LEMMA LineKeeps ==
  ASSUME NEW t \in Seq(Chars), NEW i \in 0..(Len(t) - 1), NEW p \in Parser, NEW n,
         p.state \in LineStates, p.state # "expecting_newline_1",
         InLine(t, i, p.state, p.uri),
         n \in Moves(p.state, p.headers), t[i + 1] \in n[1]
  PROVE  InLine(t, i + 1, n[2], Moved(p, t[i + 1], n[2]).uri)
<1> DEFINE c == t[i + 1]
           u == Moved(p, c, n[2]).uri
<1>1. i \in Nat /\ i + 1 \in 1..Len(t) /\ c \in Chars
  BY ElementOfSeq
<1>2. u = IF p.state = "uri" /\ c # "sp" THEN Append(p.uri, c) ELSE p.uri
  BY DEF Moved, InLine
<1> HIDE DEF u
<1>3. CASE p.state = "method_start"
  <2>1. n = <<Token, "method">>
    BY <1>3, LineMovesOf
  <2>2. i = 0 /\ p.uri = <<>>
    BY <1>3 DEF InLine
  <2>3. All(t, 1, i + 1, Token)
    BY <2>1, <2>2 DEF All
  <2>4. QED
    BY <1>2, <1>3, <2>1, <2>2, <2>3 DEF InLine, u
<1>4. CASE p.state = "method"
  <2>1. n = <<Token, "method">> \/ n = <<{"sp"}, "uri">>
    BY <1>4, LineMovesOf
  <2>2. 1 <= i /\ All(t, 1, i, Token) /\ p.uri = <<>> /\ u = <<>>
    BY <1>2, <1>4 DEF InLine
  <2>3. CASE n = <<Token, "method">>
    <3>1. All(t, 1, i + 1, Token)
      BY <1>1, <2>2, <2>3 DEF All
    <3>2. QED
      BY <1>1, <2>2, <2>3, <3>1 DEF InLine, u
  <2>4. CASE n = <<{"sp"}, "uri">>
    <3>1. SubSeq(t, (i + 1) + 1, i + 1) = <<>>
      BY <1>1, SubSeqEmpty
    <3>2. All(t, 1, (i + 1) - 1, Token) /\ All(t, (i + 1) + 1, i + 1, Text \ {"sp"})
      BY <1>1, <2>2 DEF All
    <3>3. UriIs(t, i + 1, u)
      BY <1>1, <2>2, <2>4, <3>1, <3>2 DEF UriIs
    <3>4. QED
      BY <2>4, <3>3 DEF InLine, u
  <2>5. QED
    BY <2>1, <2>3, <2>4
<1>5. CASE p.state = "uri"
  <2>1. n = <<Text \ {"sp"}, "uri">> \/ n = <<{"sp"}, "http_version_h">>
    BY <1>5, LineMovesOf
  <2>2. PICK a \in 2..i : /\ t[a] = "sp" /\ All(t, 1, a - 1, Token)
                          /\ All(t, a + 1, i, Text \ {"sp"}) /\ p.uri = SubSeq(t, a + 1, i)
    BY <1>5 DEF InLine, UriIs
  <2>3. CASE n = <<Text \ {"sp"}, "uri">>
    <3>1. All(t, a + 1, i + 1, Text \ {"sp"})
      BY <1>1, <2>2, <2>3 DEF All
    <3>2. u = SubSeq(t, a + 1, i + 1)
      BY <1>1, <1>2, <1>5, <2>2, <2>3, LongerPart
    <3>3. UriIs(t, i + 1, u)
      BY <1>1, <2>2, <3>1, <3>2 DEF UriIs
    <3>4. QED
      BY <2>3, <3>3 DEF InLine, u
  <2>4. CASE n = <<{"sp"}, "http_version_h">>
    <3>1. Asks(t, a, i + 1)
      BY <1>1, <2>2, <2>4 DEF Asks
    <3>2. Version(t, i + 1, i + 1, "http_version_h")
      BY <1>1 DEF Version
    <3>3. u = SubSeq(t, a + 1, (i + 1) - 1)
      BY <1>1, <1>2, <2>2, <2>4
    <3>4. VersionIs(t, i + 1, "http_version_h", u)
      BY <1>1, <2>2, <3>1, <3>2, <3>3 DEF VersionIs
    <3>5. QED
      BY <2>4, <3>4 DEF InLine, u
  <2>5. QED
    BY <2>1, <2>3, <2>4
<1>6. CASE /\ p.state \notin {"method_start", "method", "uri", "uri_start", "expecting_newline_1"}
           /\ n[2] # "expecting_newline_1"
  <2>1. p.state \in {"http_version_h", "http_version_t_1", "http_version_t_2", "http_version_p",
                     "http_version_slash", "http_version_major_start", "http_version_major",
                     "http_version_minor_start", "http_version_minor"}
    BY <1>6 DEF LineStates
  <2>2. PICK a \in 1..i, b \in 1..i : /\ Asks(t, a, b) /\ p.uri = SubSeq(t, a + 1, b - 1)
                                      /\ Version(t, b, i, p.state)
    BY <1>6 DEF InLine, VersionIs
  <2>3. Version(t, b, i + 1, n[2])
    BY <1>1, <1>6, <2>1, <2>2, VersionKeeps
  <2>4. VersionIs(t, i + 1, n[2], u)
    <3>1. a \in 1..(i + 1) /\ b \in 1..(i + 1) /\ u = p.uri
      BY <1>1, <1>2, <1>6
    <3>2. QED
      BY <2>2, <2>3, <3>1 DEF VersionIs
  <2>5. n[2] \notin {"uri_start", "method_start", "method", "uri", "expecting_newline_1"}
    BY <1>6, <2>1, LineMovesOf
  <2>6. QED
    BY <2>4, <2>5 DEF InLine, u
<1>7. CASE /\ p.state \notin {"method_start", "method", "uri", "uri_start", "expecting_newline_1"}
           /\ n[2] = "expecting_newline_1"
  <2>1. p.state = "http_version_minor"
    BY <1>7, LineMovesOf DEF LineStates
  <2>2. PICK a \in 1..i, b \in 1..i : /\ Asks(t, a, b) /\ p.uri = SubSeq(t, a + 1, b - 1)
                                      /\ Version(t, b, i, p.state)
    BY <1>7 DEF InLine, VersionIs
  <2>3. PICK d \in 1..i : /\ b + 6 < d /\ d < i /\ t[d] = "dot"
                          /\ All(t, b + 6, d - 1, Digit) /\ All(t, d + 1, i, Digit)
    BY <2>1, <2>2 DEF Version
  <2>4. \A k \in 1..5 : t[b + k] = Http[k]
    <3>1. \A k \in 1..5 : b + k <= i => t[b + k] = Http[k]
      BY <2>2 DEF Version
    <3>2. \A k \in 1..5 : b + k <= i
      BY <1>1, <2>3
    <3>3. QED
      BY <3>1, <3>2
  <2>5. RequestLineAt(t, i + 1, a, b, d)
    <3>1. (i + 1) - 1 = i
      BY <1>1
    <3>2. QED
      BY <2>2, <2>3, <2>4, <3>1 DEF RequestLineAt
  <2>6. LineIs(t, i + 1, u)
    <3>1. a \in 1..(i + 1) /\ b \in 1..(i + 1) /\ d \in 1..(i + 1) /\ u = p.uri
      BY <1>1, <1>2, <2>1
    <3>2. QED
      BY <2>2, <2>5, <3>1 DEF LineIs
  <2>7. QED
    BY <1>7, <2>6 DEF InLine, u
<1>8. QED
  BY <1>3, <1>4, <1>5, <1>6, <1>7 DEF InLine

LEMMA InValueIs ==
  ASSUME NEW t, NEW s \in Nat, NEW i \in Nat, InValue(t, s, i)
  PROVE  ValueIs(t, s, i + 1)
<1>1. s..i \subseteq s..(i + 1)
  OBVIOUS
<1>2. QED
  BY <1>1 DEF InValue, ValueIs

\* A longer value.
LEMMA ValueKeeps ==
  ASSUME NEW t, NEW s \in Nat, NEW i \in Nat, t[i + 1] \in Text, InValue(t, s, i)
  PROVE  InValue(t, s, i + 1)
<1>1. ASSUME NEW c \in s..i, HeaderAt(t, s, i + 1, c) PROVE HeaderAt(t, s, (i + 1) + 1, c)
  <2>1. s < c /\ c + 1 < (i + 1) + 1 /\ ((i + 1) + 1) - 1 = i + 1 /\ (i + 1) - 1 = i
    BY <1>1 DEF HeaderAt
  <2>2. All(t, c + 2, i + 1, Text)
    BY <1>1 DEF HeaderAt, All
  <2>3. QED
    BY <1>1, <2>1, <2>2 DEF HeaderAt
<1>2. ASSUME NEW k \in s..i, ContinuedAt(t, s, i + 1, k)
      PROVE  ContinuedAt(t, s, (i + 1) + 1, k)
  <2>1. s <= k /\ k < (i + 1) + 1 /\ ((i + 1) + 1) - 1 = i + 1 /\ (i + 1) - 1 = i
    BY <1>2 DEF ContinuedAt
  <2>2. All(t, k + 1, i + 1, Text)
    BY <1>2 DEF ContinuedAt, All
  <2>3. QED
    BY <1>2, <2>1, <2>2 DEF ContinuedAt
<1>3. s..i \subseteq s..(i + 1) /\ \A k \in s..i : k < i => k < i + 1
  OBVIOUS
<1>4. QED
  BY <1>1, <1>2, <1>3 DEF InValue

LEMMA HeaderKeeps ==
  ASSUME NEW t \in Seq(Chars), NEW i \in 1..(Len(t) - 1), NEW s \in 2..(i + 1),
         NEW p \in Parser, NEW n,
         p.state \in HeaderStates \ Newlines, InHeader(t, s, i, p.state, p.headers),
         n \in Moves(p.state, p.headers), t[i + 1] \in n[1]
  PROVE  InHeader(t, s, i + 1, n[2], Moved(p, t[i + 1], n[2]).headers)
<1> DEFINE c == t[i + 1]
           h == Moved(p, c, n[2]).headers
<1>1. i \in Nat /\ s \in Nat /\ s <= i + 1 /\ (i + 1) + 1 = i + 2 /\ p.headers \in Nat
  BY DEF Parser
<1>2. h = IF p.state = "header_line_start" /\ c \in Token THEN p.headers + 1 ELSE p.headers
  BY DEF Moved
<1>3. p.headers > 0 => h > 0
  BY <1>1, <1>2
<1> HIDE DEF h
<1>4. CASE p.state = "header_line_start"
  <2>1. \/ n = <<{"cr"}, "expecting_newline_3">> \/ n = <<Token, "header_name">>
        \/ n = <<IF p.headers > 0 THEN Blank ELSE {}, "header_lws">>
    BY <1>4, HeaderMovesOf
  <2>2. i + 1 = s /\ (p.headers > 0 <=> NotFirst(t, s))
    BY <1>1, <1>4 DEF InHeader
  <2>3. CASE n = <<{"cr"}, "expecting_newline_3">>
    BY <2>2, <2>3 DEF InHeader, h
  <2>4. CASE n = <<Token, "header_name">>
    <3>1. All(t, s, i + 1, Token)
      BY <2>2, <2>4 DEF All
    <3>2. h > 0
      BY <1>1, <1>2, <1>4, <2>4
    <3>3. QED
      BY <1>1, <2>2, <2>4, <3>1, <3>2 DEF InHeader, h
  <2>5. CASE n = <<IF p.headers > 0 THEN Blank ELSE {}, "header_lws">>
    <3>1. p.headers > 0 /\ c \in Blank
      BY <2>5
    <3>2. All(t, s, i + 1, Blank)
      BY <2>2, <3>1 DEF All
    <3>3. QED
      BY <1>1, <1>3, <2>2, <2>5, <3>1, <3>2 DEF InHeader, h
  <2>6. QED
    BY <2>1, <2>3, <2>4, <2>5
<1>5. CASE p.state # "header_line_start"
  <2>1. h > 0 /\ s <= i
    BY <1>3, <1>5 DEF InHeader, HeaderStates, Newlines
  <2>2. CASE p.state = "header_name"
    <3>1. n = <<Token, "header_name">> \/ n = <<{"colon"}, "space_before_header_value">>
      BY <2>2, HeaderMovesOf
    <3>2. All(t, s, i, Token)
      BY <2>2 DEF InHeader
    <3>3. CASE n = <<Token, "header_name">>
      <4>1. All(t, s, i + 1, Token)
        BY <1>1, <3>2, <3>3, Extend
      <4>2. QED
        BY <1>1, <2>1, <3>3, <4>1 DEF InHeader, h
    <3>4. CASE n = <<{"colon"}, "space_before_header_value">>
      <4>1. (i + 1) - 1 = i /\ s < i + 1 /\ s <= i + 1 /\ t[i + 1] = "colon"
        BY <1>1, <2>1, <3>4
      <4>2. QED
        BY <2>1, <3>2, <3>4, <4>1 DEF InHeader, h
    <3>5. QED
      BY <3>1, <3>3, <3>4
  <2>3. CASE p.state = "space_before_header_value"
    <3>1. n = <<{"sp"}, "header_value">>
      BY <2>3, HeaderMovesOf
    <3>2. s < i /\ t[i] = "colon" /\ All(t, s, i - 1, Token)
      BY <2>3 DEF InHeader
    <3>3. All(t, i + 2, (i + 2) - 1, Text)
      BY <1>1 DEF All
    <3>4. HeaderAt(t, s, i + 2, i)
      BY <1>1, <3>1, <3>2, <3>3 DEF HeaderAt
    <3>5. i \in s..(i + 1)
      BY <1>1, <2>1
    <3>6. InValue(t, s, i + 1)
      BY <1>1, <3>4, <3>5 DEF InValue
    <3>7. s <= i + 1
      BY <1>1, <2>1
    <3>8. QED
      BY <2>1, <3>1, <3>6, <3>7 DEF InHeader, h
  <2>4. CASE p.state = "header_lws"
    <3>1. \/ n = <<{"cr"}, "expecting_newline_2">> \/ n = <<Blank, "header_lws">>
          \/ n = <<Text \ {"sp"}, "header_value">>
      BY <2>4, HeaderMovesOf
    <3>2. NotFirst(t, s) /\ All(t, s, i, Blank)
      BY <2>4 DEF InHeader
    <3>3. CASE n = <<Blank, "header_lws">>
      <4>1. All(t, s, i + 1, Blank)
        BY <1>1, <3>2, <3>3, Extend
      <4>2. QED
        BY <1>1, <2>1, <3>2, <3>3, <4>1 DEF InHeader, h
    <3>4. ContinuedAt(t, s, i + 1, i) /\ i \in s..(i + 1)
      <4>1. All(t, i + 1, (i + 1) - 1, Text)
        BY <1>1 DEF All
      <4>2. QED
        BY <1>1, <2>1, <3>2, <4>1 DEF ContinuedAt
    <3>5. ValueIs(t, s, i + 1)
      BY <3>2, <3>4 DEF ValueIs
    <3>6. CASE n = <<{"cr"}, "expecting_newline_2">>
      <4>1. s < i + 1 /\ s <= i + 1
        BY <1>1, <2>1
      <4>2. QED
        BY <2>1, <3>5, <3>6, <4>1 DEF InHeader, h
    <3>7. CASE n = <<Text \ {"sp"}, "header_value">>
      <4>1. InValue(t, s, i + 1)
        <5>1. ContinuedAt(t, s, (i + 1) + 1, i)
          <6>1. All(t, i + 1, ((i + 1) + 1) - 1, Text)
            BY <1>1, <3>7 DEF All
          <6>2. QED
            BY <1>1, <2>1, <3>2, <6>1 DEF ContinuedAt
        <5>2. i < i + 1 /\ i \in s..(i + 1)
          BY <1>1, <2>1
        <5>3. QED
          BY <3>2, <3>7, <5>1, <5>2 DEF InValue
      <4>2. s <= i + 1
        BY <1>1, <2>1
      <4>3. QED
        BY <2>1, <3>7, <4>1, <4>2 DEF InHeader, h
    <3>8. QED
      BY <3>1, <3>3, <3>6, <3>7
  <2>5. CASE p.state = "header_value"
    <3>1. n = <<{"cr"}, "expecting_newline_2">> \/ n = <<Text, "header_value">>
      BY <2>5, HeaderMovesOf
    <3>2. InValue(t, s, i) /\ ValueIs(t, s, i + 1)
      <4>1. InValue(t, s, i)
        BY <2>5 DEF InHeader
      <4>2. QED
        BY <1>1, <4>1, InValueIs
    <3>3. s < i + 1 /\ s <= i + 1
      BY <1>1, <2>1
    <3>4. CASE n = <<{"cr"}, "expecting_newline_2">>
      BY <2>1, <3>2, <3>3, <3>4 DEF InHeader, h
    <3>5. CASE n = <<Text, "header_value">>
      <4>1. InValue(t, s, i + 1)
        BY <1>1, <3>2, <3>5, ValueKeeps
      <4>2. QED
        BY <2>1, <3>3, <3>5, <4>1 DEF InHeader, h
    <3>6. QED
      BY <3>1, <3>4, <3>5
  <2>6. QED
    BY <1>5, <2>2, <2>3, <2>4, <2>5 DEF HeaderStates, Newlines
<1>6. QED
  BY <1>4, <1>5

-----------------------------------------------------------------------------
(* Where a line begins, and when it is good *)

LEMMA LineStart ==
  ASSUME NEW t \in Seq(Chars), NEW s \in Nat \ {0}, NEW e \in Nat, s <= e,
         s = 1 \/ s - 2 \in Cuts(t), \A c \in s..(e - 1) : c \notin Cuts(t)
  PROVE  /\ StartOf(t, e) = s /\ Before(t, e) = Before(t, s)
         /\ s = 1 <=> Before(t, e) = {}
         /\ (\A c \in Before(t, e) : Before(t, c) = {}) <=> ~NotFirst(t, s)
<1>1. Cuts(t) \subseteq Nat \ {0} /\ Len(t) \in Nat
  BY DEF Cuts
<1>2. s > 1 => s - 2 \in Cuts(t) /\ s - 1 \notin Cuts(t)
  BY <1>1 DEF Cuts
<1>3. \A c \in Cuts(t) : c < e => c <= s - 2
  <2> SUFFICES ASSUME NEW c \in Cuts(t), c < e PROVE c <= s - 2
    OBVIOUS
  <2>1. c \notin s..(e - 1) /\ c \in Nat \ {0}
    BY <1>1
  <2>2. c < s
    BY <2>1
  <2>3. CASE s = 1
    BY <2>1, <2>2, <2>3
  <2>4. CASE s > 1
    BY <1>2, <2>1, <2>2, <2>4
  <2>5. QED
    BY <2>3, <2>4
<1>4. Before(t, e) = Before(t, s)
  <2>1. \A c \in Cuts(t) : c < e <=> c < s
    BY <1>1, <1>3
  <2>2. QED
    BY <2>1 DEF Before
<1>5. s = 1 <=> Before(t, e) = {}
  <2>1. s = 1 => Before(t, e) = {}
    BY <1>1, <1>3 DEF Before
  <2>2. s > 1 => s - 2 \in Before(t, e)
    BY <1>1, <1>2 DEF Before
  <2>3. QED
    BY <2>1, <2>2
<1>6. StartOf(t, e) = s
  <2>1. CASE s = 1
    <3>1. \A c \in Cuts(t) : c >= e
      BY <1>1, <1>3, <2>1
    <3>2. QED
      BY <2>1, <3>1 DEF StartOf
  <2>2. CASE s > 1
    <3>1. ~(\A c \in Cuts(t) : c >= e)
      BY <1>1, <1>2, <2>2
    <3>2. DEFINE Last(c) == c < e /\ \A k \in Cuts(t) : k < e => k <= c
    <3>3. s - 2 \in Cuts(t) /\ Last(s - 2)
      BY <1>2, <1>3, <2>2
    <3>4. \A c \in Cuts(t) : Last(c) => c = s - 2
      BY <1>1, <3>3
    <3>5. (CHOOSE c \in Cuts(t) : Last(c)) = s - 2
      <4> HIDE DEF Last
      <4>1. QED
        BY <3>3, <3>4
    <3>6. StartOf(t, e) = 2 + (s - 2)
      BY <3>1, <3>5, Zenon DEF StartOf
    <3>7. QED
      BY <3>6
  <2>3. QED
    BY <2>1, <2>2
<1>7. (\A c \in Before(t, e) : Before(t, c) = {}) <=> ~NotFirst(t, s)
  <2>1. (\A c \in Before(t, s) : Before(t, c) = {}) <=> ~NotFirst(t, s)
    BY DEF Before, NotFirst
  <2>2. QED
    BY <1>4, <2>1
<1>8. QED
  BY <1>4, <1>5, <1>6, <1>7

LEMMA GoodLine ==
  ASSUME NEW t \in Seq(Chars), NEW s \in 1..Len(t), NEW e \in s..Len(t),
         s = 1 \/ s - 2 \in Cuts(t), \A c \in s..(e - 1) : c \notin Cuts(t)
  PROVE  /\ s = 1 => (Good(t, e) <=> \E a, b, d \in 1..(e - 1) : RequestLineAt(t, e, a, b, d))
         /\ s > 1 => (Good(t, e) <=> ValueIs(t, s, e))
<1>1. /\ StartOf(t, e) = s
      /\ s = 1 <=> Before(t, e) = {}
      /\ (\A c \in Before(t, e) : Before(t, c) = {}) <=> ~NotFirst(t, s)
  BY LineStart
<1>2. CASE s = 1
  <2>1. Good(t, e) <=> IsRequestLine(SubSeq(t, 1, e - 1))
    BY <1>1, <1>2 DEF Good, LineTo
  <2>2. e \in 1..Len(t)
    BY <1>2
  <2>3. QED
    BY <1>2, <2>1, <2>2, RequestLineOf
<1>3. CASE s > 1
  <2> DEFINE first == \A c \in Before(t, e) : Before(t, c) = {}
  <2>1. Before(t, e) # {}
    BY <1>1, <1>3
  <2>2. Good(t, e) <=> IsHeaderLine(LineTo(t, e), first)
    BY <2>1, Zenon DEF Good
  <2>3. LineTo(t, e) = SubSeq(t, s, e - 1)
    BY <1>1 DEF LineTo
  <2>4. first \in BOOLEAN /\ (first <=> ~NotFirst(t, s))
    BY <1>1
  <2> HIDE DEF first
  <2>5. QED
    BY <1>3, <2>2, <2>3, <2>4, HeaderLineOf DEF ValueIs
<1>4. QED
  BY <1>2, <1>3

\* The table: a carriage return leads to the end of the line, and nothing else does.
LEMMA MovesStay ==
  ASSUME NEW state \in States, NEW h, NEW n \in Moves(state, h), state \notin Newlines
  PROVE  /\ n[2] \in Newlines => n[1] = {"cr"}
         /\ n[2] \notin Newlines => "cr" \notin n[1]
         /\ state \in LineStates => n[2] \in LineStates
         /\ state \in HeaderStates => n[2] \in HeaderStates
<1>1. "cr" \notin Token /\ "cr" \notin Text /\ "cr" \notin Digit /\ "cr" \notin Blank
  BY Classes
<1>2. CASE state \in LineStates
  <2>1. state \notin HeaderStates
    BY <1>2 DEF LineStates, HeaderStates
  <2>2. QED
    BY <1>1, <1>2, <2>1, LineMovesOf DEF LineStates, Newlines
<1>3. CASE state \in HeaderStates
  <2>1. state \notin LineStates
    BY <1>3 DEF LineStates, HeaderStates
  <2>2. QED
    BY <1>1, <1>3, <2>1, HeaderMovesOf DEF HeaderStates, Newlines
<1>4. QED
  BY <1>2, <1>3, StateSets

-----------------------------------------------------------------------------
(* A step of the parser keeps the description *)

LEMMA SameLine ==
  ASSUME NEW t \in Seq(Chars), NEW i \in 0..(Len(t) - 1), NEW s \in 1..(i + 1),
         NEW p \in Parser, Described(t, s, i, p), p.state \notin Newlines,
         NEW n \in Moves(p.state, p.headers), t[i + 1] \in n[1]
  PROVE  Described(t, s, i + 1, Moved(p, t[i + 1], n[2]))
<1> DEFINE q == Moved(p, t[i + 1], n[2])
<1>1. i \in Nat /\ s \in Nat \ {0} /\ (i + 1) - 1 = i /\ s <= i + 1 /\ Len(t) \in Nat
  OBVIOUS
<1>2. q.state = n[2] /\ p.state \in States
  BY DEF Moved, Parser
<1>3. \A j \in s..((i + 1) - 1) : t[j] # "cr"
  <2>1. \A j \in s..(i - 1) : t[j] # "cr"
    BY DEF Described
  <2>2. s <= i => t[i] # "cr"
    BY DEF Described
  <2>3. QED
    BY <1>1, <2>1, <2>2
<1>4. /\ n[2] \in Newlines => n[1] = {"cr"}
      /\ n[2] \notin Newlines => "cr" \notin n[1]
      /\ p.state \in LineStates => n[2] \in LineStates
      /\ p.state \in HeaderStates => n[2] \in HeaderStates
  BY <1>2, MovesStay
<1>5. q.state \in Newlines <=> s <= i + 1 /\ t[i + 1] = "cr"
  BY <1>1, <1>2, <1>4
<1>6. ASSUME s = 1
      PROVE  q.state \in LineStates /\ q.headers = 0 /\ InLine(t, i + 1, q.state, q.uri)
  <2>1. p.state \in LineStates /\ p.headers = 0 /\ InLine(t, i, p.state, p.uri)
    BY <1>6 DEF Described
  <2>2. p.state # "expecting_newline_1" /\ p.state # "header_line_start"
    BY <2>1 DEF Newlines, LineStates
  <2>3. InLine(t, i + 1, n[2], q.uri)
    BY <2>1, <2>2, LineKeeps
  <2>4. q.headers = 0
    BY <2>1, <2>2 DEF Moved
  <2>5. QED
    BY <1>2, <1>4, <2>1, <2>3, <2>4
<1>7. ASSUME s > 1
      PROVE  /\ q.state \in HeaderStates /\ InHeader(t, s, i + 1, q.state, q.headers)
             /\ \E a, b \in 1..(i + 1) : Asks(t, a, b) /\ q.uri = SubSeq(t, a + 1, b - 1)
  <2>1. p.state \in HeaderStates /\ InHeader(t, s, i, p.state, p.headers)
    BY <1>7 DEF Described
  <2>2. p.state \in HeaderStates \ Newlines /\ p.state \notin {"uri", "uri_start"}
    BY <2>1 DEF HeaderStates
  <2>3. i \in 1..(Len(t) - 1) /\ s \in 2..(i + 1)
    BY <1>1, <1>7
  <2>4. InHeader(t, s, i + 1, n[2], q.headers)
    BY <2>1, <2>2, <2>3, HeaderKeeps
  <2>5. PICK a \in 1..i, b \in 1..i : Asks(t, a, b) /\ p.uri = SubSeq(t, a + 1, b - 1)
    BY <1>7 DEF Described
  <2>6. q.uri = p.uri
    BY <2>2 DEF Moved
  <2>7. a \in 1..(i + 1) /\ b \in 1..(i + 1)
    BY <1>1
  <2>8. QED
    BY <1>2, <1>4, <2>1, <2>4, <2>5, <2>6, <2>7
<1>8. Begun(t, s)
  BY DEF Described
<1> HIDE DEF q
<1>9. Described(t, s, i + 1, q)
  BY <1>3, <1>5, <1>6, <1>7, <1>8 DEF Described
<1>10. QED
  BY <1>9 DEF q

LEMMA NextLine ==
  ASSUME NEW t \in Seq(Chars), NEW i \in 0..(Len(t) - 1), NEW s \in 1..(i + 1),
         NEW p \in Parser, Described(t, s, i, p),
         p.state \in {"expecting_newline_1", "expecting_newline_2"}, t[i + 1] = "lf"
  PROVE  Described(t, i + 2, i + 1, Moved(p, "lf", "header_line_start"))
<1> DEFINE q == Moved(p, "lf", "header_line_start")
<1>1. s <= i /\ t[i] = "cr" /\ \A j \in s..(i - 1) : t[j] # "cr"
  BY DEF Described, Newlines
<1>2. i \in Cuts(t) /\ i + 1 \notin Cuts(t) /\ i \in Nat \ {0} /\ Len(t) \in Nat
  BY <1>1 DEF Cuts
<1>3. \A c \in s..(i - 1) : c \notin Cuts(t)
  BY <1>1 DEF Cuts
<1>4. Begun(t, s) /\ (s = 1 \/ s - 2 \in Cuts(t))
  BY DEF Described, Begun
<1>5. Before(t, i) = Before(t, s) /\ StartOf(t, i) = s
  BY <1>1, <1>2, <1>3, <1>4, LineStart
<1>6. s \in 1..Len(t) /\ i \in s..Len(t)
  BY <1>1, <1>2
<1>7. /\ s = 1 => (Good(t, i) <=> \E a, b, d \in 1..(i - 1) : RequestLineAt(t, i, a, b, d))
      /\ s > 1 => (Good(t, i) <=> ValueIs(t, s, i))
  BY <1>3, <1>4, <1>6, GoodLine
<1>8. /\ Good(t, i)
      /\ \E a, b \in 1..(i + 1) : Asks(t, a, b) /\ p.uri = SubSeq(t, a + 1, b - 1)
      /\ p.headers > 0 <=> s > 1
  <2>1. CASE s = 1
    <3>1. p.state = "expecting_newline_1" /\ p.headers = 0
      BY <2>1 DEF Described, LineStates
    <3>2. PICK a \in 1..i, b \in 1..i, d \in 1..i :
            RequestLineAt(t, i, a, b, d) /\ p.uri = SubSeq(t, a + 1, b - 1)
      BY <2>1, <3>1 DEF Described, InLine, LineIs
    <3>3. a \in 1..(i - 1) /\ b \in 1..(i - 1) /\ d \in 1..(i - 1) /\ Asks(t, a, b)
      BY <1>2, <3>2 DEF RequestLineAt, Asks
    <3>4. Good(t, i)
      BY <1>7, <2>1, <3>2, <3>3
    <3>5. a \in 1..(i + 1) /\ b \in 1..(i + 1)
      BY <1>2
    <3>6. QED
      BY <2>1, <3>1, <3>2, <3>3, <3>4, <3>5
  <2>2. CASE s > 1
    <3>1. p.state = "expecting_newline_2"
      BY <2>2 DEF Described, HeaderStates
    <3>2. p.headers > 0 /\ ValueIs(t, s, i)
      BY <2>2, <3>1 DEF Described, InHeader, HeaderStates
    <3>3. PICK a \in 1..i, b \in 1..i : Asks(t, a, b) /\ p.uri = SubSeq(t, a + 1, b - 1)
      BY <2>2 DEF Described
    <3>4. a \in 1..(i + 1) /\ b \in 1..(i + 1)
      BY <1>2
    <3>5. QED
      BY <1>7, <2>2, <3>2, <3>3, <3>4
  <2>3. QED
    BY <2>1, <2>2
<1>9. Begun(t, i + 2)
  <2>1. (i + 2) - 2 \in Cuts(t)
    BY <1>2
  <2>2. ASSUME NEW e \in Before(t, i + 2) PROVE Good(t, e)
    <3>1. e \in Cuts(t) /\ e < i + 2 /\ e # i + 1 /\ e \in Nat
      BY <1>2 DEF Before, Cuts
    <3>2. CASE e = i
      BY <1>8, <3>2
    <3>3. CASE e < i
      <4>1. e \in Before(t, i)
        BY <3>1, <3>3 DEF Before
      <4>2. QED
        BY <1>4, <1>5, <4>1 DEF Begun
    <3>4. QED
      BY <1>2, <3>1, <3>2, <3>3
  <2>3. QED
    BY <2>1, <2>2 DEF Begun
<1>10. p.headers > 0 <=> NotFirst(t, i + 2)
  <2>1. CASE s = 1
    <3>1. ~NotFirst(t, i + 2)
      <4> SUFFICES ASSUME NEW c \in Cuts(t), NEW k \in Cuts(t), k < c, c < i + 2 PROVE FALSE
        BY DEF NotFirst
      <4>1. c \in Nat \ {0} /\ k \in Nat \ {0} /\ c # i + 1
        BY <1>2 DEF Cuts
      <4>2. k \in s..(i - 1)
        BY <1>2, <2>1, <4>1
      <4>3. QED
        BY <1>3, <4>2
    <3>2. QED
      BY <1>8, <2>1, <3>1
  <2>2. CASE s > 1
    <3>1. s - 2 \in Cuts(t) /\ s - 2 < i /\ i < i + 2
      BY <1>1, <1>2, <1>4, <2>2
    <3>2. NotFirst(t, i + 2)
      BY <1>2, <3>1 DEF NotFirst
    <3>3. QED
      BY <1>8, <2>2, <3>2
  <2>3. QED
    BY <2>1, <2>2
<1>11. q.state = "header_line_start" /\ q.headers = p.headers /\ q.uri = p.uri
  BY DEF Moved
<1> HIDE DEF q
<1>12. InHeader(t, i + 2, i + 1, q.state, q.headers)
  <2>1. i + 1 = (i + 2) - 1
    BY <1>2
  <2>2. QED
    BY <1>10, <1>11, <2>1 DEF InHeader
<1>13. q.state \in HeaderStates /\ q.state \notin Newlines
  BY <1>11 DEF HeaderStates, Newlines
<1>14. /\ ~(i + 2 <= i + 1) /\ (i + 2)..((i + 1) - 1) = {} /\ i + 2 > 1 /\ i + 2 # 1
  BY <1>2
<1>15. Described(t, i + 2, i + 1, q)
  BY <1>8, <1>9, <1>11, <1>12, <1>13, <1>14 DEF Described
<1>16. QED
  BY <1>15 DEF q

-----------------------------------------------------------------------------
(* The characters that a state admits *)

Admits(state, h, c) == \E n \in Moves(state, h) : c \in n[1]

LEMMA Admitted ==
  ASSUME NEW state, NEW h, NEW c, NEW S, NEW y, <<S, y>> \in Moves(state, h), c \in S
  PROVE  Admits(state, h, c)
<1>1. c \in <<S, y>>[1]
  OBVIOUS
<1>2. QED
  BY <1>1 DEF Admits

LEMMA LineAdmits ==
  ASSUME NEW h, NEW c
  PROVE  /\ c \in Token => Admits("method_start", h, c)
         /\ c \in Token \/ c = "sp" => Admits("method", h, c)
         /\ c \in Text \ {"sp"} \/ c = "sp" => Admits("uri", h, c)
         /\ c = "H" => Admits("http_version_h", h, c)
         /\ c = "T" => Admits("http_version_t_1", h, c)
         /\ c = "T" => Admits("http_version_t_2", h, c)
         /\ c = "P" => Admits("http_version_p", h, c)
         /\ c = "slash" => Admits("http_version_slash", h, c)
         /\ c \in Digit => Admits("http_version_major_start", h, c)
         /\ c \in Digit \/ c = "dot" => Admits("http_version_major", h, c)
         /\ c \in Digit => Admits("http_version_minor_start", h, c)
         /\ c \in Digit \/ c = "cr" => Admits("http_version_minor", h, c)
         /\ c = "lf" => Admits("expecting_newline_1", h, c)
<1>1. c \in Token => Admits("method_start", h, c)
  <2>1. /\ <<Token, "method">> \in Moves("method_start", h)
    BY LineMovesOf
  <2>2. QED
    BY <2>1, Admitted
<1>2. c \in Token \/ c = "sp" => Admits("method", h, c)
  <2>1. /\ <<Token, "method">> \in Moves("method", h)
        /\ <<{"sp"}, "uri">> \in Moves("method", h)
    BY LineMovesOf
  <2>2. QED
    BY <2>1, Admitted
<1>3. c \in Text \ {"sp"} \/ c = "sp" => Admits("uri", h, c)
  <2>1. /\ <<Text \ {"sp"}, "uri">> \in Moves("uri", h)
        /\ <<{"sp"}, "http_version_h">> \in Moves("uri", h)
    BY LineMovesOf
  <2>2. QED
    BY <2>1, Admitted
<1>4. c = "H" => Admits("http_version_h", h, c)
  <2>1. /\ <<{"H"}, "http_version_t_1">> \in Moves("http_version_h", h)
    BY LineMovesOf
  <2>2. QED
    BY <2>1, Admitted
<1>5. c = "T" => Admits("http_version_t_1", h, c)
  <2>1. /\ <<{"T"}, "http_version_t_2">> \in Moves("http_version_t_1", h)
    BY LineMovesOf
  <2>2. QED
    BY <2>1, Admitted
<1>6. c = "T" => Admits("http_version_t_2", h, c)
  <2>1. /\ <<{"T"}, "http_version_p">> \in Moves("http_version_t_2", h)
    BY LineMovesOf
  <2>2. QED
    BY <2>1, Admitted
<1>7. c = "P" => Admits("http_version_p", h, c)
  <2>1. /\ <<{"P"}, "http_version_slash">> \in Moves("http_version_p", h)
    BY LineMovesOf
  <2>2. QED
    BY <2>1, Admitted
<1>8. c = "slash" => Admits("http_version_slash", h, c)
  <2>1. /\ <<{"slash"}, "http_version_major_start">> \in Moves("http_version_slash", h)
    BY LineMovesOf
  <2>2. QED
    BY <2>1, Admitted
<1>9. c \in Digit => Admits("http_version_major_start", h, c)
  <2>1. /\ <<Digit, "http_version_major">> \in Moves("http_version_major_start", h)
    BY LineMovesOf
  <2>2. QED
    BY <2>1, Admitted
<1>10. c \in Digit \/ c = "dot" => Admits("http_version_major", h, c)
  <2>1. /\ <<Digit, "http_version_major">> \in Moves("http_version_major", h)
        /\ <<{"dot"}, "http_version_minor_start">> \in Moves("http_version_major", h)
    BY LineMovesOf
  <2>2. QED
    BY <2>1, Admitted
<1>11. c \in Digit => Admits("http_version_minor_start", h, c)
  <2>1. /\ <<Digit, "http_version_minor">> \in Moves("http_version_minor_start", h)
    BY LineMovesOf
  <2>2. QED
    BY <2>1, Admitted
<1>12. c \in Digit \/ c = "cr" => Admits("http_version_minor", h, c)
  <2>1. /\ <<Digit, "http_version_minor">> \in Moves("http_version_minor", h)
        /\ <<{"cr"}, "expecting_newline_1">> \in Moves("http_version_minor", h)
    BY LineMovesOf
  <2>2. QED
    BY <2>1, Admitted
<1>13. c = "lf" => Admits("expecting_newline_1", h, c)
  <2>1. /\ <<{"lf"}, "header_line_start">> \in Moves("expecting_newline_1", h)
    BY LineMovesOf
  <2>2. QED
    BY <2>1, Admitted
<1>14. QED
  BY <1>1, <1>2, <1>3, <1>4, <1>5, <1>6, <1>7, <1>8, <1>9, <1>10, <1>11, <1>12, <1>13

LEMMA HeaderAdmits ==
  ASSUME NEW h, NEW c
  PROVE  /\ c = "cr" \/ c \in Token => Admits("header_line_start", h, c)
         /\ c = "cr" \/ c \in Blank \/ c \in Text \ {"sp"} => Admits("header_lws", h, c)
         /\ c \in Token \/ c = "colon" => Admits("header_name", h, c)
         /\ c = "sp" => Admits("space_before_header_value", h, c)
         /\ c = "cr" \/ c \in Text => Admits("header_value", h, c)
         /\ c = "lf" => Admits("expecting_newline_2", h, c)
         /\ c = "lf" => Admits("expecting_newline_3", h, c)
         /\ h > 0 /\ c \in Blank => Admits("header_line_start", h, c)
<1>1. c = "cr" \/ c \in Token => Admits("header_line_start", h, c)
  <2>1. /\ <<{"cr"}, "expecting_newline_3">> \in Moves("header_line_start", h)
        /\ <<Token, "header_name">> \in Moves("header_line_start", h)
    BY HeaderMovesOf
  <2>2. QED
    BY <2>1, Admitted
<1>2. c = "cr" \/ c \in Blank \/ c \in Text \ {"sp"} => Admits("header_lws", h, c)
  <2>1. /\ <<{"cr"}, "expecting_newline_2">> \in Moves("header_lws", h)
        /\ <<Blank, "header_lws">> \in Moves("header_lws", h)
        /\ <<Text \ {"sp"}, "header_value">> \in Moves("header_lws", h)
    BY HeaderMovesOf
  <2>2. QED
    BY <2>1, Admitted
<1>3. c \in Token \/ c = "colon" => Admits("header_name", h, c)
  <2>1. /\ <<Token, "header_name">> \in Moves("header_name", h)
        /\ <<{"colon"}, "space_before_header_value">> \in Moves("header_name", h)
    BY HeaderMovesOf
  <2>2. QED
    BY <2>1, Admitted
<1>4. c = "sp" => Admits("space_before_header_value", h, c)
  <2>1. /\ <<{"sp"}, "header_value">> \in Moves("space_before_header_value", h)
    BY HeaderMovesOf
  <2>2. QED
    BY <2>1, Admitted
<1>5. c = "cr" \/ c \in Text => Admits("header_value", h, c)
  <2>1. /\ <<{"cr"}, "expecting_newline_2">> \in Moves("header_value", h)
        /\ <<Text, "header_value">> \in Moves("header_value", h)
    BY HeaderMovesOf
  <2>2. QED
    BY <2>1, Admitted
<1>6. c = "lf" => Admits("expecting_newline_2", h, c)
  <2>1. /\ <<{"lf"}, "header_line_start">> \in Moves("expecting_newline_2", h)
    BY HeaderMovesOf
  <2>2. QED
    BY <2>1, Admitted
<1>7. c = "lf" => Admits("expecting_newline_3", h, c)
  <2>1. /\ <<{"lf"}, "complete">> \in Moves("expecting_newline_3", h)
    BY HeaderMovesOf
  <2>2. QED
    BY <2>1, Admitted
<1>8. h > 0 /\ c \in Blank => Admits("header_line_start", h, c)
  <2>1. h > 0 => <<Blank, "header_lws">> \in Moves("header_line_start", h)
    BY HeaderMovesOf
  <2>2. QED
    BY <2>1, Admitted
<1>9. QED
  BY <1>1, <1>2, <1>3, <1>4, <1>5, <1>6, <1>7, <1>8

-----------------------------------------------------------------------------
(* The end of a request *)

\* The uri is between the first two spaces.
LEMMA UriBetween ==
  ASSUME NEW t \in Seq(Chars), NEW a \in 1..Len(t), NEW b \in 1..Len(t), Asks(t, a, b)
  PROVE  UriOf(t) = SubSeq(t, a + 1, b - 1)
<1> DEFINE Is(from, j) == t[j] = "sp" /\ All(t, from, j - 1, Chars \ {"sp"})
           First(from) == CHOOSE j \in from..Len(t) : Is(from, j)
<1>1. /\ 1 < a /\ a < b /\ t[a] = "sp" /\ t[b] = "sp"
      /\ All(t, 1, a - 1, Token) /\ All(t, a + 1, b - 1, Text \ {"sp"})
  BY DEF Asks
<1>2. Token \subseteq Chars \ {"sp"} /\ Text \ {"sp"} \subseteq Chars \ {"sp"}
  BY Classes
<1>3. Is(1, a) /\ Is(a + 1, b)
  BY <1>1, <1>2 DEF All
<1>4. ASSUME NEW from \in Nat, NEW j \in from..Len(t), NEW k \in from..Len(t),
             Is(from, j), Is(from, k)
      PROVE  j = k
  <2>1. j < k => t[j] \in Chars \ {"sp"}
    BY <1>4 DEF All
  <2>2. k < j => t[k] \in Chars \ {"sp"}
    BY <1>4 DEF All
  <2>3. QED
    BY <1>4, <2>1, <2>2
<1>5. a \in 1..Len(t) /\ b \in (a + 1)..Len(t) /\ a + 1 \in Nat
  BY <1>1
<1> HIDE DEF Is
<1>6. First(1) = a
  BY <1>3, <1>4, <1>5
<1>7. First(a + 1) = b
  BY <1>3, <1>4, <1>5
<1>8. UriOf(t) = SubSeq(t, First(1) + 1, First(First(1) + 1) - 1)
  BY DEF UriOf, Is
<1> HIDE DEF First
<1>9. QED
  BY <1>6, <1>7, <1>8

\* What the parser accepts is a request.
LEMMA Sound ==
  ASSUME NEW t \in Seq(Chars), NEW i \in 0..(Len(t) - 1), NEW s \in 1..(i + 1), NEW p \in Parser,
         Described(t, s, i, p), p.state = "expecting_newline_3", t[i + 1] = "lf"
  PROVE  IsRequest(t) /\ p.uri = UriOf(t)
<1>1. s > 1 /\ i = s
  <2>1. p.state \notin LineStates
    BY DEF LineStates
  <2>2. s > 1
    BY <2>1 DEF Described
  <2>3. QED
    BY <2>2 DEF Described, InHeader
<1>2. t[s] = "cr" /\ t[s + 1] = "lf"
  BY <1>1 DEF Described, Newlines
<1>3. s \in Cuts(t) /\ s \in 1..Len(t) /\ s \in Nat \ {0}
  BY <1>1, <1>2 DEF Cuts
<1>4. Begun(t, s) /\ (s = 1 \/ s - 2 \in Cuts(t))
  BY DEF Described, Begun
<1>5. \A c \in s..(s - 1) : c \notin Cuts(t)
  BY <1>3
<1>6. StartOf(t, s) = s /\ Before(t, s) # {}
  BY <1>1, <1>3, <1>4, <1>5, LineStart
<1>7. LineTo(t, s) = <<>>
  <2>1. SubSeq(t, s, s - 1) = <<>>
    BY <1>3, SubSeqEmpty
  <2>2. QED
    BY <1>6, <2>1 DEF LineTo
<1>8. IsRequest(t)
  BY <1>3, <1>4, <1>6, <1>7, RequestLines DEF Begun
<1>9. PICK a \in 1..i, b \in 1..i : Asks(t, a, b) /\ p.uri = SubSeq(t, a + 1, b - 1)
  BY <1>1 DEF Described
<1>10. a \in 1..Len(t) /\ b \in 1..Len(t)
  OBVIOUS
<1>11. QED
  BY <1>8, <1>9, <1>10, UriBetween

\* The request line before e goes on with a character that the state admits.
LEMMA SameSpaces ==
  ASSUME NEW t, NEW a \in Nat, NEW b \in Nat, Asks(t, a, b),
         NEW x \in Nat, 1 < x, t[x] = "sp", All(t, 1, x - 1, Token)
  PROVE  /\ x = a
         /\ \A y \in Nat : Asks(t, x, y) => y = b
<1>1. "sp" \notin Token
  BY Classes
<1>2. /\ 1 < a /\ a < b /\ t[a] = "sp" /\ t[b] = "sp"
      /\ All(t, 1, a - 1, Token) /\ All(t, a + 1, b - 1, Text \ {"sp"})
  BY DEF Asks
<1>3. x = a
  <2>1. x < a => t[x] \in Token
    BY <1>2 DEF All
  <2>2. a < x => t[a] \in Token
    BY <1>2 DEF All
  <2>3. QED
    BY <1>1, <1>2, <2>1, <2>2
<1>4. ASSUME NEW y \in Nat, Asks(t, a, y) PROVE y = b
  <2>1. a < y /\ t[y] = "sp" /\ All(t, a + 1, y - 1, Text \ {"sp"})
    BY <1>4 DEF Asks
  <2>2. y < b => t[y] \in Text \ {"sp"}
    BY <1>2, <2>1 DEF All
  <2>3. b < y => t[b] \in Text \ {"sp"}
    BY <1>2, <2>1 DEF All
  <2>4. QED
    BY <1>2, <2>1, <2>2, <2>3
<1>5. QED
  BY <1>3, <1>4

LEMMA VersionAccepts ==
  ASSUME NEW t, NEW e \in Nat, NEW i \in 0..(e - 1), NEW a \in 1..i, NEW b \in 1..i,
         NEW d \in Nat, NEW state, NEW h,
         RequestLineAt(t, e, a, b, d), t[e] = "cr", Version(t, b, i, state),
         state \in {"http_version_h", "http_version_t_1", "http_version_t_2", "http_version_p",
                    "http_version_slash", "http_version_major_start", "http_version_major",
                    "http_version_minor_start", "http_version_minor"}
  PROVE  Admits(state, h, t[i + 1])
<1>1. /\ t[b + 1] = "H" /\ t[b + 2] = "T" /\ t[b + 3] = "T" /\ t[b + 4] = "P" /\ t[b + 5] = "slash"
      /\ b + 6 < d /\ d < e - 1 /\ t[d] = "dot"
  BY DEF RequestLineAt, Http
<1>2. (\A k \in (b + 6)..(d - 1) : t[k] \in Digit) /\ \A k \in (d + 1)..(e - 1) : t[k] \in Digit
  BY DEF RequestLineAt, All
<1>3. "dot" \notin Digit
  BY Classes
<1>4. CASE state \in {"http_version_h", "http_version_t_1", "http_version_t_2",
                      "http_version_p", "http_version_slash"}
  <2>1. \/ state = "http_version_h" /\ t[i + 1] = "H"
        \/ state = "http_version_t_1" /\ t[i + 1] = "T"
        \/ state = "http_version_t_2" /\ t[i + 1] = "T"
        \/ state = "http_version_p" /\ t[i + 1] = "P"
        \/ state = "http_version_slash" /\ t[i + 1] = "slash"
    BY <1>1, <1>4 DEF Version
  <2>2. QED
    BY <2>1, LineAdmits
<1>5. CASE state = "http_version_major_start"
  <2>1. t[i + 1] \in Digit
    BY <1>1, <1>2, <1>5 DEF Version
  <2>2. QED
    BY <1>5, <2>1, LineAdmits
<1>6. CASE state = "http_version_major"
  <2>1. b + 6 <= i /\ \A k \in (b + 6)..i : t[k] \in Digit
    BY <1>6 DEF Version, All
  <2>2. i < d
    BY <1>1, <1>3, <2>1
  <2>3. t[i + 1] \in Digit \/ t[i + 1] = "dot"
    BY <1>1, <1>2, <2>1, <2>2
  <2>4. QED
    BY <1>6, <2>3, LineAdmits
<1>7. CASE state = "http_version_minor_start"
  <2>1. b + 6 < i /\ t[i] = "dot" /\ \A k \in (b + 6)..(i - 1) : t[k] \in Digit
    BY <1>7 DEF Version, All
  <2>2. i = d
    BY <1>1, <1>2, <1>3, <2>1
  <2>3. t[i + 1] \in Digit
    BY <1>1, <1>2, <2>2
  <2>4. QED
    BY <1>7, <2>3, LineAdmits
<1>8. CASE state = "http_version_minor"
  <2>1. PICK x \in 1..i : /\ b + 6 < x /\ x < i /\ t[x] = "dot"
                          /\ \A k \in (b + 6)..(x - 1) : t[k] \in Digit
    BY <1>8 DEF Version, All
  <2>2. x = d
    BY <1>1, <1>2, <1>3, <2>1
  <2>3. t[i + 1] \in Digit \/ t[i + 1] = "cr"
    BY <1>1, <1>2, <2>1, <2>2
  <2>4. QED
    BY <1>8, <2>3, LineAdmits
<1>9. QED
  BY <1>4, <1>5, <1>6, <1>7, <1>8

LEMMA LineAccepts ==
  ASSUME NEW t, NEW e \in Nat, NEW i \in 0..(e - 1), NEW a \in Nat, NEW b \in Nat, NEW d \in Nat,
         RequestLineAt(t, e, a, b, d), t[e] = "cr", NEW state, NEW h, NEW u,
         state \in LineStates, state # "expecting_newline_1", InLine(t, i, state, u)
  PROVE  Admits(state, h, t[i + 1])
<1>1. /\ 1 < a /\ a < b /\ t[a] = "sp" /\ t[b] = "sp" /\ Asks(t, a, b)
      /\ \A k \in 1..(a - 1) : t[k] \in Token
      /\ \A k \in (a + 1)..(b - 1) : t[k] \in Text \ {"sp"}
  BY DEF RequestLineAt, Asks, All
<1>2. "sp" \notin Token
  BY Classes
<1>3. CASE state = "method_start"
  <2>1. t[i + 1] \in Token
    BY <1>1, <1>3 DEF InLine
  <2>2. QED
    BY <1>3, <2>1, LineAdmits
<1>4. CASE state = "method"
  <2>1. 1 <= i /\ \A k \in 1..i : t[k] \in Token
    BY <1>4 DEF InLine, All
  <2>2. i < a
    BY <1>1, <1>2, <2>1
  <2>3. t[i + 1] \in Token \/ t[i + 1] = "sp"
    BY <1>1, <2>1, <2>2
  <2>4. QED
    BY <1>4, <2>3, LineAdmits
<1>5. CASE state = "uri"
  <2>1. PICK x \in 2..i : /\ t[x] = "sp" /\ All(t, 1, x - 1, Token)
                          /\ All(t, x + 1, i, Text \ {"sp"})
    BY <1>5 DEF InLine, UriIs
  <2>2. x = a
    BY <1>1, <2>1, SameSpaces
  <2>3. i < b
    BY <1>1, <2>1, <2>2 DEF All
  <2>4. t[i + 1] \in Text \ {"sp"} \/ t[i + 1] = "sp"
    BY <1>1, <2>2, <2>3
  <2>5. QED
    BY <1>5, <2>4, LineAdmits
<1>6. CASE state \notin {"method_start", "method", "uri"}
  <2>1. PICK x \in 1..i, y \in 1..i : Asks(t, x, y) /\ Version(t, y, i, state)
    BY <1>6 DEF InLine, VersionIs
  <2>2. x = a
    <3>1. 1 < x /\ t[x] = "sp" /\ All(t, 1, x - 1, Token)
      BY <2>1 DEF Asks
    <3>2. QED
      BY <1>1, <3>1, SameSpaces
  <2>3. y = b
    <3>1. 1 < a /\ t[a] = "sp" /\ All(t, 1, a - 1, Token) /\ Asks(t, a, y)
      BY <1>1, <2>1, <2>2 DEF Asks
    <3>2. QED
      BY <1>1, <3>1, SameSpaces
  <2>4. state \in {"http_version_h", "http_version_t_1", "http_version_t_2", "http_version_p",
                   "http_version_slash", "http_version_major_start", "http_version_major",
                   "http_version_minor_start", "http_version_minor"}
    BY <1>6 DEF LineStates, InLine
  <2>5. a \in 1..i /\ b \in 1..i
    BY <2>2, <2>3
  <2>6. QED
    BY <2>1, <2>3, <2>4, <2>5, VersionAccepts
<1>7. QED
  BY <1>3, <1>4, <1>5, <1>6

\* The same of a header line.
LEMMA HeaderAccepts ==
  ASSUME NEW t, NEW s \in Nat \ {0}, NEW e \in Nat, NEW i \in (s - 1)..(e - 1),
         ValueIs(t, s, e), t[e] = "cr", NEW state, NEW h \in Nat,
         state \in HeaderStates \ Newlines, InHeader(t, s, i, state, h)
  PROVE  Admits(state, h, t[i + 1])
<1>1. Token \cap Blank = {} /\ "colon" \notin Token /\ "sp" \in Blank
      /\ (Text \ {"sp"}) \cap Blank = {}
  BY Classes
<1>2. ASSUME NEW c \in s..e, HeaderAt(t, s, e, c)
      PROVE  /\ s < c /\ c + 1 < e /\ t[c] = "colon" /\ t[c + 1] = "sp"
             /\ \A k \in s..(c - 1) : t[k] \in Token
             /\ \A k \in (c + 2)..(e - 1) : t[k] \in Text
  BY <1>2 DEF HeaderAt, All
<1>3. ASSUME NEW k \in s..e, ContinuedAt(t, s, e, k)
      PROVE  /\ s <= k /\ k < e /\ t[s] \in Blank
             /\ \A j \in s..k : t[j] \in Blank
             /\ \A j \in (k + 1)..(e - 1) : t[j] \in Text
  BY <1>3 DEF ContinuedAt, All
<1>4. CASE state = "header_line_start"
  <2>1. i + 1 = s /\ (h > 0 <=> NotFirst(t, s))
    BY <1>4 DEF InHeader
  <2>2. ASSUME NEW c \in s..e, HeaderAt(t, s, e, c) PROVE t[i + 1] \in Token
    BY <1>2, <2>1, <2>2
  <2>3. ASSUME NEW k \in s..e, ContinuedAt(t, s, e, k) PROVE t[i + 1] \in Blank
    BY <1>3, <2>1, <2>3
  <2>4. t[i + 1] \in Token \/ (h > 0 /\ t[i + 1] \in Blank)
    BY <2>1, <2>2, <2>3 DEF ValueIs
  <2>5. QED
    BY <1>4, <2>4, HeaderAdmits
<1>5. CASE state = "header_name"
  <2>1. s <= i /\ \A k \in s..i : t[k] \in Token
    BY <1>5 DEF InHeader, HeaderStates, All
  <2>2. t[s] \in Token
    BY <2>1
  <2>3. ~\E k \in s..e : ContinuedAt(t, s, e, k)
    BY <1>1, <1>3, <2>2
  <2>4. PICK c \in s..e : HeaderAt(t, s, e, c)
    BY <2>3 DEF ValueIs
  <2>5. i < c
    BY <1>1, <1>2, <2>1, <2>4
  <2>6. t[i + 1] \in Token \/ t[i + 1] = "colon"
    BY <1>2, <2>1, <2>4, <2>5
  <2>7. QED
    BY <1>5, <2>6, HeaderAdmits
<1>6. CASE state = "space_before_header_value"
  <2>1. s < i /\ t[i] = "colon" /\ \A k \in s..(i - 1) : t[k] \in Token
    BY <1>6 DEF InHeader, All
  <2>2. t[s] \in Token
    BY <2>1
  <2>3. ~\E k \in s..e : ContinuedAt(t, s, e, k)
    BY <1>1, <1>3, <2>2
  <2>4. PICK c \in s..e : HeaderAt(t, s, e, c)
    BY <2>3 DEF ValueIs
  <2>5. c = i
    BY <1>1, <1>2, <2>1, <2>4
  <2>6. t[i + 1] = "sp"
    BY <1>2, <2>4, <2>5
  <2>7. QED
    BY <1>6, <2>6, HeaderAdmits
<1>7. CASE state = "header_lws"
  <2>1. s <= i /\ \A k \in s..i : t[k] \in Blank
    BY <1>7 DEF InHeader, HeaderStates, Newlines, All
  <2>2. t[s] \in Blank
    BY <2>1
  <2>3. ASSUME NEW c \in s..e, HeaderAt(t, s, e, c) PROVE FALSE
    <3>1. t[s] \in Token
      BY <1>2, <2>3
    <3>2. QED
      BY <1>1, <2>2, <3>1
  <2>4. PICK k \in s..e : ContinuedAt(t, s, e, k)
    BY <2>3 DEF ValueIs
  <2>5. t[i + 1] = "cr" \/ t[i + 1] \in Blank \/ t[i + 1] \in Text \ {"sp"}
    <3>1. CASE i + 1 = e
      BY <3>1
    <3>2. CASE i + 1 < e
      <4>1. t[i + 1] \in Blank \/ t[i + 1] \in Text
        BY <1>3, <2>1, <2>4, <3>2
      <4>2. QED
        BY <1>1, <4>1
    <3>3. QED
      BY <3>1, <3>2
  <2>6. QED
    BY <1>7, <2>5, HeaderAdmits
<1>8. CASE state = "header_value"
  <2>1. InValue(t, s, i)
    BY <1>8 DEF InHeader
  <2>2. CASE \E c \in s..i : HeaderAt(t, s, i + 1, c)
    <3>1. PICK x \in s..i : HeaderAt(t, s, i + 1, x)
      BY <2>2
    <3>2. /\ s < x /\ x + 1 <= i /\ t[x] = "colon" /\ \A k \in s..(x - 1) : t[k] \in Token
      BY <3>1 DEF HeaderAt, All
    <3>3. t[s] \in Token
      BY <3>2
    <3>4. ~\E k \in s..e : ContinuedAt(t, s, e, k)
      BY <1>1, <1>3, <3>3
    <3>5. PICK c \in s..e : HeaderAt(t, s, e, c)
      BY <3>4 DEF ValueIs
    <3>6. c = x
      BY <1>1, <1>2, <3>2, <3>5
    <3>7. t[i + 1] \in Text \/ t[i + 1] = "cr"
      BY <1>2, <3>2, <3>5, <3>6
    <3>8. QED
      BY <1>8, <3>7, HeaderAdmits
  <2>3. CASE \E k \in s..i : /\ k < i /\ t[k + 1] \in Text \ {"sp"}
                             /\ ContinuedAt(t, s, i + 1, k)
    <3>1. PICK x \in s..i : x < i /\ t[x + 1] \in Text \ {"sp"} /\ ContinuedAt(t, s, i + 1, x)
      BY <2>3
    <3>2. t[s] \in Blank
      BY <3>1 DEF ContinuedAt, All
    <3>3. ASSUME NEW c \in s..e, HeaderAt(t, s, e, c) PROVE FALSE
      <4>1. t[s] \in Token
        BY <1>2, <3>3
      <4>2. QED
        BY <1>1, <3>2, <4>1
    <3>4. PICK k \in s..e : ContinuedAt(t, s, e, k)
      BY <3>3 DEF ValueIs
    <3>5. k < x + 1
      <4>1. t[x + 1] \notin Blank
        BY <1>1, <3>1
      <4>2. QED
        BY <1>3, <3>1, <3>4, <4>1
    <3>6. t[i + 1] \in Text \/ t[i + 1] = "cr"
      BY <1>3, <3>1, <3>4, <3>5
    <3>7. QED
      BY <1>8, <3>6, HeaderAdmits
  <2>4. QED
    BY <2>1, <2>2, <2>3 DEF InValue
<1>9. QED
  BY <1>4, <1>5, <1>6, <1>7, <1>8 DEF HeaderStates, Newlines

\* A good line has no carriage return in it.
LEMMA NoReturn ==
  ASSUME NEW t, NEW s \in Nat \ {0}, NEW e \in Nat, NEW j \in s..(e - 1), t[j] = "cr"
  PROVE  /\ s = 1 => ~\E a, b, d \in 1..(e - 1) : RequestLineAt(t, e, a, b, d)
         /\ ~ValueIs(t, s, e)
<1>1. /\ "cr" \notin Text /\ "cr" \notin Blank /\ "cr" \notin Token /\ "cr" \notin Digit
  BY Classes
<1>2. ASSUME s = 1, NEW a \in 1..(e - 1), NEW b \in 1..(e - 1), NEW d \in 1..(e - 1),
             RequestLineAt(t, e, a, b, d)
      PROVE  FALSE
  <2>1. /\ 1 < a /\ a < b /\ t[a] = "sp" /\ t[b] = "sp"
        /\ \A k \in 1..(a - 1) : t[k] \in Token
        /\ \A k \in (a + 1)..(b - 1) : t[k] \in Text
    BY <1>2 DEF RequestLineAt, Asks, All
  <2>2. /\ b + 6 < d /\ d < e - 1 /\ t[d] = "dot"
        /\ \A k \in (b + 6)..(d - 1) : t[k] \in Digit
        /\ \A k \in (d + 1)..(e - 1) : t[k] \in Digit
    BY <1>2 DEF RequestLineAt, All
  <2>3. /\ t[b + 1] = "H" /\ t[b + 2] = "T" /\ t[b + 3] = "T" /\ t[b + 4] = "P"
        /\ t[b + 5] = "slash"
    BY <1>2 DEF RequestLineAt, Http
  <2>4. j > b
    BY <1>1, <1>2, <2>1
  <2>5. j > b + 5
    BY <2>3, <2>4
  <2>6. QED
    BY <1>1, <2>2, <2>5
<1>3. ASSUME NEW c \in s..e, HeaderAt(t, s, e, c) PROVE FALSE
  <2>1. /\ s < c /\ c + 1 < e /\ t[c] = "colon" /\ t[c + 1] = "sp"
        /\ \A k \in s..(c - 1) : t[k] \in Token
        /\ \A k \in (c + 2)..(e - 1) : t[k] \in Text
    BY <1>3 DEF HeaderAt, All
  <2>2. QED
    BY <1>1, <2>1
<1>4. ASSUME NEW k \in s..e, ContinuedAt(t, s, e, k) PROVE FALSE
  <2>1. /\ \A n \in s..k : t[n] \in Blank
        /\ \A n \in (k + 1)..(e - 1) : t[n] \in Text
    BY <1>4 DEF ContinuedAt, All
  <2>2. QED
    BY <1>1, <2>1
<1>5. QED
  BY <1>2, <1>3, <1>4 DEF ValueIs

\* If a request is there, the current line ends in it: the line is good, or it is the
\* empty one that ends the request.
LEMMA CurrentLine ==
  ASSUME NEW t \in Seq(Chars), NEW s \in Nat \ {0}, Begun(t, s), IsRequest(t)
  PROVE  \E e \in Cuts(t) : /\ s <= e /\ \A c \in s..(e - 1) : c \notin Cuts(t)
                            /\ Good(t, e) \/ (s > 1 /\ e = s)
<1>1. PICK end \in Cuts(t) : /\ Before(t, end) # {} /\ LineTo(t, end) = <<>>
                             /\ \A e \in Before(t, end) : Good(t, e)
  BY RequestLines
<1>2. Cuts(t) \subseteq 1..Len(t) /\ Cuts(t) \subseteq Nat \ {0} /\ Len(t) \in Nat
  BY DEF Cuts
<1>3. ~Good(t, end)
  <2> DEFINE first == \A c \in Before(t, end) : Before(t, c) = {}
  <2>1. Good(t, end) => IsHeaderLine(<<>>, first)
    BY <1>1, Zenon DEF Good
  <2>2. Len(<<>>) = 0
    OBVIOUS
  <2> HIDE DEF first
  <2>3. ~IsHeaderLine(<<>>, first)
    BY <2>2 DEF IsHeaderLine
  <2>4. QED
    BY <2>1, <2>3
<1>4. s <= end
  <2>1. ~(end < s)
    BY <1>3 DEF Begun, Before
  <2>2. QED
    BY <1>2, <2>1
<1>5. PICK e \in {c \in Cuts(t) : s <= c} : \A c \in {k \in Cuts(t) : s <= k} : e <= c
  <2>1. {c \in Cuts(t) : s <= c} \in SUBSET Nat /\ {c \in Cuts(t) : s <= c} # {}
    BY <1>2, <1>4
  <2>2. QED
    BY <2>1, LeastElement
<1>6. e \in Cuts(t) /\ s <= e /\ e <= end /\ \A c \in s..(e - 1) : c \notin Cuts(t)
  BY <1>2, <1>4, <1>5
<1>7. CASE e < end
  <2>1. Good(t, e)
    BY <1>1, <1>6, <1>7 DEF Before
  <2>2. QED
    BY <1>6, <2>1
<1>8. CASE e = end
  <2>1. StartOf(t, e) = s /\ (s = 1 <=> Before(t, e) = {})
    BY <1>2, <1>6, LineStart DEF Begun
  <2>2. s > 1 /\ SubSeq(t, s, e - 1) = <<>>
    BY <1>1, <1>8, <2>1 DEF LineTo
  <2>3. s \in 1..(Len(t) + 1) /\ e \in s..(Len(t) + 1)
    BY <1>2, <1>6
  <2>4. Len(SubSeq(t, s, e - 1)) = e - s
    BY <2>3, PartOf
  <2>5. Len(SubSeq(t, s, e - 1)) = 0
    <3>1. Len(<<>>) = 0
      OBVIOUS
    <3>2. QED
      BY <2>2, <3>1, Zenon
  <2>6. e = s
    BY <1>2, <2>4, <2>5
  <2>7. QED
    BY <1>6, <2>2, <2>6
<1>9. QED
  BY <1>2, <1>6, <1>7, <1>8

\* A request that is there does not end here, nor does the state refuse how it goes on.
LEMMA Accepts ==
  ASSUME NEW t \in Seq(Chars), NEW i \in 0..Len(t), NEW s \in 1..(i + 1), NEW p \in Parser,
         Described(t, s, i, p), IsRequest(t)
  PROVE  i < Len(t) /\ Admits(p.state, p.headers, t[i + 1])
<1>1. i \in Nat /\ s \in Nat \ {0} /\ s <= i + 1 /\ Len(t) \in Nat /\ p.headers \in Nat
      /\ p.state \in LineStates \cup HeaderStates
  BY StateSets DEF Parser
<1>2. Begun(t, s) /\ (s = 1 \/ s - 2 \in Cuts(t))
  BY DEF Described, Begun
<1>3. PICK e \in Cuts(t) : /\ s <= e /\ \A c \in s..(e - 1) : c \notin Cuts(t)
                           /\ Good(t, e) \/ (s > 1 /\ e = s)
  BY <1>1, <1>2, CurrentLine
<1>4. e \in Nat \ {0} /\ e + 1 <= Len(t) /\ t[e] = "cr" /\ t[e + 1] = "lf"
  BY <1>1 DEF Cuts
<1>5. s \in 1..Len(t) /\ e \in s..Len(t)
  BY <1>1, <1>3, <1>4
<1>6. /\ s = 1 => (Good(t, e) <=> \E a, b, d \in 1..(e - 1) : RequestLineAt(t, e, a, b, d))
      /\ s > 1 => (Good(t, e) <=> ValueIs(t, s, e))
  BY <1>2, <1>3, <1>5, GoodLine
<1>7. i <= e
  BY <1>1, <1>3, <1>4 DEF Described
<1>8. p.state \in Newlines <=> s <= i /\ t[i] = "cr"
  BY DEF Described
<1>9. CASE p.state \in Newlines
  <2>1. i = e
    <3> SUFFICES ASSUME i < e PROVE FALSE
      BY <1>1, <1>4, <1>7
    <3>1. i \in s..(e - 1) /\ t[i] = "cr" /\ e # s
      BY <1>1, <1>4, <1>8, <1>9
    <3>2. /\ s = 1 => ~\E a, b, d \in 1..(e - 1) : RequestLineAt(t, e, a, b, d)
          /\ ~ValueIs(t, s, e)
      BY <1>1, <1>4, <3>1, NoReturn
    <3>3. QED
      BY <1>1, <1>3, <1>6, <3>1, <3>2
  <2>2. t[i + 1] = "lf" /\ i < Len(t)
    BY <1>1, <1>4, <2>1
  <2>3. QED
    BY <1>9, <2>2, LineAdmits, HeaderAdmits DEF Newlines
<1>10. CASE p.state \notin Newlines
  <2>1. i < e
    BY <1>1, <1>3, <1>4, <1>7, <1>8, <1>10
  <2>2. i < Len(t)
    BY <1>1, <1>4, <2>1
  <2>3. CASE s = 1
    <3>1. p.state \in LineStates /\ InLine(t, i, p.state, p.uri)
      BY <2>3 DEF Described
    <3>2. PICK a \in 1..(e - 1), b \in 1..(e - 1), d \in 1..(e - 1) : RequestLineAt(t, e, a, b, d)
      BY <1>3, <1>6, <2>3
    <3>3. i \in 0..(e - 1) /\ a \in Nat /\ b \in Nat /\ d \in Nat
      BY <1>1, <1>4, <2>1
    <3>4. p.state # "expecting_newline_1"
      BY <1>10 DEF Newlines
    <3>5. Admits(p.state, p.headers, t[i + 1])
      BY <1>4, <3>1, <3>2, <3>3, <3>4, LineAccepts
    <3>6. QED
      BY <2>2, <3>5
  <2>4. CASE s > 1 /\ e = s
    <3>1. i = s - 1
      BY <1>1, <2>1, <2>4
    <3>2. p.state \in HeaderStates /\ InHeader(t, s, i, p.state, p.headers)
      BY <2>4 DEF Described
    <3>3. p.state = "header_line_start"
      BY <1>1, <1>10, <3>1, <3>2 DEF InHeader, Newlines
    <3>4. t[i + 1] = "cr"
      BY <1>1, <1>4, <2>4, <3>1
    <3>5. QED
      BY <2>2, <3>3, <3>4, HeaderAdmits
  <2>5. CASE s > 1 /\ e # s
    <3>1. ValueIs(t, s, e)
      BY <1>3, <1>6, <2>5
    <3>2. p.state \in HeaderStates \ Newlines /\ InHeader(t, s, i, p.state, p.headers)
      BY <1>10, <2>5 DEF Described
    <3>3. i \in (s - 1)..(e - 1)
      BY <1>1, <1>4, <2>1
    <3>4. Admits(p.state, p.headers, t[i + 1])
      BY <1>1, <1>4, <3>1, <3>2, <3>3, HeaderAccepts
    <3>5. QED
      BY <2>2, <3>4
  <2>6. QED
    BY <1>1, <2>3, <2>4, <2>5
<1>11. QED
  BY <1>9, <1>10

-----------------------------------------------------------------------------
(* parse(): the run of the parser over a text *)

LEMMA FinalMoves ==
  ASSUME NEW state \in States, NEW h, NEW n \in Moves(state, h)
  PROVE  /\ n[2] = "complete" => state = "expecting_newline_3" /\ n[1] = {"lf"}
         /\ n[2] # "complete" => n[2] \in States /\ state # "expecting_newline_3"
         /\ n[2] # "complete" /\ state \in Newlines =>
              n[1] = {"lf"} /\ n[2] = "header_line_start"
         /\ state = "uri" => n[1] \subseteq Text
<1>1. "sp" \in Text
  BY Classes
<1>2. CASE state \in LineStates
  <2>1. state \notin HeaderStates
    BY <1>2 DEF LineStates, HeaderStates
  <2>2. QED
    BY <1>1, <1>2, <2>1, LineMovesOf, StateSets DEF LineStates, HeaderStates, Newlines
<1>3. CASE state \in HeaderStates
  <2>1. state \notin LineStates
    BY <1>3 DEF LineStates, HeaderStates
  <2>2. QED
    BY <1>3, <2>1, HeaderMovesOf, StateSets DEF LineStates, HeaderStates, Newlines
<1>4. QED
  BY <1>2, <1>3, StateSets

\* What holds of the parser after i characters of t.
Parsed(t, i, q) ==
  /\ q \in Parser
  /\ q.state \in NeedHeader => q.headers > 0
  /\ q.result = "indeterminate" => \E s \in 1..(i + 1) : Described(t, s, i, q)
  /\ q.result = "true" => IsRequest(t) /\ q.uri = UriOf(t)
  /\ q.result = "false" => ~IsRequest(t)

LEMMA FreshParsed == ASSUME NEW t PROVE Parsed(t, 0, Fresh)
<1>1. /\ Fresh.state = "method_start" /\ Fresh.uri = <<>> /\ Fresh.headers = 0
      /\ Fresh.result = "indeterminate"
  BY DEF Fresh
<1>2. Fresh \in Parser
  BY StateSets DEF Fresh, Parser, LineStates, Results
<1>3. Begun(t, 1)
  BY DEF Begun, Before, Cuts
<1>4. Described(t, 1, 0, Fresh)
  BY <1>1, <1>3 DEF Described, InLine, LineStates, Newlines
<1>5. QED
  BY <1>1, <1>2, <1>4 DEF Parsed, NeedHeader

LEMMA HeaderNeeded ==
  ASSUME NEW t, NEW i, NEW s \in Nat \ {0}, NEW q, Described(t, s, i, q), q.state \in NeedHeader
  PROVE  q.headers > 0
<1>1. q.state \notin LineStates /\ q.state \notin {"header_line_start", "expecting_newline_3"}
  BY DEF NeedHeader, LineStates
<1>2. s > 1
  BY <1>1 DEF Described
<1>3. q.state \in HeaderStates \ {"header_line_start", "expecting_newline_3"}
  BY <1>1, <1>2 DEF Described
<1>4. QED
  BY <1>2, <1>3 DEF Described, InHeader

\* One character more.
LEMMA ConsumeParses ==
  ASSUME NEW t \in Seq(Chars), NEW i \in 0..(Len(t) - 1), NEW q, Parsed(t, i, q),
         q.result = "indeterminate"
  PROVE  Parsed(t, i + 1, Consume(q, t[i + 1]))
<1> DEFINE c == t[i + 1]
           r == Consume(q, c)
<1>1. PICK s \in 1..(i + 1) : Described(t, s, i, q)
  BY DEF Parsed
<1>2. q \in Parser /\ (q.state \in NeedHeader => q.headers > 0)
  BY DEF Parsed
<1>3. q.state \in States /\ q.uri \in Seq(Text) /\ q.headers \in Nat /\ i \in 0..Len(t)
      /\ i \in Nat /\ (i + 1) + 1 = i + 2 /\ Len(t) \in Nat
  BY <1>2 DEF Parser
<1>4. CASE /\ r = [q EXCEPT !.result = "false"]
           /\ \A n \in Moves(q.state, q.headers) : c \notin n[1]
  <2>1. ~IsRequest(t)
    BY <1>1, <1>2, <1>3, <1>4, Accepts DEF Admits
  <2>2. r \in Parser /\ r.state = q.state /\ r.headers = q.headers /\ r.result = "false"
    BY <1>2, <1>4 DEF Parser, Results
  <2>3. QED
    BY <1>2, <2>1, <2>2 DEF Parsed
<1>5. CASE /\ r = [q EXCEPT !.result = "true"]
           /\ \E n \in Moves(q.state, q.headers) : c \in n[1] /\ n[2] = "complete"
  <2>1. q.state = "expecting_newline_3" /\ c = "lf"
    BY <1>3, <1>5, FinalMoves
  <2>2. IsRequest(t) /\ q.uri = UriOf(t)
    BY <1>1, <1>2, <2>1, Sound
  <2>3. r \in Parser /\ r.state = q.state /\ r.headers = q.headers /\ r.uri = q.uri
        /\ r.result = "true"
    BY <1>2, <1>5 DEF Parser, Results
  <2>4. QED
    BY <1>2, <2>2, <2>3 DEF Parsed
<1>6. CASE /\ \E n \in Moves(q.state, q.headers) : c \in n[1] /\ r = Moved(q, c, n[2])
           /\ \E n \in Moves(q.state, q.headers) : c \in n[1] /\ n[2] # "complete"
  <2>1. PICK n \in Moves(q.state, q.headers) : c \in n[1] /\ r = Moved(q, c, n[2])
    BY <1>6
  <2>2. q.state # "expecting_newline_3"
    BY <1>3, <1>6, FinalMoves
  <2>3. n[2] # "complete"
    BY <1>3, <2>2, FinalMoves
  <2>4. q.state # "uri_start"
    BY <1>1 DEF Described, InLine, HeaderStates
  <2>5. r \in Parser /\ r.result = "indeterminate"
    <3>1. q.state = "uri" => c \in Text
      BY <1>3, <2>1, FinalMoves
    <3>2. r.uri \in Seq(Text)
      <4>1. r.uri = IF q.state = "uri" /\ c # "sp" THEN Append(q.uri, c) ELSE q.uri
        BY <2>1, <2>4 DEF Moved
      <4>2. QED
        BY <1>3, <3>1, <4>1
    <3>3. r.state \in States /\ r.headers \in Nat
      BY <1>3, <2>1, <2>3, FinalMoves DEF Moved
    <3>4. r = [state |-> r.state, uri |-> r.uri, headers |-> r.headers,
               result |-> "indeterminate"]
      BY <2>1 DEF Moved
    <3>5. QED
      BY <3>2, <3>3, <3>4 DEF Parser, Results
  <2>6. \E x \in 1..((i + 1) + 1) : Described(t, x, i + 1, r)
    <3>1. CASE q.state \notin Newlines
      <4>1. Described(t, s, i + 1, r)
        BY <1>1, <1>2, <2>1, <3>1, SameLine
      <4>2. s \in 1..((i + 1) + 1)
        BY <1>3
      <4>3. QED
        BY <4>1, <4>2
    <3>2. CASE q.state \in Newlines
      <4>1. n[1] = {"lf"} /\ n[2] = "header_line_start"
        BY <1>3, <2>3, <3>2, FinalMoves
      <4>2. q.state \in {"expecting_newline_1", "expecting_newline_2"}
        BY <2>2, <3>2 DEF Newlines
      <4>3. c = "lf" /\ r = Moved(q, "lf", "header_line_start")
        BY <2>1, <4>1
      <4>4. Described(t, i + 2, i + 1, r)
        BY <1>1, <1>2, <4>2, <4>3, NextLine
      <4>5. i + 2 \in 1..((i + 1) + 1)
        BY <1>3
      <4>6. QED
        BY <4>4, <4>5
    <3>3. QED
      BY <3>1, <3>2
  <2>7. r.state \in NeedHeader => r.headers > 0
    BY <2>6, HeaderNeeded
  <2>8. QED
    BY <2>5, <2>6, <2>7 DEF Parsed
<1>7. QED
  BY <1>2, <1>4, <1>5, <1>6, Consumes

\* f is the run of parse() over the first m characters.
ParseStep(q, c) == IF q.result = "indeterminate" THEN Consume(q, c) ELSE q
RunOf(f, m, p, t) ==
  /\ f = [i \in 0..m |-> f[i]] /\ f[0] = [p EXCEPT !.result = "indeterminate"]
  /\ \A i \in 1..m : f[i] = ParseStep(f[i - 1], t[i])

LEMMA RunExists ==
  ASSUME NEW p, NEW t, NEW m \in Nat
  PROVE  \E f : RunOf(f, m, p, t)
<1> DEFINE T == {k \in Nat : ~ \E f : RunOf(f, k, p, t)}
<1> SUFFICES ASSUME T # {} PROVE FALSE
  OBVIOUS
<1>1. T \in SUBSET Nat
  OBVIOUS
<1> HIDE DEF T
<1>2. PICK k \in T : \A j \in T : k <= j
  BY <1>1, LeastElement
<1>3. k \in Nat /\ ~ \E f : RunOf(f, k, p, t)
  BY <1>2 DEF T
<1>4. CASE k = 0
  <2> DEFINE f == [i \in 0..0 |-> [p EXCEPT !.result = "indeterminate"]]
  <2>1. RunOf(f, 0, p, t)
    BY DEF RunOf
  <2>2. QED
    BY <1>3, <1>4, <2>1
<1>5. CASE k # 0
  <2>1. k - 1 \in Nat /\ k - 1 \notin T
    BY <1>1, <1>2, <1>3, <1>5
  <2>2. PICK f : RunOf(f, k - 1, p, t)
    BY <2>1 DEF T
  <2> DEFINE h == [i \in 0..k |-> IF i = k THEN ParseStep(f[k - 1], t[k]) ELSE f[i]]
  <2>3. h = [i \in 0..k |-> h[i]] /\ h[0] = f[0]
    BY <1>3, <1>5
  <2>4. ASSUME NEW i \in 1..k PROVE h[i] = ParseStep(h[i - 1], t[i])
    <3>1. h[i - 1] = f[i - 1]
      BY <1>3
    <3>2. CASE i = k
      BY <1>3, <3>1, <3>2
    <3>3. CASE i # k
      <4>1. i \in 1..(k - 1) /\ h[i] = f[i]
        BY <1>3, <3>3
      <4>2. QED
        BY <2>2, <3>1, <4>1 DEF RunOf
    <3>4. QED
      BY <3>2, <3>3
  <2> HIDE DEF h
  <2>5. RunOf(h, k, p, t)
    BY <2>2, <2>3, <2>4 DEF RunOf
  <2>6. QED
    BY <1>3, <2>5
<1>6. QED
  BY <1>4, <1>5

\* The recursion of parse() has a solution, which is this run.
LEMMA ParseRun ==
  ASSUME NEW p, NEW t, Len(t) \in Nat
  PROVE  \E f : RunOf(f, Len(t), p, t) /\ Parse(p, t) = f[Len(t)]
<1> DEFINE Solves(f) ==
             f = [i \in 0..Len(t) |->
                   IF i = 0 THEN [p EXCEPT !.result = "indeterminate"]
                   ELSE LET q == f[i - 1] IN
                        IF q.result = "indeterminate" THEN Consume(q, t[i]) ELSE q]
           after == CHOOSE f : Solves(f)
<1>1. PICK g : RunOf(g, Len(t), p, t)
  BY RunExists
<1>2. Solves(g)
  <2>1. \A i \in 0..Len(t) :
          g[i] = IF i = 0 THEN [p EXCEPT !.result = "indeterminate"]
                 ELSE ParseStep(g[i - 1], t[i])
    BY <1>1 DEF RunOf
  <2>2. g = [i \in 0..Len(t) |-> g[i]]
    BY <1>1 DEF RunOf
  <2>3. QED
    BY <2>1, <2>2 DEF ParseStep
<1>3. Solves(after)
  BY <1>2
<1>4. Parse(p, t) = after[Len(t)]
  BY DEF Parse
<1> HIDE DEF after
<1>5. RunOf(after, Len(t), p, t)
  <2>1. \A i \in 0..Len(t) :
          after[i] = IF i = 0 THEN [p EXCEPT !.result = "indeterminate"]
                     ELSE ParseStep(after[i - 1], t[i])
    BY <1>3 DEF ParseStep
  <2>2. after = [i \in 0..Len(t) |-> after[i]]
    BY <1>3
  <2>3. after[0] = [p EXCEPT !.result = "indeterminate"]
    BY <2>1
  <2>4. \A i \in 1..Len(t) : after[i] = ParseStep(after[i - 1], t[i])
    BY <2>1
  <2>5. QED
    BY <2>2, <2>3, <2>4 DEF RunOf
<1>6. QED
  BY <1>4, <1>5

\* Of a run of a fresh parser, every step is described.
LEMMA RunParsed ==
  ASSUME NEW t \in Seq(Chars), NEW m \in 0..Len(t), NEW f, RunOf(f, m, Fresh, t)
  PROVE  \A i \in 0..m : Parsed(t, i, f[i])
<1> DEFINE T == {i \in 0..m : ~Parsed(t, i, f[i])}
<1> SUFFICES ASSUME T # {} PROVE FALSE
  OBVIOUS
<1>1. T \in SUBSET Nat
  OBVIOUS
<1>2. PICK i \in T : \A j \in T : i <= j
  BY <1>1, LeastElement
<1>3. [Fresh EXCEPT !.result = "indeterminate"] = Fresh
  BY DEF Fresh
<1>4. i # 0
  BY <1>2, <1>3, FreshParsed DEF RunOf
<1>5. i \in 1..m /\ i - 1 \in 0..m /\ i - 1 \notin T /\ i - 1 \in 0..(Len(t) - 1)
      /\ (i - 1) + 1 = i /\ i \in Nat /\ Len(t) \in Nat
  BY <1>2, <1>4
<1> DEFINE q == f[i - 1]
<1>6. Parsed(t, i - 1, q)
  BY <1>5
<1>7. f[i] = ParseStep(q, t[i])
  BY <1>5 DEF RunOf
<1> HIDE DEF q
<1>8. CASE q.result = "indeterminate"
  <2>1. Parsed(t, (i - 1) + 1, Consume(q, t[(i - 1) + 1]))
    BY <1>5, <1>6, <1>8, ConsumeParses
  <2>2. Parsed(t, i, f[i])
    BY <1>5, <1>7, <1>8, <2>1 DEF ParseStep
  <2>3. QED
    BY <1>2, <2>2
<1>9. CASE q.result # "indeterminate"
  <2>1. f[i] = q
    BY <1>7, <1>9 DEF ParseStep
  <2>2. Parsed(t, i, f[i])
    BY <1>6, <1>9, <2>1 DEF Parsed
  <2>3. QED
    BY <1>2, <2>2
<1>10. QED
  BY <1>8, <1>9

\* parse() of a fresh parser says true of exactly the texts that hold a request, and the
\* uri is then the one between the first two spaces; what it leaves is a state of the
\* parser, in which the header that is going on exists.
THEOREM ParseDecides ==
  ASSUME NEW t \in Seq(Chars)
  PROVE  /\ Parse(Fresh, t).result = "true" <=> IsRequest(t)
         /\ IsRequest(t) => Parse(Fresh, t).uri = UriOf(t)
         /\ Parse(Fresh, t) \in Parser
         /\ Parse(Fresh, t).state \in NeedHeader => Parse(Fresh, t).headers > 0
<1>1. Len(t) \in Nat
  OBVIOUS
<1>2. PICK f : RunOf(f, Len(t), Fresh, t) /\ Parse(Fresh, t) = f[Len(t)]
  BY <1>1, ParseRun
<1> DEFINE q == f[Len(t)]
<1>3. Parsed(t, Len(t), q)
  BY <1>1, <1>2, RunParsed
<1>4. q.result = "indeterminate" => ~IsRequest(t)
  <2> SUFFICES ASSUME q.result = "indeterminate", IsRequest(t) PROVE FALSE
    OBVIOUS
  <2>1. PICK s \in 1..(Len(t) + 1) : Described(t, s, Len(t), q)
    BY <1>3 DEF Parsed
  <2>2. q \in Parser /\ Len(t) \in 0..Len(t)
    BY <1>1, <1>3 DEF Parsed
  <2> HIDE DEF q
  <2>3. Len(t) < Len(t)
    BY <2>1, <2>2, Accepts
  <2>4. QED
    BY <1>1, <2>3
<1>5. q \in Parser /\ q.result \in {"true", "false", "indeterminate"}
  BY <1>3 DEF Parsed, Parser, Results
<1> HIDE DEF q
<1>6. (q.result = "true" <=> IsRequest(t)) /\ (IsRequest(t) => q.uri = UriOf(t))
  BY <1>3, <1>4, <1>5 DEF Parsed
<1>7. QED
  BY <1>2, <1>3, <1>5, <1>6 DEF Parsed, q

\* An answer stands: of a text that goes on behind, a result that is not indeterminate is
\* the same.
LEMMA ParseStands ==
  ASSUME NEW x \in Seq(Chars), NEW y \in Seq(Chars), Parse(Fresh, x).result # "indeterminate"
  PROVE  Parse(Fresh, x \o y) = Parse(Fresh, x)
<1> DEFINE t == x \o y
           m == Len(x)
           k == Len(t)
<1>1. /\ t \in Seq(Chars) /\ m \in Nat /\ k \in Nat /\ m <= k
      /\ \A i \in 1..m : t[i] = x[i]
  BY ConcatProperties
<1>2. PICK f : RunOf(f, m, Fresh, x) /\ Parse(Fresh, x) = f[m]
  BY <1>1, ParseRun
<1>3. PICK g : RunOf(g, k, Fresh, t) /\ Parse(Fresh, t) = g[k]
  BY <1>1, ParseRun
<1> HIDE DEF t, m, k
<1>4. \A i \in 0..m : f[i] = g[i]
  <2> DEFINE T == {i \in 0..m : f[i] # g[i]}
  <2> SUFFICES ASSUME T # {} PROVE FALSE
    OBVIOUS
  <2>1. T \in SUBSET Nat
    BY <1>1
  <2>2. PICK i \in T : \A j \in T : i <= j
    BY <2>1, LeastElement
  <2>3. i # 0
    BY <1>2, <1>3, <2>2 DEF RunOf
  <2>4. i \in 1..m /\ i \in 1..k /\ i - 1 \in 0..m /\ i - 1 \notin T
    BY <1>1, <2>2, <2>3
  <2>5. f[i - 1] = g[i - 1] /\ t[i] = x[i]
    BY <1>1, <2>4
  <2>6. f[i] = ParseStep(f[i - 1], x[i]) /\ g[i] = ParseStep(g[i - 1], t[i])
    BY <1>2, <1>3, <2>4 DEF RunOf
  <2>7. QED
    BY <2>2, <2>5, <2>6
<1>5. g[m] = f[m] /\ g[m].result # "indeterminate"
  BY <1>1, <1>2, <1>4
<1>6. \A i \in m..k : g[i] = g[m]
  <2> DEFINE T == {i \in m..k : g[i] # g[m]}
  <2> SUFFICES ASSUME T # {} PROVE FALSE
    OBVIOUS
  <2>1. T \in SUBSET Nat
    BY <1>1
  <2>2. PICK i \in T : \A j \in T : i <= j
    BY <2>1, LeastElement
  <2>3. i # m /\ i \in m..k
    BY <2>2
  <2>4. i \in 1..k /\ i - 1 \in m..k /\ i - 1 \notin T
    BY <1>1, <2>2, <2>3
  <2>5. g[i - 1] = g[m]
    BY <2>4
  <2>6. g[i] = ParseStep(g[i - 1], t[i])
    BY <1>3, <2>4 DEF RunOf
  <2>7. QED
    BY <1>5, <2>2, <2>5, <2>6 DEF ParseStep
<1>7. g[k] = f[m]
  BY <1>1, <1>5, <1>6
<1>8. Parse(Fresh, t) = Parse(Fresh, x)
  BY <1>2, <1>3, <1>7
<1>9. QED
  BY <1>8 DEF t

\* parse() refuses no beginning of a request, whatever comes behind it, and what follows
\* a request changes neither that it is one nor its uri.
THEOREM NoBeginningRefused ==
  ASSUME NEW x \in Seq(Chars), NEW y \in Seq(Chars)
  PROVE  /\ Parse(Fresh, x).result = "false" => ~IsRequest(x \o y)
         /\ IsRequest(x) => IsRequest(x \o y) /\ UriOf(x \o y) = UriOf(x)
<1>1. x \o y \in Seq(Chars)
  BY ConcatProperties
<1>2. Parse(Fresh, x \o y).result = "true" <=> IsRequest(x \o y)
  BY <1>1, ParseDecides
<1>3. IsRequest(x \o y) => Parse(Fresh, x \o y).uri = UriOf(x \o y)
  BY <1>1, ParseDecides
<1>4. ASSUME Parse(Fresh, x).result = "false" PROVE ~IsRequest(x \o y)
  BY <1>2, <1>4, ParseStands
<1>5. ASSUME IsRequest(x) PROVE IsRequest(x \o y) /\ UriOf(x \o y) = UriOf(x)
  <2>1. Parse(Fresh, x).result = "true" /\ Parse(Fresh, x).uri = UriOf(x)
    BY <1>5, ParseDecides
  <2>2. Parse(Fresh, x \o y) = Parse(Fresh, x)
    BY <2>1, ParseStands
  <2>3. QED
    BY <1>2, <1>3, <2>1, <2>2
<1>6. QED
  BY <1>4, <1>5

-----------------------------------------------------------------------------
(* The session *)

Statuses == {"none", "ok", "not_found", "bad_request"}
IsReply(rep) ==
  /\ rep = [status |-> rep.status, headers |-> rep.headers, content |-> rep.content]
  /\ rep.status \in Statuses

\* Clean when it reads: what earlier reads and sessions left is gone.
Inv ==
  /\ WholeReadIsAnswered
  /\ work = [parser |-> work.parser, reply |-> work.reply] /\ IsReply(work.reply)
  /\ phase = "free" => read = 0
  /\ phase \in {"free", "reading"} => sent = <<>>
  /\ phase = "reading" => work.parser = Fresh /\ work.reply.content = <<>>

LEMMA FreshTyped ==
  Fresh \in Parser /\ Fresh.state \notin NeedHeader
BY StateSets DEF Fresh, Parser, LineStates, Results, NeedHeader

\* on_clear leaves nothing of the request nor of the answer but its status.
LEMMA Cleared ==
  ASSUME NEW w, IsReply(w.reply)
  PROVE  /\ OnClear(w) = [parser |-> OnClear(w).parser, reply |-> OnClear(w).reply]
         /\ OnClear(w).parser = Fresh /\ IsReply(OnClear(w).reply)
         /\ OnClear(w).reply.content = <<>>
<1>1. OnClear(w) = [parser |-> Fresh, reply |-> Reset(w.reply)]
  BY DEF OnClear
<1> DEFINE rep == w.reply
<1>2. rep = [status |-> rep.status, headers |-> rep.headers, content |-> rep.content]
      /\ rep.status \in Statuses
  BY DEF IsReply
<1> HIDE DEF rep
<1>3. PICK half : half = [rep EXCEPT !.headers = <<>>]
  OBVIOUS
<1>4. half = [status |-> rep.status, headers |-> <<>>, content |-> rep.content]
  BY <1>2, <1>3
<1>5. [half EXCEPT !.content = <<>>] = [status |-> rep.status, headers |-> <<>>, content |-> <<>>]
  BY <1>4
<1>6. [rep EXCEPT !.headers = <<>>, !.content = <<>>] = [half EXCEPT !.content = <<>>]
  <2>1. [[rep EXCEPT !.headers = <<>>] EXCEPT !.content = <<>>] = [half EXCEPT !.content = <<>>]
    BY ONLY <1>3, Zenon
  <2>2. [rep EXCEPT !.headers = <<>>, !.content = <<>>] =
        [[rep EXCEPT !.headers = <<>>] EXCEPT !.content = <<>>]
    OBVIOUS
  <2>3. QED
    BY ONLY <2>1, <2>2, Zenon
<1>7. Reset(rep) = [status |-> rep.status, headers |-> <<>>, content |-> <<>>]
  <2>1. Reset(rep) = [rep EXCEPT !.headers = <<>>, !.content = <<>>]
    BY DEF Reset
  <2>2. QED
    BY ONLY <1>5, <1>6, <2>1, Zenon
<1>8. IsReply(Reset(rep)) /\ Reset(rep).content = <<>>
  BY <1>2, <1>7 DEF IsReply
<1>9. QED
  BY <1>1, <1>8 DEF rep

\* Of the reply it has handle_request uses the content alone.
LEMMA HandleRequestUses ==
  ASSUME NEW uri, NEW rep, rep.content = <<>>
  PROVE  HandleRequest(uri, rep) = HandleRequest(uri, NewReply)
<1>1. NewReply.content = <<>>
  BY DEF NewReply
<1>2. QED
  BY <1>1 DEF HandleRequest

LEMMA StockReplyTyped ==
  ASSUME NEW status \in Statuses PROVE IsReply(StockReply(status))
BY DEF IsReply, StockReply

LEMMA HandleRequestTyped ==
  ASSUME NEW uri, NEW rep PROVE IsReply(HandleRequest(uri, rep))
<1>1. IsReply(StockReply("bad_request")) /\ IsReply(StockReply("not_found"))
  BY StockReplyTyped DEF Statuses
<1>2. \A headers, content : IsReply([status |-> "ok", headers |-> headers, content |-> content])
  BY DEF IsReply, Statuses
<1> DEFINE path == CHOOSE p \in UrlDecode(uri) : TRUE
           full == IF path[Len(path)] = "slash" THEN path \o IndexHtml ELSE path
           content == rep.content \o Files[full]
           ok == [status |-> "ok", content |-> content,
                  headers |-> <<Len(content), MimeType(Extension(full))>>]
<1>3. \/ HandleRequest(uri, rep) = StockReply("bad_request")
      \/ HandleRequest(uri, rep) = StockReply("not_found")
      \/ HandleRequest(uri, rep) = ok
  BY Zenon DEF HandleRequest
<1>4. ok = [status |-> "ok", headers |-> <<Len(content), MimeType(Extension(full))>>,
            content |-> content]
  OBVIOUS
<1>5. IsReply(ok)
  BY <1>2, <1>4
<1>6. QED
  BY <1>1, <1>3, <1>5

LEMMA InitInv == Init => Inv
<1> SUFFICES ASSUME Init PROVE Inv
  OBVIOUS
<1>1. IsReply(NewReply) /\ NewReply.status \in Statuses
  BY DEF IsReply, NewReply, Statuses
<1>2. work.parser = Fresh /\ work.reply = NewReply /\ work = [parser |-> work.parser, reply |-> work.reply]
  BY DEF Init
<1>3. TypeOK
  BY <1>1, <1>2, FreshTyped, HttpSessionAssumption DEF Init, TypeOK, Parser, Statuses
<1>4. QED
  BY <1>1, <1>2, <1>3 DEF Init, Inv, WholeReadIsAnswered

LEMMA OpenKeeps ==
  ASSUME Inv, NEW r \in Requests, Open(r) PROVE Inv'
<1>1. OnClear(work) = work' /\ IsReply(work.reply) /\ TypeOK
  BY DEF Open, Inv, WholeReadIsAnswered
<1>2. /\ work' = [parser |-> work'.parser, reply |-> work'.reply]
      /\ work'.parser = Fresh /\ IsReply(work'.reply) /\ work'.reply.content = <<>>
  BY <1>1, Cleared
<1>3. r \in Seq(Chars) /\ MaxSessions \in Nat
  BY HttpSessionAssumption
<1>4. TypeOK'
  <2>1. read = 0 /\ read' = read /\ request' = r /\ phase' = "reading" /\ piece' = piece
        /\ sessions' = sessions + 1 /\ sessions < MaxSessions
    BY DEF Open, Inv
  <2>2. piece \in Seq(Chars) /\ Len(piece) <= BufferSize /\ sessions \in 0..MaxSessions
    BY <1>1 DEF TypeOK
  <2>3. read' \in 0..Len(request') /\ sessions' \in 0..MaxSessions
    BY <1>3, <2>1, <2>2
  <2>4. work'.parser \in Parser /\ work'.parser.state \notin NeedHeader
    BY <1>2, FreshTyped
  <2>5. work'.reply.status \in Statuses
    BY <1>2 DEF IsReply
  <2>6. QED
    BY <1>3, <2>1, <2>2, <2>3, <2>4, <2>5 DEF TypeOK, Parser, Statuses
<1>5. sent' = sent /\ piece' = piece /\ sent = <<>> /\ phase' = "reading"
  BY DEF Open, Inv
<1>6. QED
  BY <1>2, <1>4, <1>5 DEF Inv, WholeReadIsAnswered

LEMMA ReadKeeps ==
  ASSUME Inv, NEW n \in 1..Least(BufferSize, Len(request) - read), Read(n) PROVE Inv'
<1> DEFINE text == SubSeq(request, read + 1, read + n)
           p == Parse(work.parser, text)
<1>1. /\ phase = "reading" /\ work.parser = Fresh /\ work.reply.content = <<>> /\ sent = <<>>
      /\ TypeOK /\ IsReply(work.reply)
      /\ work = [parser |-> work.parser, reply |-> work.reply]
  BY DEF Read, Inv, WholeReadIsAnswered
<1>2. /\ request \in Seq(Chars) /\ read \in 0..Len(request) /\ sessions \in 0..MaxSessions
      /\ Len(request) \in Nat /\ BufferSize \in Nat
  BY <1>1, HttpSessionAssumption DEF TypeOK
<1>3. n \in Nat \ {0} /\ n <= BufferSize /\ read + n <= Len(request)
  BY <1>2 DEF Least
<1>4. text \in Seq(Chars) /\ Len(text) = n /\ text # <<>>
  <2>1. read + 1 \in 1..(Len(request) + 1) /\ read + n + 1 \in (read + 1)..(Len(request) + 1)
        /\ (read + n + 1) - 1 = read + n /\ (read + n + 1) - (read + 1) = n
    BY <1>2, <1>3
  <2>2. Len(text) = n
    BY <1>2, <2>1, PartOf
  <2>3. text \in Seq(Chars)
    BY <1>2, <1>3, SubSeqProperties
  <2>4. text # <<>>
    <3>1. Len(<<>>) = 0
      OBVIOUS
    <3>2. QED
      BY <1>3, <2>2, <3>1
  <2>5. QED
    BY <2>2, <2>3, <2>4
<1> HIDE DEF text
<1>5. /\ p.result = "true" <=> IsRequest(text)
      /\ IsRequest(text) => p.uri = UriOf(text)
      /\ p \in Parser /\ (p.state \in NeedHeader => p.headers > 0)
  BY <1>1, <1>4, ParseDecides
<1> HIDE DEF p
<1>6. /\ read' = read + n /\ piece' = text /\ request' = request /\ sessions' = sessions
      /\ \/ /\ p.result = "true" /\ phase' = "writing"
            /\ work' = [parser |-> p, reply |-> HandleRequest(p.uri, work.reply)]
            /\ sent' = ToBuffers(HandleRequest(p.uri, work.reply))
         \/ /\ p.result = "false" /\ phase' = "writing"
            /\ work' = [parser |-> p, reply |-> StockReply("bad_request")]
            /\ sent' = ToBuffers(StockReply("bad_request"))
         \/ /\ p.result = "indeterminate" /\ work' = OnClear([work EXCEPT !.parser = p])
            /\ sent' = sent /\ phase' = phase
  BY DEF Read, text, p
<1>7. /\ request' \in Seq(Chars) /\ read' \in 0..Len(request') /\ piece' \in Seq(Chars)
      /\ Len(piece') <= BufferSize /\ sessions' \in 0..MaxSessions
  BY <1>2, <1>3, <1>4, <1>6
<1>8. ASSUME /\ work' = [parser |-> work'.parser, reply |-> work'.reply]
             /\ work'.parser \in Parser /\ IsReply(work'.reply)
             /\ work'.parser.state \in NeedHeader => work'.parser.headers > 0
             /\ phase' \in {"reading", "writing"}
      PROVE  TypeOK'
  <2>1. work'.reply.status \in Statuses
    BY <1>8 DEF IsReply
  <2>2. QED
    BY <1>7, <1>8, <2>1 DEF TypeOK, Parser, Statuses
<1>9. CASE /\ p.result = "true" /\ phase' = "writing"
           /\ work' = [parser |-> p, reply |-> HandleRequest(p.uri, work.reply)]
           /\ sent' = ToBuffers(HandleRequest(p.uri, work.reply))
  <2>1. IsReply(HandleRequest(p.uri, work.reply))
    BY HandleRequestTyped
  <2>2. /\ work'.parser = p /\ IsReply(work'.reply)
        /\ work' = [parser |-> work'.parser, reply |-> work'.reply]
    BY <1>9, <2>1
  <2>3. TypeOK'
    BY <1>5, <1>8, <1>9, <2>2
  <2>4. IsRequest(text) /\ p.uri = UriOf(text)
    BY <1>5, <1>9
  <2>5. sent' = ToBuffers(HandleRequest(UriOf(text), NewReply))
    BY <1>1, <1>9, <2>4, HandleRequestUses
  <2>6. WholeReadIsAnswered'
    BY <1>6, <2>3, <2>4, <2>5 DEF WholeReadIsAnswered
  <2>7. QED
    BY <1>9, <2>2, <2>6 DEF Inv
<1>10. CASE /\ p.result = "false" /\ phase' = "writing"
            /\ work' = [parser |-> p, reply |-> StockReply("bad_request")]
            /\ sent' = ToBuffers(StockReply("bad_request"))
  <2>1. IsReply(StockReply("bad_request"))
    BY StockReplyTyped DEF Statuses
  <2>2. /\ work'.parser = p /\ IsReply(work'.reply)
        /\ work' = [parser |-> work'.parser, reply |-> work'.reply]
    BY <1>10, <2>1
  <2>3. TypeOK'
    BY <1>5, <1>8, <1>10, <2>2
  <2>4. ~IsRequest(text)
    BY <1>5, <1>10
  <2>5. WholeReadIsAnswered'
    BY <1>6, <1>10, <2>3, <2>4 DEF WholeReadIsAnswered
  <2>6. QED
    BY <1>10, <2>2, <2>5 DEF Inv
<1>11. CASE /\ p.result = "indeterminate" /\ work' = OnClear([work EXCEPT !.parser = p])
            /\ sent' = sent /\ phase' = phase
  <2>1. [work EXCEPT !.parser = p].reply = work.reply
    BY <1>1
  <2>2. /\ work' = [parser |-> work'.parser, reply |-> work'.reply]
        /\ work'.parser = Fresh /\ IsReply(work'.reply) /\ work'.reply.content = <<>>
    BY <1>1, <1>11, <2>1, Cleared
  <2>3. TypeOK'
    BY <1>1, <1>8, <1>11, <2>2, FreshTyped
  <2>4. ~IsRequest(text)
    BY <1>5, <1>11
  <2>5. WholeReadIsAnswered'
    BY <1>1, <1>6, <1>11, <2>3, <2>4 DEF WholeReadIsAnswered
  <2>6. QED
    BY <1>1, <1>11, <2>2, <2>5 DEF Inv
<1>12. QED
  BY <1>6, <1>9, <1>10, <1>11

LEMMA OthersKeep ==
  ASSUME Inv, Close \/ Recycle \/ UNCHANGED vars PROVE Inv'
<1>1. CASE Close
  BY <1>1 DEF Close, Inv, WholeReadIsAnswered, TypeOK, IsReply
<1>2. CASE Recycle
  <2>1. phase' = "free" /\ request' = <<>> /\ read' = 0 /\ piece' = <<>> /\ sent' = <<>>
        /\ work' = work /\ sessions' = sessions
    BY <1>2 DEF Recycle
  <2>2. <<>> \in Seq(Chars) /\ Len(<<>>) = 0 /\ BufferSize \in Nat
    BY HttpSessionAssumption
  <2>3. TypeOK'
    BY <2>1, <2>2 DEF Inv, WholeReadIsAnswered, TypeOK
  <2>4. IsReply(work.reply)' /\ work' = [parser |-> work'.parser, reply |-> work'.reply]
    BY <2>1 DEF Inv, IsReply
  <2>5. QED
    BY <2>1, <2>3, <2>4 DEF Inv, WholeReadIsAnswered
<1>3. CASE UNCHANGED vars
  BY <1>3 DEF vars, Inv, WholeReadIsAnswered, TypeOK, IsReply
<1>4. QED
  BY <1>1, <1>2, <1>3

\* A read that brought a whole request is answered with what the request asks for, any
\* other with bad_request or not at all, whatever came before it: for requests of any
\* length, any files, any size of the buffer, and any number of sessions.
THEOREM ReadsAreAnswered == Spec => []WholeReadIsAnswered
<1>1. Init => Inv
  BY InitInv
<1>2. Inv /\ [Next]_vars => Inv'
  BY OpenKeeps, ReadKeeps, OthersKeep DEF Next
<1>3. Inv => WholeReadIsAnswered
  BY DEF Inv
<1>4. QED
  BY <1>1, <1>2, <1>3, PTL DEF Spec

-----------------------------------------------------------------------------
(* url_decode *)

\* in[i..j-1] writes the character c: as itself, as a plus, or escaped.
Writes(in, i, j, c) ==
  \/ j = i + 1 /\ in[i] # "pct" /\ c = IF in[i] = "plus" THEN "sp" ELSE in[i]
  \/ j = i + 3 /\ in[i] = "pct" /\ c \in ReadHex(in[i + 1], in[i + 2])

\* From i on in writes the path, its k-th character at[k] and following.
Spells(in, i, path, at) ==
  /\ at \in [1..(Len(path) + 1) -> 1..(Len(in) + 1)]
  /\ at[1] = i /\ at[Len(path) + 1] = Len(in) + 1
  /\ \A k \in 1..Len(path) : Writes(in, at[k], at[k + 1], path[k])

\* What the recursion of UrlDecode says of each position, where from has the others.
DecodeStep(from, in, i) ==
  IF i > Len(in) THEN {<<>>}
  ELSE IF in[i] # "pct"
  THEN {<<IF in[i] = "plus" THEN "sp" ELSE in[i]>> \o rest : rest \in from[i + 1]}
  ELSE IF i + 2 > Len(in) THEN {}
  ELSE {<<c>> \o rest : c \in ReadHex(in[i + 1], in[i + 2]), rest \in from[i + 3]}
DecodesFrom(f, m, in) ==
  /\ f = [i \in m..(Len(in) + 3) |-> f[i]]
  /\ \A i \in m..(Len(in) + 3) : f[i] = DecodeStep(f, in, i)

LEMMA GreatestElement ==
  ASSUME NEW m \in Nat, NEW T \in SUBSET (1..m), T # {}
  PROVE  \E i \in T : \A j \in T : j <= i
<1> DEFINE D == {m - i : i \in T}
<1>1. D \in SUBSET Nat /\ D # {}
  <2>1. \A i \in T : m - i \in Nat
    OBVIOUS
  <2>2. PICK i \in T : TRUE
    OBVIOUS
  <2>3. m - i \in D
    OBVIOUS
  <2>4. D \subseteq Nat
    BY <2>1
  <2>5. QED
    BY <2>3, <2>4
<1>2. PICK d \in D : \A e \in D : d <= e
  <2> HIDE DEF D
  <2>1. QED
    BY <1>1, LeastElement
<1>3. PICK i \in T : d = m - i
  BY <1>2
<1>4. \A j \in T : j <= i
  BY <1>2, <1>3
<1>5. QED
  BY <1>4

LEMMA DecodeExists ==
  ASSUME NEW in, Len(in) \in Nat
  PROVE  \E f : DecodesFrom(f, 1, in)
<1> DEFINE n == Len(in) + 3
           T == {i \in 1..n : ~ \E f : DecodesFrom(f, i, in)}
<1>0. 1 \in 1..n
  OBVIOUS
<1> SUFFICES ASSUME T # {} PROVE FALSE
  BY <1>0, Zenon
<1>1. T \in SUBSET (1..n) /\ n \in Nat
  OBVIOUS
<1> HIDE DEF T
<1>2. PICK m \in T : \A j \in T : j <= m
  BY <1>1, GreatestElement
<1>3. m \in 1..n /\ ~ \E f : DecodesFrom(f, m, in)
  BY <1>2 DEF T
<1>4. CASE m = n
  <2> DEFINE f == [i \in n..n |-> {<<>>}]
  <2>1. \A i \in n..n : f[i] = DecodeStep(f, in, i)
    <3> SUFFICES ASSUME NEW i \in n..n PROVE f[i] = DecodeStep(f, in, i)
      OBVIOUS
    <3>1. i > Len(in) /\ f[i] = {<<>>}
      OBVIOUS
    <3>2. QED
      BY <3>1 DEF DecodeStep
  <2>2. DecodesFrom(f, n, in)
    BY <2>1 DEF DecodesFrom
  <2>3. QED
    BY <1>3, <1>4, <2>2
<1>5. CASE m # n
  <2>1. m + 1 \in 1..n /\ m + 1 \notin T /\ m \in Nat
    BY <1>1, <1>2, <1>3, <1>5
  <2>2. PICK f : DecodesFrom(f, m + 1, in)
    BY <2>1 DEF T
  <2> DEFINE h == [i \in m..n |-> IF i = m THEN DecodeStep(f, in, m) ELSE f[i]]
  <2>3. ASSUME NEW i \in m..n, NEW d \in {1, 3}, i + d <= n PROVE h[i + d] = f[i + d]
    BY <1>3, <2>3
  <2>4. \A i \in m..n : i <= Len(in) => i + 1 <= n /\ i + 3 <= n
    BY <1>3
  <2>5. \A i \in m..n : DecodeStep(h, in, i) = DecodeStep(f, in, i)
    <3> SUFFICES ASSUME NEW i \in m..n PROVE DecodeStep(h, in, i) = DecodeStep(f, in, i)
      OBVIOUS
    <3>1. CASE i > Len(in)
      BY <3>1 DEF DecodeStep
    <3>2. CASE ~(i > Len(in))
      <4>1. h[i + 1] = f[i + 1] /\ h[i + 3] = f[i + 3]
        BY <1>3, <2>3, <2>4, <3>2
      <4> HIDE DEF h
      <4>2. QED
        BY <4>1 DEF DecodeStep
    <3>3. QED
      BY <3>1, <3>2
  <2>6. \A i \in m..n : h[i] = DecodeStep(f, in, i)
    <3> SUFFICES ASSUME NEW i \in m..n PROVE h[i] = DecodeStep(f, in, i)
      OBVIOUS
    <3>1. CASE i = m
      BY <3>1
    <3>2. CASE i # m
      <4>1. i \in (m + 1)..n /\ h[i] = f[i]
        BY <1>3, <3>2
      <4>2. QED
        BY <2>2, <4>1 DEF DecodesFrom
    <3>3. QED
      BY <3>1, <3>2
  <2>7. h = [i \in m..n |-> h[i]]
    OBVIOUS
  <2> HIDE DEF h
  <2>8. DecodesFrom(h, m, in)
    BY <2>5, <2>6, <2>7 DEF DecodesFrom
  <2>9. QED
    BY <1>3, <2>8
<1>6. QED
  BY <1>4, <1>5

LEMMA DecodeRun ==
  ASSUME NEW in, Len(in) \in Nat
  PROVE  \E f : UrlDecode(in) = f[1] /\ \A i \in 1..(Len(in) + 3) : f[i] = DecodeStep(f, in, i)
<1> DEFINE Solves(f) == f = [i \in 1..(Len(in) + 3) |-> DecodeStep(f, in, i)]
           from == CHOOSE f : Solves(f)
<1>1. PICK g : DecodesFrom(g, 1, in)
  BY DecodeExists
<1>2. Solves(g)
  BY <1>1 DEF DecodesFrom
<1>3. Solves(from)
  BY <1>2
<1>4. UrlDecode(in) = from[1]
  BY DEF UrlDecode, DecodeStep
<1>5. \A i \in 1..(Len(in) + 3) : from[i] = DecodeStep(from, in, i)
  BY <1>3
<1> HIDE DEF from
<1>6. QED
  BY <1>4, <1>5

\* A path is written by its first character and then by the rest.
LEMMA Prepended ==
  ASSUME NEW c \in Chars, NEW rest \in Seq(Chars)
  PROVE  /\ <<c>> \o rest \in Seq(Chars) /\ Len(<<c>> \o rest) = Len(rest) + 1
         /\ (<<c>> \o rest)[1] = c /\ \A k \in 1..Len(rest) : (<<c>> \o rest)[k + 1] = rest[k]
<1>1. <<c>> \in Seq(Chars) /\ Len(<<c>>) = 1 /\ <<c>>[1] = c
  OBVIOUS
<1>2. QED
  BY <1>1, ConcatProperties

LEMMA SpellsFirst ==
  ASSUME NEW in \in Seq(Chars), NEW i \in Nat, NEW path \in Seq(Chars), path # <<>>,
         NEW at, Spells(in, i, path, at)
  PROVE  \E j \in (i + 1)..(Len(in) + 1) :
           Writes(in, i, j, path[1]) /\ \E b : Spells(in, j, Tail(path), b)
<1> DEFINE n == Len(Tail(path))
           b == [k \in 1..(n + 1) |-> at[k + 1]]
<1>1. /\ Tail(path) \in Seq(Chars) /\ n = Len(path) - 1 /\ n \in Nat
      /\ \A k \in 1..n : Tail(path)[k] = path[k + 1]
  BY HeadTailProperties
<1> HIDE DEF n
<1>2. /\ at \in [1..(n + 2) -> 1..(Len(in) + 1)] /\ at[1] = i /\ at[n + 2] = Len(in) + 1
      /\ \A k \in 1..(n + 1) : Writes(in, at[k], at[k + 1], path[k])
  <2>1. Len(path) = n + 1 /\ Len(path) + 1 = n + 2
    BY <1>1
  <2>2. QED
    BY <2>1 DEF Spells
<1>3. 1 \in 1..(n + 1) /\ 2 \in 1..(n + 2) /\ 1 + 1 = 2 /\ (n + 1) + 1 = n + 2
  BY <1>1
<1>4. Writes(in, i, at[2], path[1]) /\ at[2] \in 1..(Len(in) + 1)
  BY <1>2, <1>3
<1>5. at[2] \in (i + 1)..(Len(in) + 1)
  BY <1>4 DEF Writes
<1>6. b \in [1..(n + 1) -> 1..(Len(in) + 1)] /\ b[1] = at[2] /\ b[n + 1] = Len(in) + 1
  BY <1>1, <1>2, <1>3
<1>7. \A k \in 1..n : Writes(in, b[k], b[k + 1], Tail(path)[k])
  <2> TAKE k \in 1..n
  <2>1. b[k] = at[k + 1] /\ b[k + 1] = at[(k + 1) + 1] /\ k + 1 \in 1..(n + 1)
    BY <1>1
  <2>2. QED
    BY <1>1, <1>2, <2>1
<1> HIDE DEF b
<1>8. Spells(in, at[2], Tail(path), b)
  BY <1>6, <1>7 DEF Spells, n
<1>9. QED
  BY <1>4, <1>5, <1>8

LEMMA SpellsMore ==
  ASSUME NEW in \in Seq(Chars), NEW i \in 1..Len(in), NEW j \in 1..(Len(in) + 1),
         NEW c \in Chars, NEW rest \in Seq(Chars), NEW at,
         Writes(in, i, j, c), Spells(in, j, rest, at)
  PROVE  \E b : Spells(in, i, <<c>> \o rest, b)
<1> DEFINE n == Len(rest)
           path == <<c>> \o rest
           b == [k \in 1..(n + 2) |-> IF k = 1 THEN i ELSE at[k - 1]]
<1>1. /\ n \in Nat /\ Len(path) = n + 1 /\ path[1] = c
      /\ \A k \in 1..n : path[k + 1] = rest[k]
  BY Prepended
<1>2. /\ at \in [1..(n + 1) -> 1..(Len(in) + 1)] /\ at[1] = j /\ at[n + 1] = Len(in) + 1
      /\ \A k \in 1..n : Writes(in, at[k], at[k + 1], rest[k])
  BY DEF Spells
<1> HIDE DEF n, path
<1>3. b \in [1..(n + 2) -> 1..(Len(in) + 1)] /\ b[1] = i /\ b[n + 2] = Len(in) + 1
  <2>1. \A k \in 1..(n + 2) : b[k] \in 1..(Len(in) + 1)
    <3> TAKE k \in 1..(n + 2)
    <3>1. CASE k = 1
      BY <3>1
    <3>2. CASE k # 1
      <4>1. k - 1 \in 1..(n + 1)
        BY <1>1, <3>2
      <4>2. QED
        BY <1>2, <3>2, <4>1
    <3>3. QED
      BY <3>1, <3>2
  <2>2. n + 2 # 1 /\ (n + 2) - 1 = n + 1 /\ n + 2 \in 1..(n + 2) /\ 1 \in 1..(n + 2)
    BY <1>1
  <2>3. QED
    BY <1>2, <2>1, <2>2
<1>4. \A k \in 1..(n + 1) : Writes(in, b[k], b[k + 1], path[k])
  <2> TAKE k \in 1..(n + 1)
  <2>1. b[k + 1] = at[k]
    BY <1>1
  <2>2. CASE k = 1
    BY <1>1, <1>2, <1>3, <2>1, <2>2
  <2>3. CASE k # 1
    <3>1. b[k] = at[k - 1] /\ k - 1 \in 1..n /\ (k - 1) + 1 = k
      BY <1>1, <2>3
    <3>2. Writes(in, at[k - 1], at[(k - 1) + 1], rest[k - 1]) /\ path[(k - 1) + 1] = rest[k - 1]
      BY <1>1, <1>2, <3>1
    <3>3. QED
      BY <2>1, <3>1, <3>2
  <2>4. QED
    BY <2>2, <2>3
<1> HIDE DEF b
<1>5. Spells(in, i, path, b)
  <2>1. Len(path) + 1 = n + 2
    BY <1>1
  <2>2. QED
    BY <1>1, <1>3, <1>4, <2>1 DEF Spells
<1>6. QED
  BY <1>5 DEF path

\* A pair of digits is one character at most.
LEMMA ReadHexOne ==
  ASSUME NEW a, NEW b
  PROVE  ReadHex(a, b) \subseteq Chars /\ \A c, d \in ReadHex(a, b) : c = d
<1>1. \A x, y \in Hex : HexChar[x][y] \in Chars
  BY DEF HexChar, Hex, Digit, Chars, Token, Control
<1>2. "ctl" \in Chars
  BY DEF Chars, Control
<1>3. QED
  BY <1>1, <1>2 DEF ReadHex

LEMMA WritesChar ==
  ASSUME NEW in \in Seq(Chars), NEW i \in 1..Len(in), NEW j, NEW c, Writes(in, i, j, c)
  PROVE  c \in Chars
<1>1. "sp" \in Chars /\ in[i] \in Chars
  BY Classes, ElementOfSeq
<1>2. QED
  BY <1>1, ReadHexOne DEF Writes

\* One position of the recursion: a character and what follows it.
Goes(f, in, i, p) ==
  \E j \in (i + 1)..(Len(in) + 1) : \E c :
    Writes(in, i, j, c) /\ \E rest \in f[j] : p = <<c>> \o rest

LEMMA DecodeStepIs ==
  ASSUME NEW in \in Seq(Chars), NEW i \in 1..Len(in), NEW f, NEW p
  PROVE  p \in DecodeStep(f, in, i) <=> Goes(f, in, i, p)
<1> USE DEF Goes
<1>1. ~(i > Len(in)) /\ i \in Nat /\ Len(in) \in Nat /\ i + 1 \in (i + 1)..(Len(in) + 1)
  OBVIOUS
<1>2. CASE in[i] # "pct"
  <2> DEFINE d == IF in[i] = "plus" THEN "sp" ELSE in[i]
  <2>1. DecodeStep(f, in, i) = {<<d>> \o rest : rest \in f[i + 1]}
    BY <1>1, <1>2 DEF DecodeStep
  <2>2. \A j, c : Writes(in, i, j, c) <=> j = i + 1 /\ c = d
    BY <1>2 DEF Writes
  <2> HIDE DEF d
  <2>3. p \in DecodeStep(f, in, i) <=> \E rest \in f[i + 1] : p = <<d>> \o rest
    BY <2>1
  <2>4. ASSUME p \in DecodeStep(f, in, i)
        PROVE  \E j \in (i + 1)..(Len(in) + 1) : \E c :
                 Writes(in, i, j, c) /\ \E rest \in f[j] : p = <<c>> \o rest
    <3>1. Writes(in, i, i + 1, d) /\ \E rest \in f[i + 1] : p = <<d>> \o rest
      BY <2>2, <2>3, <2>4
    <3>2. QED
      BY <1>1, <3>1
  <2>5. ASSUME NEW j \in (i + 1)..(Len(in) + 1), NEW c,
               Writes(in, i, j, c), \E rest \in f[j] : p = <<c>> \o rest
        PROVE  p \in DecodeStep(f, in, i)
    <3>1. j = i + 1 /\ c = d
      BY <2>2, <2>5
    <3>2. QED
      BY <2>3, <2>5, <3>1
  <2>6. QED
    BY <2>4, <2>5
<1>3. CASE in[i] = "pct" /\ i + 2 > Len(in)
  <2>1. DecodeStep(f, in, i) = {}
    BY <1>1, <1>3 DEF DecodeStep
  <2>2. \A j \in (i + 1)..(Len(in) + 1) : j # i + 3
    BY <1>1, <1>3
  <2>3. \A j \in (i + 1)..(Len(in) + 1) : \A c : ~Writes(in, i, j, c)
    BY <1>3, <2>2 DEF Writes
  <2>4. QED
    BY <2>1, <2>3
<1>4. CASE in[i] = "pct" /\ ~(i + 2 > Len(in))
  <2>1. DecodeStep(f, in, i) =
          {<<c>> \o rest : c \in ReadHex(in[i + 1], in[i + 2]), rest \in f[i + 3]}
    BY <1>1, <1>4 DEF DecodeStep
  <2>2. i + 3 \in (i + 1)..(Len(in) + 1)
    BY <1>1, <1>4
  <2>3. \A j, c : Writes(in, i, j, c) <=> j = i + 3 /\ c \in ReadHex(in[i + 1], in[i + 2])
    BY <1>4 DEF Writes
  <2>4. p \in DecodeStep(f, in, i) <=>
          \E c \in ReadHex(in[i + 1], in[i + 2]), rest \in f[i + 3] : p = <<c>> \o rest
    BY <2>1
  <2>5. QED
    BY <2>2, <2>3, <2>4
<1>5. QED
  BY <1>2, <1>3, <1>4

\* Only one character can be read from a position, of one length.
LEMMA WritesOne ==
  ASSUME NEW in, NEW i, NEW j, NEW c, NEW k, NEW d, Writes(in, i, j, c), Writes(in, i, k, d)
  PROVE  j = k /\ c = d
<1>1. CASE in[i] = "pct"
  <2>1. j = i + 3 /\ k = i + 3 /\ c \in ReadHex(in[i + 1], in[i + 2])
        /\ d \in ReadHex(in[i + 1], in[i + 2])
    BY <1>1 DEF Writes
  <2>2. QED
    BY <2>1, ReadHexOne
<1>2. CASE in[i] # "pct"
  BY <1>2 DEF Writes
<1>3. QED
  BY <1>1, <1>2

\* From each position the recursion gives what is spelt from there, and once.
DecodedAt(f, in, i) ==
  /\ \A p : p \in f[i] <=> p \in Seq(Chars) /\ \E at : Spells(in, i, p, at)
  /\ \A p, q \in f[i] : p = q

LEMMA DecodedAtEnd ==
  ASSUME NEW in \in Seq(Chars), NEW f, f[Len(in) + 1] = {<<>>}
  PROVE  DecodedAt(f, in, Len(in) + 1)
<1> DEFINE n == Len(in) + 1
<1>1. n \in Nat /\ n \in 1..n /\ <<>> \in Seq(Chars) /\ Len(<<>>) = 0
  OBVIOUS
<1>2. Spells(in, n, <<>>, [k \in 1..1 |-> n])
  BY <1>1 DEF Spells
<1>3. ASSUME NEW p \in Seq(Chars), NEW at, Spells(in, n, p, at), p # <<>> PROVE FALSE
  <2>1. \E j \in (n + 1)..n : TRUE
    BY <1>1, <1>3, SpellsFirst
  <2>2. QED
    BY <1>1, <2>1
<1>4. QED
  BY <1>1, <1>2, <1>3 DEF DecodedAt

LEMMA DecodedBefore ==
  ASSUME NEW in \in Seq(Chars), NEW i \in 1..Len(in), NEW f, f[i] = DecodeStep(f, in, i),
         \A j \in (i + 1)..(Len(in) + 1) : DecodedAt(f, in, j)
  PROVE  DecodedAt(f, in, i)
<1>0. \A p : p \in f[i] <=> Goes(f, in, i, p)
  BY DecodeStepIs
<1>1. \A j \in (i + 1)..(Len(in) + 1) : j \in 1..(Len(in) + 1)
  OBVIOUS
<1>2. ASSUME NEW p, p \in f[i] PROVE p \in Seq(Chars) /\ \E at : Spells(in, i, p, at)
  <2>1. PICK j \in (i + 1)..(Len(in) + 1) : \E c :
               Writes(in, i, j, c) /\ \E rest \in f[j] : p = <<c>> \o rest
    BY <1>0, <1>2 DEF Goes
  <2>2. PICK c : Writes(in, i, j, c) /\ \E rest \in f[j] : p = <<c>> \o rest
    BY <2>1
  <2>3. PICK rest \in f[j] : p = <<c>> \o rest
    BY <2>2
  <2>4. rest \in Seq(Chars) /\ \E at : Spells(in, j, rest, at)
    BY <2>3 DEF DecodedAt
  <2>5. PICK at : Spells(in, j, rest, at)
    BY <2>4
  <2>6. c \in Chars
    BY <2>2, WritesChar
  <2>7. \E b : Spells(in, i, <<c>> \o rest, b)
    BY <1>1, <2>2, <2>4, <2>5, <2>6, SpellsMore
  <2>8. <<c>> \o rest \in Seq(Chars)
    BY <2>4, <2>6, Prepended
  <2>9. QED
    BY <2>3, <2>7, <2>8
<1>3. ASSUME NEW p \in Seq(Chars), NEW at, Spells(in, i, p, at) PROVE p \in f[i]
  <2>1. p # <<>>
    <3>1. p = <<>> => at[1] = Len(in) + 1 /\ at[1] = i
      BY <1>3 DEF Spells
    <3>2. QED
      BY <3>1
  <2>2. PICK j \in (i + 1)..(Len(in) + 1) :
               Writes(in, i, j, p[1]) /\ \E b : Spells(in, j, Tail(p), b)
    <3>1. i \in Nat
      OBVIOUS
    <3>2. QED
      BY <1>3, <2>1, <3>1, SpellsFirst
  <2>3. Tail(p) \in Seq(Chars) /\ p = <<p[1]>> \o Tail(p)
    BY <2>1
  <2>4. Tail(p) \in f[j]
    BY <2>2, <2>3 DEF DecodedAt
  <2>5. \E c : Writes(in, i, j, c) /\ \E rest \in f[j] : p = <<c>> \o rest
    BY <2>2, <2>3, <2>4
  <2>6. Goes(f, in, i, p)
    BY <2>5 DEF Goes
  <2>7. QED
    BY <1>0, <2>6
<1>4. ASSUME NEW p \in f[i], NEW q \in f[i] PROVE p = q
  <2>1. PICK j \in (i + 1)..(Len(in) + 1) : \E c :
               Writes(in, i, j, c) /\ \E rest \in f[j] : p = <<c>> \o rest
    BY <1>0 DEF Goes
  <2>2. PICK c : Writes(in, i, j, c) /\ \E rest \in f[j] : p = <<c>> \o rest
    BY <2>1
  <2>3. PICK k \in (i + 1)..(Len(in) + 1) : \E d :
               Writes(in, i, k, d) /\ \E rest \in f[k] : q = <<d>> \o rest
    BY <1>0 DEF Goes
  <2>4. PICK d : Writes(in, i, k, d) /\ \E rest \in f[k] : q = <<d>> \o rest
    BY <2>3
  <2>5. j = k /\ c = d
    BY <2>2, <2>4, WritesOne
  <2>6. \A x, y \in f[j] : x = y
    BY DEF DecodedAt
  <2>7. QED
    BY <2>2, <2>4, <2>5, <2>6
<1>5. QED
  BY <1>2, <1>3, <1>4 DEF DecodedAt

LEMMA DecodedEverywhere ==
  ASSUME NEW in \in Seq(Chars), NEW f,
         \A i \in 1..(Len(in) + 3) : f[i] = DecodeStep(f, in, i)
  PROVE  \A i \in 1..(Len(in) + 1) : DecodedAt(f, in, i)
<1> DEFINE n == Len(in) + 1
           T == {i \in 1..n : ~DecodedAt(f, in, i)}
<1> SUFFICES ASSUME T # {} PROVE FALSE
  OBVIOUS
<1>1. T \in SUBSET (1..n) /\ n \in Nat
  OBVIOUS
<1> HIDE DEF T
<1>2. PICK m \in T : \A j \in T : j <= m
  BY <1>1, GreatestElement
<1>3. m \in 1..n /\ ~DecodedAt(f, in, m)
  BY <1>2 DEF T
<1>4. CASE m = n
  <2>1. f[n] = {<<>>}
    <3>1. n \in 1..(Len(in) + 3) /\ n > Len(in)
      OBVIOUS
    <3>2. f[n] = DecodeStep(f, in, n)
      BY <3>1
    <3>3. QED
      BY <3>1, <3>2 DEF DecodeStep
  <2>2. QED
    BY <1>3, <1>4, <2>1, DecodedAtEnd
<1>5. CASE m # n
  <2>1. m \in 1..Len(in) /\ f[m] = DecodeStep(f, in, m)
    BY <1>3, <1>5
  <2>2. \A j \in (m + 1)..n : j \in 1..n /\ ~(j <= m)
    BY <1>3
  <2>3. \A j \in (m + 1)..n : DecodedAt(f, in, j)
    BY <1>2, <2>2 DEF T
  <2>4. QED
    BY <1>3, <2>1, <2>3, DecodedBefore
<1>6. QED
  BY <1>4, <1>5

\* url_decode gives exactly the paths that its text spells: it refuses a text only if none is
\* spelt, it loses or adds no character, and there is never a choice between two paths.
THEOREM DecodesExactly ==
  ASSUME NEW in \in Seq(Chars)
  PROVE  /\ \A path : path \in UrlDecode(in) <=>
                        path \in Seq(Chars) /\ \E at : Spells(in, 1, path, at)
         /\ \A path, other \in UrlDecode(in) : path = other
<1>1. Len(in) \in Nat /\ 1 \in 1..(Len(in) + 1)
  OBVIOUS
<1>2. PICK f : UrlDecode(in) = f[1] /\ \A i \in 1..(Len(in) + 3) : f[i] = DecodeStep(f, in, i)
  BY <1>1, DecodeRun
<1>3. DecodedAt(f, in, 1)
  BY <1>1, <1>2, DecodedEverywhere
<1>4. QED
  BY <1>2, <1>3 DEF DecodedAt

\* A name, a separator and an end, position by position.
LEMMA NameAndEnd ==
  ASSUME NEW name \in Seq(Chars), NEW c \in Chars, NEW end \in Seq(Chars)
  PROVE  LET path == name \o <<c>> \o end
             n == Len(name) + 1
         IN  /\ path \in Seq(Chars) /\ Len(path) = n + Len(end) /\ n \in 1..Len(path) /\ path[n] = c
             /\ \A k \in 1..Len(end) : path[n + k] = end[k]
             /\ \A k \in (n + 1)..Len(path) : k - n \in 1..Len(end) /\ path[k] = end[k - n]
<1> DEFINE first == name \o <<c>>
           path == first \o end
           n == Len(name) + 1
<1>1. <<c>> \in Seq(Chars) /\ Len(<<c>>) = 1 /\ <<c>>[1] = c
  OBVIOUS
<1>2. first \in Seq(Chars) /\ Len(first) = n /\ n \in 1..n /\ first[n] = c
  BY <1>1, ConcatProperties
<1> HIDE DEF first, n
<1>3. /\ path \in Seq(Chars) /\ Len(path) = n + Len(end) /\ path[n] = c
      /\ \A k \in 1..Len(path) : path[k] = IF k <= n THEN first[k] ELSE end[k - n]
  <2>1. /\ path \in Seq(Chars) /\ Len(path) = Len(first) + Len(end)
        /\ \A k \in 1..(Len(first) + Len(end)) :
             path[k] = IF k <= Len(first) THEN first[k] ELSE end[k - Len(first)]
    BY <1>2, ConcatProperties
  <2> HIDE DEF path
  <2>2. n \in Nat /\ Len(end) \in Nat /\ Len(first) = n /\ n \in 1..Len(path)
    BY <1>2, <2>1
  <2>3. QED
    BY <1>2, <2>1, <2>2
<1>4. Len(end) \in Nat /\ n \in Nat
  BY <1>2
<1> HIDE DEF path
<1>5. \A k \in (n + 1)..Len(path) : k - n \in 1..Len(end) /\ path[k] = end[k - n]
  BY <1>3, <1>4
<1>6. \A k \in 1..Len(end) : path[n + k] = end[k]
  <2> TAKE k \in 1..Len(end)
  <2>1. n + k \in (n + 1)..Len(path) /\ (n + k) - n = k
    BY <1>3, <1>4
  <2>2. QED
    BY <1>5, <2>1
<1>7. n \in 1..Len(path)
  BY <1>2, <1>3, <1>4
<1>8. QED
  BY <1>3, <1>5, <1>6, <1>7 DEF path, n, first

\* The type of a file goes by what follows the last dot of its last name, whatever dots and
\* slashes come before: a dot in a directory's name is none of the file's.
THEOREM ExtensionOfLastName ==
  ASSUME NEW name \in Seq(Chars), NEW ext \in Seq(Chars \ {"dot", "slash"})
  PROVE  /\ Extension(name \o <<"dot">> \o ext) = ext
         /\ Extension(name \o <<"slash">> \o ext) = <<>>
<1> DEFINE n == Len(name) + 1
           Dots(path) ==
             {i \in DOMAIN path : path[i] = "dot" /\ \A k \in i..Len(path) : path[k] # "slash"}
<1>1. /\ ext \in Seq(Chars) /\ n \in Nat /\ Len(ext) \in Nat
      /\ \A k \in 1..Len(ext) : ext[k] # "dot" /\ ext[k] # "slash"
  <2>1. \A k \in 1..Len(ext) : ext[k] \in Chars \ {"dot", "slash"}
    BY ElementOfSeq
  <2>2. QED
    BY <2>1
<1>2. "dot" \in Chars /\ "slash" \in Chars
  BY DEF Chars, Token
<1>3. Extension(name \o <<"dot">> \o ext) = ext
  <2> DEFINE path == name \o <<"dot">> \o ext
  <2>1. /\ path \in Seq(Chars) /\ Len(path) = n + Len(ext) /\ n \in 1..Len(path) /\ path[n] = "dot"
        /\ \A k \in 1..Len(ext) : path[n + k] = ext[k]
        /\ \A k \in (n + 1)..Len(path) : k - n \in 1..Len(ext) /\ path[k] = ext[k - n]
    BY <1>1, <1>2, NameAndEnd
  <2> HIDE DEF path, n
  <2>2. DOMAIN path = 1..Len(path)
    BY <2>1
  <2>3. \A k \in (n + 1)..Len(path) : path[k] # "dot" /\ path[k] # "slash"
    BY <1>1, <2>1
  <2>4. n \in Dots(path)
    <3>1. \A k \in n..Len(path) : path[k] # "slash"
      <4> TAKE k \in n..Len(path)
      <4>1. CASE k = n
        BY <2>1, <4>1
      <4>2. CASE k # n
        BY <1>1, <2>1, <2>3, <4>2
      <4>3. QED
        BY <4>1, <4>2
    <3>2. QED
      BY <2>1, <2>2, <3>1
  <2>5. \A k \in Dots(path) : k <= n /\ k \in Nat
    <3> TAKE k \in Dots(path)
    <3>1. k \in 1..Len(path) /\ path[k] = "dot"
      BY <2>2
    <3>2. QED
      BY <1>1, <2>1, <2>3, <3>1
  <2> DEFINE i == CHOOSE i \in Dots(path) : \A k \in Dots(path) : k <= i
  <2>6. i \in Dots(path) /\ \A k \in Dots(path) : k <= i
    <3> HIDE DEF Dots
    <3>1. QED
      BY <2>4, <2>5
  <2>7. i = n
    <3> HIDE DEF Dots, i
    <3>1. QED
      BY <1>1, <2>4, <2>5, <2>6
  <2>8. Extension(path) = SubSeq(path, 1 + n, Len(path))
    <3>1. Extension(path) = IF Dots(path) = {} THEN <<>> ELSE SubSeq(path, 1 + i, Len(path))
      BY DEF Extension
    <3> HIDE DEF Dots, i
    <3>2. QED
      BY <2>4, <2>7, <3>1
  <2> DEFINE sub == SubSeq(path, 1 + n, Len(path))
  <2>9. /\ sub \in Seq(Chars) /\ Len(sub) = Len(ext)
        /\ \A k \in 1..Len(ext) : sub[k] = path[n + k]
    <3>1. /\ sub \in Seq(Chars)
          /\ Len(sub) = IF 1 + n <= Len(path) THEN Len(path) - (1 + n) + 1 ELSE 0
          /\ \A k \in 1..(Len(path) - (1 + n) + 1) : sub[k] = path[(1 + n) + k - 1]
      BY <1>1, <2>1, SubSeqProperties
    <3> HIDE DEF sub
    <3>2. Len(sub) = Len(ext) /\ Len(path) - (1 + n) + 1 = Len(ext)
      BY <1>1, <2>1, <3>1
    <3>3. \A k \in 1..Len(ext) : (1 + n) + k - 1 = n + k
      BY <1>1
    <3>4. QED
      BY <3>1, <3>2, <3>3
  <2> HIDE DEF sub
  <2>10. sub = ext
    BY <1>1, <2>1, <2>9, SeqEqual
  <2>11. QED
    BY <2>8, <2>10 DEF sub, path
<1>4. Extension(name \o <<"slash">> \o ext) = <<>>
  <2> DEFINE path == name \o <<"slash">> \o ext
  <2>1. /\ path \in Seq(Chars) /\ n \in 1..Len(path) /\ path[n] = "slash"
        /\ \A k \in (n + 1)..Len(path) : k - n \in 1..Len(ext) /\ path[k] = ext[k - n]
    BY <1>1, <1>2, NameAndEnd
  <2> HIDE DEF path, n
  <2>2. ASSUME NEW i \in Dots(path) PROVE FALSE
    <3>1. i \in 1..Len(path) /\ path[i] = "dot" /\ \A k \in i..Len(path) : path[k] # "slash"
      BY <2>1
    <3>2. CASE i <= n
      BY <2>1, <3>1, <3>2
    <3>3. CASE ~(i <= n)
      <4>1. i \in (n + 1)..Len(path)
        BY <1>1, <3>1, <3>3
      <4>2. QED
        BY <1>1, <2>1, <3>1, <4>1
    <3>4. QED
      BY <3>2, <3>3
  <2>3. Extension(path) = <<>>
    <3>1. Dots(path) = {}
      BY <2>2
    <3>2. QED
      BY <3>1 DEF Extension
  <2>4. QED
    BY <2>3 DEF path
<1>5. QED
  BY <1>3, <1>4
=============================================================================
