--------------------------- MODULE RequestParser ---------------------------
(***************************************************************************)
(* The request parser of the http example as a transition table, and, to   *)
(* compare it with, what a complete request is.  A character stands for    *)
(* its class: what is_char, is_ctl, is_tspecial, is_digit and the literals *)
(* of consume() tell apart, and url_decode after it.  Of the request the   *)
(* uri is kept, and the number of headers, which consume() tests and       *)
(* relies on; it runs on signed characters ("high" is negative, so neither *)
(* is_char nor is_ctl).                                                    *)
(***************************************************************************)
EXTENDS Naturals, Sequences

Digit == {"one", "two"}
Hex == Digit \cup {"e", "f"}
Token == {"H", "T", "P", "dot", "pct", "plus", "letter"} \cup Hex
                                                      \* is_char, no is_ctl, no is_tspecial
Blank == {"sp", "tab"}
Control == {"cr", "lf", "tab", "ctl"}                 \* is_ctl
Chars == Token \cup Blank \cup Control \cup {"slash", "colon", "tspecial", "high"}
Text == Chars \ Control

\* Of each state what a character leads to; any other character is invalid.  The
\* space after the method leads to uri, so that nothing leads to uri_start.
LineMoves ==
  [method_start             |-> {<<Token, "method">>},
   method                   |-> {<<Token, "method">>, <<{"sp"}, "uri">>},
   uri_start                |-> {<<Text, "uri">>},
   uri                      |-> {<<Text \ {"sp"}, "uri">>, <<{"sp"}, "http_version_h">>},
   http_version_h           |-> {<<{"H"}, "http_version_t_1">>},
   http_version_t_1         |-> {<<{"T"}, "http_version_t_2">>},
   http_version_t_2         |-> {<<{"T"}, "http_version_p">>},
   http_version_p           |-> {<<{"P"}, "http_version_slash">>},
   http_version_slash       |-> {<<{"slash"}, "http_version_major_start">>},
   http_version_major_start |-> {<<Digit, "http_version_major">>},
   http_version_major       |-> {<<Digit, "http_version_major">>,
                                 <<{"dot"}, "http_version_minor_start">>},
   http_version_minor_start |-> {<<Digit, "http_version_minor">>},
   http_version_minor       |-> {<<Digit, "http_version_minor">>,
                                 <<{"cr"}, "expecting_newline_1">>},
   expecting_newline_1      |-> {<<{"lf"}, "header_line_start">>}]

\* header_lws needs a header to continue.
HeaderMoves(headers) ==
  [header_line_start        |-> {<<{"cr"}, "expecting_newline_3">>, <<Token, "header_name">>,
                                 <<IF headers > 0 THEN Blank ELSE {}, "header_lws">>},
   header_lws               |-> {<<{"cr"}, "expecting_newline_2">>, <<Blank, "header_lws">>,
                                 <<Text \ {"sp"}, "header_value">>},
   header_name              |-> {<<Token, "header_name">>,
                                 <<{"colon"}, "space_before_header_value">>},
   space_before_header_value |-> {<<{"sp"}, "header_value">>},
   header_value             |-> {<<{"cr"}, "expecting_newline_2">>, <<Text, "header_value">>},
   expecting_newline_2      |-> {<<{"lf"}, "header_line_start">>},
   expecting_newline_3      |-> {<<{"lf"}, "complete">>}]

Moves(state, headers) ==
  IF state \in DOMAIN LineMoves THEN LineMoves[state] ELSE HeaderMoves(headers)[state]

States == DOMAIN LineMoves \cup DOMAIN HeaderMoves(0)
Results == {"true", "false", "indeterminate"}
Fresh == [state |-> "method_start", uri |-> <<>>, headers |-> 0, result |-> "indeterminate"]

\* p with what the character adds to the request: one more to the uri, or a header.
Recorded(p, c) ==
  CASE p.state \in {"uri_start", "uri"} /\ c # "sp" -> [p EXCEPT !.uri = Append(@, c)]
    [] p.state = "header_line_start" /\ c \in Token -> [p EXCEPT !.headers = @ + 1]
    [] OTHER -> p

\* Mutant of consume(): a continuation line needs no header before it.
LaxConsume(p, c) ==
  LET next == {m[2] : m \in {n \in Moves(p.state, 1) : c \in n[1]}} IN
  IF next = {} THEN [p EXCEPT !.result = "false"]
  ELSE IF next = {"complete"} THEN [p EXCEPT !.result = "true"]
  ELSE [Recorded(p, c) EXCEPT !.state = CHOOSE s \in next : TRUE, !.result = "indeterminate"]

\* consume(): the state stays when the result is true or false.
Consume(p, c) ==
  LET next == {m[2] : m \in {n \in Moves(p.state, p.headers) : c \in n[1]}} IN
  IF next = {} THEN [p EXCEPT !.result = "false"]
  ELSE IF next = {"complete"} THEN [p EXCEPT !.result = "true"]
  ELSE [Recorded(p, c) EXCEPT !.state = CHOOSE s \in next : TRUE, !.result = "indeterminate"]

\* parse(): consume until the result is determinate or the input ends.
Parse(p, input) ==
  LET after[i \in 0..Len(input)] ==
        IF i = 0 THEN [p EXCEPT !.result = "indeterminate"]
        ELSE LET q == after[i - 1] IN
             IF q.result = "indeterminate" THEN Consume(q, input[i]) ELSE q
  IN  after[Len(input)]
-----------------------------------------------------------------------------
(* What a request is, line by line *)

All(l, from, to, S) == \A i \in from..to : l[i] \in S

\* Method, uri and version, separated by single spaces; the uri may be empty.
IsRequestLine(l) ==
  \E a, b, d \in 1..Len(l) :
    /\ 1 < a /\ a < b /\ b + 6 < d /\ d < Len(l)
    /\ l[a] = "sp" /\ l[b] = "sp" /\ l[d] = "dot"
    /\ All(l, 1, a - 1, Token) /\ All(l, a + 1, b - 1, Text \ {"sp"})
    /\ SubSeq(l, b + 1, b + 5) = <<"H", "T", "T", "P", "slash">>
    /\ All(l, b + 6, d - 1, Digit) /\ All(l, d + 1, Len(l), Digit)

\* A name, a colon, a space and a value; or, after another header, blanks and more
\* of its value.
IsHeaderLine(l, first) ==
  \/ \E c \in 2..(Len(l) - 1) :
       /\ l[c] = "colon" /\ l[c + 1] = "sp"
       /\ All(l, 1, c - 1, Token) /\ All(l, c + 2, Len(l), Text)
  \/ ~first /\ \E n \in 1..Len(l) : All(l, 1, n, Blank) /\ All(l, n + 1, Len(l), Text)

\* The uri of a text that begins with a request line.
UriOf(t) ==
  LET First(from) == CHOOSE i \in from..Len(t) : t[i] = "sp" /\ All(t, from, i - 1, Chars \ {"sp"})
  IN  SubSeq(t, First(1) + 1, First(First(1) + 1) - 1)

\* t holds a request: lines ended by cr lf, of which the last one is empty.
IsRequest(t) ==
  LET cuts == {i \in 1..(Len(t) - 1) : t[i] = "cr" /\ t[i + 1] = "lf"}
      Start(e) == IF \A c \in cuts : c >= e THEN 1
                  ELSE 2 + CHOOSE c \in cuts : c < e /\ \A k \in cuts : k < e => k <= c
      Line(e) == SubSeq(t, Start(e), e - 1)
      Nth(e) == {c \in cuts : c < e}
  IN \E end \in cuts :
       /\ Nth(end) # {} /\ Line(end) = <<>>
       /\ \A e \in Nth(end) :
            IF Nth(e) = {} THEN IsRequestLine(Line(e))
            ELSE IsHeaderLine(Line(e), \A c \in Nth(e) : Nth(c) = {})
=============================================================================
