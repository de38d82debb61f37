--------------------------- MODULE MCHttpSession ---------------------------
EXTENDS HttpSession, SequencesExt

Version == <<"H", "T", "T", "P", "slash", "one", "dot", "one">>
Line == <<"letter", "sp", "slash", "sp">> \o Version \o <<"cr", "lf">>
Short == Line \o <<"cr", "lf">>
Long == Line \o <<"letter", "colon", "sp", "letter", "cr", "lf", "sp", "letter", "cr", "lf",
                  "cr", "lf">>

\* t with one character from position i on replaced, left out, or doubled.
Variants(t, i) ==
  {[t EXCEPT ![k] = c] : k \in i..Len(t), c \in Chars}
    \cup {RemoveAt(t, k) : k \in i..Len(t)}
    \cup {InsertAt(t, k, t[k]) : k \in i..Len(t)}

\* Requests for other paths: escaped, with spaces, relative, with dots, or refused.
Escaped(a, b) == <<"pct", a, b>>
Uris ==
  {<<>>, <<"slash", "letter">>, <<"letter">>, <<"plus">>, <<"slash", "plus">>,
   Escaped("two", "f"), Escaped("two", "f") \o <<"letter", "dot", "e">>,
   <<"slash">> \o Escaped("two", "e") \o <<"dot">>, <<"slash", "dot", "letter", "slash">>,
   <<"slash">> \o Escaped("e", "plus"), <<"slash">> \o Escaped("plus", "e"),
   <<"slash">> \o Escaped("letter", "e"), <<"slash", "pct", "two">>}
Ask(uri) == <<"letter", "sp">> \o uri \o <<"sp">> \o Version \o <<"cr", "lf", "cr", "lf">>

SomeRequests == Variants(Short, 1) \cup Variants(Long, Len(Line) + 1) \cup {Ask(u) : u \in Uris}
OneRequest == {Short}

\* The files: the index, of the type html, one without an extension, one with another.
Html == <<"letter">>
Index == <<"letter", "dot">> \o Html
SomeFiles ==
  <<"slash">> \o Index :> <<1>> @@ <<"slash", "sp">> :> <<2, 2>>
    @@ <<"slash", "letter", "dot", "e">> :> <<>> @@ <<"slash", "dot", "letter", "slash">> \o Index :> <<3>>
Types == Html :> "text/html"
-----------------------------------------------------------------------------
\* Every way to write a path in a uri.
Written(c) ==
  CASE c = "dot" -> {<<"dot">>, Escaped("two", "e")}
    [] c = "slash" -> {<<"slash">>, Escaped("two", "f")}
    [] c = "sp" -> {<<"plus">>}
    [] c = "high" -> {<<"high">>} \cup {Escaped(a, b) : a \in {"e", "f"}, b \in Hex}
    [] c = "ctl" -> {Escaped("one", d) : d \in Hex}
    [] OTHER -> {<<c>>}
Uri(path) ==
  LET upto[i \in 0..Len(path)] ==
        IF i = 0 THEN {<<>>} ELSE {u \o w : u \in upto[i - 1], w \in Written(path[i])}
  IN  upto[Len(path)]

\* url_decode gives the path that a uri was made from.
ASSUME DecodeInverts ==
  \A path \in BoundedSeq({"dot", "slash", "sp", "high", "ctl", "letter", "two"}, 3) :
    \A uri \in Uri(path) : UrlDecode(uri) = {path}

\* The type goes by what follows the last dot of the last name.
ASSUME ExtensionIsOfLastName ==
  \A name \in BoundedSeq({"dot", "slash", "letter"}, 3), ext \in BoundedSeq({"letter", "e"}, 2) :
    /\ Extension(name \o <<"dot">> \o ext) = ext
    /\ Extension(name \o <<"slash">> \o ext) = <<>>
=============================================================================
