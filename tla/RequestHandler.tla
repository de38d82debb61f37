--------------------------- MODULE RequestHandler ---------------------------
(***************************************************************************)
(* The request handler and the replies of the http example: a uri is       *)
(* decoded to a path, and the path names a file whose content and type     *)
(* are the reply, or what is wrong.  The text of a stock reply is its      *)
(* status, a header its value.                                             *)
(***************************************************************************)
EXTENDS RequestParser

CONSTANTS
  Files,      \* below doc_root_: the content of each path
  IndexHtml,  \* the name that a directory stands for
  MimeTypes   \* the type of each extension that has one

ASSUME RequestHandlerAssumption ==
  /\ \A path \in DOMAIN Files : path \in Seq(Chars) /\ Len(Files[path]) \in Nat
  /\ IndexHtml \in Seq(Chars)
-----------------------------------------------------------------------------
\* What a number of two digits is as a character; one of a single digit is a control.
HexChar ==
  [one |-> [d \in Hex |-> "ctl"],
   two |-> [one |-> "letter", two |-> "tspecial", e |-> "dot", f |-> "slash"],
   e   |-> [d \in Hex |-> "high"],
   f   |-> [d \in Hex |-> "high"]]

\* The number that the stream reads from two characters, if there is one: a second
\* character that is no digit ends it, and is lost.
ReadHex(a, b) ==
  IF a \in Hex THEN {IF b \in Hex THEN HexChar[a][b] ELSE "ctl"}
  ELSE IF a = "plus" /\ b \in Hex THEN {"ctl"} ELSE {}

\* url_decode: nothing, or the path.
UrlDecode(in) ==
  LET from[i \in 1..(Len(in) + 3)] ==
        IF i > Len(in) THEN {<<>>}
        ELSE IF in[i] # "pct"
        THEN {<<IF in[i] = "plus" THEN "sp" ELSE in[i]>> \o rest : rest \in from[i + 1]}
        ELSE IF i + 2 > Len(in) THEN {}
        ELSE {<<c>> \o rest : c \in ReadHex(in[i + 1], in[i + 2]), rest \in from[i + 3]}
  IN  from[1]

\* The path must be absolute and not contain "..".
IsPath(path) ==
  /\ path # <<>> /\ path[1] = "slash"
  /\ ~\E i \in 1..(Len(path) - 1) : path[i] = "dot" /\ path[i + 1] = "dot"

\* What follows the last dot if no slash does.
Extension(path) ==
  LET dots == {i \in DOMAIN path : path[i] = "dot" /\ \A k \in i..Len(path) : path[k] # "slash"}
  IN  IF dots = {} THEN <<>>
      ELSE SubSeq(path, 1 + (CHOOSE i \in dots : \A k \in dots : k <= i), Len(path))

MimeType(extension) ==
  IF extension \in DOMAIN MimeTypes THEN MimeTypes[extension] ELSE "text/plain"
-----------------------------------------------------------------------------
NewReply == [status |-> "none", headers |-> <<>>, content |-> <<>>]

\* reply::reset keeps the status.
Reset(rep) == [rep EXCEPT !.headers = <<>>, !.content = <<>>]

StockReply(status) == [status |-> status, headers |-> <<1, "text/html">>, content |-> <<status>>]

ToBuffers(rep) == <<rep.status>> \o rep.headers \o <<rep.content>>

\* handle_request: the content of the file comes behind what rep has.
HandleRequest(uri, rep) ==
  LET path == CHOOSE p \in UrlDecode(uri) : TRUE
      full == IF path[Len(path)] = "slash" THEN path \o IndexHtml ELSE path
      content == rep.content \o Files[full]
  IN  IF UrlDecode(uri) = {} THEN StockReply("bad_request")
      ELSE IF ~IsPath(path) THEN StockReply("bad_request")
      ELSE IF full \notin DOMAIN Files THEN StockReply("not_found")
      ELSE [status |-> "ok", content |-> content,
            headers |-> <<Len(content), MimeType(Extension(full))>>]
=============================================================================
