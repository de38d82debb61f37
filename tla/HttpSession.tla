---------------------------- MODULE HttpSession ----------------------------
(***************************************************************************)
(* A session of the http example: a client sends its request, the network  *)
(* delivers it in pieces, and server_work parses what each read brings and *)
(* answers.  One work handler serves session after session.                *)
(***************************************************************************)
EXTENDS RequestHandler

CONSTANTS
  Requests,    \* the texts a client may send
  BufferSize,  \* capacity of the read buffer
  MaxSessions  \* bound: sessions one after the other

ASSUME HttpSessionAssumption ==
  /\ BufferSize \in Nat \ {0} /\ MaxSessions \in Nat
  /\ \A r \in Requests : r \in Seq(Chars)

VARIABLES
  phase,    \* of the handler: free, reading, writing, closed
  request,  \* what the client sends in this session
  read,     \* characters of it that were read
  piece,    \* what the last read brought
  work,     \* the work handler: request_parser_ with request_, and reply_
  sent,     \* the buffers of the answer, if there is one
  sessions  \* sessions so far

vars == <<phase, request, read, piece, work, sent, sessions>>

\* The states in which consume() uses headers.back(): request_ and request_parser_ are
\* never reset one without the other.
NeedHeader == {"header_lws", "header_name", "space_before_header_value", "header_value"}

TypeOK ==
  /\ phase \in {"free", "reading", "writing", "closed"}
  /\ request \in Seq(Chars) /\ read \in 0..Len(request)
  /\ piece \in Seq(Chars) /\ Len(piece) <= BufferSize
  /\ work.parser \in [state : States, uri : Seq(Text), headers : Nat, result : Results]
  /\ work.parser.state \in NeedHeader => work.parser.headers > 0
  /\ work.reply.status \in {"none", "ok", "not_found", "bad_request"}
  /\ sessions \in 0..MaxSessions

Init ==
  /\ phase = "free" /\ request = <<>> /\ read = 0 /\ piece = <<>>
  /\ work = [parser |-> Fresh, reply |-> NewReply] /\ sent = <<>> /\ sessions = 0
-----------------------------------------------------------------------------
Least(a, b) == IF a < b THEN a ELSE b

\* Mutant of on_clear: the reply of the last session stays.
HalfClear(w) == [w EXCEPT !.parser = Fresh]

\* on_clear
OnClear(w) == [parser |-> Fresh, reply |-> Reset(w.reply)]

\* bind() calls on_clear, on_open starts to read.
Open(r) ==
  /\ phase = "free" /\ sessions < MaxSessions
  /\ phase' = "reading" /\ sessions' = sessions + 1
  /\ request' = r /\ work' = OnClear(work)
  /\ UNCHANGED <<read, piece, sent>>

\* on_read of the next n characters.  Unless the parser has come to an end the
\* work handler is cleared before it reads on.
Read(n) ==
  LET text == SubSeq(request, read + 1, read + n)
      p == Parse(work.parser, text)
      Answer(rep) ==
        work' = [parser |-> p, reply |-> rep] /\ sent' = ToBuffers(rep) /\ phase' = "writing"
  IN /\ phase = "reading"
     /\ read' = read + n /\ piece' = text
     /\ \/ p.result = "true" /\ Answer(HandleRequest(p.uri, work.reply))
        \/ p.result = "false" /\ Answer(StockReply("bad_request"))
        \/ /\ p.result = "indeterminate"
           /\ work' = OnClear([work EXCEPT !.parser = p])
           /\ UNCHANGED <<sent, phase>>
     /\ UNCHANGED <<request, sessions>>

\* on_write closes the session, and so do an error, the client and a timeout.  The
\* work handler stays as it is.
Close ==
  /\ phase \in {"reading", "writing"}
  /\ phase' = "closed"
  /\ UNCHANGED <<request, read, piece, work, sent, sessions>>

\* The handler goes back to the pool, ready for another client.
Recycle ==
  /\ phase = "closed"
  /\ phase' = "free" /\ request' = <<>> /\ read' = 0 /\ piece' = <<>> /\ sent' = <<>>
  /\ UNCHANGED <<work, sessions>>

Next ==
  \/ \E r \in Requests : Open(r)
  \/ \E n \in 1..Least(BufferSize, Len(request) - read) : Read(n)
  \/ Close
  \/ Recycle

Spec == Init /\ [][Next]_vars
-----------------------------------------------------------------------------
(* Properties *)

\* A read that brought a whole request is answered with what the request asks for, and
\* any other read with bad_request or not at all, whatever the reads and the sessions
\* before it have left in the work handler.
WholeReadIsAnswered ==
  /\ TypeOK
  /\ piece # <<>> =>
       IF IsRequest(piece) THEN sent = ToBuffers(HandleRequest(UriOf(piece), NewReply))
       ELSE sent \in {<<>>, ToBuffers(StockReply("bad_request"))}

\* request_parser.hpp says of parse() that it answers false of invalid data, and
\* indeterminate when more is required.  Not an invariant of the session.
InvalidMeansInvalid == sent = ToBuffers(StockReply("bad_request")) => ~IsRequest(request)
=============================================================================
