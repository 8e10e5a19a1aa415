----------------------------- MODULE BufferedIo -----------------------------
(***************************************************************************)
(* A buffered stream (src/sio/syncio_buffered.c) on top of a connection to *)
(* a server.  The stream hands out bytes as they come in transparent mode  *)
(* and lines otherwise.  It reads ahead only for lines, and what was read  *)
(* ahead stays in its ring buffer, even over the end of the connection.    *)
(*                                                                         *)
(* The connection (src/sio/syncio_socket.c or syncio_tls.c over it) is     *)
(* external: it delivers the server's answer in portions of any size and   *)
(* may be closed, break or fall silent at any moment.  A stream has TLS or *)
(* has not, for good; TLS gives up a connection that has fallen silent,    *)
(* with the same error as one that has broken.                             *)
(*                                                                         *)
(* The answer is a sequence of tokens [k, n, c].  A token of kind "data"   *)
(* is a piece of a body that does not end a line; every other kind is a    *)
(* line of text with its LF, n being the number in it, if any.  A line     *)
(* arrives whole: where it is cut into portions makes no difference to a   *)
(* reader that collects until LF, unless the stream ends within it, which  *)
(* HttpSession looks at.  c is the connection a token was sent on, which   *)
(* only the properties look at.                                            *)
(***************************************************************************)
EXTENDS Integers, Sequences, SequencesExt

CONSTANTS Responses,  \* the answers a server may give, without c
          BufSize,    \* tokens the read buffer takes, 1024 bytes in the code
          MaxConn     \* bound on the number of connections

Kinds == {"status", "field", "length", "chunked", "blank", "size", "data"}

ASSUME BufferedIoAssumption ==
  /\ BufSize \in Nat \ {0} /\ MaxConn \in Nat \ {0}
  /\ \A r \in Responses : r \in Seq([k : Kinds, n : Nat])

\* Results of the calls: at least 0, or one of the errors.
ErrEof == -1       \* GWEN_ERROR_EOF
ErrIo == -2        \* GWEN_ERROR_IO, GWEN_ERROR_SSL
ErrTimeout == -3   \* GWEN_ERROR_TIMEOUT and all others of the connection:
                   \* NOT_CONNECTED, SSL_PREMATURE_CLOSE

VARIABLES conn,       \* the connection: its number, whether it has TLS, the
                      \* server's answer and what is still to be delivered,
                      \* how it has ended
          readBuffer  \* xio->readBuffer

Tagged(r, c) == [i \in DOMAIN r |-> [k |-> r[i].k, n |-> r[i].n, c |-> c]]

NoConn(tls) ==
  [no |-> 0, tls |-> tls, full |-> <<>>, rest |-> <<>>, end |-> "open"]

Token == [k : Kinds, n : Nat, c : 1..MaxConn]

Connection == [no : 0..MaxConn, tls : BOOLEAN, full : Seq(Token),
               rest : Seq(Token), end : {"open", "close", "reset", "silent"}]

BufferedTypeOK ==
  /\ conn \in Connection /\ (conn.end = "silent" => conn.tls)
  /\ readBuffer \in Seq(Token) /\ Len(readBuffer) <= BufSize

BufferedInit == (\E tls \in BOOLEAN : conn = NoConn(tls)) /\ readBuffer = <<>>

-----------------------------------------------------------------------------
(* The connection                                                          *)

BaseConnect ==
  /\ conn.no < MaxConn
  /\ \E r \in Responses :
       LET f == Tagged(r, conn.no + 1)
       IN  conn' = [no |-> conn.no + 1, tls |-> conn.tls, full |-> f,
                    rest |-> f, end |-> "open"]

\* The portions a read of at most size tokens may get.
Portions(size) ==
  IF conn.end = "open"
  THEN {SubSeq(conn.rest, 1, n) : n \in {m \in 1..size : m <= Len(conn.rest)}}
  ELSE {}

BaseRead(got) ==
  conn' = [conn EXCEPT !.rest = SubSeq(@, Len(got) + 1, Len(@))]

\* A read that gets nothing: the end of the stream (0) or an error.  When the
\* socket's read times out below gnutls_record_recv(), GWEN_SyncIo_Tls_Read
\* says GWEN_ERROR_SSL and ends the connection.
BaseEnds(r) ==
  \/ /\ r = 0 /\ conn.end \in {"open", "close"}
     /\ conn' = [conn EXCEPT !.end = "close"]
  \/ /\ r = ErrIo /\ conn.end \in {"open", "reset"}
     /\ conn' = [conn EXCEPT !.end = "reset"]
  \/ /\ r = ErrIo /\ conn.end = "open" /\ conn.tls
     /\ conn' = [conn EXCEPT !.end = "silent"]
  \/ /\ r = ErrTimeout /\ (conn.end = "open" \/ conn.tls)
     /\ UNCHANGED conn

\* What has not been read of the answer will not come: the connection was
\* closed, broke, or was given up by TLS.
CutShort ==
  /\ conn.rest # <<>>
  /\ conn.end \in {"close", "reset"} \/ (conn.tls /\ conn.end = "silent")

-----------------------------------------------------------------------------
(* GWEN_SyncIo_Buffered_Read                                               *)

\* Slip: one more than the free room is asked for.
MutFill ==
  /\ readBuffer = <<>>
  /\ \E got \in Portions(BufSize + 1) : BaseRead(got) /\ readBuffer' = got

\* Line mode, nothing in the buffer: it is filled by one read.
Fill ==
  /\ readBuffer = <<>>
  /\ \E got \in Portions(BufSize) : BaseRead(got) /\ readBuffer' = got

\* Line mode: what is returned ends with the first LF, or is all there is.
IsLine(t) == t.k # "data"
HasLine(s) == s # <<>> /\ IsLine(Last(s))

Piece ==
  LET ends == {i \in DOMAIN readBuffer : IsLine(readBuffer[i])}
      n == IF ends = {} THEN Len(readBuffer)
           ELSE CHOOSE i \in ends : \A j \in ends : i <= j
  IN  SubSeq(readBuffer, 1, n)

TakePiece ==
  /\ readBuffer # <<>>
  /\ readBuffer' = SubSeq(readBuffer, Len(Piece) + 1, Len(readBuffer))
  /\ UNCHANGED conn

\* Transparent mode: the buffer is emptied first, then bypassed.
Gets(size) ==
  IF readBuffer = <<>> THEN Portions(size)
  ELSE {SubSeq(readBuffer, 1,
               IF size < Len(readBuffer) THEN size ELSE Len(readBuffer))}

TakeBytes(got) ==
  \/ readBuffer = <<>> /\ BaseRead(got) /\ UNCHANGED readBuffer
  \/ /\ readBuffer # <<>>
     /\ readBuffer' = SubSeq(readBuffer, Len(got) + 1, Len(readBuffer))
     /\ UNCHANGED conn

\* Either mode: an empty buffer and a connection that gives nothing.
NothingRead(r) == readBuffer = <<>> /\ BaseEnds(r) /\ UNCHANGED readBuffer
=============================================================================
