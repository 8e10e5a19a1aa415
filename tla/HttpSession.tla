---------------------------- MODULE HttpSession -----------------------------
(***************************************************************************)
(* The HTTP client: GWEN_HTTP_SESSION (src/sio/httpsession.c) on an HTTP   *)
(* stream (src/sio/syncio_http.c) on a buffered stream (BufferedIo).  The  *)
(* session sends a request and receives the answer into memory or into a   *)
(* file, and closes the connection; the streams live as long as the        *)
(* session does.  The passive side (a server's session) and chunked output *)
(* are left out.                                                           *)
(*                                                                         *)
(* A call runs from "idle" through the steps of its reads and writes, each *)
(* of which is one read or write of the layer below.  GWEN_SyncIo_Http_    *)
(* Read is the part from pc "read" back to Returned.                       *)
(***************************************************************************)
EXTENDS BufferedIo

CONSTANTS ReadSize,  \* tokens a caller asks for at a time, 1023 bytes or more
          PartLen,   \* units of a part of a request
          MaxReq     \* bound on the number of requests

\* Line e ends the header of the answer r; k is in this header.
EndOfHeader(r, e) ==
  r[e].k = "blank"
  /\ \A i \in 2..(e - 1) : r[i].k \in {"field", "length", "chunked"}
InHeader(r, e, k) == \E i \in 2..(e - 1) : r[i].k = k

\* The body is all there is after the header, its length as stated, if it is.
Plain(r, e) ==
  /\ ~InHeader(r, e, "chunked")
  /\ \A i \in 2..(e - 1) : r[i].k = "length" => r[i].n = Len(r) - e
  /\ \A i \in (e + 1)..Len(r) : r[i].k = "data"

\* Line i states the size of a chunk, or an empty line does before it.
AtSize(r, i) ==
  \/ i <= Len(r) /\ r[i].k = "size"
  \/ i < Len(r) /\ r[i].k = "blank" /\ r[i + 1].k = "size"

\* The chunk whose size is in line i, or the end of all chunks.
Chunk(r, i) ==
  IF r[i].n = 0 THEN i = Len(r) - 1 /\ r[Len(r)].k = "blank"
  ELSE LET end == i + r[i].n + 1 IN
       /\ end <= Len(r) /\ r[end].k = "blank" /\ AtSize(r, end + 1)
       /\ \A j \in (i + 1)..(end - 1) : r[j].k = "data"

Chunked(r, e) ==
  /\ InHeader(r, e, "chunked") /\ ~InHeader(r, e, "length")
  /\ AtSize(r, e + 1)
  /\ \A i \in (e + 1)..Len(r) : r[i].k = "size" => Chunk(r, i)

\* An answer begins with a status line, of HTTP/1.0 or later: GWEN_SyncIo_
\* Http_Read reads no header after one that says HTTP/0.9, and returns 0 with
\* the mode unchanged, which is left out.  One that reports success has a
\* header and a body in one of the forms of HTTP; nothing is assumed of what
\* follows any other status line.
WellFormed(r) ==
  /\ r # <<>> /\ r[1].k = "status"
  /\ r[1].n \in 200..299 =>
       \E e \in 2..Len(r) :
         EndOfHeader(r, e) /\ (Plain(r, e) \/ Chunked(r, e))

ASSUME HttpAssumption ==
  /\ {ReadSize, PartLen, MaxReq} \subseteq Nat \ {0}
  /\ \A r \in Responses : WellFormed(r)

ErrInvalid == -4   \* GWEN_ERROR_INVALID
ErrBadData == -5   \* GWEN_ERROR_BAD_DATA
ErrGeneric == -6   \* GWEN_ERROR_GENERIC
ErrAborted == -7   \* GWEN_ERROR_USER_ABORTED
ErrNotConn == -8   \* GWEN_ERROR_NOT_CONNECTED
ErrFile == -9      \* errors of the file the answer is written to
Errors == -9..-1

VARIABLES http,   \* the HTTP stream
          call,   \* the call in progress and its locals
          res,    \* the result of the last call
          out,    \* the units written on this connection
          reqs,   \* the units of all requests begun on it
          taint,  \* why its answer may not be the one to the request
          count   \* requests so far

vars == <<conn, readBuffer, http, call, res, out, reqs, taint, count>>

Modes == {"Idle", "Body", "ChunkSize", "Chunk", "Error"}
LinePCs == {"status", "header", "csize", "csize2", "trail", "last"}
BytePCs == {"chunk", "body"}
WritePCs == {"command", "headerOut", "bodyOut"}
RecvOps == {"recv", "recvFile"}

NewHttp == [connected |-> FALSE, readMode |-> "Idle", writeMode |-> "Idle",
            bodySize |-> -1, chunkSize |-> -1, code |-> 0, length |-> -1]
NoCall == [pc |-> "idle", op |-> "none", line |-> <<>>, hdr |-> <<>>,
           got |-> <<>>, body |-> <<>>, size |-> -1, todo |-> <<>>]
NoRes == [op |-> "none", rv |-> 0, body |-> <<>>, file |-> FALSE]

PCs == {"idle", "dead", "read", "write"} \cup LinePCs \cup BytePCs \cup WritePCs
Unit == WritePCs \X (1..PartLen)

TypeOK ==
  /\ BufferedTypeOK
  /\ http \in [connected : BOOLEAN, readMode : Modes,
               writeMode : {"Idle", "Body", "Error"}, bodySize : Int,
               chunkSize : Nat \cup {-1}, code : Nat, length : Nat \cup {-1}]
  /\ call \in [pc : PCs, op : {"none", "send"} \cup RecvOps,
               line : Seq(Token), hdr : Seq(Token), got : Seq(Token),
               body : Seq(Token), size : Nat \cup {-1}, todo : Seq(Unit)]
  /\ res \in [op : {"none", "send", "test"} \cup RecvOps,
              rv : Errors \cup Nat, body : Seq(Token), file : BOOLEAN]
  /\ out \in Seq(Unit) /\ reqs \in Seq(Unit) /\ count \in 0..MaxReq
  /\ taint \subseteq {"leftover", "reused"}

Init ==
  /\ BufferedInit
  /\ http = NewHttp /\ call = NoCall /\ res = NoRes
  /\ out = <<>> /\ reqs = <<>> /\ taint = {} /\ count = 0

-----------------------------------------------------------------------------
(* Connections                                                             *)

Idle == call.pc = "idle"

\* Slip: the read mode is the one the last connection was left in.
MutConnected(h) == [h EXCEPT !.connected = TRUE]

\* GWEN_SyncIo_Http_Connect leaves the write mode alone.
Connected(h) == [h EXCEPT !.connected = TRUE, !.readMode = "Idle"]

\* GWEN_SyncIo_Buffered_Connect leaves the read buffer alone.
Connect ==
  \/ /\ http.connected
     /\ taint' = IF reqs = <<>> THEN taint ELSE taint \cup {"reused"}
     /\ UNCHANGED <<conn, http, out, reqs>>
  \/ /\ ~http.connected
     /\ BaseConnect
     /\ http' = Connected(http)
     /\ out' = <<>> /\ reqs' = <<>>
     /\ taint' = IF readBuffer = <<>> THEN {} ELSE {"leftover"}

Disconnected(h) == [h EXCEPT !.connected = FALSE]

\* The base cannot connect; nothing has changed.
ConnectFails(op) ==
  /\ Idle /\ ~http.connected
  /\ res' = [NoRes EXCEPT !.op = op, !.rv = ErrIo]
  /\ UNCHANGED <<conn, readBuffer, http, call, out, reqs, taint, count>>

\* Connects and disconnects again, a connection left open too.
ConnectionTest ==
  /\ Idle
  /\ \/ /\ ~http.connected /\ BaseConnect
        /\ http' = Disconnected(Connected(http))
        /\ out' = <<>> /\ reqs' = <<>> /\ taint' = {}
     \/ /\ http.connected
        /\ http' = Disconnected(http)
        /\ UNCHANGED <<conn, out, reqs, taint>>
  /\ res' = [NoRes EXCEPT !.op = "test"]
  /\ UNCHANGED <<readBuffer, call, count>>

\* GWEN_HttpSession_Fini frees the streams, GWEN_HttpSession_Init makes new
\* ones.
Renew ==
  /\ Idle
  /\ http # NewHttp \/ readBuffer # <<>>
  /\ http' = NewHttp /\ readBuffer' = <<>> /\ res' = NoRes
  /\ UNCHANGED <<conn, call, out, reqs, taint, count>>

-----------------------------------------------------------------------------
(* GWEN_HttpSession_SendPacket                                             *)

Units(part, n) == [i \in 1..n |-> <<part, i>>]

\* A request with a body of n units as it goes over the wire.
Request(n) == Units("command", PartLen) \o Units("headerOut", PartLen)
              \o Units("bodyOut", n)

SendPacket(n) ==
  /\ Idle /\ count < MaxReq
  /\ Connect
  /\ call' = [NoCall EXCEPT !.pc = "write", !.op = "send", !.size = n]
  /\ res' = NoRes /\ count' = count + 1
  /\ UNCHANGED readBuffer

\* The call ends and closes the connection.
Ends(h, rv, body, file) ==
  /\ http' = Disconnected(h)
  /\ call' = NoCall
  /\ res' = [op |-> call.op, rv |-> rv, body |-> body, file |-> file]

\* GWEN_SyncIo_Http_Write: a write that has failed is remembered for good.
WriteBegins ==
  /\ call.pc = "write"
  /\ \/ /\ http.writeMode = "Error"
        /\ Ends(http, ErrGeneric, <<>>, FALSE)
        /\ UNCHANGED reqs
     \/ /\ http.writeMode = "Idle"
        /\ call' = [call EXCEPT !.pc = "command",
                                !.todo = Units("command", PartLen)]
        /\ reqs' = reqs \o Request(call.size)
        /\ UNCHANGED <<http, res>>
  /\ UNCHANGED <<conn, readBuffer, out, taint, count>>

\* A part is written: WriteHeader and the body follow, then the stream is
\* ready for the next request.
PartWritten ==
  \/ /\ call.pc = "command"
     /\ call' = [call EXCEPT !.pc = "headerOut",
                             !.todo = Units("headerOut", PartLen)]
     /\ http' = [http EXCEPT !.writeMode = "Body"]
     /\ UNCHANGED res
  \/ /\ call.pc = "headerOut" /\ call.size > 0
     /\ call' = [call EXCEPT !.pc = "bodyOut",
                             !.todo = Units("bodyOut", call.size)]
     /\ UNCHANGED <<http, res>>
  \/ /\ call.pc = "bodyOut" \/ call.size = 0
     /\ call.pc # "command"
     /\ http' = [http EXCEPT !.writeMode = "Idle"]
     /\ call' = NoCall
     /\ res' = [NoRes EXCEPT !.op = "send"]

\* Slip: WriteForced starts at the beginning again after a partial write.
MutLeft(n) == IF n = Len(call.todo) THEN <<>> ELSE call.todo

\* GWEN_SyncIo_WriteForced: what is left after n units have been taken.
Left(n) == SubSeq(call.todo, n + 1, Len(call.todo))

Write(n) ==
  /\ call.pc \in WritePCs /\ n \in 1..Len(call.todo)
  /\ out' = out \o SubSeq(call.todo, 1, n)
  /\ \/ Left(n) = <<>> /\ PartWritten
     \/ /\ Left(n) # <<>>
        /\ call' = [call EXCEPT !.todo = Left(n)]
        /\ UNCHANGED <<http, res>>
  /\ UNCHANGED <<conn, readBuffer, reqs, taint, count>>

WriteFails ==
  /\ call.pc \in WritePCs
  /\ Ends([http EXCEPT !.writeMode = "Error"], ErrIo, <<>>, FALSE)
  /\ UNCHANGED <<conn, readBuffer, out, reqs, taint, count>>

-----------------------------------------------------------------------------
(* GWEN_HttpSession_RecvPacket and RecvPacketToFile                        *)

Receive(op) ==
  /\ Idle
  /\ call' = [NoCall EXCEPT !.pc = "read", !.op = op]
  /\ res' = NoRes
  /\ taint' = IF conn.rest = conn.full THEN taint ELSE taint \cup {"reused"}
  /\ UNCHANGED <<conn, readBuffer, http, out, reqs, count>>

RecvPacket == Receive("recv")
RecvPacketToFile == Receive("recvFile")

\* The file cannot be opened: the connection stays, its answer unread.
FileOpenFails ==
  /\ Idle
  /\ res' = [NoRes EXCEPT !.op = "recvFile", !.rv = ErrFile]
  /\ UNCHANGED <<conn, readBuffer, http, call, out, reqs, taint, count>>

\* The answer is complete; only now does it count whether the code is 2xx.
\* A file that cannot be flushed or closed stays, and the connection too.
Received(h, body) ==
  LET rv == IF h.code = 0 THEN ErrBadData ELSE h.code
      ok == rv \in 200..299
  IN  \/ Ends(h, rv, body, ok /\ call.op = "recvFile")
      \/ /\ ok /\ call.op = "recvFile"
         /\ http' = h /\ call' = NoCall
         /\ res' = [op |-> call.op, rv |-> ErrFile, body |-> body,
                    file |-> TRUE]

\* Slip: every error is ignored once there is data.
MutIgnored(r) == call.body # <<>>

\* RecvBody ignores errors of the connection once its buffer has data, of the
\* answer or of the caller, who need not pass an empty one.  RecvBodyToSio
\* counts what it has written.
Ignored(r) == r = ErrIo /\ (call.body # <<>> \/ call.op = "recv")

\* GWEN_SyncIo_Http_Read has returned r <= 0 with the stream in state h.
\* GWEN_ERROR_EOF does not end the loop, the next read does.
ReadFailed(h, r) ==
  LET short == call.size # -1 /\ Len(call.body) < call.size IN
  \/ r = 0 /\ Received(h, call.body)
  \/ /\ r = ErrEof
     /\ \/ short /\ Ends(h, ErrEof, call.body, FALSE)
        \/ ~short /\ http' = h /\ UNCHANGED res
           /\ call' = [call EXCEPT !.pc = "read", !.line = <<>>, !.hdr = <<>>,
                                   !.got = <<>>]
  \/ /\ r \notin {0, ErrEof}
     /\ \/ Ignored(r) /\ Received(h, call.body)
        \/ (r = ErrIo => call.body = <<>>) /\ Ends(h, r, call.body, FALSE)

\* It has returned some tokens.  The user may abort, the file may be full.
ReadGot(h, got) ==
  LET body == call.body \o got
      size == IF call.body = <<>> THEN h.length ELSE call.size
  IN  \/ Ends(h, ErrAborted, body, FALSE)
      \/ call.op = "recvFile" /\ Ends(h, ErrFile, body, FALSE)
      \/ /\ size # -1 /\ Len(body) >= size
         /\ Received(h, body)
      \/ /\ size = -1 \/ Len(body) < size
         /\ call' = [call EXCEPT !.pc = "read", !.body = body, !.size = size,
                                 !.line = <<>>, !.hdr = <<>>, !.got = <<>>]
         /\ http' = h /\ UNCHANGED res

-----------------------------------------------------------------------------
(* GWEN_SyncIo_Http_Read                                                   *)

\* Slip: a failed read leaves the mode as it was.
MutInError(h) == h

InError(h) == [h EXCEPT !.readMode = "Error"]

At(l) == [call EXCEPT !.pc = l, !.line = <<>>]

ReadBegins ==
  /\ call.pc = "read"
  /\ \/ ~http.connected /\ ReadFailed(http, ErrNotConn)
     \/ /\ http.connected /\ http.readMode = "Error"
        /\ ReadFailed(http, ErrGeneric)
     \/ /\ http.connected /\ http.readMode = "Idle"
        /\ http' = [http EXCEPT !.code = 0, !.length = -1]
        /\ call' = At("status") /\ UNCHANGED res
     \/ /\ http.connected /\ http.readMode \in {"ChunkSize", "Chunk", "Body"}
        /\ call' = At(CASE http.readMode = "ChunkSize" -> "csize"
                        [] http.readMode = "Chunk" -> "chunk"
                        [] http.readMode = "Body" -> "body")
        /\ UNCHANGED <<http, res>>
  /\ UNCHANGED <<conn, readBuffer, out, reqs, taint, count>>

\* The codes ParseStatus may find in a line; without one the line is refused.
\* A line with leftovers of a body in front of it is a status line if there is
\* no blank in them; a length, with a blank before it, looks like a code.
Codes(line) ==
  LET t == Last(line) IN
  CASE line = <<t>> /\ t.k = "status" -> {t.n}
    [] t.k \in {"status", "length"} /\ (Len(line) > 1 \/ t.k = "length") ->
         {t.n, ErrInvalid}
    [] OTHER -> {ErrInvalid}

GotStatus(line) ==
  \E c \in IF Head(line).k = "blank" THEN {ErrEof} ELSE Codes(line) :
    \/ c < 0 /\ ReadFailed(InError(http), c)
    \/ /\ c >= 0
       /\ http' = [http EXCEPT !.code = c]
       /\ call' = At("header") /\ UNCHANGED res

\* Slip: a header without a length is that of an empty body.
MutAfterHeader(chunked, length, code) ==
  IF length \in {0, -1} THEN "Idle"
  ELSE IF chunked THEN "ChunkSize" ELSE "Body"

\* The read mode ParseHeader chooses.  An error without a length is taken to
\* have no body; any other answer without one lasts until the end.
AfterHeader(chunked, length, code) ==
  IF length = 0 \/ (length = -1 /\ code >= 300) THEN "Idle"
  ELSE IF chunked THEN "ChunkSize" ELSE "Body"

ParseHeader(lines) ==
  LET Has(k) == \E i \in DOMAIN lines : lines[i].k = k
      length == IF Has("length")
                THEN lines[CHOOSE i \in DOMAIN lines :
                             /\ lines[i].k = "length"
                             /\ \A j \in 1..(i - 1) : lines[j].k # "length"].n
                ELSE -1
      mode == AfterHeader(Has("chunked"), length, http.code)
      h == [http EXCEPT !.length = length, !.bodySize = length,
                        !.readMode = mode]
  IN  \/ /\ \E t \in Range(lines) : t.k \notin {"field", "length", "chunked"}
         /\ ReadFailed(InError(http), ErrBadData)
      \/ /\ \A t \in Range(lines) : t.k \in {"field", "length", "chunked"}
         /\ \/ mode = "Idle" /\ ReadFailed(h, 0)
            \/ /\ mode # "Idle"
               /\ http' = h /\ UNCHANGED res
               /\ call' = [At(IF mode = "Body" THEN "body" ELSE "csize")
                           EXCEPT !.hdr = <<>>]

\* ReadHeader collects lines up to an empty one.
GotHeaderLine(line) ==
  \/ line[1].k = "blank" /\ ParseHeader(call.hdr)
  \/ /\ line[1].k # "blank"
     /\ call' = [call EXCEPT !.line = <<>>, !.hdr = Append(@, line[1])]
     /\ UNCHANGED <<http, res>>

\* ReadChunkSize passes over one empty line.
GotSize(line) ==
  \/ /\ line[1].k = "blank" /\ call.pc = "csize"
     /\ call' = At("csize2") /\ UNCHANGED <<http, res>>
  \/ /\ line[1].k = "size"
     /\ http' = [http EXCEPT !.chunkSize = line[1].n,
                             !.readMode = IF line[1].n = 0 THEN @ ELSE "Chunk"]
     /\ call' = At(IF line[1].n = 0 THEN "last" ELSE "chunk")
     /\ UNCHANGED res
  \/ /\ line[1].k # "size" /\ (line[1].k = "blank" => call.pc = "csize2")
     /\ ReadFailed(InError(http), ErrBadData)

\* A line has come to its end, or the stream has.
GotLine(line) ==
  CASE call.pc = "status" -> GotStatus(line)
    [] call.pc = "header" -> GotHeaderLine(line)
    [] call.pc \in {"csize", "csize2"} -> GotSize(line)
    [] call.pc = "trail" ->
         ReadGot([http EXCEPT !.readMode = "ChunkSize"], call.got)
    [] call.pc = "last" -> ReadFailed([http EXCEPT !.readMode = "Idle"], 0)

\* The buffered stream reads ahead.
FillBuffer ==
  /\ call.pc \in LinePCs
  /\ Fill
  /\ UNCHANGED <<http, call, res, out, reqs, taint, count>>

\* GWEN_SyncIo_Http_ReadLine collects pieces until one ends with LF.
ReadLine ==
  /\ call.pc \in LinePCs
  /\ TakePiece
  /\ LET line == call.line \o Piece IN
     \/ HasLine(line) /\ GotLine(line)
     \/ /\ ~HasLine(line)
        /\ call' = [call EXCEPT !.line = line]
        /\ UNCHANGED <<http, res>>
  /\ UNCHANGED <<out, reqs, taint, count>>

\* The end of the stream falls into the next line of the answer.
EndsWithin(kinds) ==
  conn.end = "open" /\ conn.rest # <<>> /\ Head(conn.rest).k \in kinds

\* What may be left of a number in a line that is cut short: its first digits.
Cuts(n) == IF n = 0 THEN {0} ELSE 1..n

\* ParseHeader looks for continuation lines beyond the end of a header that
\* does not end with LF.
Dies == call' = [NoCall EXCEPT !.pc = "dead"] /\ UNCHANGED <<http, res>>

\* The end of the stream ends a line that has begun, and a header that has a
\* line; otherwise it is an error, like all others.  Only the last line of
\* all is read without a change to the mode when it fails.
ReadLineFails(r) ==
  LET h == IF call.pc = "last" THEN http ELSE InError(http) IN
  /\ call.pc \in LinePCs
  /\ NothingRead(r)
  /\ \/ r < 0 /\ ReadFailed(h, r)
     \/ /\ r = 0 /\ call.pc = "header"
        /\ \/ call.hdr = <<>> /\ ReadFailed(h, ErrEof)
           \/ call.hdr # <<>> /\ call.line = <<>> /\ ParseHeader(call.hdr)
           \/ /\ call.hdr # <<>>
              /\ call.line # <<>> \/ EndsWithin(Kinds \ {"blank"})
              /\ Dies
     \/ /\ r = 0 /\ call.pc # "header"
        /\ \/ call.line = <<>> /\ ReadFailed(h, ErrEof)
           \/ call.line # <<>> /\ GotLine(call.line)
           \/ /\ call.line = <<>> /\ EndsWithin({"size"})
              /\ call.pc \in {"csize", "csize2"}
              /\ \E n \in Cuts(Head(conn.rest).n) :
                   GotSize(<<[Head(conn.rest) EXCEPT !.n = n]>>)
  /\ UNCHANGED <<out, reqs, taint, count>>

\* What is left of a chunk or of a body whose length is known limits a read.
Wanted ==
  LET left == IF call.pc = "chunk" THEN http.chunkSize ELSE http.bodySize
  IN  IF left >= 0 /\ left < ReadSize THEN left ELSE ReadSize

\* GWEN_SyncIo_Http_ReadChunk; the line after a chunk belongs to it.
GotChunk(got) ==
  LET n == Len(got)
      h == [http EXCEPT !.chunkSize = @ - n,
                        !.bodySize = IF @ > 0 THEN @ - n ELSE @]
  IN  /\ call.pc = "chunk"
      /\ \/ /\ h.chunkSize = 0
            /\ call' = [At("trail") EXCEPT !.got = got]
            /\ http' = h /\ UNCHANGED res
         \/ h.chunkSize # 0 /\ ReadGot(h, got)

\* GWEN_SyncIo_Http_ReadBody
GotBody(got) ==
  LET left == IF http.bodySize >= 0 THEN http.bodySize - Len(got)
              ELSE http.bodySize
  IN  /\ call.pc = "body"
      /\ ReadGot([http EXCEPT !.bodySize = left,
                              !.readMode = IF left = 0 THEN "Idle" ELSE @],
                 got)

ReadBytes ==
  /\ call.pc \in BytePCs
  /\ \E got \in Gets(Wanted) : TakeBytes(got) /\ (GotChunk(got) \/ GotBody(got))
  /\ UNCHANGED <<out, reqs, taint, count>>

\* The end of the stream is returned as it is, in the middle of a chunk or of
\* a body of known length too.
ReadBytesFails(r) ==
  /\ call.pc \in BytePCs
  /\ NothingRead(r)
  /\ ReadFailed(IF r < 0 THEN InError(http) ELSE http, r)
  /\ UNCHANGED <<out, reqs, taint, count>>

-----------------------------------------------------------------------------
Step ==
  \/ WriteBegins \/ WriteFails \/ \E n \in 1..PartLen : Write(n)
  \/ ReadBegins \/ FillBuffer \/ ReadLine \/ ReadBytes
  \/ \E r \in {0, ErrIo, ErrTimeout} : ReadLineFails(r) \/ ReadBytesFails(r)

Next ==
  \/ Step
  \/ \E n \in {0, PartLen} : SendPacket(n)
  \/ \E op \in {"send", "test"} : ConnectFails(op)
  \/ RecvPacket \/ RecvPacketToFile \/ FileOpenFails
  \/ ConnectionTest \/ Renew

\* Every read and write of the connection returns, if only after the timeouts
\* of syncio_socket.c, and a call goes on then.  Over TLS this assumes more:
\* GWEN_SyncIo_Tls_Read goes round again while gnutls_record_recv() says
\* GNUTLS_E_AGAIN, which a timeout looks like when errno is EAGAIN.
Spec == Init /\ [][Next]_vars /\ WF_vars(Step)

-----------------------------------------------------------------------------
(* Properties                                                              *)

Ok == res.rv \in 200..299 /\ res.op \in RecvOps

\* b is what the first m tokens of s have of a body, each piece once and in
\* order.
DataAt(s, m) == {i \in 1..m : s[i].k = "data"}
IsBody(b, s, m) ==
  \E at \in [1..Len(b) -> DataAt(s, m)] :
    /\ \A i, j \in 1..Len(b) : i < j => at[i] < at[j]
    /\ \A d \in DataAt(s, m) : \E i \in 1..Len(b) : at[i] = d
    /\ \A i \in 1..Len(b) : b[i] = s[at[i]]

\* Receiving succeeds with exactly the body of the answer on this connection.
\* A shorter one, never a different one, is only accepted when the connection
\* was closed or broke within the answer, or when the server fell silent and
\* the connection has TLS; without TLS a silent server is never a success.
\* A file is left by success and by a failure to flush or close it.
Delivered ==
  /\ Ok /\ taint = {} =>
       \/ IsBody(res.body, conn.full, Len(conn.full))
       \/ CutShort
          /\ \E m \in 0..Len(conn.full) : IsBody(res.body, conn.full, m)
  /\ res.file => Ok \/ res.rv = ErrFile

\* A code returned by receiving is that of the answer on this connection.
StatusOwn ==
  res.op \in RecvOps /\ res.rv > 0 /\ taint = {} => res.rv = conn.full[1].n

\* Nothing of a successfully received answer stays in the read buffer, to be
\* taken for the beginning of the next one.
BufferClean == Ok /\ taint = {} => readBuffer = <<>>

\* What is written on a connection is a beginning of the requests made on it,
\* each unit once and in order, and all of them after a successful SendPacket.
RequestWhole ==
  /\ IsPrefix(out, reqs)
  /\ res.op = "send" /\ res.rv = 0 => out = reqs

\* Every call returns, unless the process dies of a header that is cut short:
\* no loop of the receiving goes round for ever, though it does not stop at
\* the end of the stream.
CallsReturn == (call.pc # "idle") ~> (call.pc \in {"idle", "dead"})
=============================================================================
