------------------------- MODULE HttpSessionProofs --------------------------
(***************************************************************************)
(* What the HTTP client sends and receives, for answers of any length in   *)
(* any of the forms of HTTP, cut into any portions, and any number of      *)
(* connections, requests and units of a request.                           *)
(*                                                                         *)
(* The client parses a stream of which it sees portions only.  The         *)
(* invariant says at which place of the server's answer it is and what     *)
(* follows there, one condition for each of its states.                    *)
(***************************************************************************)
EXTENDS HttpSession, WellFoundedInduction, TLAPS

-----------------------------------------------------------------------------
(* The invariant                                                           *)

ReadPCs == {"read"} \cup LinePCs \cup BytePCs
SendPCs == {"write"} \cup WritePCs
ChunkPCs == {"csize", "csize2", "chunk", "trail", "last"}

\* The read mode in which the steps of GWEN_SyncIo_Http_Read are taken.
ModeAt(pc) ==
  CASE pc \in {"status", "header"} -> "Idle"
    [] pc \in {"csize", "csize2", "last"} -> "ChunkSize"
    [] pc \in {"chunk", "trail"} -> "Chunk"
    [] pc = "body" -> "Body"

\* A call is on an open connection, and has no result yet.
ShapeInv ==
  /\ call.pc \in ReadPCs => call.op \in RecvOps
  /\ call.pc \in SendPCs =>
       call.op = "send" /\ call.size \in {0, PartLen} /\ http.connected
  /\ call.pc # "idle" => res = NoRes
  /\ call.pc \in LinePCs \cup BytePCs =>
       http.connected /\ http.readMode = ModeAt(call.pc)
  /\ call.pc = "trail" => call.got # <<>>
  /\ http.readMode = "Chunk" /\ call.pc # "trail" => http.chunkSize > 0
  /\ http.readMode = "Body" => http.bodySize # 0
  /\ call.pc = "status" => http.code = 0

\* What a call has still to write after its todo.
After ==
  CASE call.pc = "command" ->
         Units("headerOut", PartLen) \o Units("bodyOut", call.size)
    [] call.pc = "headerOut" -> Units("bodyOut", call.size)
    [] OTHER -> <<>>

SendInv ==
  /\ RequestWhole
  /\ call.pc \in WritePCs =>
       reqs = (out \o call.todo) \o After /\ http.writeMode # "Error"
  /\ call.pc \notin WritePCs =>
       /\ http.writeMode # "Body"
       /\ http.connected /\ http.writeMode = "Idle" => out = reqs

\* The answers of the server.
ServedInv == http.connected => conn.full # <<>> /\ WellFormed(conn.full)

\* What is still to be read, and the number of tokens that have been read.
Ahead(c, b) == b \o c.rest
Pos(c, b) == Len(c.full) - Len(Ahead(c, b))
Aligned(c, b) ==
  /\ Len(Ahead(c, b)) <= Len(c.full)
  /\ \A i \in 1..Len(Ahead(c, b)) : Ahead(c, b)[i] = c.full[Pos(c, b) + i]

\* The state of the parser, whose next read begins where it is.
Place(h, q) ==
  IF q.pc # "read" THEN q.pc
  ELSE CASE h.readMode = "Idle" -> "status"
         [] h.readMode = "ChunkSize" -> "csize"
         [] h.readMode = "Chunk" -> "chunk"
         [] h.readMode = "Body" -> "body"
         [] OTHER -> "error"

\* The code is the one of the answer at place p, from its first line on, and
\* as much is missing of a body of known length as the mode says.
Heading(F, p, h, q) ==
  /\ q.body = <<>> => q.size = -1
  /\ Place(h, q) = "status" =>
       p = 0 /\ q.body = <<>> /\ q.line = <<>> /\ q.hdr = <<>>
  /\ Place(h, q) = "header" => q.body = <<>>
  /\ Place(h, q) \in {"header", "body"} \cup ChunkPCs =>
       p >= 1 /\ h.code = F[1].n
  /\ Place(h, q) = "body" =>
       \/ h.length = -1 /\ h.bodySize = -1
       \/ h.bodySize = h.length - Len(q.body) /\ h.bodySize > 0
  /\ Place(h, q) \in {"body"} \cup ChunkPCs =>
       (q.body # <<>> => q.size = h.length)

HeaderEnd(F) ==
  CHOOSE e \in 2..Len(F) : EndOfHeader(F, e) /\ (Plain(F, e) \/ Chunked(F, e))

\* What has been read of a successful answer and what comes next.
Content(F, p, h, q) ==
  LET e == HeaderEnd(F)
      l == Place(h, q)
  IN
  /\ q.line = <<>>
  /\ l = "header" => p < e /\ q.hdr = SubSeq(F, 2, p)
  /\ l = "body" =>
       /\ Plain(F, e) /\ p >= e /\ Len(q.body) = p - e /\ IsBody(q.body, F, p)
       /\ h.length = IF InHeader(F, e, "length") THEN Len(F) - e ELSE -1
  /\ l \in ChunkPCs => Chunked(F, e) /\ p >= e /\ h.length = -1
  /\ l \in ChunkPCs \ {"trail"} => IsBody(q.body, F, p)
  /\ l = "csize" => AtSize(F, p + 1)
  /\ l = "csize2" => p < Len(F) /\ F[p + 1].k = "size"
  /\ l = "chunk" =>
       /\ p + h.chunkSize < Len(F)
       /\ \A i \in (p + 1)..(p + h.chunkSize) : F[i].k = "data"
       /\ F[p + h.chunkSize + 1].k = "blank"
       /\ AtSize(F, p + h.chunkSize + 2)
  /\ l = "trail" =>
       /\ p < Len(F) /\ F[p + 1].k = "blank" /\ AtSize(F, p + 2)
       /\ IsBody(q.body \o q.got, F, p)
       /\ \E m \in 0..Len(F) : IsBody(q.body, F, m)
  /\ l = "last" => p = Len(F) - 1 /\ F[Len(F)].k = "blank"

\* The connection has ended before the answer has: nothing more can come.
CutOff(c, b, q) ==
  /\ c.end # "open" /\ c.rest # <<>> /\ b = <<>> /\ q.line = <<>>
  /\ \E m \in 0..Len(c.full) : IsBody(q.body, c.full, m)

Track(c, b, h, q) ==
  /\ Aligned(c, b)
  /\ q.pc \in ReadPCs =>
       /\ Heading(c.full, Pos(c, b), h, q)
       /\ c.full[1].n \in 200..299 =>
            CutOff(c, b, q) \/ Content(c.full, Pos(c, b), h, q)
  /\ q.pc \notin ReadPCs =>
       (c.rest = c.full => b = <<>> /\ h.readMode = "Idle")

\* An answer that nothing else can be mixed up with is followed closely.
ReadInv ==
  taint = {} /\ http.connected /\ call.pc # "dead" =>
    Track(conn, readBuffer, http, call)

ResultInv == Delivered /\ StatusOwn /\ BufferClean

Inv == /\ TypeOK /\ ShapeInv /\ SendInv /\ ServedInv /\ ReadInv /\ ResultInv

-----------------------------------------------------------------------------
(* Sequences                                                               *)

\* A set of numbers has a least element.
LEMMA Least ==
  ASSUME NEW S \in SUBSET Nat, S # {}
  PROVE  \E i \in S : \A j \in S : i <= j
<1>. DEFINE R == {ss \in Nat \X Nat : ss[1] < ss[2]}
<1>1. IsWellFoundedOn(R, Nat)
  BY NatLessThanWellFounded DEF OpToRel
<1>2. PICK x \in S : \A y \in S : ~ (<<y, x>> \in R)
  <2>. HIDE DEF R
  <2>. QED BY <1>1, WFMin
<1>3. ASSUME NEW y \in S PROVE x <= y
  <2>1. x \in Nat /\ y \in Nat
    OBVIOUS
  <2>2. <<y, x>> \notin R
    BY <1>2
  <2>3. y < x => <<y, x>> \in R
    BY <2>1
  <2>. QED BY <2>1, <2>2, <2>3
<1>. QED BY <1>3

\* A sequence is cut into two parts.
LEMMA Parts ==
  ASSUME NEW S, NEW s \in Seq(S), NEW n \in 0..Len(s)
  PROVE  /\ SubSeq(s, 1, n) \in Seq(S) /\ Len(SubSeq(s, 1, n)) = n
         /\ SubSeq(s, n + 1, Len(s)) \in Seq(S)
         /\ Len(SubSeq(s, n + 1, Len(s))) = Len(s) - n
         /\ \A i \in 1..n : SubSeq(s, 1, n)[i] = s[i]
         /\ \A i \in 1..(Len(s) - n) : SubSeq(s, n + 1, Len(s))[i] = s[n + i]
OBVIOUS

\* Sequences of the same length and elements are the same.
LEMMA SameSeq ==
  ASSUME NEW S, NEW s \in Seq(S), NEW t \in Seq(S), Len(s) = Len(t),
         \A i \in 1..Len(s) : s[i] = t[i]
  PROVE  s = t
OBVIOUS

\* Two sequences one after the other.
LEMMA Joined ==
  ASSUME NEW S, NEW s \in Seq(S), NEW t \in Seq(S)
  PROVE  /\ s \o t \in Seq(S) /\ Len(s \o t) = Len(s) + Len(t)
         /\ \A i \in 1..Len(s) : (s \o t)[i] = s[i]
         /\ \A i \in 1..Len(t) : (s \o t)[Len(s) + i] = t[i]
OBVIOUS

\* The two parts of a sequence make it up again.
LEMMA Uncut ==
  ASSUME NEW S, NEW s \in Seq(S), NEW n \in 0..Len(s)
  PROVE  SubSeq(s, 1, n) \o SubSeq(s, n + 1, Len(s)) = s
<1>1. PICK a, b, l : /\ a = SubSeq(s, 1, n) /\ b = SubSeq(s, n + 1, Len(s))
                     /\ l = Len(s)
  OBVIOUS
<1>2. /\ a \in Seq(S) /\ b \in Seq(S) /\ Len(a) = n /\ Len(b) = l - n
      /\ \A i \in 1..n : a[i] = s[i]
      /\ \A i \in 1..(l - n) : b[i] = s[n + i]
      /\ l \in Nat /\ n \in 0..l
  BY <1>1, Parts
<1>3. PICK t : t = a \o b
  OBVIOUS
<1>4. /\ t \in Seq(S) /\ Len(t) = Len(a) + Len(b)
      /\ \A i \in 1..Len(a) : t[i] = a[i]
      /\ \A i \in 1..Len(b) : t[Len(a) + i] = b[i]
  <2>1. a \in Seq(S) /\ b \in Seq(S)
    BY <1>2
  <2>. QED BY <1>3, <2>1, Joined
<1>5. /\ Len(t) = l
      /\ \A i \in 1..n : t[i] = a[i]
      /\ \A i \in 1..(l - n) : t[n + i] = b[i]
  BY <1>2, <1>4
<1>6. ASSUME NEW i \in 1..l PROVE t[i] = s[i]
  <2>1. CASE i \in 1..n
    BY <1>2, <1>5, <2>1
  <2>2. CASE i - n \in 1..(l - n)
    <3>1. PICK k \in 1..(l - n) : i = n + k
      <4>1. i = n + (i - n)
        BY <1>2
      <4>. QED BY <2>2, <4>1
    <3>. QED BY <1>2, <1>5, <3>1
  <2>3. i \in 1..n \/ i - n \in 1..(l - n)
    BY <1>2
  <2>. QED BY <2>1, <2>2, <2>3
<1>7. t = s
  BY <1>1, <1>4, <1>5, <1>6, SameSeq
<1>. QED BY <1>1, <1>3, <1>7

\* Nothing is added by the empty sequence.
LEMMA JoinEmpty ==
  ASSUME NEW S, NEW s \in Seq(S)
  PROVE  <<>> \o s = s /\ s \o <<>> = s
OBVIOUS

\* The elements of a sequence.
LEMMA Element ==
  ASSUME NEW S, NEW s \in Seq(S), NEW i \in 1..Len(s)
  PROVE  s[i] \in S
OBVIOUS

\* An answer has as many tokens as its tags, of the same kinds and numbers.
LEMMA TaggedTokens ==
  ASSUME NEW r \in Responses, NEW c \in 1..MaxConn
  PROVE  /\ Tagged(r, c) \in Seq(Token) /\ Len(Tagged(r, c)) = Len(r)
         /\ \A i \in 1..Len(r) : /\ Tagged(r, c)[i].k = r[i].k
                                 /\ Tagged(r, c)[i].n = r[i].n
<1>1. r \in Seq([k : Kinds, n : Nat])
  BY BufferedIoAssumption
<1>2. DOMAIN r = 1..Len(r) /\ Len(r) \in Nat
  BY <1>1
<1>3. \A i \in 1..Len(r) : r[i] \in [k : Kinds, n : Nat]
  BY <1>1, Element
<1>4. Tagged(r, c) = [i \in 1..Len(r) |-> [k |-> r[i].k, n |-> r[i].n, c |-> c]]
  BY <1>2 DEF Tagged
<1>5. \A i \in 1..Len(r) : [k |-> r[i].k, n |-> r[i].n, c |-> c] \in Token
  BY <1>3 DEF Token
<1>6. Tagged(r, c) \in Seq(Token) /\ Len(Tagged(r, c)) = Len(r)
  BY <1>2, <1>4, <1>5
<1>. QED BY <1>4, <1>6

\* Tokens of the same kinds and numbers make up the same form of an answer.
LEMMA SameForm ==
  ASSUME NEW r, NEW t, Len(t) = Len(r), Len(r) \in Nat,
         r # <<>> => t # <<>>,
         \A i \in 1..Len(r) : t[i].k = r[i].k /\ t[i].n = r[i].n,
         \A i \in 1..Len(r) : r[i].n \in Nat, Len(r) >= 1, WellFormed(r)
  PROVE  WellFormed(t)
<1>0. 1 \in 1..Len(r)
  OBVIOUS
<1>1. t # <<>> /\ t[1].k = "status" /\ t[1].n = r[1].n
  BY <1>0 DEF WellFormed
<1>2. SUFFICES ASSUME r[1].n \in 200..299
               PROVE  \E e \in 2..Len(t) :
                        EndOfHeader(t, e) /\ (Plain(t, e) \/ Chunked(t, e))
  BY <1>1 DEF WellFormed
<1>3. PICK e \in 2..Len(r) :
        EndOfHeader(r, e) /\ (Plain(r, e) \/ Chunked(r, e))
  BY <1>2 DEF WellFormed
<1>4. EndOfHeader(t, e)
  BY <1>3 DEF EndOfHeader
<1>5. \A k : InHeader(t, e, k) <=> InHeader(r, e, k)
  BY DEF InHeader
<1>6. CASE Plain(r, e)
  <2>1. Plain(t, e)
    BY <1>5, <1>6 DEF Plain
  <2>. QED BY <1>4, <2>1
<1>7. CASE Chunked(r, e)
  <2>1. \A i \in 1..(Len(r) + 1) : AtSize(t, i) <=> AtSize(r, i)
    BY DEF AtSize
  <2>2. ASSUME NEW i \in (e + 1)..Len(t), t[i].k = "size" PROVE Chunk(t, i)
    <3>1. Chunk(r, i) /\ r[i].n = t[i].n /\ r[i].n \in Nat /\ i \in Nat
      BY <1>7, <2>2 DEF Chunked
    <3>2. CASE r[i].n = 0
      BY <3>1, <3>2 DEF Chunk
    <3>3. CASE r[i].n # 0
      <4>. DEFINE end == i + r[i].n + 1
      <4>1. /\ end <= Len(r) /\ r[end].k = "blank" /\ AtSize(r, end + 1)
            /\ \A j \in (i + 1)..(end - 1) : r[j].k = "data"
        BY <3>1, <3>3 DEF Chunk
      <4>2. end \in 1..Len(r) /\ end + 1 \in 1..(Len(r) + 1)
        BY <3>1, <4>1
      <4>3. AtSize(t, end + 1) /\ t[end].k = "blank"
        BY <2>1, <4>1, <4>2
      <4>4. \A j \in (i + 1)..(end - 1) : t[j].k = "data"
        <5>1. \A j \in (i + 1)..(end - 1) : j \in 1..Len(r)
          BY <3>1, <4>2
        <5>. QED BY <4>1, <5>1
      <4>. QED BY <3>1, <3>3, <4>1, <4>3, <4>4 DEF Chunk
    <3>. QED BY <3>2, <3>3
  <2>3. AtSize(t, e + 1)
    BY <1>7, <2>1 DEF Chunked
  <2>4. Chunked(t, e)
    BY <1>5, <1>7, <2>2, <2>3 DEF Chunked
  <2>. QED BY <1>4, <2>4
<1>. QED BY <1>3, <1>6, <1>7

\* What a server sends on a connection is an answer of the assumed forms.
LEMMA ServedForm ==
  ASSUME NEW r \in Responses, NEW c \in 1..MaxConn
  PROVE  Tagged(r, c) # <<>> /\ WellFormed(Tagged(r, c))
<1>1. r \in Seq([k : Kinds, n : Nat]) /\ WellFormed(r)
  BY BufferedIoAssumption, HttpAssumption
<1>2. r # <<>>
  BY <1>1 DEF WellFormed
<1>3. Len(r) \in Nat /\ Len(r) >= 1
  BY <1>1, <1>2
<1>4. \A i \in 1..Len(r) : r[i] \in [k : Kinds, n : Nat]
  BY <1>1, Element
<1>5. \A i \in 1..Len(r) : r[i].n \in Nat
  BY <1>4
<1>6. /\ Tagged(r, c) \in Seq(Token) /\ Len(Tagged(r, c)) = Len(r)
      /\ \A i \in 1..Len(r) : /\ Tagged(r, c)[i].k = r[i].k
                              /\ Tagged(r, c)[i].n = r[i].n
  BY TaggedTokens
<1>7. Tagged(r, c) # <<>>
  BY <1>3, <1>6
<1>. QED BY <1>1, <1>3, <1>5, <1>6, <1>7, SameForm

-----------------------------------------------------------------------------
(* The body in the tokens that have been read                              *)

\* There is no body in what has no data.
LEMMA BodyNone ==
  ASSUME NEW F, NEW m \in Nat, \A i \in 1..m : F[i].k # "data"
  PROVE  IsBody(<<>>, F, m)
<1>1. DataAt(F, m) = {}
  BY DEF DataAt
<1>. DEFINE at == [i \in 1..0 |-> i]
<1>2. Len(<<>>) = 0
  OBVIOUS
<1>3. at \in [1..Len(<<>>) -> DataAt(F, m)]
  BY <1>2
<1>. QED BY <1>1, <1>2, <1>3 DEF IsBody

\* A line adds nothing to the body.
LEMMA BodySkip ==
  ASSUME NEW F, NEW b, NEW m \in Nat, IsBody(b, F, m), F[m + 1].k # "data"
  PROVE  IsBody(b, F, m + 1)
<1>1. DataAt(F, m + 1) = DataAt(F, m)
  BY DEF DataAt
<1>. QED BY <1>1 DEF IsBody

\* Data that follows is added at the end.
LEMMA BodyMore ==
  ASSUME NEW F, NEW b \in Seq(Token), NEW m \in Nat, IsBody(b, F, m),
         NEW g \in Seq(Token),
         \A i \in 1..Len(g) : F[m + i].k = "data" /\ g[i] = F[m + i]
  PROVE  IsBody(b \o g, F, m + Len(g))
<1>. DEFINE l == Len(b)
            n == Len(g)
<1>1. PICK at \in [1..l -> DataAt(F, m)] :
        /\ \A i, j \in 1..l : i < j => at[i] < at[j]
        /\ \A d \in DataAt(F, m) : \E i \in 1..l : at[i] = d
        /\ \A i \in 1..l : b[i] = F[at[i]]
  BY DEF IsBody
<1>2. /\ l \in Nat /\ n \in Nat /\ Len(b \o g) = l + n
      /\ \A i \in 1..l : (b \o g)[i] = b[i]
      /\ \A i \in 1..n : (b \o g)[l + i] = g[i]
  BY Joined
<1>. DEFINE A == [i \in 1..(l + n) |-> IF i <= l THEN at[i] ELSE m + (i - l)]
<1>. HIDE DEF l, n
<1>3. \A i \in 1..l : at[i] \in DataAt(F, m) /\ at[i] \in 1..m
  BY <1>1 DEF DataAt
<1>4. \A d \in DataAt(F, m) : d \in DataAt(F, m + n)
  BY <1>2 DEF DataAt
<1>5. \A i \in 1..n : m + i \in DataAt(F, m + n)
  BY <1>2 DEF DataAt, n
<1>6. \A i \in (l + 1)..(l + n) : i - l \in 1..n /\ A[i] = m + (i - l)
  BY <1>2
<1>7. \A i \in 1..l : A[i] = at[i]
  BY <1>2
<1>8. \A i \in 1..(l + n) : i \in 1..l \/ i \in (l + 1)..(l + n)
  BY <1>2
<1>9. A \in [1..(l + n) -> DataAt(F, m + n)]
  <2>1. \A i \in 1..(l + n) : A[i] \in DataAt(F, m + n)
    BY <1>3, <1>4, <1>5, <1>6, <1>7, <1>8
  <2>. QED BY <2>1
<1>10. ASSUME NEW i \in 1..(l + n), NEW j \in 1..(l + n), i < j
       PROVE  A[i] < A[j]
  <2>1. CASE j \in 1..l
    <3>1. i \in 1..l
      BY <1>2, <1>10, <2>1
    <3>. QED BY <1>1, <1>7, <1>10, <2>1, <3>1
  <2>2. CASE i \in 1..l /\ j \in (l + 1)..(l + n)
    BY <1>2, <1>3, <1>6, <1>7, <2>2
  <2>3. CASE i \in (l + 1)..(l + n) /\ j \in (l + 1)..(l + n)
    BY <1>2, <1>6, <1>10, <2>3
  <2>. QED BY <1>2, <1>8, <1>10, <2>1, <2>2, <2>3
<1>11. ASSUME NEW d \in DataAt(F, m + n)
       PROVE  \E i \in 1..(l + n) : A[i] = d
  <2>1. d \in 1..(m + n) /\ F[d].k = "data"
    BY DEF DataAt
  <2>2. CASE d <= m
    <3>1. d \in DataAt(F, m)
      BY <1>2, <2>1, <2>2 DEF DataAt
    <3>2. PICK i \in 1..l : at[i] = d
      BY <1>1, <3>1
    <3>. QED BY <1>2, <1>7, <3>2
  <2>3. CASE d > m
    <3>1. l + (d - m) \in 1..(l + n) /\ l + (d - m) > l
      BY <1>2, <2>1, <2>3
    <3>2. A[l + (d - m)] = d
      BY <1>2, <2>1, <3>1
    <3>. QED BY <3>1, <3>2
  <2>. QED BY <1>2, <2>1, <2>2, <2>3
<1>12. ASSUME NEW i \in 1..(l + n)
       PROVE  (b \o g)[i] = F[A[i]]
  <2>1. CASE i \in 1..l
    BY <1>1, <1>2, <1>7, <2>1
  <2>2. CASE i \in (l + 1)..(l + n)
    <3>1. PICK k \in 1..n : i = l + k
      BY <1>2, <1>6, <2>2
    <3>2. (b \o g)[i] = g[k] /\ A[i] = m + k
      BY <1>2, <1>6, <2>2, <3>1
    <3>3. g[k] = F[m + k]
      BY DEF n
    <3>. QED BY <3>2, <3>3
  <2>. QED BY <1>8, <2>1, <2>2
<1>. HIDE DEF A
<1>13. IsBody(b \o g, F, m + n)
  <2>. DEFINE s == b \o g
  <2>1. Len(s) = l + n
    BY <1>2
  <2>2. \A i \in 1..(l + n) : s[i] = F[A[i]]
    BY <1>12
  <2>. HIDE DEF s
  <2>3. IsBody(s, F, m + n)
    <3>1. \A i, j \in 1..Len(s) : i < j => A[i] < A[j]
      BY <1>10, <2>1
    <3>2. \A d \in DataAt(F, m + n) : \E i \in 1..Len(s) : A[i] = d
      BY <1>11, <2>1
    <3>0. A \in [1..Len(s) -> DataAt(F, m + n)]
      BY <1>9, <2>1
    <3>3. \E x \in [1..Len(s) -> DataAt(F, m + n)] :
            /\ \A i, j \in 1..Len(s) : i < j => x[i] < x[j]
            /\ \A d \in DataAt(F, m + n) : \E i \in 1..Len(s) : x[i] = d
            /\ \A i \in 1..Len(s) : s[i] = F[x[i]]
      BY <3>0, <2>1, <2>2, <3>1, <3>2
    <3>. QED BY <3>3 DEF IsBody
  <2>. QED BY <2>3 DEF s
<1>. QED BY <1>13 DEF n

-----------------------------------------------------------------------------
(* The buffered stream                                                     *)

\* The fields of the connection and of the buffer.
LEMMA Streams ==
  ASSUME BufferedTypeOK
  PROVE  /\ conn.full \in Seq(Token) /\ conn.rest \in Seq(Token)
         /\ readBuffer \in Seq(Token) /\ Ahead(conn, readBuffer) \in Seq(Token)
         /\ Len(conn.full) \in Nat /\ Len(conn.rest) \in Nat
         /\ Len(readBuffer) \in Nat
         /\ Len(Ahead(conn, readBuffer)) = Len(readBuffer) + Len(conn.rest)
<1>1. conn.full \in Seq(Token) /\ conn.rest \in Seq(Token) /\ readBuffer \in Seq(Token)
  BY DEF BufferedTypeOK, Connection
<1>. QED BY <1>1, Joined DEF Ahead

\* n tokens are taken from those that are to be read.
Advance(n) ==
  /\ conn'.full = conn.full /\ conn'.end = conn.end
  /\ n \in 0..Len(Ahead(conn, readBuffer))
  /\ Ahead(conn', readBuffer') = SubSeq(Ahead(conn, readBuffer), n + 1,
                                        Len(Ahead(conn, readBuffer)))

\* The place in the answer moves on by as many.
LEMMA Advanced ==
  ASSUME BufferedTypeOK, Aligned(conn, readBuffer), NEW n, Advance(n)
  PROVE  /\ Aligned(conn', readBuffer')
         /\ Pos(conn', readBuffer') = Pos(conn, readBuffer) + n
         /\ Pos(conn, readBuffer) \in 0..Len(conn.full)
         /\ Pos(conn, readBuffer) + n \in 0..Len(conn.full)
         /\ \A i \in 1..n : Ahead(conn, readBuffer)[i]
                              = conn.full[Pos(conn, readBuffer) + i]
<1>. DEFINE A == Ahead(conn, readBuffer)
            B == Ahead(conn', readBuffer')
            p == Pos(conn, readBuffer)
            l == Len(conn.full)
<1>1. A \in Seq(Token) /\ l \in Nat
  BY Streams
<1>2. n \in 0..Len(A) /\ B = SubSeq(A, n + 1, Len(A)) /\ conn'.full = conn.full
  BY DEF Advance
<1>3. Len(A) <= l /\ \A i \in 1..Len(A) : A[i] = conn.full[p + i]
  BY DEF Aligned
<1>4. p = l - Len(A)
  BY DEF Pos
<1>5. Len(B) = Len(A) - n /\ \A i \in 1..(Len(A) - n) : B[i] = A[n + i]
  BY <1>1, <1>2, Parts
<1>6. Pos(conn', readBuffer') = l - Len(B)
  BY <1>2 DEF Pos
<1>. HIDE DEF A, B, l, p
<1>7. Len(A) \in Nat
  BY <1>1
<1>8. Pos(conn', readBuffer') = p + n /\ p \in 0..l /\ p + n \in 0..l
  BY <1>1, <1>2, <1>3, <1>4, <1>5, <1>6, <1>7
<1>9. Len(B) <= l
  BY <1>1, <1>2, <1>3, <1>5, <1>7
<1>10. ASSUME NEW i \in 1..Len(B) PROVE B[i] = conn.full[(p + n) + i]
  <2>1. n + i \in 1..Len(A) /\ p + (n + i) = (p + n) + i /\ i \in 1..(Len(A) - n)
    BY <1>2, <1>5, <1>7, <1>8
  <2>. QED BY <1>3, <1>5, <2>1
<1>11. \A i \in 1..n : A[i] = conn.full[p + i]
  BY <1>2, <1>3, <1>7
<1>. QED BY <1>2, <1>8, <1>9, <1>10, <1>11 DEF Aligned, A, B, l, p

\* Reading ahead takes nothing.
LEMMA FillReads ==
  ASSUME BufferedTypeOK, Fill
  PROVE  BufferedTypeOK' /\ Advance(0) /\ conn.end = "open"
<1>1. PICK got \in Portions(BufSize) : BaseRead(got) /\ readBuffer' = got
  BY DEF Fill
<1>2. conn.rest \in Seq(Token) /\ readBuffer = <<>> /\ BufSize \in Nat
  BY Streams, BufferedIoAssumption DEF Fill
<1>3. PICK n \in 1..BufSize : n <= Len(conn.rest) /\ got = SubSeq(conn.rest, 1, n)
  BY DEF Portions
<1>4. Len(conn.rest) \in Nat /\ n \in 0..Len(conn.rest)
  BY <1>2, <1>3
<1>5. Len(got) = n /\ got \in Seq(Token)
  BY <1>2, <1>3, <1>4, Parts
<1>. DEFINE R == SubSeq(conn.rest, n + 1, Len(conn.rest))
<1>6. conn' = [conn EXCEPT !.rest = R]
  BY <1>1, <1>5 DEF BaseRead
<1>7. R \in Seq(Token)
  BY <1>2, <1>4, Parts
<1>8. conn'.rest = R /\ conn'.full = conn.full /\ conn'.end = conn.end
  BY <1>6 DEF BufferedTypeOK
<1>9. BufferedTypeOK'
  <2>. HIDE DEF R
  <2>1. conn' \in Connection /\ conn'.tls = conn.tls /\ conn'.end = conn.end
    BY <1>6, <1>7 DEF BufferedTypeOK, Connection
  <2>2. readBuffer' \in Seq(Token) /\ Len(readBuffer') <= BufSize
    BY <1>1, <1>2, <1>3, <1>5
  <2>. QED BY <2>1, <2>2 DEF BufferedTypeOK
<1>10. got \o R = conn.rest
  BY <1>2, <1>3, <1>4, Uncut
<1>11. Ahead(conn', readBuffer') = conn.rest /\ Ahead(conn, readBuffer) = conn.rest
  BY <1>1, <1>2, <1>8, <1>10, JoinEmpty DEF Ahead
<1>12. SubSeq(conn.rest, 1, Len(conn.rest)) = conn.rest
  BY <1>2
<1>13. conn.end = "open"
  BY <1>1 DEF Portions
<1>. QED BY <1>13, <1>4, <1>8, <1>9, <1>11, <1>12 DEF Advance

\* A piece is the beginning of the buffer up to its first line, if any.
LEMMA PieceIs ==
  ASSUME BufferedTypeOK, readBuffer # <<>>
  PROVE  /\ Len(Piece) \in 1..Len(readBuffer)
         /\ Piece = SubSeq(readBuffer, 1, Len(Piece))
         /\ IsLine(readBuffer[1]) => Len(Piece) = 1
<1>. DEFINE ends == {i \in DOMAIN readBuffer : IsLine(readBuffer[i])}
            n == IF ends = {} THEN Len(readBuffer)
                 ELSE CHOOSE i \in ends : \A j \in ends : i <= j
<1>1. readBuffer \in Seq(Token)
  BY Streams
<1>2. /\ Len(readBuffer) \in Nat /\ Len(readBuffer) >= 1
      /\ DOMAIN readBuffer = 1..Len(readBuffer)
  BY <1>1
<1>3. ends \in SUBSET Nat
  BY <1>2
<1>4. ends # {} => n \in ends /\ \A j \in ends : n <= j
  <2>1. SUFFICES ASSUME ends # {} PROVE n \in ends /\ \A j \in ends : n <= j
    OBVIOUS
  <2>2. \E i \in ends : \A j \in ends : i <= j
    BY <1>3, <2>1, Least
  <2>. QED BY <2>1, <2>2
<1>5. Piece = SubSeq(readBuffer, 1, n)
  BY DEF Piece
<1>6. n \in 1..Len(readBuffer)
  BY <1>2, <1>4
<1>7. IsLine(readBuffer[1]) => n = 1
  <2>1. IsLine(readBuffer[1]) => 1 \in ends
    BY <1>2
  <2>. QED BY <1>2, <1>4, <1>6, <2>1
<1>. HIDE DEF n, ends
<1>8. Len(Piece) = n
  BY <1>1, <1>5, <1>6, Parts
<1>. QED BY <1>5, <1>6, <1>7, <1>8

\* The beginning of the buffer is taken.
LEMMA TakenReads ==
  ASSUME BufferedTypeOK, NEW n \in 0..Len(readBuffer), UNCHANGED conn,
         readBuffer' = SubSeq(readBuffer, n + 1, Len(readBuffer))
  PROVE  /\ BufferedTypeOK' /\ Advance(n)
         /\ \A i \in 1..n : readBuffer[i] = Ahead(conn, readBuffer)[i]
<1>. DEFINE A == Ahead(conn, readBuffer)
            B == SubSeq(readBuffer, n + 1, Len(readBuffer))
<1>1. /\ readBuffer \in Seq(Token) /\ conn.rest \in Seq(Token) /\ A \in Seq(Token)
      /\ Len(readBuffer) \in Nat /\ Len(conn.rest) \in Nat
      /\ Len(A) = Len(readBuffer) + Len(conn.rest)
  BY Streams
<1>2. /\ B \in Seq(Token) /\ Len(B) = Len(readBuffer) - n
      /\ \A i \in 1..(Len(readBuffer) - n) : B[i] = readBuffer[n + i]
  BY <1>1, Parts
<1>3. /\ \A i \in 1..Len(readBuffer) : A[i] = readBuffer[i]
      /\ \A i \in 1..Len(conn.rest) : A[Len(readBuffer) + i] = conn.rest[i]
  BY <1>1, Joined DEF Ahead
<1>4. n \in 0..Len(A)
  BY <1>1
<1>. DEFINE C == SubSeq(A, n + 1, Len(A))
<1>5. /\ C \in Seq(Token) /\ Len(C) = Len(A) - n
      /\ \A i \in 1..(Len(A) - n) : C[i] = A[n + i]
  BY <1>1, <1>4, Parts
<1>6. /\ B \o conn.rest \in Seq(Token)
      /\ Len(B \o conn.rest) = Len(B) + Len(conn.rest)
      /\ \A i \in 1..Len(B) : (B \o conn.rest)[i] = B[i]
      /\ \A i \in 1..Len(conn.rest) : (B \o conn.rest)[Len(B) + i] = conn.rest[i]
  <2>. HIDE DEF A, B, C
  <2>1. B \in Seq(Token) /\ conn.rest \in Seq(Token)
    BY <1>1, <1>2
  <2>. QED BY <2>1, Joined
<1>. HIDE DEF A, B, C
<1>7. ASSUME NEW i \in 1..Len(C) PROVE (B \o conn.rest)[i] = C[i]
  <2>1. CASE i <= Len(B)
    <3>1. i \in 1..Len(B) /\ n + i \in 1..Len(readBuffer) /\ i \in 1..(Len(A) - n)
      BY <1>1, <1>2, <1>5, <2>1
    <3>. QED BY <1>2, <1>3, <1>5, <1>6, <3>1
  <2>2. CASE i > Len(B)
    <3>1. PICK j \in 1..Len(conn.rest) : i = Len(B) + j
      <4>1. i - Len(B) \in 1..Len(conn.rest) /\ i = Len(B) + (i - Len(B))
        BY <1>1, <1>2, <1>5, <2>2
      <4>. QED BY <4>1
    <3>2. n + i = Len(readBuffer) + j /\ i \in 1..(Len(A) - n)
      BY <1>1, <1>2, <1>5, <3>1
    <3>. QED BY <1>3, <1>5, <1>6, <3>1, <3>2
  <2>3. i <= Len(B) \/ i > Len(B)
    BY <1>1, <1>2, <1>5
  <2>. QED BY <2>1, <2>2, <2>3
<1>8. Len(B \o conn.rest) = Len(C)
  BY <1>1, <1>2, <1>5, <1>6
<1>9. B \o conn.rest = C
  BY <1>5, <1>6, <1>7, <1>8, SameSeq
<1>10. Ahead(conn', readBuffer') = C
  BY <1>9 DEF Ahead, B
<1>11. BufferedTypeOK'
  <2>1. Len(B) <= BufSize
    BY <1>1, <1>2, BufferedIoAssumption DEF BufferedTypeOK
  <2>2. readBuffer' = B
    BY DEF B
  <2>. QED BY <1>2, <2>1, <2>2 DEF BufferedTypeOK
<1>12. \A i \in 1..n : readBuffer[i] = A[i]
  BY <1>1, <1>3
<1>. QED BY <1>4, <1>10, <1>11, <1>12 DEF Advance, A, C

\* A piece is taken.
LEMMA PieceReads ==
  ASSUME BufferedTypeOK, TakePiece
  PROVE  /\ BufferedTypeOK' /\ Advance(Len(Piece)) /\ Piece \in Seq(Token)
         /\ Len(Piece) \in Nat /\ Len(Piece) >= 1 /\ Len(Piece) <= BufSize
         /\ \A i \in 1..Len(Piece) : Piece[i] = Ahead(conn, readBuffer)[i]
         /\ IsLine(Ahead(conn, readBuffer)[1]) => Len(Piece) = 1
<1>1. readBuffer # <<>> /\ UNCHANGED conn /\ readBuffer \in Seq(Token)
  BY Streams DEF TakePiece
<1>. DEFINE n == Len(Piece)
<1>2. /\ n \in 1..Len(readBuffer) /\ Piece = SubSeq(readBuffer, 1, n)
      /\ IsLine(readBuffer[1]) => n = 1
  BY <1>1, PieceIs
<1>3. Len(readBuffer) \in Nat /\ Len(readBuffer) <= BufSize
  BY <1>1 DEF BufferedTypeOK
<1>4. n \in 0..Len(readBuffer) /\ n \in Nat /\ n >= 1 /\ n <= BufSize
  BY <1>2, <1>3, BufferedIoAssumption
<1>5. readBuffer' = SubSeq(readBuffer, n + 1, Len(readBuffer))
  BY DEF TakePiece
<1>. HIDE DEF n
<1>6. /\ BufferedTypeOK' /\ Advance(n)
      /\ \A i \in 1..n : readBuffer[i] = Ahead(conn, readBuffer)[i]
  BY <1>1, <1>4, <1>5, TakenReads
<1>7. /\ SubSeq(readBuffer, 1, n) \in Seq(Token)
      /\ \A i \in 1..n : SubSeq(readBuffer, 1, n)[i] = readBuffer[i]
  BY <1>1, <1>4, Parts
<1>8. \A i \in 1..n : Piece[i] = Ahead(conn, readBuffer)[i]
  BY <1>2, <1>6, <1>7
<1>9. readBuffer[1] = Ahead(conn, readBuffer)[1]
  BY <1>4, <1>6
<1>10. IsLine(Ahead(conn, readBuffer)[1]) => n = 1
  BY <1>2, <1>9
<1>. QED BY <1>2, <1>4, <1>6, <1>7, <1>8, <1>10 DEF n

\* Bytes are taken from the buffer or, when it is empty, from the connection.
LEMMA BytesRead ==
  ASSUME BufferedTypeOK, NEW size \in Nat \ {0}, NEW got \in Gets(size),
         TakeBytes(got)
  PROVE  /\ BufferedTypeOK' /\ Advance(Len(got)) /\ got \in Seq(Token)
         /\ Len(got) \in 1..size
         /\ \A i \in 1..Len(got) : got[i] = Ahead(conn, readBuffer)[i]
<1>. DEFINE n == Len(got)
<1>1. readBuffer \in Seq(Token) /\ conn.rest \in Seq(Token)
  BY Streams
<1>2. CASE readBuffer # <<>>
  <2>1. Len(readBuffer) \in Nat /\ Len(readBuffer) >= 1
    BY <1>1, <1>2
  <2>2. PICK m \in 1..size : m <= Len(readBuffer) /\ got = SubSeq(readBuffer, 1, m)
    <3>1. got = SubSeq(readBuffer, 1,
                       IF size < Len(readBuffer) THEN size ELSE Len(readBuffer))
      BY <1>2 DEF Gets
    <3>. QED BY <2>1, <3>1
  <2>3. m \in 0..Len(readBuffer)
    BY <2>1, <2>2
  <2>4. /\ got \in Seq(Token) /\ Len(got) = m
        /\ \A i \in 1..m : got[i] = readBuffer[i]
    BY <1>1, <2>2, <2>3, Parts
  <2>5. readBuffer' = SubSeq(readBuffer, m + 1, Len(readBuffer)) /\ UNCHANGED conn
    BY <1>2, <2>4 DEF TakeBytes
  <2>6. /\ BufferedTypeOK' /\ Advance(m)
        /\ \A i \in 1..m : readBuffer[i] = Ahead(conn, readBuffer)[i]
    BY <2>3, <2>5, TakenReads
  <2>. QED BY <2>2, <2>4, <2>6
<1>3. CASE readBuffer = <<>>
  <2>1. got \in Portions(size) /\ BaseRead(got) /\ readBuffer' = <<>>
    BY <1>3 DEF Gets, TakeBytes
  <2>2. PICK m \in 1..size : m <= Len(conn.rest) /\ got = SubSeq(conn.rest, 1, m)
    BY <2>1 DEF Portions
  <2>3. Len(conn.rest) \in Nat /\ m \in 0..Len(conn.rest)
    BY <1>1, <2>2
  <2>4. /\ got \in Seq(Token) /\ Len(got) = m
        /\ \A i \in 1..m : got[i] = conn.rest[i]
    BY <1>1, <2>2, <2>3, Parts
  <2>. DEFINE R == SubSeq(conn.rest, m + 1, Len(conn.rest))
  <2>5. conn' = [conn EXCEPT !.rest = R]
    BY <2>1, <2>4 DEF BaseRead
  <2>6. R \in Seq(Token)
    BY <1>1, <2>3, Parts
  <2>7. conn'.rest = R /\ conn'.full = conn.full /\ conn'.end = conn.end
    BY <2>5 DEF BufferedTypeOK, Connection
  <2>8. BufferedTypeOK'
    <3>. HIDE DEF R
    <3>1. conn' \in Connection /\ conn'.tls = conn.tls /\ conn'.end = conn.end
      BY <2>5, <2>6 DEF BufferedTypeOK, Connection
    <3>. QED BY <1>3, <2>1, <3>1 DEF BufferedTypeOK
  <2>9. Ahead(conn', readBuffer') = R /\ Ahead(conn, readBuffer) = conn.rest
    BY <1>1, <1>3, <2>1, <2>6, <2>7, JoinEmpty DEF Ahead
  <2>10. Advance(m)
    BY <2>3, <2>7, <2>9 DEF Advance
  <2>. QED BY <2>2, <2>4, <2>8, <2>9, <2>10
<1>. QED BY <1>2, <1>3

\* A read that gets nothing: the buffer is empty, the connection may end.
LEMMA NothingReads ==
  ASSUME BufferedTypeOK, NEW r, NothingRead(r)
  PROVE  /\ BufferedTypeOK' /\ readBuffer = <<>> /\ readBuffer' = <<>>
         /\ conn'.full = conn.full /\ conn'.rest = conn.rest
         /\ r \in {0, ErrIo} => conn'.end # "open"
         /\ conn.end # "open" => conn'.end # "open"
<1>1. readBuffer = <<>> /\ readBuffer' = <<>> /\ BaseEnds(r)
  BY DEF NothingRead
<1>2. CASE r = 0
  <2>1. conn' = [conn EXCEPT !.end = "close"]
    BY <1>1, <1>2 DEF BaseEnds, ErrIo, ErrTimeout
  <2>. QED BY <1>1, <2>1 DEF BufferedTypeOK, Connection
<1>3. CASE r = ErrIo
  <2>1. \/ conn' = [conn EXCEPT !.end = "reset"]
        \/ conn' = [conn EXCEPT !.end = "silent"] /\ conn.tls
    BY <1>1, <1>3 DEF BaseEnds, ErrIo, ErrTimeout
  <2>2. CASE conn' = [conn EXCEPT !.end = "reset"]
    BY <1>1, <2>2 DEF BufferedTypeOK, Connection
  <2>3. CASE conn' = [conn EXCEPT !.end = "silent"] /\ conn.tls
    BY <1>1, <2>3 DEF BufferedTypeOK, Connection
  <2>. QED BY <2>1, <2>2, <2>3
<1>4. CASE r \notin {0, ErrIo}
  <2>1. conn' = conn
    BY <1>1, <1>4 DEF BaseEnds
  <2>. QED BY <1>1, <1>4, <2>1 DEF BufferedTypeOK
<1>. QED BY <1>2, <1>3, <1>4

-----------------------------------------------------------------------------
(* How a step of receiving ends                                            *)

HttpSet == [connected : BOOLEAN, readMode : Modes,
            writeMode : {"Idle", "Body", "Error"}, bodySize : Int,
            chunkSize : Nat \cup {-1}, code : Nat, length : Nat \cup {-1}]
CallSet == [pc : PCs, op : {"none", "send"} \cup RecvOps,
            line : Seq(Token), hdr : Seq(Token), got : Seq(Token),
            body : Seq(Token), size : Nat \cup {-1}, todo : Seq(Unit)]
ResSet == [op : {"none", "send", "test"} \cup RecvOps,
           rv : Errors \cup Nat, body : Seq(Token), file : BOOLEAN]

\* What the invariant says of a call that receives ...
Base == TypeOK /\ ShapeInv /\ SendInv /\ ServedInv /\ call.pc \in ReadPCs
Clear == taint = {} /\ http.connected

\* ... and what its steps leave alone.
Reads ==
  BufferedTypeOK' /\ conn'.full = conn.full /\ UNCHANGED <<out, reqs, taint, count>>

Like(h) ==
  h \in HttpSet /\ h.connected = http.connected /\ h.writeMode = http.writeMode
Sound(h) ==
  /\ h.readMode = "Chunk" => h.chunkSize > 0
  /\ h.readMode = "Body" => h.bodySize # 0

\* The body of a successful answer, or its beginning if the rest cannot come.
Done(c, b, body) ==
  /\ b = <<>>
  /\ \/ IsBody(body, c.full, Len(c.full))
     \/ c.end # "open" /\ c.rest # <<>>
        /\ \E m \in 0..Len(c.full) : IsBody(body, c.full, m)

\* The call returns.
LEMMA OverKeeps ==
  ASSUME Base, Reads, NEW h, Like(h), Sound(h),
         NEW rv \in Errors \cup Nat, NEW body \in Seq(Token), NEW file \in BOOLEAN,
         call' = NoCall,
         res' = [op |-> call.op, rv |-> rv, body |-> body, file |-> file],
         \/ http' = Disconnected(h)
         \/ /\ http' = h
            /\ Clear => Aligned(conn', readBuffer') /\ conn'.rest # conn'.full,
         file => rv \in 200..299 \/ rv = ErrFile,
         taint = {} /\ rv > 0 =>
           /\ rv = conn'.full[1].n
           /\ rv \in 200..299 => Done(conn', readBuffer', body)
  PROVE  Inv'
<1>1. call.op \in RecvOps /\ call \in CallSet
  BY DEF Base, ShapeInv, TypeOK, CallSet
<1>2. /\ NoCall \in CallSet /\ NoCall.pc = "idle" /\ NoCall.todo = <<>>
  BY DEF NoCall, CallSet, PCs
<1>3. /\ http' \in HttpSet /\ http'.readMode = h.readMode
      /\ http'.chunkSize = h.chunkSize /\ http'.bodySize = h.bodySize
      /\ http'.writeMode = http.writeMode
      /\ http'.connected => http.connected
      /\ http'.connected => http' = h
  <2>1. CASE http' = h
    BY <2>1 DEF Like
  <2>2. CASE http' = Disconnected(h)
    BY <2>2 DEF Like, Disconnected, HttpSet
  <2>. QED BY <2>1, <2>2
<1>4. res' \in ResSet
  BY <1>1 DEF ResSet
<1>5. TypeOK'
  BY <1>2, <1>3, <1>4 DEF Base, Reads, TypeOK, HttpSet, CallSet, ResSet
<1>6. ShapeInv'
  BY <1>2, <1>3 DEF ShapeInv, Sound, ReadPCs, SendPCs, LinePCs, BytePCs, WritePCs
<1>7. SendInv'
  <2>1. call.pc \notin WritePCs /\ call'.pc \notin WritePCs
    BY <1>2 DEF Base, ReadPCs, LinePCs, BytePCs, WritePCs
  <2>2. res'.op # "send"
    BY <1>1 DEF RecvOps
  <2>3. RequestWhole'
    BY <2>2 DEF Base, Reads, SendInv, RequestWhole
  <2>. QED BY <1>3, <2>1, <2>3 DEF Base, Reads, SendInv
<1>8. ServedInv'
  BY <1>3 DEF Base, Reads, ServedInv
<1>9. ReadInv'
  <2>1. SUFFICES ASSUME taint' = {}, http'.connected
                 PROVE  Track(conn', readBuffer', http', call')
    BY DEF ReadInv
  <2>2. http' # Disconnected(h)
    BY <2>1 DEF Disconnected, Like, HttpSet
  <2>3. Clear
    BY <1>3, <2>1 DEF Clear, Reads
  <2>4. Aligned(conn', readBuffer') /\ conn'.rest # conn'.full
    BY <2>2, <2>3
  <2>5. call'.pc \notin ReadPCs
    BY <1>2 DEF ReadPCs, LinePCs, BytePCs
  <2>. QED BY <2>4, <2>5 DEF Track
<1>10. ResultInv'
  <2>1. /\ res'.op = call.op /\ res'.rv = rv /\ res'.body = body /\ res'.file = file
    OBVIOUS
  <2>2. taint' = taint
    BY DEF Reads
  <2>3. rv \in 200..299 => rv > 0
    <3>1. \A n \in 200..299 : n > 0
      OBVIOUS
    <3>. QED BY <3>1
  <2>4. Delivered'
    <3>1. conn'.end # "open" /\ conn'.rest # <<>> => CutShort'
      <4>1. /\ conn'.end \in {"open", "close", "reset", "silent"}
            /\ conn'.end = "silent" => conn'.tls
        BY DEF Reads, BufferedTypeOK, Connection
      <4>. QED BY <4>1 DEF CutShort
    <3>2. Done(conn', readBuffer', body) =>
            \/ IsBody(body, conn'.full, Len(conn'.full))
            \/ CutShort' /\ \E m \in 0..Len(conn'.full) : IsBody(body, conn'.full, m)
      BY <3>1 DEF Done
    <3>3. Ok' => rv \in 200..299 /\ rv > 0
      BY <2>1, <2>3 DEF Ok
    <3>. QED BY <1>1, <2>1, <2>2, <3>2, <3>3 DEF Delivered, Ok
  <2>5. StatusOwn'
    BY <2>1, <2>2 DEF StatusOwn
  <2>6. BufferClean'
    BY <2>1, <2>2, <2>3 DEF BufferClean, Ok, Done
  <2>. QED BY <2>4, <2>5, <2>6 DEF ResultInv
<1>. QED BY <1>5, <1>6, <1>7, <1>8, <1>9, <1>10 DEF Inv

\* Nothing has been returned yet.
LEMMA NoResult ==
  ASSUME res = NoRes, res' = res, out' = out, reqs' = reqs, RequestWhole
  PROVE  ResultInv' /\ RequestWhole'
<1>1. res'.op = "none" /\ res'.file = FALSE
  BY DEF NoRes
<1>. QED
  BY <1>1 DEF ResultInv, Delivered, StatusOwn, BufferClean, Ok, RecvOps, RequestWhole

\* The call goes on.
LEMMA OnKeeps ==
  ASSUME Base, Reads, NEW h, Like(h), NEW q \in CallSet, q.op = call.op,
         q.pc \in ReadPCs, http' = h, call' = q, res' = res,
         q.pc # "read" => http.connected /\ h.readMode = ModeAt(q.pc),
         q.pc # "trail" => Sound(h), q.pc = "trail" => q.got # <<>>,
         q.pc = "status" => h.code = 0,
         Clear => Track(conn', readBuffer', h, q)
  PROVE  Inv'
<1>1. q.pc \notin SendPCs /\ q.pc # "idle" /\ call.pc \notin SendPCs /\ call.pc # "idle"
  BY DEF Base, ReadPCs, SendPCs, LinePCs, BytePCs, WritePCs
<1>2. res = NoRes /\ call.op \in RecvOps
  BY <1>1 DEF Base, ShapeInv
<1>3. TypeOK'
  BY DEF Base, Reads, Like, TypeOK, HttpSet, CallSet
<1>4. ShapeInv'
  <2>1. q.pc \in LinePCs \cup BytePCs => q.pc # "read"
    BY DEF LinePCs, BytePCs
  <2>2. q.pc = "trail" => h.readMode = "Chunk"
    BY DEF ModeAt
  <2>3. q.pc = "trail" => q.pc # "idle" /\ h.readMode # "Body"
    BY <2>2
  <2>. QED BY <1>1, <1>2, <2>1, <2>3 DEF ShapeInv, Sound, Like
<1>5. ResultInv' /\ RequestWhole'
  BY <1>2, NoResult DEF Base, Reads, SendInv
<1>6. SendInv'
  BY <1>1, <1>5 DEF Base, Reads, SendInv, Like, SendPCs
<1>7. ServedInv'
  BY DEF Base, Reads, ServedInv, Like
<1>8. ReadInv'
  BY DEF ReadInv, Clear, Reads, Like
<1>. QED BY <1>3, <1>4, <1>5, <1>6, <1>7, <1>8 DEF Inv

\* The answer is complete, or all there is to come.
LEMMA ReceivedKeeps ==
  ASSUME Base, Reads, NEW h, Like(h), Sound(h), NEW body \in Seq(Token),
         http.connected, Received(h, body),
         Clear /\ h.code # 0 =>
           /\ Aligned(conn', readBuffer') /\ conn'.rest # conn'.full
           /\ h.code = conn.full[1].n
           /\ h.code \in 200..299 => Done(conn', readBuffer', body)
  PROVE  Inv'
<1>. DEFINE rv == IF h.code = 0 THEN ErrBadData ELSE h.code
            ok == rv \in 200..299
<1>1. h.code \in Nat
  BY DEF Like, HttpSet
<1>2. rv \in Errors \cup Nat
  BY <1>1 DEF Errors, ErrBadData
<1>3. taint = {} /\ rv > 0 =>
        /\ rv = conn'.full[1].n
        /\ rv \in 200..299 => Done(conn', readBuffer', body)
  <2>1. rv > 0 => rv = h.code /\ h.code # 0
    BY <1>1 DEF ErrBadData
  <2>2. conn'.full = conn.full
    BY DEF Reads
  <2>. HIDE DEF rv
  <2>. QED BY <2>1, <2>2 DEF Clear
<1>4. \/ Ends(h, rv, body, ok /\ call.op = "recvFile")
      \/ /\ ok /\ call.op = "recvFile"
         /\ http' = h /\ call' = NoCall
         /\ res' = [op |-> call.op, rv |-> ErrFile, body |-> body, file |-> TRUE]
  BY DEF Received
<1>5. CASE Ends(h, rv, body, ok /\ call.op = "recvFile")
  <2>. DEFINE file == ok /\ call.op = "recvFile"
  <2>1. /\ http' = Disconnected(h) /\ call' = NoCall
        /\ res' = [op |-> call.op, rv |-> rv, body |-> body, file |-> file]
    BY <1>5 DEF Ends
  <2>2. file \in BOOLEAN /\ (file => rv \in 200..299)
    OBVIOUS
  <2>. HIDE DEF file, rv, ok
  <2>. QED BY <1>2, <1>3, <2>1, <2>2, OverKeeps
<1>6. CASE /\ ok /\ call.op = "recvFile"
           /\ http' = h /\ call' = NoCall
           /\ res' = [op |-> call.op, rv |-> ErrFile, body |-> body, file |-> TRUE]
  <2>1. ErrFile \in Errors \cup Nat /\ ~(ErrFile > 0)
    BY DEF Errors, ErrFile
  <2>2. h.code # 0
    BY <1>6 DEF ErrBadData
  <2>. HIDE DEF rv, ok
  <2>. QED BY <1>6, <2>1, <2>2, OverKeeps
<1>. QED BY <1>4, <1>5, <1>6

\* The call after a read that has returned nothing, and after one that has
\* returned some tokens.
Again == [call EXCEPT !.pc = "read", !.line = <<>>, !.hdr = <<>>, !.got = <<>>]
Grown(body, size) ==
  [call EXCEPT !.pc = "read", !.body = body, !.size = size, !.line = <<>>,
               !.hdr = <<>>, !.got = <<>>]

\* Their fields.
LEMMA AgainFields ==
  ASSUME call \in CallSet
  PROVE  /\ Again \in CallSet /\ Again.pc = "read" /\ Again.op = call.op
         /\ Again.line = <<>> /\ Again.hdr = <<>> /\ Again.got = <<>>
         /\ Again.body = call.body /\ Again.size = call.size
<1>1. "read" \in PCs /\ <<>> \in Seq(Token)
  BY DEF PCs
<1>. QED BY <1>1 DEF Again, CallSet

\* GWEN_SyncIo_Http_Read has returned 0 or an error.
LEMMA FailedKeeps ==
  ASSUME Base, Reads, NEW h, Like(h), Sound(h), NEW r \in Errors \cup {0},
         ReadFailed(h, r),
         r = 0 \/ Ignored(r) =>
           /\ http.connected
           /\ Clear /\ h.code # 0 =>
                /\ Aligned(conn', readBuffer') /\ conn'.rest # conn'.full
                /\ h.code = conn.full[1].n
                /\ h.code \in 200..299 => Done(conn', readBuffer', call.body),
         r = ErrEof => (Clear => Track(conn', readBuffer', h, Again))
  PROVE  Inv'
<1>1. call \in CallSet /\ call.body \in Seq(Token)
  BY DEF Base, TypeOK, CallSet
<1>2. r # 0 => r \in Errors /\ r \in Errors \cup Nat /\ ~(r > 0)
  BY DEF Errors
<1>3. CASE r # 0 /\ Ends(h, r, call.body, FALSE)
  <2>1. /\ http' = Disconnected(h) /\ call' = NoCall
        /\ res' = [op |-> call.op, rv |-> r, body |-> call.body, file |-> FALSE]
    BY <1>3 DEF Ends
  <2>. QED BY <1>1, <1>2, <1>3, <2>1, OverKeeps
<1>4. CASE (r = 0 \/ Ignored(r)) /\ Received(h, call.body)
  BY <1>1, <1>4, ReceivedKeeps
<1>5. CASE r = ErrEof /\ http' = h /\ res' = res /\ call' = Again
  <2>1. "read" \in ReadPCs /\ "read" # "trail"
    BY DEF ReadPCs
  <2>. QED BY <1>1, <1>5, <2>1, AgainFields, OnKeeps
<1>6. \/ r # 0 /\ Ends(h, r, call.body, FALSE)
      \/ (r = 0 \/ Ignored(r)) /\ Received(h, call.body)
      \/ r = ErrEof /\ http' = h /\ res' = res /\ call' = Again
  <2>1. ErrEof # 0
    BY DEF ErrEof
  <2>2. CASE r = 0
    BY <2>1, <2>2 DEF ReadFailed
  <2>3. CASE r = ErrEof
    BY <2>1, <2>3 DEF ReadFailed, Again
  <2>4. CASE r \notin {0, ErrEof}
    BY <2>4 DEF ReadFailed
  <2>. QED BY <2>2, <2>3, <2>4
<1>. QED BY <1>3, <1>4, <1>5, <1>6

\* The size of the body, once there is some of it, and what RecvBody needs to
\* go on or to be content with the body.
SizeFor(h) == IF call.body = <<>> THEN h.length ELSE call.size
Complete(h, body) ==
  /\ Aligned(conn', readBuffer') /\ conn'.rest # conn'.full
  /\ h.code = conn.full[1].n
  /\ h.code \in 200..299 => Done(conn', readBuffer', body)
Followed(h, body, size) ==
  /\ size # -1 /\ Len(body) >= size => Complete(h, body)
  /\ size = -1 \/ Len(body) < size =>
       Track(conn', readBuffer', h, Grown(body, size))

\* GWEN_SyncIo_Http_Read has returned some tokens.
LEMMA GotKeeps ==
  ASSUME Base, Reads, NEW h, Like(h), Sound(h), http.connected,
         NEW got \in Seq(Token), ReadGot(h, got),
         NEW body, body = call.body \o got, NEW size, size = SizeFor(h),
         Clear => Followed(h, body, size)
  PROVE  Inv'
<1>1. call \in CallSet /\ call.body \in Seq(Token)
  BY DEF Base, TypeOK, CallSet
<1>2. body \in Seq(Token)
  BY <1>1
<1>3. size \in Nat \cup {-1}
  BY <1>1 DEF Like, HttpSet, CallSet, SizeFor
<1>4. \A rv \in {ErrAborted, ErrFile} : rv \in Errors \cup Nat /\ ~(rv > 0)
  BY DEF Errors, ErrAborted, ErrFile
<1>5. ASSUME NEW rv \in {ErrAborted, ErrFile}, Ends(h, rv, body, FALSE)
      PROVE  Inv'
  <2>1. /\ http' = Disconnected(h) /\ call' = NoCall
        /\ res' = [op |-> call.op, rv |-> rv, body |-> body, file |-> FALSE]
    BY <1>5 DEF Ends
  <2>. QED BY <1>2, <1>4, <2>1, OverKeeps
<1>6. CASE size # -1 /\ Len(body) >= size /\ Received(h, body)
  <2>1. Clear => /\ Aligned(conn', readBuffer') /\ conn'.rest # conn'.full
                 /\ h.code = conn.full[1].n
                 /\ h.code \in 200..299 => Done(conn', readBuffer', body)
    BY <1>6 DEF Followed, Complete
  <2>. QED BY <1>2, <1>6, <2>1, ReceivedKeeps
<1>7. CASE /\ size = -1 \/ Len(body) < size
           /\ call' = Grown(body, size) /\ http' = h /\ res' = res
  <2>1. "read" \in ReadPCs /\ "read" # "trail"
    BY DEF ReadPCs
  <2>0. PICK q : q = Grown(body, size)
    OBVIOUS
  <2>2. q \in CallSet /\ q.pc = "read" /\ q.op = call.op
    <3>1. "read" \in PCs /\ <<>> \in Seq(Token)
      BY DEF PCs
    <3>2. q \in CallSet
      BY <1>1, <1>2, <1>3, <2>0, <3>1 DEF Grown, CallSet
    <3>3. q.pc = "read"
      BY <1>1, <2>0 DEF Grown, CallSet
    <3>4. q.op = call.op
      BY <1>1, <2>0 DEF Grown, CallSet
    <3>. QED BY <3>2, <3>3, <3>4
  <2>3. Clear => Track(conn', readBuffer', h, q)
    BY <1>7, <2>0 DEF Followed
  <2>4. call' = q /\ http' = h /\ res' = res
    BY <1>7, <2>0
  <2>. QED BY <2>1, <2>2, <2>3, <2>4, OnKeeps
<1>8. \/ Ends(h, ErrAborted, body, FALSE)
      \/ Ends(h, ErrFile, body, FALSE)
      \/ size # -1 /\ Len(body) >= size /\ Received(h, body)
      \/ /\ size = -1 \/ Len(body) < size
         /\ call' = Grown(body, size) /\ http' = h /\ res' = res
  BY DEF ReadGot, Grown, SizeFor
<1>. QED BY <1>5, <1>6, <1>7, <1>8

-----------------------------------------------------------------------------
(* Facts about the states of a call that receives                          *)

\* What Base says in terms of this part.
LEMMA BaseFacts ==
  ASSUME Base
  PROVE  /\ http \in HttpSet /\ call \in CallSet /\ BufferedTypeOK
         /\ call.op \in RecvOps /\ Like(http)
         /\ call.pc # "trail" => Sound(http)
         /\ call.pc \in LinePCs \cup BytePCs =>
              http.connected /\ http.readMode = ModeAt(call.pc)
BY DEF Base, TypeOK, HttpSet, CallSet, ShapeInv, Like, Sound

\* A read mode is put on record, and nothing else.
LEMMA ModeFields ==
  ASSUME Like(http), NEW m \in Modes, NEW h, h = [http EXCEPT !.readMode = m]
  PROVE  /\ Like(h) /\ h.readMode = m /\ h.code = http.code
         /\ h.length = http.length /\ h.bodySize = http.bodySize
         /\ h.chunkSize = http.chunkSize
BY DEF Like, HttpSet

\* A failed read leaves no other trace.
LEMMA ErrorFields ==
  ASSUME Like(http)
  PROVE  /\ Like(InError(http)) /\ Sound(InError(http))
         /\ InError(http).readMode = "Error" /\ InError(http).code = http.code
<1>1. "Error" \in Modes
  BY DEF Modes
<1>2. /\ Like(InError(http)) /\ InError(http).readMode = "Error"
      /\ InError(http).code = http.code
  BY <1>1, ModeFields DEF InError
<1>. QED BY <1>2 DEF Sound

\* The call at another step.
LEMMA AtFields ==
  ASSUME call \in CallSet, NEW l \in PCs
  PROVE  /\ At(l) \in CallSet /\ At(l).pc = l /\ At(l).op = call.op
         /\ At(l).line = <<>> /\ At(l).hdr = call.hdr /\ At(l).got = call.got
         /\ At(l).body = call.body /\ At(l).size = call.size
<1>1. <<>> \in Seq(Token)
  OBVIOUS
<1>. QED BY <1>1 DEF At, CallSet

\* The server's answer on an open connection.
LEMMA Answer ==
  ASSUME Base, Clear
  PROVE  /\ conn.full \in Seq(Token) /\ Len(conn.full) \in Nat
         /\ Len(conn.full) >= 1 /\ WellFormed(conn.full)
         /\ conn.full[1].k = "status" /\ conn.full[1].n \in Nat
         /\ \A i \in 1..Len(conn.full) : conn.full[i] \in Token
         /\ conn.full[1].n \in 200..299 =>
              LET e == HeaderEnd(conn.full) IN
              /\ e \in 2..Len(conn.full) /\ EndOfHeader(conn.full, e)
              /\ Plain(conn.full, e) \/ Chunked(conn.full, e)
<1>. DEFINE F == conn.full
<1>1. F # <<>> /\ WellFormed(F)
  BY DEF Base, Clear, ServedInv
<1>2. F \in Seq(Token)
  BY Streams DEF Base, TypeOK
<1>3. Len(F) \in Nat /\ Len(F) >= 1
  BY <1>1, <1>2
<1>4. \A i \in 1..Len(F) : F[i] \in Token
  BY <1>2, Element
<1>5. F[1].k = "status"
  BY <1>1 DEF WellFormed
<1>6. F[1].n \in Nat
  BY <1>3, <1>4 DEF Token
<1>7. ASSUME F[1].n \in 200..299
      PROVE  LET e == HeaderEnd(F) IN
             /\ e \in 2..Len(F) /\ EndOfHeader(F, e)
             /\ Plain(F, e) \/ Chunked(F, e)
  <2>1. \E e \in 2..Len(F) : EndOfHeader(F, e) /\ (Plain(F, e) \/ Chunked(F, e))
    BY <1>1, <1>7 DEF WellFormed
  <2>. HIDE DEF F
  <2>. QED BY <2>1 DEF HeaderEnd
<1>. QED BY <1>1, <1>2, <1>3, <1>4, <1>5, <1>6, <1>7

\* Where the parser is.
LEMMA Where ==
  ASSUME Base, ReadInv, Clear
  PROVE  /\ Track(conn, readBuffer, http, call) /\ Aligned(conn, readBuffer)
         /\ Pos(conn, readBuffer) \in 0..Len(conn.full)
         /\ Heading(conn.full, Pos(conn, readBuffer), http, call)
         /\ conn.full[1].n \in 200..299 =>
              \/ CutOff(conn, readBuffer, call)
              \/ Content(conn.full, Pos(conn, readBuffer), http, call)
<1>1. call.pc # "dead"
  BY DEF Base, ReadPCs, LinePCs, BytePCs
<1>2. Track(conn, readBuffer, http, call)
  BY <1>1 DEF ReadInv, Clear
<1>3. Aligned(conn, readBuffer)
  BY <1>2 DEF Track
<1>4. Pos(conn, readBuffer) \in 0..Len(conn.full)
  <2>1. /\ Len(conn.full) \in Nat /\ Ahead(conn, readBuffer) \in Seq(Token)
    BY Streams DEF Base, TypeOK
  <2>2. Len(Ahead(conn, readBuffer)) \in Nat
    BY <2>1
  <2>3. Len(Ahead(conn, readBuffer)) <= Len(conn.full)
    BY <1>3 DEF Aligned
  <2>. QED BY <2>1, <2>2, <2>3 DEF Pos
<1>. QED BY <1>2, <1>3, <1>4 DEF Track, Base

\* What is left to be read at a place.
LEMMA Unread ==
  ASSUME NEW c, NEW b, c.full \in Seq(Token), c.rest \in Seq(Token),
         b \in Seq(Token)
  PROVE  /\ Pos(c, b) >= 1 => c.rest # c.full
         /\ Pos(c, b) = Len(c.full) => b = <<>> /\ c.rest = <<>>
         /\ Pos(c, b) < Len(c.full) /\ b = <<>> => c.rest # <<>>
         /\ c.rest = <<>> /\ b = <<>> => Pos(c, b) = Len(c.full)
         /\ c.rest = c.full /\ b = <<>> => Pos(c, b) = 0
<1>1. Len(b \o c.rest) = Len(b) + Len(c.rest)
  BY Joined
<1>2. Len(b) \in Nat /\ Len(c.rest) \in Nat /\ Len(c.full) \in Nat
  OBVIOUS
<1>3. (b = <<>> <=> Len(b) = 0) /\ (c.rest = <<>> <=> Len(c.rest) = 0)
  OBVIOUS
<1>4. Pos(c, b) = Len(c.full) - (Len(b) + Len(c.rest))
  BY <1>1 DEF Pos, Ahead
<1>5. c.rest = c.full => Len(c.rest) = Len(c.full)
  OBVIOUS
<1>6. PICK p, l, m, n : /\ p = Pos(c, b) /\ l = Len(c.full) /\ m = Len(b)
                        /\ n = Len(c.rest)
  OBVIOUS
<1>7. /\ p >= 1 => n # l
      /\ p = l => m = 0 /\ n = 0
      /\ p < l /\ m = 0 => n # 0
      /\ n = 0 /\ m = 0 => p = l
      /\ n = l /\ m = 0 => p = 0
  <2>1. p = l - (m + n) /\ l \in Nat /\ m \in Nat /\ n \in Nat
    BY <1>2, <1>4, <1>6
  <2>. QED BY <2>1
<1>. QED BY <1>3, <1>5, <1>6, <1>7

\* The conditions speak of the place only, not of how the call got there.
LEMMA SamePlace ==
  ASSUME NEW c, NEW b, NEW F, NEW p, NEW h, NEW q, NEW g, NEW t,
         Place(g, t) = Place(h, q), t.body = q.body, t.size = q.size,
         t.hdr = q.hdr, t.got = q.got, t.line = <<>>, g.code = h.code,
         g.length = h.length, g.bodySize = h.bodySize, g.chunkSize = h.chunkSize
  PROVE  /\ Heading(F, p, h, q) => Heading(F, p, g, t)
         /\ Content(F, p, h, q) => Content(F, p, g, t)
         /\ CutOff(c, b, q) => CutOff(c, b, t)
<1>1. Heading(F, p, h, q) => Heading(F, p, g, t)
  BY DEF Heading
<1>2. Content(F, p, h, q) => Content(F, p, g, t)
  BY DEF Content
<1>3. CutOff(c, b, q) => CutOff(c, b, t)
  BY DEF CutOff
<1>. QED BY <1>1, <1>2, <1>3

-----------------------------------------------------------------------------
(* The steps of receiving                                                  *)

\* GWEN_SyncIo_Http_Read begins.
LEMMA ReadBeginsKeeps ==
  ASSUME Base, ReadInv, ReadBegins
  PROVE  Inv'
<1>1. /\ http \in HttpSet /\ call \in CallSet /\ BufferedTypeOK
      /\ call.op \in RecvOps /\ Like(http)
  BY BaseFacts
<1>2. call.pc = "read" /\ conn' = conn /\ readBuffer' = readBuffer
  BY DEF ReadBegins
<1>3. Sound(http)
  BY <1>2, BaseFacts
<1>4. Reads
  BY <1>1, <1>2 DEF Reads, ReadBegins, BufferedTypeOK
<1>5. ASSUME NEW r \in {ErrNotConn, ErrGeneric}, ReadFailed(http, r)
      PROVE  Inv'
  <2>1. r \in Errors \cup {0} /\ r # 0 /\ ~Ignored(r) /\ r # ErrEof
    BY DEF Errors, ErrNotConn, ErrGeneric, Ignored, ErrIo, ErrEof
  <2>. QED BY <1>1, <1>3, <1>4, <1>5, <2>1, FailedKeeps
<1>6. CASE /\ http.connected /\ http.readMode = "Idle"
           /\ http' = [http EXCEPT !.code = 0, !.length = -1]
           /\ call' = At("status") /\ res' = res
  <2>1. PICK h, q : h = http' /\ q = At("status")
    OBVIOUS
  <2>2. "status" \in PCs /\ "status" \in ReadPCs
    BY DEF PCs, ReadPCs, LinePCs
  <2>3. /\ q \in CallSet /\ q.pc = "status" /\ q.op = call.op /\ q.line = <<>>
        /\ q.hdr = call.hdr /\ q.body = call.body /\ q.size = call.size
    BY <1>1, <2>1, <2>2, AtFields
  <2>4. Like(h) /\ Sound(h) /\ h.readMode = "Idle"
    BY <1>1, <1>6, <2>1 DEF Like, Sound, HttpSet
  <2>5. h.readMode = ModeAt(q.pc) /\ h.code = 0
    <3>1. h.code = 0
      BY <1>1, <1>6, <2>1 DEF HttpSet
    <3>. QED BY <2>3, <2>4, <3>1 DEF ModeAt
  <2>6. ASSUME Clear PROVE Track(conn', readBuffer', h, q)
    <3>1. Place(http, call) = "status" /\ Place(h, q) = "status"
      BY <1>2, <1>6, <2>3 DEF Place
    <3>2. Aligned(conn, readBuffer) /\ Heading(conn.full, Pos(conn, readBuffer), http, call)
      BY <2>6, Where
    <3>3. Heading(conn.full, Pos(conn, readBuffer), h, q)
      BY <2>3, <3>1, <3>2 DEF Heading, ChunkPCs
    <3>4. Content(conn.full, Pos(conn, readBuffer), h, q)
      BY <2>3, <3>1 DEF Content, ChunkPCs
    <3>. QED BY <1>2, <2>2, <2>3, <3>2, <3>3, <3>4 DEF Track
  <2>. QED BY <1>4, <1>6, <2>1, <2>2, <2>3, <2>4, <2>5, <2>6, OnKeeps
<1>7. ASSUME NEW l \in {"csize", "chunk", "body"}, http.connected,
             http.readMode = ModeAt(l), call' = At(l), http' = http, res' = res
      PROVE  Inv'
  <2>1. PICK q : q = At(l)
    OBVIOUS
  <2>2. l \in PCs /\ l \in ReadPCs /\ l \notin {"read", "trail", "status"}
    BY DEF PCs, ReadPCs, LinePCs, BytePCs
  <2>3. /\ q \in CallSet /\ q.pc = l /\ q.op = call.op /\ q.line = <<>>
        /\ q.hdr = call.hdr /\ q.body = call.body /\ q.size = call.size
        /\ q.got = call.got
    BY <1>1, <2>1, <2>2, AtFields
  <2>4. Place(http, call) = l /\ Place(http, q) = l
    BY <1>2, <1>7, <2>2, <2>3 DEF Place, ModeAt
  <2>5. ASSUME Clear PROVE Track(conn', readBuffer', http, q)
    <3>1. /\ Aligned(conn, readBuffer)
          /\ Heading(conn.full, Pos(conn, readBuffer), http, call)
          /\ conn.full[1].n \in 200..299 =>
              \/ CutOff(conn, readBuffer, call)
              \/ Content(conn.full, Pos(conn, readBuffer), http, call)
      BY <2>5, Where
    <3>2. /\ Heading(conn.full, Pos(conn, readBuffer), http, q)
          /\ conn.full[1].n \in 200..299 =>
              \/ CutOff(conn, readBuffer, q)
              \/ Content(conn.full, Pos(conn, readBuffer), http, q)
      BY <2>3, <2>4, <3>1, SamePlace
    <3>. QED BY <1>2, <2>2, <2>3, <3>1, <3>2 DEF Track
  <2>. QED BY <1>1, <1>3, <1>4, <1>7, <2>1, <2>2, <2>3, <2>5, OnKeeps
<1>8. CASE /\ http.connected /\ http.readMode \in {"ChunkSize", "Chunk", "Body"}
           /\ call' = At(CASE http.readMode = "ChunkSize" -> "csize"
                           [] http.readMode = "Chunk" -> "chunk"
                           [] http.readMode = "Body" -> "body")
           /\ UNCHANGED <<http, res>>
  <2>1. CASE http.readMode = "ChunkSize"
    BY <1>7, <1>8, <2>1 DEF ModeAt
  <2>2. CASE http.readMode = "Chunk"
    BY <1>7, <1>8, <2>2 DEF ModeAt
  <2>3. CASE http.readMode = "Body"
    BY <1>7, <1>8, <2>3 DEF ModeAt
  <2>. QED BY <1>8, <2>1, <2>2, <2>3
<1>. QED BY <1>5, <1>6, <1>8 DEF ReadBegins

\* The buffer is filled.
LEMMA FillKeeps ==
  ASSUME Base, ReadInv, FillBuffer
  PROVE  Inv'
<1>1. /\ http \in HttpSet /\ call \in CallSet /\ BufferedTypeOK /\ Like(http)
      /\ call.pc # "trail" => Sound(http)
      /\ call.pc \in LinePCs \cup BytePCs =>
           http.connected /\ http.readMode = ModeAt(call.pc)
  BY BaseFacts
<1>2. /\ call.pc \in LinePCs /\ Fill /\ http' = http /\ call' = call /\ res' = res
      /\ UNCHANGED <<out, reqs, taint, count>>
  BY DEF FillBuffer
<1>3. BufferedTypeOK' /\ Advance(0) /\ conn.end = "open"
  BY <1>1, <1>2, FillReads
<1>4. Reads
  BY <1>2, <1>3 DEF Reads, Advance
<1>5. ASSUME Clear PROVE Track(conn', readBuffer', http, call)
  <2>1. /\ Aligned(conn, readBuffer) /\ Pos(conn, readBuffer) \in 0..Len(conn.full)
        /\ Heading(conn.full, Pos(conn, readBuffer), http, call)
        /\ conn.full[1].n \in 200..299 =>
            \/ CutOff(conn, readBuffer, call)
            \/ Content(conn.full, Pos(conn, readBuffer), http, call)
    BY <1>5, Where
  <2>2. Aligned(conn', readBuffer') /\ Pos(conn', readBuffer') = Pos(conn, readBuffer) + 0
    BY <1>1, <1>3, <2>1, Advanced
  <2>3. Pos(conn', readBuffer') = Pos(conn, readBuffer) /\ conn'.full = conn.full
    <3>1. Pos(conn, readBuffer) + 0 = Pos(conn, readBuffer)
      BY <2>1
    <3>. QED BY <1>3, <2>2, <3>1 DEF Advance
  <2>4. ~CutOff(conn, readBuffer, call)
    BY <1>3 DEF CutOff
  <2>. QED BY <2>1, <2>2, <2>3, <2>4 DEF Track, Base
<1>6. /\ call.pc = "trail" => call.got # <<>>
      /\ call.pc = "status" => http.code = 0
  BY DEF Base, ShapeInv
<1>. QED BY <1>1, <1>2, <1>4, <1>5, <1>6, OnKeeps DEF Base

\* A line has been read, all of it where it is known what to expect.
NextLine(line) ==
  LET F == conn.full
      p == Pos(conn, readBuffer)
  IN  /\ Aligned(conn', readBuffer')
      /\ Pos(conn', readBuffer') \in 0..Len(F) /\ Pos(conn', readBuffer') >= p
      /\ call.pc = "status" \/ F[1].n \in 200..299 =>
           Pos(conn', readBuffer') = p + 1 /\ line = <<F[p + 1]>>
      /\ F[1].n \in 200..299 => Content(F, p, http, call)

\* A failed read is not a read that goes on: the mode is remembered.
LEMMA ErrorTrack ==
  ASSUME Base, ReadInv, Clear, Aligned(conn', readBuffer')
  PROVE  Track(conn', readBuffer', InError(http), Again)
<1>1. call \in CallSet /\ Like(http)
  BY BaseFacts
<1>2. PICK h, q : h = InError(http) /\ q = Again
  OBVIOUS
<1>3. h.readMode = "Error"
  BY <1>1, <1>2, ErrorFields
<1>4. q.pc = "read" /\ q.line = <<>> /\ q.body = call.body /\ q.size = call.size
  BY <1>1, <1>2, AgainFields
<1>5. Place(h, q) = "error"
  BY <1>3, <1>4 DEF Place
<1>6. call.body = <<>> => call.size = -1
  BY Where DEF Heading
<1>7. \A F, p : Heading(F, p, h, q)
  BY <1>4, <1>5, <1>6 DEF Heading, ChunkPCs
<1>8. \A F, p : Content(F, p, h, q)
  BY <1>4, <1>5 DEF Content, ChunkPCs
<1>9. "read" \in ReadPCs
  BY DEF ReadPCs
<1>. QED BY <1>2, <1>4, <1>7, <1>8, <1>9 DEF Track

\* GWEN_SyncIo_Http_ReadStatus
LEMMA GotStatusKeeps ==
  ASSUME Base, ReadInv, Reads, NEW line \in Seq(Token), line # <<>>,
         call.pc = "status", Clear => NextLine(line), GotStatus(line)
  PROVE  Inv'
<1>1. /\ http \in HttpSet /\ call \in CallSet /\ Like(http) /\ Sound(http)
      /\ http.connected /\ http.readMode = "Idle"
  BY BaseFacts DEF LinePCs, ModeAt
<1>2. PICK c \in IF Head(line).k = "blank" THEN {ErrEof} ELSE Codes(line) :
        \/ c < 0 /\ ReadFailed(InError(http), c)
        \/ /\ c >= 0
           /\ http' = [http EXCEPT !.code = c]
           /\ call' = At("header") /\ UNCHANGED res
  BY DEF GotStatus
<1>3. c \in Nat \/ c \in {ErrEof, ErrInvalid}
  <2>1. Len(line) \in Nat /\ Len(line) >= 1
    OBVIOUS
  <2>2. Last(line) \in Token
    BY <2>1, Element DEF Last
  <2>3. Codes(line) \subseteq Nat \cup {ErrInvalid}
    BY <2>2 DEF Codes, Token
  <2>. QED BY <1>2, <2>3
<1>4. ASSUME Clear
      PROVE  /\ c = conn.full[1].n /\ c \in Nat
             /\ Pos(conn, readBuffer) = 0 /\ Pos(conn', readBuffer') = 1
             /\ call.body = <<>> /\ call.hdr = <<>> /\ call.size = -1
  <2>1. Heading(conn.full, Pos(conn, readBuffer), http, call)
    BY <1>4, Where
  <2>2. Place(http, call) = "status"
    BY DEF Place
  <2>3. /\ Pos(conn, readBuffer) = 0 /\ call.body = <<>> /\ call.hdr = <<>>
        /\ call.size = -1
    BY <2>1, <2>2 DEF Heading
  <2>4. line = <<conn.full[1]>> /\ Pos(conn', readBuffer') = 1
    BY <1>4, <2>3 DEF NextLine
  <2>5. conn.full[1].k = "status" /\ conn.full[1].n \in Nat
    BY <1>4, Answer
  <2>6. Last(line) = conn.full[1] /\ Head(line) = conn.full[1] /\ line = <<Last(line)>>
    BY <2>4 DEF Last
  <2>7. Codes(line) = {conn.full[1].n}
    <3>1. PICK t : t = Last(line)
      OBVIOUS
    <3>2. line = <<t>> /\ t.k = "status" /\ t.n = conn.full[1].n /\ Len(line) = 1
      BY <2>5, <2>6, <3>1
    <3>3. ~(t.k \in {"status", "length"} /\ (Len(line) > 1 \/ t.k = "length"))
      BY <3>2
    <3>. QED BY <3>1, <3>2, <3>3 DEF Codes
  <2>8. c \in Codes(line)
    BY <1>2, <2>5, <2>6
  <2>. QED BY <2>3, <2>4, <2>5, <2>7, <2>8
<1>5. CASE c < 0 /\ ReadFailed(InError(http), c)
  <2>1. c \in {ErrEof, ErrInvalid}
    BY <1>3, <1>5
  <2>2. c \in Errors \cup {0} /\ c # 0 /\ ~Ignored(c)
    BY <2>1 DEF Errors, ErrEof, ErrInvalid, Ignored, ErrIo
  <2>3. ~Clear
    BY <1>4, <1>5
  <2>4. Like(InError(http)) /\ Sound(InError(http))
    BY <1>1, ErrorFields
  <2>. QED BY <1>5, <2>2, <2>3, <2>4, FailedKeeps
<1>6. CASE /\ c >= 0 /\ http' = [http EXCEPT !.code = c]
           /\ call' = At("header") /\ UNCHANGED res
  <2>0. c \in Nat
    BY <1>3, <1>6 DEF ErrEof, ErrInvalid
  <2>1. PICK h, q : h = http' /\ q = At("header")
    OBVIOUS
  <2>2. "header" \in PCs /\ "header" \in ReadPCs
    BY DEF PCs, ReadPCs, LinePCs
  <2>3. /\ q \in CallSet /\ q.pc = "header" /\ q.op = call.op /\ q.line = <<>>
        /\ q.hdr = call.hdr /\ q.body = call.body /\ q.size = call.size
    BY <1>1, <2>1, <2>2, AtFields
  <2>4. Like(h) /\ Sound(h) /\ h.readMode = "Idle" /\ h.code = c
    BY <1>1, <1>6, <2>0, <2>1 DEF Like, Sound, HttpSet
  <2>5. h.readMode = ModeAt(q.pc)
    BY <2>3, <2>4 DEF ModeAt
  <2>6. ASSUME Clear PROVE Track(conn', readBuffer', h, q)
    <3>1. Place(h, q) = "header"
      BY <2>3 DEF Place
    <3>2. Heading(conn.full, 1, h, q)
      BY <1>4, <2>3, <2>4, <2>6, <3>1 DEF Heading, ChunkPCs
    <3>3. ASSUME conn.full[1].n \in 200..299 PROVE Content(conn.full, 1, h, q)
      <4>1. HeaderEnd(conn.full) \in 2..Len(conn.full) /\ Len(conn.full) \in Nat
        BY <2>6, <3>3, Answer
      <4>2. SubSeq(conn.full, 2, 1) = <<>>
        BY <2>6, Answer
      <4>3. 1 < HeaderEnd(conn.full)
        BY <4>1
      <4>4. q.hdr = <<>>
        BY <1>4, <2>3, <2>6
      <4>. QED BY <2>3, <3>1, <4>2, <4>3, <4>4 DEF Content, ChunkPCs
    <3>4. Aligned(conn', readBuffer') /\ conn'.full = conn.full
      BY <2>6 DEF NextLine, Reads
    <3>. QED BY <1>4, <2>2, <2>3, <2>6, <3>2, <3>3, <3>4 DEF Track
  <2>. QED BY <1>1, <1>6, <2>1, <2>2, <2>3, <2>4, <2>5, <2>6, OnKeeps
<1>. QED BY <1>2, <1>5, <1>6

\* The length ParseHeader finds in lines: the first one stated.
Stated(lines) ==
  IF \E i \in DOMAIN lines : lines[i].k = "length"
  THEN lines[CHOOSE i \in DOMAIN lines :
               /\ lines[i].k = "length"
               /\ \A j \in 1..(i - 1) : lines[j].k # "length"].n
  ELSE -1

\* It is the number in one of the lines.
LEMMA StatedIs ==
  ASSUME NEW lines \in Seq(Token)
  PROVE  \/ Stated(lines) = -1 /\ \A i \in 1..Len(lines) : lines[i].k # "length"
         \/ /\ Stated(lines) \in Nat
            /\ \E i \in 1..Len(lines) : lines[i].k = "length" /\ Stated(lines) = lines[i].n
<1>1. DOMAIN lines = 1..Len(lines) /\ Len(lines) \in Nat
  OBVIOUS
<1>. DEFINE S == {i \in 1..Len(lines) : lines[i].k = "length"}
<1>2. CASE S = {}
  BY <1>1, <1>2 DEF Stated
<1>3. CASE S # {}
  <2>1. S \in SUBSET Nat
    BY <1>1
  <2>2. PICK i \in S : \A j \in S : i <= j
    BY <1>3, <2>1, Least
  <2>3. i \in 1..Len(lines) /\ lines[i].k = "length"
    BY <2>2
  <2>4. \A j \in 1..(i - 1) : lines[j].k # "length"
    <3>1. SUFFICES ASSUME NEW j \in 1..(i - 1), lines[j].k = "length" PROVE FALSE
      OBVIOUS
    <3>2. j \in 1..Len(lines) /\ j < i
      BY <1>1, <2>3
    <3>3. j \in S
      BY <3>1, <3>2
    <3>4. i <= j
      BY <2>2, <3>3
    <3>. QED BY <1>1, <2>3, <3>2, <3>4
  <2>5. PICK c : c = CHOOSE x \in DOMAIN lines :
                         /\ lines[x].k = "length"
                         /\ \A j \in 1..(x - 1) : lines[j].k # "length"
    OBVIOUS
  <2>6. c \in 1..Len(lines) /\ lines[c].k = "length"
    BY <1>1, <2>3, <2>4, <2>5
  <2>7. Stated(lines) = lines[c].n
    BY <1>1, <2>3, <2>5 DEF Stated
  <2>8. lines[c].n \in Nat
    <3>1. lines[c] \in Token
      BY <2>6, Element
    <3>. QED BY <3>1 DEF Token
  <2>. QED BY <2>6, <2>7, <2>8
<1>. QED BY <1>2, <1>3

\* The header is complete, or cut off by the end of the connection.
HeaderRead ==
  LET F == conn.full
      e == HeaderEnd(F)
  IN  /\ Aligned(conn', readBuffer') /\ Pos(conn', readBuffer') \in 1..Len(F)
      /\ F[1].n \in 200..299 =>
           \/ CutOff(conn', readBuffer', call)
           \/ Pos(conn', readBuffer') = e /\ call.hdr = SubSeq(F, 2, e - 1)

\* What a complete header of a successful answer says.
LEMMA HeaderSays ==
  ASSUME Base, Clear, conn.full[1].n \in 200..299,
         NEW e, e = HeaderEnd(conn.full), call.hdr = SubSeq(conn.full, 2, e - 1)
  PROVE  /\ \A k : (\E i \in DOMAIN call.hdr : call.hdr[i].k = k)
                     <=> InHeader(conn.full, e, k)
         /\ Stated(call.hdr) = IF InHeader(conn.full, e, "length")
                               THEN Len(conn.full) - e ELSE -1
         /\ IsBody(<<>>, conn.full, e)
<1>. DEFINE F == conn.full
            n == Len(call.hdr)
<1>1. /\ F \in Seq(Token) /\ Len(F) \in Nat /\ e \in 2..Len(F) /\ EndOfHeader(F, e)
      /\ Plain(F, e) \/ Chunked(F, e)
      /\ F[1].k = "status"
  BY Answer
<1>2. /\ n = e - 2 /\ DOMAIN call.hdr = 1..n
      /\ \A i \in 1..n : call.hdr[i] = F[i + 1]
  <2>1. SubSeq(F, 2, e - 1) \in Seq(Token) /\ Len(SubSeq(F, 2, e - 1)) = e - 2
    BY <1>1
  <2>2. \A i \in 1..(e - 2) : SubSeq(F, 2, e - 1)[i] = F[i + 1]
    BY <1>1
  <2>. QED BY <2>1, <2>2
<1>3. call.hdr \in Seq(Token)
  BY DEF Base, TypeOK
<1>. HIDE DEF n, F
<1>4. ASSUME NEW k
      PROVE  (\E i \in DOMAIN call.hdr : call.hdr[i].k = k) <=> InHeader(F, e, k)
  <2>1. ASSUME NEW i \in DOMAIN call.hdr, call.hdr[i].k = k PROVE InHeader(F, e, k)
    <3>0. i \in 1..n
      BY <1>2
    <3>1. i + 1 \in 2..(e - 1)
      <4>1. n = e - 2 /\ e \in Int /\ i \in 1..n
        BY <1>1, <1>2, <3>0
      <4>. QED BY <4>1
    <3>2. F[i + 1].k = k
      BY <1>2, <2>1, <3>0
    <3>. QED BY <3>1, <3>2 DEF InHeader
  <2>2. ASSUME NEW j \in 2..(e - 1), F[j].k = k
        PROVE  \E i \in DOMAIN call.hdr : call.hdr[i].k = k
    <3>1. j - 1 \in 1..n /\ (j - 1) + 1 = j
      BY <1>1, <1>2
    <3>2. call.hdr[j - 1] = F[j]
      BY <1>2, <3>1
    <3>. QED BY <1>2, <2>2, <3>1, <3>2
  <2>. QED BY <2>1, <2>2 DEF InHeader
<1>5. Stated(call.hdr) = IF InHeader(F, e, "length") THEN Len(F) - e ELSE -1
  <2>1. CASE InHeader(F, e, "length")
    <3>1. PICK i \in DOMAIN call.hdr : call.hdr[i].k = "length"
      BY <1>4, <2>1
    <3>2. PICK j \in 1..n : call.hdr[j].k = "length" /\ Stated(call.hdr) = call.hdr[j].n
      BY <1>2, <1>3, <3>1, StatedIs DEF n
    <3>3. F[j + 1].k = "length" /\ F[j + 1].n = Stated(call.hdr) /\ j + 1 \in 2..(e - 1)
      <4>1. j + 1 \in 2..(e - 1)
        BY <1>1, <1>2
      <4>2. call.hdr[j] = F[j + 1]
        BY <1>2
      <4>. QED BY <3>2, <4>1, <4>2
    <3>4. Plain(F, e)
      BY <1>1, <2>1 DEF Chunked
    <3>5. F[j + 1].n = Len(F) - e
      BY <3>3, <3>4 DEF Plain
    <3>. QED BY <2>1, <3>3, <3>5
  <2>2. CASE ~InHeader(F, e, "length")
    <3>1. \A i \in 1..n : call.hdr[i].k # "length"
      BY <1>2, <1>4, <2>2
    <3>. QED BY <1>3, <2>2, <3>1, StatedIs DEF n
  <2>. QED BY <2>1, <2>2
<1>6. IsBody(<<>>, F, e)
  <2>1. ASSUME NEW i \in 1..e PROVE F[i].k # "data"
    <3>1. i = 1 \/ i \in 2..(e - 1) \/ i = e
      BY <1>1
    <3>. QED BY <1>1, <3>1 DEF EndOfHeader
  <2>2. e \in Nat
    BY <1>1
  <2>. QED BY <2>1, <2>2, BodyNone
<1>. QED BY <1>4, <1>5, <1>6 DEF F

\* GWEN_SyncIo_Http_ParseHeader
LEMMA ParseHeaderKeeps ==
  ASSUME Base, ReadInv, Reads, call.pc = "header", ParseHeader(call.hdr),
         Clear => HeaderRead
  PROVE  Inv'
<1>1. /\ http \in HttpSet /\ call \in CallSet /\ Like(http) /\ Sound(http)
      /\ http.connected /\ http.readMode = "Idle"
  BY BaseFacts DEF LinePCs, ModeAt
<1>. DEFINE length == Stated(call.hdr)
            chunked == \E i \in DOMAIN call.hdr : call.hdr[i].k = "chunked"
            mode == AfterHeader(chunked, length, http.code)
            h == [http EXCEPT !.length = length, !.bodySize = length,
                              !.readMode = mode]
<1>8. \/ ReadFailed(InError(http), ErrBadData)
      \/ mode = "Idle" /\ ReadFailed(h, 0)
      \/ /\ mode # "Idle" /\ http' = h /\ res' = res
         /\ call' = [At(IF mode = "Body" THEN "body" ELSE "csize")
                     EXCEPT !.hdr = <<>>]
  BY Zenon DEF ParseHeader, Stated
<1>3. length \in Nat \cup {-1}
  <2>1. call.hdr \in Seq(Token)
    BY <1>1 DEF CallSet
  <2>. QED BY <2>1, StatedIs
<1>2. length = Stated(call.hdr)
  OBVIOUS
<1>0. chunked <=> \E i \in DOMAIN call.hdr : call.hdr[i].k = "chunked"
  OBVIOUS
<1>. HIDE DEF length, chunked
<1>4. mode = AfterHeader(chunked, length, http.code)
  OBVIOUS
<1>. HIDE DEF mode
<1>5. h = [http EXCEPT !.length = length, !.bodySize = length,
                       !.readMode = mode]
  OBVIOUS
<1>. HIDE DEF h
<1>6. mode \in {"Idle", "ChunkSize", "Body"} /\ (mode = "Body" => length # 0)
  BY <1>4 DEF AfterHeader
<1>7. /\ Like(h) /\ Sound(h) /\ h.readMode = mode /\ h.code = http.code
      /\ h.length = length /\ h.bodySize = length
  <2>1. mode \in Modes /\ length \in Int
    BY <1>3, <1>6 DEF Modes
  <2>. QED BY <1>1, <1>3, <1>5, <1>6, <2>1 DEF Like, Sound, HttpSet
<1>. DEFINE F == conn.full
            e == HeaderEnd(conn.full)
            p == Pos(conn', readBuffer')
<1>9. ASSUME Clear
      PROVE  /\ Aligned(conn', readBuffer') /\ p \in 1..Len(F)
             /\ conn'.rest # conn'.full /\ http.code = F[1].n
             /\ call.body = <<>> /\ call.size = -1 /\ conn'.full = F
  <2>1. HeaderRead /\ conn'.full = F /\ BufferedTypeOK'
    BY <1>9 DEF Reads
  <2>2. Aligned(conn', readBuffer') /\ p \in 1..Len(F)
    BY <2>1 DEF HeaderRead
  <2>3. p >= 1
    BY <2>2, <1>9, Answer
  <2>4. conn'.rest # conn'.full
    <3>1. /\ conn'.full \in Seq(Token) /\ conn'.rest \in Seq(Token)
          /\ readBuffer' \in Seq(Token)
      BY <2>1 DEF BufferedTypeOK, Connection
    <3>. QED BY <2>3, <3>1, Unread
  <2>5. Heading(F, Pos(conn, readBuffer), http, call)
    BY <1>9, Where
  <2>6. Place(http, call) = "header"
    BY DEF Place
  <2>. QED BY <2>1, <2>2, <2>4, <2>5, <2>6 DEF Heading
<1>10. ASSUME Clear, F[1].n \in 200..299, ~CutOff(conn', readBuffer', call)
       PROVE  /\ p = e /\ e \in 2..Len(F) /\ IsBody(<<>>, F, e)
              /\ chunked <=> InHeader(F, e, "chunked")
              /\ length = IF InHeader(F, e, "length") THEN Len(F) - e ELSE -1
              /\ Plain(F, e) \/ Chunked(F, e)
  <2>1. p = e /\ call.hdr = SubSeq(F, 2, e - 1)
    BY <1>10 DEF HeaderRead
  <2>2. e \in 2..Len(F) /\ (Plain(F, e) \/ Chunked(F, e))
    BY <1>10, Answer
  <2>3. /\ \A k : (\E i \in DOMAIN call.hdr : call.hdr[i].k = k) <=> InHeader(F, e, k)
        /\ Stated(call.hdr) = IF InHeader(F, e, "length") THEN Len(F) - e ELSE -1
        /\ IsBody(<<>>, F, e)
    <3>. HIDE DEF e
    <3>1. e = HeaderEnd(conn.full)
      BY DEF e
    <3>. QED BY <1>10, <2>1, <3>1, HeaderSays
  <2>. QED BY <1>0, <1>2, <2>1, <2>2, <2>3
<1>11. CASE ReadFailed(InError(http), ErrBadData)
  <2>1. /\ ErrBadData \in Errors \cup {0} /\ ErrBadData # 0
        /\ ~Ignored(ErrBadData) /\ ErrBadData # ErrEof
    BY DEF Errors, ErrEof, ErrBadData, Ignored, ErrIo
  <2>2. Like(InError(http)) /\ Sound(InError(http))
    BY <1>1, ErrorFields
  <2>. QED BY <1>11, <2>1, <2>2, FailedKeeps
<1>12. CASE mode = "Idle" /\ ReadFailed(h, 0)
  <2>1. ASSUME Clear, h.code \in 200..299 PROVE Done(conn', readBuffer', call.body)
    <3>1. F[1].n \in 200..299 /\ conn'.full = F /\ call.body = <<>>
      BY <1>7, <1>9, <2>1
    <3>2. CASE CutOff(conn', readBuffer', call)
      BY <3>2 DEF CutOff, Done
    <3>3. CASE ~CutOff(conn', readBuffer', call)
      <4>1. /\ p = e /\ e \in 2..Len(F) /\ IsBody(<<>>, F, e)
            /\ length = IF InHeader(F, e, "length") THEN Len(F) - e ELSE -1
        BY <2>1, <3>1, <3>3, <1>10
      <4>2. length = 0
        <5>1. http.code \in 200..299
          BY <1>7, <2>1
        <5>2. ~(http.code >= 300)
          BY <5>1
        <5>. QED BY <1>4, <1>12, <5>2 DEF AfterHeader
      <4>3. Len(F) \in Nat
        BY <2>1, Answer
      <4>4. p = Len(F)
        BY <4>1, <4>2, <4>3
      <4>5. /\ conn'.full \in Seq(Token) /\ conn'.rest \in Seq(Token)
            /\ readBuffer' \in Seq(Token)
        BY DEF Reads, BufferedTypeOK, Connection
      <4>6. readBuffer' = <<>>
        BY <3>1, <4>4, <4>5, Unread
      <4>7. IsBody(call.body, conn'.full, Len(conn'.full))
        BY <3>1, <4>1, <4>4
      <4>. QED BY <4>6, <4>7 DEF Done
    <3>. QED BY <3>2, <3>3
  <2>2. 0 \in Errors \cup {0} /\ 0 # ErrEof
    BY DEF ErrEof
  <2>. QED BY <1>1, <1>7, <1>9, <1>12, <2>1, <2>2, FailedKeeps
<1>13. CASE /\ mode # "Idle" /\ http' = h /\ res' = res
            /\ call' = [At(IF mode = "Body" THEN "body" ELSE "csize")
                        EXCEPT !.hdr = <<>>]
  <2>1. PICK l : l = IF mode = "Body" THEN "body" ELSE "csize"
    OBVIOUS
  <2>2. PICK q : q = [At(l) EXCEPT !.hdr = <<>>]
    OBVIOUS
  <2>3. l \in {"body", "csize"} /\ l \in PCs /\ l \in ReadPCs
    BY <2>1 DEF PCs, ReadPCs, LinePCs, BytePCs
  <2>4. /\ q \in CallSet /\ q.pc = l /\ q.op = call.op /\ q.line = <<>>
        /\ q.body = call.body /\ q.size = call.size
    <3>1. PICK a : a = At(l)
      OBVIOUS
    <3>2. /\ a \in CallSet /\ a.pc = l /\ a.op = call.op
          /\ a.line = <<>> /\ a.body = call.body /\ a.size = call.size
      BY <1>1, <2>3, <3>1, AtFields
    <3>. QED BY <2>2, <3>1, <3>2 DEF CallSet
  <2>5. h.readMode = ModeAt(q.pc)
    BY <1>6, <1>7, <1>13, <2>1, <2>4 DEF ModeAt
  <2>6. ASSUME Clear PROVE Track(conn', readBuffer', h, q)
    <3>1. Place(h, q) = l
      BY <2>3, <2>4 DEF Place
    <3>2. /\ Aligned(conn', readBuffer') /\ p \in 1..Len(F)
          /\ http.code = F[1].n /\ q.body = <<>> /\ q.size = -1 /\ conn'.full = F
      BY <1>9, <2>4, <2>6
    <3>3. Heading(F, p, h, q)
      <4>1. l = "body" => length # 0
        BY <1>6, <2>1
      <4>2. p >= 1 /\ Len(<<>>) = 0
        BY <3>2, <2>6, Answer
      <4>3. \/ h.length = -1 /\ h.bodySize = -1
            \/ h.length \in Nat /\ h.bodySize = h.length
        BY <1>3, <1>7
      <4>4. l = "body" => \/ h.length = -1 /\ h.bodySize = -1
                          \/ h.bodySize = h.length - Len(q.body) /\ h.bodySize > 0
        BY <1>7, <3>2, <4>1, <4>2, <4>3
      <4>5. l \notin {"status", "header"}
        BY <2>3
      <4>. HIDE DEF p, F
      <4>. QED BY <1>7, <3>1, <3>2, <4>2, <4>4, <4>5 DEF Heading
    <3>4. ASSUME F[1].n \in 200..299, ~CutOff(conn', readBuffer', q)
          PROVE  Content(F, p, h, q)
      <4>0. ~CutOff(conn', readBuffer', call)
        <5>1. call.line = <<>> => ~CutOff(conn', readBuffer', call)
          BY <2>4, <3>4 DEF CutOff
        <5>2. call.line # <<>> => ~CutOff(conn', readBuffer', call)
          BY DEF CutOff
        <5>. QED BY <5>1, <5>2
      <4>1. /\ p = e /\ e \in 2..Len(F) /\ IsBody(<<>>, F, e)
            /\ chunked <=> InHeader(F, e, "chunked")
            /\ length = IF InHeader(F, e, "length") THEN Len(F) - e ELSE -1
            /\ Plain(F, e) \/ Chunked(F, e)
        BY <2>6, <3>4, <4>0, <1>10
      <4>2. e \in Nat /\ p >= e /\ Len(<<>>) = p - e
        <5>1. Len(F) \in Nat /\ p = e /\ e \in 2..Len(F) /\ Len(<<>>) = 0
          BY <4>1, <2>6, Answer
        <5>. QED BY <5>1
      <4>3. l = "body" => ~chunked
        BY <1>4, <1>13, <2>1 DEF AfterHeader
      <4>4. l = "csize" => chunked
        BY <1>4, <1>13, <2>1 DEF AfterHeader
      <4>5. l = "body" => Plain(F, e)
        BY <4>1, <4>3 DEF Chunked
      <4>6. l = "csize" => Chunked(F, e) /\ length = -1 /\ AtSize(F, p + 1)
        BY <4>1, <4>4 DEF Chunked, Plain
      <4>7. l \notin {"header", "csize2", "chunk", "trail", "last"}
        BY <2>3
      <4>. HIDE DEF p, e
      <4>8. IsBody(q.body, F, p) /\ q.line = <<>> /\ h.length = length /\ Len(q.body) = p - e
        BY <1>7, <2>4, <3>2, <4>1, <4>2
      <4>9. l \in ChunkPCs => l = "csize"
        BY <2>3 DEF ChunkPCs
      <4>. QED BY <3>1, <4>1, <4>2, <4>5, <4>6, <4>7, <4>8, <4>9 DEF Content, e
    <3>. QED BY <2>3, <2>4, <3>2, <3>3, <3>4 DEF Track
  <2>7. l # "trail" /\ http' = h /\ call' = q /\ res' = res
    BY <1>13, <2>1, <2>2, <2>3
  <2>. QED BY <1>1, <1>7, <2>3, <2>4, <2>5, <2>6, <2>7, OnKeeps
<1>. QED BY <1>8, <1>11, <1>12, <1>13

\* GWEN_SyncIo_Http_ReadHeader has read a line.
LEMMA GotHeaderLineKeeps ==
  ASSUME Base, ReadInv, Reads, NEW line \in Seq(Token), line # <<>>,
         call.pc = "header", Clear => NextLine(line), GotHeaderLine(line)
  PROVE  Inv'
<1>1. /\ http \in HttpSet /\ call \in CallSet /\ Like(http) /\ Sound(http)
      /\ http.connected /\ http.readMode = "Idle"
  BY BaseFacts DEF LinePCs, ModeAt
<1>2. Len(line) \in Nat /\ Len(line) >= 1 /\ line[1] \in Token
  <2>1. Len(line) \in Nat /\ Len(line) >= 1
    OBVIOUS
  <2>. QED BY <2>1, Element
<1>. DEFINE F == conn.full
            e == HeaderEnd(conn.full)
            p == Pos(conn, readBuffer)
            m == Pos(conn', readBuffer')
<1>3. Place(http, call) = "header"
  BY DEF Place
<1>4. ASSUME Clear
      PROVE  /\ Aligned(conn', readBuffer') /\ m \in 1..Len(F) /\ m >= 1
             /\ http.code = F[1].n /\ call.body = <<>> /\ call.size = -1
             /\ conn'.full = F /\ p \in 0..Len(F) /\ p >= 1 /\ Len(F) \in Nat
  <2>1. Aligned(conn', readBuffer') /\ m \in 0..Len(F) /\ m >= p
    BY <1>4 DEF NextLine
  <2>2. p \in 0..Len(F) /\ Heading(F, p, http, call)
    BY <1>4, Where
  <2>3. /\ p >= 1 /\ http.code = F[1].n /\ call.body = <<>> /\ call.size = -1
    BY <1>3, <2>2 DEF Heading
  <2>4. Len(F) \in Nat
    BY <1>4, Answer
  <2>5. m \in 1..Len(F) /\ m >= 1
    <3>. HIDE DEF m, p
    <3>. QED BY <2>1, <2>2, <2>3, <2>4
  <2>. QED BY <2>1, <2>2, <2>3, <2>4, <2>5 DEF Reads
<1>5. ASSUME Clear, F[1].n \in 200..299
      PROVE  /\ m = p + 1 /\ line[1] = F[p + 1] /\ p < e /\ e \in 2..Len(F)
             /\ call.hdr = SubSeq(F, 2, p) /\ EndOfHeader(F, e)
             /\ p + 1 \in 2..e
  <2>1. m = p + 1 /\ line = <<F[p + 1]>> /\ Content(F, p, http, call)
    BY <1>5 DEF NextLine
  <2>2. p < e /\ call.hdr = SubSeq(F, 2, p)
    BY <1>3, <2>1 DEF Content
  <2>3. e \in 2..Len(F) /\ EndOfHeader(F, e)
    BY <1>5, Answer
  <2>4. p \in 0..Len(F) /\ p >= 1 /\ Len(F) \in Nat
    BY <1>4, <1>5
  <2>. HIDE DEF p, e, m, F
  <2>5. p + 1 \in 2..e
    BY <2>2, <2>3, <2>4
  <2>6. line[1] = F[p + 1]
    BY <2>1
  <2>. QED BY <2>1, <2>2, <2>3, <2>5, <2>6
<1>6. CASE line[1].k = "blank" /\ ParseHeader(call.hdr)
  <2>1. ASSUME Clear, F[1].n \in 200..299
        PROVE  m = e /\ call.hdr = SubSeq(F, 2, e - 1)
    <3>1. /\ m = p + 1 /\ line[1] = F[p + 1] /\ p < e /\ e \in 2..Len(F)
          /\ call.hdr = SubSeq(F, 2, p) /\ EndOfHeader(F, e) /\ p + 1 \in 2..e
      BY <1>5, <2>1
    <3>2. p \in 0..Len(F) /\ p >= 1 /\ Len(F) \in Nat
      BY <1>4, <2>1
    <3>. HIDE DEF p, e, m, F
    <3>3. p + 1 \notin 2..(e - 1)
      BY <1>6, <3>1 DEF EndOfHeader
    <3>4. p + 1 = e /\ p = e - 1
      BY <3>1, <3>2, <3>3
    <3>. QED BY <3>1, <3>4
  <2>2. Clear => HeaderRead
    BY <1>4, <2>1 DEF HeaderRead
  <2>. QED BY <1>6, <2>2, ParseHeaderKeeps
<1>7. CASE /\ line[1].k # "blank"
           /\ call' = [call EXCEPT !.line = <<>>, !.hdr = Append(@, line[1])]
           /\ UNCHANGED <<http, res>>
  <2>1. PICK q : q = [call EXCEPT !.line = <<>>, !.hdr = Append(@, line[1])]
    OBVIOUS
  <2>2. "header" \in ReadPCs
    BY DEF ReadPCs, LinePCs
  <2>3. /\ q \in CallSet /\ q.pc = "header" /\ q.op = call.op /\ q.line = <<>>
        /\ q.body = call.body /\ q.size = call.size
        /\ q.hdr = Append(call.hdr, line[1])
    <3>1. PICK a : a = Append(call.hdr, line[1])
      OBVIOUS
    <3>2. a \in Seq(Token) /\ <<>> \in Seq(Token)
      BY <1>1, <1>2, <3>1 DEF CallSet
    <3>3. q = [call EXCEPT !.line = <<>>, !.hdr = a]
      BY <2>1, <3>1
    <3>. QED BY <1>1, <3>1, <3>2, <3>3 DEF CallSet
  <2>4. http.readMode = ModeAt(q.pc)
    BY <1>1, <2>3 DEF ModeAt
  <2>5. ASSUME Clear PROVE Track(conn', readBuffer', http, q)
    <3>1. Place(http, q) = "header"
      BY <2>3 DEF Place
    <3>2. Heading(F, m, http, q)
      <4>1. m >= 1 /\ http.code = F[1].n /\ q.body = <<>> /\ q.size = -1
        BY <1>4, <2>3, <2>5
      <4>. HIDE DEF m, F
      <4>. QED BY <3>1, <4>1 DEF Heading, ChunkPCs
    <3>3. ASSUME F[1].n \in 200..299 PROVE Content(F, m, http, q)
      <4>1. /\ m = p + 1 /\ line[1] = F[p + 1] /\ p < e /\ e \in 2..Len(F)
            /\ call.hdr = SubSeq(F, 2, p) /\ EndOfHeader(F, e) /\ p + 1 \in 2..e
        BY <1>5, <2>5, <3>3
      <4>2. /\ p \in 0..Len(F) /\ p >= 1 /\ Len(F) \in Nat /\ F \in Seq(Token)
        BY <1>4, <2>5, Answer
      <4>3. m < e
        <5>. HIDE DEF p, e, m, F
        <5>1. p + 1 # e
          BY <1>7, <4>1 DEF EndOfHeader
        <5>. QED BY <4>1, <4>2, <5>1
      <4>4. SubSeq(F, 2, p + 1) = Append(SubSeq(F, 2, p), F[p + 1])
        <5>. HIDE DEF p, e, m, F
        <5>1. p + 1 \in 1..Len(F)
          BY <4>1, <4>2
        <5>. QED BY <4>2, <5>1
      <4>5. q.hdr = SubSeq(F, 2, m)
        BY <2>3, <4>1, <4>4
      <4>. HIDE DEF p, m
      <4>. QED BY <2>3, <3>1, <4>3, <4>5 DEF Content, ChunkPCs
    <3>4. Aligned(conn', readBuffer') /\ conn'.full = F
      BY <1>4, <2>5
    <3>. QED BY <2>2, <2>3, <3>2, <3>3, <3>4 DEF Track
  <2>6. http' = http /\ call' = q /\ res' = res
    BY <1>7, <2>1
  <2>. QED BY <1>1, <2>2, <2>3, <2>4, <2>5, <2>6, OnKeeps
<1>. QED BY <1>6, <1>7 DEF GotHeaderLine

\* The next line has been read, or a part of it is all that could come.
LineRead(line) ==
  LET F == conn.full
      p == Pos(conn, readBuffer)
  IN  /\ Aligned(conn', readBuffer')
      /\ Pos(conn', readBuffer') \in 0..Len(F) /\ Pos(conn', readBuffer') >= p
      /\ F[1].n \in 200..299 =>
           \/ CutOff(conn', readBuffer', call)
           \/ /\ Pos(conn', readBuffer') = p + 1 /\ line = <<F[p + 1]>>
              /\ Content(F, p, http, call)

\* Within a chunked body the code stands, and the size is not known.
LEMMA ChunkHeading ==
  ASSUME NEW F, NEW p, NEW m, NEW h, NEW q, NEW g, NEW t,
         Heading(F, p, h, q), Place(h, q) \in ChunkPCs, Place(g, t) \in ChunkPCs,
         m >= 1, t.body = q.body, t.size = q.size, g.code = h.code,
         g.length = h.length
  PROVE  Heading(F, m, g, t)
<1>1. Place(g, t) \notin {"status", "header", "body"}
  BY DEF ChunkPCs
<1>2. h.code = F[1].n /\ (q.body = <<>> => q.size = -1)
      /\ (q.body # <<>> => q.size = h.length)
  BY DEF Heading
<1>. QED BY <1>1, <1>2 DEF Heading

\* GWEN_SyncIo_Http_ReadChunkSize
LEMMA GotSizeKeeps ==
  ASSUME Base, ReadInv, Reads, NEW line \in Seq(Token), line # <<>>,
         call.pc \in {"csize", "csize2"}, Clear => LineRead(line), GotSize(line)
  PROVE  Inv'
<1>1. /\ http \in HttpSet /\ call \in CallSet /\ Like(http) /\ Sound(http)
      /\ http.connected /\ http.readMode = "ChunkSize"
  BY BaseFacts DEF LinePCs, ModeAt
<1>2. Len(line) \in Nat /\ Len(line) >= 1 /\ line[1] \in Token /\ line[1].n \in Nat
  <2>1. Len(line) \in Nat /\ Len(line) >= 1
    OBVIOUS
  <2>2. line[1] \in Token
    BY <2>1, Element
  <2>. QED BY <2>1, <2>2 DEF Token
<1>. DEFINE F == conn.full
            e == HeaderEnd(conn.full)
            p == Pos(conn, readBuffer)
            m == Pos(conn', readBuffer')
<1>3. Place(http, call) = call.pc /\ call.pc \in ChunkPCs
  BY DEF Place, ChunkPCs
<1>4. ASSUME Clear
      PROVE  /\ Aligned(conn', readBuffer') /\ m \in 1..Len(F) /\ m >= 1
             /\ Heading(F, p, http, call)
             /\ conn'.full = F /\ p \in 0..Len(F) /\ p >= 1 /\ Len(F) \in Nat
  <2>1. Aligned(conn', readBuffer') /\ m \in 0..Len(F) /\ m >= p
    BY <1>4 DEF LineRead
  <2>2. p \in 0..Len(F) /\ Heading(F, p, http, call)
    BY <1>4, Where
  <2>3. p >= 1
    BY <1>3, <2>2 DEF Heading
  <2>4. Len(F) \in Nat
    BY <1>4, Answer
  <2>5. m \in 1..Len(F) /\ m >= 1
    <3>. HIDE DEF m, p
    <3>. QED BY <2>1, <2>2, <2>3, <2>4
  <2>. QED BY <2>1, <2>2, <2>3, <2>4, <2>5 DEF Reads
<1>5. ASSUME Clear, F[1].n \in 200..299, ~CutOff(conn', readBuffer', call)
      PROVE  /\ m = p + 1 /\ line[1] = F[m] /\ e \in 2..Len(F) /\ p >= e
             /\ Chunked(F, e) /\ http.length = -1 /\ IsBody(call.body, F, p)
             /\ call.pc = "csize" => AtSize(F, m)
             /\ call.pc = "csize2" => F[m].k = "size"
             /\ m \in (e + 1)..Len(F) /\ m >= e /\ m + 1 \in Nat
  <2>1. m = p + 1 /\ line = <<F[p + 1]>> /\ Content(F, p, http, call)
    BY <1>5 DEF LineRead
  <2>2. /\ p >= e /\ Chunked(F, e) /\ http.length = -1 /\ IsBody(call.body, F, p)
        /\ call.pc = "csize" => AtSize(F, p + 1)
        /\ call.pc = "csize2" => F[p + 1].k = "size"
    <3>1. call.pc \in ChunkPCs \ {"trail"}
      BY <1>3
    <3>. HIDE DEF p, m
    <3>. QED BY <1>3, <2>1, <3>1 DEF Content
  <2>3. e \in 2..Len(F)
    BY <1>5, Answer
  <2>4. /\ p \in 0..Len(F) /\ p >= 1 /\ Len(F) \in Nat /\ m \in 1..Len(F)
    BY <1>4, <1>5
  <2>. HIDE DEF p, e, m, F
  <2>5. m \in (e + 1)..Len(F) /\ m >= e /\ m + 1 \in Nat
    BY <2>1, <2>2, <2>3, <2>4
  <2>6. line[1] = F[m]
    BY <2>1
  <2>. QED BY <2>1, <2>2, <2>3, <2>5, <2>6
<1>6. ASSUME NEW h, NEW q, NEW l \in {"csize2", "chunk", "last"},
             Like(h), Sound(h), h.code = http.code, h.length = http.length,
             h.readMode = ModeAt(l), q = At(l), http' = h, call' = q, res' = res,
             ASSUME Clear, F[1].n \in 200..299, ~CutOff(conn', readBuffer', call)
             PROVE  /\ l = "csize2" => m < Len(F) /\ F[m + 1].k = "size"
                    /\ F[m].k # "data"
                    /\ l = "chunk" =>
                         /\ m + h.chunkSize < Len(F)
                         /\ \A i \in (m + 1)..(m + h.chunkSize) : F[i].k = "data"
                         /\ F[m + h.chunkSize + 1].k = "blank"
                         /\ AtSize(F, m + h.chunkSize + 2)
                    /\ l = "last" => m = Len(F) - 1 /\ F[Len(F)].k = "blank"
      PROVE  Inv'
  <2>1. l \in PCs /\ l \in ReadPCs /\ l \in ChunkPCs /\ l \notin {"read", "trail"}
    BY DEF PCs, ReadPCs, LinePCs, BytePCs, ChunkPCs
  <2>2. /\ q \in CallSet /\ q.pc = l /\ q.op = call.op /\ q.line = <<>>
        /\ q.body = call.body /\ q.size = call.size
    BY <1>1, <1>6, <2>1, AtFields
  <2>3. ASSUME Clear PROVE Track(conn', readBuffer', h, q)
    <3>1. Place(h, q) = l
      BY <2>1, <2>2 DEF Place
    <3>2. Heading(F, m, h, q)
      <4>. HIDE DEF F, p, m
      <4>1. Heading(F, p, http, call) /\ m >= 1
        BY <1>4, <2>3
      <4>2. Place(http, call) \in ChunkPCs /\ Place(h, q) \in ChunkPCs
        BY <1>3, <2>1, <3>1
      <4>3. h.code = http.code /\ h.length = http.length
        BY <1>6
      <4>. QED BY <2>2, <4>1, <4>2, <4>3, ChunkHeading
    <3>3. ASSUME F[1].n \in 200..299, ~CutOff(conn', readBuffer', q)
          PROVE  Content(F, m, h, q)
      <4>0. ~CutOff(conn', readBuffer', call)
        <5>1. call.line = <<>> => ~CutOff(conn', readBuffer', call)
          BY <2>2, <3>3 DEF CutOff
        <5>2. call.line # <<>> => ~CutOff(conn', readBuffer', call)
          BY DEF CutOff
        <5>. QED BY <5>1, <5>2
      <4>1. /\ m = p + 1 /\ e \in 2..Len(F) /\ p >= e
            /\ Chunked(F, e) /\ http.length = -1 /\ IsBody(call.body, F, p)
            /\ m >= e
        BY <2>3, <3>3, <4>0, <1>5
      <4>2. /\ l = "csize2" => m < Len(F) /\ F[m + 1].k = "size"
            /\ F[m].k # "data"
            /\ l = "chunk" =>
                 /\ m + h.chunkSize < Len(F)
                 /\ \A i \in (m + 1)..(m + h.chunkSize) : F[i].k = "data"
                 /\ F[m + h.chunkSize + 1].k = "blank"
                 /\ AtSize(F, m + h.chunkSize + 2)
            /\ l = "last" => m = Len(F) - 1 /\ F[Len(F)].k = "blank"
        BY <2>3, <3>3, <4>0, <1>6
      <4>3. p \in Nat
        BY <1>4, <2>3
      <4>4. IsBody(q.body, F, m)
        <5>. HIDE DEF F, m, p
        <5>. QED BY <2>2, <4>1, <4>2, <4>3, BodySkip
      <4>5. l \notin {"header", "body", "csize", "trail"}
        OBVIOUS
      <4>6. h.length = -1
        BY <1>6, <4>1
      <4>. HIDE DEF m, p
      <4>. QED BY <2>1, <2>2, <3>1, <4>1, <4>2, <4>4, <4>5, <4>6 DEF Content
    <3>4. Aligned(conn', readBuffer') /\ conn'.full = F
      BY <1>4, <2>3
    <3>. QED BY <2>1, <2>2, <3>2, <3>3, <3>4 DEF Track
  <2>. QED BY <1>1, <1>6, <2>1, <2>2, <2>3, OnKeeps
<1>7. CASE /\ line[1].k = "blank" /\ call.pc = "csize"
           /\ call' = At("csize2") /\ UNCHANGED <<http, res>>
  <2>1. PICK q : q = At("csize2")
    OBVIOUS
  <2>2. ASSUME Clear, F[1].n \in 200..299, ~CutOff(conn', readBuffer', call)
        PROVE  m < Len(F) /\ F[m + 1].k = "size" /\ F[m].k # "data"
    <3>1. AtSize(F, m) /\ F[m].k = "blank"
      BY <1>5, <1>7, <2>2
    <3>. HIDE DEF F, m
    <3>. QED BY <3>1 DEF AtSize
  <2>3. http.readMode = ModeAt("csize2")
    BY <1>1 DEF ModeAt
  <2>. HIDE DEF F, m
  <2>. QED BY <1>1, <1>6, <1>7, <2>1, <2>2, <2>3
<1>8. CASE /\ line[1].k = "size"
           /\ http' = [http EXCEPT !.chunkSize = line[1].n,
                                   !.readMode = IF line[1].n = 0 THEN @ ELSE "Chunk"]
           /\ call' = At(IF line[1].n = 0 THEN "last" ELSE "chunk")
           /\ UNCHANGED res
  <2>1. PICK n, l, h : /\ n = line[1].n /\ l = (IF n = 0 THEN "last" ELSE "chunk")
                       /\ h = [http EXCEPT !.chunkSize = n,
                                           !.readMode = IF n = 0 THEN @ ELSE "Chunk"]
    OBVIOUS
  <2>2. PICK q : q = At(l)
    OBVIOUS
  <2>3. n \in Nat /\ l \in {"csize2", "chunk", "last"} /\ l # "csize2"
        /\ (l = "chunk" <=> n # 0)
    BY <1>2, <2>1
  <2>4. /\ Like(h) /\ Sound(h) /\ h.code = http.code /\ h.length = http.length
        /\ h.readMode = ModeAt(l) /\ h.chunkSize = n
    <3>1. CASE n = 0
      BY <1>1, <2>1, <2>3, <3>1 DEF Like, Sound, HttpSet, ModeAt
    <3>2. CASE n # 0
      <4>1. h = [http EXCEPT !.chunkSize = n, !.readMode = "Chunk"] /\ l = "chunk"
        BY <2>1, <3>2
      <4>2. n > 0 /\ "Chunk" \in Modes
        BY <2>3, <3>2 DEF Modes
      <4>. QED BY <1>1, <2>3, <4>1, <4>2 DEF Like, Sound, HttpSet, ModeAt
    <3>. QED BY <3>1, <3>2
  <2>5. ASSUME Clear, F[1].n \in 200..299, ~CutOff(conn', readBuffer', call)
        PROVE  /\ F[m].k # "data"
               /\ l = "chunk" =>
                    /\ m + n < Len(F)
                    /\ \A i \in (m + 1)..(m + n) : F[i].k = "data"
                    /\ F[m + n + 1].k = "blank"
                    /\ AtSize(F, m + n + 2)
               /\ l = "last" => m = Len(F) - 1 /\ F[Len(F)].k = "blank"
    <3>1. /\ line[1] = F[m] /\ Chunked(F, e) /\ m \in (e + 1)..Len(F)
          /\ m + 1 \in Nat
      BY <1>5, <2>5
    <3>2. F[m].k = "size" /\ F[m].n = n
      BY <1>8, <2>1, <3>1
    <3>3. Chunk(F, m)
      BY <3>1, <3>2 DEF Chunked
    <3>4. Len(F) \in Nat /\ m \in Int
      BY <1>4, <2>5
    <3>. HIDE DEF F, m, e
    <3>5. CASE n = 0
      BY <2>3, <3>2, <3>3, <3>5 DEF Chunk
    <3>6. CASE n # 0
      <4>1. PICK end : end = m + n + 1
        OBVIOUS
      <4>2. /\ end <= Len(F) /\ F[end].k = "blank" /\ AtSize(F, end + 1)
            /\ \A j \in (m + 1)..(end - 1) : F[j].k = "data"
        BY <3>2, <3>3, <3>6, <4>1 DEF Chunk
      <4>3. /\ end + 1 = m + n + 2 /\ end - 1 = m + n /\ m + n < Len(F)
        BY <2>3, <3>4, <4>1, <4>2
      <4>. QED BY <2>3, <3>2, <3>6, <4>1, <4>2, <4>3
    <3>. QED BY <3>5, <3>6
  <2>6. http' = h /\ call' = q /\ res' = res
    BY <1>8, <2>1, <2>2
  <2>. HIDE DEF F, m
  <2>. QED BY <1>6, <2>2, <2>3, <2>4, <2>5, <2>6
<1>9. CASE ReadFailed(InError(http), ErrBadData)
  <2>1. /\ ErrBadData \in Errors \cup {0} /\ ErrBadData # 0
        /\ ~Ignored(ErrBadData) /\ ErrBadData # ErrEof
    BY DEF Errors, ErrEof, ErrBadData, Ignored, ErrIo
  <2>2. Like(InError(http)) /\ Sound(InError(http))
    BY <1>1, ErrorFields
  <2>. QED BY <1>9, <2>1, <2>2, FailedKeeps
<1>. QED BY <1>7, <1>8, <1>9 DEF GotSize

\* The fields of a call that has received more of the body.
LEMMA Growing ==
  ASSUME NEW body \in Seq(Token), NEW size \in Nat \cup {-1}, call \in CallSet,
         NEW q, q = Grown(body, size)
  PROVE  /\ q.pc = "read" /\ q.line = <<>> /\ q.hdr = <<>>
         /\ q.body = body /\ q.size = size /\ q.pc \in ReadPCs
<1>1. q.pc = "read"
  BY DEF Grown, CallSet
<1>2. q.line = <<>>
  BY DEF Grown, CallSet
<1>3. q.hdr = <<>>
  BY DEF Grown, CallSet
<1>4. q.body = body
  BY DEF Grown, CallSet
<1>5. q.size = size
  BY DEF Grown, CallSet
<1>. QED BY <1>1, <1>2, <1>3, <1>4, <1>5 DEF ReadPCs

\* The size RecvBody goes by is the length of the header, if there is a body.
LEMMA SizeIs ==
  ASSUME NEW F, NEW p, Heading(F, p, http, call),
         Place(http, call) \in {"body"} \cup ChunkPCs,
         NEW h, h.length = http.length
  PROVE  SizeFor(h) = http.length
<1>1. call.body # <<>> => call.size = http.length
  BY DEF Heading
<1>. QED BY <1>1 DEF SizeFor

\* The line after a chunk: the chunk is complete.
LEMMA TrailKeeps ==
  ASSUME Base, ReadInv, Reads, NEW line, call.pc = "trail",
         Clear => NextLine(line),
         ReadGot([http EXCEPT !.readMode = "ChunkSize"], call.got)
  PROVE  Inv'
<1>1. /\ http \in HttpSet /\ call \in CallSet /\ Like(http)
      /\ http.connected
  BY BaseFacts DEF LinePCs
<1>2. PICK h : h = [http EXCEPT !.readMode = "ChunkSize"]
  OBVIOUS
<1>3. /\ Like(h) /\ Sound(h) /\ h.readMode = "ChunkSize" /\ h.code = http.code
      /\ h.length = http.length
  <2>1. "ChunkSize" \in Modes
    BY DEF Modes
  <2>2. /\ Like(h) /\ h.readMode = "ChunkSize" /\ h.code = http.code
        /\ h.length = http.length
    BY <1>1, <1>2, <2>1, ModeFields
  <2>. QED BY <2>2 DEF Sound
<1>4. PICK body, size : body = call.body \o call.got /\ size = SizeFor(h)
  OBVIOUS
<1>5. /\ call.got \in Seq(Token) /\ call.body \in Seq(Token) /\ body \in Seq(Token)
      /\ body # <<>> /\ size \in Nat \cup {-1}
  <2>1. call.got \in Seq(Token) /\ call.body \in Seq(Token) /\ call.got # <<>>
    BY <1>1 DEF CallSet, Base, ShapeInv
  <2>2. body \in Seq(Token) /\ body # <<>>
    <3>1. /\ Len(call.got) > 0 /\ Len(call.got) \in Nat
          /\ Len(call.body) >= 0 /\ Len(call.body) \in Nat
      BY <2>1
    <3>2. body \in Seq(Token) /\ Len(body) = Len(call.body) + Len(call.got)
      BY <1>4, <2>1, Joined
    <3>3. Len(body) # 0
      <4>1. PICK a, b, c : a = Len(call.body) /\ b = Len(call.got) /\ c = Len(body)
        OBVIOUS
      <4>2. a \in Nat /\ b \in Nat /\ b > 0 /\ c = a + b
        BY <3>1, <3>2, <4>1
      <4>3. c # 0
        BY <4>2
      <4>. QED BY <4>1, <4>3
    <3>4. Len(<<>>) = 0
      OBVIOUS
    <3>. QED BY <3>2, <3>3, <3>4
  <2>3. size \in Nat \cup {-1}
    BY <1>1, <1>3, <1>4 DEF SizeFor, Like, HttpSet, CallSet
  <2>. QED BY <2>1, <2>2, <2>3
<1>. DEFINE F == conn.full
            e == HeaderEnd(conn.full)
            p == Pos(conn, readBuffer)
            m == Pos(conn', readBuffer')
<1>6. Place(http, call) = "trail" /\ "trail" \in ChunkPCs
  BY DEF Place, ChunkPCs
<1>7. ASSUME Clear PROVE Followed(h, body, size)
  <2>1. Aligned(conn', readBuffer') /\ m \in 0..Len(F) /\ m >= p
    BY <1>7 DEF NextLine
  <2>2. p \in 0..Len(F) /\ Heading(F, p, http, call) /\ Len(F) \in Nat
    BY <1>7, Where, Answer
  <2>3. p >= 1 /\ http.code = F[1].n
    BY <1>6, <2>2 DEF Heading
  <2>4. size = http.length
    BY <1>3, <1>4, <1>6, <2>2, SizeIs
  <2>5. m >= 1 /\ conn'.full = F
    <3>1. m >= 1
      <4>. HIDE DEF m, p, F
      <4>. QED BY <2>1, <2>2, <2>3
    <3>. QED BY <3>1 DEF Reads
  <2>6. ASSUME F[1].n \in 200..299
        PROVE  /\ m = p + 1 /\ F[p + 1].k = "blank" /\ AtSize(F, p + 2)
               /\ IsBody(body, F, p) /\ Chunked(F, e) /\ p >= e /\ http.length = -1
    <3>1. m = p + 1 /\ Content(F, p, http, call)
      BY <1>7, <2>6 DEF NextLine
    <3>2. /\ F[p + 1].k = "blank" /\ AtSize(F, p + 2) /\ IsBody(body, F, p)
          /\ Chunked(F, e) /\ p >= e /\ http.length = -1
      <4>. HIDE DEF p, m
      <4>. QED BY <1>4, <1>6, <3>1 DEF Content
    <3>. QED BY <3>1, <3>2
  <2>7. ASSUME size # -1 PROVE Complete(h, body)
    <3>1. F[1].n \notin 200..299
      BY <2>4, <2>6, <2>7
    <3>2. /\ conn'.full \in Seq(Token) /\ conn'.rest \in Seq(Token)
          /\ readBuffer' \in Seq(Token)
      BY DEF Reads, BufferedTypeOK, Connection
    <3>3. conn'.rest # conn'.full
      BY <2>5, <3>2, Unread
    <3>. QED BY <1>3, <2>1, <2>3, <3>1, <3>3 DEF Complete
  <2>8. Track(conn', readBuffer', h, Grown(body, size))
    <3>1. PICK q : q = Grown(body, size)
      OBVIOUS
    <3>2. /\ q.pc = "read" /\ q.line = <<>> /\ q.hdr = <<>>
          /\ q.body = body /\ q.size = size /\ q.pc \in ReadPCs
      BY <1>1, <1>5, <3>1, Growing
    <3>3. Place(h, q) = "csize" /\ "csize" \in ChunkPCs
      BY <1>3, <3>2 DEF Place, ChunkPCs
    <3>4. Heading(F, m, h, q)
      <4>1. m >= 1 /\ h.code = F[1].n /\ q.body # <<>> /\ q.size = h.length
        BY <1>3, <1>5, <2>3, <2>4, <2>5, <3>2
      <4>. HIDE DEF m, F
      <4>. QED BY <3>3, <4>1 DEF Heading
    <3>5. ASSUME F[1].n \in 200..299 PROVE Content(F, m, h, q)
      <4>1. /\ m = p + 1 /\ F[p + 1].k = "blank" /\ AtSize(F, p + 2)
            /\ IsBody(body, F, p) /\ Chunked(F, e) /\ p >= e /\ http.length = -1
        BY <2>6, <3>5
      <4>2. p \in Nat /\ e \in Nat
        <5>1. e \in 2..Len(F)
          BY <1>7, <3>5, Answer
        <5>2. p \in Nat
          BY <2>2
        <5>3. e \in Nat
          BY <2>2, <5>1
        <5>. QED BY <5>2, <5>3
      <4>. HIDE DEF p, m, e
      <4>3. IsBody(body, F, m)
        BY <4>1, <4>2, BodySkip
      <4>4. m + 1 = p + 2 /\ m >= e
        BY <4>1, <4>2
      <4>5. AtSize(F, m + 1) /\ h.length = -1
        BY <1>3, <4>1, <4>4
      <4>. QED BY <3>2, <3>3, <4>1, <4>3, <4>4, <4>5 DEF Content, e
    <3>. QED BY <2>1, <2>5, <3>1, <3>2, <3>4, <3>5 DEF Track
  <2>. QED BY <2>7, <2>8 DEF Followed
<1>. QED BY <1>1, <1>2, <1>3, <1>4, <1>5, <1>7, GotKeeps

\* The line after the last chunk: the answer is complete.
LEMMA LastKeeps ==
  ASSUME Base, ReadInv, Reads, NEW line, call.pc = "last",
         Clear => NextLine(line),
         ReadFailed([http EXCEPT !.readMode = "Idle"], 0)
  PROVE  Inv'
<1>1. /\ http \in HttpSet /\ call \in CallSet /\ Like(http)
      /\ http.connected
  BY BaseFacts DEF LinePCs
<1>2. PICK h : h = [http EXCEPT !.readMode = "Idle"]
  OBVIOUS
<1>3. Like(h) /\ Sound(h) /\ h.code = http.code
  <2>1. "Idle" \in Modes
    BY DEF Modes
  <2>2. Like(h) /\ h.readMode = "Idle" /\ h.code = http.code
    BY <1>1, <1>2, <2>1, ModeFields
  <2>. QED BY <2>2 DEF Sound
<1>. DEFINE F == conn.full
            p == Pos(conn, readBuffer)
            m == Pos(conn', readBuffer')
<1>4. Place(http, call) = "last" /\ "last" \in ChunkPCs
  BY DEF Place, ChunkPCs
<1>5. ASSUME Clear
      PROVE  /\ Aligned(conn', readBuffer') /\ conn'.rest # conn'.full
             /\ h.code = conn.full[1].n
             /\ h.code \in 200..299 => Done(conn', readBuffer', call.body)
  <2>1. Aligned(conn', readBuffer') /\ m \in 0..Len(F) /\ m >= p
    BY <1>5 DEF NextLine
  <2>2. p \in 0..Len(F) /\ Heading(F, p, http, call) /\ Len(F) \in Nat
    BY <1>5, Where, Answer
  <2>3. p >= 1 /\ http.code = F[1].n
    BY <1>4, <2>2 DEF Heading
  <2>4. m >= 1 /\ conn'.full = F
    <3>1. m >= 1
      <4>. HIDE DEF m, p, F
      <4>. QED BY <2>1, <2>2, <2>3
    <3>. QED BY <3>1 DEF Reads
  <2>5. /\ conn'.full \in Seq(Token) /\ conn'.rest \in Seq(Token)
        /\ readBuffer' \in Seq(Token)
    BY DEF Reads, BufferedTypeOK, Connection
  <2>6. conn'.rest # conn'.full
    BY <2>4, <2>5, Unread
  <2>7. ASSUME F[1].n \in 200..299 PROVE Done(conn', readBuffer', call.body)
    <3>1. m = p + 1 /\ Content(F, p, http, call)
      BY <1>5, <2>7 DEF NextLine
    <3>2. /\ IsBody(call.body, F, p) /\ p = Len(F) - 1 /\ F[Len(F)].k = "blank"
      <4>. HIDE DEF p, m
      <4>. QED BY <1>4, <3>1 DEF Content
    <3>3. m = Len(F) /\ p \in Nat /\ p + 1 = Len(F)
      <4>. HIDE DEF p, m, F
      <4>. QED BY <2>2, <3>1, <3>2
    <3>4. IsBody(call.body, F, Len(F))
      <4>. HIDE DEF p, m, F
      <4>. QED BY <3>2, <3>3, BodySkip
    <3>5. readBuffer' = <<>>
      BY <2>4, <2>5, <3>3, Unread
    <3>. QED BY <2>4, <3>4, <3>5 DEF Done
  <2>. QED BY <1>3, <2>1, <2>3, <2>6, <2>7
<1>6. 0 \in Errors \cup {0} /\ 0 # ErrEof
  BY DEF ErrEof
<1>. QED BY <1>1, <1>2, <1>3, <1>5, <1>6, FailedKeeps

\* A line has been read.
LEMMA GotLineKeeps ==
  ASSUME Base, ReadInv, Reads, NEW line \in Seq(Token), line # <<>>,
         call.pc \in LinePCs, Clear => NextLine(line), GotLine(line)
  PROVE  Inv'
<1>1. CASE call.pc = "status"
  <2>1. GotStatus(line)
    BY <1>1 DEF GotLine
  <2>. QED BY <1>1, <2>1, GotStatusKeeps
<1>2. CASE call.pc = "header"
  <2>1. GotHeaderLine(line)
    BY <1>2 DEF GotLine
  <2>. QED BY <1>2, <2>1, GotHeaderLineKeeps
<1>3. CASE call.pc \in {"csize", "csize2"}
  <2>1. GotSize(line)
    BY <1>3 DEF GotLine
  <2>2. Clear => LineRead(line)
    BY DEF NextLine, LineRead
  <2>. QED BY <1>3, <2>1, <2>2, GotSizeKeeps
<1>4. CASE call.pc = "trail"
  <2>1. ReadGot([http EXCEPT !.readMode = "ChunkSize"], call.got)
    BY <1>4 DEF GotLine
  <2>. QED BY <1>4, <2>1, TrailKeeps
<1>5. CASE call.pc = "last"
  <2>1. ReadFailed([http EXCEPT !.readMode = "Idle"], 0)
    BY <1>5 DEF GotLine
  <2>. QED BY <1>5, <2>1, LastKeeps
<1>. QED BY <1>1, <1>2, <1>3, <1>4, <1>5 DEF LinePCs

\* What follows a number below e is e or below it.
LEMMA NextOrEnd ==
  ASSUME NEW i \in Int, NEW e \in Int, i < e, i >= 1
  PROVE  i + 1 = e \/ i + 1 \in 2..(e - 1)
<1>1. CASE i + 1 = e
  BY <1>1
<1>2. CASE i + 1 # e
  <2>1. i + 1 <= e - 1 /\ i + 1 >= 2 /\ i + 1 \in Int
    BY <1>2
  <2>. QED BY <2>1
<1>. QED BY <1>1, <1>2

\* Where it is known what to expect, a line comes next.
LEMMA LineComes ==
  ASSUME Base, ReadInv, Clear, call.pc \in LinePCs,
         NEW p, p = Pos(conn, readBuffer), p < Len(conn.full),
         call.pc = "status" \/ conn.full[1].n \in 200..299,
         conn.full[1].n \in 200..299 => Content(conn.full, p, http, call)
  PROVE  IsLine(conn.full[p + 1]) /\ call.line = <<>>
<1>1. PICK F : F = conn.full
  OBVIOUS
<1>2. /\ p \in 0..Len(F) /\ Len(F) \in Nat /\ Heading(F, p, http, call)
      /\ F[1].k = "status"
  BY <1>1, Where, Answer
<1>3. call.pc # "read" /\ Place(http, call) = call.pc
  BY DEF Place, LinePCs
<1>4. CASE call.pc = "status"
  <2>1. p = 0 /\ call.line = <<>>
    BY <1>2, <1>3, <1>4 DEF Heading
  <2>2. F[p + 1].k = "status"
    BY <1>2, <2>1
  <2>. QED BY <1>1, <2>1, <2>2 DEF IsLine
<1>5. CASE F[1].n \in 200..299
  <2>1. Content(F, p, http, call)
    BY <1>1, <1>5
  <2>2. call.line = <<>>
    BY <2>1 DEF Content
  <2>3. CASE call.pc = "header"
    <3>1. PICK e : e = HeaderEnd(F)
      OBVIOUS
    <3>2. p < e /\ p >= 1
      BY <1>2, <1>3, <2>1, <2>3, <3>1 DEF Content, Heading
    <3>3. e \in 2..Len(F) /\ EndOfHeader(F, e)
      BY <1>1, <1>5, <3>1, Answer
    <3>4. p + 1 = e \/ p + 1 \in 2..(e - 1)
      <4>0. PICK l : l = Len(F)
        OBVIOUS
      <4>2. l \in Nat /\ p \in 0..l /\ e \in 2..l
        BY <1>2, <3>3, <4>0
      <4>1. p \in Int /\ e \in Int /\ p < e /\ p >= 1
        BY <3>2, <4>2
      <4>. QED BY <4>1, NextOrEnd
    <3>5. F[p + 1].k # "data"
      BY <3>3, <3>4 DEF EndOfHeader
    <3>. QED BY <1>1, <2>2, <3>5 DEF IsLine
  <2>4. CASE call.pc = "csize"
    <3>1. AtSize(F, p + 1)
      BY <1>3, <2>1, <2>4 DEF Content
    <3>2. F[p + 1].k # "data"
      BY <3>1 DEF AtSize
    <3>. QED BY <1>1, <2>2, <3>2 DEF IsLine
  <2>5. CASE call.pc \in {"csize2", "trail"}
    <3>1. F[p + 1].k # "data"
      BY <1>3, <2>1, <2>5 DEF Content
    <3>. QED BY <1>1, <2>2, <3>1 DEF IsLine
  <2>6. CASE call.pc = "last"
    <3>1. p = Len(F) - 1 /\ F[Len(F)].k = "blank"
      BY <1>3, <2>1, <2>6 DEF Content
    <3>2. p + 1 = Len(F)
      BY <1>2, <3>1
    <3>. QED BY <1>1, <2>2, <3>1, <3>2 DEF IsLine
  <2>. QED BY <1>4, <2>3, <2>4, <2>5, <2>6 DEF LinePCs
<1>. QED BY <1>1, <1>4, <1>5

\* GWEN_SyncIo_Http_ReadLine gets a piece of a line.
LEMMA ReadLineKeeps ==
  ASSUME Base, ReadInv, ReadLine
  PROVE  Inv'
<1>1. /\ http \in HttpSet /\ call \in CallSet /\ BufferedTypeOK /\ Like(http)
      /\ call.pc # "trail" => Sound(http)
      /\ call.pc \in LinePCs \cup BytePCs =>
           http.connected /\ http.readMode = ModeAt(call.pc)
  BY BaseFacts
<1>2. call.pc \in LinePCs /\ TakePiece /\ UNCHANGED <<out, reqs, taint, count>>
  BY DEF ReadLine
<1>3. /\ BufferedTypeOK' /\ Advance(Len(Piece)) /\ Piece \in Seq(Token)
      /\ Len(Piece) \in Nat /\ Len(Piece) >= 1
      /\ \A i \in 1..Len(Piece) : Piece[i] = Ahead(conn, readBuffer)[i]
      /\ IsLine(Ahead(conn, readBuffer)[1]) => Len(Piece) = 1
  BY <1>1, <1>2, PieceReads
<1>4. Reads
  BY <1>2, <1>3 DEF Reads, Advance
<1>5. PICK line : line = call.line \o Piece
  OBVIOUS
<1>6. line \in Seq(Token) /\ line # <<>>
  <2>1. call.line \in Seq(Token)
    BY <1>1 DEF CallSet
  <2>2. line \in Seq(Token) /\ Len(line) = Len(call.line) + Len(Piece)
    BY <1>3, <1>5, <2>1, Joined
  <2>3. Len(call.line) \in Nat
    BY <2>1
  <2>4. Len(line) # 0
    <3>1. PICK a, b, c : a = Len(call.line) /\ b = Len(Piece) /\ c = Len(line)
      OBVIOUS
    <3>2. a \in Nat /\ b \in Nat /\ b >= 1 /\ c = a + b
      BY <1>3, <2>2, <2>3, <3>1
    <3>3. c # 0
      BY <3>2
    <3>. QED BY <3>1, <3>3
  <2>5. Len(<<>>) = 0
    OBVIOUS
  <2>. QED BY <2>2, <2>4, <2>5
<1>. DEFINE F == conn.full
            p == Pos(conn, readBuffer)
            m == Pos(conn', readBuffer')
            n == Len(Piece)
<1>7. ASSUME Clear
      PROVE  /\ Aligned(conn', readBuffer') /\ m = p + n /\ m \in 0..Len(F)
             /\ m >= p /\ p \in 0..Len(F) /\ p < Len(F)
             /\ Ahead(conn, readBuffer)[1] = F[p + 1]
  <2>1. Aligned(conn, readBuffer)
    BY <1>7, Where
  <2>2. /\ Aligned(conn', readBuffer') /\ m = p + n
        /\ p \in 0..Len(F) /\ p + n \in 0..Len(F)
        /\ \A i \in 1..n : Ahead(conn, readBuffer)[i] = F[p + i]
    BY <1>1, <1>3, <2>1, Advanced
  <2>3. Len(F) \in Nat
    BY <1>7, Answer
  <2>. HIDE DEF F, p, m, n
  <2>4. n \in Nat /\ n >= 1
    BY <1>3 DEF n
  <2>5. m >= p /\ p < Len(F) /\ 1 \in 1..n
    BY <2>2, <2>3, <2>4
  <2>. QED BY <2>2, <2>5
<1>8. ASSUME Clear, F[1].n \in 200..299 PROVE Content(F, p, http, call)
  <2>1. ~CutOff(conn, readBuffer, call)
    BY <1>2 DEF TakePiece, CutOff
  <2>. QED BY <1>8, <2>1, Where
<1>9. ASSUME Clear, call.pc = "status" \/ F[1].n \in 200..299
      PROVE  m = p + 1 /\ line = <<F[p + 1]>> /\ HasLine(line)
  <2>1. IsLine(F[p + 1]) /\ call.line = <<>>
    <3>. HIDE DEF p
    <3>1. p = Pos(conn, readBuffer)
      BY DEF p
    <3>. QED BY <1>2, <1>7, <1>8, <1>9, <3>1, LineComes
  <2>2. n = 1 /\ Piece[1] = F[p + 1] /\ m = p + 1
    <3>1. n = 1
      BY <1>3, <1>7, <1>9, <2>1
    <3>2. m = p + 1
      BY <1>7, <1>9, <3>1
    <3>3. Piece[1] = F[p + 1]
      BY <1>3, <1>7, <1>9, <3>1
    <3>. QED BY <3>1, <3>2, <3>3
  <2>3. line = Piece
    BY <1>3, <1>5, <2>1, JoinEmpty
  <2>. HIDE DEF F, p, m
  <2>4. Piece = <<F[p + 1]>>
    <3>1. PICK P, t : P = Piece /\ t = F[p + 1]
      OBVIOUS
    <3>2. P \in Seq(Token) /\ Len(P) = 1 /\ P[1] = t
      BY <1>3, <2>2, <3>1
    <3>3. P = <<t>>
      BY <3>2
    <3>. QED BY <3>1, <3>3
  <2>5. Last(line) = F[p + 1]
    BY <2>3, <2>4 DEF Last
  <2>. QED BY <1>6, <2>1, <2>2, <2>3, <2>4, <2>5 DEF HasLine
<1>10. CASE HasLine(line) /\ GotLine(line)
  <2>1. Clear => NextLine(line)
    <3>. HIDE DEF m
    <3>. QED BY <1>7, <1>8, <1>9 DEF NextLine, m
  <2>. QED BY <1>2, <1>4, <1>6, <1>10, <2>1, GotLineKeeps
<1>11. CASE /\ ~HasLine(line) /\ call' = [call EXCEPT !.line = line]
            /\ UNCHANGED <<http, res>>
  <2>1. PICK q : q = [call EXCEPT !.line = line]
    OBVIOUS
  <2>2. /\ q \in CallSet /\ q.pc = call.pc /\ q.op = call.op
        /\ q.body = call.body /\ q.size = call.size /\ q.got = call.got
        /\ q.hdr = call.hdr
    BY <1>1, <1>6, <2>1 DEF CallSet
  <2>3. ASSUME Clear PROVE Track(conn', readBuffer', http, q)
    <3>1. call.pc # "status" /\ F[1].n \notin 200..299
      BY <1>9, <1>11, <2>3
    <3>2. Place(http, q) = call.pc /\ Place(http, call) = call.pc
      BY <1>2, <2>2 DEF Place, LinePCs
    <3>3. Heading(F, p, http, call)
      BY <2>3, Where
    <3>4. Heading(F, m, http, q)
      <4>1. m >= p /\ p \in 0..Len(F) /\ m \in 0..Len(F) /\ Len(F) \in Nat
        BY <1>7, <2>3, Answer
      <4>. HIDE DEF F, p, m
      <4>2. p >= 1 => m >= 1
        BY <4>1
      <4>. QED BY <2>2, <3>1, <3>2, <3>3, <4>2 DEF Heading
    <3>5. Aligned(conn', readBuffer') /\ conn'.full = F
      BY <1>4, <1>7, <2>3 DEF Reads
    <3>. QED BY <2>2, <3>1, <3>4, <3>5 DEF Track, Base
  <2>4. http' = http /\ call' = q /\ res' = res
    BY <1>11, <2>1
  <2>5. /\ call.pc = "trail" => call.got # <<>>
        /\ call.pc = "status" => http.code = 0
    BY DEF Base, ShapeInv
  <2>6. q.pc \in ReadPCs
    BY <2>2 DEF Base
  <2>. QED BY <1>1, <1>2, <1>4, <2>2, <2>3, <2>4, <2>5, <2>6, OnKeeps
<1>. QED BY <1>5, <1>10, <1>11 DEF ReadLine

\* A read that gets nothing does not move the place.
LEMMA Stays ==
  ASSUME Base, ReadInv, NEW r, NothingRead(r)
  PROVE  /\ BufferedTypeOK' /\ conn'.full = conn.full
         /\ Clear => /\ Aligned(conn', readBuffer')
                     /\ Pos(conn', readBuffer') = Pos(conn, readBuffer)
<1>1. /\ BufferedTypeOK' /\ readBuffer = <<>> /\ readBuffer' = <<>>
      /\ conn'.full = conn.full /\ conn'.rest = conn.rest
  <2>1. BufferedTypeOK
    BY BaseFacts
  <2>. QED BY <2>1, NothingReads
<1>2. Ahead(conn', readBuffer') = Ahead(conn, readBuffer)
  BY <1>1 DEF Ahead
<1>3. Pos(conn', readBuffer') = Pos(conn, readBuffer)
  BY <1>1, <1>2 DEF Pos
<1>4. Aligned(conn, readBuffer) => Aligned(conn', readBuffer')
  BY <1>1, <1>2, <1>3 DEF Aligned
<1>5. Clear => Aligned(conn, readBuffer)
  BY Where
<1>. QED BY <1>1, <1>3, <1>4, <1>5

\* The end of the connection, in a line or a chunk of a successful answer or
\* before its end, cuts it off.
LEMMA EndCuts ==
  ASSUME Base, ReadInv, Clear, call.pc \in LinePCs \cup BytePCs,
         conn.full[1].n \in 200..299, NEW r \in {0, ErrIo}, NothingRead(r),
         call.pc = "body" => Pos(conn, readBuffer) < Len(conn.full)
                             \/ CutOff(conn, readBuffer, call)
  PROVE  CutOff(conn', readBuffer', call)
<1>1. PICK F, p : F = conn.full /\ p = Pos(conn, readBuffer)
  OBVIOUS
<1>2. /\ readBuffer = <<>> /\ readBuffer' = <<>> /\ conn'.full = F
      /\ conn'.rest = conn.rest /\ conn'.end # "open" /\ BufferedTypeOK
  <2>1. BufferedTypeOK
    BY BaseFacts
  <2>. QED BY <1>1, <2>1, NothingReads
<1>3. CASE CutOff(conn, readBuffer, call)
  BY <1>1, <1>2, <1>3 DEF CutOff
<1>4. CASE ~CutOff(conn, readBuffer, call)
  <2>1. /\ p \in 0..Len(F) /\ Heading(F, p, http, call) /\ Content(F, p, http, call)
        /\ Len(F) \in Nat /\ Len(F) >= 1
    BY <1>1, <1>4, Where, Answer
  <2>2. Place(http, call) = call.pc
    BY DEF Place, LinePCs, BytePCs
  <2>3. call.line = <<>>
    BY <2>1 DEF Content
  <2>4. p < Len(F)
    <3>1. CASE call.pc = "status"
      <4>1. p = 0
        BY <2>1, <2>2, <3>1 DEF Heading
      <4>. QED BY <2>1, <4>1
    <3>2. CASE call.pc = "header"
      <4>1. PICK e : e = HeaderEnd(F)
        OBVIOUS
      <4>2. p < e
        BY <2>1, <2>2, <3>2, <4>1 DEF Content
      <4>3. e \in 2..Len(F)
        BY <1>1, <4>1, Answer
      <4>. QED BY <2>1, <4>2, <4>3
    <3>3. CASE call.pc = "csize"
      <4>1. AtSize(F, p + 1)
        BY <2>1, <2>2, <3>3 DEF Content
      <4>2. p + 1 <= Len(F)
        BY <2>1, <4>1 DEF AtSize
      <4>. QED BY <2>1, <4>2
    <3>4. CASE call.pc \in {"csize2", "trail"}
      BY <2>1, <2>2, <3>4 DEF Content
    <3>5. CASE call.pc = "chunk"
      <4>1. p + http.chunkSize < Len(F)
        BY <2>1, <2>2, <3>5 DEF Content
      <4>2. http.chunkSize > 0 /\ http.chunkSize \in Int
        <5>1. Sound(http) /\ http \in HttpSet /\ http.readMode = "Chunk"
          BY <3>5, BaseFacts DEF ModeAt, BytePCs
        <5>. QED BY <5>1 DEF Sound, HttpSet
      <4>3. PICK k : k = http.chunkSize
        OBVIOUS
      <4>4. p + k < Len(F) /\ k > 0 /\ k \in Int
        BY <4>1, <4>2, <4>3
      <4>. QED BY <2>1, <4>4
    <3>6. CASE call.pc = "last"
      <4>1. p = Len(F) - 1
        BY <2>1, <2>2, <3>6 DEF Content
      <4>. QED BY <2>1, <4>1
    <3>7. CASE call.pc = "body"
      BY <1>1, <1>4, <3>7
    <3>. QED BY <3>1, <3>2, <3>3, <3>4, <3>5, <3>6, <3>7 DEF LinePCs, BytePCs
  <2>5. \E m \in 0..Len(F) : IsBody(call.body, F, m)
    <3>1. CASE call.pc \in {"status", "header"}
      <4>1. call.body = <<>>
        BY <2>1, <2>2, <3>1 DEF Heading
      <4>2. IsBody(<<>>, F, 0)
        BY BodyNone
      <4>3. 0 \in 0..Len(F)
        BY <2>1
      <4>. QED BY <4>1, <4>2, <4>3
    <3>2. CASE call.pc = "trail"
      BY <2>1, <2>2, <3>2 DEF Content
    <3>3. CASE call.pc = "body"
      <4>1. IsBody(call.body, F, p)
        BY <2>1, <2>2, <3>3 DEF Content
      <4>. QED BY <2>1, <4>1
    <3>4. CASE call.pc \in ChunkPCs \ {"trail"}
      <4>1. IsBody(call.body, F, p)
        BY <2>1, <2>2, <3>4 DEF Content
      <4>. QED BY <2>1, <4>1
    <3>. QED BY <3>1, <3>2, <3>3, <3>4 DEF LinePCs, BytePCs, ChunkPCs
  <2>6. conn.rest # <<>>
    <3>1. /\ conn.full \in Seq(Token) /\ conn.rest \in Seq(Token)
          /\ readBuffer \in Seq(Token)
      BY <1>2, Streams
    <3>. QED BY <1>1, <1>2, <2>4, <3>1, Unread
  <2>. QED BY <1>2, <2>3, <2>5, <2>6 DEF CutOff
<1>. QED BY <1>3, <1>4

\* What RecvBody ignores an error for, once the code is known: an answer that
\* is cut off, in its header or in its body.
LEMMA EndIgnored ==
  ASSUME Base, ReadInv, Clear, call.pc \in LinePCs \cup BytePCs,
         call.pc # "status",
         NEW r \in {0, ErrIo}, NothingRead(r),
         conn.full[1].n \in 200..299 => Done(conn', readBuffer', call.body)
  PROVE  /\ Aligned(conn', readBuffer') /\ conn'.rest # conn'.full
         /\ http.code = conn.full[1].n
         /\ http.code \in 200..299 => Done(conn', readBuffer', call.body)
<1>1. /\ BufferedTypeOK' /\ conn'.full = conn.full /\ Aligned(conn', readBuffer')
      /\ Pos(conn', readBuffer') = Pos(conn, readBuffer)
  BY Stays
<1>2. Heading(conn.full, Pos(conn, readBuffer), http, call)
  BY Where
<1>3. Place(http, call) \in {"header", "body"} \cup ChunkPCs
  BY DEF Place, LinePCs, BytePCs, ChunkPCs
<1>4. Pos(conn, readBuffer) >= 1 /\ http.code = conn.full[1].n
  BY <1>2, <1>3 DEF Heading
<1>5. conn'.rest # conn'.full
  <2>1. /\ conn'.full \in Seq(Token) /\ conn'.rest \in Seq(Token)
        /\ readBuffer' \in Seq(Token)
    BY <1>1 DEF BufferedTypeOK, Connection
  <2>. QED BY <1>1, <1>4, <2>1, Unread
<1>. QED BY <1>1, <1>4, <1>5

\* The process dies.
LEMMA DeadKeeps ==
  ASSUME Base, Reads, Dies, call.pc = "header"
  PROVE  Inv'
<1>1. call' = [NoCall EXCEPT !.pc = "dead"] /\ http' = http /\ res' = res
  BY DEF Dies
<1>2. call' \in CallSet /\ call'.pc = "dead"
  <2>1. NoCall \in CallSet
    BY DEF NoCall, CallSet, PCs
  <2>2. "dead" \in PCs
    BY DEF PCs
  <2>. QED BY <1>1, <2>1, <2>2 DEF CallSet
<1>3. call.pc \notin {"idle"} \cup SendPCs /\ res = NoRes /\ call.op \in RecvOps
  <2>1. call.pc \notin {"idle"} \cup SendPCs
    BY DEF Base, ReadPCs, SendPCs, LinePCs, BytePCs, WritePCs
  <2>. QED BY <2>1 DEF Base, ShapeInv
<1>4. TypeOK'
  BY <1>1, <1>2 DEF Base, Reads, TypeOK, CallSet
<1>5. call'.pc \notin ReadPCs \cup SendPCs \cup {"idle", "trail"}
  BY <1>2 DEF ReadPCs, SendPCs, LinePCs, BytePCs, WritePCs
<1>6. ShapeInv'
  <2>1. call'.pc \notin LinePCs \cup BytePCs
    BY <1>5 DEF ReadPCs
  <2>2. http.readMode = "Chunk" => http.chunkSize > 0 \/ call.pc = "trail"
    BY DEF Base, ShapeInv
  <2>3. call.pc # "trail"
    OBVIOUS
  <2>. QED BY <1>1, <1>3, <1>5, <2>1, <2>2, <2>3 DEF ShapeInv, Base
<1>7. ResultInv' /\ RequestWhole'
  BY <1>1, <1>3, NoResult DEF Base, Reads, SendInv
<1>8. SendInv'
  <2>1. call'.pc \notin WritePCs /\ call.pc \notin WritePCs
    BY <1>3, <1>5 DEF SendPCs
  <2>. QED BY <1>1, <1>7, <2>1 DEF Base, Reads, SendInv
<1>9. ServedInv'
  BY <1>1 DEF Base, Reads, ServedInv
<1>10. ReadInv'
  BY <1>2 DEF ReadInv
<1>. QED BY <1>4, <1>6, <1>7, <1>8, <1>9, <1>10 DEF Inv

\* GWEN_SyncIo_Http_ReadLine gets nothing.
LEMMA ReadLineFailsKeeps ==
  ASSUME Base, ReadInv, NEW r \in {0, ErrIo, ErrTimeout}, ReadLineFails(r)
  PROVE  Inv'
<1>1. /\ http \in HttpSet /\ call \in CallSet /\ BufferedTypeOK /\ Like(http)
      /\ call.pc # "trail" => Sound(http)
      /\ call.pc \in LinePCs \cup BytePCs =>
           http.connected /\ http.readMode = ModeAt(call.pc)
  BY BaseFacts
<1>2. call.pc \in LinePCs /\ NothingRead(r) /\ UNCHANGED <<out, reqs, taint, count>>
  BY DEF ReadLineFails
<1>3. /\ BufferedTypeOK' /\ conn'.full = conn.full
      /\ Clear => /\ Aligned(conn', readBuffer')
                  /\ Pos(conn', readBuffer') = Pos(conn, readBuffer)
  BY <1>2, Stays
<1>4. Reads
  BY <1>2, <1>3 DEF Reads
<1>5. PICK h : h = IF call.pc = "last" THEN http ELSE InError(http)
  OBVIOUS
<1>6. Like(h) /\ Sound(h) /\ h.code = http.code
  <2>1. /\ Like(InError(http)) /\ Sound(InError(http))
        /\ InError(http).code = http.code
    BY <1>1, ErrorFields
  <2>. QED BY <1>1, <1>5, <2>1
<1>7. ASSUME Clear, conn.full[1].n \in 200..299, r \in {0, ErrIo}
      PROVE  CutOff(conn', readBuffer', call)
  <2>1. call.pc # "body"
    BY <1>2 DEF LinePCs
  <2>. QED BY <1>2, <1>7, <2>1, EndCuts
<1>8. CASE r < 0 /\ ReadFailed(h, r)
  <2>1. r \in {ErrIo, ErrTimeout} /\ r \in Errors \cup {0} /\ r # 0 /\ r # ErrEof
    BY <1>8 DEF ErrIo, ErrTimeout, ErrEof, Errors
  <2>2. ASSUME Ignored(r), Clear, h.code # 0
        PROVE  /\ Aligned(conn', readBuffer') /\ conn'.rest # conn'.full
               /\ h.code = conn.full[1].n
               /\ h.code \in 200..299 => Done(conn', readBuffer', call.body)
    <3>1. r = ErrIo
      BY <2>2 DEF Ignored
    <3>2. call.pc # "status"
      BY <1>6, <2>2 DEF Base, ShapeInv
    <3>3. conn.full[1].n \in 200..299 => Done(conn', readBuffer', call.body)
      BY <1>7, <2>2, <3>1 DEF CutOff, Done
    <3>4. /\ Aligned(conn', readBuffer') /\ conn'.rest # conn'.full
          /\ http.code = conn.full[1].n
          /\ http.code \in 200..299 => Done(conn', readBuffer', call.body)
      BY <1>2, <2>2, <3>1, <3>2, <3>3, EndIgnored
    <3>. QED BY <1>6, <3>4
  <2>3. http.connected
    BY <1>1, <1>2
  <2>. QED BY <1>4, <1>6, <1>8, <2>1, <2>2, <2>3, FailedKeeps
<1>9. ASSUME r = 0, ReadFailed(h, ErrEof) PROVE Inv'
  <2>1. ErrEof \in Errors \cup {0} /\ ErrEof # 0 /\ ~Ignored(ErrEof)
    BY DEF ErrIo, ErrEof, Errors, Ignored
  <2>2. ASSUME Clear, call.pc # "last" PROVE Track(conn', readBuffer', h, Again)
    <3>1. h = InError(http)
      BY <1>5, <2>2
    <3>. QED BY <1>3, <2>2, <3>1, ErrorTrack
  <2>3. ASSUME Clear, call.pc = "last" PROVE Track(conn', readBuffer', h, Again)
    <3>1. PICK q : q = Again
      OBVIOUS
    <3>2. q.pc = "read" /\ q.line = <<>> /\ q.body = call.body /\ q.size = call.size
      BY <1>1, <3>1, AgainFields
    <3>3. h = http /\ http.readMode = "ChunkSize"
      BY <1>1, <1>2, <1>5, <2>3 DEF ModeAt
    <3>4. Place(h, q) = "csize" /\ Place(http, call) = "last"
      BY <2>3, <3>2, <3>3 DEF Place
    <3>5. "csize" \in ChunkPCs /\ "last" \in ChunkPCs /\ "read" \in ReadPCs
      BY DEF ChunkPCs, ReadPCs
    <3>6. Heading(conn.full, Pos(conn, readBuffer), http, call)
      BY <2>3, Where
    <3>7. Pos(conn, readBuffer) >= 1
      BY <3>4, <3>5, <3>6 DEF Heading
    <3>8. Heading(conn.full, Pos(conn, readBuffer), h, q)
      <4>1. Place(h, q) \in ChunkPCs /\ Place(http, call) \in ChunkPCs
        BY <3>4, <3>5
      <4>2. h.code = http.code /\ h.length = http.length
        BY <3>3
      <4>. QED BY <3>2, <3>6, <3>7, <4>1, <4>2, ChunkHeading
    <3>9. conn.full[1].n \in 200..299 => CutOff(conn', readBuffer', q)
      BY <1>7, <1>9, <2>3, <3>2 DEF CutOff
    <3>. QED BY <1>3, <2>3, <3>1, <3>2, <3>5, <3>8, <3>9 DEF Track
  <2>. QED BY <1>4, <1>6, <1>9, <2>1, <2>2, <2>3, FailedKeeps
<1>10. CASE r = 0 /\ call.pc = "header"
  <2>1. CASE ParseHeader(call.hdr)
    <3>1. ASSUME Clear PROVE HeaderRead
      <4>1. /\ Heading(conn.full, Pos(conn, readBuffer), http, call)
            /\ Pos(conn, readBuffer) \in 0..Len(conn.full)
            /\ Len(conn.full) \in Nat
        BY <3>1, Where, Answer
      <4>2. Pos(conn, readBuffer) >= 1
        BY <1>10, <4>1 DEF Heading, Place
      <4>3. Pos(conn', readBuffer') \in 1..Len(conn.full)
        BY <1>3, <3>1, <4>1, <4>2
      <4>. QED BY <1>3, <1>7, <1>10, <3>1, <4>3 DEF HeaderRead
    <3>. QED BY <1>4, <1>10, <2>1, <3>1, ParseHeaderKeeps
  <2>2. CASE Dies
    BY <1>4, <1>10, <2>2, DeadKeeps
  <2>3. ReadFailed(h, ErrEof) \/ ParseHeader(call.hdr) \/ Dies
    BY <1>5, <1>10 DEF ReadLineFails
  <2>. QED BY <1>9, <1>10, <2>1, <2>2, <2>3
<1>11. CASE r = 0 /\ call.line # <<>> /\ GotLine(call.line)
  <2>1. ASSUME Clear PROVE call.pc # "status" /\ conn.full[1].n \notin 200..299
    <3>1. Heading(conn.full, Pos(conn, readBuffer), http, call)
      BY <2>1, Where
    <3>2. call.pc # "status"
      BY <1>11, <3>1 DEF Heading, Place
    <3>3. conn.full[1].n \notin 200..299
      BY <1>11, <2>1, Where DEF CutOff, Content
    <3>. QED BY <3>2, <3>3
  <2>2. ASSUME Clear PROVE NextLine(call.line)
    <3>1. /\ Pos(conn, readBuffer) \in 0..Len(conn.full) /\ Len(conn.full) \in Nat
      BY <2>2, Where, Answer
    <3>2. Pos(conn, readBuffer) \in Int
      BY <3>1
    <3>3. Pos(conn', readBuffer') >= Pos(conn, readBuffer)
      BY <1>3, <2>2, <3>2
    <3>. QED BY <1>3, <2>1, <2>2, <3>1, <3>3 DEF NextLine
  <2>3. call.line \in Seq(Token)
    BY <1>1 DEF CallSet
  <2>. QED BY <1>2, <1>4, <1>11, <2>2, <2>3, GotLineKeeps
<1>12. ASSUME r = 0, call.pc \in {"csize", "csize2"}, EndsWithin({"size"}),
              NEW n \in Cuts(Head(conn.rest).n),
              GotSize(<<[Head(conn.rest) EXCEPT !.n = n]>>)
       PROVE  Inv'
  <2>1. PICK t : t = [Head(conn.rest) EXCEPT !.n = n]
    OBVIOUS
  <2>2. t \in Token
    <3>1. conn.rest \in Seq(Token) /\ conn.rest # <<>>
      BY <1>1, <1>12, Streams DEF EndsWithin
    <3>2. PICK u : u = Head(conn.rest)
      OBVIOUS
    <3>3. u \in Token
      BY <3>1, <3>2
    <3>4. u.n \in Nat /\ n \in Cuts(u.n)
      BY <1>12, <3>2, <3>3 DEF Token
    <3>5. n \in Nat
      BY <3>4 DEF Cuts
    <3>. QED BY <2>1, <3>2, <3>3, <3>5 DEF Token
  <2>3. PICK line : line = <<t>>
    OBVIOUS
  <2>4. line \in Seq(Token) /\ line # <<>>
    BY <2>2, <2>3
  <2>5. ASSUME Clear PROVE LineRead(line)
    <3>1. /\ Pos(conn, readBuffer) \in 0..Len(conn.full) /\ Len(conn.full) \in Nat
      BY <2>5, Where, Answer
    <3>2. Pos(conn, readBuffer) \in Int
      BY <3>1
    <3>3. Pos(conn', readBuffer') >= Pos(conn, readBuffer)
      BY <1>3, <2>5, <3>2
    <3>. QED BY <1>3, <1>7, <1>12, <2>5, <3>1, <3>3 DEF LineRead
  <2>6. GotSize(line)
    BY <1>12, <2>1, <2>3
  <2>. QED BY <1>4, <1>12, <2>4, <2>5, <2>6, GotSizeKeeps
<1>13. \/ r < 0 /\ ReadFailed(h, r)
       \/ r = 0 /\ call.pc = "header"
       \/ r = 0 /\ ReadFailed(h, ErrEof)
       \/ r = 0 /\ call.line # <<>> /\ GotLine(call.line)
       \/ /\ r = 0 /\ call.pc \in {"csize", "csize2"} /\ EndsWithin({"size"})
          /\ \E n \in Cuts(Head(conn.rest).n) :
               GotSize(<<[Head(conn.rest) EXCEPT !.n = n]>>)
  BY <1>5 DEF ReadLineFails
<1>. QED BY <1>8, <1>9, <1>10, <1>11, <1>12, <1>13

\* A read of bytes never asks for more than is left, and never for nothing.
LEMMA WantedIs ==
  ASSUME Base, call.pc \in BytePCs
  PROVE  /\ Wanted \in Nat \ {0}
         /\ call.pc = "chunk" => Wanted <= http.chunkSize /\ http.chunkSize \in Nat \ {0}
         /\ call.pc = "body" => (http.bodySize >= 0 => Wanted <= http.bodySize)
<1>1. /\ http.chunkSize \in Int /\ http.bodySize \in Int
      /\ call.pc = "chunk" => http.chunkSize > 0
      /\ call.pc = "body" => http.bodySize # 0
      /\ ReadSize \in Nat \ {0}
  <2>1. http \in HttpSet /\ Sound(http) /\ http.readMode = ModeAt(call.pc)
    BY BaseFacts DEF BytePCs
  <2>. QED BY <2>1, HttpAssumption DEF HttpSet, Sound, ModeAt, BytePCs
<1>2. PICK left : left = IF call.pc = "chunk" THEN http.chunkSize ELSE http.bodySize
  OBVIOUS
<1>3. left \in Int /\ left # 0
  BY <1>1, <1>2 DEF BytePCs
<1>4. Wanted = IF left >= 0 /\ left < ReadSize THEN left ELSE ReadSize
  BY <1>2 DEF Wanted
<1>5. Wanted \in Nat \ {0} /\ (left >= 0 => Wanted <= left)
  BY <1>1, <1>3, <1>4
<1>. QED BY <1>1, <1>2, <1>5 DEF BytePCs

\* Some bytes are taken, the next n from place p of the answer F.
Taken(got) ==
  got \in Gets(Wanted) /\ TakeBytes(got) /\ UNCHANGED <<out, reqs, taint, count>>
Came(got, F, p, n) ==
  /\ Reads /\ got \in Seq(Token) /\ n \in Nat /\ n >= 1
  /\ call.pc = "chunk" => n <= http.chunkSize
  /\ call.pc = "body" => (http.bodySize >= 0 => n <= http.bodySize)
  /\ Clear =>
       /\ Aligned(conn', readBuffer') /\ conn'.full = F
       /\ Pos(conn', readBuffer') = p + n
       /\ p \in Nat /\ Len(F) \in Nat /\ p + n <= Len(F)
       /\ p >= 1 /\ http.code = F[1].n /\ Heading(F, p, http, call)
       /\ \A i \in 1..n : got[i] = F[p + i]
       /\ conn'.rest # conn'.full
       /\ p + n = Len(F) => readBuffer' = <<>>
       /\ F[1].n \in 200..299 => Content(F, p, http, call)

\* The bytes a read returns are the next of the answer.
LEMMA BytesCome ==
  ASSUME Base, ReadInv, call.pc \in BytePCs, NEW got, Taken(got),
         NEW F, F = conn.full, NEW p, p = Pos(conn, readBuffer),
         NEW n, n = Len(got)
  PROVE  Came(got, F, p, n)
<1>0. /\ got \in Gets(Wanted) /\ TakeBytes(got)
      /\ UNCHANGED <<out, reqs, taint, count>>
  BY DEF Taken
<1>1. BufferedTypeOK
  BY BaseFacts
<1>2. /\ Wanted \in Nat \ {0}
      /\ call.pc = "chunk" => Wanted <= http.chunkSize /\ http.chunkSize \in Nat \ {0}
      /\ call.pc = "body" => (http.bodySize >= 0 => Wanted <= http.bodySize)
  BY WantedIs
<1>3. /\ BufferedTypeOK' /\ Advance(Len(got)) /\ got \in Seq(Token)
      /\ Len(got) \in 1..Wanted
      /\ \A i \in 1..Len(got) : got[i] = Ahead(conn, readBuffer)[i]
  BY <1>0, <1>1, <1>2, BytesRead
<1>4. Reads
  BY <1>0, <1>3 DEF Reads, Advance
<1>5. n \in Nat /\ n >= 1 /\ n <= Wanted
  BY <1>2, <1>3
<1>6. call.pc = "chunk" => n <= http.chunkSize
  BY <1>2, <1>5
<1>7. ASSUME call.pc = "body", http.bodySize >= 0 PROVE n <= http.bodySize
  <2>1. http.bodySize \in Int
    BY BaseFacts DEF HttpSet
  <2>. QED BY <1>2, <1>5, <1>7, <2>1
<1>8. ASSUME Clear
      PROVE  /\ Aligned(conn', readBuffer') /\ conn'.full = F
             /\ Pos(conn', readBuffer') = p + n
             /\ p \in Nat /\ Len(F) \in Nat /\ p + n <= Len(F)
             /\ p >= 1 /\ http.code = F[1].n /\ Heading(F, p, http, call)
             /\ \A i \in 1..n : got[i] = F[p + i]
             /\ conn'.rest # conn'.full
             /\ p + n = Len(F) => readBuffer' = <<>>
             /\ F[1].n \in 200..299 => Content(F, p, http, call)
  <2>1. Aligned(conn, readBuffer) /\ Heading(F, p, http, call)
    BY <1>8, Where
  <2>2. /\ Aligned(conn', readBuffer') /\ Pos(conn', readBuffer') = p + n
        /\ p \in 0..Len(F) /\ p + n \in 0..Len(F)
        /\ \A i \in 1..n : Ahead(conn, readBuffer)[i] = F[p + i]
    BY <1>1, <1>3, <2>1, Advanced
  <2>3. Place(http, call) \in {"body"} \cup ChunkPCs
    BY DEF Place, BytePCs, ChunkPCs
  <2>4. p >= 1 /\ http.code = F[1].n
    BY <2>1, <2>3 DEF Heading
  <2>5. Len(F) \in Nat
    BY <1>8, Answer
  <2>6. p \in Nat /\ p + n <= Len(F) /\ p + n >= 1
    BY <1>5, <2>2, <2>4, <2>5
  <2>7. conn'.full = F
    BY <1>4 DEF Reads
  <2>8. /\ conn'.full \in Seq(Token) /\ conn'.rest \in Seq(Token)
        /\ readBuffer' \in Seq(Token)
    BY <1>3 DEF BufferedTypeOK, Connection
  <2>9. conn'.rest # conn'.full /\ (p + n = Len(F) => readBuffer' = <<>>)
    BY <2>2, <2>6, <2>7, <2>8, Unread
  <2>10. ~CutOff(conn, readBuffer, call)
    BY <1>0 DEF CutOff, Gets, Portions
  <2>11. F[1].n \in 200..299 => Content(F, p, http, call)
    BY <1>8, <2>10, Where
  <2>12. \A i \in 1..n : got[i] = F[p + i]
    BY <1>3, <2>2
  <2>. QED BY <2>1, <2>2, <2>4, <2>5, <2>6, <2>7, <2>9, <2>11, <2>12
<1>. QED BY <1>3, <1>4, <1>5, <1>6, <1>7, <1>8 DEF Came

\* Something and something more is more than nothing.
LEMMA Longer ==
  ASSUME NEW b \in Seq(Token), NEW g \in Seq(Token), Len(g) >= 1
  PROVE  /\ b \o g \in Seq(Token) /\ b \o g # <<>> /\ Len(b) \in Nat
         /\ Len(b \o g) = Len(b) + Len(g)
<1>1. b \o g \in Seq(Token) /\ Len(b \o g) = Len(b) + Len(g)
  BY Joined
<1>2. Len(b) \in Nat /\ Len(g) \in Nat
  OBVIOUS
<1>3. Len(b \o g) # 0
  <2>1. PICK k, l, m : k = Len(b) /\ l = Len(g) /\ m = Len(b \o g)
    OBVIOUS
  <2>2. k \in Nat /\ l \in Nat /\ l >= 1 /\ m = k + l
    BY <1>1, <1>2, <2>1
  <2>3. m # 0
    BY <2>2
  <2>. QED BY <2>1, <2>3
<1>4. Len(<<>>) = 0
  OBVIOUS
<1>. QED BY <1>1, <1>2, <1>3, <1>4

\* GWEN_SyncIo_Http_ReadChunk
LEMMA GotChunkKeeps ==
  ASSUME Base, ReadInv, call.pc \in BytePCs, NEW got, Taken(got), GotChunk(got)
  PROVE  Inv'
<1>1. /\ http \in HttpSet /\ call \in CallSet /\ Like(http)
      /\ http.connected
  BY BaseFacts
<1>2. call.pc = "chunk" /\ http.readMode = "Chunk"
  BY BaseFacts DEF GotChunk, ModeAt
<1>3. PICK F, p, n, e : /\ F = conn.full /\ p = Pos(conn, readBuffer)
                        /\ n = Len(got) /\ e = HeaderEnd(conn.full)
  OBVIOUS
<1>4. /\ Reads /\ got \in Seq(Token) /\ n \in Nat /\ n >= 1
      /\ n <= http.chunkSize
      /\ Clear =>
           /\ Aligned(conn', readBuffer') /\ conn'.full = F
           /\ Pos(conn', readBuffer') = p + n
           /\ p \in Nat /\ Len(F) \in Nat /\ p + n <= Len(F)
           /\ p >= 1 /\ http.code = F[1].n /\ Heading(F, p, http, call)
           /\ \A i \in 1..n : got[i] = F[p + i]
           /\ conn'.rest # conn'.full
           /\ F[1].n \in 200..299 => Content(F, p, http, call)
  <2>1. Came(got, F, p, n)
    BY <1>3, BytesCome
  <2>. QED BY <1>2, <2>1 DEF Came
<1>5. PICK h : h = [http EXCEPT !.chunkSize = @ - n,
                                !.bodySize = IF @ > 0 THEN @ - n ELSE @]
  OBVIOUS
<1>6. /\ Like(h) /\ h.code = http.code /\ h.length = http.length
      /\ h.readMode = "Chunk" /\ h.chunkSize = http.chunkSize - n
      /\ h.chunkSize \in Nat /\ http.chunkSize \in Int
  <2>1. http.chunkSize \in Int /\ http.bodySize \in Int
    BY <1>1 DEF HttpSet
  <2>2. PICK a, b :
          /\ a = http.chunkSize - n
          /\ b = (IF http.bodySize > 0 THEN http.bodySize - n ELSE http.bodySize)
    OBVIOUS
  <2>3. a \in Nat /\ b \in Int
    BY <1>4, <2>1, <2>2
  <2>4. h = [http EXCEPT !.chunkSize = a, !.bodySize = b]
    BY <1>5, <2>2
  <2>. QED BY <1>1, <1>2, <2>1, <2>2, <2>3, <2>4 DEF Like, HttpSet
<1>7. PICK body, size : body = call.body \o got /\ size = SizeFor(h)
  OBVIOUS
<1>8. call.body \in Seq(Token) /\ body \in Seq(Token) /\ body # <<>>
  <2>1. call.body \in Seq(Token)
    BY <1>1 DEF CallSet
  <2>. QED BY <1>3, <1>4, <1>7, <2>1, Longer
<1>9. Place(http, call) = "chunk" /\ "chunk" \in ChunkPCs /\ "trail" \in ChunkPCs
  BY <1>2 DEF Place, ChunkPCs
<1>10. ASSUME Clear, F[1].n \in 200..299
       PROVE  /\ Chunked(F, e) /\ p >= e /\ e \in Nat /\ http.length = -1
              /\ IsBody(call.body, F, p) /\ IsBody(body, F, p + n)
              /\ p + http.chunkSize < Len(F)
              /\ \A i \in (p + 1)..(p + http.chunkSize) : F[i].k = "data"
              /\ F[p + http.chunkSize + 1].k = "blank"
              /\ AtSize(F, p + http.chunkSize + 2)
  <2>1. /\ Chunked(F, e) /\ p >= e /\ http.length = -1
        /\ IsBody(call.body, F, p) /\ p + http.chunkSize < Len(F)
        /\ \A i \in (p + 1)..(p + http.chunkSize) : F[i].k = "data"
        /\ F[p + http.chunkSize + 1].k = "blank"
        /\ AtSize(F, p + http.chunkSize + 2)
    BY <1>3, <1>4, <1>9, <1>10 DEF Content
  <2>2. e \in Nat
    <3>1. e \in 2..Len(F) /\ Len(F) \in Nat
      BY <1>3, <1>10, Answer
    <3>. QED BY <3>1
  <2>3. p \in Nat /\ \A i \in 1..n : got[i] = F[p + i]
    BY <1>4, <1>10
  <2>4. \A i \in 1..n : F[p + i].k = "data"
    <3>1. ASSUME NEW i \in 1..n PROVE p + i \in (p + 1)..(p + http.chunkSize)
      BY <1>4, <1>6, <2>3
    <3>. QED BY <2>1, <3>1
  <2>5. IsBody(body, F, p + n)
    BY <1>3, <1>4, <1>7, <1>8, <2>1, <2>3, <2>4, BodyMore
  <2>. QED BY <2>1, <2>2, <2>5
<1>11. ASSUME Clear PROVE p + n >= 1 /\ p + n \in Nat /\ p \in 0..Len(F)
  <2>1. PICK l : l = Len(F)
    OBVIOUS
  <2>2. p \in Nat /\ p >= 1 /\ n \in Nat /\ l \in Nat /\ p + n <= l
    BY <1>4, <1>11, <2>1
  <2>3. p + n >= 1 /\ p + n \in Nat /\ p \in 0..l
    BY <2>2
  <2>. QED BY <2>1, <2>3
<1>12. CASE /\ h.chunkSize = 0 /\ call' = [At("trail") EXCEPT !.got = got]
            /\ http' = h /\ res' = res
  <2>1. PICK q : q = [At("trail") EXCEPT !.got = got]
    OBVIOUS
  <2>2. "trail" \in PCs /\ "trail" \in ReadPCs
    BY DEF PCs, ReadPCs, LinePCs
  <2>3. /\ q \in CallSet /\ q.pc = "trail" /\ q.op = call.op /\ q.line = <<>>
        /\ q.body = call.body /\ q.size = call.size /\ q.got = got
    <3>1. PICK a : a = At("trail")
      OBVIOUS
    <3>2. /\ a \in CallSet /\ a.pc = "trail" /\ a.op = call.op
          /\ a.line = <<>> /\ a.body = call.body /\ a.size = call.size
      BY <1>1, <2>2, <3>1, AtFields
    <3>. QED BY <1>4, <2>1, <3>1, <3>2 DEF CallSet
  <2>4. got # <<>>
    <3>1. Len(<<>>) = 0
      OBVIOUS
    <3>. QED BY <1>3, <1>4, <3>1
  <2>5. ASSUME Clear PROVE Track(conn', readBuffer', h, q)
    <3>1. Place(h, q) = "trail"
      BY <2>3 DEF Place
    <3>2. Heading(F, p + n, h, q)
      <4>1. Place(h, q) \in ChunkPCs /\ Place(http, call) \in ChunkPCs
        BY <1>9, <3>1
      <4>2. Heading(F, p, http, call) /\ p + n >= 1
        BY <1>4, <1>11, <2>5
      <4>. QED BY <1>6, <2>3, <4>1, <4>2, ChunkHeading
    <3>3. ASSUME F[1].n \in 200..299 PROVE Content(F, p + n, h, q)
      <4>1. /\ Chunked(F, e) /\ p >= e /\ e \in Nat /\ http.length = -1
            /\ IsBody(call.body, F, p) /\ IsBody(body, F, p + n)
            /\ p + http.chunkSize < Len(F)
            /\ F[p + http.chunkSize + 1].k = "blank"
            /\ AtSize(F, p + http.chunkSize + 2)
        BY <1>10, <2>5, <3>3
      <4>2. n = http.chunkSize
        BY <1>4, <1>6, <1>12
      <4>3. p + n >= e /\ p \in 0..Len(F) /\ p \in Nat
        <5>1. p \in Nat /\ n \in Nat /\ e \in Nat /\ p >= e
          BY <1>4, <2>5, <4>1
        <5>2. p + n >= e
          BY <5>1
        <5>. QED BY <1>11, <2>5, <5>1, <5>2
      <4>4. PICK m : m = p + n
        OBVIOUS
      <4>5. /\ m < Len(F) /\ F[m + 1].k = "blank" /\ AtSize(F, m + 2)
            /\ IsBody(q.body \o q.got, F, m) /\ m >= e /\ h.length = -1
            /\ \E i \in 0..Len(F) : IsBody(q.body, F, i)
        BY <1>6, <1>7, <2>3, <4>1, <4>2, <4>3, <4>4
      <4>6. Content(F, m, h, q)
        BY <1>3, <1>9, <2>3, <3>1, <4>1, <4>5 DEF Content
      <4>. QED BY <4>4, <4>6
    <3>4. /\ Aligned(conn', readBuffer') /\ conn'.full = F
          /\ Pos(conn', readBuffer') = p + n
      BY <1>4, <2>5
    <3>. QED BY <2>2, <2>3, <3>2, <3>3, <3>4 DEF Track
  <2>6. h.readMode = ModeAt(q.pc)
    BY <1>6, <2>3 DEF ModeAt
  <2>7. call' = q
    BY <1>12, <2>1
  <2>. QED BY <1>1, <1>4, <1>6, <1>12, <2>2, <2>3, <2>4, <2>5, <2>6, <2>7, OnKeeps
<1>13. CASE h.chunkSize # 0 /\ ReadGot(h, got)
  <2>1. Sound(h)
    BY <1>6, <1>13 DEF Sound
  <2>2. size \in Nat \cup {-1}
    BY <1>1, <1>6, <1>7 DEF SizeFor, Like, HttpSet, CallSet
  <2>3. ASSUME Clear PROVE Followed(h, body, size)
    <3>1. /\ Aligned(conn', readBuffer') /\ conn'.full = F
          /\ Pos(conn', readBuffer') = p + n
          /\ p >= 1 /\ http.code = F[1].n /\ Heading(F, p, http, call)
          /\ conn'.rest # conn'.full
      BY <1>4, <2>3
    <3>2. size = http.length
      <4>1. Place(http, call) \in {"body"} \cup ChunkPCs
        BY <1>9
      <4>. QED BY <1>6, <1>7, <3>1, <4>1, SizeIs
    <3>3. ASSUME size # -1 PROVE Complete(h, body)
      <4>1. F[1].n \notin 200..299
        BY <1>10, <2>3, <3>2, <3>3
      <4>. QED BY <1>3, <1>6, <3>1, <4>1 DEF Complete
    <3>4. Track(conn', readBuffer', h, Grown(body, size))
      <4>1. PICK q : q = Grown(body, size)
        OBVIOUS
      <4>2. /\ q.pc = "read" /\ q.line = <<>> /\ q.hdr = <<>>
            /\ q.body = body /\ q.size = size /\ q.pc \in ReadPCs
        BY <1>1, <1>8, <2>2, <4>1, Growing
      <4>3. Place(h, q) = "chunk"
        BY <1>6, <4>2 DEF Place
      <4>4. Heading(F, p + n, h, q)
        <5>1. p + n >= 1 /\ h.code = F[1].n /\ q.body # <<>> /\ q.size = h.length
          BY <1>6, <1>8, <1>11, <2>3, <3>1, <3>2, <4>2
        <5>. QED BY <1>9, <4>3, <5>1 DEF Heading
      <4>5. ASSUME F[1].n \in 200..299 PROVE Content(F, p + n, h, q)
        <5>1. /\ Chunked(F, e) /\ p >= e /\ e \in Nat /\ http.length = -1
              /\ IsBody(body, F, p + n)
              /\ p + http.chunkSize < Len(F)
              /\ \A i \in (p + 1)..(p + http.chunkSize) : F[i].k = "data"
              /\ F[p + http.chunkSize + 1].k = "blank"
              /\ AtSize(F, p + http.chunkSize + 2)
          BY <1>10, <2>3, <4>5
        <5>2. p \in Nat
          BY <1>4, <2>3
        <5>3. PICK m, c : m = p + n /\ c = h.chunkSize
          OBVIOUS
        <5>4. m + c = p + http.chunkSize /\ m >= e /\ m \in Nat /\ c \in Nat
          <6>1. PICK s : s = http.chunkSize
            OBVIOUS
          <6>2. /\ p \in Nat /\ n \in Nat /\ e \in Nat /\ s \in Int /\ c \in Nat
                /\ c = s - n /\ p >= e /\ m = p + n
            BY <1>4, <1>6, <5>1, <5>2, <5>3, <6>1
          <6>3. m + c = p + s /\ m >= e /\ m \in Nat
            BY <6>2
          <6>. QED BY <6>1, <6>2, <6>3
        <5>5. \A i \in (m + 1)..(m + c) : i \in (p + 1)..(p + http.chunkSize)
          BY <1>4, <5>2, <5>3, <5>4
        <5>6. /\ m + c < Len(F)
              /\ \A i \in (m + 1)..(m + c) : F[i].k = "data"
              /\ F[m + c + 1].k = "blank"
              /\ AtSize(F, m + c + 2)
          BY <5>1, <5>4, <5>5
        <5>7. IsBody(q.body, F, m) /\ h.length = -1
          BY <1>6, <4>2, <5>1, <5>3
        <5>8. Content(F, m, h, q)
          BY <1>3, <1>9, <4>2, <4>3, <5>1, <5>3, <5>4, <5>6, <5>7 DEF Content
        <5>. QED BY <5>3, <5>8
      <4>. QED BY <3>1, <4>1, <4>2, <4>4, <4>5 DEF Track
    <3>. QED BY <3>3, <3>4 DEF Followed
  <2>. QED BY <1>1, <1>4, <1>6, <1>7, <1>8, <1>13, <2>1, <2>2, <2>3, GotKeeps
<1>14. \/ /\ h.chunkSize = 0 /\ call' = [At("trail") EXCEPT !.got = got]
          /\ http' = h /\ res' = res
       \/ h.chunkSize # 0 /\ ReadGot(h, got)
  BY <1>3, <1>5 DEF GotChunk
<1>. QED BY <1>12, <1>13, <1>14

\* GWEN_SyncIo_Http_ReadBody
LEMMA GotBodyKeeps ==
  ASSUME Base, ReadInv, call.pc \in BytePCs, NEW got, Taken(got), GotBody(got)
  PROVE  Inv'
<1>1. /\ http \in HttpSet /\ call \in CallSet /\ Like(http)
      /\ http.connected /\ Sound(http)
  BY BaseFacts DEF BytePCs
<1>2. call.pc = "body" /\ http.readMode = "Body" /\ http.bodySize # 0
  <2>1. call.pc = "body" /\ http.readMode = "Body"
    BY BaseFacts DEF GotBody, ModeAt
  <2>. QED BY <1>1, <2>1 DEF Sound
<1>3. PICK F, p, n, e : /\ F = conn.full /\ p = Pos(conn, readBuffer)
                        /\ n = Len(got) /\ e = HeaderEnd(conn.full)
  OBVIOUS
<1>4. /\ Reads /\ got \in Seq(Token) /\ n \in Nat /\ n >= 1
      /\ http.bodySize >= 0 => n <= http.bodySize
      /\ Clear =>
           /\ Aligned(conn', readBuffer') /\ conn'.full = F
           /\ Pos(conn', readBuffer') = p + n
           /\ p \in Nat /\ Len(F) \in Nat /\ p + n <= Len(F)
           /\ p >= 1 /\ http.code = F[1].n /\ Heading(F, p, http, call)
           /\ \A i \in 1..n : got[i] = F[p + i]
           /\ conn'.rest # conn'.full
           /\ p + n = Len(F) => readBuffer' = <<>>
           /\ F[1].n \in 200..299 => Content(F, p, http, call)
  <2>1. Came(got, F, p, n)
    BY <1>3, BytesCome
  <2>. QED BY <1>2, <2>1 DEF Came
<1>5. PICK left : left = IF http.bodySize >= 0 THEN http.bodySize - n ELSE http.bodySize
  OBVIOUS
<1>6. PICK h : h = [http EXCEPT !.bodySize = left,
                                !.readMode = IF left = 0 THEN "Idle" ELSE @]
  OBVIOUS
<1>7. /\ Like(h) /\ h.code = http.code /\ h.length = http.length
      /\ h.bodySize = left /\ left \in Int
      /\ left = 0 => h.readMode = "Idle"
      /\ left # 0 => h.readMode = "Body"
  <2>1. http.bodySize \in Int
    BY <1>1 DEF HttpSet
  <2>2. left \in Int
    BY <1>4, <1>5, <2>1
  <2>3. PICK mode : mode = IF left = 0 THEN "Idle" ELSE "Body"
    OBVIOUS
  <2>4. mode \in Modes
    BY <2>3 DEF Modes
  <2>5. h = [http EXCEPT !.bodySize = left, !.readMode = mode]
    BY <1>2, <1>6, <2>3
  <2>. QED BY <1>1, <2>2, <2>3, <2>4, <2>5 DEF Like, HttpSet
<1>8. Sound(h)
  BY <1>7 DEF Sound
<1>9. PICK body, size : body = call.body \o got /\ size = SizeFor(h)
  OBVIOUS
<1>10. /\ call.body \in Seq(Token) /\ body \in Seq(Token) /\ body # <<>>
       /\ Len(call.body) \in Nat /\ Len(body) = Len(call.body) + n
  <2>1. call.body \in Seq(Token)
    BY <1>1 DEF CallSet
  <2>. QED BY <1>3, <1>4, <1>9, <2>1, Longer
<1>11. size \in Nat \cup {-1}
  BY <1>1, <1>7, <1>9 DEF SizeFor, Like, HttpSet, CallSet
<1>12. Place(http, call) = "body"
  BY <1>2 DEF Place
<1>13. ASSUME Clear
       PROVE  /\ size = http.length /\ Len(body) \in Nat
              /\ \/ size = -1 /\ left = -1
                 \/ size \in Nat /\ left = size - Len(body) /\ left >= 0
              /\ p + n >= 1
  <2>1. Heading(F, p, http, call)
    BY <1>4, <1>13
  <2>2. size = http.length
    BY <1>7, <1>9, <1>12, <2>1, SizeIs
  <2>3. PICK b, k, l, m, s : /\ b = http.bodySize /\ k = Len(call.body)
                             /\ l = Len(body) /\ m = http.length /\ s = size
    OBVIOUS
  <2>4. \/ m = -1 /\ b = -1
        \/ b = m - k /\ b > 0
    BY <1>12, <2>1, <2>3 DEF Heading
  <2>5. b \in Int /\ m \in Nat \cup {-1} /\ k \in Nat /\ l = k + n
    BY <1>1, <1>10, <2>3 DEF HttpSet
  <2>6. left = (IF b >= 0 THEN b - n ELSE b) /\ (b >= 0 => n <= b) /\ n \in Nat
    BY <1>4, <1>5, <2>3
  <2>7. /\ l \in Nat
        /\ \/ m = -1 /\ left = -1
           \/ m \in Nat /\ left = m - l /\ left >= 0
    <3>1. CASE m = -1 /\ b = -1
      BY <2>5, <2>6, <3>1
    <3>2. CASE b = m - k /\ b > 0
      <4>1. left = b - n /\ left >= 0
        BY <2>5, <2>6, <3>2
      <4>2. m \in Nat
        BY <2>5, <3>2
      <4>. QED BY <2>5, <2>6, <3>2, <4>1, <4>2
    <3>. QED BY <2>4, <3>1, <3>2
  <2>8. p >= 1 /\ p \in Nat
    BY <1>4, <1>13
  <2>9. p + n >= 1
    BY <2>6, <2>8
  <2>. QED BY <2>2, <2>3, <2>7, <2>9
<1>14. ASSUME Clear, F[1].n \in 200..299
       PROVE  /\ Plain(F, e) /\ p + n >= e /\ Len(body) = (p + n) - e
              /\ IsBody(body, F, p + n)
              /\ http.length = IF InHeader(F, e, "length") THEN Len(F) - e ELSE -1
              /\ e \in Nat /\ p \in Nat /\ Len(F) \in Nat /\ p + n <= Len(F)
  <2>1. Content(F, p, http, call)
    BY <1>4, <1>14
  <2>2. /\ Plain(F, e) /\ p >= e /\ Len(call.body) = p - e /\ IsBody(call.body, F, p)
        /\ http.length = IF InHeader(F, e, "length") THEN Len(F) - e ELSE -1
    BY <1>3, <1>12, <2>1 DEF Content
  <2>3. /\ p \in Nat /\ Len(F) \in Nat /\ p + n <= Len(F)
        /\ \A i \in 1..n : got[i] = F[p + i]
    BY <1>4, <1>14
  <2>4. e \in Nat
    <3>1. e \in 2..Len(F)
      BY <1>3, <1>14, Answer
    <3>. QED BY <2>3, <3>1
  <2>5. ASSUME NEW i \in 1..n PROVE F[p + i].k = "data"
    <3>1. PICK l : l = Len(F)
      OBVIOUS
    <3>2. l \in Nat /\ p + n <= l /\ p \in Nat /\ e \in Nat /\ p >= e /\ n \in Nat
      BY <1>4, <2>2, <2>3, <2>4, <3>1
    <3>3. p + i \in (e + 1)..l
      BY <3>2
    <3>. QED BY <2>2, <3>1, <3>3 DEF Plain
  <2>6. IsBody(body, F, p + n)
    BY <1>3, <1>4, <1>9, <1>10, <2>2, <2>3, <2>5, BodyMore
  <2>7. p + n >= e /\ Len(body) = (p + n) - e
    <3>1. PICK k, l : k = Len(call.body) /\ l = Len(body)
      OBVIOUS
    <3>2. k = p - e /\ l = k + n /\ p >= e /\ p \in Nat /\ e \in Nat /\ n \in Nat
      BY <1>4, <1>10, <2>2, <2>3, <2>4, <3>1
    <3>3. p + n >= e /\ l = (p + n) - e
      BY <3>2
    <3>. QED BY <3>1, <3>3
  <2>. QED BY <2>2, <2>3, <2>4, <2>6, <2>7
<1>15. ASSUME Clear PROVE Followed(h, body, size)
  <2>1. /\ Aligned(conn', readBuffer') /\ conn'.full = F
        /\ Pos(conn', readBuffer') = p + n
        /\ http.code = F[1].n /\ conn'.rest # conn'.full
        /\ p + n = Len(F) => readBuffer' = <<>>
    BY <1>4, <1>15
  <2>2. /\ size = http.length /\ Len(body) \in Nat
        /\ \/ size = -1 /\ left = -1
           \/ size \in Nat /\ left = size - Len(body) /\ left >= 0
        /\ p + n >= 1
    BY <1>13, <1>15
  <2>3. ASSUME size # -1, Len(body) >= size PROVE Complete(h, body)
    <3>1. ASSUME F[1].n \in 200..299 PROVE Done(conn', readBuffer', body)
      <4>1. /\ Len(body) = (p + n) - e /\ IsBody(body, F, p + n)
            /\ size = Len(F) - e
            /\ e \in Nat /\ p \in Nat /\ Len(F) \in Nat /\ p + n <= Len(F)
        BY <1>14, <1>15, <2>2, <2>3, <3>1
      <4>2. p + n = Len(F)
        <5>1. PICK l, k : l = Len(F) /\ k = Len(body)
          OBVIOUS
        <5>2. /\ k = (p + n) - e /\ size = l - e /\ k >= size /\ p + n <= l
              /\ e \in Nat /\ p \in Nat /\ l \in Nat /\ n \in Nat
          BY <1>4, <2>3, <4>1, <5>1
        <5>3. p + n = l
          BY <5>2
        <5>. QED BY <5>1, <5>3
      <4>3. readBuffer' = <<>> /\ IsBody(body, F, Len(F))
        BY <2>1, <4>1, <4>2
      <4>. QED BY <2>1, <4>3 DEF Done
    <3>. QED BY <1>3, <1>7, <2>1, <3>1 DEF Complete
  <2>4. ASSUME size = -1 \/ Len(body) < size
        PROVE  Track(conn', readBuffer', h, Grown(body, size))
    <3>1. PICK q : q = Grown(body, size)
      OBVIOUS
    <3>2. /\ q.pc = "read" /\ q.line = <<>> /\ q.hdr = <<>>
          /\ q.body = body /\ q.size = size /\ q.pc \in ReadPCs
      BY <1>1, <1>10, <1>11, <3>1, Growing
    <3>3. left # 0 /\ ((size = -1 /\ left = -1) \/ (left = size - Len(body) /\ left > 0))
      <4>1. PICK k : k = Len(body)
        OBVIOUS
      <4>2. /\ k \in Nat /\ left \in Int /\ (size = -1 \/ k < size)
            /\ \/ size = -1 /\ left = -1
               \/ size \in Nat /\ left = size - k /\ left >= 0
        BY <1>7, <2>2, <2>4, <4>1
      <4>3. left # 0 /\ ((size = -1 /\ left = -1) \/ (left = size - k /\ left > 0))
        <5>1. CASE size = -1 /\ left = -1
          BY <5>1
        <5>2. CASE size \in Nat /\ left = size - k /\ left >= 0
          <6>1. k < size
            BY <4>2, <5>2
          <6>2. left > 0
            BY <4>2, <5>2, <6>1
          <6>. QED BY <4>2, <5>2, <6>2
        <5>. QED BY <4>2, <5>1, <5>2
      <4>. QED BY <4>1, <4>3
    <3>4. Place(h, q) = "body"
      BY <1>7, <3>2, <3>3 DEF Place
    <3>5. Heading(F, p + n, h, q)
      <4>1. /\ p + n >= 1 /\ h.code = F[1].n /\ q.body # <<>> /\ q.size = h.length
            /\ \/ h.length = -1 /\ h.bodySize = -1
               \/ h.bodySize = h.length - Len(q.body) /\ h.bodySize > 0
        BY <1>7, <1>10, <2>1, <2>2, <3>2, <3>3
      <4>. QED BY <3>4, <4>1 DEF Heading
    <3>6. ASSUME F[1].n \in 200..299 PROVE Content(F, p + n, h, q)
      <4>1. /\ Plain(F, e) /\ p + n >= e /\ Len(q.body) = (p + n) - e
            /\ IsBody(q.body, F, p + n)
            /\ h.length = IF InHeader(F, e, "length") THEN Len(F) - e ELSE -1
        BY <1>7, <1>14, <1>15, <3>2, <3>6
      <4>2. "body" \notin ChunkPCs
        BY DEF ChunkPCs
      <4>. QED BY <1>3, <3>2, <3>4, <4>1, <4>2 DEF Content
    <3>. QED BY <2>1, <3>1, <3>2, <3>5, <3>6 DEF Track
  <2>. QED BY <2>3, <2>4 DEF Followed
<1>16. ReadGot(h, got)
  BY <1>3, <1>5, <1>6 DEF GotBody
<1>. QED BY <1>1, <1>4, <1>7, <1>8, <1>9, <1>15, <1>16, GotKeeps

\* Bytes of a chunk or of the body are read.
LEMMA ReadBytesKeeps ==
  ASSUME Base, ReadInv, ReadBytes
  PROVE  Inv'
<1>1. call.pc \in BytePCs /\ UNCHANGED <<out, reqs, taint, count>>
  BY DEF ReadBytes
<1>2. PICK got \in Gets(Wanted) : TakeBytes(got) /\ (GotChunk(got) \/ GotBody(got))
  BY DEF ReadBytes
<1>3. Taken(got)
  BY <1>1, <1>2 DEF Taken
<1>. QED BY <1>1, <1>2, <1>3, GotChunkKeeps, GotBodyKeeps

\* The connection gives no more bytes.
LEMMA ReadBytesFailsKeeps ==
  ASSUME Base, ReadInv, NEW r \in {0, ErrIo, ErrTimeout}, ReadBytesFails(r)
  PROVE  Inv'
<1>1. /\ http \in HttpSet /\ call \in CallSet /\ Like(http)
      /\ http.connected /\ Sound(http)
  BY BaseFacts DEF ReadBytesFails, BytePCs
<1>2. call.pc \in BytePCs /\ NothingRead(r) /\ UNCHANGED <<out, reqs, taint, count>>
  BY DEF ReadBytesFails
<1>3. BufferedTypeOK' /\ conn'.full = conn.full
  BY <1>2, Stays
<1>4. Reads
  BY <1>2, <1>3 DEF Reads
<1>5. PICK h : h = IF r < 0 THEN InError(http) ELSE http
  OBVIOUS
<1>6. Like(h) /\ Sound(h) /\ h.code = http.code
  <2>1. /\ Like(InError(http)) /\ Sound(InError(http))
        /\ InError(http).code = http.code
    BY <1>1, ErrorFields
  <2>. QED BY <1>1, <1>5, <2>1
<1>7. r \in Errors \cup {0} /\ r # ErrEof
  BY DEF ErrIo, ErrTimeout, ErrEof, Errors
<1>8. ASSUME r = 0 \/ Ignored(r), Clear
      PROVE  /\ Aligned(conn', readBuffer') /\ conn'.rest # conn'.full
             /\ h.code = conn.full[1].n
             /\ h.code \in 200..299 => Done(conn', readBuffer', call.body)
  <2>1. r \in {0, ErrIo}
    BY <1>8 DEF Ignored
  <2>2. ASSUME conn.full[1].n \in 200..299 PROVE Done(conn', readBuffer', call.body)
    <3>1. CASE call.pc = "body" => Pos(conn, readBuffer) < Len(conn.full)
                                   \/ CutOff(conn, readBuffer, call)
      <4>1. CutOff(conn', readBuffer', call)
        BY <1>2, <1>8, <2>1, <2>2, <3>1, EndCuts
      <4>. QED BY <4>1 DEF CutOff, Done
    <3>2. CASE /\ call.pc = "body" /\ ~(Pos(conn, readBuffer) < Len(conn.full))
               /\ ~CutOff(conn, readBuffer, call)
      <4>1. PICK F, p, l : F = conn.full /\ p = Pos(conn, readBuffer) /\ l = Len(conn.full)
        OBVIOUS
      <4>2. p \in 0..l /\ l \in Nat /\ Content(F, p, http, call)
        BY <1>8, <2>2, <3>2, <4>1, Where, Answer
      <4>3. p = l
        BY <3>2, <4>1, <4>2
      <4>4. IsBody(call.body, F, p)
        BY <3>2, <4>2 DEF Content, Place
      <4>5. readBuffer' = <<>>
        BY <1>2 DEF NothingRead
      <4>. QED BY <1>3, <4>1, <4>3, <4>4, <4>5 DEF Done
    <3>. QED BY <3>1, <3>2
  <2>3. call.pc # "status"
    BY <1>2 DEF BytePCs
  <2>4. /\ Aligned(conn', readBuffer') /\ conn'.rest # conn'.full
        /\ http.code = conn.full[1].n
        /\ http.code \in 200..299 => Done(conn', readBuffer', call.body)
    BY <1>2, <1>8, <2>1, <2>2, <2>3, EndIgnored
  <2>. QED BY <1>6, <2>4
<1>9. ReadFailed(h, r)
  BY <1>5 DEF ReadBytesFails
<1>. QED BY <1>1, <1>4, <1>6, <1>7, <1>8, <1>9, FailedKeeps

-----------------------------------------------------------------------------
(* Sending                                                                 *)

\* Sequences are joined in any order of joining.
LEMMA JoinThree ==
  ASSUME NEW S, NEW a \in Seq(S), NEW b \in Seq(S), NEW c \in Seq(S)
  PROVE  /\ (a \o b) \o c \in Seq(S)
         /\ (a \o b) \o c = a \o (b \o c)
<1>1. PICK x, y : x = a \o b /\ y = b \o c
  OBVIOUS
<1>2. PICK i, j, k : i = Len(a) /\ j = Len(b) /\ k = Len(c)
  OBVIOUS
<1>3. i \in Nat /\ j \in Nat /\ k \in Nat
  BY <1>2
<1>4. /\ x \in Seq(S) /\ Len(x) = i + j
      /\ \A n \in 1..i : x[n] = a[n]
      /\ \A n \in 1..j : x[i + n] = b[n]
  BY <1>1, <1>2, Joined
<1>5. /\ y \in Seq(S) /\ Len(y) = j + k
      /\ \A n \in 1..j : y[n] = b[n]
      /\ \A n \in 1..k : y[j + n] = c[n]
  BY <1>1, <1>2, Joined
<1>6. /\ x \o c \in Seq(S) /\ Len(x \o c) = (i + j) + k
      /\ \A n \in 1..(i + j) : (x \o c)[n] = x[n]
      /\ \A n \in 1..k : (x \o c)[(i + j) + n] = c[n]
  <2>1. /\ x \o c \in Seq(S) /\ Len(x \o c) = Len(x) + Len(c)
        /\ \A n \in 1..Len(x) : (x \o c)[n] = x[n]
        /\ \A n \in 1..Len(c) : (x \o c)[Len(x) + n] = c[n]
    <3>1. x \in Seq(S) /\ c \in Seq(S)
      BY <1>4
    <3>. QED BY <3>1, Joined
  <2>2. PICK z : z = x \o c
    OBVIOUS
  <2>. QED BY <1>2, <1>4, <2>1, <2>2
<1>7. /\ a \o y \in Seq(S) /\ Len(a \o y) = i + (j + k)
      /\ \A n \in 1..i : (a \o y)[n] = a[n]
      /\ \A n \in 1..(j + k) : (a \o y)[i + n] = y[n]
  <2>1. /\ a \o y \in Seq(S) /\ Len(a \o y) = Len(a) + Len(y)
        /\ \A n \in 1..Len(a) : (a \o y)[n] = a[n]
        /\ \A n \in 1..Len(y) : (a \o y)[Len(a) + n] = y[n]
    <3>1. y \in Seq(S) /\ a \in Seq(S)
      BY <1>5
    <3>. QED BY <3>1, Joined
  <2>2. PICK z : z = a \o y
    OBVIOUS
  <2>. QED BY <1>2, <1>5, <2>1, <2>2
<1>8. PICK s, t : s = x \o c /\ t = a \o y
  OBVIOUS
<1>9. ASSUME NEW n \in 1..((i + j) + k) PROVE s[n] = t[n]
  <2>1. CASE n \in 1..i
    <3>1. n \in 1..(i + j)
      BY <1>3, <2>1
    <3>. QED BY <1>4, <1>6, <1>7, <1>8, <2>1, <3>1
  <2>2. CASE n - i \in 1..j
    <3>1. PICK m \in 1..j : n = i + m
      <4>1. n = i + (n - i)
        BY <1>3
      <4>. QED BY <2>2, <4>1
    <3>2. i + m \in 1..(i + j) /\ m \in 1..(j + k)
      BY <1>3
    <3>3. s[n] = b[m]
      BY <1>4, <1>6, <1>8, <3>1, <3>2
    <3>4. t[n] = b[m]
      BY <1>5, <1>7, <1>8, <3>1, <3>2
    <3>. QED BY <3>3, <3>4
  <2>3. CASE n - (i + j) \in 1..k
    <3>1. PICK m \in 1..k : n = (i + j) + m
      <4>1. n = (i + j) + (n - (i + j))
        BY <1>3
      <4>. QED BY <2>3, <4>1
    <3>2. j + m \in 1..(j + k) /\ n = i + (j + m)
      BY <1>3, <3>1
    <3>3. s[n] = c[m]
      BY <1>6, <1>8, <3>1
    <3>4. t[n] = c[m]
      BY <1>5, <1>7, <1>8, <3>2
    <3>. QED BY <3>3, <3>4
  <2>4. n \in 1..i \/ n - i \in 1..j \/ n - (i + j) \in 1..k
    BY <1>3
  <2>. QED BY <2>1, <2>2, <2>3, <2>4
<1>10. Len(s) = (i + j) + k /\ Len(t) = (i + j) + k
  BY <1>3, <1>6, <1>7, <1>8
<1>11. s \in Seq(S) /\ t \in Seq(S) /\ \A n \in 1..Len(s) : s[n] = t[n]
  BY <1>6, <1>7, <1>8, <1>9, <1>10
<1>12. s = t
  BY <1>10, <1>11, SameSeq
<1>. QED BY <1>1, <1>8, <1>11, <1>12

\* The beginning of a sequence.
LEMMA Prefix ==
  ASSUME NEW S, NEW a \in Seq(S), NEW b \in Seq(S)
  PROVE  IsPrefix(a, a \o b)
<1>1. PICK s, n, m : s = a \o b /\ n = Len(a) /\ m = Len(b)
  OBVIOUS
<1>2. /\ s \in Seq(S) /\ Len(s) = n + m /\ n \in Nat /\ m \in Nat
      /\ \A i \in 1..n : s[i] = a[i]
  BY <1>1, Joined
<1>3. n \in 0..Len(a) /\ n \in 0..Len(s) /\ n <= Len(s)
  BY <1>1, <1>2
<1>4. /\ SubSeq(a, 1, n) \in Seq(S) /\ Len(SubSeq(a, 1, n)) = n
      /\ \A i \in 1..n : SubSeq(a, 1, n)[i] = a[i]
  BY <1>3, Parts
<1>5. /\ SubSeq(s, 1, n) \in Seq(S) /\ Len(SubSeq(s, 1, n)) = n
      /\ \A i \in 1..n : SubSeq(s, 1, n)[i] = s[i]
  BY <1>2, <1>3, Parts
<1>6. SubSeq(a, 1, n) = SubSeq(s, 1, n)
  BY <1>2, <1>4, <1>5, SameSeq
<1>. QED BY <1>1, <1>3, <1>6 DEF IsPrefix

\* The units of a part of a request.
LEMMA UnitsOf ==
  ASSUME NEW part \in WritePCs, NEW n \in {0, PartLen}
  PROVE  Units(part, n) \in Seq(Unit) /\ (n = 0 => Units(part, n) = <<>>)
<1>1. n \in Nat /\ PartLen \in Nat /\ n <= PartLen
  BY HttpAssumption
<1>2. \A i \in 1..n : <<part, i>> \in Unit
  BY <1>1 DEF Unit
<1>3. Units(part, n) = [i \in 1..n |-> <<part, i>>]
  BY DEF Units
<1>4. Units(part, n) \in Seq(Unit)
  BY <1>1, <1>2, <1>3
<1>5. ASSUME n = 0 PROVE Units(part, n) = <<>>
  <2>1. Len(Units(part, n)) = 0
    BY <1>3, <1>5
  <2>. QED BY <1>4, <2>1
<1>. QED BY <1>4, <1>5

\* What a call that sends leaves alone, and how it ends.
Sends ==
  UNCHANGED <<conn, readBuffer, taint, count>>
Alike(h) ==
  /\ h \in HttpSet /\ h.readMode = http.readMode /\ h.chunkSize = http.chunkSize
  /\ h.bodySize = http.bodySize /\ (h.connected => http.connected)

\* The call goes on or returns: nothing has been read by it.
LEMMA SendKeeps ==
  ASSUME Inv, call.pc \in SendPCs, Sends, Alike(http'),
         \/ call' = NoCall /\ http'.writeMode # "Body" /\ res' \in ResSet
            /\ res'.op = "send" /\ res'.file = FALSE
            /\ (http'.connected /\ http'.writeMode = "Idle" => out' = reqs')
         \/ call' \in CallSet /\ call'.pc \in WritePCs /\ call'.op = "send"
            /\ call'.size \in {0, PartLen} /\ http'.connected /\ res' = res
            /\ reqs' = (out' \o call'.todo) \o After' /\ http'.writeMode # "Error",
         out' \in Seq(Unit), reqs' \in Seq(Unit), IsPrefix(out', reqs'),
         call' = NoCall /\ res'.rv = 0 => out' = reqs'
  PROVE  Inv'
<1>1. /\ call.pc \notin ReadPCs \cup {"idle", "dead", "trail"}
      /\ res = NoRes
  <2>1. call.pc \notin ReadPCs \cup {"idle", "dead", "trail"}
    BY DEF SendPCs, WritePCs, ReadPCs, LinePCs, BytePCs
  <2>. QED BY <2>1 DEF Inv, ShapeInv
<1>2. NoCall \in CallSet /\ NoCall.pc = "idle"
  BY DEF NoCall, CallSet, PCs
<1>3. call' \in CallSet /\ call'.pc \in {"idle"} \cup WritePCs
  BY <1>2
<1>4. call'.pc \notin ReadPCs \cup {"dead", "trail", "write"}
  BY <1>3 DEF WritePCs, ReadPCs, LinePCs, BytePCs
<1>5. res' \in ResSet
  BY DEF Inv, TypeOK, ResSet
<1>6. TypeOK'
  <2>1. BufferedTypeOK'
    BY DEF Inv, TypeOK, Sends, BufferedTypeOK
  <2>. QED BY <1>3, <1>5, <2>1 DEF Inv, TypeOK, Sends, Alike, HttpSet, CallSet, ResSet
<1>7. ShapeInv'
  <2>1. call'.pc \in SendPCs =>
          call'.op = "send" /\ call'.size \in {0, PartLen} /\ http'.connected
    BY <1>2 DEF SendPCs, WritePCs
  <2>2. call'.pc # "idle" => res' = NoRes
    BY <1>1, <1>2
  <2>3. call'.pc \notin LinePCs \cup BytePCs
    BY <1>4 DEF ReadPCs
  <2>4. /\ http'.readMode = "Chunk" => http'.chunkSize > 0
        /\ http'.readMode = "Body" => http'.bodySize # 0
    BY <1>1 DEF Inv, ShapeInv, Alike
  <2>5. call'.pc # "status"
    BY <2>3 DEF LinePCs
  <2>. QED BY <1>4, <2>1, <2>2, <2>3, <2>4, <2>5 DEF ShapeInv
<1>8. SendInv'
  <2>1. RequestWhole'
    <3>1. CASE call' = NoCall
      BY <3>1 DEF RequestWhole
    <3>2. CASE call' # NoCall
      <4>1. res'.op = "none"
        BY <1>1, <3>2 DEF NoRes
      <4>. QED BY <4>1 DEF RequestWhole
    <3>. QED BY <3>1, <3>2
  <2>2. "idle" \notin WritePCs
    BY DEF WritePCs
  <2>. QED BY <1>2, <2>1, <2>2 DEF SendInv
<1>9. ServedInv'
  BY DEF Inv, ServedInv, Sends, Alike
<1>10. ReadInv'
  <2>1. SUFFICES ASSUME taint' = {}, http'.connected
                 PROVE  Track(conn', readBuffer', http', call')
    BY DEF ReadInv
  <2>2. Track(conn, readBuffer, http, call)
    BY <1>1, <2>1 DEF Inv, ReadInv, Sends, Alike
  <2>. QED BY <1>1, <1>4, <2>2 DEF Track, Sends, Alike
<1>11. ResultInv'
  <2>1. res'.op \notin RecvOps /\ res'.file = FALSE
    <3>1. NoRes.op = "none" /\ NoRes.file = FALSE
      BY DEF NoRes
    <3>. QED BY <1>1, <3>1 DEF RecvOps
  <2>. QED BY <2>1 DEF ResultInv, Delivered, StatusOwn, BufferClean, Ok
<1>. QED BY <1>6, <1>7, <1>8, <1>9, <1>10, <1>11 DEF Inv

\* The call fails and closes the connection.
LEMMA SendFails ==
  ASSUME Inv, call.pc \in SendPCs, Sends, UNCHANGED <<out, reqs>>,
         NEW h, Alike(h), h.writeMode = "Error", NEW rv \in Errors,
         Ends(h, rv, <<>>, FALSE)
  PROVE  Inv'
<1>1. call.op = "send" /\ IsPrefix(out, reqs) /\ out \in Seq(Unit) /\ reqs \in Seq(Unit)
  BY DEF Inv, ShapeInv, SendInv, RequestWhole, TypeOK
<1>2. PICK g : g = Disconnected(h)
  OBVIOUS
<1>3. Alike(g) /\ g.writeMode = "Error" /\ ~g.connected
  BY <1>2 DEF Alike, HttpSet, Disconnected
<1>4. PICK x : x = [op |-> call.op, rv |-> rv, body |-> <<>>, file |-> FALSE]
  OBVIOUS
<1>5. x \in ResSet /\ x.op = "send" /\ x.file = FALSE /\ x.rv # 0
  BY <1>1, <1>4 DEF ResSet, Errors
<1>6. http' = g /\ call' = NoCall /\ res' = x
  BY <1>2, <1>4 DEF Ends
<1>. QED BY <1>1, <1>3, <1>5, <1>6, SendKeeps

\* What SendInv says of a call that sends.
LEMMA SendFacts ==
  ASSUME Inv, call.pc \in SendPCs
  PROVE  /\ http \in HttpSet /\ call \in CallSet /\ call.todo \in Seq(Unit)
         /\ out \in Seq(Unit) /\ reqs \in Seq(Unit) /\ IsPrefix(out, reqs)
         /\ call.op = "send" /\ call.size \in {0, PartLen} /\ http.connected
         /\ call.pc \in WritePCs =>
              reqs = (out \o call.todo) \o After /\ http.writeMode # "Error"
         /\ call.pc = "write" /\ http.writeMode = "Idle" => out = reqs
<1>1. "write" \notin WritePCs
  BY DEF WritePCs
<1>2. /\ http \in HttpSet /\ call \in CallSet /\ out \in Seq(Unit) /\ reqs \in Seq(Unit)
  BY DEF Inv, TypeOK, HttpSet, CallSet
<1>3. call.op = "send" /\ call.size \in {0, PartLen} /\ http.connected
  BY DEF Inv, ShapeInv
<1>4. /\ IsPrefix(out, reqs)
      /\ call.pc \in WritePCs =>
           reqs = (out \o call.todo) \o After /\ http.writeMode # "Error"
      /\ call.pc = "write" /\ http.writeMode = "Idle" => out = reqs
  BY <1>1, <1>3 DEF Inv, SendInv, RequestWhole
<1>. QED BY <1>2, <1>3, <1>4 DEF CallSet

\* The call writes units x next, those of part l.
Writing(l, x) == [call EXCEPT !.pc = l, !.todo = x]

\* The rest of the call is left alone by this.
LEMMA NextPart ==
  ASSUME call \in CallSet, NEW l \in WritePCs, NEW x \in Seq(Unit),
         NEW q, q = Writing(l, x)
  PROVE  q \in CallSet /\ q.pc = l /\ q.op = call.op /\ q.size = call.size /\ q.todo = x
<1>1. l \in PCs
  BY DEF PCs
<1>. QED BY <1>1 DEF Writing, CallSet

\* GWEN_SyncIo_Http_Write begins.
LEMMA WriteBeginsKeeps ==
  ASSUME Inv, WriteBegins
  PROVE  Inv'
<1>1. call.pc = "write" /\ call.pc \in SendPCs /\ Sends /\ out' = out
  BY DEF WriteBegins, SendPCs, Sends
<1>2. /\ http \in HttpSet /\ call \in CallSet /\ out \in Seq(Unit) /\ reqs \in Seq(Unit)
      /\ call.op = "send" /\ call.size \in {0, PartLen} /\ http.connected
      /\ http.writeMode = "Idle" => out = reqs
  BY <1>1, SendFacts
<1>3. Alike(http)
  BY <1>2 DEF Alike
<1>4. CASE /\ http.writeMode = "Error"
           /\ Ends(http, ErrGeneric, <<>>, FALSE)
           /\ UNCHANGED reqs
  <2>1. ErrGeneric \in Errors
    BY DEF ErrGeneric, Errors
  <2>. QED BY <1>1, <1>3, <1>4, <2>1, SendFails
<1>5. CASE /\ http.writeMode = "Idle"
           /\ call' = [call EXCEPT !.pc = "command",
                                   !.todo = Units("command", PartLen)]
           /\ reqs' = reqs \o Request(call.size)
           /\ UNCHANGED <<http, res>>
  <2>1. PICK a, b, c : /\ a = Units("command", PartLen)
                       /\ b = Units("headerOut", PartLen)
                       /\ c = Units("bodyOut", call.size)
    OBVIOUS
  <2>2. a \in Seq(Unit) /\ b \in Seq(Unit) /\ c \in Seq(Unit)
    <3>1. {"command", "headerOut", "bodyOut"} \subseteq WritePCs
      BY DEF WritePCs
    <3>. QED BY <1>2, <2>1, <3>1, UnitsOf
  <2>3. call' \in CallSet /\ call'.pc = "command" /\ call'.op = call.op
        /\ call'.size = call.size /\ call'.todo = a /\ "command" \in WritePCs
    <3>1. PICK q : q = Writing("command", a)
      OBVIOUS
    <3>2. "command" \in WritePCs
      BY DEF WritePCs
    <3>3. call' = q
      BY <1>5, <2>1, <3>1 DEF Writing
    <3>4. /\ q \in CallSet /\ q.pc = "command" /\ q.op = call.op
          /\ q.size = call.size /\ q.todo = a
      BY <1>2, <2>2, <3>1, <3>2, NextPart
    <3>. QED BY <3>2, <3>3, <3>4
  <2>4. After' = b \o c
    BY <2>1, <2>3 DEF After
  <2>5. reqs' = out \o ((a \o b) \o c)
    BY <1>2, <1>5, <2>1 DEF Request
  <2>6. (a \o b) \o c \in Seq(Unit) /\ (a \o b) \o c = a \o (b \o c)
    BY <2>2, JoinThree
  <2>7. b \o c \in Seq(Unit)
    BY <2>2, Joined
  <2>8. (out \o a) \o (b \o c) = out \o (a \o (b \o c))
    <3>1. PICK d : d = b \o c
      OBVIOUS
    <3>2. d \in Seq(Unit)
      BY <2>7, <3>1
    <3>3. out \in Seq(Unit) /\ a \in Seq(Unit)
      BY <1>2, <2>2
    <3>4. (out \o a) \o d = out \o (a \o d)
      BY ONLY <3>2, <3>3, JoinThree
    <3>. QED BY <3>1, <3>4
  <2>9. reqs' = (out' \o call'.todo) \o After'
    BY <1>1, <2>3, <2>4, <2>5, <2>6, <2>8
  <2>10. reqs' \in Seq(Unit) /\ IsPrefix(out', reqs')
    <3>1. PICK d : d = (a \o b) \o c
      OBVIOUS
    <3>2. d \in Seq(Unit) /\ reqs' = out \o d
      BY <2>5, <2>6, <3>1
    <3>3. out \o d \in Seq(Unit) /\ IsPrefix(out, out \o d)
      BY <1>2, <3>2, Joined, Prefix
    <3>. QED BY <1>1, <3>2, <3>3
  <2>11. call' # NoCall
    <3>1. NoCall.pc # "command"
      BY DEF NoCall
    <3>. QED BY <2>3, <3>1
  <2>12. http' = http /\ res' = res
    BY <1>5
  <2>13. Alike(http') /\ http'.connected /\ http'.writeMode # "Error"
    BY <1>2, <1>3, <1>5, <2>12
  <2>. QED BY <1>1, <1>2, <2>3, <2>9, <2>10, <2>11, <2>12, <2>13, SendKeeps
<1>. QED BY <1>4, <1>5 DEF WriteBegins

\* A write of the connection fails.
LEMMA WriteFailsKeeps ==
  ASSUME Inv, WriteFails
  PROVE  Inv'
<1>1. call.pc \in SendPCs /\ Sends /\ UNCHANGED <<out, reqs>>
  BY DEF WriteFails, SendPCs, Sends
<1>2. http \in HttpSet
  BY <1>1, SendFacts
<1>3. PICK h : h = [http EXCEPT !.writeMode = "Error"]
  OBVIOUS
<1>4. Alike(h) /\ h.writeMode = "Error"
  BY <1>2, <1>3 DEF Alike, HttpSet
<1>5. Ends(h, ErrIo, <<>>, FALSE)
  BY <1>3 DEF WriteFails
<1>6. ErrIo \in Errors
  BY DEF ErrIo, Errors
<1>. QED BY <1>1, <1>4, <1>5, <1>6, SendFails

\* The call goes on with units x of part l, and what follows them.
LEMMA WritesOn ==
  ASSUME Inv, call.pc \in SendPCs, Sends, UNCHANGED <<reqs, res>>, Alike(http'),
         http'.connected, http'.writeMode # "Error", out' \in Seq(Unit),
         NEW l \in WritePCs, NEW x \in Seq(Unit), call' = Writing(l, x),
         NEW rest \in Seq(Unit), After' = rest,
         reqs = (out' \o x) \o rest
  PROVE  Inv'
<1>1. /\ call \in CallSet /\ reqs \in Seq(Unit)
      /\ call.op = "send" /\ call.size \in {0, PartLen}
  BY SendFacts
<1>2. PICK q : q = Writing(l, x)
  OBVIOUS
<1>3. q \in CallSet /\ q.pc = l /\ q.op = call.op /\ q.size = call.size /\ q.todo = x
  BY <1>1, <1>2, NextPart
<1>4. IsPrefix(out', reqs)
  <2>1. PICK y : y = x \o rest
    OBVIOUS
  <2>2. y \in Seq(Unit) /\ (out' \o x) \o rest = out' \o y
    BY <2>1, Joined, JoinThree
  <2>. QED BY <2>2, Prefix
<1>5. call' # NoCall
  <2>1. NoCall.pc \notin WritePCs
    BY DEF NoCall, WritePCs
  <2>. QED BY <1>2, <1>3, <2>1
<1>6. call' = q /\ reqs' = (out' \o call'.todo) \o After'
  BY <1>2, <1>3
<1>. QED BY <1>1, <1>3, <1>4, <1>5, <1>6, SendKeeps

\* GWEN_SyncIo_WriteForced writes n units.
LEMMA WriteKeeps ==
  ASSUME Inv, NEW n \in 1..PartLen, Write(n)
  PROVE  Inv'
<1>1. /\ call.pc \in WritePCs /\ call.pc \in SendPCs /\ Sends /\ reqs' = reqs
      /\ n \in 1..Len(call.todo) /\ out' = out \o SubSeq(call.todo, 1, n)
      /\ \/ Left(n) = <<>> /\ PartWritten
         \/ /\ Left(n) # <<>>
            /\ call' = [call EXCEPT !.todo = Left(n)]
            /\ UNCHANGED <<http, res>>
  BY DEF Write, SendPCs, Sends
<1>2. /\ http \in HttpSet /\ call \in CallSet /\ out \in Seq(Unit) /\ reqs \in Seq(Unit)
      /\ call.todo \in Seq(Unit)
      /\ call.op = "send" /\ call.size \in {0, PartLen} /\ http.connected
      /\ reqs = (out \o call.todo) \o After /\ http.writeMode # "Error"
  BY <1>1, SendFacts
<1>3. PICK todo, a, b, rest : /\ todo = call.todo /\ a = SubSeq(call.todo, 1, n)
                              /\ b = Left(n) /\ rest = After
  OBVIOUS
<1>4. /\ a \in Seq(Unit) /\ b \in Seq(Unit) /\ a \o b = todo /\ todo \in Seq(Unit)
  <2>1. todo \in Seq(Unit) /\ n \in 0..Len(todo)
    <3>1. PICK l : l = Len(todo)
      OBVIOUS
    <3>2. todo \in Seq(Unit) /\ l \in Nat /\ n \in 1..l
      BY <1>1, <1>2, <1>3, <3>1
    <3>3. n \in 0..l
      BY <3>2
    <3>. QED BY <3>1, <3>2, <3>3
  <2>2. a = SubSeq(todo, 1, n) /\ b = SubSeq(todo, n + 1, Len(todo))
    BY <1>3 DEF Left
  <2>. QED BY <2>1, <2>2, Parts, Uncut
<1>5. PICK h, c : h = Units("headerOut", PartLen) /\ c = Units("bodyOut", call.size)
  OBVIOUS
<1>6. /\ h \in Seq(Unit) /\ c \in Seq(Unit) /\ (call.size = 0 => c = <<>>)
      /\ "headerOut" \in WritePCs /\ "bodyOut" \in WritePCs
  <2>1. "headerOut" \in WritePCs /\ "bodyOut" \in WritePCs
    BY DEF WritePCs
  <2>. QED BY <1>2, <1>5, <2>1, UnitsOf
<1>7. /\ call.pc = "command" => rest = h \o c
      /\ call.pc = "headerOut" => rest = c
      /\ call.pc = "bodyOut" => rest = <<>>
  BY <1>3, <1>5 DEF After
<1>8. rest \in Seq(Unit)
  <2>1. h \o c \in Seq(Unit)
    BY <1>6, Joined
  <2>2. <<>> \in Seq(Unit)
    OBVIOUS
  <2>3. rest = h \o c \/ rest = c \/ rest = <<>>
    BY <1>1, <1>7 DEF WritePCs
  <2>. QED BY <1>6, <2>1, <2>2, <2>3
<1>9. out' \in Seq(Unit) /\ reqs = (out' \o b) \o rest /\ out' = out \o a
  <2>1. out' = out \o a
    BY <1>1, <1>3
  <2>2. out \o a \in Seq(Unit)
    BY <1>2, <1>4, Joined
  <2>3. (out \o a) \o b = out \o todo
    <3>1. out \in Seq(Unit) /\ a \in Seq(Unit) /\ b \in Seq(Unit)
      BY <1>2, <1>4
    <3>2. (out \o a) \o b = out \o (a \o b)
      BY <3>1, JoinThree
    <3>. QED BY <1>4, <3>2
  <2>. QED BY <1>2, <1>3, <2>1, <2>2, <2>3
<1>10. Alike(http)
  BY <1>2 DEF Alike
<1>11. CASE /\ Left(n) # <<>> /\ call' = [call EXCEPT !.todo = Left(n)]
            /\ UNCHANGED <<http, res>>
  <2>1. PICK l : l = call.pc
    OBVIOUS
  <2>2. call' = Writing(l, b)
    BY <1>2, <1>3, <1>11, <2>1 DEF Writing, CallSet
  <2>3. After' = rest
    <3>1. call'.pc = call.pc /\ call'.size = call.size
      BY <1>2, <1>11 DEF CallSet
    <3>. QED BY <1>3, <3>1 DEF After
  <2>4. http' = http /\ res' = res
    BY <1>11
  <2>5. Alike(http') /\ http'.connected /\ http'.writeMode # "Error"
    BY <1>2, <1>10, <2>4 DEF Alike
  <2>. QED BY <1>1, <1>4, <1>8, <1>9, <2>1, <2>2, <2>3, <2>4, <2>5, WritesOn
<1>12. ASSUME Left(n) = <<>> PROVE reqs = out' \o rest
  <2>1. b = <<>>
    BY <1>3, <1>12
  <2>2. out' \o <<>> = out'
    BY <1>9, JoinEmpty
  <2>. QED BY <1>9, <2>1, <2>2
<1>13. CASE /\ Left(n) = <<>> /\ call.pc = "command"
            /\ call' = [call EXCEPT !.pc = "headerOut",
                                    !.todo = Units("headerOut", PartLen)]
            /\ http' = [http EXCEPT !.writeMode = "Body"]
            /\ UNCHANGED res
  <2>1. call' = Writing("headerOut", h)
    BY <1>5, <1>13 DEF Writing
  <2>2. After' = c
    <3>1. call'.pc = "headerOut" /\ call'.size = call.size
      BY <1>2, <1>13 DEF CallSet
    <3>. QED BY <1>5, <3>1 DEF After
  <2>3. reqs = (out' \o h) \o c
    <3>1. reqs = out' \o (h \o c)
      BY <1>7, <1>12, <1>13
    <3>2. out' \in Seq(Unit) /\ h \in Seq(Unit) /\ c \in Seq(Unit)
      BY <1>6, <1>9
    <3>3. (out' \o h) \o c = out' \o (h \o c)
      BY <3>2, JoinThree
    <3>. QED BY <3>1, <3>3
  <2>4. Alike(http') /\ http'.connected /\ http'.writeMode # "Error"
    BY <1>2, <1>13 DEF Alike, HttpSet
  <2>. QED BY <1>1, <1>6, <1>9, <1>13, <2>1, <2>2, <2>3, <2>4, WritesOn
<1>14. CASE /\ Left(n) = <<>> /\ call.pc = "headerOut" /\ call.size > 0
            /\ call' = [call EXCEPT !.pc = "bodyOut",
                                    !.todo = Units("bodyOut", call.size)]
            /\ UNCHANGED <<http, res>>
  <2>1. call' = Writing("bodyOut", c)
    BY <1>5, <1>14 DEF Writing
  <2>2. After' = <<>> /\ <<>> \in Seq(Unit)
    <3>1. call'.pc = "bodyOut"
      BY <1>2, <1>14 DEF CallSet
    <3>. QED BY <3>1 DEF After
  <2>3. reqs = (out' \o c) \o <<>>
    <3>1. reqs = out' \o c /\ out' \o c \in Seq(Unit)
      BY <1>6, <1>7, <1>9, <1>12, <1>14, Joined
    <3>. QED BY <3>1, JoinEmpty
  <2>4. http' = http /\ res' = res
    BY <1>14
  <2>5. Alike(http') /\ http'.connected /\ http'.writeMode # "Error"
    BY <1>2, <1>10, <2>4 DEF Alike
  <2>. QED BY <1>1, <1>6, <1>9, <2>1, <2>2, <2>3, <2>4, <2>5, WritesOn
<1>15. CASE /\ Left(n) = <<>>
            /\ call.pc = "bodyOut" \/ call.size = 0
            /\ call.pc # "command"
            /\ http' = [http EXCEPT !.writeMode = "Idle"]
            /\ call' = NoCall
            /\ res' = [NoRes EXCEPT !.op = "send"]
  <2>1. rest = <<>>
    BY <1>1, <1>6, <1>7, <1>15 DEF WritePCs
  <2>2. reqs = out'
    <3>1. out' \o <<>> = out'
      BY <1>9, JoinEmpty
    <3>. QED BY <1>12, <1>15, <2>1, <3>1
  <2>3. Alike(http') /\ http'.writeMode # "Body"
    BY <1>2, <1>15 DEF Alike, HttpSet
  <2>4. res' \in ResSet /\ res'.op = "send" /\ res'.file = FALSE
    <3>1. NoRes \in ResSet /\ NoRes.file = FALSE
      BY DEF NoRes, ResSet
    <3>. QED BY <1>15, <3>1 DEF ResSet
  <2>5. IsPrefix(out', reqs')
    BY <1>1, <1>9, <2>2 DEF IsPrefix
  <2>. QED BY <1>1, <1>2, <1>9, <1>15, <2>2, <2>3, <2>4, <2>5, SendKeeps
<1>. QED BY <1>1, <1>11, <1>13, <1>14, <1>15 DEF PartWritten

-----------------------------------------------------------------------------
(* The calls begin, and what is done between them                          *)

\* The connection and the stream as they are between two calls.
Between ==
  /\ BufferedTypeOK /\ http \in HttpSet
  /\ http.readMode = "Chunk" => http.chunkSize > 0
  /\ http.readMode = "Body" => http.bodySize # 0
  /\ http.writeMode # "Body"
  /\ http.connected /\ http.writeMode = "Idle" => out = reqs
  /\ out \in Seq(Unit) /\ reqs \in Seq(Unit) /\ IsPrefix(out, reqs)
  /\ count \in 0..MaxReq /\ taint \subseteq {"leftover", "reused"}
  /\ ServedInv

\* The call before has a result; nothing else has been said of it.
Silent ==
  /\ res \in ResSet /\ ~res.file
  /\ res.op \in RecvOps => res.rv < 0
  /\ res.op = "send" => res.rv # 0

\* A call that begins.
Beginning ==
  /\ call \in CallSet
  /\ \/ call.pc = "idle"
     \/ call.pc = "write" /\ call.op = "send" /\ call.size \in {0, PartLen}
        /\ http.connected /\ res = NoRes
     \/ call.pc = "read" /\ call.op \in RecvOps /\ res = NoRes

\* Between two calls the invariant says little.
LEMMA IdleFacts ==
  ASSUME Inv, Idle
  PROVE  /\ Between /\ call \in CallSet /\ call.pc = "idle"
         /\ Clear => /\ Aligned(conn, readBuffer)
                     /\ (conn.rest = conn.full =>
                           readBuffer = <<>> /\ http.readMode = "Idle")
<1>1. call.pc = "idle"
  BY DEF Idle
<1>2. call.pc # "trail" /\ call.pc \notin WritePCs /\ call.pc \notin ReadPCs
      /\ call.pc # "dead"
  BY <1>1 DEF WritePCs, ReadPCs, LinePCs, BytePCs
<1>3. /\ http \in HttpSet /\ call \in CallSet /\ out \in Seq(Unit) /\ reqs \in Seq(Unit)
      /\ BufferedTypeOK /\ count \in 0..MaxReq /\ taint \subseteq {"leftover", "reused"}
  BY DEF Inv, TypeOK, HttpSet, CallSet
<1>4. /\ http.readMode = "Chunk" => http.chunkSize > 0
      /\ http.readMode = "Body" => http.bodySize # 0
  BY <1>2 DEF Inv, ShapeInv
<1>5. /\ http.writeMode # "Body"
      /\ http.connected /\ http.writeMode = "Idle" => out = reqs
      /\ IsPrefix(out, reqs)
  BY <1>2 DEF Inv, SendInv, RequestWhole
<1>6. Between
  BY <1>3, <1>4, <1>5 DEF Between, Inv
<1>7. ASSUME Clear
      PROVE  /\ Aligned(conn, readBuffer)
             /\ (conn.rest = conn.full =>
                   readBuffer = <<>> /\ http.readMode = "Idle")
  BY <1>2, <1>7 DEF Clear, Inv, ReadInv, Track
<1>. QED BY <1>1, <1>3, <1>6, <1>7

\* A call begins, or none does.
LEMMA BeginKeeps ==
  ASSUME Between', Silent', Beginning',
         Clear' => Track(conn', readBuffer', http', call')
  PROVE  Inv'
<1>1. /\ call'.pc \in {"idle", "write", "read"} /\ call'.pc # "trail"
      /\ call'.pc # "dead" /\ call'.pc \notin WritePCs
      /\ call'.pc \notin LinePCs \cup BytePCs
      /\ (call'.pc \in ReadPCs => call'.pc = "read")
      /\ (call'.pc \in SendPCs => call'.pc = "write")
  BY DEF Beginning, WritePCs, ReadPCs, SendPCs, LinePCs, BytePCs
<1>2. TypeOK'
  BY DEF Between, Silent, Beginning, TypeOK, HttpSet, CallSet, ResSet
<1>3. ShapeInv'
  BY <1>1 DEF ShapeInv, Between, Beginning
<1>4. SendInv'
  <2>1. RequestWhole'
    BY DEF Between, Silent, RequestWhole
  <2>. QED BY <1>1, <2>1 DEF Between, SendInv
<1>5. ServedInv'
  BY DEF Between
<1>6. ReadInv'
  BY DEF ReadInv, Clear
<1>7. ResultInv'
  <2>1. ~Ok' /\ (res'.op \in RecvOps => ~(res'.rv > 0)) /\ ~res'.file
    <3>1. res'.rv \in Errors \cup Nat
      BY DEF Silent, ResSet
    <3>. QED BY <3>1 DEF Silent, Ok, Errors
  <2>. QED BY <2>1 DEF ResultInv, Delivered, StatusOwn, BufferClean
<1>. QED BY <1>2, <1>3, <1>4, <1>5, <1>6, <1>7 DEF Inv

\* The results of the calls that end without having read or written.
LEMMA SilentResults ==
  /\ NoRes \in ResSet /\ NoRes.op = "none" /\ ~NoRes.file
  /\ \A op \in {"send", "test"} :
       [NoRes EXCEPT !.op = op, !.rv = ErrIo] \in ResSet
  /\ [NoRes EXCEPT !.op = "test"] \in ResSet
  /\ [NoRes EXCEPT !.op = "recvFile", !.rv = ErrFile] \in ResSet
<1>1. NoRes \in ResSet /\ NoRes.op = "none" /\ ~NoRes.file
  BY DEF NoRes, ResSet
<1>2. ErrIo \in Errors /\ ErrFile \in Errors
  BY DEF ErrIo, ErrFile, Errors
<1>. QED BY <1>1, <1>2 DEF ResSet, RecvOps

\* A new connection has a whole answer in front of it.
LEMMA ConnectReads ==
  ASSUME BufferedTypeOK, BaseConnect, readBuffer' = readBuffer
  PROVE  /\ BufferedTypeOK'
         /\ conn'.full # <<>> /\ WellFormed(conn'.full) /\ conn'.rest = conn'.full
<1>0. PICK r \in Responses :
        conn' = [no |-> conn.no + 1, tls |-> conn.tls,
                 full |-> Tagged(r, conn.no + 1),
                 rest |-> Tagged(r, conn.no + 1), end |-> "open"]
  BY DEF BaseConnect
<1>1. PICK f :
        /\ f = Tagged(r, conn.no + 1)
        /\ conn' = [no |-> conn.no + 1, tls |-> conn.tls, full |-> f,
                    rest |-> f, end |-> "open"]
  BY <1>0
<1>2. conn.no \in 0..MaxConn /\ conn.no < MaxConn /\ MaxConn \in Nat
  BY BufferedIoAssumption DEF BaseConnect, BufferedTypeOK, Connection
<1>3. conn.no + 1 \in 1..MaxConn /\ conn.no + 1 \in 0..MaxConn
  BY <1>2
<1>4. f \in Seq(Token) /\ f # <<>> /\ WellFormed(f)
  <2>1. PICK c \in 1..MaxConn : c = conn.no + 1
    BY <1>3
  <2>. QED BY <1>1, <2>1, TaggedTokens, ServedForm
<1>5. BufferedTypeOK'
  BY <1>1, <1>3, <1>4 DEF BufferedTypeOK, Connection
<1>. QED BY <1>1, <1>4, <1>5

\* Nothing is before a whole answer that nothing has been read of.
LEMMA WholeAhead ==
  ASSUME NEW c, c.full \in Seq(Token), c.rest = c.full
  PROVE  Aligned(c, <<>>) /\ Pos(c, <<>>) = 0
<1>1. PICK f : f = c.full
  OBVIOUS
<1>2. f \in Seq(Token)
  BY <1>1
<1>3. Ahead(c, <<>>) = f
  <2>1. Ahead(c, <<>>) = <<>> \o f
    BY <1>1 DEF Ahead
  <2>. QED BY <1>2, <2>1, JoinEmpty
<1>4. PICK l : l = Len(f)
  OBVIOUS
<1>5. l \in Nat /\ l - l = 0
  BY <1>2, <1>4
<1>6. Pos(c, <<>>) = 0
  BY <1>1, <1>3, <1>4, <1>5 DEF Pos
<1>7. Aligned(c, <<>>)
  <2>1. \A i \in 1..l : 0 + i = i
    BY <1>5
  <2>2. l <= l
    BY <1>5
  <2>. QED BY <1>1, <1>3, <1>4, <1>6, <2>1, <2>2 DEF Aligned
<1>. QED BY <1>6, <1>7

\* GWEN_HttpSession_SendPacket connects, if it has to.
LEMMA SendPacketKeeps ==
  ASSUME Inv, NEW n \in {0, PartLen}, SendPacket(n)
  PROVE  Inv'
<1>1. Idle /\ Between
  BY IdleFacts DEF SendPacket
<1>2. call' = [NoCall EXCEPT !.pc = "write", !.op = "send", !.size = n]
      /\ res' = NoRes /\ count' = count + 1 /\ count < MaxReq
      /\ readBuffer' = readBuffer
  BY DEF SendPacket
<1>3. call' \in CallSet /\ call'.pc = "write" /\ call'.op = "send" /\ call'.size = n
  <2>1. n \in Nat
    BY HttpAssumption
  <2>2. NoCall \in CallSet
    BY DEF NoCall, CallSet, PCs
  <2>. QED BY <1>2, <2>1, <2>2 DEF CallSet, PCs
<1>4. count' \in 0..MaxReq
  <2>1. count \in 0..MaxReq /\ MaxReq \in Nat
    BY <1>1, HttpAssumption DEF Between
  <2>. QED BY <1>2, <2>1
<1>5. Silent'
  BY <1>2, SilentResults DEF Silent, RecvOps
<1>6. call'.pc \notin ReadPCs
  BY <1>3 DEF ReadPCs, LinePCs, BytePCs
<1>7. CASE /\ http.connected
           /\ taint' = IF reqs = <<>> THEN taint ELSE taint \cup {"reused"}
           /\ UNCHANGED <<conn, http, out, reqs>>
  <2>1. BufferedTypeOK'
    BY <1>1, <1>2, <1>7 DEF Between, BufferedTypeOK
  <2>2. taint' \subseteq {"leftover", "reused"}
    BY <1>1, <1>7 DEF Between
  <2>3. Between'
    BY <1>1, <1>4, <1>7, <2>1, <2>2 DEF Between, ServedInv
  <2>4. Beginning'
    BY <1>2, <1>3, <1>7 DEF Beginning
  <2>5. ASSUME Clear' PROVE Track(conn', readBuffer', http', call')
    <3>1. Clear
      BY <1>7, <2>5 DEF Clear
    <3>2. /\ Aligned(conn, readBuffer)
          /\ conn.rest = conn.full => readBuffer = <<>> /\ http.readMode = "Idle"
      BY <1>1, <3>1, IdleFacts
    <3>. QED BY <1>2, <1>6, <1>7, <3>2 DEF Track
  <2>. QED BY <1>5, <2>3, <2>4, <2>5, BeginKeeps
<1>8. CASE /\ ~http.connected /\ BaseConnect /\ http' = Connected(http)
           /\ out' = <<>> /\ reqs' = <<>>
           /\ taint' = IF readBuffer = <<>> THEN {} ELSE {"leftover"}
  <2>1. /\ BufferedTypeOK'
        /\ conn'.full # <<>> /\ WellFormed(conn'.full) /\ conn'.rest = conn'.full
    <3>1. BufferedTypeOK /\ BaseConnect
      BY <1>1, <1>8 DEF Between
    <3>. QED BY <1>2, <3>1, ConnectReads
  <2>2. /\ http' \in HttpSet /\ http'.readMode = "Idle" /\ http'.connected
        /\ http'.writeMode = http.writeMode
    BY <1>1, <1>8 DEF Between, Connected, HttpSet, Modes
  <2>3. Between'
    <3>1. out' \in Seq(Unit) /\ reqs' \in Seq(Unit) /\ out' = reqs' /\ IsPrefix(out', reqs')
      BY <1>8 DEF IsPrefix
    <3>2. taint' \subseteq {"leftover", "reused"}
      BY <1>8
    <3>3. ServedInv'
      BY <2>1 DEF ServedInv
    <3>4. http'.writeMode # "Body"
      BY <1>1, <2>2 DEF Between
    <3>. QED BY <1>4, <2>1, <2>2, <3>1, <3>2, <3>3, <3>4 DEF Between
  <2>4. Beginning'
    BY <1>2, <1>3, <2>2 DEF Beginning
  <2>5. ASSUME Clear' PROVE Track(conn', readBuffer', http', call')
    <3>1. readBuffer' = <<>>
      BY <1>2, <1>8, <2>5 DEF Clear
    <3>2. Aligned(conn', readBuffer')
      <4>1. conn'.full \in Seq(Token) /\ conn'.rest = conn'.full
        BY <2>1 DEF BufferedTypeOK, Connection
      <4>. QED BY <3>1, <4>1, WholeAhead
    <3>. QED BY <1>6, <2>2, <3>1, <3>2 DEF Track
  <2>. QED BY <1>5, <2>3, <2>4, <2>5, BeginKeeps
<1>. QED BY <1>7, <1>8 DEF SendPacket, Connect

\* The base cannot connect, or the file cannot be opened: nothing changes.
LEMMA NothingKeeps ==
  ASSUME Inv, Idle, UNCHANGED <<conn, readBuffer, http, call, out, reqs, taint, count>>,
         Silent'
  PROVE  Inv'
<1>1. /\ Between /\ call \in CallSet /\ call.pc = "idle"
      /\ Clear => /\ Aligned(conn, readBuffer)
                  /\ (conn.rest = conn.full =>
                        readBuffer = <<>> /\ http.readMode = "Idle")
  BY IdleFacts
<1>2. Between'
  BY <1>1 DEF Between, BufferedTypeOK, ServedInv
<1>3. Beginning'
  BY <1>1 DEF Beginning
<1>4. ASSUME Clear' PROVE Track(conn', readBuffer', http', call')
  <2>1. Clear
    BY <1>4 DEF Clear
  <2>2. call.pc \notin ReadPCs
    BY <1>1 DEF ReadPCs, LinePCs, BytePCs
  <2>. QED BY <1>1, <2>1, <2>2 DEF Track
<1>. QED BY <1>2, <1>3, <1>4, BeginKeeps

\* The connection cannot be made.
LEMMA ConnectFailsKeeps ==
  ASSUME Inv, NEW op \in {"send", "test"}, ConnectFails(op)
  PROVE  Inv'
<1>1. Silent'
  <2>1. res' = [NoRes EXCEPT !.op = op, !.rv = ErrIo]
    BY DEF ConnectFails
  <2>2. res' \in ResSet /\ res'.op = op /\ res'.rv = ErrIo /\ ~res'.file
    BY <2>1, SilentResults DEF NoRes
  <2>. QED BY <2>2 DEF Silent, RecvOps, ErrIo
<1>. QED BY <1>1, NothingKeeps DEF ConnectFails

\* The file of GWEN_HttpSession_RecvPacketToFile cannot be opened.
LEMMA FileOpenFailsKeeps ==
  ASSUME Inv, FileOpenFails
  PROVE  Inv'
<1>1. Silent'
  <2>1. res' = [NoRes EXCEPT !.op = "recvFile", !.rv = ErrFile]
    BY DEF FileOpenFails
  <2>2. /\ res' \in ResSet /\ res'.op = "recvFile" /\ res'.rv = ErrFile
        /\ ~res'.file
    BY <2>1, SilentResults DEF NoRes
  <2>. QED BY <2>2 DEF Silent, RecvOps, ErrFile
<1>. QED BY <1>1, NothingKeeps DEF FileOpenFails

\* After GWEN_HttpSession_ConnectionTest nothing is connected.
LEMMA ConnectionTestKeeps ==
  ASSUME Inv, ConnectionTest
  PROVE  Inv'
<1>1. Between /\ call \in CallSet /\ call.pc = "idle"
  BY IdleFacts DEF ConnectionTest
<1>2. /\ res' = [NoRes EXCEPT !.op = "test"]
      /\ readBuffer' = readBuffer /\ call' = call /\ count' = count
  BY DEF ConnectionTest
<1>3. Silent'
  <2>1. res' \in ResSet /\ res'.op = "test" /\ ~res'.file
    BY <1>2, SilentResults DEF NoRes
  <2>. QED BY <2>1 DEF Silent, RecvOps
<1>4. Beginning'
  BY <1>1, <1>2 DEF Beginning
<1>5. CASE /\ ~http.connected /\ BaseConnect
           /\ http' = Disconnected(Connected(http))
           /\ out' = <<>> /\ reqs' = <<>> /\ taint' = {}
  <2>1. BufferedTypeOK'
    <3>1. BufferedTypeOK /\ BaseConnect
      BY <1>1, <1>5 DEF Between
    <3>. QED BY <1>2, <3>1, ConnectReads
  <2>2. /\ http' \in HttpSet /\ http'.readMode = "Idle" /\ ~http'.connected
        /\ http'.writeMode # "Body"
    BY <1>1, <1>5 DEF Between, Connected, Disconnected, HttpSet, Modes
  <2>3. out' \in Seq(Unit) /\ reqs' \in Seq(Unit) /\ IsPrefix(out', reqs')
    BY <1>5 DEF IsPrefix
  <2>4. count' \in 0..MaxReq /\ taint' \subseteq {"leftover", "reused"}
    BY <1>1, <1>2, <1>5 DEF Between
  <2>5. Between' /\ ~Clear'
    BY <2>1, <2>2, <2>3, <2>4 DEF Between, ServedInv, Clear
  <2>. QED BY <1>3, <1>4, <2>5, BeginKeeps
<1>6. CASE /\ http.connected /\ http' = Disconnected(http)
           /\ UNCHANGED <<conn, out, reqs, taint>>
  <2>1. BufferedTypeOK'
    BY <1>1, <1>2, <1>6 DEF Between, BufferedTypeOK
  <2>2. /\ http' \in HttpSet /\ ~http'.connected
        /\ http'.readMode = http.readMode /\ http'.writeMode = http.writeMode
        /\ http'.chunkSize = http.chunkSize /\ http'.bodySize = http.bodySize
    BY <1>1, <1>6 DEF Between, Disconnected, HttpSet
  <2>3. Between' /\ ~Clear'
    BY <1>1, <1>2, <1>6, <2>1, <2>2 DEF Between, ServedInv, Clear
  <2>. QED BY <1>3, <1>4, <2>3, BeginKeeps
<1>. QED BY <1>5, <1>6 DEF ConnectionTest

\* New streams are not connected.
LEMMA NewStream ==
  /\ NewHttp \in HttpSet /\ ~NewHttp.connected /\ NewHttp.readMode = "Idle"
  /\ NewHttp.writeMode = "Idle"
BY DEF NewHttp, HttpSet, Modes

\* GWEN_HttpSession_Fini and GWEN_HttpSession_Init.
LEMMA RenewKeeps ==
  ASSUME Inv, Renew
  PROVE  Inv'
<1>1. Between /\ call \in CallSet /\ call.pc = "idle"
  BY IdleFacts DEF Renew
<1>2. /\ http' = NewHttp /\ readBuffer' = <<>> /\ res' = NoRes
      /\ UNCHANGED <<conn, call, out, reqs, taint, count>>
  BY DEF Renew
<1>3. Silent'
  BY <1>2, SilentResults DEF Silent, RecvOps
<1>4. Beginning'
  BY <1>1, <1>2 DEF Beginning
<1>5. BufferedTypeOK'
  <2>1. Len(<<>>) <= BufSize /\ <<>> \in Seq(Token)
    BY BufferedIoAssumption
  <2>. QED BY <1>1, <1>2, <2>1 DEF Between, BufferedTypeOK
<1>6. Between' /\ ~Clear'
  BY <1>1, <1>2, <1>5, NewStream DEF Between, ServedInv, Clear
<1>. QED BY <1>3, <1>4, <1>6, BeginKeeps

\* GWEN_HttpSession_RecvPacket and GWEN_HttpSession_RecvPacketToFile begin.
LEMMA ReceiveKeeps ==
  ASSUME Inv, NEW op \in RecvOps, Receive(op)
  PROVE  Inv'
<1>1. /\ Between /\ call \in CallSet /\ call.pc = "idle"
      /\ Clear => /\ Aligned(conn, readBuffer)
                  /\ (conn.rest = conn.full =>
                        readBuffer = <<>> /\ http.readMode = "Idle")
  BY IdleFacts DEF Receive
<1>2. /\ call' = [NoCall EXCEPT !.pc = "read", !.op = op] /\ res' = NoRes
      /\ taint' = IF conn.rest = conn.full THEN taint ELSE taint \cup {"reused"}
      /\ UNCHANGED <<conn, readBuffer, http, out, reqs, count>>
  BY DEF Receive
<1>3. Silent'
  BY <1>2, SilentResults DEF Silent, RecvOps
<1>4. /\ call' \in CallSet /\ call'.pc = "read" /\ call'.op = op
      /\ call'.line = <<>> /\ call'.hdr = <<>> /\ call'.body = <<>>
      /\ call'.size = -1
  <2>1. NoCall \in CallSet
    BY DEF NoCall, CallSet, PCs
  <2>2. /\ NoCall.line = <<>> /\ NoCall.hdr = <<>> /\ NoCall.body = <<>>
        /\ NoCall.size = -1
    BY DEF NoCall
  <2>. QED BY <1>2, <2>1, <2>2 DEF CallSet, PCs
<1>5. Beginning'
  BY <1>2, <1>4 DEF Beginning
<1>6. BufferedTypeOK' /\ ServedInv'
  BY <1>1, <1>2 DEF Between, BufferedTypeOK, ServedInv
<1>7. taint' \subseteq {"leftover", "reused"}
  BY <1>1, <1>2 DEF Between
<1>8. Between'
  BY <1>1, <1>2, <1>6, <1>7 DEF Between
<1>9. ASSUME Clear' PROVE Track(conn', readBuffer', http', call')
  <2>1. /\ conn.rest = conn.full /\ readBuffer = <<>> /\ http.readMode = "Idle"
        /\ Aligned(conn, readBuffer)
    <3>1. conn.rest = conn.full /\ Clear
      BY <1>2, <1>9 DEF Clear
    <3>. QED BY <1>1, <3>1
  <2>2. Pos(conn, readBuffer) = 0
    <3>1. conn.full \in Seq(Token)
      BY <1>1 DEF Between, BufferedTypeOK, Connection
    <3>. QED BY <2>1, <3>1, WholeAhead
  <2>3. Place(http, call') = "status"
    BY <1>4, <2>1 DEF Place
  <2>4. Heading(conn.full, 0, http, call')
    BY <1>4, <2>3 DEF Heading, ChunkPCs
  <2>5. Content(conn.full, 0, http, call')
    BY <1>4, <2>3 DEF Content, ChunkPCs
  <2>6. call'.pc \in ReadPCs
    BY <1>4 DEF ReadPCs
  <2>. QED BY <1>2, <2>1, <2>2, <2>4, <2>5, <2>6 DEF Track
<1>. QED BY <1>3, <1>5, <1>8, <1>9, BeginKeeps

-----------------------------------------------------------------------------
(* The theorems                                                            *)

\* Nothing has been connected yet.
LEMMA InitInv ==
  ASSUME Init PROVE Inv
<1>1. /\ readBuffer = <<>> /\ http = NewHttp /\ call = NoCall
      /\ res = NoRes /\ out = <<>> /\ reqs = <<>> /\ taint = {} /\ count = 0
  BY DEF Init, BufferedInit
<1>2. TypeOK
  <2>1. BufferedTypeOK
    BY <1>1, BufferedIoAssumption
       DEF Init, BufferedInit, BufferedTypeOK, Connection, NoConn
  <2>2. http \in HttpSet /\ res \in ResSet /\ call \in CallSet
    BY <1>1, NewStream, SilentResults DEF NoCall, CallSet, PCs
  <2>3. count \in 0..MaxReq
    BY <1>1, HttpAssumption
  <2>. QED BY <1>1, <2>1, <2>2, <2>3 DEF TypeOK, HttpSet, ResSet, CallSet
<1>3. call.pc = "idle"
  BY <1>1 DEF NoCall
<1>4. ShapeInv
  BY <1>1, <1>3, NewStream
     DEF ShapeInv, ReadPCs, SendPCs, LinePCs, BytePCs, WritePCs
<1>5. SendInv
  <2>1. IsPrefix(out, reqs) /\ out = reqs
    BY <1>1 DEF IsPrefix
  <2>. QED BY <1>1, <1>3, <2>1, NewStream DEF SendInv, RequestWhole, WritePCs
<1>6. ServedInv /\ ReadInv
  BY <1>1, NewStream DEF ServedInv, ReadInv
<1>7. ResultInv
  BY <1>1, SilentResults
     DEF ResultInv, Delivered, StatusOwn, BufferClean, Ok, RecvOps
<1>. QED BY <1>2, <1>4, <1>5, <1>6, <1>7 DEF Inv

\* Every step keeps the invariant.
LEMMA NextKeeps ==
  ASSUME Inv, [Next]_vars
  PROVE  Inv'
<1>1. CASE UNCHANGED vars
  <2>1. /\ conn' = conn /\ readBuffer' = readBuffer /\ http' = http /\ call' = call
        /\ res' = res /\ out' = out /\ reqs' = reqs /\ taint' = taint /\ count' = count
    BY <1>1 DEF vars
  <2>2. TypeOK'
    BY <2>1 DEF Inv, TypeOK, BufferedTypeOK
  <2>3. ShapeInv' /\ ServedInv'
    BY <2>1 DEF Inv, ShapeInv, ServedInv
  <2>4. SendInv'
    <3>1. After' = After
      BY <2>1 DEF After
    <3>. QED BY <2>1, <3>1 DEF Inv, SendInv, RequestWhole
  <2>5. ReadInv'
    BY <2>1 DEF Inv, ReadInv
  <2>6. ResultInv'
    <3>1. Ok' = Ok /\ CutShort' = CutShort
      BY <2>1 DEF Ok, CutShort
    <3>. QED BY <2>1, <3>1 DEF Inv, ResultInv, Delivered, StatusOwn, BufferClean
  <2>. QED BY <2>2, <2>3, <2>4, <2>5, <2>6 DEF Inv
<1>2. ASSUME call.pc \in ReadPCs PROVE Base /\ ReadInv
  BY <1>2 DEF Base, Inv
<1>3. CASE WriteBegins
  BY <1>3, WriteBeginsKeeps
<1>4. CASE WriteFails
  BY <1>4, WriteFailsKeeps
<1>5. CASE \E n \in 1..PartLen : Write(n)
  BY <1>5, WriteKeeps
<1>6. CASE ReadBegins
  <2>1. call.pc \in ReadPCs
    BY <1>6 DEF ReadBegins, ReadPCs
  <2>. QED BY <1>2, <1>6, <2>1, ReadBeginsKeeps
<1>7. CASE FillBuffer
  <2>1. call.pc \in ReadPCs
    BY <1>7 DEF FillBuffer, ReadPCs
  <2>. QED BY <1>2, <1>7, <2>1, FillKeeps
<1>8. CASE ReadLine
  <2>1. call.pc \in ReadPCs
    BY <1>8 DEF ReadLine, ReadPCs
  <2>. QED BY <1>2, <1>8, <2>1, ReadLineKeeps
<1>9. CASE ReadBytes
  <2>1. call.pc \in ReadPCs
    BY <1>9 DEF ReadBytes, ReadPCs
  <2>. QED BY <1>2, <1>9, <2>1, ReadBytesKeeps
<1>10. ASSUME NEW r \in {0, ErrIo, ErrTimeout}, ReadLineFails(r) PROVE Inv'
  <2>1. call.pc \in ReadPCs
    BY <1>10 DEF ReadLineFails, ReadPCs
  <2>. QED BY <1>2, <1>10, <2>1, ReadLineFailsKeeps
<1>11. ASSUME NEW r \in {0, ErrIo, ErrTimeout}, ReadBytesFails(r) PROVE Inv'
  <2>1. call.pc \in ReadPCs
    BY <1>11 DEF ReadBytesFails, ReadPCs
  <2>. QED BY <1>2, <1>11, <2>1, ReadBytesFailsKeeps
<1>12. CASE \E n \in {0, PartLen} : SendPacket(n)
  BY <1>12, SendPacketKeeps
<1>13. CASE \E op \in {"send", "test"} : ConnectFails(op)
  BY <1>13, ConnectFailsKeeps
<1>14. CASE RecvPacket \/ RecvPacketToFile
  <2>1. "recv" \in RecvOps /\ "recvFile" \in RecvOps
    BY DEF RecvOps
  <2>. QED BY <1>14, <2>1, ReceiveKeeps DEF RecvPacket, RecvPacketToFile
<1>15. CASE FileOpenFails
  BY <1>15, FileOpenFailsKeeps
<1>16. CASE ConnectionTest
  BY <1>16, ConnectionTestKeeps
<1>17. CASE Renew
  BY <1>17, RenewKeeps
<1>. QED BY <1>1, <1>3, <1>4, <1>5, <1>6, <1>7, <1>8, <1>9, <1>10, <1>11, <1>12,
            <1>13, <1>14, <1>15, <1>16, <1>17 DEF Next, Step

\* The invariant holds in every reachable state.
LEMMA Invariance == Spec => []Inv
<1>1. Init => Inv
  BY InitInv
<1>2. Inv /\ [Next]_vars => Inv'
  BY NextKeeps
<1>. QED BY <1>1, <1>2, PTL DEF Spec

\* Every variable of the HTTP client has its type; the stream's buffer is
\* never overfilled.
THEOREM TypeTheorem == Spec => []TypeOK
<1>1. Inv => TypeOK
  BY DEF Inv
<1>. QED BY <1>1, Invariance, PTL

\* Receiving succeeds with exactly the body of the answer on the connection,
\* or with the beginning of one that was cut short by the connection's end
\* or, over TLS, by a silent server; without TLS a silent server is never a
\* success.  A file is only left by success, or by a failure to close it.
THEOREM DeliveredTheorem == Spec => []Delivered
<1>1. Inv => Delivered
  BY DEF Inv, ResultInv
<1>. QED BY <1>1, Invariance, PTL

\* A code that receiving returns is the one in the status line of the answer
\* on the connection.
THEOREM StatusTheorem == Spec => []StatusOwn
<1>1. Inv => StatusOwn
  BY DEF Inv, ResultInv
<1>. QED BY <1>1, Invariance, PTL

\* After an answer has been received successfully nothing of it is left in
\* the read buffer, where the next answer would begin with it.
THEOREM BufferTheorem == Spec => []BufferClean
<1>1. Inv => BufferClean
  BY DEF Inv, ResultInv
<1>. QED BY <1>1, Invariance, PTL

\* What is written on a connection is a beginning of the requests made on it,
\* and all of them when SendPacket succeeds, whatever part of its units each
\* write takes.
THEOREM RequestTheorem == Spec => []RequestWhole
<1>1. Inv => RequestWhole
  BY DEF Inv, SendInv
<1>. QED BY <1>1, Invariance, PTL
=============================================================================
