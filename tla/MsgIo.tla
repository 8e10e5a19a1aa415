------------------------------- MODULE MsgIo --------------------------------
(***************************************************************************)
(* The message endpoints of src/msgio: a TCP client (endpoint_tcpc.c), the *)
(* child endpoint a server (endpoint_tcpd.c) has for it, and the message   *)
(* layer both are extended with (endpoint_msgio.c, endpoint_ipc.c).        *)
(*                                                                         *)
(* Every call of GWEN_MsgEndpoint_IoLoop does some of the steps below:     *)
(* writes a part of the first message, reads some bytes, notices the end   *)
(* of a connection, (re)connects, accepts.  TCP is external: a stream of   *)
(* bytes in each direction that may break at any moment.                   *)
(*                                                                         *)
(* A message is a sequence of bytes whose first one is its length, header  *)
(* included.  The server accepts a connection when the one before it has   *)
(* come to its end; the child of that one is gone then, only the messages  *)
(* it has received are left.                                               *)
(***************************************************************************)
EXTENDS Integers, Sequences

CONSTANTS Msg,        \* the messages applications send
          HdrLen,     \* GWEN_MSGIPC_OFFS_PAYLOAD
          PosMod,     \* _writeCurrentMessage keeps the position in a uint8_t
          Capacity,   \* bytes a socket takes before it is no longer writable
          MaxQueued,  \* bound on the messages an application queues
          MaxBreaks   \* bound on the ends of connections from outside

ASSUME MsgIoAssumption ==
  /\ HdrLen \in Nat \ {0} /\ PosMod \in Nat \ {0} /\ Capacity \in Nat \ {0}
  /\ MaxBreaks \in Nat
  /\ \A m \in Msg : m \in Seq(Nat) /\ Len(m) >= HdrLen /\ m[1] = Len(m)

End == {"client", "server"}
Other(x) == CHOOSE y \in End : y # x

ASSUME BoundAssumption == MaxQueued \in [End -> Nat]

VARIABLES state,    \* ep->state
          sock,     \* ep->socket: "none", "syn", "refused", "ok", or "dead"
                    \* when the connection has ended at the other side
          wire,     \* the bytes on their way to an end
          sendList, \* ep->sendMessageList
          pos,      \* currentPos of its first message
          cur,      \* ep->currentlyReceivedMsg, empty for NULL
          recvd,    \* ep->receivedMessageList
          queued,   \* all messages the application has queued so far
          got,      \* all messages it has taken so far
          torn,     \* has the client lost a connection within a message?
          breaks    \* ends of connections from outside so far

net == <<state, sock, wire>>
lists == <<sendList, pos, cur, recvd>>
ghost == <<queued, got, torn, breaks>>
vars == <<net, lists, ghost>>

TypeOK ==
  /\ state \in [End -> {"unconnected", "connecting", "connected"}]
  /\ sock \in [End -> {"none", "syn", "refused", "ok", "dead"}]
  /\ wire \in [End -> Seq(Nat)]
  /\ sendList \in [End -> Seq(Msg)]
  /\ pos \in [End -> Nat]
  /\ \A x \in End : IF sendList[x] = <<>> THEN pos[x] = 0
                    ELSE pos[x] < Len(Head(sendList[x]))
  /\ cur \in [End -> Seq(Nat)]
  /\ recvd \in [End -> Seq(Seq(Nat))]
  /\ queued \in [End -> Seq(Msg)]
  /\ got \in [End -> Seq(Seq(Nat))]
  /\ torn \in BOOLEAN
  /\ breaks \in 0..MaxBreaks

Init ==
  /\ state = [x \in End |-> "unconnected"]
  /\ sock = [x \in End |-> "none"]
  /\ wire = [x \in End |-> <<>>]
  /\ sendList = [x \in End |-> <<>>] /\ pos = [x \in End |-> 0]
  /\ cur = [x \in End |-> <<>>] /\ recvd = [x \in End |-> <<>>]
  /\ queued = [x \in End |-> <<>>] /\ got = [x \in End |-> <<>>]
  /\ torn = FALSE /\ breaks = 0

-----------------------------------------------------------------------------
(* Applications                                                            *)

\* GWEN_MsgEndpoint_AddSendMessage
AddSendMessage(x, m) ==
  /\ x = "server" => state[x] = "connected"
  /\ Len(queued[x]) < MaxQueued[x]
  /\ sendList' = [sendList EXCEPT ![x] = Append(@, m)]
  /\ queued' = [queued EXCEPT ![x] = Append(@, m)]
  /\ UNCHANGED <<net, pos, cur, recvd, got, torn, breaks>>

TakeFirstReceivedMessage(x) ==
  /\ recvd[x] # <<>>
  /\ recvd' = [recvd EXCEPT ![x] = Tail(@)]
  /\ got' = [got EXCEPT ![x] = Append(@, Head(recvd[x]))]
  /\ UNCHANGED <<net, sendList, pos, cur, queued, torn, breaks>>

-----------------------------------------------------------------------------
(* GWEN_MsgEndpoint_Disconnect closes the socket.  The client keeps its    *)
(* message lists and the message it was receiving for the next connection; *)
(* the server's child never gets another one and is removed, with all but  *)
(* the messages received.                                                  *)

Disconnect(x) ==
  /\ state' = [state EXCEPT ![x] = "unconnected"]
  /\ sock' = [sock EXCEPT ![x] = "none",
                          ![Other(x)] = IF @ = "ok" THEN "dead" ELSE @]
  /\ wire' = [wire EXCEPT ![x] = <<>>]
  /\ IF x = "server"
     THEN /\ sendList' = [sendList EXCEPT ![x] = <<>>]
          /\ pos' = [pos EXCEPT ![x] = 0]
          /\ cur' = [cur EXCEPT ![x] = <<>>]
          /\ UNCHANGED torn
     ELSE /\ torn' = (torn \/ pos[x] > 0 \/ cur[x] # <<>>)
          /\ UNCHANGED <<sendList, pos, cur>>
  /\ UNCHANGED <<recvd, queued, got>>

\* The application ends the connection.
AppDisconnect(x) ==
  /\ state[x] = "connected" /\ breaks < MaxBreaks
  /\ Disconnect(x)
  /\ breaks' = breaks + 1

-----------------------------------------------------------------------------
(* The message layer                                                       *)

\* Slips: the length field is taken to leave the header out, or the header
\* is counted twice.
MutBytesNeeded(c) ==
  IF Len(c) < HdrLen THEN HdrLen - Len(c) ELSE c[1] + HdrLen - Len(c)

MutBytesNeededShort(c) ==
  IF Len(c) < HdrLen THEN HdrLen - Len(c) ELSE c[1] - HdrLen - Len(c)

\* _getBytesNeededForMessage of endpoint_ipc.c
BytesNeeded(c) == IF Len(c) < HdrLen THEN HdrLen - Len(c) ELSE c[1] - Len(c)

\* What of n bytes gets into the stream: the socket takes no more than it has
\* room for.  A connection that has ended may still take bytes, and loses them.
Deliver(x, bytes) ==
  IF sock[x] = "ok"
  THEN /\ Len(wire[Other(x)]) + Len(bytes) <= Capacity
       /\ wire' = [wire EXCEPT ![Other(x)] = @ \o bytes]
  ELSE UNCHANGED wire

\* Slip: a message that has been sent stays in the list.
MutAfterWrite(x, n, remaining) ==
  /\ pos' = [pos EXCEPT ![x] = @ + n]
  /\ UNCHANGED sendList

\* GWEN_Msg_IncCurrentPos, and the end of a message.
AfterWrite(x, n, remaining) ==
  IF n = remaining
  THEN /\ sendList' = [sendList EXCEPT ![x] = Tail(@)]
       /\ pos' = [pos EXCEPT ![x] = 0]
  ELSE /\ pos' = [pos EXCEPT ![x] = @ + n]
       /\ UNCHANGED sendList

\* _writeCurrentMessage
WriteCurrentMessage(x) ==
  /\ state[x] = "connected" /\ sendList[x] # <<>>
  /\ LET msg == Head(sendList[x])
         remaining == Len(msg) - pos[x]
         pos8 == pos[x] % PosMod
     IN  \E n \in 1..remaining :
           /\ Deliver(x, SubSeq(msg, pos8 + 1, pos8 + n))
           /\ AfterWrite(x, n, remaining)
  /\ UNCHANGED <<state, sock, cur, recvd, ghost>>

WriteFails(x) ==
  /\ state[x] = "connected" /\ sendList[x] # <<>> /\ sock[x] = "dead"
  /\ Disconnect(x)
  /\ UNCHANGED breaks

\* _readCurrentMessage and _distributeBufferContent.  A buffer full of bytes
\* is taken apart into pieces that belong to one message.
ReadCurrentMessage(x) ==
  /\ state[x] = "connected" /\ wire[x] # <<>> /\ BytesNeeded(cur[x]) > 0
  /\ \E n \in 1..BytesNeeded(cur[x]) :
       LET c == cur[x] \o SubSeq(wire[x], 1, n)
       IN  /\ n <= Len(wire[x])
           /\ wire' = [wire EXCEPT ![x] = SubSeq(@, n + 1, Len(@))]
           /\ IF BytesNeeded(c) = 0
              THEN /\ cur' = [cur EXCEPT ![x] = <<>>]
                   /\ recvd' = [recvd EXCEPT ![x] = Append(@, c)]
              ELSE /\ cur' = [cur EXCEPT ![x] = c]
                   /\ UNCHANGED recvd
  /\ UNCHANGED <<state, sock, sendList, pos, ghost>>

\* "Unknown how many bytes needed?"
ReadBadSize(x) ==
  /\ state[x] = "connected" /\ wire[x] # <<>> /\ BytesNeeded(cur[x]) < 0
  /\ Disconnect(x)
  /\ UNCHANGED breaks

\* read() returns 0 or an error.
ReadEof(x) ==
  /\ state[x] = "connected" /\ wire[x] = <<>> /\ sock[x] = "dead"
  /\ Disconnect(x)
  /\ UNCHANGED breaks

-----------------------------------------------------------------------------
(* Connections                                                             *)

\* GWEN_TcpcEndpoint_StartConnect, by _addSockets of a client that has been
\* unconnected for some time: connected at once, or in progress.
StartConnect ==
  /\ state["client"] = "unconnected" /\ sock["server"] = "none"
  /\ \/ /\ state' = [state EXCEPT !["client"] = "connected"]
        /\ sock' = [x \in End |-> "ok"]
     \/ /\ state' = [state EXCEPT !["client"] = "connecting"]
        /\ sock' = [sock EXCEPT !["client"] = "syn"]
  /\ UNCHANGED <<wire, lists, ghost>>

\* The answer of the other host.
Handshake ==
  /\ sock["client"] = "syn"
  /\ \/ sock' = [x \in End |-> "ok"] /\ UNCHANGED breaks
     \/ /\ breaks < MaxBreaks /\ breaks' = breaks + 1
        /\ sock' = [sock EXCEPT !["client"] = "refused"]
  /\ UNCHANGED <<state, wire, lists, queued, got, torn>>

\* Slip: a failed connect is taken for one in progress, for good.
MutCheckConnect ==
  /\ state["client"] = "connecting" /\ sock["client"] = "ok"
  /\ state' = [state EXCEPT !["client"] = "connected"]
  /\ UNCHANGED <<sock, wire, lists, ghost>>

\* _checkSockets of the client.  GWEN_Socket_GetSocketError() reports a
\* failed connect once, and the endpoint stays in its state; the second time
\* there is no error left to report.
CheckConnect ==
  /\ state["client"] = "connecting"
  /\ \/ /\ sock["client"] = "refused"
        /\ sock' = [sock EXCEPT !["client"] = "dead"]
        /\ UNCHANGED state
     \/ /\ sock["client"] \in {"ok", "dead"}
        /\ state' = [state EXCEPT !["client"] = "connected"]
        /\ UNCHANGED sock
  /\ UNCHANGED <<wire, lists, ghost>>

\* _checkSockets of the server: acceptFn makes a new endpoint, or refuses.
Accept ==
  /\ state["server"] = "unconnected" /\ sock["server"] # "none"
  /\ state' = [state EXCEPT !["server"] = "connected"]
  /\ UNCHANGED <<sock, wire, lists, ghost>>

AcceptRefused ==
  /\ state["server"] = "unconnected" /\ sock["server"] # "none"
  /\ breaks < MaxBreaks /\ breaks' = breaks + 1
  /\ sock' = [sock EXCEPT !["server"] = "none",
                          !["client"] = IF @ = "ok" THEN "dead" ELSE @]
  /\ wire' = [wire EXCEPT !["server"] = <<>>]
  /\ UNCHANGED <<state, lists, queued, got, torn>>

\* The connection breaks; some of the bytes on their way do not arrive.
Break ==
  /\ sock["client"] = "ok" /\ sock["server"] = "ok" /\ breaks < MaxBreaks
  /\ breaks' = breaks + 1
  /\ sock' = [x \in End |-> "dead"]
  /\ \E k \in [End -> 0..Capacity] :
       /\ \A x \in End : k[x] <= Len(wire[x])
       /\ wire' = [x \in End |-> SubSeq(wire[x], 1, k[x])]
  /\ UNCHANGED <<state, lists, queued, got, torn>>

-----------------------------------------------------------------------------
IoStep(x) == \/ WriteCurrentMessage(x) \/ WriteFails(x)
             \/ ReadCurrentMessage(x) \/ ReadBadSize(x) \/ ReadEof(x)

ConnectStep == StartConnect \/ Handshake \/ CheckConnect \/ Accept

Next ==
  \/ \E x \in End :
       \/ IoStep(x) \/ TakeFirstReceivedMessage(x) \/ AppDisconnect(x)
       \/ \E m \in Msg : AddSendMessage(x, m)
  \/ ConnectStep \/ AcceptRefused \/ Break

Spec == Init /\ [][Next]_vars

\* Applications call IoLoop again and again and take what has arrived; a
\* socket that stays readable, or writable, is served.
FairSpec ==
  /\ Spec
  /\ WF_vars(StartConnect) /\ WF_vars(Handshake) /\ WF_vars(CheckConnect)
  /\ WF_vars(Accept)
  /\ \A x \in End :
       /\ WF_vars(WriteCurrentMessage(x)) /\ WF_vars(WriteFails(x))
       /\ WF_vars(ReadCurrentMessage(x)) /\ WF_vars(ReadBadSize(x))
       /\ WF_vars(ReadEof(x)) /\ WF_vars(TakeFirstReceivedMessage(x))

-----------------------------------------------------------------------------
(* Properties                                                              *)

Received(x) == got[x] \o recvd[x]

\* What is left of a message m whose writing may have been taken up again at a
\* position that does not fit _writeCurrentMessage's uint8_t: c has its length
\* and its first PosMod bytes, and is m if m has no more than these.
Alike(c, m) ==
  Len(c) = Len(m) /\ \A j \in 1..Len(m) : j <= PosMod => c[j] = m[j]

\* What arrives at an end is what the other application has queued, in that
\* order, no message twice and none made up of pieces, whatever the pieces
\* were and however often connections ended between two messages.  A message
\* longer than PosMod keeps its length, so that the ones after it are not
\* disturbed, but only its first PosMod bytes are sure to be its own.
FramesIntact ==
  torn \/ \A x \in End :
    \E f \in [1..Len(Received(x)) -> 1..Len(queued[Other(x)])] :
      /\ \A i, j \in DOMAIN f : i < j => f[i] < f[j]
      /\ \A i \in DOMAIN f : Alike(Received(x)[i], queued[Other(x)][f[i]])

\* An incomplete message always needs more bytes: getBytesNeededFn neither
\* says 0, which would make _distributeBufferContent spin, nor fails.
SizeKnown == \A x \in End : BytesNeeded(cur[x]) > 0

\* The same while the client has not lost a connection within a message.
SizeKnownUntilTorn == torn \/ SizeKnown

\* As long as nothing ends the connection every message arrives.
AllDelivered ==
  \A x \in End : \A n \in 1..MaxQueued[x] :
    (Len(queued[x]) >= n) ~> (Len(got[Other(x)]) >= n \/ breaks > 0)

\* The client gets rid of its messages: it reconnects after every end of a
\* connection, even after a connect that failed.
ClientDrains == []<>(sendList["client"] = <<>>)
=============================================================================
