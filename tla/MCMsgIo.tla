------------------------------ MODULE MCMsgIo -------------------------------
(* Instances of MsgIo for TLC.                                             *)
EXTENDS MsgIo, TLC

\* The header has two bytes: a message without payload, and one with, longer
\* than the position of a message can count.
Messages == {<<2, 0>>, <<3, 1, 0>>}

\* Two messages to the server, one answer.
Queued == ("client" :> 2) @@ ("server" :> 1)
=============================================================================
