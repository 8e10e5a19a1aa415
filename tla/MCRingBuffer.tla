---------------------------- MODULE MCRingBuffer ----------------------------
(* RingBuffer with three slots: writes and reads of up to four bytes wrap, *)
(* meet a full and an empty buffer and need two segments.                  *)
EXTENDS RingBuffer
=============================================================================
