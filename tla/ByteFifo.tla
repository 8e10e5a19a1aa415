------------------------------ MODULE ByteFifo ------------------------------
(***************************************************************************)
(* What a GWEN_RINGBUFFER promises: a queue of at most Size bytes.  A      *)
(* write stores a prefix of the caller's bytes, and a proper prefix only   *)
(* when the queue is full; a read delivers the oldest bytes, and fewer     *)
(* than asked for only when the queue is empty.                            *)
(***************************************************************************)
EXTENDS Integers, Sequences

CONSTANTS Size,      \* capacity
          Data,      \* the byte strings a caller may pass
          MaxChunk   \* bound on the size a caller passes

VARIABLES queue,     \* the stored bytes, oldest first
          src,       \* the bytes a write still has to store
          want,      \* how many bytes a read still has to deliver
          dst        \* the bytes the current read has delivered

fifoVars == <<queue, src, want, dst>>

FifoInit == queue = <<>> /\ src = <<>> /\ want = 0 /\ dst = <<>>

BeginWrite(s) == /\ src = <<>> /\ want = 0
                 /\ src' = s /\ dst' = <<>>
                 /\ UNCHANGED <<queue, want>>

Store(k) == /\ Len(queue) + k <= Size
            /\ queue' = queue \o SubSeq(src, 1, k)
            /\ src' = SubSeq(src, k + 1, Len(src))
            /\ UNCHANGED <<want, dst>>

EndWrite == /\ src # <<>> => Len(queue) = Size
            /\ src' = <<>>
            /\ UNCHANGED <<queue, want, dst>>

BeginRead(n) == /\ src = <<>> /\ want = 0
                /\ want' = n /\ dst' = <<>>
                /\ UNCHANGED <<queue, src>>

Fetch(k) == /\ k <= want
            /\ dst' = dst \o SubSeq(queue, 1, k)
            /\ queue' = SubSeq(queue, k + 1, Len(queue))
            /\ want' = want - k
            /\ UNCHANGED src

EndRead == /\ want # 0 => queue = <<>>
           /\ want' = 0
           /\ UNCHANGED <<queue, src, dst>>

\* A caller that works on the buffer's memory stores and fetches in one go.
StoreAll(s) == /\ src = <<>> /\ want = 0
               /\ Len(queue) + Len(s) <= Size
               /\ queue' = queue \o s /\ dst' = <<>>
               /\ UNCHANGED <<src, want>>

FetchAll(n) == /\ src = <<>> /\ want = 0
               /\ n <= Len(queue)
               /\ dst' = SubSeq(queue, 1, n)
               /\ queue' = SubSeq(queue, n + 1, Len(queue))
               /\ UNCHANGED <<src, want>>

Clear == /\ src = <<>> /\ want = 0
         /\ queue' = <<>> /\ dst' = <<>>
         /\ UNCHANGED <<src, want>>

FifoNext == \/ \E s \in Data : BeginWrite(s) \/ StoreAll(s)
            \/ \E k \in 1..Len(src) : Store(k)
            \/ \E n \in 0..MaxChunk : BeginRead(n) \/ FetchAll(n)
            \/ \E k \in 1..Len(queue) : Fetch(k)
            \/ EndWrite \/ EndRead \/ Clear

FifoSpec == FifoInit /\ [][FifoNext]_fifoVars
=============================================================================
