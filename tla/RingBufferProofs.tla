-------------------------- MODULE RingBufferProofs --------------------------
(***************************************************************************)
(* For every size: the index arithmetic of the ring buffer is sound, its   *)
(* loops make progress, and it implements a bounded byte queue.            *)
(***************************************************************************)
EXTENDS RingBuffer, SequenceTheorems, TLAPS

JobInv == /\ job = "idle" => src = <<>> /\ want = 0
          /\ job = "write" => want = 0
          /\ job = "read" => src = <<>>

\* TypeOK is not inductive without PositionsAgree: only the positions bound
\* the segments, and only the segments keep the positions inside the array.
Inv == TypeOK /\ PositionsAgree /\ StoredBytesWritten /\ JobInv

\* The stored bytes, oldest first: what Fifo maps queue to.
Queue == [i \in 1..bytesUsed |-> ptr[Slot(i - 1)]]

BufferOK == /\ ptr \in [Pos -> Byte \cup {Unset}]
            /\ readPos \in Pos /\ writePos \in Pos
            /\ bytesUsed \in 0..Size
            /\ PositionsAgree /\ StoredBytesWritten

-----------------------------------------------------------------------------
\* A segment is not empty while there is room (or data), it stays inside the
\* array and does not run into the other position.
LEMMA SegmentFacts ==
  ASSUME BufferOK
  PROVE  /\ ~Full => /\ WriteSegment \in 1..(Size - bytesUsed)
                     /\ writePos + WriteSegment <= Size
         /\ ~Empty => /\ ReadSegment \in 1..bytesUsed
                      /\ readPos + ReadSegment <= Size
  BY RingAssumption
     DEF BufferOK, PositionsAgree, Full, Empty, WriteSegment, ReadSegment, Pos

\* The bytes between the positions form a sequence of written bytes.
LEMMA QueueType ==
  ASSUME BufferOK
  PROVE  Queue \in Seq(Byte) /\ Len(Queue) = bytesUsed
<1>1. \A i \in 1..bytesUsed : ptr[Slot(i - 1)] \in Byte
  BY RingAssumption DEF BufferOK, StoredBytesWritten
<1>2. Queue \in [1..bytesUsed -> Byte] /\ bytesUsed \in Nat
  BY <1>1, RingAssumption DEF Queue, BufferOK
<1>. QED
  BY <1>2

\* Copying a segment in appends it to the queue and disturbs no stored byte.
LEMMA CopyInLemma ==
  ASSUME BufferOK, NEW s \in Seq(Byte), NEW n \in Nat, n <= Len(s),
         n <= Size - bytesUsed, writePos + n <= Size, CopyIn(s, n)
  PROVE  BufferOK' /\ Queue' = Queue \o SubSeq(s, 1, n)
<1>. USE RingAssumption
<1>1. /\ ptr' \in [Pos -> Byte \cup {Unset}]
      /\ readPos' \in Pos /\ writePos' \in Pos
      /\ bytesUsed' \in 0..Size
  <2>1. \A i \in writePos..(writePos + n - 1) : s[i - writePos + 1] \in Byte
    BY DEF BufferOK, Pos
  <2>. QED
    BY <2>1 DEF BufferOK, CopyIn, Advance, Pos
<1>2. PositionsAgree'
  BY SMTT(30) DEF BufferOK, PositionsAgree, CopyIn, Advance, Pos
<1>3. \A i \in 0..(bytesUsed - 1) :
        /\ Slot(i) \in Pos /\ Slot(i)' = Slot(i)
        /\ Slot(i) \notin writePos..(writePos + n - 1)
  BY DEF BufferOK, PositionsAgree, Slot, CopyIn, Pos
<1>4. \A i \in bytesUsed..(bytesUsed + n - 1) :
        /\ Slot(i)' \in Pos /\ Slot(i)' = writePos + (i - bytesUsed)
  BY DEF BufferOK, PositionsAgree, Slot, CopyIn, Pos
<1>5. \A i \in 0..(bytesUsed - 1) : ptr'[Slot(i)'] = ptr[Slot(i)]
  BY <1>3 DEF CopyIn
<1>6. \A i \in bytesUsed..(bytesUsed + n - 1) :
        ptr'[Slot(i)'] = s[i - bytesUsed + 1]
  <2>. SUFFICES ASSUME NEW i \in bytesUsed..(bytesUsed + n - 1)
                PROVE  ptr'[Slot(i)'] = s[i - bytesUsed + 1]
    OBVIOUS
  <2>1. /\ Slot(i)' \in writePos..(writePos + n - 1)
        /\ Slot(i)' \in Pos
        /\ Slot(i)' - writePos = i - bytesUsed
    BY <1>4 DEF BufferOK, Pos
  <2>. QED
    BY <2>1 DEF CopyIn
<1>7. StoredBytesWritten'
  <2>. SUFFICES ASSUME NEW i \in 0..(bytesUsed' - 1)
                PROVE  ptr'[Slot(i)'] \in Byte
    BY DEF StoredBytesWritten
  <2>0. i \in 0..(bytesUsed + n - 1) /\ bytesUsed \in Nat
    BY DEF BufferOK, CopyIn
  <2>1. CASE i < bytesUsed
    BY <1>5, <2>0, <2>1 DEF BufferOK, StoredBytesWritten
  <2>2. CASE i >= bytesUsed
    <3>1. i - bytesUsed + 1 \in 1..Len(s)
      BY <2>0, <2>2
    <3>. QED
      BY <1>6, <2>0, <2>2, <3>1
  <2>. QED
    BY <2>0, <2>1, <2>2
<1>8. Queue' = Queue \o SubSeq(s, 1, n)
  <2>. DEFINE T == SubSeq(s, 1, n)
  <2>1. T \in Seq(Byte) /\ Len(T) = n /\ \A i \in 1..n : T[i] = s[i]
    OBVIOUS
  <2>2. Queue \in Seq(Byte) /\ Len(Queue) = bytesUsed
    BY QueueType
  <2>3. /\ Queue \o T \in Seq(Byte) /\ Len(Queue \o T) = bytesUsed + n
        /\ \A i \in 1..(bytesUsed + n) :
             (Queue \o T)[i] = IF i <= bytesUsed THEN Queue[i]
                               ELSE s[i - bytesUsed]
    BY <2>1, <2>2 DEF BufferOK
  <2>4. Queue' = [i \in 1..(bytesUsed + n) |-> ptr'[Slot(i - 1)']]
    BY DEF Queue, CopyIn
  <2>5. ASSUME NEW i \in 1..(bytesUsed + n)
        PROVE  ptr'[Slot(i - 1)'] = (Queue \o T)[i]
    <3>1. CASE i <= bytesUsed
      <4>1. i - 1 \in 0..(bytesUsed - 1) /\ i \in 1..bytesUsed
        BY <3>1 DEF BufferOK
      <4>2. ptr'[Slot(i - 1)'] = ptr[Slot(i - 1)]
        BY <1>5, <4>1
      <4>. QED
        BY <2>3, <3>1, <4>1, <4>2 DEF Queue
    <3>2. CASE i > bytesUsed
      <4>1. i - 1 \in bytesUsed..(bytesUsed + n - 1)
        BY <3>2 DEF BufferOK
      <4>2. ptr'[Slot(i - 1)'] = s[(i - 1) - bytesUsed + 1]
        BY <1>6, <4>1
      <4>3. (i - 1) - bytesUsed + 1 = i - bytesUsed
        BY DEF BufferOK
      <4>. QED
        BY <2>3, <3>2, <4>2, <4>3 DEF BufferOK
    <3>3. i <= bytesUsed \/ i > bytesUsed
      BY DEF BufferOK
    <3>. QED
      BY <3>1, <3>2, <3>3
  <2>6. Queue \o T = [i \in 1..(bytesUsed + n) |-> (Queue \o T)[i]]
    BY <2>3
  <2>. HIDE DEF T
  <2>7. Queue' = Queue \o T
    BY <2>4, <2>5, <2>6
  <2>. QED
    BY <2>7 DEF T
<1>. QED
  BY <1>1, <1>2, <1>7, <1>8 DEF BufferOK

\* Copying a segment out removes it from the head of the queue.
LEMMA CopyOutLemma ==
  ASSUME BufferOK, NEW n \in Nat, n <= bytesUsed, readPos + n <= Size,
         CopyOut(n)
  PROVE  /\ BufferOK'
         /\ Queue' = SubSeq(Queue, n + 1, Len(Queue))
         /\ Peek(n) = SubSeq(Queue, 1, n) /\ Peek(n) \in Seq(Byte)
         /\ Len(Peek(n)) = n
<1>. USE RingAssumption
<1>1. /\ ptr' = ptr
      /\ readPos' \in Pos /\ writePos' \in Pos
      /\ bytesUsed' \in 0..Size
  BY DEF BufferOK, CopyOut, Advance, Pos
<1>2. PositionsAgree'
  BY DEF BufferOK, PositionsAgree, CopyOut, Advance, Pos
<1>3. \A i \in 0..(bytesUsed - n - 1) : Slot(i)' = Slot(i + n)
  BY DEF BufferOK, Slot, CopyOut, Advance, Pos
<1>4. StoredBytesWritten'
  BY <1>1, <1>3 DEF BufferOK, StoredBytesWritten, CopyOut
<1>5. Queue \in Seq(Byte) /\ Len(Queue) = bytesUsed
  BY QueueType
<1>6. Queue' = SubSeq(Queue, n + 1, Len(Queue))
  <2>1. Queue' = [i \in 1..(bytesUsed - n) |-> ptr[Slot(i - 1)']]
    BY <1>1 DEF Queue, CopyOut
  <2>2. \A i \in 1..(bytesUsed - n) : ptr[Slot(i - 1)'] = Queue[i + n]
    <3>. SUFFICES ASSUME NEW i \in 1..(bytesUsed - n)
                  PROVE  ptr[Slot(i - 1)'] = Queue[i + n]
      OBVIOUS
    <3>1. i - 1 \in 0..(bytesUsed - n - 1) /\ i + n \in 1..bytesUsed
      BY DEF BufferOK
    <3>2. Slot(i - 1)' = Slot((i - 1) + n) /\ (i - 1) + n = (i + n) - 1
      BY <1>3, <3>1
    <3>. QED
      BY <3>1, <3>2 DEF Queue
  <2>3. SubSeq(Queue, n + 1, Len(Queue))
          = [i \in 1..(bytesUsed - n) |-> Queue[i + n]]
    BY <1>5 DEF BufferOK
  <2>. QED
    BY <2>1, <2>2, <2>3
<1>7. Peek(n) = SubSeq(Queue, 1, n)
  <2>1. \A i \in 1..n : Queue[i] = ptr[readPos + i - 1]
    <3>. SUFFICES ASSUME NEW i \in 1..n
                  PROVE  Queue[i] = ptr[readPos + i - 1]
      OBVIOUS
    <3>1. i \in 1..bytesUsed /\ Slot(i - 1) = readPos + i - 1
      BY DEF BufferOK, Slot, Pos
    <3>. QED
      BY <3>1 DEF Queue
  <2>2. SubSeq(Queue, 1, n) = [i \in 1..n |-> Queue[i]]
    BY <1>5 DEF BufferOK
  <2>. QED
    BY <2>1, <2>2 DEF Peek
<1>8. Peek(n) \in Seq(Byte) /\ Len(Peek(n)) = n
  BY <1>5, <1>7 DEF BufferOK
<1>. QED
  BY <1>1, <1>2, <1>4, <1>6, <1>7, <1>8 DEF BufferOK

-----------------------------------------------------------------------------
\* A counter stays below its modulus.
LEMMA CountType == ASSUME NEW c \in Nat, NEW n \in Nat
                   PROVE  Count(c, n) \in 0..(StatMod - 1)
  BY RingAssumption DEF Count

\* What callers pass is a sequence of bytes.
LEMMA DataType == ASSUME NEW s \in Data
                  PROVE  s \in Seq(Byte) /\ Len(s) \in Nat
<1>1. PICK n \in 0..MaxChunk : s \in [1..n -> Byte]
  BY DEF Data
<1>. QED
  BY <1>1, RingAssumption

\* WriteByte is a write of one byte.
LEMMA SingleByte == ASSUME NEW b \in Byte
                    PROVE  <<b>> \in Data /\ <<b>> \in Seq(Byte) /\ Len(<<b>>) = 1
<1>1. <<b>> \in [1..1 -> Byte] /\ 1 \in 0..MaxChunk
  BY RingAssumption
<1>2. <<b>> \in Data
  BY <1>1 DEF Data
<1>. QED
  BY <1>2

\* The part of the invariant about the buffer alone.
LEMMA InvBuffer == Inv => BufferOK
  BY DEF Inv, BufferOK, TypeOK

\* A new buffer is empty and idle.
LEMMA InitInv == Init => Inv
  BY RingAssumption
     DEF Init, Inv, TypeOK, PositionsAgree, StoredBytesWritten, JobInv, Pos

\* What the two loops do in one iteration.
LEMMA WriteLoopLemma ==
  ASSUME Inv, WriteLoop
  PROVE  \E n \in 1..Len(src) :
           /\ n <= Size - bytesUsed
           /\ src' = SubSeq(src, n + 1, Len(src)) /\ src' \in Seq(Byte)
           /\ BufferOK' /\ Queue' = Queue \o SubSeq(src, 1, n)
<1>. DEFINE n == Smaller(WriteSegment, Len(src))
<1>1. BufferOK /\ src \in Seq(Byte) /\ ~Full /\ src # <<>>
  BY InvBuffer DEF Inv, TypeOK, WriteLoop
<1>2. Len(src) \in Nat \ {0}
  BY <1>1
<1>3. /\ WriteSegment \in 1..(Size - bytesUsed)
      /\ writePos + WriteSegment <= Size
  BY <1>1, SegmentFacts
<1>4. /\ n \in 1..Len(src) /\ n <= Size - bytesUsed
      /\ writePos + n <= Size /\ n \in Nat
  BY <1>1, <1>2, <1>3, RingAssumption DEF Smaller, BufferOK, Pos
<1>5. CopyIn(src, n) /\ src' = SubSeq(src, n + 1, Len(src))
  BY DEF WriteLoop
<1>. HIDE DEF n
<1>6. BufferOK' /\ Queue' = Queue \o SubSeq(src, 1, n)
  BY <1>1, <1>4, <1>5, CopyInLemma
<1>7. src' \in Seq(Byte)
  BY <1>1, <1>4, <1>5
<1>. QED
  BY <1>4, <1>5, <1>6, <1>7

\* The same for an iteration of ReadBytes.
LEMMA ReadLoopLemma ==
  ASSUME Inv, ReadLoop
  PROVE  \E n \in 1..bytesUsed :
           /\ n <= want /\ want' = want - n
           /\ dst' = dst \o SubSeq(Queue, 1, n)
           /\ SubSeq(Queue, 1, n) \in Seq(Byte)
           /\ BufferOK' /\ Queue' = SubSeq(Queue, n + 1, Len(Queue))
<1>. DEFINE n == Smaller(ReadSegment, want)
<1>1. BufferOK /\ want \in Nat \ {0} /\ ~Empty
  BY InvBuffer DEF Inv, TypeOK, ReadLoop
<1>2. /\ ReadSegment \in 1..bytesUsed
      /\ readPos + ReadSegment <= Size
  BY <1>1, SegmentFacts
<1>3. /\ n \in 1..bytesUsed /\ n <= want /\ readPos + n <= Size /\ n \in Nat
  BY <1>1, <1>2, RingAssumption DEF Smaller, BufferOK, Pos
<1>4. CopyOut(n) /\ want' = want - n /\ dst' = dst \o Peek(n)
  BY DEF ReadLoop
<1>. HIDE DEF n
<1>5. /\ BufferOK' /\ Queue' = SubSeq(Queue, n + 1, Len(Queue))
      /\ Peek(n) = SubSeq(Queue, 1, n) /\ Peek(n) \in Seq(Byte)
  BY <1>1, <1>3, <1>4, CopyOutLemma
<1>. QED
  BY <1>3, <1>4, <1>5

\* Direct access moves at most one segment, so it stays inside the array.
LEMMA SkipWriteLemma ==
  ASSUME BufferOK, NEW s \in Seq(Byte), Len(s) <= MaxUnsegmentedWrite,
         CopyIn(s, Len(s))
  PROVE  /\ BufferOK' /\ Queue' = Queue \o s
         /\ Len(s) <= Size - bytesUsed
<1>1. Len(s) \in Nat /\ Len(s) <= Size - bytesUsed /\ writePos + Len(s) <= Size
  BY SegmentFacts, RingAssumption
     DEF MaxUnsegmentedWrite, Full, BufferOK, Pos
<1>2. BufferOK' /\ Queue' = Queue \o SubSeq(s, 1, Len(s))
  BY <1>1, CopyInLemma
<1>3. SubSeq(s, 1, Len(s)) = s
  OBVIOUS
<1>. QED
  BY <1>1, <1>2, <1>3

\* The same for reading.
LEMMA SkipReadLemma ==
  ASSUME BufferOK, NEW n \in Nat, n <= MaxUnsegmentedRead, CopyOut(n)
  PROVE  /\ BufferOK' /\ n <= bytesUsed
         /\ Queue' = SubSeq(Queue, n + 1, Len(Queue))
         /\ Peek(n) = SubSeq(Queue, 1, n) /\ Peek(n) \in Seq(Byte)
<1>1. n <= bytesUsed /\ readPos + n <= Size
  BY SegmentFacts, RingAssumption DEF MaxUnsegmentedRead, Empty, BufferOK, Pos
<1>. QED
  BY <1>1, CopyOutLemma

-----------------------------------------------------------------------------
\* Every step keeps Inv and is a step of the byte queue.
LEMMA StepLemma ==
  ASSUME Inv, [Next]_vars
  PROVE  Inv' /\ [Fifo!FifoNext]_(Fifo!fifoVars)
<1>. DEFINE Goal == Inv' /\ [Fifo!FifoNext]_(Fifo!fifoVars)
<1>. USE RingAssumption
<1>a. BufferOK /\ TypeOK /\ JobInv
  BY InvBuffer DEF Inv
<1>b. Queue \in Seq(Byte) /\ Len(Queue) = bytesUsed
  BY <1>a, QueueType
<1>c. ASSUME BufferOK', JobInv',
             maxBytesUsed' \in 0..Size, emptyCounter' \in 0..(StatMod - 1),
             fullCounter' \in 0..(StatMod - 1), throughput' \in 0..(StatMod - 1),
             job' \in {"idle", "write", "read"}, src' \in Seq(Byte),
             want' \in Nat, dst' \in Seq(Byte \cup {Unset})
      PROVE  Inv'
  BY <1>c DEF Inv, TypeOK, BufferOK
<1>d. UNCHANGED buffer => BufferOK' /\ Queue' = Queue
  BY <1>a DEF buffer, BufferOK, PositionsAgree, StoredBytesWritten, Slot, Queue
<1>e. \A q \in Seq(Byte) : q \in Seq(Byte \cup {Unset})
  OBVIOUS
<1>f. <<>> \in Seq(Byte)
  OBVIOUS
<1>1. ASSUME NEW s \in Data, WriteBytes(s) PROVE Goal
  <2>1. BufferOK' /\ Queue' = Queue
    BY <1>1, <1>d DEF WriteBytes
  <2>2. Inv'
    BY <1>1, <1>a, <1>c, <1>e, <1>f, <2>1, DataType
       DEF WriteBytes, TypeOK, JobInv, stats
  <2>3. Fifo!BeginWrite(s)
    BY <1>1, <1>a, <2>1 DEF WriteBytes, JobInv, Fifo!BeginWrite, Queue
  <2>. QED
    BY <2>2, <2>3 DEF Fifo!FifoNext
<1>2. CASE WriteLoop
  <2>1. PICK n \in 1..Len(src) :
           /\ n <= Size - bytesUsed
           /\ src' = SubSeq(src, n + 1, Len(src)) /\ src' \in Seq(Byte)
           /\ BufferOK' /\ Queue' = Queue \o SubSeq(src, 1, n)
    BY <1>2, WriteLoopLemma
  <2>2. Inv'
    BY <1>2, <1>a, <1>c, <2>1 DEF WriteLoop, TypeOK, JobInv, stats
  <2>3. n \in Nat /\ bytesUsed \in Nat /\ Len(Queue) + n <= Size
    BY <1>a, <1>b, <2>1 DEF TypeOK
  <2>4. Fifo!Store(n)
    BY <1>2, <2>1, <2>3 DEF WriteLoop, Fifo!Store, Queue
  <2>. QED
    BY <2>2, <2>4 DEF Fifo!FifoNext
<1>3. CASE WriteReturn
  <2>1. BufferOK' /\ Queue' = Queue
    BY <1>3, <1>d DEF WriteReturn
  <2>2. Inv'
    BY <1>3, <1>a, <1>c, <1>f, <2>1 DEF WriteReturn, TypeOK, JobInv
  <2>3. src # <<>> => Len(Queue) = Size
    BY <1>3, <1>a, <1>b DEF WriteReturn, Full, TypeOK
  <2>4. Fifo!EndWrite
    BY <1>3, <2>1, <2>3 DEF WriteReturn, Fifo!EndWrite, Queue
  <2>. QED
    BY <2>2, <2>4 DEF Fifo!FifoNext
<1>4. ASSUME NEW n \in 0..MaxChunk, ReadBytes(n) PROVE Goal
  <2>1. BufferOK' /\ Queue' = Queue
    BY <1>4, <1>d DEF ReadBytes
  <2>2. Inv'
    BY <1>4, <1>a, <1>c, <1>e, <1>f, <2>1 DEF ReadBytes, TypeOK, JobInv, stats
  <2>3. Fifo!BeginRead(n)
    BY <1>4, <1>a, <2>1 DEF ReadBytes, JobInv, Fifo!BeginRead, Queue
  <2>. QED
    BY <2>2, <2>3 DEF Fifo!FifoNext
<1>5. CASE ReadLoop
  <2>1. PICK n \in 1..bytesUsed :
           /\ n <= want /\ want' = want - n
           /\ dst' = dst \o SubSeq(Queue, 1, n)
           /\ SubSeq(Queue, 1, n) \in Seq(Byte)
           /\ BufferOK' /\ Queue' = SubSeq(Queue, n + 1, Len(Queue))
    BY <1>5, ReadLoopLemma
  <2>2. want' \in Nat
    BY <1>a, <2>1 DEF TypeOK
  <2>3. dst' \in Seq(Byte \cup {Unset})
    BY <1>a, <1>e, <2>1 DEF TypeOK
  <2>4. Inv'
    BY <1>5, <1>a, <1>c, <2>1, <2>2, <2>3 DEF ReadLoop, TypeOK, JobInv, stats
  <2>5. Fifo!Fetch(n) /\ n \in 1..Len(Queue)
    BY <1>5, <1>b, <2>1 DEF ReadLoop, Fifo!Fetch, Queue
  <2>. QED
    BY <2>4, <2>5 DEF Fifo!FifoNext, Queue
<1>6. CASE ReadReturn
  <2>1. BufferOK' /\ Queue' = Queue
    BY <1>6, <1>d DEF ReadReturn
  <2>2. throughput' \in 0..(StatMod - 1)
    BY <1>6, <1>a, CountType DEF ReadReturn, TypeOK
  <2>3. Inv'
    BY <1>6, <1>a, <1>c, <2>1, <2>2 DEF ReadReturn, TypeOK, JobInv
  <2>4. want # 0 => Queue = <<>>
    BY <1>6, <1>b DEF ReadReturn, Empty
  <2>5. Fifo!EndRead
    BY <1>6, <2>1, <2>4 DEF ReadReturn, Fifo!EndRead, Queue
  <2>. QED
    BY <2>3, <2>5 DEF Fifo!FifoNext
<1>7. ASSUME NEW s \in Data, SkipBytesWrite(s) PROVE Goal
  <2>1. s \in Seq(Byte) /\ Len(s) \in Nat
    BY DataType
  <2>2. /\ BufferOK' /\ Queue' = Queue \o s
        /\ Len(s) <= Size - bytesUsed
    BY <1>7, <1>a, <2>1, SkipWriteLemma DEF SkipBytesWrite
  <2>3. maxBytesUsed' \in 0..Size
    BY <1>7, <1>a, <2>2 DEF SkipBytesWrite, HighWater, TypeOK, BufferOK
  <2>4. Inv'
    BY <1>7, <1>a, <1>c, <1>e, <1>f, <2>2, <2>3 DEF SkipBytesWrite, TypeOK, JobInv
  <2>5. Len(Queue) + Len(s) <= Size
    BY <1>a, <1>b, <2>1, <2>2 DEF TypeOK
  <2>6. Fifo!StoreAll(s)
    BY <1>7, <1>a, <2>2, <2>5 DEF SkipBytesWrite, JobInv, Fifo!StoreAll, Queue
  <2>. QED
    BY <2>4, <2>6 DEF Fifo!FifoNext
<1>8. ASSUME NEW n \in 0..MaxChunk, SkipBytesRead(n) PROVE Goal
  <2>1. /\ BufferOK' /\ n <= bytesUsed
        /\ Queue' = SubSeq(Queue, n + 1, Len(Queue))
        /\ Peek(n) = SubSeq(Queue, 1, n) /\ Peek(n) \in Seq(Byte)
    BY <1>8, <1>a, SkipReadLemma DEF SkipBytesRead
  <2>2. throughput' \in 0..(StatMod - 1) /\ dst' \in Seq(Byte \cup {Unset})
    <3>1. throughput' = Count(throughput, n) /\ dst' = Peek(n)
      BY <1>8 DEF SkipBytesRead
    <3>2. throughput \in Nat /\ n \in Nat
      BY <1>a DEF TypeOK
    <3>. QED
      BY <1>e, <2>1, <3>1, <3>2, CountType
  <2>3. Inv'
    BY <1>8, <1>a, <1>c, <2>1, <2>2 DEF SkipBytesRead, TypeOK, JobInv
  <2>4. Fifo!FetchAll(n)
    BY <1>8, <1>a, <1>b, <2>1 DEF SkipBytesRead, JobInv, Fifo!FetchAll, Queue
  <2>. QED
    BY <2>3, <2>4 DEF Fifo!FifoNext
<1>9. ASSUME NEW b \in Byte, WriteByte(b) PROVE Goal
  <2>1. <<b>> \in Data /\ <<b>> \in Seq(Byte) /\ Len(<<b>>) = 1
    BY SingleByte
  <2>2. Len(<<b>>) <= MaxUnsegmentedWrite
    BY <1>9, <1>a, <2>1, SegmentFacts DEF WriteByte, MaxUnsegmentedWrite
  <2>3. CopyIn(<<b>>, Len(<<b>>))
    BY <1>9, <2>1 DEF WriteByte
  <2>4. /\ BufferOK' /\ Queue' = Queue \o <<b>>
        /\ Len(<<b>>) <= Size - bytesUsed
    BY <1>a, <2>1, <2>2, <2>3, SkipWriteLemma
  <2>5. maxBytesUsed' \in 0..Size
    BY <1>9, <1>a, <2>4 DEF WriteByte, HighWater, TypeOK, BufferOK
  <2>6. Inv'
    BY <1>9, <1>a, <1>c, <1>e, <1>f, <2>4, <2>5 DEF WriteByte, TypeOK, JobInv
  <2>7. Len(Queue) + Len(<<b>>) <= Size
    BY <1>a, <1>b, <2>1, <2>4 DEF TypeOK
  <2>8. Fifo!StoreAll(<<b>>)
    BY <1>9, <1>a, <2>4, <2>7 DEF WriteByte, JobInv, Fifo!StoreAll, Queue
  <2>. QED
    BY <2>1, <2>6, <2>8 DEF Fifo!FifoNext
<1>10. CASE ReadByte
  <2>1. 1 <= MaxUnsegmentedRead /\ 1 \in 0..MaxChunk
    BY <1>10, <1>a, SegmentFacts DEF ReadByte, MaxUnsegmentedRead
  <2>2. /\ BufferOK' /\ 1 <= bytesUsed
        /\ Queue' = SubSeq(Queue, 1 + 1, Len(Queue))
        /\ Peek(1) = SubSeq(Queue, 1, 1) /\ Peek(1) \in Seq(Byte)
    BY <1>10, <1>a, <2>1, SkipReadLemma DEF ReadByte
  <2>3. throughput' \in 0..(StatMod - 1) /\ dst' \in Seq(Byte \cup {Unset})
    <3>1. throughput' = Count(throughput, 1) /\ dst' = Peek(1)
      BY <1>10 DEF ReadByte
    <3>2. throughput \in Nat
      BY <1>a DEF TypeOK
    <3>. QED
      BY <1>e, <2>2, <3>1, <3>2, CountType
  <2>4. Inv'
    BY <1>10, <1>a, <1>c, <2>2, <2>3 DEF ReadByte, TypeOK, JobInv
  <2>5. Fifo!FetchAll(1)
    BY <1>10, <1>a, <1>b, <2>2 DEF ReadByte, JobInv, Fifo!FetchAll, Queue
  <2>. QED
    BY <2>1, <2>4, <2>5 DEF Fifo!FifoNext
<1>11. CASE RefuseWrite \/ RefuseRead \/ ResetStatistics
  <2>1. BufferOK' /\ Queue' = Queue /\ UNCHANGED caller
    BY <1>11, <1>d DEF RefuseWrite, RefuseRead, ResetStatistics
  <2>2. /\ emptyCounter' \in 0..(StatMod - 1)
        /\ fullCounter' \in 0..(StatMod - 1)
        /\ throughput' \in 0..(StatMod - 1)
        /\ maxBytesUsed' \in 0..Size
    <3>0. emptyCounter \in Nat /\ fullCounter \in Nat /\ 1 \in Nat
      BY <1>a DEF TypeOK
    <3>1. Count(emptyCounter, 1) \in 0..(StatMod - 1)
      BY <3>0, CountType
    <3>2. Count(fullCounter, 1) \in 0..(StatMod - 1)
      BY <3>0, CountType
    <3>. QED
      BY <1>11, <1>a, <3>1, <3>2
         DEF RefuseWrite, RefuseRead, ResetStatistics, TypeOK
  <2>3. Inv'
    BY <1>a, <1>c, <2>1, <2>2 DEF TypeOK, JobInv, caller
  <2>. QED
    BY <2>1, <2>3 DEF caller, Fifo!fifoVars, Queue
<1>12. CASE Reset
  <2>1. BufferOK' /\ bytesUsed' = 0
    BY <1>12, <1>a
       DEF Reset, BufferOK, PositionsAgree, StoredBytesWritten, Pos
  <2>2. Queue' = <<>>
    BY <2>1, QueueType DEF Queue
  <2>3. Inv'
    BY <1>12, <1>a, <1>c, <1>e, <1>f, <2>1 DEF Reset, TypeOK, JobInv
  <2>4. Fifo!Clear
    BY <1>12, <1>a, <2>2 DEF Reset, JobInv, Fifo!Clear, Queue
  <2>. QED
    BY <2>3, <2>4 DEF Fifo!FifoNext
<1>13. CASE UNCHANGED vars
  <2>1. BufferOK' /\ Queue' = Queue /\ UNCHANGED <<stats, caller>>
    BY <1>13, <1>d DEF vars
  <2>2. Inv'
    BY <1>a, <1>c, <2>1 DEF TypeOK, JobInv, caller, stats
  <2>. QED
    BY <2>1, <2>2 DEF caller, Fifo!fifoVars, Queue
<1>. QED
  BY <1>1, <1>2, <1>3, <1>4, <1>5, <1>6, <1>7, <1>8, <1>9, <1>10, <1>11,
     <1>12, <1>13 DEF Next

\* The inductive invariant holds in every reachable state.
THEOREM InvHolds == Spec => []Inv
<1>1. Inv /\ [Next]_vars => Inv'
  BY StepLemma
<1>. QED
  BY <1>1, InitInv, PTL DEF Spec

\* The positions stay inside the array and bytesUsed within the size.
THEOREM TypeCorrect == Spec => []TypeOK
<1>1. Inv => TypeOK
  BY DEF Inv
<1>. QED
  BY <1>1, InvHolds, PTL

\* No stored byte is uninitialised memory, whatever the size of the buffer.
THEOREM NoUninitialisedRead == Spec => []StoredBytesWritten
<1>1. Inv => StoredBytesWritten
  BY DEF Inv
<1>. QED
  BY <1>1, InvHolds, PTL

\* Every iteration of WriteBytes and ReadBytes copies at least one byte.
THEOREM LoopProgress == Spec => []LoopsProgress
<1>1. Inv => LoopsProgress
  BY InvBuffer, SegmentFacts DEF LoopsProgress
<1>. QED
  BY <1>1, InvHolds, PTL

\* The ring buffer implements a byte queue of capacity Size.
THEOREM Refinement == Spec => FifoSpec
<1>1. Init => Fifo!FifoInit
  BY DEF Init, Fifo!FifoInit
<1>2. Inv /\ [Next]_vars => [Fifo!FifoNext]_(Fifo!fifoVars)
  BY StepLemma
<1>. QED
  BY <1>1, <1>2, InvHolds, PTL DEF Spec, FifoSpec, Fifo!FifoSpec
=============================================================================
