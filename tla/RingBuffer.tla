----------------------------- MODULE RingBuffer -----------------------------
(***************************************************************************)
(* src/base/ringbuffer.c: a byte queue in a circular array.                *)
(*                                                                         *)
(* WriteBytes and ReadBytes copy segment by segment; an iteration of their *)
(* loops is a step, so that the index arithmetic of every segment and the  *)
(* termination of the loops are visible.  job says which call is running.  *)
(***************************************************************************)
EXTENDS Integers, Sequences

CONSTANTS Byte,        \* the values of a byte
          Unset,       \* memory malloc() has returned and nobody has written
          Size,        \* bufferSize
          MaxChunk,    \* bound on the size a caller passes
          StatMod      \* the statistics are unsigned: they count modulo this

ASSUME RingAssumption ==
  /\ Size \in Nat \ {0} /\ MaxChunk \in Nat \ {0} /\ StatMod \in Nat \ {0}
  /\ Unset \notin Byte

VARIABLES ptr, readPos, writePos, bytesUsed,            \* the buffer
          maxBytesUsed, emptyCounter, fullCounter, throughput,
          job,       \* "idle", "write" or "read"
          src,       \* the caller's bytes WriteBytes has yet to store
          want,      \* bytesLeft of ReadBytes
          dst        \* what the current or last read has delivered

buffer == <<ptr, readPos, writePos, bytesUsed>>
stats  == <<maxBytesUsed, emptyCounter, fullCounter, throughput>>
caller == <<job, src, want, dst>>
vars   == <<buffer, stats, caller>>

Pos == 0..(Size - 1)

Data == UNION {[1..n -> Byte] : n \in 0..MaxChunk}

TypeOK ==
  /\ ptr \in [Pos -> Byte \cup {Unset}]
  /\ readPos \in Pos /\ writePos \in Pos
  /\ bytesUsed \in 0..Size
  /\ maxBytesUsed \in 0..Size
  /\ emptyCounter \in 0..(StatMod - 1)
  /\ fullCounter \in 0..(StatMod - 1)
  /\ throughput \in 0..(StatMod - 1)
  /\ job \in {"idle", "write", "read"}
  /\ src \in Seq(Byte)
  /\ want \in Nat
  /\ dst \in Seq(Byte \cup {Unset})

\* GWEN_RingBuffer_new (GWEN_NEW_OBJECT zeroes the structure)
Init ==
  /\ ptr = [i \in Pos |-> Unset]
  /\ readPos = 0 /\ writePos = 0 /\ bytesUsed = 0
  /\ maxBytesUsed = 0 /\ emptyCounter = 0 /\ fullCounter = 0 /\ throughput = 0
  /\ job = "idle" /\ src = <<>> /\ want = 0 /\ dst = <<>>

-----------------------------------------------------------------------------
(* Segments                                                                *)

\* Slip: > for >=.
MutWriteSegment == IF writePos > readPos THEN Size - writePos
                                         ELSE readPos - writePos

\* Bytes from writePos up to the read position or the end of the array.
WriteSegment == IF writePos >= readPos THEN Size - writePos
                                       ELSE readPos - writePos

ReadSegment == IF readPos >= writePos THEN Size - readPos
                                      ELSE writePos - readPos

\* Slip: > for >=.
MutAdvance(p, n) == IF p + n > Size THEN 0 ELSE p + n

\* The new position after n bytes from position p.
Advance(p, n) == IF p + n >= Size THEN 0 ELSE p + n

Smaller(m, n) == IF m > n THEN n ELSE m

Count(c, n) == (c + n) % StatMod

Full == Size - bytesUsed = 0
Empty == bytesUsed = 0

\* Slip: one byte too few is copied.
MutCopyIn(s, n) ==
  /\ ptr' = [i \in Pos |-> IF i \in writePos..(writePos + n - 2)
                           THEN s[i - writePos + 1] ELSE ptr[i]]
  /\ writePos' = Advance(writePos, n)
  /\ bytesUsed' = bytesUsed + n
  /\ UNCHANGED readPos

\* memmove(ptr + writePos, s, n) and the bookkeeping after it
CopyIn(s, n) ==
  /\ ptr' = [i \in Pos |-> IF i \in writePos..(writePos + n - 1)
                           THEN s[i - writePos + 1] ELSE ptr[i]]
  /\ writePos' = Advance(writePos, n)
  /\ bytesUsed' = bytesUsed + n
  /\ UNCHANGED readPos

\* n bytes from ptr + readPos
Peek(n) == [i \in 1..n |-> ptr[readPos + i - 1]]

CopyOut(n) ==
  /\ readPos' = Advance(readPos, n)
  /\ bytesUsed' = bytesUsed - n
  /\ UNCHANGED <<ptr, writePos>>

HighWater == maxBytesUsed' =
               IF bytesUsed' > maxBytesUsed THEN bytesUsed' ELSE maxBytesUsed

-----------------------------------------------------------------------------
(* GWEN_RingBuffer_WriteBytes and _ReadBytes                               *)

WriteBytes(s) ==
  /\ job = "idle" /\ ~Full
  /\ job' = "write" /\ src' = s /\ dst' = <<>>
  /\ UNCHANGED <<buffer, stats, want>>

WriteLoop ==
  /\ job = "write" /\ src # <<>> /\ ~Full
  /\ LET n == Smaller(WriteSegment, Len(src))
     IN  /\ CopyIn(src, n)
         /\ src' = SubSeq(src, n + 1, Len(src))
  /\ UNCHANGED <<stats, job, want, dst>>

WriteReturn ==
  /\ job = "write" /\ (src = <<>> \/ Full)
  /\ job' = "idle" /\ src' = <<>>
  /\ maxBytesUsed' = IF bytesUsed > maxBytesUsed THEN bytesUsed
                                                 ELSE maxBytesUsed
  /\ UNCHANGED <<buffer, emptyCounter, fullCounter, throughput, want, dst>>

\* ReadBytes(n): the loop copies, the counters follow at the end.
ReadBytes(n) ==
  /\ job = "idle" /\ ~Empty
  /\ job' = "read" /\ want' = n /\ dst' = <<>>
  /\ UNCHANGED <<buffer, stats, src>>

ReadLoop ==
  /\ job = "read" /\ want # 0 /\ ~Empty
  /\ LET n == Smaller(ReadSegment, want)
     IN  /\ dst' = dst \o Peek(n)
         /\ CopyOut(n)
         /\ want' = want - n
  /\ UNCHANGED <<stats, job, src>>

ReadReturn ==
  /\ job = "read" /\ (want = 0 \/ Empty)
  /\ job' = "idle" /\ want' = 0
  /\ throughput' = Count(throughput, Len(dst))
  /\ UNCHANGED <<buffer, maxBytesUsed, emptyCounter, fullCounter, src, dst>>

-----------------------------------------------------------------------------
(* Single bytes                                                            *)

WriteByte(b) ==
  /\ job = "idle" /\ ~Full
  /\ CopyIn(<<b>>, 1)
  /\ HighWater
  /\ dst' = <<>>
  /\ UNCHANGED <<emptyCounter, fullCounter, throughput, job, src, want>>

ReadByte ==
  /\ job = "idle" /\ ~Empty
  /\ dst' = Peek(1)
  /\ CopyOut(1)
  /\ throughput' = Count(throughput, 1)
  /\ UNCHANGED <<maxBytesUsed, emptyCounter, fullCounter, job, src, want>>

\* WriteBytes, WriteByte and GetMaxUnsegmentedWrite on a full buffer
RefuseWrite ==
  /\ job = "idle" /\ Full
  /\ fullCounter' = Count(fullCounter, 1)
  /\ UNCHANGED <<buffer, maxBytesUsed, emptyCounter, throughput, caller>>

\* ReadBytes, ReadByte and GetMaxUnsegmentedRead on an empty buffer
RefuseRead ==
  /\ job = "idle" /\ Empty
  /\ emptyCounter' = Count(emptyCounter, 1)
  /\ UNCHANGED <<buffer, maxBytesUsed, fullCounter, throughput, caller>>

-----------------------------------------------------------------------------
(* Direct access: the caller writes at GetWritePointer, or reads at        *)
(* GetReadPointer, at most what GetMaxUnsegmentedWrite or ...Read said and *)
(* then skips.                                                             *)

MaxUnsegmentedWrite == IF Full THEN 0 ELSE WriteSegment
MaxUnsegmentedRead  == IF Empty THEN 0 ELSE ReadSegment

SkipBytesWrite(s) ==
  /\ job = "idle" /\ Len(s) <= MaxUnsegmentedWrite
  /\ CopyIn(s, Len(s))
  /\ HighWater
  /\ dst' = <<>>
  /\ UNCHANGED <<emptyCounter, fullCounter, throughput, job, src, want>>

SkipBytesRead(n) ==
  /\ job = "idle" /\ n <= MaxUnsegmentedRead
  /\ dst' = Peek(n)
  /\ CopyOut(n)
  /\ throughput' = Count(throughput, n)
  /\ UNCHANGED <<maxBytesUsed, emptyCounter, fullCounter, job, src, want>>

-----------------------------------------------------------------------------
(* Statistics and GWEN_RingBuffer_Reset                                    *)

ResetStatistics ==
  /\ job = "idle"
  /\ \/ maxBytesUsed' = 0 /\ UNCHANGED <<emptyCounter, fullCounter, throughput>>
     \/ emptyCounter' = 0 /\ UNCHANGED <<maxBytesUsed, fullCounter, throughput>>
     \/ fullCounter' = 0 /\ UNCHANGED <<maxBytesUsed, emptyCounter, throughput>>
     \/ throughput' = 0 /\ UNCHANGED <<maxBytesUsed, emptyCounter, fullCounter>>
  /\ UNCHANGED <<buffer, caller>>

Reset ==
  /\ job = "idle"
  /\ readPos' = 0 /\ writePos' = 0 /\ bytesUsed' = 0
  /\ maxBytesUsed' = 0 /\ emptyCounter' = 0 /\ fullCounter' = 0
  /\ throughput' = 0
  /\ dst' = <<>>
  /\ UNCHANGED <<ptr, job, src, want>>

-----------------------------------------------------------------------------
Next ==
  \/ \E s \in Data : WriteBytes(s) \/ SkipBytesWrite(s)
  \/ \E n \in 0..MaxChunk : ReadBytes(n) \/ SkipBytesRead(n)
  \/ WriteLoop \/ WriteReturn \/ ReadLoop \/ ReadReturn
  \/ \E b \in Byte : WriteByte(b)
  \/ ReadByte \/ RefuseWrite \/ RefuseRead \/ ResetStatistics \/ Reset

Spec == Init /\ [][Next]_vars

\* A call that has begun runs to its end.
FairSpec == Spec /\ WF_vars(WriteLoop \/ WriteReturn \/ ReadLoop \/ ReadReturn)

-----------------------------------------------------------------------------
(* Properties                                                              *)

\* The write position lies bytesUsed bytes after the read position, modulo
\* the size: readPos = writePos means full or empty, and bytesUsed says which.
PositionsAgree ==
  writePos = IF readPos + bytesUsed >= Size THEN readPos + bytesUsed - Size
                                            ELSE readPos + bytesUsed

\* Where the i-th stored byte lies, counting from 0.
Slot(i) == IF readPos + i >= Size THEN readPos + i - Size ELSE readPos + i

\* Every stored byte was written by somebody: no read returns memory that
\* malloc() left uninitialised, and no segment runs past its end.
StoredBytesWritten == \A i \in 0..(bytesUsed - 1) : ptr[Slot(i)] \in Byte

\* Every iteration of the two loops copies at least one byte: a segment of
\* length 0 would make GWEN_RingBuffer_WriteBytes or _ReadBytes spin.
LoopsProgress ==
  /\ job = "write" /\ ~Full => WriteSegment > 0
  /\ job = "read" /\ ~Empty => ReadSegment > 0

\* Every WriteBytes and ReadBytes returns.
CallsReturn == job # "idle" ~> job = "idle"

\* The circular array implements a bounded byte queue.
Fifo == INSTANCE ByteFifo WITH
          queue <- [i \in 1..bytesUsed |-> ptr[Slot(i - 1)]]

FifoSpec == Fifo!FifoSpec
=============================================================================
