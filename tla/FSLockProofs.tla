---------------------------- MODULE FSLockProofs ----------------------------
(***************************************************************************)
(* Mutual exclusion of the lock-file protocol, that it implements          *)
(* LockService, and that its calls clean up after themselves, for any      *)
(* number of objects, processes, crashes and faults.                       *)
(***************************************************************************)
EXTENDS FSLock, TLAPS

\* One thread per process: at most one object is between two system calls.
OneThread ==
  \A o, q \in Obj : /\ ProcOf[o] = ProcOf[q]
                    /\ pc[o] \in Syscalls /\ pc[q] \in Syscalls
                    => o = q

\* A holder is outside the attempt and the removal of the files, and a call
\* that has begun has room for one more lockCount.
CallOK(o) == /\ Holds(o) => pc[o] \in {"idle", "try"}
             /\ pc[o] # "idle" => lockCount[o] < MaxCount

CallInv == \A o \in Obj : CallOK(o)

\* The link count read before link() bounds the one seen after a link() that
\* did not create the lock file.
LinkOK(o) == /\ pc[o] = "link" => NLink(U(o)) <= linkCount[o]
             /\ pc[o] = "check" => base = o \/ NLink(U(o)) <= linkCount[o]

\* The lock file is that of the object that holds or is releasing the lock.
OwnerOK(o) == Holds(o) \/ pc[o] = "rmBase" => base = o

FileInv == \A o \in Obj : LinkOK(o) /\ OwnerOK(o)

Inv == /\ TypeOK
       /\ OneThread
       /\ CallInv
       /\ stolen \/ FileInv

-----------------------------------------------------------------------------
\* st_nlink of a unique file is at most 2: its own name and the lock file.
LEMMA NLinkType == ASSUME NEW u \in {"none", "own", "linked"}
                   PROVE  NLink(u) \in 0..2
  BY DEF NLink

\* Initially no object is in a call and nothing exists.
LEMMA InitInv == Init => Inv
<1>. SUFFICES ASSUME Init PROVE Inv
  OBVIOUS
<1>1. TypeOK
  <2>1. /\ asked \in [Obj -> BOOLEAN]
        /\ linkOk \in BOOLEAN
        /\ stolen \in BOOLEAN
    BY Zenon DEF Init
  <2>2. /\ usage \in [Obj -> 0..MaxUsage]
        /\ lockCount \in [Obj -> 0..MaxCount]
        /\ linkCount \in [Obj -> 0..2]
        /\ waited \in [Obj -> Nat]
        /\ crashes \in 0..MaxCrashes
    BY FSLockAssumption DEF Init
  <2>3. /\ base \in Obj \cup {Stale, NoFile}
        /\ uniq \in [Proc -> {"none", "own", "linked"}]
        /\ pc \in [Obj -> PCs]
        /\ tmo \in [Obj -> TimeoutKinds]
        /\ res \in [Obj -> Results]
    BY DEF Init, Syscalls, PCs, TimeoutKinds, Results
  <2>. QED
    BY <2>1, <2>2, <2>3 DEF TypeOK
<1>2. OneThread /\ CallInv /\ FileInv
  BY FSLockAssumption
     DEF Init, OneThread, CallInv, CallOK, FileInv, LinkOK, OwnerOK, Holds,
         Syscalls
<1>. QED
  BY <1>1, <1>2 DEF Inv

\* The type invariant needs CallInv: lockCount grows steps after its guard.
LEMMA TypeStep == ASSUME TypeOK, CallInv, [Next]_vars
                  PROVE  TypeOK'
<1>. USE FSLockAssumption
         DEF TypeOK, CallInv, CallOK, Holds, At, MayRun, Goto, Return, locals, files,
             call, ghost, SetUniq, U, PCs, Syscalls, Results, TimeoutKinds
<1>1. ASSUME NEW o \in Obj, Step(o) PROVE TypeOK'
  <2>a. ProcOf[o] \in Proc /\ U(o) \in {"none", "own", "linked"}
    OBVIOUS
  <2>1. CASE Reenter(o)
    BY <2>1 DEF Reenter
  <2>2. CASE OpenUnique(o)
    BY <2>2 DEF OpenUnique
  <2>3. CASE OpenUniqueFails(o)
    BY <2>3 DEF OpenUniqueFails
  <2>4. CASE StatUnique(o)
    BY <2>4, <2>a, NLinkType DEF StatUnique
  <2>5. CASE StatUniqueFails(o)
    BY <2>5 DEF StatUniqueFails
  <2>6. CASE LinkBase(o)
    BY <2>6 DEF LinkBase, Acquire
  <2>7. CASE LinkBaseReplyLost(o)
    BY <2>7 DEF LinkBaseReplyLost
  <2>8. CASE LinkBaseFails(o)
    BY <2>8 DEF LinkBaseFails
  <2>9. CASE LinkUnsupported(o)
    BY <2>9 DEF LinkUnsupported
  <2>10. CASE CheckLink(o)
    <3>1. CASE LinkWasMade(o)
      <4>1. Acquire(o) /\ UNCHANGED <<base, uniq, linkOk, usage, ghost>>
        BY <2>10, <3>1 DEF CheckLink
      <4>2. pc[o] = "check"
        BY <2>10 DEF CheckLink
      <4>. QED
        BY <4>1, <4>2 DEF Acquire
    <3>2. CASE ~LinkWasMade(o)
      BY <2>10, <3>2 DEF CheckLink, Abandoned
    <3>. QED
      BY <3>1, <3>2
  <2>11. CASE CheckLinkFails(o)
    BY <2>11 DEF CheckLinkFails, Abandoned
  <2>12. CASE ExclBase(o)
    <3>1. CASE base = NoFile
      <4>1. /\ base' = o /\ Acquire(o)
            /\ UNCHANGED <<uniq, linkOk, usage, ghost>>
        BY <2>12, <3>1 DEF ExclBase
      <4>2. pc[o] = "excl"
        BY <2>12 DEF ExclBase
      <4>. QED
        BY <4>1, <4>2 DEF Acquire
    <3>2. CASE base # NoFile
      BY <2>12, <3>2 DEF ExclBase
    <3>. QED
      BY <3>1, <3>2
  <2>13. CASE UserAbort(o)
    BY <2>13 DEF UserAbort
  <2>14. CASE BusyReturn(o)
    BY <2>14 DEF BusyReturn
  <2>15. CASE BusyTimeout(o)
    BY <2>15 DEF BusyTimeout
  <2>16. CASE BusyAsk(o)
    BY <2>16 DEF BusyAsk
  <2>17. CASE BusyWait(o)
    BY <2>17 DEF BusyWait
  <2>18. CASE WakeUp(o)
    BY <2>18 DEF WakeUp
  <2>19. CASE AnswerWait(o)
    BY <2>19 DEF AnswerWait
  <2>20. CASE AnswerAbort(o)
    BY <2>20 DEF AnswerAbort
  <2>21. CASE AnswerRemove(o)
    BY <2>21 DEF AnswerRemove
  <2>22. CASE BreakBase(o)
    BY <2>22 DEF BreakBase, DropBase
  <2>23. CASE BreakUnique(o)
    BY <2>23 DEF BreakUnique
  <2>24. CASE RemoveBase(o)
    BY <2>24 DEF RemoveBase, DropBase
  <2>25. CASE RemoveUnique(o)
    BY <2>25 DEF RemoveUnique
  <2>. QED
    BY <1>1, <2>1, <2>2, <2>3, <2>4, <2>5, <2>6, <2>7, <2>8, <2>9, <2>10,
       <2>11, <2>12, <2>13, <2>14, <2>15, <2>16, <2>17, <2>18, <2>19, <2>20,
       <2>21, <2>22, <2>23, <2>24, <2>25 DEF Step
<1>2. ASSUME NEW o \in Obj, Begin(o) PROVE TypeOK'
  <2>1. CASE New(o)
    BY <2>1 DEF New
  <2>2. CASE Attach(o)
    BY <2>2 DEF Attach
  <2>3. CASE Free(o)
    BY <2>3 DEF Free, Abandoned
  <2>4. ASSUME NEW t \in Timeouts, Lock(o, t) PROVE TypeOK'
    BY <2>4 DEF Lock
  <2>5. CASE UnlockNotHeld(o)
    BY <2>5 DEF UnlockNotHeld
  <2>6. CASE Unlock(o)
    <3>1. CASE lockCount[o] = 1
      BY <2>6, <3>1 DEF Unlock
    <3>2. CASE lockCount[o] # 1
      <4>1. /\ Return(o, "ok") /\ Holds(o)
            /\ lockCount' = [lockCount EXCEPT ![o] = @ - 1]
            /\ UNCHANGED <<files, usage, ghost>>
        BY <2>6, <3>2 DEF Unlock
      <4>. QED
        BY <4>1
    <3>. QED
      BY <3>1, <3>2
  <2>7. CASE Signal(o)
    BY <2>7 DEF Signal
  <2>. QED
    BY <1>2, <2>1, <2>2, <2>3, <2>4, <2>5, <2>6, <2>7 DEF Begin
<1>3. ASSUME NEW p \in Proc, Crash(p) PROVE TypeOK'
  <2>1. asked' \in [Obj -> BOOLEAN]
    BY <1>3, Zenon DEF Crash
  <2>2. /\ usage' \in [Obj -> 0..MaxUsage]
        /\ lockCount' \in [Obj -> 0..MaxCount]
        /\ linkCount' \in [Obj -> 0..2]
        /\ waited' \in [Obj -> Nat]
        /\ crashes' \in 0..MaxCrashes
    BY <1>3 DEF Crash
  <2>3. /\ base' \in Obj \cup {Stale, NoFile}
        /\ pc' \in [Obj -> PCs]
        /\ tmo' \in [Obj -> TimeoutKinds]
        /\ res' \in [Obj -> Results]
    BY <1>3 DEF Crash
  <2>. QED
    BY <1>3, <2>1, <2>2, <2>3 DEF Crash
<1>4. CASE UNCHANGED vars
  BY <1>4 DEF vars
<1>. QED
  BY <1>1, <1>2, <1>3, <1>4 DEF Next

-----------------------------------------------------------------------------
\* What a step of o leaves alone: the calls of the other objects, the unique
\* files of the other processes (but for the name base may lose), and a lock
\* file of another owner unless it steals it.
Local(o) ==
  /\ MayRun(o) \/ UNCHANGED <<files, pc, lockCount, linkCount>>
  /\ \A q \in Obj \ {o} : /\ pc'[q] = pc[q]
                           /\ lockCount'[q] = lockCount[q]
                           /\ linkCount'[q] = linkCount[q]
  /\ \A p \in Proc \ {ProcOf[o]} :
       \/ uniq'[p] = uniq[p]
       \/ uniq[p] = "linked" /\ uniq'[p] = "own"
  /\ \A q \in Obj \ {o} : base = q => base' = q \/ stolen'
  /\ stolen => stolen'

\* A step of o touches the call of o and the files of its process only; it
\* takes the lock file from another object only by stealing it.
LEMMA StepIsLocal ==
  ASSUME TypeOK, NEW o \in Obj, Step(o) \/ Begin(o)
  PROVE  Local(o)
<1>. USE FSLockAssumption
         DEF Local, TypeOK, At, Goto, Return, locals, files, call, ghost,
             SetUniq
<1>1. CASE Step(o)
  <2>1. CASE Reenter(o)
    BY <2>1 DEF Reenter
  <2>2. CASE OpenUnique(o)
    BY <2>2 DEF OpenUnique
  <2>3. CASE OpenUniqueFails(o)
    BY <2>3 DEF OpenUniqueFails
  <2>4. CASE StatUnique(o)
    BY <2>4 DEF StatUnique
  <2>5. CASE StatUniqueFails(o)
    BY <2>5 DEF StatUniqueFails
  <2>6. CASE LinkBase(o)
    BY <2>6 DEF LinkBase, Acquire
  <2>7. CASE LinkBaseReplyLost(o)
    BY <2>7 DEF LinkBaseReplyLost
  <2>8. CASE LinkBaseFails(o)
    BY <2>8 DEF LinkBaseFails
  <2>9. CASE LinkUnsupported(o)
    BY <2>9 DEF LinkUnsupported
  <2>10. CASE CheckLink(o)
    BY <2>10 DEF CheckLink, Acquire, Abandoned, LinkWasMade
  <2>11. CASE CheckLinkFails(o)
    BY <2>11 DEF CheckLinkFails, Abandoned
  <2>12. CASE ExclBase(o)
    BY <2>12 DEF ExclBase, Acquire
  <2>13. CASE UserAbort(o)
    BY <2>13 DEF UserAbort
  <2>14. CASE BusyReturn(o)
    BY <2>14 DEF BusyReturn
  <2>15. CASE BusyTimeout(o)
    BY <2>15 DEF BusyTimeout
  <2>16. CASE BusyAsk(o)
    BY <2>16 DEF BusyAsk
  <2>17. CASE BusyWait(o)
    BY <2>17 DEF BusyWait
  <2>18. CASE WakeUp(o)
    BY <2>18 DEF WakeUp
  <2>19. CASE AnswerWait(o)
    BY <2>19 DEF AnswerWait
  <2>20. CASE AnswerAbort(o)
    BY <2>20 DEF AnswerAbort
  <2>21. CASE AnswerRemove(o)
    BY <2>21 DEF AnswerRemove
  <2>22. CASE BreakBase(o)
    BY <2>22 DEF BreakBase, DropBase
  <2>23. CASE BreakUnique(o)
    BY <2>23 DEF BreakUnique
  <2>24. CASE RemoveBase(o)
    BY <2>24 DEF RemoveBase, DropBase
  <2>25. CASE RemoveUnique(o)
    BY <2>25 DEF RemoveUnique
  <2>. QED
    BY <1>1, <2>1, <2>2, <2>3, <2>4, <2>5, <2>6, <2>7, <2>8, <2>9, <2>10,
       <2>11, <2>12, <2>13, <2>14, <2>15, <2>16, <2>17, <2>18, <2>19,
       <2>20, <2>21, <2>22, <2>23, <2>24, <2>25 DEF Step
<1>2. CASE Begin(o)
  <2>1. CASE New(o)
    BY <2>1 DEF New
  <2>2. CASE Attach(o)
    BY <2>2 DEF Attach
  <2>3. CASE Free(o)
    BY <2>3 DEF Free, Abandoned
  <2>4. ASSUME NEW t \in Timeouts, Lock(o, t) PROVE Local(o)
    BY <2>4 DEF Lock
  <2>5. CASE UnlockNotHeld(o)
    BY <2>5 DEF UnlockNotHeld
  <2>6. CASE Unlock(o)
    BY <2>6 DEF Unlock
  <2>7. CASE Signal(o)
    BY <2>7 DEF Signal
  <2>. QED
    BY <1>2, <2>1, <2>2, <2>3, <2>4, <2>5, <2>6, <2>7 DEF Begin
<1>. QED
  BY <1>1, <1>2

\* What a step of o establishes for o itself.
LEMMA StepKeepsOwn ==
  ASSUME TypeOK, NEW o \in Obj, Step(o) \/ Begin(o), CallOK(o),
         stolen \/ (LinkOK(o) /\ OwnerOK(o))
  PROVE  CallOK(o)' /\ (stolen' \/ (LinkOK(o) /\ OwnerOK(o))')
<1>. USE FSLockAssumption
         DEF CallOK, LinkOK, OwnerOK, TypeOK, Holds, At, Goto, Return, locals,
             files, call, ghost, SetUniq, U
<1>1. CASE Step(o)
  <2>1. CASE Reenter(o)
    BY <2>1 DEF Reenter
  <2>2. CASE OpenUnique(o)
    BY <2>2 DEF OpenUnique
  <2>3. CASE OpenUniqueFails(o)
    BY <2>3 DEF OpenUniqueFails
  <2>4. CASE StatUnique(o)
    <3>1. U(o) \in {"none", "own", "linked"} /\ U(o)' = U(o)
      BY <2>4 DEF StatUnique
    <3>2. NLink(U(o)) \in 0..2 /\ NLink(U(o))' = NLink(U(o))
      BY <3>1, NLinkType
    <3>3. linkCount'[o] = NLink(U(o)) /\ pc'[o] = "link"
      BY <2>4 DEF StatUnique
    <3>. QED
      BY <2>4, <3>2, <3>3 DEF StatUnique
  <2>5. CASE StatUniqueFails(o)
    BY <2>5 DEF StatUniqueFails
  <2>6. CASE LinkBase(o)
    BY <2>6 DEF LinkBase, Acquire
  <2>7. CASE LinkBaseReplyLost(o)
    BY <2>7 DEF LinkBaseReplyLost
  <2>8. CASE LinkBaseFails(o)
    BY <2>8 DEF LinkBaseFails
  <2>9. CASE LinkUnsupported(o)
    BY <2>9 DEF LinkUnsupported
  <2>10. CASE CheckLink(o)
    BY <2>10 DEF CheckLink, Acquire, Abandoned, LinkWasMade
  <2>11. CASE CheckLinkFails(o)
    BY <2>11 DEF CheckLinkFails, Abandoned
  <2>12. CASE ExclBase(o)
    BY <2>12 DEF ExclBase, Acquire
  <2>13. CASE UserAbort(o)
    BY <2>13 DEF UserAbort
  <2>14. CASE BusyReturn(o)
    BY <2>14 DEF BusyReturn
  <2>15. CASE BusyTimeout(o)
    BY <2>15 DEF BusyTimeout
  <2>16. CASE BusyAsk(o)
    BY <2>16 DEF BusyAsk
  <2>17. CASE BusyWait(o)
    BY <2>17 DEF BusyWait
  <2>18. CASE WakeUp(o)
    BY <2>18 DEF WakeUp
  <2>19. CASE AnswerWait(o)
    BY <2>19 DEF AnswerWait
  <2>20. CASE AnswerAbort(o)
    BY <2>20 DEF AnswerAbort
  <2>21. CASE AnswerRemove(o)
    BY <2>21 DEF AnswerRemove
  <2>22. CASE BreakBase(o)
    BY <2>22 DEF BreakBase, DropBase
  <2>23. CASE BreakUnique(o)
    BY <2>23 DEF BreakUnique
  <2>24. CASE RemoveBase(o)
    BY <2>24 DEF RemoveBase, DropBase
  <2>25. CASE RemoveUnique(o)
    BY <2>25 DEF RemoveUnique
  <2>. QED
    BY <1>1, <2>1, <2>2, <2>3, <2>4, <2>5, <2>6, <2>7, <2>8, <2>9, <2>10,
       <2>11, <2>12, <2>13, <2>14, <2>15, <2>16, <2>17, <2>18, <2>19,
       <2>20, <2>21, <2>22, <2>23, <2>24, <2>25 DEF Step
<1>2. CASE Begin(o)
  <2>1. CASE New(o)
    BY <2>1 DEF New
  <2>2. CASE Attach(o)
    BY <2>2 DEF Attach
  <2>3. CASE Free(o)
    BY <2>3 DEF Free, Abandoned
  <2>4. ASSUME NEW t \in Timeouts, Lock(o, t) PROVE CallOK(o)' /\ (stolen' \/ (LinkOK(o) /\ OwnerOK(o))')
    BY <2>4 DEF Lock
  <2>5. CASE UnlockNotHeld(o)
    BY <2>5 DEF UnlockNotHeld
  <2>6. CASE Unlock(o)
    BY <2>6 DEF Unlock
  <2>7. CASE Signal(o)
    BY <2>7 DEF Signal
  <2>. QED
    BY <1>2, <2>1, <2>2, <2>3, <2>4, <2>5, <2>6, <2>7 DEF Begin
<1>. QED
  BY <1>1, <1>2

-----------------------------------------------------------------------------
\* The death of a process removes its calls and nothing of the others.
LEMMA CrashInv == ASSUME Inv, NEW p \in Proc, Crash(p)
                  PROVE  OneThread' /\ CallInv' /\ (stolen' \/ FileInv')
<1>. USE FSLockAssumption DEF Inv, TypeOK
<1>1. OneThread'
  BY DEF Crash, OneThread, Syscalls
<1>2. CallInv'
  BY DEF Crash, CallInv, CallOK, Holds
<1>3. ASSUME FileInv PROVE FileInv'
  <2>. SUFFICES ASSUME NEW q \in Obj PROVE LinkOK(q)' /\ OwnerOK(q)'
    BY DEF FileInv
  <2>1. CASE ProcOf[q] = p
    BY <2>1 DEF Crash, LinkOK, OwnerOK, Holds
  <2>2. CASE ProcOf[q] # p
    BY <1>3, <2>2 DEF Crash, LinkOK, OwnerOK, Holds, FileInv, U
  <2>. QED
    BY <2>1, <2>2
<1>. QED
  BY <1>1, <1>2, <1>3 DEF Crash

\* Inv is inductive.
LEMMA StepInv == Inv /\ [Next]_vars => Inv'
<1>. SUFFICES ASSUME Inv, [Next]_vars PROVE Inv'
  OBVIOUS
<1>. USE DEF Inv
<1>1. TypeOK'
  BY TypeStep
<1>2. ASSUME NEW o \in Obj, Step(o) \/ Begin(o)
      PROVE  OneThread' /\ CallInv' /\ (stolen' \/ FileInv')
  <2>1. Local(o)
    BY <1>2, StepIsLocal
  <2>2. CallOK(o)' /\ (stolen' \/ (LinkOK(o) /\ OwnerOK(o))')
    BY <1>2, StepKeepsOwn DEF CallInv, FileInv
  <2>3. OneThread'
    BY <2>1 DEF Local, OneThread, MayRun
  <2>4. CallInv'
    BY <2>1, <2>2 DEF Local, CallInv, CallOK, Holds
  <2>5. ASSUME ~stolen' PROVE FileInv'
    <3>1. FileInv
      BY <2>1, <2>5 DEF Local
    <3>. SUFFICES ASSUME NEW q \in Obj \ {o} PROVE LinkOK(q)' /\ OwnerOK(q)'
      BY <2>2, <2>5 DEF FileInv
    <3>2. OwnerOK(q)'
      BY <2>1, <2>5, <3>1 DEF Local, FileInv, OwnerOK, Holds
    <3>3. LinkOK(q)'
      <4>1. CASE pc[q] \notin {"link", "check"}
        BY <2>1, <4>1 DEF Local, LinkOK
      <4>2. CASE UNCHANGED <<files, pc, lockCount, linkCount>>
        BY <3>1, <4>2 DEF LinkOK, FileInv, U, files
      <4>3. CASE pc[q] \in {"link", "check"} /\ MayRun(o)
        <5>1. ProcOf[q] # ProcOf[o] /\ ProcOf[q] \in Proc
          BY <4>3, FSLockAssumption DEF MayRun, Syscalls
        <5>2. U(q) \in {"none", "own", "linked"} /\ linkCount[q] \in 0..2
          BY <5>1 DEF TypeOK, U
        <5>3. NLink(U(q))' <= NLink(U(q))
          BY <2>1, <5>1, <5>2 DEF Local, NLink, U
        <5>4. /\ NLink(U(q)) \in 0..2 /\ NLink(U(q))' \in 0..2
          BY <2>1, <5>1, <5>2, NLinkType DEF Local, U
        <5>. QED
          BY <2>1, <2>5, <3>1, <5>2, <5>3, <5>4 DEF Local, LinkOK, FileInv
      <4>. QED
        BY <2>1, <4>1, <4>2, <4>3 DEF Local
    <3>. QED
      BY <3>2, <3>3
  <2>. QED
    BY <2>3, <2>4, <2>5
<1>3. ASSUME NEW p \in Proc, Crash(p)
      PROVE  OneThread' /\ CallInv' /\ (stolen' \/ FileInv')
  BY <1>3, CrashInv
<1>4. CASE UNCHANGED vars
  BY <1>1, <1>4 DEF vars, files, call, ghost, OneThread, CallInv, CallOK,
                    FileInv, LinkOK, OwnerOK, Holds, U
<1>5. CASE Next
  BY <1>1, <1>2, <1>3, <1>5 DEF Next
<1>. QED
  BY <1>1, <1>4, <1>5

\* The inductive invariant holds in every reachable state.
THEOREM InvHolds == Spec => []Inv
  BY InitInv, StepInv, PTL DEF Spec

\* Type correctness: in particular lockCount stays within its bound although
\* it is incremented several system calls after the bound was looked at.
THEOREM TypeCorrect == Spec => []TypeOK
<1>1. Inv => TypeOK
  BY DEF Inv
<1>. QED
  BY <1>1, InvHolds, PTL

\* Whatever faults occur, two objects hold the lock only after a forced
\* removal (or the release that follows one) hit the file of a live owner.
THEOREM MutexTheorem == Spec => []MutexUntilStolen
<1>1. Inv => MutexUntilStolen
  BY DEF Inv, FileInv, OwnerOK, MutexUntilStolen, MutualExclusion
<1>. QED
  BY <1>1, InvHolds, PTL

\* Until then a release removes the file of the object that releases.
THEOREM OwnershipTheorem == Spec => []HolderOwnsFile
<1>1. Inv => HolderOwnsFile
  BY DEF Inv, FileInv, OwnerOK, HolderOwnsFile
<1>. QED
  BY <1>1, InvHolds, PTL

-----------------------------------------------------------------------------
(* Refinement.  Without "Remove Lock" nobody is ever at the two steps of a *)
(* forced removal, and every file that is removed belongs to its remover.  *)

NoForce == ~stolen /\ \A o \in Obj : pc[o] # "brkBase"

\* Without "Remove Lock" no step steals a lock file or starts to.
LEMMA NoForceStep ==
  ASSUME Remover = {}, Inv, NoForce, [Next]_vars
  PROVE  NoForce'
<1>. USE FSLockAssumption
         DEF NoForce, Inv, TypeOK, At, Goto, Return, locals, files, call, ghost,
             SetUniq
<1>1. ASSUME NEW o \in Obj, Step(o) PROVE NoForce'
  <2>1. CASE Reenter(o)
    BY <2>1 DEF Reenter
  <2>2. CASE OpenUnique(o)
    BY <2>2 DEF OpenUnique
  <2>3. CASE OpenUniqueFails(o)
    BY <2>3 DEF OpenUniqueFails
  <2>4. CASE StatUnique(o)
    BY <2>4 DEF StatUnique
  <2>5. CASE StatUniqueFails(o)
    BY <2>5 DEF StatUniqueFails
  <2>6. CASE LinkBase(o)
    BY <2>6 DEF LinkBase, Acquire
  <2>7. CASE LinkBaseReplyLost(o)
    BY <2>7 DEF LinkBaseReplyLost
  <2>8. CASE LinkBaseFails(o)
    BY <2>8 DEF LinkBaseFails
  <2>9. CASE LinkUnsupported(o)
    BY <2>9 DEF LinkUnsupported
  <2>10. CASE CheckLink(o)
    BY <2>10 DEF CheckLink, Acquire, Abandoned, LinkWasMade
  <2>11. CASE CheckLinkFails(o)
    BY <2>11 DEF CheckLinkFails, Abandoned
  <2>12. CASE ExclBase(o)
    BY <2>12 DEF ExclBase, Acquire
  <2>13. CASE UserAbort(o)
    BY <2>13 DEF UserAbort
  <2>14. CASE BusyReturn(o)
    BY <2>14 DEF BusyReturn
  <2>15. CASE BusyTimeout(o)
    BY <2>15 DEF BusyTimeout
  <2>16. CASE BusyAsk(o)
    BY <2>16 DEF BusyAsk
  <2>17. CASE BusyWait(o)
    BY <2>17 DEF BusyWait
  <2>18. CASE WakeUp(o)
    BY <2>18 DEF WakeUp
  <2>19. CASE AnswerWait(o)
    BY <2>19 DEF AnswerWait
  <2>20. CASE AnswerAbort(o)
    BY <2>20 DEF AnswerAbort
  <2>21. CASE AnswerRemove(o)
    BY <2>21 DEF AnswerRemove
  <2>22. CASE BreakBase(o)
    BY <2>22 DEF BreakBase, DropBase
  <2>23. CASE BreakUnique(o)
    BY <2>23 DEF BreakUnique
  <2>24. CASE RemoveBase(o)
    BY <2>24 DEF FileInv, OwnerOK, RemoveBase, DropBase
  <2>25. CASE RemoveUnique(o)
    BY <2>25 DEF RemoveUnique
  <2>. QED
    BY <1>1, <2>1, <2>2, <2>3, <2>4, <2>5, <2>6, <2>7, <2>8, <2>9, <2>10,
       <2>11, <2>12, <2>13, <2>14, <2>15, <2>16, <2>17, <2>18, <2>19,
       <2>20, <2>21, <2>22, <2>23, <2>24, <2>25 DEF Step
<1>2. ASSUME NEW o \in Obj, Begin(o) PROVE NoForce'
  <2>1. CASE New(o)
    BY <2>1 DEF New
  <2>2. CASE Attach(o)
    BY <2>2 DEF Attach
  <2>3. CASE Free(o)
    BY <2>3 DEF Free, Abandoned
  <2>4. ASSUME NEW t \in Timeouts, Lock(o, t) PROVE NoForce'
    BY <2>4 DEF Lock
  <2>5. CASE UnlockNotHeld(o)
    BY <2>5 DEF UnlockNotHeld
  <2>6. CASE Unlock(o)
    BY <2>6 DEF Unlock
  <2>7. CASE Signal(o)
    BY <2>7 DEF Signal
  <2>. QED
    BY <1>2, <2>1, <2>2, <2>3, <2>4, <2>5, <2>6, <2>7 DEF Begin
<1>3. ASSUME NEW p \in Proc, Crash(p) PROVE NoForce'
  BY <1>3 DEF Crash
<1>4. CASE UNCHANGED vars
  BY <1>4 DEF vars
<1>. QED
  BY <1>1, <1>2, <1>3, <1>4 DEF Next

\* A step that changes neither the holders nor who owns the lock file is a
\* stuttering step of LockService.
Quiet == lockCount' = lockCount /\ (base' = Stale <=> base = Stale)

\* Quiet steps leave the variables of LockService alone.
LEMMA QuietStutters ==
  ASSUME Quiet PROVE UNCHANGED Service!lsVars
  BY DEF Quiet, Service!lsVars, Holds

\* Every step of the protocol is a step of LockService, or changes nothing
\* there: Enter where lockCount becomes 1, Leave where it becomes 0, Perish
\* where an owner goes without releasing.
LEMMA RefinementStep ==
  ASSUME Inv, NoForce, NoForce', [Next]_vars
  PROVE  [Service!LSNext]_(Service!lsVars)
<1>. DEFINE Inside == {o \in Obj : Holds(o)}
<1>. USE FSLockAssumption
<1>a. FileInv /\ TypeOK /\ CallInv
  BY DEF Inv, NoForce
<1>b. \A o \in Obj : o \in Inside => base = o
  BY <1>a DEF FileInv, OwnerOK
<1>1. ASSUME NEW o \in Obj, Step(o)
      PROVE  [Service!LSNext]_(Service!lsVars)
  <2>1. CASE LinkBase(o) \/ ExclBase(o) \/ CheckLink(o)
    <3>1. CASE lockCount' = lockCount
      <4>1. CASE base' = Stale <=> base = Stale
        BY <3>1, <4>1, QuietStutters DEF Quiet
      <4>2. CASE ~(base' = Stale <=> base = Stale)
        <5>1. base' = Stale
          BY <2>1, <3>1, <4>2
             DEF LinkBase, ExclBase, CheckLink, Acquire, Abandoned
        <5>2. Inside' = Inside \ {}
          BY <3>1 DEF Holds
        <5>. QED
          BY ZenonT(60), <5>1, <5>2 DEF Service!LSNext, Service!Perish
      <4>. QED
        BY <4>1, <4>2
    <3>2. CASE lockCount' # lockCount
      <4>1. lockCount' = [lockCount EXCEPT ![o] = @ + 1] /\ base' = o
        BY <1>a, <2>1, <3>2
           DEF LinkBase, ExclBase, CheckLink, Acquire, LinkWasMade, At,
               FileInv, LinkOK, TypeOK, U
      <4>2. base \in {NoFile, o} /\ pc[o] \in {"link", "excl", "check"}
        BY <2>1, <3>2, <4>1
           DEF LinkBase, ExclBase, CheckLink, Acquire, At
      <4>3. Inside = {}
        BY <1>a, <1>b, <4>2 DEF CallInv, CallOK
      <4>4. Inside' = {o}
        BY <1>a, <4>1, <4>3 DEF Holds, TypeOK
      <4>. QED
        BY <4>1, <4>2, <4>3, <4>4 DEF Service!LSNext, Service!Enter
    <3>. QED
      BY <3>1, <3>2
  <2>2. CASE Reenter(o)
    <3>1. Inside' = Inside
      BY <1>a, <2>2 DEF Reenter, Holds, TypeOK
    <3>. QED
      BY <2>2, <3>1 DEF Reenter, files, Service!lsVars
  <2>3. CASE CheckLinkFails(o)
    <3>1. CASE base = o
      <4>1. base' = Stale /\ Inside' = Inside \ {}
        BY <2>3, <3>1 DEF CheckLinkFails, Abandoned, Holds
      <4>. QED
        BY ZenonT(60), <4>1 DEF Service!LSNext, Service!Perish
    <3>2. CASE base # o
      BY <2>3, <3>2, QuietStutters DEF CheckLinkFails, Abandoned, Quiet
    <3>. QED
      BY <3>1, <3>2
  <2>4. CASE RemoveBase(o) \/ BreakBase(o)
    <3>1. RemoveBase(o) /\ base = o
      BY <1>a, <2>4 DEF NoForce, BreakBase, RemoveBase, At, FileInv, OwnerOK
    <3>. QED
      BY <3>1, QuietStutters DEF RemoveBase, DropBase, Quiet
  <2>5. CASE \/ OpenUnique(o) \/ OpenUniqueFails(o) \/ StatUnique(o)
             \/ StatUniqueFails(o) \/ LinkBaseReplyLost(o)
             \/ LinkBaseFails(o) \/ LinkUnsupported(o) \/ UserAbort(o)
             \/ BusyReturn(o) \/ BusyTimeout(o) \/ BusyAsk(o)
    BY <2>5, QuietStutters
       DEF Quiet, files, OpenUnique, OpenUniqueFails, StatUnique,
           StatUniqueFails, LinkBaseReplyLost, LinkBaseFails,
           LinkUnsupported, UserAbort, BusyReturn, BusyTimeout, BusyAsk
  <2>6. CASE \/ BusyWait(o) \/ WakeUp(o) \/ AnswerWait(o) \/ AnswerAbort(o)
             \/ AnswerRemove(o) \/ BreakUnique(o) \/ RemoveUnique(o)
    BY <2>6, QuietStutters
       DEF Quiet, files, BusyWait, WakeUp, AnswerWait, AnswerAbort,
           AnswerRemove, BreakUnique, RemoveUnique
  <2>. QED
    BY <1>1, <2>1, <2>2, <2>3, <2>4, <2>5, <2>6 DEF Step
<1>2. ASSUME NEW o \in Obj, Begin(o)
      PROVE  [Service!LSNext]_(Service!lsVars)
  <2>1. CASE Free(o)
    <3>1. CASE usage[o] = 1 /\ Holds(o)
      <4>1. base' = Stale /\ Inside' = Inside \ {o} /\ o \in Inside
        BY <1>a, <1>b, <2>1, <3>1 DEF Free, Abandoned, Holds, TypeOK
      <4>2. Service!Perish({o}) /\ {o} \in SUBSET Inside
        BY <4>1 DEF Service!Perish
      <4>. QED
        BY <4>2 DEF Service!LSNext
    <3>2. CASE usage[o] = 1 /\ ~Holds(o)
      <4>1. pc[o] = "idle" /\ lockCount[o] = 0
        BY <1>a, <2>1, <3>2 DEF Free, At, Holds, TypeOK
      <4>2. lockCount' = lockCount
        BY <1>a, <2>1, <3>2, <4>1 DEF Free, TypeOK
      <4>3. CASE base = o
        <5>1. base' = Stale /\ Inside' = Inside \ {}
          BY <2>1, <3>2, <4>2, <4>3 DEF Free, Abandoned, Holds
        <5>. QED
          BY ZenonT(60), <5>1 DEF Service!LSNext, Service!Perish
      <4>4. CASE base # o
        BY <2>1, <3>2, <4>2, <4>4, QuietStutters DEF Free, Abandoned, Quiet
      <4>. QED
        BY <4>3, <4>4
    <3>3. CASE usage[o] # 1
      BY <2>1, <3>3, QuietStutters DEF Free, Quiet
    <3>. QED
      BY <3>1, <3>2, <3>3
  <2>2. CASE Unlock(o)
    <3>1. UNCHANGED base /\ Holds(o)
      BY <2>2 DEF Unlock, files
    <3>2. CASE lockCount[o] = 1
      <4>1. Inside' = Inside \ {o}
        BY <1>a, <2>2, <3>2 DEF Unlock, Holds, TypeOK
      <4>. QED
        BY <3>1, <4>1 DEF Service!LSNext, Service!Leave
    <3>3. CASE lockCount[o] # 1
      <4>1. Inside' = Inside
        BY <1>a, <2>2, <3>1, <3>3 DEF Unlock, Holds, TypeOK
      <4>. QED
        BY <3>1, <4>1 DEF Service!lsVars
    <3>. QED
      BY <3>2, <3>3
  <2>3. ASSUME NEW t \in Timeouts, Lock(o, t)
        PROVE  [Service!LSNext]_(Service!lsVars)
    BY <2>3, QuietStutters DEF Lock, Quiet, files
  <2>4. CASE New(o) \/ Attach(o) \/ UnlockNotHeld(o) \/ Signal(o)
    BY <2>4, QuietStutters
       DEF New, Attach, UnlockNotHeld, Signal, Quiet, files
  <2>. QED
    BY <1>2, <2>1, <2>2, <2>3, <2>4 DEF Begin
<1>3. ASSUME NEW p \in Proc, Crash(p)
      PROVE  [Service!LSNext]_(Service!lsVars)
  <2>. DEFINE dead == {o \in Obj : ProcOf[o] = p}
  <2>1. Inside' = Inside \ dead
    BY <1>3, <1>a DEF Crash, Holds, TypeOK
  <2>2. CASE base \in dead
    <3>1. base' = Stale /\ Inside' = Inside \ (Inside \cap dead)
      BY <1>3, <2>1, <2>2 DEF Crash
    <3>. QED
      BY <3>1 DEF Service!LSNext, Service!Perish
  <2>3. CASE base \notin dead
    <3>1. UNCHANGED base /\ Inside' = Inside
      BY <1>3, <1>b, <2>1, <2>3 DEF Crash
    <3>. QED
      BY <3>1 DEF Service!lsVars
  <2>. QED
    BY <2>2, <2>3
<1>4. CASE UNCHANGED vars
  BY <1>4, QuietStutters DEF vars, files, Quiet
<1>5. CASE Next
  BY <1>1, <1>2, <1>3, <1>5 DEF Next
<1>. QED
  BY <1>4, <1>5

\* If no user forces a lock, the lock-file protocol implements LockService:
\* one holder at a time, and an orphaned lock is never taken over, whatever
\* processes die, get the pid of a dead one, or lose the answer of link().
THEOREM Refinement == ASSUME Remover = {} PROVE Spec => ServiceSpec
<1>1. Init => Service!LSInit
  BY FSLockAssumption DEF Init, Service!LSInit, Holds
<1>2. Init => NoForce
  BY DEF Init, NoForce
<1>3. Inv /\ NoForce /\ [Next]_vars => NoForce'
  BY NoForceStep
<1>4. Inv /\ NoForce /\ NoForce' /\ [Next]_vars
         => [Service!LSNext]_(Service!lsVars)
  BY RefinementStep
<1>. QED
  BY <1>1, <1>2, <1>3, <1>4, InvHolds, PTL DEF Spec, ServiceSpec, Service!LSSpec

\* With no forced removal two objects never hold the lock together.
THEOREM MutexNoForce == ASSUME Remover = {} PROVE Spec => []MutualExclusion
<1>1. Init => NoForce
  BY DEF Init, NoForce
<1>2. Inv /\ NoForce /\ [Next]_vars => NoForce'
  BY NoForceStep
<1>3. MutexUntilStolen /\ NoForce => MutualExclusion
  BY DEF MutexUntilStolen, NoForce
<1>. QED
  BY <1>1, <1>2, <1>3, InvHolds, MutexTheorem, PTL DEF Spec
-----------------------------------------------------------------------------
(* Cleaning up.  Every file is somebody's to remove, also after a forced   *)
(* removal has taken the lock file from its owner.                         *)

\* Without these faults every call ends by its own return statements, and a
\* link() whose answer is lost is followed by a stat() that works.
CleanFaults == /\ "crash" \notin Faults /\ "leak" \notin Faults
               /\ "stat" \notin Faults \/ "lostReply" \notin Faults

\* o will remove the lock file, whoever has made it.
Releases(o) == Holds(o) \/ pc[o] = "rmBase"

\* The link between the unique file and the lock file may be of o's making.
Ties(o) == Releases(o) \/ pc[o] = "check"

\* o will remove the unique file of its process.
Uses(o) == Ties(o) \/ pc[o] \in {"stat", "link", "excl", "rmUniq"}

\* An object of o's process holds the lock: it stays so while o is between
\* two system calls.
Sibling(o) == \E q \in Obj : ProcOf[q] = ProcOf[o] /\ Holds(q)

UniqueUsed ==
  \A p \in Proc :
    /\ uniq[p] # "none" => \E o \in Obj : ProcOf[o] = p /\ Uses(o)
    /\ uniq[p] = "linked" => \E o \in Obj : ProcOf[o] = p /\ Ties(o)

StaleUsed == base = Stale => \E o \in Obj : Releases(o)

OwnerActive(o) ==
  base = o => Releases(o) \/ (pc[o] = "check" /\ "lostReply" \in Faults)

\* An attempt starts from a unique file with one name, or it finds the one a
\* sibling has linked.  In the latter case a link() of its own would not be
\* recognised, but the sibling will remove the lock file.
AttemptOK(o) ==
  /\ pc[o] = "stat" => U(o) # "none"
  /\ pc[o] = "link" => linkCount[o] = 1 \/ Sibling(o)
  /\ pc[o] = "check" /\ base = o =>
       (linkCount[o] = 1 /\ U(o) = "linked") \/ Sibling(o)

CleanInv == /\ UniqueUsed
            /\ StaleUsed
            /\ \A o \in Obj : OwnerActive(o) /\ AttemptOK(o)

\* What a step of o does to the files and to those who will remove them.
Tidy(o) ==
  /\ uniq'[ProcOf[o]] # "none" =>
       Uses(o)' \/ (uniq[ProcOf[o]] # "none" /\ ~Uses(o))
  /\ uniq'[ProcOf[o]] = "linked" =>
       Ties(o)' \/ (uniq[ProcOf[o]] = "linked" /\ ~Ties(o))
  /\ \A p \in Proc \ {ProcOf[o]} : uniq'[p] = uniq[p] \/ base' = NoFile
  /\ \A q \in Obj \ {o} : base' = q => base = q
  /\ base' = Stale => \/ Sibling(o) /\ ~Holds(o)
                      \/ base = Stale /\ (Releases(o) => Releases(o)')
  /\ OwnerActive(o)'
  /\ AttemptOK(o)'

\* At "stat" a link of the unique file is a sibling's.
LEMMA LinkOfSibling ==
  ASSUME Inv, CleanInv, NEW o \in Obj, pc[o] = "stat", U(o) = "linked"
  PROVE  Sibling(o)
<1>1. ProcOf[o] \in Proc
  BY FSLockAssumption
<1>2. PICK q \in Obj : ProcOf[q] = ProcOf[o] /\ Ties(q)
  BY <1>1 DEF CleanInv, UniqueUsed, U
<1>3. Holds(q)
  BY <1>2 DEF Inv, OneThread, Syscalls, Ties, Releases
<1>. QED
  BY <1>2, <1>3 DEF Sibling

\* No step of o leaves a file to nobody.
LEMMA StepIsTidy ==
  ASSUME CleanFaults, Inv, CleanInv, NEW o \in Obj, Step(o) \/ Begin(o)
  PROVE  Tidy(o)
<1>a. TypeOK /\ CallOK(o) /\ OwnerActive(o) /\ AttemptOK(o)
  BY DEF Inv, CallInv, CleanInv
<1>b. ProcOf[o] \in Proc /\ U(o) \in {"none", "own", "linked"}
  BY <1>a, FSLockAssumption DEF TypeOK, U
<1>c. ASSUME lockCount' = lockCount PROVE Sibling(o)' = Sibling(o)
  BY <1>c DEF Sibling, Holds
<1>. USE <1>a, FSLockAssumption
         DEF Tidy, TypeOK, CallOK, OwnerActive, AttemptOK, Uses, Ties, Releases,
             Holds, At, Goto, Return, locals, files, call, ghost, SetUniq, U
<1>1. CASE Step(o)
  <2>1. CASE Reenter(o)
    BY <2>1 DEF Reenter
  <2>2. CASE OpenUnique(o)
    BY <2>2 DEF OpenUnique
  <2>3. CASE OpenUniqueFails(o)
    BY <2>3 DEF OpenUniqueFails
  <2>4. CASE StatUnique(o)
    <3>1. pc'[o] = "link" /\ UNCHANGED <<files, lockCount>>
      BY <2>4 DEF StatUnique
    <3>2. linkCount'[o] = 1 \/ Sibling(o)
      BY <1>b, <2>4, LinkOfSibling DEF StatUnique, NLink
    <3>. QED
      BY <1>c, <2>4, <3>1, <3>2 DEF StatUnique
  <2>5. CASE StatUniqueFails(o)
    BY <2>5 DEF StatUniqueFails
  <2>6. CASE LinkBase(o)
    BY <2>6 DEF LinkBase, Acquire
  <2>7. CASE LinkBaseReplyLost(o)
    BY <1>c, <2>7 DEF LinkBaseReplyLost
  <2>8. CASE LinkBaseFails(o)
    BY <1>c, <2>8 DEF LinkBaseFails
  <2>9. CASE LinkUnsupported(o)
    BY <2>9 DEF LinkUnsupported
  <2>10. CASE CheckLink(o)
    <3>1. CASE LinkWasMade(o)
      BY <2>10, <3>1 DEF CheckLink, Acquire
    <3>2. CASE ~LinkWasMade(o)
      <4>1. base = o => Sibling(o)
        BY <2>10, <3>2 DEF CheckLink, LinkWasMade, NLink
      <4>. QED
        BY <2>10, <3>2, <4>1 DEF CheckLink, Abandoned
    <3>. QED
      BY <3>1, <3>2
  <2>11. CASE CheckLinkFails(o)
    BY <2>11 DEF CheckLinkFails, Abandoned, CleanFaults
  <2>12. CASE ExclBase(o)
    BY <2>12 DEF ExclBase, Acquire
  <2>13. CASE UserAbort(o)
    BY <2>13 DEF UserAbort
  <2>14. CASE BusyReturn(o)
    BY <2>14 DEF BusyReturn
  <2>15. CASE BusyTimeout(o)
    BY <2>15 DEF BusyTimeout
  <2>16. CASE BusyAsk(o)
    BY <2>16 DEF BusyAsk
  <2>17. CASE BusyWait(o)
    BY <2>17 DEF BusyWait
  <2>18. CASE WakeUp(o)
    BY <2>18 DEF WakeUp
  <2>19. CASE AnswerWait(o)
    BY <2>19 DEF AnswerWait
  <2>20. CASE AnswerAbort(o)
    BY <2>20 DEF AnswerAbort
  <2>21. CASE AnswerRemove(o)
    BY <2>21 DEF AnswerRemove
  <2>22. CASE BreakBase(o)
    BY <2>22 DEF BreakBase, DropBase
  <2>23. CASE BreakUnique(o)
    BY <2>23 DEF BreakUnique
  <2>24. CASE RemoveBase(o)
    BY <2>24 DEF RemoveBase, DropBase
  <2>25. CASE RemoveUnique(o)
    BY <2>25 DEF RemoveUnique
  <2>. QED
    BY <1>1, <2>1, <2>2, <2>3, <2>4, <2>5, <2>6, <2>7, <2>8, <2>9, <2>10,
       <2>11, <2>12, <2>13, <2>14, <2>15, <2>16, <2>17, <2>18, <2>19,
       <2>20, <2>21, <2>22, <2>23, <2>24, <2>25 DEF Step
<1>2. CASE Begin(o)
  <2>1. CASE New(o)
    BY <1>c, <2>1 DEF New
  <2>2. CASE Attach(o)
    BY <1>c, <2>2 DEF Attach
  <2>3. CASE Free(o)
    BY <2>3 DEF Free, Abandoned, CleanFaults
  <2>4. ASSUME NEW t \in Timeouts, Lock(o, t) PROVE Tidy(o)
    BY <2>4 DEF Lock
  <2>5. CASE UnlockNotHeld(o)
    BY <2>5 DEF UnlockNotHeld
  <2>6. CASE Unlock(o)
    BY <2>6 DEF Unlock
  <2>7. CASE Signal(o)
    BY <2>7 DEF Signal
  <2>. QED
    BY <1>2, <2>1, <2>2, <2>3, <2>4, <2>5, <2>6, <2>7 DEF Begin
<1>. QED
  BY <1>1, <1>2

\* CleanInv is inductive on top of Inv.
LEMMA CleanStep ==
  ASSUME CleanFaults, Inv, CleanInv, [Next]_vars
  PROVE  CleanInv'
<1>1. ASSUME NEW o \in Obj, Step(o) \/ Begin(o) PROVE CleanInv'
  <2>1. Local(o) /\ Tidy(o)
    BY <1>1, StepIsLocal, StepIsTidy DEF Inv
  <2>2. ProcOf[o] \in Proc
    BY FSLockAssumption
  <2>3. UniqueUsed'
    <3>. SUFFICES ASSUME NEW p \in Proc
                  PROVE  /\ uniq'[p] # "none" =>
                              \E q \in Obj : ProcOf[q] = p /\ Uses(q)'
                         /\ uniq'[p] = "linked" =>
                              \E q \in Obj : ProcOf[q] = p /\ Ties(q)'
      BY DEF UniqueUsed
    <3>a. \A q \in Obj \ {o} : (Uses(q) => Uses(q)') /\ (Ties(q) => Ties(q)')
      BY <2>1 DEF Local, Uses, Ties, Releases, Holds
    <3>b. /\ uniq[p] # "none" => \E q \in Obj : ProcOf[q] = p /\ Uses(q)
          /\ uniq[p] = "linked" => \E q \in Obj : ProcOf[q] = p /\ Ties(q)
      BY DEF CleanInv, UniqueUsed
    <3>1. CASE p = ProcOf[o]
      BY <2>1, <3>a, <3>b, <3>1 DEF Tidy
    <3>2. CASE p # ProcOf[o]
      <4>1. uniq'[p] = uniq[p] \/ (uniq[p] = "linked" /\ uniq'[p] = "own")
        BY <2>1, <3>2 DEF Local
      <4>. QED
        BY <3>2, <3>a, <3>b, <4>1
    <3>. QED
      BY <3>1, <3>2
  <2>4. StaleUsed'
    <3>. SUFFICES ASSUME base' = Stale
                  PROVE  \E q \in Obj : Releases(q)'
      BY DEF StaleUsed
    <3>a. \A q \in Obj \ {o} : Releases(q) => Releases(q)'
      BY <2>1 DEF Local, Releases, Holds
    <3>1. CASE Sibling(o) /\ ~Holds(o)
      BY <3>a, <3>1 DEF Sibling, Releases
    <3>2. CASE base = Stale /\ (Releases(o) => Releases(o)')
      BY <3>a, <3>2 DEF CleanInv, StaleUsed
    <3>. QED
      BY <2>1, <3>1, <3>2 DEF Tidy
  <2>5. ASSUME NEW q \in Obj \ {o} PROVE OwnerActive(q)' /\ AttemptOK(q)'
    <3>a. OwnerActive(q) /\ AttemptOK(q)
      BY DEF CleanInv
    <3>b. /\ pc'[q] = pc[q] /\ lockCount'[q] = lockCount[q]
          /\ linkCount'[q] = linkCount[q]
          /\ base' = q => base = q
      BY <2>1 DEF Local, Tidy
    <3>1. OwnerActive(q)'
      BY <3>a, <3>b DEF OwnerActive, Releases, Holds
    <3>2. AttemptOK(q)'
      <4>1. CASE pc[q] \notin {"stat", "link", "check"}
        BY <3>b, <4>1 DEF AttemptOK
      <4>2. CASE UNCHANGED <<files, pc, lockCount, linkCount>>
        BY <3>a, <4>2 DEF AttemptOK, U, Sibling, Holds, files
      <4>3. CASE pc[q] \in {"stat", "link", "check"} /\ MayRun(o)
        <5>1. ProcOf[q] # ProcOf[o] /\ ProcOf[q] \in Proc
          BY <4>3, FSLockAssumption DEF MayRun, Syscalls
        <5>2. Sibling(q) => Sibling(q)'
          BY <2>1, <5>1 DEF Local, Sibling, Holds
        <5>3. /\ U(q) # "none" => U(q)' # "none"
              /\ U(q)' = U(q) \/ base' = NoFile
          BY <2>1, <5>1 DEF Local, Tidy, U
        <5>4. base' = q => U(q)' = U(q)
          BY <5>3, FSLockAssumption
        <5>. QED
          BY <3>a, <3>b, <5>2, <5>3, <5>4 DEF AttemptOK
      <4>. QED
        BY <2>1, <4>1, <4>2, <4>3 DEF Local
    <3>. QED
      BY <3>1, <3>2
  <2>. QED
    BY <2>1, <2>3, <2>4, <2>5 DEF CleanInv, Tidy
<1>2. ASSUME NEW p \in Proc, Crash(p) PROVE CleanInv'
  BY <1>2 DEF Crash, CleanFaults
<1>3. CASE UNCHANGED vars
  BY <1>3 DEF vars, files, call, CleanInv, UniqueUsed, StaleUsed, OwnerActive,
              AttemptOK, Uses, Ties, Releases, Sibling, Holds, U
<1>. QED
  BY <1>1, <1>2, <1>3 DEF Next

\* When no process dies, no object is freed with the lock, and not both an
\* answer of link() and the stat() after it are lost, the calls of any number
\* of objects and processes clean up after themselves, also when users force
\* locks under live owners.
THEOREM CleanUpTheorem ==
  ASSUME CleanFaults PROVE Spec => []NothingLeftBehind
<1>1. Init => CleanInv
  BY FSLockAssumption
     DEF Init, CleanInv, UniqueUsed, StaleUsed, OwnerActive, AttemptOK
<1>2. Inv /\ CleanInv /\ [Next]_vars => CleanInv'
  BY CleanStep
<1>3. Inv /\ CleanInv => NothingLeftBehind
  <2>. SUFFICES ASSUME Inv, CleanInv, \A o \in Obj : pc[o] = "idle" /\ ~Holds(o)
                PROVE  base = NoFile /\ \A p \in Proc : uniq[p] = "none"
    BY DEF NothingLeftBehind
  <2>1. \A o \in Obj : ~Releases(o) /\ ~Uses(o)
    BY DEF Releases, Ties, Uses
  <2>2. base # Stale /\ \A o \in Obj : base # o
    BY <2>1 DEF CleanInv, StaleUsed, OwnerActive
  <2>. QED
    BY <2>1, <2>2 DEF CleanInv, UniqueUsed, Inv, TypeOK
<1>. QED
  BY <1>1, <1>2, <1>3, InvHolds, PTL DEF Spec
=============================================================================
