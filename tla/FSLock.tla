------------------------------- MODULE FSLock -------------------------------
(***************************************************************************)
(* The lock-file protocol of src/os/posix/fslock.c.                        *)
(*                                                                         *)
(* Several GWEN_FSLOCK objects, in several processes, compete for one      *)
(* file.  The file system holds the lock file itself (baseLockFilename)    *)
(* and, per process, a unique file (uniqueLockFilename, whose name is made *)
(* of host and pid, so all objects of a process share it).  Every system   *)
(* call is a step of its own; a process may die between any two of them.   *)
(*                                                                         *)
(* A process runs one thread: while one of its objects is between two      *)
(* system calls no other object of the process moves (MayRun).             *)
(***************************************************************************)
EXTENDS Naturals

CONSTANTS Obj,          \* the FSLOCK objects
          Proc,         \* the processes (host and pid: one unique file each)
          ProcOf,       \* the process an object lives in
          Timeouts,     \* the timeouts callers use, among TimeoutKinds
          Timeout,      \* a finite timeout, in sleeping periods
          TimeoutAsk,   \* GWEN_FSLOCK_TIMEOUT_ASK, in sleeping periods
          Interactive,  \* objects whose GUI is interactive
          Remover,      \* those whose user may choose "Remove Lock"
          Faults,       \* the environment's faults, among FaultKinds
          MaxCount,     \* bound on lockCount
          MaxUsage,     \* bound on the reference counter
          MaxCrashes,   \* bound on the number of process deaths
          NoFile,       \* base: the lock file does not exist
          Stale         \* base: it exists and no object owns it any more

TimeoutKinds == {"none", "finite", "forever"}

FaultKinds == {"crash",      \* a process dies
               "stat",       \* stat() or open() of the unique file fails
               "link",       \* link() fails for a reason of its own
               "lostReply",  \* link() succeeds and reports an error (NFS)
               "leak"}       \* an object is freed while it holds the lock

ASSUME FSLockAssumption ==
  /\ ProcOf \in [Obj -> Proc]
  /\ Timeouts \subseteq TimeoutKinds
  /\ Timeout \in Nat /\ TimeoutAsk \in Nat
  /\ Interactive \subseteq Obj /\ Remover \subseteq Interactive
  /\ Faults \subseteq FaultKinds
  /\ MaxCount \in Nat \ {0} /\ MaxUsage \in Nat \ {0} /\ MaxCrashes \in Nat
  /\ NoFile \notin Obj /\ Stale \notin Obj /\ NoFile # Stale

VARIABLES base,         \* the object that created the lock file, Stale, NoFile
          uniq,         \* per process: "none", "own", or "linked" to base
          linkOk,       \* does the file system support link()?
          usage,        \* fl->usage, 0 when the object does not exist
          lockCount,    \* fl->lockCount
          pc,           \* where the object's current call stands
          linkCount,    \* the local variable of GWEN_FSLock__Lock
          tmo,          \* the timeout of the current call
          waited,       \* sleeping periods since t0
          asked,        \* haveAskedForUnlock
          res,          \* result of the last call
          crashes,      \* number of process deaths so far
          stolen        \* has a lock file been removed under a live owner?

files == <<base, uniq, linkOk>>
call  == <<pc, linkCount, tmo, waited, asked, res>>
ghost == <<crashes, stolen>>
vars  == <<files, call, usage, lockCount, ghost>>

Results == {"none", "ok", "error", "timeout", "busy", "nolock", "abort"}

\* Where an object is between two system calls that must not be interrupted
\* by another object of the same (single-threaded) process.
Syscalls == {"stat", "link", "check", "excl", "sleep",
             "rmBase", "rmUniq", "brkBase", "brkUniq"}

PCs == Syscalls \cup {"idle", "try", "busy", "dialog"}

TypeOK ==
  /\ base \in Obj \cup {Stale, NoFile}
  /\ uniq \in [Proc -> {"none", "own", "linked"}]
  /\ linkOk \in BOOLEAN
  /\ usage \in [Obj -> 0..MaxUsage]
  /\ lockCount \in [Obj -> 0..MaxCount]
  /\ pc \in [Obj -> PCs]
  /\ linkCount \in [Obj -> 0..2]
  /\ tmo \in [Obj -> TimeoutKinds]
  /\ waited \in [Obj -> Nat]
  /\ asked \in [Obj -> BOOLEAN]
  /\ res \in [Obj -> Results]
  /\ crashes \in 0..MaxCrashes
  /\ stolen \in BOOLEAN

Holds(o) == lockCount[o] > 0

-----------------------------------------------------------------------------
(* The file system.                                                        *)

U(o) == uniq[ProcOf[o]]

\* st_nlink of a unique file
NLink(u) == CASE u = "none" -> 0 [] u = "own" -> 1 [] u = "linked" -> 2

SetUniq(o, u) == uniq' = [uniq EXCEPT ![ProcOf[o]] = u]

\* remove(baseLockFilename): whatever was linked to it has one name left.
\* Removing the file of another live owner takes the lock away from it.
DropBase(o) ==
  /\ base' = NoFile
  /\ uniq' = [p \in Proc |-> IF uniq[p] = "linked" THEN "own" ELSE uniq[p]]
  /\ stolen' = (stolen \/ base \in Obj \ {o})

\* A call of o ends without the lock: a lock file it may have created stays.
Abandoned(o) == IF base = o THEN Stale ELSE base

-----------------------------------------------------------------------------
(* Control flow of a call.                                                 *)

MayRun(o) == /\ usage[o] > 0
             /\ \A q \in Obj \ {o} :
                  ProcOf[q] = ProcOf[o] => pc[q] \notin Syscalls

At(o, l) == pc[o] = l /\ MayRun(o)

Goto(o, l) == pc' = [pc EXCEPT ![o] = l]

\* End of a call: its local variables are gone.
Return(o, r) ==
  /\ Goto(o, "idle")
  /\ res' = [res EXCEPT ![o] = r]
  /\ linkCount' = [linkCount EXCEPT ![o] = 0]
  /\ tmo' = [tmo EXCEPT ![o] = "none"]
  /\ waited' = [waited EXCEPT ![o] = 0]
  /\ asked' = [asked EXCEPT ![o] = FALSE]

locals == <<linkCount, tmo, waited, asked, res>>

-----------------------------------------------------------------------------
(* GWEN_FSLock_new, _Attach, _free                                         *)

New(o) ==
  /\ usage[o] = 0
  /\ usage' = [usage EXCEPT ![o] = 1]
  /\ UNCHANGED <<files, call, lockCount, ghost>>

Attach(o) ==
  /\ At(o, "idle")
  /\ usage[o] < MaxUsage
  /\ usage' = [usage EXCEPT ![o] = @ + 1]
  /\ UNCHANGED <<files, call, lockCount, ghost>>

\* The last reference takes the object away; a lock it still has is only
\* warned about, its files stay.
Free(o) ==
  /\ At(o, "idle")
  /\ usage[o] = 1 /\ Holds(o) => "leak" \in Faults
  /\ usage' = [usage EXCEPT ![o] = @ - 1]
  /\ IF usage[o] = 1
     THEN /\ lockCount' = [lockCount EXCEPT ![o] = 0]
          /\ res' = [res EXCEPT ![o] = "none"]
          /\ base' = Abandoned(o)
     ELSE UNCHANGED <<lockCount, res, base>>
  /\ UNCHANGED <<uniq, linkOk, pc, linkCount, tmo, waited, asked, ghost>>

-----------------------------------------------------------------------------
(* GWEN_FSLock__Lock: one attempt                                          *)

Reenter(o) ==
  /\ At(o, "try") /\ Holds(o)
  /\ lockCount' = [lockCount EXCEPT ![o] = @ + 1]
  /\ Return(o, "ok")
  /\ UNCHANGED <<files, usage, ghost>>

OpenUnique(o) ==
  /\ At(o, "try") /\ ~Holds(o)
  /\ IF U(o) = "none" THEN SetUniq(o, "own") ELSE UNCHANGED uniq
  /\ Goto(o, "stat")
  /\ UNCHANGED <<base, linkOk, locals, usage, lockCount, ghost>>

OpenUniqueFails(o) ==
  /\ At(o, "try") /\ ~Holds(o) /\ "stat" \in Faults
  /\ Return(o, "error")
  /\ UNCHANGED <<files, usage, lockCount, ghost>>

StatUnique(o) ==
  /\ At(o, "stat")
  /\ linkCount' = [linkCount EXCEPT ![o] = NLink(U(o))]
  /\ Goto(o, "link")
  /\ UNCHANGED <<files, tmo, waited, asked, res, usage, lockCount, ghost>>

StatUniqueFails(o) ==
  /\ At(o, "stat") /\ "stat" \in Faults
  /\ SetUniq(o, "none")
  /\ Return(o, "error")
  /\ UNCHANGED <<base, linkOk, usage, lockCount, ghost>>

\* lockCount++, GWEN_FSLock_ResultOk
Acquire(o) ==
  /\ lockCount' = [lockCount EXCEPT ![o] = @ + 1]
  /\ Return(o, "ok")

LinkBase(o) ==
  /\ At(o, "link") /\ linkOk /\ base = NoFile
  /\ base' = o
  /\ SetUniq(o, "linked")
  /\ Acquire(o)
  /\ UNCHANGED <<linkOk, usage, ghost>>

\* link() did its work, its answer was lost and the retry says EEXIST.
LinkBaseReplyLost(o) ==
  /\ At(o, "link") /\ linkOk /\ base = NoFile /\ "lostReply" \in Faults
  /\ base' = o
  /\ SetUniq(o, "linked")
  /\ Goto(o, "check")
  /\ UNCHANGED <<linkOk, locals, usage, lockCount, ghost>>

LinkBaseFails(o) ==
  /\ At(o, "link") /\ linkOk
  /\ base # NoFile \/ "link" \in Faults
  /\ Goto(o, "check")
  /\ UNCHANGED <<files, locals, usage, lockCount, ghost>>

\* EPERM: this file system has no hard links.
LinkUnsupported(o) ==
  /\ At(o, "link") /\ ~linkOk
  /\ Goto(o, "excl")
  /\ UNCHANGED <<files, locals, usage, lockCount, ghost>>

\* Slip: any link count will do.
MutLinkWasMade(o) == NLink(U(o)) >= linkCount[o]

LinkWasMade(o) == NLink(U(o)) = linkCount[o] + 1

\* Slip: the unique file is not removed when the lock is busy.
MutCheckLink(o) ==
  /\ At(o, "check")
  /\ IF LinkWasMade(o)
     THEN Acquire(o) /\ UNCHANGED base
     ELSE /\ base' = Abandoned(o)
          /\ Goto(o, "busy")
          /\ UNCHANGED <<locals, lockCount>>
  /\ UNCHANGED <<uniq, linkOk, usage, ghost>>

CheckLink(o) ==
  /\ At(o, "check")
  /\ IF LinkWasMade(o)
     THEN Acquire(o) /\ UNCHANGED <<base, uniq>>
     ELSE /\ SetUniq(o, "none")
          /\ base' = Abandoned(o)
          /\ Goto(o, "busy")
          /\ UNCHANGED <<locals, lockCount>>
  /\ UNCHANGED <<linkOk, usage, ghost>>

CheckLinkFails(o) ==
  /\ At(o, "check") /\ "stat" \in Faults
  /\ SetUniq(o, "none")
  /\ base' = Abandoned(o)
  /\ Return(o, "error")
  /\ UNCHANGED <<linkOk, usage, lockCount, ghost>>

\* open(baseLockFilename, O_CREAT|O_EXCL)
ExclBase(o) ==
  /\ At(o, "excl")
  /\ IF base = NoFile
     THEN base' = o /\ Acquire(o) /\ UNCHANGED uniq
     ELSE /\ SetUniq(o, "none")
          /\ Goto(o, "busy")
          /\ UNCHANGED <<base, locals, lockCount>>
  /\ UNCHANGED <<linkOk, usage, ghost>>

-----------------------------------------------------------------------------
(* GWEN_FSLock_Lock: the loop around the attempts                          *)

Lock(o, t) ==
  /\ At(o, "idle") /\ lockCount[o] < MaxCount
  /\ Goto(o, "try")
  /\ tmo' = [tmo EXCEPT ![o] = t]
  /\ res' = [res EXCEPT ![o] = "none"]
  /\ UNCHANGED <<files, linkCount, waited, asked, usage, lockCount, ghost>>

\* GWEN_Gui_ProgressAdvance() reports that the user wants to stop.  A call
\* that waits forever only looks at the head of the loop.
UserAbort(o) ==
  /\ At(o, "try") \/ (At(o, "busy") /\ tmo[o] = "finite" /\ waited[o] < Timeout)
  /\ Return(o, "abort")
  /\ UNCHANGED <<files, usage, lockCount, ghost>>

BusyReturn(o) ==
  /\ At(o, "busy") /\ tmo[o] = "none"
  /\ Return(o, "busy")
  /\ UNCHANGED <<files, usage, lockCount, ghost>>

BusyTimeout(o) ==
  /\ At(o, "busy") /\ tmo[o] = "finite" /\ waited[o] >= Timeout
  /\ Return(o, "timeout")
  /\ UNCHANGED <<files, usage, lockCount, ghost>>

WantsDialog(o) == /\ tmo[o] = "finite"
                  /\ o \in Interactive /\ ~asked[o] /\ waited[o] >= TimeoutAsk

BusyAsk(o) ==
  /\ At(o, "busy") /\ WantsDialog(o) /\ waited[o] < Timeout
  /\ asked' = [asked EXCEPT ![o] = TRUE]
  /\ Goto(o, "dialog")
  /\ UNCHANGED <<files, linkCount, tmo, waited, res, usage, lockCount, ghost>>

BusyWait(o) ==
  /\ At(o, "busy")
  /\ \/ tmo[o] = "forever"
     \/ tmo[o] = "finite" /\ waited[o] < Timeout /\ ~WantsDialog(o)
  /\ Goto(o, "sleep")
  /\ UNCHANGED <<files, locals, usage, lockCount, ghost>>

\* Slip: the time that has passed is not taken into account.
MutWakeUp(o) ==
  /\ At(o, "sleep") /\ tmo[o] = "finite"
  /\ Goto(o, "try")
  /\ UNCHANGED <<files, locals, usage, lockCount, ghost>>

\* GWEN_Socket_Select(0, 0, 0, distance) runs into its timeout; there is
\* none when distance is GWEN_TIMEOUT_FOREVER.
WakeUp(o) ==
  /\ At(o, "sleep") /\ tmo[o] = "finite"
  /\ \E w \in (waited[o] + 1)..Timeout : waited' = [waited EXCEPT ![o] = w]
  /\ Goto(o, "try")
  /\ UNCHANGED <<files, linkCount, tmo, asked, res, usage, lockCount, ghost>>

\* select() is interrupted by a signal.
Signal(o) ==
  /\ At(o, "sleep") /\ tmo[o] = "forever"
  /\ Goto(o, "try")
  /\ UNCHANGED <<files, locals, usage, lockCount, ghost>>

\* The three buttons of the "Possible Stale Lock" dialog.
AnswerWait(o) ==
  /\ At(o, "dialog")
  /\ Goto(o, "sleep")
  /\ UNCHANGED <<files, locals, usage, lockCount, ghost>>

AnswerAbort(o) ==
  /\ At(o, "dialog")
  /\ Return(o, "abort")
  /\ UNCHANGED <<files, usage, lockCount, ghost>>

\* The user heeds the warning of the dialog: when the button is pressed no
\* process owns the lock.
AnswerRemove(o) ==
  /\ At(o, "dialog") /\ o \in Remover
  /\ base \notin Obj
  /\ Goto(o, "brkBase")
  /\ UNCHANGED <<files, locals, usage, lockCount, ghost>>

BreakBase(o) ==
  /\ At(o, "brkBase")
  /\ DropBase(o)
  /\ Goto(o, "brkUniq")
  /\ UNCHANGED <<linkOk, locals, usage, lockCount, crashes>>

BreakUnique(o) ==
  /\ At(o, "brkUniq")
  /\ SetUniq(o, "none")
  /\ waited' = [waited EXCEPT ![o] = 0]
  /\ Goto(o, "try")
  /\ UNCHANGED <<base, linkOk, linkCount, tmo, asked, res, usage, lockCount,
                 ghost>>

-----------------------------------------------------------------------------
(* GWEN_FSLock_Unlock                                                      *)

\* Slip: lockCount is not looked at before it is decremented.
MutUnlockNotHeld(o) ==
  /\ At(o, "idle") /\ ~Holds(o)
  /\ lockCount' = [lockCount EXCEPT ![o] = @ - 1]
  /\ Return(o, "ok")
  /\ UNCHANGED <<files, usage, ghost>>

UnlockNotHeld(o) ==
  /\ At(o, "idle") /\ ~Holds(o)
  /\ Return(o, "nolock")
  /\ UNCHANGED <<files, usage, lockCount, ghost>>

Unlock(o) ==
  /\ At(o, "idle") /\ Holds(o)
  /\ lockCount' = [lockCount EXCEPT ![o] = @ - 1]
  /\ IF lockCount[o] = 1
     THEN /\ Goto(o, "rmBase")
          /\ res' = [res EXCEPT ![o] = "none"]
          /\ UNCHANGED <<linkCount, tmo, waited, asked>>
     ELSE Return(o, "ok")
  /\ UNCHANGED <<files, usage, ghost>>

RemoveBase(o) ==
  /\ At(o, "rmBase")
  /\ DropBase(o)
  /\ Goto(o, "rmUniq")
  /\ UNCHANGED <<linkOk, locals, usage, lockCount, crashes>>

RemoveUnique(o) ==
  /\ At(o, "rmUniq")
  /\ SetUniq(o, "none")
  /\ Return(o, "ok")
  /\ UNCHANGED <<base, linkOk, usage, lockCount, ghost>>

-----------------------------------------------------------------------------
(* A process dies wherever it is; its files stay.  A later process may get *)
(* the same pid, hence the same unique file name.                          *)

Crash(p) ==
  LET dead == {o \in Obj : ProcOf[o] = p}
      Wipe(f, v) == [o \in Obj |-> IF o \in dead THEN v ELSE f[o]]
  IN  /\ "crash" \in Faults /\ crashes < MaxCrashes
      /\ crashes' = crashes + 1
      /\ base' = IF base \in dead THEN Stale ELSE base
      /\ usage' = Wipe(usage, 0)
      /\ lockCount' = Wipe(lockCount, 0)
      /\ pc' = Wipe(pc, "idle")
      /\ linkCount' = Wipe(linkCount, 0)
      /\ tmo' = Wipe(tmo, "none")
      /\ waited' = Wipe(waited, 0)
      /\ asked' = Wipe(asked, FALSE)
      /\ res' = Wipe(res, "none")
      /\ UNCHANGED <<uniq, linkOk, stolen>>

-----------------------------------------------------------------------------
Init ==
  /\ base = NoFile
  /\ uniq = [p \in Proc |-> "none"]
  /\ linkOk \in BOOLEAN
  /\ usage = [o \in Obj |-> 0]
  /\ lockCount = [o \in Obj |-> 0]
  /\ pc = [o \in Obj |-> "idle"]
  /\ linkCount = [o \in Obj |-> 0]
  /\ tmo = [o \in Obj |-> "none"]
  /\ waited = [o \in Obj |-> 0]
  /\ asked = [o \in Obj |-> FALSE]
  /\ res = [o \in Obj |-> "none"]
  /\ crashes = 0
  /\ stolen = FALSE

\* What a process does on its own once a call has begun.
Step(o) ==
  \/ Reenter(o) \/ OpenUnique(o) \/ OpenUniqueFails(o)
  \/ StatUnique(o) \/ StatUniqueFails(o)
  \/ LinkBase(o) \/ LinkBaseReplyLost(o) \/ LinkBaseFails(o)
  \/ LinkUnsupported(o) \/ CheckLink(o) \/ CheckLinkFails(o) \/ ExclBase(o)
  \/ UserAbort(o) \/ BusyReturn(o) \/ BusyTimeout(o) \/ BusyAsk(o)
  \/ BusyWait(o) \/ WakeUp(o)
  \/ AnswerWait(o) \/ AnswerAbort(o) \/ AnswerRemove(o)
  \/ BreakBase(o) \/ BreakUnique(o)
  \/ RemoveBase(o) \/ RemoveUnique(o)

\* What starts a call or comes from outside.
Begin(o) ==
  \/ New(o) \/ Attach(o) \/ Free(o)
  \/ \E t \in Timeouts : Lock(o, t)
  \/ UnlockNotHeld(o) \/ Unlock(o)
  \/ Signal(o)

Next == \/ \E o \in Obj : Step(o) \/ Begin(o)
        \/ \E p \in Proc : Crash(p)

Spec == Init /\ [][Next]_vars

\* Processes keep running once they are in a call, and users answer dialogs.
FairSpec == Spec /\ \A o \in Obj : WF_vars(Step(o))

-----------------------------------------------------------------------------
(* Properties                                                              *)

\* No two objects hold the lock at the same time (lockCount > 0 in both).
MutualExclusion == \A o, q \in Obj : Holds(o) /\ Holds(q) => o = q

\* The same while no "Remove Lock" has hit the file of a live owner:
\* remove(baseLockFilename) does not look whose file it removes.
MutexUntilStolen == stolen \/ MutualExclusion

\* A lock file nobody stole belongs to its holder: Unlock of the holder
\* removes its own file, never that of a later owner.
HolderOwnsFile ==
  stolen \/ \A o \in Obj : Holds(o) \/ pc[o] = "rmBase" => base = o

\* When nobody is in a call and nobody holds the lock, no call has left a
\* lock file or a unique file behind: every early return cleans up.
NothingLeftBehind ==
  (\A o \in Obj : pc[o] = "idle" /\ ~Holds(o)) =>
     base = NoFile /\ \A p \in Proc : uniq[p] = "none"

\* A call that may wait at most a finite time returns.
LockReturns ==
  \A o \in Obj :
    (pc[o] # "idle" /\ tmo[o] # "forever") ~> (pc[o] = "idle")

\* A call that may wait forever notices that the lock has become free: it
\* does not stay asleep while nobody owns the lock.
ForeverWaiterWakes ==
  \A o \in Obj : []<>~(pc[o] = "sleep" /\ base = NoFile)

\* The protocol implements LockService as long as users do not force locks.
Service == INSTANCE LockService WITH
             inside <- {o \in Obj : Holds(o)},
             orphan <- (base = Stale)

ServiceSpec == Service!LSSpec
=============================================================================
