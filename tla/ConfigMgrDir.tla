---------------------------- MODULE ConfigMgrDir ----------------------------
(***************************************************************************)
(* The directory based configuration manager,                              *)
(* plugins/configmgr/dir/cfgdir.c: several managers, each in its own       *)
(* process, work on one group directory.  It holds a file per sub-group    *)
(* and the file "uniqueid" with the last number given out.                 *)
(*                                                                         *)
(* Locks are FSLOCKs, taken here as what FSLock is shown to implement      *)
(* (LockService): taking and releasing one is a single step, the lock of   *)
(* a dead process stays, and a user may remove such an orphaned lock.      *)
(* Files are rewritten in two steps, as fopen(name, "w") truncates them    *)
(* before the new contents arrive with fclose().  Before it takes any lock *)
(* every call has GWEN_Directory_GetPath look for its file and create it   *)
(* when it is missing, which takes two steps as well: stat(), and then     *)
(* open() with O_CREAT and O_TRUNC.                                        *)
(***************************************************************************)
EXTENDS Naturals

CONSTANTS Mgr,       \* the GWEN_CONFIGMGR objects
          Sub,       \* the numbers of the sub-groups callers work on
          Value,     \* contents of a sub-group file
          MaxId,     \* bound on the numbers given out
          Faults,    \* "crash": a process dies, "disk": a file operation fails
          MaxCrashes, \* bound on the number of deaths
          Free, Orphan,  \* a lock nobody holds, one that outlived its holder
          Absent, Empty, \* a file that does not exist, one without contents
          Unread         \* a sub-group a manager has not read

Ids == 1..MaxId          \* MkUniqueIdFromId names a sub-group after its number
UidKey == 0              \* the lock and the file "uniqueid"
Keys == Sub \cup {UidKey}
Contents == Value \cup Ids
Ops == {"get", "mk", "lockGroup", "getGroup", "set", "delete"}

ASSUME ConfigAssumption ==
  /\ MaxId \in Nat \ {0} /\ MaxCrashes \in Nat /\ Sub \subseteq Ids
  /\ Free \notin Mgr /\ Orphan \notin Mgr \cup {Free}
  /\ Value \cap Ids = {}
  /\ Absent \notin Contents /\ Empty \notin Contents \cup {Absent}
  /\ Unread \notin Contents \cup {Absent, Empty}

VARIABLES lck,       \* per key: the manager that has the lock, Free, Orphan
          file,      \* per key: Absent, Empty, a value or (uniqueid) a number
          fileLocks, \* xcfg->fileLocks: the sub-groups a manager has locked
          pc, op, arg, val,   \* the call in progress and its locals
          ret,       \* result of the last call
          seen,      \* what a manager has read of a sub-group it has locked
          saved,     \* what the last successful SetGroup left in a sub-group
          given,     \* the numbers GetUniqueId has given out
          reserved,  \* the numbers MkUniqueIdFromId has reserved
          damaged,   \* the files that have lost their contents, or that a
                     \* call rewrites without having been able to read them
          crashes

disk == <<file, damaged, saved>>
call == <<pc, op, arg, val>>
taken == <<given, reserved>>
vars == <<lck, disk, fileLocks, call, ret, seen, taken, crashes>>

PCs == {"idle", "path", "create", "lock", "read", "open", "openBlind", "write",
        "unlock", "fail", "readGroup", "setOpen", "setWrite", "unlink", "delUnlock"}

TypeOK ==
  /\ lck \in [Keys -> Mgr \cup {Free, Orphan}]
  /\ file \in [Keys -> Contents \cup {Absent, Empty}]
  /\ file[UidKey] \in Ids \cup {Absent, Empty}
  /\ \A s \in Sub : file[s] \in Value \cup {Absent, Empty}
  /\ fileLocks \in [Mgr -> SUBSET Sub]
  /\ pc \in [Mgr -> PCs]
  /\ op \in [Mgr -> Ops \cup {"none"}]
  /\ arg \in [Mgr -> 0..MaxId]
  /\ val \in [Mgr -> Value \cup (0..MaxId)]
  /\ ret \in [Mgr -> {"none", "ok", "error"}]
  /\ seen \in [Mgr -> [Sub -> Value \cup {Empty, Unread}]]
  /\ saved \in [Sub -> Value \cup {Empty}]
  /\ given \subseteq Ids /\ reserved \subseteq Ids
  /\ damaged \subseteq Keys
  /\ crashes \in 0..MaxCrashes

Init ==
  /\ lck = [k \in Keys |-> Free]
  /\ file = [k \in Keys |-> Absent]
  /\ fileLocks = [m \in Mgr |-> {}]
  /\ pc = [m \in Mgr |-> "idle"]
  /\ op = [m \in Mgr |-> "none"]
  /\ arg = [m \in Mgr |-> 0]
  /\ val = [m \in Mgr |-> 0]
  /\ ret = [m \in Mgr |-> "none"]
  /\ seen = [m \in Mgr |-> [s \in Sub |-> Unread]]
  /\ saved = [s \in Sub |-> Empty]
  /\ given = {} /\ reserved = {} /\ damaged = {} /\ crashes = 0

-----------------------------------------------------------------------------
Goto(m, l) == pc' = [pc EXCEPT ![m] = l]

Begin(m, o, a, v) ==
  /\ pc[m] = "idle"
  /\ Goto(m, "path")
  /\ op' = [op EXCEPT ![m] = o]
  /\ arg' = [arg EXCEPT ![m] = a]
  /\ val' = [val EXCEPT ![m] = v]
  /\ ret' = [ret EXCEPT ![m] = "none"]

\* End of a call.
Return(m, r) ==
  /\ Goto(m, "idle")
  /\ op' = [op EXCEPT ![m] = "none"]
  /\ arg' = [arg EXCEPT ![m] = 0]
  /\ val' = [val EXCEPT ![m] = 0]
  /\ ret' = [ret EXCEPT ![m] = r]

\* A call that does its work in one step.
Done(m, r) == pc[m] = "idle" /\ Return(m, r)

\* The file and the lock the current call is about.
Key(m) == IF op[m] \in {"get", "mk"} THEN UidKey ELSE arg[m]

\* Slip: the result of GWEN_FSLock_Lock is not looked at.
MutTake(m, k) == lck' = [lck EXCEPT ![k] = m]

Take(m, k) == lck[k] = Free /\ lck' = [lck EXCEPT ![k] = m]
Release(m, k) == lck' = [lck EXCEPT ![k] = Free]

Truncate(k) == file' = [file EXCEPT ![k] = Empty]

Forget(m, s) == seen' = [seen EXCEPT ![m][s] = Unread]

-----------------------------------------------------------------------------
(* The calls, up to GWEN_Directory_GetPath                                 *)

GetUniqueId(m) ==
  /\ Begin(m, "get", 0, 0)
  /\ UNCHANGED <<lck, disk, fileLocks, seen, taken, crashes>>

Exists(u) == u \in Sub /\ file[u] # Absent

\* Without doCheck the number is used as it is; with doCheck an existing
\* sub-group ends the call with the result of GetPath, which is 0.
MkUniqueIdFromId(m, u, doCheck) ==
  /\ \/ ~doCheck /\ Done(m, "ok")
     \/ doCheck /\ Exists(u) /\ Done(m, "ok")
     \/ doCheck /\ ~Exists(u) /\ Begin(m, "mk", u, 0)
  /\ UNCHANGED <<lck, disk, fileLocks, seen, taken, crashes>>

LockGroup(m, s) ==
  /\ Begin(m, "lockGroup", s, 0)
  /\ UNCHANGED <<lck, disk, fileLocks, seen, taken, crashes>>

GetGroup(m, s) ==
  /\ Begin(m, "getGroup", s, 0)
  /\ UNCHANGED <<lck, disk, fileLocks, seen, taken, crashes>>

SetGroup(m, s, v) ==
  /\ Begin(m, "set", s, v)
  /\ UNCHANGED <<lck, disk, fileLocks, seen, taken, crashes>>

DeleteGroup(m, s) ==
  /\ Begin(m, "delete", s, 0)
  /\ UNCHANGED <<lck, disk, fileLocks, seen, taken, crashes>>

\* What follows GetPath.
AfterPath(m) == CASE op[m] = "getGroup" -> "readGroup"
                  [] op[m] = "set"      -> "setOpen"
                  [] OTHER              -> "lock"

PathStat(m) ==
  /\ pc[m] = "path"
  /\ Goto(m, IF file[Key(m)] = Absent THEN "create" ELSE AfterPath(m))
  /\ UNCHANGED <<lck, disk, fileLocks, op, arg, val, ret, seen, taken, crashes>>

\* open(O_CREAT|O_TRUNC): nobody has locked the file, which may have been
\* created and written since stat() did not find it.
PathCreate(m) ==
  /\ pc[m] = "create"
  /\ Truncate(Key(m))
  /\ damaged' = IF file[Key(m)] \in Contents THEN damaged \cup {Key(m)}
                                             ELSE damaged
  /\ Goto(m, AfterPath(m))
  /\ UNCHANGED <<lck, saved, fileLocks, op, arg, val, ret, seen, taken, crashes>>

PathFails(m) ==
  /\ pc[m] = "create" /\ "disk" \in Faults
  /\ Return(m, "error")
  /\ UNCHANGED <<lck, disk, fileLocks, seen, taken, crashes>>

-----------------------------------------------------------------------------
(* Taking the lock                                                         *)

TakeLock(m) ==
  /\ pc[m] = "lock" /\ Key(m) \notin fileLocks[m]
  /\ Take(m, Key(m))
  /\ \/ /\ op[m] = "lockGroup" /\ Return(m, "ok")
        /\ fileLocks' = [fileLocks EXCEPT ![m] = @ \cup {Key(m)}]
     \/ /\ op[m] # "lockGroup"
        /\ Goto(m, IF op[m] = "delete" THEN "unlink" ELSE "read")
        /\ UNCHANGED <<fileLocks, op, arg, val, ret>>
  /\ UNCHANGED <<disk, seen, taken, crashes>>

\* The manager has locked the sub-group itself (FindLock), or another process
\* has and GWEN_FSLock_Lock ran into its timeout.
LockFails(m) ==
  /\ pc[m] = "lock"
  /\ Key(m) \in fileLocks[m] \/ lck[Key(m)] # Free
  /\ Return(m, "error")
  /\ UNCHANGED <<lck, disk, fileLocks, seen, taken, crashes>>

-----------------------------------------------------------------------------
(* Unique numbers                                                          *)

\* fscanf("%d"): an empty file counts as 0.
LastId == IF file[UidKey] \in Ids THEN file[UidKey] ELSE 0

\* What a call takes for the last number: 0 as well when fopen() or fscanf()
\* fails, upon which the call carries on.
LastIds == {LastId} \cup (IF "disk" \in Faults THEN {0} ELSE {})

\* The call has its number: it is given out, or reserved.
Record(m, n) ==
  /\ given' = IF op[m] = "get" THEN given \cup {n} ELSE given
  /\ reserved' = IF op[m] = "mk" THEN reserved \cup {n} ELSE reserved

\* GetUniqueId wants the number after the last one, UpdateLastUniqueId (for
\* "mk") its own, which it only writes when it is larger than the last one.
NextId(m, last) == IF op[m] = "get" THEN last + 1 ELSE arg[m]

\* A number that is not larger than the one in the file is only on its way to
\* it ("openBlind") when the file could not be read.
UidRead(m) ==
  /\ pc[m] = "read"
  /\ \E last \in LastIds : LET n == NextId(m, last) IN
       \/ /\ n > last /\ n <= MaxId
          /\ val' = [val EXCEPT ![m] = n]
          /\ Goto(m, IF n > LastId THEN "open" ELSE "openBlind")
          /\ UNCHANGED taken
       \/ /\ n <= last
          /\ val' = [val EXCEPT ![m] = n] /\ Goto(m, "unlock")
          /\ Record(m, n)
       \/ /\ n > MaxId                         \* bound of the model
          /\ Goto(m, "fail") /\ UNCHANGED <<val, taken>>
  /\ UNCHANGED <<lck, disk, fileLocks, op, arg, ret, seen, crashes>>

\* fopen("w") truncates the file; with it goes a number the call has not read.
UidOpen(m) ==
  /\ pc[m] \in {"open", "openBlind"}
  /\ \/ /\ Goto(m, "write") /\ Truncate(UidKey)
        /\ damaged' = IF pc[m] = "openBlind" THEN damaged \cup {UidKey}
                                             ELSE damaged
     \/ "disk" \in Faults /\ Goto(m, "fail") /\ UNCHANGED <<file, damaged>>
  /\ UNCHANGED <<lck, saved, fileLocks, op, arg, val, ret, seen, taken, crashes>>

\* Slip: the number is incremented once more.
MutUidWrite(m) ==
  /\ pc[m] = "write"
  /\ file' = [file EXCEPT ![UidKey] = val[m] + 1]
  /\ Record(m, val[m])
  /\ Goto(m, "unlock")
  /\ UNCHANGED <<lck, damaged, saved, fileLocks, op, arg, val, ret, seen,
                 crashes>>

UidWrite(m) ==
  /\ pc[m] = "write"
  /\ file' = [file EXCEPT ![UidKey] = val[m]]
  /\ Record(m, val[m])
  /\ Goto(m, "unlock")
  /\ UNCHANGED <<lck, damaged, saved, fileLocks, op, arg, val, ret, seen,
                 crashes>>

\* fclose() reports that the number did not reach the disk.
UidWriteFails(m) ==
  /\ pc[m] = "write" /\ "disk" \in Faults
  /\ damaged' = damaged \cup {UidKey}
  /\ Goto(m, "fail")
  /\ UNCHANGED <<lck, file, saved, fileLocks, op, arg, val, ret, seen, taken,
                 crashes>>

UidUnlock(m) ==
  /\ \/ pc[m] = "unlock" /\ Return(m, "ok")
     \/ pc[m] = "fail" /\ Return(m, "error")
  /\ Release(m, UidKey)
  /\ UNCHANGED <<disk, fileLocks, seen, taken, crashes>>

-----------------------------------------------------------------------------
(* Sub-groups                                                              *)

UnlockGroup(m, s) ==
  /\ \/ s \notin fileLocks[m] /\ Done(m, "error")
        /\ UNCHANGED <<lck, fileLocks, seen>>
     \/ /\ s \in fileLocks[m] /\ Release(m, s) /\ Done(m, "ok")
        /\ fileLocks' = [fileLocks EXCEPT ![m] = @ \ {s}]
        /\ Forget(m, s)
  /\ UNCHANGED <<disk, taken, crashes>>

\* GetGroup reads with or without a lock; what was read is remembered for
\* locked sub-groups.  An empty file is an empty group, one that cannot be
\* read an error.
ReadGroup(m) ==
  /\ pc[m] = "readGroup"
  /\ \/ /\ file[arg[m]] = Absent \/ "disk" \in Faults
        /\ Return(m, "error") /\ UNCHANGED seen
     \/ /\ file[arg[m]] # Absent
        /\ Return(m, "ok")
        /\ seen' = IF arg[m] \in fileLocks[m]
                   THEN [seen EXCEPT ![m][arg[m]] = file[arg[m]]] ELSE seen
  /\ UNCHANGED <<lck, disk, fileLocks, taken, crashes>>

\* SetGroup insists on a lock; GWEN_DB_WriteFile truncates the file ...
SetOpen(m) ==
  /\ pc[m] = "setOpen"
  /\ \/ /\ arg[m] \notin fileLocks[m] \/ "disk" \in Faults
        /\ Return(m, "error") /\ UNCHANGED <<file, seen>>
     \/ /\ arg[m] \in fileLocks[m] /\ Goto(m, "setWrite")
        /\ Truncate(arg[m]) /\ Forget(m, arg[m])
        /\ UNCHANGED <<op, arg, val, ret>>
  /\ UNCHANGED <<lck, damaged, saved, fileLocks, taken, crashes>>

\* ... and writes it.
SetWrite(m) ==
  /\ pc[m] = "setWrite"
  /\ \/ /\ file' = [file EXCEPT ![arg[m]] = val[m]]
        /\ saved' = [saved EXCEPT ![arg[m]] = val[m]]
        /\ Return(m, "ok") /\ damaged' = damaged \ {arg[m]}
     \/ /\ "disk" \in Faults
        /\ Return(m, "error") /\ damaged' = damaged \cup {arg[m]}
        /\ UNCHANGED <<file, saved>>
  /\ UNCHANGED <<lck, fileLocks, seen, taken, crashes>>

\* Whether unlink() works is not looked at.
Unlink(m) ==
  /\ pc[m] = "unlink"
  /\ \/ /\ file' = [file EXCEPT ![arg[m]] = Absent]
        /\ saved' = [saved EXCEPT ![arg[m]] = Empty]
        /\ damaged' = damaged \ {arg[m]}
     \/ "disk" \in Faults /\ UNCHANGED disk
  /\ Goto(m, "delUnlock")
  /\ UNCHANGED <<lck, fileLocks, op, arg, val, ret, seen, taken, crashes>>

DelUnlock(m) ==
  /\ pc[m] = "delUnlock"
  /\ Release(m, arg[m])
  /\ Return(m, "ok")
  /\ UNCHANGED <<disk, fileLocks, seen, taken, crashes>>

\* Freeing a manager releases the locks it still has.
FreeData(m) ==
  /\ fileLocks[m] # {}
  /\ Done(m, "none")
  /\ lck' = [k \in Keys |-> IF k \in fileLocks[m] THEN Free ELSE lck[k]]
  /\ fileLocks' = [fileLocks EXCEPT ![m] = {}]
  /\ seen' = [seen EXCEPT ![m] = [s \in Sub |-> Unread]]
  /\ UNCHANGED <<disk, taken, crashes>>

-----------------------------------------------------------------------------
(* Death of a process, and the removal of an orphaned lock by a user       *)

Crash(m) ==
  /\ "crash" \in Faults /\ crashes < MaxCrashes
  /\ crashes' = crashes + 1
  /\ damaged' = IF pc[m] \in {"write", "setWrite"} THEN damaged \cup {Key(m)}
                                                   ELSE damaged
  /\ lck' = [k \in Keys |-> IF lck[k] = m THEN Orphan ELSE lck[k]]
  /\ fileLocks' = [fileLocks EXCEPT ![m] = {}]
  /\ seen' = [seen EXCEPT ![m] = [s \in Sub |-> Unread]]
  /\ Return(m, "none")
  /\ UNCHANGED <<file, saved, taken>>

RemoveOrphan(k) ==
  /\ lck[k] = Orphan
  /\ lck' = [lck EXCEPT ![k] = Free]
  /\ UNCHANGED <<disk, fileLocks, call, ret, seen, taken, crashes>>

-----------------------------------------------------------------------------
\* The steps of a call after its first one.
Step(m) ==
  \/ PathStat(m) \/ PathCreate(m) \/ PathFails(m) \/ TakeLock(m) \/ LockFails(m)
  \/ UidRead(m) \/ UidOpen(m) \/ UidWrite(m) \/ UidWriteFails(m) \/ UidUnlock(m)
  \/ ReadGroup(m) \/ SetOpen(m) \/ SetWrite(m) \/ Unlink(m) \/ DelUnlock(m)

Next ==
  \/ \E m \in Mgr :
       \/ Step(m) \/ GetUniqueId(m) \/ FreeData(m) \/ Crash(m)
       \/ \E u \in Ids, c \in BOOLEAN : MkUniqueIdFromId(m, u, c)
       \/ \E s \in Sub : \/ LockGroup(m, s) \/ UnlockGroup(m, s)
                         \/ GetGroup(m, s) \/ DeleteGroup(m, s)
                         \/ \E v \in Value : SetGroup(m, s, v)
  \/ \E k \in Keys : RemoveOrphan(k)

Spec == Init /\ [][Next]_vars

-----------------------------------------------------------------------------
(* Properties                                                              *)

\* A number GetUniqueId is about to write and return.
Offered(m, n) == pc[m] = "write" /\ op[m] = "get" /\ val[m] = n

\* GetUniqueId never gives out a number twice.
UniqueIds == \A m \in Mgr, n \in Ids : Offered(m, n) => n \notin given

\* As long as "uniqueid" has not lost its contents, be it to a death, a full
\* disk, GetPath of another process or a call that could not read it and
\* starts again at 1, GetUniqueId gives out numbers that were neither given
\* out nor reserved before: the lock covers the reading and the rewriting of
\* the file.
NewIdIsFresh ==
  UidKey \in damaged \/
    \A m \in Mgr, n \in Ids : Offered(m, n) => n \notin given \cup reserved

\* What a manager has read of a sub-group under its lock is what the file
\* holds until the manager itself changes it: no lost updates between
\* LockGroup/GetGroup and SetGroup, whatever the other processes do, but for
\* a file that GetPath of another process has truncated.
StableUnderLock ==
  \A m \in Mgr, s \in Sub :
    seen[m][s] # Unread /\ s \notin damaged => file[s] = seen[m][s]

\* A manager that has locked a sub-group reads what the last successful
\* SetGroup of any process saved, never a half-written or an older state,
\* unless the file was damaged.
LockedReadCurrent ==
  \A m \in Mgr, s \in Sub :
    seen[m][s] # Unread /\ s \notin damaged => seen[m][s] = saved[s]
=============================================================================
