------------------------- MODULE ConfigMgrDirProofs -------------------------
(***************************************************************************)
(* Proofs about ConfigMgrDir, for any number of managers, sub-groups and   *)
(* values, any bounds and any set of faults: the types, the freshness of   *)
(* the numbers given out, and what a lock on a sub-group promises.         *)
(***************************************************************************)
EXTENDS ConfigMgrDir, TLAPS

UidPCs == {"read", "open", "openBlind", "write", "unlock", "fail"}

\* The locks a manager has: those of its list, and that of the call.
LockInv(m) ==
  /\ \A s \in fileLocks[m] : lck[s] = m
  /\ pc[m] \in UidPCs => op[m] \in {"get", "mk"} /\ lck[UidKey] = m
  /\ pc[m] \in {"unlink", "delUnlock"} =>
       /\ op[m] = "delete" /\ lck[arg[m]] = m /\ arg[m] \notin fileLocks[m]
  /\ pc[m] = "setWrite" => arg[m] \in fileLocks[m]

\* What the arguments of the call in progress are.
ArgInv(m) ==
  /\ op[m] = "mk" => arg[m] \in Ids
  /\ op[m] \in {"lockGroup", "getGroup", "set", "delete"} => arg[m] \in Sub
  /\ op[m] = "set" => val[m] \in Value
  /\ pc[m] \in {"setOpen", "setWrite"} => op[m] = "set"
  /\ pc[m] = "readGroup" => op[m] = "getGroup"
  /\ pc[m] \in {"open", "openBlind", "write"} => val[m] \in Ids
  /\ pc[m] \in {"path", "create", "lock"} => op[m] # "none"
  /\ pc[m] = "lock" => op[m] \notin {"set", "getGroup"}

\* What has been read of a sub-group is forgotten with its lock, and when the
\* manager begins to change the file.
SeenInv(m) ==
  \A s \in Sub : seen[m][s] # Unread =>
    /\ s \in fileLocks[m]
    /\ ~(pc[m] = "setWrite" /\ arg[m] = s)

MgrInv == \A m \in Mgr : LockInv(m) /\ ArgInv(m) /\ SeenInv(m)

Taken == given \cup reserved

\* The numbers taken are at most the one in the file, or less than the one
\* that is on its way to the file.
UidInv ==
  UidKey \in damaged \/
    /\ (\E m \in Mgr : pc[m] = "write") \/ \A n \in Taken : n <= LastId
    /\ \A m \in Mgr : pc[m] \in {"open", "write"} => \A n \in Taken : n < val[m]

\* A file that is not being written holds what was saved last.
HoldsSaved(s) == file[s] = saved[s] \/ (file[s] = Absent /\ saved[s] = Empty)
Writing(m, s) == pc[m] = "setWrite" /\ arg[m] = s
SavedInv ==
  \A s \in Sub \ damaged : HoldsSaved(s) \/ \E m \in Mgr : Writing(m, s)

\* What has been read of an undamaged file is in it, and was saved last.
ReadInv ==
  \A m \in Mgr, s \in Sub \ damaged :
    seen[m][s] # Unread => file[s] = seen[m][s] /\ seen[m][s] = saved[s]

Inv == TypeOK /\ MgrInv /\ UidInv /\ SavedInv /\ ReadInv

-----------------------------------------------------------------------------
(* Every step but RemoveOrphan is one of a single manager.                 *)

\* The step changes no other call.
CallStep(m) ==
  /\ pc' \in [Mgr -> PCs] /\ op' \in [Mgr -> Ops \cup {"none"}]
  /\ arg' \in [Mgr -> 0..MaxId] /\ val' \in [Mgr -> Value \cup (0..MaxId)]
  /\ ret' \in [Mgr -> {"none", "ok", "error"}]
  /\ \A q \in Mgr \ {m} : /\ pc'[q] = pc[q] /\ op'[q] = op[q]
                          /\ arg'[q] = arg[q] /\ val'[q] = val[q]

\* The step changes no other manager's data and takes no lock from another.
DataStep(m) ==
  /\ fileLocks' \in [Mgr -> SUBSET Sub]
  /\ seen' \in [Mgr -> [Sub -> Value \cup {Empty, Unread}]]
  /\ lck' \in [Keys -> Mgr \cup {Free, Orphan}]
  /\ \A q \in Mgr \ {m} : fileLocks'[q] = fileLocks[q] /\ seen'[q] = seen[q]
  /\ \A k \in Keys, q \in Mgr \ {m} : lck[k] = q => lck'[k] = q

OwnInv(m) == LockInv(m) /\ ArgInv(m) /\ SeenInv(m)

\* The step has nothing to do with the numbers.
NoUidStep(m) ==
  /\ given' = given /\ reserved' = reserved /\ file'[UidKey] = file[UidKey]
  /\ UidKey \in damaged => UidKey \in damaged'
  /\ pc[m] # "write" \/ UidKey \in damaged'
  /\ pc'[m] \notin {"open", "write"}

\* The step has nothing to do with the sub-group s, but that the manager may
\* forget what it has read of it.
NoSubStep(m, s) ==
  /\ file'[s] = file[s] /\ saved'[s] = saved[s]
  /\ s \in damaged => s \in damaged'
  /\ ~Writing(m, s)
  /\ seen'[m][s] \in {seen[m][s], Unread}

\* The step damages the file, or leaves it to its writer or in order, and no
\* manager relies on an earlier state.
ChangesSub(m, s) ==
  \/ s \in damaged'
  \/ /\ HoldsSaved(s)' \/ Writing(m, s)'
     /\ \A q \in Mgr : seen'[q][s] = Unread

SubStep(m) == \A s \in Sub : NoSubStep(m, s) \/ ChangesSub(m, s)

\* ConfigAssumption, one fact at a time.
LEMMA Constants ==
  /\ MaxId \in Nat \ {0} /\ MaxCrashes \in Nat /\ Sub \subseteq Ids
  /\ Ids \subseteq Nat \ {0} /\ UidKey \notin Sub /\ UidKey \in Keys
  /\ Sub \subseteq Keys /\ Ids \subseteq 0..MaxId /\ 0 \in 0..MaxId
  /\ Free \notin Mgr /\ Orphan \notin Mgr /\ Orphan # Free
  /\ Value \cap Ids = {} /\ Absent \notin Value /\ Empty \notin Value
  /\ Absent \notin Ids /\ Empty \notin Ids /\ Absent # Empty
  /\ Unread \notin Value /\ Unread # Empty /\ Unread # Absent
BY ConfigAssumption DEF ConfigAssumption, Ids, UidKey, Keys, Contents

\* A step of one manager keeps what the others know.
LEMMA OthersKeep ==
  ASSUME Inv, NEW m \in Mgr, CallStep(m), DataStep(m), OwnInv(m)'
  PROVE  MgrInv'
<1>1. ASSUME NEW q \in Mgr, q # m PROVE OwnInv(q)'
  <2>1. OwnInv(q)
    BY DEF Inv, MgrInv, OwnInv
  <2>2. /\ pc'[q] = pc[q] /\ op'[q] = op[q] /\ arg'[q] = arg[q]
        /\ val'[q] = val[q] /\ fileLocks'[q] = fileLocks[q]
        /\ seen'[q] = seen[q]
    BY <1>1 DEF CallStep, DataStep
  <2>3. \A k \in Keys : lck[k] = q => lck'[k] = q
    BY <1>1 DEF DataStep
  <2>4. fileLocks[q] \subseteq Keys
    BY Constants DEF Inv, TypeOK
  <2>5. LockInv(q)'
    <3>1. \A s \in fileLocks[q] : lck'[s] = q
      BY <2>1, <2>3, <2>4 DEF OwnInv, LockInv
    <3>2. pc[q] \in {"unlink", "delUnlock"} => lck'[arg[q]] = q
      <4>1. SUFFICES ASSUME pc[q] \in {"unlink", "delUnlock"}
                     PROVE  lck'[arg[q]] = q
        OBVIOUS
      <4>2. op[q] = "delete" /\ lck[arg[q]] = q
        BY <2>1, <4>1 DEF OwnInv, LockInv
      <4>3. arg[q] \in Keys
        BY <2>1, <4>2, Constants DEF OwnInv, ArgInv
      <4>. QED BY <4>2, <4>3, <2>3
    <3>3. pc[q] \in UidPCs => lck'[UidKey] = q
      BY <2>1, <2>3, Constants DEF OwnInv, LockInv
    <3>. QED BY <2>1, <2>2, <3>1, <3>2, <3>3 DEF OwnInv, LockInv
  <2>6. ArgInv(q)'
    BY <2>1, <2>2 DEF OwnInv, ArgInv
  <2>7. SeenInv(q)'
    BY <2>1, <2>2 DEF OwnInv, SeenInv
  <2>. QED BY <2>5, <2>6, <2>7 DEF OwnInv
<1>. QED BY <1>1 DEF MgrInv, OwnInv

\* A step that has nothing to do with the numbers.
LEMMA NoUid ==
  ASSUME Inv, NEW m \in Mgr, CallStep(m), NoUidStep(m)
  PROVE  UidInv'
<1>1. SUFFICES ASSUME UidKey \notin damaged' PROVE UidInv'
  BY DEF UidInv
<1>2. Taken' = Taken /\ LastId' = LastId
  BY DEF NoUidStep, Taken, LastId
<1>3. UidKey \notin damaged
  BY <1>1 DEF NoUidStep
<1>4. (\E q \in Mgr : pc'[q] = "write") \/ \A n \in Taken : n <= LastId
  BY <1>1, <1>3 DEF Inv, UidInv, NoUidStep, CallStep
<1>5. ASSUME NEW q \in Mgr, pc'[q] \in {"open", "write"}, NEW n \in Taken
      PROVE  n < val'[q]
  BY <1>3, <1>5 DEF Inv, UidInv, NoUidStep, CallStep
<1>. QED BY <1>2, <1>4, <1>5 DEF UidInv

\* A step that leaves every sub-group alone, damages it or hands it over.
LEMMA SubKeeps ==
  ASSUME Inv, NEW m \in Mgr, CallStep(m), DataStep(m), SubStep(m)
  PROVE  SavedInv' /\ ReadInv'
<1>1. ASSUME NEW s \in Sub, s \notin damaged'
      PROVE  HoldsSaved(s)' \/ \E q \in Mgr : Writing(q, s)'
  <2>1. CASE NoSubStep(m, s)
    <3>1. HoldsSaved(s) \/ \E q \in Mgr : Writing(q, s)
      BY <1>1, <2>1 DEF Inv, SavedInv, NoSubStep
    <3>2. HoldsSaved(s) => HoldsSaved(s)'
      BY <2>1 DEF NoSubStep, HoldsSaved
    <3>3. ASSUME NEW q \in Mgr, Writing(q, s) PROVE Writing(q, s)'
      <4>1. q # m
        BY <2>1, <3>3 DEF NoSubStep
      <4>. QED BY <3>3, <4>1 DEF Writing, CallStep
    <3>. QED BY <3>1, <3>2, <3>3
  <2>2. CASE ChangesSub(m, s)
    BY <1>1, <2>2 DEF ChangesSub
  <2>. QED BY <2>1, <2>2 DEF SubStep
<1>2. ASSUME NEW q \in Mgr, NEW s \in Sub, s \notin damaged',
             seen'[q][s] # Unread
      PROVE  file'[s] = seen'[q][s] /\ seen'[q][s] = saved'[s]
  <2>1. NoSubStep(m, s)
    BY <1>2 DEF SubStep, ChangesSub
  <2>2. seen'[q][s] = seen[q][s]
    BY <1>2, <2>1 DEF NoSubStep, DataStep
  <2>. QED BY <1>2, <2>1, <2>2 DEF NoSubStep, Inv, ReadInv
<1>3. SavedInv'
  BY <1>1 DEF SavedInv
<1>4. ReadInv'
  BY <1>2 DEF ReadInv
<1>. QED BY <1>3, <1>4

\* No two managers have the same lock, so only the holder has read a
\* sub-group.
LEMMA OnlyHolderReads ==
  ASSUME Inv, NEW m \in Mgr, NEW s \in Sub, lck[s] = m, NEW q \in Mgr, q # m
  PROVE  seen[q][s] = Unread
BY DEF Inv, MgrInv, SeenInv, LockInv

-----------------------------------------------------------------------------
(* What the ways to change a call do                                       *)

\* A call begins.
LEMMA BeginCall ==
  ASSUME TypeOK, NEW m \in Mgr, NEW o \in Ops, NEW a \in 0..MaxId,
         NEW v \in Value \cup (0..MaxId), Begin(m, o, a, v)
  PROVE  /\ CallStep(m) /\ pc[m] = "idle" /\ pc'[m] = "path"
         /\ op'[m] = o /\ arg'[m] = a /\ val'[m] = v
<1>1. "path" \in PCs
  BY DEF PCs
<1>. QED BY <1>1 DEF TypeOK, Begin, Goto, CallStep

\* A call returns.
LEMMA ReturnCall ==
  ASSUME TypeOK, NEW m \in Mgr, NEW r \in {"none", "ok", "error"}, Return(m, r)
  PROVE  CallStep(m) /\ pc'[m] = "idle" /\ op'[m] = "none"
<1>1. "idle" \in PCs
  BY DEF PCs
<1>. QED BY <1>1, Constants DEF TypeOK, Return, Goto, CallStep

\* A call goes on.
LEMMA GotoCall ==
  ASSUME TypeOK, NEW m \in Mgr, NEW l \in PCs, Goto(m, l),
         UNCHANGED <<op, arg, val, ret>>
  PROVE  /\ CallStep(m) /\ pc'[m] = l
         /\ op'[m] = op[m] /\ arg'[m] = arg[m] /\ val'[m] = val[m]
BY DEF TypeOK, Goto, CallStep

\* A step that only changes the call keeps the data.
LEMMA KeepsData ==
  ASSUME TypeOK, NEW m \in Mgr, UNCHANGED <<lck, fileLocks, seen>>
  PROVE  DataStep(m)
BY DEF TypeOK, DataStep

\* The types, once the call and the data have theirs.
LEMMA TypesKept ==
  ASSUME TypeOK, NEW m \in Mgr, CallStep(m), DataStep(m),
         UNCHANGED <<disk, taken, crashes>>
  PROVE  TypeOK'
BY DEF TypeOK, CallStep, DataStep, disk, taken

\* A manager whose call is neither in progress on the numbers nor on a file
\* may begin or end calls and forget what it has read.
LEMMA QuietKeeps ==
  ASSUME Inv, NEW m \in Mgr, CallStep(m), DataStep(m), OwnInv(m)',
         UNCHANGED <<disk, taken, crashes>>,
         pc[m] \notin {"write", "setWrite"}, pc'[m] \notin {"open", "write"},
         \A s \in Sub : seen'[m][s] \in {seen[m][s], Unread}
  PROVE  Inv'
<1>1. TypeOK'
  BY TypesKept DEF Inv
<1>2. NoUidStep(m)
  BY DEF NoUidStep, disk, taken
<1>3. SubStep(m)
  BY DEF SubStep, NoSubStep, Writing, disk
<1>. QED BY <1>1, <1>2, <1>3, OthersKeep, NoUid, SubKeeps DEF Inv

-----------------------------------------------------------------------------
(* The actions                                                             *)

\* What holds of the acting manager before its step.
LEMMA OwnFacts ==
  ASSUME Inv, NEW m \in Mgr
  PROVE  /\ TypeOK /\ LockInv(m) /\ ArgInv(m) /\ SeenInv(m)
         /\ fileLocks[m] \subseteq Sub /\ fileLocks[m] \subseteq Keys
BY Constants DEF Inv, MgrInv, TypeOK

\* A call that begins.
LEMMA BeginInv ==
  ASSUME Inv, NEW m \in Mgr, NEW o \in Ops, NEW a \in 0..MaxId,
         NEW v \in Value \cup (0..MaxId), Begin(m, o, a, v),
         o = "mk" => a \in Ids, o = "set" => v \in Value,
         o \in {"lockGroup", "getGroup", "set", "delete"} => a \in Sub,
         UNCHANGED <<lck, disk, fileLocks, seen, taken, crashes>>
  PROVE  Inv'
<1>1. /\ CallStep(m) /\ pc[m] = "idle" /\ pc'[m] = "path"
      /\ op'[m] = o /\ arg'[m] = a /\ val'[m] = v
  BY BeginCall, OwnFacts
<1>2. DataStep(m)
  BY KeepsData, OwnFacts
<1>3. OwnInv(m)'
  BY <1>1, OwnFacts
  DEF OwnInv, LockInv, ArgInv, SeenInv, UidPCs, Ops
<1>. QED BY <1>1, <1>2, <1>3, QuietKeeps

\* A call that ends and leaves locks and files as they are.
LEMMA ReturnInv ==
  ASSUME Inv, NEW m \in Mgr, NEW r \in {"none", "ok", "error"}, Return(m, r),
         pc[m] \notin {"write", "setWrite"},
         UNCHANGED <<lck, disk, fileLocks, seen, taken, crashes>>
  PROVE  Inv'
<1>1. CallStep(m) /\ pc'[m] = "idle" /\ op'[m] = "none"
  BY ReturnCall, OwnFacts
<1>2. DataStep(m)
  BY KeepsData, OwnFacts
<1>3. OwnInv(m)'
  BY <1>1, OwnFacts DEF OwnInv, LockInv, ArgInv, SeenInv, UidPCs
<1>. QED BY <1>1, <1>2, <1>3, QuietKeeps

\* GetUniqueId begins.
LEMMA GetUniqueIdInv ==
  ASSUME Inv, NEW m \in Mgr, GetUniqueId(m)
  PROVE  Inv'
BY BeginInv, Constants DEF GetUniqueId, Ops

\* MkUniqueIdFromId ends at once, or begins to update the last number.
LEMMA MkUniqueIdFromIdInv ==
  ASSUME Inv, NEW m \in Mgr, NEW u \in Ids, NEW c \in BOOLEAN,
         MkUniqueIdFromId(m, u, c)
  PROVE  Inv'
<1>1. CASE Done(m, "ok")
  BY <1>1, ReturnInv DEF MkUniqueIdFromId, Done
<1>2. CASE Begin(m, "mk", u, 0)
  BY <1>2, BeginInv, Constants DEF MkUniqueIdFromId, Ops
<1>. QED BY <1>1, <1>2 DEF MkUniqueIdFromId

\* The calls about a sub-group begin.
LEMMA GroupCallInv ==
  ASSUME Inv, NEW m \in Mgr, NEW s \in Sub,
         \/ LockGroup(m, s) \/ GetGroup(m, s) \/ DeleteGroup(m, s)
         \/ \E v \in Value : SetGroup(m, s, v)
  PROVE  Inv'
<1>1. s \in 0..MaxId
  BY Constants
<1>2. CASE LockGroup(m, s)
  BY <1>1, <1>2, BeginInv, Constants DEF LockGroup, Ops
<1>3. CASE GetGroup(m, s)
  BY <1>1, <1>3, BeginInv, Constants DEF GetGroup, Ops
<1>4. CASE DeleteGroup(m, s)
  BY <1>1, <1>4, BeginInv, Constants DEF DeleteGroup, Ops
<1>5. ASSUME NEW v \in Value, SetGroup(m, s, v) PROVE Inv'
  BY <1>1, <1>5, BeginInv, Constants DEF SetGroup, Ops
<1>. QED BY <1>2, <1>3, <1>4, <1>5

\* The file of a call in progress is that of a sub-group or "uniqueid".
LEMMA KeyType ==
  ASSUME Inv, NEW m \in Mgr, op[m] # "none"
  PROVE  /\ Key(m) \in Keys
         /\ op[m] \in {"get", "mk"} => Key(m) = UidKey
         /\ op[m] \notin {"get", "mk"} => Key(m) = arg[m] /\ arg[m] \in Sub
BY OwnFacts, Constants DEF Key, ArgInv, TypeOK, Ops

\* Where a call goes after GetPath.
LEMMA AfterPathType ==
  ASSUME NEW m
  PROVE  /\ AfterPath(m) \in PCs
         /\ AfterPath(m) \in {"readGroup", "setOpen", "lock"}
         /\ AfterPath(m) = "readGroup" <=> op[m] = "getGroup"
         /\ AfterPath(m) = "setOpen" <=> op[m] = "set"
BY DEF AfterPath, PCs

\* GetPath looks for the file.
LEMMA PathStatInv ==
  ASSUME Inv, NEW m \in Mgr, PathStat(m)
  PROVE  Inv'
<1> DEFINE l == IF file[Key(m)] = Absent THEN "create" ELSE AfterPath(m)
<1>0. "create" \in PCs
  BY DEF PCs
<1>1. /\ l \in PCs /\ l \in {"create", "readGroup", "setOpen", "lock"}
      /\ l = "readGroup" => op[m] = "getGroup"
      /\ l = "setOpen" => op[m] = "set"
      /\ l = "lock" => op[m] \notin {"set", "getGroup"}
  BY <1>0, AfterPathType
<1>2. Goto(m, l) /\ pc[m] = "path"
  BY DEF PathStat
<1> HIDE DEF l
<1>3. /\ CallStep(m) /\ pc'[m] = l
      /\ op'[m] = op[m] /\ arg'[m] = arg[m] /\ val'[m] = val[m]
  BY <1>1, <1>2, GotoCall, OwnFacts DEF PathStat
<1>4. DataStep(m)
  BY KeepsData, OwnFacts DEF PathStat
<1>5. OwnInv(m)'
  BY <1>1, <1>2, <1>3, OwnFacts
  DEF PathStat, OwnInv, LockInv, ArgInv, SeenInv, UidPCs
<1>. QED BY <1>1, <1>2, <1>3, <1>4, <1>5, QuietKeeps DEF PathStat

\* GetPath creates the file without a lock.  A file it truncates is damaged;
\* otherwise the file was missing or empty, and nobody has read it.
LEMMA PathCreateInv ==
  ASSUME Inv, NEW m \in Mgr, PathCreate(m)
  PROVE  Inv'
<1>1. /\ AfterPath(m) \in PCs
      /\ AfterPath(m) \in {"readGroup", "setOpen", "lock"}
      /\ AfterPath(m) = "readGroup" <=> op[m] = "getGroup"
      /\ AfterPath(m) = "setOpen" <=> op[m] = "set"
  BY AfterPathType
<1>2. /\ CallStep(m) /\ pc'[m] = AfterPath(m)
      /\ op'[m] = op[m] /\ arg'[m] = arg[m] /\ val'[m] = val[m]
  BY <1>1, GotoCall, OwnFacts DEF PathCreate
<1>3. DataStep(m)
  BY KeepsData, OwnFacts DEF PathCreate
<1>4. OwnInv(m)'
  BY <1>1, <1>2, OwnFacts
  DEF PathCreate, OwnInv, LockInv, ArgInv, SeenInv, UidPCs
<1>5. Key(m) \in Keys
  BY OwnFacts, KeyType DEF PathCreate, ArgInv
<1>6. /\ file' \in [Keys -> Contents \cup {Absent, Empty}]
      /\ file'[Key(m)] = Empty /\ \A k \in Keys \ {Key(m)} : file'[k] = file[k]
      /\ damaged \subseteq damaged' /\ damaged' \subseteq damaged \cup {Key(m)}
      /\ file[Key(m)] \in Contents => Key(m) \in damaged'
  BY <1>5, OwnFacts DEF PathCreate, Truncate, TypeOK
<1>7. TypeOK'
  <2>1. file'[UidKey] \in Ids \cup {Absent, Empty}
    BY <1>6, OwnFacts, Constants DEF TypeOK
  <2>2. \A s \in Sub : file'[s] \in Value \cup {Absent, Empty}
    BY <1>6, OwnFacts, Constants DEF TypeOK
  <2>. QED BY <1>2, <1>3, <1>5, <1>6, <2>1, <2>2, OwnFacts
       DEF TypeOK, CallStep, DataStep, PathCreate, taken
<1>8. UidInv'
  <2>1. SUFFICES ASSUME UidKey \notin damaged' PROVE UidInv'
    BY DEF UidInv
  <2>2. LastId' = LastId
    BY <1>6, <2>1, OwnFacts, Constants DEF LastId, Contents
  <2>3. Taken' = Taken
    BY DEF PathCreate, Taken, taken
  <2>4. UidInv /\ UidKey \notin damaged
    BY <1>6, <2>1 DEF Inv
  <2>5. (\E q \in Mgr : pc'[q] = "write") \/ \A n \in Taken : n <= LastId
    BY <2>4, <1>2 DEF UidInv, CallStep, PathCreate
  <2>6. ASSUME NEW q \in Mgr, pc'[q] \in {"open", "write"}, NEW n \in Taken
        PROVE  n < val'[q]
    BY <2>4, <2>6, <1>1, <1>2 DEF UidInv, CallStep
  <2>. QED BY <2>2, <2>3, <2>5, <2>6 DEF UidInv
<1>9. SavedInv' /\ ReadInv'
  <2>1. ASSUME NEW s \in Sub, s \notin damaged', s = Key(m), file[s] # Empty
        PROVE  /\ file[s] = Absent
               /\ \A q \in Mgr : seen[q][s] = Unread
               /\ HoldsSaved(s)' \/ \E q \in Mgr : Writing(q, s)'
    <3>1. /\ file[s] \in Value \cup {Absent, Empty}
          /\ saved[s] \in Value \cup {Empty}
      BY OwnFacts DEF TypeOK
    <3>2. file[s] = Absent
      BY <3>1, <2>1, <1>6 DEF Contents
    <3>3. s \notin damaged
      BY <2>1, <1>6
    <3>4. HoldsSaved(s) \/ \E q \in Mgr : Writing(q, s)
      BY <3>3 DEF Inv, SavedInv
    <3>5. saved' = saved
      BY DEF PathCreate
    <3>6. HoldsSaved(s) => HoldsSaved(s)'
      BY <3>1, <3>2, <3>5, <1>6, <2>1, Constants DEF HoldsSaved
    <3>7. ASSUME NEW q \in Mgr, Writing(q, s) PROVE Writing(q, s)'
      BY <3>7, <1>2 DEF Writing, CallStep, PathCreate
    <3>8. ASSUME NEW q \in Mgr PROVE seen[q][s] = Unread
      <4>1. seen[q][s] \in Value \cup {Empty, Unread}
        BY OwnFacts DEF TypeOK
      <4>. QED BY <4>1, <3>2, <3>3, Constants DEF Inv, ReadInv
    <3>. QED BY <3>2, <3>4, <3>6, <3>7, <3>8
  <2>2. ASSUME NEW s \in Sub, ~(s = Key(m) /\ file[s] # Empty)
        PROVE  NoSubStep(m, s)
    <3>1. file'[s] = file[s]
      BY <2>2, <1>6, Constants
    <3>. QED BY <3>1, <1>6 DEF NoSubStep, PathCreate, Writing
  <2>3. ASSUME NEW s \in Sub, s \notin damaged', s = Key(m), file[s] # Empty
        PROVE  \A q \in Mgr : seen'[q][s] = Unread
    BY <2>1, <2>3 DEF PathCreate
  <2>4. SavedInv'
    <3>1. ASSUME NEW s \in Sub, s \notin damaged'
          PROVE  HoldsSaved(s)' \/ \E q \in Mgr : Writing(q, s)'
      <4>1. CASE s = Key(m) /\ file[s] # Empty
        BY <3>1, <4>1, <2>1
      <4>2. CASE ~(s = Key(m) /\ file[s] # Empty)
        <5>1. s \notin damaged /\ file'[s] = file[s] /\ saved' = saved
          BY <3>1, <4>2, <2>2, <1>6 DEF NoSubStep, PathCreate
        <5>2. HoldsSaved(s) => HoldsSaved(s)'
          BY <5>1 DEF HoldsSaved
        <5>3. ASSUME NEW q \in Mgr, Writing(q, s) PROVE Writing(q, s)'
          BY <5>3, <1>2 DEF Writing, CallStep, PathCreate
        <5>. QED BY <5>1, <5>2, <5>3 DEF Inv, SavedInv
      <4>. QED BY <4>1, <4>2
    <3>. QED BY <3>1 DEF SavedInv
  <2>5. ReadInv'
    <3>1. ASSUME NEW q \in Mgr, NEW s \in Sub, s \notin damaged',
                 seen'[q][s] # Unread
          PROVE  file'[s] = seen'[q][s] /\ seen'[q][s] = saved'[s]
      <4>1. NoSubStep(m, s)
        BY <3>1, <2>2, <2>3
      <4>2. seen' = seen
        BY DEF PathCreate
      <4>. QED BY <3>1, <4>1, <4>2 DEF NoSubStep, Inv, ReadInv
    <3>. QED BY <3>1 DEF ReadInv
  <2>. QED BY <2>4, <2>5
<1>. QED BY <1>2, <1>3, <1>4, <1>7, <1>8, <1>9, OthersKeep DEF Inv

\* GetPath fails, or the lock is not to be had.
LEMMA FailInv ==
  ASSUME Inv, NEW m \in Mgr, PathFails(m) \/ LockFails(m)
  PROVE  Inv'
<1>1. pc[m] \notin {"write", "setWrite"}
  BY DEF PathFails, LockFails
<1>2. /\ Return(m, "error")
      /\ UNCHANGED <<lck, disk, fileLocks, seen, taken, crashes>>
  BY DEF PathFails, LockFails
<1>. QED BY <1>1, <1>2, ReturnInv

\* A lock is taken by the call, or joins the list of the manager.
LEMMA TakeLockInv ==
  ASSUME Inv, NEW m \in Mgr, TakeLock(m)
  PROVE  Inv'
<1>1. /\ Key(m) \in Keys /\ lck[Key(m)] = Free /\ pc[m] = "lock"
      /\ op[m] \in {"get", "mk"} => Key(m) = UidKey
      /\ op[m] \notin {"get", "mk"} => Key(m) = arg[m] /\ arg[m] \in Sub
      /\ Key(m) \notin fileLocks[m]
  BY KeyType, OwnFacts DEF ArgInv, TakeLock, Take
<1>2. /\ lck' \in [Keys -> Mgr \cup {Free, Orphan}] /\ lck'[Key(m)] = m
      /\ \A k \in Keys \ {Key(m)} : lck'[k] = lck[k]
  BY <1>1, OwnFacts DEF TakeLock, Take, TypeOK
<1>3. \A k \in Keys, q \in Mgr \ {m} : lck[k] = q => lck'[k] = q
  BY <1>1, <1>2, Constants
<1>4. UNCHANGED <<disk, seen, taken, crashes>>
  BY DEF TakeLock
<1>5. \A s \in fileLocks[m] : lck'[s] = m
  BY <1>1, <1>2, OwnFacts, Constants DEF LockInv
<1>6. CASE /\ op[m] = "lockGroup" /\ Return(m, "ok")
           /\ fileLocks' = [fileLocks EXCEPT ![m] = @ \cup {Key(m)}]
  <2>1. CallStep(m) /\ pc'[m] = "idle" /\ op'[m] = "none"
    BY <1>6, ReturnCall, OwnFacts
  <2>2. fileLocks'[m] = fileLocks[m] \cup {Key(m)} /\ Key(m) \in Sub
    BY <1>1, <1>6, OwnFacts DEF TypeOK
  <2>3. DataStep(m)
    BY <1>2, <1>3, <1>4, <1>6, <2>2, OwnFacts DEF DataStep, TypeOK
  <2>4. OwnInv(m)'
    BY <1>2, <1>4, <1>5, <2>1, <2>2, OwnFacts
    DEF OwnInv, LockInv, ArgInv, SeenInv, UidPCs
  <2>. QED BY <1>1, <1>4, <2>1, <2>3, <2>4, QuietKeeps
<1>7. CASE /\ op[m] # "lockGroup"
           /\ Goto(m, IF op[m] = "delete" THEN "unlink" ELSE "read")
           /\ UNCHANGED <<fileLocks, op, arg, val, ret>>
  <2> DEFINE l == IF op[m] = "delete" THEN "unlink" ELSE "read"
  <2>0. l \in PCs
    BY DEF PCs
  <2>1. /\ CallStep(m) /\ pc'[m] = l
        /\ op'[m] = op[m] /\ arg'[m] = arg[m] /\ val'[m] = val[m]
    BY <1>7, <2>0, GotoCall, OwnFacts
  <2>2. DataStep(m)
    BY <1>2, <1>3, <1>4, <1>7, OwnFacts DEF DataStep, TypeOK
  <2>3. op[m] = "delete" \/ op[m] \in {"get", "mk"}
    BY <1>1, <1>7, OwnFacts DEF ArgInv, TypeOK, Ops
  <2>4. LockInv(m)'
    <3>1. CASE op[m] = "delete"
      BY <1>1, <1>2, <1>5, <1>7, <2>1, <3>1 DEF LockInv, UidPCs
    <3>2. CASE op[m] \in {"get", "mk"}
      BY <1>1, <1>2, <1>5, <1>7, <2>1, <3>2 DEF LockInv, UidPCs
    <3>. QED BY <2>3, <3>1, <3>2
  <2>5. ArgInv(m)' /\ SeenInv(m)'
    BY <1>4, <1>7, <2>1, OwnFacts DEF ArgInv, SeenInv
  <2>. QED BY <1>1, <1>4, <2>1, <2>2, <2>4, <2>5, QuietKeeps DEF OwnInv
<1>. QED BY <1>6, <1>7 DEF TakeLock

\* Only one manager at a time works on the numbers.
LEMMA OneNumber ==
  ASSUME Inv, NEW m \in Mgr, NEW q \in Mgr, pc[m] \in UidPCs, pc[q] \in UidPCs
  PROVE  q = m
BY DEF Inv, MgrInv, LockInv

\* A step of the holder of the lock on the numbers keeps the invariants about
\* sub-groups and what it knows itself.
LEMMA UidHolder ==
  ASSUME Inv, NEW m \in Mgr, CallStep(m), pc[m] \in UidPCs, pc'[m] \in UidPCs,
         op'[m] = op[m], arg'[m] = arg[m],
         pc'[m] \in {"open", "openBlind", "write"} => val'[m] \in Ids,
         UNCHANGED <<lck, fileLocks, seen, saved>>,
         \A s \in Sub : file'[s] = file[s] /\ (s \in damaged => s \in damaged')
  PROVE  MgrInv' /\ SavedInv' /\ ReadInv'
<1>1. DataStep(m)
  BY KeepsData, OwnFacts
<1>2. OwnInv(m)'
  <2>1. op[m] \in {"get", "mk"} /\ lck[UidKey] = m
    BY OwnFacts DEF LockInv
  <2>2. LockInv(m)'
    BY <2>1, OwnFacts DEF LockInv, UidPCs
  <2>3. ArgInv(m)'
    BY <2>1, OwnFacts DEF ArgInv, UidPCs
  <2>4. SeenInv(m)'
    BY OwnFacts DEF SeenInv, UidPCs
  <2>. QED BY <2>2, <2>3, <2>4 DEF OwnInv
<1>3. SubStep(m)
  BY DEF SubStep, NoSubStep, Writing, UidPCs
<1>. QED BY <1>1, <1>2, <1>3, OthersKeep, SubKeeps

\* The numbers taken are numbers, and so is the last one.
LEMMA Numbers ==
  ASSUME Inv
  PROVE  Taken \subseteq Ids /\ Ids \subseteq Nat /\ LastId \in 0..MaxId
BY Constants DEF Inv, TypeOK, Taken, LastId, Ids

\* A failing read makes the last number smaller, never larger.
LEMMA ReadNumbers ==
  ASSUME Inv, NEW last \in LastIds
  PROVE  last \in 0..MaxId /\ last <= LastId
<1>1. last \in {LastId, 0}
  BY DEF LastIds
<1>. QED BY <1>1, Numbers, Constants

\* The last number is read under the lock, so no number above it is taken; a
\* number that is not above it leads to "openBlind".
LEMMA UidReadInv ==
  ASSUME Inv, NEW m \in Mgr, UidRead(m)
  PROVE  Inv'
<1>1. /\ pc[m] = "read" /\ pc[m] \in UidPCs
      /\ UNCHANGED <<lck, disk, fileLocks, op, arg, ret, seen, crashes>>
  BY DEF UidRead, UidPCs
<1>2. {"open", "openBlind", "unlock", "fail"} \subseteq PCs
  BY DEF PCs
<1>3. ASSUME NEW l \in {"open", "openBlind", "unlock", "fail"}, Goto(m, l),
             val' \in [Mgr -> Value \cup (0..MaxId)],
             \A q \in Mgr \ {m} : val'[q] = val[q]
      PROVE  CallStep(m) /\ pc'[m] = l /\ op'[m] = op[m] /\ arg'[m] = arg[m]
  BY <1>1, <1>2, <1>3, OwnFacts DEF CallStep, Goto, TypeOK
<1>4. ASSUME CallStep(m), pc'[m] \in {"open", "openBlind", "unlock", "fail"},
             pc'[m] \in {"open", "openBlind"} => val'[m] \in Ids,
             given' \subseteq Ids, reserved' \subseteq Ids, UidInv'
      PROVE  Inv'
  <2>1. MgrInv' /\ SavedInv' /\ ReadInv'
    BY <1>1, <1>4, UidHolder DEF disk, UidPCs
  <2>2. TypeOK'
    BY <1>1, <1>4, OwnFacts DEF TypeOK, CallStep, disk
  <2>. QED BY <1>4, <2>1, <2>2 DEF Inv
<1>5. UidKey \in damaged \/ \A n \in Taken : n <= LastId
  <2>1. \A q \in Mgr : pc[q] # "write"
    BY <1>1, OneNumber DEF UidPCs
  <2>. QED BY <2>1 DEF Inv, UidInv
<1>6. LastId' = LastId
  BY <1>1 DEF LastId, disk
\* The next number is larger than all those taken.
<1>7. ASSUME NEW n \in Ids, val' = [val EXCEPT ![m] = n],
             NEW l \in {"open", "openBlind"}, l = "open" => n > LastId,
             Goto(m, l), UNCHANGED taken
      PROVE  Inv'
  <2>1. val' \in [Mgr -> Value \cup (0..MaxId)] /\ val'[m] = n
    BY <1>7, OwnFacts, Constants DEF TypeOK
  <2>2. CallStep(m) /\ pc'[m] = l
    BY <1>3, <1>7, <2>1, OwnFacts DEF TypeOK
  <2>3. ASSUME UidKey \notin damaged', NEW k \in Taken, NEW q \in Mgr,
               pc'[q] \in {"open", "write"}
        PROVE  k < val'[q]
    <3>1. q = m
      BY <2>2, <2>3, <1>1, OneNumber DEF CallStep, UidPCs
    <3>2. k <= LastId
      BY <1>1, <1>5, <2>3 DEF disk
    <3>3. l = "open"
      BY <2>2, <2>3, <3>1
    <3>. QED BY <3>1, <3>2, <3>3, <2>1, <1>7, Numbers
  <2>4. Taken' = Taken /\ damaged' = damaged
    BY <1>1, <1>7 DEF Taken, taken, disk
  <2>5. UidInv'
    BY <2>3, <2>4, <1>5, <1>6 DEF UidInv
  <2>6. given' \subseteq Ids /\ reserved' \subseteq Ids
    BY <1>7, OwnFacts DEF taken, TypeOK
  <2>. QED BY <1>4, <2>1, <2>2, <2>5, <2>6
\* A number that is not larger than the last one has no effect on the file.
<1>8. ASSUME op[m] = "mk", arg[m] <= LastId,
             val' = [val EXCEPT ![m] = arg[m]], Goto(m, "unlock"),
             Record(m, arg[m])
      PROVE  Inv'
  <2>1. arg[m] \in Ids
    BY <1>8, OwnFacts DEF ArgInv
  <2>2. val' \in [Mgr -> Value \cup (0..MaxId)]
    BY <1>8, <2>1, OwnFacts, Constants DEF TypeOK
  <2>3. CallStep(m) /\ pc'[m] = "unlock"
    BY <1>3, <1>8, <2>2, OwnFacts DEF TypeOK
  <2>4. given' = given /\ reserved' = reserved \cup {arg[m]}
    BY <1>8 DEF Record
  <2>5. Taken' = Taken \cup {arg[m]} /\ damaged' = damaged
    BY <1>1, <2>4 DEF Taken, disk
  <2>6. \A q \in Mgr : pc'[q] \notin {"open", "write"}
    BY <2>3, <1>1, OneNumber DEF CallStep, UidPCs
  <2>7. UidInv'
    BY <1>5, <1>6, <1>8, <2>5, <2>6 DEF UidInv
  <2>8. given' \subseteq Ids /\ reserved' \subseteq Ids
    BY <2>1, <2>4, OwnFacts DEF TypeOK
  <2>. QED BY <1>4, <2>3, <2>7, <2>8
<1>9. ASSUME Goto(m, "fail"), UNCHANGED <<val, taken>> PROVE Inv'
  <2>1. CallStep(m) /\ pc'[m] = "fail"
    BY <1>3, <1>9, OwnFacts DEF TypeOK
  <2>2. NoUidStep(m)
    BY <1>1, <1>9, <2>1 DEF NoUidStep, disk, taken
  <2>3. UidInv'
    BY <2>1, <2>2, NoUid
  <2>4. given' \subseteq Ids /\ reserved' \subseteq Ids
    BY <1>9, OwnFacts DEF taken, TypeOK
  <2>. QED BY <1>4, <2>1, <2>3, <2>4
<1>10. PICK last \in LastIds : LET n == NextId(m, last) IN
         \/ /\ n > last /\ n <= MaxId
            /\ val' = [val EXCEPT ![m] = n]
            /\ Goto(m, IF n > LastId THEN "open" ELSE "openBlind")
            /\ UNCHANGED taken
         \/ /\ n <= last
            /\ val' = [val EXCEPT ![m] = n] /\ Goto(m, "unlock")
            /\ Record(m, n)
         \/ /\ n > MaxId
            /\ Goto(m, "fail") /\ UNCHANGED <<val, taken>>
  BY Zenon DEF UidRead
<1>. DEFINE n == NextId(m, last)
<1>11. last \in 0..MaxId /\ last <= LastId
  BY ReadNumbers
<1>12. \/ op[m] = "get" /\ n = last + 1
       \/ op[m] = "mk" /\ n = arg[m] /\ n \in Ids
  <2>1. op[m] \in {"get", "mk"} /\ (op[m] = "mk" => arg[m] \in Ids)
    BY <1>1, OwnFacts DEF LockInv, ArgInv
  <2>. QED BY <2>1 DEF NextId
<1>. HIDE DEF n
<1>13. n \in Nat
  <2>1. CASE n = last + 1
    BY <1>11, <2>1, Constants
  <2>2. CASE n \in Ids
    BY <2>2, Constants
  <2>. QED BY <1>12, <2>1, <2>2
<1>14. CASE n > last /\ n <= MaxId /\ val' = [val EXCEPT ![m] = n]
            /\ Goto(m, IF n > LastId THEN "open" ELSE "openBlind")
            /\ UNCHANGED taken
  <2>1. n \in Ids
    BY <1>11, <1>13, <1>14, Constants DEF Ids
  <2>2. PICK l \in {"open", "openBlind"} :
          l = (IF n > LastId THEN "open" ELSE "openBlind")
    OBVIOUS
  <2>3. Goto(m, l) /\ (l = "open" => n > LastId)
    BY <1>14, <2>2
  <2>. QED BY <1>7, <1>14, <2>1, <2>3
<1>15. CASE n <= last /\ val' = [val EXCEPT ![m] = n] /\ Goto(m, "unlock")
            /\ Record(m, n)
  <2>1. op[m] = "mk" /\ n = arg[m] /\ arg[m] <= LastId
    BY <1>11, <1>12, <1>13, <1>15, Numbers, Constants
  <2>. QED BY <1>8, <1>15, <2>1
<1>16. CASE Goto(m, "fail") /\ UNCHANGED <<val, taken>>
  BY <1>9, <1>16
<1>. QED BY <1>10, <1>14, <1>15, <1>16, Zenon DEF n

\* What truncating or writing "uniqueid" leaves.
LEMMA UidFile ==
  ASSUME Inv, NEW x \in Ids \cup {Empty}, file' = [file EXCEPT ![UidKey] = x]
  PROVE  /\ file' \in [Keys -> Contents \cup {Absent, Empty}]
         /\ file'[UidKey] = x /\ \A s \in Sub : file'[s] = file[s]
BY Constants DEF Inv, TypeOK, Contents

\* "uniqueid" is truncated, and from then on being written; a call that has
\* not read it damages it.
LEMMA UidOpenInv ==
  ASSUME Inv, NEW m \in Mgr, UidOpen(m)
  PROVE  Inv'
<1>1. /\ pc[m] \in {"open", "openBlind"} /\ pc[m] \in UidPCs
      /\ UNCHANGED <<lck, saved, fileLocks, op, arg, val, ret, seen, taken,
                     crashes>>
  BY DEF UidOpen, UidPCs
<1>2. {"write", "fail"} \subseteq PCs
  BY DEF PCs
<1>3. val[m] \in Ids
  BY <1>1, OwnFacts DEF ArgInv
<1>4. ASSUME NEW l \in {"write", "fail"}, Goto(m, l),
             file' \in [Keys -> Contents \cup {Absent, Empty}],
             file'[UidKey] \in Ids \cup {Absent, Empty},
             \A s \in Sub : file'[s] = file[s],
             damaged \subseteq damaged', damaged' \subseteq damaged \cup {UidKey},
             l = "write" /\ pc[m] = "openBlind" => UidKey \in damaged',
             l = "fail" => file'[UidKey] = file[UidKey]
      PROVE  Inv'
  <2>1. /\ CallStep(m) /\ pc'[m] = l
        /\ op'[m] = op[m] /\ arg'[m] = arg[m] /\ val'[m] = val[m]
    BY <1>1, <1>2, <1>4, GotoCall, OwnFacts
  <2>2. MgrInv' /\ SavedInv' /\ ReadInv'
    BY <1>1, <1>3, <1>4, <2>1, UidHolder DEF UidPCs
  <2>3. TypeOK'
    BY <1>1, <1>4, <2>1, OwnFacts, Constants DEF TypeOK, CallStep, taken
  <2>4. UidInv'
    <3>1. CASE l = "fail"
      <4>1. NoUidStep(m)
        BY <1>1, <1>4, <2>1, <3>1 DEF NoUidStep, taken
      <4>. QED BY <2>1, <4>1, NoUid
    <3>2. CASE l = "write"
      <4>1. Taken' = Taken /\ pc'[m] = "write"
        BY <1>1, <2>1, <3>2 DEF Taken, taken
      <4>2. ASSUME UidKey \notin damaged', NEW q \in Mgr,
                   pc'[q] \in {"open", "write"}, NEW n \in Taken
            PROVE  n < val'[q]
        <5>1. UidKey \notin damaged /\ pc[m] = "open"
          BY <1>1, <1>4, <3>2, <4>2
        <5>. QED BY <4>2, <5>1, <2>1 DEF Inv, UidInv, CallStep
      <4>. QED BY <4>1, <4>2 DEF UidInv
    <3>. QED BY <3>1, <3>2
  <2>. QED BY <2>2, <2>3, <2>4 DEF Inv
<1>5. CASE /\ Goto(m, "write") /\ Truncate(UidKey)
           /\ damaged' = IF pc[m] = "openBlind" THEN damaged \cup {UidKey}
                                                ELSE damaged
  <2>1. /\ damaged \subseteq damaged' /\ damaged' \subseteq damaged \cup {UidKey}
        /\ pc[m] = "openBlind" => UidKey \in damaged'
    BY <1>5
  <2>. QED BY <1>4, <1>5, <2>1, UidFile DEF Truncate
<1>6. CASE Goto(m, "fail") /\ UNCHANGED <<file, damaged>>
  BY <1>4, <1>6, OwnFacts DEF TypeOK
<1>. QED BY <1>5, <1>6 DEF UidOpen

\* The new number is in the file when it is given out or reserved.
LEMMA UidWriteInv ==
  ASSUME Inv, NEW m \in Mgr, UidWrite(m)
  PROVE  Inv'
<1>1. /\ pc[m] = "write" /\ pc[m] \in UidPCs
      /\ UNCHANGED <<lck, damaged, saved, fileLocks, op, arg, val, ret, seen,
                     crashes>>
      /\ file' = [file EXCEPT ![UidKey] = val[m]] /\ Record(m, val[m])
      /\ Goto(m, "unlock")
  BY DEF UidWrite, UidPCs
<1>2. "unlock" \in PCs /\ val[m] \in Ids
  BY <1>1, OwnFacts DEF PCs, ArgInv
<1>3. /\ CallStep(m) /\ pc'[m] = "unlock"
      /\ op'[m] = op[m] /\ arg'[m] = arg[m] /\ val'[m] = val[m]
  BY <1>1, <1>2, GotoCall, OwnFacts
<1>4. /\ file' \in [Keys -> Contents \cup {Absent, Empty}]
      /\ file'[UidKey] = val[m] /\ \A s \in Sub : file'[s] = file[s]
  BY <1>1, <1>2, UidFile
<1>5. /\ given' \subseteq Ids /\ reserved' \subseteq Ids
      /\ Taken' \subseteq Taken \cup {val[m]}
  BY <1>1, <1>2, OwnFacts DEF Record, TypeOK, Taken
<1>6. MgrInv' /\ SavedInv' /\ ReadInv'
  BY <1>1, <1>3, <1>4, UidHolder DEF UidPCs
<1>7. TypeOK'
  BY <1>1, <1>2, <1>3, <1>4, <1>5, OwnFacts DEF TypeOK, CallStep
<1>8. UidInv'
  <2>1. LastId' = val[m]
    BY <1>2, <1>4 DEF LastId
  <2>2. \A q \in Mgr : pc'[q] \notin {"open", "write"}
    BY <1>1, <1>3, OneNumber DEF CallStep, UidPCs
  <2>3. UidKey \in damaged \/ \A n \in Taken : n < val[m]
    BY <1>1 DEF Inv, UidInv
  <2>4. UidKey \in damaged' \/ \A n \in Taken' : n <= LastId'
    BY <1>1, <1>2, <1>5, <2>1, <2>3, Numbers
  <2>. QED BY <2>2, <2>4 DEF UidInv
<1>. QED BY <1>6, <1>7, <1>8 DEF Inv

\* A number that does not reach the disk leaves the file damaged.
LEMMA UidWriteFailsInv ==
  ASSUME Inv, NEW m \in Mgr, UidWriteFails(m)
  PROVE  Inv'
<1>1. /\ pc[m] = "write" /\ pc[m] \in UidPCs /\ Goto(m, "fail")
      /\ UNCHANGED <<lck, file, saved, fileLocks, op, arg, val, ret, seen,
                     taken, crashes>>
      /\ damaged' = damaged \cup {UidKey}
  BY DEF UidWriteFails, UidPCs
<1>2. "fail" \in PCs
  BY DEF PCs
<1>3. /\ CallStep(m) /\ pc'[m] = "fail"
      /\ op'[m] = op[m] /\ arg'[m] = arg[m] /\ val'[m] = val[m]
  BY <1>1, <1>2, GotoCall, OwnFacts
<1>4. MgrInv' /\ SavedInv' /\ ReadInv'
  BY <1>1, <1>3, UidHolder DEF UidPCs
<1>5. TypeOK'
  BY <1>1, <1>3, OwnFacts, Constants DEF TypeOK, CallStep, taken
<1>6. UidInv'
  BY <1>1 DEF UidInv
<1>. QED BY <1>4, <1>5, <1>6 DEF Inv

\* A manager gives up one of its locks.
LEMMA ReleaseLock ==
  ASSUME Inv, NEW m \in Mgr, NEW k \in Keys, lck[k] = m, Release(m, k)
  PROVE  /\ lck' \in [Keys -> Mgr \cup {Free, Orphan}]
         /\ \A j \in Keys \ {k} : lck'[j] = lck[j]
         /\ \A j \in Keys, q \in Mgr \ {m} : lck[j] = q => lck'[j] = q
BY OwnFacts DEF Release, TypeOK

\* The end of a call that gives up a lock that is not on the manager's list.
LEMMA UnlockReturns ==
  ASSUME Inv, NEW m \in Mgr, NEW k \in Keys, lck[k] = m, Release(m, k),
         k \notin fileLocks[m], NEW r \in {"none", "ok", "error"}, Return(m, r),
         pc[m] \notin {"write", "setWrite"},
         UNCHANGED <<disk, fileLocks, seen, taken, crashes>>
  PROVE  Inv'
<1>1. CallStep(m) /\ pc'[m] = "idle" /\ op'[m] = "none"
  BY ReturnCall, OwnFacts
<1>2. DataStep(m)
  BY ReleaseLock, OwnFacts DEF DataStep, TypeOK
<1>3. \A s \in fileLocks[m] : lck'[s] = m
  <2>1. \A j \in Keys \ {k} : lck'[j] = lck[j]
    BY ReleaseLock
  <2>. QED BY <2>1, OwnFacts DEF LockInv
<1>4. OwnInv(m)'
  BY <1>1, <1>3, OwnFacts DEF OwnInv, LockInv, ArgInv, SeenInv, UidPCs
<1>. QED BY <1>1, <1>2, <1>4, QuietKeeps

\* The end of a call about the numbers.
LEMMA UidUnlockInv ==
  ASSUME Inv, NEW m \in Mgr, UidUnlock(m)
  PROVE  Inv'
<1>1. pc[m] \in {"unlock", "fail"} /\ lck[UidKey] = m
  BY OwnFacts DEF UidUnlock, LockInv, UidPCs
<1>2. UidKey \in Keys /\ UidKey \notin fileLocks[m]
  BY OwnFacts, Constants
<1>3. Return(m, "ok") \/ Return(m, "error")
  BY DEF UidUnlock
<1>. QED BY <1>1, <1>2, <1>3, UnlockReturns DEF UidUnlock

\* The end of DeleteGroup.
LEMMA DelUnlockInv ==
  ASSUME Inv, NEW m \in Mgr, DelUnlock(m)
  PROVE  Inv'
<1>1. /\ pc[m] = "delUnlock" /\ lck[arg[m]] = m /\ arg[m] \notin fileLocks[m]
      /\ op[m] = "delete"
  BY OwnFacts DEF DelUnlock, LockInv
<1>2. arg[m] \in Keys
  BY <1>1, OwnFacts, Constants DEF ArgInv
<1>. QED BY <1>1, <1>2, UnlockReturns DEF DelUnlock

\* UnlockGroup forgets the sub-group with the lock.
LEMMA UnlockGroupInv ==
  ASSUME Inv, NEW m \in Mgr, NEW s \in Sub, UnlockGroup(m, s)
  PROVE  Inv'
<1>1. CASE s \notin fileLocks[m]
  BY <1>1, ReturnInv DEF UnlockGroup, Done
<1>2. CASE /\ s \in fileLocks[m] /\ Release(m, s) /\ Done(m, "ok")
           /\ fileLocks' = [fileLocks EXCEPT ![m] = @ \ {s}]
           /\ Forget(m, s)
  <2>1. CallStep(m) /\ pc'[m] = "idle" /\ op'[m] = "none" /\ pc[m] = "idle"
    BY <1>2, ReturnCall, OwnFacts DEF Done
  <2>2. s \in Keys /\ lck[s] = m
    BY <1>2, OwnFacts, Constants DEF LockInv
  <2>3. /\ seen' \in [Mgr -> [Sub -> Value \cup {Empty, Unread}]]
        /\ seen'[m][s] = Unread
        /\ \A t \in Sub \ {s} : seen'[m][t] = seen[m][t]
        /\ \A q \in Mgr \ {m} : seen'[q] = seen[q]
    BY <1>2, OwnFacts DEF Forget, TypeOK
  <2>4. fileLocks'[m] = fileLocks[m] \ {s}
    BY <1>2, OwnFacts DEF TypeOK
  <2>5. DataStep(m)
    BY <1>2, <2>2, <2>3, ReleaseLock, OwnFacts DEF DataStep, TypeOK
  <2>6. \A t \in fileLocks'[m] : lck'[t] = m
    <3>1. \A j \in Keys \ {s} : lck'[j] = lck[j]
      BY <1>2, <2>2, ReleaseLock
    <3>. QED BY <2>4, <3>1, OwnFacts DEF LockInv
  <2>7. OwnInv(m)'
    BY <2>1, <2>3, <2>4, <2>6, OwnFacts
    DEF OwnInv, LockInv, ArgInv, SeenInv, UidPCs
  <2>8. \A t \in Sub : seen'[m][t] \in {seen[m][t], Unread}
    BY <2>3
  <2>. QED BY <2>1, <2>5, <2>7, <2>8, QuietKeeps DEF UnlockGroup
<1>. QED BY <1>1, <1>2 DEF UnlockGroup

\* GetGroup reads under the lock what was saved last: nobody else is writing.
LEMMA ReadGroupInv ==
  ASSUME Inv, NEW m \in Mgr, ReadGroup(m)
  PROVE  Inv'
<1>0. PICK s \in Sub : s = arg[m]
  BY OwnFacts DEF ReadGroup, ArgInv
<1>1. /\ pc[m] = "readGroup" /\ s = arg[m]
      /\ UNCHANGED <<lck, disk, fileLocks, taken, crashes>>
  BY <1>0 DEF ReadGroup
<1>2. ASSUME UNCHANGED seen, NEW r \in {"ok", "error"}, Return(m, r)
      PROVE  Inv'
  BY <1>1, <1>2, ReturnInv
<1>3. ASSUME s \in fileLocks[m], file[s] # Absent,
             seen' = [seen EXCEPT ![m][s] = file[s]], Return(m, "ok")
      PROVE  Inv'
  <2>1. seen' = [seen EXCEPT ![m][s] = file[s]] /\ Return(m, "ok")
    BY <1>3
  <2>2. file[s] \in Value \cup {Empty}
    BY <1>1, <1>3, OwnFacts DEF TypeOK
  <2>3. /\ seen' \in [Mgr -> [Sub -> Value \cup {Empty, Unread}]]
        /\ seen'[m][s] = file[s]
        /\ \A t \in Sub \ {s} : seen'[m][t] = seen[m][t]
        /\ \A q \in Mgr \ {m} : seen'[q] = seen[q]
    BY <1>1, <2>1, <2>2, OwnFacts DEF TypeOK
  <2>4. CallStep(m) /\ pc'[m] = "idle" /\ op'[m] = "none"
    BY <2>1, ReturnCall, OwnFacts
  <2>5. DataStep(m)
    BY <1>1, <2>3, OwnFacts DEF DataStep, TypeOK
  <2>6. OwnInv(m)'
    BY <1>1, <1>3, <2>3, <2>4, OwnFacts
    DEF OwnInv, LockInv, ArgInv, SeenInv, UidPCs
  <2>7. TypeOK'
    BY <1>1, <2>4, <2>5, TypesKept, OwnFacts
  <2>8. NoUidStep(m)
    BY <1>1, <2>4 DEF NoUidStep, disk, taken
  <2>9. SavedInv'
    <3>1. ASSUME NEW q \in Mgr, NEW t \in Sub, Writing(q, t)
          PROVE  Writing(q, t)'
      BY <1>1, <2>4, <3>1 DEF Writing, CallStep
    <3>2. \A t \in Sub : HoldsSaved(t) => HoldsSaved(t)'
      BY <1>1 DEF HoldsSaved, disk
    <3>. QED BY <1>1, <3>1, <3>2 DEF Inv, SavedInv, disk
  <2>10. s \in damaged \/ file[s] = saved[s]
    <3>1. ASSUME NEW q \in Mgr, Writing(q, s) PROVE FALSE
      <4>1. s \in fileLocks[q]
        BY <3>1, OwnFacts DEF LockInv, Writing
      <4>2. q = m
        BY <1>3, <4>1, OwnFacts DEF LockInv
      <4>. QED BY <1>1, <3>1, <4>2 DEF Writing
    <3>2. s \notin damaged => HoldsSaved(s)
      BY <1>1, <3>1 DEF Inv, SavedInv
    <3>. QED BY <1>3, <3>2 DEF HoldsSaved
  <2>11. ReadInv'
    <3>1. ASSUME NEW q \in Mgr, NEW t \in Sub, t \notin damaged,
                 seen'[q][t] # Unread
          PROVE  file[t] = seen'[q][t] /\ seen'[q][t] = saved[t]
      <4>1. CASE q = m /\ t = s
        BY <3>1, <4>1, <2>3, <2>10
      <4>2. CASE ~(q = m /\ t = s)
        BY <3>1, <4>2, <2>3 DEF Inv, ReadInv
      <4>. QED BY <4>1, <4>2
    <3>. QED BY <1>1, <3>1 DEF ReadInv, disk
  <2>. QED BY <2>4, <2>5, <2>6, <2>7, <2>8, <2>9, <2>11,
              OthersKeep, NoUid DEF Inv
<1>. QED BY <1>1, <1>2, <1>3 DEF ReadGroup

\* A step of one manager that changes the file of a sub-group.
LEMMA SubFileKeeps ==
  ASSUME Inv, NEW m \in Mgr, NEW s \in Sub,
         CallStep(m), DataStep(m), OwnInv(m)',
         file' \in [Keys -> Contents \cup {Absent, Empty}],
         file'[s] \in Value \cup {Absent, Empty},
         \A k \in Keys \ {s} : file'[k] = file[k],
         saved' \in [Sub -> Value \cup {Empty}],
         \A t \in Sub \ {s} : saved'[t] = saved[t] /\ seen'[m][t] = seen[m][t],
         damaged' \subseteq Keys,
         \A k \in Keys \ {s} : k \in damaged => k \in damaged',
         UNCHANGED <<taken, crashes>>,
         pc[m] # "write", pc[m] = "setWrite" => arg[m] = s,
         pc'[m] \notin {"open", "write"}, ChangesSub(m, s)
  PROVE  Inv'
<1>1. TypeOK'
  <2>1. file'[UidKey] \in Ids \cup {Absent, Empty}
    BY OwnFacts, Constants DEF TypeOK
  <2>2. \A t \in Sub : file'[t] \in Value \cup {Absent, Empty}
    BY OwnFacts, Constants DEF TypeOK
  <2>. QED BY <2>1, <2>2, OwnFacts DEF TypeOK, CallStep, DataStep, taken
<1>2. NoUidStep(m)
  BY Constants DEF NoUidStep, taken
<1>3. SubStep(m)
  BY Constants DEF SubStep, NoSubStep, Writing
<1>. QED BY <1>1, <1>2, <1>3, OthersKeep, NoUid, SubKeeps DEF Inv

\* SetGroup truncates the file: from now on it is being written.
LEMMA SetOpenInv ==
  ASSUME Inv, NEW m \in Mgr, SetOpen(m)
  PROVE  Inv'
<1>0. PICK s \in Sub : s = arg[m]
  BY OwnFacts DEF SetOpen, ArgInv
<1>1. /\ pc[m] = "setOpen" /\ op[m] = "set" /\ s = arg[m] /\ s \in Keys
      /\ UNCHANGED <<lck, damaged, saved, fileLocks, taken, crashes>>
  BY <1>0, OwnFacts, Constants DEF SetOpen, ArgInv
<1>2. CASE Return(m, "error") /\ UNCHANGED <<file, seen>>
  BY <1>1, <1>2, ReturnInv DEF disk
<1>3. CASE /\ s \in fileLocks[m] /\ Goto(m, "setWrite")
           /\ Truncate(s) /\ Forget(m, s)
           /\ UNCHANGED <<op, arg, val, ret>>
  <2>1. "setWrite" \in PCs
    BY DEF PCs
  <2>2. /\ CallStep(m) /\ pc'[m] = "setWrite"
        /\ op'[m] = op[m] /\ arg'[m] = arg[m] /\ val'[m] = val[m]
    BY <1>3, <2>1, GotoCall, OwnFacts
  <2>3. /\ seen' \in [Mgr -> [Sub -> Value \cup {Empty, Unread}]]
        /\ seen'[m][s] = Unread
        /\ \A t \in Sub \ {s} : seen'[m][t] = seen[m][t]
        /\ \A q \in Mgr \ {m} : seen'[q] = seen[q]
    BY <1>1, <1>3, OwnFacts DEF Forget, TypeOK
  <2>4. /\ file' \in [Keys -> Contents \cup {Absent, Empty}] /\ file'[s] = Empty
        /\ \A k \in Keys \ {s} : file'[k] = file[k]
    BY <1>1, <1>3, OwnFacts DEF Truncate, TypeOK
  <2>5. DataStep(m)
    BY <1>1, <2>3, OwnFacts DEF DataStep, TypeOK
  <2>6. OwnInv(m)'
    BY <1>1, <1>3, <2>2, <2>3, OwnFacts
    DEF OwnInv, LockInv, ArgInv, SeenInv, UidPCs
  <2>7. lck[s] = m
    BY <1>3, OwnFacts DEF LockInv
  <2>8. ChangesSub(m, s)
    BY <1>1, <2>2, <2>3, <2>7, OnlyHolderReads DEF ChangesSub, Writing
  <2>. QED BY <1>1, <2>2, <2>3, <2>4, <2>5, <2>6, <2>8, OwnFacts, SubFileKeeps
       DEF TypeOK
<1>. QED BY <1>1, <1>2, <1>3 DEF SetOpen

\* SetGroup writes the file, or leaves it damaged.
LEMMA SetWriteInv ==
  ASSUME Inv, NEW m \in Mgr, SetWrite(m)
  PROVE  Inv'
<1>0. PICK s \in Sub : s = arg[m]
  BY OwnFacts DEF SetWrite, ArgInv
<1>1. /\ pc[m] = "setWrite" /\ op[m] = "set" /\ s = arg[m] /\ s \in Keys
      /\ s \in fileLocks[m] /\ lck[s] = m /\ val[m] \in Value
      /\ UNCHANGED <<lck, fileLocks, seen, taken, crashes>>
  BY <1>0, OwnFacts, Constants DEF SetWrite, ArgInv, LockInv
<1>2. PICK r \in {"ok", "error"} : Return(m, r)
  BY DEF SetWrite
<1>3. CallStep(m) /\ pc'[m] = "idle" /\ op'[m] = "none"
  BY <1>2, ReturnCall, OwnFacts
<1>4. DataStep(m)
  BY <1>1, KeepsData, OwnFacts
<1>5. OwnInv(m)'
  BY <1>1, <1>3, OwnFacts DEF OwnInv, LockInv, ArgInv, SeenInv, UidPCs
<1>6. \A q \in Mgr : seen'[q][s] = Unread
  <2>1. seen[m][s] = Unread
    BY <1>1, OwnFacts DEF SeenInv
  <2>. QED BY <1>1, <2>1, OnlyHolderReads
<1>7. CASE /\ file' = [file EXCEPT ![s] = val[m]]
           /\ saved' = [saved EXCEPT ![s] = val[m]]
           /\ damaged' = damaged \ {s}
  <2>1. /\ file' \in [Keys -> Contents \cup {Absent, Empty}]
        /\ file'[s] = val[m] /\ \A k \in Keys \ {s} : file'[k] = file[k]
    BY <1>1, <1>7, OwnFacts DEF TypeOK, Contents
  <2>2. /\ saved' \in [Sub -> Value \cup {Empty}]
        /\ saved'[s] = val[m] /\ \A t \in Sub \ {s} : saved'[t] = saved[t]
    BY <1>1, <1>7, OwnFacts DEF TypeOK
  <2>3. ChangesSub(m, s)
    BY <1>6, <2>1, <2>2 DEF ChangesSub, HoldsSaved
  <2>. QED BY <1>1, <1>3, <1>4, <1>5, <1>7, <2>1, <2>2, <2>3, OwnFacts,
              SubFileKeeps DEF TypeOK
<1>8. CASE damaged' = damaged \cup {s} /\ UNCHANGED <<file, saved>>
  <2>1. ChangesSub(m, s)
    BY <1>8 DEF ChangesSub
  <2>. QED BY <1>1, <1>3, <1>4, <1>5, <1>8, <2>1, OwnFacts, SubFileKeeps
       DEF TypeOK
<1>. QED BY <1>1, <1>7, <1>8 DEF SetWrite

\* DeleteGroup removes the file under its lock, which nobody else has.
LEMMA UnlinkInv ==
  ASSUME Inv, NEW m \in Mgr, Unlink(m)
  PROVE  Inv'
<1>0. PICK s \in Sub : s = arg[m]
  BY OwnFacts DEF Unlink, ArgInv, LockInv
<1>1. /\ pc[m] = "unlink" /\ op[m] = "delete" /\ s = arg[m] /\ s \in Keys
      /\ s \notin fileLocks[m] /\ lck[s] = m /\ Goto(m, "delUnlock")
      /\ UNCHANGED <<lck, fileLocks, op, arg, val, ret, seen, taken, crashes>>
  BY <1>0, OwnFacts, Constants DEF Unlink, ArgInv, LockInv
<1>2. "delUnlock" \in PCs
  BY DEF PCs
<1>3. /\ CallStep(m) /\ pc'[m] = "delUnlock"
      /\ op'[m] = op[m] /\ arg'[m] = arg[m] /\ val'[m] = val[m]
  BY <1>1, <1>2, GotoCall, OwnFacts
<1>4. DataStep(m)
  BY <1>1, KeepsData, OwnFacts
<1>5. OwnInv(m)'
  BY <1>1, <1>3, OwnFacts DEF OwnInv, LockInv, ArgInv, SeenInv, UidPCs
<1>6. \A q \in Mgr : seen'[q][s] = Unread
  BY <1>1, OnlyHolderReads, OwnFacts DEF SeenInv
<1>7. CASE UNCHANGED disk
  BY <1>1, <1>3, <1>4, <1>5, <1>7, QuietKeeps
<1>8. CASE /\ file' = [file EXCEPT ![s] = Absent]
           /\ saved' = [saved EXCEPT ![s] = Empty]
           /\ damaged' = damaged \ {s}
  <2>1. /\ file' \in [Keys -> Contents \cup {Absent, Empty}]
        /\ file'[s] = Absent /\ \A k \in Keys \ {s} : file'[k] = file[k]
    BY <1>1, <1>8, OwnFacts DEF TypeOK
  <2>2. /\ saved' \in [Sub -> Value \cup {Empty}]
        /\ saved'[s] = Empty /\ \A t \in Sub \ {s} : saved'[t] = saved[t]
    BY <1>1, <1>8, OwnFacts DEF TypeOK
  <2>3. ChangesSub(m, s)
    BY <1>6, <2>1, <2>2 DEF ChangesSub, HoldsSaved
  <2>. QED BY <1>1, <1>3, <1>4, <1>5, <1>8, <2>1, <2>2, <2>3, OwnFacts,
              SubFileKeeps DEF TypeOK
<1>. QED BY <1>1, <1>7, <1>8 DEF Unlink

\* Freeing a manager.
LEMMA FreeDataInv ==
  ASSUME Inv, NEW m \in Mgr, FreeData(m)
  PROVE  Inv'
<1>1. /\ CallStep(m) /\ pc'[m] = "idle" /\ op'[m] = "none" /\ pc[m] = "idle"
  BY ReturnCall, OwnFacts DEF FreeData, Done
<1>2. /\ lck' \in [Keys -> Mgr \cup {Free, Orphan}]
      /\ \A k \in Keys : k \notin fileLocks[m] => lck'[k] = lck[k]
  BY OwnFacts DEF FreeData, TypeOK
<1>3. \A k \in Keys, q \in Mgr \ {m} : lck[k] = q => lck'[k] = q
  BY <1>2, OwnFacts DEF LockInv
<1>4. /\ fileLocks' \in [Mgr -> SUBSET Sub] /\ fileLocks'[m] = {}
      /\ \A q \in Mgr \ {m} : fileLocks'[q] = fileLocks[q]
  BY OwnFacts DEF FreeData, TypeOK
<1>5. /\ seen' \in [Mgr -> [Sub -> Value \cup {Empty, Unread}]]
      /\ \A s \in Sub : seen'[m][s] = Unread
      /\ \A q \in Mgr \ {m} : seen'[q] = seen[q]
  BY OwnFacts DEF FreeData, TypeOK
<1>6. DataStep(m)
  BY <1>2, <1>3, <1>4, <1>5 DEF DataStep
<1>7. OwnInv(m)'
  BY <1>1, <1>4, <1>5 DEF OwnInv, LockInv, ArgInv, SeenInv, UidPCs
<1>. QED BY <1>1, <1>5, <1>6, <1>7, QuietKeeps DEF FreeData

\* A death leaves locks behind, and a damaged file when it was being written.
LEMMA CrashInv ==
  ASSUME Inv, NEW m \in Mgr, Crash(m)
  PROVE  Inv'
<1>1. /\ CallStep(m) /\ pc'[m] = "idle" /\ op'[m] = "none"
  BY ReturnCall, OwnFacts DEF Crash
<1>2. /\ lck' \in [Keys -> Mgr \cup {Free, Orphan}]
      /\ \A k \in Keys, q \in Mgr \ {m} : lck[k] = q => lck'[k] = q
  BY OwnFacts DEF Crash, TypeOK
<1>3. /\ fileLocks' \in [Mgr -> SUBSET Sub] /\ fileLocks'[m] = {}
      /\ \A q \in Mgr \ {m} : fileLocks'[q] = fileLocks[q]
  BY OwnFacts DEF Crash, TypeOK
<1>4. /\ seen' \in [Mgr -> [Sub -> Value \cup {Empty, Unread}]]
      /\ \A s \in Sub : seen'[m][s] = Unread
      /\ \A q \in Mgr \ {m} : seen'[q] = seen[q]
  BY OwnFacts DEF Crash, TypeOK
<1>5. DataStep(m)
  BY <1>2, <1>3, <1>4 DEF DataStep
<1>6. OwnInv(m)'
  BY <1>1, <1>3, <1>4 DEF OwnInv, LockInv, ArgInv, SeenInv, UidPCs
<1>7. /\ damaged \subseteq damaged' /\ damaged' \subseteq Keys
      /\ pc[m] = "write" => UidKey \in damaged'
      /\ pc[m] = "setWrite" => arg[m] \in damaged'
  <2>1. CASE pc[m] = "write"
    <3>1. Key(m) = UidKey
      BY <2>1, OwnFacts DEF LockInv, UidPCs, Key
    <3>. QED BY <2>1, <3>1, OwnFacts, Constants DEF Crash, TypeOK
  <2>2. CASE pc[m] = "setWrite"
    <3>1. Key(m) = arg[m] /\ arg[m] \in Sub
      BY <2>2, OwnFacts DEF ArgInv, Key
    <3>. QED BY <2>2, <3>1, OwnFacts, Constants DEF Crash, TypeOK
  <2>3. CASE pc[m] \notin {"write", "setWrite"}
    BY <2>3, OwnFacts DEF Crash, TypeOK
  <2>. QED BY <2>1, <2>2, <2>3
<1>8. UNCHANGED <<file, saved, taken>> /\ crashes' \in 0..MaxCrashes
  BY OwnFacts, Constants DEF Crash, TypeOK
<1>9. TypeOK'
  BY <1>1, <1>5, <1>7, <1>8, OwnFacts DEF TypeOK, CallStep, DataStep, taken
<1>10. NoUidStep(m)
  BY <1>1, <1>7, <1>8 DEF NoUidStep, taken
<1>11. SubStep(m)
  BY <1>4, <1>7, <1>8 DEF SubStep, NoSubStep, ChangesSub, Writing
<1>. QED BY <1>1, <1>5, <1>6, <1>9, <1>10, <1>11, OthersKeep, NoUid, SubKeeps
     DEF Inv

\* The removal of an orphaned lock concerns no manager.
LEMMA RemoveOrphanInv ==
  ASSUME Inv, NEW k \in Keys, RemoveOrphan(k)
  PROVE  Inv'
<1>1. /\ UNCHANGED <<disk, fileLocks, call, ret, seen, taken, crashes>>
      /\ lck' \in [Keys -> Mgr \cup {Free, Orphan}]
      /\ \A j \in Keys, q \in Mgr : lck[j] = q => lck'[j] = q
  BY Constants DEF RemoveOrphan, Inv, TypeOK
<1>2. TypeOK'
  BY <1>1 DEF Inv, TypeOK, disk, call, taken
<1>3. UidInv'
  BY <1>1 DEF Inv, UidInv, Taken, LastId, disk, call, taken
<1>4. SavedInv'
  BY <1>1 DEF Inv, SavedInv, HoldsSaved, Writing, disk, call
<1>5. ReadInv'
  BY <1>1 DEF Inv, ReadInv, disk
<1>6. ASSUME NEW m \in Mgr PROVE OwnInv(m)'
  <2>1. CallStep(m) /\ DataStep(m)
    BY <1>1, OwnFacts DEF CallStep, DataStep, TypeOK, call
  <2>2. \A s \in fileLocks[m] : lck'[s] = m
    BY <1>1, OwnFacts, Constants DEF LockInv
  <2>3. pc[m] \in {"unlink", "delUnlock"} => lck'[arg[m]] = m
    <3>1. pc[m] \in {"unlink", "delUnlock"} =>
            arg[m] \in Keys /\ lck[arg[m]] = m
      BY OwnFacts, Constants DEF LockInv, ArgInv
    <3>. QED BY <1>1, <3>1
  <2>4. pc[m] \in UidPCs => lck'[UidKey] = m
    BY <1>1, OwnFacts, Constants DEF LockInv
  <2>5. LockInv(m)'
    BY <1>1, <2>2, <2>3, <2>4, OwnFacts DEF LockInv, call
  <2>6. ArgInv(m)' /\ SeenInv(m)'
    BY <1>1, OwnFacts DEF ArgInv, SeenInv, call
  <2>. QED BY <2>5, <2>6 DEF OwnInv
<1>7. MgrInv'
  BY <1>6 DEF MgrInv, OwnInv
<1>. QED BY <1>2, <1>3, <1>4, <1>5, <1>7 DEF Inv

-----------------------------------------------------------------------------
(* The theorems                                                            *)

\* The initial states satisfy the invariant.
LEMMA InitInv == Init => Inv
<1> SUFFICES ASSUME Init PROVE Inv
  OBVIOUS
<1>1. TypeOK
  BY Constants DEF Init, TypeOK, PCs, Ops
<1>2. MgrInv
  BY Constants DEF Init, MgrInv, LockInv, ArgInv, SeenInv, UidPCs
<1>3. UidInv
  BY DEF Init, UidInv, Taken
<1>4. SavedInv
  BY Constants DEF Init, SavedInv, HoldsSaved
<1>5. ReadInv
  BY DEF Init, ReadInv
<1>. QED BY <1>1, <1>2, <1>3, <1>4, <1>5 DEF Inv

\* Every step of a call keeps the invariant.
LEMMA StepInv ==
  ASSUME Inv, NEW m \in Mgr, Step(m)
  PROVE  Inv'
BY PathStatInv, PathCreateInv, FailInv, TakeLockInv, UidReadInv, UidOpenInv,
   UidWriteInv, UidWriteFailsInv, UidUnlockInv, ReadGroupInv, SetOpenInv,
   SetWriteInv, UnlinkInv, DelUnlockInv DEF Step

\* Every step keeps the invariant.
LEMMA NextInv == Inv /\ [Next]_vars => Inv'
<1> SUFFICES ASSUME Inv, [Next]_vars PROVE Inv'
  OBVIOUS
<1>1. CASE UNCHANGED vars
  <2>1. UNCHANGED <<lck, file, damaged, saved, fileLocks, pc, op, arg, val, ret,
                    seen, given, reserved, crashes>>
    BY <1>1 DEF vars, disk, call, taken
  <2>2. TypeOK' /\ MgrInv'
    BY <2>1 DEF Inv, TypeOK, MgrInv, LockInv, ArgInv, SeenInv
  <2>3. UidInv' /\ SavedInv' /\ ReadInv'
    BY <2>1 DEF Inv, UidInv, Taken, LastId, SavedInv, HoldsSaved, Writing,
            ReadInv
  <2>. QED BY <2>2, <2>3 DEF Inv
<1>2. CASE Next
  BY <1>2, StepInv, GetUniqueIdInv, FreeDataInv, CrashInv, MkUniqueIdFromIdInv,
     GroupCallInv, UnlockGroupInv, RemoveOrphanInv DEF Next
<1>. QED BY <1>1, <1>2

\* The invariant holds throughout.
THEOREM Invariance == Spec => []Inv
BY InitInv, NextInv, PTL DEF Spec

\* Calls, locks and files have their types throughout, with any number of
\* managers and sub-groups, any faults and any number of deaths.
THEOREM TypeCorrect == Spec => []TypeOK
<1>1. Inv => TypeOK
  BY DEF Inv
<1>. QED BY <1>1, Invariance, PTL

\* The number GetUniqueId is about to write was neither given out nor
\* reserved before, unless "uniqueid" has lost its contents or a call rewrote it
\* without having been able to read it: the lock covers reading and rewriting
\* the file, so every number taken is below the one on its way to the file.
THEOREM FreshNumbers == Spec => []NewIdIsFresh
<1>1. Inv => NewIdIsFresh
  <2>1. SUFFICES ASSUME Inv, UidKey \notin damaged,
                        NEW m \in Mgr, NEW n \in Ids,
                        Offered(m, n), n \in given \cup reserved
                 PROVE  FALSE
    BY DEF NewIdIsFresh
  <2>2. n < n
    BY <2>1 DEF Inv, UidInv, Taken, Offered
  <2>. QED BY <2>1, <2>2, Constants
<1>. QED BY <1>1, Invariance, PTL

\* What a manager has read under its lock is what the file holds until it
\* changes the file itself, whatever the other processes do and whenever they
\* die, unless the file was damaged.
THEOREM StableReads == Spec => []StableUnderLock
<1>1. Inv => StableUnderLock
  BY DEF Inv, ReadInv, StableUnderLock
<1>. QED BY <1>1, Invariance, PTL

\* What a manager has read under its lock is what the last successful
\* SetGroup of any process saved, unless the file was damaged.
THEOREM CurrentReads == Spec => []LockedReadCurrent
<1>1. Inv => LockedReadCurrent
  BY DEF Inv, ReadInv, LockedReadCurrent
<1>. QED BY <1>1, Invariance, PTL
=============================================================================
