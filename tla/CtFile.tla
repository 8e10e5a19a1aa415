------------------------------- MODULE CtFile -------------------------------
(***************************************************************************)
(* Crypt tokens kept in a key file: src/crypttoken/ctfile.c with the       *)
(* format plugins/ct/ohbci/ohbci.c and the opening and closing of          *)
(* src/crypttoken/ct.c.  Several processes, each with one token object,    *)
(* work on one key file.  A token caches the file's only context and reads *)
(* the file again when its times, whole seconds, differ from those seen    *)
(* last.  Every reading and every writing of the file is covered by an     *)
(* FSLOCK, taken here as what FSLock is shown to implement (LockService);  *)
(* what lies between them is not.                                          *)
(*                                                                         *)
(* Of the seven keys the model keeps the local sign key (1) with its       *)
(* signature counter, the remote sign key (3) with the last accepted       *)
(* number, and the temporary sign key (7); keys 2 and 5 are generated the  *)
(* way 1 is and have no stored counter.  Applications close what they      *)
(* opened and create only through a token that is not open, as all the     *)
(* callers in tools/gcttool do.                                            *)
(***************************************************************************)
EXTENDS Integers

CONSTANTS Proc,      \* the processes, each with a token for the file
          MaxEvents, \* bound on the number of calls and faults
          MaxOpen,   \* bound on openCount
          MaxKeys,   \* bound on the number of generated keys
          MaxSeq,    \* bound on signature numbers
          Counters,  \* the numbers callers set counters to
          MaxTime,   \* bound on the clock, in seconds
          Faults,    \* "crash", "disk": a file operation fails,
                     \* "pin": the user refuses the password
          Free, Orphan,         \* a lock nobody holds, a dead process's lock
          Absent, Empty, Torn,  \* no file, no contents, contents cut short
          NoCtx                 \* an empty context list

NoInfo == -1      \* the context has no key info for the temporary key
Keys == 1..MaxKeys

\* A context: key and tmp are the numbers of the keys, 0 when there is none;
\* rem and rcnt say whether the remote key and its counter are known.
Context == [key : 0..MaxKeys, ctr : 0..MaxSeq, tmp : NoInfo..MaxKeys,
            rem : BOOLEAN, rcnt : BOOLEAN, rctr : 0..MaxSeq, note : BOOLEAN]

\* The context GWEN_Crypt_TokenOHBCI_Create adds to the list.
Blank == [key |-> 0, ctr |-> 0, tmp |-> NoInfo,
          rem |-> FALSE, rcnt |-> TRUE, rctr |-> 0, note |-> FALSE]

\* What the next reader makes of a context in the file: it creates the missing
\* info, takes a counter of 0 for 1, and has counters of known keys only.
Encoded(c) ==
  [c EXCEPT !.tmp = IF @ = NoInfo THEN 0 ELSE @,
            !.ctr = IF c.key = 0 THEN 0 ELSE IF @ = 0 THEN 1 ELSE @,
            !.rcnt = c.rem,
            !.rctr = IF c.rem THEN @ ELSE 0]

ASSUME CtFileAssumption ==
  /\ {MaxEvents, MaxOpen, MaxKeys, MaxSeq} \subseteq Nat \ {0}
  /\ MaxTime \in Nat \ {0, 1} /\ Counters \subseteq 0..MaxSeq
  /\ Faults \subseteq {"crash", "disk", "pin"}
  /\ Free \notin Proc /\ Orphan \notin Proc \cup {Free}
  /\ Absent \notin {Empty, Torn} /\ Empty # Torn
  /\ {Absent, Empty, Torn, NoCtx} \cap Context = {}

VARIABLES tok,     \* per process the token: openCount, context list, mtime,
                   \* and of its cache: dirty (changed, not written), unseen
                   \* (others have written since), why (it was not noticed)
          call,    \* per process the call in progress and its locals
          lck,     \* the lock of the key file
          file,    \* Absent, Empty, Torn or a context
          ftime,   \* the file's times, in seconds
          clock,
          given,   \* pairs of a key and a number Sign has returned
          accepted, \* the remote numbers Verify has accepted
          harm,    \* what has gone wrong so far, see Write and Finish
          damaged, \* the file was cut short by a fault
          made,    \* the file has had contents
          lastKey, events

data == <<file, ftime, damaged, made>>
log == <<given, accepted, harm>>
env == <<clock, lastKey, events>>
vars == <<tok, call, lck, data, log, env>>

PCs == {"idle", "stat", "excl", "reload", "lockR", "read", "unlockR", "statR",
        "body", "lockW", "encode", "write", "unlockW", "statW"}
Ops == {"none", "open", "create", "close", "get", "setContext", "setKeyInfo",
        "generate", "activate", "crypt", "sign", "verify"}
TwoReloads == {"crypt", "sign", "verify"}   \* GetKey reloads once more
WritePCs == {"lockW", "encode", "write", "unlockW", "statW"}
LockedPCs == {"read", "unlockR", "encode", "write", "unlockW"}

Fresh == [open |-> 0, cache |-> NoCtx, mtime |-> 0,
          dirty |-> FALSE, unseen |-> FALSE, why |-> {}]
NoCall == [pc |-> "idle", op |-> "none", second |-> FALSE, ok |-> TRUE,
           ctx |-> FALSE, num |-> 0, raced |-> FALSE]

Token == [open : 0..MaxOpen, cache : Context \cup {NoCtx}, mtime : 0..MaxTime,
          dirty : BOOLEAN, unseen : BOOLEAN,
          why : SUBSET {"race", "tick", "stat"}]
Call == [pc : PCs, op : Ops, second : BOOLEAN, ok : BOOLEAN, ctx : BOOLEAN,
         num : 0..MaxSeq, raced : BOOLEAN]

\* What can make a number come twice.
Causes == {"lost", "freed", "again", "setBack", "unchecked"}
Harms == {"twice", "silent"} \cup Causes

TypeOK ==
  /\ tok \in [Proc -> Token]
  /\ call \in [Proc -> Call]
  /\ lck \in Proc \cup {Free, Orphan}
  /\ file \in Context \cup {Absent, Empty, Torn}
  /\ ftime \in 1..MaxTime /\ clock \in 2..MaxTime
  /\ given \subseteq Keys \X (0..MaxSeq) /\ accepted \subseteq 1..MaxSeq
  /\ harm \subseteq Harms
  /\ damaged \in BOOLEAN /\ made \in BOOLEAN
  /\ lastKey \in 0..MaxKeys /\ events \in 0..MaxEvents

\* A key file from earlier: its sign key was the temporary key once, and the
\* bank's sign key is known.
OldFile == Encoded([Blank EXCEPT !.key = 1, !.tmp = 1, !.rem = TRUE])

\* Nobody works on the file yet, which may exist.
Init ==
  /\ tok = [p \in Proc |-> Fresh]
  /\ call = [p \in Proc |-> NoCall]
  /\ lck = Free
  /\ \/ file = Absent /\ made = FALSE /\ lastKey = 0
     \/ file = OldFile /\ made = TRUE /\ lastKey = 1
  /\ ftime = 1 /\ clock = 2
  /\ given = {} /\ accepted = {} /\ harm = {}
  /\ damaged = FALSE /\ events = 0

-----------------------------------------------------------------------------
At(p, l) == call[p].pc = l
Goto(p, l) == call' = [call EXCEPT ![p].pc = l]
Failing(p, l) == call' = [call EXCEPT ![p].pc = l, ![p].ok = FALSE]
End(p) == call' = [call EXCEPT ![p] = NoCall]

\* A call or a fault, of which the model has a bounded number.
Event == events < MaxEvents /\ events' = events + 1

Begin(p, o, l) ==
  /\ At(p, "idle") /\ Event
  /\ call' = [call EXCEPT ![p] = [NoCall EXCEPT !.pc = l, !.op = o]]

\* One of the faults the run considers happens.
Fault(f) == f \in Faults /\ Event

\* Slip: the context read before stays in the list.
MutCleared(t) == [t EXCEPT !.dirty = FALSE, !.unseen = FALSE, !.why = {}]

\* GWEN_Crypt_Token_Context_List_Clear
Cleared(t) == [t EXCEPT !.cache = NoCtx, !.dirty = FALSE, !.unseen = FALSE,
                        !.why = {}]

\* The cache was changed by its own token.
Changed(p, c) == tok' = [tok EXCEPT ![p].cache = c, ![p].dirty = TRUE]

\* The process ends: the lock it has stays, the file stays as it is.
Dies(p) ==
  /\ tok' = [tok EXCEPT ![p] = Fresh]
  /\ End(p)
  /\ lck' = IF lck = p THEN Orphan ELSE lck
  /\ damaged' = (damaged \/ At(p, "write"))
  /\ UNCHANGED <<file, ftime, made>>

-----------------------------------------------------------------------------
(* The calls, up to their first look at the file                           *)

\* ReadFile empties the list before it opens the file.
Open(p) ==
  /\ At(p, "idle")
  /\ \/ /\ tok[p].open \in 1..(MaxOpen - 1)
        /\ tok' = [tok EXCEPT ![p].open = @ + 1]
        /\ Event /\ UNCHANGED call
     \/ /\ tok[p].open = 0
        /\ tok' = [tok EXCEPT ![p] = Cleared(@)]
        /\ Begin(p, "open", "lockR")
  /\ UNCHANGED <<lck, data, log, clock, lastKey>>

\* The last user's Close writes the cache, whatever happened to the file.
Close(p, abandon) ==
  /\ At(p, "idle") /\ tok[p].open > 0
  /\ \/ /\ ~abandon /\ tok[p].open > 1
        /\ tok' = [tok EXCEPT ![p].open = @ - 1]
        /\ Event /\ UNCHANGED call
     \/ /\ ~abandon /\ tok[p].open = 1
        /\ Begin(p, "close", "lockW") /\ UNCHANGED tok
     \/ /\ abandon
        /\ tok' = [tok EXCEPT ![p] = Fresh]
        /\ Event /\ UNCHANGED call
  /\ UNCHANGED <<lck, data, log, clock, lastKey>>

\* The context is added to the list before the file is looked at.
Create(p) ==
  /\ tok[p].open = 0
  /\ Begin(p, "create", "stat")
  /\ tok' = [tok EXCEPT ![p].cache = IF @ = NoCtx THEN Blank ELSE @]
  /\ UNCHANGED <<lck, data, log, clock, lastKey>>

\* All other calls begin with ReloadIfNeeded.  The caller's arguments are
\* chosen where the call uses them.
Use(p, o) ==
  /\ tok[p].open > 0
  /\ Begin(p, o, "reload")
  /\ UNCHANGED <<tok, lck, data, log, clock, lastKey>>

Query(p) == Use(p, "get")          \* key ids, context ids, key info, context
SetContext(p) == Use(p, "setContext")
SetKeyInfo(p) == Use(p, "setKeyInfo")
GenerateKey(p) == Use(p, "generate")
ActivateKey(p) == Use(p, "activate")
Crypt(p) == Use(p, "crypt")        \* Encipher, Decipher; Sign and Verify
                                   \* for callers without a counter
Sign(p) == Use(p, "sign")
Verify(p) == Use(p, "verify")

CreateStat(p) ==
  /\ At(p, "stat")
  /\ IF file = Absent THEN Goto(p, "excl") ELSE End(p)
  /\ UNCHANGED <<tok, lck, data, log, env>>

\* open(O_EXCL) makes an empty file before the lock is taken.
CreateExcl(p) ==
  /\ At(p, "excl")
  /\ \/ /\ file = Absent
        /\ file' = Empty /\ ftime' = clock
        /\ Goto(p, "lockW")
     \/ /\ file # Absent
        /\ End(p) /\ UNCHANGED <<file, ftime>>
  /\ UNCHANGED <<tok, lck, damaged, made, log, env>>

-----------------------------------------------------------------------------
(* ReloadIfNeeded and ReadFile                                             *)

\* The list is up to date for the call.  The calls that use a key take the
\* context, and have GetKey look whether to reload again.
Loaded(p, t) ==
  \/ /\ call[p].op = "open"
     /\ tok' = [tok EXCEPT ![p] = [t EXCEPT !.open = 1]]
     /\ End(p)
  \/ /\ call[p].op \in TwoReloads /\ ~call[p].second
     /\ tok' = [tok EXCEPT ![p] = t]
     /\ IF t.cache = NoCtx THEN End(p)
        ELSE call' = [call EXCEPT ![p].pc = "reload", ![p].second = TRUE,
                                  ![p].ctx = TRUE]
  \/ /\ call[p].op # "open" /\ (call[p].op \in TwoReloads => call[p].second)
     /\ tok' = [tok EXCEPT ![p] = t]
     /\ Goto(p, "body")

\* Slip: the file is always taken to be unchanged.
MutFileChanged(p) == FALSE

FileChanged(p) == tok[p].mtime # ftime

\* Clearing the list frees the context a call may still point to.
ReloadIfNeeded(p) ==
  /\ At(p, "reload")
  /\ \/ ~FileChanged(p) /\ Loaded(p, tok[p])
     \/ /\ FileChanged(p)
        /\ tok' = [tok EXCEPT ![p] = Cleared(@)]
        /\ call' = [call EXCEPT ![p].pc = "lockR", ![p].ctx = FALSE]
  /\ UNCHANGED <<lck, data, log, env>>

\* Close forgets the cache in any case; a Close that failed leaves the token
\* open.
Failed(p, t) ==
  /\ End(p)
  /\ tok' = [tok EXCEPT ![p] = IF call[p].op = "close"
                               THEN [Fresh EXCEPT !.open = t.open] ELSE t]

\* Slip: the result of GWEN_FSLock_Lock is not looked at.
MutTake(p) == lck' = p

Take(p) == lck = Free /\ lck' = p

OpenFile(p) ==
  /\ \/ At(p, "lockR") /\ Goto(p, "read")
     \/ At(p, "lockW") /\ Goto(p, "encode")
  /\ Take(p)
  /\ UNCHANGED <<tok, data, log, env>>

\* Ten seconds have passed, or the user aborts the waiting.
OpenFileFails(p) ==
  /\ At(p, "lockR") \/ At(p, "lockW")
  /\ lck # Free
  /\ Failed(p, tok[p])
  /\ UNCHANGED <<lck, data, log, env>>

\* There is no file yet, or open() fails: OpenFile releases the lock itself.
NoFile(p) ==
  /\ \/ At(p, "read") /\ file = Absent /\ UNCHANGED events
     \/ (At(p, "read") \/ At(p, "encode")) /\ Fault("disk")
  /\ lck' = Free
  /\ Failed(p, tok[p])
  /\ UNCHANGED <<data, log, clock, lastKey>>

\* GWEN_Crypt_TokenOHBCI_Read adds the context to the list, of which the first
\* one is used.
Read(p) ==
  /\ At(p, "read") /\ file \in Context
  /\ tok' = [tok EXCEPT ![p].cache = IF @ = NoCtx THEN file ELSE @]
  /\ Goto(p, "unlockR")
  /\ UNCHANGED <<lck, data, log, env>>

\* Slip: ReadFile returns the error without closing the file.
MutReadFails(p) ==
  /\ At(p, "read") /\ file # Absent
  /\ \/ file \in {Empty, Torn} /\ UNCHANGED events
     \/ Fault("pin") \/ Fault("disk")
  /\ Failed(p, tok[p])
  /\ UNCHANGED <<lck, data, log, clock, lastKey>>

ReadFails(p) ==
  /\ At(p, "read") /\ file # Absent
  /\ \/ file \in {Empty, Torn} /\ UNCHANGED events
     \/ Fault("pin") \/ Fault("disk")
  /\ Failing(p, "unlockR")
  /\ UNCHANGED <<tok, lck, data, log, clock, lastKey>>

-----------------------------------------------------------------------------
(* CloseFile: the times are taken after the lock has been released         *)

Unlock(p) ==
  /\ \/ At(p, "unlockR") /\ Goto(p, "statR")
     \/ At(p, "unlockW") /\ Goto(p, "statW")
  /\ lck' = Free
  /\ UNCHANGED <<tok, data, log, env>>

\* close() fails.
CloseFails(p) ==
  /\ At(p, "unlockR") \/ At(p, "unlockW")
  /\ Fault("disk")
  /\ lck' = Free
  /\ Failed(p, tok[p])
  /\ UNCHANGED <<data, log, clock, lastKey>>

\* Slip: the times are not remembered after writing.
MutTimed(p) == tok[p]

\* From now on the token takes the file as it is for the one it knows.
Timed(p) == [tok[p] EXCEPT !.mtime = ftime,
                           !.why = IF tok[p].unseen THEN @ \cup {"stat"} ELSE @]

\* WriteFile has succeeded, and with it the call.
Finish(p) ==
  LET c == call[p]
      t == Timed(p)
      n == <<t.cache.key, c.num>>
      again == \/ c.op = "sign" /\ n \in given
               \/ c.op = "verify" /\ c.num \in accepted
  IN  /\ tok' = [tok EXCEPT ![p] =
                   CASE c.op = "close" -> [Fresh EXCEPT !.open = t.open - 1]
                     [] c.op = "create" -> [t EXCEPT !.open = 1]
                     [] OTHER -> t]
      /\ given' = IF c.op = "sign" THEN given \cup {n} ELSE given
      /\ accepted' = IF c.op = "verify" THEN accepted \cup {c.num}
                                        ELSE accepted
      /\ harm' = IF again THEN harm \cup {"twice"} ELSE harm
      /\ End(p)

StatFile(p) ==
  /\ \/ /\ At(p, "statR") \/ At(p, "statW")
        /\ ~call[p].ok /\ Failed(p, Timed(p)) /\ UNCHANGED log
     \/ At(p, "statR") /\ call[p].ok /\ Loaded(p, Timed(p)) /\ UNCHANGED log
     \/ At(p, "statW") /\ call[p].ok /\ Finish(p)
  /\ UNCHANGED <<lck, data, env>>

\* stat(), or the open() of Create, fails outside the lock: the times stay as
\* they are.
StatFails(p) ==
  /\ call[p].pc \in {"stat", "excl", "reload", "statR", "statW"}
  /\ Fault("disk")
  /\ Failed(p, tok[p])
  /\ UNCHANGED <<lck, data, log, clock, lastKey>>

-----------------------------------------------------------------------------
(* What the calls do with the cache                                        *)

\* A call ends without a change: a plain query, an error of the caller, a key
\* that is missing, a failure of the cryptography.
Ends(p) == End(p) /\ UNCHANGED <<tok, lck, data, log, lastKey>>

\* The call goes on with WriteFile, to return n if it is a Sign or a Verify,
\* and needs its other locals no more.
WritesNext(p, n) ==
  call' = [call EXCEPT ![p] = [NoCall EXCEPT !.pc = "lockW", !.op = call[p].op,
                                             !.num = n]]

\* The call has changed the cache, which is written now.
Saves(p, c) ==
  /\ Changed(p, c)
  /\ WritesNext(p, 0)
  /\ UNCHANGED <<lck, data, given, accepted>>

SetContextBody(p) ==
  LET c == tok[p].cache IN
  /\ call[p].op = "setContext"
  /\ \/ c = NoCtx /\ Ends(p)
     \/ /\ c # NoCtx
        /\ Changed(p, [c EXCEPT !.note = ~@])     \* and the file is not written
        /\ End(p)
        /\ UNCHANGED <<lck, data, log, lastKey>>

\* A Sign or Verify whose number is in the file and has not been returned yet.
Signed(p) ==
  call[p].op = "sign" /\ call[p].ok /\ call[p].pc \in {"unlockW", "statW"}
Verified(p) ==
  call[p].op = "verify" /\ call[p].ok /\ call[p].pc \in {"unlockW", "statW"}

\* A number of the key, or of the remote side, that is at least n is used.
UsedFrom(key, n) ==
  \/ \E i \in n..MaxSeq : <<key, i>> \in given
  \/ \E q \in Proc : Signed(q) /\ tok[q].cache.key = key /\ call[q].num >= n
AcceptedFrom(n) ==
  \/ \E i \in accepted : i >= n
  \/ \E q \in Proc : Verified(q) /\ call[q].num >= n

\* The caller sets the counter of the sign key to any number, the next one to
\* be returned, or replaces the remote key, its counter, which is the last
\* number accepted, or both.
SetKeyInfoBody(p) ==
  LET c == tok[p].cache IN
  /\ call[p].op = "setKeyInfo"
  /\ \/ c = NoCtx /\ Ends(p)
     \/ /\ c # NoCtx
        /\ \/ /\ Saves(p, [c EXCEPT !.rem = TRUE])
              /\ UNCHANGED harm
           \/ \E n \in Counters :
                /\ Saves(p, [c EXCEPT !.ctr = n])
                /\ harm' = IF UsedFrom(c.key, n) THEN harm \cup {"setBack"}
                                                 ELSE harm
           \/ \E n \in Counters, r \in {c.rem, TRUE} :
                /\ Saves(p, [c EXCEPT !.rctr = n, !.rcnt = TRUE, !.rem = r])
                /\ harm' = IF AcceptedFrom(n + 1) THEN harm \cup {"setBack"}
                                                  ELSE harm
        /\ UNCHANGED lastKey

\* Without a context the process runs into an assertion.
GenerateKeyBody(p) ==
  LET c == tok[p].cache IN
  /\ call[p].op = "generate"
  /\ \/ Ends(p)                                   \* no key pair, or no info
     \/ c = NoCtx /\ Dies(p) /\ UNCHANGED <<log, lastKey>>
     \/ /\ c # NoCtx /\ lastKey < MaxKeys
        /\ lastKey' = lastKey + 1
        /\ \/ Saves(p, [c EXCEPT !.key = lastKey + 1, !.ctr = 1])
           \/ c.tmp # NoInfo /\ Saves(p, [c EXCEPT !.tmp = lastKey + 1])
        /\ UNCHANGED harm

\* The temporary key becomes the sign key and starts to count at 1; it stays
\* the temporary key as well, so that it can be activated again.
ActivateKeyBody(p) ==
  LET c == tok[p].cache
      usedBefore == c.key = c.tmp \/ UsedFrom(c.tmp, 0)
  IN  /\ call[p].op = "activate"
      /\ \/ Ends(p)
         \/ /\ c # NoCtx /\ c.tmp \in Keys
            /\ Saves(p, [c EXCEPT !.key = c.tmp, !.ctr = 1])
            /\ harm' = IF usedBefore THEN harm \cup {"again"} ELSE harm
            /\ UNCHANGED lastKey

\* The call points to a context that GetKey's reload has freed: the process
\* dies, finds no counter there, or goes on with whatever number the memory
\* holds, n, and the change is not one of the new list.
UsesFreed(p, n) ==
  \/ Dies(p) /\ UNCHANGED <<log, lastKey>>
  \/ /\ End(p)
     /\ harm' = harm \cup {"freed"}
     /\ UNCHANGED <<tok, lck, data, given, accepted, lastKey>>
  \/ /\ WritesNext(p, n)
     /\ harm' = harm \cup {"freed"}
     /\ UNCHANGED <<tok, lck, data, given, accepted, lastKey>>

\* Slip: the counter is not incremented.
MutCounted(c) == c

\* Slip: the counter is incremented twice.
MutCountedTwice(c) == [c EXCEPT !.ctr = @ + 2]

Counted(c) == [c EXCEPT !.ctr = @ + 1]

\* A sign key always comes with a counter.
SignBody(p) ==
  LET c == tok[p].cache IN
  /\ call[p].op = "sign"
  /\ \/ Ends(p)
     \/ /\ c # NoCtx /\ c.key # 0 /\ call[p].ctx /\ c.ctr < MaxSeq
        /\ Changed(p, Counted(c))
        /\ WritesNext(p, c.ctr)
        /\ UNCHANGED <<lck, data, log, lastKey>>
     \/ /\ c # NoCtx /\ c.key # 0 /\ ~call[p].ctx
        /\ \E n \in 0..MaxSeq : UsesFreed(p, n)

\* The number n must be larger than the last one accepted; with a remote key
\* that has no counter every number is accepted, and none recorded.
VerifyBody(p, n) ==
  LET c == tok[p].cache IN
  /\ call[p].op = "verify"
  /\ \/ Ends(p)
     \/ /\ c # NoCtx /\ c.rem /\ call[p].ctx /\ c.rcnt /\ n > c.rctr
        /\ Changed(p, [c EXCEPT !.rctr = n])
        /\ WritesNext(p, n)
        /\ UNCHANGED <<lck, data, log, lastKey>>
     \/ /\ c # NoCtx /\ c.rem /\ call[p].ctx /\ ~c.rcnt
        /\ accepted' = accepted \cup {n}
        /\ harm' = harm \cup {"unchecked"}
                      \cup (IF n \in accepted THEN {"twice"} ELSE {})
        /\ End(p)
        /\ UNCHANGED <<tok, lck, data, given, lastKey>>
     \/ c # NoCtx /\ c.rem /\ ~call[p].ctx /\ UsesFreed(p, n)

Body(p) ==
  /\ At(p, "body")
  /\ \/ call[p].op \in {"get", "crypt"} /\ Ends(p)
     \/ SetContextBody(p) \/ SetKeyInfoBody(p) \/ GenerateKeyBody(p)
     \/ ActivateKeyBody(p) \/ SignBody(p)
     \/ \E n \in 1..MaxSeq : VerifyBody(p, n)
  /\ UNCHANGED <<clock, events>>

-----------------------------------------------------------------------------
(* WriteFile under the lock: GWEN_Crypt_TokenOHBCI_Write                   *)

\* Slip: an empty list is written like any other.
MutEncodes(p) == TRUE

\* A list without a context is refused before the file is touched.
Encodes(p) == tok[p].cache # NoCtx

Truncate(p) ==
  /\ At(p, "encode") /\ Encodes(p)
  /\ file' = Torn /\ ftime' = clock
  /\ Goto(p, "write")
  /\ UNCHANGED <<tok, lck, damaged, made, log, env>>

\* Nothing to encode, the user does not give a password for the new file, or
\* ftruncate() fails.
EncodeFails(p) ==
  /\ At(p, "encode")
  /\ \/ ~Encodes(p) /\ UNCHANGED events
     \/ Fault("pin") \/ Fault("disk")
  /\ Failing(p, "unlockW")
  /\ UNCHANGED <<tok, lck, data, log, clock, lastKey>>

\* The others have not seen this version, and may not notice it: they are
\* past their last look at the file, or have looked in the same second.
OthersMiss(p) ==
  [q \in Proc |->
     IF q = p
     THEN [tok[p] EXCEPT !.dirty = FALSE, !.unseen = FALSE, !.why = {}]
     ELSE IF tok[q].cache = NoCtx THEN tok[q]
     ELSE [tok[q] EXCEPT
             !.unseen = TRUE,
             !.why = @ \cup (IF call[q].pc \in {"body", "lockW"} THEN {"race"}
                                                                ELSE {})
                       \cup (IF tok[q].mtime = clock THEN {"tick"} ELSE {})]]

\* An update is lost when it is overwritten by a token that has not seen it,
\* silently when the token has just compared the times and nobody wrote since.
Losses(p) == IF ~tok[p].unseen THEN {}
             ELSE IF call[p].op = "close" \/ tok[p].why # {} THEN {"lost"}
             ELSE {"lost", "silent"}

\* A Sign or Verify that has still to use the context it has looked up.
NeedsContext(q) ==
  call[q].op \in {"sign", "verify"} /\ call[q].pc \notin WritePCs

Write(p) ==
  /\ At(p, "write")
  /\ file' = IF tok[p].cache = NoCtx THEN Empty ELSE Encoded(tok[p].cache)
  /\ ftime' = clock
  /\ damaged' = FALSE /\ made' = TRUE
  /\ tok' = OthersMiss(p)
  /\ harm' = harm \cup Losses(p)
  /\ call' = [q \in Proc |->
                IF q = p THEN [call[q] EXCEPT !.pc = "unlockW"]
                ELSE [call[q] EXCEPT !.raced = @ \/ NeedsContext(q)]]
  /\ UNCHANGED <<lck, given, accepted, env>>

WriteFails(p) ==
  /\ At(p, "write")
  /\ Fault("disk")
  /\ damaged' = TRUE
  /\ Failing(p, "unlockW")
  /\ UNCHANGED <<tok, lck, file, ftime, made, log, clock, lastKey>>

-----------------------------------------------------------------------------
(* The environment                                                         *)

Crash(p) ==
  /\ tok[p] # Fresh \/ ~At(p, "idle")
  /\ Fault("crash")
  /\ Dies(p)
  /\ UNCHANGED <<log, clock, lastKey>>

\* A user removes the lock of a dead process.
RemoveOrphan ==
  /\ lck = Orphan
  /\ lck' = Free
  /\ UNCHANGED <<tok, call, data, log, env>>

Tick ==
  /\ clock < MaxTime
  /\ clock' = clock + 1
  /\ UNCHANGED <<tok, call, lck, data, log, lastKey, events>>

-----------------------------------------------------------------------------
Step(p) ==
  \/ CreateStat(p) \/ CreateExcl(p) \/ ReloadIfNeeded(p)
  \/ OpenFile(p) \/ OpenFileFails(p) \/ NoFile(p) \/ Read(p) \/ ReadFails(p)
  \/ Unlock(p) \/ CloseFails(p) \/ StatFile(p) \/ StatFails(p) \/ Body(p)
  \/ Truncate(p) \/ EncodeFails(p) \/ Write(p) \/ WriteFails(p)

Next ==
  \/ \E p \in Proc :
       \/ Step(p) \/ Open(p) \/ Create(p) \/ Crash(p)
       \/ Query(p) \/ SetContext(p) \/ SetKeyInfo(p) \/ GenerateKey(p)
       \/ ActivateKey(p) \/ Crypt(p) \/ Sign(p) \/ Verify(p)
       \/ \E abandon \in BOOLEAN : Close(p, abandon)
  \/ RemoveOrphan \/ Tick

Spec == Init /\ [][Next]_vars

-----------------------------------------------------------------------------
(* Properties                                                              *)

\* Once the key file has contents it keeps them: it is only ever incomplete
\* while the holder of the lock rewrites it, or after a fault in the middle of
\* that.  Readers under the lock never see it half written, and a token whose
\* reload has failed never saves the emptied list.
FileIntact ==
  made /\ ~damaged =>
    file \in Context \/ \E p \in Proc : lck = p /\ At(p, "write")

\* Sign returns no number of a key twice and Verify accepts no remote number
\* twice, unless an update of the file was lost, a freed context was used, a
\* used key was activated again, SetKeyInfo has set a counter back below a
\* number in use, or Verify has met a remote key without a counter.
NumbersFresh == "twice" \in harm => harm \cap Causes # {}

\* Apart from Close, a token that has compared the times overwrites another
\* process's update only if that was written after the comparison, in the same
\* second as the last look, or between the unlocking and the stat() of an
\* earlier call.
NoSilentLoss == "silent" \notin harm

\* When no call is in progress and the times agree, an open token's list is
\* empty (its last reload failed) or what the file holds, but for changes it
\* has not written itself and for updates it had no chance to notice.
CacheCurrent ==
  \A p \in Proc :
    (/\ At(p, "idle") /\ tok[p].open > 0 /\ tok[p].cache # NoCtx
     /\ tok[p].mtime = ftime /\ ~tok[p].dirty /\ tok[p].why = {}
     /\ ~damaged /\ lck = Free)
    => Encoded(tok[p].cache) = file

\* The context Sign and Verify point to is one of the list when they use it,
\* unless another process has written the file during the call.
ContextLive ==
  \A p \in Proc : (/\ At(p, "body") /\ call[p].op \in {"sign", "verify"}
                   /\ ~call[p].raced) => call[p].ctx

\* The lock is held exactly between OpenFile and CloseFile, whatever fails in
\* between: no call returns with it.
LockReleased == \A p \in Proc : lck = p <=> call[p].pc \in LockedPCs
=============================================================================
