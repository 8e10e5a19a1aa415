---------------------------- MODULE CtFileProofs ----------------------------
(***************************************************************************)
(* Proofs about CtFile, for any number of processes, any bounds and any    *)
(* set of faults: the types, the lock and the contents of the key file.    *)
(***************************************************************************)
EXTENDS CtFile, TLAPS

\* What the steps of a call know of its locals and of the cache.
CallInv(p) ==
  /\ call[p].pc = "idle" => call[p].op = "none"
  /\ call[p].pc \in {"stat", "excl"} => call[p].op = "create"
  /\ call[p].op = "close" => tok[p].open > 0
  /\ call[p].op = "verify" /\ call[p].pc \in WritePCs =>
       call[p].num \in 1..MaxSeq
  /\ call[p].op = "sign" /\ call[p].pc \in WritePCs =>
       tok[p].cache # NoCtx /\ tok[p].cache.key \in Keys
  /\ call[p].pc = "write" => tok[p].cache # NoCtx

CallsInv == \A p \in Proc : CallInv(p)

\* A file that has had contents does not disappear.
FileStays == made => file # Absent

Inv == TypeOK /\ CallsInv /\ LockReleased /\ FileIntact /\ FileStays

-----------------------------------------------------------------------------
(* Every step but Write is local to one process: it changes no other token *)
(* and no other call.  What is left to show of it is what it does to its   *)
(* own call, to the lock and to the file.                                  *)

LocalTo(p) ==
  /\ tok' \in [Proc -> Token] /\ call' \in [Proc -> Call]
  /\ \A q \in Proc \ {p} : tok'[q] = tok[q] /\ call'[q] = call[q]

\* The step keeps the lock, takes it when it is free, or gives its own up.
LockStep(p) ==
  \/ lck' = lck /\ (call'[p].pc \in LockedPCs <=> call[p].pc \in LockedPCs)
  \/ lck = Free /\ lck' = p /\ call'[p].pc \in LockedPCs
  \/ lck = p /\ lck' \in {Free, Orphan} /\ call'[p].pc \notin LockedPCs

\* The step leaves the file alone and was not writing it, or the file is
\* complete, new, damaged or being written afterwards.
FileStep(p) ==
  /\ \/ /\ file' = file /\ made' = made /\ damaged' = damaged
        /\ call[p].pc # "write"
     \/ file' \in Context \/ ~made' \/ damaged'
     \/ lck' = p /\ call'[p].pc = "write"
  /\ made' => file' # Absent

\* CtFileAssumption, one fact at a time.
LEMMA Constants ==
  /\ MaxEvents \in Nat \ {0} /\ MaxOpen \in Nat \ {0} /\ MaxKeys \in Nat \ {0}
  /\ MaxSeq \in Nat \ {0} /\ MaxTime \in Nat \ {0, 1}
  /\ Free \notin Proc /\ Orphan \notin Proc /\ Orphan # Free
  /\ Absent \notin {Empty, Torn} /\ Empty # Torn
  /\ Absent \notin Context /\ Empty \notin Context
  /\ Torn \notin Context /\ NoCtx \notin Context
BY CtFileAssumption DEF CtFileAssumption

\* The numbers a call can return.
LEMMA Arguments == 0 \in 0..MaxSeq /\ 1..MaxSeq \subseteq 0..MaxSeq
BY Constants

\* What can go wrong.
LEMMA HarmFacts ==
  /\ Causes \subseteq Harms /\ "twice" \in Harms /\ "silent" \in Harms
  /\ "lost" \in Causes /\ "freed" \in Causes /\ "again" \in Causes
  /\ "setBack" \in Causes /\ "unchecked" \in Causes
BY DEF Harms, Causes

\* The initial token and the idle call have their types.
LEMMA Defaults ==
  /\ NoCall \in Call /\ Fresh \in Token
  /\ NoCall.pc = "idle" /\ NoCall.op = "none" /\ Fresh.open = 0
BY Constants DEF NoCall, Call, PCs, Ops, Fresh, Token

\* What a reader makes of a context is one.
LEMMA EncodedContext ==
  ASSUME NEW c \in Context
  PROVE  Encoded(c) \in Context
<1>. DEFINE t == IF c.tmp = NoInfo THEN 0 ELSE c.tmp
            k == IF c.key = 0 THEN 0 ELSE IF c.ctr = 0 THEN 1 ELSE c.ctr
            r == IF c.rem THEN c.rctr ELSE 0
<1>1. /\ t \in NoInfo..MaxKeys /\ k \in 0..MaxSeq /\ r \in 0..MaxSeq
      /\ c.rem \in BOOLEAN
  BY Constants DEF Context, NoInfo
<1>2. Encoded(c) = [c EXCEPT !.tmp = t, !.ctr = k, !.rcnt = c.rem, !.rctr = r]
  BY DEF Encoded, Context
<1>. HIDE DEF t, k, r
<1>. QED BY <1>1, <1>2 DEF Context

\* A local step keeps the parts of the invariant that are about processes.
LEMMA LocalKeeps ==
  ASSUME Inv, NEW p \in Proc, LocalTo(p), CallInv(p)', LockStep(p), FileStep(p)
  PROVE  CallsInv' /\ LockReleased' /\ FileIntact' /\ FileStays'
<1>1. CallsInv'
  <2>1. ASSUME NEW q \in Proc, q # p PROVE CallInv(q)'
    BY <2>1 DEF LocalTo, Inv, CallsInv, CallInv
  <2>. QED BY <2>1 DEF CallsInv
<1>2. LockReleased'
  <2>1. ASSUME NEW q \in Proc PROVE lck' = q <=> call'[q].pc \in LockedPCs
    <3>1. lck = q <=> call[q].pc \in LockedPCs
      BY DEF Inv, LockReleased
    <3>2. CASE q = p
      BY <3>1, <3>2, Constants DEF LockStep
    <3>3. CASE q # p
      BY <3>1, <3>3, Constants DEF LockStep, LocalTo
    <3>. QED BY <3>2, <3>3
  <2>. QED BY <2>1 DEF LockReleased
<1>3. FileIntact'
  <2>1. SUFFICES ASSUME made', ~damaged', file' \notin Context
                 PROVE  \E q \in Proc : lck' = q /\ call'[q].pc = "write"
    BY DEF FileIntact, At
  <2>2. CASE lck' = p /\ call'[p].pc = "write"
    BY <2>2
  <2>3. CASE /\ file' = file /\ made' = made /\ damaged' = damaged
             /\ call[p].pc # "write"
    <3>1. PICK q \in Proc : lck = q /\ call[q].pc = "write"
      BY <2>1, <2>3 DEF Inv, FileIntact, At
    <3>2. q # p
      BY <2>3, <3>1
    <3>3. lck' = q
      BY <3>1, <3>2, Constants DEF LockStep
    <3>4. call'[q].pc = "write"
      BY <3>1, <3>2 DEF LocalTo
    <3>. QED BY <3>3, <3>4
  <2>. QED BY <2>1, <2>2, <2>3 DEF FileStep
<1>4. FileStays'
  BY DEF FileStep, FileStays
<1>. QED BY <1>1, <1>2, <1>3, <1>4

-----------------------------------------------------------------------------
(* What the ways to change a call and a token do                           *)

\* The number of calls and faults stays within its bound.
LEMMA EventCounts ==
  ASSUME TypeOK, Event
  PROVE  events' \in 0..MaxEvents
BY Constants DEF TypeOK, Event

\* A call that ends leaves its process idle and the others alone.
LEMMA EndCall ==
  ASSUME TypeOK, NEW p \in Proc, End(p)
  PROVE  /\ call' \in [Proc -> Call] /\ call'[p] = NoCall
         /\ \A q \in Proc \ {p} : call'[q] = call[q]
BY Defaults DEF TypeOK, End

\* A call that goes on keeps its operation and its numbers.
LEMMA MoveCall ==
  ASSUME TypeOK, NEW p \in Proc, NEW l \in PCs, Goto(p, l) \/ Failing(p, l)
  PROVE  /\ call' \in [Proc -> Call]
         /\ call'[p].pc = l /\ call'[p].op = call[p].op
         /\ call'[p].num = call[p].num
         /\ \A q \in Proc \ {p} : call'[q] = call[q]
BY DEF TypeOK, Goto, Failing, Call

\* A call is replaced as a whole.
LEMMA SetCall ==
  ASSUME TypeOK, NEW p \in Proc, NEW d \in Call, call' = [call EXCEPT ![p] = d]
  PROVE  /\ call' \in [Proc -> Call] /\ call'[p] = d
         /\ \A q \in Proc \ {p} : call'[q] = call[q]
BY DEF TypeOK

\* Sign and Verify remember their number and go on with WriteFile.
LEMMA NumberCall ==
  ASSUME TypeOK, NEW p \in Proc, NEW n \in 0..MaxSeq,
         WritesNext(p, n)
  PROVE  /\ call' \in [Proc -> Call] /\ call'[p].pc = "lockW"
         /\ call'[p].op = call[p].op /\ call'[p].ok /\ call'[p].num = n
         /\ \A q \in Proc \ {p} : call'[q] = call[q]
<1>. DEFINE c == [NoCall EXCEPT !.pc = "lockW", !.op = call[p].op, !.num = n]
<1>1. "lockW" \in PCs /\ call[p].op \in Ops
  BY DEF PCs, TypeOK, Call
<1>2. /\ c \in Call /\ c.pc = "lockW" /\ c.num = n
      /\ c.op = call[p].op /\ c.ok
  BY <1>1, Defaults DEF Call, NoCall
<1>3. call' = [call EXCEPT ![p] = c]
  BY DEF WritesNext
<1>. HIDE DEF c
<1>4. /\ call' \in [Proc -> Call] /\ call'[p] = c
      /\ \A q \in Proc \ {p} : call'[q] = call[q]
  BY <1>2, <1>3, SetCall, Zenon
<1>. QED BY <1>2, <1>4, Zenon

\* A call begins in an idle process.
LEMMA BeginCall ==
  ASSUME TypeOK, NEW p \in Proc, NEW o \in Ops, NEW l \in PCs,
         Begin(p, o, l)
  PROVE  /\ call' \in [Proc -> Call] /\ call[p].pc = "idle"
         /\ call'[p].pc = l /\ call'[p].op = o
         /\ \A q \in Proc \ {p} : call'[q] = call[q]
         /\ events' \in 0..MaxEvents
<1>. DEFINE c == [NoCall EXCEPT !.pc = l, !.op = o]
<1>1. c \in Call /\ c.pc = l /\ c.op = o
  BY Defaults DEF Call
<1>2. call' = [call EXCEPT ![p] = c] /\ call[p].pc = "idle" /\ Event
  BY DEF Begin, At
<1>3. events' \in 0..MaxEvents
  BY <1>2, EventCounts
<1>. HIDE DEF c
<1>. QED BY <1>1, <1>2, <1>3 DEF TypeOK

\* A changed cache is all that changes of a token.
LEMMA ChangeToken ==
  ASSUME TypeOK, NEW p \in Proc, NEW c \in Context, Changed(p, c)
  PROVE  /\ tok' \in [Proc -> Token]
         /\ tok'[p].open = tok[p].open /\ tok'[p].cache = c
         /\ \A q \in Proc \ {p} : tok'[q] = tok[q]
BY ZenonT(60) DEF TypeOK, Changed, Token

\* A call that fails ends, and changes at most its own token.
LEMMA FailCall ==
  ASSUME TypeOK, NEW p \in Proc, NEW t \in Token, Failed(p, t)
  PROVE  LocalTo(p) /\ call'[p] = NoCall
<1>1. (IF call[p].op = "close" THEN [Fresh EXCEPT !.open = t.open] ELSE t)
        \in Token
  BY Defaults DEF Token
<1>. QED BY <1>1, EndCall DEF Failed, TypeOK, LocalTo

\* A call that does not write the file ends, with or without the lock.
LEMMA CallEnds ==
  ASSUME Inv, NEW p \in Proc, LocalTo(p), call'[p] = NoCall, UNCHANGED data,
         call[p].pc # "write",
         \/ lck' = lck /\ call[p].pc \notin LockedPCs
         \/ lck' = Free /\ call[p].pc \in LockedPCs
  PROVE  CallsInv' /\ LockReleased' /\ FileIntact' /\ FileStays'
<1>1. CallInv(p)'
  BY Defaults DEF CallInv, WritePCs
<1>2. LockStep(p)
  BY Defaults DEF Inv, LockReleased, LockStep, LockedPCs
<1>3. FileStep(p)
  BY DEF FileStep, data, Inv, FileStays
<1>. QED BY <1>1, <1>2, <1>3, LocalKeeps

\* A call goes on at l with the locals and the cache it has.
LEMMA CallMoves ==
  ASSUME Inv, NEW p \in Proc, NEW l \in PCs, Goto(p, l) \/ Failing(p, l),
         tok' = tok, UNCHANGED data, call[p].pc # "write",
         l \notin {"idle", "write"},
         l \in {"stat", "excl"} => call[p].op = "create",
         l \in WritePCs =>
           call[p].pc \in WritePCs \/ call[p].op \notin {"sign", "verify"},
         LockStep(p)
  PROVE  CallsInv' /\ LockReleased' /\ FileIntact' /\ FileStays'
<1>1. LocalTo(p)
  BY MoveCall DEF LocalTo, Inv, TypeOK
<1>2. CallInv(p)'
  <2>1. CallInv(p)
    BY DEF Inv, CallsInv
  <2>2. /\ call'[p].pc = l /\ call'[p].op = call[p].op
        /\ call'[p].num = call[p].num
    BY MoveCall DEF Inv
  <2>. QED BY <2>1, <2>2 DEF CallInv
<1>3. FileStep(p)
  BY DEF FileStep, data, Inv, FileStays
<1>. QED BY <1>1, <1>2, <1>3, LocalKeeps

\* A call begins, and is neither writing nor holding the lock.
LEMMA CallBegins ==
  ASSUME Inv, NEW p \in Proc, LocalTo(p), UNCHANGED <<lck, data>>,
         call[p].pc = "idle", call'[p].pc \notin LockedPCs,
         call'[p].pc = "idle" => call'[p].op = "none",
         call'[p].pc \in {"stat", "excl"} => call'[p].op = "create",
         call'[p].op = "close" => tok'[p].open > 0,
         call'[p].pc \in WritePCs => call'[p].op \notin {"sign", "verify"}
  PROVE  CallsInv' /\ LockReleased' /\ FileIntact' /\ FileStays'
<1>1. CallInv(p)'
  BY DEF CallInv, LockedPCs
<1>2. LockStep(p)
  BY DEF LockStep, LockedPCs
<1>3. FileStep(p)
  BY DEF FileStep, data, Inv, FileStays
<1>. QED BY <1>1, <1>2, <1>3, LocalKeeps

-----------------------------------------------------------------------------
(* One lemma per action                                                    *)

\* Opening raises openCount, or empties the list and begins to read.
LEMMA OpenInv ==
  ASSUME Inv, NEW p \in Proc, Open(p)
  PROVE  Inv'
<1>. USE DEF Inv
<1>1. CASE /\ tok[p].open \in 1..(MaxOpen - 1) /\ Event /\ UNCHANGED call
           /\ tok' = [tok EXCEPT ![p].open = @ + 1]
  <2>1. LocalTo(p) /\ tok'[p].open > 0
    BY <1>1, Constants DEF TypeOK, LocalTo, Token
  <2>2. CallsInv' /\ LockReleased' /\ FileIntact' /\ FileStays'
    <3>1. CallInv(p) /\ call[p].pc = "idle"
      BY DEF CallsInv, Open, At
    <3>. QED BY <1>1, <2>1, <3>1, CallBegins DEF Open, CallInv, LockedPCs, WritePCs
  <2>3. TypeOK'
    BY <1>1, <2>1, EventCounts DEF TypeOK, LocalTo, Open, data, log
  <2>. QED BY <2>2, <2>3
<1>2. CASE Begin(p, "open", "lockR") /\ tok' = [tok EXCEPT ![p] = Cleared(@)]
  <2>1. Cleared(tok[p]) \in Token
    BY DEF TypeOK, Cleared, Token
  <2>2. LocalTo(p)
    BY SMTT(60), <1>2, <2>1, BeginCall DEF TypeOK, LocalTo, Ops, PCs
  <2>3. /\ call[p].pc = "idle" /\ call'[p].pc = "lockR" /\ call'[p].op = "open"
        /\ events' \in 0..MaxEvents
    BY SMTT(60), <1>2, BeginCall DEF Ops, PCs
  <2>4. CallsInv' /\ LockReleased' /\ FileIntact' /\ FileStays'
    BY <2>2, <2>3, CallBegins DEF Open, LockedPCs, WritePCs
  <2>5. TypeOK'
    BY <2>2, <2>3 DEF TypeOK, LocalTo, Open, data, log
  <2>. QED BY <2>4, <2>5
<1>. QED BY <1>1, <1>2 DEF Open

\* Closing lowers openCount, forgets the token, or begins to write.
LEMMA CloseInv ==
  ASSUME Inv, NEW p \in Proc, NEW abandon \in BOOLEAN, Close(p, abandon)
  PROVE  Inv'
<1>. USE DEF Inv
<1>1. CASE /\ Event /\ UNCHANGED call
           /\ \/ tok[p].open > 1 /\ tok' = [tok EXCEPT ![p].open = @ - 1]
              \/ tok' = [tok EXCEPT ![p] = Fresh]
  <2>1. LocalTo(p)
    BY <1>1, Constants, Defaults DEF TypeOK, LocalTo, Token
  <2>2. CallsInv' /\ LockReleased' /\ FileIntact' /\ FileStays'
    <3>1. call[p].pc = "idle" /\ call[p].op = "none"
      BY DEF Close, At, CallsInv, CallInv
    <3>. QED BY <1>1, <2>1, <3>1, CallBegins DEF Close, LockedPCs, WritePCs
  <2>3. TypeOK'
    BY <1>1, <2>1, EventCounts DEF TypeOK, LocalTo, Close, data, log
  <2>. QED BY <2>2, <2>3
<1>2. CASE Begin(p, "close", "lockW") /\ UNCHANGED tok
  <2>1. LocalTo(p)
    BY SMTT(60), <1>2, BeginCall DEF TypeOK, LocalTo, Ops, PCs
  <2>2. /\ call[p].pc = "idle" /\ call'[p].pc = "lockW" /\ call'[p].op = "close"
        /\ events' \in 0..MaxEvents
    BY SMTT(60), <1>2, BeginCall DEF Ops, PCs
  <2>3. CallsInv' /\ LockReleased' /\ FileIntact' /\ FileStays'
    BY <1>2, <2>1, <2>2, CallBegins DEF Close, LockedPCs, WritePCs
  <2>4. TypeOK'
    BY <2>1, <2>2 DEF TypeOK, LocalTo, Close, data, log
  <2>. QED BY <2>3, <2>4
<1>. QED BY <1>1, <1>2 DEF Close

\* Create adds a context to the list.
LEMMA CreateInv ==
  ASSUME Inv, NEW p \in Proc, Create(p)
  PROVE  Inv'
<1>. USE DEF Inv
<1>1. Blank \in Context
  BY Constants DEF Blank, Context, NoInfo
<1>2. LocalTo(p)
  <2>1. tok' \in [Proc -> Token] /\ \A q \in Proc \ {p} : tok'[q] = tok[q]
    BY <1>1 DEF Create, TypeOK, Token
  <2>. QED BY SMTT(60), <2>1, BeginCall DEF Create, LocalTo, Ops, PCs
<1>3. /\ call[p].pc = "idle" /\ call'[p].pc = "stat" /\ call'[p].op = "create"
      /\ events' \in 0..MaxEvents
  BY SMTT(60), BeginCall DEF Create, Ops, PCs
<1>4. CallsInv' /\ LockReleased' /\ FileIntact' /\ FileStays'
  BY <1>2, <1>3, CallBegins DEF Create, LockedPCs, WritePCs
<1>5. TypeOK'
  BY <1>2, <1>3 DEF TypeOK, LocalTo, Create, data, log
<1>. QED BY <1>4, <1>5

\* The calls that begin with ReloadIfNeeded.
LEMMA UseInv ==
  ASSUME Inv, NEW p \in Proc, NEW o \in Ops \ {"close"},
         Use(p, o)
  PROVE  Inv'
<1>. USE DEF Inv
<1>1. LocalTo(p)
  BY BeginCall DEF Use, TypeOK, LocalTo, PCs
<1>2. /\ call[p].pc = "idle" /\ call'[p].pc = "reload" /\ call'[p].op = o
      /\ events' \in 0..MaxEvents
  BY BeginCall DEF Use, PCs
<1>3. CallsInv' /\ LockReleased' /\ FileIntact' /\ FileStays'
  BY <1>1, <1>2, CallBegins DEF Use, LockedPCs, WritePCs
<1>4. TypeOK'
  BY <1>1, <1>2 DEF TypeOK, LocalTo, Use, data, log
<1>. QED BY <1>3, <1>4

\* Create goes on only when there is no file.
LEMMA CreateStatInv ==
  ASSUME Inv, NEW p \in Proc, CreateStat(p)
  PROVE  Inv'
<1>. USE DEF Inv
<1>1. CASE Goto(p, "excl")
  <2>1. call[p].pc = "stat" /\ call[p].op = "create"
    BY DEF CreateStat, At, CallsInv, CallInv
  <2>2. LockStep(p)
    BY <1>1, <2>1, MoveCall DEF CreateStat, LockStep, PCs, LockedPCs
  <2>3. CallsInv' /\ LockReleased' /\ FileIntact' /\ FileStays'
    BY <1>1, <2>1, <2>2, CallMoves DEF CreateStat, PCs, WritePCs
  <2>4. TypeOK'
    BY <1>1, MoveCall DEF CreateStat, TypeOK, PCs, data, log, env
  <2>. QED BY <2>3, <2>4
<1>2. CASE End(p)
  BY <1>2, CallEnds, EndCall
     DEF CreateStat, At, LockedPCs, LocalTo, TypeOK, data, log, env
<1>. QED BY <1>1, <1>2 DEF CreateStat

\* Create makes an empty file only where there was none, so none is lost.
LEMMA CreateExclInv ==
  ASSUME Inv, NEW p \in Proc, CreateExcl(p)
  PROVE  Inv'
<1>. USE DEF Inv
<1>1. CASE file = Absent /\ file' = Empty /\ ftime' = clock /\ Goto(p, "lockW")
  <2>1. LocalTo(p) /\ call'[p].pc = "lockW" /\ call'[p].op = call[p].op
    BY <1>1, MoveCall DEF CreateExcl, LocalTo, TypeOK, PCs
  <2>2. call[p].pc = "excl" /\ call[p].op = "create"
    BY DEF CreateExcl, At, CallsInv, CallInv
  <2>3. CallInv(p)'
    BY <2>1, <2>2 DEF CallInv
  <2>4. LockStep(p) /\ FileStep(p)
    BY <1>1, <2>1, <2>2
       DEF CreateExcl, LockStep, FileStep, LockedPCs, FileStays, TypeOK
  <2>5. TypeOK'
    BY <1>1, <2>1 DEF CreateExcl, LocalTo, TypeOK, log, env
  <2>. QED BY <2>1, <2>3, <2>4, <2>5, LocalKeeps
<1>2. CASE End(p) /\ UNCHANGED <<file, ftime>>
  BY <1>2, CallEnds, EndCall
     DEF CreateExcl, At, LockedPCs, LocalTo, TypeOK, data, log, env
<1>. QED BY <1>1, <1>2 DEF CreateExcl

\* The list is up to date, and the call ends or goes on.
LEMMA LoadedInv ==
  ASSUME Inv, NEW p \in Proc, NEW t \in Token, t.open = tok[p].open,
         call[p].pc \in {"reload", "statR"}, Loaded(p, t),
         UNCHANGED <<lck, data, log, env>>
  PROVE  Inv'
<1>. USE DEF Inv
<1>1. CASE End(p) /\ tok' = [tok EXCEPT ![p] = [t EXCEPT !.open = 1]]
  <2>1. [t EXCEPT !.open = 1] \in Token
    BY Constants DEF Token
  <2>2. LocalTo(p)
    BY <1>1, <2>1, EndCall DEF LocalTo, TypeOK
  <2>. QED BY <1>1, <2>2, CallEnds, EndCall
              DEF LockedPCs, LocalTo, TypeOK, data, log, env
<1>2. CASE End(p) /\ tok' = [tok EXCEPT ![p] = t]
  <2>2. LocalTo(p)
    BY <1>2, EndCall DEF LocalTo, TypeOK
  <2>. QED BY <1>2, <2>2, CallEnds, EndCall
              DEF LockedPCs, LocalTo, TypeOK, data, log, env
<1>3. CASE /\ tok' = [tok EXCEPT ![p] = t]
           /\ \/ Goto(p, "body")
              \/ call' = [call EXCEPT ![p].pc = "reload", ![p].second = TRUE,
                                      ![p].ctx = TRUE]
  <2>1. /\ call' \in [Proc -> Call] /\ call'[p].pc \in {"reload", "body"}
        /\ call'[p].op = call[p].op
        /\ call'[p].num = call[p].num
        /\ \A q \in Proc \ {p} : call'[q] = call[q]
    BY <1>3 DEF Goto, TypeOK, Call, PCs
  <2>2. LocalTo(p) /\ tok'[p] = t
    BY <1>3, <2>1 DEF LocalTo, TypeOK
  <2>3. CallInv(p)'
    <3>1. CallInv(p)
      BY DEF CallsInv
    <3>. QED BY <2>1, <2>2, <3>1 DEF CallInv, WritePCs
  <2>4. LockStep(p) /\ FileStep(p)
    BY <2>1 DEF LockStep, FileStep, LockedPCs, FileStays, data
  <2>5. TypeOK'
    BY <2>2 DEF LocalTo, TypeOK, data, log, env
  <2>. QED BY <2>2, <2>3, <2>4, <2>5, LocalKeeps
<1>. QED BY <1>1, <1>2, <1>3 DEF Loaded

\* The list is emptied when the times differ.
LEMMA ReloadIfNeededInv ==
  ASSUME Inv, NEW p \in Proc, ReloadIfNeeded(p)
  PROVE  Inv'
<1>. USE DEF Inv
<1>1. CASE Loaded(p, tok[p])
  <2>1. tok[p] \in Token
    BY DEF TypeOK
  <2>. QED BY <1>1, <2>1, LoadedInv DEF ReloadIfNeeded, At
<1>2. CASE /\ tok' = [tok EXCEPT ![p] = Cleared(@)]
           /\ call' = [call EXCEPT ![p].pc = "lockR", ![p].ctx = FALSE]
  <2>1. Cleared(tok[p]) \in Token /\ Cleared(tok[p]).open = tok[p].open
    BY DEF TypeOK, Cleared, Token
  <2>2. /\ call' \in [Proc -> Call] /\ call'[p].pc = "lockR"
        /\ call'[p].op = call[p].op
        /\ call'[p].num = call[p].num
        /\ \A q \in Proc \ {p} : call'[q] = call[q]
    <3>1. "lockR" \in PCs
      BY DEF PCs
    <3>. QED BY ZenonT(60), <1>2, <3>1 DEF TypeOK, Call
  <2>3. LocalTo(p) /\ tok'[p].open = tok[p].open
    BY <1>2, <2>1, <2>2 DEF LocalTo, TypeOK
  <2>4. CallInv(p)'
    <3>1. CallInv(p)
      BY DEF CallsInv
    <3>. QED BY <2>2, <2>3, <3>1 DEF CallInv, WritePCs
  <2>5. LockStep(p) /\ FileStep(p)
    BY <2>2 DEF ReloadIfNeeded, At, LockStep, FileStep, LockedPCs, FileStays, data
  <2>6. TypeOK'
    BY <2>3 DEF ReloadIfNeeded, LocalTo, TypeOK, data, log, env
  <2>. QED BY <2>3, <2>4, <2>5, <2>6, LocalKeeps
<1>. QED BY <1>1, <1>2 DEF ReloadIfNeeded

\* The lock is taken when it is free.
LEMMA OpenFileInv ==
  ASSUME Inv, NEW p \in Proc, OpenFile(p)
  PROVE  Inv'
<1>. USE DEF Inv
<1>1. ASSUME NEW l \in {"read", "encode"}, Goto(p, l),
             l = "encode" => call[p].pc = "lockW",
             call[p].pc \in {"lockR", "lockW"}
      PROVE  Inv'
  <2>1. LockStep(p)
    BY <1>1, MoveCall DEF OpenFile, Take, LockStep, PCs, LockedPCs
  <2>2. CallsInv' /\ LockReleased' /\ FileIntact' /\ FileStays'
    BY <1>1, <2>1, CallMoves DEF OpenFile, PCs, WritePCs
  <2>3. TypeOK'
    BY <1>1, MoveCall DEF OpenFile, Take, TypeOK, PCs, data, log, env
  <2>. QED BY <2>2, <2>3
<1>. QED BY <1>1 DEF OpenFile, At

\* A call fails, and gives the lock up if it has it.
LEMMA FailedInv ==
  ASSUME Inv, NEW p \in Proc, NEW t \in Token, Failed(p, t),
         UNCHANGED <<data, log, clock, lastKey>>, call[p].pc # "write",
         events' \in 0..MaxEvents,
         \/ lck' = lck /\ call[p].pc \notin LockedPCs
         \/ lck' = Free /\ call[p].pc \in LockedPCs
  PROVE  Inv'
<1>. USE DEF Inv
<1>1. LocalTo(p) /\ call'[p] = NoCall
  BY FailCall
<1>2. CallsInv' /\ LockReleased' /\ FileIntact' /\ FileStays'
  BY <1>1, CallEnds
<1>3. TypeOK'
  BY <1>1 DEF LocalTo, TypeOK, data, log
<1>. QED BY <1>2, <1>3

\* The failures that end a call at once.
LEMMA FailuresInv ==
  ASSUME Inv, NEW p \in Proc,
         OpenFileFails(p) \/ NoFile(p) \/ CloseFails(p) \/ StatFails(p)
  PROVE  Inv'
<1>1. tok[p] \in Token /\ events \in 0..MaxEvents /\ TypeOK
  BY DEF Inv, TypeOK
<1>2. CASE OpenFileFails(p)
  BY <1>1, <1>2, FailedInv DEF OpenFileFails, At, LockedPCs, env
<1>3. CASE NoFile(p)
  BY <1>1, <1>3, FailedInv, EventCounts DEF NoFile, Fault, At, LockedPCs
<1>4. CASE CloseFails(p)
  BY <1>1, <1>4, FailedInv, EventCounts DEF CloseFails, Fault, At, LockedPCs
<1>5. CASE StatFails(p)
  BY <1>1, <1>5, FailedInv, EventCounts DEF StatFails, Fault, LockedPCs
<1>. QED BY <1>2, <1>3, <1>4, <1>5

\* The context of the file is added to the list.
LEMMA ReadInv ==
  ASSUME Inv, NEW p \in Proc, Read(p)
  PROVE  Inv'
<1>. USE DEF Inv
<1>1. /\ call' \in [Proc -> Call] /\ call'[p].pc = "unlockR"
      /\ call'[p].op = call[p].op
      /\ call'[p].num = call[p].num
      /\ \A q \in Proc \ {p} : call'[q] = call[q]
  BY MoveCall DEF Read, PCs
<1>2. /\ tok' \in [Proc -> Token] /\ tok'[p].open = tok[p].open
      /\ \A q \in Proc \ {p} : tok'[q] = tok[q]
  BY DEF Read, TypeOK, Token
<1>3. LocalTo(p)
  BY <1>1, <1>2 DEF LocalTo
<1>4. CallInv(p)'
  <2>1. CallInv(p)
    BY DEF CallsInv
  <2>. QED BY <1>1, <1>2, <2>1 DEF CallInv, WritePCs
<1>5. LockStep(p) /\ FileStep(p)
  BY <1>1 DEF Read, At, LockStep, FileStep, LockedPCs, FileStays, data
<1>6. TypeOK'
  BY <1>3 DEF Read, LocalTo, TypeOK, data, log, env
<1>. QED BY <1>3, <1>4, <1>5, <1>6, LocalKeeps

\* A step under the lock that fails, but for Write.
LEMMA FailingInv ==
  ASSUME Inv, NEW p \in Proc, ReadFails(p) \/ EncodeFails(p)
  PROVE  Inv'
<1>. USE DEF Inv
<1>1. PICK l \in {"unlockR", "unlockW"} :
        /\ Failing(p, l) /\ (l = "unlockW" => call[p].pc = "encode")
        /\ call[p].pc \in {"read", "encode"}
  BY DEF ReadFails, EncodeFails, At
<1>2. /\ UNCHANGED <<tok, lck, data, log, clock, lastKey>>
      /\ events' \in 0..MaxEvents
  BY EventCounts DEF ReadFails, EncodeFails, Fault, TypeOK
<1>3. LockStep(p)
  BY <1>1, <1>2, MoveCall DEF LockStep, PCs, LockedPCs
<1>4. CallsInv' /\ LockReleased' /\ FileIntact' /\ FileStays'
  BY <1>1, <1>2, <1>3, CallMoves DEF PCs, WritePCs
<1>5. TypeOK'
  BY <1>1, <1>2, MoveCall DEF TypeOK, PCs, data, log
<1>. QED BY <1>4, <1>5

\* CloseFile gives the lock up before it takes the times.
LEMMA UnlockInv ==
  ASSUME Inv, NEW p \in Proc, Unlock(p)
  PROVE  Inv'
<1>. USE DEF Inv
<1>1. PICK l \in {"statR", "statW"} :
        /\ Goto(p, l) /\ (l = "statW" => call[p].pc = "unlockW")
        /\ call[p].pc \in {"unlockR", "unlockW"}
  BY DEF Unlock, At
<1>2. LockStep(p)
  BY <1>1, MoveCall DEF Unlock, LockReleased, LockStep, PCs, LockedPCs
<1>3. CallsInv' /\ LockReleased' /\ FileIntact' /\ FileStays'
  BY <1>1, <1>2, CallMoves DEF Unlock, PCs, WritePCs
<1>4. TypeOK'
  BY <1>1, MoveCall DEF Unlock, TypeOK, PCs, data, log, env
<1>. QED BY <1>3, <1>4

\* Taking the times leaves openCount and the list alone.
LEMMA TimedToken ==
  ASSUME TypeOK, NEW p \in Proc
  PROVE  /\ Timed(p) \in Token /\ Timed(p).open = tok[p].open
         /\ Timed(p).cache = tok[p].cache
<1>. DEFINE w == IF tok[p].unseen THEN tok[p].why \cup {"stat"} ELSE tok[p].why
<1>1. w \in SUBSET {"race", "tick", "stat"}
  BY DEF TypeOK, Token
<1>2. ftime \in 0..MaxTime /\ tok[p] \in Token
  BY Constants DEF TypeOK
<1>3. Timed(p) = [tok[p] EXCEPT !.mtime = ftime, !.why = w]
  BY <1>2 DEF Timed, Token
<1>. HIDE DEF w
<1>. QED BY <1>1, <1>2, <1>3 DEF Token

\* WriteFile has succeeded: Sign and Verify return their numbers.
LEMMA FinishInv ==
  ASSUME Inv, NEW p \in Proc, call[p].pc = "statW", Finish(p),
         UNCHANGED <<lck, data, env>>
  PROVE  Inv'
<1>. USE DEF Inv
<1>1. /\ tok' \in [Proc -> Token]
      /\ \A q \in Proc \ {p} : tok'[q] = tok[q]
  <2>. DEFINE t == CASE call[p].op = "close" ->
                          [Fresh EXCEPT !.open = Timed(p).open - 1]
                     [] call[p].op = "create" -> [Timed(p) EXCEPT !.open = 1]
                     [] OTHER -> Timed(p)
  <2>1. tok[p].open \in 0..MaxOpen /\ (call[p].op = "close" => tok[p].open > 0)
    BY DEF TypeOK, Token, CallsInv, CallInv
  <2>2. Timed(p) \in Token /\ Timed(p).open = tok[p].open
    BY TimedToken
  <2>3. CASE call[p].op = "close"
    <3>1. tok[p].open - 1 \in 0..MaxOpen
      BY <2>1, <2>3, Constants
    <3>2. t = [Fresh EXCEPT !.open = tok[p].open - 1]
      BY <2>2, <2>3
    <3>3. t \in Token
      BY <3>1, <3>2, Defaults DEF Token
    <3>. QED BY <3>3 DEF Finish, TypeOK
  <2>4. CASE call[p].op = "create"
    <3>1. t \in Token
      BY <2>2, <2>4, Constants DEF Token
    <3>. QED BY <3>1 DEF Finish, TypeOK
  <2>5. CASE call[p].op \notin {"close", "create"}
    <3>1. t \in Token
      BY <2>2, <2>5
    <3>. QED BY <3>1 DEF Finish, TypeOK
  <2>. QED BY <2>3, <2>4, <2>5
<1>2. LocalTo(p) /\ call'[p] = NoCall
  BY <1>1, EndCall DEF Finish, LocalTo
<1>3. CallsInv' /\ LockReleased' /\ FileIntact' /\ FileStays'
  BY <1>2, CallEnds DEF LockedPCs
<1>4. given' \subseteq Keys \X (0..MaxSeq) /\ accepted' \subseteq 1..MaxSeq
  <2>1. call[p].op = "sign" => Timed(p).cache.key \in Keys
    BY TimedToken DEF CallsInv, CallInv, WritePCs
  <2>2. call[p].op = "verify" => call[p].num \in 1..MaxSeq
    BY DEF CallsInv, CallInv, WritePCs
  <2>3. call[p].num \in 0..MaxSeq
    BY DEF TypeOK, Call
  <2>. QED BY <2>1, <2>2, <2>3 DEF Finish, TypeOK
<1>5. harm' \subseteq Harms
  BY HarmFacts DEF Finish, TypeOK
<1>6. TypeOK'
  BY <1>2, <1>4, <1>5 DEF LocalTo, TypeOK, data, env
<1>. QED BY <1>3, <1>6

\* What follows the taking of the times.
LEMMA StatFileInv ==
  ASSUME Inv, NEW p \in Proc, StatFile(p)
  PROVE  Inv'
<1>1. TypeOK /\ events \in 0..MaxEvents
  BY DEF Inv, TypeOK
<1>2. CASE /\ call[p].pc \in {"statR", "statW"} /\ Failed(p, Timed(p))
           /\ UNCHANGED log
  BY <1>1, <1>2, TimedToken, FailedInv DEF StatFile, LockedPCs, env
<1>3. CASE call[p].pc = "statR" /\ Loaded(p, Timed(p)) /\ UNCHANGED log
  BY <1>1, <1>3, TimedToken, LoadedInv DEF StatFile
<1>4. CASE call[p].pc = "statW" /\ Finish(p)
  BY <1>4, FinishInv DEF StatFile
<1>. QED BY <1>2, <1>3, <1>4 DEF StatFile, At

\* The process dies in the middle of a call.
LEMMA DiesInv ==
  ASSUME Inv, NEW p \in Proc, Dies(p), UNCHANGED <<log, clock>>,
         lastKey' \in 0..MaxKeys, events' \in 0..MaxEvents
  PROVE  Inv'
<1>. USE DEF Inv
<1>1. LocalTo(p) /\ call'[p] = NoCall
  BY EndCall, Defaults DEF Dies, LocalTo, TypeOK
<1>2. CallInv(p)'
  BY <1>1, Defaults DEF CallInv, WritePCs
<1>3. LockStep(p)
  BY <1>1, Defaults DEF Dies, LockStep, LockReleased, LockedPCs
<1>4. FileStep(p)
  BY DEF Dies, FileStep, At, FileStays, TypeOK
<1>5. TypeOK'
  BY <1>1 DEF Dies, LocalTo, TypeOK, log
<1>. QED BY <1>1, <1>2, <1>3, <1>4, <1>5, LocalKeeps

\* A call has changed the cache and goes on with WriteFile.
LEMMA SavesInv ==
  ASSUME Inv, NEW p \in Proc, NEW c \in Context, Changed(p, c),
         call[p].pc = "body",
         call' \in [Proc -> Call],
         call'[p].pc = "lockW", call'[p].op = call[p].op,
         call[p].op = "verify" => call'[p].num \in 1..MaxSeq,
         call[p].op = "sign" => c.key \in Keys,
         \A q \in Proc \ {p} : call'[q] = call[q],
         UNCHANGED <<lck, data, given, accepted, clock, events>>,
         harm' \subseteq Harms,
         lastKey' \in 0..MaxKeys
  PROVE  Inv'
<1>. USE DEF Inv
<1>1. LocalTo(p) /\ tok'[p].open = tok[p].open /\ tok'[p].cache = c
  BY ChangeToken DEF LocalTo
<1>2. CallInv(p)'
  <2>1. CallInv(p) /\ c # NoCtx
    BY Constants DEF CallsInv
  <2>. QED BY <1>1, <2>1 DEF CallInv
<1>3. LockStep(p) /\ FileStep(p)
  BY DEF LockStep, FileStep, LockedPCs, FileStays, data
<1>4. TypeOK'
  BY <1>1 DEF LocalTo, TypeOK, data
<1>. QED BY <1>1, <1>2, <1>3, <1>4, LocalKeeps

\* A call ends and leaves the token, the lock and the file as they are.
LEMMA EndsInv ==
  ASSUME Inv, NEW p \in Proc, call[p].pc = "body", End(p),
         UNCHANGED <<tok, lck, data, given, env>>,
         accepted' \subseteq 1..MaxSeq, harm' \subseteq Harms
  PROVE  Inv'
<1>. USE DEF Inv
<1>1. LocalTo(p) /\ call'[p] = NoCall
  BY EndCall DEF LocalTo, TypeOK
<1>2. CallsInv' /\ LockReleased' /\ FileIntact' /\ FileStays'
  BY <1>1, CallEnds DEF LockedPCs
<1>3. TypeOK'
  BY <1>1 DEF LocalTo, TypeOK, data, env
<1>. QED BY <1>2, <1>3

\* A call goes on with a context that has been freed.
LEMMA UsesFreedInv ==
  ASSUME Inv, NEW p \in Proc, NEW n \in 0..MaxSeq, call[p].pc = "body",
         UsesFreed(p, n), UNCHANGED <<clock, events>>,
         tok[p].cache # NoCtx,
         call[p].op = "verify" => n \in 1..MaxSeq,
         call[p].op = "sign" => tok[p].cache.key \in Keys
  PROVE  Inv'
<1>. USE DEF Inv
<1>1. CASE Dies(p) /\ UNCHANGED <<log, lastKey>>
  BY <1>1, DiesInv DEF TypeOK
<1>2. CASE /\ WritesNext(p, n)
           /\ harm' = harm \cup {"freed"}
           /\ UNCHANGED <<tok, lck, data, given, accepted, lastKey>>
  <2>1. /\ call' \in [Proc -> Call] /\ call'[p].pc = "lockW"
        /\ call'[p].op = call[p].op
        /\ call'[p].num = n /\ \A q \in Proc \ {p} : call'[q] = call[q]
    BY <1>2, NumberCall
  <2>2. LocalTo(p)
    BY <1>2, <2>1 DEF LocalTo, TypeOK
  <2>3. CallInv(p)'
    <3>1. CallInv(p)
      BY DEF CallsInv
    <3>. QED BY <1>2, <2>1, <3>1 DEF CallInv
  <2>4. LockStep(p) /\ FileStep(p)
    BY <1>2, <2>1 DEF LockStep, FileStep, LockedPCs, FileStays, data
  <2>5. TypeOK'
    BY <1>2, <2>2, HarmFacts DEF LocalTo, TypeOK, data
  <2>. QED BY <2>2, <2>3, <2>4, <2>5, LocalKeeps
<1>3. CASE /\ End(p) /\ harm' = harm \cup {"freed"}
           /\ UNCHANGED <<tok, lck, data, given, accepted, lastKey>>
  BY <1>3, EndsInv, HarmFacts DEF TypeOK, env
<1>. QED BY <1>1, <1>2, <1>3 DEF UsesFreed

\* What the calls do with the list.
LEMMA BodyInv ==
  ASSUME Inv, NEW p \in Proc, Body(p)
  PROVE  Inv'
<1>. DEFINE c == tok[p].cache
<1>1. /\ TypeOK /\ CallInv(p) /\ call[p].pc = "body"
      /\ UNCHANGED <<clock, events>>
      /\ c # NoCtx => c \in Context
  BY DEF Inv, TypeOK, CallsInv, Body, At, Token
<1>2. CASE Ends(p)
  BY <1>1, <1>2, EndsInv DEF Ends, TypeOK, log, env
<1>3. CASE SetContextBody(p) /\ ~Ends(p)
  <2>1. /\ c # NoCtx /\ Changed(p, [c EXCEPT !.note = ~@]) /\ End(p)
        /\ UNCHANGED <<lck, data, log, lastKey>>
    BY <1>3 DEF SetContextBody
  <2>2. [c EXCEPT !.note = ~@] \in Context
    BY <1>1, <2>1 DEF Context
  <2>3. LocalTo(p) /\ call'[p] = NoCall
    BY <1>1, <2>1, <2>2, ChangeToken, EndCall DEF LocalTo
  <2>4. CallsInv' /\ LockReleased' /\ FileIntact' /\ FileStays'
    BY <1>1, <2>1, <2>3, CallEnds DEF LockedPCs
  <2>5. TypeOK'
    BY <1>1, <2>1, <2>3 DEF LocalTo, TypeOK, data, log
  <2>. QED BY <2>4, <2>5 DEF Inv
<1>4. ASSUME NEW d \in Context, Saves(p, d), call[p].op \notin {"sign", "verify"},
             harm' \subseteq Harms,
             lastKey' \in 0..MaxKeys
      PROVE  Inv'
  BY <1>1, <1>4, Arguments, NumberCall, SavesInv DEF Saves
<1>5. CASE SetKeyInfoBody(p) /\ ~Ends(p)
  <2>1. /\ c # NoCtx /\ c \in Context /\ call[p].op = "setKeyInfo"
        /\ UNCHANGED lastKey
    BY <1>1, <1>5 DEF SetKeyInfoBody
  <2>2. Counters \subseteq 0..MaxSeq
    BY CtFileAssumption DEF CtFileAssumption
  <2>3. CASE Saves(p, [c EXCEPT !.rem = TRUE]) /\ UNCHANGED harm
    <3>1. [c EXCEPT !.rem = TRUE] \in Context
      BY <2>1 DEF Context
    <3>. QED BY <1>1, <1>4, <2>1, <2>3, <3>1 DEF TypeOK
  <2>4. ASSUME NEW m \in Counters, Saves(p, [c EXCEPT !.ctr = m]),
               harm' \subseteq harm \cup {"setBack"}
        PROVE  Inv'
    <3>1. [c EXCEPT !.ctr = m] \in Context
      BY <2>1, <2>2 DEF Context
    <3>2. harm' \subseteq Harms
      BY <1>1, <2>4, HarmFacts DEF TypeOK
    <3>. QED BY <1>1, <1>4, <2>1, <2>4, <3>1, <3>2 DEF TypeOK
  <2>5. ASSUME NEW m \in Counters, NEW r \in {c.rem, TRUE},
               Saves(p, [c EXCEPT !.rctr = m, !.rcnt = TRUE, !.rem = r]),
               harm' \subseteq harm \cup {"setBack"}
        PROVE  Inv'
    <3>1. [c EXCEPT !.rctr = m, !.rcnt = TRUE, !.rem = r] \in Context
      BY <2>1, <2>2 DEF Context
    <3>2. harm' \subseteq Harms
      BY <1>1, <2>5, HarmFacts DEF TypeOK
    <3>. QED BY <1>1, <1>4, <2>1, <2>5, <3>1, <3>2 DEF TypeOK
  <2>. QED BY <1>5, <2>3, <2>4, <2>5 DEF SetKeyInfoBody
<1>6. CASE GenerateKeyBody(p) /\ ~Ends(p)
  <2>1. CASE Dies(p) /\ UNCHANGED <<log, lastKey>>
    BY <1>1, <2>1, DiesInv DEF TypeOK
  <2>2. CASE /\ c # NoCtx /\ lastKey < MaxKeys /\ lastKey' = lastKey + 1
             /\ \/ Saves(p, [c EXCEPT !.key = lastKey + 1, !.ctr = 1])
                \/ Saves(p, [c EXCEPT !.tmp = lastKey + 1])
             /\ UNCHANGED harm
    <3>1. lastKey + 1 \in 0..MaxKeys /\ lastKey + 1 \in NoInfo..MaxKeys
      BY <1>1, <2>2, Constants DEF TypeOK, NoInfo
    <3>2. 1 \in 0..MaxSeq
      BY Constants
    <3>3. /\ [c EXCEPT !.key = lastKey + 1, !.ctr = 1] \in Context
          /\ [c EXCEPT !.tmp = lastKey + 1] \in Context
      BY <1>1, <2>2, <3>1, <3>2 DEF Context
    <3>. QED BY <1>1, <1>4, <1>6, <2>2, <3>1, <3>3 DEF GenerateKeyBody, TypeOK
  <2>. QED BY <1>6, <2>1, <2>2 DEF GenerateKeyBody
<1>7. CASE ActivateKeyBody(p) /\ ~Ends(p)
  <2>1. /\ c # NoCtx /\ c.tmp \in Keys
        /\ Saves(p, [c EXCEPT !.key = c.tmp, !.ctr = 1])
        /\ harm' \subseteq harm \cup {"again"} /\ UNCHANGED lastKey
    BY <1>7 DEF ActivateKeyBody
  <2>2. 1 \in 0..MaxSeq /\ c.tmp \in 0..MaxKeys
    BY <2>1, Constants DEF Keys
  <2>3. [c EXCEPT !.key = c.tmp, !.ctr = 1] \in Context
    BY <1>1, <2>1, <2>2 DEF Context
  <2>4. harm' \subseteq Harms
    BY <1>1, <2>1, HarmFacts DEF TypeOK
  <2>. QED BY <1>1, <1>4, <1>7, <2>1, <2>3, <2>4 DEF ActivateKeyBody, TypeOK
<1>8. CASE SignBody(p) /\ ~Ends(p)
  <2>1. c # NoCtx /\ c \in Context /\ c.key \in Keys /\ call[p].op = "sign"
    BY <1>1, <1>8, Constants DEF SignBody, Context, Keys
  <2>2. CASE \E m \in 0..MaxSeq : UsesFreed(p, m)
    BY <1>1, <2>1, <2>2, UsesFreedInv
  <2>3. CASE /\ c.ctr < MaxSeq /\ Changed(p, Counted(c))
             /\ WritesNext(p, c.ctr)
             /\ UNCHANGED <<lck, data, log, lastKey>>
    <3>1. c.ctr \in 0..MaxSeq /\ c.ctr + 1 \in 0..MaxSeq
      BY <2>1, <2>3, Constants DEF Context
    <3>2. Counted(c) \in Context /\ Counted(c).key = c.key
      BY <2>1, <3>1 DEF Counted, Context
    <3>3. /\ call' \in [Proc -> Call] /\ call'[p].pc = "lockW"
          /\ call'[p].op = call[p].op
          /\ \A q \in Proc \ {p} : call'[q] = call[q]
      BY <1>1, <2>3, <3>1, NumberCall
    <3>. HIDE DEF c
    <3>. QED BY <1>1, <2>1, <2>3, <3>2, <3>3, SavesInv DEF TypeOK, log
  <2>. QED BY <1>8, <2>2, <2>3 DEF SignBody
<1>9. ASSUME NEW n \in 1..MaxSeq, VerifyBody(p, n), ~Ends(p) PROVE Inv'
  <2>1. c # NoCtx /\ c \in Context /\ n \in 1..MaxSeq /\ call[p].op = "verify"
    BY <1>1, <1>9 DEF VerifyBody
  <2>2. n \in 0..MaxSeq
    BY <2>1, Constants
  <2>3. CASE UsesFreed(p, n)
    BY <1>1, <2>1, <2>2, <2>3, UsesFreedInv
  <2>4. CASE /\ Changed(p, [c EXCEPT !.rctr = n])
             /\ WritesNext(p, n)
             /\ UNCHANGED <<lck, data, log, lastKey>>
    <3>1. [c EXCEPT !.rctr = n] \in Context
      BY <2>1, <2>2 DEF Context
    <3>2. /\ call' \in [Proc -> Call] /\ call'[p].pc = "lockW"
          /\ call'[p].op = call[p].op /\ call'[p].num = n
          /\ \A q \in Proc \ {p} : call'[q] = call[q]
      BY <1>1, <2>2, <2>4, NumberCall
    <3>. QED BY <1>1, <2>1, <2>4, <3>1, <3>2, SavesInv DEF TypeOK, log
  <2>5. CASE /\ accepted' = accepted \cup {n}
             /\ harm' = harm \cup {"unchecked"}
                           \cup (IF n \in accepted THEN {"twice"} ELSE {})
             /\ End(p) /\ UNCHANGED <<tok, lck, data, given, lastKey>>
    <3>1. accepted' \subseteq 1..MaxSeq /\ harm' \subseteq Harms
      BY <1>1, <2>1, <2>5, HarmFacts DEF TypeOK
    <3>. QED BY <1>1, <2>5, <3>1, EndsInv DEF env
  <2>. QED BY <1>9, <2>3, <2>4, <2>5 DEF VerifyBody
<1>. QED BY <1>2, <1>3, <1>5, <1>6, <1>7, <1>8, <1>9 DEF Body

\* The holder of the lock, who has a context to write, empties the file.
LEMMA TruncateInv ==
  ASSUME Inv, NEW p \in Proc, Truncate(p)
  PROVE  Inv'
<1>. USE DEF Inv
<1>1. /\ call' \in [Proc -> Call] /\ call'[p].pc = "write"
      /\ call'[p].op = call[p].op
      /\ call'[p].num = call[p].num
      /\ \A q \in Proc \ {p} : call'[q] = call[q]
  BY MoveCall DEF Truncate, PCs
<1>2. LocalTo(p)
  BY <1>1 DEF Truncate, LocalTo, TypeOK
<1>3. CallInv(p)'
  <2>1. CallInv(p)
    BY DEF CallsInv
  <2>. QED BY <1>1, <2>1 DEF Truncate, At, Encodes, CallInv, WritePCs
<1>4. LockStep(p)
  BY <1>1 DEF Truncate, At, LockStep, LockedPCs
<1>5. FileStep(p)
  BY <1>1, Constants DEF Truncate, At, FileStep, LockReleased, LockedPCs
<1>6. TypeOK'
  BY <1>2 DEF Truncate, LocalTo, TypeOK, log, env
<1>. QED BY <1>2, <1>3, <1>4, <1>5, <1>6, LocalKeeps

\* A failed write damages the file.
LEMMA WriteFailsInv ==
  ASSUME Inv, NEW p \in Proc, WriteFails(p)
  PROVE  Inv'
<1>. USE DEF Inv
<1>1. /\ call' \in [Proc -> Call] /\ call'[p].pc = "unlockW"
      /\ call'[p].op = call[p].op
      /\ call'[p].num = call[p].num
      /\ \A q \in Proc \ {p} : call'[q] = call[q]
  BY MoveCall DEF WriteFails, PCs
<1>2. LocalTo(p) /\ events' \in 0..MaxEvents
  BY <1>1, EventCounts DEF WriteFails, Fault, LocalTo, TypeOK
<1>3. CallInv(p)'
  <2>1. CallInv(p)
    BY DEF CallsInv
  <2>. QED BY <1>1, <2>1 DEF WriteFails, At, CallInv, WritePCs
<1>4. LockStep(p) /\ FileStep(p)
  BY <1>1 DEF WriteFails, At, LockStep, FileStep, FileStays, LockedPCs
<1>5. TypeOK'
  BY <1>2 DEF WriteFails, LocalTo, TypeOK, log
<1>. QED BY <1>2, <1>3, <1>4, <1>5, LocalKeeps

\* Write is the one step that touches the others: what their tokens know of
\* the file, and that their calls were overtaken.
LEMMA WriteInv ==
  ASSUME Inv, NEW p \in Proc, Write(p)
  PROVE  Inv'
<1>. USE DEF Inv
<1>1. tok[p].cache \in Context /\ call[p].pc = "write"
  BY DEF Write, At, CallsInv, CallInv, TypeOK, Token
<1>2. file' \in Context
  <2>1. Encoded(tok[p].cache) \in Context
    BY <1>1, EncodedContext
  <2>. QED BY <1>1, <2>1, Constants DEF Write
<1>3. ASSUME NEW q \in Proc
      PROVE  /\ tok'[q] \in Token
             /\ tok'[q].open = tok[q].open /\ tok'[q].cache = tok[q].cache
  <2>1. tok[q] \in Token /\ tok'[q] = OthersMiss(p)[q]
    BY DEF TypeOK, Write
  <2>2. CASE q = p
    BY <2>1, <2>2 DEF OthersMiss, Token
  <2>3. CASE q # p /\ tok[q].cache = NoCtx
    BY <2>1, <2>3 DEF OthersMiss
  <2>4. CASE q # p /\ tok[q].cache # NoCtx
    <3>1. PICK w \in SUBSET {"race", "tick", "stat"} :
            tok'[q] = [tok[q] EXCEPT !.unseen = TRUE, !.why = w]
      <4>. DEFINE w == tok[q].why
               \cup (IF call[q].pc \in {"body", "lockW"} THEN {"race"} ELSE {})
               \cup (IF tok[q].mtime = clock THEN {"tick"} ELSE {})
      <4>1. w \in SUBSET {"race", "tick", "stat"}
        BY <2>1 DEF Token
      <4>2. tok'[q] = [tok[q] EXCEPT !.unseen = TRUE, !.why = w]
        BY <2>1, <2>4 DEF OthersMiss
      <4>. QED BY <4>1, <4>2
    <3>. QED BY <2>1, <3>1 DEF Token
  <2>. QED BY <2>2, <2>3, <2>4
<1>4. ASSUME NEW q \in Proc
      PROVE  /\ call'[q] \in Call
             /\ call'[q].pc = IF q = p THEN "unlockW" ELSE call[q].pc
             /\ call'[q].op = call[q].op
             /\ call'[q].num = call[q].num
  <2>1. "unlockW" \in PCs
    BY DEF PCs
  <2>. QED BY ZenonT(60), <2>1 DEF TypeOK, Call, Write
<1>5. CallsInv'
  <2>1. ASSUME NEW q \in Proc PROVE CallInv(q)'
    <3>1. CallInv(q)
      BY DEF CallsInv
    <3>. QED BY <1>1, <1>3, <1>4, <3>1 DEF CallInv, WritePCs
  <2>. QED BY <2>1 DEF CallsInv
<1>6. LockReleased'
  BY <1>1, <1>4 DEF Write, LockReleased, LockedPCs
<1>7. FileIntact' /\ FileStays'
  BY <1>2, Constants DEF FileIntact, FileStays
<1>8. TypeOK'
  <2>1. tok' \in [Proc -> Token] /\ call' \in [Proc -> Call]
    BY <1>3, <1>4 DEF Write, OthersMiss
  <2>2. harm' \subseteq Harms
    BY HarmFacts DEF Write, Losses, TypeOK
  <2>3. ftime' \in 1..MaxTime /\ clock' \in 2..MaxTime /\ lastKey' \in 0..MaxKeys
    BY Constants DEF Write, TypeOK, env
  <2>4. damaged' \in BOOLEAN /\ made' \in BOOLEAN /\ events' \in 0..MaxEvents
    BY DEF Write, TypeOK, env
  <2>5. /\ lck' \in Proc \cup {Free, Orphan}
        /\ given' \subseteq Keys \X (0..MaxSeq) /\ accepted' \subseteq 1..MaxSeq
    BY DEF Write, TypeOK
  <2>. QED BY <1>2, <2>1, <2>2, <2>3, <2>4, <2>5 DEF TypeOK
<1>. QED BY <1>5, <1>6, <1>7, <1>8

\* The steps of the environment.
LEMMA EnvironmentInv ==
  ASSUME Inv, RemoveOrphan \/ Tick \/ \E p \in Proc : Crash(p)
  PROVE  Inv'
<1>1. CASE RemoveOrphan
  <2>1. TypeOK' /\ CallsInv' /\ FileStays'
    BY <1>1 DEF RemoveOrphan, Inv, TypeOK, CallsInv, CallInv, FileStays,
                data, log, env
  <2>2. LockReleased' /\ FileIntact'
    BY <1>1, Constants DEF RemoveOrphan, Inv, LockReleased, FileIntact, At, data
  <2>. QED BY <2>1, <2>2 DEF Inv
<1>2. CASE Tick
  <2>1. TypeOK'
    BY <1>2, Constants DEF Tick, Inv, TypeOK, data, log
  <2>2. CallsInv' /\ FileStays' /\ LockReleased' /\ FileIntact'
    BY <1>2 DEF Tick, Inv, CallsInv, CallInv, FileStays, LockReleased, FileIntact,
                At, data
  <2>. QED BY <2>1, <2>2 DEF Inv
<1>3. ASSUME NEW p \in Proc, Crash(p) PROVE Inv'
  <2>1. Dies(p) /\ UNCHANGED <<log, clock, lastKey>> /\ Event
    BY <1>3 DEF Crash, Fault
  <2>2. lastKey' \in 0..MaxKeys /\ events' \in 0..MaxEvents
    BY <2>1, EventCounts DEF Inv, TypeOK
  <2>. QED BY <2>1, <2>2, DiesInv
<1>. QED BY <1>1, <1>2, <1>3

-----------------------------------------------------------------------------
(* The invariant and the theorems                                          *)

\* The initial states satisfy the invariant.
LEMMA InitInv == Init => Inv
<1>. SUFFICES ASSUME Init PROVE Inv
  OBVIOUS
<1>1. OldFile \in Context
  <2>1. Blank \in Context
    BY Constants DEF Blank, Context, NoInfo
  <2>2. 1 \in 0..MaxKeys /\ 1 \in NoInfo..MaxKeys
    BY Constants DEF NoInfo
  <2>3. [Blank EXCEPT !.key = 1, !.tmp = 1, !.rem = TRUE] \in Context
    BY <2>1, <2>2 DEF Context
  <2>. QED BY <2>3, EncodedContext DEF OldFile
<1>2. TypeOK
  <2>1. tok \in [Proc -> Token] /\ call \in [Proc -> Call]
    BY Defaults DEF Init
  <2>2. /\ ftime \in 1..MaxTime /\ clock \in 2..MaxTime
        /\ lastKey \in 0..MaxKeys /\ events \in 0..MaxEvents
    BY Constants DEF Init
  <2>3. /\ lck \in Proc \cup {Free, Orphan}
        /\ file \in Context \cup {Absent, Empty, Torn}
        /\ damaged \in BOOLEAN /\ made \in BOOLEAN
    BY <1>1 DEF Init
  <2>4. given = {} /\ accepted = {} /\ harm = {}
    BY DEF Init
  <2>. QED BY <2>1, <2>2, <2>3, <2>4 DEF TypeOK
<1>3. CallsInv /\ LockReleased
  BY Constants, Defaults DEF Init, CallsInv, CallInv, LockReleased, LockedPCs,
                              WritePCs
<1>4. FileIntact /\ FileStays
  BY <1>1, Constants DEF Init, FileIntact, FileStays
<1>. QED BY <1>2, <1>3, <1>4 DEF Inv

\* Every step keeps the invariant.
LEMMA NextInv == Inv /\ [Next]_vars => Inv'
<1>. SUFFICES ASSUME Inv, [Next]_vars PROVE Inv'
  OBVIOUS
<1>1. ASSUME NEW p \in Proc, Step(p) PROVE Inv'
  BY <1>1, CreateStatInv, CreateExclInv, ReloadIfNeededInv, OpenFileInv,
     FailuresInv, ReadInv, FailingInv, UnlockInv, StatFileInv, BodyInv,
     TruncateInv, WriteInv, WriteFailsInv DEF Step
<1>2. ASSUME NEW p \in Proc,
             \/ Open(p) \/ Create(p) \/ \E abandon \in BOOLEAN : Close(p, abandon)
      PROVE  Inv'
  BY <1>2, OpenInv, CreateInv, CloseInv
<1>3. ASSUME NEW p \in Proc,
             \/ Query(p) \/ SetContext(p) \/ SetKeyInfo(p) \/ ActivateKey(p)
             \/ Crypt(p) \/ Sign(p) \/ Verify(p) \/ GenerateKey(p)
      PROVE  Inv'
  BY <1>3, UseInv
     DEF Query, SetContext, SetKeyInfo, ActivateKey, Crypt, Sign, Verify,
         GenerateKey, Ops
<1>4. CASE UNCHANGED vars
  BY <1>4 DEF vars, data, log, env, Inv, TypeOK, CallsInv, CallInv, LockReleased,
              FileIntact, FileStays, At
<1>. QED BY <1>1, <1>2, <1>3, <1>4, EnvironmentInv DEF Next

\* The invariant holds in every reachable state.
LEMMA Invariance == Spec => []Inv
BY InitInv, NextInv, PTL DEF Spec

\* Whatever the processes, the faults and the bounds: the tokens, the calls and
\* the file keep their types; in particular no call of ctfile.c decrements
\* openCount below zero and no number leaves its range.
THEOREM TypeCorrect == Spec => []TypeOK
<1>1. Inv => TypeOK
  BY DEF Inv
<1>. QED BY <1>1, Invariance, PTL

\* No call of ctfile.c, whether it succeeds or fails, returns with the lock of
\* the key file, and none gives up a lock it does not have.
THEOREM LockTheorem == Spec => []LockReleased
<1>1. Inv => LockReleased
  BY DEF Inv
<1>. QED BY <1>1, Invariance, PTL

\* A key file that has had contents is only incomplete while the holder of its
\* lock writes it or after a fault in the middle of that.
THEOREM FileTheorem == Spec => []FileIntact
<1>1. Inv => FileIntact
  BY DEF Inv
<1>. QED BY <1>1, Invariance, PTL
=============================================================================
