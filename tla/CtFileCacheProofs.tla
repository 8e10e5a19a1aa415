------------------------- MODULE CtFileCacheProofs --------------------------
(***************************************************************************)
(* More about CtFile, on top of the invariant of CtFileProofs: what a      *)
(* token's cache has to do with the file, when an update may be lost, and  *)
(* when a call uses a context that is still there; and, built on that,     *)
(* that the signature numbers are used once.                               *)
(***************************************************************************)
EXTENDS CtFileProofs

SavePCs == {"lockW", "encode", "write"}
LoadPCs == {"reload", "lockR", "read", "unlockR", "statR", "body"}
ClosePCs == {"unlockR", "statR", "unlockW", "statW"}

\* A token notices a version of the file of the time f that it has not seen,
\* unless it had no chance to.
Noticed(t, f) == t.mtime <= f /\ (t.unseen /\ t.why = {} => t.mtime < f)

\* The cache is what the file holds, when the file is not being written.
InSync(t, f) ==
  t.cache # NoCtx /\ ~t.dirty /\ ~t.unseen => f = Torn \/ Encoded(t.cache) = f

\* The cache is from the file, or is the one the file was created with.
FromFile(p) ==
  \/ tok[p].open > 0 \/ call[p].op = "open"
  \/ call[p].op = "create" /\ call[p].ok /\ call[p].pc \in {"unlockW", "statW"}

TokenInv(p) ==
  /\ Noticed(tok[p], ftime)
  /\ tok[p].unseen => made
  /\ tok[p].open > 0 => made
  /\ FromFile(p) => InSync(tok[p], file)

\* A call that has compared the times only overwrites what was written
\* without its notice.
StepInv(p) ==
  /\ call[p].pc \in {"reload", "body"} => call[p].op # "open"
  /\ call[p].pc \in LoadPCs /\ call[p].op # "open" => tok[p].open > 0
  /\ call[p].pc \in ClosePCs /\ call[p].ok => made
  /\ call[p].pc = "write" => file = Torn
  /\ call[p].pc \in SavePCs \cup {"body"} /\ call[p].op # "close" =>
       (tok[p].unseen => tok[p].why # {})

\* Between the two looks at the times nothing changes, somebody writes the
\* file, or somebody has failed to: then the call fails.
LooksInv(p) ==
  call[p].op \in {"sign", "verify"} =>
    /\ call[p].pc = "body" => call[p].second /\ (call[p].ctx \/ call[p].raced)
    /\ call[p].second /\ call[p].pc = "reload" => call[p].ctx
    /\ call[p].second /\ ~call[p].raced =>
         /\ call[p].pc = "reload" => tok[p].mtime = ftime \/ file = Torn
         /\ call[p].pc \in {"lockR", "read"} => file = Torn
         /\ call[p].pc \in {"unlockR", "statR"} => ~call[p].ok

OwnInv(p) == TokenInv(p) /\ StepInv(p) /\ LooksInv(p)

CacheInv ==
  /\ ftime <= clock
  /\ file \in Context => made /\ Encoded(file) = file
  /\ "silent" \notin harm
  /\ \A p \in Proc : OwnInv(p)

-----------------------------------------------------------------------------
(* Steps of one process                                                    *)

\* The step leaves the file alone, truncates it, or creates it.
DataStep ==
  /\ clock' = clock /\ made' = made
  /\ harm' \subseteq harm \cup {"twice", "freed", "again", "setBack", "unchecked"}
  /\ \/ file' = file /\ ftime' = ftime
     \/ ftime' = clock /\ (file' = Torn \/ (file = Absent /\ file' = Empty))

\* Where tok[p] and the fields of its records are from.
LEMMA Typed ==
  ASSUME Inv, NEW p \in Proc
  PROVE  /\ tok[p] \in Token /\ call[p] \in Call /\ CallInv(p)
         /\ tok[p].mtime \in 0..MaxTime /\ tok[p].open \in 0..MaxOpen
         /\ tok[p].cache \in Context \cup {NoCtx}
         /\ tok[p].unseen \in BOOLEAN /\ tok[p].dirty \in BOOLEAN
         /\ tok[p].why \subseteq {"race", "tick", "stat"}
         /\ ftime \in 1..MaxTime /\ clock \in 2..MaxTime
         /\ ftime \in Int /\ clock \in Int /\ tok[p].mtime \in Int
         /\ MaxTime \in Nat
BY Constants DEF Inv, TypeOK, CallsInv, Token

\* What the next reader makes of a context is one, and stays as it is.
LEMMA EncodedType ==
  ASSUME NEW c \in Context
  PROVE  /\ Encoded(c) \in Context /\ Encoded(Encoded(c)) = Encoded(c)
         /\ Encoded(c).key = c.key
         /\ Encoded(c).tmp = c.tmp \/ Encoded(c).tmp = 0
         /\ c.key # 0 => c.ctr <= Encoded(c).ctr
         /\ Encoded(c).rem = c.rem
         /\ c.rem => Encoded(c).rctr = c.rctr
<1>1. PICK t : t = IF c.tmp = NoInfo THEN 0 ELSE c.tmp
  OBVIOUS
<1>2. PICK n : n = IF c.key = 0 THEN 0 ELSE IF c.ctr = 0 THEN 1 ELSE c.ctr
  OBVIOUS
<1>3. PICK r : r = IF c.rem THEN c.rctr ELSE 0
  OBVIOUS
<1>4. PICK e : e = [key |-> c.key, ctr |-> n, tmp |-> t, rem |-> c.rem,
                    rcnt |-> c.rem, rctr |-> r, note |-> c.note]
  OBVIOUS
<1>5. Encoded(c) = e
  <2>1. Encoded(c) = [c EXCEPT !.tmp = t, !.ctr = n, !.rcnt = c.rem, !.rctr = r]
    BY <1>1, <1>2, <1>3 DEF Encoded, Context
  <2>. QED BY <1>4, <2>1 DEF Context
<1>6. Encoded(e) = e
  <2>1. t # NoInfo /\ (c.key = 0 => n = 0) /\ (c.key # 0 => n # 0)
    BY <1>1, <1>2, Constants DEF NoInfo
  <2>2. ~c.rem => r = 0
    BY <1>3
  <2>3. Encoded(e) = [e EXCEPT !.tmp = t, !.ctr = n, !.rcnt = c.rem, !.rctr = r]
    BY <1>4, <2>1, <2>2 DEF Encoded
  <2>. QED BY <1>4, <2>3
<1>7. c.key # 0 => c.ctr <= n
  BY <1>2, Constants DEF Context
<1>. QED BY <1>1, <1>3, <1>4, <1>5, <1>6, <1>7, EncodedContext

\* So is the key file from earlier.
LEMMA OldFileType == OldFile \in Context /\ Encoded(OldFile) = OldFile
<1>1. [Blank EXCEPT !.key = 1, !.tmp = 1, !.rem = TRUE] \in Context
  <2>1. Blank \in Context
    BY Constants DEF Blank, Context, NoInfo
  <2>2. 1 \in 0..MaxKeys /\ 1 \in NoInfo..MaxKeys
    BY Constants DEF NoInfo
  <2>. QED BY <2>1, <2>2 DEF Context
<1>. QED BY <1>1, EncodedType DEF OldFile

\* A step of one process keeps what the others know.
LEMMA OthersKeep ==
  ASSUME Inv, Inv', CacheInv, NEW p \in Proc, LocalTo(p), DataStep, OwnInv(p)'
  PROVE  CacheInv'
<1>1. ASSUME NEW q \in Proc, q # p PROVE OwnInv(q)'
  <2>1. tok'[q] = tok[q] /\ call'[q] = call[q] /\ OwnInv(q)
    BY <1>1 DEF LocalTo, CacheInv
  <2>2. ftime <= ftime' /\ ftime <= clock
    BY Typed DEF DataStep, CacheInv
  <2>3. TokenInv(q)'
    <3>1. Noticed(tok'[q], ftime')
      BY <2>1, <2>2, Typed DEF OwnInv, TokenInv, Noticed, DataStep
    <3>2. FromFile(q)' => InSync(tok'[q], file')
      <4>1. FromFile(q)' => FromFile(q)
        BY <2>1 DEF FromFile
      <4>2. InSync(tok[q], file) => InSync(tok[q], file')
        <5>1. tok[q].cache # NoCtx => Encoded(tok[q].cache) \in Context
          BY Typed, EncodedType
        <5>. QED BY <5>1, Constants DEF InSync, DataStep
      <4>. QED BY <2>1, <4>1, <4>2 DEF OwnInv, TokenInv
    <3>. QED BY <2>1, <3>1, <3>2 DEF OwnInv, TokenInv, DataStep
  <2>4. StepInv(q)'
    <3>1. call[q].pc = "write" => file' = Torn
      BY <2>1, Constants DEF OwnInv, StepInv, DataStep
    <3>. QED BY <2>1, <3>1 DEF OwnInv, StepInv, DataStep
  <2>5. LooksInv(q)'
    <3>1. file = Torn => file' = Torn
      BY Constants DEF DataStep
    <3>2. call[q].pc = "reload" => ftime' = ftime \/ file' = Torn
      BY <2>1 DEF OwnInv, StepInv, TokenInv, LoadPCs, DataStep, Inv, FileStays
    <3>. QED BY <2>1, <3>1, <3>2 DEF OwnInv, LooksInv
  <2>. QED BY <2>3, <2>4, <2>5 DEF OwnInv
<1>2. ftime' <= clock'
  BY Typed DEF DataStep, CacheInv
<1>3. file' \in Context => made' /\ Encoded(file') = file'
  BY Constants DEF CacheInv, DataStep
<1>4. "silent" \notin harm'
  BY DEF CacheInv, DataStep
<1>. QED BY <1>1, <1>2, <1>3, <1>4 DEF CacheInv

\* What a token must fulfil while its process is idle.
GoodToken(t) ==
  /\ Noticed(t, ftime) /\ (t.unseen => made)
  /\ t.open > 0 => made /\ InSync(t, file)

\* A process that is idle after a step.
LEMMA IdleOwn ==
  ASSUME Inv, Inv', CacheInv, NEW p \in Proc, NEW t, tok'[p] = t, GoodToken(t),
         call'[p].pc = "idle", call'[p].op = "none",
         UNCHANGED <<file, ftime, made>>
  PROVE  OwnInv(p)'
<1>1. TokenInv(p)'
  BY DEF TokenInv, GoodToken, FromFile
<1>2. StepInv(p)' /\ LooksInv(p)'
  BY DEF StepInv, LooksInv, SavePCs, LoadPCs, ClosePCs, TwoReloads
<1>. QED BY <1>1, <1>2 DEF OwnInv

\* The token as it is fulfils it, with any openCount once it is open.
LEMMA SameGood ==
  ASSUME Inv, CacheInv, NEW p \in Proc
  PROVE  GoodToken(tok[p])
BY DEF CacheInv, OwnInv, TokenInv, GoodToken, FromFile

\* A token without a context.
LEMMA EmptyGood ==
  ASSUME Inv, CacheInv, NEW t \in Token, t.cache = NoCtx, ~t.unseen,
         t.mtime <= ftime, t.open > 0 => made
  PROVE  GoodToken(t)
BY DEF GoodToken, Noticed, InSync

\* A token that has been forgotten, whatever its openCount.
LEMMA FreshToken ==
  ASSUME Inv, NEW o \in 0..MaxOpen
  PROVE  /\ [Fresh EXCEPT !.open = o] \in Token
         /\ [Fresh EXCEPT !.open = o].open = o
         /\ [Fresh EXCEPT !.open = o].cache = NoCtx
         /\ ~[Fresh EXCEPT !.open = o].unseen
         /\ [Fresh EXCEPT !.open = o].mtime <= ftime
<1>1. Fresh \in Token /\ Fresh.cache = NoCtx /\ ~Fresh.unseen /\ Fresh.mtime = 0
  BY Defaults DEF Fresh
<1>2. 0 <= ftime
  BY Constants DEF Inv, TypeOK
<1>. QED BY <1>1, <1>2 DEF Token

\* Fresh itself is such a token.
LEMMA FreshGood ==
  ASSUME Inv, CacheInv
  PROVE  GoodToken(Fresh)
<1>1. /\ Fresh \in Token /\ Fresh.cache = NoCtx /\ ~Fresh.unseen
      /\ Fresh.mtime = 0 /\ Fresh.open = 0
  BY Defaults DEF Fresh
<1>2. 0 <= ftime
  BY Constants DEF Inv, TypeOK
<1>. QED BY <1>1, <1>2, EmptyGood

\* A cleared list.
LEMMA ClearedToken ==
  ASSUME NEW t \in Token
  PROVE  /\ Cleared(t) \in Token /\ Cleared(t).cache = NoCtx
         /\ ~Cleared(t).unseen /\ Cleared(t).mtime = t.mtime
         /\ Cleared(t).open = t.open
BY DEF Cleared, Token

\* The times are those of the file, and what was missed is known as such.
LEMMA TimedFields ==
  ASSUME Inv, NEW p \in Proc
  PROVE  /\ Timed(p) \in Token /\ Timed(p).open = tok[p].open
         /\ Timed(p).cache = tok[p].cache /\ Timed(p).mtime = ftime
         /\ Timed(p).unseen = tok[p].unseen /\ Timed(p).dirty = tok[p].dirty
         /\ Timed(p).unseen => Timed(p).why # {}
<1>. DEFINE w == IF tok[p].unseen THEN tok[p].why \cup {"stat"} ELSE tok[p].why
<1>1. Timed(p) = [tok[p] EXCEPT !.mtime = ftime, !.why = w] /\ tok[p] \in Token
  BY Typed DEF Timed, Token
<1>2. tok[p].unseen => w # {}
  OBVIOUS
<1>. HIDE DEF w
<1>3. /\ Timed(p).mtime = ftime /\ Timed(p).why = w
      /\ Timed(p).unseen = tok[p].unseen /\ Timed(p).dirty = tok[p].dirty
  BY <1>1 DEF Token
<1>. QED BY <1>2, <1>3, TimedToken DEF Inv

\* Looking at the times keeps a token in order.
LEMMA TimedGood ==
  ASSUME Inv, CacheInv, NEW p \in Proc
  PROVE  GoodToken(Timed(p))
<1>1. GoodToken(tok[p])
  BY SameGood
<1>. QED BY <1>1, TimedFields, Typed DEF GoodToken, Noticed, InSync

-----------------------------------------------------------------------------
(* What the ways to change a call do to all of its fields                  *)

\* A call that goes on.
LEMMA MoveFields ==
  ASSUME Inv, NEW p \in Proc, NEW l \in PCs, Goto(p, l) \/ Failing(p, l)
  PROVE  /\ call'[p].pc = l /\ call'[p].op = call[p].op
         /\ call'[p].num = call[p].num
         /\ call'[p].second = call[p].second /\ call'[p].ctx = call[p].ctx
         /\ call'[p].raced = call[p].raced
         /\ Goto(p, l) => call'[p].ok = call[p].ok
         /\ Failing(p, l) => ~call'[p].ok
         /\ \A q \in Proc \ {p} : call'[q] = call[q]
BY DEF Inv, TypeOK, Goto, Failing, Call

\* A call that begins.
LEMMA BeginFields ==
  ASSUME Inv, NEW p \in Proc, NEW o \in Ops, NEW l \in PCs, Begin(p, o, l)
  PROVE  /\ call[p].pc = "idle" /\ call'[p].pc = l /\ call'[p].op = o
         /\ ~call'[p].second
         /\ \A q \in Proc \ {p} : call'[q] = call[q]
<1>. DEFINE c == [NoCall EXCEPT !.pc = l, !.op = o]
<1>0. ~NoCall.second
  BY DEF NoCall
<1>1. c \in Call /\ c.pc = l /\ c.op = o /\ c.second = NoCall.second
  BY Defaults DEF Call
<1>2. call' = [call EXCEPT ![p] = c] /\ call[p].pc = "idle"
  BY DEF Begin, At
<1>. HIDE DEF c
<1>. QED BY <1>0, <1>1, <1>2 DEF Inv, TypeOK

\* A call that goes on with WriteFile.
LEMMA WritesFields ==
  ASSUME Inv, NEW p \in Proc, NEW n, WritesNext(p, n)
  PROVE  /\ call'[p].pc = "lockW" /\ call'[p].op = call[p].op
         /\ call'[p].num = n
         /\ \A q \in Proc \ {p} : call'[q] = call[q]
<1>. DEFINE c == [NoCall EXCEPT !.pc = "lockW", !.op = call[p].op, !.num = n]
<1>1. c.pc = "lockW" /\ c.op = call[p].op /\ c.num = n
  BY DEF NoCall
<1>2. call' = [call EXCEPT ![p] = c]
  BY DEF WritesNext
<1>. HIDE DEF c
<1>. QED BY <1>1, <1>2 DEF Inv, TypeOK

-----------------------------------------------------------------------------
(* The actions                                                             *)

\* A step after which the process is idle.
LEMMA IdleStep ==
  ASSUME Inv, Inv', CacheInv, NEW p \in Proc, LocalTo(p), NEW t \in Token,
         tok'[p] = t, GoodToken(t), call'[p].pc = "idle", call'[p].op = "none",
         UNCHANGED <<file, ftime, made, clock>>,
         harm' \subseteq harm \cup {"twice", "freed", "again", "setBack", "unchecked"}
  PROVE  CacheInv'
<1>1. OwnInv(p)'
  BY IdleOwn
<1>. QED BY <1>1, OthersKeep DEF DataStep

\* A call that fails ends, and Close forgets the token.
LEMMA FailedCache ==
  ASSUME Inv, Inv', CacheInv, NEW p \in Proc, NEW t \in Token, Failed(p, t),
         GoodToken(t), t.open = tok[p].open,
         UNCHANGED <<file, ftime, made, clock, harm>>
  PROVE  CacheInv'
<1>1. LocalTo(p) /\ call'[p].pc = "idle" /\ call'[p].op = "none"
  BY FailCall, Defaults DEF Inv
<1>2. CASE call[p].op = "close"
  <2>1. tok'[p] = [Fresh EXCEPT !.open = tok[p].open]
    BY <1>2 DEF Failed, Inv, TypeOK
  <2>2. tok[p].open > 0 => made
    BY DEF CacheInv, OwnInv, TokenInv
  <2>3. /\ [Fresh EXCEPT !.open = tok[p].open] \in Token
        /\ GoodToken([Fresh EXCEPT !.open = tok[p].open])
    BY <2>2, FreshToken, EmptyGood, Typed
  <2>. QED BY <1>1, <2>1, <2>3, IdleStep
<1>3. CASE call[p].op # "close"
  <2>1. tok'[p] = t
    BY <1>3 DEF Failed, Inv, TypeOK
  <2>. QED BY <1>1, <2>1, IdleStep
<1>. QED BY <1>2, <1>3

\* The failures that end a call at once.
LEMMA FailuresCache ==
  ASSUME Inv, Inv', CacheInv, NEW p \in Proc,
         OpenFileFails(p) \/ NoFile(p) \/ CloseFails(p) \/ StatFails(p)
  PROVE  CacheInv'
<1>1. Failed(p, tok[p]) /\ UNCHANGED <<file, ftime, made, clock, harm>>
  BY DEF OpenFileFails, NoFile, CloseFails, StatFails, data, log, env
<1>. QED BY <1>1, SameGood, Typed, FailedCache

\* The process dies.
LEMMA DiesCache ==
  ASSUME Inv, Inv', CacheInv, NEW p \in Proc, Dies(p), UNCHANGED <<clock, harm>>
  PROVE  CacheInv'
<1>1. LocalTo(p) /\ call'[p].pc = "idle" /\ call'[p].op = "none"
  BY EndCall, Defaults DEF Dies, LocalTo, Inv, TypeOK
<1>2. tok'[p] = Fresh
  BY DEF Dies, Inv, TypeOK
<1>. QED BY <1>1, <1>2, FreshGood, Defaults, IdleStep DEF Dies

\* Opening and closing, up to the first look at the file.
LEMMA OpenCache ==
  ASSUME Inv, Inv', CacheInv, NEW p \in Proc, Open(p)
  PROVE  CacheInv'
<1>0. /\ UNCHANGED <<file, ftime, made, clock, harm>> /\ call[p].pc = "idle"
      /\ call[p].op = "none"
  BY Typed DEF Open, data, log, At, CallInv
<1>1. CASE /\ tok[p].open \in 1..(MaxOpen - 1) /\ UNCHANGED call
           /\ tok' = [tok EXCEPT ![p].open = @ + 1]
  <2>. DEFINE t == [tok[p] EXCEPT !.open = @ + 1]
  <2>1. /\ t \in Token /\ tok[p].open > 0 /\ tok'[p] = t
        /\ LocalTo(p)
    BY <1>1, Constants DEF Inv, TypeOK, LocalTo, Token
  <2>2. /\ t.cache = tok[p].cache /\ t.mtime = tok[p].mtime /\ t.why = tok[p].why
        /\ t.unseen = tok[p].unseen /\ t.dirty = tok[p].dirty
    BY Typed DEF Token
  <2>. HIDE DEF t
  <2>3. GoodToken(t)
    BY <2>1, <2>2, SameGood DEF GoodToken, Noticed, InSync
  <2>. QED BY <1>0, <1>1, <2>1, <2>3, IdleStep
<1>2. CASE Begin(p, "open", "lockR") /\ tok' = [tok EXCEPT ![p] = Cleared(@)]
  <2>1. /\ call'[p].pc = "lockR" /\ call'[p].op = "open"
        /\ \A q \in Proc \ {p} : call'[q] = call[q]
    BY <1>2, BeginFields DEF Ops, PCs
  <2>2. tok'[p] = Cleared(tok[p]) /\ \A q \in Proc \ {p} : tok'[q] = tok[q]
    BY <1>2 DEF Inv, TypeOK
  <2>3. LocalTo(p)
    BY <2>1, <2>2 DEF LocalTo, Inv, TypeOK
  <2>4. TokenInv(p)'
    <3>1. GoodToken(tok[p])
      BY SameGood
    <3>. QED BY <1>0, <2>2, <3>1, ClearedToken, Typed
             DEF TokenInv, GoodToken, Noticed, InSync
  <2>5. StepInv(p)' /\ LooksInv(p)'
    BY <2>1 DEF StepInv, LooksInv, TwoReloads, ClosePCs, SavePCs
  <2>6. DataStep
    BY <1>0 DEF DataStep
  <2>. QED BY <2>3, <2>4, <2>5, <2>6, OthersKeep DEF OwnInv
<1>. QED BY <1>1, <1>2 DEF Open

\* Closing lowers openCount, forgets the token, or begins to write.
LEMMA CloseCache ==
  ASSUME Inv, Inv', CacheInv, NEW p \in Proc, NEW abandon \in BOOLEAN,
         Close(p, abandon)
  PROVE  CacheInv'
<1>0. /\ UNCHANGED <<file, ftime, made, clock, harm>> /\ call[p].pc = "idle"
      /\ call[p].op = "none" /\ tok[p].open > 0
  BY Typed DEF Close, data, log, At, CallInv
<1>1. CASE UNCHANGED call /\ tok' = [tok EXCEPT ![p].open = @ - 1]
  <2>. DEFINE t == [tok[p] EXCEPT !.open = @ - 1]
  <2>1. t \in Token /\ tok'[p] = t /\ LocalTo(p)
    BY <1>0, <1>1, Constants DEF Inv, TypeOK, LocalTo, Token
  <2>2. /\ t.cache = tok[p].cache /\ t.mtime = tok[p].mtime /\ t.why = tok[p].why
        /\ t.unseen = tok[p].unseen /\ t.dirty = tok[p].dirty
    BY Typed DEF Token
  <2>. HIDE DEF t
  <2>3. GoodToken(t)
    BY <1>0, <2>1, <2>2, SameGood DEF GoodToken, Noticed, InSync
  <2>. QED BY <1>0, <1>1, <2>1, <2>3, IdleStep
<1>2. CASE UNCHANGED call /\ tok' = [tok EXCEPT ![p] = Fresh]
  <2>1. tok'[p] = Fresh /\ LocalTo(p) /\ Fresh \in Token
    BY <1>2, Defaults DEF Inv, TypeOK, LocalTo
  <2>. QED BY <1>0, <1>2, <2>1, FreshGood, IdleStep
<1>3. CASE Begin(p, "close", "lockW") /\ UNCHANGED tok
  <2>1. /\ call'[p].pc = "lockW" /\ call'[p].op = "close"
        /\ \A q \in Proc \ {p} : call'[q] = call[q]
    BY <1>3, BeginFields DEF Ops, PCs
  <2>2. LocalTo(p)
    BY <1>3, <2>1 DEF LocalTo, Inv, TypeOK
  <2>3. TokenInv(p)'
    BY <1>0, <1>3, <2>1, SameGood
    DEF TokenInv, GoodToken, FromFile
  <2>4. StepInv(p)' /\ LooksInv(p)'
    BY <2>1 DEF StepInv, LooksInv, TwoReloads, ClosePCs, SavePCs, LoadPCs
  <2>5. DataStep
    BY <1>0 DEF DataStep
  <2>. QED BY <2>2, <2>3, <2>4, <2>5, OthersKeep DEF OwnInv
<1>. QED BY <1>1, <1>2, <1>3 DEF Close

\* Create adds its context to the list of a token that is not open.
LEMMA CreateCache ==
  ASSUME Inv, Inv', CacheInv, NEW p \in Proc, Create(p)
  PROVE  CacheInv'
<1>1. UNCHANGED <<file, ftime, made, clock, harm>> /\ tok[p].open = 0
  BY DEF Create, data, log
<1>2. /\ call'[p].pc = "stat" /\ call'[p].op = "create"
      /\ \A q \in Proc \ {p} : call'[q] = call[q]
  BY BeginFields DEF Create, Ops, PCs
<1>3. /\ tok'[p].open = 0 /\ tok'[p].mtime = tok[p].mtime
      /\ tok'[p].why = tok[p].why /\ tok'[p].unseen = tok[p].unseen
      /\ \A q \in Proc \ {p} : tok'[q] = tok[q]
  BY <1>1 DEF Create, Inv, TypeOK, Token
<1>4. LocalTo(p)
  BY <1>2, <1>3 DEF LocalTo, Inv, TypeOK
<1>5. TokenInv(p)'
  BY <1>1, <1>2, <1>3, SameGood DEF TokenInv, GoodToken, Noticed, FromFile
<1>6. StepInv(p)' /\ LooksInv(p)'
  BY <1>2 DEF StepInv, LooksInv, TwoReloads, ClosePCs, SavePCs, LoadPCs
<1>7. DataStep
  BY <1>1 DEF DataStep
<1>. QED BY <1>4, <1>5, <1>6, <1>7, OthersKeep DEF OwnInv

\* The calls that begin with ReloadIfNeeded.
LEMMA UseCache ==
  ASSUME Inv, Inv', CacheInv, NEW p \in Proc,
         NEW o \in Ops \ {"none", "open", "create", "close"}, Use(p, o)
  PROVE  CacheInv'
<1>1. UNCHANGED <<tok, file, ftime, made, clock, harm>> /\ tok[p].open > 0
  BY DEF Use, data, log
<1>2. /\ call'[p].pc = "reload" /\ call'[p].op = o /\ ~call'[p].second
      /\ \A q \in Proc \ {p} : call'[q] = call[q]
  BY BeginFields DEF Use, PCs
<1>3. LocalTo(p)
  BY <1>1, <1>2 DEF LocalTo, Inv, TypeOK
<1>4. TokenInv(p)'
  BY <1>1, SameGood DEF TokenInv, GoodToken
<1>5. StepInv(p)' /\ LooksInv(p)'
  BY <1>1, <1>2 DEF StepInv, LooksInv, ClosePCs, SavePCs, LoadPCs
<1>6. DataStep
  BY <1>1 DEF DataStep
<1>. QED BY <1>3, <1>4, <1>5, <1>6, OthersKeep DEF OwnInv

\* Create looks for the file.
LEMMA CreateStatCache ==
  ASSUME Inv, Inv', CacheInv, NEW p \in Proc, CreateStat(p)
  PROVE  CacheInv'
<1>1. /\ UNCHANGED <<tok, file, ftime, made, clock, harm>> /\ call[p].pc = "stat"
      /\ call[p].op = "create"
  BY Typed DEF CreateStat, At, CallInv, data, log, env
<1>2. CASE Goto(p, "excl")
  <2>1. /\ call'[p].pc = "excl" /\ call'[p].op = "create"
        /\ \A q \in Proc \ {p} : call'[q] = call[q]
    BY <1>1, <1>2, MoveFields DEF PCs
  <2>2. LocalTo(p)
    BY <1>1, <2>1 DEF LocalTo, Inv, TypeOK
  <2>3. OwnInv(p)'
    BY <1>1, <2>1, SameGood DEF OwnInv, TokenInv, GoodToken, FromFile, StepInv,
       LooksInv, ClosePCs, SavePCs, LoadPCs, TwoReloads
  <2>. QED BY <1>1, <2>2, <2>3, OthersKeep DEF DataStep
<1>3. CASE End(p)
  <2>1. LocalTo(p) /\ call'[p].pc = "idle" /\ call'[p].op = "none"
    BY <1>1, <1>3, EndCall, Defaults DEF LocalTo, Inv, TypeOK
  <2>. QED BY <1>1, <2>1, SameGood, Typed, IdleStep
<1>. QED BY <1>2, <1>3 DEF CreateStat

\* Create makes a file only when there has been none: nobody has written.
LEMMA CreateExclCache ==
  ASSUME Inv, Inv', CacheInv, NEW p \in Proc, CreateExcl(p)
  PROVE  CacheInv'
<1>1. /\ UNCHANGED <<tok, made, clock, harm>> /\ call[p].pc = "excl"
      /\ call[p].op = "create"
  BY Typed DEF CreateExcl, At, CallInv, data, log, env
<1>2. CASE file = Absent /\ file' = Empty /\ ftime' = clock /\ Goto(p, "lockW")
  <2>1. /\ call'[p].pc = "lockW" /\ call'[p].op = "create"
        /\ \A q \in Proc \ {p} : call'[q] = call[q]
    BY <1>1, <1>2, MoveFields DEF PCs
  <2>2. LocalTo(p)
    BY <1>1, <2>1 DEF LocalTo, Inv, TypeOK
  <2>3. ~made /\ ftime <= clock /\ GoodToken(tok[p])
    BY <1>2, SameGood DEF Inv, FileStays, CacheInv
  <2>4. TokenInv(p)'
    BY <1>1, <1>2, <2>1, <2>3, Typed
    DEF TokenInv, GoodToken, Noticed, FromFile
  <2>5. StepInv(p)' /\ LooksInv(p)'
    BY <1>1, <2>1, <2>3 DEF GoodToken, StepInv, LooksInv, ClosePCs, LoadPCs,
                            TwoReloads
  <2>. QED BY <1>1, <1>2, <2>2, <2>4, <2>5, OthersKeep DEF DataStep, OwnInv
<1>3. CASE End(p) /\ UNCHANGED <<file, ftime>>
  <2>1. LocalTo(p) /\ call'[p].pc = "idle" /\ call'[p].op = "none"
    BY <1>1, <1>3, EndCall, Defaults DEF LocalTo, Inv, TypeOK
  <2>. QED BY <1>1, <1>3, <2>1, SameGood, Typed, IdleStep
<1>. QED BY <1>2, <1>3 DEF CreateExcl

\* The list is up to date, t is what has become of the token.
LEMMA LoadedCache ==
  ASSUME Inv, Inv', CacheInv, NEW p \in Proc, NEW t \in Token, Loaded(p, t),
         GoodToken(t), t.open = tok[p].open, t.mtime = ftime,
         t.unseen => t.why # {}, FromFile(p) => InSync(t, file),
         \/ call[p].pc = "reload"
         \/ call[p].pc = "statR" /\ call[p].ok,
         UNCHANGED <<file, ftime, made, clock, harm>>
  PROVE  CacheInv'
<1>1. OwnInv(p) /\ call[p] \in Call
  BY Typed DEF CacheInv
<1>2. CASE /\ call[p].op = "open" /\ End(p)
           /\ tok' = [tok EXCEPT ![p] = [t EXCEPT !.open = 1]]
  <2>. DEFINE u == [t EXCEPT !.open = 1]
  <2>1. /\ u \in Token /\ u.cache = t.cache /\ u.mtime = t.mtime /\ u.why = t.why
        /\ u.unseen = t.unseen /\ u.dirty = t.dirty
    BY Constants DEF Token
  <2>2. tok'[p] = u /\ LocalTo(p) /\ call'[p].pc = "idle" /\ call'[p].op = "none"
    BY <1>2, <2>1, EndCall, Defaults DEF LocalTo, Inv, TypeOK
  <2>. HIDE DEF u
  <2>3. made
    BY <1>1, <1>2 DEF OwnInv, StepInv, ClosePCs
  <2>4. GoodToken(u)
    BY <1>2, <2>1, <2>3 DEF GoodToken, Noticed, InSync, FromFile
  <2>. QED BY <2>1, <2>2, <2>4, IdleStep
<1>3. CASE End(p) /\ tok' = [tok EXCEPT ![p] = t]
  <2>1. tok'[p] = t /\ LocalTo(p) /\ call'[p].pc = "idle" /\ call'[p].op = "none"
    BY <1>3, EndCall, Defaults DEF LocalTo, Inv, TypeOK
  <2>. QED BY <2>1, IdleStep
<1>4. CASE /\ call[p].op # "open" /\ tok' = [tok EXCEPT ![p] = t]
           /\ \/ /\ Goto(p, "body")
                 /\ call[p].op \in TwoReloads => call[p].second
              \/ call' = [call EXCEPT ![p].pc = "reload", ![p].second = TRUE,
                                      ![p].ctx = TRUE]
  <2>1. /\ call' \in [Proc -> Call] /\ call'[p].op = call[p].op
        /\ \A q \in Proc \ {p} : call'[q] = call[q]
        /\ \/ /\ call'[p].pc = "body" /\ call'[p].ctx = call[p].ctx
              /\ call'[p].second = call[p].second
              /\ call'[p].raced = call[p].raced
              /\ call[p].op \in TwoReloads => call[p].second
           \/ call'[p].pc = "reload" /\ call'[p].ctx
    BY <1>4 DEF Goto, Inv, TypeOK, Call, PCs
  <2>2. tok'[p] = t /\ LocalTo(p)
    BY <1>4, <2>1 DEF LocalTo, Inv, TypeOK
  <2>3. tok[p].open > 0 /\ made
    BY <1>1, <1>4 DEF OwnInv, StepInv, TokenInv, LoadPCs
  <2>4. TokenInv(p)'
    BY <2>2, <2>3 DEF TokenInv, GoodToken
  <2>5. StepInv(p)'
    BY <1>4, <2>1, <2>2, <2>3 DEF StepInv, ClosePCs, SavePCs
  <2>6. LooksInv(p)'
    <3>1. CASE call'[p].pc = "reload"
      BY <2>1, <2>2, <3>1 DEF LooksInv
    <3>2. CASE call'[p].pc = "body"
      BY <1>1, <2>1, <3>2 DEF OwnInv, LooksInv, TwoReloads
    <3>. QED BY <2>1, <3>1, <3>2
  <2>. QED BY <2>2, <2>4, <2>5, <2>6, OthersKeep DEF DataStep, OwnInv
<1>. QED BY <1>2, <1>3, <1>4 DEF Loaded, TwoReloads

\* A call that compares the times, and clears the list when they differ.
LEMMA ReloadIfNeededCache ==
  ASSUME Inv, Inv', CacheInv, NEW p \in Proc, ReloadIfNeeded(p)
  PROVE  CacheInv'
<1>1. /\ UNCHANGED <<file, ftime, made, clock, harm>> /\ call[p].pc = "reload"
      /\ OwnInv(p)
  BY DEF ReloadIfNeeded, At, data, log, env, CacheInv
<1>2. CASE ~FileChanged(p) /\ Loaded(p, tok[p])
  <2>1. tok[p].mtime = ftime
    BY <1>2 DEF FileChanged
  <2>2. tok[p].unseen => tok[p].why # {}
    BY <1>1, <2>1, Typed DEF OwnInv, TokenInv, Noticed
  <2>3. FromFile(p) => InSync(tok[p], file)
    BY <1>1 DEF OwnInv, TokenInv
  <2>. QED BY <1>1, <1>2, <2>1, <2>2, <2>3, SameGood, Typed, LoadedCache
<1>3. CASE /\ FileChanged(p) /\ tok' = [tok EXCEPT ![p] = Cleared(@)]
           /\ call' = [call EXCEPT ![p].pc = "lockR", ![p].ctx = FALSE]
  <2>1. /\ call'[p].pc = "lockR" /\ call'[p].op = call[p].op
        /\ call'[p].second = call[p].second /\ call'[p].raced = call[p].raced
        /\ \A q \in Proc \ {p} : call'[q] = call[q]
    BY <1>3 DEF Inv, TypeOK, Call
  <2>2. tok'[p] = Cleared(tok[p]) /\ \A q \in Proc \ {p} : tok'[q] = tok[q]
    BY <1>3 DEF Inv, TypeOK
  <2>3. LocalTo(p)
    BY <2>1, <2>2 DEF LocalTo, Inv, TypeOK
  <2>4. TokenInv(p)'
    BY <1>1, <2>2, ClearedToken, Typed
    DEF OwnInv, TokenInv, Noticed, InSync
  <2>5. StepInv(p)'
    BY <1>1, <2>1, <2>2, ClearedToken, Typed
    DEF OwnInv, StepInv, ClosePCs, SavePCs, LoadPCs
  <2>6. LooksInv(p)'
    BY <1>1, <1>3, <2>1 DEF OwnInv, LooksInv, FileChanged
  <2>. QED BY <1>1, <2>3, <2>4, <2>5, <2>6, OthersKeep DEF DataStep, OwnInv
<1>. QED BY <1>2, <1>3 DEF ReloadIfNeeded

\* A call goes on with the token and the file as they are.
LEMMA MoveCache ==
  ASSUME Inv, Inv', CacheInv, NEW p \in Proc, NEW l \in PCs,
         Goto(p, l) \/ Failing(p, l),
         UNCHANGED <<tok, file, ftime, made, clock, harm>>,
         \/ call[p].pc = "lockR" /\ l = "read"
         \/ call[p].pc = "lockW" /\ l = "encode"
         \/ call[p].pc = "read" /\ l = "unlockR" /\ Failing(p, l)
         \/ call[p].pc \in {"encode", "write"} /\ l = "unlockW" /\ Failing(p, l)
         \/ call[p].pc = "unlockR" /\ l = "statR" /\ Goto(p, l)
         \/ call[p].pc = "unlockW" /\ l = "statW" /\ Goto(p, l)
  PROVE  CacheInv'
<1>1. /\ call'[p].pc = l /\ call'[p].op = call[p].op
      /\ call'[p].second = call[p].second /\ call'[p].ctx = call[p].ctx
      /\ call'[p].raced = call[p].raced
      /\ Goto(p, l) => call'[p].ok = call[p].ok
      /\ Failing(p, l) => ~call'[p].ok
      /\ \A q \in Proc \ {p} : call'[q] = call[q]
  BY MoveFields
<1>2. LocalTo(p) /\ OwnInv(p)
  BY <1>1 DEF LocalTo, Inv, TypeOK, CacheInv
<1>3. TokenInv(p)'
  BY <1>1, <1>2 DEF OwnInv, TokenInv, FromFile
<1>4. StepInv(p)'
  BY <1>1, <1>2 DEF OwnInv, StepInv, LoadPCs, ClosePCs, SavePCs
<1>5. LooksInv(p)'
  BY <1>1, <1>2 DEF OwnInv, LooksInv
<1>. QED BY <1>2, <1>3, <1>4, <1>5, OthersKeep DEF DataStep, OwnInv

\* The steps that take the lock, give it up, or fail under it.
LEMMA LockedCache ==
  ASSUME Inv, Inv', CacheInv, NEW p \in Proc,
         \/ OpenFile(p) \/ Unlock(p)
         \/ ReadFails(p) \/ EncodeFails(p) \/ WriteFails(p)
  PROVE  CacheInv'
<1>1. {"read", "encode", "unlockR", "unlockW", "statR", "statW"} \subseteq PCs
  BY DEF PCs
<1>2. UNCHANGED <<tok, file, ftime, made, clock, harm>>
  BY DEF OpenFile, Unlock, ReadFails, EncodeFails, WriteFails, data, log, env
<1>3. CASE OpenFile(p)
  BY <1>1, <1>2, <1>3, MoveCache DEF OpenFile, At
<1>4. CASE Unlock(p)
  BY <1>1, <1>2, <1>4, MoveCache DEF Unlock, At
<1>5. CASE ReadFails(p)
  BY <1>1, <1>2, <1>5, MoveCache DEF ReadFails, At
<1>6. CASE EncodeFails(p) \/ WriteFails(p)
  BY <1>1, <1>2, <1>6, MoveCache DEF EncodeFails, WriteFails, At
<1>. QED BY <1>3, <1>4, <1>5, <1>6

\* Reading puts into the cache what the file holds.
LEMMA ReadCache ==
  ASSUME Inv, Inv', CacheInv, NEW p \in Proc, Read(p)
  PROVE  CacheInv'
<1>1. /\ UNCHANGED <<file, ftime, made, clock, harm>> /\ call[p].pc = "read"
      /\ file \in Context /\ OwnInv(p)
  BY DEF Read, At, data, log, env, CacheInv
<1>2. /\ call'[p].pc = "unlockR" /\ call'[p].op = call[p].op
      /\ call'[p].second = call[p].second /\ call'[p].raced = call[p].raced
      /\ \A q \in Proc \ {p} : call'[q] = call[q]
  BY MoveFields DEF Read, PCs
<1>3. /\ tok'[p].open = tok[p].open /\ tok'[p].mtime = tok[p].mtime
      /\ tok'[p].why = tok[p].why /\ tok'[p].unseen = tok[p].unseen
      /\ tok'[p].dirty = tok[p].dirty
      /\ tok'[p].cache = IF tok[p].cache = NoCtx THEN file ELSE tok[p].cache
      /\ \A q \in Proc \ {p} : tok'[q] = tok[q]
  BY DEF Read, Inv, TypeOK, Token
<1>4. LocalTo(p) /\ made
  BY <1>1, <1>2, <1>3 DEF LocalTo, Inv, TypeOK, CacheInv
<1>5. TokenInv(p)'
  <2>1. Encoded(file) = file
    BY <1>1 DEF CacheInv
  <2>2. FromFile(p)' => InSync(tok'[p], file)
    BY <1>1, <1>2, <1>3, <2>1 DEF OwnInv, TokenInv, FromFile, InSync
  <2>. QED BY <1>1, <1>3, <2>2 DEF OwnInv, TokenInv, Noticed
<1>6. StepInv(p)'
  BY <1>1, <1>2, <1>3, <1>4 DEF OwnInv, StepInv, LoadPCs, ClosePCs, SavePCs
<1>7. LooksInv(p)'
  BY <1>1, <1>2, Constants DEF OwnInv, LooksInv
<1>. QED BY <1>1, <1>4, <1>5, <1>6, <1>7, OthersKeep DEF DataStep, OwnInv

\* WriteFile has succeeded.
LEMMA FinishCache ==
  ASSUME Inv, Inv', CacheInv, NEW p \in Proc, call[p].pc = "statW", call[p].ok,
         Finish(p), UNCHANGED <<lck, data, env>>
  PROVE  CacheInv'
<1>1. UNCHANGED <<file, ftime, made, clock>> /\ OwnInv(p) /\ made
  BY DEF data, env, CacheInv, OwnInv, StepInv, ClosePCs
<1>2. /\ call'[p].pc = "idle" /\ call'[p].op = "none"
      /\ \A q \in Proc \ {p} : call'[q] = call[q]
      /\ harm' \subseteq harm \cup {"twice", "freed", "again", "setBack", "unchecked"}
  BY EndCall, Defaults DEF Finish, Inv
<1>3. \A q \in Proc \ {p} : tok'[q] = tok[q]
  BY DEF Finish, Inv, TypeOK
<1>4. LocalTo(p)
  BY <1>2, <1>3 DEF LocalTo, Inv, TypeOK
<1>5. CASE call[p].op = "close"
  <2>1. tok[p].open - 1 \in 0..MaxOpen
    BY <1>5, Typed, Constants DEF CallInv
  <2>2. tok'[p] = [Fresh EXCEPT !.open = tok[p].open - 1]
    BY <1>5, TimedFields DEF Finish, Inv, TypeOK
  <2>3. /\ [Fresh EXCEPT !.open = tok[p].open - 1] \in Token
        /\ GoodToken([Fresh EXCEPT !.open = tok[p].open - 1])
    BY <1>1, <2>1, FreshToken, EmptyGood
  <2>. QED BY <1>1, <1>2, <1>4, <2>2, <2>3, IdleStep
<1>6. CASE call[p].op = "create"
  <2>. DEFINE u == [Timed(p) EXCEPT !.open = 1]
  <2>1. tok'[p] = u
    BY <1>6 DEF Finish, Inv, TypeOK
  <2>2. /\ u \in Token /\ u.cache = tok[p].cache /\ u.mtime = ftime
        /\ u.why = Timed(p).why
        /\ u.unseen = tok[p].unseen /\ u.dirty = tok[p].dirty
    BY TimedFields, Constants DEF Token
  <2>. HIDE DEF u
  <2>3. InSync(tok[p], file)
    BY <1>1, <1>6 DEF OwnInv, TokenInv, FromFile
  <2>4. GoodToken(u)
    BY <1>1, <2>2, <2>3, TimedFields, Typed DEF GoodToken, Noticed, InSync
  <2>. QED BY <1>1, <1>2, <1>4, <2>1, <2>2, <2>4, IdleStep
<1>7. CASE call[p].op \notin {"close", "create"}
  <2>1. tok'[p] = Timed(p)
    BY <1>7 DEF Finish, Inv, TypeOK
  <2>. QED BY <1>1, <1>2, <1>4, <2>1, TimedFields, TimedGood, IdleStep
<1>. QED BY <1>5, <1>6, <1>7

\* What follows the taking of the times.
LEMMA StatFileCache ==
  ASSUME Inv, Inv', CacheInv, NEW p \in Proc, StatFile(p)
  PROVE  CacheInv'
<1>1. UNCHANGED <<file, ftime, made, clock>> /\ OwnInv(p)
  BY DEF StatFile, data, env, CacheInv
<1>2. CASE Failed(p, Timed(p)) /\ UNCHANGED log
  BY <1>1, <1>2, TimedFields, TimedGood, FailedCache DEF log
<1>3. CASE /\ call[p].pc = "statR" /\ call[p].ok /\ Loaded(p, Timed(p))
           /\ UNCHANGED log
  <2>1. FromFile(p) => InSync(Timed(p), file)
    BY <1>1, TimedFields DEF OwnInv, TokenInv, InSync
  <2>2. Timed(p) \in Token /\ Timed(p).open = tok[p].open
        /\ Timed(p).mtime = ftime /\ (Timed(p).unseen => Timed(p).why # {})
    BY TimedFields
  <2>. QED BY <1>1, <1>3, <2>1, <2>2, TimedGood, LoadedCache DEF log
<1>4. CASE call[p].pc = "statW" /\ call[p].ok /\ Finish(p)
  BY <1>4, FinishCache DEF StatFile
<1>. QED BY <1>2, <1>3, <1>4 DEF StatFile, At

\* All a call does with the list: nothing, a change, or its end by the death
\* of the process; it goes on with WriteFile or ends.
BodyStep(p) ==
  /\ UNCHANGED <<file, ftime, made, clock>>
  /\ harm' \subseteq harm \cup {"twice", "freed", "again", "setBack", "unchecked"}
  /\ tok' = tok \/ (\E c : Changed(p, c)) \/ (Dies(p) /\ harm' = harm)
  /\ End(p) \/ \E n : WritesNext(p, n)

\* Every call fits this.
LEMMA BodyCases ==
  ASSUME NEW p \in Proc, Body(p)
  PROVE  BodyStep(p) /\ call[p].pc = "body"
<1>1. call[p].pc = "body" /\ UNCHANGED clock
  BY DEF Body, At
<1>2. ASSUME Ends(p) PROVE BodyStep(p)
  BY <1>1, <1>2 DEF BodyStep, Ends, data, log
<1>3. ASSUME Dies(p), UNCHANGED <<log, lastKey>> PROVE BodyStep(p)
  BY <1>1, <1>3 DEF BodyStep, Dies, log
<1>4. ASSUME NEW n, UsesFreed(p, n) PROVE BodyStep(p)
  BY <1>1, <1>3, <1>4 DEF BodyStep, UsesFreed, data
<1>5. CASE SetContextBody(p)
  BY <1>1, <1>2, <1>5 DEF SetContextBody, BodyStep, data, log
<1>6. CASE SetKeyInfoBody(p)
  <2>1. \/ Ends(p)
        \/ /\ \E d : Saves(p, d)
           /\ harm' = harm \/ harm' = harm \cup {"setBack"}
    BY <1>6 DEF SetKeyInfoBody
  <2>. QED BY <1>1, <1>2, <2>1 DEF BodyStep, Saves, data
<1>7. CASE GenerateKeyBody(p)
  <2>1. PICK d : d = [tok[p].cache EXCEPT !.key = lastKey + 1, !.ctr = 1]
    OBVIOUS
  <2>2. PICK e : e = [tok[p].cache EXCEPT !.tmp = lastKey + 1]
    OBVIOUS
  <2>3. \/ Ends(p)
        \/ Dies(p) /\ UNCHANGED <<log, lastKey>>
        \/ (Saves(p, d) \/ Saves(p, e)) /\ harm' = harm
    BY <1>7, <2>1, <2>2 DEF GenerateKeyBody, Saves, Changed
  <2>. QED BY <1>1, <1>2, <1>3, <2>3 DEF BodyStep, Saves, data
<1>8. CASE ActivateKeyBody(p)
  <2>1. PICK d :
          d = [tok[p].cache EXCEPT !.key = tok[p].cache.tmp, !.ctr = 1]
    OBVIOUS
  <2>2. \/ Ends(p)
        \/ /\ Saves(p, d)
           /\ harm' = harm \/ harm' = harm \cup {"again"}
    BY <1>8, <2>1 DEF ActivateKeyBody, Saves, Changed
  <2>. QED BY <1>1, <1>2, <2>2 DEF BodyStep, Saves, data
<1>9. CASE SignBody(p)
  BY <1>1, <1>2, <1>4, <1>9 DEF SignBody, BodyStep, data, log
<1>10. ASSUME NEW n \in 1..MaxSeq, VerifyBody(p, n) PROVE BodyStep(p)
  BY <1>1, <1>2, <1>4, <1>10 DEF VerifyBody, BodyStep, data, log
<1>. QED BY <1>1, <1>2, <1>5, <1>6, <1>7, <1>8, <1>9, <1>10 DEF Body

\* A change of the cache by its own token, which is open.
LEMMA ChangedFields ==
  ASSUME Inv, NEW p \in Proc, NEW c, Changed(p, c)
  PROVE  /\ tok'[p].open = tok[p].open /\ tok'[p].mtime = tok[p].mtime
         /\ tok'[p].why = tok[p].why /\ tok'[p].unseen = tok[p].unseen
         /\ tok'[p].dirty /\ tok'[p].cache = c
         /\ \A q \in Proc \ {p} : tok'[q] = tok[q]
BY DEF Changed, Inv, TypeOK, Token

\* What the calls do with the list.
LEMMA BodyCache ==
  ASSUME Inv, Inv', CacheInv, NEW p \in Proc, Body(p)
  PROVE  CacheInv'
<1>1. BodyStep(p) /\ call[p].pc = "body" /\ OwnInv(p)
  BY BodyCases DEF CacheInv
<1>2. CASE Dies(p) /\ harm' = harm
  BY <1>1, <1>2, DiesCache DEF BodyStep
<1>3. CASE tok' = tok \/ \E c : Changed(p, c)
  <2>1. /\ tok'[p].open = tok[p].open /\ tok'[p].mtime = tok[p].mtime
        /\ tok'[p].why = tok[p].why /\ tok'[p].unseen = tok[p].unseen
        /\ tok'[p] = tok[p] \/ tok'[p].dirty
        /\ \A q \in Proc \ {p} : tok'[q] = tok[q]
    BY <1>3, ChangedFields
  <2>2. tok'[p] \in Token /\ GoodToken(tok'[p])
    <3>1. GoodToken(tok[p])
      BY SameGood
    <3>2. tok'[p] \in Token
      BY DEF Inv, TypeOK
    <3>. QED BY <2>1, <3>1, <3>2 DEF GoodToken, Noticed, InSync
  <2>3. CASE End(p)
    <3>1. LocalTo(p) /\ call'[p].pc = "idle" /\ call'[p].op = "none"
      BY <2>1, <2>3, EndCall, Defaults DEF LocalTo, Inv, TypeOK
    <3>. QED BY <1>1, <2>2, <3>1, IdleStep DEF BodyStep
  <2>4. CASE \E n : WritesNext(p, n)
    <3>1. /\ call'[p].pc = "lockW" /\ call'[p].op = call[p].op
          /\ \A q \in Proc \ {p} : call'[q] = call[q]
      BY <2>4, WritesFields
    <3>2. LocalTo(p)
      BY <2>1, <3>1 DEF LocalTo, Inv, TypeOK
    <3>3. tok[p].open > 0
      BY <1>1 DEF OwnInv, StepInv, LoadPCs
    <3>4. TokenInv(p)'
      BY <1>1, <2>1, <2>2, <3>3 DEF BodyStep, TokenInv, GoodToken
    <3>5. StepInv(p)'
      BY <1>1, <2>1, <3>1 DEF OwnInv, StepInv, SavePCs, LoadPCs, ClosePCs
    <3>6. LooksInv(p)'
      BY <3>1 DEF LooksInv
    <3>. QED BY <1>1, <3>2, <3>4, <3>5, <3>6, OthersKeep
         DEF DataStep, BodyStep, OwnInv
  <2>. QED BY <1>1, <2>3, <2>4 DEF BodyStep
<1>. QED BY <1>1, <1>2, <1>3 DEF BodyStep

\* Truncating the file is noticed, or ends in a failure.
LEMMA TruncateCache ==
  ASSUME Inv, Inv', CacheInv, NEW p \in Proc, Truncate(p)
  PROVE  CacheInv'
<1>1. /\ UNCHANGED <<tok, made, clock, harm>> /\ call[p].pc = "encode"
      /\ file' = Torn /\ ftime' = clock /\ OwnInv(p) /\ ftime <= clock
  BY DEF Truncate, At, data, log, env, CacheInv
<1>2. /\ call'[p].pc = "write" /\ call'[p].op = call[p].op
      /\ \A q \in Proc \ {p} : call'[q] = call[q]
  BY MoveFields DEF Truncate, PCs
<1>3. LocalTo(p)
  BY <1>1, <1>2 DEF LocalTo, Inv, TypeOK
<1>4. TokenInv(p)'
  BY <1>1, Typed DEF OwnInv, TokenInv, Noticed, InSync
<1>5. StepInv(p)'
  BY <1>1, <1>2 DEF OwnInv, StepInv, SavePCs, LoadPCs, ClosePCs
<1>6. LooksInv(p)'
  BY <1>2 DEF LooksInv
<1>. QED BY <1>1, <1>3, <1>4, <1>5, <1>6, OthersKeep DEF DataStep, OwnInv

\* What a write does to the token and the call of the writer ...
LEMMA WriterFields ==
  ASSUME Inv, NEW p \in Proc, Write(p)
  PROVE  /\ tok'[p].open = tok[p].open /\ tok'[p].mtime = tok[p].mtime
         /\ tok'[p].cache = tok[p].cache
         /\ ~tok'[p].unseen /\ ~tok'[p].dirty
         /\ call'[p].pc = "unlockW" /\ call'[p].op = call[p].op
         /\ call'[p].num = call[p].num /\ call'[p].ok = call[p].ok
<1>1. tok'[p] = [tok[p] EXCEPT !.dirty = FALSE, !.unseen = FALSE, !.why = {}]
  BY DEF Write, OthersMiss
<1>2. call'[p] = [call[p] EXCEPT !.pc = "unlockW"]
  BY DEF Write
<1>3. tok[p] \in Token /\ call[p] \in Call
  BY Typed
<1>. QED BY <1>1, <1>2, <1>3 DEF Token, Call

\* ... and to those of the others.
LEMMA OtherFields ==
  ASSUME Inv, NEW p \in Proc, Write(p), NEW q \in Proc, q # p
  PROVE  /\ tok'[q].open = tok[q].open /\ tok'[q].mtime = tok[q].mtime
         /\ tok'[q].cache = tok[q].cache
         /\ tok[q].cache = NoCtx => tok'[q] = tok[q]
         /\ tok[q].cache # NoCtx => tok'[q].unseen
         /\ tok[q].why \subseteq tok'[q].why
         /\ tok[q].cache # NoCtx /\ tok[q].mtime = clock => tok'[q].why # {}
         /\ tok[q].cache # NoCtx /\ call[q].pc \in {"body", "lockW"} =>
              tok'[q].why # {}
         /\ call'[q].pc = call[q].pc /\ call'[q].op = call[q].op
         /\ call'[q].num = call[q].num /\ call'[q].ok = call[q].ok
         /\ call'[q].second = call[q].second /\ call'[q].ctx = call[q].ctx
         /\ call[q].raced \/ NeedsContext(q) => call'[q].raced
<1>1. tok[q] \in Token /\ call[q] \in Call
  BY Typed
<1>2. call'[q] = [call[q] EXCEPT !.raced = @ \/ NeedsContext(q)]
  BY DEF Write
<1>3. CASE tok[q].cache = NoCtx
  <2>1. tok'[q] = tok[q]
    BY <1>3 DEF Write, OthersMiss
  <2>. QED BY <1>1, <1>2, <1>3, <2>1 DEF Call
<1>4. CASE tok[q].cache # NoCtx
  <2>. DEFINE w == tok[q].why
               \cup (IF call[q].pc \in {"body", "lockW"} THEN {"race"} ELSE {})
               \cup (IF tok[q].mtime = clock THEN {"tick"} ELSE {})
  <2>1. tok'[q] = [tok[q] EXCEPT !.unseen = TRUE, !.why = w]
    BY <1>1, <1>4 DEF Write, OthersMiss, Token
  <2>2. /\ tok[q].why \subseteq w
        /\ call[q].pc \in {"body", "lockW"} => w # {}
        /\ tok[q].mtime = clock => w # {}
    OBVIOUS
  <2>. HIDE DEF w
  <2>3. /\ tok'[q].open = tok[q].open /\ tok'[q].mtime = tok[q].mtime
        /\ tok'[q].cache = tok[q].cache /\ tok'[q].unseen /\ tok'[q].why = w
    BY <1>1, <2>1 DEF Token
  <2>4. /\ call'[q].pc = call[q].pc /\ call'[q].op = call[q].op
        /\ call'[q].num = call[q].num /\ call'[q].ok = call[q].ok
        /\ call'[q].second = call[q].second /\ call'[q].ctx = call[q].ctx
        /\ call[q].raced \/ NeedsContext(q) => call'[q].raced
    BY <1>1, <1>2 DEF Call
  <2>. QED BY <1>4, <2>2, <2>3, <2>4
<1>. QED BY <1>3, <1>4

\* Writing makes the cache of the writer the contents of the file; the others
\* notice by the times, or had no chance to.
LEMMA WriteCache ==
  ASSUME Inv, Inv', CacheInv, NEW p \in Proc, Write(p)
  PROVE  CacheInv'
<1>1. /\ call[p].pc = "write" /\ tok[p].cache \in Context /\ OwnInv(p)
      /\ lck = p
  BY Typed DEF Write, At, CallInv, CacheInv, Inv, LockReleased, LockedPCs
<1>2. /\ file' = Encoded(tok[p].cache) /\ ftime' = clock /\ clock' = clock
      /\ made' /\ ftime <= clock
  BY <1>1, Constants DEF Write, env, CacheInv, Inv, TypeOK
<1>3. OwnInv(p)'
  <2>1. TokenInv(p)'
    BY <1>1, <1>2, WriterFields, Typed DEF OwnInv, TokenInv, Noticed, InSync
  <2>2. StepInv(p)' /\ LooksInv(p)'
    BY <1>2, WriterFields DEF StepInv, LooksInv, SavePCs, LoadPCs
  <2>. QED BY <2>1, <2>2 DEF OwnInv
<1>4. ASSUME NEW q \in Proc, q # p PROVE OwnInv(q)'
  <2>1. OwnInv(q) /\ call[q].pc \notin {"encode", "write"}
    BY <1>1, <1>4 DEF CacheInv, Inv, LockReleased, LockedPCs
  <2>2. TokenInv(q)'
    <3>1. Noticed(tok'[q], clock)
      <4>1. CASE tok[q].cache = NoCtx
        BY <1>2, <1>4, <2>1, <4>1, OtherFields, Typed
        DEF OwnInv, TokenInv, Noticed
      <4>2. CASE tok[q].cache # NoCtx
        BY <1>2, <1>4, <2>1, <4>2, OtherFields, Typed
        DEF OwnInv, TokenInv, Noticed
      <4>. QED BY <4>1, <4>2
    <3>2. InSync(tok'[q], file')
      BY <1>4, OtherFields DEF InSync
    <3>. QED BY <1>2, <3>1, <3>2 DEF TokenInv
  <2>3. StepInv(q)'
    <3>1. call[q].pc \in SavePCs \cup {"body"} /\ call[q].op # "close" =>
            (tok'[q].unseen => tok'[q].why # {})
      <4>1. CASE tok[q].cache = NoCtx
        BY <1>4, <2>1, <4>1, OtherFields DEF OwnInv, StepInv
      <4>2. CASE tok[q].cache # NoCtx
        BY <1>4, <2>1, <4>2, OtherFields DEF SavePCs
      <4>. QED BY <4>1, <4>2
    <3>. QED BY <1>2, <1>4, <2>1, <3>1, OtherFields DEF OwnInv, StepInv
  <2>4. LooksInv(q)'
    BY <1>4, <2>1, OtherFields
       DEF OwnInv, LooksInv, NeedsContext, WritePCs
  <2>. QED BY <2>2, <2>3, <2>4 DEF OwnInv
<1>5. file' \in Context => made' /\ Encoded(file') = file'
  BY <1>1, <1>2, EncodedType
<1>6. "silent" \notin harm'
  <2>1. "silent" \notin Losses(p)
    BY <1>1 DEF Losses, OwnInv, StepInv, SavePCs
  <2>. QED BY <2>1 DEF Write, CacheInv
<1>7. ftime' <= clock'
  BY <1>2, Typed
<1>. QED BY <1>3, <1>4, <1>5, <1>6, <1>7 DEF CacheInv

\* The environment.
LEMMA EnvironmentCache ==
  ASSUME Inv, Inv', CacheInv, RemoveOrphan \/ Tick \/ UNCHANGED vars
  PROVE  CacheInv'
<1>1. UNCHANGED <<tok, call, file, ftime, made, harm>>
  BY DEF RemoveOrphan, Tick, vars, data, log
<1>2. ftime' <= clock'
  <2>1. ftime \in Int /\ clock \in Int /\ ftime <= clock
    BY Constants DEF CacheInv, Inv, TypeOK
  <2>2. clock' = clock \/ clock' = clock + 1
    BY DEF RemoveOrphan, Tick, vars, env
  <2>. QED BY <1>1, <2>1, <2>2
<1>3. ASSUME NEW p \in Proc PROVE OwnInv(p)'
  BY <1>1 DEF CacheInv, OwnInv, TokenInv, FromFile, StepInv, LooksInv
<1>. QED BY <1>1, <1>2, <1>3 DEF CacheInv

\* The initial states.
LEMMA InitCache == Init => CacheInv
<1>. SUFFICES ASSUME Init PROVE CacheInv
  OBVIOUS
<1>1. \A p \in Proc : tok[p] = Fresh /\ call[p] = NoCall
  BY DEF Init
<1>2. file \in Context => made /\ Encoded(file) = file
  <2>1. OldFile \in Context /\ Encoded(OldFile) = OldFile
    BY OldFileType
  <2>. QED BY <2>1, Constants DEF Init
<1>3. /\ Fresh.cache = NoCtx /\ ~Fresh.unseen /\ Fresh.mtime = 0
      /\ Fresh.open = 0
  BY DEF Fresh
<1>4. ASSUME NEW p \in Proc PROVE OwnInv(p)
  <2>1. TokenInv(p)
    BY <1>1, <1>3 DEF Init, TokenInv, Noticed, InSync
  <2>2. StepInv(p) /\ LooksInv(p)
    BY <1>1, <1>3, Defaults DEF StepInv, LooksInv, SavePCs, LoadPCs, ClosePCs,
                                TwoReloads
  <2>. QED BY <2>1, <2>2 DEF OwnInv
<1>. QED BY <1>2, <1>4 DEF Init, CacheInv

\* Every step keeps the invariant.
LEMMA NextCache == Inv /\ Inv' /\ CacheInv /\ [Next]_vars => CacheInv'
<1>. SUFFICES ASSUME Inv, Inv', CacheInv, [Next]_vars PROVE CacheInv'
  OBVIOUS
<1>1. ASSUME NEW p \in Proc, Step(p) PROVE CacheInv'
  BY <1>1, CreateStatCache, CreateExclCache, ReloadIfNeededCache, LockedCache,
     FailuresCache, ReadCache, StatFileCache, BodyCache, TruncateCache,
     WriteCache DEF Step
<1>2. ASSUME NEW p \in Proc,
             \/ Open(p) \/ Create(p) \/ \E abandon \in BOOLEAN : Close(p, abandon)
      PROVE  CacheInv'
  BY <1>2, OpenCache, CreateCache, CloseCache
<1>3. ASSUME NEW p \in Proc,
             \/ Query(p) \/ SetContext(p) \/ SetKeyInfo(p) \/ ActivateKey(p)
             \/ Crypt(p) \/ Sign(p) \/ Verify(p) \/ GenerateKey(p)
      PROVE  CacheInv'
  BY <1>3, UseCache
     DEF Query, SetContext, SetKeyInfo, ActivateKey, Crypt, Sign, Verify,
         GenerateKey, Ops
<1>4. ASSUME NEW p \in Proc, Crash(p) PROVE CacheInv'
  BY <1>4, DiesCache DEF Crash, log
<1>. QED BY <1>1, <1>2, <1>3, <1>4, EnvironmentCache DEF Next

\* The invariant holds in every reachable state.
LEMMA CacheInvariance == Spec => []CacheInv
BY InitCache, NextCache, Invariance, PTL DEF Spec

\* Apart from Close, no token overwrites an update of another process that it
\* could have noticed by comparing the times.
THEOREM SilentTheorem == Spec => []NoSilentLoss
<1>1. CacheInv => NoSilentLoss
  BY DEF CacheInv, NoSilentLoss
<1>. QED BY <1>1, CacheInvariance, PTL

\* Sign and Verify only use a context that was freed when another process has
\* written the file during the call: when it was only truncated, the second
\* reload fails.
THEOREM ContextTheorem == Spec => []ContextLive
<1>1. CacheInv => ContextLive
  BY DEF CacheInv, OwnInv, LooksInv, ContextLive, At, TwoReloads
<1>. QED BY <1>1, CacheInvariance, PTL

\* Between calls, the cache of an open token is what the file holds, but for
\* own changes not written and updates it had no chance to notice.
THEOREM CacheTheorem == Spec => []CacheCurrent
<1>1. Inv /\ CacheInv => CacheCurrent
  <2>1. SUFFICES ASSUME Inv, CacheInv, NEW p \in Proc, tok[p].open > 0,
                        tok[p].cache # NoCtx, tok[p].mtime = ftime,
                        ~tok[p].dirty, tok[p].why = {}, ~damaged, lck = Free
                 PROVE  Encoded(tok[p].cache) = file
    BY DEF CacheCurrent
  <2>2. OwnInv(p) /\ made
    BY <2>1 DEF CacheInv, OwnInv, TokenInv
  <2>3. ~tok[p].unseen
    BY <2>1, <2>2, Typed DEF OwnInv, TokenInv, Noticed
  <2>4. file \in Context
    BY <2>1, <2>2, Constants DEF Inv, FileIntact
  <2>. QED BY <2>1, <2>2, <2>3, <2>4, Constants
       DEF OwnInv, TokenInv, FromFile, InSync
<1>. QED BY <1>1, Invariance, CacheInvariance, PTL

-----------------------------------------------------------------------------
(* The numbers: as long as nothing has happened that can make one come     *)
(* twice (Causes), no number of a key is returned twice and no remote      *)
(* number is accepted twice.  A number counts from the moment it is in the *)
(* file, that is before Sign or Verify have returned it.                   *)

\* The numbers of the key k, and the remote numbers, that are used up.
Issued(k, n) ==
  \/ <<k, n>> \in given
  \/ \E p \in Proc : Signed(p) /\ tok[p].cache.key = k /\ call[p].num = n
Taken(n) ==
  n \in accepted \/ \E p \in Proc : Verified(p) /\ call[p].num = n

\* The counters of c are past all of them.  Without a remote key, whose counter
\* a writer would drop, no remote number is used up.
Fits(c) ==
  /\ \A n \in 0..MaxSeq : Issued(c.key, n) => n < c.ctr
  /\ \A n \in 0..MaxSeq : Taken(n) => c.rem /\ n <= c.rctr

\* The keys of c have been generated.
Known(c) == c.key <= lastKey /\ c.tmp <= lastKey

\* The list of p is from the file, or will be what the file is created with.
InUse(p) ==
  \/ tok[p].open > 0 \/ call[p].op = "open"
  \/ call[p].op = "create" /\ call[p].pc \notin {"stat", "excl"}

\* A generated key is new: nobody knows it, no number of it was given.
KeysInv ==
  /\ file \in Context => Known(file)
  /\ \A p \in Proc : tok[p].cache # NoCtx => Known(tok[p].cache)
  /\ \A p \in Proc : call[p].pc \in WritePCs => InUse(p)
  /\ \A k \in Keys, n \in 0..MaxSeq : Issued(k, n) => k <= lastKey /\ made
  /\ \A n \in 0..MaxSeq : Taken(n) => made

\* A token that has seen all updates has counters that are past all numbers
\* used up, ...
Sees(p) ==
  InUse(p) /\ tok[p].cache # NoCtx /\ ~tok[p].unseen => Fits(tok[p].cache)

\* ... and the number it is about to save is past them as well ...
Due(p) ==
  call[p].pc \in SavePCs /\ tok[p].cache # NoCtx /\ ~tok[p].unseen =>
    /\ call[p].op = "sign" =>
         /\ call[p].num < tok[p].cache.ctr
         /\ \A n \in 0..MaxSeq : Issued(tok[p].cache.key, n) => n < call[p].num
    /\ call[p].op = "verify" =>
         /\ tok[p].cache.rem /\ call[p].num <= tok[p].cache.rctr
         /\ \A n \in 0..MaxSeq : Taken(n) => n < call[p].num

\* ... so that a number in the file belongs to one call only.
Once(p) ==
  /\ Signed(p) =>
       /\ <<tok[p].cache.key, call[p].num>> \notin given
       /\ \A q \in Proc \ {p} :
            Signed(q) => \/ tok[q].cache.key # tok[p].cache.key
                         \/ call[q].num # call[p].num
  /\ Verified(p) =>
       /\ call[p].num \notin accepted
       /\ \A q \in Proc \ {p} : Verified(q) => call[q].num # call[p].num

Harmless == harm \cap Causes = {}

CountInv ==
  /\ "twice" \notin harm
  /\ file \in Context => Fits(file)
  /\ \A p \in Proc : Sees(p) /\ Due(p) /\ Once(p)

NumInv == KeysInv /\ (Harmless => CountInv)

-----------------------------------------------------------------------------
(* Steps of one process that use up no number                              *)

\* A context without a sign key has no number.
LEMMA NoKeyNumber ==
  ASSUME Inv
  PROVE  \A n : ~Issued(0, n)
<1>1. given \subseteq Keys \X (0..MaxSeq) /\ 0 \notin Keys
  BY Constants DEF Inv, TypeOK, Keys
<1>2. \A q \in Proc : Signed(q) => tok[q].cache.key \in Keys
  BY Typed DEF Signed, CallInv, WritePCs
<1>. QED BY <1>1, <1>2 DEF Issued

\* The step uses up no number, and the file keeps its contents or loses them.
QuietStep(p) ==
  /\ LocalTo(p) /\ given' = given /\ accepted' = accepted
  /\ Signed(p)' => /\ Signed(p) /\ tok'[p].cache = tok[p].cache
                   /\ call'[p].num = call[p].num
  /\ Verified(p)' => Verified(p) /\ call'[p].num = call[p].num
  /\ harm \subseteq harm' /\ ("twice" \in harm' => "twice" \in harm)
  /\ file' = file \/ file' \notin Context
  /\ made' = made /\ lastKey <= lastKey'

\* No number is used up by such a step.
LEMMA QuietNumbers ==
  ASSUME Inv, NEW p \in Proc, QuietStep(p)
  PROVE  /\ \A k, n : Issued(k, n)' => Issued(k, n)
         /\ \A n : Taken(n)' => Taken(n)
<1>1. ASSUME NEW q \in Proc, Signed(q)'
      PROVE  /\ Signed(q) /\ tok'[q].cache = tok[q].cache
             /\ call'[q].num = call[q].num
  <2>1. CASE q = p
    BY <1>1, <2>1 DEF QuietStep
  <2>2. CASE q # p
    BY <1>1, <2>2 DEF QuietStep, LocalTo, Signed
  <2>. QED BY <2>1, <2>2
<1>2. ASSUME NEW q \in Proc, Verified(q)'
      PROVE  Verified(q) /\ call'[q].num = call[q].num
  <2>1. CASE q = p
    BY <1>2, <2>1 DEF QuietStep
  <2>2. CASE q # p
    BY <1>2, <2>2 DEF QuietStep, LocalTo, Verified
  <2>. QED BY <2>1, <2>2
<1>3. ASSUME NEW k, NEW n, Issued(k, n)' PROVE Issued(k, n)
  <2>1. CASE <<k, n>> \in given'
    BY <2>1 DEF QuietStep, Issued
  <2>2. CASE \E q \in Proc : (Signed(q) /\ tok[q].cache.key = k
                              /\ call[q].num = n)'
    BY <1>1, <2>2 DEF Issued
  <2>. QED BY <1>3, <2>1, <2>2 DEF Issued
<1>4. ASSUME NEW n, Taken(n)' PROVE Taken(n)
  <2>1. CASE n \in accepted'
    BY <2>1 DEF QuietStep, Taken
  <2>2. CASE \E q \in Proc : (Verified(q) /\ call[q].num = n)'
    BY <1>2, <2>2 DEF Taken
  <2>. QED BY <1>4, <2>1, <2>2 DEF Taken
<1>. QED BY <1>3, <1>4

\* A step that uses up no number keeps the invariant, when its own process is
\* in order afterwards and no number belongs to two calls.
LEMMA LessKeeps ==
  ASSUME Inv, Inv', NumInv, NEW p \in Proc, LocalTo(p),
         \A k, n : Issued(k, n)' => Issued(k, n),
         \A n : Taken(n)' => Taken(n),
         harm \subseteq harm', file' = file \/ file' \notin Context,
         made' = made, lastKey <= lastKey',
         tok'[p].cache # NoCtx => Known(tok[p].cache)',
         call'[p].pc \in WritePCs => InUse(p)',
         Harmless' /\ CountInv =>
           /\ Sees(p)' /\ Due(p)' /\ "twice" \notin harm'
           /\ \A q \in Proc : Once(q)'
  PROVE  NumInv'
<1>1. KeysInv'
  <2>0. lastKey \in Int /\ lastKey' \in Int
    BY Constants DEF Inv, TypeOK
  <2>1. ASSUME NEW c \in Context, Known(c)
        PROVE  c.key <= lastKey' /\ c.tmp <= lastKey'
    <3>1. c.key \in Int /\ c.tmp \in Int
      BY Constants DEF Context, NoInfo
    <3>. QED BY <2>0, <2>1, <3>1 DEF Known
  <2>2. file' \in Context => Known(file)'
    BY <2>1 DEF NumInv, KeysInv, Known
  <2>3. ASSUME NEW q \in Proc, tok'[q].cache # NoCtx PROVE Known(tok[q].cache)'
    <3>1. CASE q = p
      BY <2>3, <3>1
    <3>2. CASE q # p
      <4>1. tok'[q] = tok[q] /\ tok[q].cache \in Context
        BY <2>3, <3>2, Typed DEF LocalTo
      <4>. QED BY <2>1, <2>3, <4>1 DEF NumInv, KeysInv, Known
    <3>. QED BY <3>1, <3>2
  <2>4. ASSUME NEW q \in Proc, call'[q].pc \in WritePCs PROVE InUse(q)'
    <3>1. CASE q = p
      BY <2>4, <3>1
    <3>2. CASE q # p
      BY <2>4, <3>2 DEF LocalTo, NumInv, KeysInv, InUse
    <3>. QED BY <3>1, <3>2
  <2>5. ASSUME NEW k \in Keys, NEW n \in 0..MaxSeq, Issued(k, n)'
        PROVE  k <= lastKey' /\ made'
    <3>1. k <= lastKey /\ made
      BY <2>5 DEF NumInv, KeysInv
    <3>2. k \in Int
      BY Constants DEF Keys
    <3>. QED BY <2>0, <3>1, <3>2
  <2>6. \A n \in 0..MaxSeq : Taken(n)' => made'
    BY DEF NumInv, KeysInv
  <2>. QED BY <2>2, <2>3, <2>4, <2>5, <2>6 DEF KeysInv
<1>2. ASSUME Harmless' PROVE CountInv'
  <2>1. CountInv
    BY <1>2 DEF Harmless, NumInv
  <2>2. file' \in Context => Fits(file)'
    BY <2>1 DEF CountInv, Fits
  <2>3. ASSUME NEW q \in Proc PROVE Sees(q)' /\ Due(q)'
    <3>1. CASE q = p
      BY <1>2, <2>1, <3>1
    <3>2. CASE q # p
      <4>1. tok'[q] = tok[q] /\ call'[q] = call[q] /\ Sees(q) /\ Due(q)
        BY <2>1, <3>2 DEF LocalTo, CountInv
      <4>2. Sees(q)'
        BY <4>1 DEF Sees, InUse, Fits
      <4>3. Due(q)'
        BY <4>1 DEF Due
      <4>. QED BY <4>2, <4>3
    <3>. QED BY <3>1, <3>2
  <2>. QED BY <1>2, <2>1, <2>2, <2>3 DEF CountInv
<1>. QED BY <1>1, <1>2 DEF NumInv

\* In particular a step that does nothing to the numbers.
LEMMA QuietKeeps ==
  ASSUME Inv, Inv', NumInv, NEW p \in Proc, QuietStep(p),
         tok'[p].cache # NoCtx => Known(tok[p].cache)',
         call'[p].pc \in WritePCs => InUse(p)',
         Harmless' /\ CountInv => Sees(p)' /\ Due(p)'
  PROVE  NumInv'
<1>1. ASSUME CountInv, NEW q \in Proc PROVE Once(q)'
  <2>1. ASSUME NEW r \in Proc, Signed(r)'
        PROVE  /\ Signed(r) /\ tok'[r].cache = tok[r].cache
               /\ call'[r].num = call[r].num
    BY <2>1 DEF QuietStep, LocalTo, Signed
  <2>2. ASSUME NEW r \in Proc, Verified(r)'
        PROVE  Verified(r) /\ call'[r].num = call[r].num
    BY <2>2 DEF QuietStep, LocalTo, Verified
  <2>3. Once(q) /\ given' = given /\ accepted' = accepted
    BY <1>1 DEF CountInv, QuietStep
  <2>. QED BY <2>1, <2>2, <2>3 DEF Once
<1>2. CountInv => "twice" \notin harm'
  BY DEF CountInv, QuietStep
<1>. QED BY <1>1, <1>2, QuietNumbers, LessKeeps DEF QuietStep

\* The process keeps its list or loses it, and saves nothing new.
SameStep(p) ==
  /\ tok'[p].cache # NoCtx =>
       /\ tok'[p].cache = tok[p].cache /\ tok'[p].unseen = tok[p].unseen
       /\ InUse(p)' => InUse(p)
  /\ call'[p].pc \in SavePCs /\ call'[p].op \in {"sign", "verify"} =>
       /\ call[p].pc \in SavePCs /\ call'[p].op = call[p].op
       /\ call'[p].num = call[p].num
  /\ call'[p].pc \in WritePCs => InUse(p)'

\* Such a step keeps the invariant.
LEMMA SameKeeps ==
  ASSUME Inv, Inv', NumInv, NEW p \in Proc, QuietStep(p), SameStep(p)
  PROVE  NumInv'
<1>0. /\ \A k, n : Issued(k, n)' => Issued(k, n)
      /\ \A n : Taken(n)' => Taken(n)
  BY QuietNumbers
<1>1. tok'[p].cache # NoCtx => Known(tok[p].cache)'
  <2>1. SUFFICES ASSUME tok'[p].cache # NoCtx PROVE Known(tok[p].cache)'
    OBVIOUS
  <2>2. tok'[p].cache = tok[p].cache /\ tok[p].cache \in Context
        /\ Known(tok[p].cache)
    BY <2>1, Typed DEF SameStep, NumInv, KeysInv
  <2>3. lastKey \in Int /\ lastKey' \in Int /\ lastKey <= lastKey'
    BY Constants DEF Inv, TypeOK, QuietStep
  <2>4. tok[p].cache.key \in Int /\ tok[p].cache.tmp \in Int
    BY <2>2, Constants DEF Context, NoInfo
  <2>. QED BY <2>2, <2>3, <2>4 DEF Known
<1>2. ASSUME CountInv PROVE Sees(p)' /\ Due(p)'
  <2>1. Sees(p) /\ Due(p)
    BY <1>2 DEF CountInv
  <2>2. Sees(p)'
    BY <1>0, <2>1 DEF SameStep, Sees, Fits
  <2>3. Due(p)'
    BY <1>0, <2>1 DEF SameStep, Due
  <2>. QED BY <2>2, <2>3
<1>. QED BY <1>1, <1>2, QuietKeeps DEF SameStep

-----------------------------------------------------------------------------
(* The actions                                                             *)

\* Nothing happens to the file, the numbers and the keys.
Still == UNCHANGED <<file, made, given, accepted, harm, lastKey>>

\* A step after which no number waits to be returned is quiet.
LEMMA StillQuiet ==
  ASSUME Inv, NEW p \in Proc, LocalTo(p), Still,
         call'[p].pc \notin {"unlockW", "statW"}
  PROVE  QuietStep(p)
<1>1. ~Signed(p)' /\ ~Verified(p)'
  BY DEF Signed, Verified
<1>2. lastKey \in Int
  BY Constants DEF Inv, TypeOK
<1>. QED BY <1>1, <1>2 DEF QuietStep, Still

\* A process that is idle after a step, with its list as it was or empty.
LEMMA IdleNum ==
  ASSUME Inv, Inv', NumInv, NEW p \in Proc, LocalTo(p), Still,
         call'[p].pc = "idle", call'[p].op = "none",
         tok'[p].cache # NoCtx =>
           /\ tok'[p].cache = tok[p].cache /\ tok'[p].unseen = tok[p].unseen
           /\ tok'[p].open > 0 => InUse(p)
  PROVE  NumInv'
<1>1. QuietStep(p)
  BY StillQuiet
<1>2. SameStep(p)
  BY DEF SameStep, InUse, SavePCs, WritePCs
<1>. QED BY <1>1, <1>2, SameKeeps

\* A call that fails ends, and Close forgets the token.
LEMMA FailedNum ==
  ASSUME Inv, Inv', NumInv, NEW p \in Proc, NEW t \in Token, Failed(p, t),
         t.open = tok[p].open, t.cache = tok[p].cache,
         t.unseen = tok[p].unseen, Still
  PROVE  NumInv'
<1>1. LocalTo(p) /\ call'[p].pc = "idle" /\ call'[p].op = "none"
  BY FailCall, Defaults DEF Inv
<1>2. CASE call[p].op = "close"
  <2>1. tok'[p] = [Fresh EXCEPT !.open = t.open]
    BY <1>2 DEF Failed, Inv, TypeOK
  <2>2. tok'[p].cache = NoCtx
    BY <2>1 DEF Fresh
  <2>. QED BY <1>1, <2>2, IdleNum
<1>3. CASE call[p].op # "close"
  <2>1. tok'[p] = t
    BY <1>3 DEF Failed, Inv, TypeOK
  <2>. QED BY <1>1, <2>1, IdleNum DEF InUse
<1>. QED BY <1>2, <1>3

\* The failures that end a call at once.
LEMMA FailuresNum ==
  ASSUME Inv, Inv', NumInv, NEW p \in Proc,
         OpenFileFails(p) \/ NoFile(p) \/ CloseFails(p) \/ StatFails(p)
  PROVE  NumInv'
<1>1. Failed(p, tok[p]) /\ Still
  BY DEF OpenFileFails, NoFile, CloseFails, StatFails, Still, data, log, env
<1>. QED BY <1>1, Typed, FailedNum

\* The process dies: a number that is in the file is not returned any more.
LEMMA DiesNum ==
  ASSUME Inv, Inv', NumInv, NEW p \in Proc, Dies(p), UNCHANGED <<log, lastKey>>
  PROVE  NumInv'
<1>1. LocalTo(p) /\ call'[p].pc = "idle" /\ call'[p].op = "none"
  BY EndCall, Defaults DEF Dies, LocalTo, Inv, TypeOK
<1>2. tok'[p] = Fresh /\ Still
  BY DEF Dies, Inv, TypeOK, Still, log
<1>3. tok'[p].cache = NoCtx
  BY <1>2 DEF Fresh
<1>. QED BY <1>1, <1>2, <1>3, IdleNum

\* Opening, up to the first look at the file.
LEMMA OpenNum ==
  ASSUME Inv, Inv', NumInv, NEW p \in Proc, Open(p)
  PROVE  NumInv'
<1>0. Still /\ call[p].pc = "idle" /\ call[p].op = "none"
  BY Typed DEF Open, Still, data, log, At, CallInv
<1>1. CASE /\ tok[p].open \in 1..(MaxOpen - 1) /\ UNCHANGED call
           /\ tok' = [tok EXCEPT ![p].open = @ + 1]
  <2>1. /\ tok[p].open > 0 /\ tok'[p].cache = tok[p].cache
        /\ tok'[p].unseen = tok[p].unseen
        /\ \A q \in Proc \ {p} : tok'[q] = tok[q]
    BY <1>1, Constants DEF Inv, TypeOK, Token
  <2>2. LocalTo(p)
    BY <1>1, <2>1 DEF LocalTo, Inv, TypeOK
  <2>. QED BY <1>0, <1>1, <2>1, <2>2, IdleNum DEF InUse
<1>2. CASE Begin(p, "open", "lockR") /\ tok' = [tok EXCEPT ![p] = Cleared(@)]
  <2>1. /\ call'[p].pc = "lockR" /\ call'[p].op = "open"
        /\ \A q \in Proc \ {p} : call'[q] = call[q]
    BY <1>2, BeginFields DEF Ops, PCs
  <2>2. tok'[p].cache = NoCtx /\ \A q \in Proc \ {p} : tok'[q] = tok[q]
    BY <1>2, ClearedToken DEF Inv, TypeOK
  <2>3. LocalTo(p)
    BY <2>1, <2>2 DEF LocalTo, Inv, TypeOK
  <2>4. QuietStep(p)
    BY <1>0, <2>1, <2>3, StillQuiet
  <2>5. SameStep(p)
    BY <2>1, <2>2 DEF SameStep, SavePCs, WritePCs
  <2>. QED BY <2>4, <2>5, SameKeeps
<1>. QED BY <1>1, <1>2 DEF Open

\* Closing, likewise.
LEMMA CloseNum ==
  ASSUME Inv, Inv', NumInv, NEW p \in Proc, NEW abandon \in BOOLEAN,
         Close(p, abandon)
  PROVE  NumInv'
<1>0. /\ Still /\ call[p].pc = "idle" /\ call[p].op = "none"
      /\ tok[p].open > 0
  BY Typed DEF Close, Still, data, log, At, CallInv
<1>1. CASE UNCHANGED call /\ tok' = [tok EXCEPT ![p].open = @ - 1]
  <2>1. /\ tok'[p].cache = tok[p].cache /\ tok'[p].unseen = tok[p].unseen
        /\ \A q \in Proc \ {p} : tok'[q] = tok[q]
    BY <1>1 DEF Inv, TypeOK, Token
  <2>2. LocalTo(p)
    BY <1>1, <2>1 DEF LocalTo, Inv, TypeOK
  <2>. QED BY <1>0, <1>1, <2>1, <2>2, IdleNum DEF InUse
<1>2. CASE UNCHANGED call /\ tok' = [tok EXCEPT ![p] = Fresh]
  <2>1. tok'[p].cache = NoCtx /\ LocalTo(p)
    BY <1>2, Defaults DEF Inv, TypeOK, LocalTo, Fresh
  <2>. QED BY <1>0, <1>2, <2>1, IdleNum
<1>3. CASE Begin(p, "close", "lockW") /\ UNCHANGED tok
  <2>1. /\ call'[p].pc = "lockW" /\ call'[p].op = "close"
        /\ \A q \in Proc \ {p} : call'[q] = call[q]
    BY <1>3, BeginFields DEF Ops, PCs
  <2>2. LocalTo(p)
    BY <1>3, <2>1 DEF LocalTo, Inv, TypeOK
  <2>3. QuietStep(p)
    BY <1>0, <2>1, <2>2, StillQuiet
  <2>4. SameStep(p)
    BY <1>0, <1>3, <2>1 DEF SameStep, InUse
  <2>. QED BY <2>3, <2>4, SameKeeps
<1>. QED BY <1>1, <1>2, <1>3 DEF Close

\* Create adds its context to a list that is not in use yet.
LEMMA CreateNum ==
  ASSUME Inv, Inv', NumInv, NEW p \in Proc, Create(p)
  PROVE  NumInv'
<1>1. Still /\ tok[p].open = 0
  BY DEF Create, Still, data, log
<1>2. /\ call'[p].pc = "stat" /\ call'[p].op = "create"
      /\ \A q \in Proc \ {p} : call'[q] = call[q]
  BY BeginFields DEF Create, Ops, PCs
<1>3. /\ tok'[p].open = 0
      /\ tok'[p].cache = Blank \/ tok'[p].cache = tok[p].cache
      /\ \A q \in Proc \ {p} : tok'[q] = tok[q]
  BY <1>1 DEF Create, Inv, TypeOK, Token
<1>4. LocalTo(p)
  BY <1>2, <1>3 DEF LocalTo, Inv, TypeOK
<1>5. QuietStep(p)
  BY <1>1, <1>2, <1>4, StillQuiet
<1>6. tok'[p].cache # NoCtx => Known(tok[p].cache)'
  <2>1. Blank.key = 0 /\ Blank.tmp = -1 /\ lastKey \in Nat
    BY Constants DEF Blank, NoInfo, Inv, TypeOK
  <2>2. lastKey' = lastKey
    BY <1>1 DEF Still
  <2>3. tok[p].cache # NoCtx => Known(tok[p].cache)
    BY DEF NumInv, KeysInv
  <2>. QED BY <1>3, <2>1, <2>2, <2>3 DEF Known
<1>7. Sees(p)' /\ Due(p)' /\ call'[p].pc \notin WritePCs
  BY <1>2, <1>3 DEF Sees, Due, InUse, SavePCs, WritePCs
<1>. QED BY <1>5, <1>6, <1>7, QuietKeeps

\* The calls that begin with ReloadIfNeeded.
LEMMA UseNum ==
  ASSUME Inv, Inv', NumInv, NEW p \in Proc, NEW o \in Ops, Use(p, o)
  PROVE  NumInv'
<1>1. Still /\ UNCHANGED tok /\ tok[p].open > 0
  BY DEF Use, Still, data, log
<1>2. call'[p].pc = "reload" /\ \A q \in Proc \ {p} : call'[q] = call[q]
  BY BeginFields DEF Use, PCs
<1>3. LocalTo(p)
  BY <1>1, <1>2 DEF LocalTo, Inv, TypeOK
<1>4. QuietStep(p)
  BY <1>1, <1>2, <1>3, StillQuiet
<1>5. SameStep(p)
  BY <1>1, <1>2 DEF SameStep, InUse, SavePCs, WritePCs
<1>. QED BY <1>4, <1>5, SameKeeps

\* Create looks for the file.
LEMMA CreateStatNum ==
  ASSUME Inv, Inv', NumInv, NEW p \in Proc, CreateStat(p)
  PROVE  NumInv'
<1>1. Still /\ UNCHANGED tok /\ call[p].pc = "stat" /\ call[p].op = "create"
  BY Typed DEF CreateStat, At, CallInv, Still, data, log, env
<1>2. CASE Goto(p, "excl")
  <2>1. /\ call'[p].pc = "excl" /\ call'[p].op = "create"
        /\ \A q \in Proc \ {p} : call'[q] = call[q]
    BY <1>1, <1>2, MoveFields DEF PCs
  <2>2. LocalTo(p)
    BY <1>1, <2>1 DEF LocalTo, Inv, TypeOK
  <2>3. QuietStep(p)
    BY <1>1, <2>1, <2>2, StillQuiet
  <2>4. SameStep(p)
    BY <1>1, <2>1 DEF SameStep, InUse, SavePCs, WritePCs
  <2>. QED BY <2>3, <2>4, SameKeeps
<1>3. CASE End(p)
  <2>1. LocalTo(p) /\ call'[p].pc = "idle" /\ call'[p].op = "none"
    BY <1>1, <1>3, EndCall, Defaults DEF LocalTo, Inv, TypeOK
  <2>. QED BY <1>1, <2>1, IdleNum DEF InUse
<1>. QED BY <1>2, <1>3 DEF CreateStat

\* Create makes a file only when no number has been used up.
LEMMA CreateExclNum ==
  ASSUME Inv, Inv', NumInv, NEW p \in Proc, CreateExcl(p)
  PROVE  NumInv'
<1>1. /\ UNCHANGED <<tok, made, given, accepted, harm, lastKey>>
      /\ call[p].pc = "excl" /\ call[p].op = "create"
  BY Typed DEF CreateExcl, At, CallInv, data, log, env
<1>2. CASE file = Absent /\ file' = Empty /\ Goto(p, "lockW")
  <2>1. /\ call'[p].pc = "lockW" /\ call'[p].op = "create"
        /\ \A q \in Proc \ {p} : call'[q] = call[q]
    BY <1>1, <1>2, MoveFields DEF PCs
  <2>2. LocalTo(p) /\ ~made
    BY <1>1, <1>2, <2>1 DEF LocalTo, Inv, TypeOK, FileStays
  <2>3. QuietStep(p)
    <3>1. ~Signed(p)' /\ ~Verified(p)'
      BY <2>1 DEF Signed, Verified
    <3>2. lastKey \in Int /\ Empty \notin Context
      BY Constants DEF Inv, TypeOK
    <3>. QED BY <1>1, <1>2, <2>2, <3>1, <3>2 DEF QuietStep
  <2>4. tok'[p].cache # NoCtx => Known(tok[p].cache)'
    BY <1>1 DEF NumInv, KeysInv, Known
  <2>5. Sees(p)'
    <3>1. SUFFICES ASSUME tok[p].cache # NoCtx PROVE Fits(tok[p].cache)'
      BY <1>1 DEF Sees
    <3>2. \A n \in 0..MaxSeq : ~Issued(tok[p].cache.key, n) /\ ~Taken(n)
      <4>1. tok[p].cache \in Context
        BY <3>1, Typed
      <4>2. tok[p].cache.key = 0 \/ tok[p].cache.key \in Keys
        BY <4>1, Constants DEF Context, Keys
      <4>3. \A n : ~Issued(0, n)
        BY NoKeyNumber
      <4>. QED BY <2>2, <4>2, <4>3 DEF NumInv, KeysInv
    <3>. QED BY <1>1, <2>3, <3>2, QuietNumbers DEF Fits
  <2>6. Due(p)' /\ InUse(p)'
    BY <2>1 DEF Due, InUse
  <2>. QED BY <2>3, <2>4, <2>5, <2>6, QuietKeeps
<1>3. CASE End(p) /\ UNCHANGED <<file, ftime>>
  <2>1. LocalTo(p) /\ call'[p].pc = "idle" /\ call'[p].op = "none"
    BY <1>1, <1>3, EndCall, Defaults DEF LocalTo, Inv, TypeOK
  <2>. QED BY <1>1, <1>3, <2>1, IdleNum DEF InUse, Still
<1>. QED BY <1>2, <1>3 DEF CreateExcl

\* The list is up to date, t is what has become of the token.
LEMMA LoadedNum ==
  ASSUME Inv, Inv', NumInv, NEW p \in Proc, NEW t \in Token, Loaded(p, t),
         t.open = tok[p].open, t.cache = tok[p].cache,
         t.unseen = tok[p].unseen, call[p].pc \in {"reload", "statR"}, Still
  PROVE  NumInv'
<1>1. call[p] \in Call
  BY Typed
<1>2. CASE /\ call[p].op = "open" /\ End(p)
           /\ tok' = [tok EXCEPT ![p] = [t EXCEPT !.open = 1]]
  <2>. DEFINE u == [t EXCEPT !.open = 1]
  <2>1. u \in Token /\ u.cache = t.cache /\ u.unseen = t.unseen
    BY Constants DEF Token
  <2>2. tok'[p] = u /\ LocalTo(p) /\ call'[p].pc = "idle" /\ call'[p].op = "none"
    BY <1>2, <2>1, EndCall, Defaults DEF LocalTo, Inv, TypeOK
  <2>. HIDE DEF u
  <2>. QED BY <1>2, <2>1, <2>2, IdleNum DEF InUse
<1>3. CASE End(p) /\ tok' = [tok EXCEPT ![p] = t]
  <2>1. tok'[p] = t /\ LocalTo(p) /\ call'[p].pc = "idle" /\ call'[p].op = "none"
    BY <1>3, EndCall, Defaults DEF LocalTo, Inv, TypeOK
  <2>. QED BY <2>1, IdleNum DEF InUse
<1>4. CASE /\ tok' = [tok EXCEPT ![p] = t]
           /\ \/ Goto(p, "body")
              \/ call' = [call EXCEPT ![p].pc = "reload", ![p].second = TRUE,
                                      ![p].ctx = TRUE]
  <2>1. /\ call' \in [Proc -> Call] /\ call'[p].op = call[p].op
        /\ \A q \in Proc \ {p} : call'[q] = call[q]
        /\ call'[p].pc \in {"body", "reload"}
    BY <1>4 DEF Goto, Inv, TypeOK, Call, PCs
  <2>2. tok'[p] = t /\ LocalTo(p)
    BY <1>4, <2>1 DEF LocalTo, Inv, TypeOK
  <2>3. QuietStep(p)
    BY <2>1, <2>2, StillQuiet
  <2>4. SameStep(p)
    BY <2>1, <2>2 DEF SameStep, InUse, SavePCs, WritePCs
  <2>. QED BY <2>3, <2>4, SameKeeps
<1>. QED BY <1>2, <1>3, <1>4 DEF Loaded, TwoReloads

\* A call that compares the times, and clears the list when they differ.
LEMMA ReloadIfNeededNum ==
  ASSUME Inv, Inv', NumInv, NEW p \in Proc, ReloadIfNeeded(p)
  PROVE  NumInv'
<1>1. Still /\ call[p].pc = "reload"
  BY DEF ReloadIfNeeded, At, Still, data, log, env
<1>2. CASE Loaded(p, tok[p])
  BY <1>1, <1>2, Typed, LoadedNum
<1>3. CASE /\ tok' = [tok EXCEPT ![p] = Cleared(@)]
           /\ call' = [call EXCEPT ![p].pc = "lockR", ![p].ctx = FALSE]
  <2>1. call'[p].pc = "lockR" /\ \A q \in Proc \ {p} : call'[q] = call[q]
    BY <1>3 DEF Inv, TypeOK, Call
  <2>2. tok'[p].cache = NoCtx /\ \A q \in Proc \ {p} : tok'[q] = tok[q]
    BY <1>3, ClearedToken DEF Inv, TypeOK
  <2>3. LocalTo(p)
    BY <2>1, <2>2 DEF LocalTo, Inv, TypeOK
  <2>4. QuietStep(p)
    BY <1>1, <2>1, <2>3, StillQuiet
  <2>5. SameStep(p)
    BY <2>1, <2>2 DEF SameStep, SavePCs, WritePCs
  <2>. QED BY <2>4, <2>5, SameKeeps
<1>. QED BY <1>2, <1>3 DEF ReloadIfNeeded

\* A call goes on with the token as it is.
LEMMA MoveNum ==
  ASSUME Inv, Inv', NumInv, NEW p \in Proc, NEW l \in PCs,
         Goto(p, l) \/ Failing(p, l),
         UNCHANGED <<tok, made, given, accepted, harm, lastKey>>,
         file' = file \/ file' \notin Context,
         \/ call[p].pc = "lockR" /\ l = "read"
         \/ call[p].pc = "lockW" /\ l = "encode"
         \/ call[p].pc = "encode" /\ l = "write"
         \/ call[p].pc = "read" /\ l = "unlockR" /\ Failing(p, l)
         \/ call[p].pc \in {"encode", "write"} /\ l = "unlockW" /\ Failing(p, l)
         \/ call[p].pc = "unlockR" /\ l = "statR" /\ Goto(p, l)
         \/ call[p].pc = "unlockW" /\ l = "statW" /\ Goto(p, l)
  PROVE  NumInv'
<1>1. /\ call'[p].pc = l /\ call'[p].op = call[p].op
      /\ call'[p].num = call[p].num
      /\ Goto(p, l) => call'[p].ok = call[p].ok
      /\ Failing(p, l) => ~call'[p].ok
      /\ \A q \in Proc \ {p} : call'[q] = call[q]
  BY MoveFields
<1>2. LocalTo(p)
  BY <1>1 DEF LocalTo, Inv, TypeOK
<1>3. QuietStep(p)
  <2>1. (Signed(p)' => Signed(p)) /\ (Verified(p)' => Verified(p))
    BY <1>1 DEF Signed, Verified
  <2>2. lastKey \in Int
    BY Constants DEF Inv, TypeOK
  <2>. QED BY <1>1, <1>2, <2>1, <2>2 DEF QuietStep
<1>4. SameStep(p)
  <2>1. InUse(p)' <=> InUse(p)
    BY <1>1 DEF InUse
  <2>2. call[p].pc \in WritePCs => InUse(p)
    BY DEF NumInv, KeysInv
  <2>. QED BY <1>1, <2>1, <2>2 DEF SameStep, SavePCs, WritePCs
<1>. QED BY <1>3, <1>4, SameKeeps

\* The steps that take the lock, give it up, fail under it, or truncate.
LEMMA LockedNum ==
  ASSUME Inv, Inv', NumInv, NEW p \in Proc,
         \/ OpenFile(p) \/ Unlock(p) \/ Truncate(p)
         \/ ReadFails(p) \/ EncodeFails(p) \/ WriteFails(p)
  PROVE  NumInv'
<1>1. {"read", "encode", "write", "unlockR", "unlockW", "statR", "statW"}
        \subseteq PCs
  BY DEF PCs
<1>2. /\ UNCHANGED <<tok, made, given, accepted, harm, lastKey>>
      /\ file' = file \/ file' \notin Context
  BY Constants DEF OpenFile, Unlock, Truncate, ReadFails, EncodeFails, WriteFails,
                   data, log, env
<1>3. CASE OpenFile(p) \/ Truncate(p)
  BY <1>1, <1>2, <1>3, MoveNum DEF OpenFile, Truncate, At
<1>4. CASE Unlock(p)
  BY <1>1, <1>2, <1>4, MoveNum DEF Unlock, At
<1>5. CASE ReadFails(p)
  BY <1>1, <1>2, <1>5, MoveNum DEF ReadFails, At
<1>6. CASE EncodeFails(p) \/ WriteFails(p)
  BY <1>1, <1>2, <1>6, MoveNum DEF EncodeFails, WriteFails, At
<1>. QED BY <1>3, <1>4, <1>5, <1>6

\* What the file holds fits, and with it the list that was read from it.
LEMMA ReadNum ==
  ASSUME Inv, Inv', NumInv, NEW p \in Proc, Read(p)
  PROVE  NumInv'
<1>1. Still /\ call[p].pc = "read" /\ file \in Context
  BY DEF Read, At, Still, data, log, env
<1>2. /\ call'[p].pc = "unlockR" /\ call'[p].op = call[p].op
      /\ \A q \in Proc \ {p} : call'[q] = call[q]
  BY MoveFields DEF Read, PCs
<1>3. /\ tok'[p].open = tok[p].open /\ tok'[p].unseen = tok[p].unseen
      /\ tok'[p].cache = IF tok[p].cache = NoCtx THEN file ELSE tok[p].cache
      /\ \A q \in Proc \ {p} : tok'[q] = tok[q]
  BY DEF Read, Inv, TypeOK, Token
<1>4. LocalTo(p)
  BY <1>2, <1>3 DEF LocalTo, Inv, TypeOK
<1>5. QuietStep(p)
  BY <1>1, <1>2, <1>4, StillQuiet
<1>6. Known(tok[p].cache)'
  <2>1. Known(tok'[p].cache) /\ lastKey' = lastKey
    BY <1>1, <1>3 DEF NumInv, KeysInv, Still
  <2>. QED BY <2>1 DEF Known
<1>7. ASSUME CountInv PROVE Sees(p)'
  <2>1. InUse(p)' => InUse(p)
    BY <1>1, <1>2, <1>3 DEF InUse
  <2>2. InUse(p) /\ ~tok[p].unseen => Fits(tok'[p].cache)
    BY <1>1, <1>3, <1>7 DEF CountInv, Sees
  <2>. QED BY <1>3, <1>5, <2>1, <2>2, QuietNumbers DEF Sees, Fits
<1>8. Due(p)' /\ call'[p].pc \notin WritePCs
  BY <1>2 DEF Due, SavePCs, WritePCs
<1>. QED BY <1>5, <1>6, <1>7, <1>8, QuietKeeps

\* WriteFile has succeeded, and the number is returned: it is a new one.
LEMMA FinishNum ==
  ASSUME Inv, Inv', NumInv, NEW p \in Proc, call[p].pc = "statW", call[p].ok,
         Finish(p), UNCHANGED <<data, lastKey>>
  PROVE  NumInv'
<1>1. /\ call'[p].pc = "idle" /\ call'[p].op = "none"
      /\ \A q \in Proc \ {p} : call'[q] = call[q]
  BY EndCall, Defaults DEF Finish, Inv
<1>2. \A q \in Proc \ {p} : tok'[q] = tok[q]
  BY DEF Finish, Inv, TypeOK
<1>3. LocalTo(p) /\ file' = file /\ made' = made
  BY <1>1, <1>2 DEF LocalTo, Inv, TypeOK, data
<1>4. tok'[p].cache # NoCtx =>
        tok'[p].cache = tok[p].cache /\ tok'[p].unseen = tok[p].unseen
  <2>1. CASE call[p].op = "close"
    <3>1. PICK o : tok'[p] = [Fresh EXCEPT !.open = o]
      BY <2>1 DEF Finish, Inv, TypeOK
    <3>. QED BY <3>1 DEF Fresh
  <2>2. CASE call[p].op = "create"
    <3>1. tok'[p] = [Timed(p) EXCEPT !.open = 1]
      BY <2>2 DEF Finish, Inv, TypeOK
    <3>. QED BY <3>1, TimedFields DEF Token
  <2>3. CASE call[p].op \notin {"close", "create"}
    <3>1. tok'[p] = Timed(p)
      BY <2>3 DEF Finish, Inv, TypeOK
    <3>. QED BY <3>1, TimedFields
  <2>. QED BY <2>1, <2>2, <2>3
<1>5. /\ Signed(p) <=> call[p].op = "sign"
      /\ Verified(p) <=> call[p].op = "verify"
      /\ Timed(p).cache = tok[p].cache
  BY TimedFields DEF Signed, Verified
<1>6. /\ given' = IF Signed(p)
                  THEN given \cup {<<tok[p].cache.key, call[p].num>>} ELSE given
      /\ accepted' = IF Verified(p) THEN accepted \cup {call[p].num} ELSE accepted
  BY <1>5 DEF Finish
<1>7. ASSUME NEW q \in Proc
      PROVE  /\ Signed(q)' => /\ q # p /\ Signed(q) /\ tok'[q] = tok[q]
                              /\ call'[q] = call[q]
             /\ Verified(q)' => q # p /\ Verified(q) /\ call'[q] = call[q]
  <2>1. CASE q = p
    BY <1>1, <2>1 DEF Signed, Verified
  <2>2. CASE q # p
    BY <1>1, <1>2, <2>2 DEF Signed, Verified
  <2>. QED BY <2>1, <2>2
<1>8. ASSUME NEW k, NEW n, Issued(k, n)' PROVE Issued(k, n)
  <2>1. CASE <<k, n>> \in given'
    BY <1>6, <2>1 DEF Issued
  <2>2. CASE \E q \in Proc : (Signed(q) /\ tok[q].cache.key = k
                              /\ call[q].num = n)'
    BY <1>7, <2>2 DEF Issued
  <2>. QED BY <1>8, <2>1, <2>2 DEF Issued
<1>9. ASSUME NEW n, Taken(n)' PROVE Taken(n)
  <2>1. CASE n \in accepted'
    BY <1>6, <2>1 DEF Taken
  <2>2. CASE \E q \in Proc : (Verified(q) /\ call[q].num = n)'
    BY <1>7, <2>2 DEF Taken
  <2>. QED BY <1>9, <2>1, <2>2 DEF Taken
<1>10. ASSUME CountInv PROVE Sees(p)' /\ Due(p)'
  <2>1. InUse(p) /\ Sees(p)
    BY <1>10 DEF CountInv, NumInv, KeysInv, WritePCs
  <2>2. Sees(p)'
    BY <1>4, <1>8, <1>9, <2>1 DEF Sees, Fits
  <2>. QED BY <1>1, <2>2 DEF Due, SavePCs
<1>11. ASSUME CountInv PROVE "twice" \notin harm'
  <2>1. "twice" \notin harm /\ Once(p)
    BY <1>11 DEF CountInv
  <2>2. ~(\/ call[p].op = "sign" /\ <<tok[p].cache.key, call[p].num>> \in given
          \/ call[p].op = "verify" /\ call[p].num \in accepted)
    BY <1>5, <2>1 DEF Once
  <2>3. harm' = harm
    BY <1>5, <2>2 DEF Finish
  <2>. QED BY <2>1, <2>3
<1>12. ASSUME CountInv, NEW q \in Proc PROVE Once(q)'
  <2>1. Once(q)
    BY <1>12 DEF CountInv
  <2>. QED BY <1>6, <1>7, <2>1 DEF Once
<1>13. harm \subseteq harm'
  BY DEF Finish
<1>14. lastKey <= lastKey'
  BY Constants DEF Inv, TypeOK
<1>15. tok'[p].cache # NoCtx => Known(tok[p].cache)'
  BY <1>4 DEF NumInv, KeysInv, Known
<1>16. call'[p].pc \notin WritePCs
  BY <1>1 DEF WritePCs
<1>. QED BY <1>3, <1>8, <1>9, <1>10, <1>11, <1>12, <1>13, <1>14, <1>15, <1>16,
            LessKeeps

\* What follows the taking of the times.
LEMMA StatFileNum ==
  ASSUME Inv, Inv', NumInv, NEW p \in Proc, StatFile(p)
  PROVE  NumInv'
<1>1. UNCHANGED <<data, lastKey>>
  BY DEF StatFile, env
<1>2. CASE Failed(p, Timed(p)) /\ UNCHANGED log
  BY <1>1, <1>2, TimedFields, FailedNum DEF log, data, Still
<1>3. CASE call[p].pc = "statR" /\ Loaded(p, Timed(p)) /\ UNCHANGED log
  BY <1>1, <1>3, TimedFields, LoadedNum DEF log, data, Still
<1>4. CASE call[p].pc = "statW" /\ call[p].ok /\ Finish(p)
  BY <1>1, <1>4, FinishNum
<1>. QED BY <1>2, <1>3, <1>4 DEF StatFile, At

\* A call ends without having changed the list.
LEMMA EndsNum ==
  ASSUME Inv, Inv', NumInv, NEW p \in Proc, Ends(p)
  PROVE  NumInv'
<1>1. Still /\ UNCHANGED tok
  BY DEF Ends, Still, data, log
<1>2. LocalTo(p) /\ call'[p].pc = "idle" /\ call'[p].op = "none"
  BY <1>1, EndCall, Defaults DEF Ends, LocalTo, Inv, TypeOK
<1>. QED BY <1>1, <1>2, IdleNum DEF InUse

\* The list of an open token is changed: the counters still fit, and a number
\* about to be saved is past all others.
LEMMA ChangedNum ==
  ASSUME Inv, Inv', NumInv, NEW p \in Proc, NEW c, Changed(p, c),
         tok[p].open > 0, UNCHANGED <<data, given, accepted>>,
         call'[p].pc \in {"idle", "lockW"},
         \A q \in Proc \ {p} : call'[q] = call[q],
         \/ harm' = harm \/ harm' = harm \cup {"again"}
         \/ harm' = harm \cup {"setBack"},
         lastKey <= lastKey',
         c.key <= lastKey', c.tmp <= lastKey',
         Harmless' /\ CountInv /\ ~tok[p].unseen =>
           /\ Fits(c)
           /\ call'[p].pc = "lockW" /\ call'[p].op = "sign" =>
                /\ call'[p].num < c.ctr
                /\ \A n \in 0..MaxSeq : Issued(c.key, n) => n < call'[p].num
           /\ call'[p].pc = "lockW" /\ call'[p].op = "verify" =>
                /\ c.rem /\ call'[p].num <= c.rctr
                /\ \A n \in 0..MaxSeq : Taken(n) => n < call'[p].num
  PROVE  NumInv'
<1>1. /\ tok'[p].cache = c /\ tok'[p].unseen = tok[p].unseen
      /\ tok'[p].open > 0 /\ \A q \in Proc \ {p} : tok'[q] = tok[q]
  BY ChangedFields
<1>2. LocalTo(p)
  BY <1>1 DEF LocalTo, Inv, TypeOK
<1>3. QuietStep(p)
  <2>1. ~Signed(p)' /\ ~Verified(p)'
    BY DEF Signed, Verified
  <2>. QED BY <1>2, <2>1 DEF QuietStep, data
<1>4. Known(tok[p].cache)'
  BY <1>1 DEF Known
<1>5. InUse(p)'
  BY <1>1 DEF InUse
<1>6. ASSUME Harmless', CountInv PROVE Sees(p)' /\ Due(p)'
  <2>1. /\ \A k, n : Issued(k, n)' => Issued(k, n)
        /\ \A n : Taken(n)' => Taken(n)
    BY <1>3, QuietNumbers
  <2>2. Sees(p)'
    BY <1>1, <1>6, <2>1 DEF Sees, Fits
  <2>3. Due(p)'
    BY <1>1, <1>6, <2>1 DEF Due, SavePCs
  <2>. QED BY <2>2, <2>3
<1>. QED BY <1>3, <1>4, <1>5, <1>6, QuietKeeps

\* What is known of the list when a call begins to work on it.
LEMMA BodyStart ==
  ASSUME Inv, NumInv, NEW p \in Proc, tok[p].open > 0, tok[p].cache # NoCtx
  PROVE  /\ tok[p].cache \in Context
         /\ tok[p].cache.key \in 0..MaxKeys /\ tok[p].cache.tmp \in Int
         /\ tok[p].cache.ctr \in 0..MaxSeq /\ tok[p].cache.rctr \in 0..MaxSeq
         /\ tok[p].cache.key <= lastKey /\ tok[p].cache.tmp <= lastKey
         /\ lastKey \in 0..MaxKeys /\ lastKey \in Int
         /\ CountInv /\ ~tok[p].unseen => Fits(tok[p].cache)
<1>1. tok[p].cache \in Context /\ Known(tok[p].cache)
  BY Typed DEF NumInv, KeysInv
<1>2. lastKey \in 0..MaxKeys /\ lastKey \in Int
  BY Constants DEF Inv, TypeOK
<1>3. CountInv /\ ~tok[p].unseen => Fits(tok[p].cache)
  BY DEF CountInv, Sees, InUse
<1>. QED BY <1>1, <1>2, <1>3, Constants DEF Context, Known, NoInfo

\* The call goes on with WriteFile, or ends.
LEMMA BodyCall ==
  ASSUME Inv, NEW p \in Proc, NEW n, WritesNext(p, n) \/ End(p)
  PROVE  /\ call'[p].pc \in {"idle", "lockW"}
         /\ call'[p].pc = "lockW" => call'[p].op = call[p].op
         /\ \A q \in Proc \ {p} : call'[q] = call[q]
<1>1. CASE WritesNext(p, n)
  BY <1>1, WritesFields
<1>2. CASE End(p)
  BY <1>2, EndCall, Defaults DEF Inv
<1>. QED BY <1>1, <1>2

\* A change for the user, who does not need the file.
LEMMA SetContextNum ==
  ASSUME Inv, Inv', NumInv, NEW p \in Proc, tok[p].open > 0,
         SetContextBody(p)
  PROVE  NumInv'
<1>1. CASE Ends(p)
  BY <1>1, EndsNum
<1>2. CASE ~Ends(p)
  <2>0. tok[p].cache # NoCtx
    BY <1>2 DEF SetContextBody
  <2>1. PICK c : c = [tok[p].cache EXCEPT !.note = ~@]
    OBVIOUS
  <2>2. /\ Changed(p, c) /\ End(p) /\ call[p].op = "setContext"
        /\ UNCHANGED <<data, given, accepted, harm, lastKey>>
    BY <1>2, <2>1 DEF SetContextBody, Changed, log
  <2>3. /\ c.key = tok[p].cache.key /\ c.ctr = tok[p].cache.ctr
        /\ c.rem = tok[p].cache.rem
        /\ c.rctr = tok[p].cache.rctr /\ c.tmp = tok[p].cache.tmp
    BY <2>0, <2>1, BodyStart DEF Context
  <2>4. CountInv /\ ~tok[p].unseen => Fits(c)
    BY <2>0, <2>3, BodyStart DEF Fits
  <2>5. /\ c.key <= lastKey' /\ c.tmp <= lastKey' /\ lastKey <= lastKey'
    BY <2>0, <2>2, <2>3, BodyStart
  <2>. QED BY <2>2, <2>4, <2>5, BodyCall, ChangedNum
<1>. QED BY <1>1, <1>2

\* A key info that is set leaves the keys alone.
LEMMA InfoSetNum ==
  ASSUME Inv, Inv', NumInv, NEW p \in Proc, tok[p].open > 0,
         tok[p].cache # NoCtx, call[p].op = "setKeyInfo",
         NEW c, Saves(p, c), lastKey' = lastKey,
         c.key = tok[p].cache.key, c.tmp = tok[p].cache.tmp,
         harm' = harm \/ harm' = harm \cup {"setBack"},
         Harmless' /\ Fits(tok[p].cache) => Fits(c)
  PROVE  NumInv'
<1>1. /\ Changed(p, c) /\ WritesNext(p, 0)
      /\ UNCHANGED <<data, given, accepted>>
  BY DEF Saves
<1>2. /\ c.key <= lastKey' /\ c.tmp <= lastKey' /\ lastKey <= lastKey'
  BY BodyStart
<1>3. Harmless' /\ CountInv /\ ~tok[p].unseen => Fits(c)
  BY BodyStart
<1>. QED BY <1>1, <1>2, <1>3, BodyCall, ChangedNum

\* A counter that is set is past the numbers used up, or it was set back.
LEMMA SetKeyInfoNum ==
  ASSUME Inv, Inv', NumInv, NEW p \in Proc, tok[p].open > 0,
         SetKeyInfoBody(p)
  PROVE  NumInv'
<1>1. CASE Ends(p)
  BY <1>1, EndsNum
<1>2. CASE ~Ends(p)
  <2>. DEFINE c == tok[p].cache
  <2>1. /\ c # NoCtx /\ call[p].op = "setKeyInfo" /\ lastKey' = lastKey
        /\ \/ Saves(p, [c EXCEPT !.rem = TRUE]) /\ harm' = harm
           \/ \E n \in Counters :
                /\ Saves(p, [c EXCEPT !.ctr = n])
                /\ harm' = IF UsedFrom(c.key, n) THEN harm \cup {"setBack"}
                                                 ELSE harm
           \/ \E n \in Counters, r \in {c.rem, TRUE} :
                /\ Saves(p, [c EXCEPT !.rctr = n, !.rcnt = TRUE, !.rem = r])
                /\ harm' = IF AcceptedFrom(n + 1) THEN harm \cup {"setBack"}
                                                  ELSE harm
    BY <1>2 DEF SetKeyInfoBody
  <2>2. c \in Context
    BY <2>1, BodyStart
  <2>. HIDE DEF c
  <2>3. CASE Saves(p, [c EXCEPT !.rem = TRUE]) /\ harm' = harm
    <3>1. PICK d : d = [c EXCEPT !.rem = TRUE]
      OBVIOUS
    <3>2. /\ d.key = c.key /\ d.tmp = c.tmp /\ d.ctr = c.ctr
          /\ d.rctr = c.rctr /\ d.rem
      BY <2>2, <3>1 DEF Context
    <3>3. Fits(c) => Fits(d)
      BY <3>2 DEF Fits
    <3>. QED BY <2>1, <2>3, <3>1, <3>2, <3>3, InfoSetNum DEF c
  <2>4. ASSUME NEW n \in Counters, Saves(p, [c EXCEPT !.ctr = n]),
               harm' = IF UsedFrom(c.key, n) THEN harm \cup {"setBack"}
                                             ELSE harm
        PROVE  NumInv'
    <3>1. PICK d : d = [c EXCEPT !.ctr = n]
      OBVIOUS
    <3>2. /\ d.key = c.key /\ d.tmp = c.tmp /\ d.ctr = n
          /\ d.rctr = c.rctr /\ d.rem = c.rem
      BY <2>2, <3>1 DEF Context
    <3>3. Harmless' => ~UsedFrom(c.key, n)
      BY <2>4 DEF Harmless, Causes
    <3>4. ASSUME ~UsedFrom(c.key, n), NEW i \in 0..MaxSeq, Issued(c.key, i)
          PROVE  i < n
      <4>1. n \in Int /\ i \in Int /\ i <= MaxSeq
        BY Constants, CtFileAssumption DEF CtFileAssumption
      <4>. QED BY <3>4, <4>1, Constants DEF UsedFrom, Issued
    <3>5. Harmless' /\ Fits(c) => Fits(d)
      BY <3>2, <3>3, <3>4 DEF Fits
    <3>. QED BY <2>1, <2>4, <3>1, <3>2, <3>5, InfoSetNum DEF c
  <2>5. ASSUME NEW n \in Counters, NEW r \in {c.rem, TRUE},
               Saves(p, [c EXCEPT !.rctr = n, !.rcnt = TRUE, !.rem = r]),
               harm' = IF AcceptedFrom(n + 1) THEN harm \cup {"setBack"}
                                              ELSE harm
        PROVE  NumInv'
    <3>1. PICK d : d = [c EXCEPT !.rctr = n, !.rcnt = TRUE, !.rem = r]
      OBVIOUS
    <3>2. /\ d.key = c.key /\ d.tmp = c.tmp /\ d.ctr = c.ctr
          /\ d.rctr = n /\ (c.rem => d.rem)
      BY <2>2, <3>1 DEF Context
    <3>3. Harmless' => ~AcceptedFrom(n + 1)
      BY <2>5 DEF Harmless, Causes
    <3>4. ASSUME ~AcceptedFrom(n + 1), NEW i \in 0..MaxSeq, Taken(i)
          PROVE  i <= n
      <4>1. n \in Int /\ i \in Int
        BY Constants, CtFileAssumption DEF CtFileAssumption
      <4>. QED BY <3>4, <4>1 DEF AcceptedFrom, Taken
    <3>5. Harmless' /\ Fits(c) => Fits(d)
      BY <3>2, <3>3, <3>4 DEF Fits
    <3>. QED BY <2>1, <2>5, <3>1, <3>2, <3>5, InfoSetNum DEF c
  <2>. QED BY <2>1, <2>3, <2>4, <2>5
<1>. QED BY <1>1, <1>2

\* No number of a key that was not there before has been used up.
LEMMA NewKey ==
  ASSUME Inv, NumInv, NEW n \in 0..MaxSeq, lastKey < MaxKeys
  PROVE  ~Issued(lastKey + 1, n)
<1>1. lastKey \in 0..MaxKeys /\ MaxKeys \in Nat
  BY Constants DEF Inv, TypeOK
<1>2. PICK k : k = lastKey + 1
  OBVIOUS
<1>3. k \in Keys /\ ~(k <= lastKey)
  BY <1>1, <1>2 DEF Keys
<1>4. ~Issued(k, n)
  BY <1>3 DEF NumInv, KeysInv
<1>. QED BY <1>2, <1>4

\* A generated key starts with the number 1.
LEMMA GenerateNum ==
  ASSUME Inv, Inv', NumInv, NEW p \in Proc, tok[p].open > 0,
         GenerateKeyBody(p)
  PROVE  NumInv'
<1>1. CASE Ends(p)
  BY <1>1, EndsNum
<1>2. CASE Dies(p) /\ UNCHANGED <<log, lastKey>>
  BY <1>2, DiesNum
<1>3. CASE ~Ends(p) /\ ~(Dies(p) /\ UNCHANGED <<log, lastKey>>)
  <2>1. PICK d : d = [tok[p].cache EXCEPT !.key = lastKey + 1, !.ctr = 1]
    OBVIOUS
  <2>2. PICK e : e = [tok[p].cache EXCEPT !.tmp = lastKey + 1]
    OBVIOUS
  <2>3. /\ tok[p].cache # NoCtx /\ lastKey < MaxKeys /\ lastKey' = lastKey + 1
        /\ Changed(p, d) \/ Changed(p, e)
        /\ UNCHANGED <<data, given, accepted, harm>> /\ WritesNext(p, 0)
        /\ call[p].op = "generate"
    BY <1>3, <2>1, <2>2 DEF GenerateKeyBody, Saves, Changed
  <2>4. /\ d.key = lastKey + 1 /\ d.ctr = 1 /\ d.tmp = tok[p].cache.tmp
        /\ d.rctr = tok[p].cache.rctr /\ d.rem = tok[p].cache.rem
        /\ e.key = tok[p].cache.key /\ e.ctr = tok[p].cache.ctr
        /\ e.tmp = lastKey + 1 /\ e.rctr = tok[p].cache.rctr
        /\ e.rem = tok[p].cache.rem
    BY <2>1, <2>2, <2>3, BodyStart DEF Context
  <2>5. /\ d.key <= lastKey' /\ d.tmp <= lastKey'
        /\ e.key <= lastKey' /\ e.tmp <= lastKey' /\ lastKey <= lastKey'
    BY <2>3, <2>4, BodyStart
  <2>6. CountInv /\ ~tok[p].unseen => Fits(d) /\ Fits(e)
    BY <2>3, <2>4, BodyStart, NewKey DEF Fits
  <2>7. CASE Changed(p, d)
    BY <2>3, <2>5, <2>6, <2>7, BodyCall, ChangedNum
  <2>8. CASE Changed(p, e)
    BY <2>3, <2>5, <2>6, <2>8, BodyCall, ChangedNum
  <2>. QED BY <2>3, <2>7, <2>8
<1>. QED BY <1>1, <1>2, <1>3

\* A key that is activated is a used one, or none of its numbers is used up.
LEMMA ActivateNum ==
  ASSUME Inv, Inv', NumInv, NEW p \in Proc, tok[p].open > 0,
         ActivateKeyBody(p)
  PROVE  NumInv'
<1>1. CASE Ends(p)
  BY <1>1, EndsNum
<1>2. CASE ~Ends(p)
  <2>1. PICK d :
          d = [tok[p].cache EXCEPT !.key = tok[p].cache.tmp, !.ctr = 1]
    OBVIOUS
  <2>2. /\ tok[p].cache # NoCtx /\ Changed(p, d) /\ WritesNext(p, 0)
        /\ UNCHANGED <<data, given, accepted, lastKey>>
        /\ call[p].op = "activate"
    BY <1>2, <2>1 DEF ActivateKeyBody, Saves, Changed
  <2>3. /\ harm' = harm \/ harm' = harm \cup {"again"}
        /\ "again" \notin harm' => ~UsedFrom(tok[p].cache.tmp, 0)
    BY <1>2 DEF ActivateKeyBody
  <2>4. /\ d.key = tok[p].cache.tmp /\ d.ctr = 1 /\ d.tmp = tok[p].cache.tmp
        /\ d.rctr = tok[p].cache.rctr /\ d.rem = tok[p].cache.rem
    BY <2>1, <2>2, BodyStart DEF Context
  <2>5. d.key <= lastKey' /\ d.tmp <= lastKey' /\ lastKey <= lastKey'
    BY <2>2, <2>4, BodyStart
  <2>6. Harmless' => \A n \in 0..MaxSeq : ~Issued(d.key, n)
    <3>1. Harmless' => ~UsedFrom(d.key, 0)
      BY <2>3, <2>4 DEF Harmless, Causes
    <3>2. ASSUME NEW n \in 0..MaxSeq, Issued(d.key, n) PROVE UsedFrom(d.key, 0)
      BY <3>2, Constants DEF Issued, UsedFrom
    <3>. QED BY <3>1, <3>2
  <2>7. Harmless' /\ CountInv /\ ~tok[p].unseen => Fits(d)
    BY <2>2, <2>4, <2>6, BodyStart DEF Fits
  <2>. QED BY <2>2, <2>3, <2>5, <2>7, BodyCall, ChangedNum
<1>. QED BY <1>1, <1>2

\* A freed context is used: what follows is not promised.
LEMMA FreedNum ==
  ASSUME Inv, Inv', NumInv, NEW p \in Proc, tok[p].open > 0, NEW n,
         UsesFreed(p, n)
  PROVE  NumInv'
<1>1. CASE Dies(p) /\ UNCHANGED <<log, lastKey>>
  BY <1>1, DiesNum
<1>2. CASE /\ WritesNext(p, n)
           /\ harm' = harm \cup {"freed"}
           /\ UNCHANGED <<tok, lck, data, given, accepted, lastKey>>
  <2>1. call'[p].pc = "lockW" /\ \A q \in Proc \ {p} : call'[q] = call[q]
    BY <1>2, WritesFields
  <2>2. LocalTo(p)
    BY <1>2, <2>1 DEF LocalTo, Inv, TypeOK
  <2>3. QuietStep(p)
    <3>1. ~Signed(p)' /\ ~Verified(p)'
      BY <2>1 DEF Signed, Verified
    <3>2. lastKey \in Int
      BY Constants DEF Inv, TypeOK
    <3>. QED BY <1>2, <2>2, <3>1, <3>2 DEF QuietStep, data
  <2>4. InUse(p)' /\ ~Harmless'
    BY <1>2 DEF InUse, Harmless, Causes
  <2>5. tok'[p].cache # NoCtx => Known(tok[p].cache)'
    BY <1>2 DEF NumInv, KeysInv, Known
  <2>. QED BY <2>3, <2>4, <2>5, QuietKeeps
<1>3. CASE /\ End(p) /\ harm' = harm \cup {"freed"}
           /\ UNCHANGED <<tok, lck, data, given, accepted, lastKey>>
  <2>1. /\ call'[p].pc = "idle" /\ call'[p].op = "none"
        /\ \A q \in Proc \ {p} : call'[q] = call[q]
    BY <1>3, EndCall, Defaults DEF Inv
  <2>2. LocalTo(p)
    BY <1>3, <2>1 DEF LocalTo, Inv, TypeOK
  <2>3. QuietStep(p)
    <3>1. ~Signed(p)' /\ ~Verified(p)'
      BY <2>1 DEF Signed, Verified
    <3>2. lastKey \in Int
      BY Constants DEF Inv, TypeOK
    <3>. QED BY <1>3, <2>2, <3>1, <3>2 DEF QuietStep, data
  <2>4. call'[p].pc \notin WritePCs /\ ~Harmless'
    BY <1>3, <2>1 DEF WritePCs, Harmless, Causes
  <2>5. tok'[p].cache # NoCtx => Known(tok[p].cache)'
    BY <1>3 DEF NumInv, KeysInv, Known
  <2>. QED BY <2>3, <2>4, <2>5, QuietKeeps
<1>. QED BY <1>1, <1>2, <1>3 DEF UsesFreed

\* Sign takes the counter as its number and increments it.
LEMMA SignNum ==
  ASSUME Inv, Inv', NumInv, NEW p \in Proc, tok[p].open > 0, SignBody(p)
  PROVE  NumInv'
<1>1. CASE Ends(p)
  BY <1>1, EndsNum
<1>2. CASE \E n \in 0..MaxSeq : UsesFreed(p, n)
  BY <1>2, FreedNum
<1>3. CASE ~Ends(p) /\ ~\E n \in 0..MaxSeq : UsesFreed(p, n)
  <2>1. PICK c : c = Counted(tok[p].cache)
    OBVIOUS
  <2>2. /\ tok[p].cache # NoCtx /\ Changed(p, c) /\ call[p].op = "sign"
        /\ WritesNext(p, tok[p].cache.ctr)
        /\ UNCHANGED <<data, given, accepted, harm, lastKey>>
    BY <1>3, <2>1 DEF SignBody, Changed, log
  <2>3. /\ call'[p].pc = "lockW" /\ call'[p].op = "sign"
        /\ call'[p].num = tok[p].cache.ctr
        /\ \A q \in Proc \ {p} : call'[q] = call[q]
    BY <2>2, WritesFields
  <2>4. /\ c.key = tok[p].cache.key /\ c.ctr = tok[p].cache.ctr + 1
        /\ c.rctr = tok[p].cache.rctr /\ c.tmp = tok[p].cache.tmp
        /\ c.rem = tok[p].cache.rem
    BY <2>1, <2>2, BodyStart DEF Counted, Context
  <2>5. c.key <= lastKey' /\ c.tmp <= lastKey' /\ lastKey <= lastKey'
    BY <2>2, <2>4, BodyStart
  <2>6. tok[p].cache.ctr \in Int /\ c.ctr = tok[p].cache.ctr + 1
    BY <2>2, <2>4, BodyStart
  <2>7. call'[p].num < c.ctr
    BY <2>3, <2>6
  <2>8. ASSUME CountInv, ~tok[p].unseen
        PROVE  /\ Fits(c)
               /\ \A n \in 0..MaxSeq : Issued(c.key, n) => n < call'[p].num
    <3>1. /\ \A n \in 0..MaxSeq : Issued(c.key, n) => n < tok[p].cache.ctr
          /\ \A n \in 0..MaxSeq : Taken(n) => c.rem /\ n <= c.rctr
      BY <2>2, <2>4, <2>8, BodyStart DEF Fits
    <3>2. \A n \in 0..MaxSeq : n < tok[p].cache.ctr => n < c.ctr
      BY <2>6
    <3>. QED BY <2>3, <3>1, <3>2 DEF Fits
  <2>. QED BY <2>2, <2>3, <2>5, <2>7, <2>8, ChangedNum
<1>. QED BY <1>1, <1>2, <1>3

\* A number that is accepted unchecked: from then on nothing is promised.
LEMMA UncheckedNum ==
  ASSUME Inv, Inv', NumInv, NEW p \in Proc, made, End(p), "unchecked" \in harm',
         UNCHANGED <<tok, lck, data, given, lastKey>>
  PROVE  NumInv'
<1>1. /\ call'[p].pc = "idle" /\ call'[p].op = "none"
      /\ \A q \in Proc \ {p} : call'[q] = call[q]
  BY EndCall, Defaults DEF Inv
<1>2. ASSUME NEW q \in Proc, Signed(q)' PROVE Signed(q) /\ call'[q] = call[q]
  BY <1>1, <1>2 DEF Signed
<1>3. ASSUME NEW k, NEW n, Issued(k, n)' PROVE Issued(k, n)
  <2>1. CASE <<k, n>> \in given'
    BY <2>1 DEF Issued
  <2>2. CASE \E q \in Proc : (Signed(q) /\ tok[q].cache.key = k
                              /\ call[q].num = n)'
    BY <1>2, <2>2 DEF Issued
  <2>. QED BY <1>3, <2>1, <2>2 DEF Issued
<1>4. ASSUME NEW q \in Proc, call'[q].pc \in WritePCs PROVE InUse(q)'
  <2>1. q # p /\ call'[q] = call[q]
    BY <1>1, <1>4 DEF WritePCs
  <2>. QED BY <1>4, <2>1 DEF NumInv, KeysInv, InUse
<1>5. /\ file' \in Context => Known(file)'
      /\ \A q \in Proc : tok'[q].cache # NoCtx => Known(tok[q].cache)'
      /\ made' /\ lastKey' = lastKey
  BY DEF NumInv, KeysInv, Known, data
<1>6. \A k \in Keys, n \in 0..MaxSeq : Issued(k, n)' => k <= lastKey' /\ made'
  BY <1>3, <1>5 DEF NumInv, KeysInv
<1>7. KeysInv'
  BY <1>4, <1>5, <1>6 DEF KeysInv
<1>8. ~Harmless'
  BY DEF Harmless, Causes
<1>. QED BY <1>7, <1>8 DEF NumInv

\* Verify only goes on with a number past the last one.
LEMMA VerifyNum ==
  ASSUME Inv, Inv', NumInv, NEW p \in Proc, tok[p].open > 0, made,
         NEW m \in 1..MaxSeq, VerifyBody(p, m)
  PROVE  NumInv'
<1>1. CASE Ends(p)
  BY <1>1, EndsNum
<1>2. CASE UsesFreed(p, m)
  BY <1>2, FreedNum
<1>3. CASE /\ End(p) /\ "unchecked" \in harm'
           /\ UNCHANGED <<tok, lck, data, given, lastKey>>
  BY <1>3, UncheckedNum
<1>4. CASE /\ tok[p].cache # NoCtx /\ tok[p].cache.rem
           /\ m > tok[p].cache.rctr /\ call[p].op = "verify"
           /\ Changed(p, [tok[p].cache EXCEPT !.rctr = m])
           /\ WritesNext(p, m)
           /\ UNCHANGED <<data, given, accepted, harm, lastKey>>
  <2>1. PICK c : c = [tok[p].cache EXCEPT !.rctr = m]
    OBVIOUS
  <2>2. Changed(p, c)
    BY <1>4, <2>1
  <2>3. /\ call'[p].pc = "lockW" /\ call'[p].op = "verify"
        /\ call'[p].num = m
        /\ \A q \in Proc \ {p} : call'[q] = call[q]
    BY <1>4, WritesFields
  <2>4. /\ c.key = tok[p].cache.key /\ c.ctr = tok[p].cache.ctr
        /\ c.rctr = m /\ c.tmp = tok[p].cache.tmp /\ c.rem
    BY <1>4, <2>1, BodyStart DEF Context
  <2>5. c.key <= lastKey' /\ c.tmp <= lastKey' /\ lastKey <= lastKey'
    BY <1>4, <2>4, BodyStart
  <2>6. CountInv /\ ~tok[p].unseen =>
          Fits(c) /\ \A n \in 0..MaxSeq : Taken(n) => n < m
    BY <1>4, <2>3, <2>4, BodyStart DEF Fits
  <2>7. m <= c.rctr
    BY <2>3, <2>4
  <2>. QED BY <1>4, <2>2, <2>3, <2>4, <2>5, <2>6, <2>7, ChangedNum
<1>. QED BY <1>1, <1>2, <1>3, <1>4 DEF VerifyBody, log

\* What the calls do with the list.
LEMMA BodyNum ==
  ASSUME Inv, Inv', CacheInv, NumInv, NEW p \in Proc, Body(p)
  PROVE  NumInv'
<1>1. tok[p].open > 0 /\ made
  BY DEF Body, At, CacheInv, OwnInv, StepInv, TokenInv, LoadPCs
<1>. QED BY <1>1, EndsNum, SetContextNum, SetKeyInfoNum, GenerateNum, ActivateNum,
            SignNum, VerifyNum DEF Body

\* The writer has seen all updates, or one is lost: the number it saves, which
\* is now in the file, is new, and the other tokens have to read it first.
LEMMA WriteNum ==
  ASSUME Inv, Inv', NumInv, NEW p \in Proc, Write(p)
  PROVE  NumInv'
<1>1. /\ call[p].pc = "write" /\ tok[p].cache # NoCtx /\ tok[p].cache \in Context
      /\ InUse(p)
  BY Typed DEF Write, At, CallInv, NumInv, KeysInv, WritePCs
<1>2. /\ file' = Encoded(tok[p].cache) /\ made' /\ lastKey' = lastKey
      /\ given' = given /\ accepted' = accepted /\ harm \subseteq harm'
      /\ harm' = harm \cup Losses(p)
  BY <1>1 DEF Write, env
<1>3. ASSUME NEW q \in Proc
      PROVE  /\ tok'[q].cache = tok[q].cache /\ tok'[q].open = tok[q].open
             /\ call'[q].op = call[q].op /\ call'[q].num = call[q].num
             /\ q # p => call'[q].pc = call[q].pc
             /\ q # p /\ tok[q].cache # NoCtx => tok'[q].unseen
             /\ q # p => (Signed(q)' <=> Signed(q))
             /\ q # p => (Verified(q)' <=> Verified(q))
  <2>1. CASE q = p
    BY <2>1, WriterFields
  <2>2. CASE q # p
    BY <2>2, OtherFields DEF Signed, Verified
  <2>. QED BY <2>1, <2>2
<1>4. call'[p].pc = "unlockW"
  BY WriterFields
<1>5. ASSUME NEW k, NEW n, Issued(k, n)'
      PROVE  \/ Issued(k, n)
             \/ /\ call[p].op = "sign" /\ k = tok[p].cache.key
                /\ n = call[p].num
  <2>1. CASE <<k, n>> \in given'
    BY <1>2, <2>1 DEF Issued
  <2>2. CASE \E q \in Proc : (Signed(q) /\ tok[q].cache.key = k
                              /\ call[q].num = n)'
    <3>1. PICK q \in Proc : /\ Signed(q)' /\ tok[q].cache.key = k
                            /\ call[q].num = n
      BY <1>3, <2>2
    <3>2. CASE q = p
      BY <1>3, <3>1, <3>2 DEF Signed
    <3>3. CASE q # p
      BY <1>3, <3>1, <3>3 DEF Issued
    <3>. QED BY <3>2, <3>3
  <2>. QED BY <1>5, <2>1, <2>2 DEF Issued
<1>6. ASSUME NEW n, Taken(n)'
      PROVE  Taken(n) \/ (call[p].op = "verify" /\ n = call[p].num)
  <2>1. CASE n \in accepted'
    BY <1>2, <2>1 DEF Taken
  <2>2. CASE \E q \in Proc : (Verified(q) /\ call[q].num = n)'
    <3>1. PICK q \in Proc : Verified(q)' /\ call[q].num = n
      BY <1>3, <2>2
    <3>2. CASE q = p
      BY <1>3, <3>1, <3>2 DEF Verified
    <3>3. CASE q # p
      BY <1>3, <3>1, <3>3 DEF Taken
    <3>. QED BY <3>2, <3>3
  <2>. QED BY <1>6, <2>1, <2>2 DEF Taken
<1>7. KeysInv'
  <2>1. Known(file)'
    <3>1. Known(tok[p].cache) /\ lastKey \in Nat
      BY <1>1, Constants DEF NumInv, KeysInv, Inv, TypeOK
    <3>. QED BY <1>1, <1>2, <3>1, EncodedType DEF Known
  <2>2. ASSUME NEW q \in Proc
        PROVE  /\ tok'[q].cache # NoCtx => Known(tok[q].cache)'
               /\ call'[q].pc \in WritePCs => InUse(q)'
    <3>1. tok'[q].cache # NoCtx => Known(tok[q].cache)'
      BY <1>2, <1>3 DEF NumInv, KeysInv, Known
    <3>2. CASE q = p
      BY <1>1, <1>3, <1>4, <3>1, <3>2 DEF InUse
    <3>3. CASE q # p
      BY <1>3, <3>1, <3>3 DEF NumInv, KeysInv, InUse
    <3>. QED BY <3>2, <3>3
  <2>3. ASSUME NEW k \in Keys, NEW n \in 0..MaxSeq, Issued(k, n)'
        PROVE  k <= lastKey' /\ made'
    BY <1>1, <1>2, <1>5, <2>3 DEF NumInv, KeysInv, Known
  <2>. QED BY <1>2, <2>1, <2>2, <2>3 DEF KeysInv
<1>8. ASSUME Harmless' PROVE CountInv'
  <2>1. ~tok[p].unseen /\ CountInv /\ harm' = harm
    <3>1. "lost" \notin harm' /\ Harmless
      BY <1>2, <1>8 DEF Harmless, Causes
    <3>2. ~tok[p].unseen
      BY <1>2, <3>1 DEF Losses
    <3>. QED BY <1>2, <3>1, <3>2 DEF Losses, NumInv
  <2>2. /\ Fits(tok[p].cache) /\ Due(p)
        /\ call[p].op = "sign" =>
             /\ call[p].num < tok[p].cache.ctr
             /\ \A n \in 0..MaxSeq : Issued(tok[p].cache.key, n) => n < call[p].num
        /\ call[p].op = "verify" =>
             /\ tok[p].cache.rem /\ call[p].num <= tok[p].cache.rctr
             /\ \A n \in 0..MaxSeq : Taken(n) => n < call[p].num
    BY <1>1, <2>1 DEF CountInv, Sees, Due, SavePCs
  <2>0. PICK k : k = tok[p].cache.key
    OBVIOUS
  <2>3. /\ \A n \in 0..MaxSeq : Issued(k, n)' => n < tok[p].cache.ctr
        /\ \A n \in 0..MaxSeq :
             Taken(n)' => tok[p].cache.rem /\ n <= tok[p].cache.rctr
    BY <1>5, <1>6, <2>0, <2>2 DEF Fits
  <2>4. Fits(file)'
    <3>1. /\ file'.key = k /\ (k # 0 => tok[p].cache.ctr <= file'.ctr)
          /\ tok[p].cache.rem => file'.rem /\ file'.rctr = tok[p].cache.rctr
          /\ file'.ctr \in Int /\ tok[p].cache.ctr \in Int
      <4>1. Encoded(tok[p].cache) \in Context
        BY <1>1, EncodedType
      <4>. QED BY <1>1, <1>2, <2>0, <4>1, EncodedType, Constants DEF Context
    <3>2. ASSUME NEW n \in 0..MaxSeq, Issued(k, n)' PROVE n < file'.ctr
      <4>1. k # 0
        <5>1. call[p].op = "sign" => tok[p].cache.key \in Keys
          BY <1>1, Typed DEF CallInv, WritePCs
        <5>2. 0 \notin Keys
          BY DEF Keys
        <5>. QED BY <1>5, <2>0, <3>2, <5>1, <5>2, NoKeyNumber
      <4>2. n < tok[p].cache.ctr
        BY <2>3, <3>2
      <4>. QED BY <3>1, <4>1, <4>2
    <3>3. ASSUME NEW n \in 0..MaxSeq, Taken(n)'
          PROVE  file'.rem /\ n <= file'.rctr
      BY <2>3, <3>1, <3>3
    <3>. QED BY <3>1, <3>2, <3>3 DEF Fits
  <2>5. ASSUME NEW q \in Proc PROVE Sees(q)' /\ Due(q)'
    <3>1. CASE q = p
      BY <1>3, <1>4, <2>0, <2>3, <3>1 DEF Sees, Due, Fits, SavePCs
    <3>2. CASE q # p
      BY <1>3, <3>2 DEF Sees, Due
    <3>. QED BY <3>1, <3>2
  <2>6. ASSUME NEW q \in Proc PROVE Once(q)'
    <3>1. /\ call[p].num \in 0..MaxSeq /\ call[p].num \in Int
          /\ call[q].num \in 0..MaxSeq
      BY Typed, Constants DEF Call
    <3>2. call[p].op = "sign" => ~Issued(tok[p].cache.key, call[p].num)
      BY <2>2, <3>1
    <3>3. call[p].op = "verify" => ~Taken(call[p].num)
      BY <2>2, <3>1
    <3>4. CASE q = p
      <4>1. Signed(p)' => call[p].op = "sign"
        BY <1>3 DEF Signed
      <4>2. Verified(p)' => call[p].op = "verify"
        BY <1>3 DEF Verified
      <4>3. Signed(p)' =>
              /\ <<tok[p].cache.key, call[p].num>> \notin given
              /\ \A r \in Proc \ {p} :
                   Signed(r) => \/ tok[r].cache.key # tok[p].cache.key
                                \/ call[r].num # call[p].num
        BY <3>2, <4>1 DEF Issued
      <4>4. Verified(p)' =>
              /\ call[p].num \notin accepted
              /\ \A r \in Proc \ {p} : Verified(r) => call[r].num # call[p].num
        BY <3>3, <4>2 DEF Taken
      <4>. QED BY <1>2, <1>3, <3>4, <4>3, <4>4 DEF Once
    <3>5. CASE q # p
      <4>1. Once(q)
        BY <2>1 DEF CountInv
      <4>2. Signed(q) /\ Signed(p)' => \/ tok[p].cache.key # tok[q].cache.key
                                       \/ call[p].num # call[q].num
        BY <1>3, <3>2, <3>5 DEF Issued, Signed
      <4>3. Verified(q) /\ Verified(p)' => call[p].num # call[q].num
        BY <1>3, <3>3, <3>5 DEF Taken, Verified
      <4>4. \A r \in Proc \ {q} :
              Signed(q) /\ Signed(r)' => \/ tok[r].cache.key # tok[q].cache.key
                                         \/ call[r].num # call[q].num
        BY <1>3, <4>1, <4>2 DEF Once
      <4>5. \A r \in Proc \ {q} :
              Verified(q) /\ Verified(r)' => call[r].num # call[q].num
        BY <1>3, <4>1, <4>3 DEF Once
      <4>. QED BY <1>2, <1>3, <3>5, <4>1, <4>4, <4>5 DEF Once
    <3>. QED BY <3>4, <3>5
  <2>. QED BY <2>1, <2>4, <2>5, <2>6 DEF CountInv
<1>. QED BY <1>7, <1>8 DEF NumInv

\* The environment.
LEMMA EnvironmentNum ==
  ASSUME NumInv, RemoveOrphan \/ Tick \/ UNCHANGED vars
  PROVE  NumInv'
<1>1. UNCHANGED <<tok, call, file, made, given, accepted, harm, lastKey>>
  BY DEF RemoveOrphan, Tick, vars, data, log, env
<1>2. /\ \A k, n : Issued(k, n)' <=> Issued(k, n)
      /\ \A n : Taken(n)' <=> Taken(n)
  BY <1>1 DEF Issued, Taken, Signed, Verified
<1>3. KeysInv'
  BY <1>1, <1>2 DEF NumInv, KeysInv, Known, InUse
<1>4. ASSUME Harmless' PROVE CountInv'
  <2>1. CountInv
    BY <1>1, <1>4 DEF Harmless, NumInv
  <2>2. ASSUME NEW p \in Proc PROVE Sees(p)' /\ Due(p)' /\ Once(p)'
    <3>1. Sees(p) /\ Due(p) /\ Once(p)
      BY <2>1 DEF CountInv
    <3>2. Sees(p)'
      BY <1>1, <1>2, <3>1 DEF Sees, InUse, Fits
    <3>3. Due(p)'
      BY <1>1, <1>2, <3>1 DEF Due
    <3>4. Once(p)'
      BY <1>1, <3>1 DEF Once, Signed, Verified
    <3>. QED BY <3>2, <3>3, <3>4
  <2>. QED BY <1>1, <1>2, <2>1, <2>2 DEF CountInv, Fits
<1>. QED BY <1>3, <1>4 DEF NumInv

\* The initial states: no number is used up.
LEMMA InitNum == Init => NumInv
<1>. SUFFICES ASSUME Init PROVE NumInv
  OBVIOUS
<1>1. ASSUME NEW p \in Proc
      PROVE  /\ tok[p].cache = NoCtx /\ call[p].pc = "idle"
             /\ ~Signed(p) /\ ~Verified(p)
  BY Defaults DEF Init, Fresh, Signed, Verified
<1>2. (\A k, n : ~Issued(k, n)) /\ (\A n : ~Taken(n))
  BY <1>1 DEF Init, Issued, Taken
<1>3. file \in Context => Known(file)
  <2>1. OldFile.key = 1 /\ OldFile.tmp = 1
    BY DEF OldFile, Encoded, Blank, NoInfo
  <2>. QED BY <2>1, Constants DEF Init, Known
<1>4. KeysInv
  BY <1>1, <1>2, <1>3 DEF KeysInv, WritePCs
<1>5. ASSUME NEW p \in Proc PROVE Sees(p) /\ Due(p) /\ Once(p)
  BY <1>1 DEF Sees, Due, Once
<1>. QED BY <1>2, <1>4, <1>5 DEF Init, NumInv, CountInv, Fits

\* Every step keeps the invariant.
LEMMA NextNum ==
  Inv /\ Inv' /\ CacheInv /\ NumInv /\ [Next]_vars => NumInv'
<1>. SUFFICES ASSUME Inv, Inv', CacheInv, NumInv, [Next]_vars PROVE NumInv'
  OBVIOUS
<1>1. ASSUME NEW p \in Proc, Step(p) PROVE NumInv'
  BY <1>1, CreateStatNum, CreateExclNum, ReloadIfNeededNum, LockedNum,
     FailuresNum, ReadNum, StatFileNum, BodyNum, WriteNum DEF Step
<1>2. ASSUME NEW p \in Proc,
             \/ Open(p) \/ Create(p) \/ \E abandon \in BOOLEAN : Close(p, abandon)
      PROVE  NumInv'
  BY <1>2, OpenNum, CreateNum, CloseNum
<1>3. ASSUME NEW p \in Proc,
             \/ Query(p) \/ SetContext(p) \/ SetKeyInfo(p) \/ ActivateKey(p)
             \/ Crypt(p) \/ Sign(p) \/ Verify(p) \/ GenerateKey(p)
      PROVE  NumInv'
  BY <1>3, UseNum
     DEF Query, SetContext, SetKeyInfo, ActivateKey, Crypt, Sign, Verify,
         GenerateKey, Ops
<1>4. ASSUME NEW p \in Proc, Crash(p) PROVE NumInv'
  BY <1>4, DiesNum DEF Crash
<1>. QED BY <1>1, <1>2, <1>3, <1>4, EnvironmentNum DEF Next

\* The invariant holds in every reachable state.
LEMMA NumInvariance == Spec => []NumInv
BY InitNum, NextNum, Invariance, CacheInvariance, PTL DEF Spec

\* Sign returns no number of a key twice, and Verify accepts no remote number
\* twice, unless an update was lost, a freed context was used, a used key was
\* activated again, SetKeyInfo has set a counter back, or Verify has met a remote
\* key without a counter.
THEOREM NumbersTheorem == Spec => []NumbersFresh
<1>1. NumInv => NumbersFresh
  BY DEF NumInv, CountInv, Harmless, NumbersFresh
<1>. QED BY <1>1, NumInvariance, PTL
=============================================================================
