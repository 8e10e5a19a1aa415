# Verification of gwenhywfar: locks, key files, configuration, caches, streams, messages

gwenhywfar is the C library below AqBanking: portable OS wrappers, containers, parsers,
a configuration store, stream and message I/O, cryptography and a GUI abstraction. Most
of it is sequential data processing. This project models the parts whose correctness
depends on *order*: what several processes do to the same files (locks, configuration
groups, key files), what a peer on a network sees or sends (messages, HTTP), what
remains after a failure, and the two data structures in which an index or a counter that
is off by one corrupts memory long after the call that made the mistake.

Paths are relative to the root of the repository. In PROJECT.json, `map` gives
the source lines of every definition, `hazards` the places that are hard to test,
`findings` the disagreements between code and documentation.

## 1. Inventory

| component | state | operations | hard behaviour | what makes it correct |
|---|---|---|---|---|
| FSLOCK (`src/os/posix/fslock.c`) | per object: `usage`, `lockCount`; on disk: `X.lck` and a unique file `X.lck.HOST-PID` | new, attach, Lock(timeout), Unlock, free | a race of `open`/`stat`/`link`/`remove` among processes, NFS answers that get lost, deaths, pid reuse, the "Remove Lock" dialog, timeouts | one holder; Unlock removes the holder's own file; every exit cleans up; calls return |
| Ring buffer (`src/base/ringbuffer.c`) | array, two positions, `bytesUsed`, statistics | Write/ReadBytes, Write/ReadByte, Skip*, GetMaxUnsegmented*, Reset | full and empty have equal positions; wrap-around; loops over segments | a bounded byte queue; no uninitialised byte is read; the loops end |
| Directory configuration manager (`plugins/configmgr/dir/cfgdir.c`, with `src/os/directory_all.c`) | a file per sub-group, "uniqueid", the list `fileLocks` | GetUniqueId, MkUniqueIdFromId, Lock/Unlock/Get/Set/DeleteGroup | read-modify-write by several processes; truncation before the contents arrive; creation of files outside any lock | fresh numbers, no lost updates |
| Multi cache (`src/base/multicache.c`) | a list in order of use, an idmap per type, `currentSize`, reference counters | Get/Set/PurgeData, PurgeAll, free of types and cache | the same entry in two containers; eviction; a caller who ignores AddEntry's failure | both containers agree; sizes and references balance; LRU |
| Message endpoints (`src/msgio/endpoint*.c`) | state, socket, send list with position, message being received, receive list | IoLoop, AddSendMessage, TakeFirstReceivedMessage, Disconnect, reconnect, accept | partial reads and writes, connections ending anywhere, reconnects | messages arrive whole, in order, eventually |
| Requests and multi-layer endpoints (`src/msgio/request.c`, `endpoint_multilayer.c`) | request state and counted references to endpoints | sub-requests, timeouts, finish | late answers, endpoints that go away | every request ends once |
| File crypt tokens (`src/crypttoken/ctfile.c`, `ct.c`, `plugins/ct/ohbci/ohbci.c`) | per token: `openCount`, the list of contexts, the file's times seen last; the key file with keys and signature counters | Open, Close, Create, GetKeyInfo..., SetContext, SetKeyInfo, GenerateKey, ActivateKey, Sign, Verify, Encipher, Decipher | several processes cache one file and compare times of whole seconds; stat outside the lock; pointers kept over a reload; failures between truncation and writing | the file keeps its contents; no signature number twice; no update overwritten unseen; the lock is given up on every path |
| Buffered streams (`src/sio/syncio_buffered.c`) | two ring buffers, line-mode state | Read, Write, Flush, Connect, Disconnect | lines cut into portions, a read buffer that survives a reconnect | bytes in order; nothing of an old connection is read on a new one |
| HTTP streams and sessions (`src/sio/syncio_http.c`, `httpsession.c`) | read and write mode, sizes left, header data; a session's streams | SendPacket, RecvPacket, RecvPacketToFile, ConnectionTest, Init, Fini | answers that end, break or stall anywhere; errors ignored on purpose; modes that survive a reconnect; loops that do not stop at the end of the stream | success means the answer to this request; calls return |
| Sockets and TLS; crypt keys and messages | handles of the operating system, GnuTLS and libgcrypt | | external | the libraries' own tests |
| Parsers; containers; memory cache; inheritance and signals; GUI; OS wrappers; code generators | see PROJECT.json | | mostly sequential or external | unit tests |

Interactions. `cfgdir.c` takes an FSLOCK for every group and for "uniqueid", and
lets `GWEN_Directory_GetPath` create its files. `ctfile.c` reads and rewrites its key
file under an FSLOCK, through the functions of the format plugin. An HTTP session
owns an HTTP stream on a buffered stream on TLS or a socket; the ring buffer is used
below the buffered stream. The server endpoint
owns one child endpoint per connection; the message layer of `endpoint_msgio.c`
and the IPC framing of `endpoint_ipc.c` are attached to endpoints through the
library's inheritance mechanism and called back from `GWEN_MsgEndpoint_IoLoop`.
All components are single-threaded per object; concurrency is between processes,
or between a process and its peer.

## 2. Modules

| module | models |
|---|---|
| `LockService` | abstract: what a lock on a file promises |
| `FSLock` | the lock-file protocol, one step per system call; implements `LockService` |
| `FSLockProofs` | inductive invariant and theorems about `FSLock` |
| `ByteFifo` | abstract: a bounded byte queue with segmented calls |
| `RingBuffer` | the circular array, one step per loop iteration; implements `ByteFifo` |
| `RingBufferProofs` | inductive invariant and theorems about `RingBuffer` |
| `ConfigMgrDir` | the configuration manager over locks that behave as `LockService` and over files that are truncated before they are written |
| `ConfigMgrDirProofs` | inductive invariant and theorems about `ConfigMgrDir` |
| `MultiCache` | the cache, `AddEntry` one loop iteration at a time |
| `MultiCacheProofs` | inductive invariant and theorems about `MultiCache` |
| `MsgIo` | client endpoint, server child and message layer over an external byte stream |
| `MsgIoProofs` | byte streams made of messages; inductive invariant and theorems about `MsgIo` |
| `CtFile` | tokens of several processes on one key file, over a lock that behaves as `LockService` |
| `CtFileProofs` | inductive invariant and theorems about `CtFile`: types, lock, file |
| `CtFileCacheProofs` | on top of it: what a token's cache has to do with the file, and the signature numbers |
| `BufferedIo` | reading through a buffered stream, over an external connection |
| `HttpSession` | the HTTP client, session and stream, on top of `BufferedIo` (which it extends) |
| `HttpSessionProofs` | inductive invariant and theorems about `HttpSession` |
| `MC*` | constants and symmetry for TLC |

Definitions whose name starts with `Mut` are slips a programmer could make in the
definition that follows them; no specification uses them. They document, for
every property, one mistake that the property detects (`mutants` in PROJECT.json).

### FSLock

`base` is the lock file (its creator, `Stale` when nobody who is alive owns it,
`NoFile`); `uniq` says for each process whether its unique file exists and whether
it is hard-linked to `base`. `pc` is the point between two system calls. An
attempt runs `OpenUnique`, `StatUnique`, `LinkBase`..., `CheckLink`, or `ExclBase`
on file systems without links (`linkOk`); the loop around it is `Lock`,
`BusyReturn`, `BusyTimeout`, `BusyAsk`, `BusyWait`, `WakeUp`. Time is counted in
sleeping periods (`waited`); `WakeUp` lets any number of them pass. The dialog's
buttons are `AnswerWait`, `AnswerAbort`, `AnswerRemove`. Faults (`Faults`): death
of a process at any point with reuse of its pid, failing `stat`, failing `link`,
a `link` that works and reports an error, objects freed while they hold the lock.
`stolen` records that a forced removal has hit the file of a live owner.

Abstractions: processes have one thread (`MayRun`), as the unique file's name
contains only host and pid; a user presses "Remove Lock" only while no live object
owns the lock (the dialog warns of this). The race that remains, between the
button and `remove()`, is in the model, and is what `stolen` is for.

### RingBuffer

The variables have the names of the structure's members. A call of WriteBytes or
ReadBytes is `WriteBytes`/`ReadBytes`, some `WriteLoop`/`ReadLoop` and
`WriteReturn`/`ReadReturn`. Memory from `malloc` is `Unset` until somebody writes
it. Direct access is one step of a caller that respects GetMaxUnsegmentedWrite or
...Read, which is the documented contract of the Skip functions. Statistics are
counted modulo `StatMod`.

### ConfigMgrDir

One group directory. `file` maps each sub-group, and key 0 for "uniqueid", to its
contents. Every operation begins with GetPath: `PathStat`, and when the file is
missing `PathCreate`, an `open` with `O_CREAT|O_TRUNC` without a lock. Only then
comes `TakeLock`. Rewriting is `UidOpen` (truncates) and `UidWrite`, or `SetOpen`
and `SetWrite`; the data is taken to arrive at once with `fclose`. Every file operation
may fail (`Faults`). A "uniqueid" that cannot be read counts as 0 and the call carries on
(`LastIds`, `NextId`): it rewrites a file whose number it does not know (`openBlind`),
which damages it. A failing `unlink` is not noticed. A lock step is
atomic, which `FSLock`'s refinement of `LockService` justifies; the lock of a dead
process is orphaned and a user may remove it. `given`, `reserved`, `saved`, `seen`
and `damaged` are history: the numbers given out and reserved, the last contents
saved, what a manager has read under its lock, and the files that lost their
contents to a death, a full disk, another process's `PathCreate` or a call that could
not read them.

### MultiCache

`entryList` is the list in order of use, `idMap` the idmaps of the types. `SetData`
purges the old entry, computes `nsize` with unsigned arithmetic (`Word`, `Signed`), and
`MakeRoom`, `MemoryFull` or `AddEntry` follow. `refs` are the reference counters of the
objects, `held` the references callers have. When an object is larger than the cache
AddEntry fails and SetData inserts the entry nevertheless (`overfull`). `Without` is the
list without the entries that ReleaseEntry takes out; `MCMultiCache` compares it with
`SelectSeq` for all short lists. `SizeSum` counts the bytes of the entries. What happens
after that is explored when `GoOn` is TRUE; the invariants describe the cache up to that
point.

### MsgIo

`sock` and `wire` are the external byte stream: `Capacity` bytes in each direction, cut
anywhere by `Break`. `WriteCurrentMessage` sends any non-empty part of the rest of the
first message, its position taken modulo `PosMod` (the `uint8_t` in
`_writeCurrentMessage`), so that a message longer than that may be taken up again at the
wrong place; `Alike` says what is left of it. `ReadCurrentMessage` takes any part of
what one message needs, which covers all ways a buffer can be cut up by
`_distributeBufferContent`. `Disconnect` leaves the client's half messages in place, as
the code does; the server's child is removed. `CheckConnect` has the connect failure
that is reported once. A server accepts the next connection when the child of the one
before has come to its end. `torn` records that the client lost a connection within a
message.

### CtFile

`tok[p]` is the token object of process `p`: `open` is openCount, `cache` its only
context (or none), `mtime` the time of the file seen last; `file`, `ftime` and `lck` are
the key file, its times and its lock. `call[p]` is the call in progress. A call that
uses the token begins with `ReloadIfNeeded`: the times are compared without a lock, and
when they differ the list is emptied and ReadFile runs: `OpenFile` (or `OpenFileFails`,
`NoFile`), `Read` or `ReadFails`, `Unlock` or `CloseFails`, and `StatFile`, which takes
the times *after* the lock was released, as CloseFile does. `Body` is what each call
does with the list; the calls that change it go on with WriteFile: `OpenFile`,
`Truncate` or `EncodeFails`, `Write` or `WriteFails`, `Unlock`, `StatFile`. Sign,
Verify, Encipher and Decipher reload twice, the second time in GetKey, which may free
the context they already point to; `UsesFreed` is what may follow, a death, no counter
found, or a number from freed memory. `SetKeyInfo` may also set a counter to one of
`Counters`, larger or smaller than it was. `Verify` with a remote key whose info has no
counter (`rcnt`) accepts every number and records none. Close writes the list without
looking at the file. Create makes an empty file (`CreateExcl`) before it takes the lock.

Data is cut down to what the properties distinguish. Of the seven keys of a context
there are the local sign key (with its counter), the remote sign key (with the last
accepted number) and the temporary sign key; the others have no number, or are handled
in the same way. Keys are numbered in the order of generation. `Encoded` is what
writing and reading make of a context: the info of the temporary key, missing in a
new context, exists after a reload, a counter of 0 has become 1, and counters exist for
the keys that do. Cryptography succeeds or fails. A lock step is
atomic, as in `ConfigMgrDir`; waiting for it fails while another has it. Callers
close what they have opened and create only through a token that is not open.

History: `given` and `accepted` are the numbers returned and accepted, `dirty`,
`unseen` and `why` say what a cache is behind and why its token could not know, `raced`
that another process wrote while a Sign or Verify still needed its context, `harm` what
has gone wrong; `Causes` are the things that can make a number come twice.

### BufferedIo and HttpSession

The server's answer is a sequence of tokens: a line (status, header field, length,
chunk size, empty line) or a piece of a body. `conn` delivers it in portions of any
size and may be closed, reset or fall silent at any moment. A session's streams have TLS
or have not (`conn.tls`). Without TLS, silence is a timeout and the connection stays as it
is; GWEN_SyncIo_Tls_Read turns it into GWEN_ERROR_SSL and disconnects (end "silent"). In
line mode `Fill` reads
ahead into `readBuffer` and `TakePiece` returns up to the first end of a line; in the
transparent mode the buffer is emptied first and bypassed then. Lines arrive whole;
that a stream may end *within* a line is in `ReadLineFails` (`EndsWithin`, `Cuts`).
Bodies contain nothing that looks like a status line of its own. `WellFormed` is what is
assumed of a server: an answer begins with a status line, and one that reports success has
a header up to an empty line and a body up to the end (`Plain`, of the stated length if one
is stated) or in chunks (`Chunked`). Without it, "the body of the answer" means nothing.
Of other answers only the status line is assumed, and that it does not say HTTP/0.9:
after such a line no header is read and the read mode stays idle (`syncio_http.c:228`),
which is left out.

`http` has the members of the HTTP stream that outlive a call. A call starts at
`SendPacket`, `RecvPacket` or `RecvPacketToFile` and takes one step per read or write
of the layer below. `Codes`, `ParseHeader`, `GotSize` and `AfterHeader` are the parsers,
reduced to which token they accept and which mode follows. `ReadFailed` and `ReadGot`
are the loop of RecvBody, with the errors it ignores once its buffer holds data, the
answer's or what the caller had put there before (`Ignored`); `Received` is the end of a
packet. `Connect` on a stream that is connected does nothing, as in the code, and
neither it nor `Disconnected` resets the read buffer or the write mode. `dead` is a
process that dereferenced NULL in ParseHeader. `taint` records that the answer on a
connection may not be the one asked for: `leftover`, the read buffer still held
something when it was made, `reused`, a request or a reading had been made on it
already. `reqs` are the units of all requests begun on a connection, `out` the units
written. `IsBody` compares what was received with the body of an answer: a growing
numbering of the one by the places of the data in the other.

## 3. Runs

| run | instance | checks | result |
|---|---|---|---|
| `fslock_safe` | three objects in two processes, one death, all faults, no forced removal | `TypeOK`, `MutualExclusion`, refinement `ServiceSpec` | holds, about 590,000 states |
| `fslock_live` | two processes, both users may force locks, unreliable `link` | `MutexUntilStolen`, `HolderOwnsFile`, `NothingLeftBehind`, `LockReturns` | holds, 64,000 states |
| `fslock_forever` | two processes without faults, infinite timeouts | `ForeverWaiterWakes` | violated: finding 1 |
| `ringbuffer` | three slots, two byte values, calls of up to four bytes | `TypeOK`, `StoredBytesWritten`, `LoopsProgress`, refinement `FifoSpec`, `CallsReturn` | holds, 106,000 states |
| `configmgr_dir` | two processes, one sub-group, two numbers, a death, failing file operations, reads included | `TypeOK`, `NewIdIsFresh`, `StableUnderLock`, `LockedReadCurrent` | holds, 1.8 million states |
| `configmgr_first_id` | the same without faults | `UniqueIds` | violated: finding 2 |
| `multicache` | two types, two ids, objects of sizes 1, 2 and 5, four bytes | `TypeOK`, `MapMatchesList`, `SizeAccounting`, `RefsBalanced`, `DropsOnlyForRoom`, `RecentDroppedLast` | holds, 116,000 states |
| `multicache_oversize` | callers go on after a failed AddEntry | `CallersObjectsLive` | violated: finding 3 |
| `msgio` | two messages to the server, one back, of which one kind is longer than a position can count; two ends of connections | `TypeOK`, `FramesIntact`, `SizeKnownUntilTorn`, `AllDelivered`, `ClientDrains` | holds, 155,000 states |
| `ctfile` | two processes on one key file, new or old; five calls or faults; deaths, failing file operations, refused passwords; counters set to 0; a clock of whole seconds | `TypeOK`, `FileIntact`, `LockReleased`, `NumbersFresh`, `NoSilentLoss`, `CacheCurrent`, `ContextLive` | holds, 3.3 million states |
| `http` | three requests over two connections, with and without TLS, six kinds of answers, each ending anywhere | `TypeOK`, `Delivered`, `StatusOwn`, `BufferClean`, `RequestWhole`, `CallsReturn` | holds, 856,000 states |
| `msgio_torn` | one end of a connection | `SizeKnown` | violated: finding 4 |

What the holding properties say:

* *One holder.* Without forced removals no fault of the model gives the lock to
  two objects. With them it takes a removal that hits a live owner. Until then the
  holder's Unlock removes the holder's own file. A call that ends leaves no file
  behind unless a process died, a lock was leaked or `stat` failed.
* *A queue.* Bytes leave the ring buffer in the order they came, whatever segments
  they were copied in; no iteration copies zero bytes.
* *Numbers and groups.* As long as a file has not lost its contents, and no call has
  rewritten "uniqueid" without having been able to read it, numbers are fresh, what is
  read under a lock is the last state saved, and it does not change until its reader
  changes it. The condition is not idle: finding 2 is the way to make it false without
  any fault.
* *Cache.* List and idmaps agree, sizes and references balance, entries are dropped
  only while the new one does not fit, the entry used last is dropped last. All
  until an object is set that does not fit at all.
* *Messages.* Whole, in order, not twice, until the client loses a connection
  within a message; all of them when nothing ends the connection; and the client
  always gets rid of its messages, also when connecting fails. A message longer than its
  position can count keeps its place and its length, so that it does not disturb the ones
  after it, and as many of its first bytes as the position counts.
* *Key files.* Once written, the file is complete for everybody who reads it under the
  lock, until a fault hits the writer; a token whose reload failed never saves its
  emptied list. No path keeps the lock. A number is signed or accepted twice only after
  one of five things the code leaves open: an update was lost, a freed context was used,
  a key in use was activated again, SetKeyInfo has set a counter back below a number in
  use, or Verify has met a remote key without a counter. Each of them occurs: with any
  one struck from `Causes` TLC finds `NumbersFresh` violated. An update is lost only by
  Close or through one of three windows: a write between the comparison and the lock, a
  second write within one second, a write between unlocking and `stat`. A context is
  freed under a call only when another process writes during it.
* *HTTP.* Success means the body of this connection's answer, or a beginning of it when
  the connection ended early. Without TLS a server that stalls is never taken for one
  that has finished; over TLS it is, once a part of the body has come. Nothing of a
  successful answer stays behind. Requests go out whole and once. Every call returns,
  though RecvBody goes on reading after the end of the stream.

What the conditions of these properties stand for, each reachable in the model:

* Close writes its cache over whatever others have written (`ctfile.c`, Close).
* ActivateKey leaves the temporary key in place; a second activation restarts the
  counter of the key at 1.
* GetKey's reload frees the context that Sign, Verify, Encipher and Decipher hold.
* SetKeyInfo takes the caller's counter, also a smaller one (`ctfile.c:926-931`; the tool's
  `setsignseq.c:149-151` and `setkey.c:170-177`). Sign then returns numbers again.
* Verify with a remote key info that has no counter warns, accepts and records nothing
  (`ctfile.c:1796-1798`).
* A "uniqueid" that is there but cannot be read counts as 0 (`cfgdir.c:210-218`,
  `299-307`); it is truncated and 1 given out again.
* A body that is cut short by the end or the reset of a connection is returned with the
  server's 200, also when a Content-Length or a chunk says that more was to come. Over TLS
  so is one whose server fell silent: the timeout becomes GWEN_ERROR_SSL
  (`syncio_tls.c:1176-1181`, `1487-1516`), which RecvBody ignores once it has data
  (`syncio_http.c:1433`).
* After a write error the HTTP stream refuses all later requests of the session, on new
  connections too; only a new session helps.
* RecvPacketToFile that cannot open, flush or close its file leaves the connection open.
  The next request is sent on it, and gets the unread answer if there is one.
* "100 Continue" is returned as the result of a packet, the answer proper as its body.
* The page of an error without a length is not read. What the buffered stream has read
  ahead of it becomes the beginning of the next answer's status line.
* A connection that ends within a line of the header makes ParseHeader dereference NULL.

### Bounds

* FSLock: a second object in one process is what it takes to share a unique file,
  a second process to race for `base`; a third object distinguishes a waiter from
  a rival. One death suffices for a stale file and the reuse of its pid. `Timeout`
  of two periods in `fslock_live` puts the dialog before and the timeout after a
  sleep. The theorems hold for all sizes.
* RingBuffer: three slots are the smallest size at which both segments of a
  wrapped write can have different lengths; four bytes exceed the buffer. The
  theorems hold for all sizes.
* ConfigMgrDir: two managers race on one file; two numbers make a fresh one and a
  repeated one possible. When the numbers are used up, GetUniqueId ends with an
  error (marked in the module). The theorems hold for all values.
* MultiCache: four bytes hold two small objects or a small and a large one, so
  that one insertion evicts none, one or two entries. An object of size 5 fits
  never. `WordMod` is larger than every sum that occurs without an underflow. The
  theorems hold for all values, with an even `WordMod` (2^64 in the code).
* MsgIo: messages of up to a header and payload that need several reads; a socket
  that takes three bytes is full within a message. `PosMod` = 2 lets the position of a
  message of three bytes wrap, as that of one of more than 255 bytes does in the code, while
  the one of two bytes stays below it. The theorems hold for messages of any length and any
  number of connections.
* CtFile: two processes, the smallest number at which one misses what the other
  writes. Five calls or faults let each open, change and overwrite, with one fault. Two
  keys and two numbers make a repeated number and a second activation possible; setting a
  counter to 0 (`Counters`), the value at the boundary, sets it back once a number was
  used; a clock that ticks once distinguishes the same second from a later one. Each of
  the five causes can occur within these bounds. The theorems hold for all values.
* HttpSession: a buffer of four tokens holds the rest of a header and the beginning of
  the body, or an answer's end and nothing more; reads of two tokens cut a body of
  three. Two connections: one to leave something behind, one to meet it; three requests,
  so that one of the connections carries two. The theorems hold for all sizes and all
  answers that are `WellFormed`.

### Fairness

* FSLock: a process in a call takes its next step (weak fairness of `Step`), and
  users answer a dialog. Callers need not call, nor release what they hold;
  `Signal` is not fair, as nothing guarantees a signal.
* RingBuffer: a call that has begun runs to its end.
* MsgIo: applications call IoLoop again and again and take what has arrived; the
  operating system answers a connect. Each kind of step is weakly fair: a socket
  that stays readable or writable is served.

* HttpSession: weak fairness of the steps of a call. Every read and write of the socket
  returns, if only after the timeout of `syncio_socket.c`, and the call goes on with its
  result. Over TLS this assumes more: GWEN_SyncIo_Tls_Read repeats gnutls_record_recv() as
  long as it says GNUTLS_E_AGAIN (`syncio_tls.c:1487-1490`), which it also does after a
  timeout that left EAGAIN in `errno`; that this loop ends is taken for granted. Callers
  need not call.

Deadlock is checked in all runs but three: in `msgio` both applications may have sent
all they wanted, in `ctfile` the calls are counted, in `http` callers may stop and a
process may be dead.

## 4. Findings

1. `fslock.c:405`: a caller that waits with GWEN_TIMEOUT_FOREVER sleeps in
   `select` without a timeout and stays asleep after the lock was released.
2. `directory_all.c:199`: GetPath truncates a file another process has created and
   written after `stat` did not find it. Two processes get the same first number of
   a new group.
3. `multicache.c:316`: after a failed AddEntry the entry is in the idmap without a
   reference; a later purge frees a reference of somebody else.
4. `endpoint.c:483`: after a reconnect the client goes on with half messages of the
   old connection; the receiver computes an impossible message size.

## 5. Proofs

The theorems hold for every value of the constants that satisfies the named
assumptions of the modules (`FSLockAssumption`, `RingAssumption`, `ConfigAssumption`,
`CacheAssumption`, `MsgIoAssumption`, `BoundAssumption`, `CtFileAssumption`,
`BufferedIoAssumption`, `HttpAssumption`), which TLC
evaluates in the runs. Three assume more, where the code needs more: `MutexNoForce` and
`Refinement` of `FSLock`, and `CleanUpTheorem`; see below.

**FSLockProofs.** The invariant is
`Inv == TypeOK /\ OneThread /\ CallInv /\ (stolen \/ FileInv)`.

* `OneThread`: at most one object of a process is between two system calls. Without
  it the unique file could change under an attempt.
* `CallInv`: what local variables say at each point of a call; it carries the guard
  `lockCount < MaxCount`, tested when Lock begins, to the increment several system
  calls later.
* `FileInv`: who owns `base` (a holder, an object about to remove it, or one whose
  `link` worked and whose answer was lost), and what the link count read by `stat`
  says of the unique file: a link count that has grown by one since means that
  *this* attempt made the link, also when the process found an old, linked unique
  file of a predecessor with the same pid.

`StepIsLocal` says what a step of one object leaves alone of the others,
`StepKeepsOwn` that it keeps its own part; `StepInv` puts them together. Theorems:
`TypeCorrect`, `MutexTheorem` (`MutexUntilStolen`), `OwnershipTheorem`
(`HolderOwnsFile`); and under the assumption `Remover = {}`, that no user forces
locks, `MutexNoForce` (`MutualExclusion`) and `Refinement` (`ServiceSpec`). The
assumption is needed: `fslock_live` has behaviours in which a removal hits a new
owner.

`CleanUpTheorem` (`NothingLeftBehind`) rests on a second invariant, `CleanInv`, which says
of every file who is going to remove it: a unique file, and a link between it and the
lock file, belongs to an object of its process that is between two system calls or
holds the lock (`UniqueUsed`), a lock file to its owner (`OwnerActive`) or, after a
forced removal, to whoever holds the lock still (`StaleUsed`). Attempts of one process
share the unique file. An attempt that finds it linked to the lock file, because a
*sibling* holds the lock, would not recognise its own `link`; `AttemptOK` says that the
sibling is there to clean up then. The theorem assumes `CleanFaults`: nobody dies, no
holder is freed, and failing `stat` and lost answers of `link` do not occur together (a
`link` that worked, whose answer is lost and whose `stat` fails, leaves a lock file to
nobody). Forced removals and failing `link` are allowed.

**RingBufferProofs.** The invariant is
`Inv == TypeOK /\ PositionsAgree /\ StoredBytesWritten /\ JobInv`. `PositionsAgree`
(the write position lies `bytesUsed` after the read position) is what makes the
others inductive: it says that the segment computed from the positions consists of
free (or of used) slots. `CopyInLemma` and `CopyOutLemma` show that copying a
segment appends to, or removes from, the queue. Theorems: `TypeCorrect`,
`NoUninitialisedRead`, `LoopProgress` and `Refinement` (`FifoSpec`).

**CtFileProofs.** The invariant is
`Inv == TypeOK /\ CallsInv /\ LockReleased /\ FileIntact /\ FileStays`. `CallsInv` says
what a call may rely on at each point: a Close has a token that is open, a Sign that
writes has a context with a key, and whoever writes the file has a context to write.
It carries the test made before the truncation (`Encodes`) to the write after it.
`FileStays` (a file that has had contents does not disappear) is why Create's
`CreateExcl` cannot replace a complete file by an empty one. Every step but `Write`
changes one process only; `LocalKeeps` shows that it suffices to look at what such a
step does to its own call, to the lock and to the file, and one lemma per action does.
`WriteInv` is the step that touches the other tokens. Theorems: `TypeCorrect`,
`LockTheorem` (`LockReleased`) and `FileTheorem` (`FileIntact`).

**CtFileCacheProofs.** `CacheInv`, proved on top of `Inv`, relates every token to the file:
a version of the file that a token has not seen is later than the time it remembers,
unless one of the three windows was open (`Noticed`); a cache that is neither changed
nor behind is what the file holds (`InSync`); a call whose second reload finds nothing
new still has its context. Theorems: `SilentTheorem` (`NoSilentLoss`), `ContextTheorem`
(`ContextLive`), `CacheTheorem` (`CacheCurrent`).

Its second part, on the numbers, has `NumInv == KeysInv /\ (Harmless => CountInv)`.
`CountInv` says that the counters in the file, and in every cache that may be written,
are past all numbers used up. A number is used up from the moment it is in the file,
before Sign or Verify return it: the history variable that is set when a call returns is
not inductive, and `usedBefore` of the model had to look at calls in that interval
(`Signed`) as well. `KeysInv` says that keys in use have been generated, so that a new
key has no numbers. `Harmless` is that none of `Causes` has happened. Of numbers
accepted from the remote side `CountInv` says more than that they are at most the
counter: while there are any, the remote key is known, as writing a context without it
would drop the counter. A counter set by SetKeyInfo keeps `CountInv` or is a cause.
Theorem: `NumbersTheorem` (`NumbersFresh`).

**ConfigMgrDirProofs.** The invariant is `Inv == TypeOK /\ MgrInv /\ UidInv /\ SavedInv
/\ ReadInv`. `MgrInv` ties the point of a call to the locks its process has and to the
arguments it was made with. `UidInv`: the numbers given out or reserved are at most the
one in "uniqueid", or the one a manager with the lock is about to write, as long as the
file is not damaged; a failing read only makes the number a call starts from smaller,
and leads to `openBlind` when that matters. `SavedInv` and `ReadInv` say the same of
sub-groups: outside a rewriting under the lock a file that is not damaged holds what was
saved last, and what a manager has read under its lock is what the file holds. Every
step but the removal of an orphaned lock is one of a single manager. Theorems:
`TypeCorrect`, `FreshNumbers` (`NewIdIsFresh`), `StableReads` (`StableUnderLock`),
`CurrentReads` (`LockedReadCurrent`).

**MultiCacheProofs.** The invariant is
`Inv == TypeOK /\ MapOK /\ AddOK /\ LastUsed /\ (overfull \/ (Whole /\ RoomOK))`.
`Whole`: list and idmaps have the same entries, none twice, `currentSize` is the sum of
their sizes and the reference counters are right. `RoomOK`: `nsize`, computed once
before the loop, stays the size the cache would have. `AddOK` is about the entry being
added, `LastUsed` about the place of the entry used last. Sums are cardinalities: the size
of a list is the number of its bytes, pairs of an entry and a number, so that taking
entries out is a fact about finite sets. `PlaceFacts` and `WithoutFacts` show that
`Without` keeps the rest of the list and its order. The signed reading of an unsigned
word is right only if half a word is a whole number; the proof did not go through
before `CacheAssumption` said that `WordMod` is even. Theorems: `TypeCorrect`, `MapTheorem`
(`MapMatchesList`), `SizeTheorem` (`SizeAccounting`), `RefsTheorem` (`RefsBalanced`),
`RoomTheorem` (`DropsOnlyForRoom`), `RecentTheorem` (`RecentDroppedLast`).

**MsgIoProofs.** The invariant is `Inv == TypeOK /\ Suffix /\ Conn /\ (torn \/
StreamsOK)`. `Suffix`: a list to send is the end of what was queued. `Conn`: both sides
have a connection or neither; without one nothing is on its way, and a new one finds
nothing half read or half sent, unless the client was torn. `StreamsOK` is about the
bytes an end has of a message followed by those on their way: `Framed` says that there
are places in them at which messages begin (`Starts`), one at the beginning, each at the
end of the one before it, with growing numbers in the sender's queue, all later than
what was received (`Taken`), and that a sender with a connection has its `currentPos`
bytes of the next message at the very end. The first part of the module are lemmas about
`Framed` alone, one for each thing that can happen to a stream: `FramedWrite`,
`FramedFirst` (reading), `FramedQueue`, `FramedCut`, `FramedReset`. Messages have any
length. A position that wraps sends other bytes but the same number of them, so that the
places hold for all messages; what is claimed of the bytes themselves are the first
`PosMod` of each (`Alike`), the one that says how long the message is among them.
Theorems: `TypeCorrect`, `FramesTheorem` (`FramesIntact`), `SizeTheorem`
(`SizeKnownUntilTorn`).

**HttpSessionProofs.** The invariant is
`Inv == TypeOK /\ ShapeInv /\ SendInv /\ ServedInv /\ ReadInv /\ ResultInv`. `ResultInv`
is what the run checks of results. It speaks of the moment a call returns only; that it
comes out true is the work of the others.

* `ShapeInv`: the read mode that belongs to each point of GWEN_SyncIo_Http_Read; a call is
  on an open connection; a chunk or a body in progress has something left.
* `SendInv`: at each point of a request the units written, those in hand and those that
  follow (`After`) make up all that was requested on the connection. Between requests
  everything is written, unless the stream remembers a write error.
* `ReadInv`: on a connection that is not tainted the client follows the answer (`Track`).
  What is in the read buffer and what is to come are the end of the answer (`Aligned`), so
  that the parser is at a place in it (`Pos`). `Heading` says what is known at each state of
  the parser for any answer (the code is that of the first line, a body of known length has
  as much left as `bodySize` says), `Content` what more is known for a successful one:
  which part of it was read, which lines come next, and that the body collected so far is
  the body of the part that was read. `CutOff` is the state after the end of a connection
  within an answer: nothing more can come, and the body is a beginning of the answer's.

The proof follows the layers of the code. `Advanced`, `PieceReads` and `BytesRead` are
about the buffered stream: what a read takes is the next part of the answer, whether it
comes from the buffer or from the connection. `OverKeeps`, `FailedKeeps` and `GotKeeps`
are about the loop of RecvBody: what has to hold of the stream for each of its exits.
One lemma per parser (`GotStatusKeeps`, `ParseHeaderKeeps`, `GotSizeKeeps`,
`TrailKeeps`...) shows that it does. `BodySkip` and `BodyMore` let the collected body
grow with the place in the answer. A piece ends with the first line in the buffer and
ParseHeader takes the first length of a header; that there is a first one, however long
they are, is where the well-foundedness of the numbers is needed (`Least`). Theorems:
`TypeTheorem`, `DeliveredTheorem` (`Delivered`), `StatusTheorem` (`StatusOwn`),
`BufferTheorem` (`BufferClean`), `RequestTheorem` (`RequestWhole`).

Only model-checked: the liveness properties (`LockReturns`, `CallsReturn` of both
modules, `AllDelivered`, `ClientDrains`), which are out of the prover's reach. Every other
property of a run that holds is a theorem.

## 6. Plan

In this order:

1. `Requests`: requests, sub-requests and timeouts over endpoints that may go away;
   the stacking of `endpoint_multilayer.c`.
2. In `MsgIo`: DiscardInput; several children of one server.
3. The passive side of the HTTP session; the line mode of writing in `BufferedIo`.
4. Candidates after that: the purge of `memcache.c`, the growing tables of `idmap.c`.
5. Composition: `ConfigMgrDir` and `CtFile` with the steps of `FSLock` in place of their
   atomic locks.

## 7. Not modelled

The Windows implementation of FSLOCK; sockets and TLS, whose protocol states live in
the operating system and in GnuTLS and which appear as external byte streams; the
passive side of HTTP (RecvCommand, SendStatus), chunked output and the line mode of
writing; ChangePin, which only forgets the password, and the encodings of key files; the
parsers (DB, XML, JSON, tag16, TLV, base64), which transform unbounded text
sequentially; containers, which appear as sequences, sets and functions; inheritance,
reference pointers and signals, which are bookkeeping of function pointers;
cryptography, which succeeds or fails; the GUI, of which `FSLock` has the one dialog its
protocol depends on; OS wrappers; the code generators. Log messages, hit and miss
counters and formatting are left out everywhere. Reads that change nothing (HasGroup,
ListGroups, GetIdsInCache) have no action.
