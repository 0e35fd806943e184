# AlphaCipher in TLA+

AlphaCipher is a one-time-pad SDK (`Navajo/4.0`): a C library that keeps pads
in SQLite databases, hands out their bytes for encryption, remembers how far
each pad is used, and on top of it a phone for Windows CE. This directory holds
TLA+ modules of its core logic: the part that makes a one-time pad *one time*
(key engine, cache, chunk planner, import of key material), the protocol layer
(key provider, sessions, cipher text headers), and the three parts of the phone in
which threads meet (transport, handshake and wave module). TLC checks them on small instances;
TLAPS proves every safety property that the runs check, and the refinement of the
abstract one-time pad, for every value of the constants.

Source paths below are relative to `src/Navajo/4.0/` unless they say otherwise.

## The system

| Component | State | Operations | Interacts with |
|---|---|---|---|
| Session API, `src/navajo.c` | `ACK_SESSIONINFO`: mutex, db handle, key id, transaction flag, cache | create, close, mount, unmount, set key, encrypt, decrypt, enumerate keys, properties | calls the cache or the engine; the mutex makes one session's calls serial |
| Key cache, `src/navajoCache.c` | array of `ACK_CACHEDKEY` | `findCachedKey`, `newCachedKey`, `freeCachedKey`, `getCachedKeyBytes` | fills entries with `getKeyBytes`; gives unused bytes back by moving the recorded position |
| Key engine, `src/navajoInt.c` | none of its own: the `KeyOffsets` rows and the databases attached to the handle | `getKeyBytes`, attach, detach, `updateChunkOffset` | reads and moves the recorded position in SQLite, which sessions of all processes share |
| Chunk planner, `src/navajoInt.c` | a `CHUNKPLAN` per call | `planChunkRange` | called by the engine; its last position becomes the recorded one |
| SQL layer, `src/navajoSql.c` | none | begin, commit, rollback, attach, detach, statements | the only way to SQLite |
| Import and generation, `src/navajoGen.c` | source file, chunk database | `PrepareChunk`, `ImportChunk` | SQL layer, file system |
| Provider, `src/protocol.c` | reference count, chain of keysets | create, close, scan, sessions | session API |
| Header, `src/CipherTextHeader.c` | the last header of each direction | collapse, expand | used by protocol callers per packet |
| OS layer, `src/os/*.c`, `src/navajoUtil.c` | static text buffers | mutexes, memory, files, text | everyone |
| Phone transport, `phone/transport.c`, `phone/queue.c` | socket, two threads, queues | dial, answer, transmit, terminate | provider sessions, wave module, window |
| Phone handshake, `phone/handshake/` | threads, socket or mailbox | startup, shutdown, assemble | window |
| Phone window, `phone/phone.cpp` | dialog state | window messages | transport, handshake |
| Wave module, `tinCan/TinCan.cpp` | slots, spin lock, two threads | initialize, finalize, post | transport |

What is hard in it: the recorded position of a pad is shared by sessions of
several processes, read and written in separate database operations, cached
ahead, rewound, and any operation in between may fail or be the last one before
a crash. In the phone: worker threads that are told to stop by flags, events
and timeouts, while they talk to the window that waits for them.

What makes each correct:

* engine and cache: no byte of a pad encrypts twice; the offset that is reported
  is the one the bytes come from; UsedBytes and position agree; no transaction
  or attached database outlives its call; every call returns;
* planner: a plan is exactly the request, cut at chunk ends;
* import: no byte of the source is lost or imported twice;
* provider: created, shared and closed in any order, it frees its chain once;
* header: what is expanded is what was collapsed, whatever packets are lost;
* transport, queue, wave module: a buffer is in one place at a time, no lock is
  left held, every shutdown ends.

## Modules

| Module | Models |
|---|---|
| `ChunkMap` | the arithmetic of chunks: global offset, chunk and offset in it, the chunks of a request, the size of its plan |
| `ChunkPlan` | `planChunkRange`, one action per turn of its loop |
| `OneTimePad` | the abstract specification: what each byte of a pad may become |
| `PadEngine` | sessions, cache, `getKeyBytes`, transactions, crashes |
| `PadRefinement` | the refinement mapping from `PadEngine` to `OneTimePad` |
| `MCPadEngine` | the instances of both for TLC |
| `ImportChunk` | `ACK_ImportChunk` and `ACK_PrepareChunk`: source file, chunks, transaction, crashes |
| `CipherHeader` | `VPH_CT_StructureToBuffer` and `VPH_CT_BufferToStructure`, as operators |
| `Protocol` | `protocol.c` on both phones of a call, and the network between them; uses `CipherHeader` |
| `MCProtocol` | the instance of `Protocol` for TLC |
| `Transport` | `transport.c` and the counts of `queue.c`: dialing, answering, hanging up, the worker threads |
| `Handshake` | `handshake/wifi.c` and what `WinMain` does with it: three threads on one socket, their startup and shutdown, dialing |
| `Wave` | `TinCan.cpp`: spin lock, slots, both audio threads, the driver |
| `...Proofs` (8 modules) | theorems, see Proofs |

The modules meet where the code's layers do. `PadEngine` takes the plans of `ChunkPlan`
by `ChunkMap`'s closed form, which `PlanMatchesChunkMap` compares with the loop.
`Protocol` uses of the engine what `PadEngine` and `OneTimePad` establish for sessions
whose calls do not overlap: the next unused bytes of a pad and their offset.
`Transport` calls the engine in one step per packet and checks what that relies on,
that the two workers' calls exclude each other.

### PadEngine and the code

A call of the library is a sequence of steps, one for each operation on the
database, and `pc[s]` names the next step of session `s`. Code between two
database operations works on memory only the session (under its mutex) sees,
and belongs to the step before or after it.

| Steps | Code |
|---|---|
| `CreateSession`, `CloseSession`, `MountKeySet`, `SetSessionKey`, `UnmountKeySet` | the functions `ACK_...` of `navajo.c`; only the path that succeeds changes state, the others are no step |
| `Encrypt`, `Decrypt` | `ACK_Encrypt`, `ACK_Decrypt` up to the choice between cache and database |
| `Lookup`, `Fill`, `Serve` | `getCachedKeyBytes` and `newCachedKey`; `Fill` calls `getKeyBytes` for a whole entry (`fetch.fill`), `FetchFails` is the fallback |
| `ReadKeyInfo`, `Attach`, `Begin`, `ReadChunks`, `AdvanceOffset`, `Commit`, `Detach`, `Cleanup` | `getKeyBytes`, in the order of the code; every one has the outcome that the operation fails, `Cleanup` is the `cleanup:` label |
| `Evict`, `Rewind`, `RewindCommit` | `freeCachedKey` with `FEATURE_RESET_CACHED_KEYS`, which the Makefile defines |
| `Unmount` | the loop of `freeAllCachedKeys`, then `sqlite3_close` |
| `Crash` | the session's process dies at any point; SQLite rolls its transaction back |

State: `rowChunk`, `rowOffset`, `usedBytes` are the columns of `KeyOffsets`;
`writer` is the session inside `BEGIN EXCLUSIVE`; `pending` is the row written
in that transaction and not committed; `attached` are the chunk databases of a
handle; `phase`, `sessionKey`, `transaction`, `haveCache`, `cache` are fields of
`ACK_SESSIONINFO`; `request`, `slot`, `fetch` are locals. Bytes of a pad are
their offsets. A cache entry has, next to the fields of `ACK_CACHEDKEY`, the
place `from` its bytes were really read from, so that a wrong label can be told
from a right one. `uses` (how often a byte encrypted) and `mislabelled` (bytes
handed out under another offset) are history variables; no guard reads them.

Assumptions about what is outside: a commit is atomic; `ROLLBACK` succeeds (the
code asserts it); `BEGIN EXCLUSIVE` keeps other connections from writing until the
transaction ends; there is no busy timeout, so a locked database is an error at
once (no call of `sqlite3_busy_timeout` in the code). Abstractions: all keys have
the same `TotalBytes` and `ChunkSize`; keys are not revoked or erased while they
are used; a session may both encrypt and decrypt, which allows more than the type
flags do; numbers do not overflow. Sessions whose calls overlap are sessions of
different processes: threads of one process also share the static buffer of
`ACK_ui64toa`, which is not modelled (`src/os/os_ansi.c:166`).

### What the engine promises

`OneTimePad` says what becomes of a byte: free, taken by one session, spent, or
lost. A session takes free bytes, spends taken bytes, loses them, or gives them
back; spent and lost bytes stay so. `PadRefinement` maps the engine's state to it
(`Owner`): spent if it encrypted, taken if a cache entry or a finished fetch
holds it, lost if it lies before the recorded position and nobody holds it.

### ImportChunk and the code

`file` is the source file, `data` the column `Chunks.Data` of each row, `writer` the
session inside `BEGIN EXCLUSIVE`, `blob` the row as that transaction sees it; `endOffset`,
`buffer` and `done` are locals. A byte of key material is its place in the first source
file, so that a byte in two places is seen as such.

| Steps | Code |
|---|---|
| `ImportChunk`, `PrepareChunk` | `ACK_ImportChunk` up to the seek that measures the file (`src/navajoGen.c:236`), `ACK_PrepareChunk` |
| `Begin`, `ZeroBlob` | `BEGIN EXCLUSIVE`; the statement that makes a NULL or short chunk a `zeroblob` |
| `Read`, `Truncate`, `Write` | one turn of the loop (`:303`-`:360`): the block before the end is read, cut off the file, written into the blob |
| `Commit`, `Fail`, `Crash` | the end of the call; every operation may fail, the process may die between any two |

The file is outside of the transaction, which is the point of the module.

### Protocol and the code

Each phone has a provider (`iRefCount`, `chain` of links, one per scanned keyset) and one
session: the sender's encrypts, the receiver's decrypts. `CreateProvider`, `CloseProvider`,
`ScanPathForKeys`, `GetAllKeys`, `CreateSession`, `CloseSession`, `SetSessionKey`,
`Encrypt`, `Decrypt` are the functions `ACKP_...` and `ACP_...`, each one step. What a function may
leave behind when a step in it fails is a set (`Remains`, `AfterSetSessionKey`): a chain half
taken apart (`src/protocol.c:117`), a keyset mounted whose key was not set (`:424`). `sent`
only grows and any of its datagrams may be decrypted at any time, any number of times
or never: that is a network that loses, repeats and reorders. `held`, `listed` and
`heard` are history variables.

`CipherHeader` has the two conversions by what they do: which parts are present, in
which width each number is written, in which order they are read back. The limits of
the widths are constants, 2, 4 and 16 in the run, 2^16, 2^32 and 2^64 in the code.

### Transport and the code

One `pc` for each thread: the window's (`"ui"`, which dials and hangs up), the handshake's
(which answers), `XmitThread`, `RcveThread`, and the one that hands sound over
(`TransmitBuffer`). The globals of `transport.c` are variables of the same names; a queue is
how many buffers it holds, `hand` how many each thread has popped.

| Steps | Code |
|---|---|
| `Start`, `Open`, `Connect`, `Accepted`, `KickXmit`, `KickRcve`, `Cleanup` | `DialRemote` and `AnswerRemote`: the test of `theSocket`, creating it, the turns of their loop, what follows the packet, `KickOffSendReceive`, the `cleanup:` label |
| `StartWorker`, `XmitWait`, `XmitPop`, `PopOther`, `Enter`, `Cipher`, `XmitSend`, `Leave`, `XmitPush`, `XmitFlood`, `End` | `XmitThread`; its error macro leaves with the critical section held |
| `RcveSelect`, `RcvePop`, `RcvePush`, `RcveStatus`, `RcvePushOther` and those above | `RcveThread`; `RcveStatus` is a `SendMessage` and waits for the window |
| `Audio...` | `TransmitBuffer` |
| `Hangup`, `Stop...`, `Wait...`, `CloseSocket`, `Release`, `Initialize` | `TerminateTransport`, then `InitializeTransport`; a wait ends with the thread or with `THREAD_TIMEOUT`, and then the thread is terminated where it is |
| `MayStart`, `MayHangUp` (in `Next`) | nothing in the code: assumptions on users and peers |

The code does not keep the window's thread and the handshake thread apart. `Start` tests
`theSocket` and nothing else, `Hangup` tests nothing, as in the code; what the runs and theorems
assume stands in `Next`, each part with a constant that lifts it:

* `DialsWhileBusy`: a call is dialed, or a peer's handshake answered, while a call is on.
* `SetupsOverlap`: a handshake is answered while the user dials, or the user dials while one
  is being answered.
* `HangsUpAnytime`: the user hangs up in the middle of an answer, that is while `AnswerRemote`
  creates its socket (`phone/transport.c:539` to `:542`), receives its packet (from `:599`), kicks off
  the workers (`:609`) or cleans up (`:625`). These are short times. Hanging up while the answer waits for
  its packet, which may take minutes, is modelled and not assumed away; so is a handshake that arrives
  while the user hangs up, once the call's threads are gone.

With all three `FALSE` (`OneAtATime` in `TransportProofs`) calls are safe; with any of them `TRUE` they
are not, see Findings.

### Handshake and the code

| Steps | Code |
|---|---|
| `CreateSocket`, `StartBroadcast`, `KeepBroadcast`, `CheckBroadcast`, `StartRead`, `KeepRead` | `StartupWiFiBroadcastThread`, `StartupWiFiReadThread`; creating a thread, storing its handle and reading the handle again are three steps, between which the thread runs and may close it. What fails leads to `ShutdownWiFiThreads`, as `MAIN_FATAL_EXIT` does |
| `Dial`, `StartSend`, `KeepSend`, `CheckSend`, `DialRemote` | the command `ID_DIAL`: `StartupWiFiSendThread`, then `DialRemote`, for which the window handles no messages |
| `Exit`, `Stop`, `Wait`, `CloseSocket` | the end of `WinMain`, `ShutdownWiFiThreads` |
| `Begin`, `UseSocket`, `Proc`, `WaitForEvent`, `CloseHandle` | the three thread procedures; `Proc` is `AnswerWifiHandshakeProc` |

`handle` and `event` are the handles of `wifi.c`, `pc` where each thread is. `Proc` may
wait for the window; what it does to the transport is in `Transport`. The critical section
`pMutex` is entered by the window's thread only and is left out. The text of the messages is left out:
a packet is one that is answered, or not.

### Wave and the code

`InitLock`, `Create`, `Open` are `InitializeWaveModule`; `Finalize`, `Close`, `Wait...`, `Free` are
`FinalizeWaveModule`; `Start`, `Started` the loop in which both threads wait for the lock;
`InputGet`, `InputUse`, `InputData` and `OutputWrite`, `OutputGet`, `OutputUse`, `OutputFill`,
`OutputDone` what the threads do with a slot and a message, `Cleanup` how they end.
`DriverDone` is the driver. A spin that gives up after `SPINLOCK_TRIES` may give up
whenever the lock is held. `used` are the slots whose first word is set, `playing`
those the driver has, `played` those whose `MM_WOM_DONE` is still in the message queue.

## Runs

| Run | Instance | Checks |
|---|---|---|
| `PadSerial` | 2 sessions with caches of 2 bytes and 2 slots, one pad of 4 bytes in chunks of 3, requests of 1 and 2 bytes; calls one at a time; 536,156 states | `TypeOK`, `PadUsedOnce`, `TakenBytesAreExclusive`, `AccountingExact`, `DetachedOutsideFetch`, `RewindsOnlyUnusedBytes`, `ImplementsOneTimePad` |
| `PadKeys` | 1 session, 2 pads of 3 bytes in chunks of 2, 1 cache slot, DETACH may fail; 1,996,851 states | `LabelsAreTrue` and `ImplementsOneTimePad` when the key changes over a filled cache |
| `PadLive` | 2 sessions whose calls interleave at every database operation, one pad of 2 bytes in chunks of 1, with fairness; 82,504 states | `FlagMatchesLock`, `RowsStableInTransaction`, `CallsReturn` |
| `PadRace` | 2 sessions, 2 bytes, calls interleave | `PadUsedOnce` is violated, see Findings |
| `ChunkPlan` | chunks of 3, requests of 1 to 10 bytes from any position, also at and past the end of a chunk, `MAX_CHUNK_COUNT` 4; 588 states | `EntriesCoverRequest`, `CapacitySuffices`, `FinalPosition`, `PlanMatchesChunkMap`, `TypeOK` |
| `ImportSerial` | 2 sessions, one file of 4 bytes, 2 chunks, imports of 1 to 3 bytes to offset 0 or 1 in blocks of 2, calls one at a time; 144,724 states | `SingleUse`, `ImportMovesTail`, `LosesOnlyByFailure`, `TypeOK` |
| `ImportRace` | 2 imports of 2 bytes each from that file at the same time | `SingleUse` is violated, see Findings |
| `CallLife` | memory for 5 buffers, 2 at the start, growing by 1; 2 tries and 2 stray packets; `DialsWhileBusy`, `SetupsOverlap` and `HangsUpAnytime` are `FALSE`; with fairness; 739,277 states | `SocketOutlivesWorkers`, `WorkersHaveQueues`, `CipherCallsExclusive`, `HangupLeavesNothing`, `DialReturns`, `HangupReturns`, `TypeOK` |
| `CallSocket` | the same with `DialsWhileBusy`: users and peers dial during a call | `SocketOutlivesWorkers` is violated, see Findings |
| `Wave` | 3 slots, messages of up to 2 blocks, 2 of them waiting; with fairness; 461,758 states | `LockHeldByItsUser`, `BufferOutlivesThreads`, `SlotsNotOverwritten`, `FinalizeReturns`, `TypeOK` |
| `Protocol` | two pads, the second also under an id in upper case, 3 keysets with copies of them, messages of 0, 1 and 4 bytes, pads of 5, up to 2 datagrams and 2 links; 1,976,640 states | `HeardAsSent`, `SessionSpeaksItsKey`, `ListedKeysStayValid`, `TypeOK` |
| `Handshake` | from the start of the program to its end; nothing is bounded; with fairness; 1,397 states | `ResourcesOutliveThreads`, `ShutdownReturns`, `TypeOK` |

Bounds, and why they are enough.

* *Pad*: four bytes in chunks of three are two chunks, the last one short; two cache
  entries of two bytes empty the pad, and the second spans both chunks; an entry is left half used when
  a request takes one byte, is thrown out when the next asks for two, and is rewound to and
  across the chunk boundary. Two sessions are enough for each to take bytes between any two
  steps of the other, and two slots for two entries to be half used at once, whose rewinds
  must not pass each other. In `PadKeys` the single slot holds an entry of another key than
  the session's. `usedBytes` is bounded by the code's own check against `TotalBytes`.
  `MaxChunkCount` and `MaxAttached` are not reached in the runs of the engine; `ChunkPlan`
  reaches `MAX_CHUNK_COUNT`.
* *Import*: three bytes in blocks of two end in a shorter block; offset one into a chunk
  that is as long as the import makes the last block fail after the file was cut; four
  bytes are one import of three and one more, or two of two into two chunks.
* *Call*: two buffers at the start are taken at once by the sound and by a worker, so that
  the queue grows, and at five the memory runs out. Two tries end without an answer, with one
  after a lost packet, or with a stray packet between; the counts of the code are only larger.
* *Wave*: three slots, so that the search wraps past a used slot, skips slot zero, and gives up;
  two blocks cross from one slot to the next.
* *Protocol*: two datagrams are the least that can be swapped, and the pads' keysets
  the least in which a key is in two of them, once for decryption only. Offsets and
  lengths of 0 to 5 lie on both sides of the limits 2 and 4. `MaxLinks` and `MaxSent` are
  bounds of the model, the rest is bounded by the code.

`PadSerial` uses symmetry of sessions, which are alike there, and the properties it checks are of safety; the
liveness runs use none. Four runs are without the deadlock check because their system may really stop:
`ChunkPlan`'s walk ends, `Handshake`'s program does, `Wave`'s module is finalized once, and in `Protocol` both providers
may refuse to be created again after a close that failed, with both sessions closed.

Fairness. `PadLive`: `WF_vars(Step(s))` for each session, and nothing for callers or
crashes. A thread inside a call goes on with it, and no step of the library waits for
another session: locks are not waited for (no busy timeout) and the mutex is
taken before the call's first step. So weak fairness of the step that is enabled
is what the scheduler of any operating system gives a running thread. `CallLife`:
weak fairness of the window's thread only, `Caller("ui") \/ HangingUp`. Worker threads may
stay where they are forever, in `sendto`, in `SendMessage`, before the critical section; that
hanging up ends all the same is due to `THREAD_TIMEOUT`, after which a wait returns. `Wave`: weak
fairness of the thread in `FinalizeWaveModule`, for the same reason. `Handshake`: weak fairness of
`ShuttingDown`, the window's thread in `ShutdownWiFiThreads`, again thanks to `THREAD_TIMEOUT`; the
threads may be stuck anywhere, and read packets that are no messages for ever.

### Findings

*The position is read before the lock.* `getKeyBytes` reads the recorded position with
`getKeyInfo` (`src/navajoInt.c:843`), plans and attaches, and only then begins the exclusive
transaction (`:970`), in which it does not read the position again. `PadRace` shows
two sessions that both read position 0, then one after the other lock, read the same
byte, advance, and commit: both encrypt with byte 0, `UsedBytes` becomes 2 and the
position 1. The comment at `:964` says the transaction makes "the offset
advancement ... atomic with respect to other writers"; `src/README.md:69` says
a region of pad "cannot be reused"; `doc/public_api.md:29` allows calls from
different sessions at the same time. `PadSerial` shows, and `PadSafetyProofs`
proves, that overlapping calls are what it takes: when calls come one at a time no
failure, rewind or crash makes the modelled engine use a byte twice. `SafeIfPositionsHold`
proves more: with overlapping calls there is no other way to it than this window.

*The end of the file is measured before the lock.* `ACK_ImportChunk` computes where to cut the
file from a length it took before its transaction (`src/navajoGen.c:236`, `:328`), but
reads from the end the file has by then (`:310`). `ImportRace` shows two imports: the second
reads what is last after the first, and cuts where the file ended before, which leaves the bytes
it has read in the file. `doc/public_api.md:438` calls the import "single-use".
`ImportSerial` and `ImportChunkProofs` show that it is, when imports do not overlap.

*A refused dial closes the running call's socket.* `DialRemote` and `AnswerRemote` refuse when
there is a socket (`phone/transport.c:417`, `:536`), but their cleanup closes it whenever the
attempt was not completed (`:514`, `:631`). `CallSocket` shows a call that loses its socket to a second
attempt. The note at `:52` says the socket "is invalidated only after both workers have
stopped". The same happens, before the workers run, when a second call is set up while the
first one still is (`SetupsOverlap = TRUE` instead of `DialsWhileBusy = TRUE` in
`CallSocket.cfg`).

*A hang-up in the middle of an answer.* `ID_HANGUP` (`phone/phone.cpp:742`) runs on the window's
thread while the handshake thread may be anywhere in `AnswerRemote`. No run has this; with
`HangsUpAnytime = TRUE` in `CallLife.cfg` TLC violates each of the four safety properties, when
it checks them one by one. `SocketOutlivesWorkers` and `WorkersHaveQueues`: the packet has
arrived, the hang-up finds no handle and passes on (`phone/transport.c:356`), the handshake thread
creates `XmitThread`, the hang-up closes the socket (`:388`) and destroys the provider and the queues
(`:392`) that the thread is about to use. `CipherCallsExclusive`: both workers are created in this
way, one is inside of the critical section when it is deleted, the other enters the new one.
`HangupLeavesNothing`: `AnswerRemote` creates its socket after the hang-up has closed the old one.

`CallLife` and `TransportProofs` show the rest of the modelled design sound: calls are safe when
nobody dials or answers while a call is on or being set up, and nobody hangs up in the middle of
an answer.

## Proofs

`PadEngineProofs`, for any constants, calls overlapping or not: `TypeCorrect`,
`LockCorrect` (flag and lock agree), `RowsStable` (nobody changes a row under an open
transaction), `LabelsCorrect`, and, assuming `~DetachMayFail`, `DetachedCorrect`. They rest
on `BaseInv`: the types, `CallInv` (at each step, which slot,
request and fetch a call has: without it a step could not be shown to stay in the types
or to take its transaction along) and `LockInv` (a session is between BEGIN and the end
of its transaction exactly while it is the writer, or in `cleanup`). `LabelsCorrect` adds
`LabelInv`: a cache entry claims the offset its bytes were read from, a decryption entry is
never used up from its front, and a decryption's plan starts at the offset that was asked for; that the key
cannot change under an entry being served is in `CallInv`. `DetachedCorrect` adds
`AttachedInv`: inside of `getKeyBytes` at most the plan is attached, elsewhere nothing is, so
that detaching the plan leaves nothing on any path.

`PadSafetyProofs`: `getKeyBytes` reads the position it encrypts from, and only later begins its
transaction. `PositionsHold` says that in between no other call moves that position. The code
does not see to it (`PadRace`), so it is a hypothesis: `IInvCorrect` and `SafeIfPositionsHold`
show that it is all that is missing. With it, calls may overlap, fail and crash in any way, and
`PadUsedOnce`, `AccountingExact`, `TakenBytesAreExclusive`, `RewindsOnlyUnusedBytes` and
`ImplementsOneTimePad` hold; conversely, whenever a byte was used twice, a position was
moved in that window (between `navajoInt.c:843` and `:970`). There are two ways for a program to
have it: calls that do not overlap (`~CallsOverlap`: `PadSafety`, `AccountingSafety`,
`TakenSafety`, `RewindSafety`, `PadRefined`), and sessions that never share a key, counting
the keys of bytes they have in their caches (`KeysApart`: `KeysApartSafe`), which are then free to
call at the same time from different processes. A repair that reads the position again inside
of the transaction closes the window.

`PadUsedOnce` is not inductive: that
a byte is fresh when it is delivered depends on where it was waiting. `IInv` adds

* `RowInv`: a row is one position, in three columns;
* `UseInv`: used bytes lie before the recorded position;
* `EntryInv`: what an encryption entry has left is unused, before the recorded
  position, and apart from what every other entry has left;
* `PlanInv`: a call that encrypts starts at the recorded position until its commit,
  which is where overlapping calls break the argument without `PositionsHold`, and after it
  holds bytes no entry has; a rewind about to commit goes to the first byte its entry has left,
  which ends at the recorded position, so that no other entry lies in between;
* `ApartInv`: what two calls took with their commits are different bytes.

Each of the steps that matter (delivering from an entry, delivering or filling after a
fetch, committing, rewinding) has a lemma of its own; all others are *quiet*: they leave
rows and uses alone and take at most whole entries away. Each of the four has another lemma
for the plans and rewinds of the other sessions (`PlanKept`): a commit or a rewind meets no one
in a transaction (`LockInv`), no one who has read the position (`PositionsHold`), and calls past
their commits only, whose bytes lie before the position it moves.

From `IInv` follows that the engine implements `OneTimePad`. `OwnerInv` says whose
each byte is, which needs that no two sessions have taken it (`TakenExclusive`). Then each step of the engine
is one of the abstract specification: a commit is `Reserve` (the bytes between the old
position and the new one are those the call then has), a delivery is `Spend`, a rewind that commits is
`HandBack` (the position moves back over just the bytes that the freed entry had left), and
what all others do to the owners of bytes is `Lose`: a fetch that fails after its commit, an
entry freed without a rewind, a crash. Filling an entry changes no owner.

`ChunkPlanProofs`, for any chunk size (zero, one monolithic chunk, included) and any
request: `PlanType`, `PlanCoversRequest`, `PlanFinalPosition`, `PlanCapacitySuffices`,
`PlanMatches`.
The invariant says what is planned plus what remains is the request, and that the walk
is never at the end of a chunk after its first turn. Capacity needs that the number
computed with div and mod bounds the chunks the walk enters. For `PlanMatches` it is
strengthened by `ChunkByChunk` (the entries name every chunk from the first to the one the walk is in,
in order): the loop's plan is the closed form that `PadEngine` uses.

`ImportChunkProofs`: `TypeCorrect` for any calls, by `CountersInv` (what a call has read and
moved never exceeds what it was asked for, nor the file it measured). `ImportsCorrect`
(`SingleUse`), assuming `~CallsOverlap`: `EndInv` says the file ends where the call believes, but
for the block read and not yet cut off, which is what overlapping calls break; `BlobInv` and
`BlockInv` say the chunk in the transaction, and the block about to be written into it, share no byte with
the file and with the other chunks. Truncating comes before writing, so that at each step
the block is apart from what it is written to. `TailCorrect` (`ImportMovesTail`) and `LossCorrect`
(`LosesOnlyByFailure`), under the same assumption, need `MoveInv`, which remembers the blocks
before: the file is what is left of the one that was opened, the block in hand is the part
cut off last, every cell of the range written so far holds one of the cells cut off
before, and conversely (`TailOK`); what the chunk has outside of that range is zero or still in the
keyset (`KeptOK`), so that writing over it loses nothing before the commit.

`TransportProofs`: `TypeCorrect` for any constants; it needs `HandInv` (how many buffers a
thread has in its hands at each step, without which pushing two back could not be shown to
stay within the memory) and `StrayInv`. Assuming `OneAtATime` (`~DialsWhileBusy`, `~SetupsOverlap` and
`~HangsUpAnytime`, none of which the code enforces): `SocketCorrect`,
`QueuesCorrect`, `CallsCorrect`, `HangupCorrect`, from `OneCallInv` (one caller at a time, except that
the user may hang up while an answer waits for its packet; a
running worker has a handle), `DialInv` (who has the packet has a socket and, until the threads are
kicked off, no workers), `HangupInv` (the order in which a call is taken apart) and `OwnerInv`
(a worker inside of the critical section owns it: that section is replaced only after both workers
are gone).

`WaveProofs`, for any number of slots: `TypeCorrect`, `LockCorrect`, `BufferCorrect`, `SlotsCorrect`. A thread is
terminated while the finalizing thread has the lock, so it cannot be one that holds it: that is
`LockHeldByItsUser` with `ThreadsInv` (while a thread lives the memory and its event are there, and each wait ends one). `SoundInv` ties
what the driver has to the flags in the slots.

`ProtocolProofs`, for any keys, keysets, callers and messages: `HeaderRestored` (a header read back is
the one written, for any limits of the widths), `TypeCorrect`, `SessionsCorrect`,
`DatagramsCorrect`, `ListingsCorrect`. `SentInv` carries `HeaderRestored` to every datagram on the
network; `SessionInv` says the key the kernel has is the one the GUID names, so that the header
chooses the bytes; `CountInv` (the reference count is the number of holders) and `ChainInv` are why
only the last close takes links apart.

`HandshakeProofs`: `TypeCorrect`, and `ResourcesCorrect` (`ResourcesOutliveThreads`). The shutdown passes over
threads whose handle is null, so that it needs `HandleInv`: a thread that lives has its handle stored, or
the window's thread is about to store it. `LifeInv` says at which steps of the window's thread the socket is there
and which threads are over.

Assumptions: every theorem rests on the constants' `ASSUME`s, which TLC evaluates in the runs.
`~CallsOverlap` or the weaker `PositionsHold` and `KeysApart` (engine), `~CallsOverlap` (import),
`OneAtATime` (transport) and `~DetachMayFail` (engine) are stated in the
theorems that need them. `PadRace`, `ImportRace` and `CallSocket` show what fails without the
first three. Without `~DetachMayFail` the property fails at once, a failed DETACH being what leaves a chunk attached.

Only model-checked: the liveness properties (`CallsReturn`, `DialReturns`, `HangupReturns`,
`FinalizeReturns`, `ShutdownReturns`), which are out of the prover's reach (fairness and ENABLED).

## Not modelled, and the plan

SQLite and the header of the radio interface are third-party and most of the repository's
lines; what the engine relies on of SQLite is modelled where it is called. Not
modelled either, because no state of the modelled parts depends on them or they are not
called: the dialogs, lists and radio callbacks of the phone, the handshake over text messages
(`handshake/sms.cpp`, two threads of the shape of those in `wifi.c` around the operating system's
mailbox), `VPH_CT_CollapseStructure` and
`VPH_CT_ExpandStructure` (their calls in `protocol.c` are commented out), `QueueFreeBuffer` (not called),
key enumeration and key properties (a query each), database scripts, build scripts, test programs.

Left out of modules that exist, and a reader should not take as checked:

* `PadEngine`: threads of one process and the static buffer of `ACK_ui64toa`
  (`src/os/os_ansi.c:166`); 64-bit overflow of offset plus size (`src/navajoInt.c:905`); a
  session closed while another thread is inside of it.
* `ImportChunk`: the loss of power, which may keep the cut and not the commit in another order than
  a dying process does.
* `Protocol`: its functions are atomic. `iRefCount` is not changed atomically in the code
  (`src/protocol.c:93`), and sessions do not add a reference to the provider.
* `Transport`: the order of buffers, the resizing branch of `TransmitBuffer`, a queue that grew by
  less than asked, and what a destroyed queue does to `TransmitBuffer`
  (`phone/transport.c:648`).
* `Handshake`: the text of the messages and the structure a send thread reads them from, which
  belongs to the window's thread: the next dial overwrites it before it is refused
  (`phone/handshake/wifi.c:124`), and the number in it is freed when `DialRemote` returns
  (`phone/phone.cpp:737`).

Next: for the import what `PositionsHold` is for the engine (a weaker assumption than
`~CallsOverlap`); abstract specifications of the import (a ledger of key material)
and of the wave module's slots, with their refinement.

Behaviours the modules have because the code has them, and that no property forbids:

* A failed import loses the source bytes it has read already, also when it had to fail: at an
  offset above zero into a chunk too short for it (`src/navajoGen.c:331`, `:338`). Blocks are
  written in the reverse order of the file.
* An empty message sends the body of the message before it again, under offset 0
  (`src/protocol.c:478`, `src/navajo.c:1477`).
* A datagram under a key whose id is in upper case is never decrypted: `GuidToHex` writes
  lower case and ids are compared as text (`src/protocol.c:408`).
* When `ACKP_CloseProvider` fails half way, `ACKP_CreateProvider` refuses for good.
* When `closesocket` fails while hanging up, the old critical section stays, perhaps locked
  (`phone/transport.c:388`).
* A send thread that ends before its handle is stored leaves the handle behind, and every later
  dial is refused (`phone/handshake/wifi.c:128`).
* A call that cannot be answered ends the reading thread of the handshake for good
  (`phone/handshake/wifi.c:488`).
* The slot search of the wave module skips slot zero after every wrap
  (`tinCan/TinCan.cpp:691`).

Where the documents say otherwise than the code, without a run:
`doc/public_api.md:111` says closing a session unmounts it, `src/navajo.c:248` refuses;
`doc/public_api.md:96` says a cache size of zero disables the cache,
`src/navajo.c:158` takes the default size; `test/test.c:457` says a second scan clears the first one's result,
`src/protocol.c:139` puts its links in front of them.
