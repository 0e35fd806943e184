------------------------------ MODULE PadEngine ------------------------------
(***************************************************************************)
(* The key engine: sessions of one or several processes that encrypt and   *)
(* decrypt with the pads of one keyset database.  A session's call runs    *)
(* under the session's mutex; what sessions share is the SQLite database:  *)
(* the KeyOffsets rows, and the write lock BEGIN EXCLUSIVE takes.          *)
(*                                                                         *)
(* A call is a sequence of steps, one per database operation, and pc names *)
(* the next one:                                                           *)
(*   lookup, serve, fill            getCachedKeyBytes, newCachedKey        *)
(*   info, attach, begin, read, advance, commit, detach, cleanup           *)
(*                                  getKeyBytes                            *)
(*   evict, rewind, rewindCommit    freeCachedKey                          *)
(*   unmount                        ACK_UnmountKeySet                      *)
(* Every database operation may fail (SQLITE_BUSY, I/O, memory), and a     *)
(* process may crash between any two of them.                              *)
(*                                                                         *)
(* Sessions whose calls overlap are sessions of different processes.  In   *)
(* one process they also share the static buffer numbers are converted to  *)
(* text in (ACK_ui64toa), which is not modelled here.                      *)
(***************************************************************************)
EXTENDS ChunkMap, FiniteSets

CONSTANTS
    Sessions,       \* ACK_SESSION handles
    Keys,           \* the keys of the keyset
    EncryptKeys,    \* those with Keys.IsEncrypt set
    TotalBytes,     \* Keys.TotalBytes
    CacheKeySize,   \* cacheKeySize of each session; zero: no cache
    NSlots,         \* DEFAULT_CACHE_KEYS
    Sizes,          \* the request sizes callers use
    MaxChunkCount,  \* MAX_CHUNK_COUNT
    MaxAttached,    \* the number of databases SQLite attaches to a handle
    CallsOverlap,   \* may calls of different sessions run at the same time?
    DetachMayFail,  \* may DETACH DATABASE fail?
    NoSession, NoKey

ASSUME PadEngineAssumption ==
    /\ EncryptKeys \subseteq Keys
    /\ TotalBytes \in Nat
    /\ CacheKeySize \in [Sessions -> Nat]
    /\ NSlots \in Nat
    /\ Sizes \subseteq Nat \ {0}
    /\ MaxChunkCount \in Nat
    /\ MaxAttached \in Nat
    /\ CallsOverlap \in BOOLEAN
    /\ DetachMayFail \in BOOLEAN
    /\ NoSession \notin Sessions
    /\ NoKey \notin Keys

Bytes == 0 .. TotalBytes - 1
Slots == 1 .. NSlots

VARIABLES
    \* The database: the KeyOffsets row of each key, and the write lock.
    rowChunk, rowOffset, usedBytes,
    writer,         \* the session whose transaction is open
    \* ACK_SESSIONINFO.
    phase,          \* "closed" (no session), "open", "mounted" (db # NULL)
    sessionKey,     \* keyId
    transaction,    \* transaction
    haveCache,      \* pCache # NULL
    cache,          \* pCache[]
    attached,       \* the chunk databases attached to the session's db
    \* The call a session is in.
    pc,
    request,        \* the arguments of ACK_Encrypt or ACK_Decrypt
    slot,           \* pCachedKey
    fetch,          \* the arguments and the start of the plan of getKeyBytes
    pending,        \* the row written in the session's open transaction
    \* History: how often each byte was handed out to encrypt, and the 
    \* deliveries whose bytes are not those of the offset they are given.
    uses, mislabelled

rows == <<rowChunk, rowOffset, usedBytes>>
handle == <<phase, sessionKey, haveCache>>
history == <<uses, mislabelled>>
vars == <<rows, writer, handle, transaction, cache, attached, pc, request, slot, 
          fetch, pending, history>>

-----------------------------------------------------------------------------

NoEntry == [inUse |-> FALSE, keyId |-> NoKey, isEncrypt |-> FALSE, 
            offset |-> 0, from |-> 0, workOffset |-> 0, workSize |-> 0]
NoRequest == [encrypt |-> FALSE, offset |-> 0, size |-> 0]
NoFetch == [fill |-> FALSE, size |-> 0, chunkId |-> 0, offset |-> 0]
NoRow == [chunkId |-> 0, offset |-> 0, used |-> 0]

\* ACK_CACHEDKEY.  offset is blobInfo.offset, the offset the entry claims for 
\* its first byte; from is the place in the pad its bytes were read from.
Entry == [inUse : BOOLEAN, keyId : Keys \cup {NoKey}, isEncrypt : BOOLEAN, 
          offset : Nat, from : Nat, workOffset : Nat, workSize : Nat]
Request == [encrypt : BOOLEAN, offset : Nat, size : Nat]
Fetch == [fill : BOOLEAN, size : Nat, chunkId : Nat, offset : Nat]
Row == [chunkId : Nat, offset : Nat, used : Int]

Steps == {"idle", "lookup", "serve", "fill", "info", "attach", "begin", "read", 
          "advance", "commit", "detach", "cleanup", "evict", "rewind", 
          "rewindCommit", "unmount"}

Mislabel == [encrypt : BOOLEAN, offset : Nat, from : Nat]

TypeOK == 
    /\ rowChunk \in [Keys -> Nat]
    /\ rowOffset \in [Keys -> Nat]
    /\ usedBytes \in [Keys -> Int]
    /\ writer \in Sessions \cup {NoSession}
    /\ phase \in [Sessions -> {"closed", "open", "mounted"}]
    /\ sessionKey \in [Sessions -> Keys \cup {NoKey}]
    /\ transaction \in [Sessions -> BOOLEAN]
    /\ haveCache \in [Sessions -> BOOLEAN]
    /\ cache \in [Sessions -> [Slots -> Entry]]
    /\ attached \in [Sessions -> SUBSET (Keys \X Nat)]
    /\ pc \in [Sessions -> Steps]
    /\ request \in [Sessions -> Request]
    /\ slot \in [Sessions -> 0 .. NSlots]
    /\ fetch \in [Sessions -> Fetch]
    /\ pending \in [Sessions -> Row]
    /\ uses \in [Keys -> [Bytes -> Nat]]
    /\ mislabelled \in SUBSET Mislabel

Init == 
    /\ rowChunk = [k \in Keys |-> IF ChunkSize = 0 THEN 1 ELSE 0]
    /\ rowOffset = [k \in Keys |-> 0]
    /\ usedBytes = [k \in Keys |-> 0]
    /\ writer = NoSession
    /\ phase = [s \in Sessions |-> "closed"]
    /\ sessionKey = [s \in Sessions |-> NoKey]
    /\ transaction = [s \in Sessions |-> FALSE]
    /\ haveCache = [s \in Sessions |-> FALSE]
    /\ cache = [s \in Sessions |-> [i \in Slots |-> NoEntry]]
    /\ attached = [s \in Sessions |-> {}]
    /\ pc = [s \in Sessions |-> "idle"]
    /\ request = [s \in Sessions |-> NoRequest]
    /\ slot = [s \in Sessions |-> 0]
    /\ fetch = [s \in Sessions |-> NoFetch]
    /\ pending = [s \in Sessions |-> NoRow]
    /\ uses = [k \in Keys |-> [p \in Bytes |-> 0]]
    /\ mislabelled = {}

-----------------------------------------------------------------------------
(* Steps of a call.                                                        *)

At(s, step) == pc[s] = step

GoTo(s, step) == pc' = [pc EXCEPT ![s] = step]

\* The session's mutex is free; without CallsOverlap, so are all the others.
MayCall(s) == 
    /\ At(s, "idle")
    /\ CallsOverlap \/ \A t \in Sessions : At(t, "idle")

\* The call returns to its caller.
Return(s) == 
    /\ GoTo(s, "idle")
    /\ request' = [request EXCEPT ![s] = NoRequest]
    /\ slot' = [slot EXCEPT ![s] = 0]
    /\ fetch' = [fetch EXCEPT ![s] = NoFetch]

\* getKeyBytes is called, for a cache entry or for the caller's request.
CallGetKeyBytes(s, fill, n) ==
    /\ GoTo(s, "info")
    /\ fetch' = [fetch EXCEPT ![s] = [NoFetch EXCEPT !.fill = fill, !.size = n]]

\* Mutant of FetchFails: try again until it works.
FetchRetries(s) == CallGetKeyBytes(s, fetch[s].fill, fetch[s].size) /\ UNCHANGED <<request, slot>>

\* What the failure of getKeyBytes leads to: newCachedKey fails and its caller
\* falls back to getKeyBytes, or the caller's request fails.
FetchFails(s) == 
    IF fetch[s].fill 
    THEN /\ CallGetKeyBytes(s, FALSE, request[s].size)
         /\ slot' = [slot EXCEPT ![s] = 0]
         /\ UNCHANGED request
    ELSE Return(s)

\* n bytes, from byte p of the pad on, are handed to the caller as those at the
\* offset it is told (encryption) or asked for (decryption).  They come from a
\* buffer that holds the bytes held.from up to held.to of key held.keyId.
Deliver(s, offset, p, n, held) == 
    /\ uses' = IF request[s].encrypt
               THEN [uses EXCEPT ![held.keyId] = 
                      [q \in Bytes |-> IF q \in p .. p + n - 1 THEN @[q] + 1 ELSE @[q]]]
               ELSE uses
    /\ mislabelled' = 
         IF /\ held.keyId = sessionKey[s] 
            /\ held.from <= p /\ p + n <= held.to
            /\ offset = p
         THEN mislabelled
         ELSE mislabelled \cup {[encrypt |-> request[s].encrypt, offset |-> offset, from |-> p]}

-----------------------------------------------------------------------------
(* Sessions: ACK_CreateSession, ACK_CloseSession, ACK_MountKeySet,         *)
(* ACK_SetSessionKey.  Each is one step: it uses the database for at most  *)
(* one read.                                                               *)

CreateSession(s) == 
    /\ MayCall(s)
    /\ phase[s] = "closed"
    /\ phase' = [phase EXCEPT ![s] = "open"]
    /\ haveCache' = [haveCache EXCEPT ![s] = CacheKeySize[s] > 0]
    /\ UNCHANGED <<rows, writer, sessionKey, transaction, cache, attached, pc, 
                   request, slot, fetch, pending, history>>

\* A mounted session is not closed: ACK_E_MOUNTED_DATABASE.
CloseSession(s) == 
    /\ MayCall(s)
    /\ phase[s] = "open"
    /\ phase' = [phase EXCEPT ![s] = "closed"]
    /\ haveCache' = [haveCache EXCEPT ![s] = FALSE]
    /\ UNCHANGED <<rows, writer, sessionKey, transaction, cache, attached, pc, 
                   request, slot, fetch, pending, history>>

MountKeySet(s) == 
    /\ MayCall(s)
    /\ phase[s] = "open"
    /\ phase' = [phase EXCEPT ![s] = "mounted"]
    /\ UNCHANGED <<rows, writer, sessionKey, haveCache, transaction, cache, attached, 
                   pc, request, slot, fetch, pending, history>>

\* The key of a session may change while its cache holds bytes of another.
SetSessionKey(s, k) == 
    /\ MayCall(s)
    /\ phase[s] = "mounted"
    /\ sessionKey' = [sessionKey EXCEPT ![s] = k]
    /\ UNCHANGED <<rows, writer, phase, haveCache, transaction, cache, attached, pc, 
                   request, slot, fetch, pending, history>>

\* ACK_Encrypt and ACK_Decrypt, up to the choice between the cache and the
\* database.
StartCipher(s, req) == 
    /\ MayCall(s)
    /\ phase[s] = "mounted"
    /\ sessionKey[s] # NoKey
    /\ ~transaction[s]
    /\ request' = [request EXCEPT ![s] = req]
    /\ IF CacheKeySize[s] > 0
       THEN GoTo(s, "lookup") /\ UNCHANGED fetch
       ELSE CallGetKeyBytes(s, FALSE, req.size)
    /\ UNCHANGED <<rows, writer, handle, transaction, cache, attached, slot, pending, 
                   history>>

Encrypt(s, n) == StartCipher(s, [encrypt |-> TRUE, offset |-> 0, size |-> n])

Decrypt(s, o, n) == StartCipher(s, [encrypt |-> FALSE, offset |-> o, size |-> n])

-----------------------------------------------------------------------------
(* The cache: getCachedKeyBytes and newCachedKey.                          *)

\* Mutant of Matching: entries of any key.
MatchingAnyKey(s) == 
    {i \in Slots : cache[s][i].inUse /\ cache[s][i].isEncrypt = request[s].encrypt}

\* findCachedKey takes the first of these.
Matching(s) == 
    {i \in Slots : /\ cache[s][i].inUse 
                   /\ cache[s][i].keyId = sessionKey[s]
                   /\ cache[s][i].isEncrypt = request[s].encrypt}

FreeSlots(s) == {i \in Slots : ~cache[s][i].inUse}

IsFirst(i, S) == i \in S /\ \A j \in S : i <= j

\* Mutant of TooFew: an entry with one byte left serves any request.
IsEmpty(e, n) == e.workSize <= 0

TooFew(e, n) == e.workSize < n

\* An entry that has too few bytes left is thrown out and replaced; a request
\* larger than any entry goes to the database.
Lookup(s) == 
    /\ At(s, "lookup")
    /\ LET n == request[s].size
       IN  \/ /\ n > CacheKeySize[s]
              /\ CallGetKeyBytes(s, FALSE, n)
              /\ UNCHANGED slot
           \/ /\ n <= CacheKeySize[s]
              /\ Matching(s) = {}
              /\ GoTo(s, "fill")
              /\ UNCHANGED <<slot, fetch>>
           \/ /\ n <= CacheKeySize[s]
              /\ \E i \in Slots : 
                    /\ IsFirst(i, Matching(s))
                    /\ slot' = [slot EXCEPT ![s] = i]
                    /\ GoTo(s, IF TooFew(cache[s][i], n) THEN "evict" ELSE "serve")
              /\ UNCHANGED fetch
    /\ UNCHANGED <<rows, writer, handle, transaction, cache, attached, request, pending,
                   history>>

\* newCachedKey takes the first unused slot; without one, or without a cache
\* (it is gone once a keyset was unmounted), the database serves the request.
Fill(s) ==
    /\ At(s, "fill")
    /\ \/ /\ haveCache[s]
          /\ \E i \in Slots : IsFirst(i, FreeSlots(s)) /\ slot' = [slot EXCEPT ![s] = i]
          /\ CallGetKeyBytes(s, TRUE, CacheKeySize[s])
       \/ /\ ~haveCache[s] \/ FreeSlots(s) = {}
          /\ slot' = [slot EXCEPT ![s] = 0]
          /\ CallGetKeyBytes(s, FALSE, request[s].size)
    /\ UNCHANGED <<rows, writer, handle, transaction, cache, attached, request, pending,
                   history>>

\* The next n bytes of an encryption entry, which is freed when they were its
\* last; no rewind is due then.
UseEntry(e, n) == 
    IF e.workSize = n 
    THEN NoEntry 
    ELSE [e EXCEPT !.workOffset = @ + n, !.workSize = @ - n]

\* Mutant of InEntry: a request is only checked against the entry's end.
BeforeEntryEnd(e, o, n) == o + n < e.offset + e.workSize

\* Bytes a decryption entry holds, at least one of them past the request.
InEntry(e, o, n) == e.offset <= o /\ (o - e.offset) + n < e.workSize

Serve(s) == 
    /\ At(s, "serve")
    /\ LET e == cache[s][slot[s]] 
           n == request[s].size
           o == request[s].offset
           held == [keyId |-> e.keyId, from |-> e.from + e.workOffset, 
                    to |-> e.from + e.workOffset + e.workSize]
       IN  \/ /\ request[s].encrypt
              /\ Deliver(s, e.offset + e.workOffset, held.from, n, held)
              /\ cache' = [cache EXCEPT ![s][slot[s]] = UseEntry(e, n)]
              /\ Return(s)
           \/ /\ ~request[s].encrypt
              /\ InEntry(e, o, n)
              /\ Deliver(s, o, e.from + (o - e.offset), n, held)
              /\ Return(s)
              /\ UNCHANGED cache
           \/ /\ ~request[s].encrypt
              /\ ~InEntry(e, o, n)
              /\ slot' = [slot EXCEPT ![s] = 0]
              /\ CallGetKeyBytes(s, FALSE, n)
              /\ UNCHANGED <<cache, request, history>>
    /\ UNCHANGED <<rows, writer, handle, transaction, attached, pending>>

-----------------------------------------------------------------------------
(* getKeyBytes.                                                            *)

\* Where the request starts: the recorded position, or the caller's offset.
StartChunk(s) == 
    LET k == sessionKey[s] 
    IN  IF request[s].encrypt THEN rowChunk[k] ELSE ChunkIdOf(rowChunk[k], request[s].offset)

StartOffset(s) == 
    IF request[s].encrypt 
    THEN rowOffset[sessionKey[s]] 
    ELSE ChunkOffsetOf(request[s].offset)

\* The checks between getKeyInfo and ATTACH.  The row is read outside any
\* transaction.
EnoughBytes(s) == 
    LET k == sessionKey[s]
        n == fetch[s].size
    IN  /\ n <= TotalBytes
        /\ IF request[s].encrypt 
           THEN k \in EncryptKeys /\ usedBytes[k] + n <= TotalBytes
           ELSE request[s].offset + n <= TotalBytes
        /\ PlanCapacity(StartChunk(s), StartOffset(s), n) <= MaxChunkCount

ReadKeyInfo(s) == 
    /\ At(s, "info")
    /\ \/ /\ EnoughBytes(s)
          /\ fetch' = [fetch EXCEPT ![s].chunkId = StartChunk(s), 
                                    ![s].offset = StartOffset(s)]
          /\ GoTo(s, "attach")
          /\ UNCHANGED <<request, slot>>
       \/ FetchFails(s)
    /\ UNCHANGED <<rows, writer, handle, transaction, cache, attached, pending, history>>

\* The chunk databases of the plan.
Plan(s) == 
    {<<sessionKey[s], c>> : c \in ChunksTouched(fetch[s].chunkId, fetch[s].offset, fetch[s].size)}

PlanStart(s) == GlobalOf(fetch[s].chunkId, fetch[s].offset)

\* Mutant of StayAttached: error paths do not detach.
MayStayAttached(A) == SUBSET A

\* The chunks of set A that stay attached when they are detached.
StayAttached(A) == IF DetachMayFail THEN SUBSET A ELSE {{}}

\* A name that is still attached cannot be attached again.  When one ATTACH
\* fails the earlier ones are undone.
Attach(s) == 
    /\ At(s, "attach")
    /\ \/ /\ Plan(s) \cap attached[s] = {}
          /\ Cardinality(Plan(s) \cup attached[s]) <= MaxAttached
          /\ attached' = [attached EXCEPT ![s] = @ \cup Plan(s)]
          /\ GoTo(s, IF request[s].encrypt THEN "begin" ELSE "read")
          /\ UNCHANGED <<request, slot, fetch>>
       \/ /\ \E A \in StayAttached(Plan(s) \ attached[s]) : 
                attached' = [attached EXCEPT ![s] = @ \cup A]
          /\ FetchFails(s)
    /\ UNCHANGED <<rows, writer, handle, transaction, cache, pending, history>>

\* Mutant of OpenTransaction: a plain BEGIN, which locks nobody out.
BeginDeferred(s) == 
    /\ writer' = s
    /\ transaction' = [transaction EXCEPT ![s] = TRUE]

\* BEGIN EXCLUSIVE, with the session's flag set.
OpenTransaction(s) == 
    /\ writer = NoSession
    /\ writer' = s
    /\ transaction' = [transaction EXCEPT ![s] = TRUE]

\* Mutant of EndTransaction: the flag stays set.
EndKeepsFlag(s) == 
    /\ writer' = IF writer = s THEN NoSession ELSE writer
    /\ UNCHANGED transaction

\* COMMIT or ROLLBACK, with the session's flag cleared.
EndTransaction(s) == 
    /\ writer' = IF writer = s THEN NoSession ELSE writer
    /\ transaction' = [transaction EXCEPT ![s] = FALSE]

WriteRow(k, row) == 
    /\ rowChunk' = [rowChunk EXCEPT ![k] = row.chunkId]
    /\ rowOffset' = [rowOffset EXCEPT ![k] = row.offset]
    /\ usedBytes' = [usedBytes EXCEPT ![k] = row.used]

\* Encryption only.  The database may be locked: there is no busy timeout.
Begin(s) == 
    /\ At(s, "begin")
    /\ \/ OpenTransaction(s) /\ GoTo(s, "read")
       \/ GoTo(s, "cleanup") /\ UNCHANGED <<writer, transaction>>
    /\ UNCHANGED <<rows, handle, cache, attached, request, slot, fetch, pending, history>>

\* No chunk has bytes past the end of the pad.
ReadChunks(s) == 
    /\ At(s, "read")
    /\ \/ /\ PlanStart(s) + fetch[s].size <= TotalBytes
          /\ GoTo(s, IF request[s].encrypt THEN "advance" ELSE "detach")
       \/ GoTo(s, "cleanup")
    /\ UNCHANGED <<rows, writer, handle, transaction, cache, attached, request, slot, 
                   fetch, pending, history>>

\* updateChunkOffset: the position is the end of the plan, the count of used 
\* bytes is added to by the database.
AdvanceOffset(s) == 
    /\ At(s, "advance")
    /\ \/ /\ LET end == PlanStart(s) + fetch[s].size IN
                pending' = [pending EXCEPT ![s] = 
                              [chunkId |-> ChunkIdOf(fetch[s].chunkId, end),
                               offset |-> ChunkOffsetOf(end),
                               used |-> usedBytes[sessionKey[s]] + fetch[s].size]]
          /\ GoTo(s, "commit")
       \/ GoTo(s, "cleanup") /\ UNCHANGED pending
    /\ UNCHANGED <<rows, writer, handle, transaction, cache, attached, request, slot, 
                   fetch, history>>

Commit(s) == 
    /\ At(s, "commit")
    /\ \/ /\ WriteRow(sessionKey[s], pending[s])
          /\ EndTransaction(s)
          /\ pending' = [pending EXCEPT ![s] = NoRow]
          /\ GoTo(s, "detach")
       \/ GoTo(s, "cleanup") /\ UNCHANGED <<rows, writer, transaction, pending>>
    /\ UNCHANGED <<handle, cache, attached, request, slot, fetch, history>>

\* The end of a successful getKeyBytes: newCachedKey makes the bytes an entry, 
\* any other caller gets them at once.  A failed DETACH turns success into
\* failure, after the offset was advanced.
Detach(s) == 
    /\ At(s, "detach")
    /\ LET p == PlanStart(s)
           o == IF request[s].encrypt THEN p ELSE request[s].offset
           e == [inUse |-> TRUE, keyId |-> sessionKey[s], isEncrypt |-> request[s].encrypt,
                 offset |-> o, from |-> p, workOffset |-> 0, workSize |-> fetch[s].size]
           held == [keyId |-> sessionKey[s], from |-> p, to |-> p + fetch[s].size]
       IN  \/ /\ fetch[s].fill
              /\ cache' = [cache EXCEPT ![s][slot[s]] = e]
              /\ fetch' = [fetch EXCEPT ![s] = NoFetch]
              /\ GoTo(s, "serve")
              /\ attached' = [attached EXCEPT ![s] = @ \ Plan(s)]
              /\ UNCHANGED <<request, slot, history>>
           \/ /\ ~fetch[s].fill
              /\ Deliver(s, o, p, fetch[s].size, held)
              /\ Return(s)
              /\ attached' = [attached EXCEPT ![s] = @ \ Plan(s)]
              /\ UNCHANGED cache
           \/ /\ DetachMayFail
              /\ \E A \in SUBSET Plan(s) : attached' = [attached EXCEPT ![s] = (@ \ Plan(s)) \cup A]
              /\ FetchFails(s)
              /\ UNCHANGED <<cache, history>>
    /\ UNCHANGED <<rows, writer, handle, transaction, pending>>

\* The cleanup label: roll back if the transaction was opened, detach, fail.
Cleanup(s) == 
    /\ At(s, "cleanup")
    /\ EndTransaction(s)
    /\ pending' = [pending EXCEPT ![s] = NoRow]
    /\ \E A \in StayAttached(Plan(s)) : attached' = [attached EXCEPT ![s] = (@ \ Plan(s)) \cup A]
    /\ FetchFails(s)
    /\ UNCHANGED <<rows, handle, cache, history>>

-----------------------------------------------------------------------------
(* freeCachedKey, called to replace an entry and, by ACK_UnmountKeySet, for *)
(* each of them.  It gives the bytes of an encryption entry that encrypted  *)
(* nothing back to the pad, if no bytes were taken from it since.           *)

FreeSlot(s) == 
    /\ cache' = [cache EXCEPT ![s][slot[s]] = NoEntry]
    /\ slot' = [slot EXCEPT ![s] = 0]
    /\ GoTo(s, IF request[s] = NoRequest THEN "unmount" ELSE "fill")

Evict(s) == 
    /\ At(s, "evict")
    /\ \/ /\ cache[s][slot[s]].isEncrypt
          /\ OpenTransaction(s)
          /\ GoTo(s, "rewind")
          /\ UNCHANGED <<cache, slot>>
       \/ FreeSlot(s) /\ UNCHANGED <<writer, transaction>>
    /\ UNCHANGED <<rows, handle, attached, request, fetch, pending, history>>

\* The recorded offset of a key, as one in the whole key.
Recorded(k) == GlobalOf(rowChunk[k], rowOffset[k])

\* Mutant of RewindTo: the first byte the entry ever had.
EntryStart(e) == e.offset

\* Where a rewind goes back to: the entry's first byte that encrypted nothing.
RewindTo(e) == e.offset + e.workOffset

\* Mutant of LastTaken: every entry is rewound.
AnyEntry(e) == TRUE

\* The bytes of the entry end where the key's next bytes start.
LastTaken(e) == e.offset + e.workOffset + e.workSize = Recorded(e.keyId)

Rewind(s) == 
    /\ At(s, "rewind")
    /\ LET e == cache[s][slot[s]] 
           back == RewindTo(e)
       IN  \/ /\ LastTaken(e)
              /\ pending' = [pending EXCEPT ![s] = 
                               [chunkId |-> ChunkIdOf(rowChunk[e.keyId], back), 
                                offset |-> ChunkOffsetOf(back),
                                used |-> usedBytes[e.keyId] - e.workSize]]
              /\ GoTo(s, "rewindCommit")
              /\ UNCHANGED <<writer, transaction, cache, slot>>
           \/ EndTransaction(s) /\ FreeSlot(s) /\ UNCHANGED pending
    /\ UNCHANGED <<rows, handle, attached, request, fetch, history>>

\* Mutant of RewindCommit: the row of the session's key is rewound, not that of
\* the entry's.
RewindSessionKey(s) == 
    /\ At(s, "rewindCommit")
    /\ sessionKey[s] # NoKey
    /\ WriteRow(sessionKey[s], pending[s])
    /\ pending' = [pending EXCEPT ![s] = NoRow]
    /\ EndTransaction(s)
    /\ FreeSlot(s)
    /\ UNCHANGED <<handle, attached, request, fetch, history>>

RewindCommit(s) == 
    /\ At(s, "rewindCommit")
    /\ \/ WriteRow(cache[s][slot[s]].keyId, pending[s])
       \/ UNCHANGED rows
    /\ pending' = [pending EXCEPT ![s] = NoRow]
    /\ EndTransaction(s)
    /\ FreeSlot(s)
    /\ UNCHANGED <<handle, attached, request, fetch, history>>

UnmountKeySet(s) == 
    /\ MayCall(s)
    /\ phase[s] = "mounted"
    /\ GoTo(s, "unmount")
    /\ UNCHANGED <<rows, writer, handle, transaction, cache, attached, request, slot, fetch, 
                   pending, history>>

\* freeAllCachedKeys, then sqlite3_close, which may refuse.
Unmount(s) == 
    /\ At(s, "unmount")
    /\ \/ /\ \E i \in Slots : IsFirst(i, Slots \ FreeSlots(s)) /\ slot' = [slot EXCEPT ![s] = i]
          /\ GoTo(s, "evict")
          /\ UNCHANGED <<handle, transaction, attached, request, fetch>>
       \/ /\ FreeSlots(s) = Slots
          /\ Return(s)
          /\ haveCache' = [haveCache EXCEPT ![s] = FALSE]
          /\ \/ /\ phase' = [phase EXCEPT ![s] = "open"]
                /\ sessionKey' = [sessionKey EXCEPT ![s] = NoKey]
                /\ attached' = [attached EXCEPT ![s] = {}]
                /\ transaction' = [transaction EXCEPT ![s] = FALSE]
             \/ UNCHANGED <<phase, sessionKey, attached, transaction>>
    /\ UNCHANGED <<rows, writer, cache, pending, history>>

\* The process of the session dies.  SQLite rolls its transaction back; all 
\* else the session knew was in memory.
Crash(s) == 
    /\ phase[s] # "closed"
    /\ phase' = [phase EXCEPT ![s] = "closed"]
    /\ sessionKey' = [sessionKey EXCEPT ![s] = NoKey]
    /\ haveCache' = [haveCache EXCEPT ![s] = FALSE]
    /\ cache' = [cache EXCEPT ![s] = [i \in Slots |-> NoEntry]]
    /\ attached' = [attached EXCEPT ![s] = {}]
    /\ pending' = [pending EXCEPT ![s] = NoRow]
    /\ EndTransaction(s)
    /\ Return(s)
    /\ UNCHANGED <<rows, history>>

-----------------------------------------------------------------------------

\* The callers of the library.
Call(s) == 
    \/ CreateSession(s) \/ CloseSession(s) \/ MountKeySet(s) \/ UnmountKeySet(s)
    \/ \E k \in Keys \cup {NoKey} : SetSessionKey(s, k)
    \/ \E n \in Sizes : Encrypt(s, n) \/ \E o \in Bytes : Decrypt(s, o, n)

\* The library.
Step(s) == 
    \/ Lookup(s) \/ Fill(s) \/ Serve(s)
    \/ ReadKeyInfo(s) \/ Attach(s) \/ Begin(s) \/ ReadChunks(s) \/ AdvanceOffset(s)
    \/ Commit(s) \/ Detach(s) \/ Cleanup(s)
    \/ Evict(s) \/ Rewind(s) \/ RewindCommit(s) \/ Unmount(s)

Next == \E s \in Sessions : Call(s) \/ Step(s) \/ Crash(s)

Spec == Init /\ [][Next]_vars

\* A thread that is in a call goes on with it: no step waits for another 
\* session, a locked database is an error.
Fairness == \A s \in Sessions : WF_vars(Step(s))

FairSpec == Spec /\ Fairness

-----------------------------------------------------------------------------
(* Properties.                                                             *)

\* The bytes of key k a session has taken from the pad and may still encrypt
\* with: what its cache entries have left, and what it just committed.
CachedBytes(s, k) == 
    {p \in Bytes : \E i \in Slots : 
        LET e == cache[s][i]
        IN  /\ e.inUse /\ e.isEncrypt /\ e.keyId = k
            /\ e.from + e.workOffset <= p
            /\ p < e.from + e.workOffset + e.workSize}

\* The call of the session has taken bytes of key k with its commit.
HasCommitted(s, k) == At(s, "detach") /\ request[s].encrypt /\ sessionKey[s] = k

FetchedBytes(s, k) == 
    {p \in Bytes : /\ HasCommitted(s, k)
                   /\ PlanStart(s) <= p
                   /\ p < PlanStart(s) + fetch[s].size}

Taken(s, k) == CachedBytes(s, k) \cup FetchedBytes(s, k)

\* No byte of a pad encrypts twice (the "one time" of the one-time pad), 
\* whatever calls fail, caches are rewound or processes crash.
PadUsedOnce == \A k \in Keys, p \in Bytes : uses[k][p] <= 1

\* Bytes that sit in a cache entry or are on their way to it are nobody else's: 
\* no other entry holds them, nothing was encrypted with them, and the recorded 
\* offset is past them, so that the next getKeyBytes cannot take them again.
TakenBytesAreExclusive == 
    /\ \A k \in Keys, s \in Sessions : \A p \in Taken(s, k) : 
        /\ uses[k][p] = 0 
        /\ p < Recorded(k)
        /\ \A t \in Sessions \ {s} : p \notin Taken(t, k)
    /\ \A s \in Sessions, k \in Keys : CachedBytes(s, k) \cap FetchedBytes(s, k) = {}

\* UsedBytes, which getKeyBytes checks against TotalBytes, is the recorded
\* position, which is where it reads: advancing and rewinding change both alike,
\* across chunks, and the position is one a chunk has.
AccountingExact == 
    \A k \in Keys : /\ usedBytes[k] = Recorded(k)
                    /\ usedBytes[k] \in 0 .. TotalBytes
                    /\ ChunkSize # 0 => rowOffset[k] < ChunkSize

\* ACK_SESSIONINFO.transaction tells whether the session's handle has a
\* transaction open, and no call returns with one: a path that forgot to end it
\* would lock every other session out.
FlagMatchesLock == 
    \A s \in Sessions : /\ transaction[s] <=> writer = s
                        /\ At(s, "idle") => writer # s

\* The offset an encryption reports, or a decryption asks for, is the offset in 
\* the session's key of the bytes it gets, all of which the buffer they are copied
\* from holds: a cache entry that outlived a change of the key, or a decryption 
\* before or after what an entry holds, never gets others.
LabelsAreTrue == mislabelled = {}

\* If DETACH does not fail, chunk databases are attached only inside of 
\* getKeyBytes: whatever else fails, no call leaves one that the next call
\* could not attach again.
DetachedOutsideFetch == 
    \A s \in Sessions : At(s, "idle") \/ At(s, "info") => attached[s] = {}

\* Where a call is, and what its locals then are.
Fetching(s) == 
    pc[s] \in {"info", "attach", "begin", "read", "advance", "commit", "detach", "cleanup"}

CallOK(s) == 
    /\ pc[s] \in {"idle", "unmount"} => request[s] = NoRequest
    /\ pc[s] \in {"serve", "evict", "rewind", "rewindCommit"} => 
         slot[s] \in Slots /\ cache[s][slot[s]].inUse
    /\ At(s, "serve") => 
         LET e == cache[s][slot[s]] 
         IN  /\ e.keyId = sessionKey[s] 
             /\ e.isEncrypt = request[s].encrypt
             /\ e.isEncrypt => request[s].size <= e.workSize
    /\ pc[s] \in {"rewind", "rewindCommit"} => cache[s][slot[s]].isEncrypt
    /\ request[s] # NoRequest => request[s].size > 0 /\ sessionKey[s] \in Keys
    /\ At(s, "serve") \/ At(s, "lookup") \/ At(s, "fill") \/ Fetching(s) => 
         request[s] # NoRequest
    /\ pc[s] \in {"fill", "evict", "rewind", "rewindCommit"} => request[s].size <= CacheKeySize[s]
    /\ Fetching(s) => fetch[s].size >= request[s].size
    /\ Fetching(s) /\ fetch[s].fill => slot[s] \in Slots /\ ~cache[s][slot[s]].inUse
    /\ pc[s] \in {"begin", "advance", "commit"} => request[s].encrypt

EntriesOK(s) == 
    \A i \in Slots : LET e == cache[s][i] IN e.inUse => e.keyId \in Keys /\ e.workSize > 0

CallInv == \A s \in Sessions : CallOK(s) /\ EntriesOK(s)

\* The session is between its BEGIN and the end of that transaction.
InTransaction(s) == 
    \/ pc[s] \in {"advance", "commit", "rewind", "rewindCommit"}
    \/ At(s, "read") /\ request[s].encrypt

\* Who is in a transaction, whatever calls overlap.
LockOK(s) == 
    /\ transaction[s] <=> writer = s
    /\ InTransaction(s) => writer = s
    /\ writer = s => InTransaction(s) \/ At(s, "cleanup")

LockInv == \A s \in Sessions : LockOK(s)

\* A row is a position of the key and counts the bytes before it.
IsRowAt(row, g) == 
    /\ GlobalOf(row.chunkId, row.offset) = g
    /\ row.used = g
    /\ ChunkSize # 0 => row.offset < ChunkSize

RowOf(k) == [chunkId |-> rowChunk[k], offset |-> rowOffset[k], used |-> usedBytes[k]]

RowInv == 
    \A k \in Keys : IsRowAt(RowOf(k), Recorded(k)) /\ Recorded(k) <= TotalBytes

\* The bytes the pad was asked for lie before the recorded position, and are
\* used at most once.
UseInv == 
    \A k \in Keys, p \in Bytes : uses[k][p] <= 1 /\ (uses[k][p] # 0 => p < Recorded(k))

FirstLeft(e) == e.from + e.workOffset
EndLeft(e) == e.from + e.workOffset + e.workSize

HoldsBytes(e, k) == e.inUse /\ e.isEncrypt /\ e.keyId = k

\* The bytes from lo up to hi are before the recorded position, and unused.
Untouched(k, lo, hi) == 
    hi <= Recorded(k) /\ \A p \in Bytes : lo <= p /\ p < hi => uses[k][p] = 0

\* Bytes taken from the pad for one purpose are not those taken for another.
Apart(lo, hi, e) == hi <= FirstLeft(e) \/ EndLeft(e) <= lo

EntryInv == 
    \A s \in Sessions, i \in Slots, k \in Keys : HoldsBytes(cache[s][i], k) => 
        LET e == cache[s][i]
        IN  /\ e.offset = e.from
            /\ Untouched(k, FirstLeft(e), EndLeft(e))
            /\ \A t \in Sessions, j \in Slots : 
                 HoldsBytes(cache[t][j], k) /\ <<t, j>> # <<s, i>> => 
                    Apart(FirstLeft(e), EndLeft(e), cache[t][j])

\* A call that encrypts starts at the recorded position, and its commit makes
\* the end of its plan the recorded position.
PlanOK(s) == 
    request[s].encrypt => 
        LET k == sessionKey[s] 
            end == PlanStart(s) + fetch[s].size
        IN  /\ pc[s] \in {"attach", "begin", "read", "advance", "commit"} => 
                 PlanStart(s) = Recorded(k) /\ end <= TotalBytes
            /\ At(s, "commit") => IsRowAt(pending[s], end)
            /\ At(s, "detach") => 
                 /\ Untouched(k, PlanStart(s), end)
                 /\ \A t \in Sessions, j \in Slots : 
                      HoldsBytes(cache[t][j], k) => Apart(PlanStart(s), end, cache[t][j])

\* A rewind goes back to the first byte of the entry that is left.
RewindOK(s) == 
    At(s, "rewindCommit") => 
        LET e == cache[s][slot[s]] 
        IN  LastTaken(e) /\ IsRowAt(pending[s], FirstLeft(e))

PlanInv == \A s \in Sessions : PlanOK(s) /\ RewindOK(s)

\* What two calls took with their commits are different bytes.
ApartInv == 
    \A s, t \in Sessions, k \in Keys : 
        s # t /\ HasCommitted(s, k) /\ HasCommitted(t, k) => 
            \/ PlanStart(s) + fetch[s].size <= PlanStart(t)
            \/ PlanStart(t) + fetch[t].size <= PlanStart(s)

\* The inductive invariant behind the properties above.
IInv == CallInv /\ LockInv /\ RowInv /\ UseInv /\ EntryInv /\ PlanInv /\ ApartInv

\* The call of the session has read the position of key k that it will encrypt 
\* from, and is not in its transaction yet.
HasRead(s, k) == pc[s] \in {"attach", "begin"} /\ request[s].encrypt /\ sessionKey[s] = k

\* What getKeyBytes relies on and does not see to: a position that was read 
\* outside of the transaction is the key's position still when that begins.
PositionsHold == 
    [][\A s \in Sessions, k \in Keys : HasRead(s, k) => Recorded(k)' = Recorded(k)]_vars

\* The keys whose recorded positions a session's calls may move: the one that is 
\* set, and those whose bytes are in its cache.
OwnKeys(s) == 
    {k \in Keys : sessionKey[s] = k \/ \E i \in Slots : HoldsBytes(cache[s][i], k)}

\* Every session has keys of its own.
KeysApart == \A s, t \in Sessions : s # t => OwnKeys(s) \cap OwnKeys(t) = {}

\* freeCachedKey never moves the recorded offset back over a byte that was used.
RewindsOnlyUnusedBytes == 
    [][\A k \in Keys : \A p \in Recorded(k)' .. Recorded(k) - 1 : uses'[k][p] = 0]_vars

\* The row a transaction reads stays as it was until the transaction writes it:
\* "we can be certain the recorded offset has not been changed out from under
\* us" (freeCachedKey), with calls of other sessions at any point.
RowsStableInTransaction == 
    [][rows' # rows => \A s \in Sessions : InTransaction(s) => 
          pc[s] \in {"commit", "rewindCommit"} /\ ~InTransaction(s)']_vars

\* Every call returns.
CallsReturn == \A s \in Sessions : ~At(s, "idle") ~> At(s, "idle")

=============================================================================
