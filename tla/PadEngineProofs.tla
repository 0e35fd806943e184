-------------------------- MODULE PadEngineProofs --------------------------
(***************************************************************************)
(* What the key engine guarantees however calls of its sessions overlap,   *)
(* fail and crash: type correctness, that a transaction belongs to one     *)
(* session, from its BEGIN to its end, that the offset a caller is told is *)
(* that of the bytes it gets, and that no call leaves a chunk attached.    *)
(*                                                                         *)
(* The inductive invariant is TypeOK /\ CallInv /\ LockInv.  CallInv says  *)
(* what a call has established when it is at a step, which the types of    *)
(* its next step rest on; LockInv says at which steps a session holds the  *)
(* lock.  Both speak of one session at a time, so that each is proved in   *)
(* two halves: for the session that steps, by cases on its step, and for   *)
(* the others, of which a step changes nothing (StepIsLocal).              *)
(*                                                                         *)
(* Two more invariants are added to it in the same way.  LabelInv: the     *)
(* bytes of a cache entry come from the offset that it claims, and a plan  *)
(* starts at the offset that was asked for.  AttachedInv: what is attached *)
(* to a handle is the plan of the call that is under way.                  *)
(***************************************************************************)
EXTENDS PadEngine, TLAPS

TypeInv == TypeOK /\ CallInv

-----------------------------------------------------------------------------
(* The two ways a byte of a pad is named.                                  *)

\* getChunkIdAndOffset returns an offset that lies in a chunk.
LEMMA ChunkOffsetInChunk == 
    ASSUME NEW g \in Nat 
    PROVE  ChunkOffsetOf(g) \in Nat /\ (ChunkSize # 0 => ChunkOffsetOf(g) < ChunkSize)
BY ChunkSizeAssumption DEF ChunkOffsetOf

\* getChunkIdAndOffset returns a chunk number that is not negative.
LEMMA ChunkIdType == 
    ASSUME NEW c \in Nat, NEW g \in Nat 
    PROVE  ChunkIdOf(c, g) \in Nat
BY ChunkSizeAssumption DEF ChunkIdOf

\* The offset in the whole key that getKeyBytes reports is not negative.
LEMMA GlobalOfType == 
    ASSUME NEW c \in Nat, NEW o \in Nat 
    PROVE  GlobalOf(c, o) \in Nat
BY ChunkSizeAssumption DEF GlobalOf

\* Splitting an offset in the whole key into a chunk and an offset in it, and 
\* putting the two together again as getKeyBytes does, gives it back.
LEMMA GlobalOfSplit == 
    ASSUME NEW c \in Nat, NEW g \in Nat 
    PROVE  GlobalOf(ChunkIdOf(c, g), ChunkOffsetOf(g)) = g
BY ChunkSizeAssumption DEF ChunkIdOf, ChunkOffsetOf, GlobalOf

\* The chunks a request touches are numbered.
LEMMA ChunksTouchedType == 
    ASSUME NEW c \in Nat, NEW o \in Nat, NEW n \in Nat
    PROVE  ChunksTouched(c, o, n) \subseteq Nat
<1>1. CASE ChunkSize = 0
  BY <1>1 DEF ChunksTouched
<1>2. CASE ChunkSize # 0
  <2> DEFINE last == (GlobalOf(c, o) + n - 1) \div ChunkSize
  <2>1. last \in Int
    BY <1>2, GlobalOfType, ChunkSizeAssumption
  <2>2. c .. last \subseteq Nat
    BY <2>1
  <2>3. QED
    BY <1>2, <2>2 DEF ChunksTouched
<1>3. QED
  BY <1>1, <1>2

-----------------------------------------------------------------------------

\* The empty row, call, request and cache entry have their types.
LEMMA NoneTyped == 
    NoRow \in Row /\ NoFetch \in Fetch /\ NoRequest \in Request /\ NoEntry \in Entry
BY DEF NoRow, Row, NoFetch, Fetch, NoRequest, Request, NoEntry, Entry

\* pCachedKey is a slot, or zero for none.
LEMMA SlotsType == 0 \in 0 .. NSlots /\ Slots \subseteq 0 .. NSlots
BY PadEngineAssumption DEF Slots

\* A keyset no session has used yet satisfies the type invariant.
LEMMA InitTypeInv == Init => TypeInv
<1>1. Init => TypeOK
  BY NoneTyped, PadEngineAssumption DEF Init, TypeOK, Steps, Slots
<1>2. Init => CallInv
  BY PadEngineAssumption DEF Init, CallInv, CallOK, EntriesOK, At, Fetching, NoRequest, NoEntry
<1>3. QED
  BY <1>1, <1>2 DEF TypeInv

-----------------------------------------------------------------------------

\* Going on to a step keeps the type of pc.
LEMMA GoToType == 
    ASSUME TypeOK, NEW s \in Sessions, NEW step \in Steps, GoTo(s, step)
    PROVE  pc' \in [Sessions -> Steps]
BY DEF TypeOK, GoTo

\* A call that returns leaves no locals behind.
LEMMA ReturnType == 
    ASSUME TypeOK, NEW s \in Sessions, Return(s)
    PROVE  /\ pc' \in [Sessions -> Steps]
           /\ request' \in [Sessions -> Request]
           /\ slot' \in [Sessions -> 0 .. NSlots]
           /\ fetch' \in [Sessions -> Fetch]
<1>1. pc' \in [Sessions -> Steps]
  BY GoToType DEF Return, Steps
<1>2. QED
  BY <1>1, NoneTyped, SlotsType DEF TypeOK, Return

\* Calling getKeyBytes keeps the types of what it gets.
LEMMA CallGetKeyBytesType == 
    ASSUME TypeOK, NEW s \in Sessions, NEW fill \in BOOLEAN, NEW n \in Nat, 
           CallGetKeyBytes(s, fill, n)
    PROVE  /\ pc' \in [Sessions -> Steps]
           /\ fetch' \in [Sessions -> Fetch]
<1>1. pc' \in [Sessions -> Steps]
  BY GoToType DEF CallGetKeyBytes, Steps
<1>2. [NoFetch EXCEPT !.fill = fill, !.size = n] \in Fetch
  BY DEF NoFetch, Fetch
<1>3. QED
  BY <1>1, <1>2 DEF TypeOK, CallGetKeyBytes

\* So does a getKeyBytes that fails, and is called once more or not.
LEMMA FetchFailsType == 
    ASSUME TypeOK, NEW s \in Sessions, FetchFails(s)
    PROVE  /\ pc' \in [Sessions -> Steps]
           /\ request' \in [Sessions -> Request]
           /\ slot' \in [Sessions -> 0 .. NSlots]
           /\ fetch' \in [Sessions -> Fetch]
<1>1. CASE fetch[s].fill
  <2>1. request[s].size \in Nat
    BY DEF TypeOK, Request
  <2>2. CallGetKeyBytes(s, FALSE, request[s].size)
    BY <1>1 DEF FetchFails
  <2>3. QED
    BY <1>1, <2>1, <2>2, CallGetKeyBytesType, SlotsType DEF FetchFails, TypeOK
<1>2. CASE ~fetch[s].fill
  BY <1>2, ReturnType DEF FetchFails
<1>3. QED
  BY <1>1, <1>2

\* Handing out bytes keeps the types of the history.
LEMMA DeliverType == 
    ASSUME TypeOK, NEW s \in Sessions, 
           NEW offset \in Nat, NEW p \in Nat, NEW n \in Nat, NEW held, 
           Deliver(s, offset, p, n, held)
    PROVE  /\ uses' \in [Keys -> [Bytes -> Nat]]
           /\ mislabelled' \in SUBSET Mislabel
<1>1. uses' \in [Keys -> [Bytes -> Nat]]
  <2>1. CASE request[s].encrypt /\ held.keyId \in Keys
    <3>1. [q \in Bytes |-> IF q \in p .. p + n - 1 THEN uses[held.keyId][q] + 1 
                                                   ELSE uses[held.keyId][q]] 
            \in [Bytes -> Nat]
      BY <2>1 DEF TypeOK
    <3>2. QED
      BY <2>1, <3>1 DEF TypeOK, Deliver
  <2>2. CASE ~(request[s].encrypt /\ held.keyId \in Keys)
    BY <2>2 DEF TypeOK, Deliver
  <2>3. QED
    BY <2>1, <2>2
<1>2. mislabelled' \in SUBSET Mislabel
  <2>1. [encrypt |-> request[s].encrypt, offset |-> offset, from |-> p] \in Mislabel
    BY DEF TypeOK, Request, Mislabel
  <2>2. QED
    BY <2>1 DEF TypeOK, Deliver
<1>3. QED
  BY <1>1, <1>2

\* BEGIN keeps the types of the lock and the flag.
LEMMA OpenTransactionType == 
    ASSUME TypeOK, NEW s \in Sessions, OpenTransaction(s)
    PROVE  /\ writer' \in Sessions \cup {NoSession}
           /\ transaction' \in [Sessions -> BOOLEAN]
BY DEF TypeOK, OpenTransaction

\* COMMIT and ROLLBACK keep them.
LEMMA EndTransactionType == 
    ASSUME TypeOK, NEW s \in Sessions, EndTransaction(s)
    PROVE  /\ writer' \in Sessions \cup {NoSession}
           /\ transaction' \in [Sessions -> BOOLEAN]
BY DEF TypeOK, EndTransaction

\* A row that is written is a row.
LEMMA WriteRowType == 
    ASSUME TypeOK, NEW k \in Keys, NEW row \in Row, WriteRow(k, row)
    PROVE  /\ rowChunk' \in [Keys -> Nat]
           /\ rowOffset' \in [Keys -> Nat]
           /\ usedBytes' \in [Keys -> Int]
<1>1. row.chunkId \in Nat /\ row.offset \in Nat /\ row.used \in Int
  BY DEF Row
<1>2. QED
  BY <1>1 DEF TypeOK, WriteRow

\* getCachedKeyBytes leaves an entry an entry: workSize does not underflow.
LEMMA UseEntryType == 
    ASSUME NEW e \in Entry, NEW n \in Nat, n <= e.workSize
    PROVE  UseEntry(e, n) \in Entry
<1>1. CASE e.workSize = n
  BY <1>1, NoneTyped DEF UseEntry
<1>2. CASE e.workSize # n
  <2>1. e.workOffset + n \in Nat /\ e.workSize - n \in Nat
    BY DEF Entry
  <2>2. [e EXCEPT !.workOffset = @ + n, !.workSize = @ - n] \in Entry
    BY <2>1 DEF Entry
  <2>3. QED
    BY <1>2, <2>2 DEF UseEntry
<1>3. QED
  BY <1>1, <1>2

\* Attaching and detaching changes one session's set of chunk databases.
LEMMA AttachedType == 
    ASSUME TypeOK, NEW s \in Sessions, NEW A, A \subseteq Keys \X Nat
    PROVE  [attached EXCEPT ![s] = A] \in [Sessions -> SUBSET (Keys \X Nat)]
BY DEF TypeOK

\* Writing a slot with an entry keeps the type of the cache.
LEMMA EntryReplacedType == 
    ASSUME TypeOK, NEW s \in Sessions, NEW i \in Slots, NEW e \in Entry
    PROVE  [cache EXCEPT ![s][i] = e] \in [Sessions -> [Slots -> Entry]]
BY DEF TypeOK

\* The end of freeCachedKey keeps the types.
LEMMA FreeSlotType == 
    ASSUME TypeOK, NEW s \in Sessions, slot[s] \in Slots, FreeSlot(s)
    PROVE  /\ cache' \in [Sessions -> [Slots -> Entry]]
           /\ slot' \in [Sessions -> 0 .. NSlots]
           /\ pc' \in [Sessions -> Steps]
<1>1. cache' \in [Sessions -> [Slots -> Entry]]
  BY EntryReplacedType, NoneTyped DEF FreeSlot
<1>2. pc' \in [Sessions -> Steps]
  BY GoToType DEF FreeSlot, Steps
<1>3. QED
  BY <1>1, <1>2, PadEngineAssumption DEF TypeOK, FreeSlot

\* A plan starts at a natural number and names chunks of the session's key.
LEMMA PlanType == 
    ASSUME TypeOK, NEW s \in Sessions
    PROVE  /\ PlanStart(s) \in Nat
           /\ fetch[s].size \in Nat
           /\ sessionKey[s] \in Keys => Plan(s) \subseteq Keys \X Nat
<1>1. fetch[s].size \in Nat /\ fetch[s].chunkId \in Nat /\ fetch[s].offset \in Nat
  BY DEF TypeOK, Fetch
<1>2. PlanStart(s) \in Nat
  BY <1>1, GlobalOfType DEF PlanStart
<1>3. ASSUME sessionKey[s] \in Keys PROVE Plan(s) \subseteq Keys \X Nat
  <2>1. ChunksTouched(fetch[s].chunkId, fetch[s].offset, fetch[s].size) \subseteq Nat
    BY <1>1, ChunksTouchedType
  <2>2. QED
    BY <1>3, <2>1 DEF Plan
<1>4. QED
  BY <1>1, <1>2, <1>3

-----------------------------------------------------------------------------
\* Every step of every session keeps the types; a step needs to know what the
\* call it belongs to has established (CallOK), as that the slot it uses is one.
LEMMA TypeStep == 
    ASSUME TypeOK, CallInv, NEW s \in Sessions, Call(s) \/ Step(s) \/ Crash(s)
    PROVE  TypeOK'
<1> USE DEF rows, handle, history
<1>a. CallOK(s)
  BY DEF CallInv
<1>b. pc[s] \in Steps /\ request[s] \in Request /\ fetch[s] \in Fetch /\ pending[s] \in Row
      /\ slot[s] \in 0 .. NSlots
  BY DEF TypeOK
<1>c. request[s].size \in Nat /\ request[s].offset \in Nat /\ request[s].encrypt \in BOOLEAN
  BY <1>b DEF Request
<1>1. CASE CreateSession(s)
  BY <1>1, PadEngineAssumption DEF CreateSession, TypeOK
<1>2. CASE CloseSession(s)
  BY <1>2 DEF CloseSession, TypeOK
<1>3. CASE MountKeySet(s)
  BY <1>3 DEF MountKeySet, TypeOK
<1>4. CASE UnmountKeySet(s)
  BY <1>4 DEF UnmountKeySet, GoTo, TypeOK, Steps
<1>5. ASSUME NEW k \in Keys \cup {NoKey}, SetSessionKey(s, k) PROVE TypeOK'
  BY <1>5 DEF SetSessionKey, TypeOK
<1>6. ASSUME NEW req \in Request, StartCipher(s, req) PROVE TypeOK'
  <2>1. req.size \in Nat
    BY DEF Request
  <2>2. pc' \in [Sessions -> Steps] /\ fetch' \in [Sessions -> Fetch]
    <3>1. CASE CacheKeySize[s] > 0
      BY <1>6, <3>1, GoToType DEF StartCipher, TypeOK, Steps
    <3>2. CASE ~(CacheKeySize[s] > 0)
      BY <1>6, <2>1, <3>2, CallGetKeyBytesType DEF StartCipher
    <3>3. QED
      BY <3>1, <3>2
  <2>3. QED
    BY <1>6, <2>2 DEF StartCipher, TypeOK
<1>7. CASE Lookup(s)
  <2>1. pc' \in [Sessions -> Steps] /\ fetch' \in [Sessions -> Fetch]
    <3>1. CASE CallGetKeyBytes(s, FALSE, request[s].size)
      BY <1>c, <3>1, CallGetKeyBytesType
    <3>2. CASE GoTo(s, "fill") /\ UNCHANGED fetch
      BY <3>2, GoToType DEF Steps, TypeOK
    <3>3. CASE (\E step \in {"evict", "serve"} : GoTo(s, step)) /\ UNCHANGED fetch
      BY <3>3, GoToType DEF Steps, TypeOK
    <3>4. QED
      BY <1>7, <3>1, <3>2, <3>3 DEF Lookup
  <2>2. slot' \in [Sessions -> 0 .. NSlots]
    BY <1>7, SlotsType DEF Lookup, TypeOK
  <2>3. QED
    BY <1>7, <2>1, <2>2 DEF Lookup, TypeOK
<1>8. CASE Fill(s)
  <2>1. pc' \in [Sessions -> Steps] /\ fetch' \in [Sessions -> Fetch]
    BY <1>8, <1>c, CallGetKeyBytesType, PadEngineAssumption DEF Fill
  <2>2. slot' \in [Sessions -> 0 .. NSlots]
    BY <1>8, SlotsType DEF Fill, TypeOK
  <2>3. QED
    BY <1>8, <2>1, <2>2 DEF Fill, TypeOK
<1>9. CASE Serve(s)
  <2> DEFINE e == cache[s][slot[s]]
             held == [keyId |-> e.keyId, from |-> e.from + e.workOffset, 
                      to |-> e.from + e.workOffset + e.workSize]
  <2>1. At(s, "serve") /\ slot[s] \in Slots /\ e \in Entry
    BY <1>9, <1>a DEF Serve, CallOK, At, TypeOK
  <2>2. e.offset \in Nat /\ e.from \in Nat /\ e.workOffset \in Nat /\ e.workSize \in Nat
    BY <2>1 DEF Entry
  <2>3. CASE /\ request[s].encrypt
             /\ Deliver(s, e.offset + e.workOffset, held.from, request[s].size, held)
             /\ cache' = [cache EXCEPT ![s][slot[s]] = UseEntry(e, request[s].size)]
             /\ Return(s)
    <3>1. e.isEncrypt /\ request[s].size <= e.workSize
      BY <2>1, <2>3, <1>a DEF CallOK
    <3>2. UseEntry(e, request[s].size) \in Entry
      BY <3>1, <2>1, <1>c, UseEntryType
    <3>3. cache' \in [Sessions -> [Slots -> Entry]]
      BY <2>1, <2>3, <3>2, EntryReplacedType
    <3>4. e.offset + e.workOffset \in Nat /\ e.from + e.workOffset \in Nat
      BY <2>2
    <3>5. /\ uses' \in [Keys -> [Bytes -> Nat]]
          /\ mislabelled' \in SUBSET Mislabel
      BY <2>3, <3>4, <1>c, DeliverType
    <3>6. QED
      BY <1>9, <2>3, <3>3, <3>5, ReturnType DEF Serve, TypeOK
  <2>4. CASE /\ ~request[s].encrypt
             /\ InEntry(e, request[s].offset, request[s].size)
             /\ Deliver(s, request[s].offset, e.from + (request[s].offset - e.offset), 
                        request[s].size, held)
             /\ Return(s)
             /\ UNCHANGED cache
    <3>1. e.from + (request[s].offset - e.offset) \in Nat
      BY <2>2, <2>4, <1>c DEF InEntry
    <3>2. /\ uses' \in [Keys -> [Bytes -> Nat]]
          /\ mislabelled' \in SUBSET Mislabel
      BY <2>4, <3>1, <1>c, DeliverType
    <3>3. QED
      BY <1>9, <2>4, <3>2, ReturnType DEF Serve, TypeOK
  <2>5. CASE /\ slot' = [slot EXCEPT ![s] = 0]
             /\ CallGetKeyBytes(s, FALSE, request[s].size)
             /\ UNCHANGED <<cache, request, history>>
    <3>1. pc' \in [Sessions -> Steps] /\ fetch' \in [Sessions -> Fetch]
      BY <2>5, <1>c, CallGetKeyBytesType
    <3>2. QED
      BY <1>9, <2>5, <3>1, SlotsType DEF Serve, TypeOK
  <2>6. QED
    BY <1>9, <2>3, <2>4, <2>5 DEF Serve
<1>10. CASE ReadKeyInfo(s)
  <2>1. CASE /\ fetch' = [fetch EXCEPT ![s].chunkId = StartChunk(s), ![s].offset = StartOffset(s)]
             /\ GoTo(s, "attach")
             /\ UNCHANGED <<request, slot>>
    <3>1. sessionKey[s] \in Keys
      BY <1>10, <1>a DEF ReadKeyInfo, CallOK, Fetching, At
    <3>2. StartChunk(s) \in Nat /\ StartOffset(s) \in Nat
      BY <3>1, <1>c, ChunkIdType, ChunkOffsetInChunk DEF StartChunk, StartOffset, TypeOK
    <3>3. fetch' \in [Sessions -> Fetch]
      BY <2>1, <3>2 DEF TypeOK, Fetch
    <3>4. pc' \in [Sessions -> Steps]
      BY <2>1, GoToType DEF Steps
    <3>5. QED
      BY <1>10, <2>1, <3>3, <3>4 DEF ReadKeyInfo, TypeOK
  <2>2. CASE FetchFails(s)
    BY <1>10, <2>2, FetchFailsType DEF ReadKeyInfo, TypeOK
  <2>3. QED
    BY <1>10, <2>1, <2>2 DEF ReadKeyInfo
<1>11. CASE Attach(s)
  <2>1. Plan(s) \subseteq Keys \X Nat
    BY <1>11, <1>a, PlanType DEF Attach, CallOK, Fetching, At
  <2>2. attached' \in [Sessions -> SUBSET (Keys \X Nat)]
    <3>1. ASSUME NEW A, A \subseteq Plan(s), attached' = [attached EXCEPT ![s] = @ \cup A]
          PROVE  attached' \in [Sessions -> SUBSET (Keys \X Nat)]
      <4>1. attached[s] \cup A \subseteq Keys \X Nat
        BY <2>1, <3>1 DEF TypeOK
      <4>2. QED
        BY <3>1, <4>1, AttachedType
    <3>2. QED
      BY <1>11, <3>1 DEF Attach, StayAttached
  <2>3. CASE GoTo(s, IF request[s].encrypt THEN "begin" ELSE "read") /\ UNCHANGED <<request, slot, fetch>>
    <3>1. pc' \in [Sessions -> Steps]
      BY <2>3, GoToType DEF Steps
    <3>2. QED
      BY <1>11, <2>2, <2>3, <3>1 DEF Attach, TypeOK
  <2>4. CASE FetchFails(s)
    BY <1>11, <2>2, <2>4, FetchFailsType DEF Attach, TypeOK
  <2>5. QED
    BY <1>11, <2>3, <2>4 DEF Attach
<1>12. CASE Begin(s)
  <2>1. pc' \in [Sessions -> Steps]
    BY <1>12, GoToType DEF Begin, Steps
  <2>2. QED
    BY <1>12, <2>1, OpenTransactionType DEF Begin, TypeOK
<1>13. CASE ReadChunks(s)
  <2>1. pc' \in [Sessions -> Steps]
    BY <1>13, GoToType DEF ReadChunks, Steps
  <2>2. QED
    BY <1>13, <2>1 DEF ReadChunks, TypeOK
<1>14. CASE AdvanceOffset(s)
  <2> DEFINE end == PlanStart(s) + fetch[s].size
  <2>1. pc' \in [Sessions -> Steps]
    BY <1>14, GoToType DEF AdvanceOffset, Steps
  <2>2. sessionKey[s] \in Keys /\ end \in Nat /\ fetch[s].chunkId \in Nat /\ fetch[s].size \in Nat
    BY <1>14, <1>a, <1>b, PlanType DEF AdvanceOffset, CallOK, Fetching, At, Fetch
  <2>3. ChunkIdOf(fetch[s].chunkId, end) \in Nat /\ ChunkOffsetOf(end) \in Nat
    BY <2>2, ChunkIdType, ChunkOffsetInChunk
  <2>4. usedBytes[sessionKey[s]] + fetch[s].size \in Int
    BY <2>2 DEF TypeOK
  <2>5. pending' \in [Sessions -> Row]
    <3>1. [chunkId |-> ChunkIdOf(fetch[s].chunkId, end), offset |-> ChunkOffsetOf(end),
           used |-> usedBytes[sessionKey[s]] + fetch[s].size] \in Row
      BY <2>3, <2>4 DEF Row
    <3>2. QED
      BY <1>14, <3>1 DEF AdvanceOffset, TypeOK
  <2>6. QED
    BY <1>14, <2>1, <2>5 DEF AdvanceOffset, TypeOK
<1>15. CASE Commit(s)
  <2>1. pc' \in [Sessions -> Steps]
    BY <1>15, GoToType DEF Commit, Steps
  <2>2. sessionKey[s] \in Keys
    BY <1>15, <1>a DEF Commit, CallOK, Fetching, At
  <2>3. QED
    BY <1>15, <1>b, <2>1, <2>2, NoneTyped, WriteRowType, EndTransactionType DEF Commit, TypeOK
<1>16. CASE Detach(s)
  <2> DEFINE p == PlanStart(s)
             o == IF request[s].encrypt THEN p ELSE request[s].offset
             e == [inUse |-> TRUE, keyId |-> sessionKey[s], isEncrypt |-> request[s].encrypt,
                   offset |-> o, from |-> p, workOffset |-> 0, workSize |-> fetch[s].size]
             held == [keyId |-> sessionKey[s], from |-> p, to |-> p + fetch[s].size]
  <2>1. sessionKey[s] \in Keys /\ (fetch[s].fill => slot[s] \in Slots)
    BY <1>16, <1>a DEF Detach, CallOK, Fetching, At
  <2>2. p \in Nat /\ o \in Nat /\ fetch[s].size \in Nat /\ Plan(s) \subseteq Keys \X Nat
    BY <2>1, <1>c, PlanType
  <2>3. attached' \in [Sessions -> SUBSET (Keys \X Nat)]
    <3>1. \E A \in SUBSET Plan(s) : attached' = [attached EXCEPT ![s] = (@ \ Plan(s)) \cup A]
      <4>1. attached[s] \ Plan(s) = (attached[s] \ Plan(s)) \cup {}
        OBVIOUS
      <4>2. QED
        BY <1>16, <4>1 DEF Detach
    <3>2. PICK A \in SUBSET Plan(s) : attached' = [attached EXCEPT ![s] = (@ \ Plan(s)) \cup A]
      BY <3>1
    <3>3. (attached[s] \ Plan(s)) \cup A \subseteq Keys \X Nat
      BY <2>2 DEF TypeOK
    <3>4. QED
      BY <3>2, <3>3, AttachedType
  <2>4. CASE /\ fetch[s].fill
             /\ cache' = [cache EXCEPT ![s][slot[s]] = e]
             /\ fetch' = [fetch EXCEPT ![s] = NoFetch]
             /\ GoTo(s, "serve")
             /\ UNCHANGED <<request, slot, history>>
    <3>1. e \in Entry
      BY <2>1, <2>2, <1>c DEF Entry
    <3>2. cache' \in [Sessions -> [Slots -> Entry]]
      BY <2>1, <2>4, <3>1, EntryReplacedType
    <3>3. pc' \in [Sessions -> Steps]
      BY <2>4, GoToType DEF Steps
    <3>4. QED
      BY <1>16, <2>3, <2>4, <3>2, <3>3, NoneTyped DEF Detach, TypeOK
  <2>5. CASE Deliver(s, o, p, fetch[s].size, held) /\ Return(s) /\ UNCHANGED cache
    <3>1. /\ uses' \in [Keys -> [Bytes -> Nat]]
          /\ mislabelled' \in SUBSET Mislabel
      BY <2>2, <2>5, DeliverType
    <3>2. QED
      BY <1>16, <2>3, <2>5, <3>1, ReturnType DEF Detach, TypeOK
  <2>6. CASE FetchFails(s) /\ UNCHANGED <<cache, history>>
    BY <1>16, <2>3, <2>6, FetchFailsType DEF Detach, TypeOK
  <2>7. QED
    BY <1>16, <2>4, <2>5, <2>6 DEF Detach
<1>17. CASE Cleanup(s)
  <2>1. Plan(s) \subseteq Keys \X Nat
    BY <1>17, <1>a, PlanType DEF Cleanup, CallOK, Fetching, At
  <2>2. attached' \in [Sessions -> SUBSET (Keys \X Nat)]
    BY <1>17, <2>1 DEF Cleanup, StayAttached, TypeOK
  <2>3. QED
    BY <1>17, <2>2, FetchFailsType, EndTransactionType, NoneTyped DEF Cleanup, TypeOK
<1>18. CASE Evict(s)
  <2>1. slot[s] \in Slots
    BY <1>18, <1>a DEF Evict, CallOK, At
  <2>2. CASE OpenTransaction(s) /\ GoTo(s, "rewind") /\ UNCHANGED <<cache, slot>>
    <3>1. pc' \in [Sessions -> Steps]
      BY <2>2, GoToType DEF Steps
    <3>2. QED
      BY <1>18, <2>2, <3>1, OpenTransactionType DEF Evict, TypeOK
  <2>3. CASE FreeSlot(s) /\ UNCHANGED <<writer, transaction>>
    BY <1>18, <2>1, <2>3, FreeSlotType DEF Evict, TypeOK
  <2>4. QED
    BY <1>18, <2>2, <2>3 DEF Evict
<1>19. CASE Rewind(s)
  <2> DEFINE e == cache[s][slot[s]]
             back == RewindTo(e)
  <2>1. slot[s] \in Slots /\ e \in Entry /\ e.keyId \in Keys
    BY <1>19, <1>a DEF Rewind, CallOK, CallInv, EntriesOK, At, TypeOK
  <2>2. CASE /\ pending' = [pending EXCEPT ![s] = 
                              [chunkId |-> ChunkIdOf(rowChunk[e.keyId], back), 
                               offset |-> ChunkOffsetOf(back),
                               used |-> usedBytes[e.keyId] - e.workSize]]
             /\ GoTo(s, "rewindCommit")
             /\ UNCHANGED <<writer, transaction, cache, slot>>
    <3>1. back \in Nat /\ e.workSize \in Int
      BY <2>1 DEF Entry, RewindTo
    <3>2. rowChunk[e.keyId] \in Nat /\ usedBytes[e.keyId] \in Int
      BY <2>1 DEF TypeOK
    <3>3. ChunkIdOf(rowChunk[e.keyId], back) \in Nat /\ ChunkOffsetOf(back) \in Nat
      BY <3>1, <3>2, ChunkIdType, ChunkOffsetInChunk
    <3>4. usedBytes[e.keyId] - e.workSize \in Int
      BY <3>1, <3>2
    <3>5. pending' \in [Sessions -> Row]
      BY <2>2, <3>3, <3>4 DEF Row, TypeOK
    <3>6. pc' \in [Sessions -> Steps]
      BY <2>2, GoToType DEF Steps
    <3>7. QED
      BY <1>19, <2>2, <3>5, <3>6 DEF Rewind, TypeOK
  <2>3. CASE EndTransaction(s) /\ FreeSlot(s) /\ UNCHANGED pending
    BY <1>19, <2>1, <2>3, FreeSlotType, EndTransactionType DEF Rewind, TypeOK
  <2>4. QED
    BY <1>19, <2>2, <2>3 DEF Rewind
<1>20. CASE RewindCommit(s)
  <2>1. slot[s] \in Slots /\ cache[s][slot[s]].keyId \in Keys
    BY <1>20, <1>a DEF RewindCommit, CallOK, CallInv, EntriesOK, At
  <2>2. /\ rowChunk' \in [Keys -> Nat]
        /\ rowOffset' \in [Keys -> Nat]
        /\ usedBytes' \in [Keys -> Int]
    BY <1>20, <1>b, <2>1, WriteRowType DEF RewindCommit, TypeOK
  <2>3. QED
    BY <1>20, <2>1, <2>2, FreeSlotType, EndTransactionType, NoneTyped DEF RewindCommit, TypeOK
<1>21. CASE Unmount(s)
  <2>1. CASE slot' \in [Sessions -> 0 .. NSlots] /\ GoTo(s, "evict") 
             /\ UNCHANGED <<handle, transaction, attached, request, fetch>>
    <3>1. pc' \in [Sessions -> Steps]
      BY <2>1, GoToType DEF Steps
    <3>2. QED
      BY <1>21, <2>1, <3>1 DEF Unmount, TypeOK
  <2>2. CASE Return(s) /\ haveCache' = [haveCache EXCEPT ![s] = FALSE]
    BY <1>21, <2>2, ReturnType DEF Unmount, TypeOK
  <2>3. QED
    BY <1>21, <2>1, <2>2, SlotsType DEF Unmount, TypeOK
<1>22. CASE Crash(s)
  BY <1>22, ReturnType, EndTransactionType, NoneTyped DEF Crash, TypeOK
<1>23. ASSUME NEW n \in Sizes, NEW o \in Bytes, NEW b \in BOOLEAN PROVE [encrypt |-> b, offset |-> o, size |-> n] \in Request
  BY PadEngineAssumption DEF Request, Bytes
<1>24. ASSUME NEW n \in Sizes PROVE [encrypt |-> TRUE, offset |-> 0, size |-> n] \in Request
  BY PadEngineAssumption DEF Request
<1>25. CASE Call(s)
  BY <1>25, <1>1, <1>2, <1>3, <1>4, <1>5, <1>6, <1>23, <1>24 DEF Call, Encrypt, Decrypt
<1>26. CASE Step(s)
  BY <1>26, <1>7, <1>8, <1>9, <1>10, <1>11, <1>12, <1>13, <1>14, <1>15, <1>16, <1>17, <1>18,
     <1>19, <1>20, <1>21 DEF Step
<1>27. QED
  BY <1>22, <1>25, <1>26
-----------------------------------------------------------------------------
\* What a session knows of its own.
Local(t) == 
    <<pc[t], request[t], slot[t], fetch[t], pending[t], cache[t], sessionKey[t], transaction[t],
      attached[t]>>

\* A session's step changes nothing that another session knows of its own.
LEMMA StepIsLocal == 
    ASSUME TypeOK, NEW s \in Sessions, NEW t \in Sessions, t # s, Call(s) \/ Step(s) \/ Crash(s)
    PROVE  Local(t)' = Local(t)
<1> USE DEF Local, TypeOK, rows, handle, history, GoTo
<1>1. ASSUME Return(s) PROVE UNCHANGED <<pc[t], request[t], slot[t], fetch[t]>>
  BY <1>1 DEF Return
<1>2. ASSUME NEW fill, NEW n, CallGetKeyBytes(s, fill, n) PROVE UNCHANGED <<pc[t], fetch[t]>>
  BY <1>2 DEF CallGetKeyBytes
<1>3. ASSUME FetchFails(s) PROVE UNCHANGED <<pc[t], request[t], slot[t], fetch[t]>>
  BY <1>1, <1>2, <1>3 DEF FetchFails
<1>4. ASSUME FreeSlot(s) PROVE UNCHANGED <<pc[t], slot[t], cache[t]>>
  BY <1>4 DEF FreeSlot
<1>5. CASE Call(s)
  BY <1>2, <1>5 DEF Call, CreateSession, CloseSession, MountKeySet, UnmountKeySet, SetSessionKey, 
     Encrypt, Decrypt, StartCipher
<1>6. CASE Lookup(s) \/ Fill(s)
  BY <1>2, <1>6 DEF Lookup, Fill
<1>7. CASE Serve(s)
  BY <1>1, <1>2, <1>7 DEF Serve
<1>8. CASE ReadKeyInfo(s)
  BY <1>3, <1>8 DEF ReadKeyInfo
<1>9. CASE Attach(s)
  BY <1>3, <1>9 DEF Attach
<1>10. CASE Begin(s) \/ ReadChunks(s) \/ AdvanceOffset(s) \/ Commit(s)
  BY <1>10 DEF Begin, ReadChunks, AdvanceOffset, Commit, OpenTransaction, EndTransaction
<1>11. CASE Detach(s)
  BY <1>1, <1>3, <1>11 DEF Detach
<1>12. CASE Cleanup(s)
  BY <1>3, <1>12 DEF Cleanup, EndTransaction
<1>13. CASE Evict(s)
  BY <1>4, <1>13 DEF Evict, OpenTransaction
<1>14. CASE Rewind(s)
  BY <1>4, <1>14 DEF Rewind, EndTransaction
<1>15. CASE RewindCommit(s)
  BY <1>4, <1>15 DEF RewindCommit, EndTransaction
<1>16. CASE Unmount(s)
  BY <1>1, <1>16 DEF Unmount
<1>17. CASE Crash(s)
  BY <1>1, <1>17 DEF Crash, EndTransaction
<1>18. QED
  BY <1>5, <1>6, <1>7, <1>8, <1>9, <1>10, <1>11, <1>12, <1>13, <1>14, <1>15, <1>16, <1>17 DEF Step

\* So the invariants of the other sessions' calls hold on.
LEMMA CallStepOthers == 
    ASSUME TypeOK, CallInv, NEW s \in Sessions, NEW t \in Sessions, t # s, 
           Call(s) \/ Step(s) \/ Crash(s)
    PROVE  CallOK(t)' /\ EntriesOK(t)'
<1>1. CallOK(t) /\ EntriesOK(t)
  BY DEF CallInv
<1>2. Local(t)' = Local(t)
  BY StepIsLocal
<1>3. QED
  BY <1>1, <1>2 DEF Local, CallOK, EntriesOK, At, Fetching

\* A call that returns is at no step that asks for anything.
LEMMA ReturnOK == 
    ASSUME TypeOK, NEW s \in Sessions, Return(s)
    PROVE  CallOK(s)'
BY PadEngineAssumption DEF TypeOK, Return, GoTo, CallOK, At, Fetching

\* getKeyBytes that fails leaves the call idle, or about to fetch the request.
LEMMA FetchFailsOK == 
    ASSUME TypeOK, NEW s \in Sessions, CallOK(s), Fetching(s), FetchFails(s), 
           UNCHANGED sessionKey
    PROVE  CallOK(s)'
<1>1. CASE fetch[s].fill
  <2>1. pc'[s] = "info" /\ fetch'[s].size = request[s].size /\ fetch'[s].fill = FALSE
    <3>1. CallGetKeyBytes(s, FALSE, request[s].size)
      BY <1>1 DEF FetchFails
    <3>2. QED
      BY <3>1 DEF TypeOK, CallGetKeyBytes, GoTo, NoFetch
  <2>2. request[s] # NoRequest /\ request[s].size \in Nat
    BY DEF CallOK, Fetching, At, TypeOK, Request
  <2>3. UNCHANGED <<request, sessionKey>>
    BY <1>1 DEF FetchFails
  <2>4. QED
    BY <2>1, <2>2, <2>3 DEF CallOK, At, Fetching
<1>2. CASE ~fetch[s].fill
  BY <1>2, ReturnOK DEF FetchFails
<1>3. QED
  BY <1>1, <1>2

\* freeCachedKey goes on with no entry, to the refill or to the next one.
LEMMA FreeSlotOK == 
    ASSUME TypeOK, NEW s \in Sessions, CallOK(s), EntriesOK(s), 
           pc[s] \in {"evict", "rewind", "rewindCommit"}, FreeSlot(s), 
           UNCHANGED <<sessionKey, request>>
    PROVE  CallOK(s)' /\ EntriesOK(s)'
<1>1. CallOK(s)'
  BY DEF TypeOK, FreeSlot, GoTo, CallOK, At, Fetching
<1>2. EntriesOK(s)'
  BY DEF TypeOK, FreeSlot, EntriesOK, NoEntry
<1>3. QED
  BY <1>1, <1>2

\* A step of a call establishes what its next one needs.
LEMMA CallStepSelf == 
    ASSUME TypeOK, CallInv, NEW s \in Sessions, Call(s) \/ Step(s) \/ Crash(s)
    PROVE  CallOK(s)' /\ EntriesOK(s)'
<1> USE DEF rows, handle, history
<1>a. CallOK(s) /\ EntriesOK(s)
  BY DEF CallInv
<1>b. pc[s] \in Steps /\ request[s] \in Request /\ fetch[s] \in Fetch /\ slot[s] \in 0 .. NSlots
  BY DEF TypeOK
<1>c. request[s].size \in Nat /\ request[s].offset \in Nat /\ request[s].encrypt \in BOOLEAN
  BY <1>b DEF Request
<1>d. ASSUME UNCHANGED cache PROVE EntriesOK(s)'
  BY <1>a, <1>d DEF EntriesOK
<1>1. CASE CreateSession(s) \/ CloseSession(s) \/ MountKeySet(s)
  BY <1>1, <1>a, <1>d DEF CreateSession, CloseSession, MountKeySet, CallOK, At, Fetching
<1>2. CASE UnmountKeySet(s)
  BY <1>2, <1>a, <1>d DEF UnmountKeySet, MayCall, GoTo, CallOK, At, Fetching, TypeOK
<1>3. ASSUME NEW k \in Keys \cup {NoKey}, SetSessionKey(s, k) PROVE CallOK(s)' /\ EntriesOK(s)'
  BY <1>3, <1>a, <1>d DEF SetSessionKey, MayCall, CallOK, At, Fetching, TypeOK
<1>4. ASSUME NEW req \in Request, req.size > 0, StartCipher(s, req) 
      PROVE  CallOK(s)' /\ EntriesOK(s)'
  <2>1. req # NoRequest
    BY <1>4 DEF NoRequest
  <2>2. sessionKey[s] \in Keys
    BY <1>4 DEF StartCipher, TypeOK
  <2>3. request'[s] = req /\ sessionKey'[s] = sessionKey[s] /\ slot' = slot /\ cache' = cache
    BY <1>4 DEF StartCipher, TypeOK
  <2>4. CASE GoTo(s, "lookup")
    BY <1>4, <1>d, <2>1, <2>2, <2>3, <2>4 DEF GoTo, CallOK, At, Fetching, TypeOK
  <2>5. CASE CallGetKeyBytes(s, FALSE, req.size)
    <3>1. pc'[s] = "info" /\ fetch'[s].size = req.size /\ fetch'[s].fill = FALSE
      BY <2>5 DEF CallGetKeyBytes, GoTo, NoFetch, TypeOK
    <3>2. req.size \in Nat
      BY DEF Request
    <3>3. QED
      BY <1>4, <1>d, <2>1, <2>2, <2>3, <3>1, <3>2 DEF CallOK, At, Fetching
  <2>6. QED
    BY <1>4, <2>4, <2>5 DEF StartCipher
<1>5. CASE Lookup(s)
  <2>1. request[s] # NoRequest /\ request[s].size > 0 /\ sessionKey[s] \in Keys
    BY <1>5, <1>a DEF Lookup, CallOK, At
  <2>2. request' = request /\ sessionKey' = sessionKey /\ cache' = cache
    BY <1>5 DEF Lookup
  <2>3. CASE CallGetKeyBytes(s, FALSE, request[s].size)
    BY <2>1, <2>2, <2>3, <1>c, <1>d DEF CallGetKeyBytes, GoTo, NoFetch, CallOK, At, Fetching, TypeOK
  <2>4. CASE GoTo(s, "fill") /\ request[s].size <= CacheKeySize[s]
    BY <2>1, <2>2, <2>4, <1>d DEF GoTo, CallOK, At, Fetching, TypeOK
  <2>5. ASSUME request[s].size <= CacheKeySize[s], NEW i \in Slots, 
               IsFirst(i, Matching(s)), slot' = [slot EXCEPT ![s] = i],
               GoTo(s, IF TooFew(cache[s][i], request[s].size) THEN "evict" ELSE "serve")
        PROVE  CallOK(s)'
    <3>1. cache[s][i].inUse /\ cache[s][i].keyId = sessionKey[s] 
          /\ cache[s][i].isEncrypt = request[s].encrypt /\ cache[s][i].workSize \in Nat
      BY <2>5 DEF IsFirst, Matching, TypeOK, Entry
    <3>2. slot'[s] = i
      BY <2>5 DEF TypeOK
    <3>3. CASE TooFew(cache[s][i], request[s].size)
      BY <2>1, <2>2, <2>5, <3>1, <3>2, <3>3 DEF GoTo, CallOK, At, Fetching, TypeOK
    <3>4. CASE ~TooFew(cache[s][i], request[s].size)
      BY <2>1, <2>2, <2>5, <3>1, <3>2, <3>4, <1>c DEF TooFew, GoTo, CallOK, At, Fetching, TypeOK
    <3>5. QED
      BY <3>3, <3>4
  <2>6. QED
    BY <1>5, <1>d, <2>2, <2>3, <2>4, <2>5 DEF Lookup
<1>6. CASE Fill(s)
  <2>1. request[s] # NoRequest /\ request[s].size > 0 /\ sessionKey[s] \in Keys
        /\ request[s].size <= CacheKeySize[s]
    BY <1>6, <1>a DEF Fill, CallOK, At
  <2>2. request' = request /\ sessionKey' = sessionKey /\ cache' = cache
    BY <1>6 DEF Fill
  <2>3. CASE CallGetKeyBytes(s, FALSE, request[s].size)
    BY <2>1, <2>2, <2>3, <1>c, <1>d DEF CallGetKeyBytes, GoTo, NoFetch, CallOK, At, Fetching, TypeOK
  <2>4. ASSUME NEW i \in Slots, IsFirst(i, FreeSlots(s)), slot' = [slot EXCEPT ![s] = i],
               CallGetKeyBytes(s, TRUE, CacheKeySize[s])
        PROVE  CallOK(s)'
    <3>1. ~cache[s][i].inUse /\ slot'[s] = i
      BY <2>4 DEF IsFirst, FreeSlots, TypeOK
    <3>2. QED
      BY <2>1, <2>2, <2>4, <3>1 DEF CallGetKeyBytes, GoTo, NoFetch, CallOK, At, Fetching, TypeOK
  <2>5. QED
    BY <1>6, <1>d, <2>2, <2>3, <2>4 DEF Fill
<1>7. CASE Serve(s)
  <2> DEFINE e == cache[s][slot[s]]
  <2>1. At(s, "serve") /\ slot[s] \in Slots /\ e \in Entry /\ e.inUse
    BY <1>7, <1>a DEF Serve, CallOK, At, TypeOK
  <2>2. CASE request[s].encrypt /\ cache' = [cache EXCEPT ![s][slot[s]] = UseEntry(e, request[s].size)]
             /\ Return(s)
    <3>1. EntriesOK(s)'
      <4>1. request[s].size <= e.workSize /\ e.keyId \in Keys /\ e.workSize \in Nat
        BY <2>1, <2>2, <1>a DEF CallOK, EntriesOK, At, Entry
      <4>2. UseEntry(e, request[s].size).inUse => 
              UseEntry(e, request[s].size).keyId \in Keys /\ UseEntry(e, request[s].size).workSize > 0
        BY <2>1, <4>1, <1>c DEF UseEntry, NoEntry, Entry
      <4>3. QED
        BY <2>1, <2>2, <4>2, <1>a DEF EntriesOK, TypeOK
    <3>2. QED
      BY <2>2, <3>1, ReturnOK
  <2>3. CASE Return(s) /\ UNCHANGED cache
    BY <2>3, <1>d, ReturnOK
  <2>4. CASE CallGetKeyBytes(s, FALSE, request[s].size) /\ UNCHANGED <<cache, request, history>>
    <3>1. request[s] # NoRequest /\ sessionKey' = sessionKey
      BY <1>7, <1>a, <2>1 DEF CallOK, At, Serve
    <3>2. QED
      BY <2>4, <3>1, <1>a, <1>c, <1>d DEF CallGetKeyBytes, GoTo, NoFetch, CallOK, At, Fetching, TypeOK
  <2>5. QED
    BY <1>7, <2>2, <2>3, <2>4 DEF Serve
<1>8. CASE ReadKeyInfo(s)
  <2>1. CASE /\ fetch' = [fetch EXCEPT ![s].chunkId = StartChunk(s), ![s].offset = StartOffset(s)]
             /\ GoTo(s, "attach")
             /\ UNCHANGED <<request, slot>>
    <3>1. fetch'[s].size = fetch[s].size /\ fetch'[s].fill = fetch[s].fill
      BY <2>1 DEF TypeOK, Fetch
    <3>2. sessionKey' = sessionKey /\ cache' = cache
      BY <1>8 DEF ReadKeyInfo
    <3>3. QED
      BY <1>8, <1>a, <1>d, <2>1, <3>1, <3>2 DEF ReadKeyInfo, GoTo, CallOK, At, Fetching, TypeOK
  <2>2. CASE FetchFails(s)
    BY <1>8, <1>a, <1>d, <2>2, FetchFailsOK DEF ReadKeyInfo, Fetching, At
  <2>3. QED
    BY <1>8, <2>1, <2>2 DEF ReadKeyInfo
<1>9. CASE Attach(s)
  <2>1. CASE GoTo(s, IF request[s].encrypt THEN "begin" ELSE "read") /\ UNCHANGED <<request, slot, fetch>>
    BY <1>9, <1>a, <1>d, <2>1 DEF Attach, GoTo, CallOK, At, Fetching, TypeOK
  <2>2. CASE FetchFails(s)
    BY <1>9, <1>a, <1>d, <2>2, FetchFailsOK DEF Attach, Fetching, At
  <2>3. QED
    BY <1>9, <2>1, <2>2 DEF Attach
<1>10. CASE Begin(s)
  BY <1>10, <1>a, <1>d DEF Begin, GoTo, CallOK, At, Fetching, TypeOK
<1>11. CASE ReadChunks(s)
  BY <1>11, <1>a, <1>d DEF ReadChunks, GoTo, CallOK, At, Fetching, TypeOK
<1>12. CASE AdvanceOffset(s)
  BY <1>12, <1>a, <1>d DEF AdvanceOffset, GoTo, CallOK, At, Fetching, TypeOK
<1>13. CASE Commit(s)
  BY <1>13, <1>a, <1>d DEF Commit, GoTo, CallOK, At, Fetching, TypeOK
<1>14. CASE Detach(s)
  <2> DEFINE p == PlanStart(s)
             o == IF request[s].encrypt THEN p ELSE request[s].offset
             e == [inUse |-> TRUE, keyId |-> sessionKey[s], isEncrypt |-> request[s].encrypt,
                   offset |-> o, from |-> p, workOffset |-> 0, workSize |-> fetch[s].size]
  <2>1. CASE /\ fetch[s].fill
             /\ cache' = [cache EXCEPT ![s][slot[s]] = e]
             /\ fetch' = [fetch EXCEPT ![s] = NoFetch]
             /\ GoTo(s, "serve")
             /\ UNCHANGED <<request, slot, history>>
    <3>1. slot[s] \in Slots /\ sessionKey[s] \in Keys /\ fetch[s].size >= request[s].size
          /\ request[s].size > 0 /\ request[s] # NoRequest /\ fetch[s].size \in Nat
      BY <1>14, <1>a, <1>b, <2>1 DEF Detach, CallOK, Fetching, At, Fetch
    <3>2. cache'[s] = [cache[s] EXCEPT ![slot[s]] = e]
      BY <2>1 DEF TypeOK
    <3>3. cache'[s][slot[s]] = e
      BY <3>1, <3>2 DEF TypeOK
    <3>4. EntriesOK(s)'
      BY <3>1, <3>2, <1>a, <1>c DEF EntriesOK, TypeOK
    <3>5. pc'[s] = "serve" /\ slot' = slot /\ request' = request /\ sessionKey' = sessionKey
      BY <1>14, <2>1 DEF Detach, GoTo, TypeOK
    <3>6. CallOK(s)'
      BY <3>1, <3>3, <3>5, <1>c DEF CallOK, At, Fetching
    <3>7. QED
      BY <3>4, <3>6
  <2>2. CASE Return(s) /\ UNCHANGED cache
    BY <2>2, <1>d, ReturnOK
  <2>3. CASE FetchFails(s) /\ UNCHANGED cache
    BY <1>14, <1>a, <1>d, <2>3, FetchFailsOK DEF Detach, Fetching, At
  <2>4. QED
    BY <1>14, <2>1, <2>2, <2>3 DEF Detach
<1>15. CASE Cleanup(s)
  BY <1>15, <1>a, <1>d, FetchFailsOK DEF Cleanup, Fetching, At
<1>16. CASE Evict(s)
  <2>1. CASE cache[s][slot[s]].isEncrypt /\ GoTo(s, "rewind") /\ UNCHANGED <<cache, slot>>
    BY <1>16, <1>a, <1>d, <2>1 DEF Evict, GoTo, CallOK, At, Fetching, TypeOK
  <2>2. CASE FreeSlot(s)
    BY <1>16, <1>a, <2>2, FreeSlotOK DEF Evict, At
  <2>3. QED
    BY <1>16, <2>1, <2>2 DEF Evict
<1>17. CASE Rewind(s)
  <2>1. CASE GoTo(s, "rewindCommit") /\ UNCHANGED <<cache, slot>>
    BY <1>17, <1>a, <1>d, <2>1 DEF Rewind, GoTo, CallOK, At, Fetching, TypeOK
  <2>2. CASE FreeSlot(s)
    BY <1>17, <1>a, <2>2, FreeSlotOK DEF Rewind, At
  <2>3. QED
    BY <1>17, <2>1, <2>2 DEF Rewind
<1>18. CASE RewindCommit(s)
  BY <1>18, <1>a, FreeSlotOK DEF RewindCommit, At
<1>19. CASE Unmount(s)
  <2>1. ASSUME NEW i \in Slots, IsFirst(i, Slots \ FreeSlots(s)), slot' = [slot EXCEPT ![s] = i],
               GoTo(s, "evict"), UNCHANGED <<handle, request, cache>>
        PROVE  CallOK(s)'
    <3>1. cache[s][i].inUse /\ slot'[s] = i /\ request[s] = NoRequest
      BY <1>19, <1>a, <2>1 DEF IsFirst, FreeSlots, TypeOK, Unmount, CallOK, At
    <3>2. request[s].size <= CacheKeySize[s]
      BY <3>1, PadEngineAssumption DEF NoRequest
    <3>3. QED
      BY <2>1, <3>1, <3>2 DEF GoTo, CallOK, At, Fetching, TypeOK
  <2>2. CASE Return(s)
    BY <1>19, <1>d, <2>2, ReturnOK DEF Unmount
  <2>3. QED
    BY <1>19, <1>d, <2>1, <2>2 DEF Unmount
<1>20. CASE Crash(s)
  <2>1. EntriesOK(s)'
    BY <1>20 DEF Crash, EntriesOK, NoEntry, TypeOK
  <2>2. QED
    BY <1>20, <2>1, ReturnOK DEF Crash
<1>21. ASSUME NEW n \in Sizes, NEW o \in Bytes \cup {0}, NEW b \in BOOLEAN,
              StartCipher(s, [encrypt |-> b, offset |-> o, size |-> n])
       PROVE  CallOK(s)' /\ EntriesOK(s)'
  <2>1. [encrypt |-> b, offset |-> o, size |-> n] \in Request /\ n > 0
    BY PadEngineAssumption DEF Request, Bytes
  <2>2. QED
    BY <1>4, <1>21, <2>1
<1>22. CASE Call(s)
  BY <1>22, <1>1, <1>2, <1>3, <1>21 DEF Call, Encrypt, Decrypt
<1>23. QED
  BY <1>5, <1>6, <1>7, <1>8, <1>9, <1>10, <1>11, <1>12, <1>13, <1>14, <1>15, <1>16, <1>17, 
     <1>18, <1>19, <1>20, <1>22 DEF Step

-----------------------------------------------------------------------------
(* The write lock, whatever calls overlap.                                 *)

\* No session starts in a transaction.
LEMMA InitLockInv == Init => LockInv
BY PadEngineAssumption DEF Init, LockInv, LockOK, InTransaction, At

\* A step takes the lock only when it is free, and releases only its own.
LEMMA LockOfOthers == 
    ASSUME TypeOK, NEW s \in Sessions, NEW t \in Sessions, t # s, Call(s) \/ Step(s) \/ Crash(s)
    PROVE  writer' = t <=> writer = t
<1> USE PadEngineAssumption
<1>1. UNCHANGED writer \/ OpenTransaction(s) \/ EndTransaction(s)
  BY DEF Call, CreateSession, CloseSession, MountKeySet, UnmountKeySet, SetSessionKey, Encrypt, 
     Decrypt, StartCipher, Step, Lookup, Fill, Serve, ReadKeyInfo, Attach, Begin, ReadChunks, 
     AdvanceOffset, Commit, Detach, Cleanup, Evict, Rewind, RewindCommit, Unmount, Crash
<1>2. QED
  BY <1>1 DEF OpenTransaction, EndTransaction

\* A session's step leaves the others in or out of their transactions.
LEMMA LockStepOthers == 
    ASSUME TypeOK, LockInv, NEW s \in Sessions, NEW t \in Sessions, t # s, 
           Call(s) \/ Step(s) \/ Crash(s)
    PROVE  LockOK(t)'
<1>1. LockOK(t) /\ Local(t)' = Local(t) /\ (writer' = t <=> writer = t)
  BY StepIsLocal, LockOfOthers DEF LockInv
<1>2. QED
  BY <1>1 DEF Local, LockOK, InTransaction, At

\* A session that leaves its transaction has ended it.
LEMMA EndTransactionOK == 
    ASSUME TypeOK, NEW s \in Sessions, EndTransaction(s), 
           pc'[s] \notin {"read", "advance", "commit", "rewind", "rewindCommit"}
    PROVE  LockOK(s)'
BY PadEngineAssumption DEF TypeOK, EndTransaction, LockOK, InTransaction, At

\* A session that had no transaction, and opened none, is in none.
LEMMA NoTransactionOK == 
    ASSUME TypeOK, NEW s \in Sessions, LockOK(s), UNCHANGED writer,
           transaction'[s] = transaction[s] \/ transaction'[s] = FALSE,
           ~InTransaction(s), ~At(s, "cleanup"), ~InTransaction(s)'
    PROVE  LockOK(s)'
BY DEF TypeOK, LockOK

\* After a failed getKeyBytes no transaction is left to end.
LEMMA FetchFailsLeaves == 
    ASSUME TypeOK, NEW s \in Sessions, FetchFails(s)
    PROVE  pc'[s] \in {"idle", "info"}
BY DEF FetchFails, CallGetKeyBytes, Return, GoTo, TypeOK

\* A session is in a transaction at the steps between its BEGIN and its end only.
LEMMA LockStepSelf == 
    ASSUME TypeOK, CallInv, LockInv, NEW s \in Sessions, Call(s) \/ Step(s) \/ Crash(s)
    PROVE  LockOK(s)'
<1>a. CallOK(s) /\ LockOK(s)
  BY DEF CallInv, LockInv
<1>1. CASE Call(s)
  <2>1. UNCHANGED <<writer, transaction>> /\ At(s, "idle")
    BY <1>1 DEF Call, CreateSession, CloseSession, MountKeySet, UnmountKeySet, SetSessionKey, 
       Encrypt, Decrypt, StartCipher, MayCall
  <2>2. pc'[s] \in {"idle", "unmount", "lookup", "info"}
    BY <1>1, <2>1 DEF Call, CreateSession, CloseSession, MountKeySet, UnmountKeySet, SetSessionKey, 
       Encrypt, Decrypt, StartCipher, CallGetKeyBytes, GoTo, At, TypeOK
  <2>3. QED
    BY <1>a, <2>1, <2>2, NoTransactionOK DEF InTransaction, At
<1>2. CASE Lookup(s) \/ Fill(s) \/ Serve(s)
  <2>1. UNCHANGED <<writer, transaction>> /\ pc[s] \in {"lookup", "fill", "serve"}
    BY <1>2 DEF Lookup, Fill, Serve, At
  <2>2. pc'[s] \in {"idle", "info", "fill", "serve", "evict"}
    BY <1>2 DEF Lookup, Fill, Serve, CallGetKeyBytes, Return, GoTo, TypeOK
  <2>3. QED
    BY <1>a, <2>1, <2>2, NoTransactionOK DEF InTransaction, At
<1>3. CASE ReadKeyInfo(s)
  <2>1. UNCHANGED <<writer, transaction>> /\ pc[s] = "info"
    BY <1>3 DEF ReadKeyInfo, At
  <2>2. pc'[s] \in {"idle", "info", "attach"}
    BY <1>3, FetchFailsLeaves DEF ReadKeyInfo, GoTo, TypeOK
  <2>3. QED
    BY <1>a, <2>1, <2>2, NoTransactionOK DEF InTransaction, At
<1>4. CASE Attach(s)
  <2>1. UNCHANGED <<writer, transaction>> /\ pc[s] = "attach"
    BY <1>4 DEF Attach, At
  <2>2. pc'[s] \in {"idle", "info", "begin"} \/ (pc'[s] = "read" /\ ~request'[s].encrypt)
    BY <1>4, FetchFailsLeaves DEF Attach, GoTo, TypeOK
  <2>3. QED
    BY <1>a, <2>1, <2>2, NoTransactionOK DEF InTransaction, At
<1>5. CASE Begin(s)
  <2>1. request[s].encrypt /\ pc[s] = "begin" /\ request' = request
    BY <1>5, <1>a DEF Begin, CallOK, At
  <2>2. CASE OpenTransaction(s) /\ GoTo(s, "read")
    BY <2>1, <2>2 DEF OpenTransaction, GoTo, LockOK, InTransaction, At, TypeOK
  <2>3. CASE GoTo(s, "cleanup") /\ UNCHANGED <<writer, transaction>>
    BY <2>1, <2>3, <1>a DEF GoTo, LockOK, InTransaction, At, TypeOK
  <2>4. QED
    BY <1>5, <2>2, <2>3 DEF Begin
<1>6. CASE ReadChunks(s) \/ AdvanceOffset(s)
  BY <1>6, <1>a DEF ReadChunks, AdvanceOffset, GoTo, LockOK, InTransaction, CallOK, At, TypeOK
<1>7. CASE Commit(s)
  <2>1. CASE EndTransaction(s) /\ GoTo(s, "detach")
    BY <2>1, EndTransactionOK DEF GoTo, TypeOK
  <2>2. CASE GoTo(s, "cleanup") /\ UNCHANGED <<writer, transaction>>
    BY <1>7, <2>2, <1>a DEF Commit, GoTo, LockOK, InTransaction, At, TypeOK
  <2>3. QED
    BY <1>7, <2>1, <2>2 DEF Commit
<1>8. CASE Detach(s)
  <2>1. UNCHANGED <<writer, transaction>> /\ pc[s] = "detach"
    BY <1>8 DEF Detach, At
  <2>2. pc'[s] \in {"idle", "info", "serve"}
    BY <1>8, FetchFailsLeaves DEF Detach, Return, GoTo, TypeOK
  <2>3. QED
    BY <1>a, <2>1, <2>2, NoTransactionOK DEF InTransaction, At
<1>9. CASE Cleanup(s)
  BY <1>9, FetchFailsLeaves, EndTransactionOK DEF Cleanup
<1>10. CASE Evict(s)
  <2>1. CASE OpenTransaction(s) /\ GoTo(s, "rewind")
    BY <2>1 DEF OpenTransaction, GoTo, LockOK, InTransaction, At, TypeOK
  <2>2. CASE FreeSlot(s) /\ UNCHANGED <<writer, transaction>>
    BY <1>10, <2>2, <1>a, NoTransactionOK DEF Evict, FreeSlot, GoTo, InTransaction, At, TypeOK
  <2>3. QED
    BY <1>10, <2>1, <2>2 DEF Evict
<1>11. CASE Rewind(s)
  <2>1. CASE GoTo(s, "rewindCommit") /\ UNCHANGED <<writer, transaction>>
    BY <1>11, <2>1, <1>a DEF Rewind, GoTo, LockOK, InTransaction, At, TypeOK
  <2>2. CASE EndTransaction(s) /\ FreeSlot(s)
    BY <2>2, EndTransactionOK DEF FreeSlot, GoTo, TypeOK
  <2>3. QED
    BY <1>11, <2>1, <2>2 DEF Rewind
<1>12. CASE RewindCommit(s)
  BY <1>12, EndTransactionOK DEF RewindCommit, FreeSlot, GoTo, TypeOK
<1>13. CASE Unmount(s)
  <2>1. UNCHANGED writer /\ pc[s] = "unmount" /\ 
        (transaction'[s] = transaction[s] \/ transaction'[s] = FALSE)
    BY <1>13 DEF Unmount, At, TypeOK, handle
  <2>2. pc'[s] \in {"idle", "evict"}
    BY <1>13 DEF Unmount, Return, GoTo, TypeOK
  <2>3. QED
    BY <1>a, <2>1, <2>2, NoTransactionOK DEF InTransaction, At
<1>14. CASE Crash(s)
  BY <1>14, EndTransactionOK DEF Crash, Return, GoTo, TypeOK
<1>15. QED
  BY <1>1, <1>2, <1>3, <1>4, <1>5, <1>6, <1>7, <1>8, <1>9, <1>10, <1>11, <1>12, <1>13, <1>14
     DEF Step

\* What holds of every state, whatever calls overlap.
BaseInv == TypeOK /\ CallInv /\ LockInv

\* The invariant depends on the state alone.
LEMMA BaseStutter == BaseInv /\ UNCHANGED vars => BaseInv'
BY DEF BaseInv, TypeOK, CallInv, CallOK, EntriesOK, LockInv, LockOK, InTransaction, At, Fetching, 
   vars, rows, handle, history

\* The invariant is inductive.
LEMMA BaseStep == BaseInv /\ [Next]_vars => BaseInv'
<1>1. ASSUME BaseInv, NEW s \in Sessions, Call(s) \/ Step(s) \/ Crash(s) PROVE BaseInv'
  <2>1. TypeOK' /\ CallInv'
    BY <1>1, TypeStep, CallStepSelf, CallStepOthers DEF BaseInv, CallInv
  <2>2. LockInv'
    BY <1>1, LockStepSelf, LockStepOthers DEF BaseInv, LockInv
  <2>3. QED
    BY <2>1, <2>2 DEF BaseInv
<1>2. QED
  BY <1>1, BaseStutter DEF Next

\* What holds whatever calls overlap, fail or crash.
THEOREM BaseCorrect == Spec => []BaseInv
BY InitTypeInv, InitLockInv, BaseStep, PTL DEF BaseInv, TypeInv, Spec

\* Type correctness.
THEOREM TypeCorrect == Spec => []TypeOK
BY BaseCorrect, PTL DEF BaseInv

\* The transaction flag of a session says whether it holds the write lock, and no
\* call of getKeyBytes or freeCachedKey returns holding it: for any number of
\* sessions, whose calls interleave in any way, fail anywhere or crash.
THEOREM LockCorrect == Spec => []FlagMatchesLock
<1>1. BaseInv => FlagMatchesLock
  BY DEF BaseInv, LockInv, LockOK, FlagMatchesLock, InTransaction, At
<1>2. QED
  BY <1>1, BaseCorrect, PTL

\* Only the session in the transaction writes the row, at the end of it.
LEMMA RowsStep == 
    ASSUME BaseInv, [Next]_vars, rows' # rows, NEW s \in Sessions, InTransaction(s)
    PROVE  pc[s] \in {"commit", "rewindCommit"} /\ ~InTransaction(s)'
<1>1. PICK t \in Sessions : Call(t) \/ Step(t) \/ Crash(t)
  BY DEF Next, vars
<1>2. Commit(t) \/ RewindCommit(t)
  BY <1>1 DEF Call, CreateSession, CloseSession, MountKeySet, UnmountKeySet, SetSessionKey, Encrypt, 
     Decrypt, StartCipher, Step, Lookup, Fill, Serve, ReadKeyInfo, Attach, Begin, ReadChunks, 
     AdvanceOffset, Detach, Cleanup, Evict, Rewind, Unmount, Crash, rows
<1>3. pc[t] \in {"commit", "rewindCommit"} /\ pc'[t] \in {"detach", "unmount", "fill"}
  BY <1>2, PadEngineAssumption DEF Commit, RewindCommit, FreeSlot, GoTo, At, BaseInv, TypeOK
<1>4. s = t
  BY <1>3 DEF BaseInv, LockInv, LockOK, InTransaction
<1>5. QED
  BY <1>3, <1>4 DEF InTransaction, At

\* freeCachedKey's comment, and that of getKeyBytes: the row a transaction works
\* with is not changed by anyone else before the transaction is over.
THEOREM RowsStable == Spec => RowsStableInTransaction
<1>1. BaseInv /\ [Next]_vars => 
        [rows' # rows => \A s \in Sessions : InTransaction(s) => 
            pc[s] \in {"commit", "rewindCommit"} /\ ~InTransaction(s)']_vars
  BY RowsStep
<1>2. QED
  BY <1>1, BaseCorrect, PTL DEF Spec, RowsStableInTransaction

-----------------------------------------------------------------------------
(* The labels of the bytes handed out, whatever calls overlap.             *)

\* An entry claims for its bytes the offset they were read from.  The bytes of a
\* decryption entry are never used up.
EntryLabelled(e) == e.inUse => e.offset = e.from /\ (e.isEncrypt \/ e.workOffset = 0)

\* A decryption plans to read from where it was asked to.
PlanLabelled(s) == 
    pc[s] \in {"attach", "begin", "read", "advance", "commit", "detach", "cleanup"} => 
        request[s].encrypt \/ PlanStart(s) = request[s].offset

LabelOK(s) == PlanLabelled(s) /\ \A i \in Slots : EntryLabelled(cache[s][i])

LabelInv == LabelsAreTrue /\ \A s \in Sessions : LabelOK(s)

\* What is attached is the plan of the getKeyBytes that the session is in.
AttachedOK(s) == 
    IF pc[s] \in {"begin", "read", "advance", "commit", "detach", "cleanup"} 
    THEN attached[s] \subseteq Plan(s)
    ELSE attached[s] = {}

AttachedInv == \A s \in Sessions : AttachedOK(s)

\* The steps of getKeyBytes with a plan.
PlannedSteps == {"attach", "begin", "read", "advance", "commit", "detach", "cleanup"}

\* Bytes that are read from the entry they are in, with the offset they have in
\* the session's key, are not mislabelled.
LEMMA DeliverLabelled ==
    ASSUME NEW s \in Sessions, NEW p \in Nat, NEW n \in Nat, NEW from \in Nat, NEW to \in Nat,
           from <= p, p + n <= to,
           Deliver(s, p, p, n, [keyId |-> sessionKey[s], from |-> from, to |-> to])
    PROVE  UNCHANGED mislabelled
BY DEF Deliver

\* A session at no step with a plan keeps its labels with its cache.
LEMMA PlanlessLabelled ==
    ASSUME NEW s \in Sessions, LabelOK(s), UNCHANGED cache, pc'[s] \notin PlannedSteps
    PROVE  LabelOK(s)'
BY DEF LabelOK, PlanLabelled, EntryLabelled, PlannedSteps

\* A session that goes on with its plan keeps them too.
LEMMA PlannedLabelled ==
    ASSUME TypeOK, NEW s \in Sessions, LabelOK(s), pc[s] \in PlannedSteps,
           UNCHANGED <<cache, request, fetch>>
    PROVE  LabelOK(s)'
BY DEF LabelOK, PlanLabelled, EntryLabelled, PlannedSteps, PlanStart, GlobalOf

\* So does a session that replaces an entry by a labelled one.
LEMMA ReplacedLabelled ==
    ASSUME TypeOK, NEW s \in Sessions, LabelOK(s), NEW i \in Slots, NEW e, EntryLabelled(e),
           cache' = [cache EXCEPT ![s][i] = e], pc'[s] \notin PlannedSteps
    PROVE  LabelOK(s)'
<1>1. \A j \in Slots : cache'[s][j] = IF j = i THEN e ELSE cache[s][j]
  BY DEF TypeOK
<1>2. \A j \in Slots : EntryLabelled(cache[s][j])'
  BY <1>1 DEF LabelOK, EntryLabelled
<1> QED
  BY <1>2 DEF LabelOK, PlanLabelled, PlannedSteps

\* getCachedKeyBytes delivers what its entry holds: the entry is of the session's
\* key, and a decryption that it does not hold goes to the database.
LEMMA ServeLabelled ==
    ASSUME TypeOK, CallInv, NEW s \in Sessions, LabelOK(s), Serve(s)
    PROVE  UNCHANGED mislabelled /\ LabelOK(s)'
<1> DEFINE e == cache[s][slot[s]]
           n == request[s].size
           o == request[s].offset
           held == [keyId |-> e.keyId, from |-> e.from + e.workOffset, 
                    to |-> e.from + e.workOffset + e.workSize]
<1>1. /\ slot[s] \in Slots /\ e \in Entry /\ e.inUse /\ e.keyId = sessionKey[s]
      /\ e.isEncrypt = request[s].encrypt
      /\ e.isEncrypt => n <= e.workSize
      /\ request[s] \in Request
  BY DEF Serve, CallInv, CallOK, At, TypeOK
<1>2. /\ e.offset \in Nat /\ e.from \in Nat /\ e.workOffset \in Nat /\ e.workSize \in Nat
      /\ e.isEncrypt \in BOOLEAN /\ n \in Nat /\ o \in Nat
  BY <1>1 DEF Entry, Request
<1>3. e.offset = e.from /\ (e.isEncrypt \/ e.workOffset = 0)
  BY <1>1 DEF LabelOK, EntryLabelled
<1>4. CASE /\ request[s].encrypt
           /\ Deliver(s, e.offset + e.workOffset, held.from, n, held)
           /\ cache' = [cache EXCEPT ![s][slot[s]] = UseEntry(e, n)]
           /\ Return(s)
  <2>1. UNCHANGED mislabelled
    <3> DEFINE from == e.from + e.workOffset
               to == e.from + e.workOffset + e.workSize
    <3>1. Deliver(s, from, from, n, [keyId |-> sessionKey[s], from |-> from, to |-> to])
      BY <1>1, <1>3, <1>4
    <3>2. from \in Nat /\ to \in Nat /\ from + n <= to
      BY <1>1, <1>2, <1>4
    <3> HIDE DEF from, to
    <3> QED
      BY <1>2, <3>1, <3>2, DeliverLabelled
  <2>2. EntryLabelled(UseEntry(e, n))
    <3>1. CASE e.workSize = n
      BY <3>1 DEF UseEntry, EntryLabelled, NoEntry
    <3>2. CASE e.workSize # n
      <4>1. UseEntry(e, n) = [e EXCEPT !.workOffset = @ + n, !.workSize = @ - n]
        BY <3>2 DEF UseEntry
      <4>2. /\ UseEntry(e, n).offset = e.offset /\ UseEntry(e, n).from = e.from
            /\ UseEntry(e, n).isEncrypt = e.isEncrypt
        BY <1>1, <4>1 DEF Entry
      <4> QED
        BY <1>1, <1>3, <1>4, <4>2 DEF EntryLabelled
    <3> QED
      BY <3>1, <3>2
  <2>3. pc'[s] \notin PlannedSteps
    BY <1>4 DEF Return, GoTo, TypeOK, PlannedSteps
  <2> QED
    BY <1>1, <1>4, <2>1, <2>2, <2>3, ReplacedLabelled
<1>5. CASE /\ ~request[s].encrypt
           /\ InEntry(e, o, n)
           /\ Deliver(s, o, e.from + (o - e.offset), n, held)
           /\ Return(s)
           /\ UNCHANGED cache
  <2>1. /\ e.from + (o - e.offset) = o /\ e.from + e.workOffset <= o 
        /\ o + n <= e.from + e.workOffset + e.workSize
    BY <1>1, <1>2, <1>3, <1>5 DEF InEntry
  <2>2. UNCHANGED mislabelled
    <3> DEFINE from == e.from + e.workOffset
               to == e.from + e.workOffset + e.workSize
    <3>1. Deliver(s, o, o, n, [keyId |-> sessionKey[s], from |-> from, to |-> to])
      BY <1>1, <1>5, <2>1
    <3>2. from \in Nat /\ to \in Nat /\ from <= o /\ o + n <= to
      BY <1>2, <2>1
    <3> HIDE DEF from, to
    <3> QED
      BY <1>2, <3>1, <3>2, DeliverLabelled
  <2>3. pc'[s] \notin PlannedSteps
    BY <1>5 DEF Return, GoTo, TypeOK, PlannedSteps
  <2> QED
    BY <1>5, <2>2, <2>3, PlanlessLabelled
<1>6. CASE CallGetKeyBytes(s, FALSE, n) /\ UNCHANGED <<cache, request, history>>
  <2>1. pc'[s] \notin PlannedSteps
    BY <1>6 DEF CallGetKeyBytes, GoTo, TypeOK, PlannedSteps
  <2> QED
    BY <1>6, <2>1, PlanlessLabelled DEF history
<1> QED
  BY <1>4, <1>5, <1>6 DEF Serve

\* getKeyBytes plans from the caller's offset when it decrypts: the chunk and the
\* offset in it are those of that offset in the whole key.
LEMMA ReadKeyInfoLabelled ==
    ASSUME TypeOK, CallInv, NEW s \in Sessions, LabelOK(s), ReadKeyInfo(s)
    PROVE  UNCHANGED mislabelled /\ LabelOK(s)'
<1>a. UNCHANGED <<cache, mislabelled, sessionKey>>
  BY DEF ReadKeyInfo, handle, history
<1>1. CASE /\ fetch' = [fetch EXCEPT ![s].chunkId = StartChunk(s), ![s].offset = StartOffset(s)]
           /\ GoTo(s, "attach")
           /\ UNCHANGED <<request, slot>>
  <2>1. sessionKey[s] \in Keys /\ request[s] \in Request
    BY DEF ReadKeyInfo, CallInv, CallOK, Fetching, At, TypeOK
  <2>2. rowChunk[sessionKey[s]] \in Nat /\ request[s].offset \in Nat
    BY <2>1 DEF TypeOK, Request
  <2>3. fetch'[s].chunkId = StartChunk(s) /\ fetch'[s].offset = StartOffset(s)
    BY <1>1 DEF TypeOK, Fetch
  <2>4. ~request[s].encrypt => PlanStart(s)' = request[s].offset
    <3>1. ~request[s].encrypt => GlobalOf(StartChunk(s), StartOffset(s)) = request[s].offset
      BY <2>2, GlobalOfSplit DEF StartChunk, StartOffset
    <3> QED
      BY <2>3, <3>1 DEF PlanStart, GlobalOf
  <2> QED
    BY <1>a, <1>1, <2>4 DEF LabelOK, PlanLabelled, EntryLabelled
<1>2. CASE FetchFails(s)
  BY <1>a, <1>2, FetchFailsLeaves, PlanlessLabelled DEF PlannedSteps
<1> QED
  BY <1>1, <1>2 DEF ReadKeyInfo

\* getKeyBytes delivers from where its plan starts, or makes an entry of it.
LEMMA DetachLabelled ==
    ASSUME TypeOK, CallInv, NEW s \in Sessions, LabelOK(s), Detach(s)
    PROVE  UNCHANGED mislabelled /\ LabelOK(s)'
<1> DEFINE p == PlanStart(s)
           o == IF request[s].encrypt THEN p ELSE request[s].offset
           e == [inUse |-> TRUE, keyId |-> sessionKey[s], isEncrypt |-> request[s].encrypt,
                 offset |-> o, from |-> p, workOffset |-> 0, workSize |-> fetch[s].size]
           held == [keyId |-> sessionKey[s], from |-> p, to |-> p + fetch[s].size]
<1>1. o = p /\ p \in Nat /\ fetch[s].size \in Nat
  BY PlanType DEF Detach, At, LabelOK, PlanLabelled
<1>2. CASE /\ fetch[s].fill
           /\ cache' = [cache EXCEPT ![s][slot[s]] = e]
           /\ GoTo(s, "serve")
           /\ UNCHANGED <<request, slot, history>>
  <2>1. slot[s] \in Slots
    BY <1>2 DEF Detach, CallInv, CallOK, Fetching, At
  <2>2. EntryLabelled(e)
    BY <1>1 DEF EntryLabelled
  <2>3. pc'[s] \notin PlannedSteps
    BY <1>2 DEF GoTo, TypeOK, PlannedSteps
  <2> QED
    BY <1>2, <2>1, <2>2, <2>3, ReplacedLabelled DEF history
<1>3. CASE Deliver(s, o, p, fetch[s].size, held) /\ Return(s) /\ UNCHANGED cache
  <2>1. UNCHANGED mislabelled
    BY <1>1, <1>3, DeliverLabelled
  <2>2. pc'[s] \notin PlannedSteps
    BY <1>3 DEF Return, GoTo, TypeOK, PlannedSteps
  <2> QED
    BY <1>3, <2>1, <2>2, PlanlessLabelled
<1>4. CASE FetchFails(s) /\ UNCHANGED <<cache, history>>
  BY <1>4, FetchFailsLeaves, PlanlessLabelled DEF PlannedSteps, history
<1> QED
  BY <1>2, <1>3, <1>4 DEF Detach

\* freeCachedKey leaves an entry that claims nothing.
LEMMA FreeSlotLabelled ==
    ASSUME TypeOK, CallInv, NEW s \in Sessions, LabelOK(s), 
           pc[s] \in {"evict", "rewind", "rewindCommit"}, FreeSlot(s)
    PROVE  LabelOK(s)'
<1>1. slot[s] \in Slots
  BY DEF CallInv, CallOK
<1>2. EntryLabelled(NoEntry)
  BY DEF EntryLabelled, NoEntry
<1>3. pc'[s] \notin PlannedSteps
  BY DEF FreeSlot, GoTo, TypeOK, PlannedSteps
<1> QED
  BY <1>1, <1>2, <1>3, ReplacedLabelled DEF FreeSlot

\* A session's step keeps its own labels true.
LEMMA LabelStepSelf ==
    ASSUME TypeOK, CallInv, NEW s \in Sessions, LabelOK(s), Call(s) \/ Step(s) \/ Crash(s)
    PROVE  UNCHANGED mislabelled /\ LabelOK(s)'
<1> USE DEF handle, history
<1>1. CASE Call(s)
  <2>1. UNCHANGED <<cache, mislabelled>> /\ At(s, "idle")
    BY <1>1 DEF Call, CreateSession, CloseSession, MountKeySet, UnmountKeySet, SetSessionKey, 
       Encrypt, Decrypt, StartCipher, MayCall
  <2>2. pc'[s] \in {"idle", "unmount", "lookup", "info"}
    BY <1>1, <2>1 DEF Call, CreateSession, CloseSession, MountKeySet, UnmountKeySet, SetSessionKey, 
       Encrypt, Decrypt, StartCipher, CallGetKeyBytes, GoTo, At, TypeOK
  <2> QED
    BY <2>1, <2>2, PlanlessLabelled DEF PlannedSteps
<1>2. CASE Lookup(s) \/ Fill(s)
  <2>1. UNCHANGED <<cache, mislabelled>>
    BY <1>2 DEF Lookup, Fill
  <2>2. pc'[s] \in {"info", "fill", "serve", "evict"}
    BY <1>2 DEF Lookup, Fill, CallGetKeyBytes, GoTo, TypeOK
  <2> QED
    BY <2>1, <2>2, PlanlessLabelled DEF PlannedSteps
<1>3. CASE Serve(s)
  BY <1>3, ServeLabelled
<1>4. CASE ReadKeyInfo(s)
  BY <1>4, ReadKeyInfoLabelled
<1>5. CASE Attach(s)
  <2>1. UNCHANGED <<cache, mislabelled>> /\ pc[s] \in PlannedSteps
    BY <1>5 DEF Attach, At, PlannedSteps
  <2>2. CASE UNCHANGED <<request, slot, fetch>>
    BY <2>1, <2>2, PlannedLabelled
  <2>3. CASE FetchFails(s)
    BY <2>1, <2>3, FetchFailsLeaves, PlanlessLabelled DEF PlannedSteps
  <2> QED
    BY <1>5, <2>2, <2>3 DEF Attach
<1>6. CASE Begin(s) \/ ReadChunks(s) \/ AdvanceOffset(s) \/ Commit(s)
  BY <1>6, PlannedLabelled DEF Begin, ReadChunks, AdvanceOffset, Commit, At, PlannedSteps
<1>7. CASE Detach(s)
  BY <1>7, DetachLabelled
<1>8. CASE Cleanup(s)
  BY <1>8, FetchFailsLeaves, PlanlessLabelled DEF Cleanup, PlannedSteps
<1>9. CASE Evict(s)
  <2>1. CASE GoTo(s, "rewind") /\ UNCHANGED <<cache, slot>>
    BY <1>9, <2>1, PlanlessLabelled DEF Evict, GoTo, TypeOK, PlannedSteps
  <2>2. CASE FreeSlot(s)
    BY <1>9, <2>2, FreeSlotLabelled DEF Evict, At
  <2> QED
    BY <1>9, <2>1, <2>2 DEF Evict
<1>10. CASE Rewind(s)
  <2>1. CASE GoTo(s, "rewindCommit") /\ UNCHANGED cache
    BY <1>10, <2>1, PlanlessLabelled DEF Rewind, GoTo, TypeOK, PlannedSteps
  <2>2. CASE FreeSlot(s)
    BY <1>10, <2>2, FreeSlotLabelled DEF Rewind, At
  <2> QED
    BY <1>10, <2>1, <2>2 DEF Rewind
<1>11. CASE RewindCommit(s)
  BY <1>11, FreeSlotLabelled DEF RewindCommit, At
<1>12. CASE Unmount(s)
  <2>1. pc'[s] \in {"evict", "idle"}
    BY <1>12 DEF Unmount, Return, GoTo, TypeOK
  <2> QED
    BY <1>12, <2>1, PlanlessLabelled DEF Unmount, PlannedSteps
<1>13. CASE Crash(s)
  <2>1. pc'[s] = "idle" /\ UNCHANGED mislabelled
    BY <1>13 DEF Crash, Return, GoTo, TypeOK
  <2>2. \A i \in Slots : cache'[s][i] = NoEntry
    BY <1>13 DEF Crash, TypeOK
  <2> QED
    BY <2>1, <2>2 DEF LabelOK, PlanLabelled, EntryLabelled, NoEntry
<1> QED
  BY <1>1, <1>2, <1>3, <1>4, <1>5, <1>6, <1>7, <1>8, <1>9, <1>10, <1>11, <1>12, <1>13 DEF Step

\* Every byte that is handed out is the byte of the session's key at the offset 
\* that it is reported with or was asked for: whatever calls of any number of 
\* sessions interleave, fail or crash, and however sessions change their keys 
\* while their caches hold bytes of others.
THEOREM LabelsCorrect == Spec => []LabelsAreTrue
<1>1. Init => LabelInv
  BY DEF Init, LabelInv, LabelsAreTrue, LabelOK, PlanLabelled, EntryLabelled, NoEntry
<1>2. BaseInv /\ LabelInv /\ [Next]_vars => LabelInv'
  <2> SUFFICES ASSUME BaseInv, LabelInv, [Next]_vars PROVE LabelInv'
    OBVIOUS
  <2>1. TypeOK /\ CallInv
    BY DEF BaseInv
  <2>2. ASSUME NEW s \in Sessions, Call(s) \/ Step(s) \/ Crash(s) PROVE LabelInv'
    <3>1. UNCHANGED mislabelled /\ LabelOK(s)'
      BY <2>1, <2>2, LabelStepSelf DEF LabelInv
    <3>2. ASSUME NEW t \in Sessions, t # s PROVE LabelOK(t)'
      <4>1. Local(t)' = Local(t)
        BY <2>1, <2>2, <3>2, StepIsLocal
      <4> QED
        BY <4>1 DEF Local, LabelInv, LabelOK, PlanLabelled, EntryLabelled, PlanStart, GlobalOf
    <3> QED
      BY <3>1, <3>2 DEF LabelInv, LabelsAreTrue
  <2>3. CASE UNCHANGED vars
    BY <2>3 DEF vars, history, LabelInv, LabelsAreTrue, LabelOK, PlanLabelled, EntryLabelled, PlanStart, GlobalOf
  <2> QED
    BY <2>2, <2>3 DEF Next
<1>3. LabelInv => LabelsAreTrue
  BY DEF LabelInv
<1> QED
  BY <1>1, <1>2, <1>3, BaseCorrect, PTL DEF Spec

-----------------------------------------------------------------------------
(* What is attached, when DETACH does not fail.                            *)

\* Outside of the steps with an attached plan nothing is attached.
LEMMA NoneAttached ==
    ASSUME NEW s \in Sessions, attached'[s] = {}, 
           pc'[s] \notin PlannedSteps \/ pc'[s] = "attach"
    PROVE  AttachedOK(s)'
BY DEF AttachedOK, PlannedSteps

\* From step to step of getKeyBytes the plan is the same one.
LEMMA PlanAttached ==
    ASSUME NEW s \in Sessions, AttachedOK(s), 
           pc[s] \in PlannedSteps \ {"attach"}, pc'[s] \in PlannedSteps \ {"attach"},
           UNCHANGED <<attached, fetch, sessionKey>>
    PROVE  AttachedOK(s)'
BY DEF AttachedOK, PlannedSteps, Plan, ChunksTouched, GlobalOf

\* A session's step leaves attached what it should.
LEMMA AttachedStepSelf ==
    ASSUME ~DetachMayFail, TypeOK, NEW s \in Sessions, AttachedOK(s), 
           Call(s) \/ Step(s) \/ Crash(s)
    PROVE  AttachedOK(s)'
<1> USE DEF handle, history
<1>a. \A A : StayAttached(A) = {{}}
  BY DEF StayAttached
<1>1. CASE Call(s)
  <2>1. UNCHANGED attached /\ At(s, "idle")
    BY <1>1 DEF Call, CreateSession, CloseSession, MountKeySet, UnmountKeySet, SetSessionKey, 
       Encrypt, Decrypt, StartCipher, MayCall
  <2>2. pc'[s] \in {"idle", "unmount", "lookup", "info"}
    BY <1>1, <2>1 DEF Call, CreateSession, CloseSession, MountKeySet, UnmountKeySet, SetSessionKey, 
       Encrypt, Decrypt, StartCipher, CallGetKeyBytes, GoTo, At, TypeOK
  <2> QED
    BY <2>1, <2>2, NoneAttached DEF AttachedOK, At, PlannedSteps
<1>2. CASE Lookup(s) \/ Fill(s) \/ Serve(s)
  <2>1. UNCHANGED attached /\ pc[s] \in {"lookup", "fill", "serve"}
    BY <1>2 DEF Lookup, Fill, Serve, At
  <2>2. pc'[s] \in {"idle", "info", "fill", "serve", "evict"}
    BY <1>2 DEF Lookup, Fill, Serve, CallGetKeyBytes, Return, GoTo, TypeOK
  <2> QED
    BY <2>1, <2>2, NoneAttached DEF AttachedOK, PlannedSteps
<1>3. CASE ReadKeyInfo(s)
  <2>1. UNCHANGED attached /\ pc[s] = "info"
    BY <1>3 DEF ReadKeyInfo, At
  <2>2. pc'[s] \in {"idle", "info", "attach"}
    BY <1>3, FetchFailsLeaves DEF ReadKeyInfo, GoTo, TypeOK
  <2> QED
    BY <2>1, <2>2, NoneAttached DEF AttachedOK, PlannedSteps
<1>4. CASE Attach(s)
  <2>1. attached[s] = {} /\ UNCHANGED sessionKey
    BY <1>4 DEF Attach, At, AttachedOK
  <2>2. CASE /\ attached' = [attached EXCEPT ![s] = @ \cup Plan(s)]
             /\ GoTo(s, IF request[s].encrypt THEN "begin" ELSE "read")
             /\ UNCHANGED <<request, slot, fetch>>
    <3>1. attached'[s] = Plan(s)
      BY <2>1, <2>2 DEF TypeOK
    <3>2. Plan(s)' = Plan(s)
      BY <2>1, <2>2 DEF Plan, ChunksTouched, GlobalOf
    <3>3. pc'[s] \in {"begin", "read"}
      BY <2>2 DEF GoTo, TypeOK
    <3> QED
      BY <3>1, <3>2, <3>3 DEF AttachedOK
  <2>3. CASE /\ \E A \in StayAttached(Plan(s) \ attached[s]) : 
                  attached' = [attached EXCEPT ![s] = @ \cup A]
             /\ FetchFails(s)
    <3>1. attached'[s] = {}
      BY <1>a, <2>1, <2>3 DEF TypeOK
    <3> QED
      BY <2>3, <3>1, FetchFailsLeaves, NoneAttached DEF PlannedSteps
  <2> QED
    BY <1>4, <2>2, <2>3 DEF Attach
<1>5. CASE Begin(s) \/ ReadChunks(s) \/ AdvanceOffset(s) \/ Commit(s)
  <2>1. /\ pc[s] \in {"begin", "read", "advance", "commit"} 
        /\ UNCHANGED <<attached, fetch, sessionKey>>
    BY <1>5 DEF Begin, ReadChunks, AdvanceOffset, Commit, At
  <2>2. pc'[s] \in {"read", "advance", "commit", "detach", "cleanup"}
    BY <1>5 DEF Begin, ReadChunks, AdvanceOffset, Commit, GoTo, TypeOK
  <2> QED
    BY <2>1, <2>2, PlanAttached DEF PlannedSteps
<1>6. CASE Detach(s)
  <2>1. attached'[s] = {}
    <3>1. attached[s] \subseteq Plan(s)
      BY <1>6 DEF Detach, At, AttachedOK
    <3>2. attached' = [attached EXCEPT ![s] = @ \ Plan(s)]
      BY <1>6 DEF Detach
    <3> QED
      BY <3>1, <3>2 DEF TypeOK
  <2>2. pc'[s] \in {"idle", "info", "serve"}
    BY <1>6, FetchFailsLeaves DEF Detach, Return, GoTo, TypeOK
  <2> QED
    BY <2>1, <2>2, NoneAttached DEF PlannedSteps
<1>7. CASE Cleanup(s)
  <2>1. attached'[s] = {}
    <3>1. attached[s] \subseteq Plan(s)
      BY <1>7 DEF Cleanup, At, AttachedOK
    <3>2. attached' = [attached EXCEPT ![s] = (@ \ Plan(s)) \cup {}]
      BY <1>a, <1>7 DEF Cleanup
    <3> QED
      BY <3>1, <3>2 DEF TypeOK
  <2> QED
    BY <1>7, <2>1, FetchFailsLeaves, NoneAttached DEF Cleanup, PlannedSteps
<1>8. CASE Evict(s) \/ Rewind(s) \/ RewindCommit(s)
  <2>1. UNCHANGED attached /\ pc[s] \in {"evict", "rewind", "rewindCommit"}
    BY <1>8 DEF Evict, Rewind, RewindCommit, At
  <2>2. pc'[s] \in {"rewind", "rewindCommit", "unmount", "fill"}
    BY <1>8 DEF Evict, Rewind, RewindCommit, FreeSlot, GoTo, TypeOK
  <2> QED
    BY <2>1, <2>2, NoneAttached DEF AttachedOK, PlannedSteps
<1>9. CASE Unmount(s)
  <2>1. attached[s] = {} /\ (UNCHANGED attached \/ attached' = [attached EXCEPT ![s] = {}])
    BY <1>9 DEF Unmount, At, AttachedOK
  <2>2. pc'[s] \in {"evict", "idle"}
    BY <1>9 DEF Unmount, Return, GoTo, TypeOK
  <2> QED
    BY <2>1, <2>2, NoneAttached DEF TypeOK, PlannedSteps
<1>10. CASE Crash(s)
  BY <1>10, NoneAttached DEF Crash, Return, GoTo, TypeOK, PlannedSteps
<1> QED
  BY <1>1, <1>2, <1>3, <1>4, <1>5, <1>6, <1>7, <1>8, <1>9, <1>10 DEF Step

\* While DETACH does not fail, no call leaves a chunk database attached, whatever
\* else fails and whatever calls interleave.
THEOREM DetachedCorrect == 
    ASSUME ~DetachMayFail
    PROVE  Spec => []DetachedOutsideFetch
<1>1. Init => AttachedInv
  BY DEF Init, AttachedInv, AttachedOK
<1>2. BaseInv /\ AttachedInv /\ [Next]_vars => AttachedInv'
  <2> SUFFICES ASSUME BaseInv, AttachedInv, [Next]_vars PROVE AttachedInv'
    OBVIOUS
  <2>1. TypeOK
    BY DEF BaseInv
  <2>2. ASSUME NEW s \in Sessions, Call(s) \/ Step(s) \/ Crash(s) PROVE AttachedInv'
    <3>1. AttachedOK(s)'
      BY <2>1, <2>2, AttachedStepSelf DEF AttachedInv
    <3>2. ASSUME NEW t \in Sessions, t # s PROVE AttachedOK(t)'
      <4>1. Local(t)' = Local(t)
        BY <2>1, <2>2, <3>2, StepIsLocal
      <4> QED
        BY <4>1 DEF Local, AttachedInv, AttachedOK, Plan, ChunksTouched, GlobalOf
    <3> QED
      BY <3>1, <3>2 DEF AttachedInv
  <2>3. CASE UNCHANGED vars
    BY <2>3 DEF vars, handle, AttachedInv, AttachedOK, Plan, ChunksTouched, GlobalOf
  <2> QED
    BY <2>2, <2>3 DEF Next
<1>3. AttachedInv => DetachedOutsideFetch
  BY DEF AttachedInv, AttachedOK, DetachedOutsideFetch, At
<1> QED
  BY <1>1, <1>2, <1>3, BaseCorrect, PTL DEF Spec

=============================================================================
