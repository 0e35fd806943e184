--------------------------- MODULE ChunkPlanProofs ---------------------------
(***************************************************************************)
(* Proofs about planChunkRange, for every chunk size (zero included),      *)
(* every start and every size of a request.                                *)
(*                                                                         *)
(* Position is what ties the walk to the request: the bytes the walk has   *)
(* passed and those that remain are the request's.  Next to it the         *)
(* invariant needs to know that the walk is inside of a chunk, and, from   *)
(* its first entry on, not at the end of one: this is what makes its last  *)
(* position the one that ChunkMap computes from the offset in the key.     *)
(***************************************************************************)
EXTENDS ChunkPlan, TLAPS

\* Where the walk is once the checks before its loop have passed.
Position == 
    /\ GlobalOf(currentChunkId, currentChunkOffset) + remaining = First + size
    /\ ChunkSize = 0 => currentChunkId = chunkId
    /\ ChunkSize # 0 => currentChunkOffset <= ChunkSize
    /\ ChunkSize # 0 /\ entries # <<>> => currentChunkOffset < ChunkSize
    /\ entries = <<>> => remaining = size

\* The inductive invariant.
IInv == 
    /\ TypeOK 
    /\ capacity > 0 => Position
    /\ capacity = 0 => 
         /\ entries = <<>> /\ remaining = size /\ result # "S_OK"
         /\ currentChunkId = chunkId /\ currentChunkOffset = chunkOffset
    /\ result = "S_OK" => remaining = 0

-----------------------------------------------------------------------------

\* The offset in the whole key that getKeyBytes reports is not negative.
LEMMA GlobalOfType == 
    ASSUME NEW c \in Nat, NEW o \in Nat 
    PROVE  GlobalOf(c, o) \in Nat
BY ChunkSizeAssumption DEF GlobalOf

\* Between two multiples of d there is room for d.
LEMMA NextMultiple == 
    ASSUME NEW d \in Nat, NEW q \in Int, NEW c \in Int, q < c
    PROVE  q * d \in Int /\ c * d \in Int /\ q * d + d <= c * d
<1>1. PICK m \in Nat : c = q + 1 + m
  <2>1. c - q - 1 \in Nat /\ c = q + 1 + (c - q - 1)
    OBVIOUS
  <2>2. QED
    BY <2>1
<1>2. m * d \in Nat
  OBVIOUS
<1>3. (q + 1 + m) * d = q * d + d + m * d
  OBVIOUS
<1>4. q * d \in Int
  OBVIOUS
<1>5. QED
  BY <1>1, <1>2, <1>3, <1>4

\* Two ways to write a number as a multiple of d and a remainder less than d are
\* the same.
LEMMA DivModUnique == 
    ASSUME NEW d \in Nat, d # 0, NEW c \in Nat, NEW o \in Nat, o < d
    PROVE  (c * d + o) \div d = c /\ (c * d + o) % d = o
<1>1. ASSUME NEW n \in Nat, n = c * d + o
      PROVE  n \div d = c /\ n % d = o
  <2> DEFINE q == n \div d
             r == n % d
  <2>1. q \in Int /\ r \in Int /\ 0 <= r /\ r < d /\ n = d * q + r
    BY <1>1
  <2>2. d * q = q * d
    BY <2>1
  <2> HIDE DEF q, r
  <2>3. q * d \in Int /\ c * d \in Int /\ c * d + o = q * d + r
    BY <1>1, <2>1, <2>2
  <2>4. ~(q < c)
    <3>1. ASSUME q < c PROVE q * d + d <= c * d
      BY <2>1, <3>1, NextMultiple
    <3>2. QED
      BY <2>1, <2>3, <3>1
  <2>5. ~(c < q)
    <3>1. ASSUME c < q PROVE c * d + d <= q * d
      BY <2>1, <3>1, NextMultiple
    <3>2. QED
      BY <2>1, <2>3, <3>1
  <2>6. q = c
    BY <2>1, <2>4, <2>5
  <2>7. r = o
    BY <2>1, <2>3, <2>6
  <2>8. QED
    BY <2>6, <2>7 DEF q, r
<1>2. c * d + o \in Nat
  OBVIOUS
<1>3. QED
  BY <1>1, <1>2

\* A turn of the loop takes bytes of the request that are in the chunk.
LEMMA TakeBounds == 
    ASSUME TypeOK, ChunkSize # 0 => currentChunkOffset <= ChunkSize
    PROVE  /\ Take \in Nat /\ Take <= remaining
           /\ ChunkSize # 0 => currentChunkOffset + Take <= ChunkSize
           /\ ChunkSize # 0 /\ currentChunkOffset + Take < ChunkSize => Take = remaining
BY ChunkSizeAssumption DEF Take, TypeOK

\* Bytes further on in a chunk, or at the start of the next one if the chunk 
\* ends, are as many bytes further on in the key.
LEMMA GlobalOfAdd == 
    ASSUME NEW c \in Nat, NEW o \in Nat, NEW n \in Nat
    PROVE  /\ GlobalOf(c, o + n) = GlobalOf(c, o) + n
           /\ ChunkSize # 0 /\ o + n = ChunkSize => GlobalOf(c + 1, 0) = GlobalOf(c, o) + n
<1>1. ChunkSize # 0 => (c + 1) * ChunkSize = c * ChunkSize + ChunkSize
  BY ChunkSizeAssumption
<1>2. c * ChunkSize \in Nat
  BY ChunkSizeAssumption
<1>3. QED
  BY <1>1, <1>2, ChunkSizeAssumption DEF GlobalOf

\* The first turn of the loop starts at the request's first byte.
LEMMA InitIInv == Init => IInv
<1> SUFFICES ASSUME Init PROVE IInv
  OBVIOUS
<1>1. chunkId \in Nat /\ chunkOffset \in Nat /\ size \in Nat \ {0}
  BY ChunkPlanAssumption DEF Init
<1>2. entries \in Seq(Entry)
  BY DEF Init
<1>3. QED
  BY <1>1, <1>2 DEF Init, IInv, TypeOK, Results

\* A turn of the loop moves on by what it takes.
LEMMA WalkIInv == 
    ASSUME IInv, Walk 
    PROVE  IInv'
<1> DEFINE e == [chunkId |-> currentChunkId, chunkOffset |-> currentChunkOffset, length |-> Take]
<1>1. TypeOK /\ Position /\ capacity > 0 /\ remaining > 0 /\ UNCHANGED <<args, capacity>>
  BY DEF IInv, Walk
<1>2. /\ Take \in Nat /\ Take <= remaining
      /\ ChunkSize # 0 => currentChunkOffset + Take <= ChunkSize
      /\ ChunkSize # 0 /\ currentChunkOffset + Take < ChunkSize => Take = remaining
  BY <1>1, TakeBounds DEF Position
<1>3. CASE result' = "SIZE_OVERFLOW_IN_LOOP"
           /\ UNCHANGED <<currentChunkId, currentChunkOffset, remaining, entries>>
  BY <1>1, <1>3 DEF IInv, TypeOK, Results, Position, args, First, GlobalOf
<1>4. CASE /\ entries' = Append(entries, e)
           /\ remaining' = remaining - Take
           /\ IF ChunkFull(currentChunkOffset + Take)
              THEN /\ currentChunkId' = currentChunkId + 1
                   /\ currentChunkOffset' = 0
              ELSE /\ currentChunkOffset' = currentChunkOffset + Take
                   /\ UNCHANGED currentChunkId
           /\ UNCHANGED result
  <2>1. remaining' \in Nat /\ remaining' = remaining - Take
    BY <1>1, <1>2, <1>4 DEF TypeOK
  <2>2. e \in Entry
    BY <1>1, <1>2 DEF Entry, TypeOK
  <2>3. entries' \in Seq(Entry) /\ entries' # <<>>
    BY <1>1, <1>4, <2>2 DEF TypeOK
  <2>4. currentChunkId' \in Nat /\ currentChunkOffset' \in Nat
    BY <1>1, <1>2, <1>4 DEF TypeOK
  <2>5. TypeOK'
    BY <1>1, <1>4, <2>1, <2>3, <2>4 DEF TypeOK, args
  <2>6. GlobalOf(currentChunkId', currentChunkOffset') = 
          GlobalOf(currentChunkId, currentChunkOffset) + Take
    <3>1. currentChunkId \in Nat /\ currentChunkOffset \in Nat
      BY <1>1 DEF TypeOK
    <3>2. CASE ChunkFull(currentChunkOffset + Take)
      <4>1. ChunkSize # 0 /\ currentChunkOffset + Take = ChunkSize
        BY <1>2, <3>1, <3>2, ChunkSizeAssumption DEF ChunkFull
      <4>2. QED
        BY <1>2, <1>4, <3>1, <3>2, <4>1, GlobalOfAdd
    <3>3. CASE ~ChunkFull(currentChunkOffset + Take)
      BY <1>2, <1>4, <3>1, <3>3, GlobalOfAdd
    <3>4. QED
      BY <3>2, <3>3
  <2>7. First' = First /\ size' = size /\ chunkId' = chunkId
    BY <1>1 DEF First, GlobalOf, args
  <2>8. GlobalOf(currentChunkId, currentChunkOffset) \in Nat
    BY <1>1, GlobalOfType DEF TypeOK
  <2>9. GlobalOf(currentChunkId', currentChunkOffset') + remaining' = First' + size'
    BY <1>1, <1>2, <2>1, <2>6, <2>7, <2>8 DEF Position, TypeOK
  <2>10. ChunkSize # 0 => currentChunkOffset' < ChunkSize
    BY <1>1, <1>2, <1>4, ChunkSizeAssumption DEF ChunkFull, TypeOK
  <2>11. ChunkSize = 0 => currentChunkId' = chunkId'
    BY <1>1, <1>4, <2>7 DEF ChunkFull, Position
  <2>12. Position'
    BY <2>3, <2>4, <2>9, <2>10, <2>11, ChunkSizeAssumption DEF Position, GlobalOf, First
  <2>13. QED
    BY <1>1, <1>4, <2>5, <2>12 DEF IInv, Walk
<1>5. QED
  BY <1>3, <1>4 DEF Walk

\* The checks before the loop, the turns of the loop, and its end keep the walk
\* on the request.
LEMMA StepIInv == IInv /\ [Next]_vars => IInv'
<1> SUFFICES ASSUME IInv, [Next]_vars PROVE IInv'
  OBVIOUS
<1>1. CASE Allocate
  <2>1. UNCHANGED <<args, currentChunkId, currentChunkOffset, remaining, entries>>
        /\ capacity = 0 /\ result = "none"
    BY <1>1 DEF Allocate
  <2>2. ASSUME ChunkSize # 0 PROVE Needed \in Nat /\ Needed > 0
    <3> DEFINE s == size - (ChunkSize - chunkOffset)
    <3>1. s \in Int
      BY ChunkSizeAssumption DEF IInv, TypeOK
    <3>2. s > 0 => s \div ChunkSize \in Nat
      BY <2>2, <3>1, ChunkSizeAssumption
    <3>3. Needed = IF s <= 0 THEN 1 
                   ELSE 1 + s \div ChunkSize + (IF s % ChunkSize = 0 THEN 0 ELSE 1)
      BY DEF Needed
    <3> HIDE DEF s
    <3>4. QED
      BY <3>1, <3>2, <3>3
  <2>3. ChunkSize # 0 => Needed + 1 \in Nat
    BY <2>2
  <2>4. CASE UNCHANGED capacity /\ result' \in Results \ {"S_OK"}
    BY <2>1, <2>4 DEF IInv, TypeOK, args
  <2>5. CASE UNCHANGED result /\ capacity' \in Nat /\ (ChunkSize # 0 => chunkOffset <= ChunkSize)
    <3>1. TypeOK'
      BY <2>1, <2>5 DEF IInv, TypeOK, args
    <3>2. Position'
      BY <2>1, <2>5 DEF IInv, TypeOK, Position, First, GlobalOf, args
    <3>3. QED
      BY <2>1, <2>5, <3>1, <3>2 DEF IInv, args
  <2>6. QED
    BY <1>1, <2>2, <2>3, <2>4, <2>5, ChunkSizeAssumption DEF Allocate, Results, IInv, TypeOK
<1>2. CASE Walk
  BY <1>2, WalkIInv
<1>3. CASE Finish
  BY <1>3 DEF Finish, IInv, TypeOK, Results, Position, First, GlobalOf, args
<1>4. CASE UNCHANGED vars
  BY <1>4 DEF vars, args, IInv, TypeOK, Position, First, GlobalOf
<1>5. QED
  BY <1>1, <1>2, <1>3, <1>4 DEF Next

\* The walk stays on its request.
THEOREM PlanIInv == Spec => []IInv
<1>1. QED
  BY InitIInv, StepIInv, PTL DEF Spec

\* The walk's variables have their types: remaining, in particular, an unsigned
\* integer, never underflows.
THEOREM PlanType == Spec => []TypeOK
<1>1. IInv => TypeOK
  BY DEF IInv
<1>2. QED
  BY <1>1, PlanIInv, PTL

\* The position that becomes the recorded one is that of the byte after the
\* request, whatever the chunk size, and is never the end of a chunk.
THEOREM PlanFinalPosition == Spec => []FinalPosition
<1>1. IInv => FinalPosition
  <2> SUFFICES ASSUME IInv, result = "S_OK"
               PROVE  /\ currentChunkId = ChunkIdOf(chunkId, First + size)
                      /\ currentChunkOffset = ChunkOffsetOf(First + size)
    BY DEF FinalPosition
  <2>1. TypeOK /\ Position /\ remaining = 0 /\ entries # <<>>
    BY DEF IInv, TypeOK, Position
  <2>2. First + size = GlobalOf(currentChunkId, currentChunkOffset)
    BY <2>1, GlobalOfType DEF Position, TypeOK
  <2>3. CASE ChunkSize = 0
    BY <2>1, <2>2, <2>3 DEF Position, ChunkIdOf, ChunkOffsetOf, GlobalOf
  <2>4. CASE ChunkSize # 0
    <3>1. currentChunkOffset < ChunkSize
      BY <2>1, <2>4 DEF Position
    <3>2. First + size = currentChunkId * ChunkSize + currentChunkOffset
      BY <2>2, <2>4 DEF GlobalOf
    <3>3. /\ currentChunkId = (First + size) \div ChunkSize
          /\ currentChunkOffset = (First + size) % ChunkSize
      <4>1. ChunkSize \in Nat /\ currentChunkId \in Nat /\ currentChunkOffset \in Nat
        BY <2>1, ChunkSizeAssumption DEF TypeOK
      <4>2. /\ (currentChunkId * ChunkSize + currentChunkOffset) \div ChunkSize = currentChunkId
            /\ (currentChunkId * ChunkSize + currentChunkOffset) % ChunkSize = currentChunkOffset
        BY <2>4, <3>1, <4>1, DivModUnique
      <4>3. QED
        BY <3>2, <4>2
    <3>4. QED
      BY <2>4, <3>3 DEF ChunkIdOf, ChunkOffsetOf
  <2>5. QED
    BY <2>3, <2>4
<1>2. QED
  BY <1>1, PlanIInv, PTL

\* The plan's entries, read one after the other, are the request, and none reads
\* past the end of its chunk.
THEOREM PlanCoversRequest == Spec => []EntriesCoverRequest
<1>1. Init => EntriesCoverRequest
  BY DEF Init, EntriesCoverRequest, EndOf, First
<1>2. IInv /\ EntriesCoverRequest /\ [Next]_vars => EntriesCoverRequest'
  <2> SUFFICES ASSUME IInv, EntriesCoverRequest, [Next]_vars PROVE EntriesCoverRequest'
    OBVIOUS
  <2>1. CASE UNCHANGED <<args, currentChunkId, currentChunkOffset, entries>>
    BY <2>1 DEF EntriesCoverRequest, EndOf, First, args
  <2>2. CASE Walk /\ ~UNCHANGED entries
    <3> DEFINE e == [chunkId |-> currentChunkId, chunkOffset |-> currentChunkOffset, length |-> Take]
    <3>1. /\ entries' = Append(entries, e) /\ First' = First
          /\ IF ChunkFull(currentChunkOffset + Take)
             THEN currentChunkId' = currentChunkId + 1 /\ currentChunkOffset' = 0
             ELSE currentChunkOffset' = currentChunkOffset + Take /\ currentChunkId' = currentChunkId
      BY <2>2 DEF Walk, First, args
    <3>2. /\ TypeOK /\ Position
          /\ Take \in Nat /\ (ChunkSize # 0 => currentChunkOffset + Take <= ChunkSize)
      BY <2>2, TakeBounds DEF Walk, IInv, Position
    <3>3. PICK n \in Nat : /\ n = Len(entries) /\ Len(entries') = n + 1 /\ entries'[n + 1] = e
                            /\ \A i \in 1 .. n : entries'[i] = entries[i]
      <4>1. entries \in Seq(Entry)
        BY <3>2 DEF TypeOK
      <4>2. QED
        BY <3>1, <4>1
    <3>4. ASSUME NEW i \in 0 .. n PROVE EndOf(i)' = EndOf(i)
      <4>1. i # 0 => i \in 1 .. n
        BY <3>3
      <4>2. i # 0 => entries'[i] = entries[i]
        BY <3>3, <4>1
      <4>3. EndOf(i)' = IF i = 0 THEN First' ELSE EntryStart(entries'[i]) + entries'[i].length
        BY DEF EndOf, EntryStart, GlobalOf
      <4>4. QED
        BY <3>1, <4>2, <4>3 DEF EndOf
    <3>5. EntryStart(e) = GlobalOf(currentChunkId, currentChunkOffset) /\ e.length = Take
          /\ e.chunkOffset = currentChunkOffset
      BY DEF EntryStart
    <3>6. EntryStart(e) = EndOf(n)
      BY <3>3, <3>5 DEF EntriesCoverRequest
    <3>7. EndOf(n + 1)' = GlobalOf(currentChunkId, currentChunkOffset) + Take
      <4>1. EndOf(n + 1)' = EntryStart(entries'[n + 1]) + entries'[n + 1].length
        BY <3>3 DEF EndOf, EntryStart, GlobalOf
      <4>2. QED
        BY <3>3, <3>5, <4>1
    <3>8. GlobalOf(currentChunkId, currentChunkOffset)' = 
            GlobalOf(currentChunkId, currentChunkOffset) + Take
      <4>1. currentChunkId \in Nat /\ currentChunkOffset \in Nat
        BY <3>2 DEF TypeOK
      <4>2. CASE ChunkFull(currentChunkOffset + Take)
        <5>1. ChunkSize # 0 /\ currentChunkOffset + Take = ChunkSize
          BY <3>2, <4>1, <4>2, ChunkSizeAssumption DEF ChunkFull
        <5>2. QED
          BY <3>1, <3>2, <4>1, <4>2, <5>1, GlobalOfAdd DEF GlobalOf
      <4>3. CASE ~ChunkFull(currentChunkOffset + Take)
        BY <3>1, <3>2, <4>1, <4>3, GlobalOfAdd DEF GlobalOf
      <4>4. QED
        BY <4>2, <4>3
    <3>9. ASSUME NEW i \in 1 .. n + 1 
          PROVE  /\ EntryStart(entries'[i]) = EndOf(i - 1)'
                 /\ ChunkSize # 0 => entries'[i].chunkOffset + entries'[i].length <= ChunkSize
      <4>1. CASE i \in 1 .. n
        BY <3>3, <3>4, <4>1 DEF EntriesCoverRequest
      <4>2. CASE i = n + 1
        BY <3>2, <3>3, <3>4, <3>5, <3>6, <4>2
      <4>3. QED
        BY <3>3, <4>1, <4>2
    <3>10. \A i \in 1 .. Len(entries') : 
             /\ EntryStart(entries[i])' = EndOf(i - 1)'
             /\ ChunkSize # 0 => entries'[i].chunkOffset + entries'[i].length <= ChunkSize
      BY <3>3, <3>9 DEF EntryStart, GlobalOf
    <3>11. GlobalOf(currentChunkId, currentChunkOffset)' = EndOf(Len(entries))'
      BY <3>3, <3>7, <3>8 DEF EndOf, EntryStart, GlobalOf, First
    <3>12. QED
      BY <3>10, <3>11 DEF EntriesCoverRequest
  <2>3. QED
    BY <2>1, <2>2 DEF Next, Allocate, Walk, Finish, vars, args
<1>3. QED
  BY <1>1, <1>2, PlanIInv, PTL DEF Spec

\* As many chunks as are allowed for hold the request.
LEMMA NeededSuffices == 
    ASSUME TypeOK, ChunkSize # 0, chunkOffset <= ChunkSize
    PROVE  /\ Needed \in Nat /\ Needed > 0
           /\ chunkOffset + size <= Needed * ChunkSize
<1> DEFINE s == size - (ChunkSize - chunkOffset)
           q == s \div ChunkSize
           r == s % ChunkSize
<1>1. ChunkSize \in Nat /\ size \in Nat /\ chunkOffset \in Nat /\ s \in Int
  BY ChunkSizeAssumption DEF TypeOK
<1>2. Needed = IF s <= 0 THEN 1 ELSE 1 + q + (IF r = 0 THEN 0 ELSE 1)
  BY DEF Needed
<1>3. s > 0 => q \in Nat /\ r \in Nat /\ r < ChunkSize /\ s = ChunkSize * q + r
  BY <1>1
<1>4. chunkOffset + size = ChunkSize + s
  BY <1>1
<1> HIDE DEF s, q, r
<1>5. CASE s <= 0
  BY <1>1, <1>2, <1>4, <1>5
<1>6. CASE s > 0 /\ r = 0
  <2>1. Needed = 1 + q /\ q \in Nat
    BY <1>1, <1>2, <1>3, <1>6
  <2>2. Needed * ChunkSize = ChunkSize + ChunkSize * q
    BY <1>1, <2>1
  <2>3. s = ChunkSize * q /\ ChunkSize * q \in Nat
    BY <1>1, <1>3, <1>6, <2>1
  <2>4. chunkOffset + size <= Needed * ChunkSize
    BY <1>1, <1>4, <2>1, <2>2, <2>3
  <2>5. Needed \in Nat /\ Needed > 0
    BY <2>1
  <2>6. QED
    BY <2>4, <2>5
<1>7. CASE s > 0 /\ r # 0
  <2>1. Needed = 1 + q + 1 /\ q \in Nat
    BY <1>1, <1>2, <1>3, <1>7
  <2>2. Needed * ChunkSize = ChunkSize + ChunkSize * q + ChunkSize
    BY <1>1, <2>1
  <2>3. s <= ChunkSize * q + ChunkSize /\ ChunkSize * q \in Nat
    BY <1>1, <1>3, <1>7, <2>1
  <2>4. chunkOffset + size <= Needed * ChunkSize
    BY <1>1, <1>4, <2>1, <2>2, <2>3
  <2>5. Needed \in Nat /\ Needed > 0
    BY <2>1
  <2>6. QED
    BY <2>4, <2>5
<1>8. QED
  BY <1>1, <1>5, <1>6, <1>7

\* While bytes remain, the walk is in one of the chunks that are allowed for.
LEMMA WalkInNeeded == 
    ASSUME TypeOK, Position, ChunkSize # 0, chunkOffset <= ChunkSize, remaining > 0
    PROVE  currentChunkId < chunkId + Needed
<1> DEFINE end == chunkId + Needed
<1>1. /\ ChunkSize \in Nat /\ chunkId \in Nat /\ chunkOffset \in Nat /\ size \in Nat
      /\ currentChunkId \in Nat /\ currentChunkOffset \in Nat /\ remaining \in Nat
  BY ChunkSizeAssumption DEF TypeOK
<1>2. Needed \in Nat /\ chunkOffset + size <= Needed * ChunkSize
  BY NeededSuffices
<1>3. end * ChunkSize = chunkId * ChunkSize + Needed * ChunkSize
  BY <1>1, <1>2
<1>4. currentChunkId * ChunkSize + currentChunkOffset + remaining = 
        chunkId * ChunkSize + chunkOffset + size
  BY DEF Position, First, GlobalOf
<1>5. /\ chunkId * ChunkSize \in Nat /\ Needed * ChunkSize \in Nat
      /\ currentChunkId * ChunkSize \in Nat /\ end \in Nat
  BY <1>1, <1>2
<1>6. currentChunkId * ChunkSize < end * ChunkSize
  BY <1>1, <1>2, <1>3, <1>4, <1>5
<1>7. ASSUME end <= currentChunkId PROVE FALSE
  <2>1. CASE end = currentChunkId
    BY <1>6, <2>1, <1>5
  <2>2. CASE end < currentChunkId
    BY <1>1, <1>5, <1>6, <2>2, NextMultiple
  <2>3. QED
    BY <1>1, <1>5, <1>7, <2>1, <2>2
<1>8. QED
  BY <1>1, <1>5, <1>7

\* The entries there are, and the room for them.
Room == 
    /\ result # "SIZE_OVERFLOW_IN_LOOP"
    /\ capacity = 0 => entries = <<>>
    /\ capacity > 0 /\ ChunkSize = 0 => capacity = 1 /\ (remaining > 0 => Len(entries) = 0)
    /\ capacity > 0 /\ ChunkSize # 0 => 
         /\ chunkOffset <= ChunkSize
         /\ capacity = Needed + 1
         /\ Len(entries) <= Needed
         /\ remaining > 0 => Len(entries) = currentChunkId - chunkId

\* The walk keeps to its room.
LEMMA PlanRoom == Spec => []Room
<1>1. Init => Room
  BY DEF Init, Room
<1>2. IInv /\ Room /\ [Next]_vars => Room'
  <2> SUFFICES ASSUME IInv, Room, [Next]_vars PROVE Room'
    OBVIOUS
  <2>a. TypeOK
    BY DEF IInv
  <2>1. CASE Allocate
    <3>1. /\ entries = <<>> /\ capacity = 0 /\ currentChunkId = chunkId /\ chunkId \in Nat
          /\ UNCHANGED <<args, currentChunkId, remaining, entries>>
      BY <2>1, <2>a DEF Allocate, IInv, TypeOK
    <3>2. Len(entries) = 0
      BY <3>1
    <3>3. ChunkSize # 0 /\ chunkOffset <= ChunkSize => Needed \in Nat
      BY <2>a, NeededSuffices
    <3>4. Needed' = Needed
      BY <3>1 DEF Needed, args
    <3>5. result' # "SIZE_OVERFLOW_IN_LOOP"
      BY <2>1 DEF Allocate
    <3>6. CASE capacity' = 0
      BY <3>1, <3>5, <3>6 DEF Room
    <3>7. CASE ChunkSize = 0 /\ capacity' # 0
      <4>1. capacity' = 1
        BY <2>1, <3>1, <3>7 DEF Allocate
      <4>2. QED
        BY <3>1, <3>2, <3>5, <3>7, <4>1 DEF Room
    <3>8. CASE ChunkSize # 0 /\ capacity' # 0
      <4>1. chunkOffset <= ChunkSize /\ capacity' = Needed + 1
        BY <2>1, <2>a, <3>1, <3>8, ChunkSizeAssumption DEF Allocate, TypeOK
      <4>2. QED
        BY <3>1, <3>2, <3>3, <3>4, <3>5, <3>8, <4>1 DEF Room, args
    <3>9. QED
      BY <3>6, <3>7, <3>8
  <2>2. CASE Walk
    <3>1. /\ Position /\ capacity \in Nat /\ capacity > 0 /\ remaining \in Nat /\ remaining > 0 
          /\ currentChunkId \in Nat /\ chunkId \in Nat /\ Len(entries) \in Nat 
          /\ result = "none" /\ UNCHANGED <<args, capacity>> /\ Needed' = Needed
      BY <2>2, <2>a DEF Walk, IInv, TypeOK, Needed, args
    <3>2. /\ Take \in Nat /\ Take <= remaining
          /\ ChunkSize # 0 => currentChunkOffset + Take <= ChunkSize
          /\ ChunkSize # 0 /\ currentChunkOffset + Take < ChunkSize => Take = remaining
      BY <2>a, <3>1, TakeBounds DEF Position
    <3>3. Len(entries) < capacity
      <4>1. CASE ChunkSize = 0
        BY <3>1, <4>1 DEF Room
      <4>2. CASE ChunkSize # 0
        BY <2>a, <3>1, <4>2, NeededSuffices DEF Room
      <4>3. QED
        BY <4>1, <4>2
    <3>4. /\ Len(entries') = Len(entries) + 1 /\ result' = "none" /\ remaining' = remaining - Take
          /\ IF ChunkFull(currentChunkOffset + Take)
             THEN currentChunkId' = currentChunkId + 1 
             ELSE currentChunkId' = currentChunkId
      <4>1. ~(Len(entries) >= capacity)
        BY <3>1, <3>3
      <4>2. QED
        BY <2>2, <2>a, <3>1, <4>1 DEF Walk, TypeOK
    <3>5. CASE ChunkSize = 0
      <4>1. remaining' = 0
        BY <3>1, <3>4, <3>5 DEF Take
      <4>2. QED
        BY <3>1, <3>4, <3>5, <4>1 DEF Room
    <3>6. CASE ChunkSize # 0
      <4>1. chunkOffset <= ChunkSize /\ capacity = Needed + 1 /\ Needed \in Nat
            /\ Len(entries) = currentChunkId - chunkId
        BY <2>a, <3>1, <3>6, NeededSuffices DEF Room
      <4>2. Len(entries) < Needed
        BY <2>a, <3>1, <3>6, <4>1, WalkInNeeded
      <4>3. remaining' > 0 => ChunkFull(currentChunkOffset + Take)
        BY <2>a, <3>1, <3>2, <3>4, <3>6, ChunkSizeAssumption DEF ChunkFull, TypeOK
      <4>4. QED
        BY <3>1, <3>4, <3>6, <4>1, <4>2, <4>3 DEF Room, args
    <3>7. QED
      BY <3>5, <3>6
  <2>3. CASE Finish \/ UNCHANGED vars
    <3>1. UNCHANGED <<args, currentChunkId, remaining, capacity, entries>>
          /\ result' # "SIZE_OVERFLOW_IN_LOOP" /\ Needed' = Needed
      BY <2>3 DEF Finish, vars, args, Needed, Room
    <3>2. QED
      BY <3>1 DEF Room, args
  <2>4. QED
    BY <2>1, <2>2, <2>3 DEF Next
<1>3. QED
  BY <1>1, <1>2, PlanIInv, PTL DEF Spec

\* The number of entries that is computed beforehand always suffices; the loop's 
\* own check of it never fails.
THEOREM PlanCapacitySuffices == Spec => []CapacitySuffices
<1>1. IInv /\ Room => CapacitySuffices
  <2> SUFFICES ASSUME IInv, Room, result = "S_OK", ChunkSize # 0 PROVE Len(entries) < capacity
    BY DEF CapacitySuffices, Room
  <2>1. TypeOK /\ capacity > 0
    BY DEF IInv, TypeOK
  <2>2. Len(entries) <= Needed /\ capacity = Needed + 1 /\ Len(entries) \in Nat /\ Needed \in Nat
    BY <2>1, NeededSuffices DEF Room, TypeOK
  <2>3. QED
    BY <2>2
<1>2. QED
  BY <1>1, PlanIInv, PlanRoom, PTL

-----------------------------------------------------------------------------

\* The chunks the plan allows for end with the one that holds the request's last
\* byte.
LEMMA NeededIsTouched == 
    ASSUME TypeOK, ChunkSize # 0, chunkOffset <= ChunkSize
    PROVE  (First + size - 1) \div ChunkSize = chunkId + Needed - 1
<1> DEFINE s == size - (ChunkSize - chunkOffset)
           q == s \div ChunkSize
           r == s % ChunkSize
           before == Needed - 1
           rest == chunkOffset + size - 1 - before * ChunkSize
<1>1. /\ ChunkSize \in Nat /\ size \in Nat /\ size > 0 /\ chunkOffset \in Nat 
      /\ chunkId \in Nat /\ s \in Int
  BY ChunkSizeAssumption DEF TypeOK
<1>2. Needed = IF s <= 0 THEN 1 ELSE 1 + q + (IF r = 0 THEN 0 ELSE 1)
  BY DEF Needed
<1>3. s > 0 => q \in Nat /\ r \in Nat /\ r < ChunkSize /\ s = ChunkSize * q + r
  BY <1>1
<1>4. chunkOffset + size = ChunkSize + s
  BY <1>1
<1> HIDE DEF s, q, r
<1>5. before \in Nat /\ rest \in Nat /\ rest < ChunkSize
  <2>1. CASE s <= 0
    <3>1. before = 0
      BY <1>2, <2>1
    <3> QED
      BY <1>1, <1>4, <2>1, <3>1
  <2>2. CASE s > 0 /\ r = 0
    <3>1. before = q /\ q \in Nat /\ s = ChunkSize * q
      BY <1>1, <1>2, <1>3, <2>2
    <3>2. q * ChunkSize = ChunkSize * q
      BY <1>1, <3>1
    <3> QED
      BY <1>1, <1>4, <3>1, <3>2
  <2>3. CASE s > 0 /\ r # 0
    <3>1. before = q + 1 /\ q \in Nat /\ s = ChunkSize * q + r /\ r \in Nat /\ r < ChunkSize
      BY <1>1, <1>2, <1>3, <2>3
    <3>2. (q + 1) * ChunkSize = ChunkSize * q + ChunkSize /\ ChunkSize * q \in Nat
      BY <1>1, <3>1
    <3> QED
      BY <1>1, <1>4, <2>3, <3>1, <3>2
  <2> QED
    BY <1>1, <2>1, <2>2, <2>3
<1>6. First + size - 1 = (chunkId + before) * ChunkSize + rest
  <2>1. (chunkId + before) * ChunkSize = chunkId * ChunkSize + before * ChunkSize
    BY <1>1, <1>5
  <2>2. First = chunkId * ChunkSize + chunkOffset
    BY DEF First, GlobalOf
  <2>3. chunkId * ChunkSize \in Nat /\ before * ChunkSize \in Nat
    BY <1>1, <1>5
  <2> QED
    BY <1>1, <2>1, <2>2, <2>3
<1>7. Needed \in Nat /\ chunkId + before = chunkId + Needed - 1
  BY <1>1, NeededSuffices
<1> HIDE DEF before, rest
<1>8. chunkId + before \in Nat
  BY <1>1, <1>5
<1>9. ((chunkId + before) * ChunkSize + rest) \div ChunkSize = chunkId + before
  BY <1>1, <1>5, <1>8, DivModUnique
<1> QED
  BY <1>6, <1>7, <1>9

\* Each entry is in the chunk after that of the one before it, and the walk is at 
\* the start of the next chunk, or in the last one with nothing left to plan.
ChunkByChunk == 
    /\ \A i \in 1 .. Len(entries) : 
         entries[i].chunkId = IF ChunkSize = 0 THEN chunkId ELSE chunkId + i - 1
    /\ capacity > 0 /\ ChunkSize # 0 /\ chunkOffset < ChunkSize =>
         \/ /\ currentChunkId = chunkId + Len(entries)
            /\ entries # <<>> => currentChunkOffset = 0
         \/ /\ currentChunkId = chunkId + Len(entries) - 1
            /\ currentChunkOffset > 0 
            /\ remaining = 0

\* A turn of the loop plans the next chunk.
LEMMA WalkChunkByChunk ==
    ASSUME IInv, Room, ChunkByChunk, Walk
    PROVE  ChunkByChunk'
<1> DEFINE e == [chunkId |-> currentChunkId, chunkOffset |-> currentChunkOffset, length |-> Take]
<1>1. /\ TypeOK /\ Position /\ capacity > 0 /\ remaining \in Nat /\ remaining > 0 
      /\ entries \in Seq(Entry) /\ Len(entries) \in Nat
      /\ chunkId \in Nat /\ chunkOffset \in Nat
      /\ currentChunkId \in Nat /\ currentChunkOffset \in Nat
      /\ UNCHANGED <<args, capacity>>
  BY DEF IInv, TypeOK, Walk
<1>2. CASE UNCHANGED <<currentChunkId, currentChunkOffset, remaining, entries>>
  BY <1>1, <1>2 DEF ChunkByChunk, args
<1>3. CASE /\ entries' = Append(entries, e)
           /\ remaining' = remaining - Take
           /\ IF ChunkFull(currentChunkOffset + Take)
              THEN /\ currentChunkId' = currentChunkId + 1
                   /\ currentChunkOffset' = 0
              ELSE /\ currentChunkOffset' = currentChunkOffset + Take
                   /\ UNCHANGED currentChunkId
  <2>1. /\ Take \in Nat /\ Take <= remaining
        /\ ChunkSize # 0 /\ currentChunkOffset + Take < ChunkSize => Take = remaining
    BY <1>1, TakeBounds DEF Position
  <2>2. PICK n \in Nat : /\ n = Len(entries) /\ Len(entries') = n + 1 /\ entries'[n + 1] = e
                          /\ \A i \in 1 .. n : entries'[i] = entries[i]
    BY <1>1, <1>3
  <2>3. ChunkSize # 0 => currentChunkId = chunkId + n
    BY <1>1, <2>2 DEF Room
  <2>4. ChunkSize = 0 => currentChunkId = chunkId
    BY <1>1 DEF Position
  <2>5. ASSUME NEW i \in 1 .. n + 1
        PROVE  entries'[i].chunkId = IF ChunkSize = 0 THEN chunkId ELSE chunkId + i - 1
    <3>1. CASE i \in 1 .. n
      BY <2>2, <3>1 DEF ChunkByChunk
    <3>2. CASE i = n + 1
      BY <1>1, <2>2, <2>3, <2>4, <3>2
    <3> QED
      BY <2>2, <3>1, <3>2
  <2>6. ASSUME ChunkSize # 0, chunkOffset < ChunkSize
        PROVE  \/ /\ currentChunkId' = chunkId + n + 1
                  /\ currentChunkOffset' = 0
               \/ /\ currentChunkId' = chunkId + n
                  /\ currentChunkOffset' > 0 
                  /\ remaining' = 0
    BY <1>1, <1>3, <2>1, <2>3, <2>6, ChunkSizeAssumption DEF ChunkFull
  <2> QED
    BY <1>1, <2>2, <2>5, <2>6 DEF ChunkByChunk, args
<1> QED
  BY <1>2, <1>3 DEF Walk

\* The plan visits the chunks that ChunkMap names, with the room it computes: what
\* the engine model is told of a plan is what planChunkRange makes, for every 
\* chunk size, every start in a chunk and every size of a request.
THEOREM PlanMatches == Spec => []PlanMatchesChunkMap
<1>1. Init => ChunkByChunk
  BY DEF Init, ChunkByChunk
<1>2. IInv /\ Room /\ ChunkByChunk /\ [Next]_vars => ChunkByChunk'
  <2> SUFFICES ASSUME IInv, Room, ChunkByChunk, [Next]_vars PROVE ChunkByChunk'
    OBVIOUS
  <2>1. CASE Allocate
    BY <2>1 DEF Allocate, IInv, TypeOK, ChunkByChunk, args
  <2>2. CASE Walk
    BY <2>2, WalkChunkByChunk
  <2>3. CASE Finish \/ UNCHANGED vars
    BY <2>3 DEF Finish, vars, args, ChunkByChunk
  <2> QED
    BY <2>1, <2>2, <2>3 DEF Next
<1>3. IInv /\ Room /\ ChunkByChunk => PlanMatchesChunkMap
  <2> DEFINE chunks == {entries[i].chunkId : i \in 1 .. Len(entries)}
  <2> SUFFICES ASSUME IInv, Room, ChunkByChunk, result = "S_OK", 
                      ChunkSize = 0 \/ chunkOffset < ChunkSize
               PROVE  /\ chunks = ChunksTouched(chunkId, chunkOffset, size)
                      /\ capacity = PlanCapacity(chunkId, chunkOffset, size)
    BY DEF PlanMatchesChunkMap
  <2>1. /\ TypeOK /\ Position /\ capacity > 0 /\ remaining = 0 /\ size > 0
        /\ chunkId \in Nat /\ chunkOffset \in Nat /\ size \in Nat
        /\ currentChunkId \in Nat /\ currentChunkOffset \in Nat
        /\ entries # <<>> /\ entries \in Seq(Entry)
    BY DEF IInv, TypeOK, Position
  <2>2. PICK n \in Nat : n = Len(entries) /\ n > 0
    BY <2>1
  <2>3. CASE ChunkSize = 0
    <3>1. chunks = {chunkId}
      BY <2>2, <2>3 DEF ChunkByChunk
    <3>2. capacity = 1
      BY <2>1, <2>3 DEF Room
    <3> QED
      BY <2>3, <3>1, <3>2 DEF ChunksTouched, PlanCapacity
  <2>4. CASE ChunkSize # 0
    <3> DEFINE last == (First + size - 1) \div ChunkSize
    <3>1. ChunkSize \in Nat /\ chunkOffset < ChunkSize /\ chunkOffset <= ChunkSize
      BY <2>1, <2>4, ChunkSizeAssumption
    <3>2. Needed \in Nat /\ capacity = Needed + 1 /\ last = chunkId + Needed - 1
      BY <2>1, <2>4, <3>1, NeededSuffices, NeededIsTouched DEF Room
    <3>3. First + size = currentChunkId * ChunkSize + currentChunkOffset
      <4>1. GlobalOf(currentChunkId, currentChunkOffset) \in Nat
        BY <2>1, GlobalOfType
      <4> QED
        BY <2>1, <2>4, <4>1 DEF Position, GlobalOf
    <3>4. First \in Nat
      BY <2>1, GlobalOfType DEF First
    <3>5. last = chunkId + n - 1
      <4> DEFINE c == chunkId + n - 1
      <4>1. c \in Nat
        BY <2>1, <2>2
      <4>2. PICK o \in Nat : o < ChunkSize /\ First + size - 1 = c * ChunkSize + o
        <5>1. CASE currentChunkId = chunkId + n /\ currentChunkOffset = 0
          <6>1. (c + 1) * ChunkSize = c * ChunkSize + ChunkSize /\ c * ChunkSize \in Nat
            BY <3>1, <4>1
          <6>2. currentChunkId = c + 1
            BY <2>1, <2>2, <5>1
          <6>3. First + size - 1 = c * ChunkSize + (ChunkSize - 1)
            BY <2>1, <3>1, <3>3, <3>4, <5>1, <6>1, <6>2
          <6> QED
            BY <2>4, <3>1, <6>3
        <5>2. CASE currentChunkId = c /\ currentChunkOffset > 0 
          <6>1. c * ChunkSize \in Nat
            BY <3>1, <4>1
          <6>2. currentChunkOffset < ChunkSize
            BY <2>1, <2>4 DEF Position
          <6>3. First + size - 1 = c * ChunkSize + (currentChunkOffset - 1)
            BY <2>1, <3>3, <3>4, <5>2, <6>1
          <6>4. currentChunkOffset - 1 \in Nat /\ currentChunkOffset - 1 < ChunkSize
            BY <2>1, <3>1, <5>2, <6>2
          <6> QED
            BY <6>3, <6>4
        <5> QED
          BY <2>1, <2>2, <2>4, <3>1, <5>1, <5>2 DEF ChunkByChunk
      <4> HIDE DEF c
      <4>3. (c * ChunkSize + o) \div ChunkSize = c
        BY <2>4, <3>1, <4>1, <4>2, DivModUnique
      <4>4. last = c
        BY <4>2, <4>3
      <4> QED
        BY <4>4 DEF c
    <3>6. chunks = chunkId .. chunkId + n - 1
      <4>1. \A i \in 1 .. n : entries[i].chunkId = chunkId + i - 1
        BY <2>2, <2>4 DEF ChunkByChunk
      <4>2. \A c \in chunkId .. chunkId + n - 1 : 
              /\ c - chunkId + 1 \in 1 .. n 
              /\ entries[c - chunkId + 1].chunkId = c
        BY <2>1, <2>2, <4>1
      <4>3. \A i \in 1 .. n : entries[i].chunkId \in chunkId .. chunkId + n - 1
        BY <2>1, <2>2, <4>1
      <4> QED
        BY <2>2, <4>2, <4>3
    <3>7. ChunksTouched(chunkId, chunkOffset, size) = chunkId .. last
      BY <2>4 DEF ChunksTouched, First
    <3>8. PlanCapacity(chunkId, chunkOffset, size) = last - chunkId + 2
      BY <2>4 DEF PlanCapacity, First
    <3> HIDE DEF last, chunks
    <3>9. capacity = last - chunkId + 2
      BY <2>1, <3>2
    <3> QED
      BY <3>5, <3>6, <3>7, <3>8, <3>9 DEF chunks
  <2> QED
    BY <2>3, <2>4
<1> QED
  BY <1>1, <1>2, <1>3, PlanIInv, PlanRoom, PTL DEF Spec

=============================================================================
