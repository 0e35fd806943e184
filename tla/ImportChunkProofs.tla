-------------------------- MODULE ImportChunkProofs --------------------------
(***************************************************************************)
(* Importing is single-use, for any source file, any chunks, sizes and     *)
(* offsets, whatever fails and whenever the process dies, as long as calls *)
(* do not overlap.  (That overlapping calls break it is shown by a run.)   *)
(* The types, with what the code relies on of its counters, hold for       *)
(* overlapping calls as well.                                              *)
(*                                                                         *)
(* The invariant follows the block on its way: it is the tail of the file  *)
(* when it is read, and, once that is cut off, nowhere else (SerialInv).   *)
(* That the whole tail arrives, and that only a call that ends loses any   *)
(* of it, needs to know of the blocks before it as well: which part of the *)
(* file that was opened is where in the chunk (MoveInv).                   *)
(***************************************************************************)
EXTENDS ImportChunk, SequenceTheorems, TLAPS

\* What a call knows of its counters at each of its steps.
CountersInv ==
    \A s \in Sessions :
        /\ pc[s] = "idle" => done[s] = 0
        /\ pc[s] # "idle" => request[s].chunkId \in ChunkIds
        /\ pc[s] \in {"read", "truncate", "write"} => request[s].import
        /\ pc[s] \in {"begin", "zero", "read"} /\ request[s].import =>
              endOffset[s] >= request[s].size - done[s]
        /\ pc[s] \in {"truncate", "write"} =>
              /\ Len(buffer[s]) + done[s] <= request[s].size
              /\ endOffset[s] >= request[s].size - done[s] - Len(buffer[s])

TypeInv == TypeOK /\ CountersInv

\* One call at a time.
OneCallInv == \A r, s \in Sessions : ~At(r, "idle") /\ ~At(s, "idle") => r = s

\* The end of the file is where the call believes it is, but for the block that
\* it has read and not yet cut off.
EndInv ==
    \A s \in Sessions :
        /\ pc[s] \in {"begin", "zero", "read"} /\ request[s].import => 
              endOffset[s] = Len(file)
        /\ At(s, "truncate") =>
              /\ Len(file) = endOffset[s] + Len(buffer[s])
              /\ \A i \in DOMAIN buffer[s] : buffer[s][i] = file[endOffset[s] + i]
        /\ At(s, "write") => endOffset[s] = Len(file)

\* The chunk in the transaction may take its place in the keyset.
BlobInv ==
    \A s \in Sessions : pc[s] \in {"read", "truncate", "write", "commit"} =>
        /\ Distinct(blob[s])
        /\ Apart(file, blob[s])
        /\ \A c \in ChunkIds \ {request[s].chunkId} : Apart(data[c], blob[s])

\* The block may be written into it.
BlockInv ==
    \A s \in Sessions : At(s, "write") =>
        /\ Distinct(buffer[s])
        /\ Apart(file, buffer[s])
        /\ Apart(blob[s], buffer[s])
        /\ \A c \in ChunkIds \ {request[s].chunkId} : Apart(data[c], buffer[s])

SerialInv ==
    /\ OneCallInv
    /\ EndInv
    /\ BlobInv
    /\ BlockInv
    /\ SingleUse

-----------------------------------------------------------------------------

\* A sequence of n cells.
LEMMA CellsBuilt ==
    ASSUME NEW n \in Nat, NEW f \in [1 .. n -> Cells]
    PROVE  f \in Seq(Cells) /\ Len(f) = n /\ DOMAIN f = 1 .. n
OBVIOUS

\* Cutting a file to n cells keeps the first ones.
LEMMA Resized ==
    ASSUME NEW f \in Seq(Cells), NEW n \in Nat
    PROVE  /\ Resize(f, n) \in Seq(Cells) /\ Len(Resize(f, n)) = n
           /\ DOMAIN Resize(f, n) = 1 .. n
           /\ n <= Len(f) => \A i \in 1 .. n : i \in DOMAIN f /\ Resize(f, n)[i] = f[i]
<1>1. Resize(f, n) \in [1 .. n -> Cells]
  BY DEF Resize, Cells
<1>2. /\ Resize(f, n) \in Seq(Cells) /\ Len(Resize(f, n)) = n
      /\ DOMAIN Resize(f, n) = 1 .. n
  BY <1>1, CellsBuilt
<1>3. ASSUME n <= Len(f), NEW i \in 1 .. n
      PROVE  i \in DOMAIN f /\ Resize(f, n)[i] = f[i]
  BY <1>3 DEF Resize
<1> QED
  BY <1>2, <1>3

\* The block read is the tail of the file.
LEMMA TailRead ==
    ASSUME NEW f \in Seq(Cells), NEW n \in Nat, n <= Len(f)
    PROVE  /\ LastCells(f, n) \in Seq(Cells) /\ Len(LastCells(f, n)) = n
           /\ DOMAIN LastCells(f, n) = 1 .. n
           /\ \A i \in 1 .. n : LastCells(f, n)[i] = f[Len(f) - n + i]
<1>1. \A i \in 1 .. n : Len(f) - n + i \in DOMAIN f
  OBVIOUS
<1>2. LastCells(f, n) \in [1 .. n -> Cells]
  BY <1>1 DEF LastCells
<1> QED
  BY <1>2, CellsBuilt DEF LastCells

\* A cell of a chunk that a block was written over is one of the chunk or one of
\* the block.
LEMMA Overlaid ==
    ASSUME NEW b \in Seq(Cells), NEW block \in Seq(Cells), NEW offset \in Nat
    PROVE  /\ Overlay(b, block, offset) \in Seq(Cells)
           /\ DOMAIN Overlay(b, block, offset) = DOMAIN b
           /\ \A i \in DOMAIN b :
                \/ i - offset \in DOMAIN block /\ Overlay(b, block, offset)[i] = block[i - offset]
                \/ Overlay(b, block, offset)[i] = b[i]
<1>1. Overlay(b, block, offset) \in [1 .. Len(b) -> Cells]
  BY DEF Overlay
<1>2. DOMAIN b = 1 .. Len(b) /\ Len(b) \in Nat
  OBVIOUS
<1> QED
  BY <1>1, <1>2, CellsBuilt DEF Overlay

\* A chunk of zeros, or the chunk as it is.
LEMMA ZeroedType ==
    ASSUME NEW d \in Seq(Cells), NEW n \in Nat
    PROVE  /\ Zeroed(d, n) \in Seq(Cells)
           /\ \/ Zeroed(d, n) = d
              \/ \A i \in DOMAIN Zeroed(d, n) : Zeroed(d, n)[i] = Zero
<1>1. Zeros(n) \in [1 .. n -> Cells] /\ \A i \in 1 .. n : Zeros(n)[i] = Zero
  BY DEF Zeros, Cells
<1> QED
  BY <1>1, CellsBuilt DEF Zeroed

\* The block is not longer than what is left, and not empty while something is.
LEMMA ReadSizeType ==
    ASSUME TypeOK, NEW s \in Sessions
    PROVE  /\ ReadSize(s) \in Nat
           /\ ReadSize(s) <= request[s].size - done[s]
  BY ImportAssumption DEF TypeOK, ReadSize, Left

-----------------------------------------------------------------------------

\* No call, and nothing moved.
LEMMA InitType == Init => TypeInv
<1> SUFFICES ASSUME Init
             PROVE  TypeInv
  OBVIOUS
<1>1. file \in Seq(Cells)
  <2>1. SourceSize \in Nat /\ file \in [1 .. SourceSize -> Cells]
    BY ImportAssumption DEF Init, Cells, Units
  <2> QED
    BY <2>1, CellsBuilt
<1> QED
  BY <1>1 DEF Init, TypeInv, TypeOK, CountersInv, NoRequest, Steps

\* A call begins.
LEMMA CallType ==
    ASSUME TypeInv, NEW s \in Sessions, NEW c \in ChunkIds, NEW n \in Sizes,
           \/ \E offset \in Offsets : ImportChunk(s, c, offset, n)
           \/ PrepareChunk(s, c, n)
    PROVE  TypeInv'
<1>1. n \in Nat /\ 0 \in Nat /\ Offsets \subseteq Nat
  BY ImportAssumption
<1>2. PICK import \in BOOLEAN, offset \in Offsets \cup {0} :
         /\ Call(s, import, c, offset, n)
         /\ import => Len(file) >= n /\ endOffset' = [endOffset EXCEPT ![s] = Len(file)]
         /\ ~import => UNCHANGED endOffset
         /\ opened' = [opened EXCEPT ![s] = file] \/ UNCHANGED opened
  BY DEF ImportChunk, PrepareChunk
<1>3. request' = [request EXCEPT ![s] = [import |-> import, chunkId |-> c,
                                         offset |-> offset, size |-> n]]
  BY <1>2 DEF Call
<1>4. pc' = [pc EXCEPT ![s] = "begin"] /\ UNCHANGED <<file, data, writer, blob, buffer, done>>
  BY <1>2 DEF Call, GoTo
<1>5. TypeOK'
  <2>1. request'[s].size = n /\ done[s] = 0
    BY <1>3, <1>2 DEF TypeInv, TypeOK, CountersInv, Call, MayCall, At
  <2>2. request' \in [Sessions -> [import : BOOLEAN, chunkId : ChunkIds \cup {0},
                                   offset : Nat, size : Nat]]
    BY <1>1, <1>3 DEF TypeInv, TypeOK
  <2>3. \A r \in Sessions : done'[r] <= request'[r].size
    BY <1>1, <1>3, <1>4, <2>1 DEF TypeInv, TypeOK
  <2>4. endOffset' \in [Sessions -> Nat]
    <3>1. endOffset' = endOffset \/ endOffset' = [endOffset EXCEPT ![s] = Len(file)]
      BY <1>2
    <3>2. Len(file) \in Nat
      BY DEF TypeInv, TypeOK
    <3> QED
      BY <3>1, <3>2 DEF TypeInv, TypeOK
  <2>5. opened' \in [Sessions -> Seq(Cells)]
    BY <1>2 DEF TypeInv, TypeOK
  <2> QED
    BY <1>4, <2>2, <2>3, <2>4, <2>5 DEF TypeInv, TypeOK, Steps
<1>6. CountersInv'
  <2>1. ASSUME NEW r \in Sessions, r # s
        PROVE  /\ pc'[r] = pc[r] /\ request'[r] = request[r] /\ done'[r] = done[r]
               /\ endOffset'[r] = endOffset[r] /\ buffer'[r] = buffer[r]
    BY <1>2, <1>3, <1>4, <2>1 DEF TypeInv, TypeOK
  <2>2. /\ pc'[s] = "begin" /\ request'[s].chunkId = c /\ request'[s].import = import
        /\ request'[s].size = n /\ done'[s] = 0
    BY <1>2, <1>3, <1>4 DEF TypeInv, TypeOK, CountersInv, Call, MayCall, At
  <2>3. import => endOffset'[s] = Len(file) /\ Len(file) >= n
    BY <1>2 DEF TypeInv, TypeOK
  <2>4. Len(file) \in Nat
    BY DEF TypeInv, TypeOK
  <2> QED
    BY <1>1, <2>1, <2>2, <2>3, <2>4 DEF TypeInv, CountersInv
<1> QED
  BY <1>5, <1>6 DEF TypeInv

\* The transaction begins.
LEMMA BeginType ==
    ASSUME TypeInv, NEW s \in Sessions, Begin(s)
    PROVE  TypeInv'
BY DEF TypeInv, TypeOK, CountersInv, Steps, Begin, At, GoTo

\* The chunk is made long enough.
LEMMA ZeroBlobType ==
    ASSUME TypeInv, NEW s \in Sessions, ZeroBlob(s)
    PROVE  TypeInv'
<1>1. request[s].chunkId \in ChunkIds /\ request[s].size \in Nat
  BY DEF TypeInv, TypeOK, CountersInv, ZeroBlob, At
<1>2. Zeroed(data[request[s].chunkId], request[s].size) \in Seq(Cells)
  BY <1>1, ZeroedType DEF TypeInv, TypeOK
<1>3. TypeOK'
  BY <1>2 DEF TypeInv, TypeOK, Steps, ZeroBlob, GoTo
<1>4. CountersInv'
  BY DEF TypeInv, TypeOK, CountersInv, ZeroBlob, At, GoTo
<1> QED
  BY <1>3, <1>4 DEF TypeInv

\* A block is read.
LEMMA ReadType ==
    ASSUME TypeInv, NEW s \in Sessions, Read(s)
    PROVE  TypeInv'
<1>1. ReadSize(s) \in Nat /\ ReadSize(s) <= request[s].size - done[s]
  BY ReadSizeType DEF TypeInv
<1>2. LastCells(file, ReadSize(s)) \in Seq(Cells)
      /\ Len(LastCells(file, ReadSize(s))) = ReadSize(s)
  BY <1>1, TailRead DEF TypeInv, TypeOK, Read
<1>3. endOffset[s] >= request[s].size - done[s] /\ request[s].import
  BY DEF TypeInv, CountersInv, Read, At
<1>4. endOffset[s] - ReadSize(s) \in Nat
  BY <1>1, <1>3 DEF TypeInv, TypeOK
<1>5. TypeOK'
  BY <1>2, <1>4 DEF TypeInv, TypeOK, Steps, Read, GoTo
<1>6. CountersInv'
  <2>1. ASSUME NEW r \in Sessions, r # s
        PROVE  /\ pc'[r] = pc[r] /\ request'[r] = request[r] /\ done'[r] = done[r]
               /\ endOffset'[r] = endOffset[r] /\ buffer'[r] = buffer[r]
    BY <2>1 DEF TypeInv, TypeOK, Read, GoTo
  <2>2. /\ pc'[s] = "truncate" /\ request'[s] = request[s] /\ done'[s] = done[s]
        /\ endOffset'[s] = endOffset[s] - ReadSize(s) /\ Len(buffer'[s]) = ReadSize(s)
    BY <1>2 DEF TypeInv, TypeOK, Read, GoTo
  <2>3. pc[s] = "read" /\ request[s].chunkId \in ChunkIds
    BY DEF TypeInv, CountersInv, Read, At
  <2>4. request[s].size \in Nat /\ done[s] \in Nat /\ endOffset[s] \in Nat
    BY DEF TypeInv, TypeOK
  <2>5. /\ Len(buffer'[s]) + done'[s] <= request'[s].size
        /\ endOffset'[s] >= request'[s].size - done'[s] - Len(buffer'[s])
    BY <1>1, <1>3, <2>2, <2>4
  <2> QED
    BY <1>3, <2>1, <2>2, <2>3, <2>5 DEF TypeInv, CountersInv
<1> QED
  BY <1>5, <1>6 DEF TypeInv

\* It is cut off the file.
LEMMA TruncateType ==
    ASSUME TypeInv, NEW s \in Sessions, Truncate(s)
    PROVE  TypeInv'
<1>1. Resize(file, endOffset[s]) \in Seq(Cells)
  BY Resized DEF TypeInv, TypeOK
<1>2. TypeOK'
  BY <1>1 DEF TypeInv, TypeOK, Steps, Truncate, TruncateAt, GoTo
<1>3. CountersInv'
  BY DEF TypeInv, TypeOK, CountersInv, Truncate, At, GoTo
<1> QED
  BY <1>2, <1>3 DEF TypeInv

\* It is written into the chunk.
LEMMA WriteType ==
    ASSUME TypeInv, NEW s \in Sessions, Write(s)
    PROVE  TypeInv'
<1>1. Overlay(blob[s], buffer[s], WriteAt(s)) \in Seq(Cells)
  <2>1. WriteAt(s) \in Nat
    BY DEF TypeInv, TypeOK, WriteAt
  <2> QED
    BY <2>1, Overlaid DEF TypeInv, TypeOK
<1>2. /\ request[s].import /\ request[s].chunkId \in ChunkIds
      /\ Len(buffer[s]) + done[s] <= request[s].size
      /\ endOffset[s] >= request[s].size - done[s] - Len(buffer[s])
      /\ Len(buffer[s]) \in Nat /\ done[s] \in Nat /\ endOffset[s] \in Nat
      /\ request[s].size \in Nat
  BY DEF TypeInv, TypeOK, CountersInv, Write, At
<1>3. /\ pc'[s] \in {"read", "commit"} /\ request' = request /\ endOffset' = endOffset
      /\ done'[s] = done[s] + Len(buffer[s]) /\ buffer' = buffer
  BY DEF TypeInv, TypeOK, Write, GoTo
<1>4. \A r \in Sessions : r # s => pc'[r] = pc[r] /\ done'[r] = done[r]
  BY DEF TypeInv, TypeOK, Write, GoTo
<1>5. TypeOK'
  <2>1. ASSUME NEW r \in Sessions
        PROVE  done'[r] <= request'[r].size
    <3>1. CASE r = s
      BY <1>2, <1>3, <3>1
    <3>2. CASE r # s
      BY <1>3, <1>4, <3>2 DEF TypeInv, TypeOK
    <3> QED
      BY <3>1, <3>2
  <2>2. done' \in [Sessions -> Nat] /\ pc' \in [Sessions -> Steps]
    BY <1>2 DEF TypeInv, TypeOK, Steps, Write, GoTo
  <2> QED
    BY <1>1, <2>1, <2>2 DEF TypeInv, TypeOK, Write
<1>6. CountersInv'
  BY <1>2, <1>3, <1>4 DEF TypeInv, CountersInv
<1> QED
  BY <1>5, <1>6 DEF TypeInv

\* A call returns and forgets.
LEMMA ReturnType ==
    ASSUME TypeInv, NEW s \in Sessions, Commit(s) \/ Fail(s)
    PROVE  TypeInv'
<1>1. Return(s) /\ file' = file /\ writer' \in Sessions \cup {NoSession}
  BY DEF TypeInv, TypeOK, Commit, Fail
<1>2. data' \in [ChunkIds -> Seq(Cells)]
  BY DEF TypeInv, TypeOK, Commit, Fail
<1>3. << >> \in Seq(Cells)
  OBVIOUS
<1>4. TypeOK'
  BY <1>1, <1>2, <1>3 DEF TypeInv, TypeOK, Steps, Return, GoTo, NoRequest
<1>5. CountersInv'
  BY <1>1 DEF TypeInv, TypeOK, CountersInv, Return, GoTo, NoRequest
<1> QED
  BY <1>4, <1>5 DEF TypeInv

\* All calls are forgotten.
LEMMA CrashType ==
    ASSUME TypeInv, Crash
    PROVE  TypeInv'
BY DEF TypeInv, TypeOK, CountersInv, Steps, Crash, NoRequest

\* Every step keeps the types and the counters.
LEMMA NextType == TypeInv /\ [Next]_vars => TypeInv'
<1> SUFFICES ASSUME TypeInv, [Next]_vars
             PROVE  TypeInv'
  OBVIOUS
<1>1. ASSUME NEW s \in Sessions,
             \/ \E c \in ChunkIds, offset \in Offsets, n \in Sizes : ImportChunk(s, c, offset, n)
             \/ \E c \in ChunkIds, n \in Sizes : PrepareChunk(s, c, n)
      PROVE  TypeInv'
  BY <1>1, CallType
<1>2. ASSUME NEW s \in Sessions,
             \/ Begin(s) \/ ZeroBlob(s) \/ Read(s) \/ Truncate(s) \/ Write(s)
             \/ Commit(s) \/ Fail(s)
      PROVE  TypeInv'
  BY <1>2, BeginType, ZeroBlobType, ReadType, TruncateType, WriteType, ReturnType
<1>3. CASE Crash
  BY <1>3, CrashType
<1>4. CASE UNCHANGED vars
  BY <1>4 DEF TypeInv, TypeOK, CountersInv, vars
<1> QED
  BY <1>1, <1>2, <1>3, <1>4 DEF Next

-----------------------------------------------------------------------------

\* Nothing is moved yet.
LEMMA InitSerial == Init => SerialInv
<1> SUFFICES ASSUME Init
             PROVE  SerialInv
  OBVIOUS
<1>1. SingleUse
  BY ImportAssumption DEF Init, SingleUse, Distinct, Apart
<1> QED
  BY <1>1 DEF Init, SerialInv, OneCallInv, EndInv, BlobInv, BlockInv, At

\* No other call is there when one begins.
LEMMA CallSerial ==
    ASSUME ~CallsOverlap, TypeInv, SerialInv, 
           NEW s \in Sessions, NEW c \in ChunkIds, NEW n \in Sizes,
           \/ \E offset \in Offsets : ImportChunk(s, c, offset, n)
           \/ PrepareChunk(s, c, n)
    PROVE  SerialInv'
<1>1. PICK import \in BOOLEAN, offset \in Offsets \cup {0} :
         /\ Call(s, import, c, offset, n)
         /\ import => endOffset' = [endOffset EXCEPT ![s] = Len(file)]
  BY DEF ImportChunk, PrepareChunk
<1>2. /\ \A r \in Sessions : pc[r] = "idle"
      /\ pc' = [pc EXCEPT ![s] = "begin"] /\ UNCHANGED <<file, data>>
      /\ request'[s].import = import
  BY <1>1 DEF TypeInv, TypeOK, Call, MayCall, At, GoTo
<1>3. /\ pc'[s] = "begin" /\ \A r \in Sessions : r # s => pc'[r] = "idle"
      /\ import => endOffset'[s] = Len(file)
  BY <1>1, <1>2 DEF TypeInv, TypeOK
<1> QED
  BY <1>2, <1>3 DEF SerialInv, OneCallInv, EndInv, BlobInv, BlockInv, SingleUse, At

\* The other calls, of which there are none, and the keyset stay as they are.
LEMMA BeginSerial ==
    ASSUME TypeInv, SerialInv, NEW s \in Sessions, Begin(s)
    PROVE  SerialInv'
BY DEF TypeInv, TypeOK, SerialInv, OneCallInv, EndInv, BlobInv, BlockInv, SingleUse,
       Begin, At, GoTo

\* The chunk the transaction begins with is the one of the keyset, or zeros.
LEMMA ZeroBlobSerial ==
    ASSUME TypeInv, SerialInv, NEW s \in Sessions, ZeroBlob(s)
    PROVE  SerialInv'
<1> DEFINE c == request[s].chunkId
           b == Zeroed(data[c], request[s].size)
<1>1. c \in ChunkIds /\ request[s].size \in Nat /\ pc[s] = "zero"
  BY DEF TypeInv, TypeOK, CountersInv, ZeroBlob, At
<1>2. b = data[c] \/ \A i \in DOMAIN b : b[i] = Zero
  BY <1>1, ZeroedType DEF TypeInv, TypeOK
<1>3. /\ Distinct(b) /\ Apart(file, b)
      /\ \A d \in ChunkIds \ {c} : Apart(data[d], b)
  BY <1>1, <1>2 DEF SerialInv, SingleUse, Distinct, Apart
<1>4. /\ pc'[s] \in {"read", "commit"}
      /\ pc'[s] = "read" => request[s].import
      /\ blob'[s] = b
      /\ UNCHANGED <<file, data, request, endOffset, buffer>>
  BY DEF TypeInv, TypeOK, ZeroBlob, GoTo
<1>5. \A r \in Sessions : r # s => pc'[r] = pc[r] /\ pc[r] = "idle"
  BY <1>1 DEF TypeInv, TypeOK, SerialInv, OneCallInv, ZeroBlob, At, GoTo
<1> HIDE DEF b
<1>6. OneCallInv' /\ BlockInv' /\ SingleUse'
  <2>1. OneCallInv' /\ BlockInv'
    BY <1>4, <1>5 DEF OneCallInv, BlockInv, At
  <2>2. SingleUse'
    BY <1>4 DEF SerialInv, SingleUse
  <2> QED
    BY <2>1, <2>2
<1>7. EndInv'
  <2>1. request[s].import => endOffset[s] = Len(file)
    BY <1>1 DEF SerialInv, EndInv
  <2> QED
    BY <1>4, <1>5, <2>1 DEF EndInv, At
<1>8. BlobInv'
  BY <1>3, <1>4, <1>5 DEF BlobInv
<1> QED
  BY <1>6, <1>7, <1>8 DEF SerialInv

\* The block is the tail of the file.
LEMMA ReadSerial ==
    ASSUME TypeInv, SerialInv, NEW s \in Sessions, Read(s)
    PROVE  SerialInv'
<1>1. ReadSize(s) \in Nat /\ ReadSize(s) <= Len(file) /\ Len(file) \in Nat
  BY ReadSizeType DEF TypeInv, TypeOK, Read
<1> DEFINE b == LastCells(file, ReadSize(s))
<1>2. /\ DOMAIN b = 1 .. ReadSize(s) /\ Len(b) = ReadSize(s)
      /\ \A i \in 1 .. ReadSize(s) : b[i] = file[Len(file) - ReadSize(s) + i]
  BY <1>1, TailRead DEF TypeInv, TypeOK
<1>3. pc[s] = "read" /\ request[s].import /\ endOffset[s] = Len(file)
  BY DEF TypeInv, CountersInv, SerialInv, EndInv, Read, At
<1>4. /\ pc'[s] = "truncate" /\ buffer'[s] = b /\ endOffset'[s] = Len(file) - ReadSize(s)
      /\ UNCHANGED <<file, data, request, blob>>
  BY <1>3 DEF TypeInv, TypeOK, Read, GoTo
<1>5. \A r \in Sessions : r # s => pc'[r] = pc[r] /\ pc[r] = "idle"
  BY <1>3 DEF TypeInv, TypeOK, SerialInv, OneCallInv, Read, At, GoTo
<1> HIDE DEF b
<1>6. OneCallInv' /\ BlockInv' /\ SingleUse'
  BY <1>4, <1>5 DEF SerialInv, OneCallInv, BlockInv, SingleUse, At
<1>7. EndInv'
  <2>1. /\ Len(file') = endOffset'[s] + Len(buffer'[s])
        /\ \A i \in DOMAIN buffer'[s] : buffer'[s][i] = file'[endOffset'[s] + i]
    BY <1>1, <1>2, <1>4
  <2> QED
    BY <1>4, <1>5, <2>1 DEF EndInv, At
<1>8. BlobInv'
  BY <1>3, <1>4, <1>5 DEF SerialInv, BlobInv
<1> QED
  BY <1>6, <1>7, <1>8 DEF SerialInv

\* What is cut off is in the block, and nowhere else.
LEMMA TruncateSerial ==
    ASSUME TypeInv, SerialInv, NEW s \in Sessions, Truncate(s)
    PROVE  SerialInv'
<1> DEFINE f == Resize(file, endOffset[s])
           b == buffer[s]
<1>1. /\ pc[s] = "truncate" /\ Len(file) = endOffset[s] + Len(b)
      /\ \A i \in DOMAIN b : b[i] = file[endOffset[s] + i]
      /\ endOffset[s] \in Nat /\ Len(b) \in Nat /\ DOMAIN b = 1 .. Len(b)
      /\ DOMAIN file = 1 .. Len(file)
  BY DEF TypeInv, TypeOK, SerialInv, EndInv, Truncate, At
<1>2. /\ DOMAIN f = 1 .. endOffset[s] /\ Len(f) = endOffset[s]
      /\ \A i \in DOMAIN f : i \in DOMAIN file /\ f[i] = file[i]
  <2>1. file \in Seq(Cells) /\ endOffset[s] <= Len(file)
    BY <1>1 DEF TypeInv, TypeOK
  <2>2. /\ DOMAIN f = 1 .. endOffset[s] /\ Len(f) = endOffset[s]
        /\ \A i \in 1 .. endOffset[s] : i \in DOMAIN file /\ f[i] = file[i]
    BY <1>1, <2>1, Resized
  <2> HIDE DEF f
  <2> QED
    BY <2>2
<1>3. \A i \in DOMAIN b : endOffset[s] + i \in DOMAIN file
  BY <1>1
<1>4. /\ pc'[s] = "write" /\ file' = f
      /\ UNCHANGED <<data, request, blob, buffer, endOffset>>
  BY DEF TypeInv, TypeOK, Truncate, TruncateAt, GoTo
<1>5. \A r \in Sessions : r # s => pc'[r] = pc[r] /\ pc[r] = "idle"
  BY <1>1 DEF TypeInv, TypeOK, SerialInv, OneCallInv, Truncate, At, GoTo
<1>6. /\ Distinct(file) /\ Distinct(blob[s]) /\ Apart(file, blob[s])
      /\ \A c \in ChunkIds : Apart(file, data[c])
  BY <1>1 DEF SerialInv, SingleUse, BlobInv
<1> HIDE DEF f, b
<1>7. Distinct(f)
  BY <1>2, <1>6 DEF Distinct
<1>8. Distinct(b)
  <2> SUFFICES ASSUME NEW i \in DOMAIN b, NEW j \in DOMAIN b, b[i] = b[j], b[i] # Zero
               PROVE  i = j
    BY DEF Distinct
  <2>1. endOffset[s] + i = endOffset[s] + j
    BY <1>1, <1>3, <1>6 DEF Distinct
  <2> QED
    BY <1>1, <2>1
<1>9. Apart(f, b)
  <2> SUFFICES ASSUME NEW i \in DOMAIN f, NEW j \in DOMAIN b, f[i] = b[j], f[i] # Zero
               PROVE  FALSE
    BY DEF Apart
  <2>1. i = endOffset[s] + j
    BY <1>1, <1>2, <1>3, <1>6 DEF Distinct
  <2> QED
    BY <1>1, <1>2, <2>1
<1>10. ASSUME NEW g, Apart(file, g)
       PROVE  Apart(f, g) /\ Apart(g, b)
  <2>1. /\ \A i \in DOMAIN f : \E j \in DOMAIN file : f[i] = file[j]
        /\ \A i \in DOMAIN b : \E j \in DOMAIN file : b[i] = file[j]
    BY <1>1, <1>2, <1>3
  <2> QED
    BY <1>10, <2>1 DEF Apart
<1>11. OneCallInv'
  BY <1>4, <1>5 DEF OneCallInv, At
<1>12. EndInv'
  BY <1>2, <1>4, <1>5 DEF EndInv, At
<1>13. BlobInv'
  BY <1>1, <1>4, <1>5, <1>6, <1>10 DEF SerialInv, BlobInv
<1>14. BlockInv'
  <2>1. buffer'[s] = b
    BY <1>4 DEF b
  <2> QED
    BY <1>4, <1>5, <1>6, <1>8, <1>9, <1>10, <2>1 DEF BlockInv, At
<1>15. SingleUse'
  BY <1>4, <1>6, <1>7, <1>10 DEF SerialInv, SingleUse
<1> QED
  BY <1>11, <1>12, <1>13, <1>14, <1>15 DEF SerialInv

\* The block joins the chunk of the transaction.
LEMMA WriteSerial ==
    ASSUME TypeInv, SerialInv, NEW s \in Sessions, Write(s)
    PROVE  SerialInv'
<1> DEFINE b == blob[s]
           block == buffer[s]
           offset == WriteAt(s)
           n == Overlay(b, block, offset)
<1>1. /\ pc[s] = "write" /\ endOffset[s] = Len(file) /\ request[s].import
      /\ b \in Seq(Cells) /\ block \in Seq(Cells) /\ offset \in Nat
  BY DEF TypeInv, TypeOK, CountersInv, SerialInv, EndInv, Write, WriteAt, At
<1>2. /\ Distinct(block) /\ Apart(file, block) /\ Apart(b, block)
      /\ \A c \in ChunkIds \ {request[s].chunkId} : Apart(data[c], block)
      /\ Distinct(b) /\ Apart(file, b)
      /\ \A c \in ChunkIds \ {request[s].chunkId} : Apart(data[c], b)
  BY <1>1 DEF SerialInv, BlobInv, BlockInv, At
<1> HIDE DEF b, block, offset
<1>3. /\ DOMAIN n = DOMAIN b /\ DOMAIN b \subseteq Int
      /\ \A i \in DOMAIN b : \/ i - offset \in DOMAIN block /\ n[i] = block[i - offset]
                             \/ n[i] = b[i]
  <2>1. DOMAIN b \subseteq Int
    BY <1>1
  <2> HIDE DEF n
  <2>2. /\ DOMAIN n = DOMAIN b
        /\ \A i \in DOMAIN b : \/ i - offset \in DOMAIN block /\ n[i] = block[i - offset]
                               \/ n[i] = b[i]
    BY <1>1, Overlaid DEF n
  <2> QED
    BY <2>1, <2>2
<1>4. /\ pc'[s] \in {"read", "commit"} /\ blob'[s] = n
      /\ UNCHANGED <<file, data, request, buffer, endOffset>>
  BY DEF TypeInv, TypeOK, Write, GoTo, b, block, offset
<1>5. \A r \in Sessions : r # s => pc'[r] = pc[r] /\ pc[r] = "idle"
  BY <1>1 DEF TypeInv, TypeOK, SerialInv, OneCallInv, Write, At, GoTo
<1> HIDE DEF n
<1>6. Distinct(n)
  <2> SUFFICES ASSUME NEW i \in DOMAIN n, NEW j \in DOMAIN n, n[i] = n[j], n[i] # Zero
               PROVE  i = j
    BY DEF Distinct
  <2>1. i \in DOMAIN b /\ j \in DOMAIN b /\ i \in Int /\ j \in Int /\ offset \in Int
    BY <1>1, <1>3
  <2>2. CASE n[i] = b[i] /\ n[j] = b[j]
    BY <1>2, <2>1, <2>2 DEF Distinct
  <2>3. CASE /\ i - offset \in DOMAIN block /\ n[i] = block[i - offset]
             /\ j - offset \in DOMAIN block /\ n[j] = block[j - offset]
    <3>1. i - offset = j - offset
      BY <1>2, <2>3 DEF Distinct
    <3> QED
      BY <2>1, <3>1
  <2>4. CASE /\ i - offset \in DOMAIN block /\ n[i] = block[i - offset]
             /\ n[j] = b[j]
    BY <1>2, <2>1, <2>4 DEF Apart
  <2>5. CASE /\ j - offset \in DOMAIN block /\ n[j] = block[j - offset]
             /\ n[i] = b[i]
    BY <1>2, <2>1, <2>5 DEF Apart
  <2> QED
    BY <1>3, <2>1, <2>2, <2>3, <2>4, <2>5
<1>7. ASSUME NEW g, Apart(g, b), Apart(g, block)
      PROVE  Apart(g, n)
  BY <1>3, <1>7 DEF Apart
<1>8. OneCallInv' /\ BlockInv' /\ SingleUse'
  BY <1>4, <1>5 DEF SerialInv, OneCallInv, BlockInv, SingleUse, At
<1>9. EndInv'
  BY <1>1, <1>4, <1>5 DEF EndInv, At
<1>10. BlobInv'
  BY <1>2, <1>4, <1>5, <1>6, <1>7 DEF BlobInv
<1> QED
  BY <1>8, <1>9, <1>10 DEF SerialInv

\* The chunk takes its place, and what was there is gone.
LEMMA CommitSerial ==
    ASSUME TypeInv, SerialInv, NEW s \in Sessions, Commit(s)
    PROVE  SerialInv'
<1> DEFINE c == request[s].chunkId
<1>1. pc[s] = "commit" /\ c \in ChunkIds
  BY DEF TypeInv, CountersInv, Commit, At
<1>2. /\ data'[c] = blob[s] /\ \A d \in ChunkIds : d # c => data'[d] = data[d]
      /\ file' = file /\ pc'[s] = "idle"
  BY <1>1 DEF TypeInv, TypeOK, Commit, Return, GoTo
<1>3. \A r \in Sessions : pc'[r] = "idle"
  BY <1>1 DEF TypeInv, TypeOK, SerialInv, OneCallInv, Commit, Return, At, GoTo
<1>4. /\ Distinct(blob[s]) /\ Apart(file, blob[s])
      /\ \A d \in ChunkIds \ {c} : Apart(data[d], blob[s]) /\ Apart(blob[s], data[d])
  BY <1>1 DEF SerialInv, BlobInv, Apart
<1> HIDE DEF c
<1>5. SingleUse'
  BY <1>1, <1>2, <1>4 DEF SerialInv, SingleUse
<1> QED
  BY <1>3, <1>5 DEF SerialInv, OneCallInv, EndInv, BlobInv, BlockInv, At

\* A call that fails leaves the file and the keyset as they are.
LEMMA FailSerial ==
    ASSUME TypeInv, SerialInv, NEW s \in Sessions, Fail(s)
    PROVE  SerialInv'
<1>1. \A r \in Sessions : pc'[r] = "idle"
  BY DEF TypeInv, TypeOK, SerialInv, OneCallInv, Fail, Return, At, GoTo
<1>2. SingleUse'
  BY DEF SerialInv, SingleUse, Fail
<1> QED
  BY <1>1, <1>2 DEF SerialInv, OneCallInv, EndInv, BlobInv, BlockInv, At

\* So does the death of the process.
LEMMA CrashSerial ==
    ASSUME SerialInv, Crash
    PROVE  SerialInv'
<1>1. \A r \in Sessions : pc'[r] = "idle"
  BY DEF Crash
<1>2. SingleUse'
  BY DEF SerialInv, SingleUse, Crash
<1> QED
  BY <1>1, <1>2 DEF SerialInv, OneCallInv, EndInv, BlobInv, BlockInv, At

\* Every step of calls one after the other keeps the invariant.
LEMMA NextSerial ==
    ASSUME ~CallsOverlap, TypeInv, SerialInv, [Next]_vars
    PROVE  SerialInv'
<1>1. ASSUME NEW s \in Sessions,
             \/ \E c \in ChunkIds, offset \in Offsets, n \in Sizes : ImportChunk(s, c, offset, n)
             \/ \E c \in ChunkIds, n \in Sizes : PrepareChunk(s, c, n)
      PROVE  SerialInv'
  BY <1>1, CallSerial
<1>2. ASSUME NEW s \in Sessions,
             \/ Begin(s) \/ ZeroBlob(s) \/ Read(s) \/ Truncate(s) \/ Write(s)
             \/ Commit(s) \/ Fail(s)
      PROVE  SerialInv'
  BY <1>2, BeginSerial, ZeroBlobSerial, ReadSerial, TruncateSerial, WriteSerial,
     CommitSerial, FailSerial
<1>3. CASE Crash
  BY <1>3, CrashSerial
<1>4. CASE UNCHANGED vars
  BY <1>4 DEF SerialInv, OneCallInv, EndInv, BlobInv, BlockInv, SingleUse, vars, At
<1> QED
  BY <1>1, <1>2, <1>3, <1>4 DEF Next

\* The types and the counters hold in every state.
LEMMA TypeHolds == Spec => []TypeInv
BY InitType, NextType, PTL DEF Spec

-----------------------------------------------------------------------------

\* The variables keep their types; no call counts more bytes than it was asked
\* for or cuts below the start of the file, overlapping calls included.
THEOREM TypeCorrect == Spec => []TypeOK
<1>1. TypeInv => TypeOK
  BY DEF TypeInv
<1> QED
  BY <1>1, TypeHolds, PTL

\* Calls one after the other never leave a byte of key material in two places,
\* for any chunks, sizes and offsets and any failure or death of the process.
THEOREM ImportsCorrect ==
    ASSUME ~CallsOverlap
    PROVE  Spec => []SingleUse
<1>1. TypeInv /\ SerialInv /\ [Next]_vars => SerialInv'
  BY NextSerial
<1>2. SerialInv => SingleUse
  BY DEF SerialInv
<1> QED
  BY <1>1, <1>2, InitSerial, TypeHolds, PTL DEF Spec

-----------------------------------------------------------------------------
(* What a call moves.                                                      *)

\* What a call holds before it has anything to move.
FreshOK(s) ==
    pc[s] \in {"idle", "begin", "zero"} => 
        blob[s] = << >> /\ buffer[s] = << >> /\ done[s] = 0

\* The places of the chunk that a call has written to.
Written(s) == request[s].offset + 1 .. request[s].offset + done[s]

\* What is written is in the chunk of the transaction; what it has elsewhere is
\* still in the keyset.
KeptOK(s) ==
    /\ pc[s] \in {"read", "commit"} => Material(buffer[s]) \subseteq Material(blob[s])
    /\ pc[s] \in {"read", "truncate", "write", "commit"} =>
          \A i \in DOMAIN blob[s] \ Written(s) : 
             blob[s][i] \in Material(data[request[s].chunkId]) \cup {Zero}

\* How many bytes the call has cut off the file.
CutOff(s) == IF At(s, "write") THEN done[s] + Len(buffer[s]) ELSE done[s]

\* The places in the file that was opened of what is written.
Moved(s) == Len(opened[s]) - done[s] + 1 .. Len(opened[s])

\* An import cuts the file it opened from its end on; the block it holds is the 
\* last it has cut off, and those before are where it wrote them.
TailOK(s) ==
    ~At(s, "idle") /\ request[s].import =>
        /\ Distinct(opened[s])
        /\ Len(file) + CutOff(s) = Len(opened[s])
        /\ \A i \in DOMAIN file : file[i] = opened[s][i]
        /\ At(s, "write") => 
              \A i \in DOMAIN buffer[s] : buffer[s][i] = opened[s][Len(file) + i]
        /\ At(s, "commit") => done[s] = request[s].size
        /\ Written(s) \subseteq DOMAIN blob[s]
        /\ \A i \in Moved(s) : \E j \in Written(s) : blob[s][j] = opened[s][i]
        /\ \A j \in Written(s) : \E i \in Moved(s) : blob[s][j] = opened[s][i]

MoveOK(s) == FreshOK(s) /\ KeptOK(s) /\ TailOK(s)

MoveInv == \A s \in Sessions : MoveOK(s)

\* A call that is over holds nothing.
LEMMA IdleMoves ==
    ASSUME NEW s \in Sessions, pc'[s] = "idle", 
           blob'[s] = << >>, buffer'[s] = << >>, done'[s] = 0
    PROVE  MoveOK(s)'
BY DEF MoveOK, FreshOK, KeptOK, TailOK, At

\* A call that has not moved anything yet has the whole file before it.
LEMMA FreshMoves ==
    ASSUME TypeInv', NEW s \in Sessions, pc'[s] \in {"begin", "zero"},
           blob'[s] = << >>, buffer'[s] = << >>, done'[s] = 0,
           request'[s].import => 
              /\ Distinct(opened'[s]) /\ Len(file') = Len(opened'[s])
              /\ \A i \in DOMAIN file' : file'[i] = opened'[s][i]
    PROVE  MoveOK(s)'
<1>1. /\ Len(file') \in Nat /\ Len(opened'[s]) \in Nat /\ request'[s].offset \in Nat
  BY DEF TypeInv, TypeOK
<1>2. Written(s)' = {} /\ Moved(s)' = {}
  BY <1>1 DEF Written, Moved
<1>3. FreshOK(s)' /\ KeptOK(s)'
  BY DEF FreshOK, KeptOK
<1>4. TailOK(s)'
  BY <1>1, <1>2 DEF TailOK, CutOff, At
<1> QED
  BY <1>3, <1>4 DEF MoveOK

\* The others are idle, and hold nothing.
LEMMA OthersMove ==
    ASSUME TypeInv, SerialInv, MoveInv, NEW s \in Sessions, 
           ~At(s, "idle"), NEW r \in Sessions \ {s},
           pc'[r] = pc[r], blob'[r] = blob[r], buffer'[r] = buffer[r], done'[r] = done[r]
    PROVE  MoveOK(r)'
<1>1. pc[r] = "idle"
  BY DEF SerialInv, OneCallInv, At
<1> QED
  BY <1>1, IdleMoves DEF MoveInv, MoveOK, FreshOK

\* The file is opened: it is as it is.
LEMMA CallMoves ==
    ASSUME TypeInv, TypeInv', SerialInv, MoveInv, ~CallsOverlap,
           NEW s \in Sessions, NEW c \in ChunkIds, NEW n \in Sizes,
           \/ \E offset \in Offsets : ImportChunk(s, c, offset, n)
           \/ PrepareChunk(s, c, n)
    PROVE  MoveInv'
<1>1. PICK import \in BOOLEAN, offset \in Offsets \cup {0} :
         /\ Call(s, import, c, offset, n)
         /\ import => opened' = [opened EXCEPT ![s] = file]
  BY DEF ImportChunk, PrepareChunk
<1>2. \A r \in Sessions : pc[r] = "idle"
  BY <1>1 DEF Call, MayCall, At
<1>3. /\ UNCHANGED <<file, blob, buffer, done>>
      /\ pc'[s] = "begin" /\ request'[s].import = import
      /\ \A r \in Sessions \ {s} : pc'[r] = pc[r]
  BY <1>1 DEF TypeInv, TypeOK, Call, GoTo
<1>4. \A r \in Sessions : blob[r] = << >> /\ buffer[r] = << >> /\ done[r] = 0
  BY <1>2 DEF MoveInv, MoveOK, FreshOK
<1>5. import => opened'[s] = file
  BY <1>1 DEF TypeInv, TypeOK
<1>6. Distinct(file)
  BY DEF SerialInv, SingleUse
<1>7. MoveOK(s)'
  BY <1>3, <1>4, <1>5, <1>6, FreshMoves
<1>8. \A r \in Sessions \ {s} : MoveOK(r)'
  BY <1>2, <1>3, <1>4, IdleMoves
<1> QED
  BY <1>7, <1>8 DEF MoveInv

\* The transaction begins.
LEMMA BeginMoves ==
    ASSUME TypeInv, TypeInv', SerialInv, MoveInv, NEW s \in Sessions, Begin(s)
    PROVE  MoveInv'
<1>1. /\ pc[s] = "begin" /\ pc'[s] = "zero" /\ \A r \in Sessions \ {s} : pc'[r] = pc[r]
      /\ UNCHANGED <<file, request, blob, buffer, done, opened>>
  BY DEF TypeInv, TypeOK, Begin, GoTo, At
<1>2. FreshOK(s) /\ TailOK(s)
  BY DEF MoveInv, MoveOK
<1>3. blob[s] = << >> /\ buffer[s] = << >> /\ done[s] = 0
  BY <1>1, <1>2 DEF FreshOK
<1>4. request[s].import => 
        /\ Distinct(opened[s]) /\ Len(file) = Len(opened[s])
        /\ \A i \in DOMAIN file : file[i] = opened[s][i]
  BY <1>1, <1>2, <1>3 DEF TailOK, CutOff, At, TypeInv, TypeOK
<1>5. MoveOK(s)'
  BY <1>1, <1>3, <1>4, FreshMoves
<1>6. \A r \in Sessions \ {s} : MoveOK(r)'
  BY <1>1, OthersMove DEF At
<1> QED
  BY <1>5, <1>6 DEF MoveInv

\* The chunk is the one of the keyset, or zeros.
LEMMA ZeroBlobMoves ==
    ASSUME TypeInv, TypeInv', SerialInv, MoveInv, NEW s \in Sessions, ZeroBlob(s)
    PROVE  MoveInv'
<1> DEFINE d == data[request[s].chunkId]
           b == Zeroed(d, request[s].size)
<1>1. /\ pc[s] = "zero" /\ pc'[s] \in {"read", "commit"} /\ blob'[s] = b
      /\ pc'[s] = "read" <=> request[s].import
      /\ \A r \in Sessions \ {s} : pc'[r] = pc[r] /\ blob'[r] = blob[r]
      /\ UNCHANGED <<file, data, request, buffer, done, opened>>
  BY DEF TypeInv, TypeOK, ZeroBlob, GoTo, At
<1>2. FreshOK(s) /\ TailOK(s)
  BY DEF MoveInv, MoveOK
<1>3. buffer[s] = << >> /\ done[s] = 0
  BY <1>1, <1>2 DEF FreshOK
<1>4. d \in Seq(Cells) /\ request[s].size \in Nat /\ request[s].offset \in Nat
  BY <1>1 DEF TypeInv, TypeOK, CountersInv
<1>5. \A i \in DOMAIN b : b[i] \in Material(d) \cup {Zero}
  <2>1. b = d \/ \A i \in DOMAIN b : b[i] = Zero
    BY <1>4, ZeroedType
  <2> HIDE DEF b, d
  <2> QED
    BY <2>1 DEF Material
<1> HIDE DEF b
<1>6. KeptOK(s)'
  BY <1>1, <1>3, <1>5 DEF KeptOK, Material
<1>7. Written(s) = {} /\ Written(s)' = {}
  BY <1>1, <1>3, <1>4 DEF Written
<1>8. Moved(s) = {} /\ Moved(s)' = {}
  <2>1. Len(opened[s]) \in Nat
    BY DEF TypeInv, TypeOK
  <2> QED
    BY <1>1, <1>3, <2>1 DEF Moved
<1>9. TailOK(s)'
  BY <1>1, <1>2, <1>3, <1>7, <1>8 DEF TailOK, CutOff, At
<1>10. FreshOK(s)'
  BY <1>1 DEF FreshOK
<1>11. \A r \in Sessions \ {s} : MoveOK(r)'
  BY <1>1, OthersMove DEF At
<1> QED
  BY <1>6, <1>9, <1>10, <1>11 DEF MoveInv, MoveOK

\* A block is read: nothing has moved by it.
LEMMA ReadMoves ==
    ASSUME TypeInv, TypeInv', SerialInv, MoveInv, NEW s \in Sessions, Read(s)
    PROVE  MoveInv'
<1>1. /\ pc[s] = "read" /\ pc'[s] = "truncate"
      /\ \A r \in Sessions \ {s} : pc'[r] = pc[r] /\ buffer'[r] = buffer[r]
      /\ UNCHANGED <<file, data, request, blob, done, opened>>
  BY DEF TypeInv, TypeOK, Read, GoTo, At
<1>2. KeptOK(s) /\ TailOK(s)
  BY DEF MoveInv, MoveOK
<1>3. Written(s)' = Written(s) /\ Moved(s)' = Moved(s) /\ CutOff(s)' = CutOff(s)
  BY <1>1 DEF Written, Moved, CutOff, At
<1>4. KeptOK(s)' /\ FreshOK(s)'
  BY <1>1, <1>2, <1>3 DEF KeptOK, FreshOK
<1>5. TailOK(s)'
  BY <1>1, <1>2, <1>3 DEF TailOK, At
<1>6. \A r \in Sessions \ {s} : MoveOK(r)'
  BY <1>1, OthersMove DEF At
<1> QED
  BY <1>4, <1>5, <1>6 DEF MoveInv, MoveOK

\* The block is what is cut off.
LEMMA TruncateMoves ==
    ASSUME TypeInv, TypeInv', SerialInv, MoveInv, NEW s \in Sessions, Truncate(s)
    PROVE  MoveInv'
<1> DEFINE f == Resize(file, endOffset[s])
           b == buffer[s]
<1>1. /\ pc[s] = "truncate" /\ pc'[s] = "write" /\ file' = f
      /\ \A r \in Sessions \ {s} : pc'[r] = pc[r]
      /\ UNCHANGED <<data, request, blob, buffer, done, opened>>
  BY DEF TypeInv, TypeOK, Truncate, TruncateAt, GoTo, At
<1>2. KeptOK(s) /\ TailOK(s)
  BY DEF MoveInv, MoveOK
<1>3. /\ Len(file) = endOffset[s] + Len(b)
      /\ \A i \in DOMAIN b : b[i] = file[endOffset[s] + i]
      /\ endOffset[s] \in Nat /\ Len(b) \in Nat /\ DOMAIN b = 1 .. Len(b)
      /\ file \in Seq(Cells) /\ DOMAIN file = 1 .. Len(file)
      /\ done[s] \in Nat /\ Len(opened[s]) \in Nat
  <2>1. /\ Len(file) = endOffset[s] + Len(b)
        /\ \A i \in DOMAIN b : b[i] = file[endOffset[s] + i]
    BY <1>1 DEF SerialInv, EndInv, At
  <2>2. /\ file \in Seq(Cells) /\ b \in Seq(Cells) /\ opened[s] \in Seq(Cells)
        /\ endOffset[s] \in Nat /\ done[s] \in Nat
    BY DEF TypeInv, TypeOK
  <2> QED
    BY <2>1, <2>2
<1>4. /\ DOMAIN f = 1 .. endOffset[s] /\ Len(f) = endOffset[s]
      /\ \A i \in 1 .. endOffset[s] : i \in DOMAIN file /\ f[i] = file[i]
  <2>1. endOffset[s] <= Len(file)
    BY <1>3
  <2> QED
    BY <1>3, <2>1, Resized
<1> HIDE DEF f
<1>5. Written(s)' = Written(s) /\ Moved(s)' = Moved(s)
  BY <1>1 DEF Written, Moved
<1>6. KeptOK(s)' /\ FreshOK(s)'
  BY <1>1, <1>2, <1>5 DEF KeptOK, FreshOK
<1>7. ASSUME request[s].import
      PROVE  /\ Len(file') + CutOff(s)' = Len(opened[s])
             /\ \A i \in DOMAIN file' : file'[i] = opened[s][i]
             /\ \A i \in DOMAIN b : b[i] = opened[s][Len(file') + i]
  <2>1. Len(file) + done[s] = Len(opened[s]) /\ \A i \in DOMAIN file : file[i] = opened[s][i]
    BY <1>1, <1>2, <1>7 DEF TailOK, CutOff, At
  <2>2. CutOff(s)' = done[s] + Len(b)
    BY <1>1 DEF CutOff, At
  <2>3. \A i \in DOMAIN b : endOffset[s] + i \in DOMAIN file
    BY <1>3
  <2> QED
    BY <1>1, <1>3, <1>4, <2>1, <2>2, <2>3
<1>8. TailOK(s)'
  BY <1>1, <1>2, <1>5, <1>7 DEF TailOK, At
<1>9. \A r \in Sessions \ {s} : MoveOK(r)'
  BY <1>1, OthersMove DEF At
<1> QED
  BY <1>6, <1>8, <1>9 DEF MoveInv, MoveOK


\* A block that fits into a chunk is in it where it was written, and the rest of
\* the chunk is as it was.
LEMMA Overwritten ==
    ASSUME NEW b \in Seq(Cells), NEW block \in Seq(Cells), NEW offset \in Nat, 
           offset + Len(block) <= Len(b), NEW n, n = Overlay(b, block, offset)
    PROVE  /\ DOMAIN n = DOMAIN b
           /\ \A i \in DOMAIN block : offset + i \in DOMAIN b /\ n[offset + i] = block[i]
           /\ \A j \in DOMAIN b : j <= offset \/ j > offset + Len(block) => n[j] = b[j]
<1>1. /\ DOMAIN b = 1 .. Len(b) /\ DOMAIN block = 1 .. Len(block) 
      /\ Len(b) \in Nat /\ Len(block) \in Nat
  OBVIOUS
<1>2. DOMAIN n = DOMAIN b
  BY <1>1 DEF Overlay
<1>3. \A j \in DOMAIN b : n[j] = IF j - offset \in DOMAIN block THEN block[j - offset] ELSE b[j]
  BY <1>1 DEF Overlay
<1>4. ASSUME NEW i \in DOMAIN block 
      PROVE  offset + i \in DOMAIN b /\ n[offset + i] = block[i]
  <2>1. offset + i \in DOMAIN b /\ (offset + i) - offset = i
    BY <1>1
  <2> QED
    BY <1>3, <2>1
<1>5. ASSUME NEW j \in DOMAIN b, j <= offset \/ j > offset + Len(block)
      PROVE  n[j] = b[j]
  <2>1. j - offset \notin DOMAIN block
    BY <1>1, <1>5
  <2> QED
    BY <1>3, <2>1
<1> QED
  BY <1>2, <1>4, <1>5

\* The block is written after those before it, which came after it in the file.
LEMMA WriteMoves ==
    ASSUME TypeInv, TypeInv', SerialInv, MoveInv, NEW s \in Sessions, Write(s)
    PROVE  MoveInv'
<1> DEFINE b == blob[s]
           block == buffer[s]
           off == request[s].offset
           d == done[s]
           m == Len(block)
           f == opened[s]
           n == blob'[s]
<1>1. /\ pc[s] = "write" /\ pc'[s] = IF d + m < request[s].size THEN "read" ELSE "commit"
      /\ n = Overlay(b, block, off + d) /\ off + d + m <= Len(b) /\ done'[s] = d + m
      /\ \A r \in Sessions \ {s} : pc'[r] = pc[r] /\ blob'[r] = blob[r] /\ done'[r] = done[r]
      /\ UNCHANGED <<file, data, request, buffer, opened>>
  BY DEF TypeInv, TypeOK, Write, WriteAt, GoTo, At
<1>2. KeptOK(s) /\ TailOK(s)
  BY DEF MoveInv, MoveOK
<1>3. /\ b \in Seq(Cells) /\ block \in Seq(Cells) /\ f \in Seq(Cells) /\ file \in Seq(Cells)
      /\ off \in Nat /\ d \in Nat /\ m \in Nat /\ Len(b) \in Nat /\ Len(f) \in Nat /\ Len(file) \in Nat
      /\ DOMAIN b = 1 .. Len(b) /\ DOMAIN block = 1 .. m /\ DOMAIN f = 1 .. Len(f)
  <2>1. /\ b \in Seq(Cells) /\ block \in Seq(Cells) /\ f \in Seq(Cells) /\ file \in Seq(Cells)
        /\ off \in Nat /\ d \in Nat
    BY DEF TypeInv, TypeOK
  <2> QED
    BY <2>1
<1>4. request[s].import /\ request[s].size \in Nat /\ d + m <= request[s].size
  BY <1>1 DEF TypeInv, TypeOK, CountersInv
<1>5. /\ DOMAIN n = DOMAIN b
      /\ \A i \in DOMAIN block : off + d + i \in DOMAIN b /\ n[off + d + i] = block[i]
      /\ \A j \in DOMAIN b : j <= off + d \/ j > off + d + m => n[j] = b[j]
  <2>1. off + d \in Nat /\ (off + d) + Len(block) <= Len(b)
    BY <1>1, <1>3
  <2> HIDE DEF n, b, block, off, d
  <2> QED
    BY <1>1, <1>3, <2>1, Overwritten DEF m
<1>6. /\ Written(s) = off + 1 .. off + d /\ Written(s)' = off + 1 .. off + (d + m)
      /\ Moved(s) = Len(f) - d + 1 .. Len(f) /\ Moved(s)' = Len(f) - (d + m) + 1 .. Len(f)
  BY <1>1 DEF Written, Moved
<1>7. /\ Distinct(f) /\ Len(file) + (d + m) = Len(f)
      /\ \A i \in DOMAIN file : file[i] = f[i]
      /\ \A i \in DOMAIN block : block[i] = f[Len(file) + i]
      /\ Written(s) \subseteq DOMAIN b
      /\ \A i \in Moved(s) : \E j \in Written(s) : b[j] = f[i]
      /\ \A j \in Written(s) : \E i \in Moved(s) : b[j] = f[i]
  BY <1>1, <1>2, <1>4 DEF TailOK, CutOff, At
<1>8. \A i \in DOMAIN b \ Written(s) : b[i] \in Material(data[request[s].chunkId]) \cup {Zero}
  BY <1>1, <1>2 DEF KeptOK
<1> HIDE DEF b, block, off, d, m, f, n
<1>9. \A j \in Written(s) : n[j] = b[j]
  BY <1>3, <1>5, <1>6, <1>7
<1>10. Written(s)' \subseteq DOMAIN n
  BY <1>1, <1>3, <1>5, <1>6
<1>11. ASSUME NEW i \in Moved(s)' PROVE \E j \in Written(s)' : n[j] = f[i]
  <2>1. CASE i \in Moved(s)
    <3>1. PICK j \in Written(s) : b[j] = f[i]
      BY <1>7, <2>1
    <3>2. j \in Written(s)' /\ n[j] = b[j]
      BY <1>3, <1>6, <1>9, <3>1
    <3> QED
      BY <3>1, <3>2
  <2>2. CASE i \notin Moved(s)
    <3> DEFINE q == i - Len(file)
    <3>1. q \in DOMAIN block /\ Len(file) + q = i
      BY <1>3, <1>6, <1>7, <1>11, <2>2
    <3>2. off + d + q \in Written(s)' /\ n[off + d + q] = f[i]
      BY <1>3, <1>5, <1>6, <1>7, <3>1
    <3> QED
      BY <3>2
  <2> QED
    BY <2>1, <2>2
<1>12. ASSUME NEW j \in Written(s)' PROVE \E i \in Moved(s)' : n[j] = f[i]
  <2>1. CASE j \in Written(s)
    <3>1. PICK i \in Moved(s) : b[j] = f[i]
      BY <1>7, <2>1
    <3>2. i \in Moved(s)' /\ n[j] = b[j]
      BY <1>3, <1>6, <1>9, <2>1, <3>1
    <3> QED
      BY <3>1, <3>2
  <2>2. CASE j \notin Written(s)
    <3> DEFINE q == j - (off + d)
    <3>1. q \in DOMAIN block /\ off + d + q = j
      BY <1>3, <1>6, <1>12, <2>2
    <3>2. Len(file) + q \in Moved(s)' /\ n[j] = f[Len(file) + q]
      BY <1>3, <1>5, <1>6, <1>7, <3>1
    <3> QED
      BY <3>2
  <2> QED
    BY <2>1, <2>2
<1>13. ASSUME NEW j \in DOMAIN n \ Written(s)' 
       PROVE  n[j] \in Material(data[request[s].chunkId]) \cup {Zero}
  <2>1. j \in DOMAIN b \ Written(s) /\ n[j] = b[j]
    BY <1>3, <1>5, <1>6, <1>13
  <2> QED
    BY <1>8, <2>1
<1>14. Material(block) \subseteq Material(n)
  BY <1>5 DEF Material
<1>15. KeptOK(s)'
  <2>1. buffer'[s] = block
    BY <1>1 DEF block
  <2> QED
    BY <1>1, <1>13, <1>14, <2>1 DEF KeptOK, n
<1>16. TailOK(s)'
  <2>1. pc'[s] = "commit" => done'[s] = request'[s].size
    <3>1. pc'[s] = "commit" => ~(d + m < request[s].size)
      BY <1>1
    <3>2. ~(d + m < request[s].size) => d + m = request[s].size
      BY <1>3, <1>4
    <3> QED
      BY <1>1, <3>1, <3>2
  <2>2. CutOff(s)' = d + m
    BY <1>1 DEF CutOff, At
  <2>3. opened'[s] = f
    BY <1>1 DEF f
  <2> QED
    BY <1>1, <1>7, <1>10, <1>11, <1>12, <2>1, <2>2, <2>3 DEF TailOK, At, n
<1>17. FreshOK(s)'
  BY <1>1 DEF FreshOK
<1>18. \A r \in Sessions \ {s} : MoveOK(r)'
  BY <1>1, OthersMove DEF At
<1> QED
  BY <1>15, <1>16, <1>17, <1>18 DEF MoveInv, MoveOK

\* A call that returns forgets.
LEMMA ReturnMoves ==
    ASSUME TypeInv, TypeInv', SerialInv, MoveInv, NEW s \in Sessions, Commit(s) \/ Fail(s)
    PROVE  MoveInv'
<1>1. Return(s) /\ ~At(s, "idle")
  BY DEF Commit, Fail, At
<1>2. /\ pc'[s] = "idle" /\ blob'[s] = << >> /\ buffer'[s] = << >> /\ done'[s] = 0
      /\ \A r \in Sessions \ {s} : /\ pc'[r] = pc[r] /\ blob'[r] = blob[r] 
                                   /\ buffer'[r] = buffer[r] /\ done'[r] = done[r]
  BY <1>1 DEF TypeInv, TypeOK, Return, GoTo
<1>3. MoveOK(s)'
  BY <1>2, IdleMoves
<1>4. \A r \in Sessions \ {s} : MoveOK(r)'
  BY <1>1, <1>2, OthersMove
<1> QED
  BY <1>3, <1>4 DEF MoveInv

\* Every step of calls one after the other keeps track of what is moved.
LEMMA NextMoves ==
    ASSUME ~CallsOverlap, TypeInv, TypeInv', SerialInv, MoveInv, [Next]_vars
    PROVE  MoveInv'
<1>1. ASSUME NEW s \in Sessions,
             \/ \E c \in ChunkIds, offset \in Offsets, n \in Sizes : ImportChunk(s, c, offset, n)
             \/ \E c \in ChunkIds, n \in Sizes : PrepareChunk(s, c, n)
      PROVE  MoveInv'
  BY <1>1, CallMoves
<1>2. ASSUME NEW s \in Sessions,
             \/ Begin(s) \/ ZeroBlob(s) \/ Read(s) \/ Truncate(s) \/ Write(s)
             \/ Commit(s) \/ Fail(s)
      PROVE  MoveInv'
  BY <1>2, BeginMoves, ZeroBlobMoves, ReadMoves, TruncateMoves, WriteMoves, ReturnMoves
<1>3. CASE Crash
  <2>1. \A s \in Sessions : /\ pc'[s] = "idle" /\ blob'[s] = << >> 
                            /\ buffer'[s] = << >> /\ done'[s] = 0
    BY <1>3 DEF Crash
  <2> QED
    BY <2>1, IdleMoves DEF MoveInv
<1>4. CASE UNCHANGED vars
  BY <1>4 DEF MoveInv, MoveOK, FreshOK, KeptOK, TailOK, Written, Moved, CutOff, At, vars
<1> QED
  BY <1>1, <1>2, <1>3, <1>4 DEF Next

\* Nothing is moved yet.
LEMMA InitMoves == Init => MoveInv
BY DEF Init, MoveInv, MoveOK, FreshOK, KeptOK, TailOK, At

\* What calls one after the other keep.
LEMMA MoveHolds ==
    ASSUME ~CallsOverlap
    PROVE  Spec => [](TypeInv /\ SerialInv /\ MoveInv)
<1>1. TypeInv /\ TypeInv' /\ SerialInv /\ MoveInv /\ [Next]_vars => SerialInv' /\ MoveInv'
  BY NextSerial, NextMoves
<1> QED
  BY <1>1, InitSerial, InitMoves, TypeHolds, PTL DEF Spec

\* The n cells of a sequence after its first m.
LEMMA Part ==
    ASSUME NEW f \in Seq(Cells), NEW m \in Nat, NEW n \in Nat
    PROVE  /\ DOMAIN SubSeq(f, m + 1, m + n) = 1 .. n
           /\ \A i \in 1 .. n : SubSeq(f, m + 1, m + n)[i] = f[m + i]
<1> DEFINE S == {f[i] : i \in m + 1 .. m + n}
           part == SubSeq(f, m + 1, m + n)
<1>1. m + 1 \in Int /\ m + n \in Int /\ \A i \in m + 1 .. m + n : f[i] \in S
  OBVIOUS
<1>2. /\ part \in Seq(S) 
      /\ Len(part) = IF m + 1 <= m + n THEN (m + n) - (m + 1) + 1 ELSE 0
      /\ \A i \in 1 .. (m + n) - (m + 1) + 1 : part[i] = f[(m + 1) + i - 1]
  BY <1>1, SubSeqProperties
<1>3. Len(part) = n
  BY <1>2
<1>4. 1 .. (m + n) - (m + 1) + 1 = 1 .. n /\ \A i \in 1 .. n : (m + 1) + i - 1 = m + i
  OBVIOUS
<1> HIDE DEF part, S
<1>5. DOMAIN part = 1 .. n
  BY <1>2, <1>3
<1>6. \A i \in 1 .. n : part[i] = f[m + i]
  BY <1>2, <1>4
<1> QED
  BY <1>5, <1>6 DEF part

\* An import that is about to commit has moved just the tail of the file.
LEMMA TailMoved ==
    ASSUME TypeOK, NEW s \in Sessions, MoveOK(s), At(s, "commit"), request[s].import
    PROVE  LET r == request[s] IN
           /\ Material(opened[s]) \ Material(file) 
                = Material(SubSeq(blob[s], r.offset + 1, r.offset + r.size))
           /\ file = SubSeq(opened[s], 1, Len(opened[s]) - r.size)
<1> DEFINE f == opened[s]
           b == blob[s]
           off == request[s].offset
           n == request[s].size
           part == SubSeq(b, off + 1, off + n)
<1>1. /\ f \in Seq(Cells) /\ b \in Seq(Cells) /\ file \in Seq(Cells) /\ off \in Nat /\ n \in Nat
  BY DEF TypeOK
<1>2. /\ Len(f) \in Nat /\ Len(file) \in Nat /\ DOMAIN f = 1 .. Len(f) 
      /\ DOMAIN file = 1 .. Len(file)
  BY <1>1
<1>3. /\ Distinct(f) /\ Len(file) + n = Len(f)
      /\ \A i \in DOMAIN file : file[i] = f[i]
      /\ \A i \in Len(f) - n + 1 .. Len(f) : \E j \in off + 1 .. off + n : b[j] = f[i]
      /\ \A j \in off + 1 .. off + n : \E i \in Len(f) - n + 1 .. Len(f) : b[j] = f[i]
  <2>1. TailOK(s) /\ pc[s] = "commit"
    BY DEF MoveOK, At
  <2>2. done[s] = n
    BY <2>1 DEF TailOK, At
  <2> QED
    BY <2>1, <2>2 DEF TailOK, CutOff, Written, Moved, At
<1> HIDE DEF f, b, off, n
<1>4. DOMAIN part = 1 .. n /\ \A i \in 1 .. n : part[i] = b[off + i]
  BY <1>1, Part
<1> HIDE DEF part
<1>5. file = SubSeq(f, 1, Len(f) - n)
  <2> DEFINE m == Len(file)
             g == SubSeq(f, 1, m)
  <2>1. m = Len(f) - n /\ m \in Nat /\ m <= Len(f)
    <3>1. m + n = Len(f) /\ m \in Nat /\ n \in Nat
      BY <1>1, <1>2, <1>3
    <3> HIDE DEF m
    <3> QED
      BY <3>1
  <2>2. \A i \in 1 .. m : f[i] \in Cells
    BY <1>1, <1>2, <2>1
  <2>3. /\ g \in Seq(Cells) /\ Len(g) = IF 1 <= m THEN m - 1 + 1 ELSE 0
        /\ \A i \in 1 .. m - 1 + 1 : g[i] = f[1 + i - 1]
    BY <2>1, <2>2, SubSeqProperties
  <2> HIDE DEF g
  <2>4. Len(g) = m /\ \A i \in 1 .. m : g[i] = f[i]
    BY <2>1, <2>3
  <2>5. \A i \in 1 .. m : file[i] = g[i]
    BY <1>2, <1>3, <2>4
  <2>6. file = g
    BY <1>1, <2>3, <2>4, <2>5, SeqEqual
  <2> QED
    BY <2>1, <2>6 DEF g
<1>6. ASSUME NEW u \in Material(f) \ Material(file)
      PROVE  u \in Material(part)
  <2>1. PICK i \in DOMAIN f : u = f[i]
    BY <1>6 DEF Material
  <2>2. u # Zero /\ i \notin DOMAIN file
    BY <1>3, <1>6, <2>1 DEF Material
  <2>3. i \in Len(f) - n + 1 .. Len(f)
    BY <1>1, <1>2, <1>3, <2>2
  <2>4. PICK j \in off + 1 .. off + n : b[j] = u
    BY <1>3, <2>1, <2>3
  <2>5. j - off \in 1 .. n /\ off + (j - off) = j
    BY <1>1, <2>4
  <2>6. part[j - off] = u
    BY <1>4, <2>4, <2>5
  <2> QED
    BY <1>4, <2>2, <2>5, <2>6 DEF Material
<1>7. ASSUME NEW u \in Material(part)
      PROVE  u \in Material(f) \ Material(file)
  <2>1. PICK k \in 1 .. n : u = b[off + k] /\ u # Zero
    BY <1>4, <1>7 DEF Material
  <2>2. off + k \in off + 1 .. off + n
    BY <1>1, <2>1
  <2>3. PICK i \in Len(f) - n + 1 .. Len(f) : u = f[i]
    BY <1>3, <2>1, <2>2
  <2>4. i \in DOMAIN f /\ i \notin DOMAIN file /\ DOMAIN file \subseteq DOMAIN f
    BY <1>1, <1>2, <1>3, <2>3
  <2>5. ASSUME NEW j \in DOMAIN file, file[j] = u
        PROVE  FALSE
    BY <1>3, <2>1, <2>3, <2>4, <2>5 DEF Distinct
  <2> QED
    BY <2>1, <2>3, <2>4, <2>5 DEF Material
<1>8. Material(f) \ Material(file) = Material(part)
  BY <1>6, <1>7
<1> QED
  BY <1>5, <1>8 DEF f, b, off, n, part

\* Calls one after the other move the whole tail of the file they opened, block by
\* block, into the place they were asked for.
THEOREM TailCorrect ==
    ASSUME ~CallsOverlap
    PROVE  Spec => []ImportMovesTail
<1>1. TypeInv /\ MoveInv => ImportMovesTail
  BY TailMoved DEF TypeInv, MoveInv, ImportMovesTail
<1> QED
  BY <1>1, MoveHolds, PTL

-----------------------------------------------------------------------------
(* What is lost.                                                           *)

\* Nothing is lost by a step that leaves the keyset as it is, and whose session has
\* afterwards what it had, or what the file had.
LEMMA NothingLost ==
    ASSUME NEW s \in Sessions, UNCHANGED data,
           \A r \in Sessions \ {s} : blob'[r] = blob[r] /\ buffer'[r] = buffer[r],
           Material(file) \subseteq Held', Moving(s) \subseteq Held'
    PROVE  Held \subseteq Held'
<1>1. \A r \in Sessions \ {s} : Moving(r)' = Moving(r)
  BY DEF Moving
<1>2. \A r \in Sessions \ {s} : Moving(r) \subseteq Held'
  BY <1>1 DEF Held
<1>3. UNION {Material(data[c]) : c \in ChunkIds} \subseteq Held'
  BY DEF Held, Stored
<1>4. UNION {Moving(r) : r \in Sessions} \subseteq Held'
  BY <1>2
<1> QED
  BY <1>3, <1>4 DEF Held, Stored

\* What a step puts where it is found.
LEMMA HeldBy ==
    /\ Material(file)' \subseteq Held'
    /\ \A s \in Sessions : /\ Material(blob[s])' \subseteq Held' 
                           /\ Material(buffer[s])' \subseteq Held'
    /\ \A c \in ChunkIds : Material(data[c])' \subseteq Held'
BY DEF Held, Stored, Moving

\* No step of a call that goes on loses anything.
LEMMA StepKeeps ==
    ASSUME TypeInv, SerialInv, MoveInv, NEW s \in Sessions,
           ZeroBlob(s) \/ Read(s) \/ Truncate(s) \/ Write(s)
    PROVE  Held \subseteq Held'
<1>1. KeptOK(s) /\ FreshOK(s)
  BY DEF MoveInv, MoveOK
<1>2. UNCHANGED data /\ \A r \in Sessions \ {s} : blob'[r] = blob[r] /\ buffer'[r] = buffer[r]
  BY DEF TypeInv, TypeOK, ZeroBlob, Read, Truncate, Write
<1>3. CASE ZeroBlob(s)
  <2>1. blob[s] = << >> /\ UNCHANGED <<file, buffer>>
    BY <1>1, <1>3 DEF FreshOK, ZeroBlob, At
  <2>2. Moving(s) \subseteq Material(buffer[s])'
    BY <2>1 DEF Moving, Material
  <2>3. Material(file) = Material(file)'
    BY <2>1
  <2> QED
    BY <1>2, <2>2, <2>3, HeldBy, NothingLost
<1>4. CASE Read(s)
  <2>1. Material(buffer[s]) \subseteq Material(blob[s]) /\ UNCHANGED <<file, blob>>
    BY <1>1, <1>4 DEF KeptOK, Read, At
  <2>2. Moving(s) \subseteq Material(blob[s])' /\ Material(file) = Material(file)'
    BY <2>1 DEF Moving
  <2> QED
    BY <1>2, <2>2, HeldBy, NothingLost
<1>5. CASE Truncate(s)
  <2>1. /\ file' = Resize(file, endOffset[s]) /\ UNCHANGED <<blob, buffer>> 
        /\ Len(file) = endOffset[s] + Len(buffer[s])
        /\ \A i \in DOMAIN buffer[s] : buffer[s][i] = file[endOffset[s] + i]
    BY <1>5 DEF SerialInv, EndInv, Truncate, TruncateAt
  <2>2. file \in Seq(Cells) /\ buffer[s] \in Seq(Cells) /\ endOffset[s] \in Nat
    BY DEF TypeInv, TypeOK
  <2>3. /\ DOMAIN file = 1 .. Len(file) /\ DOMAIN buffer[s] = 1 .. Len(buffer[s])
        /\ Len(file) \in Nat /\ Len(buffer[s]) \in Nat
    BY <2>2
  <2>4. DOMAIN file' = 1 .. endOffset[s] /\ \A i \in 1 .. endOffset[s] : file'[i] = file[i]
    <3>1. endOffset[s] <= Len(file)
      BY <2>1, <2>2, <2>3
    <3> QED
      BY <2>1, <2>2, <3>1, Resized
  <2>5. ASSUME NEW i \in DOMAIN file
        PROVE  \/ i \in DOMAIN file' /\ file'[i] = file[i]
               \/ \E j \in DOMAIN buffer[s] : buffer[s][j] = file[i]
    <3>1. CASE i <= endOffset[s]
      BY <2>2, <2>3, <2>4, <3>1
    <3>2. CASE i > endOffset[s]
      <4>1. i - endOffset[s] \in DOMAIN buffer[s] /\ endOffset[s] + (i - endOffset[s]) = i
        BY <2>1, <2>2, <2>3, <3>2
      <4> QED
        BY <2>1, <4>1
    <3> QED
      BY <2>2, <2>3, <3>1, <3>2
  <2>6. Material(file) \subseteq Material(file') \cup Material(buffer[s])
    BY <2>5 DEF Material
  <2>7. Moving(s) = Material(blob[s])' \cup Material(buffer[s])'
    BY <2>1 DEF Moving
  <2>8. Material(buffer[s])' = Material(buffer[s]) /\ Material(file)' = Material(file')
    BY <2>1
  <2> QED
    BY <1>2, <2>6, <2>7, <2>8, HeldBy, NothingLost
<1>6. CASE Write(s)
  <2> DEFINE b == blob[s]
             n == blob'[s]
             off == request[s].offset
             c == request[s].chunkId
  <2>1. /\ n = Overlay(b, buffer[s], off + done[s]) /\ off + done[s] + Len(buffer[s]) <= Len(b)
        /\ UNCHANGED <<file, buffer>>
    BY <1>6 DEF TypeInv, TypeOK, Write, WriteAt
  <2>2. /\ b \in Seq(Cells) /\ buffer[s] \in Seq(Cells) /\ off \in Nat /\ done[s] \in Nat 
        /\ c \in ChunkIds
    BY <1>6 DEF TypeInv, TypeOK, CountersInv, Write, At
  <2>3. /\ DOMAIN n = DOMAIN b 
        /\ \A j \in DOMAIN b : j <= off + done[s] => n[j] = b[j]
    <3>1. off + done[s] \in Nat
      BY <2>2
    <3> HIDE DEF n, b, off
    <3> QED
      BY <2>1, <2>2, <3>1, Overwritten
  <2>4. \A j \in DOMAIN b : j \in Written(s) => j <= off + done[s]
    BY <2>2 DEF Written
  <2>5. \A j \in DOMAIN b : j \in Written(s) \/ b[j] \in Material(data[c]) \cup {Zero}
    BY <1>1, <1>6 DEF KeptOK, Write, At
  <2>6. Material(b) \subseteq Material(n) \cup Material(data[c])
    <3> HIDE DEF n, b, c
    <3> QED
      BY <2>3, <2>4, <2>5 DEF Material
  <2>7. /\ Material(n) = Material(blob[s])' /\ Material(data[c]) \subseteq Held'
    BY <1>2, <2>2 DEF Held, Stored
  <2>8. Material(b) \subseteq Held' /\ Material(buffer[s]) \subseteq Held'
    BY <2>1, <2>6, <2>7, HeldBy
  <2>9. Moving(s) \subseteq Held' /\ Material(file) \subseteq Held'
    BY <2>1, <2>8, HeldBy DEF Moving
  <2> QED
    BY <1>2, <2>9, NothingLost
<1> QED
  BY <1>3, <1>4, <1>5, <1>6

\* A commit loses what was in the chunk it replaces.
LEMMA CommitLoses ==
    ASSUME TypeInv, MoveInv, NEW s \in Sessions, Commit(s), NEW u \in Held \ Held'
    PROVE  u \in Material(data[request[s].chunkId]) 
<1> DEFINE c == request[s].chunkId
<1>1. /\ pc[s] = "commit" /\ c \in ChunkIds /\ file' = file
      /\ data' = [data EXCEPT ![c] = blob[s]]
      /\ \A r \in Sessions \ {s} : blob'[r] = blob[r] /\ buffer'[r] = buffer[r]
  BY DEF TypeInv, TypeOK, CountersInv, Commit, Return, At
<1>2. data'[c] = blob[s] /\ \A d \in ChunkIds \ {c} : data'[d] = data[d]
  BY <1>1 DEF TypeInv, TypeOK
<1>3. Moving(s) = Material(blob[s])
  BY <1>1 DEF MoveInv, MoveOK, KeptOK, Moving
<1>4. \A r \in Sessions \ {s} : Moving(r)' = Moving(r)
  BY <1>1 DEF Moving
<1> HIDE DEF c
<1>5. Moving(s) \subseteq Held'
  BY <1>1, <1>2, <1>3 DEF Held, Stored
<1>6. \A r \in Sessions : Moving(r) \subseteq Held'
  BY <1>4, <1>5 DEF Held
<1>7. \A d \in ChunkIds \ {c} : Material(data[d]) \subseteq Held'
  BY <1>2 DEF Held, Stored
<1>8. Material(file) \subseteq Held'
  BY <1>1 DEF Held, Stored
<1>9. u \in Material(data[c])
  BY <1>6, <1>7, <1>8 DEF Held, Stored
<1> QED
  BY <1>9 DEF c

\* A call that fails loses what it held.
LEMMA FailLoses ==
    ASSUME TypeInv, NEW s \in Sessions, Fail(s), NEW u \in Held \ Held'
    PROVE  u \in Moving(s)
<1>1. /\ UNCHANGED <<file, data>>
      /\ \A r \in Sessions \ {s} : blob'[r] = blob[r] /\ buffer'[r] = buffer[r]
  BY DEF TypeInv, TypeOK, Fail, Return
<1>2. \A r \in Sessions \ {s} : Moving(r)' = Moving(r)
  BY <1>1 DEF Moving
<1>3. Stored' = Stored
  BY <1>1 DEF Stored
<1> QED
  BY <1>2, <1>3 DEF Held

\* Key material is lost with the call that held it, or with the chunk that a 
\* commit replaces, and never otherwise.
THEOREM LossCorrect ==
    ASSUME ~CallsOverlap
    PROVE  Spec => LosesOnlyByFailure
<1> DEFINE Excused(u) == 
              \E s \in Sessions :
                 /\ ~At(s, "idle") /\ At(s, "idle")'
                 /\ \/ u \in Moving(s) /\ UNCHANGED data
                    \/ u \in Material(data[request[s].chunkId]) /\ At(s, "commit")
<1>1. ASSUME TypeInv, SerialInv, MoveInv, Next
      PROVE  \A u \in Held \ Held' : Excused(u)
  <2>1. CASE \E s \in Sessions :
               \/ \E c \in ChunkIds, offset \in Offsets, n \in Sizes : ImportChunk(s, c, offset, n)
               \/ \E c \in ChunkIds, n \in Sizes : PrepareChunk(s, c, n)
               \/ Begin(s)
    <3>1. UNCHANGED <<file, data, blob, buffer>>
      BY <2>1 DEF ImportChunk, PrepareChunk, Begin, Call
    <3>2. Held' = Held
      BY <3>1 DEF Held, Stored, Moving
    <3> QED
      BY <3>2
  <2>2. CASE \E s \in Sessions : ZeroBlob(s) \/ Read(s) \/ Truncate(s) \/ Write(s)
    BY <1>1, <2>2, StepKeeps
  <2>3. ASSUME NEW s \in Sessions, Commit(s), NEW u \in Held \ Held' PROVE Excused(u)
    <3>1. At(s, "commit") /\ ~At(s, "idle") /\ At(s, "idle")'
      BY <1>1, <2>3 DEF Commit, Return, GoTo, At, TypeInv, TypeOK
    <3>2. u \in Material(data[request[s].chunkId])
      BY <1>1, <2>3, CommitLoses
    <3> QED
      BY <3>1, <3>2
  <2>4. ASSUME NEW s \in Sessions, Fail(s), NEW u \in Held \ Held' PROVE Excused(u)
    <3>1. ~At(s, "idle") /\ At(s, "idle")' /\ UNCHANGED data
      BY <1>1, <2>4 DEF Fail, Return, GoTo, At, TypeInv, TypeOK
    <3>2. u \in Moving(s)
      BY <1>1, <2>4, FailLoses
    <3> QED
      BY <3>1, <3>2
  <2>5. ASSUME Crash, NEW u \in Held \ Held' PROVE Excused(u)
    <3>1. UNCHANGED <<file, data>> /\ \A s \in Sessions : At(s, "idle")'
      BY <2>5 DEF Crash, At
    <3>2. Stored' = Stored
      BY <3>1 DEF Stored
    <3>3. PICK s \in Sessions : u \in Moving(s)
      BY <2>5, <3>2 DEF Held
    <3>4. ~At(s, "idle")
      BY <1>1, <3>3 DEF MoveInv, MoveOK, FreshOK, Moving, Material, At
    <3> QED
      BY <3>1, <3>3, <3>4
  <2> QED
    BY <1>1, <2>1, <2>2, <2>3, <2>4, <2>5 DEF Next
<1>2. TypeInv /\ SerialInv /\ MoveInv /\ [Next]_vars => [\A u \in Held \ Held' : Excused(u)]_vars
  BY <1>1
<1> QED
  BY <1>2, MoveHolds, PTL DEF Spec, LosesOnlyByFailure

=============================================================================
