----------------------------- MODULE ImportChunk -----------------------------
(***************************************************************************)
(* Importing key material: ACK_ImportChunk moves the tail of a source file *)
(* into a chunk of the keyset, block by block, and cuts what it has read   *)
(* off the file; ACK_PrepareChunk only makes the chunk long enough.  Both  *)
(* work on a database connection of their own inside of an exclusive       *)
(* transaction; neither takes the session's mutex.                         *)
(*                                                                         *)
(* The source file is outside of the transaction: what is cut off is gone, *)
(* whatever becomes of the chunk.                                          *)
(*                                                                         *)
(* A byte of key material is a number, its place in the first source file; *)
(* zero is a byte of zeroblob() or of a file that was extended.            *)
(***************************************************************************)
EXTENDS Integers, Sequences, FiniteSets

CONSTANTS
    Sessions,       \* the calls' ACK_SESSION handles
    ChunkIds,       \* the rows of the table Chunks
    SourceSize,     \* the length of the source file
    Sizes,          \* the size arguments callers use
    Offsets,        \* the offset arguments callers use
    MaxReadSize,    \* ACK_MAXIMUM_READ_SIZE
    CallsOverlap,   \* may calls run at the same time?
    NoSession

ASSUME ImportAssumption ==
    /\ SourceSize \in Nat
    /\ Sizes \subseteq Nat \ {0}
    /\ Offsets \subseteq Nat
    /\ MaxReadSize \in Nat \ {0}
    /\ CallsOverlap \in BOOLEAN
    /\ NoSession \notin Sessions

Zero == 0
Units == 1 .. SourceSize
Cells == Units \cup {Zero}

VARIABLES
    file,       \* the source file
    data,       \* Chunks.Data of each row; << >> stands for NULL
    writer,     \* the session whose transaction is open
    pc,         \* the next step of each session's call
    request,    \* its arguments
    endOffset,  \* where its source file ends, as far as the call knows
    blob,       \* the chunk as its transaction sees it
    buffer,     \* the block it has read
    done,       \* how many of the bytes are moved
    opened      \* history: the source file when the call opened it

vars == <<file, data, writer, pc, request, endOffset, blob, buffer, done, opened>>

NoRequest == [import |-> FALSE, chunkId |-> 0, offset |-> 0, size |-> 0]

Steps == {"idle", "begin", "zero", "read", "truncate", "write", "commit"}

\* What the code asserts and relies on of its counters is part of the types:
\* endOffset is not negative, size - done does not wrap.
TypeOK ==
    /\ file \in Seq(Cells)
    /\ data \in [ChunkIds -> Seq(Cells)]
    /\ writer \in Sessions \cup {NoSession}
    /\ pc \in [Sessions -> Steps]
    /\ request \in [Sessions -> [import : BOOLEAN, chunkId : ChunkIds \cup {0}, 
                                 offset : Nat, size : Nat]]
    /\ endOffset \in [Sessions -> Nat]
    /\ blob \in [Sessions -> Seq(Cells)]
    /\ buffer \in [Sessions -> Seq(Cells)]
    /\ done \in [Sessions -> Nat]
    /\ \A s \in Sessions : done[s] <= request[s].size
    /\ opened \in [Sessions -> Seq(Cells)]

Init ==
    /\ file = [i \in 1 .. SourceSize |-> i]
    /\ data = [c \in ChunkIds |-> << >>]
    /\ writer = NoSession
    /\ pc = [s \in Sessions |-> "idle"]
    /\ request = [s \in Sessions |-> NoRequest]
    /\ endOffset = [s \in Sessions |-> 0]
    /\ blob = [s \in Sessions |-> << >>]
    /\ buffer = [s \in Sessions |-> << >>]
    /\ done = [s \in Sessions |-> 0]
    /\ opened = [s \in Sessions |-> << >>]

-----------------------------------------------------------------------------

\* The first n cells of a file, which is extended with zeros if it is shorter.
Resize(f, n) == [i \in 1 .. n |-> IF i \in DOMAIN f THEN f[i] ELSE Zero]

\* b with the block written over it from offset on.
Overlay(b, block, offset) ==
    [i \in 1 .. Len(b) |-> 
        IF i - offset \in DOMAIN block THEN block[i - offset] ELSE b[i]]

Zeros(n) == [i \in 1 .. n |-> Zero]

\* zeroblob(size) where Data is NULL or shorter than size.
Zeroed(d, size) == IF Len(d) < size THEN Zeros(size) ELSE d

\* The last n cells of the file.
LastCells(f, n) == [i \in 1 .. n |-> f[Len(f) - n + i]]

-----------------------------------------------------------------------------

At(s, step) == pc[s] = step

GoTo(s, step) == pc' = [pc EXCEPT ![s] = step]

MayCall(s) ==
    /\ At(s, "idle")
    /\ ~CallsOverlap => \A r \in Sessions : At(r, "idle")

Call(s, import, c, offset, size) ==
    /\ MayCall(s)
    /\ request' = [request EXCEPT ![s] = [import |-> import, chunkId |-> c, 
                                          offset |-> offset, size |-> size]]
    /\ GoTo(s, "begin")
    /\ UNCHANGED <<file, data, writer, blob, buffer, done>>

\* The end of the file is measured here, before the transaction begins.
ImportChunk(s, c, offset, size) ==
    /\ Call(s, TRUE, c, offset, size)
    /\ Len(file) >= size
    /\ endOffset' = [endOffset EXCEPT ![s] = Len(file)]
    /\ opened' = [opened EXCEPT ![s] = file]

PrepareChunk(s, c, size) ==
    /\ Call(s, FALSE, c, 0, size)
    /\ UNCHANGED <<endOffset, opened>>

Begin(s) ==
    /\ At(s, "begin")
    /\ writer = NoSession
    /\ writer' = s
    /\ GoTo(s, "zero")
    /\ UNCHANGED <<file, data, request, endOffset, blob, buffer, done, opened>>

ZeroBlob(s) ==
    /\ At(s, "zero")
    /\ blob' = [blob EXCEPT ![s] = Zeroed(data[request[s].chunkId], request[s].size)]
    /\ GoTo(s, IF request[s].import THEN "read" ELSE "commit")
    /\ UNCHANGED <<file, data, writer, request, endOffset, buffer, done, opened>>

Left(s) == request[s].size - done[s]

\* Mutant of ReadSize: the last block is as long as the others.
ReadWholeBlock(s) == MaxReadSize

ReadSize(s) == IF Left(s) < MaxReadSize THEN Left(s) ELSE MaxReadSize

Read(s) ==
    /\ At(s, "read")
    /\ Len(file) >= ReadSize(s)
    /\ buffer' = [buffer EXCEPT ![s] = LastCells(file, ReadSize(s))]
    /\ endOffset' = [endOffset EXCEPT ![s] = @ - ReadSize(s)]
    /\ GoTo(s, "truncate")
    /\ UNCHANGED <<file, data, writer, request, blob, done, opened>>

\* Mutant of TruncateAt: the file is cut to where it ended when it was opened.
TruncateToOpened(s) == Len(opened[s])

TruncateAt(s) == endOffset[s]

Truncate(s) ==
    /\ At(s, "truncate")
    /\ file' = Resize(file, TruncateAt(s))
    /\ GoTo(s, "write")
    /\ UNCHANGED <<data, writer, request, endOffset, blob, buffer, done, opened>>

\* Mutant of WriteAt: every block is written to the start of the range.
WriteAtStart(s) == request[s].offset

WriteAt(s) == request[s].offset + done[s]

\* sqlite3_blob_write does not extend the blob: it fails beyond its end.
Write(s) ==
    /\ At(s, "write")
    /\ WriteAt(s) + Len(buffer[s]) <= Len(blob[s])
    /\ blob' = [blob EXCEPT ![s] = Overlay(@, buffer[s], WriteAt(s))]
    /\ done' = [done EXCEPT ![s] = @ + Len(buffer[s])]
    /\ GoTo(s, IF done'[s] < request[s].size THEN "read" ELSE "commit")
    /\ UNCHANGED <<file, data, writer, request, endOffset, buffer, opened>>

Return(s) ==
    /\ GoTo(s, "idle")
    /\ request' = [request EXCEPT ![s] = NoRequest]
    /\ endOffset' = [endOffset EXCEPT ![s] = 0]
    /\ blob' = [blob EXCEPT ![s] = << >>]
    /\ buffer' = [buffer EXCEPT ![s] = << >>]
    /\ done' = [done EXCEPT ![s] = 0]
    /\ opened' = [opened EXCEPT ![s] = << >>]

Commit(s) ==
    /\ At(s, "commit")
    /\ data' = [data EXCEPT ![request[s].chunkId] = blob[s]]
    /\ writer' = NoSession
    /\ Return(s)
    /\ UNCHANGED file

\* A step fails: the database is busy, a file or database operation reports 
\* an error, the block lies beyond the end of the chunk.  The transaction is 
\* rolled back; the file stays as it is.
Fail(s) ==
    /\ ~At(s, "idle")
    /\ writer' = IF writer = s THEN NoSession ELSE writer
    /\ Return(s)
    /\ UNCHANGED <<file, data>>

\* The process dies.
Crash ==
    /\ \E s \in Sessions : ~At(s, "idle")
    /\ pc' = [s \in Sessions |-> "idle"]
    /\ request' = [s \in Sessions |-> NoRequest]
    /\ endOffset' = [s \in Sessions |-> 0]
    /\ blob' = [s \in Sessions |-> << >>]
    /\ buffer' = [s \in Sessions |-> << >>]
    /\ done' = [s \in Sessions |-> 0]
    /\ opened' = [s \in Sessions |-> << >>]
    /\ writer' = NoSession
    /\ UNCHANGED <<file, data>>

Next ==
    \/ \E s \in Sessions :
        \/ \E c \in ChunkIds, offset \in Offsets, size \in Sizes : 
                ImportChunk(s, c, offset, size)
        \/ \E c \in ChunkIds, size \in Sizes : PrepareChunk(s, c, size)
        \/ Begin(s)
        \/ ZeroBlob(s)
        \/ Read(s)
        \/ Truncate(s)
        \/ Write(s)
        \/ Commit(s)
        \/ Fail(s)
    \/ Crash

Spec == Init /\ [][Next]_vars

-----------------------------------------------------------------------------

\* No byte of key material is twice in f.
Distinct(f) == \A i, j \in DOMAIN f : f[i] = f[j] /\ f[i] # Zero => i = j

\* No byte of key material is both in f and in g.
Apart(f, g) == \A i \in DOMAIN f, j \in DOMAIN g : f[i] = g[j] => f[i] = Zero

\* Importing is single-use: no byte of the source file is in two places of 
\* the keyset, or both in the keyset and still in the file, whatever step 
\* fails and whenever the process dies.
SingleUse ==
    /\ Distinct(file)
    /\ \A c \in ChunkIds : Distinct(data[c]) /\ Apart(file, data[c])
    /\ \A c, d \in ChunkIds : c # d => Apart(data[c], data[d])

Material(f) == {f[i] : i \in DOMAIN f} \ {Zero}

\* An import that is about to commit has moved the last bytes of the file it 
\* opened, all of them, to the place it was asked for, and nothing else left 
\* the file.  (Their blocks are in the reverse order.)
ImportMovesTail ==
    \A s \in Sessions : At(s, "commit") /\ request[s].import =>
        LET r == request[s] IN
        /\ Material(opened[s]) \ Material(file) 
             = Material(SubSeq(blob[s], r.offset + 1, r.offset + r.size))
        /\ file = SubSeq(opened[s], 1, Len(opened[s]) - r.size)

\* Where key material is: in the file, in the keyset, in the call of s.
Moving(s) == Material(blob[s]) \cup Material(buffer[s])

Stored == Material(file) \cup UNION {Material(data[c]) : c \in ChunkIds}

Held == Stored \cup UNION {Moving(s) : s \in Sessions}

\* A byte of key material is lost only when a call ends: one that held it and 
\* failed, or whose process died, or one that commits over a chunk the byte 
\* was in.  No step of a call that goes on loses any.
LosesOnlyByFailure ==
    [][\A u \in Held \ Held' : \E s \in Sessions :
        /\ ~At(s, "idle") /\ At(s, "idle")'
        /\ \/ u \in Moving(s) /\ UNCHANGED data
           \/ u \in Material(data[request[s].chunkId]) /\ At(s, "commit")]_vars

=============================================================================
