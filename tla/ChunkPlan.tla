------------------------------ MODULE ChunkPlan ------------------------------
(***************************************************************************)
(* planChunkRange: the walk that splits a request for size bytes, from     *)
(* byte chunkOffset of chunk chunkId on, into the pieces that lie in one   *)
(* chunk each.  Every step is one turn of its loop.  getKeyBytes reads the *)
(* pieces in this order, and records the walk's last position as the one   *)
(* the key's next bytes start at.                                          *)
(***************************************************************************)
EXTENDS ChunkMap, Sequences

CONSTANTS
    ChunkIds, Offsets, Sizes,   \* the requests planned
    MaxChunkCount               \* MAX_CHUNK_COUNT

ASSUME ChunkPlanAssumption == 
    /\ ChunkIds \subseteq Nat
    /\ Offsets \subseteq Nat
    /\ Sizes \subseteq Nat \ {0}
    /\ MaxChunkCount \in Nat \ {0}

VARIABLES
    chunkId, chunkOffset, size,     \* the arguments
    currentChunkId, currentChunkOffset, remaining, capacity,
    entries,                        \* pPlan->entries
    result                          \* "none" until the walk ends

args == <<chunkId, chunkOffset, size>>
vars == <<args, currentChunkId, currentChunkOffset, remaining, capacity, entries, result>>

Entry == [chunkId : Nat, chunkOffset : Nat, length : Nat]

Results == {"none", "S_OK", "OFFSET_OVERFLOW", "SIZE_OVERFLOW", "SIZE_OVERFLOW_IN_LOOP"}

TypeOK == 
    /\ chunkId \in Nat /\ chunkOffset \in Nat /\ size \in Nat \ {0}
    /\ currentChunkId \in Nat /\ currentChunkOffset \in Nat /\ remaining \in Nat
    /\ capacity \in Nat
    /\ entries \in Seq(Entry)
    /\ result \in Results

Init == 
    /\ chunkId \in ChunkIds /\ chunkOffset \in Offsets /\ size \in Sizes
    /\ currentChunkId = chunkId
    /\ currentChunkOffset = chunkOffset
    /\ remaining = size
    /\ capacity = 0
    /\ entries = <<>>
    /\ result = "none"

-----------------------------------------------------------------------------

\* Mutant of Needed: the chunk the spillover only starts is forgotten.
NeededWholeChunks == 
    LET spillover == size - (ChunkSize - chunkOffset)
    IN  IF spillover <= 0 THEN 1 ELSE 1 + spillover \div ChunkSize

\* Mutant of Needed: the spillover is rounded up even if it fills its chunks.
NeededRoundedUp == 
    LET spillover == size - (ChunkSize - chunkOffset)
    IN  IF spillover <= 0 THEN 1 ELSE 2 + spillover \div ChunkSize

\* The chunks a request needs: the first, those its spillover fills, and one
\* that the spillover starts.
Needed == 
    LET room == ChunkSize - chunkOffset
        spillover == size - room
    IN  IF spillover <= 0 THEN 1
        ELSE 1 + spillover \div ChunkSize + (IF spillover % ChunkSize = 0 THEN 0 ELSE 1)

\* The checks before the loop, and the allocation, with a spare entry.
Allocate == 
    /\ capacity = 0 /\ result = "none"
    /\ IF ChunkSize = 0 
       THEN capacity' = 1 /\ UNCHANGED result
       ELSE IF chunkOffset > ChunkSize
       THEN result' = "OFFSET_OVERFLOW" /\ UNCHANGED capacity
       ELSE IF Needed + 1 > MaxChunkCount
       THEN result' = "SIZE_OVERFLOW" /\ UNCHANGED capacity
       ELSE capacity' = Needed + 1 /\ UNCHANGED result
    /\ UNCHANGED <<args, currentChunkId, currentChunkOffset, remaining, entries>>

\* Mutants of Take: all the chunk has left; all the request has left.
TakeRoom == IF ChunkSize = 0 THEN remaining ELSE ChunkSize - currentChunkOffset
TakeRemaining == remaining

\* What the chunk the walk is in has for the request.
Take == 
    LET room == ChunkSize - currentChunkOffset 
    IN  IF ChunkSize # 0 /\ remaining > room THEN room ELSE remaining

\* Mutant of ChunkFull: a chunk read up to its end is not left.
ChunkOverrun(o) == ChunkSize # 0 /\ o > ChunkSize

\* The walk has used up the chunk it is in.
ChunkFull(o) == ChunkSize # 0 /\ o >= ChunkSize

Walk == 
    /\ capacity > 0 /\ result = "none" /\ remaining > 0
    /\ IF Len(entries) >= capacity
       THEN /\ result' = "SIZE_OVERFLOW_IN_LOOP"
            /\ UNCHANGED <<currentChunkId, currentChunkOffset, remaining, entries>>
       ELSE /\ entries' = Append(entries, [chunkId |-> currentChunkId, 
                                           chunkOffset |-> currentChunkOffset,
                                           length |-> Take])
            /\ remaining' = remaining - Take
            /\ IF ChunkFull(currentChunkOffset + Take)
               THEN /\ currentChunkId' = currentChunkId + 1
                    /\ currentChunkOffset' = 0
               ELSE /\ currentChunkOffset' = currentChunkOffset + Take
                    /\ UNCHANGED currentChunkId
            /\ UNCHANGED result
    /\ UNCHANGED <<args, capacity>>

Finish == 
    /\ capacity > 0 /\ result = "none" /\ remaining = 0
    /\ result' = "S_OK"
    /\ UNCHANGED <<args, currentChunkId, currentChunkOffset, remaining, capacity, entries>>

Next == Allocate \/ Walk \/ Finish

Spec == Init /\ [][Next]_vars

-----------------------------------------------------------------------------
(* Properties.                                                             *)

First == GlobalOf(chunkId, chunkOffset)

\* The offset in the whole key of an entry's first byte.
EntryStart(e) == GlobalOf(e.chunkId, e.chunkOffset)

\* Where the entries up to the i-th end, and the next one starts.
EndOf(i) == 
    IF i = 0 THEN First ELSE EntryStart(entries[i]) + entries[i].length

\* The plan's entries are the request: each starts where the one before it ends,
\* the first where the request starts, the last ends where the walk is, and none
\* reads past the end of its chunk.  Read one after the other, as getKeyBytes 
\* does, they give the request's bytes, with no gap and none twice.
EntriesCoverRequest == 
    /\ \A i \in 1 .. Len(entries) : EntryStart(entries[i]) = EndOf(i - 1)
    /\ GlobalOf(currentChunkId, currentChunkOffset) = EndOf(Len(entries))
    /\ ChunkSize # 0 => \A i \in 1 .. Len(entries) : 
         entries[i].chunkOffset + entries[i].length <= ChunkSize

\* The number of entries computed beforehand suffices: the loop never finds the
\* plan full, and in chunks it leaves the spare entry unused.
CapacitySuffices == 
    /\ result # "SIZE_OVERFLOW_IN_LOOP"
    /\ result = "S_OK" /\ ChunkSize # 0 => Len(entries) < capacity

\* The final position, which becomes the recorded one, is that of the byte after 
\* the request, and a position that updateChunkOffset may record: never the end
\* of a chunk, which would be planned as an empty piece of a chunk.
FinalPosition == 
    result = "S_OK" => 
        /\ currentChunkId = ChunkIdOf(chunkId, First + size)
        /\ currentChunkOffset = ChunkOffsetOf(First + size)

\* The count of chunks the engine model works with is that of the plan, for a
\* start that is a position in a chunk.
PlanMatchesChunkMap == 
    result = "S_OK" /\ (ChunkSize = 0 \/ chunkOffset < ChunkSize) =>
        /\ {entries[i].chunkId : i \in 1 .. Len(entries)} = ChunksTouched(chunkId, chunkOffset, size)
        /\ capacity = PlanCapacity(chunkId, chunkOffset, size)

=============================================================================
