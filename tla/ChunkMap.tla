------------------------------ MODULE ChunkMap ------------------------------
(***************************************************************************)
(* The two ways the engine names a byte of a pad: by its offset in the    *)
(* whole key (the value ACK_Encrypt returns and ACK_Decrypt is given), and *)
(* by a chunk with an offset in it (what the KeyOffsets row records and    *)
(* where the bytes are on disk).  Keys.ChunkSize relates the two; zero     *)
(* stands for a key that is one monolithic chunk, whose row identifier is  *)
(* whatever the row says.                                                  *)
(***************************************************************************)
EXTENDS Integers

CONSTANT ChunkSize          \* Keys.ChunkSize

ASSUME ChunkSizeAssumption == ChunkSize \in Nat

\* The offset in the whole key of byte o of chunk c.
GlobalOf(c, o) == IF ChunkSize = 0 THEN o ELSE c * ChunkSize + o

\* The chunk that holds byte g of the key; a monolithic key stays in the
\* recorded chunk c.
ChunkIdOf(c, g) == IF ChunkSize = 0 THEN c ELSE g \div ChunkSize

\* Mutant of ChunkOffsetOf: the offset in the whole key.
WholeKeyOffset(g) == g

\* The offset of byte g of the key in its chunk.
ChunkOffsetOf(g) == IF ChunkSize = 0 THEN g ELSE g % ChunkSize

\* The chunks that hold the n > 0 bytes from byte o of chunk c on: one entry of
\* the chunk plan each.
ChunksTouched(c, o, n) == 
    IF ChunkSize = 0 THEN {c} ELSE c .. ((GlobalOf(c, o) + n - 1) \div ChunkSize)

\* Room the plan reserves: its entries and a spare one.
PlanCapacity(c, o, n) == 
    IF ChunkSize = 0 
    THEN 1 
    ELSE (GlobalOf(c, o) + n - 1) \div ChunkSize - c + 2

=============================================================================
