---------------------------- MODULE CipherHeader ----------------------------
(***************************************************************************)
(* The header in front of every cipher text: VPH_CT_StructureToBuffer      *)
(* writes it, VPH_CT_BufferToStructure reads it back.  Parts that are zero *)
(* are left out, a number is written in 16, 32 or 64 bits, whichever is    *)
(* the least it fits in, and the flags in front say what follows.          *)
(*                                                                         *)
(* A buffer is its flags and the sequence of the parts after them; a part  *)
(* is a GUID or a number of a given width.  The compression and checksum   *)
(* fields of the structure are neither written nor read by the code.       *)
(***************************************************************************)
EXTENDS Integers, Sequences

CONSTANTS
    Guids,          \* the GUIDs of kernels and keys
    NullGuid,       \* GUID_NULL
    Limit16,        \* 2^16, 2^32, 2^64 and 2^8
    Limit32,
    Limit64,
    Limit8

ASSUME HeaderAssumption ==
    /\ NullGuid \notin Guids
    /\ {Limit16, Limit32, Limit64, Limit8} \subseteq Nat \ {0}
    /\ Limit16 =< Limit32 /\ Limit32 =< Limit64

Booleans == {"internal", "once", "verify", "endChain", "trailer"}

\* CIPHER_TEXT_HEADER; "set" holds the names of its BOOL fields that are TRUE.
Header == [kernel : Guids \cup {NullGuid}, waldo : 0 .. Limit32 - 1,
           key : Guids \cup {NullGuid}, offset : 0 .. Limit64 - 1,
           length : 0 .. Limit64 - 1, algorithm : 0 .. Limit8 - 1,
           set : SUBSET Booleans]

\* The width the code writes v in: it compares v with masks, from the least up.
WidthOf(v) == IF v = 0 THEN 0 ELSE IF v < Limit16 THEN 16 ELSE IF v < Limit32 THEN 32 ELSE 64

LimitOf(width) == IF width = 16 THEN Limit16 ELSE IF width = 32 THEN Limit32 ELSE Limit64

Part(present, v) == IF present THEN <<v>> ELSE <<>>

\* A number of that width: the cast keeps its low bits.
Number(width, v) == Part(width # 0, v % LimitOf(width))

\* VPH_CT_StructureToBuffer
StructureToBuffer(h) ==
    IF "internal" \in h.set
    THEN [set |-> {"internal"}, kernel |-> FALSE, key |-> FALSE, algorithm |-> FALSE,
          offset |-> 0, length |-> 0, low |-> h.offset % Limit16, parts |-> <<>>]
    ELSE [set |-> h.set, kernel |-> h.kernel # NullGuid, key |-> h.key # NullGuid,
          algorithm |-> h.algorithm # 0,
          offset |-> WidthOf(h.offset), length |-> WidthOf(h.length), low |-> 0,
          parts |-> Part(h.kernel # NullGuid, h.kernel) \o Part(h.kernel # NullGuid, h.waldo)
                    \o Part(h.key # NullGuid, h.key)
                    \o Number(WidthOf(h.offset), h.offset)
                    \o Number(WidthOf(h.length), h.length)
                    \o Part(h.algorithm # 0, h.algorithm % Limit8)]

\* The number of parts a flag announces, and the part read at uOffset if it does.
Announces(present, n) == IF present THEN n ELSE 0
ReadAt(present, parts, uOffset, absent) == IF present THEN parts[uOffset] ELSE absent

\* VPH_CT_BufferToStructure
BufferToStructure(b) ==
    LET key == 1 + Announces(b.kernel, 2)
        offset == key + Announces(b.key, 1)
        length == offset + Announces(b.offset # 0, 1)
        algorithm == length + Announces(b.length # 0, 1)
    IN IF "internal" \in b.set
       THEN [kernel |-> NullGuid, waldo |-> 0, key |-> NullGuid, offset |-> b.low,
             length |-> 0, algorithm |-> 0, set |-> {"internal"}]
       ELSE [kernel |-> ReadAt(b.kernel, b.parts, 1, NullGuid),
             waldo |-> ReadAt(b.kernel, b.parts, 2, 0),
             key |-> ReadAt(b.key, b.parts, key, NullGuid),
             offset |-> ReadAt(b.offset # 0, b.parts, offset, 0),
             length |-> ReadAt(b.length # 0, b.parts, length, 0),
             algorithm |-> ReadAt(b.algorithm, b.parts, algorithm, 0),
             set |-> b.set]

\* What the code writes it reads back: of a header that is not internal everything, but
\* for the waldo offset of a header without a kernel; of an internal one only the low
\* bits of the offset (VPH_CT_ExpandStructure, which restores the rest, is not called).
Restored(h) ==
    IF "internal" \in h.set
    THEN [kernel |-> NullGuid, waldo |-> 0, key |-> NullGuid, offset |-> h.offset % Limit16,
          length |-> 0, algorithm |-> 0, set |-> {"internal"}]
    ELSE [h EXCEPT !.waldo = IF h.kernel = NullGuid THEN 0 ELSE @]

=============================================================================
