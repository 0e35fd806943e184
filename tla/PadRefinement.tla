---------------------------- MODULE PadRefinement ----------------------------
(***************************************************************************)
(* The key engine as an implementation of OneTimePad: what a byte of a pad *)
(* is for the abstract specification, in terms of the KeyOffsets rows, the *)
(* caches and the calls of the sessions.                                   *)
(***************************************************************************)
EXTENDS PadEngine

CONSTANTS Free, Spent, Lost     \* what a byte is when it belongs to no session

ASSUME OwnersAssumption == 
    /\ Free # Spent /\ Spent # Lost /\ Lost # Free
    /\ Free \notin Sessions /\ Spent \notin Sessions /\ Lost \notin Sessions

\* What became of byte p of key k: it encrypted; a session has taken it and may
\* still encrypt with it; or it lies before the recorded position for nothing, or
\* after it.
Owner(k, p) == 
    IF uses[k][p] > 0 THEN Spent 
    ELSE IF \E s \in Sessions : p \in Taken(s, k) THEN CHOOSE s \in Sessions : p \in Taken(s, k)
    ELSE IF p < Recorded(k) THEN Lost ELSE Free

owner == [k \in Keys |-> [p \in Bytes |-> Owner(k, p)]]

Pad == INSTANCE OneTimePad WITH owner <- owner

\* The engine implements the one-time pad: with every step of the engine, bytes 
\* of a pad go from one owner to one other, in a way that the abstract 
\* specification allows, or none does.
ImplementsOneTimePad == Pad!Spec

=============================================================================
