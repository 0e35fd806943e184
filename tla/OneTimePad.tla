----------------------------- MODULE OneTimePad -----------------------------
(***************************************************************************)
(* What the key engine promises about its pads, with no database, cache,   *)
(* chunk or transaction in it.  Every byte of a pad is free, belongs to    *)
(* one session, is spent, or is lost.  A session only encrypts with bytes  *)
(* that belong to it, it may hand back bytes that encrypted nothing, and a *)
(* spent or lost byte stays so for ever.                                   *)
(***************************************************************************)
EXTENDS Naturals

CONSTANTS Keys, Sessions, TotalBytes, 
          Free, Spent, Lost   \* what a byte is when it belongs to no session

Bytes == 0 .. TotalBytes - 1

VARIABLES owner,    \* owner[k][p]: whose byte p of key k is
          uses      \* uses[k][p]: how often it was used to encrypt

vars == <<owner, uses>>

Init == 
    /\ owner = [k \in Keys |-> [p \in Bytes |-> Free]]
    /\ uses = [k \in Keys |-> [p \in Bytes |-> 0]]

Changed(k, p) == owner'[k][p] # owner[k][p]

\* Every byte that changes hands goes from one owner to the other.
Pass(from, to) == 
    /\ owner' \in [Keys -> [Bytes -> Sessions \cup {Free, Spent, Lost}]]
    /\ \A k \in Keys, p \in Bytes : 
        Changed(k, p) => owner[k][p] = from /\ owner'[k][p] = to

Reserve(s) == Pass(Free, s) /\ UNCHANGED uses

HandBack(s) == Pass(s, Free) /\ UNCHANGED uses

Lose(s) == Pass(s, Lost) /\ UNCHANGED uses

\* The bytes a session encrypts with are used once more, and are its own.
Spend(s) == 
    /\ Pass(s, Spent)
    /\ uses' = [k \in Keys |-> [p \in Bytes |-> 
                  IF Changed(k, p) THEN uses[k][p] + 1 ELSE uses[k][p]]]

Next == \E s \in Sessions : Reserve(s) \/ HandBack(s) \/ Lose(s) \/ Spend(s)

Spec == Init /\ [][Next]_vars

=============================================================================
