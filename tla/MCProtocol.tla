----------------------------- MODULE MCProtocol -----------------------------
(***************************************************************************)
(* An instance of Protocol: two pads, the second with an id in upper case, *)
(* which HexToGuid reads and GuidToHex does not write.  The sender has     *)
(* each pad in a keyset of its own, next to a copy of the first that is    *)
(* for decryption only; the receiver has both in one keyset.               *)
(***************************************************************************)
EXTENDS Protocol, TLC

CONSTANTS k1, k2, K2, g1, g2, fa, fb, fc, window, handshake

Guid == k1 :> g1 @@ k2 :> g2 @@ K2 :> g2
Hex == g1 :> k1 @@ g2 :> k2
Directory == Sender :> {fa, fb} @@ Receiver :> {fc}
Listed == fa :> {k1} @@ fb :> {k1, K2} @@ fc :> {k1, K2}
Encrypts == fa :> {k1} @@ fb :> {K2} @@ fc :> {}
Calling == Sender :> {window} @@ Receiver :> {window, handshake}

=============================================================================
