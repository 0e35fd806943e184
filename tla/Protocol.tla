------------------------------ MODULE Protocol ------------------------------
(***************************************************************************)
(* The protocol layer on the two phones of a call: the key provider of     *)
(* each (reference count and chain of scanned keysets), the encrypting     *)
(* session of the sender, the decrypting session of the receiver, and the  *)
(* datagrams between them, which the network loses, repeats and reorders.  *)
(*                                                                         *)
(* A key is its id, the text in the Keys table; GuidOf is HexToGuid, HexOf *)
(* is GuidToHex, which writes lower case.  Copies of a pad in several      *)
(* keysets have the same id.  The kernel is what PadEngine shows of it:    *)
(* ACK_Encrypt takes the next unused bytes of a pad and returns their      *)
(* offset, ACK_Decrypt uses the bytes at the offset it is given.           *)
(***************************************************************************)
EXTENDS CipherHeader, FiniteSets, Functions, SequencesExt

CONSTANTS
    Keys,           \* the ids of keys
    NoKey,
    GuidOf,         \* the GUID an id stands for
    HexOf,          \* the id a GUID is written as
    Sender, 
    Receiver,
    FilesOf,        \* the keysets in the directory each phone scans
    KeysIn,         \* the keys of each keyset ...
    EncryptKeysIn,  \* ... and those with IsEncrypt
    NoFile,
    CallersOf,      \* who creates a provider: the window's thread, the handshake's
    TotalBytes,     \* of every pad
    Sizes,          \* of messages
    MaxLinks,       \* bound: links of a key chain
    MaxSent         \* bound: datagrams sent

Phones == {Sender, Receiver}
Callers == UNION {CallersOf[p] : p \in Phones}
Files == UNION {FilesOf[p] : p \in Phones}

ASSUME ProtocolAssumption ==
    /\ Sender # Receiver
    /\ NoKey \notin Keys
    /\ GuidOf \in [Keys -> Guids]
    /\ HexOf \in [Guids -> Keys]
    /\ \A g \in Guids : GuidOf[HexOf[g]] = g
    /\ NoFile \notin Files
    /\ KeysIn \in [Files -> SUBSET Keys]
    /\ EncryptKeysIn \in [Files -> SUBSET Keys]
    /\ \A f \in Files : EncryptKeysIn[f] \subseteq KeysIn[f]
    /\ TotalBytes \in Nat /\ TotalBytes < Limit64
    /\ Sizes \subseteq Nat
    /\ MaxLinks \in Nat
    /\ MaxSent \in Nat

VARIABLES
    iRefCount,      \* of each phone's provider
    chain,          \* pKeyListHeader: links, the one scanned last first
    held,           \* history: the callers that hold the provider
    listed,         \* history: the links whose keys ACKP_GetAllKeys gave each caller
    session,        \* of the sender to encrypt, of the receiver to decrypt
    bytesUsed,      \* by keyset and key
    sent,           \* the datagrams sent
    heard           \* history: the last one decrypted, and the bytes used for it

provider == <<iRefCount, chain, held, listed>>
traffic == <<bytesUsed, sent, heard>>
vars == <<provider, session, traffic>>

Link == [file : Files, keys : SUBSET Keys]

\* The part of a pad something is encrypted or decrypted with.
Bytes == [guid : Guids \cup {NullGuid}, offset : 0 .. Limit64 - 1, size : 0 .. Limit64 - 1]
NoBytes == [guid |-> NullGuid, offset |-> 0, size |-> 0]

\* ACP_SESSIONINFO; "body" is pBodyBuffer and sizeBodyBuffer.
NoSession == [open |-> FALSE, file |-> NoFile, key |-> NoKey, guid |-> NullGuid, body |-> NoBytes]
NewSession == [NoSession EXCEPT !.open = TRUE]
Session == [open : BOOLEAN, file : Files \cup {NoFile}, key : Keys \cup {NoKey},
            guid : Guids \cup {NullGuid}, body : Bytes]

\* A datagram: header, body (the pad bytes it was encrypted with), size of the message.
NothingHeard == [with |-> NoBytes, body |-> NoBytes, size |-> 0]

TypeOK ==
    /\ iRefCount \in [Phones -> Nat]
    /\ chain \in [Phones -> Seq(Link)]
    /\ held \in [Phones -> SUBSET Callers]
    /\ \A p \in Phones : held[p] \subseteq CallersOf[p]
    /\ listed \in [Phones -> [Callers -> Nat]]
    /\ session \in [Phones -> Session]
    /\ bytesUsed \in [Files -> [Keys -> 0 .. TotalBytes]]
    /\ \A d \in sent : BufferToStructure(d.header) \in Header /\ d.body \in Bytes /\ d.size \in Nat
    /\ heard \in [with : Bytes, body : Bytes, size : Nat]

Init ==
    /\ iRefCount = [p \in Phones |-> 0]
    /\ chain = [p \in Phones |-> <<>>]
    /\ held = [p \in Phones |-> {}]
    /\ listed = [p \in Phones |-> [c \in Callers |-> 0]]
    /\ session = [p \in Phones |-> NoSession]
    /\ bytesUsed = [f \in Files |-> [k \in Keys |-> 0]]
    /\ sent = {}
    /\ heard = NothingHeard

-----------------------------------------------------------------------------
(* The key provider.                                                       *)

\* A count of zero with links left, from a close that failed, is refused.
CreateProvider(p, c) ==
    /\ c \notin held[p]
    /\ iRefCount[p] = 0 => chain[p] = <<>>
    /\ iRefCount' = [iRefCount EXCEPT ![p] = @ + 1]
    /\ held' = [held EXCEPT ![p] = @ \cup {c}]
    /\ UNCHANGED <<chain, listed, session, traffic>>

\* What is left of a chain after some of its links are gone: all are, or one could not
\* be taken apart after ACK_FreeAllKeys had freed its keys.
Remains(links) ==
    {<<>>} \cup {<<[links[i] EXCEPT !.keys = {}]>> \o SubSeq(links, i + 1, Len(links)) :
                    i \in DOMAIN links}

\* Mutant of LastReference: every close takes the chain apart.
AnyReference(p) == TRUE

LastReference(p) == iRefCount[p] = 1

CloseProvider(p, c) ==
    /\ c \in held[p]
    /\ iRefCount' = [iRefCount EXCEPT ![p] = @ - 1]
    /\ \E left \in IF LastReference(p) THEN Remains(chain[p]) ELSE {chain[p]} :
           chain' = [chain EXCEPT ![p] = left]
    /\ held' = [held EXCEPT ![p] = @ \ {c}]
    /\ listed' = [listed EXCEPT ![p][c] = 0]
    /\ UNCHANGED <<session, traffic>>

\* Each keyset of the directory, in any order, becomes a link in front of the others,
\* also one that has a link already; a failure ends the scan with the links so far.
Scanned(p) == {links \in SeqOf(FilesOf[p], Cardinality(FilesOf[p])) : IsInjective(links)}

ScanPathForKeys(p, c) ==
    /\ c \in held[p]
    /\ \E files \in Scanned(p) :
           /\ Len(chain[p]) + Len(files) =< MaxLinks
           /\ chain' = [chain EXCEPT ![p] =
                  [i \in DOMAIN files |-> [file |-> files[i], keys |-> KeysIn[files[i]]]] \o @]
    /\ UNCHANGED <<iRefCount, held, listed, session, traffic>>

\* The pointers returned are into the links there are.
GetAllKeys(p, c) ==
    /\ c \in held[p]
    /\ listed' = [listed EXCEPT ![p][c] = Len(chain[p])]
    /\ UNCHANGED <<iRefCount, chain, held, session, traffic>>

-----------------------------------------------------------------------------
(* Sessions.                                                               *)

CreateSession(p) ==
    /\ held[p] # {}
    /\ ~session[p].open
    /\ session' = [session EXCEPT ![p] = NewSession]
    /\ UNCHANGED <<provider, traffic>>

CloseSession(p) ==
    /\ session[p].open
    /\ session' = [session EXCEPT ![p] = NoSession]
    /\ UNCHANGED <<provider, traffic>>

\* The first keyset of the chain that has the key.
Listing(p, k) == {i \in DOMAIN chain[p] : k \in chain[p][i].keys}
FileFor(p, k) == chain[p][CHOOSE i \in Listing(p, k) : \A j \in Listing(p, k) : i =< j].file

\* Mutant of AfterSetSessionKey: the GUID is stored before the kernel has accepted the key.
GuidStoredFirst(p, k) ==
    LET s == session[p]
        mounted == [s EXCEPT !.file = FileFor(p, k), !.guid = GuidOf[k]]
    IN {s} \cup (IF Listing(p, k) # {} /\ s.file = NoFile
                 THEN {mounted, [mounted EXCEPT !.key = k]} ELSE {})

\* What ACP_SetSessionKey may leave of the session: nothing changes when no keyset has
\* the key or mounting fails, as it must when one is mounted; ACK_SetSessionKey may fail
\* with the keyset mounted; or the key is set.
AfterSetSessionKey(p, k) ==
    LET s == session[p]
        mounted == [s EXCEPT !.file = FileFor(p, k)]
    IN {s} \cup (IF Listing(p, k) # {} /\ s.file = NoFile
                 THEN {mounted, [mounted EXCEPT !.key = k, !.guid = GuidOf[k]]} ELSE {})

SetSessionKey(p, k) ==
    /\ session[p].open
    /\ \E after \in AfterSetSessionKey(p, k) : session' = [session EXCEPT ![p] = after]
    /\ UNCHANGED <<provider, traffic>>

\* Mutant of MayEncrypt: the size is left out of the comparison.
MayEncryptAnySize(s, size) ==
    /\ s.key # NoKey
    /\ size > 0 => /\ s.key \in EncryptKeysIn[s.file]
                   /\ bytesUsed[s.file][s.key] =< TotalBytes

\* ACK_Encrypt fails without a key, with one that is for decryption only, and when the
\* pad has too few bytes left.
MayEncrypt(s, size) ==
    /\ s.key # NoKey
    /\ size > 0 => /\ s.key \in EncryptKeysIn[s.file]
                   /\ bytesUsed[s.file][s.key] + size =< TotalBytes

\* With nothing to encrypt ACK_Encrypt succeeds at offset 0 and leaves the body buffer as
\* it was, and its size.
Body(s, size) ==
    IF size = 0 THEN s.body 
    ELSE [guid |-> GuidOf[s.key], offset |-> bytesUsed[s.file][s.key], size |-> size]

HeaderOf(s, size) ==
    [kernel |-> NullGuid, waldo |-> 0, key |-> s.guid,
     offset |-> IF size = 0 THEN 0 ELSE Body(s, size).offset,
     length |-> Body(s, size).size, algorithm |-> 0, set |-> {}]

Encrypt(size) ==
    LET s == session[Sender]
    IN /\ MayEncrypt(s, size)
       /\ Cardinality(sent) < MaxSent
       /\ sent' = sent \cup {[header |-> StructureToBuffer(HeaderOf(s, size)),
                              body |-> Body(s, size), size |-> size]}
       /\ bytesUsed' = [bytesUsed EXCEPT ![s.file][s.key] = @ + size]
       /\ session' = [session EXCEPT ![Sender].body = Body(s, size)]
       /\ UNCHANGED <<provider, heard>>

\* Mutant of NeedsKey: a session that has a key keeps using it.
NeedsFirstKey(s, h) == h.key # NullGuid /\ s.guid = NullGuid

\* A header that names a key the session does not have makes Decrypt set it.
NeedsKey(s, h) == h.key # NullGuid /\ h.key # s.guid

\* ACK_Decrypt fails without a key and past the end of the pad; with nothing to decrypt
\* it succeeds and changes no output.
MayDecrypt(s, h) == s.key # NoKey /\ h.length > 0 /\ h.offset + h.length =< TotalBytes

Decrypt(d) ==
    LET h == BufferToStructure(d.header)
    IN /\ session[Receiver].open
       /\ \E s \in IF NeedsKey(session[Receiver], h)
                   THEN AfterSetSessionKey(Receiver, HexOf[h.key]) ELSE {session[Receiver]} :
              /\ session' = [session EXCEPT ![Receiver] = s]
              /\ heard' = IF ~NeedsKey(s, h) /\ MayDecrypt(s, h)
                          THEN [with |-> [guid |-> GuidOf[s.key], offset |-> h.offset,
                                          size |-> h.length],
                                body |-> d.body, size |-> d.size]
                          ELSE heard
       /\ UNCHANGED <<provider, bytesUsed, sent>>

Next ==
    \/ \E p \in Phones : \E c \in CallersOf[p] :
           \/ CreateProvider(p, c) 
           \/ CloseProvider(p, c)
           \/ ScanPathForKeys(p, c) 
           \/ GetAllKeys(p, c)
    \/ \E p \in Phones :
           \/ CreateSession(p) 
           \/ CloseSession(p) 
           \/ \E k \in Keys : SetSessionKey(p, k)
    \/ \E size \in Sizes : Encrypt(size)
    \/ \E d \in sent : Decrypt(d)

Spec == Init /\ [][Next]_vars

-----------------------------------------------------------------------------
(* Properties.                                                             *)

\* Whatever is lost, repeated, late or out of order, and whichever keys the two sessions
\* changed to meanwhile, a datagram that is decrypted is decrypted with the bytes it was
\* encrypted with.  Only an empty message is not: ACP_Encrypt sends the body of the
\* message before it again, under offset 0 (protocol.c:478, navajo.c:1477).
HeardAsSent == heard.size > 0 => heard.with = heard.body

\* The GUID a session writes into headers and compares headers with is that of the key
\* the kernel uses, of a keyset of this phone that has it: also after a step of
\* ACP_SetSessionKey failed (protocol.c:424) and after ACP_Decrypt set another key.
SessionSpeaksItsKey ==
    \A p \in Phones :
        LET s == session[p]
        IN /\ s.key = NoKey => s.guid = NullGuid
           /\ s.key # NoKey => /\ s.guid = GuidOf[s.key]
                               /\ s.file \in FilesOf[p] /\ s.key \in KeysIn[s.file]

\* What ACKP_GetAllKeys gave a caller stays valid while it holds the provider: no other
\* caller's ACKP_CloseProvider takes the links apart (protocol.c:113).
ListedKeysStayValid ==
    \A p \in Phones : \A c \in held[p] : 
        /\ listed[p][c] =< Len(chain[p])
        /\ \A i \in Len(chain[p]) - listed[p][c] + 1 .. Len(chain[p]) : 
               chain[p][i].keys = KeysIn[chain[p][i].file]

=============================================================================
