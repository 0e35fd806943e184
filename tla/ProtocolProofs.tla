--------------------------- MODULE ProtocolProofs ---------------------------
(***************************************************************************)
(* The cipher header, and the protocol that rests on it.  First: what      *)
(* StructureToBuffer writes, BufferToStructure reads back, for all limits  *)
(* of the widths.  Then the two phones: a session names the key it uses, a *)
(* header the bytes its body was encrypted with, so what is decrypted is   *)
(* decrypted with those, whatever the network does.                        *)
(*                                                                         *)
(* The invariant needs two facts that no property states: links are taken  *)
(* apart only when nobody holds the provider (CountInv, ChainInv), and a   *)
(* datagram with a message has a header that was written by a session with *)
(* a key (SentInv).                                                        *)
(***************************************************************************)
EXTENDS Protocol, FiniteSetTheorems, WellFoundedInduction, TLAPS

\* A number that is written is the number that is read: the width chosen for it is
\* wide enough, and only zero is left out.
LEMMA NumberKept ==
    ASSUME NEW v \in 0 .. Limit64 - 1
    PROVE  /\ Number(WidthOf(v), v) = Part(v # 0, v)
           /\ WidthOf(v) # 0 <=> v # 0
<1>1. Limit16 \in Nat \ {0} /\ Limit32 \in Nat \ {0} /\ Limit64 \in Nat \ {0}
      /\ Limit16 =< Limit32 /\ Limit32 =< Limit64
  BY HeaderAssumption
<1>2. CASE v = 0
  BY <1>2 DEF Number, WidthOf, Part
<1>3. CASE v \in 1 .. Limit16 - 1
  <2>1. WidthOf(v) = 16
    BY <1>1, <1>3 DEF WidthOf
  <2>2. v % Limit16 = v
    BY <1>1, <1>3
  <2> QED
    BY <1>3, <2>1, <2>2 DEF Number, LimitOf
<1>4. CASE v \in Limit16 .. Limit32 - 1
  <2>1. WidthOf(v) = 32 /\ v # 0
    BY <1>1, <1>4 DEF WidthOf
  <2>2. v % Limit32 = v
    BY <1>1, <1>4
  <2> QED
    BY <2>1, <2>2 DEF Number, LimitOf
<1>5. CASE v \in Limit32 .. Limit64 - 1
  <2>1. WidthOf(v) = 64 /\ v # 0
    BY <1>1, <1>5 DEF WidthOf
  <2>2. v % Limit64 = v
    BY <1>1, <1>5
  <2> QED
    BY <2>1, <2>2 DEF Number, LimitOf
<1> QED
  BY <1>1, <1>2, <1>3, <1>4, <1>5

\* One more part that is there (m = 1) or not (m = 0): what was written stays, the part
\* comes next.
LEMMA PartAppended ==
    ASSUME NEW S, NEW s \in Seq(S), NEW n \in Nat, Len(s) = n,
           NEW t \in Seq(S), NEW m \in {0, 1}, Len(t) = m
    PROVE  /\ s \o t \in Seq(S)
           /\ n + m \in Nat
           /\ Len(s \o t) = n + m
           /\ \A i \in 1 .. n : i \in 1 .. n + m /\ (s \o t)[i] = s[i]
           /\ m = 1 => n + 1 \in 1 .. n + m /\ (s \o t)[n + 1] = t[1]
  OBVIOUS

\* An optional part is a sequence of length one or zero.
LEMMA PartLength ==
    ASSUME NEW S, NEW v \in S, NEW P \in BOOLEAN
    PROVE  /\ Part(P, v) \in Seq(S)
           /\ Announces(P, 1) \in {0, 1}
           /\ Len(Part(P, v)) = Announces(P, 1)
           /\ P => Announces(P, 1) = 1 /\ Part(P, v)[1] = v
<1>1. CASE P
  <2>1. Part(P, v) = <<v>> /\ Announces(P, 1) = 1
    BY <1>1 DEF Part, Announces
  <2> QED
    BY <2>1
<1>2. CASE ~P
  <2>1. Part(P, v) = <<>> /\ Announces(P, 1) = 0
    BY <1>2 DEF Part, Announces
  <2> QED
    BY <1>2, <2>1
<1> QED
  BY <1>1, <1>2

\* The parts a header is written as, and the flags that announce them.
Parts(h) == Part(h.kernel # NullGuid, h.kernel) \o Part(h.kernel # NullGuid, h.waldo)
            \o Part(h.key # NullGuid, h.key) \o Part(h.offset # 0, h.offset)
            \o Part(h.length # 0, h.length) \o Part(h.algorithm # 0, h.algorithm)

\* Optional parts written one after the other are found where the flags say.
LEMMA PartsFound ==
    ASSUME NEW h
    PROVE  LET key == 1 + Announces(h.kernel # NullGuid, 2)
               offset == key + Announces(h.key # NullGuid, 1)
               length == offset + Announces(h.offset # 0, 1)
               algorithm == length + Announces(h.length # 0, 1)
           IN /\ h.kernel # NullGuid => Parts(h)[1] = h.kernel /\ Parts(h)[2] = h.waldo
              /\ h.key # NullGuid => Parts(h)[key] = h.key
              /\ h.offset # 0 => Parts(h)[offset] = h.offset
              /\ h.length # 0 => Parts(h)[length] = h.length
              /\ h.algorithm # 0 => Parts(h)[algorithm] = h.algorithm
<1> DEFINE A == h.kernel # NullGuid
           B == h.key # NullGuid
           C == h.offset # 0
           D == h.length # 0
           E == h.algorithm # 0
           a1 == h.kernel
           a2 == h.waldo
           b == h.key
           c == h.offset
           d == h.length
           e == h.algorithm
<1>0. A \in BOOLEAN /\ B \in BOOLEAN /\ C \in BOOLEAN /\ D \in BOOLEAN /\ E \in BOOLEAN
  OBVIOUS
<1> HIDE DEF A, B, C, D, E, a1, a2, b, c, d, e
<1> DEFINE S == {a1, a2, b, c, d, e}
           tB == Part(B, b)
           tC == Part(C, c)
           tD == Part(D, d)
           tE == Part(E, e)
           nA == Announces(A, 2)
           mB == Announces(B, 1)
           mC == Announces(C, 1)
           mD == Announces(D, 1)
           mE == Announces(E, 1)
           s2 == Part(A, a1) \o Part(A, a2)
           s3 == s2 \o tB
           s4 == s3 \o tC
           s5 == s4 \o tD
           s6 == s5 \o tE
<1>1. /\ tB \in Seq(S) /\ mB \in {0, 1} /\ Len(tB) = mB /\ (B => mB = 1 /\ tB[1] = b)
      /\ tC \in Seq(S) /\ mC \in {0, 1} /\ Len(tC) = mC /\ (C => mC = 1 /\ tC[1] = c)
      /\ tD \in Seq(S) /\ mD \in {0, 1} /\ Len(tD) = mD /\ (D => mD = 1 /\ tD[1] = d)
      /\ tE \in Seq(S) /\ mE \in {0, 1} /\ Len(tE) = mE /\ (E => mE = 1 /\ tE[1] = e)
  <2>1. b \in S /\ c \in S /\ d \in S /\ e \in S
    OBVIOUS
  <2> HIDE DEF S
  <2>2. tB \in Seq(S) /\ mB \in {0, 1} /\ Len(tB) = mB /\ (B => mB = 1 /\ tB[1] = b)
    BY <2>1, PartLength, <1>0, Zenon
  <2>3. tC \in Seq(S) /\ mC \in {0, 1} /\ Len(tC) = mC /\ (C => mC = 1 /\ tC[1] = c)
    BY <2>1, PartLength, <1>0, Zenon
  <2>4. tD \in Seq(S) /\ mD \in {0, 1} /\ Len(tD) = mD /\ (D => mD = 1 /\ tD[1] = d)
    BY <2>1, PartLength, <1>0, Zenon
  <2>5. tE \in Seq(S) /\ mE \in {0, 1} /\ Len(tE) = mE /\ (E => mE = 1 /\ tE[1] = e)
    BY <2>1, PartLength, <1>0, Zenon
  <2> QED
    BY <2>2, <2>3, <2>4, <2>5
<1>2. s2 \in Seq(S) /\ nA \in Nat /\ Len(s2) = nA /\ (A => nA = 2 /\ s2[1] = a1 /\ s2[2] = a2)
  <2>1. CASE A
    <3>1. s2 = <<a1>> \o <<a2>> /\ nA = 2
      BY <2>1 DEF Part, Announces
    <3> QED
      BY <3>1
  <2>2. CASE ~A
    <3>1. s2 = <<>> \o <<>> /\ nA = 0
      BY <2>2 DEF Part, Announces
    <3> QED
      BY <2>2, <3>1
  <2> QED
    BY <2>1, <2>2
<1> HIDE DEF S, tB, tC, tD, tE, nA, mB, mC, mD, mE, s2
<1>3. /\ s3 \in Seq(S) /\ nA + mB \in Nat /\ Len(s3) = nA + mB
      /\ \A i \in 1 .. nA : i \in 1 .. nA + mB /\ s3[i] = s2[i]
      /\ B => nA + 1 \in 1 .. nA + mB /\ s3[nA + 1] = b
  <2> HIDE DEF s4, s5, s6
  <2>0. s2 \in Seq(S) /\ nA \in Nat /\ Len(s2) = nA
        /\ tB \in Seq(S) /\ mB \in {0, 1} /\ Len(tB) = mB
    BY <1>1, <1>2
  <2>1. /\ s3 \in Seq(S) /\ nA + mB \in Nat /\ Len(s3) = nA + mB
        /\ \A i \in 1 .. nA : i \in 1 .. nA + mB /\ s3[i] = s2[i]
        /\ mB = 1 => nA + 1 \in 1 .. nA + mB /\ s3[nA + 1] = tB[1]
    BY <2>0, PartAppended
  <2> HIDE DEF s3
  <2> QED
    BY <1>1, <2>1, Zenon
<1> DEFINE nB == nA + mB
<1> HIDE DEF s3, nB
<1>4. /\ s4 \in Seq(S) /\ nB + mC \in Nat /\ Len(s4) = nB + mC
      /\ \A i \in 1 .. nB : i \in 1 .. nB + mC /\ s4[i] = s3[i]
      /\ C => nB + 1 \in 1 .. nB + mC /\ s4[nB + 1] = c
  <2> HIDE DEF s5, s6
  <2>1. s3 \in Seq(S) /\ nB \in Nat /\ Len(s3) = nB
        /\ tC \in Seq(S) /\ mC \in {0, 1} /\ Len(tC) = mC
    BY <1>1, <1>3 DEF nB
  <2>2. /\ s4 \in Seq(S) /\ nB + mC \in Nat /\ Len(s4) = nB + mC
        /\ \A i \in 1 .. nB : i \in 1 .. nB + mC /\ s4[i] = s3[i]
        /\ mC = 1 => nB + 1 \in 1 .. nB + mC /\ s4[nB + 1] = tC[1]
    BY <2>1, PartAppended
  <2> HIDE DEF s4
  <2> QED
    BY <1>1, <2>2, Zenon
<1> DEFINE nC == nB + mC
<1> HIDE DEF s4, nC
<1>5. /\ s5 \in Seq(S) /\ nC + mD \in Nat /\ Len(s5) = nC + mD
      /\ \A i \in 1 .. nC : i \in 1 .. nC + mD /\ s5[i] = s4[i]
      /\ D => nC + 1 \in 1 .. nC + mD /\ s5[nC + 1] = d
  <2> HIDE DEF s6
  <2>1. s4 \in Seq(S) /\ nC \in Nat /\ Len(s4) = nC
        /\ tD \in Seq(S) /\ mD \in {0, 1} /\ Len(tD) = mD
    BY <1>1, <1>4 DEF nC
  <2>2. /\ s5 \in Seq(S) /\ nC + mD \in Nat /\ Len(s5) = nC + mD
        /\ \A i \in 1 .. nC : i \in 1 .. nC + mD /\ s5[i] = s4[i]
        /\ mD = 1 => nC + 1 \in 1 .. nC + mD /\ s5[nC + 1] = tD[1]
    BY <2>1, PartAppended
  <2> HIDE DEF s5
  <2> QED
    BY <1>1, <2>2, Zenon
<1> DEFINE nD == nC + mD
<1> HIDE DEF s5, nD
<1>6. /\ \A i \in 1 .. nD : s6[i] = s5[i]
      /\ E => s6[nD + 1] = e
  <2>1. s5 \in Seq(S) /\ nD \in Nat /\ Len(s5) = nD
        /\ tE \in Seq(S) /\ mE \in {0, 1} /\ Len(tE) = mE
    BY <1>1, <1>5 DEF nD
  <2>2. /\ \A i \in 1 .. nD : s6[i] = s5[i]
        /\ mE = 1 => s6[nD + 1] = tE[1]
    BY <2>1, PartAppended
  <2> HIDE DEF s6
  <2> QED
    BY <1>1, <2>2, Zenon
<1> HIDE DEF s6
<1>7. A => s6[1] = a1 /\ s6[2] = a2
  <2> SUFFICES ASSUME A PROVE s6[1] = a1 /\ s6[2] = a2
    OBVIOUS
  <2>1. 1 \in 1 .. nA /\ 2 \in 1 .. nA
    BY <1>2
  <2>2. 1 \in 1 .. nB /\ 2 \in 1 .. nB /\ s3[1] = a1 /\ s3[2] = a2
    BY <1>2, <1>3, <2>1 DEF nB
  <2>3. 1 \in 1 .. nC /\ 2 \in 1 .. nC /\ s4[1] = a1 /\ s4[2] = a2
    BY <1>4, <2>2 DEF nC
  <2>4. 1 \in 1 .. nD /\ 2 \in 1 .. nD /\ s5[1] = a1 /\ s5[2] = a2
    BY <1>5, <2>3 DEF nD
  <2> QED
    BY <1>6, <2>4
<1>8. B => s6[1 + nA] = b
  <2>1. B => nA + 1 \in 1 .. nB /\ s3[nA + 1] = b
    BY <1>3 DEF nB
  <2>2. B => nA + 1 \in 1 .. nC /\ s4[nA + 1] = b
    BY <1>4, <2>1 DEF nC
  <2>3. B => nA + 1 \in 1 .. nD /\ s5[nA + 1] = b
    BY <1>5, <2>2 DEF nD
  <2>4. nA + 1 = 1 + nA
    BY <1>2
  <2> QED
    BY <1>6, <2>3, <2>4
<1>9. C => s6[1 + nA + mB] = c
  <2>1. C => nB + 1 \in 1 .. nC /\ s4[nB + 1] = c
    BY <1>4 DEF nC
  <2>2. C => nB + 1 \in 1 .. nD /\ s5[nB + 1] = c
    BY <1>5, <2>1 DEF nD
  <2>3. nB + 1 = 1 + nA + mB
    BY <1>1, <1>2 DEF nB
  <2> QED
    BY <1>6, <2>2, <2>3
<1>10. D => s6[1 + nA + mB + mC] = d
  <2>1. D => nC + 1 \in 1 .. nD /\ s5[nC + 1] = d
    BY <1>5 DEF nD
  <2>2. nC + 1 = 1 + nA + mB + mC
    BY <1>1, <1>2 DEF nB, nC
  <2> QED
    BY <1>6, <2>1, <2>2
<1>11. E => s6[1 + nA + mB + mC + mD] = e
  <2>1. nD + 1 = 1 + nA + mB + mC + mD
    BY <1>1, <1>2 DEF nB, nC, nD
  <2> QED
    BY <1>6, <2>1
<1> QED
  BY <1>7, <1>8, <1>9, <1>10, <1>11 DEF s2, s3, s4, s5, s6, tB, tC, tD, tE, nA, mB, mC, mD,
     Parts, A, B, C, D, E, a1, a2, b, c, d, e

\* VPH_CT_BufferToStructure restores what VPH_CT_StructureToBuffer was given, for every
\* header: no offset or length is cut off at a boundary of the widths, and no
\* combination of absent parts shifts a part to where another is read.
THEOREM HeaderRestored ==
    \A h \in Header : BufferToStructure(StructureToBuffer(h)) = Restored(h)
<1> SUFFICES ASSUME NEW h \in Header
             PROVE  BufferToStructure(StructureToBuffer(h)) = Restored(h)
  OBVIOUS
<1>1. CASE "internal" \in h.set
  BY <1>1 DEF BufferToStructure, StructureToBuffer, Restored
<1>2. CASE "internal" \notin h.set
  <2> DEFINE A == h.kernel # NullGuid
             B == h.key # NullGuid
             C == h.offset # 0
             D == h.length # 0
             E == h.algorithm # 0
             buffer == StructureToBuffer(h)
  <2>1. h.offset \in 0 .. Limit64 - 1 /\ h.length \in 0 .. Limit64 - 1
        /\ h.algorithm \in 0 .. Limit8 - 1
    BY DEF Header
  <2>2. /\ Number(WidthOf(h.offset), h.offset) = Part(C, h.offset)
        /\ Number(WidthOf(h.length), h.length) = Part(D, h.length)
        /\ (WidthOf(h.offset) # 0) = C
        /\ (WidthOf(h.length) # 0) = D
    BY <2>1, NumberKept
  <2>3. h.algorithm % Limit8 = h.algorithm
    BY <2>1, HeaderAssumption
  <2>4. /\ buffer.parts = Part(A, h.kernel) \o Part(A, h.waldo) \o Part(B, h.key)
                          \o Part(C, h.offset) \o Part(D, h.length) \o Part(E, h.algorithm)
        /\ buffer.kernel = A /\ buffer.key = B /\ buffer.algorithm = E
        /\ (buffer.offset # 0) = C /\ (buffer.length # 0) = D /\ buffer.set = h.set
    BY <1>2, <2>2, <2>3 DEF StructureToBuffer
  <2> DEFINE key == 1 + Announces(A, 2)
             offset == key + Announces(B, 1)
             length == offset + Announces(C, 1)
             algorithm == length + Announces(D, 1)
  <2>5. /\ A => buffer.parts[1] = h.kernel /\ buffer.parts[2] = h.waldo
        /\ B => buffer.parts[key] = h.key
        /\ C => buffer.parts[offset] = h.offset
        /\ D => buffer.parts[length] = h.length
        /\ E => buffer.parts[algorithm] = h.algorithm
    <3>1. buffer.parts = Parts(h)
      BY <2>4 DEF Parts
    <3> HIDE DEF buffer
    <3> QED
      BY <3>1, PartsFound
  <2>6. BufferToStructure(buffer)
        = [kernel |-> h.kernel, waldo |-> IF A THEN h.waldo ELSE 0, key |-> h.key,
           offset |-> h.offset, length |-> h.length, algorithm |-> h.algorithm,
           set |-> h.set]
    <3> HIDE DEF buffer
    <3> QED
      BY <1>2, <2>4, <2>5 DEF BufferToStructure, ReadAt
  <2>7. Restored(h)
        = [kernel |-> h.kernel, waldo |-> IF A THEN h.waldo ELSE 0, key |-> h.key,
           offset |-> h.offset, length |-> h.length, algorithm |-> h.algorithm,
           set |-> h.set]
    BY <1>2 DEF Restored, Header
  <2> QED
    BY <2>6, <2>7
<1> QED
  BY <1>1, <1>2

-----------------------------------------------------------------------------

\* What SessionSpeaksItsKey says of one session.
Speaks(p, s) ==
    /\ s.key = NoKey => s.guid = NullGuid
    /\ s.key # NoKey => /\ s.guid = GuidOf[s.key]
                        /\ s.file \in FilesOf[p]
                        /\ s.key \in KeysIn[s.file]

SessionInv == \A p \in Phones : Speaks(p, session[p])

\* The links of a chain are scanned keysets; their keys are all there while
\* somebody holds the provider.
ChainInv ==
    \A p \in Phones : \A i \in DOMAIN chain[p] :
        /\ chain[p][i].file \in FilesOf[p]
        /\ chain[p][i].keys \subseteq KeysIn[chain[p][i].file]
        /\ held[p] # {} => chain[p][i].keys = KeysIn[chain[p][i].file]

\* The reference count is the number of callers that hold the provider.
CountInv ==
    \A p \in Phones : IsFiniteSet(held[p]) /\ iRefCount[p] = Cardinality(held[p])

\* Nobody was given more links than there are; who let go has none.
ListedInv ==
    \A p \in Phones : \A c \in Callers :
        /\ listed[p][c] =< Len(chain[p])
        /\ c \notin held[p] => listed[p][c] = 0

\* The header of a datagram says which bytes its body was encrypted with.
SentInv ==
    \A d \in sent : d.size > 0 =>
        /\ d.body.guid \in Guids
        /\ BufferToStructure(d.header).key = d.body.guid
        /\ BufferToStructure(d.header).offset = d.body.offset
        /\ BufferToStructure(d.header).length = d.body.size

Inv ==
    /\ TypeOK
    /\ SessionInv
    /\ ChainInv
    /\ CountInv
    /\ ListedInv
    /\ SentInv
    /\ HeardAsSent

-----------------------------------------------------------------------------

\* A non-empty set of natural numbers has a least element.
LEMMA LeastElement ==
    ASSUME NEW T, T \subseteq Nat, T # {}
    PROVE  \E i \in T : \A j \in T : i =< j
<1>1. IsWellFoundedOn(OpToRel(<, Nat), Nat)
  BY NatLessThanWellFounded
<1>2. PICK i \in T : \A j \in T : ~ (<<j, i>> \in OpToRel(<, Nat))
  BY <1>1, WFMin
<1>3. \A j \in T : ~ (j < i)
  BY <1>2 DEF OpToRel
<1> QED
  BY <1>3

\* The keyset found for a key is one of the phone's, and has the key.
LEMMA FileForHasKey ==
    ASSUME TypeOK, ChainInv, NEW p \in Phones, NEW k \in Keys, Listing(p, k) # {}
    PROVE  FileFor(p, k) \in FilesOf[p] /\ k \in KeysIn[FileFor(p, k)]
<1>1. Listing(p, k) \subseteq DOMAIN chain[p] /\ DOMAIN chain[p] \subseteq Nat
  BY DEF TypeOK, Listing
<1>2. \E i \in Listing(p, k) : \A j \in Listing(p, k) : i =< j
  BY <1>1, LeastElement
<1>3. PICK i \in Listing(p, k) : FileFor(p, k) = chain[p][i].file
  BY <1>2 DEF FileFor
<1> QED
  BY <1>1, <1>3 DEF Listing, ChainInv

\* ACP_SetSessionKey leaves a session that speaks its key, also when it fails.
LEMMA SetKeySpeaks ==
    ASSUME TypeOK, ChainInv, SessionInv, NEW p \in Phones, NEW k \in Keys,
           NEW s \in AfterSetSessionKey(p, k)
    PROVE  s \in Session /\ Speaks(p, s)
<1>1. session[p] \in Session /\ Speaks(p, session[p])
  BY DEF TypeOK, SessionInv
<1>2. CASE s = session[p]
  BY <1>1, <1>2
<1>3. CASE s # session[p]
  <2> DEFINE mounted == [session[p] EXCEPT !.file = FileFor(p, k)]
  <2>1. /\ Listing(p, k) # {} /\ session[p].file = NoFile
        /\ s \in {mounted, [mounted EXCEPT !.key = k, !.guid = GuidOf[k]]}
    BY <1>3 DEF AfterSetSessionKey
  <2>2. FileFor(p, k) \in FilesOf[p] /\ k \in KeysIn[FileFor(p, k)]
    BY <2>1, FileForHasKey
  <2>3. FilesOf[p] \subseteq Files /\ NoFile \notin FilesOf[p]
    BY ProtocolAssumption DEF Files
  <2>4. session[p].key = NoKey /\ session[p].guid = NullGuid
    BY <1>1, <2>1, <2>3 DEF Speaks
  <2>5. mounted \in Session
    BY <1>1, <2>2, <2>3 DEF Session
  <2>6. GuidOf[k] \in Guids /\ k # NoKey
    BY ProtocolAssumption
  <2>7. CASE s = mounted
    <3>1. s.key = NoKey /\ s.guid = NullGuid
      BY <1>1, <2>4, <2>7 DEF Session
    <3> QED
      BY <2>5, <2>7, <3>1 DEF Speaks
  <2>8. CASE s = [mounted EXCEPT !.key = k, !.guid = GuidOf[k]]
    <3>1. s \in Session
      BY <2>5, <2>6, <2>8 DEF Session
    <3>2. s.key = k /\ s.guid = GuidOf[k] /\ s.file = FileFor(p, k)
      BY <1>1, <2>8 DEF Session
    <3> QED
      BY <2>2, <2>6, <3>1, <3>2 DEF Speaks
  <2> QED
    BY <2>1, <2>7, <2>8
<1> QED
  BY <1>2, <1>3

-----------------------------------------------------------------------------

\* No provider, no sessions, no datagrams.
LEMMA InitInv == Init => Inv
<1> SUFFICES ASSUME Init
             PROVE  Inv
  OBVIOUS
<1>1. NoSession \in Session /\ NoBytes \in Bytes
  <2>1. 0 \in 0 .. Limit64 - 1
    BY HeaderAssumption
  <2> QED
    BY <2>1 DEF NoSession, Session, NoBytes, Bytes
<1>2. TypeOK
  BY <1>1, ProtocolAssumption DEF Init, TypeOK, NothingHeard
<1>3. SessionInv
  BY DEF Init, SessionInv, Speaks, NoSession
<1>4. CountInv
  BY FS_EmptySet DEF Init, CountInv
<1>5. ChainInv /\ ListedInv /\ SentInv /\ HeardAsSent
  BY DEF Init, ChainInv, ListedInv, SentInv, HeardAsSent, NothingHeard
<1> QED
  BY <1>2, <1>3, <1>4, <1>5 DEF Inv

\* Somebody takes hold of a provider, whose chain is whole or empty.
LEMMA CreateProviderInv ==
    ASSUME Inv, NEW p \in Phones, NEW c \in CallersOf[p], CreateProvider(p, c)
    PROVE  Inv'
<1>1. c \in Callers
  BY DEF Callers
<1>2. /\ IsFiniteSet(held[p]) /\ iRefCount[p] = Cardinality(held[p])
      /\ held'[p] = held[p] \cup {c} /\ c \notin held[p]
  BY DEF Inv, TypeOK, CountInv, CreateProvider
<1>3. TypeOK'
  BY <1>1 DEF Inv, TypeOK, CreateProvider, traffic
<1>4. CountInv'
  <2>1. IsFiniteSet(held'[p]) /\ iRefCount'[p] = Cardinality(held'[p])
    <3>1. Cardinality(held[p] \cup {c}) = Cardinality(held[p]) + 1
          /\ IsFiniteSet(held[p] \cup {c})
      BY <1>2, FS_AddElement
    <3> QED
      BY <1>2, <3>1 DEF Inv, TypeOK, CreateProvider
  <2>2. ASSUME NEW q \in Phones, q # p
        PROVE  held'[q] = held[q] /\ iRefCount'[q] = iRefCount[q]
    BY <2>2 DEF Inv, TypeOK, CreateProvider
  <2> QED
    BY <2>1, <2>2 DEF Inv, CountInv
<1>5. ChainInv'
  <2>1. held[p] = {} => chain[p] = <<>>
    BY <1>2, FS_EmptySet DEF CreateProvider
  <2>2. \A q \in Phones : q # p => held'[q] = held[q]
    BY DEF Inv, TypeOK, CreateProvider
  <2>3. chain' = chain
    BY DEF CreateProvider
  <2> QED
    BY <2>1, <2>2, <2>3 DEF Inv, ChainInv
<1>6. ListedInv'
  BY DEF Inv, TypeOK, ListedInv, CreateProvider
<1>7. SessionInv' /\ SentInv' /\ HeardAsSent'
  BY DEF Inv, SessionInv, Speaks, SentInv, HeardAsSent, CreateProvider, traffic
<1> QED
  BY <1>3, <1>4, <1>5, <1>6, <1>7 DEF Inv

\* What is left of a chain are links of it, the first one without its keys.
LEMMA RemainsType ==
    ASSUME NEW links \in Seq(Link), NEW left \in Remains(links)
    PROVE  /\ left \in Seq(Link)
           /\ \A i \in DOMAIN left : \E j \in DOMAIN links :
                /\ left[i].file = links[j].file
                /\ left[i].keys \subseteq links[j].keys
<1>1. CASE left = <<>>
  BY <1>1
<1>2. CASE left # <<>>
  <2>1. PICK n \in DOMAIN links : 
          left = <<[links[n] EXCEPT !.keys = {}]>> \o SubSeq(links, n + 1, Len(links))
    BY <1>2 DEF Remains
  <2> DEFINE first == [links[n] EXCEPT !.keys = {}]
             rest == SubSeq(links, n + 1, Len(links))
  <2>2. links[n] \in Link /\ n \in 1 .. Len(links) /\ Len(links) \in Nat
    OBVIOUS
  <2>3. first \in Link /\ first.file = links[n].file /\ first.keys = {}
    BY <2>2 DEF Link
  <2>4. /\ rest \in Seq(Link) /\ Len(rest) = Len(links) - n
        /\ \A i \in 1 .. Len(rest) : rest[i] = links[n + i]
    BY <2>2
  <2>5. /\ left \in Seq(Link) /\ Len(left) = 1 + Len(rest) /\ left[1] = first
        /\ \A i \in 2 .. Len(left) : left[i] = rest[i - 1]
    BY <2>1, <2>3, <2>4
  <2>6. ASSUME NEW i \in DOMAIN left
        PROVE  \E j \in DOMAIN links : /\ left[i].file = links[j].file
                                       /\ left[i].keys \subseteq links[j].keys
    <3>1. CASE i = 1
      BY <2>2, <2>3, <2>5, <3>1
    <3>2. CASE i # 1
      <4>1. i \in 2 .. Len(left) /\ i - 1 \in 1 .. Len(rest)
        BY <2>4, <2>5, <3>2
      <4>2. left[i] = rest[i - 1] /\ rest[i - 1] = links[n + (i - 1)]
        BY <2>4, <2>5, <4>1
      <4>3. n + (i - 1) \in DOMAIN links
        <5> HIDE DEF rest
        <5> QED
          BY <2>2, <2>4, <4>1
      <4> QED
        BY <4>2, <4>3
    <3> QED
      BY <3>1, <3>2
  <2> QED
    BY <2>5, <2>6
<1> QED
  BY <1>1, <1>2

\* Somebody lets go; the last one takes the chain apart, as far as it goes.
LEMMA CloseProviderInv ==
    ASSUME Inv, NEW p \in Phones, NEW c \in CallersOf[p], CloseProvider(p, c)
    PROVE  Inv'
<1>1. /\ IsFiniteSet(held[p]) /\ iRefCount[p] = Cardinality(held[p])
      /\ held'[p] = held[p] \ {c} /\ c \in held[p] /\ c \in Callers
      /\ Cardinality(held[p]) \in Nat
  BY FS_CardinalityType DEF Inv, TypeOK, CountInv, CloseProvider, Callers
<1>2. /\ IsFiniteSet(held[p] \ {c})
      /\ Cardinality(held[p] \ {c}) = iRefCount[p] - 1
      /\ iRefCount[p] - 1 \in Nat
  <2>1. Cardinality(held[p]) # 0
    BY <1>1, FS_EmptySet
  <2>2. /\ IsFiniteSet(held[p] \ {c})
        /\ Cardinality(held[p] \ {c}) = Cardinality(held[p]) - 1
    BY <1>1, FS_RemoveElement
  <2> QED
    BY <1>1, <2>1, <2>2
<1>3. PICK left \in IF LastReference(p) THEN Remains(chain[p]) ELSE {chain[p]} :
           chain' = [chain EXCEPT ![p] = left]
  BY DEF CloseProvider
<1>4. chain[p] \in Seq(Link)
  BY DEF Inv, TypeOK
<1>5. left \in Seq(Link)
  BY <1>3, <1>4, RemainsType
<1>6. TypeOK'
  BY <1>1, <1>2, <1>3, <1>5 DEF Inv, TypeOK, CloseProvider, traffic
<1>7. CountInv'
  <2>1. IsFiniteSet(held'[p]) /\ iRefCount'[p] = Cardinality(held'[p])
    BY <1>1, <1>2 DEF Inv, TypeOK, CloseProvider
  <2>2. \A q \in Phones : q # p => held'[q] = held[q] /\ iRefCount'[q] = iRefCount[q]
    BY DEF Inv, TypeOK, CloseProvider
  <2> QED
    BY <2>1, <2>2 DEF Inv, CountInv
<1>8. /\ chain'[p] = left
      /\ \A q \in Phones : q # p => /\ chain'[q] = chain[q] /\ held'[q] = held[q]
                                    /\ listed'[q] = listed[q]
  BY <1>3 DEF Inv, TypeOK, CloseProvider
<1>9. /\ listed'[p][c] = 0
      /\ \A d \in Callers : d # c => listed'[p][d] = listed[p][d]
  BY <1>1 DEF Inv, TypeOK, CloseProvider
<1>10. ASSUME LastReference(p)
       PROVE  ChainInv' /\ ListedInv'
  <2>1. held'[p] = {}
    BY <1>1, <1>2, <1>10, FS_EmptySet DEF LastReference
  <2>2. left \in Remains(chain[p])
    BY <1>3, <1>10
  <2>3. \A i \in DOMAIN left : /\ left[i].file \in FilesOf[p]
                               /\ left[i].keys \subseteq KeysIn[left[i].file]
    BY <1>4, <2>2, RemainsType DEF Inv, ChainInv
  <2>4. ChainInv'
    BY <1>8, <2>1, <2>3 DEF Inv, ChainInv
  <2>5. \A d \in Callers : listed'[p][d] = 0
    BY <1>1, <1>9, <2>1 DEF Inv, ListedInv
  <2>6. ListedInv'
    BY <1>5, <1>8, <2>5 DEF Inv, ListedInv
  <2> QED
    BY <2>4, <2>6
<1>11. ASSUME ~LastReference(p)
       PROVE  ChainInv' /\ ListedInv'
  <2>1. left = chain[p]
    BY <1>3, <1>11
  <2>2. ChainInv'
    BY <1>1, <1>8, <2>1 DEF Inv, ChainInv
  <2>3. ListedInv'
    BY <1>1, <1>4, <1>8, <1>9, <2>1 DEF Inv, ListedInv
  <2> QED
    BY <2>2, <2>3
<1>12. SessionInv' /\ SentInv' /\ HeardAsSent'
  BY DEF Inv, SessionInv, Speaks, SentInv, HeardAsSent, CloseProvider, traffic
<1> QED
  BY <1>6, <1>7, <1>10, <1>11, <1>12 DEF Inv

\* A scan puts whole links in front of the chain.
LEMMA ScanPathInv ==
    ASSUME Inv, NEW p \in Phones, NEW c \in CallersOf[p], ScanPathForKeys(p, c)
    PROVE  Inv'
<1>1. PICK files \in Scanned(p) :
           chain' = [chain EXCEPT ![p] =
              [i \in DOMAIN files |-> [file |-> files[i], keys |-> KeysIn[files[i]]]] \o @]
  BY DEF ScanPathForKeys
<1> DEFINE links == [i \in DOMAIN files |-> [file |-> files[i], keys |-> KeysIn[files[i]]]]
<1>2. PICK m \in Nat : files \in [1 .. m -> FilesOf[p]]
  BY <1>1 DEF Scanned, SeqOf
<1>3. FilesOf[p] \subseteq Files
  BY DEF Files
<1>4. /\ links \in Seq(Link) /\ Len(links) = m
      /\ \A i \in 1 .. m : /\ links[i].file \in FilesOf[p]
                           /\ links[i].keys = KeysIn[links[i].file]
  <2>1. DOMAIN files = 1 .. m
    BY <1>2
  <2>2. \A i \in 1 .. m : [file |-> files[i], keys |-> KeysIn[files[i]]] \in Link
    BY <1>2, <1>3, ProtocolAssumption DEF Link
  <2>3. links \in [1 .. m -> Link]
    BY <2>1, <2>2
  <2> QED
    BY <1>2, <2>1, <2>3
<1>5. chain[p] \in Seq(Link)
  BY DEF Inv, TypeOK
<1> HIDE DEF links
<1>6. /\ links \o chain[p] \in Seq(Link)
      /\ Len(links \o chain[p]) = m + Len(chain[p])
      /\ \A i \in 1 .. m : (links \o chain[p])[i] = links[i]
      /\ \A i \in m + 1 .. m + Len(chain[p]) : (links \o chain[p])[i] = chain[p][i - m]
  BY <1>2, <1>4, <1>5
<1>7. chain' = [chain EXCEPT ![p] = links \o chain[p]]
  BY <1>1 DEF links
<1>8. /\ chain'[p] = links \o chain[p]
      /\ \A q \in Phones : q # p => chain'[q] = chain[q]
      /\ held' = held /\ listed' = listed
  BY <1>7 DEF Inv, TypeOK, ScanPathForKeys
<1>9. TypeOK'
  BY <1>6, <1>7 DEF Inv, TypeOK, ScanPathForKeys, traffic
<1>10. ChainInv'
  <2>1. ASSUME NEW i \in DOMAIN chain'[p]
        PROVE  /\ chain'[p][i].file \in FilesOf[p]
               /\ chain'[p][i].keys \subseteq KeysIn[chain'[p][i].file]
               /\ held'[p] # {} => chain'[p][i].keys = KeysIn[chain'[p][i].file]
    <3>1. i \in 1 .. m + Len(chain[p])
      BY <1>6, <1>8
    <3>2. CASE i \in 1 .. m
      BY <1>4, <1>6, <1>8, <3>2
    <3>3. CASE i \in m + 1 .. m + Len(chain[p])
      <4>1. i - m \in DOMAIN chain[p] /\ chain'[p][i] = chain[p][i - m]
        BY <1>2, <1>5, <1>6, <1>8, <3>3
      <4> QED
        BY <1>8, <4>1 DEF Inv, ChainInv
    <3> QED
      BY <1>2, <1>5, <3>1, <3>2, <3>3
  <2>2. ASSUME NEW q \in Phones, q # p, NEW i \in DOMAIN chain'[q]
        PROVE  /\ chain'[q][i].file \in FilesOf[q]
               /\ chain'[q][i].keys \subseteq KeysIn[chain'[q][i].file]
               /\ held'[q] # {} => chain'[q][i].keys = KeysIn[chain'[q][i].file]
    BY <1>8, <2>2 DEF Inv, ChainInv
  <2>3. \A q \in Phones : \A i \in DOMAIN chain'[q] :
          /\ chain'[q][i].file \in FilesOf[q]
          /\ chain'[q][i].keys \subseteq KeysIn[chain'[q][i].file]
          /\ held'[q] # {} => chain'[q][i].keys = KeysIn[chain'[q][i].file]
    BY <2>1, <2>2
  <2> QED
    BY <2>3 DEF ChainInv
<1>11. ListedInv'
  <2>1. Len(chain'[p]) >= Len(chain[p])
    BY <1>2, <1>5, <1>6, <1>8
  <2>2. \A d \in Callers : listed[p][d] \in Nat
    BY DEF Inv, TypeOK
  <2>3. Len(chain'[p]) \in Nat /\ Len(chain[p]) \in Nat
    BY <1>2, <1>5, <1>6, <1>8
  <2> QED
    BY <1>8, <2>1, <2>2, <2>3 DEF Inv, ListedInv
<1>12. CountInv' /\ SessionInv' /\ SentInv' /\ HeardAsSent'
  BY DEF Inv, CountInv, SessionInv, Speaks, SentInv, HeardAsSent, ScanPathForKeys, traffic
<1> QED
  BY <1>9, <1>10, <1>11, <1>12 DEF Inv

\* A caller is given the links there are.
LEMMA GetAllKeysInv ==
    ASSUME Inv, NEW p \in Phones, NEW c \in CallersOf[p], GetAllKeys(p, c)
    PROVE  Inv'
<1>1. c \in Callers /\ c \in held[p] /\ Len(chain[p]) \in Nat
  BY DEF Inv, TypeOK, Callers, GetAllKeys
<1>2. TypeOK'
  BY <1>1 DEF Inv, TypeOK, GetAllKeys, traffic
<1>3. ListedInv'
  BY <1>1 DEF Inv, TypeOK, ListedInv, GetAllKeys
<1>4. ChainInv' /\ CountInv' /\ SessionInv' /\ SentInv' /\ HeardAsSent'
  BY DEF Inv, ChainInv, CountInv, SessionInv, Speaks, SentInv, HeardAsSent, GetAllKeys,
         traffic
<1> QED
  BY <1>2, <1>3, <1>4 DEF Inv

-----------------------------------------------------------------------------

\* A step that changes the session of one phone, to one that speaks its key, and
\* no provider.
LEMMA OneSession ==
    ASSUME Inv, UNCHANGED provider, NEW p \in Phones, NEW s \in Session, Speaks(p, s),
           session' = [session EXCEPT ![p] = s]
    PROVE  /\ session' \in [Phones -> Session]
           /\ SessionInv' /\ ChainInv' /\ CountInv' /\ ListedInv'
<1>1. session \in [Phones -> Session]
  BY DEF Inv, TypeOK
<1>2. session'[p] = s /\ \A q \in Phones : q # p => session'[q] = session[q]
  BY <1>1
<1>3. SessionInv'
  BY <1>2 DEF Inv, SessionInv, Speaks
<1>4. ChainInv' /\ CountInv' /\ ListedInv'
  BY DEF Inv, ChainInv, CountInv, ListedInv, provider
<1> QED
  BY <1>1, <1>3, <1>4

\* A session begins and ends without a key.
LEMMA OpenCloseInv ==
    ASSUME Inv, NEW p \in Phones, CreateSession(p) \/ CloseSession(p)
    PROVE  Inv'
<1>1. NoBytes \in Bytes
  BY HeaderAssumption DEF NoBytes, Bytes
<1>2. NoSession \in Session /\ Speaks(p, NoSession)
  BY <1>1 DEF NoSession, Session, Speaks
<1>3. NewSession \in Session /\ Speaks(p, NewSession)
  BY <1>1 DEF NewSession, NoSession, Session, Speaks
<1>4. PICK s \in {NoSession, NewSession} : session' = [session EXCEPT ![p] = s]
  BY DEF CreateSession, CloseSession
<1>5. UNCHANGED <<provider, traffic>>
  BY DEF CreateSession, CloseSession
<1>6. /\ session' \in [Phones -> Session]
      /\ SessionInv' /\ ChainInv' /\ CountInv' /\ ListedInv'
  BY <1>2, <1>3, <1>4, <1>5, OneSession
<1>7. TypeOK' /\ SentInv' /\ HeardAsSent'
  BY <1>5, <1>6 DEF Inv, TypeOK, SentInv, HeardAsSent, provider, traffic
<1> QED
  BY <1>6, <1>7 DEF Inv

\* ACP_SetSessionKey.
LEMMA SetSessionKeyInv ==
    ASSUME Inv, NEW p \in Phones, NEW k \in Keys, SetSessionKey(p, k)
    PROVE  Inv'
<1>1. PICK s \in AfterSetSessionKey(p, k) : session' = [session EXCEPT ![p] = s]
  BY DEF SetSessionKey
<1>2. UNCHANGED <<provider, traffic>>
  BY DEF SetSessionKey
<1>3. s \in Session /\ Speaks(p, s)
  BY SetKeySpeaks DEF Inv
<1>4. /\ session' \in [Phones -> Session]
      /\ SessionInv' /\ ChainInv' /\ CountInv' /\ ListedInv'
  BY <1>1, <1>2, <1>3, OneSession
<1>5. TypeOK' /\ SentInv' /\ HeardAsSent'
  BY <1>2, <1>4 DEF Inv, TypeOK, SentInv, HeardAsSent, provider, traffic
<1> QED
  BY <1>4, <1>5 DEF Inv

\* A message is encrypted: its header says which bytes with.
LEMMA EncryptInv ==
    ASSUME Inv, NEW size \in Sizes, Encrypt(size)
    PROVE  Inv'
<1> DEFINE s == session[Sender]
           h == HeaderOf(s, size)
           d == [header |-> StructureToBuffer(h), body |-> Body(s, size), size |-> size]
<1>1. /\ s \in Session /\ Speaks(Sender, s) /\ Sender \in Phones /\ size \in Nat
      /\ MayEncrypt(s, size)
  BY ProtocolAssumption DEF Inv, TypeOK, SessionInv, Phones, Encrypt
<1>2. /\ sent' = sent \cup {d}
      /\ bytesUsed' = [bytesUsed EXCEPT ![s.file][s.key] = @ + size]
      /\ session' = [session EXCEPT ![Sender] = [s EXCEPT !.body = Body(s, size)]]
      /\ UNCHANGED <<provider, heard>>
  BY DEF Encrypt
<1>3. s.key \in Keys /\ s.file \in Files /\ s.guid = GuidOf[s.key] /\ s.guid \in Guids
  BY <1>1, ProtocolAssumption DEF Speaks, MayEncrypt, Session, Files
<1>4. bytesUsed[s.file][s.key] \in 0 .. TotalBytes
  BY <1>3 DEF Inv, TypeOK
<1>5. bytesUsed[s.file][s.key] + size \in 0 .. TotalBytes
  BY <1>1, <1>4, ProtocolAssumption DEF MayEncrypt
<1>6. Body(s, size) \in Bytes
  <2>1. CASE size = 0
    BY <1>1, <2>1 DEF Body, Session
  <2>2. CASE size # 0
    <3>1. /\ bytesUsed[s.file][s.key] \in 0 .. Limit64 - 1
          /\ size \in 0 .. Limit64 - 1
      BY <1>1, <1>4, <1>5, ProtocolAssumption, HeaderAssumption
    <3> QED
      BY <1>3, <2>2, <3>1 DEF Body, Bytes
  <2> QED
    BY <2>1, <2>2
<1>7. h \in Header
  <2>1. /\ 0 \in 0 .. Limit32 - 1 /\ 0 \in 0 .. Limit8 - 1 /\ 0 \in 0 .. Limit64 - 1
    BY HeaderAssumption
  <2>2. /\ (IF size = 0 THEN 0 ELSE Body(s, size).offset) \in 0 .. Limit64 - 1
        /\ Body(s, size).size \in 0 .. Limit64 - 1
    BY <1>6, <2>1 DEF Bytes
  <2>3. s.guid \in Guids \cup {NullGuid}
    BY <1>3
  <2> QED
    BY <2>1, <2>2, <2>3 DEF HeaderOf, Header
<1>8. BufferToStructure(d.header) = Restored(h)
  BY <1>7, HeaderRestored
<1>9. /\ Restored(h) \in Header
      /\ Restored(h).key = h.key /\ Restored(h).offset = h.offset
      /\ Restored(h).length = h.length
  <2>1. h.set = {} /\ h.waldo = 0
    BY DEF HeaderOf
  <2>2. Restored(h) = [h EXCEPT !.waldo = IF h.kernel = NullGuid THEN 0 ELSE @]
    BY <2>1 DEF Restored
  <2>3. Restored(h) = h
    BY <1>7, <2>1, <2>2 DEF Header
  <2> QED
    BY <1>7, <2>3
<1>10. size > 0 => /\ h.key = Body(s, size).guid /\ Body(s, size).guid \in Guids
                   /\ h.offset = Body(s, size).offset /\ h.length = Body(s, size).size
  BY <1>1, <1>3 DEF HeaderOf, Body
<1> HIDE DEF h
<1>11. SentInv'
  BY <1>2, <1>8, <1>9, <1>10 DEF Inv, SentInv
<1>12. [s EXCEPT !.body = Body(s, size)] \in Session
       /\ Speaks(Sender, [s EXCEPT !.body = Body(s, size)])
  BY <1>1, <1>6 DEF Session, Speaks
<1> HIDE DEF s
<1>13. /\ session' \in [Phones -> Session]
       /\ SessionInv' /\ ChainInv' /\ CountInv' /\ ListedInv'
  BY <1>1, <1>2, <1>12, OneSession
<1>14. bytesUsed' \in [Files -> [Keys -> 0 .. TotalBytes]]
  BY <1>2, <1>3, <1>5 DEF Inv, TypeOK
<1>15. TypeOK'
  BY <1>1, <1>2, <1>6, <1>8, <1>9, <1>13, <1>14 DEF Inv, TypeOK, provider
<1>16. HeardAsSent'
  BY <1>2 DEF Inv, HeardAsSent
<1> QED
  BY <1>11, <1>13, <1>15, <1>16 DEF Inv

\* A datagram is decrypted with the bytes its header names.
LEMMA DecryptInv ==
    ASSUME Inv, NEW d \in sent, Decrypt(d)
    PROVE  Inv'
<1> DEFINE h == BufferToStructure(d.header)
<1>1. /\ h \in Header /\ d.body \in Bytes /\ d.size \in Nat /\ Receiver \in Phones
      /\ session[Receiver] \in Session /\ Speaks(Receiver, session[Receiver])
  BY DEF Inv, TypeOK, SessionInv, Phones
<1>2. PICK s \in IF NeedsKey(session[Receiver], h)
                 THEN AfterSetSessionKey(Receiver, HexOf[h.key]) ELSE {session[Receiver]} :
          /\ session' = [session EXCEPT ![Receiver] = s]
          /\ heard' = IF ~NeedsKey(s, h) /\ MayDecrypt(s, h)
                      THEN [with |-> [guid |-> GuidOf[s.key], offset |-> h.offset,
                                      size |-> h.length],
                            body |-> d.body, size |-> d.size]
                      ELSE heard
  BY DEF Decrypt
<1>3. UNCHANGED <<provider, bytesUsed, sent>>
  BY DEF Decrypt
<1> HIDE DEF h
<1>4. s \in Session /\ Speaks(Receiver, s)
  <2>1. CASE NeedsKey(session[Receiver], h)
    <3>1. HexOf[h.key] \in Keys
      BY <1>1, <2>1, ProtocolAssumption DEF NeedsKey, Header
    <3>2. s \in AfterSetSessionKey(Receiver, HexOf[h.key])
      BY <1>2, <2>1
    <3> QED
      BY <1>1, <3>1, <3>2, SetKeySpeaks DEF Inv
  <2>2. CASE ~NeedsKey(session[Receiver], h)
    BY <1>1, <1>2, <2>2
  <2> QED
    BY <2>1, <2>2
<1>5. /\ session' \in [Phones -> Session]
      /\ SessionInv' /\ ChainInv' /\ CountInv' /\ ListedInv'
  BY <1>1, <1>2, <1>3, <1>4, OneSession
<1>6. /\ heard' \in [with : Bytes, body : Bytes, size : Nat]
      /\ HeardAsSent'
  <2>1. CASE ~NeedsKey(s, h) /\ MayDecrypt(s, h)
    <3> DEFINE with == [guid |-> GuidOf[s.key], offset |-> h.offset, size |-> h.length]
    <3>1. heard' = [with |-> with, body |-> d.body, size |-> d.size]
      BY <1>2, <2>1
    <3>2. s.key \in Keys /\ s.guid = GuidOf[s.key] /\ s.guid \in Guids
      BY <1>4, <2>1, ProtocolAssumption DEF MayDecrypt, Session, Speaks
    <3>3. with \in Bytes
      BY <1>1, <3>2 DEF Bytes, Header
    <3>4. ASSUME d.size > 0
          PROVE  with = d.body
      <4>1. /\ d.body.guid \in Guids /\ h.key = d.body.guid
            /\ h.offset = d.body.offset /\ h.length = d.body.size
        BY <3>4 DEF Inv, SentInv, h
      <4>2. h.key = s.guid
        BY <2>1, <4>1, HeaderAssumption DEF NeedsKey
      <4> QED
        BY <1>1, <3>2, <4>1, <4>2 DEF Bytes
    <3> HIDE DEF with
    <3> QED
      BY <1>1, <3>1, <3>3, <3>4 DEF HeardAsSent
  <2>2. CASE ~(~NeedsKey(s, h) /\ MayDecrypt(s, h))
    BY <1>2, <2>2 DEF Inv, TypeOK, HeardAsSent
  <2> QED
    BY <2>1, <2>2
<1>7. TypeOK' /\ SentInv'
  BY <1>3, <1>5, <1>6 DEF Inv, TypeOK, SentInv, provider
<1> QED
  BY <1>5, <1>6, <1>7 DEF Inv

-----------------------------------------------------------------------------

\* Every step keeps the invariant.
LEMMA NextInv == Inv /\ [Next]_vars => Inv'
<1> SUFFICES ASSUME Inv, [Next]_vars
             PROVE  Inv'
  OBVIOUS
<1>1. ASSUME NEW p \in Phones, NEW c \in CallersOf[p],
             \/ CreateProvider(p, c) \/ CloseProvider(p, c)
             \/ ScanPathForKeys(p, c) \/ GetAllKeys(p, c)
      PROVE  Inv'
  BY <1>1, CreateProviderInv, CloseProviderInv, ScanPathInv, GetAllKeysInv
<1>2. ASSUME NEW p \in Phones,
             \/ CreateSession(p) \/ CloseSession(p)
             \/ \E k \in Keys : SetSessionKey(p, k)
      PROVE  Inv'
  BY <1>2, OpenCloseInv, SetSessionKeyInv
<1>3. ASSUME NEW size \in Sizes, Encrypt(size)
      PROVE  Inv'
  BY <1>3, EncryptInv
<1>4. ASSUME NEW d \in sent, Decrypt(d)
      PROVE  Inv'
  BY <1>4, DecryptInv
<1>5. CASE UNCHANGED vars
  BY <1>5 DEF Inv, TypeOK, SessionInv, Speaks, ChainInv, CountInv, ListedInv, SentInv,
              HeardAsSent, vars, provider, traffic
<1> QED
  BY <1>1, <1>2, <1>3, <1>4, <1>5 DEF Next

\* The invariant holds in every state.
LEMMA InvHolds == Spec => []Inv
BY InitInv, NextInv, PTL DEF Spec

\* The variables of both phones keep their types, for any keys and keysets.
THEOREM TypeCorrect == Spec => []TypeOK
<1>1. Inv => TypeOK
  BY DEF Inv
<1> QED
  BY <1>1, InvHolds, PTL

\* A session's GUID is that of the key the kernel uses, of a keyset that has it.
THEOREM SessionsCorrect == Spec => []SessionSpeaksItsKey
<1>1. Inv => SessionSpeaksItsKey
  BY DEF Inv, SessionInv, Speaks, SessionSpeaksItsKey
<1> QED
  BY <1>1, InvHolds, PTL

\* Every datagram that is decrypted is decrypted with the bytes of the pad it was
\* encrypted with, in whichever order and however often the network delivers, for
\* any pads and any copies of them: what the header says survives its encoding.
THEOREM DatagramsCorrect == Spec => []HeardAsSent
<1>1. Inv => HeardAsSent
  BY DEF Inv
<1> QED
  BY <1>1, InvHolds, PTL

\* No caller's keys are freed while it holds the provider.
THEOREM ListingsCorrect == Spec => []ListedKeysStayValid
<1>1. ASSUME Inv
      PROVE  ListedKeysStayValid
  <2> SUFFICES ASSUME NEW p \in Phones, NEW c \in held[p]
               PROVE  /\ listed[p][c] =< Len(chain[p])
                      /\ \A i \in Len(chain[p]) - listed[p][c] + 1 .. Len(chain[p]) :
                             chain[p][i].keys = KeysIn[chain[p][i].file]
    BY DEF ListedKeysStayValid
  <2>1. /\ c \in Callers /\ held[p] # {} /\ listed[p][c] =< Len(chain[p])
        /\ listed[p][c] \in Nat /\ chain[p] \in Seq(Link)
    BY <1>1 DEF Inv, TypeOK, ListedInv
  <2>2. \A i \in Len(chain[p]) - listed[p][c] + 1 .. Len(chain[p]) : i \in DOMAIN chain[p]
    BY <2>1
  <2> QED
    BY <1>1, <2>1, <2>2 DEF Inv, ChainInv
<1> QED
  BY <1>1, InvHolds, PTL

=============================================================================
