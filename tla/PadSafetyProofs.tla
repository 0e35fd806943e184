-------------------------- MODULE PadSafetyProofs --------------------------
(***************************************************************************)
(* What the key engine guarantees of its pads, and what that takes.        *)
(* getKeyBytes reads the position it encrypts from outside of its          *)
(* transaction.  If positions hold from there to the BEGIN (PositionsHold) *)
(* the pad is safe, however calls overlap; and they do hold when calls do  *)
(* not overlap at all, or when every session has keys of its own           *)
(* (KeysApart).                                                            *)
(*                                                                         *)
(* That no byte is used twice is not inductive.  It needs the recorded     *)
(* position to be past every used byte (UseInv), past the bytes that cache *)
(* entries and a call that has just committed hold, these ranges to be     *)
(* unused and apart (EntryInv, PlanOK), and a call that has not committed  *)
(* to start at the recorded position (PlanOK) and to write a row that is   *)
(* the end of its plan (IsRowAt); a rewind then moves the position to the  *)
(* first byte that is left of the range that ends there (RewindOK).        *)
(* Most steps change none of that (Quiet); the four that do - Serve,       *)
(* Detach, Commit, RewindCommit - have a lemma each.                       *)
(*                                                                         *)
(* From that invariant it follows whose each byte is (OwnerInv), and that  *)
(* the engine implements OneTimePad: the same four steps are Spend (Serve, *)
(* Detach), Reserve (Commit) and HandBack (RewindCommit), and what any     *)
(* other step does to the ownership of bytes is Lose.                      *)
(***************************************************************************)
EXTENDS PadEngineProofs, PadRefinement

\* The rows and the uses stay, and no entry gets bytes to encrypt with.
Quiet == 
    /\ UNCHANGED <<rows, uses>>
    /\ \A t \in Sessions, i \in Slots : 
         cache'[t][i].inUse /\ cache'[t][i].isEncrypt => cache'[t][i] = cache[t][i]

\* Untouched, in the next state: of bytes that this state names.
UntouchedNext(k, lo, hi) == 
    /\ hi <= GlobalOf(rowChunk'[k], rowOffset'[k]) 
    /\ \A p \in Bytes : lo <= p /\ p < hi => uses'[k][p] = 0

PadInv == RowInv /\ UseInv /\ EntryInv

\* A quiet step keeps what is known of rows, uses and entries.
LEMMA QuietKeepsPad == 
    ASSUME PadInv, Quiet 
    PROVE  PadInv'
<1>1. \A k : Recorded(k)' = Recorded(k) /\ RowOf(k)' = RowOf(k)
  BY DEF Quiet, rows, Recorded, RowOf
<1>2. RowInv' /\ UseInv'
  BY <1>1 DEF Quiet, PadInv, RowInv, UseInv
<1>3. \A k, lo, hi : Untouched(k, lo, hi)' <=> Untouched(k, lo, hi)
  BY <1>1 DEF Quiet, Untouched
<1>4. \A t \in Sessions, i \in Slots, k \in Keys : 
        HoldsBytes(cache'[t][i], k) => cache'[t][i] = cache[t][i]
  BY DEF Quiet, HoldsBytes
<1>5. EntryInv'
  BY <1>3, <1>4 DEF PadInv, EntryInv
<1>6. QED
  BY <1>2, <1>5 DEF PadInv

\* A quiet step of another session keeps a session's plan and rewind.
LEMMA QuietKeepsPlan == 
    ASSUME Quiet, NEW t \in Sessions, PlanOK(t), RewindOK(t), Local(t)' = Local(t)
    PROVE  PlanOK(t)' /\ RewindOK(t)'
<1>1. \A k : Recorded(k)' = Recorded(k)
  BY DEF Quiet, rows, Recorded
<1>2. \A k, lo, hi : Untouched(k, lo, hi)' <=> Untouched(k, lo, hi)
  BY <1>1 DEF Quiet, Untouched
<1>3. \A u \in Sessions, i \in Slots : \A k :
        HoldsBytes(cache'[u][i], k) => cache'[u][i] = cache[u][i]
  BY DEF Quiet, HoldsBytes
<1>4. PlanStart(t)' = PlanStart(t) 
  BY DEF Local, PlanStart
<1>5. PlanOK(t)'
  BY <1>1, <1>2, <1>3, <1>4 DEF PlanOK, Local, At
<1>6. RewindOK(t)'
  BY <1>1 DEF RewindOK, Local, At, LastTaken
<1>7. QED
  BY <1>5, <1>6

\* A call that holds no plan and rewinds nothing.
LEMMA PlanlessOK == 
    ASSUME NEW t \in Sessions, 
           pc'[t] \notin {"attach", "begin", "read", "advance", "commit", "detach", "rewindCommit"}
    PROVE  PlanOK(t)' /\ RewindOK(t)'
BY DEF PlanOK, RewindOK, At
-----------------------------------------------------------------------------
(* The steps that change the row, the uses, or what the cache holds.       *)

\* Freeing an entry without a rewind is quiet: its bytes are lost.
LEMMA FreeSlotQuiet == 
    ASSUME TypeOK, NEW s \in Sessions, FreeSlot(s), UNCHANGED <<rows, uses>>
    PROVE  Quiet
BY DEF Quiet, FreeSlot, NoEntry, TypeOK

\* All steps are quiet but the four that use bytes or write the row.
LEMMA QuietSteps == 
    ASSUME TypeOK, CallInv, NEW s \in Sessions, Call(s) \/ Step(s) \/ Crash(s),
           ~(request[s].encrypt /\ (Serve(s) \/ Detach(s))), ~Commit(s), ~RewindCommit(s)
    PROVE  Quiet
<1>a. ASSUME UNCHANGED <<rows, uses, cache>> PROVE Quiet
  BY <1>a DEF Quiet
<1>1. CASE Call(s)
  BY <1>1, <1>a DEF Call, CreateSession, CloseSession, MountKeySet, UnmountKeySet, SetSessionKey, 
     Encrypt, Decrypt, StartCipher, rows, history
<1>2. CASE \/ Lookup(s) \/ Fill(s) \/ ReadKeyInfo(s) \/ Attach(s) \/ Begin(s) \/ ReadChunks(s)
           \/ AdvanceOffset(s) \/ Cleanup(s) \/ Unmount(s)
  BY <1>2, <1>a DEF Lookup, Fill, ReadKeyInfo, Attach, Begin, ReadChunks, AdvanceOffset, Cleanup, 
     Unmount, rows, history
<1>3. CASE Serve(s)
  BY <1>3, <1>a DEF Serve, Deliver, rows, history
<1>4. CASE Detach(s)
  <2>1. UNCHANGED <<rows, uses>>
    BY <1>4 DEF Detach, Deliver, rows, history
  <2>2. CASE fetch[s].fill /\ ~UNCHANGED cache
    <3>1. PICK e : cache' = [cache EXCEPT ![s][slot[s]] = e] /\ e.isEncrypt = request[s].encrypt
      BY <1>4, <2>2 DEF Detach
    <3>2. QED
      BY <1>4, <2>1, <3>1 DEF Quiet, TypeOK
  <2>3. QED
    BY <1>4, <1>a, <2>1, <2>2 DEF Detach
<1>5. CASE Evict(s) \/ Rewind(s)
  BY <1>5, <1>a, FreeSlotQuiet DEF Evict, Rewind, rows, history
<1>6. CASE Crash(s)
  <2>1. \A t \in Sessions, i \in Slots : t # s => cache'[t][i] = cache[t][i]
    BY <1>6 DEF Crash, TypeOK
  <2>2. \A i \in Slots : ~cache'[s][i].inUse
    BY <1>6 DEF Crash, NoEntry, TypeOK
  <2>3. QED
    BY <1>6, <2>1, <2>2 DEF Crash, Quiet, history
<1>7. QED
  BY <1>1, <1>2, <1>3, <1>4, <1>5, <1>6 DEF Step

\* The recorded position is a natural number.
LEMMA RecordedType == 
    ASSUME TypeOK, NEW k \in Keys PROVE Recorded(k) \in Nat
BY GlobalOfType DEF Recorded, TypeOK

\* What an entry has left is a range of natural numbers.
LEMMA EntryBounds == 
    ASSUME TypeOK, NEW t \in Sessions, NEW i \in Slots
    PROVE  /\ cache[t][i] \in Entry
           /\ FirstLeft(cache[t][i]) \in Nat 
           /\ EndLeft(cache[t][i]) = FirstLeft(cache[t][i]) + cache[t][i].workSize
           /\ cache[t][i].workSize \in Nat
BY DEF TypeOK, Entry, FirstLeft, EndLeft

\* The bytes handed out are those that Deliver names, and are used once more.
LEMMA DeliveredBytes == 
    ASSUME TypeOK, NEW k \in Keys, NEW p \in Nat, NEW n \in Nat, 
           uses' = [uses EXCEPT ![k] = 
                      [q \in Bytes |-> IF q \in p .. p + n - 1 THEN @[q] + 1 ELSE @[q]]]
    PROVE  \A j \in Keys, q \in Bytes : 
              uses'[j][q] = IF j = k /\ p <= q /\ q < p + n THEN uses[j][q] + 1 ELSE uses[j][q]
BY DEF TypeOK, Bytes

\* Bytes lo to hi are spent, of which no entry that is left in the cache has one.
LEMMA SpendKeepsPad == 
    ASSUME TypeOK, PadInv, NEW k \in Keys, NEW lo \in Nat, NEW n \in Nat, NEW hi \in Nat, 
           lo + n <= hi, Untouched(k, lo, hi), UNCHANGED rows,
           \A j \in Keys, q \in Bytes : 
              uses'[j][q] = IF j = k /\ lo <= q /\ q < lo + n THEN uses[j][q] + 1 ELSE uses[j][q]
    PROVE  /\ RowInv' /\ UseInv'
           /\ \A j \in Keys, a \in Nat, b \in Nat : 
                 Untouched(j, a, b) /\ (j = k => b <= lo \/ lo + n <= a) => UntouchedNext(j, a, b)
<1>1. \A j : Recorded(j)' = Recorded(j) /\ RowOf(j)' = RowOf(j)
  BY DEF rows, Recorded, RowOf
<1>2. \A j \in Keys, q \in Bytes : uses[j][q] \in Nat /\ q \in Int
  BY PadEngineAssumption DEF TypeOK, Bytes
<1>3. RowInv'
  BY <1>1 DEF PadInv, RowInv
<1>4. Recorded(k) \in Nat
  BY RecordedType
<1>5. UseInv'
  BY <1>1, <1>2, <1>4 DEF PadInv, UseInv, Untouched
<1>6. ASSUME NEW j \in Keys, NEW a \in Nat, NEW b \in Nat, 
             Untouched(j, a, b), j = k => b <= lo \/ lo + n <= a
      PROVE  UntouchedNext(j, a, b)
  BY <1>1, <1>2, <1>6 DEF Untouched, UntouchedNext, Recorded
<1>7. QED
  BY <1>3, <1>5, <1>6

\* Serve hands the first of an entry's bytes to the caller.
LEMMA ServeKeepsPad == 
    ASSUME TypeOK, CallInv, PadInv, NEW s \in Sessions, Serve(s), request[s].encrypt
    PROVE  PadInv'
<1> DEFINE e == cache[s][slot[s]]
           n == request[s].size
           k == sessionKey[s]
           lo == FirstLeft(e)
           held == [keyId |-> e.keyId, from |-> e.from + e.workOffset, 
                    to |-> e.from + e.workOffset + e.workSize]
<1>1. /\ At(s, "serve") /\ slot[s] \in Slots /\ k \in Keys
      /\ HoldsBytes(e, k) /\ n \in Nat /\ n > 0 /\ n <= e.workSize
  BY DEF Serve, CallInv, CallOK, At, TypeOK, Request, HoldsBytes
<1>2. lo \in Nat /\ EndLeft(e) \in Nat /\ lo + n <= EndLeft(e) /\ e \in Entry
  BY <1>1, EntryBounds
<1>3. Untouched(k, lo, EndLeft(e)) /\ e.offset = e.from
  BY <1>1 DEF PadInv, EntryInv
<1>4. UNCHANGED rows /\ cache' = [cache EXCEPT ![s][slot[s]] = UseEntry(e, n)]
  BY DEF Serve
<1>5. \A j \in Keys, q \in Bytes : 
        uses'[j][q] = IF j = k /\ lo <= q /\ q < lo + n THEN uses[j][q] + 1 ELSE uses[j][q]
  <2>1. uses' = [uses EXCEPT ![held.keyId] = 
                   [q \in Bytes |-> IF q \in lo .. lo + n - 1 THEN @[q] + 1 ELSE @[q]]]
    BY DEF Serve, Deliver, FirstLeft
  <2>2. held.keyId = k
    BY <1>1 DEF HoldsBytes
  <2>3. uses' = [uses EXCEPT ![k] = 
                   [q \in Bytes |-> IF q \in lo .. lo + n - 1 THEN @[q] + 1 ELSE @[q]]]
    BY <2>1, <2>2
  <2> HIDE DEF k, lo, n
  <2>4. QED
    BY <1>1, <1>2, <2>3, DeliveredBytes
<1>6. /\ RowInv' /\ UseInv'
      /\ \A j \in Keys, a \in Nat, b \in Nat : 
            Untouched(j, a, b) /\ (j = k => b <= lo \/ lo + n <= a) => UntouchedNext(j, a, b)
  BY <1>1, <1>2, <1>3, <1>4, <1>5, SpendKeepsPad
<1>7. \A t \in Sessions, i \in Slots : <<t, i>> # <<s, slot[s]>> => cache'[t][i] = cache[t][i]
  BY <1>4 DEF TypeOK
<1>8. cache'[s][slot[s]] = UseEntry(e, n)
  BY <1>1, <1>4 DEF TypeOK
<1>9. ASSUME NEW j \in Keys, HoldsBytes(UseEntry(e, n), j)
      PROVE  /\ j = k 
             /\ UseEntry(e, n).offset = UseEntry(e, n).from
             /\ FirstLeft(UseEntry(e, n)) = lo + n 
             /\ EndLeft(UseEntry(e, n)) = EndLeft(e)
  <2>1. UseEntry(e, n) = [e EXCEPT !.workOffset = @ + n, !.workSize = @ - n]
    BY <1>9 DEF UseEntry, HoldsBytes, NoEntry
  <2>2. QED
    BY <1>1, <1>2, <1>3, <1>9, <2>1 DEF HoldsBytes, FirstLeft, EndLeft, Entry
<1>10. \A t \in Sessions, i \in Slots : 
         HoldsBytes(cache[t][i], k) /\ <<t, i>> # <<s, slot[s]>> => 
            Apart(lo, EndLeft(e), cache[t][i]) /\ Apart(FirstLeft(cache[t][i]), EndLeft(cache[t][i]), e)
  BY <1>1 DEF PadInv, EntryInv
<1>11. ASSUME NEW t \in Sessions, NEW i \in Slots, NEW j \in Keys, HoldsBytes(cache'[t][i], j)
       PROVE  LET c == cache'[t][i]
              IN  /\ c.offset = c.from
                  /\ UntouchedNext(j, FirstLeft(c), EndLeft(c))
                  /\ \A u \in Sessions, m \in Slots : 
                       HoldsBytes(cache'[u][m], j) /\ <<u, m>> # <<t, i>> => 
                          Apart(FirstLeft(c), EndLeft(c), cache'[u][m])
  <2>a. \A u \in Sessions, m \in Slots : FirstLeft(cache[u][m]) \in Nat /\ EndLeft(cache[u][m]) \in Nat
    BY EntryBounds
  <2>1. CASE <<t, i>> = <<s, slot[s]>>
    <3>1. /\ cache'[t][i] = UseEntry(e, n) /\ j = k
          /\ UseEntry(e, n).offset = UseEntry(e, n).from
          /\ FirstLeft(UseEntry(e, n)) = lo + n 
          /\ EndLeft(UseEntry(e, n)) = EndLeft(e)
      BY <1>8, <1>9, <1>11, <2>1
    <3>2. Untouched(k, lo + n, EndLeft(e))
      BY <1>2, <1>3, <1>1 DEF Untouched, Bytes
    <3>3. UntouchedNext(k, lo + n, EndLeft(e))
      <4>1. \A a \in Nat, b \in Nat : Untouched(k, a, b) /\ lo + n <= a => UntouchedNext(k, a, b)
        BY <1>1, <1>6
      <4>2. lo + n \in Nat
        BY <1>1, <1>2
      <4>3. QED
        BY <1>2, <3>2, <4>1, <4>2
    <3>4. ASSUME NEW u \in Sessions, NEW m \in Slots, HoldsBytes(cache'[u][m], j), <<u, m>> # <<t, i>>
          PROVE  Apart(lo + n, EndLeft(e), cache'[u][m])
      BY <1>1, <1>2, <1>7, <1>10, <2>1, <2>a, <3>1, <3>4 DEF Apart
    <3>5. QED
      BY <3>1, <3>3, <3>4
  <2>2. CASE <<t, i>> # <<s, slot[s]>>
    <3> DEFINE c == cache[t][i]
    <3>1. cache'[t][i] = c /\ HoldsBytes(c, j)
      BY <1>7, <1>11, <2>2
    <3>2. c.offset = c.from /\ Untouched(j, FirstLeft(c), EndLeft(c))
      BY <3>1 DEF PadInv, EntryInv
    <3>3. j = k => EndLeft(c) <= lo \/ lo + n <= FirstLeft(c)
      BY <1>1, <1>2, <1>10, <2>2, <2>a, <3>1 DEF Apart
    <3>4. UntouchedNext(j, FirstLeft(c), EndLeft(c))
      BY <1>6, <2>a, <3>2, <3>3
    <3>5. ASSUME NEW u \in Sessions, NEW m \in Slots, HoldsBytes(cache'[u][m], j), <<u, m>> # <<t, i>>
          PROVE  Apart(FirstLeft(c), EndLeft(c), cache'[u][m])
      <4>1. CASE <<u, m>> = <<s, slot[s]>>
        BY <1>1, <1>2, <1>8, <1>9, <1>10, <2>2, <2>a, <3>1, <3>5, <4>1 DEF Apart
      <4>2. CASE <<u, m>> # <<s, slot[s]>>
        BY <1>7, <3>1, <3>5, <4>2 DEF PadInv, EntryInv
      <4>3. QED
        BY <4>1, <4>2
    <3>6. QED
      BY <3>1, <3>2, <3>4, <3>5
  <2>3. QED
    BY <2>1, <2>2
<1>12. EntryInv'
  BY <1>11 DEF EntryInv, Untouched, UntouchedNext, Recorded
<1>13. QED
  BY <1>6, <1>12 DEF PadInv

\* Detach makes fetched bytes an entry, or hands them to the caller.
LEMMA DetachKeepsPad == 
    ASSUME TypeOK, CallInv, PadInv, NEW s \in Sessions, PlanOK(s), Detach(s), request[s].encrypt
    PROVE  PadInv'
<1> DEFINE k == sessionKey[s]
           p == PlanStart(s)
           n == fetch[s].size
           e == [inUse |-> TRUE, keyId |-> k, isEncrypt |-> request[s].encrypt,
                 offset |-> p, from |-> p, workOffset |-> 0, workSize |-> n]
           held == [keyId |-> k, from |-> p, to |-> p + n]
<1>1. /\ At(s, "detach") /\ k \in Keys /\ p \in Nat /\ n \in Nat /\ UNCHANGED rows
      /\ fetch[s].fill => slot[s] \in Slots /\ ~cache[s][slot[s]].inUse
  BY PlanType DEF Detach, CallInv, CallOK, Fetching, At
<1>2. /\ Untouched(k, p, p + n)
      /\ \A t \in Sessions, j \in Slots : HoldsBytes(cache[t][j], k) => Apart(p, p + n, cache[t][j])
  BY <1>1 DEF PlanOK
<1>3. \A t \in Sessions, i \in Slots : FirstLeft(cache[t][i]) \in Nat /\ EndLeft(cache[t][i]) \in Nat
  BY EntryBounds
<1>4. CASE UNCHANGED <<cache, uses>>
  BY <1>1, <1>4, QuietKeepsPad DEF Quiet
<1>5. CASE fetch[s].fill /\ cache' = [cache EXCEPT ![s][slot[s]] = e] /\ UNCHANGED uses
  <2>1. \A t \in Sessions, i \in Slots : <<t, i>> # <<s, slot[s]>> => cache'[t][i] = cache[t][i]
    BY <1>5 DEF TypeOK
  <2>2. cache'[s][slot[s]] = e
    BY <1>1, <1>5 DEF TypeOK
  <2>3. FirstLeft(e) = p /\ EndLeft(e) = p + n
    BY <1>1 DEF FirstLeft, EndLeft
  <2>4. \A j : Recorded(j)' = Recorded(j) /\ RowOf(j)' = RowOf(j)
    BY <1>1 DEF rows, Recorded, RowOf
  <2>5. RowInv' /\ UseInv'
    BY <1>5, <2>4 DEF PadInv, RowInv, UseInv
  <2>6. \A j, a, b : Untouched(j, a, b) => UntouchedNext(j, a, b)
    BY <1>1, <1>5 DEF Untouched, UntouchedNext, Recorded, rows
  <2>7. ASSUME NEW t \in Sessions, NEW i \in Slots, NEW j \in Keys, HoldsBytes(cache'[t][i], j)
        PROVE  LET c == cache'[t][i]
               IN  /\ c.offset = c.from
                   /\ UntouchedNext(j, FirstLeft(c), EndLeft(c))
                   /\ \A u \in Sessions, m \in Slots : 
                        HoldsBytes(cache'[u][m], j) /\ <<u, m>> # <<t, i>> => 
                           Apart(FirstLeft(c), EndLeft(c), cache'[u][m])
    <3>1. CASE <<t, i>> = <<s, slot[s]>>
      <4>1. cache'[t][i] = e /\ j = k
        BY <2>2, <2>7, <3>1 DEF HoldsBytes
      <4>2. ASSUME NEW u \in Sessions, NEW m \in Slots, HoldsBytes(cache'[u][m], j), 
                   <<u, m>> # <<t, i>>
            PROVE  Apart(p, p + n, cache'[u][m])
        BY <1>2, <2>1, <3>1, <4>1, <4>2
      <4>3. UntouchedNext(j, p, p + n)
        BY <1>2, <2>6, <4>1
      <4>4. e.offset = e.from
        OBVIOUS
      <4>5. QED
        BY <2>3, <4>1, <4>2, <4>3, <4>4
    <3>2. CASE <<t, i>> # <<s, slot[s]>>
      <4> DEFINE c == cache[t][i]
      <4>1. cache'[t][i] = c /\ HoldsBytes(c, j)
        BY <2>1, <2>7, <3>2
      <4>2. c.offset = c.from /\ UntouchedNext(j, FirstLeft(c), EndLeft(c))
        BY <4>1, <2>6 DEF PadInv, EntryInv
      <4>3. ASSUME NEW u \in Sessions, NEW m \in Slots, HoldsBytes(cache'[u][m], j), 
                   <<u, m>> # <<t, i>>
            PROVE  Apart(FirstLeft(c), EndLeft(c), cache'[u][m])
        <5>1. CASE <<u, m>> = <<s, slot[s]>>
          <6>1. cache'[u][m] = e /\ j = k
            BY <2>2, <4>3, <5>1 DEF HoldsBytes
          <6>2. Apart(p, p + n, c)
            BY <1>2, <4>1, <6>1
          <6>3. QED
            BY <1>1, <1>3, <2>3, <6>1, <6>2 DEF Apart
        <5>2. CASE <<u, m>> # <<s, slot[s]>>
          BY <2>1, <4>1, <4>3, <5>2 DEF PadInv, EntryInv
        <5>3. QED
          BY <5>1, <5>2
      <4>4. QED
        BY <4>1, <4>2, <4>3
    <3>3. QED
      BY <3>1, <3>2
  <2>8. EntryInv'
    BY <2>7 DEF EntryInv, Untouched, UntouchedNext, Recorded
  <2>9. QED
    BY <2>5, <2>8 DEF PadInv
<1>6. CASE Deliver(s, p, p, n, held) /\ UNCHANGED cache
  <2>1. \A j \in Keys, q \in Bytes : 
          uses'[j][q] = IF j = k /\ p <= q /\ q < p + n THEN uses[j][q] + 1 ELSE uses[j][q]
    <3>1. uses' = [uses EXCEPT ![k] = 
                     [q \in Bytes |-> IF q \in p .. p + n - 1 THEN @[q] + 1 ELSE @[q]]]
      BY <1>6 DEF Deliver
    <3> HIDE DEF p, n
    <3>2. QED
      BY <1>1, <3>1, DeliveredBytes
  <2>2. p + n \in Nat /\ p + n <= p + n
    BY <1>1
  <2>3. /\ RowInv' /\ UseInv'
        /\ \A j \in Keys, a \in Nat, b \in Nat : 
              Untouched(j, a, b) /\ (j = k => b <= p \/ p + n <= a) => UntouchedNext(j, a, b)
    BY <1>1, <1>2, <2>1, <2>2, SpendKeepsPad
  <2>4. ASSUME NEW t \in Sessions, NEW i \in Slots, NEW j \in Keys, HoldsBytes(cache[t][i], j)
        PROVE  UntouchedNext(j, FirstLeft(cache[t][i]), EndLeft(cache[t][i]))
    <3>1. Untouched(j, FirstLeft(cache[t][i]), EndLeft(cache[t][i]))
      BY <2>4 DEF PadInv, EntryInv
    <3>2. j = k => EndLeft(cache[t][i]) <= p \/ p + n <= FirstLeft(cache[t][i])
      BY <1>1, <1>2, <1>3, <2>4 DEF Apart
    <3>3. QED
      BY <1>3, <2>3, <3>1, <3>2
  <2>5. EntryInv'
    BY <1>6, <2>4 DEF PadInv, EntryInv, Untouched, UntouchedNext, Recorded
  <2>6. QED
    BY <2>3, <2>5 DEF PadInv
<1>7. QED
  BY <1>4, <1>5, <1>6 DEF Detach, history

\* A row that says more bytes are taken.
LEMMA CommitKeepsPad == 
    ASSUME TypeOK, CallInv, PadInv, NEW s \in Sessions, PlanOK(s), Commit(s)
    PROVE  PadInv'
<1> DEFINE k == sessionKey[s]
           end == PlanStart(s) + fetch[s].size
           row == pending[s]
<1>1. At(s, "commit") /\ k \in Keys /\ request[s].encrypt /\ UNCHANGED <<uses, cache>>
  BY DEF Commit, CallInv, CallOK, Fetching, At, history
<1>2. PlanStart(s) = Recorded(k) /\ end <= TotalBytes /\ IsRowAt(row, end)
  BY <1>1 DEF PlanOK, At
<1>3. Recorded(k) <= end /\ Recorded(k) \in Nat /\ end \in Nat
  BY <1>1, <1>2, PlanType
<1>4. CASE UNCHANGED rows
  BY <1>1, <1>4, QuietKeepsPad DEF Quiet
<1>5. CASE WriteRow(k, row)
  <2>1. /\ rowChunk'[k] = row.chunkId /\ rowOffset'[k] = row.offset /\ usedBytes'[k] = row.used
        /\ \A j \in Keys : j # k => /\ rowChunk'[j] = rowChunk[j]
                                    /\ rowOffset'[j] = rowOffset[j]
                                    /\ usedBytes'[j] = usedBytes[j]
    BY <1>1, <1>5 DEF WriteRow, TypeOK
  <2>2. GlobalOf(rowChunk'[k], rowOffset'[k]) = end
    BY <1>2, <2>1 DEF IsRowAt
  <2>3. ASSUME NEW j \in Keys
        PROVE  /\ IsRowAt([chunkId |-> rowChunk'[j], offset |-> rowOffset'[j], used |-> usedBytes'[j]],
                          GlobalOf(rowChunk'[j], rowOffset'[j]))
               /\ GlobalOf(rowChunk'[j], rowOffset'[j]) <= TotalBytes
               /\ Recorded(j) <= GlobalOf(rowChunk'[j], rowOffset'[j])
    <3>1. CASE j = k
      BY <1>2, <1>3, <2>1, <2>2, <3>1 DEF IsRowAt
    <3>2. CASE j # k
      BY <2>1, <3>2, RecordedType DEF PadInv, RowInv, RowOf, Recorded
    <3>3. QED
      BY <3>1, <3>2
  <2>4. RowInv'
    BY <2>3 DEF RowInv, RowOf, Recorded
  <2>5. \A j \in Keys : Recorded(j) \in Nat /\ GlobalOf(rowChunk'[j], rowOffset'[j]) \in Nat
    BY <1>3, <2>1, <2>2, RecordedType DEF Recorded
  <2>6. UseInv'
    <3>1. ASSUME NEW j \in Keys, NEW q \in Bytes 
          PROVE  uses[j][q] <= 1 /\ (uses[j][q] # 0 => q < GlobalOf(rowChunk'[j], rowOffset'[j]))
      <4>1. q \in Int
        BY PadEngineAssumption DEF Bytes
      <4>2. uses[j][q] <= 1 /\ (uses[j][q] # 0 => q < Recorded(j))
        BY DEF PadInv, UseInv
      <4>3. Recorded(j) <= GlobalOf(rowChunk'[j], rowOffset'[j])
        BY <2>3
      <4>4. Recorded(j) \in Nat /\ GlobalOf(rowChunk'[j], rowOffset'[j]) \in Nat
        BY <2>5
      <4>5. QED
        BY <4>1, <4>2, <4>3, <4>4
    <3>2. QED
      BY <1>1, <3>1 DEF UseInv, Recorded
  <2>7. ASSUME NEW j \in Keys, NEW a \in Nat, NEW b \in Nat, Untouched(j, a, b)
        PROVE  UntouchedNext(j, a, b)
    <3>1. Recorded(j) <= GlobalOf(rowChunk'[j], rowOffset'[j])
      BY <2>3
    <3>2. Recorded(j) \in Nat /\ GlobalOf(rowChunk'[j], rowOffset'[j]) \in Nat
      BY <2>5
    <3>3. b <= GlobalOf(rowChunk'[j], rowOffset'[j])
      BY <2>7, <3>1, <3>2 DEF Untouched
    <3>4. QED
      BY <1>1, <2>7, <3>3 DEF Untouched, UntouchedNext
  <2>8. \A t \in Sessions, i \in Slots : FirstLeft(cache[t][i]) \in Nat /\ EndLeft(cache[t][i]) \in Nat
    BY EntryBounds
  <2>9. \A t \in Sessions, i \in Slots, j \in Keys : HoldsBytes(cache[t][i], j) => 
           UntouchedNext(j, FirstLeft(cache[t][i]), EndLeft(cache[t][i]))
    BY <2>7, <2>8 DEF PadInv, EntryInv
  <2>10. EntryInv'
    BY <1>1, <2>9 DEF PadInv, EntryInv, Untouched, UntouchedNext, Recorded
  <2>11. QED
    BY <2>4, <2>6, <2>10 DEF PadInv
<1>6. QED
  BY <1>4, <1>5 DEF Commit, rows

\* A row that gives back what an entry has left, which is freed.
LEMMA RewindKeepsPad == 
    ASSUME TypeOK, CallInv, PadInv, NEW s \in Sessions, RewindOK(s), RewindCommit(s)
    PROVE  PadInv'
<1> DEFINE e == cache[s][slot[s]]
           k == e.keyId
           row == pending[s]
           back == FirstLeft(e)
<1>1. /\ At(s, "rewindCommit") /\ slot[s] \in Slots /\ k \in Keys /\ HoldsBytes(e, k) 
      /\ UNCHANGED uses /\ FreeSlot(s)
  BY DEF RewindCommit, CallInv, CallOK, EntriesOK, HoldsBytes, At, history
<1>2. e.offset = e.from /\ Untouched(k, back, EndLeft(e))
  BY <1>1 DEF PadInv, EntryInv
<1>3. EndLeft(e) = Recorded(k) /\ IsRowAt(row, back)
  BY <1>1, <1>2 DEF RewindOK, LastTaken, EndLeft
<1>4. /\ e.workSize \in Nat /\ back \in Nat /\ EndLeft(e) = back + e.workSize 
      /\ Recorded(k) \in Nat /\ Recorded(k) <= TotalBytes
  BY <1>1, EntryBounds, RecordedType DEF PadInv, RowInv
<1>5. CASE UNCHANGED rows
  BY <1>1, <1>5, FreeSlotQuiet, QuietKeepsPad
<1>6. CASE WriteRow(k, row)
  <2>1. /\ rowChunk'[k] = row.chunkId /\ rowOffset'[k] = row.offset /\ usedBytes'[k] = row.used
        /\ \A j \in Keys : j # k => /\ rowChunk'[j] = rowChunk[j]
                                    /\ rowOffset'[j] = rowOffset[j]
                                    /\ usedBytes'[j] = usedBytes[j]
    BY <1>1, <1>6 DEF WriteRow, TypeOK
  <2>2. GlobalOf(rowChunk'[k], rowOffset'[k]) = back
    BY <1>3, <2>1 DEF IsRowAt
  <2>3. ASSUME NEW j \in Keys
        PROVE  /\ IsRowAt([chunkId |-> rowChunk'[j], offset |-> rowOffset'[j], used |-> usedBytes'[j]],
                          GlobalOf(rowChunk'[j], rowOffset'[j]))
               /\ GlobalOf(rowChunk'[j], rowOffset'[j]) <= TotalBytes
    <3>1. CASE j = k
      BY <1>3, <1>4, <2>1, <2>2, <3>1, PadEngineAssumption DEF IsRowAt
    <3>2. CASE j # k
      BY <2>1, <3>2 DEF PadInv, RowInv, RowOf, Recorded
    <3>3. QED
      BY <3>1, <3>2
  <2>4. RowInv'
    BY <2>3 DEF RowInv, RowOf, Recorded
  <2>5. ASSUME NEW j \in Keys, NEW q \in Bytes 
        PROVE  uses[j][q] <= 1 /\ (uses[j][q] # 0 => q < GlobalOf(rowChunk'[j], rowOffset'[j]))
    <3>1. CASE j = k
      <4>1. q \in Int /\ uses[k][q] <= 1 /\ (uses[k][q] # 0 => q < Recorded(k))
        BY <1>1, PadEngineAssumption DEF PadInv, UseInv, Bytes
      <4>2. back <= q /\ q < EndLeft(e) => uses[k][q] = 0
        BY <1>2 DEF Untouched
      <4>3. QED
        BY <1>3, <1>4, <2>2, <3>1, <4>1, <4>2
    <3>2. CASE j # k
      BY <2>1, <3>2 DEF PadInv, UseInv, Recorded
    <3>3. QED
      BY <3>1, <3>2
  <2>6. UseInv'
    BY <1>1, <2>5 DEF UseInv, Recorded
  <2>7. \A t \in Sessions, i \in Slots : 
          /\ <<t, i>> # <<s, slot[s]>> => cache'[t][i] = cache[t][i]
          /\ cache'[s][slot[s]] = NoEntry
    BY <1>1 DEF FreeSlot, TypeOK
  <2>8. ASSUME NEW t \in Sessions, NEW i \in Slots, NEW j \in Keys, HoldsBytes(cache'[t][i], j)
        PROVE  /\ cache'[t][i] = cache[t][i]
               /\ UntouchedNext(j, FirstLeft(cache[t][i]), EndLeft(cache[t][i]))
    <3> DEFINE c == cache[t][i]
    <3>1. <<t, i>> # <<s, slot[s]>> /\ cache'[t][i] = c /\ HoldsBytes(c, j)
      BY <2>7, <2>8 DEF HoldsBytes, NoEntry
    <3>2. Untouched(j, FirstLeft(c), EndLeft(c))
      BY <3>1 DEF PadInv, EntryInv
    <3>3. CASE j = k
      <4>1. Apart(FirstLeft(c), EndLeft(c), e)
        BY <1>1, <3>1, <3>3 DEF PadInv, EntryInv
      <4>2. FirstLeft(c) \in Nat /\ EndLeft(c) = FirstLeft(c) + c.workSize /\ c.workSize \in Nat
            /\ c.workSize > 0
        BY <3>1, EntryBounds DEF CallInv, EntriesOK, HoldsBytes
      <4>3. EndLeft(c) <= Recorded(k)
        BY <3>2, <3>3 DEF Untouched
      <4>4. EndLeft(c) <= back
        BY <1>3, <1>4, <4>1, <4>2, <4>3 DEF Apart
      <4>5. QED
        BY <1>1, <2>2, <3>1, <3>2, <3>3, <4>4 DEF Untouched, UntouchedNext
    <3>4. CASE j # k
      BY <1>1, <2>1, <3>1, <3>2, <3>4 DEF Untouched, UntouchedNext, Recorded
    <3>5. QED
      BY <3>1, <3>3, <3>4
  <2>9. EntryInv'
    BY <2>8 DEF PadInv, EntryInv, Untouched, UntouchedNext, Recorded
  <2>10. QED
    BY <2>4, <2>6, <2>9 DEF PadInv
<1>7. QED
  BY <1>1, <1>5, <1>6 DEF RewindCommit

\* Every step keeps what is known of rows, uses and entries.
LEMMA PadStep == 
    ASSUME TypeOK, CallInv, PadInv, NEW s \in Sessions, PlanOK(s), RewindOK(s), 
           Call(s) \/ Step(s) \/ Crash(s)
    PROVE  PadInv'
BY QuietSteps, QuietKeepsPad, ServeKeepsPad, DetachKeepsPad, CommitKeepsPad, RewindKeepsPad

-----------------------------------------------------------------------------
(* The plan and the rewind of the session that steps, and of the others.   *)

\* What others do keeps a plan and a rewind, if the position stays that the call has 
\* read, or has a transaction on, and the bytes stay untouched that it has committed.
LEMMA PlanKept == 
    ASSUME CallInv, NEW t \in Sessions, PlanOK(t), RewindOK(t), Local(t)' = Local(t),
           \A k \in Keys : HasRead(t, k) \/ InTransaction(t) => Recorded(k)' = Recorded(k),
           \A k \in Keys : HasCommitted(t, k) => 
              /\ UntouchedNext(k, PlanStart(t), PlanStart(t) + fetch[t].size)
              /\ \A u \in Sessions, j \in Slots : HoldsBytes(cache'[u][j], k) => 
                    Apart(PlanStart(t), PlanStart(t) + fetch[t].size, cache'[u][j])
    PROVE  PlanOK(t)' /\ RewindOK(t)'
<1>1. CallOK(t) /\ EntriesOK(t)
  BY DEF CallInv
<1>2. PlanStart(t)' = PlanStart(t) 
  BY DEF Local, PlanStart
<1>3. ASSUME request[t].encrypt PROVE sessionKey[t] \in Keys
  BY <1>1, <1>3 DEF CallOK, NoRequest
<1>4. PlanOK(t)'
  <2> SUFFICES ASSUME request[t].encrypt, NEW k \in Keys, k = sessionKey[t]
               PROVE  PlanOK(t)'
    BY <1>3 DEF PlanOK, Local
  <2>1. pc[t] \in {"attach", "begin", "read", "advance", "commit"} => Recorded(k)' = Recorded(k)
    BY DEF HasRead, InTransaction, At
  <2>2. At(t, "detach") => 
          /\ UntouchedNext(k, PlanStart(t), PlanStart(t) + fetch[t].size)
          /\ \A u \in Sessions, j \in Slots : HoldsBytes(cache'[u][j], k) => 
                Apart(PlanStart(t), PlanStart(t) + fetch[t].size, cache'[u][j])
    BY DEF HasCommitted
  <2>3. At(t, "detach") => Untouched(k, PlanStart(t), PlanStart(t) + fetch[t].size)'
    BY <1>2, <2>2 DEF Untouched, UntouchedNext, Recorded, Local
  <2>4. /\ pc'[t] = pc[t] /\ request'[t] = request[t] /\ fetch'[t] = fetch[t]
        /\ sessionKey'[t] = k /\ pending'[t] = pending[t]
    BY DEF Local
  <2> QED
    BY <1>2, <2>1, <2>2, <2>3, <2>4 DEF PlanOK, At
<1>5. RewindOK(t)'
  <2> SUFFICES ASSUME At(t, "rewindCommit")
               PROVE  RewindOK(t)'
    BY DEF RewindOK, Local, At
  <2>1. cache[t][slot[t]].keyId \in Keys
    BY <1>1 DEF CallOK, EntriesOK, At
  <2>2. Recorded(cache[t][slot[t]].keyId)' = Recorded(cache[t][slot[t]].keyId)
    <3>1. \A k \in Keys : Recorded(k)' = Recorded(k)
      BY DEF InTransaction, At
    <3>2. cache'[t] = cache[t] /\ slot'[t] = slot[t]
      BY DEF Local
    <3> QED
      BY <2>1, <3>1, <3>2 DEF Recorded
  <2> QED
    BY <2>2 DEF RewindOK, Local, At, LastTaken
<1> QED
  BY <1>4, <1>5

\* What Deliver hands out to encrypt is used, and nothing else is.
LEMMA DeliverKeeps == 
    ASSUME TypeOK, PadInv, UNCHANGED rows, NEW s \in Sessions, request[s].encrypt, 
           NEW k \in Keys, NEW p \in Nat, NEW n \in Nat, NEW o, NEW held, held.keyId = k, 
           Deliver(s, o, p, n, held), NEW hi \in Nat, p + n <= hi, Untouched(k, p, hi),
           NEW j \in Keys, NEW a \in Nat, NEW b \in Nat, 
           Untouched(j, a, b), j = k => b <= p \/ p + n <= a
    PROVE  UntouchedNext(j, a, b)
<1>1. uses' = [uses EXCEPT ![k] = 
                 [q \in Bytes |-> IF q \in p .. p + n - 1 THEN @[q] + 1 ELSE @[q]]]
  BY DEF Deliver
<1>2. \A i \in Keys, q \in Bytes : 
        uses'[i][q] = IF i = k /\ p <= q /\ q < p + n THEN uses[i][q] + 1 ELSE uses[i][q]
  BY <1>1, DeliveredBytes
<1> QED
  BY <1>2, SpendKeepsPad

\* Serving a session from its cache uses nothing that another has committed.
LEMMA ServeKeepsOthers == 
    ASSUME TypeOK, CallInv, PadInv, NEW s \in Sessions, NEW t \in Sessions, 
           PlanOK(t), RewindOK(t), Local(t)' = Local(t), Serve(s), request[s].encrypt
    PROVE  PlanOK(t)' /\ RewindOK(t)'
<1> DEFINE e == cache[s][slot[s]]
           n == request[s].size
           k == sessionKey[s]
           lo == FirstLeft(e)
           held == [keyId |-> e.keyId, from |-> e.from + e.workOffset, 
                    to |-> e.from + e.workOffset + e.workSize]
           P == PlanStart(t)
           E == PlanStart(t) + fetch[t].size
<1>1. /\ At(s, "serve") /\ slot[s] \in Slots /\ k \in Keys
      /\ HoldsBytes(e, k) /\ n \in Nat /\ n > 0 /\ n <= e.workSize
  BY DEF Serve, CallInv, CallOK, At, TypeOK, Request, HoldsBytes
<1>2. /\ lo \in Nat /\ EndLeft(e) \in Nat /\ lo + n <= EndLeft(e) /\ e \in Entry
      /\ P \in Nat /\ E \in Nat
  BY <1>1, EntryBounds, PlanType
<1>3. Untouched(k, lo, EndLeft(e))
  BY <1>1 DEF PadInv, EntryInv
<1>4. UNCHANGED rows /\ cache' = [cache EXCEPT ![s][slot[s]] = UseEntry(e, n)]
  BY DEF Serve
<1>5. Deliver(s, e.offset + e.workOffset, lo, n, held) /\ held.keyId = k
  BY <1>1 DEF Serve, FirstLeft, HoldsBytes
<1>6. \A u \in Sessions, m \in Slots : 
        cache'[u][m] = IF <<u, m>> = <<s, slot[s]>> THEN UseEntry(e, n) ELSE cache[u][m]
  BY <1>1, <1>4 DEF TypeOK
<1>7. ASSUME NEW j \in Keys, HoldsBytes(UseEntry(e, n), j)
      PROVE  j = k /\ FirstLeft(UseEntry(e, n)) = lo + n /\ EndLeft(UseEntry(e, n)) = EndLeft(e)
  <2>1. UseEntry(e, n) = [e EXCEPT !.workOffset = @ + n, !.workSize = @ - n]
    BY <1>7 DEF UseEntry, HoldsBytes, NoEntry
  <2>2. QED
    BY <1>1, <1>2, <1>7, <2>1 DEF HoldsBytes, FirstLeft, EndLeft, Entry
<1>8. ASSUME NEW j \in Keys, HasCommitted(t, j)
      PROVE  /\ UntouchedNext(j, P, E)
             /\ \A u \in Sessions, m \in Slots : HoldsBytes(cache'[u][m], j) => 
                   Apart(P, E, cache'[u][m])
  <2>1. /\ Untouched(j, P, E) 
        /\ \A u \in Sessions, m \in Slots : HoldsBytes(cache[u][m], j) => Apart(P, E, cache[u][m])
    BY <1>8 DEF PlanOK, HasCommitted
  <2>2. j = k => E <= lo \/ EndLeft(e) <= P
    BY <1>1, <2>1 DEF Apart
  <2>3. j = k => E <= lo \/ lo + n <= P
    BY <1>1, <1>2, <2>2
  <2>4. UntouchedNext(j, P, E)
    <3> HIDE DEF e, n, k, lo, held, P, E
    <3> QED
      BY <1>1, <1>2, <1>3, <1>4, <1>5, <2>1, <2>3, DeliverKeeps
  <2>5. ASSUME NEW u \in Sessions, NEW m \in Slots, HoldsBytes(cache'[u][m], j)
        PROVE  Apart(P, E, cache'[u][m])
    <3>1. CASE <<u, m>> = <<s, slot[s]>>
      <4>1. /\ cache'[u][m] = UseEntry(e, n) /\ j = k /\ FirstLeft(UseEntry(e, n)) = lo + n 
            /\ EndLeft(UseEntry(e, n)) = EndLeft(e)
        BY <1>6, <1>7, <2>5, <3>1
      <4> HIDE DEF e, n, k, lo, held, P, E
      <4> QED
        BY <1>1, <1>2, <2>2, <4>1 DEF Apart
    <3>2. CASE <<u, m>> # <<s, slot[s]>>
      BY <1>6, <2>1, <2>5, <3>2
    <3> QED
      BY <3>1, <3>2
  <2> QED
    BY <2>4, <2>5
<1>9. \A j : Recorded(j)' = Recorded(j)
  BY <1>4 DEF rows, Recorded
<1> HIDE DEF e, n, k, lo, held
<1> QED
  BY <1>8, <1>9, PlanKept

\* Making an entry of fetched bytes, or using them, leaves those alone that another
\* has committed.
LEMMA DetachKeepsOthers == 
    ASSUME TypeOK, CallInv, PadInv, ApartInv, NEW s \in Sessions, NEW t \in Sessions, t # s,
           PlanOK(s), PlanOK(t), RewindOK(t), Local(t)' = Local(t), Detach(s), request[s].encrypt
    PROVE  PlanOK(t)' /\ RewindOK(t)'
<1> DEFINE k == sessionKey[s]
           p == PlanStart(s)
           n == fetch[s].size
           e == [inUse |-> TRUE, keyId |-> k, isEncrypt |-> request[s].encrypt,
                 offset |-> p, from |-> p, workOffset |-> 0, workSize |-> n]
           held == [keyId |-> k, from |-> p, to |-> p + n]
           P == PlanStart(t)
           E == PlanStart(t) + fetch[t].size
<1>1. /\ At(s, "detach") /\ HasCommitted(s, k) /\ k \in Keys /\ p \in Nat /\ n \in Nat 
      /\ P \in Nat /\ E \in Nat /\ UNCHANGED rows 
      /\ fetch[s].fill => slot[s] \in Slots 
  BY PlanType DEF Detach, CallInv, CallOK, Fetching, At, HasCommitted
<1>2. Untouched(k, p, p + n)
  BY <1>1 DEF PlanOK
<1>3. \A j : Recorded(j)' = Recorded(j)
  BY <1>1 DEF rows, Recorded
<1>4. ASSUME NEW j \in Keys, HasCommitted(t, j)
      PROVE  /\ Untouched(j, P, E) 
             /\ \A u \in Sessions, m \in Slots : HoldsBytes(cache[u][m], j) => 
                   Apart(P, E, cache[u][m])
             /\ j = k => E <= p \/ p + n <= P
  <2>1. /\ Untouched(j, P, E) 
        /\ \A u \in Sessions, m \in Slots : HoldsBytes(cache[u][m], j) => Apart(P, E, cache[u][m])
    BY <1>4 DEF PlanOK, HasCommitted
  <2>2. j = k => E <= p \/ p + n <= P
    BY <1>1, <1>4 DEF ApartInv
  <2> QED
    BY <2>1, <2>2
<1>5. CASE UNCHANGED <<cache, uses>>
  BY <1>1, <1>5, QuietKeepsPlan DEF Quiet
<1>6. CASE fetch[s].fill /\ cache' = [cache EXCEPT ![s][slot[s]] = e] /\ UNCHANGED uses
  <2>1. \A u \in Sessions, m \in Slots : 
          cache'[u][m] = IF <<u, m>> = <<s, slot[s]>> THEN e ELSE cache[u][m]
    BY <1>1, <1>6 DEF TypeOK
  <2>2. FirstLeft(e) = p /\ EndLeft(e) = p + n /\ \A j \in Keys : HoldsBytes(e, j) => j = k
    BY <1>1 DEF FirstLeft, EndLeft, HoldsBytes
  <2> HIDE DEF k, p, n, e, held, P, E
  <2>3. ASSUME NEW j \in Keys, HasCommitted(t, j)
        PROVE  /\ UntouchedNext(j, P, E)
               /\ \A u \in Sessions, m \in Slots : HoldsBytes(cache'[u][m], j) => 
                     Apart(P, E, cache'[u][m])
    <3>1. UntouchedNext(j, P, E)
      BY <1>1, <1>4, <1>6, <2>3 DEF Untouched, UntouchedNext, Recorded, rows
    <3>2. ASSUME NEW u \in Sessions, NEW m \in Slots, HoldsBytes(cache'[u][m], j)
          PROVE  Apart(P, E, cache'[u][m])
      <4>1. CASE <<u, m>> = <<s, slot[s]>>
        BY <1>1, <1>4, <2>1, <2>2, <2>3, <3>2, <4>1 DEF Apart
      <4>2. CASE <<u, m>> # <<s, slot[s]>>
        BY <1>4, <2>1, <2>3, <3>2, <4>2
      <4> QED
        BY <4>1, <4>2
    <3> QED
      BY <3>1, <3>2
  <2> QED
    BY <1>3, <2>3, PlanKept DEF P, E
<1>7. CASE Deliver(s, p, p, n, held) /\ UNCHANGED cache
  <2>1. held.keyId = k /\ p + n \in Nat /\ p + n <= p + n
    BY <1>1
  <2> HIDE DEF k, p, n, e, held, P, E
  <2>2. ASSUME NEW j \in Keys, HasCommitted(t, j)
        PROVE  UntouchedNext(j, P, E)
    BY <1>1, <1>2, <1>4, <1>7, <2>1, <2>2, DeliverKeeps
  <2> QED
    BY <1>3, <1>4, <1>7, <2>2, PlanKept DEF P, E
<1> QED
  BY <1>5, <1>6, <1>7 DEF Detach, history

\* Who is in a transaction is alone there.
LEMMA TransactionAlone == 
    ASSUME LockInv, NEW s \in Sessions, NEW t \in Sessions, t # s, InTransaction(s)
    PROVE  ~InTransaction(t)
BY DEF LockInv, LockOK

\* A commit moves the recorded position on.
LEMMA CommitAdvances == 
    ASSUME TypeOK, CallInv, NEW s \in Sessions, PlanOK(s), Commit(s)
    PROVE  /\ UNCHANGED <<uses, cache>>
           /\ \A j \in Keys : /\ Recorded(j) \in Nat /\ Recorded(j)' \in Nat 
                              /\ Recorded(j) <= Recorded(j)'
<1> DEFINE k == sessionKey[s]
           end == PlanStart(s) + fetch[s].size
           row == pending[s]
<1>1. At(s, "commit") /\ k \in Keys /\ request[s].encrypt /\ UNCHANGED <<uses, cache>>
  BY DEF Commit, CallInv, CallOK, Fetching, At, history
<1>2. PlanStart(s) = Recorded(k) /\ IsRowAt(row, end)
  BY <1>1 DEF PlanOK, At
<1>3. Recorded(k) <= end /\ Recorded(k) \in Nat /\ end \in Nat
  BY <1>1, <1>2, PlanType
<1>4. CASE UNCHANGED rows
  <2>1. \A j \in Keys : Recorded(j)' = Recorded(j) /\ Recorded(j) \in Nat
    BY <1>4, RecordedType DEF rows, Recorded
  <2> QED
    BY <1>1, <2>1
<1>5. CASE WriteRow(k, row)
  <2>1. /\ rowChunk'[k] = row.chunkId /\ rowOffset'[k] = row.offset 
        /\ \A j \in Keys : j # k => rowChunk'[j] = rowChunk[j] /\ rowOffset'[j] = rowOffset[j]
    BY <1>1, <1>5 DEF WriteRow, TypeOK
  <2>2. \A j \in Keys : Recorded(j)' = IF j = k THEN end ELSE Recorded(j)
    BY <1>2, <2>1 DEF IsRowAt, Recorded
  <2> HIDE DEF end, k
  <2> QED
    BY <1>1, <1>3, <2>2, RecordedType
<1> QED
  BY <1>4, <1>5 DEF Commit, rows

\* A commit takes no bytes another has committed: those lie before the position it 
\* moves on.
LEMMA CommitKeepsOthers == 
    ASSUME TypeOK, CallInv, LockInv, NEW s \in Sessions, NEW t \in Sessions, t # s,
           PlanOK(s), PlanOK(t), RewindOK(t), Local(t)' = Local(t), Commit(s),
           \A k \in Keys : HasRead(t, k) => Recorded(k)' = Recorded(k)
    PROVE  PlanOK(t)' /\ RewindOK(t)'
<1>1. ~InTransaction(t)
  BY TransactionAlone DEF Commit, InTransaction, At
<1>2. PlanStart(t) + fetch[t].size \in Nat
  BY PlanType
<1>3. ASSUME NEW k \in Keys, HasCommitted(t, k)
      PROVE  /\ UntouchedNext(k, PlanStart(t), PlanStart(t) + fetch[t].size)
             /\ \A u \in Sessions, j \in Slots : HoldsBytes(cache'[u][j], k) => 
                   Apart(PlanStart(t), PlanStart(t) + fetch[t].size, cache'[u][j])
  <2>1. /\ Untouched(k, PlanStart(t), PlanStart(t) + fetch[t].size)
        /\ \A u \in Sessions, j \in Slots : HoldsBytes(cache[u][j], k) => 
              Apart(PlanStart(t), PlanStart(t) + fetch[t].size, cache[u][j])
    BY <1>3 DEF PlanOK, HasCommitted
  <2>2. UNCHANGED <<uses, cache>> /\ Recorded(k) \in Nat /\ Recorded(k)' \in Nat 
        /\ Recorded(k) <= Recorded(k)'
    BY CommitAdvances
  <2>3. PlanStart(t) + fetch[t].size <= Recorded(k)'
    BY <1>2, <2>1, <2>2 DEF Untouched
  <2> QED
    BY <2>1, <2>2, <2>3 DEF Untouched, UntouchedNext, Recorded
<1> QED
  BY <1>1, <1>3, PlanKept

\* A rewind gives back no bytes another has committed: those lie before the bytes of
\* the entry, which end at the recorded position.
LEMMA RewindKeepsOthers == 
    ASSUME TypeOK, CallInv, LockInv, PadInv, NEW s \in Sessions, NEW t \in Sessions, t # s,
           RewindOK(s), PlanOK(t), RewindOK(t), Local(t)' = Local(t), RewindCommit(s),
           \A k \in Keys : HasRead(t, k) => Recorded(k)' = Recorded(k)
    PROVE  PlanOK(t)' /\ RewindOK(t)'
<1> DEFINE e == cache[s][slot[s]]
           k == e.keyId
           row == pending[s]
           back == FirstLeft(e)
           P == PlanStart(t)
           E == PlanStart(t) + fetch[t].size
<1>1. /\ At(s, "rewindCommit") /\ slot[s] \in Slots /\ k \in Keys /\ HoldsBytes(e, k) 
      /\ UNCHANGED uses /\ FreeSlot(s)
  BY DEF RewindCommit, CallInv, CallOK, EntriesOK, HoldsBytes, At, history
<1>2. EndLeft(e) = Recorded(k) /\ IsRowAt(row, back)
  BY <1>1 DEF RewindOK, LastTaken, EndLeft, PadInv, EntryInv
<1>3. ~InTransaction(t)
  BY <1>1, TransactionAlone DEF InTransaction, At
<1>4. CASE UNCHANGED rows
  BY <1>1, <1>4, FreeSlotQuiet, QuietKeepsPlan
<1>5. CASE WriteRow(k, row)
  <2>1. /\ rowChunk'[k] = row.chunkId /\ rowOffset'[k] = row.offset 
        /\ \A j \in Keys : j # k => rowChunk'[j] = rowChunk[j] /\ rowOffset'[j] = rowOffset[j]
    BY <1>1, <1>5 DEF WriteRow, TypeOK
  <2>2. \A j \in Keys : Recorded(j)' = IF j = k THEN back ELSE Recorded(j)
    BY <1>2, <2>1 DEF IsRowAt, Recorded
  <2>3. \A u \in Sessions, i \in Slots : \A j : 
          HoldsBytes(cache'[u][i], j) => cache'[u][i] = cache[u][i]
    BY <1>1 DEF FreeSlot, TypeOK, HoldsBytes, NoEntry
  <2>4. /\ P \in Nat /\ E = P + fetch[t].size /\ fetch[t].size \in Nat /\ back \in Nat
    BY <1>1, PlanType, EntryBounds
  <2>5. At(t, "detach") => fetch[t].size > 0
    <3>1. CallOK(t) /\ request[t].size \in Nat
      BY DEF CallInv, TypeOK, Request
    <3> QED
      BY <2>4, <3>1 DEF CallOK, Fetching, At
  <2>6. ASSUME NEW j \in Keys, HasCommitted(t, j)
        PROVE  /\ UntouchedNext(j, P, E)
               /\ \A u \in Sessions, m \in Slots : HoldsBytes(cache'[u][m], j) => 
                     Apart(P, E, cache'[u][m])
    <3>1. /\ Untouched(j, P, E) 
          /\ \A u \in Sessions, m \in Slots : HoldsBytes(cache[u][m], j) => Apart(P, E, cache[u][m])
      BY <2>6 DEF PlanOK, HasCommitted
    <3>2. E <= Recorded(j)'
      <4>1. CASE j = k
        <5>1. E <= back \/ Recorded(k) <= P
          BY <1>1, <1>2, <3>1, <4>1 DEF Apart
        <5>2. E <= Recorded(k)
          BY <3>1, <4>1 DEF Untouched
        <5>3. Recorded(k) \in Nat /\ fetch[t].size > 0
          BY <1>1, <2>5, <2>6, RecordedType DEF HasCommitted
        <5> HIDE DEF E, P, back, k
        <5> QED
          BY <2>2, <2>4, <4>1, <5>1, <5>2, <5>3
      <4>2. CASE j # k
        BY <2>2, <3>1, <4>2 DEF Untouched
      <4> QED
        BY <4>1, <4>2
    <3>3. UntouchedNext(j, P, E)
      BY <1>1, <3>1, <3>2 DEF Untouched, UntouchedNext, Recorded
    <3> QED
      BY <2>3, <3>1, <3>3
  <2> HIDE DEF e, k, row, back
  <2> QED
    BY <1>3, <2>6, PlanKept
<1> QED
  BY <1>1, <1>4, <1>5 DEF RewindCommit

\* A session's step keeps the plan and the rewind of any other, if the positions hold
\* that the other has read.
LEMMA PlanStepOthers == 
    ASSUME TypeOK, CallInv, LockInv, PadInv, PlanInv, ApartInv, NEW s \in Sessions, 
           NEW t \in Sessions, t # s, Call(s) \/ Step(s) \/ Crash(s),
           \A k \in Keys : HasRead(t, k) => Recorded(k)' = Recorded(k)
    PROVE  PlanOK(t)' /\ RewindOK(t)'
<1>1. Local(t)' = Local(t) /\ PlanOK(s) /\ RewindOK(s) /\ PlanOK(t) /\ RewindOK(t)
  BY StepIsLocal DEF PlanInv
<1>2. CASE Serve(s) /\ request[s].encrypt
  BY <1>1, <1>2, ServeKeepsOthers
<1>3. CASE Detach(s) /\ request[s].encrypt
  BY <1>1, <1>3, DetachKeepsOthers
<1>4. CASE Commit(s)
  BY <1>1, <1>4, CommitKeepsOthers
<1>5. CASE RewindCommit(s)
  BY <1>1, <1>5, RewindKeepsOthers
<1>6. CASE ~(request[s].encrypt /\ (Serve(s) \/ Detach(s))) /\ ~Commit(s) /\ ~RewindCommit(s)
  BY <1>1, <1>6, QuietSteps, QuietKeepsPlan
<1> QED
  BY <1>2, <1>3, <1>4, <1>5, <1>6

\* Only a commit takes bytes.
LEMMA OnlyCommitTakes == 
    ASSUME TypeOK, NEW s \in Sessions, Call(s) \/ Step(s) \/ Crash(s), ~Commit(s)
    PROVE  ~At(s, "detach")' \/ ~request'[s].encrypt
<1>1. CASE Call(s)
  <2>1. At(s, "idle")
    BY <1>1 DEF Call, CreateSession, CloseSession, MountKeySet, UnmountKeySet, SetSessionKey, 
       Encrypt, Decrypt, StartCipher, MayCall
  <2>2. pc'[s] \in {"idle", "unmount", "lookup", "info"}
    BY <1>1, <2>1 DEF Call, CreateSession, CloseSession, MountKeySet, UnmountKeySet, SetSessionKey, 
       Encrypt, Decrypt, StartCipher, CallGetKeyBytes, GoTo, At, TypeOK
  <2> QED
    BY <2>2 DEF At
<1>2. CASE Lookup(s) \/ Fill(s) \/ Serve(s) \/ Evict(s) \/ Rewind(s) \/ RewindCommit(s) 
           \/ Unmount(s) \/ Crash(s)
  BY <1>2 DEF Lookup, Fill, Serve, Evict, Rewind, RewindCommit, Unmount, Crash, FreeSlot, 
     CallGetKeyBytes, Return, GoTo, At, TypeOK
<1>3. CASE ReadKeyInfo(s) \/ Attach(s) \/ Detach(s) \/ Cleanup(s)
  BY <1>3, FetchFailsLeaves DEF ReadKeyInfo, Attach, Detach, Cleanup, Return, GoTo, At, TypeOK
<1>4. CASE Begin(s) \/ AdvanceOffset(s)
  BY <1>4 DEF Begin, AdvanceOffset, GoTo, At, TypeOK
<1>5. CASE ReadChunks(s)
  BY <1>5 DEF ReadChunks, GoTo, At, TypeOK
<1> QED
  BY <1>1, <1>2, <1>3, <1>4, <1>5 DEF Step

\* What a session has just committed lies after what any other has committed before.
LEMMA ApartStep == 
    ASSUME TypeOK, CallInv, PlanInv, ApartInv, NEW s \in Sessions, Call(s) \/ Step(s) \/ Crash(s)
    PROVE  ApartInv'
<1> DEFINE End(t) == PlanStart(t) + fetch[t].size
<1>1. ASSUME NEW t \in Sessions, t # s
      PROVE  /\ PlanStart(t)' = PlanStart(t) /\ fetch'[t] = fetch[t]
             /\ \A k : HasCommitted(t, k)' <=> HasCommitted(t, k)
  <2>1. Local(t)' = Local(t)
    BY <1>1, StepIsLocal
  <2> QED
    BY <2>1 DEF Local, PlanStart, GlobalOf, HasCommitted, At
<1>2. ASSUME NEW t \in Sessions, t # s, NEW k \in Keys, HasCommitted(s, k)', HasCommitted(t, k)
      PROVE  End(t) <= PlanStart(s)' 
  <2>1. Commit(s)
    BY <1>2, OnlyCommitTakes DEF HasCommitted
  <2>2. /\ At(s, "commit") /\ request[s].encrypt /\ sessionKey[s] = k 
        /\ PlanStart(s)' = PlanStart(s)
    BY <1>2, <2>1 DEF Commit, CallInv, CallOK, At, HasCommitted, PlanStart, GlobalOf, handle
  <2>3. PlanStart(s) = Recorded(k)
    BY <2>2 DEF PlanInv, PlanOK, At
  <2>4. End(t) <= Recorded(k)
    BY <1>2 DEF PlanInv, PlanOK, HasCommitted, Untouched
  <2> QED
    BY <2>2, <2>3, <2>4
<1> SUFFICES ASSUME NEW t \in Sessions, NEW u \in Sessions, NEW k \in Keys, t # u,
                    HasCommitted(t, k)', HasCommitted(u, k)'
             PROVE  End(t)' <= PlanStart(u)' \/ End(u)' <= PlanStart(t)'
  BY DEF ApartInv
<1>3. CASE t # s /\ u # s
  BY <1>1, <1>3 DEF ApartInv
<1>4. CASE t = s
  BY <1>1, <1>2, <1>4
<1>5. CASE u = s
  BY <1>1, <1>2, <1>5
<1> QED
  BY <1>3, <1>4, <1>5

\* A session's step keeps its own plan and rewind: the plan starts at the recorded
\* position until it is committed, and then is what no one else has.
LEMMA PlanStepSelf == 
    ASSUME TypeOK, CallInv, PadInv, NEW s \in Sessions, PlanOK(s), RewindOK(s), 
           Call(s) \/ Step(s) \/ Crash(s)
    PROVE  PlanOK(s)' /\ RewindOK(s)'
<1> DEFINE k == sessionKey[s]
           end == PlanStart(s) + fetch[s].size
<1>a. CallOK(s) /\ EntriesOK(s)
  BY DEF CallInv
<1>b. ASSUME UNCHANGED <<rows, fetch, request, sessionKey>>, 
             pc[s] \in {"attach", "begin", "read"}, pc'[s] \in {"begin", "read", "advance"}
      PROVE  PlanOK(s)' /\ RewindOK(s)'
  <2>1. Recorded(k)' = Recorded(k) /\ PlanStart(s)' = PlanStart(s)
    BY <1>b DEF Recorded, PlanStart, rows
  <2>2. PlanOK(s)'
    BY <1>b, <2>1 DEF PlanOK, At
  <2>3. QED
    BY <1>b, <2>2 DEF RewindOK, At
<1>1. CASE Call(s)
  <2>1. At(s, "idle")
    BY <1>1 DEF Call, CreateSession, CloseSession, MountKeySet, UnmountKeySet, SetSessionKey, 
       Encrypt, Decrypt, StartCipher, MayCall
  <2>2. pc'[s] \in {"idle", "unmount", "lookup", "info"}
    BY <1>1, <2>1 DEF Call, CreateSession, CloseSession, MountKeySet, UnmountKeySet, SetSessionKey, 
       Encrypt, Decrypt, StartCipher, CallGetKeyBytes, GoTo, At, TypeOK
  <2>3. QED
    BY <2>2, PlanlessOK
<1>2. CASE Lookup(s) \/ Fill(s) \/ Serve(s)
  <2>1. pc'[s] \in {"idle", "info", "fill", "serve", "evict"}
    BY <1>2 DEF Lookup, Fill, Serve, CallGetKeyBytes, Return, GoTo, TypeOK
  <2>2. QED
    BY <2>1, PlanlessOK
<1>3. CASE FetchFails(s)
  BY <1>3, FetchFailsLeaves, PlanlessOK
<1>4. ASSUME ReadKeyInfo(s), EnoughBytes(s), GoTo(s, "attach"), UNCHANGED request,
             fetch' = [fetch EXCEPT ![s].chunkId = StartChunk(s), ![s].offset = StartOffset(s)]
      PROVE  PlanOK(s)' /\ RewindOK(s)'
  <2>1. k \in Keys /\ UNCHANGED <<rows, sessionKey>> /\ pc'[s] = "attach"
    BY <1>4, <1>a DEF ReadKeyInfo, CallOK, Fetching, At, GoTo, TypeOK, handle
  <2>2. ASSUME request[s].encrypt 
        PROVE  PlanStart(s)' = Recorded(k) /\ fetch'[s].size = fetch[s].size
               /\ Recorded(k) + fetch[s].size <= TotalBytes
    <3>1. fetch'[s].chunkId = rowChunk[k] /\ fetch'[s].offset = rowOffset[k] 
          /\ fetch'[s].size = fetch[s].size
      BY <1>4, <2>2 DEF StartChunk, StartOffset, TypeOK, Fetch
    <3>2. usedBytes[k] = Recorded(k)
      BY <2>1 DEF PadInv, RowInv, IsRowAt, RowOf
    <3>3. QED
      BY <1>4, <2>2, <3>1, <3>2 DEF PlanStart, Recorded, EnoughBytes
  <2>3. Recorded(k)' = Recorded(k)
    BY <2>1 DEF Recorded, rows
  <2>4. PlanOK(s)'
    BY <1>4, <2>1, <2>2, <2>3 DEF PlanOK, At
  <2>5. QED
    BY <2>1, <2>4 DEF RewindOK, At
<1>5. CASE ReadKeyInfo(s)
  BY <1>3, <1>4, <1>5 DEF ReadKeyInfo
<1>6. CASE Attach(s)
  <2>1. CASE GoTo(s, IF request[s].encrypt THEN "begin" ELSE "read") /\ UNCHANGED <<request, slot, fetch>>
    BY <1>6, <1>b, <2>1 DEF Attach, GoTo, At, TypeOK, handle
  <2>2. QED
    BY <1>3, <1>6, <2>1 DEF Attach
<1>7. CASE Begin(s) \/ ReadChunks(s)
  <2>1. UNCHANGED <<rows, fetch, request, sessionKey>> /\ pc[s] \in {"begin", "read"}
    BY <1>7 DEF Begin, ReadChunks, At, handle
  <2>2. pc'[s] \in {"read", "advance", "cleanup"} \/ (pc'[s] = "detach" /\ ~request[s].encrypt)
    BY <1>7 DEF Begin, ReadChunks, GoTo, TypeOK
  <2>3. CASE pc'[s] = "cleanup"
    BY <2>3, PlanlessOK
  <2>4. CASE pc'[s] = "detach" /\ ~request[s].encrypt
    BY <2>1, <2>4 DEF PlanOK, RewindOK, At
  <2>5. QED
    BY <1>b, <2>1, <2>2, <2>3, <2>4
<1>8. CASE AdvanceOffset(s)
  <2> DEFINE row == [chunkId |-> ChunkIdOf(fetch[s].chunkId, end), offset |-> ChunkOffsetOf(end),
                     used |-> usedBytes[k] + fetch[s].size]
  <2>1. CASE GoTo(s, "cleanup")
    BY <2>1, PlanlessOK DEF GoTo, TypeOK
  <2>2. CASE GoTo(s, "commit") /\ pending' = [pending EXCEPT ![s] = row]
    <3>1. /\ UNCHANGED <<rows, fetch, request, sessionKey>> /\ pc'[s] = "commit"
          /\ pending'[s] = row
      BY <1>8, <2>2 DEF AdvanceOffset, GoTo, TypeOK, handle
    <3>2. /\ k \in Keys /\ request[s].encrypt /\ PlanStart(s) = Recorded(k) /\ end <= TotalBytes
      BY <1>8, <1>a DEF AdvanceOffset, CallOK, Fetching, PlanOK, At
    <3>3. end \in Nat /\ fetch[s].chunkId \in Nat /\ fetch[s].size \in Nat
      BY PlanType DEF TypeOK, Fetch
    <3>4. usedBytes[k] = Recorded(k)
      BY <3>2 DEF PadInv, RowInv, IsRowAt, RowOf
    <3>5. IsRowAt(row, end)
      BY <3>2, <3>3, <3>4, GlobalOfSplit, ChunkOffsetInChunk DEF IsRowAt
    <3>6. Recorded(k)' = Recorded(k) /\ PlanStart(s)' = PlanStart(s)
      BY <3>1 DEF Recorded, PlanStart, rows
    <3>7. PlanOK(s)'
      <4>1. IsRowAt(pending[s], end)'
        BY <3>1, <3>5, <3>6 DEF IsRowAt
      <4>2. QED
        BY <3>1, <3>2, <3>6, <4>1 DEF PlanOK, At
    <3>8. QED
      BY <3>1, <3>7 DEF RewindOK, At
  <2>3. QED
    BY <1>8, <2>1, <2>2 DEF AdvanceOffset
<1>9. CASE Commit(s)
  <2>1. CASE GoTo(s, "cleanup")
    BY <2>1, PlanlessOK DEF GoTo, TypeOK
  <2>2. CASE GoTo(s, "detach") /\ WriteRow(k, pending[s])
    <3>1. /\ UNCHANGED <<fetch, request, sessionKey, cache, uses>> /\ pc'[s] = "detach"
      BY <1>9, <2>2 DEF Commit, GoTo, TypeOK, handle, history
    <3>2. /\ k \in Keys /\ request[s].encrypt /\ PlanStart(s) = Recorded(k) /\ end <= TotalBytes
          /\ IsRowAt(pending[s], end)
      BY <1>9, <1>a DEF Commit, CallOK, Fetching, PlanOK, At
    <3>3. Recorded(k)' = end /\ PlanStart(s)' = PlanStart(s)
      BY <2>2, <3>1, <3>2 DEF Recorded, PlanStart, IsRowAt, WriteRow, TypeOK
    <3>4. PlanStart(s) \in Nat /\ end \in Nat /\ fetch[s].size \in Nat
      BY PlanType
    <3>5. \A p \in Bytes : PlanStart(s) <= p => uses[k][p] = 0
      BY <3>2, <3>4, PadEngineAssumption DEF PadInv, UseInv, Bytes
    <3>6. ASSUME NEW t \in Sessions, NEW j \in Slots, HoldsBytes(cache[t][j], k)
          PROVE  Apart(PlanStart(s), end, cache[t][j])
      <4>1. EndLeft(cache[t][j]) <= Recorded(k)
        BY <3>2, <3>6 DEF PadInv, EntryInv, Untouched
      <4>2. QED
        BY <3>2, <4>1 DEF Apart
    <3>7. Untouched(k, PlanStart(s), end)'
      BY <3>1, <3>3, <3>4, <3>5 DEF Untouched
    <3>8. PlanOK(s)'
      BY <3>1, <3>3, <3>6, <3>7 DEF PlanOK, At
    <3>9. QED
      BY <3>1, <3>8 DEF RewindOK, At
  <2>3. QED
    BY <1>9, <2>1, <2>2 DEF Commit
<1>10. CASE Detach(s)
  <2>1. CASE GoTo(s, "serve") \/ Return(s)
    BY <2>1, PlanlessOK DEF GoTo, Return, TypeOK
  <2>2. QED
    BY <1>3, <1>10, <2>1 DEF Detach
<1>11. CASE Cleanup(s)
  BY <1>3, <1>11 DEF Cleanup
<1>12. CASE FreeSlot(s)
  BY <1>12, PlanlessOK DEF FreeSlot, GoTo, TypeOK
<1>13. CASE Evict(s)
  <2>1. CASE GoTo(s, "rewind")
    BY <2>1, PlanlessOK DEF GoTo, TypeOK
  <2>2. QED
    BY <1>12, <1>13, <2>1 DEF Evict
<1>14. CASE Rewind(s)
  <2> DEFINE e == cache[s][slot[s]]
             back == RewindTo(e)
             row == [chunkId |-> ChunkIdOf(rowChunk[e.keyId], back), offset |-> ChunkOffsetOf(back),
                     used |-> usedBytes[e.keyId] - e.workSize]
  <2>1. CASE LastTaken(e) /\ pending' = [pending EXCEPT ![s] = row] /\ GoTo(s, "rewindCommit")
             /\ UNCHANGED <<cache, slot>>
    <3>1. pc'[s] = "rewindCommit" /\ pending'[s] = row /\ UNCHANGED rows
      BY <1>14, <2>1 DEF Rewind, GoTo, TypeOK
    <3>2. slot[s] \in Slots /\ e \in Entry /\ e.keyId \in Keys /\ HoldsBytes(e, e.keyId)
      BY <1>14, <1>a DEF Rewind, CallOK, EntriesOK, HoldsBytes, At, TypeOK
    <3>3. e.offset = e.from
      BY <3>2 DEF PadInv, EntryInv
    <3>4. /\ back \in Nat /\ e.workSize \in Nat /\ back = FirstLeft(e) 
          /\ back + e.workSize = Recorded(e.keyId)
      BY <2>1, <3>2, <3>3 DEF Entry, FirstLeft, LastTaken, RewindTo
    <3>5. usedBytes[e.keyId] = Recorded(e.keyId) /\ rowChunk[e.keyId] \in Nat
      BY <3>2 DEF PadInv, RowInv, IsRowAt, RowOf, TypeOK
    <3>6. IsRowAt(row, FirstLeft(e))
      BY <3>4, <3>5, GlobalOfSplit, ChunkOffsetInChunk DEF IsRowAt
    <3>7. LastTaken(e)'
      BY <2>1, <3>1 DEF LastTaken, Recorded, rows
    <3>8. IsRowAt(pending[s], FirstLeft(e))'
      BY <2>1, <3>1, <3>6 DEF IsRowAt, FirstLeft
    <3>9. QED
      BY <3>1, <3>7, <3>8 DEF PlanOK, RewindOK, At
  <2>2. QED
    BY <1>12, <1>14, <2>1 DEF Rewind
<1>15. CASE RewindCommit(s)
  BY <1>12, <1>15 DEF RewindCommit
<1>16. CASE Unmount(s)
  <2>1. pc'[s] \in {"idle", "evict"}
    BY <1>16 DEF Unmount, Return, GoTo, TypeOK
  <2>2. QED
    BY <2>1, PlanlessOK
<1>17. CASE Crash(s)
  BY <1>17, PlanlessOK DEF Crash, Return, GoTo, TypeOK
<1>18. QED
  BY <1>1, <1>2, <1>5, <1>6, <1>7, <1>8, <1>9, <1>10, <1>11, <1>13, <1>14, <1>15, <1>16, <1>17
     DEF Step

-----------------------------------------------------------------------------

\* A keyset no session has used yet satisfies the invariant.
LEMMA InitPad == Init => PadInv /\ PlanInv /\ ApartInv
<1> SUFFICES ASSUME Init PROVE PadInv /\ PlanInv /\ ApartInv
  OBVIOUS
<1>1. \A k \in Keys : rowOffset[k] = 0 /\ usedBytes[k] = 0 /\ Recorded(k) = 0
  BY ChunkSizeAssumption DEF Init, Recorded, GlobalOf
<1>2. RowInv
  BY <1>1, ChunkSizeAssumption, PadEngineAssumption DEF RowInv, IsRowAt, RowOf, Recorded
<1>3. UseInv
  BY DEF Init, UseInv
<1>4. EntryInv
  BY DEF Init, EntryInv, HoldsBytes, NoEntry
<1>5. PlanInv /\ ApartInv
  BY DEF Init, PlanInv, PlanOK, RewindOK, ApartInv, HasCommitted, At
<1>6. QED
  BY <1>2, <1>3, <1>4, <1>5 DEF PadInv

\* The inductive invariant is one, however calls overlap, whichever of their steps fail 
\* and whichever process crashes when, as long as the positions hold that calls have 
\* read and have no transaction on.
THEOREM IInvCorrect == Spec /\ PositionsHold => []IInv
<1> DEFINE I == BaseInv /\ PadInv /\ PlanInv /\ ApartInv
           Hold == \A s \in Sessions, k \in Keys : HasRead(s, k) => Recorded(k)' = Recorded(k)
<1>1. Init => I
  BY InitTypeInv, InitLockInv, InitPad DEF BaseInv, TypeInv
<1>2. I /\ [Next]_vars /\ [Hold]_vars => I'
  <2>1. ASSUME I, Hold, NEW s \in Sessions, Call(s) \/ Step(s) \/ Crash(s)
        PROVE  PadInv' /\ PlanInv' /\ ApartInv'
    <3>1. PadInv'
      BY <2>1, PadStep DEF BaseInv, PlanInv
    <3>2. PlanInv'
      BY <2>1, PlanStepSelf, PlanStepOthers DEF BaseInv, PlanInv
    <3>3. ApartInv'
      BY <2>1, ApartStep DEF BaseInv
    <3> QED
      BY <3>1, <3>2, <3>3
  <2>2. ASSUME I, UNCHANGED vars PROVE PadInv' /\ PlanInv' /\ ApartInv'
    <3>1. Quiet /\ \A t \in Sessions : Local(t)' = Local(t)
      BY <2>2 DEF Quiet, Local, vars, rows, handle, history
    <3>2. PadInv' /\ PlanInv'
      BY <2>2, <3>1, QuietKeepsPad, QuietKeepsPlan DEF PlanInv
    <3>3. ApartInv'
      BY <2>2 DEF ApartInv, HasCommitted, PlanStart, GlobalOf, At, vars, handle
    <3> QED
      BY <3>2, <3>3
  <2> QED
    BY <2>1, <2>2, BaseStep, BaseStutter DEF Next
<1>3. I => IInv
  BY DEF BaseInv, PadInv, IInv
<1>4. PositionsHold => [][Hold]_vars
  BY PTL DEF PositionsHold
<1> HIDE DEF I, Hold
<1> QED
  BY <1>1, <1>2, <1>3, <1>4, PTL DEF Spec

\* In a state of the invariant UsedBytes is the recorded position, one the pad has.
LEMMA AccountingOK == 
    ASSUME TypeOK, IInv
    PROVE  AccountingExact
<1> SUFFICES ASSUME NEW k \in Keys
             PROVE  /\ usedBytes[k] = Recorded(k)
                    /\ usedBytes[k] \in 0 .. TotalBytes
                    /\ ChunkSize # 0 => rowOffset[k] < ChunkSize
  BY DEF AccountingExact
<1>1. IsRowAt(RowOf(k), Recorded(k)) /\ Recorded(k) <= TotalBytes
  BY DEF IInv, RowInv
<1> QED
  BY <1>1, RecordedType, PadEngineAssumption DEF IsRowAt, RowOf

\* The ranges that the invariant keeps apart are the bytes the sessions have taken.
LEMMA TakenExclusive == 
    ASSUME TypeOK, IInv
    PROVE  TakenBytesAreExclusive
<1>a. EntryInv /\ PlanInv /\ ApartInv
  BY DEF IInv
<1>b. \A p \in Bytes : p \in Int
  BY PadEngineAssumption DEF Bytes
<1>c. \A s \in Sessions, i \in Slots : FirstLeft(cache[s][i]) \in Nat /\ EndLeft(cache[s][i]) \in Nat
  BY EntryBounds
<1>d. \A k \in Keys : Recorded(k) \in Nat
  BY RecordedType
<1>1. ASSUME NEW s \in Sessions, NEW k \in Keys, NEW p \in CachedBytes(s, k)
      PROVE  \E i \in Slots : /\ HoldsBytes(cache[s][i], k) 
                              /\ FirstLeft(cache[s][i]) <= p /\ p < EndLeft(cache[s][i])
  BY <1>1 DEF CachedBytes, HoldsBytes, FirstLeft, EndLeft
<1>2. ASSUME NEW s \in Sessions, NEW k \in Keys, NEW p \in FetchedBytes(s, k)
      PROVE  /\ At(s, "detach") /\ request[s].encrypt /\ sessionKey[s] = k
             /\ PlanStart(s) <= p /\ p < PlanStart(s) + fetch[s].size
  BY <1>2 DEF FetchedBytes, HasCommitted
<1>3. ASSUME NEW s \in Sessions, NEW k \in Keys, NEW p \in FetchedBytes(s, k)
      PROVE  /\ Untouched(k, PlanStart(s), PlanStart(s) + fetch[s].size)
             /\ \A t \in Sessions, j \in Slots : HoldsBytes(cache[t][j], k) => 
                   Apart(PlanStart(s), PlanStart(s) + fetch[s].size, cache[t][j])
  BY <1>a, <1>2, <1>3 DEF PlanInv, PlanOK
<1>4. ASSUME NEW s \in Sessions, NEW t \in Sessions, NEW k \in Keys, 
             NEW p \in Bytes, p \in FetchedBytes(s, k), p \in CachedBytes(t, k)
      PROVE  FALSE
  <2>1. PICK j \in Slots : /\ HoldsBytes(cache[t][j], k) 
                           /\ FirstLeft(cache[t][j]) <= p /\ p < EndLeft(cache[t][j])
    BY <1>1, <1>4
  <2>2. Apart(PlanStart(s), PlanStart(s) + fetch[s].size, cache[t][j])
    BY <1>3, <1>4, <2>1
  <2>3. PlanStart(s) <= p /\ p < PlanStart(s) + fetch[s].size
    BY <1>2, <1>4
  <2>4. PlanStart(s) \in Nat /\ fetch[s].size \in Nat
    BY PlanType
  <2>5. QED
    BY <1>b, <1>c, <2>1, <2>2, <2>3, <2>4 DEF Apart
<1>5. ASSUME NEW s \in Sessions, NEW t \in Sessions, s # t, NEW k \in Keys, 
             NEW p \in Bytes, p \in CachedBytes(s, k), p \in CachedBytes(t, k)
      PROVE  FALSE
  <2>1. PICK i \in Slots : /\ HoldsBytes(cache[s][i], k) 
                           /\ FirstLeft(cache[s][i]) <= p /\ p < EndLeft(cache[s][i])
    BY <1>1, <1>5
  <2>2. PICK j \in Slots : /\ HoldsBytes(cache[t][j], k) 
                           /\ FirstLeft(cache[t][j]) <= p /\ p < EndLeft(cache[t][j])
    BY <1>1, <1>5
  <2>3. Apart(FirstLeft(cache[s][i]), EndLeft(cache[s][i]), cache[t][j])
    BY <1>5, <1>a, <2>1, <2>2 DEF EntryInv
  <2>4. QED
    BY <1>b, <1>c, <2>1, <2>2, <2>3 DEF Apart
<1>6. ASSUME NEW s \in Sessions, NEW t \in Sessions, s # t, NEW k \in Keys, 
             NEW p \in Bytes, p \in FetchedBytes(s, k), p \in FetchedBytes(t, k)
      PROVE  FALSE
  <2>1. /\ HasCommitted(s, k) /\ PlanStart(s) <= p /\ p < PlanStart(s) + fetch[s].size
        /\ HasCommitted(t, k) /\ PlanStart(t) <= p /\ p < PlanStart(t) + fetch[t].size
    BY <1>6 DEF FetchedBytes
  <2>2. \/ PlanStart(s) + fetch[s].size <= PlanStart(t)
        \/ PlanStart(t) + fetch[t].size <= PlanStart(s)
    BY <1>6, <1>a, <2>1 DEF ApartInv
  <2>3. /\ PlanStart(s) \in Nat /\ fetch[s].size \in Nat
        /\ PlanStart(t) \in Nat /\ fetch[t].size \in Nat
    BY PlanType
  <2>4. QED
    BY <1>b, <2>1, <2>2, <2>3
<1>7. ASSUME NEW s \in Sessions, NEW k \in Keys, NEW p \in Bytes, p \in Taken(s, k)
      PROVE  uses[k][p] = 0 /\ p < Recorded(k)
  <2>1. CASE p \in CachedBytes(s, k)
    <3>1. PICK i \in Slots : /\ HoldsBytes(cache[s][i], k) 
                             /\ FirstLeft(cache[s][i]) <= p /\ p < EndLeft(cache[s][i])
      BY <1>1, <2>1
    <3>2. Untouched(k, FirstLeft(cache[s][i]), EndLeft(cache[s][i]))
      BY <1>a, <3>1 DEF EntryInv
    <3>3. QED
      BY <1>b, <1>c, <1>d, <3>1, <3>2 DEF Untouched
  <2>2. CASE p \in FetchedBytes(s, k)
    <3>1. PlanStart(s) \in Nat /\ fetch[s].size \in Nat
      BY PlanType
    <3>2. Untouched(k, PlanStart(s), PlanStart(s) + fetch[s].size)
      BY <1>3, <2>2
    <3>3. PlanStart(s) <= p /\ p < PlanStart(s) + fetch[s].size
      BY <1>2, <2>2
    <3>4. QED
      BY <1>b, <1>d, <3>1, <3>2, <3>3 DEF Untouched
  <2>3. QED
    BY <1>7, <2>1, <2>2 DEF Taken
<1>8. \A s \in Sessions, k \in Keys : \A p \in Taken(s, k) : p \in Bytes
  BY DEF Taken, CachedBytes, FetchedBytes, HasCommitted
<1>9. \A s \in Sessions, t \in Sessions, k \in Keys : s # t => 
         \A p \in Taken(s, k) : p \notin Taken(t, k)
  BY <1>4, <1>5, <1>6, <1>8 DEF Taken
<1>10. \A s \in Sessions, k \in Keys : CachedBytes(s, k) \cap FetchedBytes(s, k) = {}
  BY <1>4 DEF CachedBytes
<1>11. QED
  BY <1>7, <1>8, <1>9, <1>10 DEF TakenBytesAreExclusive

\* The bytes behind a used one stay behind it.
LEMMA RewindsOK == 
    ASSUME TypeOK, TypeOK', IInv, IInv', NEW k \in Keys, NEW p \in Recorded(k)' .. Recorded(k) - 1
    PROVE  uses'[k][p] = 0
<1>1. Recorded(k) \in Nat /\ Recorded(k)' \in Nat
  BY GlobalOfType DEF Recorded, TypeOK
<1>2. Recorded(k) <= TotalBytes
  BY DEF IInv, RowInv
<1>3. p \in Bytes /\ p \in Int /\ Recorded(k)' <= p
  BY <1>1, <1>2, PadEngineAssumption DEF Bytes
<1>4. uses'[k][p] # 0 => p < Recorded(k)'
  BY <1>3 DEF IInv, UseInv
<1> QED
  BY <1>1, <1>3, <1>4

-----------------------------------------------------------------------------
(* The engine implements the one-time pad.                                 *)

\* Whose a byte is, from what is known of its uses, who has taken it, and the 
\* recorded position: that it was used, who has taken it, and where it lies.
OwnerInv == 
    \A k \in Keys, p \in Bytes : 
        /\ Owner(k, p) \in Sessions \cup {Free, Spent, Lost}
        /\ uses[k][p] # 0 => p < Recorded(k) /\ Owner(k, p) = Spent
        /\ \A s \in Sessions : p \in Taken(s, k) => 
              uses[k][p] = 0 /\ p < Recorded(k) /\ Owner(k, p) = s
        /\ uses[k][p] = 0 /\ (\A s \in Sessions : p \notin Taken(s, k)) => 
              Owner(k, p) = IF p < Recorded(k) THEN Lost ELSE Free

\* No two sessions have taken a byte, so that it has one owner.
LEMMA OwnerOK == TypeOK /\ IInv => OwnerInv
<1> SUFFICES ASSUME TypeOK, IInv, NEW k \in Keys, NEW p \in Bytes
             PROVE  /\ Owner(k, p) \in Sessions \cup {Free, Spent, Lost}
                    /\ uses[k][p] # 0 => p < Recorded(k) /\ Owner(k, p) = Spent
                    /\ \A s \in Sessions : p \in Taken(s, k) => 
                          uses[k][p] = 0 /\ p < Recorded(k) /\ Owner(k, p) = s
                    /\ uses[k][p] = 0 /\ (\A s \in Sessions : p \notin Taken(s, k)) => 
                          Owner(k, p) = IF p < Recorded(k) THEN Lost ELSE Free
  BY DEF OwnerInv
<1>1. uses[k][p] \in Nat /\ (uses[k][p] # 0 => p < Recorded(k))
  BY DEF TypeOK, IInv, UseInv
<1>2. \A s \in Sessions : p \in Taken(s, k) => 
         /\ uses[k][p] = 0 /\ p < Recorded(k)
         /\ \A t \in Sessions : p \in Taken(t, k) => t = s
  BY TakenExclusive DEF TakenBytesAreExclusive
<1>3. CASE uses[k][p] # 0
  <2>1. Owner(k, p) = Spent
    BY <1>1, <1>3 DEF Owner
  <2> QED
    BY <1>1, <1>2, <1>3, <2>1
<1>4. CASE \E s \in Sessions : p \in Taken(s, k)
  <2>1. PICK s \in Sessions : p \in Taken(s, k)
    BY <1>4
  <2>2. Owner(k, p) = CHOOSE t \in Sessions : p \in Taken(t, k)
    BY <1>2, <2>1 DEF Owner
  <2>3. Owner(k, p) = s
    BY <1>2, <2>1, <2>2
  <2> QED
    BY <1>2, <2>1, <2>3
<1>5. CASE uses[k][p] = 0 /\ \A s \in Sessions : p \notin Taken(s, k)
  BY <1>5 DEF Owner
<1> QED
  BY <1>3, <1>4, <1>5

\* Bytes that change hands one way.
LEMMA PassOK == 
    ASSUME OwnerInv', NEW from, NEW to, 
           \A k \in Keys, p \in Bytes : 
              Owner(k, p)' # Owner(k, p) => Owner(k, p) = from /\ Owner(k, p)' = to
    PROVE  Pad!Pass(from, to)
<1>1. owner' = [k \in Keys |-> [p \in Bytes |-> Owner(k, p)']]
  BY DEF owner
<1>2. \A k \in Keys, p \in Bytes : owner[k][p] = Owner(k, p) /\ owner'[k][p] = Owner(k, p)'
  BY <1>1 DEF owner
<1>3. owner' \in [Keys -> [Bytes -> Sessions \cup {Free, Spent, Lost}]]
  BY <1>1 DEF OwnerInv
<1>4. Pad!Bytes = Bytes
  BY DEF Pad!Bytes, Bytes
<1> QED
  BY <1>2, <1>3, <1>4 DEF Pad!Pass, Pad!Changed

\* A step after which a session has taken no more than before, and nothing else
\* has changed: what it no longer has is lost.
LEMMA LoseStep == 
    ASSUME OwnerInv, OwnerInv', NEW s \in Sessions, UNCHANGED <<rows, uses>>,
           \A t \in Sessions \ {s}, k \in Keys : Taken(t, k)' = Taken(t, k),
           \A k \in Keys : Taken(s, k)' \subseteq Taken(s, k)
    PROVE  Pad!Lose(s)
<1>1. ASSUME NEW k \in Keys, NEW p \in Bytes, Owner(k, p)' # Owner(k, p)
      PROVE  Owner(k, p) = s /\ Owner(k, p)' = Lost
  <2>1. Recorded(k)' = Recorded(k) /\ uses'[k][p] = uses[k][p]
    BY DEF rows, Recorded
  <2>2. uses[k][p] = 0 /\ \A t \in Sessions \ {s} : p \notin Taken(t, k)
    BY <1>1, <2>1 DEF OwnerInv
  <2>3. p \in Taken(s, k) /\ p \notin Taken(s, k)'
    BY <1>1, <2>1, <2>2 DEF OwnerInv
  <2> QED
    BY <2>1, <2>2, <2>3 DEF OwnerInv
<1> QED
  BY <1>1, PassOK DEF Pad!Lose

\* A step that uses once what a session has taken.
LEMMA SpendStep == 
    ASSUME TypeOK, TypeOK', OwnerInv, OwnerInv', NEW s \in Sessions, UNCHANGED rows,
           NEW j \in Keys, NEW B \in SUBSET Bytes, B \subseteq Taken(s, j),
           \A t \in Sessions \ {s}, k \in Keys : Taken(t, k)' = Taken(t, k),
           \A k \in Keys : Taken(s, k)' \subseteq Taken(s, k),
           \A k \in Keys : \A p \in Taken(s, k) : p \in Taken(s, k)' \/ (k = j /\ p \in B),
           \A k \in Keys, p \in Bytes : 
              uses'[k][p] = IF k = j /\ p \in B THEN uses[k][p] + 1 ELSE uses[k][p]
    PROVE  Pad!Spend(s)
<1>1. ASSUME NEW k \in Keys, NEW p \in Bytes
      PROVE  IF k = j /\ p \in B 
             THEN Owner(k, p) = s /\ Owner(k, p)' = Spent
             ELSE Owner(k, p)' = Owner(k, p)
  <2>1. Recorded(k)' = Recorded(k) /\ uses[k][p] \in Nat
    BY DEF rows, Recorded, TypeOK
  <2>2. CASE k = j /\ p \in B 
    BY <2>1, <2>2 DEF OwnerInv
  <2>3. CASE ~(k = j /\ p \in B)
    <3>1. uses'[k][p] = uses[k][p]
      BY <2>3
    <3>2. \A t \in Sessions : p \in Taken(t, k)' <=> p \in Taken(t, k)
      BY <2>3
    <3>3. CASE uses[k][p] # 0
      BY <2>1, <3>1, <3>3 DEF OwnerInv
    <3>4. CASE \E t \in Sessions : p \in Taken(t, k)
      BY <2>3, <3>2, <3>4 DEF OwnerInv
    <3>5. CASE uses[k][p] = 0 /\ \A t \in Sessions : p \notin Taken(t, k)
      BY <2>1, <2>3, <3>1, <3>2, <3>5 DEF OwnerInv
    <3> QED
      BY <2>3, <3>3, <3>4, <3>5
  <2> QED
    BY <2>2, <2>3
<1>2. Pad!Pass(s, Spent)
  BY <1>1, PassOK
<1>3. \A k \in Keys, p \in Bytes : owner[k][p] = Owner(k, p) /\ owner'[k][p] = Owner(k, p)'
  BY DEF owner
<1>4. \A k \in Keys, p \in Bytes : 
        uses'[k][p] = IF owner'[k][p] # owner[k][p] THEN uses[k][p] + 1 ELSE uses[k][p]
  BY <1>1, <1>3, OwnersAssumption
<1>5. uses' = [k \in Keys |-> [p \in Bytes |-> 
                IF owner'[k][p] # owner[k][p] THEN uses[k][p] + 1 ELSE uses[k][p]]]
  BY <1>4 DEF TypeOK
<1>6. Pad!Bytes = Bytes
  BY DEF Pad!Bytes, Bytes
<1> QED
  BY <1>2, <1>5, <1>6 DEF Pad!Spend, Pad!Changed

\* A step that moves the recorded position on, over bytes a session then has.
LEMMA ReserveStep == 
    ASSUME TypeOK, TypeOK', OwnerInv, OwnerInv', NEW s \in Sessions, UNCHANGED uses,
           \A t \in Sessions \ {s}, k \in Keys : Taken(t, k)' = Taken(t, k),
           \A k \in Keys : Taken(s, k) \subseteq Taken(s, k)',
           \A k \in Keys : \A p \in Taken(s, k)' : p \in Taken(s, k) \/ Recorded(k) <= p,
           \A k \in Keys : Recorded(k) <= Recorded(k)',
           \A k \in Keys, p \in Bytes : Recorded(k) <= p /\ p < Recorded(k)' => p \in Taken(s, k)'
    PROVE  Pad!Reserve(s)
<1>1. ASSUME NEW k \in Keys, NEW p \in Bytes, Owner(k, p)' # Owner(k, p)
      PROVE  Owner(k, p) = Free /\ Owner(k, p)' = s
  <2>1. /\ Recorded(k) \in Nat /\ Recorded(k)' \in Nat /\ p \in Int 
        /\ uses'[k][p] = uses[k][p] /\ Recorded(k) <= Recorded(k)'
    BY PadEngineAssumption, GlobalOfType DEF TypeOK, Recorded, Bytes
  <2>2. uses[k][p] = 0 /\ \A t \in Sessions \ {s} : p \notin Taken(t, k)
    BY <1>1, <2>1 DEF OwnerInv
  <2>3. p \notin Taken(s, k)
    BY <1>1 DEF OwnerInv
  <2>4. p \in Taken(s, k)'
    <3>1. ASSUME p \notin Taken(s, k)' PROVE FALSE
      <4>1. Owner(k, p)' = IF p < Recorded(k)' THEN Lost ELSE Free
        BY <2>1, <2>2, <3>1 DEF OwnerInv
      <4>2. Owner(k, p) = IF p < Recorded(k) THEN Lost ELSE Free
        BY <2>2, <2>3 DEF OwnerInv
      <4>3. ~(Recorded(k) <= p /\ p < Recorded(k)')
        BY <3>1
      <4> QED
        BY <1>1, <2>1, <4>1, <4>2, <4>3
    <3> QED
      BY <3>1
  <2>5. Recorded(k) <= p
    BY <2>3, <2>4
  <2> QED
    BY <2>1, <2>2, <2>3, <2>4, <2>5 DEF OwnerInv
<1> QED
  BY <1>1, PassOK DEF Pad!Reserve

\* A step that moves the recorded position back, over bytes a session had.
LEMMA HandBackStep == 
    ASSUME TypeOK, TypeOK', OwnerInv, OwnerInv', NEW s \in Sessions, UNCHANGED uses,
           \A t \in Sessions \ {s}, k \in Keys : Taken(t, k)' = Taken(t, k),
           \A k \in Keys : Taken(s, k)' \subseteq Taken(s, k),
           \A k \in Keys : \A p \in Taken(s, k) : p \in Taken(s, k)' \/ Recorded(k)' <= p,
           \A k \in Keys : Recorded(k)' <= Recorded(k),
           \A k \in Keys, p \in Bytes : Recorded(k)' <= p /\ p < Recorded(k) => p \in Taken(s, k)
    PROVE  Pad!HandBack(s)
<1>1. ASSUME NEW k \in Keys, NEW p \in Bytes, Owner(k, p)' # Owner(k, p)
      PROVE  Owner(k, p) = s /\ Owner(k, p)' = Free
  <2>1. /\ Recorded(k) \in Nat /\ Recorded(k)' \in Nat /\ p \in Int 
        /\ uses'[k][p] = uses[k][p] /\ Recorded(k)' <= Recorded(k)
    BY PadEngineAssumption, GlobalOfType DEF TypeOK, Recorded, Bytes
  <2>2. uses[k][p] = 0 /\ \A t \in Sessions \ {s} : p \notin Taken(t, k)
    BY <1>1, <2>1 DEF OwnerInv
  <2>3. p \notin Taken(s, k)'
    BY <1>1 DEF OwnerInv
  <2>4. p \in Taken(s, k)
    <3>1. ASSUME p \notin Taken(s, k) PROVE FALSE
      <4>1. Owner(k, p)' = IF p < Recorded(k)' THEN Lost ELSE Free
        BY <2>1, <2>2, <2>3 DEF OwnerInv
      <4>2. Owner(k, p) = IF p < Recorded(k) THEN Lost ELSE Free
        BY <2>2, <3>1 DEF OwnerInv
      <4>3. ~(Recorded(k)' <= p /\ p < Recorded(k))
        BY <3>1
      <4> QED
        BY <1>1, <2>1, <4>1, <4>2, <4>3
    <3> QED
      BY <3>1
  <2>5. Recorded(k)' <= p
    BY <2>3, <2>4
  <2> QED
    BY <2>1, <2>2, <2>3, <2>4, <2>5 DEF OwnerInv
<1> QED
  BY <1>1, PassOK DEF Pad!HandBack

\* A session's step takes nothing from another session, and gives it nothing.
LEMMA TakenOfOthers == 
    ASSUME TypeOK, NEW s \in Sessions, Call(s) \/ Step(s) \/ Crash(s)
    PROVE  \A t \in Sessions \ {s}, k \in Keys : Taken(t, k)' = Taken(t, k)
<1>1. ASSUME NEW t \in Sessions \ {s}, NEW k \in Keys PROVE Taken(t, k)' = Taken(t, k)
  <2>1. Local(t)' = Local(t)
    BY StepIsLocal
  <2>2. CachedBytes(t, k)' = CachedBytes(t, k)
    BY <2>1 DEF Local, CachedBytes
  <2>3. FetchedBytes(t, k)' = FetchedBytes(t, k)
    BY <2>1 DEF Local, FetchedBytes, HasCommitted, PlanStart, GlobalOf, At
  <2> QED
    BY <2>2, <2>3 DEF Taken
<1> QED
  BY <1>1

\* Only a call that has committed has bytes that are in no entry.
LEMMA NoneFetched == 
    ASSUME NEW s \in Sessions, NEW k \in Keys
    PROVE  /\ ~At(s, "detach") \/ ~request[s].encrypt => FetchedBytes(s, k) = {}
           /\ ~At(s, "detach")' \/ ~request'[s].encrypt => FetchedBytes(s, k)' = {}
BY DEF FetchedBytes, HasCommitted

\* The bytes of a cache are those that its entries have left.
LEMMA CachedIff == 
    ASSUME NEW s \in Sessions, NEW k \in Keys, NEW p \in Bytes
    PROVE  /\ p \in CachedBytes(s, k) <=> 
                \E i \in Slots : /\ HoldsBytes(cache[s][i], k) 
                                 /\ FirstLeft(cache[s][i]) <= p /\ p < EndLeft(cache[s][i])
           /\ p \in CachedBytes(s, k)' <=> 
                \E i \in Slots : /\ HoldsBytes(cache'[s][i], k) 
                                 /\ FirstLeft(cache'[s][i]) <= p /\ p < EndLeft(cache'[s][i])
BY DEF CachedBytes, HoldsBytes, FirstLeft, EndLeft

\* A quiet step puts no bytes into the cache.
LEMMA QuietCaches == 
    ASSUME Quiet, NEW s \in Sessions, NEW k \in Keys
    PROVE  CachedBytes(s, k)' \subseteq CachedBytes(s, k)
BY DEF Quiet, CachedBytes

\* A step that is none of the four that use bytes or write the row only loses.
LEMMA QuietLoses == 
    ASSUME TypeOK, CallInv, OwnerInv, OwnerInv', NEW s \in Sessions, 
           Call(s) \/ Step(s) \/ Crash(s),
           ~(request[s].encrypt /\ (Serve(s) \/ Detach(s))), ~Commit(s), ~RewindCommit(s)
    PROVE  Pad!Lose(s)
<1>1. Quiet
  BY QuietSteps
<1>2. ~At(s, "detach")' \/ ~request'[s].encrypt
  BY OnlyCommitTakes
<1>3. \A k \in Keys : Taken(s, k)' \subseteq Taken(s, k)
  BY <1>1, <1>2, QuietCaches, NoneFetched DEF Taken
<1> QED
  BY <1>1, <1>3, TakenOfOthers, LoseStep DEF Quiet

\* getCachedKeyBytes encrypts with the first bytes that an entry has left.
LEMMA ServeSpends == 
    ASSUME TypeOK, TypeOK', CallInv, OwnerInv, OwnerInv', NEW s \in Sessions, 
           Serve(s), request[s].encrypt
    PROVE  Pad!Spend(s)
<1> DEFINE e == cache[s][slot[s]]
           n == request[s].size
           k == sessionKey[s]
           lo == FirstLeft(e)
           B == {q \in Bytes : lo <= q /\ q < lo + n}
           held == [keyId |-> e.keyId, from |-> e.from + e.workOffset, 
                    to |-> e.from + e.workOffset + e.workSize]
<1>1. /\ At(s, "serve") /\ slot[s] \in Slots /\ k \in Keys
      /\ HoldsBytes(e, k) /\ n \in Nat /\ n > 0 /\ n <= e.workSize
  BY DEF Serve, CallInv, CallOK, At, TypeOK, Request, HoldsBytes
<1>2. /\ lo \in Nat /\ EndLeft(e) = lo + e.workSize /\ e.workSize \in Nat /\ e \in Entry
      /\ \A q \in Bytes : q \in Int
  BY <1>1, EntryBounds, PadEngineAssumption DEF Bytes
<1>3. UNCHANGED rows /\ cache' = [cache EXCEPT ![s][slot[s]] = UseEntry(e, n)] /\ pc'[s] = "idle"
  BY DEF Serve, Return, GoTo, TypeOK
<1>4. \A j \in Keys, q \in Bytes : 
        uses'[j][q] = IF j = k /\ q \in B THEN uses[j][q] + 1 ELSE uses[j][q]
  <2>1. uses' = [uses EXCEPT ![held.keyId] = 
                   [q \in Bytes |-> IF q \in lo .. lo + n - 1 THEN @[q] + 1 ELSE @[q]]]
    BY DEF Serve, Deliver, FirstLeft
  <2>2. held.keyId = k
    BY <1>1 DEF HoldsBytes
  <2>3. uses' = [uses EXCEPT ![k] = 
                   [q \in Bytes |-> IF q \in lo .. lo + n - 1 THEN @[q] + 1 ELSE @[q]]]
    BY <2>1, <2>2
  <2> HIDE DEF k, lo, n
  <2>4. \A j \in Keys, q \in Bytes : 
          uses'[j][q] = IF j = k /\ lo <= q /\ q < lo + n THEN uses[j][q] + 1 ELSE uses[j][q]
    BY <1>1, <1>2, <2>3, DeliveredBytes
  <2> QED
    BY <2>4
<1>5. /\ \A i \in Slots : i # slot[s] => cache'[s][i] = cache[s][i]
      /\ cache'[s][slot[s]] = UseEntry(e, n)
  BY <1>1, <1>3 DEF TypeOK
<1>6. \/ n = e.workSize /\ \A j \in Keys : ~HoldsBytes(UseEntry(e, n), j)
      \/ /\ n < e.workSize /\ \A j \in Keys : HoldsBytes(UseEntry(e, n), j) <=> j = k
         /\ FirstLeft(UseEntry(e, n)) = lo + n /\ EndLeft(UseEntry(e, n)) = EndLeft(e)
  <2>1. CASE n = e.workSize
    BY <2>1 DEF UseEntry, HoldsBytes, NoEntry
  <2>2. CASE n # e.workSize
    <3>1. UseEntry(e, n) = [e EXCEPT !.workOffset = @ + n, !.workSize = @ - n]
      BY <2>2 DEF UseEntry
    <3>2. n < e.workSize
      BY <1>1, <1>2, <2>2
    <3>3. \A j \in Keys : HoldsBytes(UseEntry(e, n), j) <=> j = k
      BY <1>1, <1>2, <3>1 DEF HoldsBytes, Entry
    <3>4. FirstLeft(UseEntry(e, n)) = lo + n /\ EndLeft(UseEntry(e, n)) = EndLeft(e)
      BY <1>1, <1>2, <3>1 DEF FirstLeft, EndLeft, Entry
    <3> QED
      BY <3>2, <3>3, <3>4
  <2> QED
    BY <2>1, <2>2
<1>7. FirstLeft(e) <= lo + n /\ lo + n <= EndLeft(e)
  BY <1>1, <1>2
<1> HIDE DEF e, n, k, lo
<1>8. ASSUME NEW j \in Keys, NEW q \in Bytes, q \in CachedBytes(s, j)'
      PROVE  q \in CachedBytes(s, j)
  <2>1. PICK i \in Slots : /\ HoldsBytes(cache'[s][i], j) 
                           /\ FirstLeft(cache'[s][i]) <= q /\ q < EndLeft(cache'[s][i])
    BY <1>8, CachedIff
  <2>2. CASE i = slot[s]
    <3>1. j = k /\ lo + n <= q /\ q < EndLeft(e) /\ q \in Int
      BY <1>2, <1>5, <1>6, <2>1, <2>2
    <3>2. HoldsBytes(e, j) /\ FirstLeft(e) <= q /\ q < EndLeft(e)
      BY <1>1, <1>2, <3>1 DEF lo
    <3> QED
      BY <1>1, <3>2, CachedIff DEF e
  <2>3. CASE i # slot[s]
    BY <1>5, <2>1, <2>3, CachedIff
  <2> QED
    BY <2>2, <2>3
<1>9. ASSUME NEW j \in Keys, NEW q \in Bytes, q \in CachedBytes(s, j)
      PROVE  q \in CachedBytes(s, j)' \/ (j = k /\ q \in B)
  <2>1. PICK i \in Slots : /\ HoldsBytes(cache[s][i], j) 
                           /\ FirstLeft(cache[s][i]) <= q /\ q < EndLeft(cache[s][i])
    BY <1>9, CachedIff
  <2>2. CASE i = slot[s]
    <3>1. j = k /\ lo <= q /\ q < EndLeft(e) /\ q \in Int
      BY <1>1, <1>2, <2>1, <2>2 DEF HoldsBytes, e, lo
    <3>2. CASE q < lo + n
      BY <3>1, <3>2
    <3>3. CASE ~(q < lo + n)
      <4>1. n < e.workSize
        BY <1>1, <1>2, <3>1, <3>3
      <4>2. HoldsBytes(UseEntry(e, n), j) /\ FirstLeft(UseEntry(e, n)) <= q /\ q < EndLeft(UseEntry(e, n))
        BY <1>1, <1>2, <1>6, <3>1, <3>3, <4>1
      <4> QED
        BY <1>1, <1>5, <4>2, CachedIff
    <3> QED
      BY <3>2, <3>3
  <2>3. CASE i # slot[s]
    BY <1>5, <2>1, <2>3, CachedIff
  <2> QED
    BY <2>2, <2>3
<1>10. ASSUME NEW q \in B
       PROVE  q \in CachedBytes(s, k)
  <2>1. FirstLeft(e) <= q /\ q < EndLeft(e) 
    BY <1>1, <1>2, <1>10 DEF lo
  <2> QED
    BY <1>1, <2>1, CachedIff DEF e
<1>11. \A j \in Keys : FetchedBytes(s, j) = {} /\ FetchedBytes(s, j)' = {}
  BY <1>1, <1>3, NoneFetched DEF At
<1>12. \A j \in Keys : Taken(s, j) = CachedBytes(s, j) /\ Taken(s, j)' = CachedBytes(s, j)'
  BY <1>11 DEF Taken
<1>13. /\ B \in SUBSET Bytes /\ B \subseteq Taken(s, k)
       /\ \A j \in Keys : Taken(s, j)' \subseteq Taken(s, j)
       /\ \A j \in Keys : \A p \in Taken(s, j) : p \in Taken(s, j)' \/ (j = k /\ p \in B)
  <2>1. \A j \in Keys : CachedBytes(s, j) \subseteq Bytes /\ CachedBytes(s, j)' \subseteq Bytes
    BY DEF CachedBytes
  <2>2. \A j \in Keys : Taken(s, j)' \subseteq Taken(s, j)
    BY <1>8, <1>12, <2>1
  <2>3. \A j \in Keys : \A p \in Taken(s, j) : p \in Taken(s, j)' \/ (j = k /\ p \in B)
    BY <1>9, <1>12, <2>1
  <2> QED
    BY <1>1, <1>10, <1>12, <2>2, <2>3
<1>14. \A t \in Sessions \ {s}, j \in Keys : Taken(t, j)' = Taken(t, j)
  BY TakenOfOthers DEF Step
<1> HIDE DEF B
<1> QED
  BY <1>1, <1>3, <1>4, <1>13, <1>14, SpendStep

\* The end of getKeyBytes: the bytes it fetched go into an entry of the session, or 
\* encrypt, or are lost.
LEMMA DetachPasses == 
    ASSUME TypeOK, TypeOK', CallInv, OwnerInv, OwnerInv', NEW s \in Sessions, 
           Detach(s), request[s].encrypt
    PROVE  Pad!Lose(s) \/ Pad!Spend(s)
<1> DEFINE k == sessionKey[s]
           p == PlanStart(s)
           n == fetch[s].size
           e == [inUse |-> TRUE, keyId |-> k, isEncrypt |-> request[s].encrypt,
                 offset |-> p, from |-> p, workOffset |-> 0, workSize |-> n]
           held == [keyId |-> k, from |-> p, to |-> p + n]
           B == {q \in Bytes : p <= q /\ q < p + n}
<1>1. /\ At(s, "detach") /\ k \in Keys /\ p \in Nat /\ n \in Nat /\ UNCHANGED rows
      /\ fetch[s].fill => slot[s] \in Slots
  BY PlanType DEF Detach, CallInv, CallOK, Fetching, At
<1>2. \A j \in Keys : FetchedBytes(s, j) = IF j = k THEN B ELSE {}
  BY <1>1 DEF FetchedBytes, HasCommitted
<1>3. \A t \in Sessions \ {s}, j \in Keys : Taken(t, j)' = Taken(t, j)
  BY TakenOfOthers DEF Step
<1>4. pc'[s] \in {"idle", "info", "serve"}
  BY FetchFailsLeaves DEF Detach, Return, GoTo, TypeOK
<1>5. \A j \in Keys : FetchedBytes(s, j)' = {}
  BY <1>4, NoneFetched DEF At
<1>6. CASE UNCHANGED <<cache, uses>>
  <2>1. \A j \in Keys : CachedBytes(s, j)' = CachedBytes(s, j)
    BY <1>6 DEF CachedBytes
  <2>2. \A j \in Keys : Taken(s, j)' \subseteq Taken(s, j)
    BY <1>5, <2>1 DEF Taken
  <2> QED
    BY <1>1, <1>3, <1>6, <2>2, LoseStep
<1>7. CASE fetch[s].fill /\ cache' = [cache EXCEPT ![s][slot[s]] = e] /\ UNCHANGED uses
  <2>1. \A i \in Slots : cache'[s][i] = IF i = slot[s] THEN e ELSE cache[s][i]
    BY <1>1, <1>7 DEF TypeOK
  <2>2. FirstLeft(e) = p /\ EndLeft(e) = p + n /\ \A j \in Keys : HoldsBytes(e, j) => j = k
    BY <1>1 DEF FirstLeft, EndLeft, HoldsBytes
  <2> HIDE DEF e, p, n, k
  <2>3. ASSUME NEW j \in Keys, NEW q \in Bytes, q \in CachedBytes(s, j)'
        PROVE  q \in Taken(s, j)
    <3>1. PICK i \in Slots : /\ HoldsBytes(cache'[s][i], j) 
                             /\ FirstLeft(cache'[s][i]) <= q /\ q < EndLeft(cache'[s][i])
      BY <2>3, CachedIff
    <3>2. CASE i = slot[s]
      BY <1>2, <2>1, <2>2, <3>1, <3>2 DEF Taken
    <3>3. CASE i # slot[s]
      BY <2>1, <3>1, <3>3, CachedIff DEF Taken
    <3> QED
      BY <3>2, <3>3
  <2>4. \A j \in Keys : CachedBytes(s, j)' \subseteq Bytes
    BY DEF CachedBytes
  <2>5. \A j \in Keys : Taken(s, j)' = CachedBytes(s, j)'
    BY <1>5 DEF Taken
  <2>6. \A j \in Keys : Taken(s, j)' \subseteq Taken(s, j)
    BY <2>3, <2>4, <2>5
  <2> QED
    BY <1>1, <1>3, <1>7, <2>6, LoseStep
<1>8. CASE Deliver(s, p, p, n, held) /\ UNCHANGED cache
  <2>1. \A j \in Keys, q \in Bytes : 
          uses'[j][q] = IF j = k /\ p <= q /\ q < p + n THEN uses[j][q] + 1 ELSE uses[j][q]
    <3>1. uses' = [uses EXCEPT ![k] = 
                     [q \in Bytes |-> IF q \in p .. p + n - 1 THEN @[q] + 1 ELSE @[q]]]
      BY <1>8 DEF Deliver
    <3> HIDE DEF p, n, k
    <3> QED
      BY <1>1, <3>1, DeliveredBytes
  <2>2. \A j \in Keys : Taken(s, j)' = CachedBytes(s, j)
    <3>1. \A j \in Keys : CachedBytes(s, j)' = CachedBytes(s, j)
      BY <1>8 DEF CachedBytes
    <3> QED
      BY <1>5, <3>1 DEF Taken
  <2>3. \A j \in Keys : Taken(s, j) = CachedBytes(s, j) \cup (IF j = k THEN B ELSE {})
    BY <1>2 DEF Taken
  <2>4. /\ B \in SUBSET Bytes /\ B \subseteq Taken(s, k)
        /\ \A j \in Keys : Taken(s, j)' \subseteq Taken(s, j)
        /\ \A j \in Keys : \A q \in Taken(s, j) : q \in Taken(s, j)' \/ (j = k /\ q \in B)
    BY <1>1, <2>2, <2>3
  <2>5. \A j \in Keys, q \in Bytes : 
          uses'[j][q] = IF j = k /\ q \in B THEN uses[j][q] + 1 ELSE uses[j][q]
    BY <2>1
  <2> HIDE DEF B, k, p, n
  <2> QED
    BY <1>1, <1>3, <2>4, <2>5, SpendStep
<1> QED
  BY <1>6, <1>7, <1>8 DEF Detach, history

\* What a plan reads lies between the recorded position and the one that its
\* commit records: the commit takes those bytes from the pad.
LEMMA CommitPasses == 
    ASSUME TypeOK, TypeOK', CallInv, OwnerInv, OwnerInv', NEW s \in Sessions, PlanOK(s), 
           Commit(s)
    PROVE  Pad!Reserve(s) \/ Pad!Lose(s)
<1> DEFINE k == sessionKey[s]
           end == PlanStart(s) + fetch[s].size
           row == pending[s]
<1>1. /\ At(s, "commit") /\ k \in Keys /\ request[s].encrypt 
      /\ UNCHANGED <<uses, cache, request, sessionKey, fetch>>
  BY DEF Commit, CallInv, CallOK, Fetching, At, history, handle
<1>2. PlanStart(s) = Recorded(k) /\ IsRowAt(row, end)
  BY <1>1 DEF PlanOK, At
<1>3. Recorded(k) <= end /\ Recorded(k) \in Nat /\ end \in Nat
  BY <1>1, <1>2, PlanType
<1>4. \A t \in Sessions \ {s}, j \in Keys : Taken(t, j)' = Taken(t, j)
  BY TakenOfOthers DEF Step
<1>5. \A j \in Keys : CachedBytes(s, j)' = CachedBytes(s, j) /\ FetchedBytes(s, j) = {}
  BY <1>1, NoneFetched DEF CachedBytes, At
<1>6. CASE UNCHANGED rows /\ pc'[s] = "cleanup"
  <2>1. \A j \in Keys : FetchedBytes(s, j)' = {}
    BY <1>6, NoneFetched DEF At
  <2>2. \A j \in Keys : Taken(s, j)' \subseteq Taken(s, j)
    BY <1>5, <2>1 DEF Taken
  <2> QED
    BY <1>1, <1>4, <1>6, <2>2, LoseStep
<1>7. CASE WriteRow(k, row) /\ pc'[s] = "detach"
  <2>1. /\ rowChunk'[k] = row.chunkId /\ rowOffset'[k] = row.offset
        /\ \A j \in Keys : j # k => rowChunk'[j] = rowChunk[j] /\ rowOffset'[j] = rowOffset[j]
    BY <1>1, <1>7 DEF WriteRow, TypeOK
  <2>2. GlobalOf(rowChunk'[k], rowOffset'[k]) = end
    BY <1>2, <2>1 DEF IsRowAt
  <2>3. \A j \in Keys : Recorded(j)' = IF j = k THEN end ELSE Recorded(j)
    BY <2>1, <2>2 DEF Recorded
  <2>4. PlanStart(s)' = Recorded(k)
    BY <1>1, <1>2 DEF PlanStart, GlobalOf
  <2>5. \A j \in Keys, q \in Bytes : 
          q \in FetchedBytes(s, j)' <=> j = k /\ Recorded(k) <= q /\ q < end
    BY <1>1, <1>2, <1>7, <2>4 DEF FetchedBytes, HasCommitted, At
  <2>6. \A j \in Keys : /\ Taken(s, j)' = CachedBytes(s, j) \cup FetchedBytes(s, j)'
                        /\ Taken(s, j) = CachedBytes(s, j)
    BY <1>5 DEF Taken
  <2>7. \A j \in Keys : FetchedBytes(s, j)' \subseteq Bytes
    BY DEF FetchedBytes, HasCommitted
  <2>8. \A j \in Keys : Recorded(j) <= Recorded(j)'
    <3>1. Recorded(k) <= end
      BY <1>3
    <3>2. \A j \in Keys : Recorded(j) <= Recorded(j)
      BY RecordedType
    <3> QED
      BY <2>3, <3>1, <3>2
  <2>9. \A j \in Keys, q \in Bytes : Recorded(j) <= q /\ q < Recorded(j)' => q \in Taken(s, j)'
    <3> SUFFICES ASSUME NEW j \in Keys, NEW q \in Bytes, Recorded(j) <= q, q < Recorded(j)'
                 PROVE  q \in Taken(s, j)'
      OBVIOUS
    <3>1. Recorded(j) \in Nat /\ q \in Int
      BY RecordedType, PadEngineAssumption DEF Bytes
    <3>2. j = k
      BY <2>3, <3>1
    <3> QED
      BY <2>3, <2>5, <2>6, <3>2
  <2>10. \A j \in Keys : \A q \in Taken(s, j)' : q \in Taken(s, j) \/ Recorded(j) <= q
    BY <2>5, <2>6, <2>7
  <2>11. \A j \in Keys : Taken(s, j) \subseteq Taken(s, j)'
    BY <2>6
  <2> QED
    BY <1>1, <1>4, <2>8, <2>9, <2>10, <2>11, ReserveStep
<1> QED
  BY <1>6, <1>7 DEF Commit, rows, GoTo, TypeOK

\* A rewind moves the recorded position back over just the bytes that the entry it
\* frees has left.
LEMMA RewindPasses == 
    ASSUME TypeOK, TypeOK', CallInv, EntryInv, OwnerInv, OwnerInv', NEW s \in Sessions, 
           RewindOK(s), RewindCommit(s)
    PROVE  Pad!HandBack(s) \/ Pad!Lose(s)
<1> DEFINE e == cache[s][slot[s]]
           k == e.keyId
           row == pending[s]
           back == FirstLeft(e)
<1>1. /\ At(s, "rewindCommit") /\ slot[s] \in Slots /\ k \in Keys /\ HoldsBytes(e, k) 
      /\ UNCHANGED uses /\ FreeSlot(s)
  BY DEF RewindCommit, CallInv, CallOK, EntriesOK, HoldsBytes, At, history
<1>2. EndLeft(e) = Recorded(k) /\ IsRowAt(row, back)
  BY <1>1 DEF RewindOK, LastTaken, EndLeft, EntryInv
<1>3. back \in Nat /\ e.workSize \in Nat /\ EndLeft(e) = back + e.workSize
  BY <1>1, EntryBounds
<1>4. \A t \in Sessions \ {s}, j \in Keys : Taken(t, j)' = Taken(t, j)
  BY TakenOfOthers DEF Step
<1>5. pc'[s] \in {"unmount", "fill"}
  BY <1>1 DEF FreeSlot, GoTo, TypeOK
<1>6. \A j \in Keys : FetchedBytes(s, j) = {} /\ FetchedBytes(s, j)' = {}
  BY <1>1, <1>5, NoneFetched DEF At
<1>7. \A j \in Keys : Taken(s, j) = CachedBytes(s, j) /\ Taken(s, j)' = CachedBytes(s, j)'
  BY <1>6 DEF Taken
<1>8. \A i \in Slots : cache'[s][i] = IF i = slot[s] THEN NoEntry ELSE cache[s][i]
  BY <1>1 DEF FreeSlot, TypeOK
<1>9. \A j \in Keys : ~HoldsBytes(NoEntry, j)
  BY DEF HoldsBytes, NoEntry
<1>10. ASSUME NEW j \in Keys, NEW q \in Bytes, q \in CachedBytes(s, j)'
       PROVE  q \in CachedBytes(s, j)
  BY <1>8, <1>9, <1>10, CachedIff
<1>11. \A j \in Keys : CachedBytes(s, j) \subseteq Bytes /\ CachedBytes(s, j)' \subseteq Bytes
  BY DEF CachedBytes
<1>12. \A j \in Keys : Taken(s, j)' \subseteq Taken(s, j)
  BY <1>7, <1>10, <1>11
<1>13. CASE UNCHANGED rows
  BY <1>1, <1>4, <1>12, <1>13, LoseStep
<1>14. CASE WriteRow(k, row)
  <2>1. /\ rowChunk'[k] = row.chunkId /\ rowOffset'[k] = row.offset
        /\ \A j \in Keys : j # k => rowChunk'[j] = rowChunk[j] /\ rowOffset'[j] = rowOffset[j]
    BY <1>1, <1>14 DEF WriteRow, TypeOK
  <2>2. GlobalOf(rowChunk'[k], rowOffset'[k]) = back
    BY <1>2, <2>1 DEF IsRowAt
  <2>3. \A j \in Keys : Recorded(j)' = IF j = k THEN back ELSE Recorded(j)
    BY <2>1, <2>2 DEF Recorded
  <2>4. \A j \in Keys : Recorded(j)' <= Recorded(j)
    <3>1. Recorded(k) = back + e.workSize
      BY <1>2, <1>3
    <3>2. back <= Recorded(k)
      BY <1>3, <3>1
    <3>3. \A j \in Keys : Recorded(j) <= Recorded(j)
      BY RecordedType
    <3> QED
      BY <2>3, <3>2, <3>3
  <2> HIDE DEF e, k, back
  <2>5. ASSUME NEW j \in Keys, NEW q \in Bytes, q \in CachedBytes(s, j)
        PROVE  q \in CachedBytes(s, j)' \/ Recorded(j)' <= q
    <3>1. PICK i \in Slots : /\ HoldsBytes(cache[s][i], j) 
                             /\ FirstLeft(cache[s][i]) <= q /\ q < EndLeft(cache[s][i])
      BY <2>5, CachedIff
    <3>2. CASE i = slot[s]
      <4>1. j = k
        BY <1>1, <3>1, <3>2 DEF HoldsBytes, e
      <4>2. FirstLeft(cache[s][i]) = back
        BY <3>2 DEF back, e
      <4> QED
        BY <2>3, <3>1, <4>1, <4>2
    <3>3. CASE i # slot[s]
      BY <1>8, <3>1, <3>3, CachedIff
    <3> QED
      BY <3>2, <3>3
  <2>6. \A j \in Keys : \A q \in Taken(s, j) : q \in Taken(s, j)' \/ Recorded(j)' <= q
    BY <1>7, <1>11, <2>5
  <2>7. \A j \in Keys, q \in Bytes : Recorded(j)' <= q /\ q < Recorded(j) => q \in Taken(s, j)
    <3> SUFFICES ASSUME NEW j \in Keys, NEW q \in Bytes, Recorded(j)' <= q, q < Recorded(j)
                 PROVE  q \in Taken(s, j)
      OBVIOUS
    <3>1. Recorded(j) \in Nat /\ q \in Int
      BY RecordedType, PadEngineAssumption DEF Bytes
    <3>2. j = k
      BY <2>3, <3>1
    <3>3. HoldsBytes(e, j) /\ FirstLeft(e) <= q /\ q < EndLeft(e)
      BY <1>1, <1>2, <2>3, <3>2 DEF back
    <3> QED
      BY <1>1, <1>7, <3>3, CachedIff DEF e
  <2> QED
    BY <1>1, <1>4, <1>12, <2>4, <2>6, <2>7, HandBackStep
<1> QED
  BY <1>1, <1>13, <1>14 DEF RewindCommit

\* Nothing is taken, and nothing was used, before the first session exists.
LEMMA InitOwner == Init => Pad!Init
<1> SUFFICES ASSUME Init PROVE Pad!Init
  OBVIOUS
<1>1. ASSUME NEW k \in Keys, NEW p \in Bytes PROVE Owner(k, p) = Free
  <2>1. \A s \in Sessions : p \notin Taken(s, k)
    BY DEF Init, Taken, CachedBytes, FetchedBytes, HasCommitted, NoEntry, At
  <2>2. Recorded(k) = 0
    BY ChunkSizeAssumption DEF Init, Recorded, GlobalOf
  <2>3. uses[k][p] = 0 /\ ~(p < 0)
    BY PadEngineAssumption DEF Init, Bytes
  <2> QED
    BY <2>1, <2>2, <2>3 DEF Owner
<1>2. owner = [k \in Keys |-> [p \in Bytes |-> Free]]
  BY <1>1 DEF owner
<1>3. Pad!Bytes = Bytes
  BY DEF Pad!Bytes, Bytes
<1> QED
  BY <1>2, <1>3 DEF Init, Pad!Init

\* Every step of the engine is one of the one-time pad's, or changes no byte's owner.
LEMMA StepPasses == 
    ASSUME TypeOK, TypeOK', IInv, OwnerInv, OwnerInv', [Next]_vars
    PROVE  [Pad!Next]_(Pad!vars)
<1>1. CASE UNCHANGED vars
  <2>1. UNCHANGED uses
    BY <1>1 DEF vars, history
  <2>2. UNCHANGED owner
    BY <1>1 DEF vars, rows, handle, history, owner, Owner, Taken, CachedBytes, FetchedBytes, HasCommitted, 
       Recorded, GlobalOf, PlanStart, At
  <2> QED
    BY <2>1, <2>2 DEF Pad!vars
<1>2. CASE Next
  <2>1. PICK s \in Sessions : Call(s) \/ Step(s) \/ Crash(s)
    BY <1>2 DEF Next
  <2>2. CallInv /\ EntryInv /\ PlanOK(s) /\ RewindOK(s)
    BY DEF IInv, PlanInv
  <2>3. Pad!Reserve(s) \/ Pad!HandBack(s) \/ Pad!Lose(s) \/ Pad!Spend(s)
    <3>1. CASE Serve(s) /\ request[s].encrypt
      BY <2>2, <3>1, ServeSpends
    <3>2. CASE Detach(s) /\ request[s].encrypt
      BY <2>2, <3>2, DetachPasses
    <3>3. CASE Commit(s)
      BY <2>2, <3>3, CommitPasses
    <3>4. CASE RewindCommit(s)
      BY <2>2, <3>4, RewindPasses
    <3>5. CASE ~(request[s].encrypt /\ (Serve(s) \/ Detach(s))) /\ ~Commit(s) /\ ~RewindCommit(s)
      BY <2>1, <2>2, <3>5, QuietLoses
    <3> QED
      BY <3>1, <3>2, <3>3, <3>4, <3>5
  <2> QED
    BY <2>3 DEF Pad!Next
<1> QED
  BY <1>1, <1>2

-----------------------------------------------------------------------------
(* What the engine guarantees, and to whom.                                *)

\* The engine is a one-time pad, with any overlap of calls, if the positions hold that
\* calls have read before their transactions: no byte encrypts twice, UsedBytes and the 
\* position agree, bytes on their way to be used are out of everybody else's reach, the 
\* position never moves back over a used byte, and every byte goes from the free to one 
\* session, and from there to the spent or the lost, for good, or unused back to the
\* free.  So whenever a byte was used twice, somebody moved a position between another's
\* getKeyInfo and its BEGIN EXCLUSIVE.
THEOREM SafeIfPositionsHold == 
    Spec /\ PositionsHold => 
        /\ [](PadUsedOnce /\ AccountingExact /\ TakenBytesAreExclusive)
        /\ RewindsOnlyUnusedBytes
        /\ ImplementsOneTimePad
<1>1. TypeOK /\ IInv => PadUsedOnce /\ AccountingExact /\ TakenBytesAreExclusive
  BY AccountingOK, TakenExclusive DEF IInv, UseInv, PadUsedOnce
<1>2. TypeOK /\ TypeOK' /\ IInv /\ IInv' => 
        [\A k \in Keys : \A p \in Recorded(k)' .. Recorded(k) - 1 : uses'[k][p] = 0]_vars
  BY RewindsOK
<1>3. Init => Pad!Init
  BY InitOwner
<1>4. TypeOK /\ TypeOK' /\ IInv /\ OwnerInv /\ OwnerInv' /\ [Next]_vars => [Pad!Next]_(Pad!vars)
  BY StepPasses
<1>5. TypeOK /\ IInv => OwnerInv
  BY OwnerOK
<1> QED
  BY <1>1, <1>2, <1>3, <1>4, <1>5, TypeCorrect, IInvCorrect, PTL 
     DEF Spec, RewindsOnlyUnusedBytes, ImplementsOneTimePad, Pad!Spec

\* Only a commit, of a fetch or of a rewind, moves a position, and only that of a key
\* that is the session's own.
LEMMA OwnKeysMove == 
    ASSUME TypeOK, CallInv, NEW s \in Sessions, Call(s) \/ Step(s) \/ Crash(s), 
           NEW k \in Keys, Recorded(k)' # Recorded(k)
    PROVE  pc[s] \in {"commit", "rewindCommit"} /\ k \in OwnKeys(s)
<1>1. ~UNCHANGED rows
  BY DEF rows, Recorded
<1>2. CASE Commit(s)
  <2>1. At(s, "commit") /\ sessionKey[s] \in Keys /\ WriteRow(sessionKey[s], pending[s])
    BY <1>1, <1>2 DEF Commit, CallInv, CallOK, Fetching, At, rows
  <2>2. sessionKey[s] = k
    BY <2>1 DEF WriteRow, Recorded, TypeOK
  <2> QED
    BY <2>1, <2>2 DEF OwnKeys, At
<1>3. CASE RewindCommit(s)
  <2> DEFINE e == cache[s][slot[s]]
  <2>1. /\ At(s, "rewindCommit") /\ slot[s] \in Slots /\ e.keyId \in Keys /\ HoldsBytes(e, e.keyId)
        /\ WriteRow(e.keyId, pending[s])
    BY <1>1, <1>3 DEF RewindCommit, CallInv, CallOK, EntriesOK, HoldsBytes, At
  <2>2. e.keyId = k
    BY <2>1 DEF WriteRow, Recorded, TypeOK
  <2> QED
    BY <2>1, <2>2 DEF OwnKeys, At
<1>4. CASE ~Commit(s) /\ ~RewindCommit(s)
  <2>1. CASE Call(s) \/ Crash(s)
    BY <1>1, <2>1 DEF Call, Crash, CreateSession, CloseSession, MountKeySet, UnmountKeySet, 
       SetSessionKey, Encrypt, Decrypt, StartCipher, rows
  <2>2. CASE Step(s)
    BY <1>1, <1>4, <2>2 DEF Step, Lookup, Fill, Serve, ReadKeyInfo, Attach, Begin, ReadChunks, 
       AdvanceOffset, Detach, Cleanup, Evict, Rewind, Unmount, rows
  <2> QED
    BY <2>1, <2>2
<1> QED
  BY <1>2, <1>3, <1>4

\* A call starts when no other is under way.
LEMMA MayCallAlone == 
    ASSUME ~CallsOverlap, NEW s \in Sessions, Call(s)
    PROVE  \A t \in Sessions : At(t, "idle")
BY DEF Call, CreateSession, CloseSession, MountKeySet, UnmountKeySet, SetSessionKey, Encrypt, 
   Decrypt, StartCipher, MayCall

\* At most one call is under way.
OneCall == \A s, t \in Sessions : At(s, "idle") \/ At(t, "idle") \/ s = t

\* It stays that way.
LEMMA OneCallStep == 
    ASSUME ~CallsOverlap, TypeOK, OneCall, NEW s \in Sessions, Call(s) \/ Step(s) \/ Crash(s)
    PROVE  OneCall'
<1>1. \A t \in Sessions : t # s => pc'[t] = pc[t]
  BY StepIsLocal DEF Local
<1>2. CASE Crash(s)
  <2>1. pc'[s] = "idle"
    BY <1>2 DEF Crash, Return, GoTo, TypeOK
  <2>2. QED
    BY <1>1, <2>1 DEF OneCall, At
<1>3. CASE Call(s)
  BY <1>1, <1>3, MayCallAlone DEF OneCall, At
<1>4. CASE Step(s)
  <2>1. ~At(s, "idle")
    BY <1>4 DEF Step, Lookup, Fill, Serve, ReadKeyInfo, Attach, Begin, ReadChunks, AdvanceOffset, 
       Commit, Detach, Cleanup, Evict, Rewind, RewindCommit, Unmount, At
  <2>2. QED
    BY <1>1, <2>1 DEF OneCall, At
<1>5. QED
  BY <1>2, <1>3, <1>4

\* Positions hold when calls do not overlap: nobody is there to move them.
LEMMA SerialPositionsHold == 
    ASSUME ~CallsOverlap
    PROVE  Spec => PositionsHold
<1> DEFINE I == BaseInv /\ OneCall
           Hold == \A s \in Sessions, k \in Keys : HasRead(s, k) => Recorded(k)' = Recorded(k)
<1>1. Init => I
  BY InitTypeInv, InitLockInv DEF BaseInv, TypeInv, Init, OneCall, At
<1>2. I /\ [Next]_vars => I'
  <2>1. ASSUME I, UNCHANGED vars PROVE OneCall'
    BY <2>1 DEF OneCall, At, vars
  <2> QED
    BY <2>1, OneCallStep, BaseStep DEF Next, BaseInv
<1>3. I /\ [Next]_vars => [Hold]_vars
  <2> SUFFICES ASSUME I, NEW r \in Sessions, Call(r) \/ Step(r) \/ Crash(r), 
                      NEW s \in Sessions, NEW k \in Keys, HasRead(s, k), 
                      Recorded(k)' # Recorded(k)
               PROVE  FALSE
    BY DEF Next
  <2>1. pc[r] \in {"commit", "rewindCommit"}
    BY OwnKeysMove DEF BaseInv
  <2> QED
    BY <2>1 DEF OneCall, HasRead, At
<1>4. [][Hold]_vars => PositionsHold
  BY PTL DEF PositionsHold
<1> HIDE DEF I, Hold
<1> QED
  BY <1>1, <1>2, <1>3, <1>4, PTL DEF Spec

\* Positions hold when every session has keys of its own: whoever moves one has read it.
LEMMA ApartPositionsHold == Spec /\ []KeysApart => PositionsHold
<1> DEFINE Hold == \A s \in Sessions, k \in Keys : HasRead(s, k) => Recorded(k)' = Recorded(k)
<1>1. BaseInv /\ KeysApart /\ [Next]_vars => [Hold]_vars
  <2> SUFFICES ASSUME BaseInv, KeysApart, NEW r \in Sessions, Call(r) \/ Step(r) \/ Crash(r), 
                      NEW s \in Sessions, NEW k \in Keys, HasRead(s, k), 
                      Recorded(k)' # Recorded(k)
               PROVE  FALSE
    BY DEF Next
  <2>1. pc[r] \in {"commit", "rewindCommit"} /\ k \in OwnKeys(r)
    BY OwnKeysMove DEF BaseInv
  <2>2. r # s /\ k \in OwnKeys(s)
    BY <2>1 DEF HasRead, OwnKeys
  <2> QED
    BY <2>1, <2>2 DEF KeysApart
<1>2. [][Hold]_vars => PositionsHold
  BY PTL DEF PositionsHold
<1> HIDE DEF Hold
<1> QED
  BY <1>1, <1>2, BaseCorrect, PTL DEF Spec

\* Sessions of different processes that do not share keys may call as they like.
THEOREM KeysApartSafe == 
    Spec /\ []KeysApart => 
        /\ [](PadUsedOnce /\ AccountingExact /\ TakenBytesAreExclusive)
        /\ RewindsOnlyUnusedBytes
        /\ ImplementsOneTimePad
BY SafeIfPositionsHold, ApartPositionsHold, PTL

\* The one-time pad: no byte encrypts twice.
THEOREM PadSafety == 
    ASSUME ~CallsOverlap
    PROVE  Spec => []PadUsedOnce
BY SafeIfPositionsHold, SerialPositionsHold, PTL

\* UsedBytes and the recorded position agree, at a position the pad has.
THEOREM AccountingSafety == 
    ASSUME ~CallsOverlap
    PROVE  Spec => []AccountingExact
BY SafeIfPositionsHold, SerialPositionsHold, PTL

\* Bytes on their way to be used are out of everybody else's reach.
THEOREM TakenSafety == 
    ASSUME ~CallsOverlap
    PROVE  Spec => []TakenBytesAreExclusive
BY SafeIfPositionsHold, SerialPositionsHold, PTL

\* The recorded offset never moves back over a used byte: the bytes behind a 
\* used one stay behind it.
THEOREM RewindSafety == 
    ASSUME ~CallsOverlap
    PROVE  Spec => RewindsOnlyUnusedBytes
BY SafeIfPositionsHold, SerialPositionsHold, PTL

\* The engine is a one-time pad: whatever is cached, rewound, rolled back or lost 
\* in a crash, every byte goes from the free to one session, and from there to the 
\* spent or the lost, for good, or unused back to the free.
THEOREM PadRefined == 
    ASSUME ~CallsOverlap
    PROVE  Spec => ImplementsOneTimePad
BY SafeIfPositionsHold, SerialPositionsHold, PTL

=============================================================================
