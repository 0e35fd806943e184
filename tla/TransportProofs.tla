-------------------------- MODULE TransportProofs --------------------------
(***************************************************************************)
(* Calls are safe for any number of buffers, tries and stray packets.  The *)
(* accounting of the buffers (TypeInv) holds whatever users and peers do.  *)
(* The rest (CallInv) assumes OneAtATime, which the code does not enforce: *)
(* the threads of a call can lose their socket when another is dialed      *)
(* while it is on (which a run shows) or being set up, and socket, queues, *)
(* keys and critical section when the user hangs up in the middle of an    *)
(* answer.                                                                 *)
(*                                                                         *)
(* CallInv adds what a thread's step says of the globals: that one caller  *)
(* at a time works on them, which handles there are, and when the socket   *)
(* is there.                                                               *)
(***************************************************************************)
EXTENDS Transport, TLAPS

\* How many buffers a thread has follows from where it is.
HandInv ==
    /\ \A w \in Workers :
        /\ pc[w] \in {"none", "start"} => hand[w] = 0
        /\ pc[w] = "popOther" => hand[w] = 1
        /\ pc[w] \in {"enter", "cipher", "send", "leave", "push"} => hand[w] = 2
    /\ pc["xmit"] \in {"wait", "pop", "flood"} => hand["xmit"] = 0
    /\ pc["rcve"] \in {"select", "pop"} => hand["rcve"] = 0
    /\ pc["rcve"] \in {"status", "pushOther"} => hand["rcve"] = 1
    /\ hand["audio"] = IF At("audio", "push") THEN 1 ELSE 0

\* A caller that goes on connecting has a stray packet's credit left.
StrayInv == \A c \in Callers : At(c, "connect") => stray[c] > 0

TypeInv == TypeOK /\ HandInv /\ StrayInv

\* What users and peers are assumed not to do: to dial or answer while a call is on
\* or being set up, and to hang up in the short time in which the handshake thread
\* creates its socket or has received the packet it waits for.
OneAtATime == ~DialsWhileBusy /\ ~SetupsOverlap /\ ~HangsUpAnytime

\* One caller works at a time (hanging up, the user may meet an answer that still
\* waits for its packet, or was refused), a worker that runs has a handle, and the 
\* keys come and go with the queues.
OneCallInv ==
    /\ pc["handshake"] # "pump" => pc["ui"] \in {"pump"} \cup HangupSteps
    /\ pc["handshake"] \in {"open", "accepted", "kickXmit", "kickRcve"} => At("ui", "pump")
    /\ \A w \in Workers : ~handle[w] => At(w, "none")
    /\ provider => queuesExist

\* Workers are created when none are there, and there is a socket for them; it is 
\* kept only when they were.
DialInv ==
    \A c \in Callers :
        /\ pc[c] \in {"accepted", "kickXmit", "kickRcve"} => theSocket
        /\ pc[c] \in {"open", "connect", "accepted", "kickXmit"} => NoCall
        /\ pc[c] = "kickRcve" => ~handle["rcve"]
        /\ pc[c] = "cleanup" /\ ~completed[c] => NoCall

\* Hanging up takes the call apart in the order of its steps.
HangupInv ==
    /\ pc["ui"] \in {"stopRcve", "waitRcve"} => ~handle["xmit"]
    /\ pc["ui"] \in {"closeSocket", "release", "init"} => \A w \in Workers : ~handle[w]
    /\ pc["ui"] \in {"release", "init"} => ~theSocket
    /\ pc["ui"] = "init" => owner = Nobody

OwnerInv == \A w \in Workers : Inside(w) => owner = w

CallInv ==
    /\ TypeOK
    /\ OneCallInv
    /\ DialInv
    /\ HangupInv
    /\ OwnerInv
    /\ SocketOutlivesWorkers
    /\ WorkersHaveQueues

-----------------------------------------------------------------------------

USE DEF Callers, Workers, Threads, Nobody, At, GoTo

\* Before the first call nobody holds a buffer.
LEMMA InitType ==
    ASSUME Init
    PROVE  TypeInv
<1>1. TypeOK
  <2>1. /\ pc \in [Threads -> CallerSteps \cup HangupSteps \cup XmitSteps \cup RcveSteps
                              \cup AudioSteps]
        /\ pc["ui"] \in CallerSteps \cup HangupSteps
        /\ pc["handshake"] \in CallerSteps
        /\ pc["xmit"] \in XmitSteps
        /\ pc["rcve"] \in RcveSteps
        /\ pc["audio"] \in AudioSteps
    BY DEF TypeInv, TypeOK, CallerSteps, HangupSteps, WorkerSteps, XmitSteps, RcveSteps,
       AudioSteps, Init
  <2>2. /\ queueAvailable \in Nat /\ queueEncrypt \in Nat /\ memory \in Nat
        /\ hand \in [Workers \cup {"audio"} -> Nat]
        /\ Allocated + memory <= NBuffers
    BY TransportAssumption DEF TypeInv, TypeOK, HandInv, Allocated, Init
  <2>3. /\ tries \in [Callers -> 0 .. MaxTries]
        /\ stray \in [Callers -> 0 .. MaxStray]
        /\ completed \in [Callers -> BOOLEAN]
        /\ handle \in [Workers -> BOOLEAN]
        /\ running \in [Workers -> BOOLEAN]
    BY TransportAssumption DEF TypeInv, TypeOK, Init
  <2> QED
    BY <2>1, <2>2, <2>3 DEF TypeInv, TypeOK, Init
<1>2. HandInv
  BY DEF TypeInv, TypeOK, HandInv, Init
<1>3. StrayInv
  BY TransportAssumption DEF TypeInv, TypeOK, StrayInv, Init
<1> QED
  BY <1>1, <1>2, <1>3 DEF TypeInv

\* A dial or an answer begins.
LEMMA StartType ==
    ASSUME NEW c \in Callers, TypeInv, Start(c)
    PROVE  TypeInv'
<1>1. TypeOK'
  <2>1. /\ pc' \in [Threads -> CallerSteps \cup HangupSteps \cup XmitSteps \cup RcveSteps
                              \cup AudioSteps]
        /\ pc'["ui"] \in CallerSteps \cup HangupSteps
        /\ pc'["handshake"] \in CallerSteps
        /\ pc'["xmit"] \in XmitSteps
        /\ pc'["rcve"] \in RcveSteps
        /\ pc'["audio"] \in AudioSteps
    BY DEF TypeInv, TypeOK, CallerSteps, HangupSteps, WorkerSteps, XmitSteps, RcveSteps,
       AudioSteps, Start, StatusReturns, queues, call
  <2>2. /\ queueAvailable' \in Nat /\ queueEncrypt' \in Nat /\ memory' \in Nat
        /\ hand' \in [Workers \cup {"audio"} -> Nat]
        /\ Allocated' + memory' <= NBuffers
    BY TransportAssumption DEF TypeInv, TypeOK, HandInv, Allocated, Start,
       StatusReturns, queues, call
  <2>3. /\ tries' \in [Callers -> 0 .. MaxTries]
        /\ stray' \in [Callers -> 0 .. MaxStray]
        /\ completed' \in [Callers -> BOOLEAN]
        /\ handle' \in [Workers -> BOOLEAN]
        /\ running' \in [Workers -> BOOLEAN]
    BY TransportAssumption DEF TypeInv, TypeOK, Start, StatusReturns, queues, call
  <2> QED
    BY <2>1, <2>2, <2>3 DEF TypeInv, TypeOK, Start, StatusReturns, queues, call
<1>2. HandInv'
  BY DEF TypeInv, TypeOK, HandInv, Start, StatusReturns, queues, call
<1>3. StrayInv'
  BY TransportAssumption DEF TypeInv, TypeOK, StrayInv, Start, StatusReturns,
       queues, call
<1> QED
  BY <1>1, <1>2, <1>3 DEF TypeInv

\* A caller creates its socket.
LEMMA OpenType ==
    ASSUME NEW c \in Callers, TypeInv, Open(c)
    PROVE  TypeInv'
BY TransportAssumption DEF TypeInv, TypeOK, HandInv, StrayInv, Allocated,
       CallerSteps, HangupSteps, WorkerSteps, XmitSteps, RcveSteps, AudioSteps,
       Open, queues, call

\* The packet that a caller waits for was received.
LEMMA AcceptedType ==
    ASSUME NEW c \in Callers, TypeInv, Accepted(c)
    PROVE  TypeInv'
BY TransportAssumption DEF TypeInv, TypeOK, HandInv, StrayInv, Allocated,
       CallerSteps, HangupSteps, WorkerSteps, XmitSteps, RcveSteps, AudioSteps,
       Accepted, StatusReturns, queues, call, dial

\* A turn of the connecting loop.
LEMMA ConnectType ==
    ASSUME NEW c \in Callers, TypeInv, Connect(c)
    PROVE  TypeInv'
BY TransportAssumption DEF TypeInv, TypeOK, HandInv, StrayInv, Allocated,
       CallerSteps, HangupSteps, WorkerSteps, XmitSteps, RcveSteps, AudioSteps,
       Connect, NoPacket, StrayPacket, StatusReturns, queues, call

\* XmitThread is created, or not.
LEMMA KickXmitType ==
    ASSUME NEW c \in Callers, TypeInv, KickXmit(c)
    PROVE  TypeInv'
BY TransportAssumption DEF TypeInv, TypeOK, HandInv, StrayInv, Allocated,
       CallerSteps, HangupSteps, WorkerSteps, XmitSteps, RcveSteps, AudioSteps,
       KickXmit, Kick, queues, dial

\* RcveThread is created, or not.
LEMMA KickRcveType ==
    ASSUME NEW c \in Callers, TypeInv, KickRcve(c)
    PROVE  TypeInv'
BY TransportAssumption DEF TypeInv, TypeOK, HandInv, StrayInv, Allocated,
       CallerSteps, HangupSteps, WorkerSteps, XmitSteps, RcveSteps, AudioSteps,
       KickRcve, Kick, queues

\* The cleanup of a dial or an answer.
LEMMA CleanupType ==
    ASSUME NEW c \in Callers, TypeInv, Cleanup(c)
    PROVE  TypeInv'
BY TransportAssumption DEF TypeInv, TypeOK, HandInv, StrayInv, Allocated,
       CallerSteps, HangupSteps, WorkerSteps, XmitSteps, RcveSteps, AudioSteps,
       Cleanup, StaysOpen, StatusReturns, queues, call

\* A worker creates its session.
LEMMA StartWorkerType ==
    ASSUME NEW w \in Workers, TypeInv, StartWorker(w)
    PROVE  TypeInv'
BY TransportAssumption DEF TypeInv, TypeOK, HandInv, StrayInv, Allocated,
       CallerSteps, HangupSteps, WorkerSteps, XmitSteps, RcveSteps, AudioSteps,
       StartWorker, queues, call, dial

\* A worker pops its second buffer.
LEMMA PopOtherType ==
    ASSUME NEW w \in Workers, TypeInv, PopOther(w)
    PROVE  TypeInv'
BY TransportAssumption DEF TypeInv, TypeOK, HandInv, StrayInv, Allocated,
       CallerSteps, HangupSteps, WorkerSteps, XmitSteps, RcveSteps, AudioSteps,
       PopOther, PopAvailable, PopAvailableFails, queues, call, dial

\* A worker enters the critical section.
LEMMA EnterType ==
    ASSUME NEW w \in Workers, TypeInv, Enter(w)
    PROVE  TypeInv'
BY TransportAssumption DEF TypeInv, TypeOK, HandInv, StrayInv, Allocated,
       CallerSteps, HangupSteps, WorkerSteps, XmitSteps, RcveSteps, AudioSteps,
       Enter, MayEnter, queues, call, dial

\* A worker calls the engine.
LEMMA CipherType ==
    ASSUME NEW w \in Workers, TypeInv, Cipher(w)
    PROVE  TypeInv'
BY TransportAssumption DEF TypeInv, TypeOK, HandInv, StrayInv, Allocated,
       CallerSteps, HangupSteps, WorkerSteps, XmitSteps, RcveSteps, AudioSteps,
       Cipher, queues, call, dial

\* A worker leaves the critical section.
LEMMA LeaveType ==
    ASSUME NEW w \in Workers, TypeInv, Leave(w)
    PROVE  TypeInv'
BY TransportAssumption DEF TypeInv, TypeOK, HandInv, StrayInv, Allocated,
       CallerSteps, HangupSteps, WorkerSteps, XmitSteps, RcveSteps, AudioSteps,
       Leave, queues, call, dial

\* A worker ends.
LEMMA EndType ==
    ASSUME NEW w \in Workers, TypeInv, End(w)
    PROVE  TypeInv'
BY TransportAssumption DEF TypeInv, TypeOK, HandInv, StrayInv, Allocated,
       CallerSteps, HangupSteps, WorkerSteps, XmitSteps, RcveSteps, AudioSteps, End,
       Drop, call, dial

\* XmitThread waits.
LEMMA XmitWaitType ==
    ASSUME TypeInv, XmitWait
    PROVE  TypeInv'
BY TransportAssumption DEF TypeInv, TypeOK, HandInv, StrayInv, Allocated,
       CallerSteps, HangupSteps, WorkerSteps, XmitSteps, RcveSteps, AudioSteps,
       XmitWait, queues, dial

\* XmitThread pops a buffer to encrypt.
LEMMA XmitPopType ==
    ASSUME TypeInv, XmitPop
    PROVE  TypeInv'
BY TransportAssumption DEF TypeInv, TypeOK, HandInv, StrayInv, Allocated,
       CallerSteps, HangupSteps, WorkerSteps, XmitSteps, RcveSteps, AudioSteps,
       XmitPop, call, dial

\* XmitThread sends.
LEMMA XmitSendType ==
    ASSUME TypeInv, XmitSend
    PROVE  TypeInv'
BY TransportAssumption DEF TypeInv, TypeOK, HandInv, StrayInv, Allocated,
       CallerSteps, HangupSteps, WorkerSteps, XmitSteps, RcveSteps, AudioSteps,
       XmitSend, queues, call, dial

\* XmitThread gives its two buffers back.
LEMMA XmitPushType ==
    ASSUME TypeInv, XmitPush
    PROVE  TypeInv'
BY TransportAssumption DEF TypeInv, TypeOK, HandInv, StrayInv, Allocated,
       CallerSteps, HangupSteps, WorkerSteps, XmitSteps, RcveSteps, AudioSteps,
       XmitPush, PushAvailable, call, dial

\* XmitThread sends terminate packets.
LEMMA XmitFloodType ==
    ASSUME TypeInv, XmitFlood
    PROVE  TypeInv'
BY TransportAssumption DEF TypeInv, TypeOK, HandInv, StrayInv, Allocated,
       CallerSteps, HangupSteps, WorkerSteps, XmitSteps, RcveSteps, AudioSteps,
       XmitFlood, queues, call, dial

\* RcveThread waits for data.
LEMMA RcveSelectType ==
    ASSUME TypeInv, RcveSelect
    PROVE  TypeInv'
BY TransportAssumption DEF TypeInv, TypeOK, HandInv, StrayInv, Allocated,
       CallerSteps, HangupSteps, WorkerSteps, XmitSteps, RcveSteps, AudioSteps,
       RcveSelect, queues, call, dial

\* RcveThread pops a buffer and reads into it.
LEMMA RcvePopType ==
    ASSUME TypeInv, RcvePop
    PROVE  TypeInv'
<1>1. /\ At("rcve", "pop") /\ hand["rcve"] = 0
      /\ pc'["rcve"] \in {"popOther", "status", "pushOther", "end"}
      /\ pc' = [pc EXCEPT !["rcve"] = pc'["rcve"]]
  BY DEF TypeInv, TypeOK, HandInv, RcvePop, Counted
<1>2. \/ PopAvailable("rcve")
      \/ UNCHANGED queues /\ pc'["rcve"] = "end"
  BY DEF TypeInv, TypeOK, RcvePop, PopAvailableFails
<1>3. UNCHANGED <<theSocket, provider, owner, call, dial>>
  BY DEF RcvePop
<1>4. CASE PopAvailable("rcve")
  <2>1. /\ queueAvailable' \in Nat /\ queueEncrypt' \in Nat /\ memory' \in Nat
        /\ hand' \in [Workers \cup {"audio"} -> Nat]
        /\ Allocated' + memory' <= NBuffers
    BY <1>4, TransportAssumption DEF TypeInv, TypeOK, Allocated, PopAvailable
  <2>2. TypeOK'
    BY <1>1, <1>3, <1>4, <2>1 DEF TypeInv, TypeOK, CallerSteps, HangupSteps, WorkerSteps,
       XmitSteps, RcveSteps, AudioSteps, PopAvailable, call, dial
  <2>3. HandInv'
    BY <1>1, <1>4 DEF TypeInv, TypeOK, HandInv, PopAvailable
  <2>4. StrayInv'
    BY <1>1, <1>3 DEF TypeInv, TypeOK, StrayInv, dial
  <2> QED
    BY <2>2, <2>3, <2>4 DEF TypeInv
<1>5. CASE UNCHANGED queues /\ pc'["rcve"] = "end"
  <2>1. TypeOK'
    BY <1>1, <1>3, <1>5 DEF TypeInv, TypeOK, Allocated, CallerSteps, HangupSteps,
       WorkerSteps, XmitSteps, RcveSteps, AudioSteps, queues, call, dial
  <2>2. HandInv' /\ StrayInv'
    BY <1>1, <1>3, <1>5 DEF TypeInv, TypeOK, HandInv, StrayInv, queues, dial
  <2> QED
    BY <2>1, <2>2 DEF TypeInv
<1> QED
  BY <1>2, <1>4, <1>5

\* RcveThread gives the plain text on.
LEMMA RcvePushType ==
    ASSUME TypeInv, RcvePush
    PROVE  TypeInv'
BY TransportAssumption DEF TypeInv, TypeOK, HandInv, StrayInv, Allocated,
       CallerSteps, HangupSteps, WorkerSteps, XmitSteps, RcveSteps, AudioSteps,
       RcvePush, PushAvailable, Counted, call, dial

\* RcveThread shows its status.
LEMMA RcveStatusType ==
    ASSUME TypeInv, RcveStatus
    PROVE  TypeInv'
BY TransportAssumption DEF TypeInv, TypeOK, HandInv, StrayInv, Allocated,
       CallerSteps, HangupSteps, WorkerSteps, XmitSteps, RcveSteps, AudioSteps,
       RcveStatus, StatusReturns, queues, call, dial

\* RcveThread gives its first buffer back.
LEMMA RcvePushOtherType ==
    ASSUME TypeInv, RcvePushOther
    PROVE  TypeInv'
BY TransportAssumption DEF TypeInv, TypeOK, HandInv, StrayInv, Allocated,
       CallerSteps, HangupSteps, WorkerSteps, XmitSteps, RcveSteps, AudioSteps,
       RcvePushOther, PushAvailable, call, dial

\* Sound was captured.
LEMMA AudioCheckType ==
    ASSUME TypeInv, AudioCheck
    PROVE  TypeInv'
BY TransportAssumption DEF TypeInv, TypeOK, HandInv, StrayInv, Allocated,
       CallerSteps, HangupSteps, WorkerSteps, XmitSteps, RcveSteps, AudioSteps,
       AudioCheck, queues, call, dial

\* A buffer for it.
LEMMA AudioPopType ==
    ASSUME TypeInv, AudioPop
    PROVE  TypeInv'
BY TransportAssumption DEF TypeInv, TypeOK, HandInv, StrayInv, Allocated,
       CallerSteps, HangupSteps, WorkerSteps, XmitSteps, RcveSteps, AudioSteps,
       AudioPop, PopAvailable, PopAvailableFails, queues, call, dial

\* It is queued to be encrypted.
LEMMA AudioPushType ==
    ASSUME TypeInv, AudioPush
    PROVE  TypeInv'
BY TransportAssumption DEF TypeInv, TypeOK, HandInv, StrayInv, Allocated,
       CallerSteps, HangupSteps, WorkerSteps, XmitSteps, RcveSteps, AudioSteps,
       AudioPush, Drop, call, dial

\* XmitThread is told.
LEMMA AudioSignalType ==
    ASSUME TypeInv, AudioSignal
    PROVE  TypeInv'
BY TransportAssumption DEF TypeInv, TypeOK, HandInv, StrayInv, Allocated,
       CallerSteps, HangupSteps, WorkerSteps, XmitSteps, RcveSteps, AudioSteps,
       AudioSignal, queues, dial

\* Hanging up begins.
LEMMA HangupType ==
    ASSUME TypeInv, Hangup
    PROVE  TypeInv'
BY TransportAssumption DEF TypeInv, TypeOK, HandInv, StrayInv, Allocated,
       CallerSteps, HangupSteps, WorkerSteps, XmitSteps, RcveSteps, AudioSteps,
       Hangup, queues, call, dial

\* XmitThread is told to stop.
LEMMA StopXmitType ==
    ASSUME TypeInv, StopXmit
    PROVE  TypeInv'
<1>1. TypeOK'
  <2>1. /\ pc' \in [Threads -> CallerSteps \cup HangupSteps \cup XmitSteps \cup RcveSteps
                              \cup AudioSteps]
        /\ pc'["ui"] \in CallerSteps \cup HangupSteps
        /\ pc'["handshake"] \in CallerSteps
        /\ pc'["xmit"] \in XmitSteps
        /\ pc'["rcve"] \in RcveSteps
        /\ pc'["audio"] \in AudioSteps
    BY DEF TypeInv, TypeOK, CallerSteps, HangupSteps, WorkerSteps, XmitSteps, RcveSteps,
       AudioSteps, StopXmit, Stop, queues, dial
  <2>2. /\ queueAvailable' \in Nat /\ queueEncrypt' \in Nat /\ memory' \in Nat
        /\ hand' \in [Workers \cup {"audio"} -> Nat]
        /\ Allocated' + memory' <= NBuffers
    BY TransportAssumption DEF TypeInv, TypeOK, HandInv, Allocated, StopXmit, Stop,
       queues, dial
  <2>3. /\ tries' \in [Callers -> 0 .. MaxTries]
        /\ stray' \in [Callers -> 0 .. MaxStray]
        /\ completed' \in [Callers -> BOOLEAN]
        /\ handle' \in [Workers -> BOOLEAN]
        /\ running' \in [Workers -> BOOLEAN]
    BY TransportAssumption DEF TypeInv, TypeOK, StopXmit, Stop, queues, dial
  <2> QED
    BY <2>1, <2>2, <2>3 DEF TypeInv, TypeOK, StopXmit, Stop, queues, dial
<1>2. HandInv'
  BY DEF TypeInv, TypeOK, HandInv, StopXmit, Stop, queues, dial
<1>3. StrayInv'
  BY TransportAssumption DEF TypeInv, TypeOK, StrayInv, StopXmit, Stop, queues, dial
<1> QED
  BY <1>1, <1>2, <1>3 DEF TypeInv

\* RcveThread is told to stop.
LEMMA StopRcveType ==
    ASSUME TypeInv, StopRcve
    PROVE  TypeInv'
<1>1. TypeOK'
  <2>1. /\ pc' \in [Threads -> CallerSteps \cup HangupSteps \cup XmitSteps \cup RcveSteps
                              \cup AudioSteps]
        /\ pc'["ui"] \in CallerSteps \cup HangupSteps
        /\ pc'["handshake"] \in CallerSteps
        /\ pc'["xmit"] \in XmitSteps
        /\ pc'["rcve"] \in RcveSteps
        /\ pc'["audio"] \in AudioSteps
    BY DEF TypeInv, TypeOK, CallerSteps, HangupSteps, WorkerSteps, XmitSteps, RcveSteps,
       AudioSteps, StopRcve, Stop, queues, dial
  <2>2. /\ queueAvailable' \in Nat /\ queueEncrypt' \in Nat /\ memory' \in Nat
        /\ hand' \in [Workers \cup {"audio"} -> Nat]
        /\ Allocated' + memory' <= NBuffers
    BY TransportAssumption DEF TypeInv, TypeOK, HandInv, Allocated, StopRcve, Stop,
       queues, dial
  <2>3. /\ tries' \in [Callers -> 0 .. MaxTries]
        /\ stray' \in [Callers -> 0 .. MaxStray]
        /\ completed' \in [Callers -> BOOLEAN]
        /\ handle' \in [Workers -> BOOLEAN]
        /\ running' \in [Workers -> BOOLEAN]
    BY TransportAssumption DEF TypeInv, TypeOK, StopRcve, Stop, queues, dial
  <2> QED
    BY <2>1, <2>2, <2>3 DEF TypeInv, TypeOK, StopRcve, Stop, queues, dial
<1>2. HandInv'
  BY DEF TypeInv, TypeOK, HandInv, StopRcve, Stop, queues, dial
<1>3. StrayInv'
  BY TransportAssumption DEF TypeInv, TypeOK, StrayInv, StopRcve, Stop, queues, dial
<1> QED
  BY <1>1, <1>2, <1>3 DEF TypeInv

\* XmitThread was waited for or terminated.
LEMMA WaitXmitType ==
    ASSUME TypeInv, WaitXmit
    PROVE  TypeInv'
BY TransportAssumption DEF TypeInv, TypeOK, HandInv, StrayInv, Allocated,
       CallerSteps, HangupSteps, WorkerSteps, XmitSteps, RcveSteps, AudioSteps,
       WaitXmit, Wait, Drop, dial

\* RcveThread was waited for or terminated.
LEMMA WaitRcveType ==
    ASSUME TypeInv, WaitRcve
    PROVE  TypeInv'
BY TransportAssumption DEF TypeInv, TypeOK, HandInv, StrayInv, Allocated,
       CallerSteps, HangupSteps, WorkerSteps, XmitSteps, RcveSteps, AudioSteps,
       WaitRcve, Wait, Drop, dial

\* The socket is closed, or hanging up fails.
LEMMA CloseSocketType ==
    ASSUME TypeInv, CloseSocket
    PROVE  TypeInv'
<1>1. TypeOK'
  <2>1. /\ pc' \in [Threads -> CallerSteps \cup HangupSteps \cup XmitSteps \cup RcveSteps
                              \cup AudioSteps]
        /\ pc'["ui"] \in CallerSteps \cup HangupSteps
        /\ pc'["handshake"] \in CallerSteps
        /\ pc'["xmit"] \in XmitSteps
        /\ pc'["rcve"] \in RcveSteps
        /\ pc'["audio"] \in AudioSteps
    BY DEF TypeInv, TypeOK, CallerSteps, HangupSteps, WorkerSteps, XmitSteps, RcveSteps,
       AudioSteps, CloseSocket, queues, call, dial
  <2>2. /\ queueAvailable' \in Nat /\ queueEncrypt' \in Nat /\ memory' \in Nat
        /\ hand' \in [Workers \cup {"audio"} -> Nat]
        /\ Allocated' + memory' <= NBuffers
    BY TransportAssumption DEF TypeInv, TypeOK, HandInv, Allocated, CloseSocket, queues,
       call, dial
  <2>3. /\ tries' \in [Callers -> 0 .. MaxTries]
        /\ stray' \in [Callers -> 0 .. MaxStray]
        /\ completed' \in [Callers -> BOOLEAN]
        /\ handle' \in [Workers -> BOOLEAN]
        /\ running' \in [Workers -> BOOLEAN]
    BY TransportAssumption DEF TypeInv, TypeOK, CloseSocket, queues, call, dial
  <2> QED
    BY <2>1, <2>2, <2>3 DEF TypeInv, TypeOK, CloseSocket, queues, call, dial
<1>2. HandInv'
  BY DEF TypeInv, TypeOK, HandInv, CloseSocket, queues, call, dial
<1>3. StrayInv'
  BY TransportAssumption DEF TypeInv, TypeOK, StrayInv, CloseSocket, queues, call, dial
<1> QED
  BY <1>1, <1>2, <1>3 DEF TypeInv

\* Provider, critical section and queues go.
LEMMA ReleaseType ==
    ASSUME TypeInv, Release
    PROVE  TypeInv'
<1>1. TypeOK'
  <2>1. /\ pc' \in [Threads -> CallerSteps \cup HangupSteps \cup XmitSteps \cup RcveSteps
                              \cup AudioSteps]
        /\ pc'["ui"] \in CallerSteps \cup HangupSteps
        /\ pc'["handshake"] \in CallerSteps
        /\ pc'["xmit"] \in XmitSteps
        /\ pc'["rcve"] \in RcveSteps
        /\ pc'["audio"] \in AudioSteps
    BY DEF TypeInv, TypeOK, CallerSteps, HangupSteps, WorkerSteps, XmitSteps, RcveSteps,
       AudioSteps, Release, NewOwner, Destroyed, call, dial
  <2>2. /\ queueAvailable' \in Nat /\ queueEncrypt' \in Nat /\ memory' \in Nat
        /\ hand' \in [Workers \cup {"audio"} -> Nat]
        /\ Allocated' + memory' <= NBuffers
    BY TransportAssumption DEF TypeInv, TypeOK, HandInv, Allocated, Release, NewOwner,
       Destroyed, call, dial
  <2>3. /\ tries' \in [Callers -> 0 .. MaxTries]
        /\ stray' \in [Callers -> 0 .. MaxStray]
        /\ completed' \in [Callers -> BOOLEAN]
        /\ handle' \in [Workers -> BOOLEAN]
        /\ running' \in [Workers -> BOOLEAN]
    BY TransportAssumption DEF TypeInv, TypeOK, Release, NewOwner, Destroyed, call, dial
  <2> QED
    BY <2>1, <2>2, <2>3 DEF TypeInv, TypeOK, Release, NewOwner, Destroyed, call, dial
<1>2. HandInv'
  BY DEF TypeInv, TypeOK, HandInv, Release, NewOwner, Destroyed, call, dial
<1>3. StrayInv'
  BY TransportAssumption DEF TypeInv, TypeOK, StrayInv, Release, NewOwner, Destroyed,
       call, dial
<1> QED
  BY <1>1, <1>2, <1>3 DEF TypeInv

\* The transport is created anew.
LEMMA InitializeType ==
    ASSUME TypeInv, Initialize
    PROVE  TypeInv'
<1>1. TypeOK'
  <2>1. /\ pc' \in [Threads -> CallerSteps \cup HangupSteps \cup XmitSteps \cup RcveSteps
                              \cup AudioSteps]
        /\ pc'["ui"] \in CallerSteps \cup HangupSteps
        /\ pc'["handshake"] \in CallerSteps
        /\ pc'["xmit"] \in XmitSteps
        /\ pc'["rcve"] \in RcveSteps
        /\ pc'["audio"] \in AudioSteps
    BY DEF TypeInv, TypeOK, CallerSteps, HangupSteps, WorkerSteps, XmitSteps, RcveSteps,
       AudioSteps, Initialize, call, dial
  <2>2. /\ queueAvailable' \in Nat /\ queueEncrypt' \in Nat /\ memory' \in Nat
        /\ hand' \in [Workers \cup {"audio"} -> Nat]
        /\ Allocated' + memory' <= NBuffers
    BY TransportAssumption DEF TypeInv, TypeOK, HandInv, Allocated, Initialize, call, dial
  <2>3. /\ tries' \in [Callers -> 0 .. MaxTries]
        /\ stray' \in [Callers -> 0 .. MaxStray]
        /\ completed' \in [Callers -> BOOLEAN]
        /\ handle' \in [Workers -> BOOLEAN]
        /\ running' \in [Workers -> BOOLEAN]
    BY TransportAssumption DEF TypeInv, TypeOK, Initialize, call, dial
  <2> QED
    BY <2>1, <2>2, <2>3 DEF TypeInv, TypeOK, Initialize, call, dial
<1>2. HandInv'
  BY DEF TypeInv, TypeOK, HandInv, Initialize, call, dial
<1>3. StrayInv'
  BY TransportAssumption DEF TypeInv, TypeOK, StrayInv, Initialize, call, dial
<1> QED
  BY <1>1, <1>2, <1>3 DEF TypeInv

-----------------------------------------------------------------------------

\* Every step keeps the types and the accounting.
LEMMA NextType == TypeInv /\ [Next]_vars => TypeInv'
<1> SUFFICES ASSUME TypeInv, [Next]_vars
             PROVE  TypeInv'
  OBVIOUS
<1>1. ASSUME NEW c \in Callers, Start(c) \/ Caller(c)
      PROVE  TypeInv'
  BY <1>1, StartType, OpenType, ConnectType, AcceptedType, KickXmitType, KickRcveType,
     CleanupType DEF Caller
<1>2. ASSUME NEW w \in Workers, Worker(w)
      PROVE  TypeInv'
  BY <1>2, StartWorkerType, PopOtherType, EnterType, CipherType, LeaveType, EndType
     DEF Worker
<1>3. CASE Xmit
  BY <1>2, <1>3, XmitWaitType, XmitPopType, XmitSendType, XmitPushType, XmitFloodType
     DEF Xmit
<1>4. CASE Rcve
  BY <1>2, <1>4, RcveSelectType, RcvePopType, RcvePushType, RcveStatusType,
     RcvePushOtherType DEF Rcve
<1>5. CASE Audio
  BY <1>5, AudioCheckType, AudioPopType, AudioPushType, AudioSignalType DEF Audio
<1>6. CASE Hangup \/ HangingUp
  BY <1>6, HangupType, StopXmitType, WaitXmitType, StopRcveType, WaitRcveType,
     CloseSocketType, ReleaseType, InitializeType DEF HangingUp
<1>7. CASE UNCHANGED vars
  BY <1>7 DEF TypeInv, TypeOK, HandInv, StrayInv, Allocated, vars, queues, call, dial
<1> QED
  BY <1>1, <1>3, <1>4, <1>5, <1>6, <1>7 DEF Next

-----------------------------------------------------------------------------

\* Before the first call there is no thread, no handle and no socket.
LEMMA InitCall == Init => CallInv
<1> SUFFICES ASSUME Init
             PROVE  CallInv
  OBVIOUS
<1>1. TypeOK
  BY InitType DEF TypeInv
<1> QED
  BY <1>1 DEF Init, CallInv, OneCallInv, DialInv, NoCall, HangupInv, OwnerInv, Inside,
              SocketOutlivesWorkers, WorkersHaveQueues

\* A dial or an answer begins.
LEMMA StartCall ==
    ASSUME NEW c \in Callers, OneAtATime, CallInv, TypeOK', MayStart, Start(c)
    PROVE  CallInv'
BY DEF CallInv, TypeOK, OneCallInv, DialInv, NoCall, HangupInv, OwnerInv, Inside,
       SocketOutlivesWorkers, WorkersHaveQueues, CallerSteps, HangupSteps,
       WorkerSteps, XmitSteps, RcveSteps, OneAtATime, MayStart, NobodyDials, NoCall, Start,
       StatusReturns, queues, call

\* A caller creates its socket: no call is on.
LEMMA OpenCall ==
    ASSUME NEW c \in Callers, CallInv, TypeOK', Open(c)
    PROVE  CallInv'
BY DEF CallInv, TypeOK, OneCallInv, DialInv, NoCall, HangupInv, OwnerInv, Inside,
       SocketOutlivesWorkers, WorkersHaveQueues, CallerSteps, HangupSteps,
       WorkerSteps, XmitSteps, RcveSteps, Open, queues, call

\* The packet that a caller waits for was received.
LEMMA AcceptedCall ==
    ASSUME NEW c \in Callers, CallInv, TypeOK', Accepted(c)
    PROVE  CallInv'
BY DEF CallInv, TypeOK, OneCallInv, DialInv, NoCall, HangupInv, OwnerInv, Inside,
       SocketOutlivesWorkers, WorkersHaveQueues, CallerSteps, HangupSteps,
       WorkerSteps, XmitSteps, RcveSteps, Accepted, StatusReturns, queues, call, dial

\* A turn of the connecting loop.
LEMMA ConnectCall ==
    ASSUME NEW c \in Callers, CallInv, TypeOK', Connect(c)
    PROVE  CallInv'
BY DEF CallInv, TypeOK, OneCallInv, DialInv, NoCall, HangupInv, OwnerInv, Inside,
       SocketOutlivesWorkers, WorkersHaveQueues, CallerSteps, HangupSteps,
       WorkerSteps, XmitSteps, RcveSteps, Connect, NoPacket, StrayPacket,
       StatusReturns, queues, call

\* XmitThread is created, or not.
LEMMA KickXmitCall ==
    ASSUME NEW c \in Callers, CallInv, TypeOK', KickXmit(c)
    PROVE  CallInv'
BY DEF CallInv, TypeOK, OneCallInv, DialInv, NoCall, HangupInv, OwnerInv, Inside,
       SocketOutlivesWorkers, WorkersHaveQueues, CallerSteps, HangupSteps,
       WorkerSteps, XmitSteps, RcveSteps, KickXmit, Kick, queues, dial

\* RcveThread is created, or not.
LEMMA KickRcveCall ==
    ASSUME NEW c \in Callers, CallInv, TypeOK', KickRcve(c)
    PROVE  CallInv'
BY DEF CallInv, TypeOK, OneCallInv, DialInv, NoCall, HangupInv, OwnerInv, Inside,
       SocketOutlivesWorkers, WorkersHaveQueues, CallerSteps, HangupSteps,
       WorkerSteps, XmitSteps, RcveSteps, KickRcve, Kick, queues

\* The cleanup of a dial or an answer.
LEMMA CleanupCall ==
    ASSUME NEW c \in Callers, CallInv, TypeOK', Cleanup(c)
    PROVE  CallInv'
BY DEF CallInv, TypeOK, OneCallInv, DialInv, NoCall, HangupInv, OwnerInv, Inside,
       SocketOutlivesWorkers, WorkersHaveQueues, CallerSteps, HangupSteps,
       WorkerSteps, XmitSteps, RcveSteps, Cleanup, StaysOpen, StatusReturns, queues,
       call

\* A worker creates its session.
LEMMA StartWorkerCall ==
    ASSUME NEW w \in Workers, CallInv, TypeOK', StartWorker(w)
    PROVE  CallInv'
BY DEF CallInv, TypeOK, OneCallInv, DialInv, NoCall, HangupInv, OwnerInv, Inside,
       SocketOutlivesWorkers, WorkersHaveQueues, CallerSteps, HangupSteps,
       WorkerSteps, XmitSteps, RcveSteps, StartWorker, queues, call, dial

\* A worker pops its second buffer.
LEMMA PopOtherCall ==
    ASSUME NEW w \in Workers, CallInv, TypeOK', PopOther(w)
    PROVE  CallInv'
BY DEF CallInv, TypeOK, OneCallInv, DialInv, NoCall, HangupInv, OwnerInv, Inside,
       SocketOutlivesWorkers, WorkersHaveQueues, CallerSteps, HangupSteps,
       WorkerSteps, XmitSteps, RcveSteps, PopOther, PopAvailable, PopAvailableFails,
       queues, call, dial

\* A worker enters the critical section.
LEMMA EnterCall ==
    ASSUME NEW w \in Workers, CallInv, TypeOK', Enter(w)
    PROVE  CallInv'
BY DEF CallInv, TypeOK, OneCallInv, DialInv, NoCall, HangupInv, OwnerInv, Inside,
       SocketOutlivesWorkers, WorkersHaveQueues, CallerSteps, HangupSteps,
       WorkerSteps, XmitSteps, RcveSteps, Enter, MayEnter, queues, call, dial

\* A worker calls the engine.
LEMMA CipherCall ==
    ASSUME NEW w \in Workers, CallInv, TypeOK', Cipher(w)
    PROVE  CallInv'
BY DEF CallInv, TypeOK, OneCallInv, DialInv, NoCall, HangupInv, OwnerInv, Inside,
       SocketOutlivesWorkers, WorkersHaveQueues, CallerSteps, HangupSteps,
       WorkerSteps, XmitSteps, RcveSteps, Cipher, queues, call, dial

\* A worker leaves the critical section.
LEMMA LeaveCall ==
    ASSUME NEW w \in Workers, CallInv, TypeOK', Leave(w)
    PROVE  CallInv'
BY DEF CallInv, TypeOK, OneCallInv, DialInv, NoCall, HangupInv, OwnerInv, Inside,
       SocketOutlivesWorkers, WorkersHaveQueues, CallerSteps, HangupSteps,
       WorkerSteps, XmitSteps, RcveSteps, Leave, queues, call, dial

\* A worker ends.
LEMMA EndCall ==
    ASSUME NEW w \in Workers, CallInv, TypeOK', End(w)
    PROVE  CallInv'
BY DEF CallInv, TypeOK, OneCallInv, DialInv, NoCall, HangupInv, OwnerInv, Inside,
       SocketOutlivesWorkers, WorkersHaveQueues, CallerSteps, HangupSteps,
       WorkerSteps, XmitSteps, RcveSteps, End, Drop, call, dial

\* XmitThread waits.
LEMMA XmitWaitCall ==
    ASSUME CallInv, TypeOK', XmitWait
    PROVE  CallInv'
BY DEF CallInv, TypeOK, OneCallInv, DialInv, NoCall, HangupInv, OwnerInv, Inside,
       SocketOutlivesWorkers, WorkersHaveQueues, CallerSteps, HangupSteps,
       WorkerSteps, XmitSteps, RcveSteps, XmitWait, queues, dial

\* XmitThread pops a buffer to encrypt.
LEMMA XmitPopCall ==
    ASSUME CallInv, TypeOK', XmitPop
    PROVE  CallInv'
BY DEF CallInv, TypeOK, OneCallInv, DialInv, NoCall, HangupInv, OwnerInv, Inside,
       SocketOutlivesWorkers, WorkersHaveQueues, CallerSteps, HangupSteps,
       WorkerSteps, XmitSteps, RcveSteps, XmitPop, call, dial

\* XmitThread sends.
LEMMA XmitSendCall ==
    ASSUME CallInv, TypeOK', XmitSend
    PROVE  CallInv'
BY DEF CallInv, TypeOK, OneCallInv, DialInv, NoCall, HangupInv, OwnerInv, Inside,
       SocketOutlivesWorkers, WorkersHaveQueues, CallerSteps, HangupSteps,
       WorkerSteps, XmitSteps, RcveSteps, XmitSend, queues, call, dial

\* XmitThread gives its two buffers back.
LEMMA XmitPushCall ==
    ASSUME CallInv, TypeOK', XmitPush
    PROVE  CallInv'
BY DEF CallInv, TypeOK, OneCallInv, DialInv, NoCall, HangupInv, OwnerInv, Inside,
       SocketOutlivesWorkers, WorkersHaveQueues, CallerSteps, HangupSteps,
       WorkerSteps, XmitSteps, RcveSteps, XmitPush, PushAvailable, call, dial

\* XmitThread sends terminate packets.
LEMMA XmitFloodCall ==
    ASSUME CallInv, TypeOK', XmitFlood
    PROVE  CallInv'
BY DEF CallInv, TypeOK, OneCallInv, DialInv, NoCall, HangupInv, OwnerInv, Inside,
       SocketOutlivesWorkers, WorkersHaveQueues, CallerSteps, HangupSteps,
       WorkerSteps, XmitSteps, RcveSteps, XmitFlood, queues, call, dial

\* RcveThread waits for data.
LEMMA RcveSelectCall ==
    ASSUME CallInv, TypeOK', RcveSelect
    PROVE  CallInv'
BY DEF CallInv, TypeOK, OneCallInv, DialInv, NoCall, HangupInv, OwnerInv, Inside,
       SocketOutlivesWorkers, WorkersHaveQueues, CallerSteps, HangupSteps,
       WorkerSteps, XmitSteps, RcveSteps, RcveSelect, queues, call, dial

\* RcveThread pops a buffer and reads into it.
LEMMA RcvePopCall ==
    ASSUME CallInv, TypeOK', RcvePop
    PROVE  CallInv'
<1>1. /\ At("rcve", "pop")
      /\ pc'["rcve"] \in {"popOther", "status", "pushOther", "end"}
      /\ pc' = [pc EXCEPT !["rcve"] = pc'["rcve"]]
  BY DEF CallInv, TypeOK, RcvePop, Counted
<1>2. UNCHANGED <<theSocket, provider, owner, handle, completed, queuesExist>>
  BY DEF RcvePop, PopAvailable, PopAvailableFails, queues, call, dial
<1>3. OneCallInv' /\ HangupInv'
  BY <1>1, <1>2 DEF CallInv, TypeOK, OneCallInv, HangupInv
<1>4. DialInv'
  BY <1>1, <1>2 DEF CallInv, TypeOK, DialInv, NoCall
<1>5. OwnerInv' /\ SocketOutlivesWorkers' /\ WorkersHaveQueues'
  BY <1>1, <1>2 DEF CallInv, TypeOK, OwnerInv, Inside, SocketOutlivesWorkers,
                    WorkersHaveQueues
<1> QED
  BY <1>3, <1>4, <1>5 DEF CallInv

\* RcveThread gives the plain text on.
LEMMA RcvePushCall ==
    ASSUME CallInv, TypeOK', RcvePush
    PROVE  CallInv'
BY DEF CallInv, TypeOK, OneCallInv, DialInv, NoCall, HangupInv, OwnerInv, Inside,
       SocketOutlivesWorkers, WorkersHaveQueues, CallerSteps, HangupSteps,
       WorkerSteps, XmitSteps, RcveSteps, RcvePush, PushAvailable, Counted, call, dial

\* RcveThread shows its status.
LEMMA RcveStatusCall ==
    ASSUME CallInv, TypeOK', RcveStatus
    PROVE  CallInv'
BY DEF CallInv, TypeOK, OneCallInv, DialInv, NoCall, HangupInv, OwnerInv, Inside,
       SocketOutlivesWorkers, WorkersHaveQueues, CallerSteps, HangupSteps,
       WorkerSteps, XmitSteps, RcveSteps, RcveStatus, StatusReturns, queues, call,
       dial

\* RcveThread gives its first buffer back.
LEMMA RcvePushOtherCall ==
    ASSUME CallInv, TypeOK', RcvePushOther
    PROVE  CallInv'
BY DEF CallInv, TypeOK, OneCallInv, DialInv, NoCall, HangupInv, OwnerInv, Inside,
       SocketOutlivesWorkers, WorkersHaveQueues, CallerSteps, HangupSteps,
       WorkerSteps, XmitSteps, RcveSteps, RcvePushOther, PushAvailable, call, dial

\* Sound was captured.
LEMMA AudioCheckCall ==
    ASSUME CallInv, TypeOK', AudioCheck
    PROVE  CallInv'
BY DEF CallInv, TypeOK, OneCallInv, DialInv, NoCall, HangupInv, OwnerInv, Inside,
       SocketOutlivesWorkers, WorkersHaveQueues, CallerSteps, HangupSteps,
       WorkerSteps, XmitSteps, RcveSteps, AudioCheck, queues, call, dial

\* A buffer for it.
LEMMA AudioPopCall ==
    ASSUME CallInv, TypeOK', AudioPop
    PROVE  CallInv'
BY DEF CallInv, TypeOK, OneCallInv, DialInv, NoCall, HangupInv, OwnerInv, Inside,
       SocketOutlivesWorkers, WorkersHaveQueues, CallerSteps, HangupSteps,
       WorkerSteps, XmitSteps, RcveSteps, AudioPop, PopAvailable, PopAvailableFails,
       queues, call, dial

\* It is queued to be encrypted.
LEMMA AudioPushCall ==
    ASSUME CallInv, TypeOK', AudioPush
    PROVE  CallInv'
BY DEF CallInv, TypeOK, OneCallInv, DialInv, NoCall, HangupInv, OwnerInv, Inside,
       SocketOutlivesWorkers, WorkersHaveQueues, CallerSteps, HangupSteps,
       WorkerSteps, XmitSteps, RcveSteps, AudioPush, Drop, call, dial

\* XmitThread is told.
LEMMA AudioSignalCall ==
    ASSUME CallInv, TypeOK', AudioSignal
    PROVE  CallInv'
BY DEF CallInv, TypeOK, OneCallInv, DialInv, NoCall, HangupInv, OwnerInv, Inside,
       SocketOutlivesWorkers, WorkersHaveQueues, CallerSteps, HangupSteps,
       WorkerSteps, XmitSteps, RcveSteps, AudioSignal, queues, dial

\* Hanging up begins.
LEMMA HangupCall ==
    ASSUME OneAtATime, CallInv, TypeOK', MayHangUp, Hangup
    PROVE  CallInv'
BY DEF CallInv, TypeOK, OneCallInv, DialInv, NoCall, HangupInv, OwnerInv, Inside,
       SocketOutlivesWorkers, WorkersHaveQueues, CallerSteps, HangupSteps,
       WorkerSteps, XmitSteps, RcveSteps, OneAtATime, MayHangUp, Hangup, queues, call,
       dial

\* XmitThread is told to stop.
LEMMA StopXmitCall ==
    ASSUME CallInv, TypeOK', StopXmit
    PROVE  CallInv'
BY DEF CallInv, TypeOK, OneCallInv, DialInv, NoCall, HangupInv, OwnerInv, Inside,
       SocketOutlivesWorkers, WorkersHaveQueues, CallerSteps, HangupSteps,
       WorkerSteps, XmitSteps, RcveSteps, StopXmit, Stop, queues, dial

\* RcveThread is told to stop.
LEMMA StopRcveCall ==
    ASSUME CallInv, TypeOK', StopRcve
    PROVE  CallInv'
BY DEF CallInv, TypeOK, OneCallInv, DialInv, NoCall, HangupInv, OwnerInv, Inside,
       SocketOutlivesWorkers, WorkersHaveQueues, CallerSteps, HangupSteps,
       WorkerSteps, XmitSteps, RcveSteps, StopRcve, Stop, queues, dial

\* XmitThread was waited for or terminated.
LEMMA WaitXmitCall ==
    ASSUME CallInv, TypeOK', WaitXmit
    PROVE  CallInv'
BY DEF CallInv, TypeOK, OneCallInv, DialInv, NoCall, HangupInv, OwnerInv, Inside,
       SocketOutlivesWorkers, WorkersHaveQueues, CallerSteps, HangupSteps,
       WorkerSteps, XmitSteps, RcveSteps, WaitXmit, Wait, Drop, dial

\* RcveThread was waited for or terminated.
LEMMA WaitRcveCall ==
    ASSUME CallInv, TypeOK', WaitRcve
    PROVE  CallInv'
BY DEF CallInv, TypeOK, OneCallInv, DialInv, NoCall, HangupInv, OwnerInv, Inside,
       SocketOutlivesWorkers, WorkersHaveQueues, CallerSteps, HangupSteps,
       WorkerSteps, XmitSteps, RcveSteps, WaitRcve, Wait, Drop, dial

\* The socket is closed, or hanging up fails.
LEMMA CloseSocketCall ==
    ASSUME CallInv, TypeOK', CloseSocket
    PROVE  CallInv'
BY DEF CallInv, TypeOK, OneCallInv, DialInv, NoCall, HangupInv, OwnerInv, Inside,
       SocketOutlivesWorkers, WorkersHaveQueues, CallerSteps, HangupSteps,
       WorkerSteps, XmitSteps, RcveSteps, CloseSocket, queues, call, dial

\* Provider, critical section and queues go.
LEMMA ReleaseCall ==
    ASSUME CallInv, TypeOK', Release
    PROVE  CallInv'
BY DEF CallInv, TypeOK, OneCallInv, DialInv, NoCall, HangupInv, OwnerInv, Inside,
       SocketOutlivesWorkers, WorkersHaveQueues, CallerSteps, HangupSteps,
       WorkerSteps, XmitSteps, RcveSteps, Release, NewOwner, Destroyed, call, dial

\* The transport is created anew.
LEMMA InitializeCall ==
    ASSUME CallInv, TypeOK', Initialize
    PROVE  CallInv'
BY DEF CallInv, TypeOK, OneCallInv, DialInv, NoCall, HangupInv, OwnerInv, Inside,
       SocketOutlivesWorkers, WorkersHaveQueues, CallerSteps, HangupSteps,
       WorkerSteps, XmitSteps, RcveSteps, Initialize, call, dial

-----------------------------------------------------------------------------

\* Every step keeps the invariant, if users and peers act one at a time.
LEMMA NextCall ==
    ASSUME OneAtATime, CallInv, TypeOK', [Next]_vars
    PROVE  CallInv'
<1>1. ASSUME NEW c \in Callers, (MayStart /\ Start(c)) \/ Caller(c)
      PROVE  CallInv'
  BY <1>1, StartCall, OpenCall, ConnectCall, AcceptedCall, KickXmitCall, KickRcveCall,
     CleanupCall DEF Caller
<1>2. ASSUME NEW w \in Workers, Worker(w)
      PROVE  CallInv'
  BY <1>2, StartWorkerCall, PopOtherCall, EnterCall, CipherCall, LeaveCall, EndCall
     DEF Worker
<1>3. CASE Xmit
  BY <1>2, <1>3, XmitWaitCall, XmitPopCall, XmitSendCall, XmitPushCall, XmitFloodCall
     DEF Xmit
<1>4. CASE Rcve
  BY <1>2, <1>4, RcveSelectCall, RcvePopCall, RcvePushCall, RcveStatusCall,
     RcvePushOtherCall DEF Rcve
<1>5. CASE Audio
  BY <1>5, AudioCheckCall, AudioPopCall, AudioPushCall, AudioSignalCall DEF Audio
<1>6. CASE (MayHangUp /\ Hangup) \/ HangingUp
  BY <1>6, HangupCall, StopXmitCall, WaitXmitCall, StopRcveCall, WaitRcveCall,
     CloseSocketCall, ReleaseCall, InitializeCall DEF HangingUp
<1>7. CASE UNCHANGED vars
  BY <1>7 DEF CallInv, TypeOK, OneCallInv, DialInv, NoCall, HangupInv, OwnerInv, Inside,
     SocketOutlivesWorkers, WorkersHaveQueues, vars, queues, call, dial
<1> QED
  BY <1>1, <1>3, <1>4, <1>5, <1>6, <1>7 DEF Next

\* The types and the accounting hold in every state.
LEMMA TypeHolds == Spec => []TypeInv
<1>1. Init => TypeInv
  BY InitType
<1> QED
  BY <1>1, NextType, PTL DEF Spec

\* If users and peers act one at a time the invariant holds in every state.
LEMMA CallHolds ==
    ASSUME OneAtATime
    PROVE  Spec => []CallInv
<1>1. TypeInv' /\ CallInv /\ [Next]_vars => CallInv'
  BY NextCall DEF TypeInv
<1> QED
  BY <1>1, InitCall, TypeHolds, PTL DEF Spec

-----------------------------------------------------------------------------

\* The variables keep their types, and no buffer of the queues is counted twice,
\* for any number of buffers, whoever dials when: every buffer is in one queue,
\* with one thread, or lost with a thread that died.
THEOREM TypeCorrect == Spec => []TypeOK
<1>1. TypeInv => TypeOK
  BY DEF TypeInv
<1> QED
  BY <1>1, TypeHolds, PTL

\* The socket is closed after the workers that use it, if nobody dials or answers 
\* while a call is on or being set up, nor hangs up in the middle of an answer.  The
\* user may hang up while an answer waits for its packet.
THEOREM SocketCorrect ==
    ASSUME OneAtATime
    PROVE  Spec => []SocketOutlivesWorkers
<1>1. CallInv => SocketOutlivesWorkers
  BY DEF CallInv
<1> QED
  BY <1>1, CallHolds, PTL

\* Workers have their queues and keys, under the same assumptions.
THEOREM QueuesCorrect ==
    ASSUME OneAtATime
    PROVE  Spec => []WorkersHaveQueues
<1>1. CallInv => WorkersHaveQueues
  BY DEF CallInv
<1> QED
  BY <1>1, CallHolds, PTL

\* The workers' calls of the engine exclude each other, although hanging up
\* replaces the critical section: by then neither is inside, under the same
\* assumptions.
THEOREM CallsCorrect ==
    ASSUME OneAtATime
    PROVE  Spec => []CipherCallsExclusive
<1>1. CallInv => CipherCallsExclusive
  BY DEF CallInv, OwnerInv, CipherCallsExclusive
<1> QED
  BY <1>1, CallHolds, PTL

\* Hanging up has taken the whole call apart before it creates anything anew,
\* whatever its threads held, under the same assumptions.
THEOREM HangupCorrect ==
    ASSUME OneAtATime
    PROVE  Spec => []HangupLeavesNothing
<1>1. CallInv => HangupLeavesNothing
  BY DEF CallInv, OneCallInv, HangupInv, HangupLeavesNothing
<1> QED
  BY <1>1, CallHolds, PTL

=============================================================================
