------------------------------ MODULE Transport ------------------------------
(***************************************************************************)
(* A call of the phone: the socket, the two buffer queues, the provider    *)
(* and the critical section that transport.c keeps in global variables,    *)
(* and the threads that use them:                                          *)
(*   "ui"         the window's thread: it dials, hangs up, and handles     *)
(*                messages when it does neither                            *)
(*   "handshake"  the thread that reads handshakes and answers them        *)
(*   "xmit"       XmitThread: encrypts and sends                           *)
(*   "rcve"       RcveThread: receives and decrypts                        *)
(*   "audio"      the thread that hands sound over (TransmitBuffer)        *)
(*                                                                         *)
(* SetStatus is a SendMessage to the window: a thread other than "ui" is   *)
(* in it until the window's thread handles messages again.  The network    *)
(* loses and delivers what it likes.                                       *)
(*                                                                         *)
(* What an operation does with a queue that was destroyed is not defined;  *)
(* here it reports an error, as QueuePopBuffer does when the memory no     *)
(* longer holds the magic number.  Only "audio" can meet one as long as    *)
(* WorkersHaveQueues holds.  The end of the program is not modelled.       *)
(*                                                                         *)
(* The code excludes neither that somebody dials or answers while the      *)
(* transport is in use, nor that the user hangs up in the middle of an     *)
(* answer.  The actions exclude it neither; MayStart and MayHangUp, which  *)
(* stand in Next and not in the actions, say what users and peers are      *)
(* assumed not to do.                                                      *)
(***************************************************************************)
EXTENDS Integers

CONSTANTS
    NBuffers,           \* the buffers there is memory for
    Initial,            \* iInitialCount of queueAvailable
    GrowBy,             \* iGrowBy of queueAvailable
    MaxTries,           \* iTriesLeft of DialRemote and AnswerRemote
    MaxStray,           \* iStrayLeft
    \* Assumptions on users and peers, which the code does not enforce:
    DialsWhileBusy,     \* is a call dialed or answered while one is on?
    SetupsOverlap,      \* is a call answered while one is dialed, or dialed while
                        \* one is answered?
    HangsUpAnytime      \* does a user hang up in the middle of an answer?

ASSUME TransportAssumption ==
    /\ NBuffers \in Nat
    /\ Initial \in 0 .. NBuffers
    /\ GrowBy \in Nat \ {0}
    /\ MaxTries \in Nat
    /\ MaxStray \in Nat \ {0}
    /\ DialsWhileBusy \in BOOLEAN
    /\ SetupsOverlap \in BOOLEAN
    /\ HangsUpAnytime \in BOOLEAN

Callers == {"ui", "handshake"}
Workers == {"xmit", "rcve"}
Threads == Callers \cup Workers \cup {"audio"}
Nobody == "nobody"

VARIABLES
    \* The globals of transport.c.
    theSocket,          \* theSocket # 0
    provider,           \* hProvider # NULL
    queuesExist,        \* queueAvailable and queueEncrypt are not destroyed
    queueAvailable, queueEncrypt,   \* how many buffers they hold
    memory,             \* how many more there is memory for
    owner,              \* the thread inside CritSect
    handle,             \* hXmitThread, hRcveThread # 0
    running,            \* bXmitThreadRunning, bRcveThreadRunning
    event,              \* XmitEvent: "null", "reset", "set"
    \* The threads.
    pc,
    hand,               \* how many buffers each thread has popped
    tries, stray,       \* iTriesLeft, iStrayLeft
    completed           \* bDialCompleted, bAnswerCompleted

queues == <<queuesExist, queueAvailable, queueEncrypt, memory, hand>>
call == <<handle, running, event>>
dial == <<tries, stray, completed>>
vars == <<theSocket, provider, queues, owner, call, pc, dial>>

CallerSteps == {"pump", "open", "connect", "accepted", "kickXmit", "kickRcve", 
                "cleanup"}
HangupSteps == {"stopXmit", "waitXmit", "stopRcve", "waitRcve", "closeSocket", 
                "release", "init"}
WorkerSteps == {"none", "start", "pop", "popOther", "enter", "cipher", "leave", 
                "push", "end"}
XmitSteps == WorkerSteps \cup {"wait", "send", "flood"}
RcveSteps == WorkerSteps \cup {"select", "status", "pushOther"}
AudioSteps == {"check", "pop", "push", "signal"}

\* The buffers that somebody holds; one that nobody does is lost.
Allocated == queueAvailable + queueEncrypt + hand["xmit"] + hand["rcve"] + hand["audio"]

TypeOK ==
    /\ theSocket \in BOOLEAN
    /\ provider \in BOOLEAN
    /\ queuesExist \in BOOLEAN
    /\ queueAvailable \in Nat
    /\ queueEncrypt \in Nat
    /\ memory \in Nat
    /\ owner \in Workers \cup {Nobody}
    /\ handle \in [Workers -> BOOLEAN]
    /\ running \in [Workers -> BOOLEAN]
    /\ event \in {"null", "reset", "set"}
    /\ pc \in [Threads -> CallerSteps \cup HangupSteps \cup XmitSteps \cup RcveSteps
                            \cup AudioSteps]
    /\ pc["ui"] \in CallerSteps \cup HangupSteps
    /\ pc["handshake"] \in CallerSteps
    /\ pc["xmit"] \in XmitSteps
    /\ pc["rcve"] \in RcveSteps
    /\ pc["audio"] \in AudioSteps
    /\ hand \in [Workers \cup {"audio"} -> Nat]
    /\ Allocated + memory <= NBuffers
    /\ tries \in [Callers -> 0 .. MaxTries]
    /\ stray \in [Callers -> 0 .. MaxStray]
    /\ completed \in [Callers -> BOOLEAN]

\* InitializeTransport has succeeded.
Init ==
    /\ theSocket = FALSE
    /\ provider = TRUE
    /\ queuesExist = TRUE
    /\ queueAvailable = Initial
    /\ queueEncrypt = 0
    /\ memory = NBuffers - Initial
    /\ owner = Nobody
    /\ handle = [t \in Workers |-> FALSE]
    /\ running = [t \in Workers |-> FALSE]
    /\ event = "null"
    /\ pc = [ui |-> "pump", handshake |-> "pump", xmit |-> "none", rcve |-> "none", 
             audio |-> "check"]
    /\ hand = [t \in Workers \cup {"audio"} |-> 0]
    /\ tries = [c \in Callers |-> 0]
    /\ stray = [c \in Callers |-> 0]
    /\ completed = [c \in Callers |-> FALSE]

-----------------------------------------------------------------------------

At(t, step) == pc[t] = step

GoTo(t, step) == pc' = [pc EXCEPT ![t] = step]

\* SetStatus returns at once on the window's thread.
StatusReturns(t) == t = "ui" \/ At("ui", "pump")

Drop(t) == hand' = [hand EXCEPT ![t] = 0]

(* The queues.                                                             *)

\* QueuePopBuffer of queueAvailable, which grows when it is empty.
PopAvailable(t) ==
    /\ queuesExist
    /\ \/ queueAvailable > 0 /\ queueAvailable' = queueAvailable - 1 /\ UNCHANGED memory
       \/ /\ queueAvailable = 0 /\ memory >= GrowBy
          /\ queueAvailable' = GrowBy - 1
          /\ memory' = memory - GrowBy
    /\ hand' = [hand EXCEPT ![t] = @ + 1]
    /\ UNCHANGED <<queuesExist, queueEncrypt>>

\* It fails for want of memory, or of a queue.  (What the queue has grown by 
\* when the memory ran out stays in the queue; it is not modelled.)
PopAvailableFails == UNCHANGED queues

PushAvailable(t, n) ==
    /\ queuesExist
    /\ queueAvailable' = queueAvailable + n
    /\ hand' = [hand EXCEPT ![t] = @ - n]
    /\ UNCHANGED <<queuesExist, queueEncrypt, memory>>

-----------------------------------------------------------------------------
(* DialRemote on the window's thread, AnswerRemote on the handshake's.     *)

\* E_STARTED, or there is no socket yet.
Start(c) ==
    /\ At(c, "pump")
    /\ \/ theSocket /\ GoTo(c, "cleanup")
       \/ ~theSocket /\ StatusReturns(c) /\ GoTo(c, "open")
    /\ completed' = [completed EXCEPT ![c] = FALSE]
    /\ UNCHANGED <<theSocket, provider, queues, owner, call, tries, stray>>

\* The socket is created and bound, or one of the two fails.
Open(c) ==
    /\ At(c, "open")
    /\ theSocket' = TRUE
    /\ tries' = [tries EXCEPT ![c] = MaxTries]
    /\ stray' = [stray EXCEPT ![c] = MaxStray]
    /\ GoTo(c, "connect") \/ GoTo(c, "cleanup")
    /\ UNCHANGED <<provider, queues, owner, call, completed>>

\* One turn of the loop: no packet; the packet it waits for; a stray packet, 
\* which does not count as a try but uses up a credit; an error.
NoPacket(c) ==
    /\ GoTo(c, "connect")
    /\ tries' = [tries EXCEPT ![c] = @ - 1]
    /\ UNCHANGED stray

\* Mutant of StrayPacket: it costs no credit, and the tries start over.
StrayStartsOver(c) ==
    /\ GoTo(c, "connect")
    /\ tries' = [tries EXCEPT ![c] = MaxTries]
    /\ UNCHANGED stray

StrayPacket(c) ==
    /\ stray' = [stray EXCEPT ![c] = @ - 1]
    /\ GoTo(c, IF stray'[c] <= 0 THEN "cleanup" ELSE "connect")
    /\ UNCHANGED tries

Connect(c) ==
    /\ At(c, "connect")
    /\ StatusReturns(c)
    /\ \/ /\ tries[c] > 0
          /\ theSocket
          /\ \/ NoPacket(c)
             \/ StrayPacket(c)
             \/ GoTo(c, "accepted") /\ UNCHANGED <<tries, stray>>
       \/ GoTo(c, "cleanup") /\ UNCHANGED <<tries, stray>>
    /\ UNCHANGED <<theSocket, provider, queues, owner, call, completed>>

\* The packet is received.  The one who dials sends its response, which may fail.
Accepted(c) ==
    /\ At(c, "accepted")
    /\ StatusReturns(c)
    /\ \/ (c = "ui" => theSocket) /\ GoTo(c, "kickXmit")
       \/ c = "ui" /\ GoTo(c, "cleanup")
    /\ UNCHANGED <<theSocket, provider, queues, owner, call, dial>>

\* KickOffSendReceive.  A thread may fail to be created: its handle is zero.  That
\* handle and flag are stored later than the thread runs could only be seen by a
\* hang-up in the middle of an answer.  (A second thread of one kind is not modelled:
\* it takes a broken assumption of MayStart, and a socket lost to it.)
Kick(c, w) ==
    /\ At(w, "none")
    /\ \E created \in BOOLEAN : 
        /\ handle' = [handle EXCEPT ![w] = created]
        /\ running' = [running EXCEPT ![w] = created]
        /\ pc' = [pc EXCEPT ![w] = IF created THEN "start" ELSE @, 
                            ![c] = IF w = "xmit" THEN "kickRcve" ELSE "cleanup"]

KickXmit(c) ==
    /\ At(c, "kickXmit")
    /\ \/ /\ event' = "reset"
          /\ Kick(c, "xmit")
       \/ /\ event' = "null"    \* CreateEvent failed
          /\ GoTo(c, "cleanup")
          /\ UNCHANGED <<handle, running>>
    /\ UNCHANGED <<theSocket, provider, queues, owner, dial>>

KickRcve(c) ==
    /\ At(c, "kickRcve")
    /\ Kick(c, "rcve")
    /\ completed' = [completed EXCEPT ![c] = TRUE]
    /\ UNCHANGED <<theSocket, provider, queues, owner, event, tries, stray>>

\* Mutant of StaysOpen: the socket is closed whether dialing was completed or not.
NeverStaysOpen(c) == FALSE

StaysOpen(c) == theSocket /\ completed[c]

\* The socket is closed unless dialing was completed.
Cleanup(c) ==
    /\ At(c, "cleanup")
    /\ StatusReturns(c)
    /\ theSocket' = StaysOpen(c)
    /\ tries' = [tries EXCEPT ![c] = 0]
    /\ stray' = [stray EXCEPT ![c] = 0]
    /\ completed' = [completed EXCEPT ![c] = FALSE]
    /\ GoTo(c, "pump")
    /\ UNCHANGED <<provider, queues, owner, call>>

Caller(c) == 
    \/ Open(c)
    \/ Connect(c) 
    \/ Accepted(c)
    \/ KickXmit(c) 
    \/ KickRcve(c) 
    \/ Cleanup(c)

-----------------------------------------------------------------------------
(* The worker threads.                                                     *)

\* A thread that leaves through the error macro, or ends: what it holds, it 
\* keeps, the critical section included.
End(w) ==
    /\ At(w, "end")
    /\ GoTo(w, "none")
    /\ Drop(w)
    /\ UNCHANGED <<theSocket, provider, queuesExist, queueAvailable, queueEncrypt, 
                   memory, owner, call, dial>>

\* The session of the thread is created over the provider's keys.
StartWorker(w) ==
    /\ At(w, "start")
    /\ \/ provider /\ GoTo(w, IF w = "xmit" THEN "wait" ELSE "select")
       \/ GoTo(w, "end")
    /\ UNCHANGED <<theSocket, provider, queues, owner, call, dial>>

\* The buffer the cipher text (rcve: the plain text) goes to.
PopOther(w) ==
    /\ At(w, "popOther")
    /\ \/ PopAvailable(w) /\ GoTo(w, "enter")
       \/ PopAvailableFails /\ GoTo(w, "end")
    /\ UNCHANGED <<theSocket, provider, owner, call, dial>>

\* Mutant of MayEnter: the critical section is not entered.
MayAlwaysEnter(w) == TRUE

MayEnter(w) == owner = Nobody

Enter(w) ==
    /\ At(w, "enter")
    /\ MayEnter(w)
    /\ owner' = w
    /\ GoTo(w, "cipher")
    /\ UNCHANGED <<theSocket, provider, queues, call, dial>>

\* ACP_Encrypt or ACP_Decrypt; it may fail.
Cipher(w) ==
    /\ At(w, "cipher")
    /\ \/ w = "xmit" /\ GoTo(w, "send")
       \/ GoTo(w, "leave")
    /\ UNCHANGED <<theSocket, provider, queues, owner, call, dial>>

Leave(w) ==
    /\ At(w, "leave")
    /\ owner' = Nobody
    /\ GoTo(w, "push")
    /\ UNCHANGED <<theSocket, provider, queues, call, dial>>

\* The loop of XmitThread: a timeout or the event, and the flag.
XmitWait ==
    /\ At("xmit", "wait")
    /\ \/ /\ event = "set"
          /\ event' = "reset"
          /\ GoTo("xmit", "pop")
       \/ /\ GoTo("xmit", IF running["xmit"] THEN "wait" ELSE "flood")
          /\ UNCHANGED event
    /\ UNCHANGED <<theSocket, provider, queues, owner, handle, running, dial>>

XmitPop ==
    /\ At("xmit", "pop")
    /\ IF running["xmit"] /\ queueEncrypt > 0
       THEN /\ hand' = [hand EXCEPT !["xmit"] = 1]
            /\ queueEncrypt' = queueEncrypt - 1
            /\ GoTo("xmit", "popOther")
       ELSE /\ GoTo("xmit", "wait")
            /\ UNCHANGED <<hand, queueEncrypt>>
    /\ UNCHANGED <<theSocket, provider, queuesExist, queueAvailable, memory, owner, 
                   call, dial>>

\* sendto may block, and it may fail.
XmitSend ==
    /\ At("xmit", "send")
    /\ \/ theSocket /\ GoTo("xmit", "leave")
       \/ GoTo("xmit", "end")
    /\ UNCHANGED <<theSocket, provider, queues, owner, call, dial>>

XmitPush ==
    /\ At("xmit", "push")
    /\ PushAvailable("xmit", 2)
    /\ GoTo("xmit", "pop")
    /\ UNCHANGED <<theSocket, provider, owner, call, dial>>

\* The terminate packets.
XmitFlood ==
    /\ At("xmit", "flood")
    /\ GoTo("xmit", "end")
    /\ UNCHANGED <<theSocket, provider, queues, owner, call, dial>>

RcveSelect ==
    /\ At("rcve", "select")
    /\ \/ running["rcve"] /\ theSocket /\ GoTo("rcve", "pop")
       \/ running["rcve"] /\ theSocket /\ UNCHANGED pc      \* nothing to read
       \/ GoTo("rcve", "end")                               \* told to, or error
    /\ UNCHANGED <<theSocket, provider, queues, owner, call, dial>>

\* A frame is counted; every tenth shows the status.
Counted == GoTo("rcve", "status") \/ GoTo("rcve", "pushOther")

RcvePop ==
    /\ At("rcve", "pop")
    /\ \/ PopAvailable("rcve") 
          /\ \/ theSocket /\ GoTo("rcve", "popOther")   \* data
             \/ theSocket /\ Counted                    \* data to be dropped
             \/ theSocket /\ GoTo("rcve", "pushOther")  \* terminate, stray
             \/ GoTo("rcve", "end")                     \* recv failed
       \/ PopAvailableFails /\ GoTo("rcve", "end")
    /\ UNCHANGED <<theSocket, provider, owner, call, dial>>

RcvePush ==
    /\ At("rcve", "push")
    /\ PushAvailable("rcve", 1)
    /\ Counted
    /\ UNCHANGED <<theSocket, provider, owner, call, dial>>

RcveStatus ==
    /\ At("rcve", "status")
    /\ StatusReturns("rcve")
    /\ GoTo("rcve", "pushOther")
    /\ UNCHANGED <<theSocket, provider, queues, owner, call, dial>>

RcvePushOther ==
    /\ At("rcve", "pushOther")
    /\ PushAvailable("rcve", 1)
    /\ GoTo("rcve", "select")
    /\ UNCHANGED <<theSocket, provider, owner, call, dial>>

Worker(w) == 
    \/ StartWorker(w) 
    \/ PopOther(w) 
    \/ Enter(w) 
    \/ Cipher(w) 
    \/ Leave(w) 
    \/ End(w)

Xmit == Worker("xmit") \/ XmitWait \/ XmitPop \/ XmitSend \/ XmitPush \/ XmitFlood

Rcve == 
    \/ Worker("rcve") 
    \/ RcveSelect 
    \/ RcvePop 
    \/ RcvePush 
    \/ RcveStatus 
    \/ RcvePushOther

-----------------------------------------------------------------------------
(* TransmitBuffer.                                                         *)

\* Sound is captured all the time; without a call it is not used.
AudioCheck ==
    /\ At("audio", "check")
    /\ GoTo("audio", IF event = "null" THEN "check" ELSE "pop")
    /\ UNCHANGED <<theSocket, provider, queues, owner, call, dial>>

AudioPop ==
    /\ At("audio", "pop")
    /\ \/ PopAvailable("audio") /\ GoTo("audio", "push")
       \/ PopAvailableFails /\ GoTo("audio", "check")
    /\ UNCHANGED <<theSocket, provider, owner, call, dial>>

AudioPush ==
    /\ At("audio", "push")
    /\ \/ /\ queuesExist
          /\ queueEncrypt' = queueEncrypt + 1
          /\ GoTo("audio", "signal")
       \/ /\ ~queuesExist
          /\ GoTo("audio", "check")
          /\ UNCHANGED queueEncrypt
    /\ Drop("audio")
    /\ UNCHANGED <<theSocket, provider, queuesExist, queueAvailable, memory, owner, 
                   call, dial>>

AudioSignal ==
    /\ At("audio", "signal")
    /\ event' = IF event = "null" THEN "null" ELSE "set"
    /\ GoTo("audio", "check")
    /\ UNCHANGED <<theSocket, provider, queues, owner, handle, running, dial>>

Audio == AudioCheck \/ AudioPop \/ AudioPush \/ AudioSignal

-----------------------------------------------------------------------------
(* Hanging up: TerminateTransport, then InitializeTransport.               *)

Hangup ==
    /\ At("ui", "pump")
    /\ GoTo("ui", "stopXmit")
    /\ UNCHANGED <<theSocket, provider, queues, owner, call, dial>>

Stop(w, here, wait, next) ==
    /\ At("ui", here)
    /\ IF handle[w]
       THEN /\ running' = [running EXCEPT ![w] = FALSE]
            /\ event' = IF w = "xmit" /\ event # "null" THEN "set" ELSE event
            /\ GoTo("ui", wait)
       ELSE /\ GoTo("ui", next)
            /\ UNCHANGED <<running, event>>
    /\ UNCHANGED <<theSocket, provider, queues, owner, handle, dial>>

StopXmit == Stop("xmit", "stopXmit", "waitXmit", "stopRcve")

\* Mutant of StopRcve: the thread is told to stop and not waited for.
StopRcveNoWait == Stop("rcve", "stopRcve", "closeSocket", "closeSocket")

StopRcve == Stop("rcve", "stopRcve", "waitRcve", "closeSocket")

\* Mutant of TimesOut: the wait is INFINITE.
NeverTimesOut == FALSE

\* THREAD_TIMEOUT milliseconds pass.
TimesOut == TRUE

\* The thread has ended, or the wait times out and the thread is terminated 
\* where it is: what it holds, it keeps.
Wait(w, here, next) ==
    /\ At("ui", here)
    /\ At(w, "none") \/ TimesOut
    /\ handle' = [handle EXCEPT ![w] = FALSE]
    /\ event' = IF w = "xmit" THEN "null" ELSE event
    /\ pc' = [pc EXCEPT ![w] = "none", !["ui"] = next]
    /\ Drop(w)
    /\ UNCHANGED <<theSocket, provider, queuesExist, queueAvailable, queueEncrypt, 
                   memory, owner, running, dial>>

WaitXmit == Wait("xmit", "waitXmit", "stopRcve")
WaitRcve == Wait("rcve", "waitRcve", "closeSocket")

\* "Failed to hangup, phase 1."
CloseSocket ==
    /\ At("ui", "closeSocket")
    /\ \/ /\ theSocket' = FALSE
          /\ GoTo("ui", "release")
       \/ /\ theSocket
          /\ GoTo("ui", "pump")
          /\ UNCHANGED theSocket
    /\ UNCHANGED <<provider, queues, owner, call, dial>>

\* Mutant of Destroyed: one queue is destroyed twice.
DestroyedTwice == queueAvailable + queueAvailable

\* The elements that DestroyBufferQueue frees.
Destroyed == queueAvailable + queueEncrypt

\* Mutant of NewOwner: the critical section is kept as it is.
SameOwner == owner

\* Nobody is inside of a critical section that was created anew.
NewOwner == Nobody

\* The provider, the critical section, the queues.
Release ==
    /\ At("ui", "release")
    /\ provider' = FALSE
    /\ owner' = NewOwner
    /\ queuesExist' = FALSE
    /\ queueAvailable' = 0
    /\ queueEncrypt' = 0
    /\ memory' = memory + Destroyed
    /\ GoTo("ui", IF queuesExist THEN "init" ELSE "pump")
    /\ UNCHANGED <<hand, theSocket, call, dial>>

\* "Phase 2" fails when there is a thread again (ACT_E_IN_USE), or the queues or 
\* the provider cannot be created.
Initialize ==
    /\ At("ui", "init")
    /\ \/ /\ ~handle["xmit"]
          /\ memory >= Initial
          /\ queuesExist' = TRUE
          /\ queueAvailable' = Initial
          /\ memory' = memory - Initial
          /\ provider' \in BOOLEAN
       \/ UNCHANGED <<queuesExist, queueAvailable, memory, provider>>
    /\ GoTo("ui", "pump")
    /\ UNCHANGED <<hand, queueEncrypt, theSocket, owner, call, dial>>

HangingUp ==
    \/ StopXmit 
    \/ WaitXmit 
    \/ StopRcve 
    \/ WaitRcve 
    \/ CloseSocket 
    \/ Release 
    \/ Initialize

-----------------------------------------------------------------------------
(* What users and peers do.                                                *)

NobodyDials == \A c \in Callers : pc[c] \in {"pump"} \cup HangupSteps

NoCall == \A w \in Workers : ~handle[w]

\* ASSUMED, the code does not see to it: no dial begins, and no peer's handshake is 
\* answered, while a call is on, nor while the other thread dials or answers.  A
\* handshake may arrive while the user hangs up, once the call's threads are gone.
MayStart == (SetupsOverlap \/ NobodyDials) /\ (DialsWhileBusy \/ NoCall)

\* ASSUMED, the code does not see to it: no hang-up begins in the short time in 
\* which the handshake thread creates its socket, or receives the packet it waits for
\* (from the SetStatus before recv on) and kicks off the workers, or cleans up.  
\* Hanging up while it waits for that packet, for minutes perhaps, is not excluded.
MayHangUp == HangsUpAnytime \/ pc["handshake"] \in {"pump", "connect"}

Next ==
    \/ \E c \in Callers : (MayStart /\ Start(c)) \/ Caller(c)
    \/ Xmit
    \/ Rcve
    \/ Audio
    \/ MayHangUp /\ Hangup
    \/ HangingUp

Spec == Init /\ [][Next]_vars

\* The window's thread runs whenever it can.
FairSpec == Spec /\ WF_vars(Caller("ui") \/ HangingUp)

-----------------------------------------------------------------------------

\* The socket is there as long as a worker uses it: it is closed only after 
\* both workers have stopped.
SocketOutlivesWorkers == \A w \in Workers : ~At(w, "none") => theSocket

\* No worker pops or pushes buffers, or uses keys, of queues and providers 
\* that hanging up has destroyed.
WorkersHaveQueues == 
    \A w \in Workers : pc[w] \notin {"none", "start", "end"} => queuesExist /\ provider

\* The engine's calls of the two workers exclude each other: they share the 
\* static buffer that numbers are converted to text in.  That holds although 
\* a worker may die inside, and hanging up replaces the critical section.
Inside(w) == pc[w] \in {"cipher", "send", "leave"}

CipherCallsExclusive == ~(Inside("xmit") /\ Inside("rcve"))

\* Before hanging up creates the transport anew nothing is left of the call: no
\* thread, no handle, no socket, and no critical section that a failed sendto 
\* or a terminated thread left locked.
HangupLeavesNothing ==
    At("ui", "init") =>
        /\ ~theSocket
        /\ owner = Nobody
        /\ \A w \in Workers : At(w, "none") /\ ~handle[w]

\* Dialing ends, whatever packets arrive, and so does hanging up, whatever the 
\* workers wait for: the window handles messages again.
Dialing == 
    pc["ui"] \in {"open", "connect", "accepted", "kickXmit", "kickRcve", "cleanup"}

DialReturns == Dialing ~> ~Dialing

HangupReturns == At("ui", "stopXmit") ~> At("ui", "pump")

=============================================================================
