------------------------------ MODULE Handshake ------------------------------
(***************************************************************************)
(* The threads of the phone's WiFi handshake, which share one socket:      *)
(*   "broadcast"  tells the neighbours every 15 seconds that the phone is  *)
(*                there                                                    *)
(*   "send"       asks one of them to take a call, and ends                *)
(*   "read"       hears the others, and answers their calls                *)
(* and "main", which starts them, dials, and at the end of the program     *)
(* takes everything down.                                                  *)
(*                                                                         *)
(* The handle of a thread is stored after CreateThread returned, when the  *)
(* thread may be over already, and then tested.  "broadcast" and "send"    *)
(* close their handle themselves when they end, and set it to NULL.  The   *)
(* critical section of the code is only entered by "main", and is left     *)
(* out.                                                                    *)
(***************************************************************************)

Threads == {"broadcast", "send", "read"}
Main == "main"

\* The threads that close their own handle, and those with a shutdown event.
Closers == {"broadcast", "send"}
Waiters == {"broadcast", "read"}

VARIABLES
    theBrodcastSocket,      \* theBrodcastSocket # 0
    handle,                 \* hBroadcastThread, hSendThread, hReadThread # NULL
    event,                  \* hShutdownBroadcast, hShutdownRead
    pc

vars == <<theBrodcastSocket, handle, event, pc>>

Startup == {"socket", "startBroadcast", "keepBroadcast", "checkBroadcast", "startRead", 
            "keepRead"}
Dialing == {"startSend", "keepSend", "checkSend", "dial"}
Shutdown == {"stopBroadcast", "waitBroadcast", "stopSend", "waitSend", "stopRead", 
             "waitRead", "close"}

TypeOK ==
    /\ theBrodcastSocket \in BOOLEAN
    /\ handle \in [Threads -> BOOLEAN]
    /\ event \in [Waiters -> {"null", "reset", "set"}]
    /\ pc \in [Threads \cup {Main} -> 
                  Startup \cup Dialing \cup Shutdown \cup {"loop", "over"}
                    \cup {"none", "start", "use", "proc", "wait", "cleanup", "ended"}]
    /\ pc[Main] \in Startup \cup Dialing \cup Shutdown \cup {"loop", "over"}
    /\ pc["read"] # "cleanup"
    /\ pc["send"] \notin {"proc", "wait"}
    /\ pc["broadcast"] # "proc"

Init ==
    /\ theBrodcastSocket = FALSE
    /\ handle = [t \in Threads |-> FALSE]
    /\ event = [t \in Waiters |-> "null"]
    /\ pc = [t \in Threads \cup {Main} |-> IF t = Main THEN "socket" ELSE "none"]

-----------------------------------------------------------------------------

At(t, step) == pc[t] = step

GoTo(t, step) == pc' = [pc EXCEPT ![t] = step]

Alive(t) == pc[t] \notin {"none", "ended"}

(* The startup of the program.  What fails ends the program; what was made  *)
(* before stays for ShutdownWiFiThreads.                                   *)

CreateSocket ==
    /\ At(Main, "socket")
    /\ theBrodcastSocket' = TRUE
    /\ GoTo(Main, "startBroadcast") \/ GoTo(Main, "stopBroadcast")
    /\ UNCHANGED <<handle, event>>

\* CreateThread: from now on the thread runs, or it failed.
Create(t, created, failed) ==
    \/ pc' = [pc EXCEPT ![t] = "start", ![Main] = created]
    \/ GoTo(Main, failed)

StartWaiter(t, here, created) ==
    /\ At(Main, here)
    /\ \/ /\ event' = [event EXCEPT ![t] = "reset"]
          /\ Create(t, created, "stopBroadcast")
       \/ /\ GoTo(Main, "stopBroadcast")        \* CreateEvent failed
          /\ UNCHANGED event
    /\ UNCHANGED <<theBrodcastSocket, handle>>

StartBroadcast == StartWaiter("broadcast", "startBroadcast", "keepBroadcast")
StartRead == StartWaiter("read", "startRead", "keepRead")

\* The handle CreateThread returned is stored.
Keep(t, here, next) ==
    /\ At(Main, here)
    /\ handle' = [handle EXCEPT ![t] = TRUE]
    /\ GoTo(Main, next)
    /\ UNCHANGED <<theBrodcastSocket, event>>

\* Then it is read again.  A thread that has closed it meanwhile counts as one that
\* was not created, unless GetLastError, which CreateThread has not set, has no error.
Check(t, here, next, failed) ==
    /\ At(Main, here)
    /\ \/ GoTo(Main, next)
       \/ ~handle[t] /\ GoTo(Main, failed)
    /\ UNCHANGED <<theBrodcastSocket, handle, event>>

KeepBroadcast == Keep("broadcast", "keepBroadcast", "checkBroadcast")
CheckBroadcast == Check("broadcast", "checkBroadcast", "startRead", "stopBroadcast")

\* "read" never closes its handle.
KeepRead == Keep("read", "keepRead", "loop")

-----------------------------------------------------------------------------
(* Dialing: the other phone is asked to take a call, and dialed.           *)

Dial ==
    /\ At(Main, "loop")
    /\ GoTo(Main, "startSend")
    /\ UNCHANGED <<theBrodcastSocket, handle, event>>

MaySend == ~handle["send"]

\* E_STARTED when there is a handle, be its thread over or not.
StartSend ==
    /\ At(Main, "startSend")
    /\ IF MaySend THEN Create("send", "keepSend", "loop") ELSE GoTo(Main, "loop")
    /\ UNCHANGED <<theBrodcastSocket, handle, event>>

KeepSend == Keep("send", "keepSend", "checkSend")
CheckSend == Check("send", "checkSend", "dial", "loop")

\* DialRemote: for as long as it takes no messages are handled.
DialRemote ==
    /\ At(Main, "dial")
    /\ GoTo(Main, "loop")
    /\ UNCHANGED <<theBrodcastSocket, handle, event>>

-----------------------------------------------------------------------------
(* The end of the program: ShutdownWiFiThreads.                            *)

Exit ==
    /\ At(Main, "loop")
    /\ GoTo(Main, "stopBroadcast")
    /\ UNCHANGED <<theBrodcastSocket, handle, event>>

Stop(t, here, wait, next) ==
    /\ At(Main, here)
    /\ GoTo(Main, IF handle[t] THEN wait ELSE next)
    /\ event' = [w \in Waiters |-> IF w = t /\ handle[t] THEN "set" ELSE event[w]]
    /\ UNCHANGED <<theBrodcastSocket, handle>>

\* Mutant of TimesOut: the wait is INFINITE.
NeverTimesOut == FALSE

\* THREAD_TIMEOUT milliseconds pass, or the handle to wait for is gone.
TimesOut == TRUE

\* Mutant of Gone: the thread is left running when the wait times out.
LeftRunning(t) == pc[t]

\* TerminateThread stops a thread where it is; without a handle it does nothing.
Gone(t) == IF Alive(t) /\ handle[t] THEN "ended" ELSE pc[t]

Wait(t, here, next) ==
    /\ At(Main, here)
    /\ ~Alive(t) \/ TimesOut
    /\ pc' = [pc EXCEPT ![t] = Gone(t), ![Main] = next]
    /\ event' = [w \in Waiters |-> IF w = t THEN "null" ELSE event[w]]
    /\ handle' = [handle EXCEPT ![t] = FALSE]
    /\ UNCHANGED theBrodcastSocket

CloseSocket ==
    /\ At(Main, "close")
    /\ theBrodcastSocket' = FALSE
    /\ GoTo(Main, "over")
    /\ UNCHANGED <<handle, event>>

ShuttingDown ==
    \/ Stop("broadcast", "stopBroadcast", "waitBroadcast", "stopSend")
    \/ Wait("broadcast", "waitBroadcast", "stopSend")
    \/ Stop("send", "stopSend", "waitSend", "stopRead")
    \/ Wait("send", "waitSend", "stopRead")
    \/ Stop("read", "stopRead", "waitRead", "close")
    \/ Wait("read", "waitRead", "close")
    \/ CloseSocket

-----------------------------------------------------------------------------
(* The threads.                                                            *)

Step(t, from, to) ==
    /\ At(t, from)
    /\ GoTo(t, to)
    /\ UNCHANGED <<theBrodcastSocket, handle, event>>

\* Mutant of Last: the reading thread ends like the others.
LastForAll(t) == "cleanup"

\* How a thread ends: "read" leaves its handle to ShutdownWiFiThreads.
Last(t) == IF t \in Closers THEN "cleanup" ELSE "ended"

\* The message is assembled; before, "broadcast" asks the provider for a key.
Begin(t) == 
    \/ Step(t, "start", "use") 
    \/ t \in Closers /\ Step(t, "start", "cleanup")

\* sendto, of "broadcast" and "send"; select and recvfrom, of "read".  A packet 
\* that is not a message skips the look at the event.
UseSocket ==
    \/ Step("broadcast", "use", "wait")
    \/ \E t \in Threads : Step(t, "use", Last(t))
    \/ \E next \in {"use", "proc", "wait"} : Step("read", "use", next)

\* A message to a window returns when its thread handles messages, and at once
\* when there is no window.
SendMessageReturns == pc[Main] \notin Dialing

\* AnswerWifiHandshakeProc shows who is there, or answers a call.  That may fail
\* before any message is sent: a call is on.
Proc == 
    \/ SendMessageReturns /\ Step("read", "proc", "wait")
    \/ Step("read", "proc", "ended")

\* The event is set; it is not, for "broadcast" in 15 seconds; or the wait fails.
WaitForEvent(t) == 
    \/ Step(t, "wait", IF event[t] = "set" THEN Last(t) ELSE "use")
    \/ Step(t, "wait", Last(t))

CloseHandle(t) ==
    /\ At(t, "cleanup")
    /\ handle' = [handle EXCEPT ![t] = FALSE]
    /\ GoTo(t, "ended")
    /\ UNCHANGED <<theBrodcastSocket, event>>

-----------------------------------------------------------------------------

Next ==
    \/ CreateSocket \/ StartBroadcast \/ KeepBroadcast \/ CheckBroadcast 
    \/ StartRead \/ KeepRead
    \/ Dial \/ StartSend \/ KeepSend \/ CheckSend \/ DialRemote
    \/ Exit \/ ShuttingDown
    \/ \E t \in Threads : Begin(t)
    \/ UseSocket
    \/ Proc
    \/ \E t \in Waiters : WaitForEvent(t)
    \/ \E t \in Closers : CloseHandle(t)

Spec == Init /\ [][Next]_vars

\* Whoever shuts the threads down goes on when it can.
FairSpec == Spec /\ WF_vars(ShuttingDown)

-----------------------------------------------------------------------------

\* No thread is inside of an operation on the socket once it is closed, and none
\* waits for an event that is closed: although threads close their own handles
\* while they are waited for, and handles are stored after their threads have run.
ResourcesOutliveThreads ==
    \A t \in Threads :
        /\ At(t, "use") => theBrodcastSocket
        /\ At(t, "wait") => event[t] # "null"

\* The program ends, also when a thread waits for the window, listens to packets 
\* that are no messages, or has closed the handle it is waited for by.
ShutdownReturns == At(Main, "stopBroadcast") ~> At(Main, "over")

=============================================================================
