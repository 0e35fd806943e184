-------------------------- MODULE HandshakeProofs --------------------------
(***************************************************************************)
(* The threads of the handshake never outlive what they use: the socket    *)
(* that all of them share, and the events that end two of them.            *)
(*                                                                         *)
(* That a thread which lives has its handle stored, or about to be stored, *)
(* is what the shutdown rests on: it passes over a thread without a handle.*)
(* A handle may remain after its thread is over (HandleInv is no           *)
(* equivalence): "send" can be over before its handle is stored.           *)
(***************************************************************************)
EXTENDS Handshake, TLAPS

\* Where "main" is while it has the handle of a thread but has not stored it.
KeepOf == [broadcast |-> "keepBroadcast", send |-> "keepSend", read |-> "keepRead"]

\* Where "main" is before a thread is created, or after it was waited for.
Without == 
    [broadcast |-> {"socket", "startBroadcast"} \cup (Shutdown \ {"stopBroadcast", "waitBroadcast"}) \cup {"over"},
     send      |-> Startup \cup {"stopRead", "waitRead", "close", "over"},
     read      |-> {"socket", "startBroadcast", "keepBroadcast", "checkBroadcast", "startRead", 
                   "close", "over"}]

\* A thread that lives can be waited for, and its event exists.
HandleInv ==
    /\ \A t \in Threads : Alive(t) => handle[t] \/ At(Main, KeepOf[t])
    /\ \A t \in Waiters : Alive(t) => event[t] # "null"

\* When the socket is there, and when a thread is not.
LifeInv ==
    /\ theBrodcastSocket <=> pc[Main] \notin {"socket", "over"}
    /\ \A t \in Threads : pc[Main] \in Without[t] => ~Alive(t)

Inv == TypeOK /\ HandleInv /\ LifeInv

-----------------------------------------------------------------------------

USE DEF Threads, Main, Waiters, Closers, At, GoTo, Alive, KeepOf, Without, 
        Startup, Dialing, Shutdown

\* No thread, no handle, no event and no socket: the program begins.
LEMMA InitInv == Init => Inv
<1> SUFFICES ASSUME Init PROVE Inv
  OBVIOUS
<1>1. /\ pc[Main] = "socket"
      /\ \A t \in Threads : pc[t] = "none"
  BY DEF Init
<1>2. TypeOK
  BY <1>1 DEF Init, TypeOK
<1> QED
  BY <1>1, <1>2 DEF Init, Inv, HandleInv, LifeInv

\* Steps of the startup that create no thread.
LEMMA StartupInv ==
    ASSUME Inv, CreateSocket \/ KeepBroadcast \/ CheckBroadcast \/ KeepRead
    PROVE  Inv'
<1>1. CASE CreateSocket
  BY <1>1 DEF Inv, TypeOK, HandleInv, LifeInv, CreateSocket
<1>2. CASE KeepBroadcast
  BY <1>2 DEF Inv, TypeOK, HandleInv, LifeInv, KeepBroadcast, Keep
<1>3. CASE KeepRead
  BY <1>3 DEF Inv, TypeOK, HandleInv, LifeInv, KeepRead, Keep
<1>4. CASE CheckBroadcast
  BY <1>4 DEF Inv, TypeOK, HandleInv, LifeInv, CheckBroadcast, Check
<1> QED
  BY <1>1, <1>2, <1>3, <1>4

\* A thread with an event is created where none was: then "main" has its handle.
LEMMA StartWaiterInv ==
    ASSUME Inv, StartBroadcast \/ StartRead
    PROVE  Inv'
<1>1. CASE StartBroadcast
  BY <1>1 DEF Inv, TypeOK, HandleInv, LifeInv, StartBroadcast, StartWaiter, Create
<1>2. CASE StartRead
  BY <1>2 DEF Inv, TypeOK, HandleInv, LifeInv, StartRead, StartWaiter, Create
<1> QED
  BY <1>1, <1>2

\* A second "send" is not created while one lives, for that one has a handle.
LEMMA DialingInv ==
    ASSUME Inv, Dial \/ StartSend \/ KeepSend \/ CheckSend \/ DialRemote \/ Exit
    PROVE  Inv'
<1>1. CASE Dial \/ DialRemote \/ Exit
  BY <1>1 DEF Inv, TypeOK, HandleInv, LifeInv, Dial, DialRemote, Exit
<1>2. CASE StartSend
  BY <1>2 DEF Inv, TypeOK, HandleInv, LifeInv, StartSend, Create, MaySend
<1>3. CASE KeepSend
  BY <1>3 DEF Inv, TypeOK, HandleInv, LifeInv, KeepSend, Keep
<1>4. CASE CheckSend
  BY <1>4 DEF Inv, TypeOK, HandleInv, LifeInv, CheckSend, Check
<1> QED
  BY <1>1, <1>2, <1>3, <1>4

\* A thread is passed over only when it has no handle, and then it does not live;
\* one that was waited for is over or terminated by its handle.
LEMMA ShutdownInv ==
    ASSUME Inv, ShuttingDown
    PROVE  Inv'
<1>1. CASE Stop("broadcast", "stopBroadcast", "waitBroadcast", "stopSend")
  BY <1>1 DEF Inv, TypeOK, HandleInv, LifeInv, Stop
<1>2. CASE Wait("broadcast", "waitBroadcast", "stopSend")
  BY <1>2 DEF Inv, TypeOK, HandleInv, LifeInv, Wait, Gone
<1>3. CASE Stop("send", "stopSend", "waitSend", "stopRead")
  BY <1>3 DEF Inv, TypeOK, HandleInv, LifeInv, Stop
<1>4. CASE Wait("send", "waitSend", "stopRead")
  BY <1>4 DEF Inv, TypeOK, HandleInv, LifeInv, Wait, Gone
<1>5. CASE Stop("read", "stopRead", "waitRead", "close")
  BY <1>5 DEF Inv, TypeOK, HandleInv, LifeInv, Stop
<1>6. CASE Wait("read", "waitRead", "close")
  BY <1>6 DEF Inv, TypeOK, HandleInv, LifeInv, Wait, Gone
<1>7. CASE CloseSocket
  BY <1>7 DEF Inv, TypeOK, HandleInv, LifeInv, CloseSocket
<1> QED
  BY <1>1, <1>2, <1>3, <1>4, <1>5, <1>6, <1>7 DEF ShuttingDown

\* A step of a thread which lives, to where a thread may be.
LEMMA StepInv ==
    ASSUME Inv, NEW t \in Threads, 
           NEW from \in {"start", "use", "proc", "wait"},
           NEW to \in {"use", "proc", "wait", "cleanup", "ended"},
           t = "read" => to # "cleanup",
           to = "proc" => t = "read", 
           to = "wait" => t # "send",
           Step(t, from, to)
    PROVE  Inv'
<1>1. TypeOK'
  BY DEF Inv, TypeOK, Step
<1>2. /\ pc'[Main] = pc[Main]
      /\ \A u \in Threads : Alive(u)' => Alive(u)
  BY DEF Inv, TypeOK, Step
<1> QED
  BY <1>1, <1>2 DEF Inv, TypeOK, HandleInv, LifeInv, Step

\* What the threads do with the socket and the window, and until they end.
LEMMA ThreadStepInv ==
    ASSUME Inv, 
           \/ \E t \in Threads : Begin(t) 
           \/ UseSocket
           \/ Proc
           \/ \E t \in Waiters : WaitForEvent(t)
    PROVE  Inv'
<1>1. ASSUME NEW t \in Threads, Begin(t) PROVE Inv'
  BY <1>1, StepInv DEF Begin
<1>2. CASE UseSocket
  BY <1>2, StepInv DEF UseSocket, Last
<1>3. CASE Proc
  BY <1>3, StepInv DEF Proc
<1>4. ASSUME NEW t \in Waiters, WaitForEvent(t) PROVE Inv'
  BY <1>4, StepInv DEF WaitForEvent, Last
<1> QED
  BY <1>1, <1>2, <1>3, <1>4

\* A thread closes its handle in its last step.
LEMMA CloseHandleInv ==
    ASSUME Inv, NEW t \in Closers, CloseHandle(t)
    PROVE  Inv'
BY DEF Inv, TypeOK, HandleInv, LifeInv, CloseHandle

\* The invariant is inductive.
LEMMA NextInv == Inv /\ [Next]_vars => Inv'
<1> SUFFICES ASSUME Inv, [Next]_vars PROVE Inv'
  OBVIOUS
<1>1. CASE UNCHANGED vars
  BY <1>1 DEF vars, Inv, TypeOK, HandleInv, LifeInv
<1>2. CASE Next
  BY <1>2, StartupInv, StartWaiterInv, DialingInv, ShutdownInv, ThreadStepInv, CloseHandleInv DEF Next
<1> QED
  BY <1>1, <1>2

\* The invariant holds in every state of the program.
LEMMA InvHolds == Spec => []Inv
BY InitInv, NextInv, PTL DEF Spec

\* The socket, the handles, the events and the threads' steps are what they
\* should be, in every state: no thread waits for an event that it does not have
\* the code for, and "read" does not close its handle.
THEOREM TypeCorrect == Spec => []TypeOK
<1>1. Inv => TypeOK
  BY DEF Inv
<1> QED
  BY InvHolds, <1>1, PTL

\* No thread is inside of sendto, select or recvfrom on a socket that is closed,
\* and none waits for an event that is closed, although "broadcast" and "send"
\* close their own handles and ShutdownWiFiThreads passes over whom it has no
\* handle of.
THEOREM ResourcesCorrect == Spec => []ResourcesOutliveThreads
<1>1. Inv => ResourcesOutliveThreads
  <2> SUFFICES ASSUME Inv, NEW t \in Threads
               PROVE  /\ At(t, "use") => theBrodcastSocket
                      /\ At(t, "wait") => event[t] # "null"
    BY DEF ResourcesOutliveThreads
  <2>1. At(t, "use") => theBrodcastSocket
    BY DEF Inv, TypeOK, LifeInv
  <2>2. At(t, "wait") => event[t] # "null"
    BY DEF Inv, TypeOK, HandleInv
  <2> QED
    BY <2>1, <2>2
<1> QED
  BY InvHolds, <1>1, PTL

=============================================================================
