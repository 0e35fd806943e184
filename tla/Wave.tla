-------------------------------- MODULE Wave --------------------------------
(***************************************************************************)
(* The wave module: the thread that initializes and finalizes it, the      *)
(* input thread that hands recorded sound on, the output thread that plays *)
(* what is posted to it, the sound driver, and the spin lock waveLock that *)
(* guards waveBuffer, the memory of all slots.                             *)
(*                                                                         *)
(* LockWaveModule gives up when it finds the lock held SPINLOCK_TRIES + 1  *)
(* times; here it may give up whenever the lock is held.  A thread that    *)
(* gives up in GetWaveBuffer goes on without a buffer.  The lock is held   *)
(* by FinalizeWaveModule while it waits for the threads and, when they do  *)
(* not end in time, terminates them.                                       *)
(***************************************************************************)
EXTENDS Integers

CONSTANTS
    NSlots,         \* INPUT_BUFFER_SLOTS and OUTPUT_BUFFER_SLOTS
    MaxBlocks,      \* the blocks of the longest message (MAX_OUTPUT_WRITE_SIZE)
    MaxMessages     \* the messages waiting for the output thread

ASSUME WaveAssumption ==
    /\ NSlots \in Nat \ {0}
    /\ MaxBlocks \in Nat
    /\ MaxMessages \in Nat

Slots == 0 .. NSlots - 1
Threads == {"input", "output"}
Main == "main"
Nobody == "nobody"

VARIABLES
    waveLock,       \* who holds it
    waveBuffer,     \* waveBuffer # NULL
    device,         \* hWaveIn, hWaveOut # NULL (MM_WIM_OPEN and MM_WIM_CLOSE only
                    \* tell the threads what they were set to)
    shutdown,       \* hInputShutdown, hOutputShutdown: "null", "reset", "set"
    pc,
    slot,           \* the slot each thread works on
    nextOutputSlot,
    used,           \* the output slots whose first word is set
    playing,        \* the output slots the driver has
    played,         \* those it has sent MM_WOM_DONE for
    messages,       \* MM_WOM_WRITE messages waiting
    blocks          \* the blocks left of the one being played

memory == <<waveBuffer, used>>
sound == <<playing, played, messages>>
search == <<slot, nextOutputSlot, blocks>>
vars == <<waveLock, memory, device, shutdown, pc, search, sound>>

MainSteps == {"init", "create", "open", "running", "finalize", "close", 
              "waitOutput", "waitInput", "free", "finished", "gaveUp"}
ThreadSteps == {"none", "start", "started", "get", "got", "use", "fill",
                "loop", "cleanup", "cleanupGot", "ended"}

TypeOK ==
    /\ waveLock \in Threads \cup {Main, Nobody}
    /\ waveBuffer \in BOOLEAN
    /\ device \in [Threads -> BOOLEAN]
    /\ shutdown \in [Threads -> {"null", "reset", "set"}]
    /\ pc \in [Threads \cup {Main} -> MainSteps \cup ThreadSteps]
    /\ pc[Main] \in MainSteps
    /\ \A t \in Threads : pc[t] \in ThreadSteps
    /\ slot \in [Threads -> 0 .. NSlots]
    /\ nextOutputSlot \in -1 .. NSlots - 1
    /\ used \in SUBSET Slots
    /\ playing \in SUBSET Slots
    /\ played \in SUBSET Slots
    /\ messages \in 0 .. MaxMessages
    /\ blocks \in 0 .. MaxBlocks

Init ==
    /\ waveLock = Nobody
    /\ waveBuffer = FALSE
    /\ device = [t \in Threads |-> FALSE]
    /\ shutdown = [t \in Threads |-> "null"]
    /\ pc = [t \in Threads \cup {Main} |-> IF t = Main THEN "init" ELSE "none"]
    /\ slot = [t \in Threads |-> 0]
    /\ nextOutputSlot = -1
    /\ used = {}
    /\ playing = {}
    /\ played = {}
    /\ messages = 0
    /\ blocks = 0

-----------------------------------------------------------------------------

At(t, step) == pc[t] = step

GoTo(t, step) == pc' = [pc EXCEPT ![t] = step]

\* LockWaveModule returns S_OK, or it gives up.
Lock(t) == waveLock = Nobody /\ waveLock' = t
GivesUp(t) == waveLock # Nobody /\ UNCHANGED waveLock

Unlock(t) == waveLock' = Nobody

Alive(t) == pc[t] \notin {"none", "ended"}

-----------------------------------------------------------------------------
(* InitializeWaveModule and FinalizeWaveModule.                            *)

InitLock ==
    /\ At(Main, "init")
    /\ Lock(Main)
    /\ GoTo(Main, "create")
    /\ UNCHANGED <<memory, device, shutdown, search, sound>>

\* The buffer, the events and the threads; each may fail to be created, and 
\* what was made before it stays.
Create ==
    /\ At(Main, "create")
    /\ \/ /\ waveBuffer' = TRUE
          /\ shutdown' = [t \in Threads |-> "reset"]
          /\ \E created \in {{}, {"input"}, Threads} :
                pc' = [t \in Threads \cup {Main} |-> 
                         IF t = Main THEN "open" 
                         ELSE IF t \in created THEN "start" ELSE "none"]
       \/ /\ \/ waveBuffer' = FALSE
                /\ UNCHANGED shutdown
             \/ waveBuffer' = TRUE
                /\ \E e \in {{}, {"input"}} : 
                      shutdown' = [t \in Threads |-> IF t \in e THEN "reset" ELSE "null"]
          /\ GoTo(Main, "open")
    /\ UNCHANGED <<waveLock, device, used, search, sound>>

\* The devices, if the threads are there.  The lock is released.
Open ==
    /\ At(Main, "open")
    /\ device' \in IF At("output", "none") THEN {device}
                   ELSE {[t \in Threads |-> t \in o] : o \in {{}, {"input"}, Threads}}
    /\ Unlock(Main)
    /\ GoTo(Main, "running")
    /\ UNCHANGED <<memory, shutdown, search, sound>>

Finalize ==
    /\ At(Main, "running")
    /\ \/ Lock(Main) /\ GoTo(Main, "close")
       \/ GivesUp(Main) /\ GoTo(Main, "gaveUp")
    /\ UNCHANGED <<memory, device, shutdown, search, sound>>

\* Mutant of Close: the lock is released before the threads are waited for.
CloseAndUnlock ==
    /\ At(Main, "close")
    /\ device' = [t \in Threads |-> FALSE]
    /\ Unlock(Main)
    /\ GoTo(Main, "waitOutput")
    /\ UNCHANGED <<memory, shutdown, search, sound>>

\* waveOutClose and waveInClose, whatever they return.  What the driver still 
\* plays it goes on playing.
Close ==
    /\ At(Main, "close")
    /\ device' = [t \in Threads |-> FALSE]
    /\ GoTo(Main, "waitOutput")
    /\ UNCHANGED <<waveLock, memory, shutdown, search, sound>>

\* Mutant of Gone: the thread is not terminated when the wait times out.
LeftRunning(t) == pc[t]

\* Where TerminateThread leaves a thread that has not ended by itself.
Gone(t) == IF Alive(t) THEN "ended" ELSE pc[t]

\* Mutant of TimesOut: the wait is INFINITE.
NeverTimesOut == FALSE

\* THREAD_TIMEOUT milliseconds pass.
TimesOut == TRUE

\* Without the event the thread is not waited for; it does not exist then.
Wait(t, here, next) ==
    /\ At(Main, here)
    /\ \/ /\ shutdown[t] = "reset"
          /\ shutdown' = [shutdown EXCEPT ![t] = "set"]
          /\ UNCHANGED pc
       \/ /\ shutdown[t] = "set"
          /\ ~Alive(t) \/ TimesOut
          /\ shutdown' = [shutdown EXCEPT ![t] = "null"]
          /\ pc' = [pc EXCEPT ![t] = Gone(t), ![Main] = next]
       \/ /\ shutdown[t] = "null"
          /\ GoTo(Main, next)
          /\ UNCHANGED shutdown
    /\ UNCHANGED <<waveLock, memory, device, search, sound>>

WaitOutput == Wait("output", "waitOutput", "waitInput")
WaitInput == Wait("input", "waitInput", "free")

Free ==
    /\ At(Main, "free")
    /\ waveBuffer' = FALSE
    /\ used' = {}
    /\ Unlock(Main)
    /\ GoTo(Main, "finished")
    /\ UNCHANGED <<device, shutdown, search, sound>>

Finalizing == Close \/ WaitOutput \/ WaitInput \/ Free

-----------------------------------------------------------------------------
(* Both threads.                                                           *)

\* while (LockWaveModule() != S_OK) Sleep(100), and UnlockWaveModule.
Start(t) ==
    /\ At(t, "start")
    /\ Lock(t)
    /\ GoTo(t, "started")
    /\ UNCHANGED <<memory, device, shutdown, search, sound>>

Started(t) ==
    /\ At(t, "started")
    /\ Unlock(t)
    /\ GoTo(t, IF t = "input" THEN "get" ELSE "loop")
    /\ UNCHANGED <<memory, device, shutdown, search, sound>>

\* The shutdown event is set, or the wait fails; then the input thread ends 
\* where it is.
Leave(t) ==
    /\ At(t, "loop")
    /\ \/ shutdown[t] = "set" /\ GoTo(t, "cleanup")
       \/ GoTo(t, IF t = "input" THEN "ended" ELSE "cleanup")
    /\ slot' = [slot EXCEPT ![t] = 0]
    /\ UNCHANGED <<waveLock, memory, device, shutdown, nextOutputSlot, blocks, sound>>

\* The headers are unprepared, those of the slots GetWaveSlotBuffer finds.
Cleanup(t) ==
    /\ At(t, "cleanup")
    /\ IF slot[t] = NSlots
       THEN GoTo(t, "ended") /\ UNCHANGED <<waveLock, slot>>
       ELSE \/ Lock(t) /\ GoTo(t, "cleanupGot") /\ UNCHANGED slot
            \/ GivesUp(t) /\ UNCHANGED pc /\ slot' = [slot EXCEPT ![t] = @ + 1]
    /\ UNCHANGED <<memory, device, shutdown, nextOutputSlot, blocks, sound>>

CleanupGot(t) ==
    /\ At(t, "cleanupGot")
    /\ Unlock(t)
    /\ GoTo(t, "cleanup")
    /\ slot' = [slot EXCEPT ![t] = @ + 1]
    /\ UNCHANGED <<memory, device, shutdown, nextOutputSlot, blocks, sound>>

\* GetWaveBuffer has the lock and lets go of it.
Got(t) ==
    /\ At(t, "got")
    /\ Unlock(t)
    /\ GoTo(t, "use")
    /\ UNCHANGED <<memory, device, shutdown, search, sound>>

-----------------------------------------------------------------------------
(* The input thread: it prepares every slot, then handles MM_WIM_DATA,     *)
(* whose slot it prepares again.                                           *)

InputFails == GoTo("input", "cleanup") /\ slot' = [slot EXCEPT !["input"] = 0]

InputGet ==
    /\ At("input", "get")
    /\ \/ Lock("input") /\ GoTo("input", "got") /\ UNCHANGED slot
       \/ GivesUp("input") /\ InputFails
    /\ UNCHANGED <<memory, device, shutdown, nextOutputSlot, blocks, sound>>

InputUse ==
    /\ At("input", "use")
    /\ \/ /\ device["input"]
          /\ slot' = [slot EXCEPT !["input"] = @ + 1]
          /\ GoTo("input", IF slot'["input"] < NSlots THEN "get" ELSE "loop")
       \/ InputFails
    /\ UNCHANGED <<waveLock, memory, device, shutdown, nextOutputSlot, blocks, sound>>

\* MM_WIM_DATA, when the header cannot be prepared again.
InputData ==
    /\ At("input", "loop")
    /\ InputFails
    /\ UNCHANGED <<waveLock, memory, device, shutdown, nextOutputSlot, blocks, sound>>

Input == InputGet \/ InputUse \/ InputData

-----------------------------------------------------------------------------
(* The output thread and the driver.                                       *)

PostToWaveOut ==
    /\ Alive("output")
    /\ messages < MaxMessages
    /\ messages' = messages + 1
    /\ UNCHANGED <<waveLock, memory, device, shutdown, pc, search, playing, played>>

\* MM_WOM_WRITE: the search for a slot begins.
OutputWrite ==
    /\ At("output", "loop")
    /\ messages > 0
    /\ messages' = messages - 1
    /\ blocks' \in 1 .. MaxBlocks
    /\ GoTo("output", "get")
    /\ UNCHANGED <<waveLock, memory, device, shutdown, slot, nextOutputSlot, playing, 
                   played>>

\* Mutant of PastLast: off by one.
PastLastButOne(i) == i > NSlots

PastLast(i) == i >= NSlots

\* GetNextWaveSlotBuffer: the next slot, or, past the last one, none: the rest
\* of the message is dropped.
OutputGet ==
    /\ At("output", "get")
    /\ LET next == nextOutputSlot + 1 IN
        \/ /\ PastLast(next)
           /\ nextOutputSlot' = 0
           /\ blocks' = 0
           /\ GoTo("output", "loop")
           /\ UNCHANGED <<waveLock, slot>>
        \/ /\ ~PastLast(next)
           /\ nextOutputSlot' = next
           /\ slot' = [slot EXCEPT !["output"] = next]
           /\ \/ Lock("output") /\ GoTo("output", "got")
              \/ GivesUp("output") /\ UNCHANGED pc
           /\ UNCHANGED blocks
    /\ UNCHANGED <<memory, device, shutdown, sound>>

\* Mutant of SlotIsFree: the flag of a slot is not looked at.
AnySlot(i) == TRUE

SlotIsFree(i) == i \notin used

\* The slot is taken if it is free.
OutputUse ==
    /\ At("output", "use")
    /\ \/ /\ ~SlotIsFree(slot["output"])
          /\ GoTo("output", "get")
          /\ UNCHANGED used
       \/ /\ SlotIsFree(slot["output"])
          /\ used' = used \cup {slot["output"]}
          /\ GoTo("output", "fill")
    /\ UNCHANGED <<waveLock, waveBuffer, device, shutdown, search, sound>>

\* A block is copied into it, and it is given to the driver.
OutputFill ==
    /\ At("output", "fill")
    /\ \/ /\ device["output"]
          /\ playing' = playing \cup {slot["output"]}
          /\ blocks' = blocks - 1
          /\ GoTo("output", IF blocks' > 0 THEN "get" ELSE "loop")
          /\ UNCHANGED slot
       \/ /\ GoTo("output", "cleanup")
          /\ slot' = [slot EXCEPT !["output"] = 0]
          /\ blocks' = 0
          /\ UNCHANGED playing
    /\ UNCHANGED <<waveLock, memory, device, shutdown, nextOutputSlot, played, messages>>

\* The driver is done with a slot and posts MM_WOM_DONE.
DriverDone ==
    /\ \E s \in playing : 
        /\ playing' = playing \ {s}
        /\ played' = played \cup {s}
    /\ UNCHANGED <<waveLock, memory, device, shutdown, pc, search, messages>>

\* MM_WOM_DONE: the slot is marked available, if the header is unprepared.
OutputDone ==
    /\ At("output", "loop")
    /\ \E s \in played :
        /\ played' = played \ {s}
        /\ \/ /\ used' = used \ {s}
              /\ UNCHANGED <<pc, slot>>
           \/ /\ GoTo("output", "cleanup")
              /\ slot' = [slot EXCEPT !["output"] = 0]
              /\ UNCHANGED used
    /\ UNCHANGED <<waveLock, waveBuffer, device, shutdown, nextOutputSlot, blocks, 
                   playing, messages>>

Output == OutputWrite \/ OutputGet \/ OutputUse \/ OutputFill \/ OutputDone

Thread(t) == 
    \/ Start(t) 
    \/ Started(t) 
    \/ Leave(t) 
    \/ Got(t) 
    \/ Cleanup(t) 
    \/ CleanupGot(t)

-----------------------------------------------------------------------------

Next ==
    \/ InitLock \/ Create \/ Open \/ Finalize \/ Finalizing
    \/ \E t \in Threads : Thread(t)
    \/ Input
    \/ Output
    \/ PostToWaveOut
    \/ DriverDone

Spec == Init /\ [][Next]_vars

\* Whoever finalizes the module goes on when it can.
FairSpec == Spec /\ WF_vars(Finalizing)

-----------------------------------------------------------------------------

\* The lock is held by who works under it, and by nobody else: two threads do
\* not work under it at once, and none that has ended, or was terminated, has
\* left it locked.
WorksLocked(t) ==
    pc[t] \in IF t = Main THEN {"create", "open", "close", "waitOutput", "waitInput", "free"}
              ELSE {"started", "got", "cleanupGot"}

LockHeldByItsUser == \A t \in Threads \cup {Main} : waveLock = t <=> WorksLocked(t)

\* The memory of the slots is not freed while a thread uses a slot, though it
\* uses it after it has released the lock.
BufferOutlivesThreads ==
    \A t \in Threads : pc[t] \in {"got", "use", "fill", "cleanupGot"} => waveBuffer

\* The output thread never fills a slot that the driver still plays, or whose
\* header it has not unprepared yet.
SlotsNotOverwritten == At("output", "fill") => slot["output"] \notin playing \cup played

\* FinalizeWaveModule returns once it has the lock, although it keeps the lock 
\* from the very threads it waits for.
FinalizeReturns == At(Main, "close") ~> At(Main, "finished")

=============================================================================
