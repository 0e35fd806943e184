----------------------------- MODULE WaveProofs -----------------------------
(***************************************************************************)
(* The wave module is safe for any number of slots, blocks and messages:   *)
(* the lock is held by who works under it, no thread uses the memory of    *)
(* the slots after it was freed, and no slot is filled while it plays.     *)
(*                                                                         *)
(* The inductive invariant adds what these rest on: threads exist only     *)
(* between the creation of the memory and the wait for them (ThreadsInv),  *)
(* which slot a thread may be at (SlotInv), and that the slots the driver  *)
(* has are marked as used, each once (SoundInv).                           *)
(***************************************************************************)
EXTENDS Wave, TLAPS

\* A thread that lives has its memory and its event.  None lives before the
\* module creates them, or after it has waited for them.
ThreadsInv ==
    /\ \A t \in Threads : Alive(t) => waveBuffer /\ shutdown[t] # "null"
    /\ pc[Main] \in {"init", "create"} => \A t \in Threads : pc[t] = "none"
    /\ pc[Main] \in {"waitInput", "free", "finished"} => ~Alive("output")
    /\ pc[Main] \in {"free", "finished"} => ~Alive("input")

\* Where a thread is when it is at a slot, and that a message is not done yet.
SlotInv ==
    /\ \A t \in Threads :
        /\ pc[t] \in {"none", "start", "started"} => slot[t] = 0
        /\ pc[t] = "cleanupGot" => slot[t] < NSlots
    /\ pc["input"] \in {"get", "got", "use"} => slot["input"] < NSlots
    /\ pc["output"] \in {"got", "use", "fill"} => slot["output"] < NSlots
    /\ pc["output"] \in {"get", "got", "use", "fill"} => blocks > 0

\* The slots the driver has are marked, and those it is done with are others.
SoundInv ==
    /\ pc[Main] \in {"init", "create"} => playing = {} /\ played = {}
    /\ Alive("output") => playing \cup played \subseteq used
    /\ playing \cap played = {}
    /\ At("output", "fill") => slot["output"] \in used \ (playing \cup played)

Inv ==
    /\ TypeOK
    /\ LockHeldByItsUser
    /\ ThreadsInv
    /\ SlotInv
    /\ SoundInv

-----------------------------------------------------------------------------

USE DEF Threads, Main, Nobody, At, GoTo, Alive

\* Where the threads are: nowhere, before the module is initialized.
LEMMA InitInv == Init => Inv
<1>1. Init => TypeOK
  <2> SUFFICES ASSUME Init PROVE TypeOK
    OBVIOUS
  <2>1. /\ pc \in [{"input", "output"} \cup {"main"} -> {"init", "none"}]
        /\ pc["main"] = "init" /\ pc["input"] = "none" /\ pc["output"] = "none"
    BY DEF Init
  <2>2. pc \in [Threads \cup {Main} -> MainSteps \cup ThreadSteps]
    BY <2>1 DEF MainSteps, ThreadSteps
  <2>3. slot \in [Threads -> 0 .. NSlots] /\ nextOutputSlot \in -1 .. NSlots - 1
    BY WaveAssumption DEF Init
  <2>4. messages \in 0 .. MaxMessages /\ blocks \in 0 .. MaxBlocks
    BY WaveAssumption DEF Init
  <2> QED
    BY <2>1, <2>2, <2>3, <2>4 DEF Init, TypeOK, MainSteps, ThreadSteps
<1>2. Init => LockHeldByItsUser
  BY DEF Init, LockHeldByItsUser, WorksLocked
<1>3. Init => ThreadsInv /\ SlotInv /\ SoundInv
  BY DEF Init, ThreadsInv, SlotInv, SoundInv
<1> QED
  BY <1>1, <1>2, <1>3 DEF Inv

\* When the threads are created no thread is there, the slots are not used.
LEMMA CreateInv ==
    ASSUME Inv, Create
    PROVE  Inv'
<1>1. TypeOK'
  BY WaveAssumption DEF Inv, TypeOK, SlotInv, ThreadsInv, SoundInv, MainSteps, ThreadSteps, Slots, Create, search, sound
<1>2. LockHeldByItsUser'
  BY DEF Inv, TypeOK, LockHeldByItsUser, WorksLocked, ThreadsInv, Create, search, sound
<1>3. ThreadsInv'
  BY DEF Inv, TypeOK, ThreadsInv, Create, search, sound
<1>4. SlotInv'
  BY WaveAssumption DEF Inv, TypeOK, SlotInv, ThreadsInv, Slots, Create, search, sound
<1>5. SoundInv'
  BY DEF Inv, TypeOK, SoundInv, ThreadsInv, Create, search, sound
<1> QED
  BY <1>1, <1>2, <1>3, <1>4, <1>5 DEF Inv

\* Opening the devices.
LEMMA OpenInv ==
    ASSUME Inv, Open
    PROVE  Inv'
<1>1. TypeOK'
  <2>1. device' \in [Threads -> BOOLEAN]
    <3>1. CASE At("output", "none")
      BY <3>1 DEF Inv, TypeOK, Open
    <3>2. CASE ~At("output", "none")
      <4>1. device' \in {[t \in Threads |-> t \in o] : o \in {{}, {"input"}, Threads}}
        BY <3>2 DEF Open
      <4>2. PICK o \in {{}, {"input"}, Threads} : device' = [t \in Threads |-> t \in o]
        BY <4>1
      <4>3. \A t \in Threads : (t \in o) \in BOOLEAN
        OBVIOUS
      <4> QED
        BY <4>2, <4>3, Zenon
    <3> QED
      BY <3>1, <3>2
  <2> QED
    BY <2>1 DEF Inv, TypeOK, MainSteps, ThreadSteps, Open, Unlock, memory, search, sound
<1>2. LockHeldByItsUser'
  BY DEF Inv, TypeOK, LockHeldByItsUser, WorksLocked, ThreadsInv, Open, Unlock, memory, search, sound
<1>3. ThreadsInv'
  BY DEF Inv, TypeOK, ThreadsInv, Open, Unlock, memory, search, sound
<1>4. SlotInv'
  BY WaveAssumption DEF Inv, TypeOK, SlotInv, ThreadsInv, Slots, Open, Unlock, memory, search, sound
<1>5. SoundInv'
  BY DEF Inv, TypeOK, SoundInv, ThreadsInv, Open, Unlock, memory, search, sound
<1> QED
  BY <1>1, <1>2, <1>3, <1>4, <1>5 DEF Inv

\* Freeing the memory: both threads were waited for.
LEMMA FreeInv ==
    ASSUME Inv, Free
    PROVE  Inv'
<1>1. TypeOK'
  BY WaveAssumption DEF Inv, TypeOK, SlotInv, ThreadsInv, SoundInv, MainSteps, ThreadSteps, Slots, Free, Unlock, search, sound
<1>2. LockHeldByItsUser'
  BY DEF Inv, TypeOK, LockHeldByItsUser, WorksLocked, ThreadsInv, Free, Unlock, search, sound
<1>3. ThreadsInv'
  BY DEF Inv, TypeOK, ThreadsInv, Free, Unlock, search, sound
<1>4. SlotInv'
  BY WaveAssumption DEF Inv, TypeOK, SlotInv, ThreadsInv, Slots, Free, Unlock, search, sound
<1>5. SoundInv'
  BY DEF Inv, TypeOK, SoundInv, ThreadsInv, Free, Unlock, search, sound
<1> QED
  BY <1>1, <1>2, <1>3, <1>4, <1>5 DEF Inv

\* The lock is taken before anything exists.
LEMMA InitLockInv ==
    ASSUME Inv, InitLock
    PROVE  Inv'
BY WaveAssumption DEF Inv, TypeOK, LockHeldByItsUser, WorksLocked, ThreadsInv, SlotInv, SoundInv,
        MainSteps, ThreadSteps, Slots, InitLock, Lock, memory, search, sound

\* Taking the lock, or giving up, before the end.
LEMMA FinalizeInv ==
    ASSUME Inv, Finalize
    PROVE  Inv'
BY WaveAssumption DEF Inv, TypeOK, LockHeldByItsUser, WorksLocked, ThreadsInv, SlotInv, SoundInv,
        MainSteps, ThreadSteps, Slots, Finalize, Lock, GivesUp, memory, search, sound

\* Closing the devices changes no slot.
LEMMA CloseInv ==
    ASSUME Inv, Close
    PROVE  Inv'
BY WaveAssumption DEF Inv, TypeOK, LockHeldByItsUser, WorksLocked, ThreadsInv, SlotInv, SoundInv,
        MainSteps, ThreadSteps, Slots, Close, memory, search, sound

\* The output thread ended or was terminated: the lock is not with it.
LEMMA WaitOutputInv ==
    ASSUME Inv, WaitOutput
    PROVE  Inv'
BY WaveAssumption DEF Inv, TypeOK, LockHeldByItsUser, WorksLocked, ThreadsInv, SlotInv, SoundInv,
        MainSteps, ThreadSteps, Slots, WaitOutput, Wait, Gone, memory, search, sound

\* Neither thread is left.
LEMMA WaitInputInv ==
    ASSUME Inv, WaitInput
    PROVE  Inv'
BY WaveAssumption DEF Inv, TypeOK, LockHeldByItsUser, WorksLocked, ThreadsInv, SlotInv, SoundInv,
        MainSteps, ThreadSteps, Slots, WaitInput, Wait, Gone, memory, search, sound

\* A thread starts with the lock.
LEMMA StartInv ==
    ASSUME NEW t \in Threads, Inv, Start(t)
    PROVE  Inv'
BY WaveAssumption DEF Inv, TypeOK, LockHeldByItsUser, WorksLocked, ThreadsInv, SlotInv, SoundInv,
        MainSteps, ThreadSteps, Slots, Start, Lock, memory, search, sound

\* A thread lets go of it and goes to its first step.
LEMMA StartedInv ==
    ASSUME NEW t \in Threads, Inv, Started(t)
    PROVE  Inv'
BY WaveAssumption DEF Inv, TypeOK, LockHeldByItsUser, WorksLocked, ThreadsInv, SlotInv, SoundInv,
        MainSteps, ThreadSteps, Slots, Started, Unlock, memory, search, sound

\* A thread leaves its loop.
LEMMA LeaveInv ==
    ASSUME NEW t \in Threads, Inv, Leave(t)
    PROVE  Inv'
BY WaveAssumption DEF Inv, TypeOK, LockHeldByItsUser, WorksLocked, ThreadsInv, SlotInv, SoundInv,
        MainSteps, ThreadSteps, Slots, Leave, memory, sound

\* The cleanup takes one slot after the other.
LEMMA CleanupInv ==
    ASSUME NEW t \in Threads, Inv, Cleanup(t)
    PROVE  Inv'
BY WaveAssumption DEF Inv, TypeOK, LockHeldByItsUser, WorksLocked, ThreadsInv, SlotInv, SoundInv,
        MainSteps, ThreadSteps, Slots, Cleanup, Lock, GivesUp, memory, sound

\* The next slot of the cleanup.
LEMMA CleanupGotInv ==
    ASSUME NEW t \in Threads, Inv, CleanupGot(t)
    PROVE  Inv'
BY WaveAssumption DEF Inv, TypeOK, LockHeldByItsUser, WorksLocked, ThreadsInv, SlotInv, SoundInv,
        MainSteps, ThreadSteps, Slots, CleanupGot, Unlock, memory, sound

\* A thread goes on to use its slot without the lock.
LEMMA GotInv ==
    ASSUME NEW t \in Threads, Inv, Got(t)
    PROVE  Inv'
BY WaveAssumption DEF Inv, TypeOK, LockHeldByItsUser, WorksLocked, ThreadsInv, SlotInv, SoundInv,
        MainSteps, ThreadSteps, Slots, Got, Unlock, memory, search, sound

\* The input thread asks for a slot.
LEMMA InputGetInv ==
    ASSUME Inv, InputGet
    PROVE  Inv'
BY WaveAssumption DEF Inv, TypeOK, LockHeldByItsUser, WorksLocked, ThreadsInv, SlotInv, SoundInv,
        MainSteps, ThreadSteps, Slots, InputGet, InputFails, Lock, GivesUp, memory, sound

\* The input thread prepares a slot.
LEMMA InputUseInv ==
    ASSUME Inv, InputUse
    PROVE  Inv'
BY WaveAssumption DEF Inv, TypeOK, LockHeldByItsUser, WorksLocked, ThreadsInv, SlotInv, SoundInv,
        MainSteps, ThreadSteps, Slots, InputUse, InputFails, memory, sound

\* The input thread fails on recorded sound.
LEMMA InputDataInv ==
    ASSUME Inv, InputData
    PROVE  Inv'
BY WaveAssumption DEF Inv, TypeOK, LockHeldByItsUser, WorksLocked, ThreadsInv, SlotInv, SoundInv,
        MainSteps, ThreadSteps, Slots, InputData, InputFails, memory, sound

\* A message for the output thread.
LEMMA PostInv ==
    ASSUME Inv, PostToWaveOut
    PROVE  Inv'
BY WaveAssumption DEF Inv, TypeOK, LockHeldByItsUser, WorksLocked, ThreadsInv, SlotInv, SoundInv,
        MainSteps, ThreadSteps, Slots, PostToWaveOut, memory, search

\* A message of the output thread.
LEMMA OutputWriteInv ==
    ASSUME Inv, OutputWrite
    PROVE  Inv'
BY WaveAssumption DEF Inv, TypeOK, LockHeldByItsUser, WorksLocked, ThreadsInv, SlotInv, SoundInv,
        MainSteps, ThreadSteps, Slots, OutputWrite, memory

\* The search for a slot.
LEMMA OutputGetInv ==
    ASSUME Inv, OutputGet
    PROVE  Inv'
BY WaveAssumption DEF Inv, TypeOK, LockHeldByItsUser, WorksLocked, ThreadsInv, SlotInv, SoundInv,
        MainSteps, ThreadSteps, Slots, OutputGet, PastLast, Lock, GivesUp, memory, sound

\* A free slot is taken: nobody plays it.
LEMMA OutputUseInv ==
    ASSUME Inv, OutputUse
    PROVE  Inv'
<1>1. TypeOK'
  <2>1. slot["output"] \in Slots
    BY WaveAssumption DEF Inv, TypeOK, SlotInv, Slots, OutputUse
  <2>2. used' \in SUBSET Slots
    BY <2>1 DEF Inv, TypeOK, OutputUse
  <2> QED
    BY <2>2 DEF Inv, TypeOK, MainSteps, ThreadSteps, OutputUse, search, sound
<1>2. LockHeldByItsUser'
  BY DEF Inv, TypeOK, LockHeldByItsUser, WorksLocked, OutputUse, SlotIsFree, search, sound
<1>3. ThreadsInv'
  BY DEF Inv, TypeOK, ThreadsInv, OutputUse, SlotIsFree, search, sound
<1>4. SlotInv'
  BY WaveAssumption DEF Inv, TypeOK, SlotInv, Slots, OutputUse, SlotIsFree, search, sound
<1>5. SoundInv'
  BY DEF Inv, TypeOK, SoundInv, ThreadsInv, Slots, OutputUse, SlotIsFree, search, sound
<1> QED
  BY <1>1, <1>2, <1>3, <1>4, <1>5 DEF Inv

\* The filled slot goes to the driver.
LEMMA OutputFillInv ==
    ASSUME Inv, OutputFill
    PROVE  Inv'
<1>1. TypeOK'
  <2>1. slot["output"] \in Slots
    BY WaveAssumption DEF Inv, TypeOK, SlotInv, Slots, OutputFill
  <2>2. playing' \in SUBSET Slots
    BY <2>1 DEF Inv, TypeOK, OutputFill
  <2>3. blocks' \in 0 .. MaxBlocks
    BY WaveAssumption DEF Inv, TypeOK, SlotInv, OutputFill
  <2>4. slot' \in [Threads -> 0 .. NSlots]
    BY WaveAssumption DEF Inv, TypeOK, OutputFill
  <2> QED
    BY <2>2, <2>3, <2>4 DEF Inv, TypeOK, MainSteps, ThreadSteps, OutputFill, memory
<1>2. LockHeldByItsUser'
  BY DEF Inv, TypeOK, LockHeldByItsUser, WorksLocked, OutputFill, memory
<1>3. ThreadsInv'
  BY DEF Inv, TypeOK, ThreadsInv, OutputFill, memory
<1>4. SlotInv'
  <2>1. pc'["input"] = pc["input"] /\ slot'["input"] = slot["input"]
    BY DEF Inv, TypeOK, OutputFill
  <2>2. pc'["output"] \in {"get", "loop", "cleanup"}
    BY DEF Inv, TypeOK, OutputFill
  <2>3. pc'["output"] = "get" => blocks' > 0
    BY DEF Inv, TypeOK, OutputFill
  <2> QED
    BY <2>1, <2>2, <2>3 DEF Inv, SlotInv
<1>5. SoundInv'
  <2>1. pc'["output"] \in {"get", "loop", "cleanup"} /\ pc'[Main] = pc[Main]
    BY DEF Inv, TypeOK, OutputFill
  <2>2. /\ pc[Main] \notin {"init", "create"}
        /\ slot["output"] \in used \ (playing \cup played)
        /\ playing \cup played \subseteq used
        /\ playing \cap played = {}
    BY DEF Inv, SoundInv, ThreadsInv, OutputFill
  <2>3. playing' = playing \/ playing' = playing \cup {slot["output"]}
    BY DEF OutputFill
  <2>4. played' = played /\ used' = used
    BY DEF OutputFill, memory
  <2> QED
    BY <2>1, <2>2, <2>3, <2>4 DEF SoundInv
<1> QED
  BY <1>1, <1>2, <1>3, <1>4, <1>5 DEF Inv

\* The driver is done with a slot.
LEMMA DriverDoneInv ==
    ASSUME Inv, DriverDone
    PROVE  Inv'
BY WaveAssumption DEF Inv, TypeOK, LockHeldByItsUser, WorksLocked, ThreadsInv, SlotInv, SoundInv,
        MainSteps, ThreadSteps, Slots, DriverDone, memory, search

\* A slot that was played becomes free.
LEMMA OutputDoneInv ==
    ASSUME Inv, OutputDone
    PROVE  Inv'
<1>1. TypeOK'
  <2>1. PICK s \in played :
           /\ played' = played \ {s}
           /\ \/ /\ used' = used \ {s}
                 /\ UNCHANGED <<pc, slot>>
              \/ /\ GoTo("output", "cleanup")
                 /\ slot' = [slot EXCEPT !["output"] = 0]
                 /\ UNCHANGED used
    BY DEF OutputDone
  <2>2. played' \in SUBSET Slots /\ used' \in SUBSET Slots
    BY <2>1 DEF Inv, TypeOK
  <2>3. slot' \in [Threads -> 0 .. NSlots]
    BY <2>1, WaveAssumption DEF Inv, TypeOK
  <2> QED
    BY <2>1, <2>2, <2>3 DEF Inv, TypeOK, MainSteps, ThreadSteps, OutputDone
<1>2. LockHeldByItsUser'
  BY DEF Inv, TypeOK, LockHeldByItsUser, WorksLocked, OutputDone
<1>3. ThreadsInv'
  BY DEF Inv, TypeOK, ThreadsInv, OutputDone
<1>4. SlotInv'
  BY WaveAssumption DEF Inv, TypeOK, SlotInv, Slots, OutputDone
<1>5. SoundInv'
  BY DEF Inv, TypeOK, SoundInv, ThreadsInv, Slots, OutputDone
<1> QED
  BY <1>1, <1>2, <1>3, <1>4, <1>5 DEF Inv

\* Every step keeps the invariant.
LEMMA NextInv == Inv /\ [Next]_vars => Inv'
<1> SUFFICES ASSUME Inv, [Next]_vars
             PROVE  Inv'
  OBVIOUS
<1>1. CASE InitLock \/ Create \/ Open \/ Finalize
  BY <1>1, InitLockInv, CreateInv, OpenInv, FinalizeInv
<1>2. CASE Finalizing
  BY <1>2, CloseInv, WaitOutputInv, WaitInputInv, FreeInv DEF Finalizing
<1>3. ASSUME NEW t \in Threads, Thread(t)
      PROVE  Inv'
  BY <1>3, StartInv, StartedInv, LeaveInv, GotInv, CleanupInv, CleanupGotInv DEF Thread
<1>4. CASE Input
  BY <1>4, InputGetInv, InputUseInv, InputDataInv DEF Input
<1>5. CASE Output
  BY <1>5, OutputWriteInv, OutputGetInv, OutputUseInv, OutputFillInv, OutputDoneInv DEF Output
<1>6. CASE PostToWaveOut \/ DriverDone
  BY <1>6, PostInv, DriverDoneInv
<1>7. CASE UNCHANGED vars
  BY <1>7 DEF Inv, TypeOK, LockHeldByItsUser, WorksLocked, ThreadsInv, SlotInv, SoundInv,
              vars, memory, search, sound
<1> QED
  BY <1>1, <1>2, <1>3, <1>4, <1>5, <1>6, <1>7 DEF Next

\* The invariant holds in every state.
LEMMA InvHolds == Spec => []Inv
BY InitInv, NextInv, PTL DEF Spec

-----------------------------------------------------------------------------

\* The variables of the wave module keep their types; a slot index never runs
\* past the number of slots.
THEOREM TypeCorrect == Spec => []TypeOK
<1>1. Inv => TypeOK
  BY DEF Inv
<1> QED
  BY <1>1, InvHolds, PTL

\* waveLock is held by the thread that works under it and by no other; no
\* thread that ended, or was terminated, has left it locked.
THEOREM LockCorrect == Spec => []LockHeldByItsUser
<1>1. Inv => LockHeldByItsUser
  BY DEF Inv
<1> QED
  BY <1>1, InvHolds, PTL

\* FinalizeWaveModule frees the memory of the slots after the last thread
\* that uses a slot without the lock.
THEOREM BufferCorrect == Spec => []BufferOutlivesThreads
<1>1. Inv => BufferOutlivesThreads
  BY DEF Inv, ThreadsInv, BufferOutlivesThreads
<1> QED
  BY <1>1, InvHolds, PTL

\* The output thread fills no slot that the driver has, for any number of
\* slots, blocks and messages.
THEOREM SlotsCorrect == Spec => []SlotsNotOverwritten
<1>1. Inv => SlotsNotOverwritten
  BY DEF Inv, SoundInv, SlotsNotOverwritten
<1> QED
  BY <1>1, InvHolds, PTL

=============================================================================
