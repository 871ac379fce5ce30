------------------------- MODULE PrintJobWaitProofs -------------------------
(***************************************************************************)
(* Who waits for whom in PrintJob.  Three facts are added to PrintInv to   *)
(* make IInv: the queue of the G-code mutex is exact, its owner is known,  *)
(* and a heater's loop is only broken off on request.  An action keeps the *)
(* mutex where it is, takes it or releases it, and there is one lemma for  *)
(* each of the three.  From IInv follows that no wait is part of a cycle,  *)
(* and, when the endpoints that set flags without the mutex are not used,  *)
(* what the documentation promises.                                        *)
(***************************************************************************)
EXTENDS PrintJobProofs

USE PrintJobAssumption DEF Greenlets

MutexInv == QueueExact /\ OwnerKnown

(* Membership in the queue, now and after a step. *)
LEMMA QueuedMembers ==
    /\ \A x : x \in Lock!Queued <=> \E i \in 1..Len(waiting) : waiting[i] = x
    /\ \A x : x \in Lock!Queued' <=> \E i \in 1..Len(waiting') : waiting'[i] = x
BY DEF Lock!Queued

(* What the oldest request leaves behind in the queue *)
LEMMA OldestLeaves ==
    ASSUME waiting \in Seq(Greenlets), waiting # <<>>, waiting' = Tail(waiting),
           \A i, j \in 1..Len(waiting) : waiting[i] = waiting[j] => i = j
    PROVE  /\ Head(waiting) \in Lock!Queued /\ Head(waiting) \in Greenlets
           /\ \A i, j \in 1..Len(waiting') : waiting'[i] = waiting'[j] => i = j
           /\ \A x : x \in Lock!Queued' <=> x \in Lock!Queued /\ x # Head(waiting)
<1>1. /\ Len(waiting') = Len(waiting) - 1 /\ Len(waiting) \in Nat
      /\ Head(waiting) = waiting[1] /\ 1 \in 1..Len(waiting)
      /\ Head(waiting) \in Greenlets
      /\ \A i \in 1..Len(waiting') : waiting'[i] = waiting[i + 1]
  OBVIOUS
<1>2. \A i \in 1..Len(waiting') : i + 1 \in 1..Len(waiting) /\ i + 1 # 1
  BY <1>1
<1>3. \A i, j \in 1..Len(waiting') : waiting'[i] = waiting'[j] => i = j
  BY <1>1, <1>2
<1>4. ASSUME NEW x, x \in Lock!Queued' PROVE x \in Lock!Queued /\ x # Head(waiting)
  <2>1. PICK i \in 1..Len(waiting') : waiting'[i] = x
    BY <1>4, QueuedMembers
  <2>2. i + 1 \in 1..Len(waiting) /\ waiting[i + 1] = x /\ i + 1 # 1
    BY <1>1, <1>2, <2>1
  <2> QED BY <1>1, <2>2, QueuedMembers
<1>5. ASSUME NEW x, x \in Lock!Queued, x # Head(waiting) PROVE x \in Lock!Queued'
  <2>1. PICK i \in 1..Len(waiting) : waiting[i] = x
    BY <1>5, QueuedMembers
  <2>2. i - 1 \in 1..Len(waiting') /\ waiting'[i - 1] = x
    BY <1>1, <1>5, <2>1
  <2> QED BY <2>2, QueuedMembers
<1> QED BY <1>1, <1>3, <1>4, <1>5, QueuedMembers

(* What a new request does to the queue *)
LEMMA RequestJoins ==
    ASSUME waiting \in Seq(Greenlets), NEW g \in Greenlets, g \notin Lock!Queued,
           waiting' = Append(waiting, g),
           \A i, j \in 1..Len(waiting) : waiting[i] = waiting[j] => i = j
    PROVE  /\ \A i, j \in 1..Len(waiting') : waiting'[i] = waiting'[j] => i = j
           /\ \A x : x \in Lock!Queued' <=> x \in Lock!Queued \/ x = g
<1>1. /\ Len(waiting') = Len(waiting) + 1 /\ Len(waiting) \in Nat
      /\ waiting'[Len(waiting) + 1] = g
      /\ \A i \in 1..Len(waiting) : waiting'[i] = waiting[i]
  OBVIOUS
<1>2. \A i \in 1..Len(waiting) : waiting[i] # g
  BY QueuedMembers
<1>3. \A i, j \in 1..Len(waiting') : waiting'[i] = waiting'[j] => i = j
  BY <1>1, <1>2
<1>4. \A x : (\E i \in 1..Len(waiting') : waiting'[i] = x)
             <=> x = g \/ (\E i \in 1..Len(waiting) : waiting[i] = x)
  BY <1>1
<1>5. \A x : x \in Lock!Queued' <=> x \in Lock!Queued \/ x = g
  BY <1>4, QueuedMembers, Zenon
<1> QED BY <1>3, <1>5
-----------------------------------------------------------------------------
(* The mutex *)

(* The step neither takes nor releases the mutex; its owner is woken at    *)
(* most.                                                                   *)
Keeps(h) == /\ pc'[h] = "mutex" => pc[h] = "mutex"
            /\ pc[h] = "mutex" => pc'[h] = "mutex" \/ holder = h
            /\ pc[h] = "mutex" \/ InScript(h) => pc'[h] = "mutex" \/ InScript(h)'

LEMMA KeepsMutex ==
    ASSUME PrintInv, MutexInv, UNCHANGED <<holder, waiting>>,
           \A h \in Greenlets : Keeps(h)
    PROVE  MutexInv'
<1> USE DEF Keeps
<1>1. \A x : x \in Lock!Queued' <=> x \in Lock!Queued
  BY DEF Lock!Queued
<1>2. QueueExact'
  BY <1>1 DEF MutexInv, QueueExact
<1>3. OwnerKnown'
  BY DEF MutexInv, OwnerKnown, PrintInv, TypeOK, ControlType
<1> QED BY <1>2, <1>3 DEF MutexInv

(* g takes the free mutex. *)
LEMMA AcquiresMutex ==
    ASSUME PrintInv, MutexInv, NEW g \in Greenlets, Lock!Acquire(g),
           pc' = [pc EXCEPT ![g] = "gcode"]
    PROVE  MutexInv'
<1>1. waiting = <<>> /\ waiting' = <<>> /\ holder = NoOne /\ holder' = g
  BY DEF Lock!Acquire, MutexInv, OwnerKnown
<1>2. Lock!Queued = {} /\ Lock!Queued' = {}
  BY <1>1 DEF Lock!Queued
<1>3. \A h \in Greenlets : pc[h] # "mutex"
  BY <1>1, <1>2 DEF MutexInv, QueueExact
<1>4. \A h \in Greenlets : pc'[h] # "mutex"
  BY <1>3 DEF PrintInv, TypeOK, ControlType
<1>5. QueueExact'
  BY <1>1, <1>2, <1>4 DEF QueueExact
<1>6. OwnerKnown'
  <2>1. pc'[g] = "gcode" BY DEF PrintInv, TypeOK, ControlType
  <2> QED BY <1>1, <2>1 DEF OwnerKnown, InScript
<1> QED BY <1>5, <1>6 DEF MutexInv

(* g, which is outside, calls run_script. *)
LEMMA TakesMutex ==
    ASSUME PrintInv, MutexInv, NEW g \in Greenlets, NEW s, RunScript(g, s),
           pc[g] \in {"idle", "delay", "onerror"}
    PROVE  MutexInv'
<1>1. CASE holder = NoOne
  BY <1>1, AcquiresMutex DEF RunScript
<1>2. CASE holder # NoOne
  <2>1. /\ Lock!Enqueue(g) /\ pc' = [pc EXCEPT ![g] = "mutex"]
        /\ script' = [script EXCEPT ![g] = s]
    BY <1>2 DEF RunScript, Park
  <2>2. /\ waiting \in Seq(Greenlets) /\ waiting' = Append(waiting, g)
        /\ g \notin Lock!Queued /\ holder' = holder /\ holder # g
        /\ \A i, j \in 1..Len(waiting) : waiting[i] = waiting[j] => i = j
    BY <2>1 DEF Lock!Enqueue, MutexInv, QueueExact, PrintInv, TypeOK, ControlType
  <2>3. /\ \A i, j \in 1..Len(waiting') : waiting'[i] = waiting'[j] => i = j
        /\ \A x : x \in Lock!Queued' <=> x \in Lock!Queued \/ x = g
    BY <2>2, RequestJoins
  <2>4. \A h \in Greenlets : h # g => pc'[h] = pc[h] /\ script'[h] = script[h]
    BY <2>1 DEF PrintInv, TypeOK, ControlType
  <2>5. pc'[g] = "mutex"
    BY <2>1 DEF PrintInv, TypeOK, ControlType
  <2>6. QueueExact'
    BY <2>2, <2>3, <2>4, <2>5 DEF MutexInv, QueueExact
  <2>7. OwnerKnown'
    <3>1. holder \in Greenlets /\ (pc[holder] = "mutex" \/ InScript(holder))
      BY <1>2 DEF MutexInv, OwnerKnown, PrintInv, TypeOK, ControlType
    <3> QED BY <1>2, <2>2, <2>4, <3>1 DEF OwnerKnown, InScript
  <2> QED BY <2>6, <2>7 DEF MutexInv
<1> QED BY <1>1, <1>2

(* g ends its script and hands the mutex on. *)
LEMMA ReleasesMutex ==
    ASSUME PrintInv, MutexInv, NEW g \in Greenlets, Lock!Release(g), InScript(g),
           NEW p, p # "mutex", pc' = [pc EXCEPT ![g] = p],
           \A h \in Greenlets \ {g} : script'[h] = script[h]
    PROVE  MutexInv'
<1>1. \A h \in Greenlets : h # g => pc'[h] = pc[h] /\ script'[h] = script[h]
  BY DEF PrintInv, TypeOK, ControlType
<1>2. pc[g] # "mutex" /\ pc'[g] # "mutex" /\ holder = g
  BY DEF InScript, Lock!Release, PrintInv, TypeOK, ControlType
<1>3. CASE waiting = <<>>
  <2>1. holder' = NoOne /\ waiting' = <<>>
    BY <1>3 DEF Lock!Release
  <2>2. Lock!Queued = {} /\ Lock!Queued' = {}
    BY <1>3, <2>1 DEF Lock!Queued
  <2>3. \A h \in Greenlets : pc'[h] # "mutex"
    BY <1>1, <1>2, <2>2 DEF MutexInv, QueueExact
  <2> QED BY <2>1, <2>2, <2>3 DEF MutexInv, QueueExact, OwnerKnown
<1>4. CASE waiting # <<>>
  <2>1. holder' = Head(waiting) /\ waiting' = Tail(waiting)
    BY <1>4 DEF Lock!Release
  <2>2. /\ waiting \in Seq(Greenlets)
        /\ \A i, j \in 1..Len(waiting) : waiting[i] = waiting[j] => i = j
    BY DEF MutexInv, QueueExact, PrintInv, TypeOK, ControlType
  <2>3. /\ Head(waiting) \in Lock!Queued /\ Head(waiting) \in Greenlets
        /\ \A i, j \in 1..Len(waiting') : waiting'[i] = waiting'[j] => i = j
        /\ \A x : x \in Lock!Queued' <=> x \in Lock!Queued /\ x # Head(waiting)
    BY <1>4, <2>1, <2>2, OldestLeaves
  <2>4. pc[Head(waiting)] = "mutex" /\ Head(waiting) # g
    BY <1>2, <2>3 DEF MutexInv, QueueExact
  <2>5. QueueExact'
    BY <1>1, <1>2, <2>1, <2>3 DEF MutexInv, QueueExact
  <2>6. OwnerKnown'
    BY <1>1, <2>1, <2>3, <2>4 DEF OwnerKnown
  <2> QED BY <2>5, <2>6 DEF MutexInv
<1> QED BY <1>3, <1>4

(* g stays in its script; a work_handler may be registered besides. *)
LEMMA ScriptGoesOn ==
    ASSUME PrintInv, MutexInv, NEW g \in Greenlets, InScript(g), InScript(g)',
           UNCHANGED <<holder, waiting>>,
           \A h \in Greenlets \ {g} :
               /\ script'[h] = script[h]
               /\ pc'[h] = pc[h] \/ (pc[h] = "idle" /\ pc'[h] = "due")
    PROVE  MutexInv'
<1>1. \A h \in Greenlets \ {g} : InScript(h) => InScript(h)'
  BY DEF InScript
<1>2. pc[g] # "mutex" /\ pc'[g] # "mutex"
  BY DEF InScript
<1>3. \A h \in Greenlets : Keeps(h)
  BY <1>1, <1>2 DEF Keeps
<1> QED BY <1>3, KeepsMutex

(* Commands: only the end of a script touches the mutex. *)
LEMMA CommandMutex ==
    ASSUME PrintInv, MutexInv, NEW g \in Greenlets, Command(g)
    PROVE  MutexInv'
<1> DEFINE Others == \A h \in Greenlets \ {g} :
               /\ script'[h] = script[h]
               /\ pc'[h] = pc[h] \/ (pc[h] = "idle" /\ pc'[h] = "due")
           GoesOn == /\ InScript(g) /\ InScript(g)' /\ Others
                     /\ UNCHANGED <<holder, waiting>>
<1>0. pc \in [Greenlets -> Places] /\ script \in [Greenlets -> Seq(Commands)]
  BY DEF PrintInv, TypeOK, ControlType
<1>1. CASE EndScript(g)
  <2>1. InScript(g) /\ Lock!Release(g) /\ pc' = [pc EXCEPT ![g] = "idle"] /\ script' = script
    BY <1>1 DEF EndScript, InScript, Park
  <2> QED BY <2>1, ReleasesMutex
<1>2. CASE SkipLine(g) \/ Fail(g) \/ HeatAndWait(g) \/ TemperatureWait(g) \/ Move(g)
  <2>1. GoesOn
    BY <1>0, <1>2 DEF SkipLine, Move, Fail, HeatAndWait, TemperatureWait, At, Executing,
       NextLine, Raise, Park, InScript
  <2> QED BY <2>1, ScriptGoesOn
<1>3. CASE PauseIgnored(g) \/ PauseAtOnce(g) \/ PausePrint(g) \/ PauseCompletes(g)
  <2>1. GoesOn
    BY <1>0, <1>3 DEF PauseIgnored, PauseAtOnce, PausePrint, PauseCompletes, At,
       Executing, Stopped, DoPause, NextLine, Park, InScript
  <2> QED BY <2>1, ScriptGoesOn
<1>4. CASE ResumeIgnored(g) \/ ResumeMovesBack(g) \/ ResumeRefused(g) \/ ClearPauseCmd(g)
  <2>1. GoesOn
    BY <1>0, <1>4 DEF ResumeIgnored, ResumeMovesBack, ResumeRefused, ClearPauseCmd, At,
       Executing, Stopped, Raise, NextLine, Park, InScript
  <2> QED BY <2>1, ScriptGoesOn
<1>5. CASE CancelNothing(g) \/ CancelPrint(g) \/ CancelCompletes(g)
           \/ ResetFile(g) \/ ResetFileCompletes(g)
  <2>1. GoesOn
    BY <1>0, <1>5 DEF CancelNothing, CancelPrint, CancelCompletes, ResetFile,
       ResetFileCompletes, At, Executing, Stopped, DoPause, Raise, NextLine, Park, InScript
  <2> QED BY <2>1, ScriptGoesOn
<1>6. CASE M25(g) \/ M25Completes(g) \/ M112(g) \/ Crash(g)
  <2>1. GoesOn
    BY <1>0, <1>6 DEF M25, M25Completes, M112, Crash, At, Executing, Stopped, DoPause,
       Raise, NextLine, Park, InScript
  <2> QED BY <2>1, ScriptGoesOn
<1>7. CASE ResumePrint(g) \/ M24(g) \/ LoadFile(g, "M23") \/ LoadFile(g, "SDCARD_PRINT_FILE")
  <2>1. sd.work <=> pc[SD] # "idle"
    BY DEF PrintInv, Handler
  <2>2. CASE ResumePrint(g)
    <3>1. GoesOn
      BY <1>0, <2>1, <2>2 DEF ResumePrint, Stopped, InScript
    <3> QED BY <3>1, ScriptGoesOn
  <2>3. CASE M24(g)
    <3>1. GoesOn
      BY <1>0, <2>1, <2>3 DEF M24, At, Executing, Raise, InScript
    <3> QED BY <3>1, ScriptGoesOn
  <2>4. CASE LoadFile(g, "M23") \/ LoadFile(g, "SDCARD_PRINT_FILE")
    <3>1. GoesOn
      BY <1>0, <2>1, <2>4 DEF LoadFile, At, Executing, Raise, InScript
    <3> QED BY <3>1, ScriptGoesOn
  <2> QED BY <1>7, <2>2, <2>3, <2>4
<1> QED BY <1>1, <1>2, <1>3, <1>4, <1>5, <1>6, <1>7 DEF Command

(* The reactor resumes g: an owner that was parked in the mutex gets going.*)
LEMMA WakeMutex ==
    ASSUME PrintInv, MutexInv, NEW g \in Greenlets, Wake(g)
    PROVE  MutexInv'
<1>0. pc \in [Greenlets -> Places] /\ script \in [Greenlets -> Seq(Commands)]
  BY DEF PrintInv, TypeOK, ControlType
<1>1. CASE GetMutex(g)
  <2>1. /\ holder = g /\ pc[g] = "mutex" /\ UNCHANGED <<holder, waiting, script>>
        /\ pc' = [pc EXCEPT ![g] = "gcode"]
    BY <1>1 DEF GetMutex
  <2>2. \A h \in Greenlets : Keeps(h)
    BY <1>0, <2>1 DEF Keeps, InScript
  <2> QED BY <2>1, <2>2, KeepsMutex
<1>2. CASE EndWait(g) \/ WaitFails(g) \/ MoveBackEnds(g) \/ DoPauseReturns(g)
  <2>1. /\ UNCHANGED <<holder, waiting>>
        /\ \A h \in Greenlets \ {g} : pc'[h] = pc[h] /\ script'[h] = script[h]
        /\ pc[g] # "mutex" /\ pc'[g] # "mutex"
    BY <1>0, <1>2 DEF EndWait, WaitFails, MoveBackEnds, DoPauseReturns
  <2>2. InScript(g) => InScript(g)'
    <3>1. script[g] # <<>> \/ pc[g] = "dopause"
      BY <1>2 DEF EndWait, WaitFails, MoveBackEnds, DoPauseReturns, PrintInv, Parked
    <3> QED BY <1>0, <1>2, <3>1 DEF EndWait, WaitFails, MoveBackEnds, DoPauseReturns, InScript
  <2>3. \A h \in Greenlets : Keeps(h)
    BY <2>1, <2>2 DEF Keeps, InScript
  <2> QED BY <2>1, <2>3, KeepsMutex
<1> QED BY <1>1, <1>2 DEF Wake

(* The work_handler takes the mutex for a line and for on_error_gcode, and *)
(* releases it after each.                                                 *)
LEMMA HandlerMutex ==
    ASSUME PrintInv, MutexInv, SdStep \/ SdStart \/ SdWake
    PROVE  MutexInv'
<1>0. /\ pc \in [Greenlets -> Places] /\ script \in [Greenlets -> Seq(Commands)]
      /\ SD \in Greenlets
  BY DEF PrintInv, TypeOK, ControlType
<1>1. CASE SdStart \/ SdWake \/ SdRead \/ SdEndOfFile \/ SdReadFails \/ SdYield \/ SdExit
  <2>1. /\ UNCHANGED <<holder, waiting, script>>
        /\ \A h \in Greenlets \ {SD} : pc'[h] = pc[h]
        /\ pc[SD] \in {"due", "loop", "read", "busy", "exit"} /\ pc'[SD] # "mutex"
    BY <1>0, <1>1 DEF SdStart, SdWake, SdRead, SdEndOfFile, SdReadFails, SdYield, SdExit,
       InLoop, SdGoes, Park
  <2>2. \A h \in Greenlets : Keeps(h)
    BY <2>1 DEF Keeps, InScript
  <2> QED BY <2>1, <2>2, KeepsMutex
<1>2. CASE SdDispatch
  BY <1>0, <1>2, AcquiresMutex DEF SdDispatch, SdGoes
<1>3. CASE SdLineDone \/ SdLineFailed \/ SdOnErrorDone \/ SdLineCrashes
  <2>1. /\ Lock!Release(SD) /\ InScript(SD)
        /\ \A h \in Greenlets \ {SD} : script'[h] = script[h]
    BY <1>0, <1>3 DEF SdLineDone, SdLineFailed, SdOnErrorDone, SdLineCrashes, SdReturned,
       SdRaised, At, Executing, InScript
  <2>2. PICK p \in {"loop", "onerror", "exit"} : pc' = [pc EXCEPT ![SD] = p]
    BY <1>3 DEF SdLineDone, SdLineFailed, SdOnErrorDone, SdLineCrashes, SdGoes
  <2>3. p # "mutex" OBVIOUS
  <2> QED BY <1>0, <2>1, <2>2, <2>3, ReleasesMutex
<1>4. CASE SdOnError
  BY <1>0, <1>4, TakesMutex DEF SdOnError
<1> QED BY <1>1, <1>2, <1>3, <1>4 DEF SdStep

(* The runout event and the requests take the mutex for their scripts; the *)
(* endpoints do not know it.                                               *)
LEMMA OtherMutex ==
    ASSUME PrintInv, MutexInv,
           RunoutPaused \/ RunoutWake \/ IdleReady \/ Asynchronous \/ UNCHANGED vars
    PROVE  MutexInv'
<1>0. /\ pc \in [Greenlets -> Places] /\ script \in [Greenlets -> Seq(Commands)]
      /\ RO \in Greenlets /\ Clients \subseteq Greenlets
  BY DEF PrintInv, TypeOK, ControlType
<1>1. CASE RunoutBegin \/ RunoutPaused \/ Runout
  <2>1. /\ UNCHANGED <<holder, waiting, script>>
        /\ \A h \in Greenlets \ {RO} : pc'[h] = pc[h]
        /\ pc[RO] \in {"due", "stopped", "idle"} /\ pc'[RO] # "mutex"
        /\ pc[RO] = "stopped" => script[RO] = <<>>
    BY <1>0, <1>1 DEF RunoutBegin, RunoutPaused, Runout, Park
  <2>2. \A h \in Greenlets : Keeps(h)
    BY <2>1 DEF Keeps, InScript
  <2> QED BY <2>1, <2>2, KeepsMutex
<1>2. CASE RunoutScript
  BY <1>0, <1>2, TakesMutex DEF RunoutScript
<1>3. ASSUME NEW g \in Clients, NEW s \in Scripts, Request(g, s) PROVE MutexInv'
  BY <1>0, <1>3, TakesMutex DEF Request
<1>4. CASE IdleReady \/ BreakMacro \/ ResumeMacro \/ BreakHeater \/ EmergencyStop
           \/ UNCHANGED vars
  <2>1. UNCHANGED <<holder, waiting, script, pc>>
    BY <1>4 DEF IdleReady, BreakMacro, ResumeMacro, BreakHeater, EmergencyStop, vars
  <2>2. \A h \in Greenlets : Keeps(h)
    BY <2>1 DEF Keeps, InScript
  <2> QED BY <2>1, <2>2, KeepsMutex
<1> QED BY <1>1, <1>2, <1>3, <1>4 DEF RunoutWake, Asynchronous

LEMMA MutexStep == PrintInv /\ MutexInv /\ [Next]_vars => MutexInv'
<1> SUFFICES ASSUME PrintInv, MutexInv, [Next]_vars PROVE MutexInv'
  OBVIOUS
<1>1. ASSUME NEW g \in Greenlets, Command(g) \/ Wake(g) PROVE MutexInv'
  BY <1>1, CommandMutex, WakeMutex
<1>2. CASE SdStep \/ SdStart \/ SdWake
  BY <1>2, HandlerMutex
<1>3. CASE RunoutPaused \/ RunoutWake \/ IdleReady \/ Asynchronous \/ UNCHANGED vars
  BY <1>3, OtherMutex
<1>4. CASE Quiet
  BY <1>4, OtherMutex DEF Quiet
<1> QED BY <1>1, <1>2, <1>3, <1>4 DEF Next
-----------------------------------------------------------------------------
(* do_pause *)

(* The step takes nobody into do_pause. *)
NoNewPause == \A h \in Greenlets :
    pc'[h] = "dopause" => pc[h] = "dopause" /\ script'[h] = script[h]

LEMMA CommandPauses ==
    ASSUME PrintInv, PauseCommanded, NEW g \in Greenlets, Command(g)
    PROVE  PauseCommanded'
<1>0. pc \in [Greenlets -> Places] /\ script \in [Greenlets -> Seq(Commands)]
  BY DEF PrintInv, TypeOK, ControlType
<1>1. CASE PausePrint(g) \/ CancelPrint(g) \/ M25(g) \/ ResetFile(g)
  <2>1. Head(script[g]) \in PauseCommands
    BY <1>1 DEF PausePrint, CancelPrint, M25, ResetFile, At, PauseCommands
  <2>2. /\ script'[g] = script[g] \/ pc'[g] \in {"gcode", "failed"}
        /\ \A h \in Greenlets \ {g} : pc'[h] = pc[h] /\ script'[h] = script[h]
    BY <1>0, <1>1 DEF PausePrint, CancelPrint, M25, ResetFile, DoPause, NextLine, Raise, Park
  <2> QED BY <2>1, <2>2 DEF PauseCommanded
<1>2. ASSUME \/ SkipLine(g) \/ Move(g) \/ Fail(g) \/ HeatAndWait(g) \/ TemperatureWait(g)
             \/ PauseIgnored(g) \/ PauseAtOnce(g) \/ PauseCompletes(g) \/ EndScript(g)
      PROVE  NoNewPause
  BY <1>0, <1>2 DEF SkipLine, Move, Fail, HeatAndWait, TemperatureWait, PauseIgnored,
     PauseAtOnce, PauseCompletes, EndScript, NextLine, Raise, Park, NoNewPause
<1>3. ASSUME \/ ResumeIgnored(g) \/ ResumeMovesBack(g) \/ ResumeRefused(g)
             \/ ClearPauseCmd(g) \/ CancelNothing(g) \/ CancelCompletes(g)
             \/ ResetFileCompletes(g) \/ M25Completes(g) \/ M112(g) \/ Crash(g)
      PROVE  NoNewPause
  BY <1>0, <1>3 DEF ResumeIgnored, ResumeMovesBack, ResumeRefused, ClearPauseCmd,
     CancelNothing, CancelCompletes, ResetFileCompletes, M25Completes, M112, Crash,
     NextLine, Raise, Park, NoNewPause
<1>4. ASSUME ResumePrint(g) PROVE NoNewPause
  BY <1>0, <1>4 DEF ResumePrint, NoNewPause
<1>5. ASSUME M24(g) \/ LoadFile(g, "M23") \/ LoadFile(g, "SDCARD_PRINT_FILE")
      PROVE  NoNewPause
  <2>1. pc[g] = "gcode" BY <1>5 DEF M24, LoadFile, At, Executing
  <2>2. \A h \in Greenlets \ {g} : script'[h] = script[h] /\ pc'[h] \in {pc[h], "due"}
    BY <1>0, <1>5 DEF M24, LoadFile, Raise
  <2>3. pc'[g] # "dopause"
    BY <1>0, <1>5, <2>1 DEF M24, LoadFile, Raise
  <2> QED BY <2>2, <2>3 DEF NoNewPause
<1>6. NoNewPause => PauseCommanded'
  BY DEF NoNewPause, PauseCommanded
<1> QED BY <1>1, <1>2, <1>3, <1>4, <1>5, <1>6 DEF Command

(* The runout event comes to do_pause without a script, all others do not. *)
LEMMA OtherPauses ==
    ASSUME PrintInv, PauseCommanded, [Next]_vars, ~\E g \in Greenlets : Command(g)
    PROVE  PauseCommanded'
<1>0. /\ pc \in [Greenlets -> Places] /\ script \in [Greenlets -> Seq(Commands)]
      /\ SD \in Greenlets /\ RO \in Greenlets /\ Clients \subseteq Greenlets
  BY DEF PrintInv, TypeOK, ControlType
<1>1. ASSUME NEW g \in Greenlets, Wake(g) PROVE NoNewPause
  BY <1>0, <1>1 DEF Wake, GetMutex, EndWait, WaitFails, MoveBackEnds, DoPauseReturns, NoNewPause
<1>2. ASSUME SdStep \/ SdStart \/ SdWake PROVE NoNewPause
  <2>1. /\ \A h \in Greenlets \ {SD} : pc'[h] = pc[h] /\ script'[h] = script[h]
        /\ pc'[SD] # "dopause"
    BY <1>0, <1>2 DEF SdStep, SdRead, SdEndOfFile, SdReadFails, SdYield, SdDispatch, Dispatch,
       SdLineDone, SdLineFailed, SdLineCrashes, SdOnError, SdOnErrorDone, SdExit, SdStart,
       SdWake, RunScript, SdGoes, Park
  <2> QED BY <2>1 DEF NoNewPause
<1>3. CASE RunoutBegin
  <2>1. /\ script' = script /\ script[RO] = <<>>
        /\ \A h \in Greenlets \ {RO} : pc'[h] = pc[h]
    BY <1>0, <1>3 DEF RunoutBegin, Park, PrintInv, Parked
  <2> QED BY <2>1 DEF PauseCommanded
<1>4. ASSUME RunoutPaused \/ Runout \/ RunoutScript PROVE NoNewPause
  BY <1>0, <1>4 DEF RunoutPaused, Runout, RunoutScript, RunScript, Park, NoNewPause
<1>5. ASSUME NEW g \in Clients, NEW s \in Scripts, Request(g, s) PROVE NoNewPause
  BY <1>0, <1>5 DEF Request, RunScript, Park, NoNewPause
<1>6. ASSUME IdleReady \/ BreakMacro \/ ResumeMacro \/ BreakHeater \/ EmergencyStop \/ Quiet
             \/ UNCHANGED vars
      PROVE  NoNewPause
  BY <1>6 DEF IdleReady, BreakMacro, ResumeMacro, BreakHeater, EmergencyStop, Quiet, vars,
     NoNewPause
<1>7. NoNewPause => PauseCommanded'
  BY DEF NoNewPause, PauseCommanded
<1> QED BY <1>1, <1>2, <1>3, <1>4, <1>5, <1>6, <1>7 DEF Next, RunoutWake, Asynchronous

LEMMA PauseStep == PrintInv /\ PauseCommanded /\ [Next]_vars => PauseCommanded'
BY CommandPauses, OtherPauses
-----------------------------------------------------------------------------
(* Heater waits *)

(* The step begins no wait for a heater and asks for no break. *)
NoNewWait == /\ flags'.heat => flags.heat
             /\ hist'.asked = hist.asked
             /\ \A h \in Greenlets : HeaterWaits(h)' => HeaterWaits(h)

(* Two greenlets never wait for heaters at a time: both would be in scripts.*)
LEMMA OneHeaterWait ==
    ASSUME PrintInv, NEW g \in Greenlets, InScript(g), NEW h \in Greenlets, HeaterWaits(h)
    PROVE  h = g
BY DEF PrintInv, OneScriptAtATime, InScript, HeaterWaits

LEMMA CommandBreak ==
    ASSUME PrintInv, BreakAsked, NEW g \in Greenlets, Command(g)
    PROVE  BreakAsked'
<1>0. /\ pc \in [Greenlets -> Places] /\ script \in [Greenlets -> Seq(Commands)]
      /\ flags \in [gcode : BOOLEAN, heat : BOOLEAN, shutdown : BOOLEAN]
      /\ hist \in [last : Nat, skipped : BOOLEAN, asked : BOOLEAN, cut : BOOLEAN]
      /\ SD \in Greenlets
  BY DEF PrintInv, TypeOK, ControlType, DataType
<1>1. CASE HeatAndWait(g)
  BY <1>0, <1>1 DEF HeatAndWait, BreakAsked
<1>2. CASE TemperatureWait(g)
  <2>1. CASE ~flags.heat
    BY <1>2, <2>1 DEF TemperatureWait, BreakAsked
  <2>2. CASE flags.heat
    <3>1. InScript(g) /\ pc[g] = "gcode" /\ NextLine(g)
      BY <1>2, <2>2 DEF TemperatureWait, At, Executing, InScript
    <3>2. \A h \in Greenlets : ~HeaterWaits(h)
      BY <3>1, OneHeaterWait DEF HeaterWaits
    <3>3. \A h \in Greenlets : ~HeaterWaits(h)'
      BY <1>0, <3>1, <3>2 DEF NextLine, HeaterWaits
    <3> QED BY <3>3 DEF BreakAsked
  <2> QED BY <2>1, <2>2
<1>3. CASE SkipLine(g) \/ Fail(g) \/ EndScript(g) \/ PauseIgnored(g) \/ PauseAtOnce(g)
           \/ PausePrint(g) \/ PauseCompletes(g)
  <2>1. ASSUME SkipLine(g) \/ Fail(g) \/ EndScript(g) PROVE NoNewWait
    BY <1>0, <2>1 DEF SkipLine, Fail, EndScript, NextLine, Raise, Park, HeaterWaits, NoNewWait
  <2>2. ASSUME PauseIgnored(g) \/ PauseAtOnce(g) \/ PausePrint(g) \/ PauseCompletes(g)
         PROVE NoNewWait
    BY <1>0, <2>2 DEF PauseIgnored, PauseAtOnce, PausePrint, PauseCompletes, DoPause,
       NextLine, Park, HeaterWaits, NoNewWait
  <2>3. NoNewWait BY <1>3, <2>1, <2>2
  <2> QED BY <2>3 DEF NoNewWait, BreakAsked
<1>4. CASE Move(g)
  <2>1. Head(script[g]) \in {"G1", "G28"} BY <1>4 DEF Move, At
  <2>2. NoNewWait
    BY <1>0, <1>4, <2>1 DEF Move, NextLine, Park, HeaterWaits, NoNewWait
  <2> QED BY <2>2 DEF NoNewWait, BreakAsked
<1>5. CASE ResumeIgnored(g) \/ ResumeMovesBack(g) \/ ResumeRefused(g) \/ ResumePrint(g)
           \/ ClearPauseCmd(g) \/ CancelNothing(g) \/ CancelPrint(g) \/ CancelCompletes(g)
  <2>1. ASSUME ResumeIgnored(g) \/ ResumeMovesBack(g) \/ ResumeRefused(g)
         PROVE NoNewWait
    BY <1>0, <2>1 DEF ResumeIgnored, ResumeMovesBack, ResumeRefused, NextLine, Raise, Park,
       HeaterWaits, NoNewWait
  <2>2. ASSUME ResumePrint(g) PROVE NoNewWait
    BY <1>0, <2>2 DEF ResumePrint, Stopped, HeaterWaits, NoNewWait
  <2>3. ASSUME ClearPauseCmd(g) \/ CancelNothing(g) \/ CancelPrint(g) \/ CancelCompletes(g)
         PROVE NoNewWait
    <3>1. ASSUME ClearPauseCmd(g) \/ CancelNothing(g) \/ CancelCompletes(g) PROVE NoNewWait
      BY <1>0, <3>1 DEF ClearPauseCmd, CancelNothing, CancelCompletes, UnbreakFlags,
         NextLine, HeaterWaits, NoNewWait
    <3>2. ASSUME CancelPrint(g) PROVE NoNewWait
      BY <1>0, <3>2 DEF CancelPrint, UnbreakFlags, DoPause, Park, HeaterWaits, NoNewWait
    <3> QED BY <2>3, <3>1, <3>2
  <2>4. NoNewWait BY <1>5, <2>1, <2>2, <2>3
  <2> QED BY <2>4 DEF NoNewWait, BreakAsked
<1>6. CASE ResetFile(g) \/ ResetFileCompletes(g) \/ M25(g) \/ M25Completes(g) \/ M112(g)
           \/ Crash(g)
  <2>1. NoNewWait
    BY <1>0, <1>6 DEF ResetFile, ResetFileCompletes, M25, M25Completes, M112, Crash,
       InvokeShutdown, Forgotten, DoPause, NextLine, Raise, Park, HeaterWaits, NoNewWait
  <2> QED BY <2>1 DEF NoNewWait, BreakAsked
<1>7. CASE M24(g) \/ LoadFile(g, "M23") \/ LoadFile(g, "SDCARD_PRINT_FILE")
  <2>1. pc[g] = "gcode" BY <1>7 DEF M24, LoadFile, At, Executing
  <2>2. ASSUME M24(g) PROVE NoNewWait
    BY <1>0, <2>1, <2>2 DEF M24, Raise, HeaterWaits, NoNewWait
  <2>3. ASSUME NEW c, LoadFile(g, c) PROVE NoNewWait
    <3>1. flags' = flags /\ hist'.asked = hist.asked
      BY <1>0, <2>3 DEF LoadFile, Forgotten
    <3>2. \A h \in Greenlets \ {g} :
             script'[h] = script[h] /\ pc'[h] \in {pc[h], "due"}
      BY <1>0, <2>3 DEF LoadFile, Raise
    <3>3. pc'[g] # "wait"
      BY <1>0, <2>1, <2>3 DEF LoadFile, Raise
    <3> QED BY <3>1, <3>2, <3>3 DEF HeaterWaits, NoNewWait
  <2>4. NoNewWait BY <1>7, <2>2, <2>3
  <2> QED BY <2>4 DEF NoNewWait, BreakAsked
<1> QED BY <1>1, <1>2, <1>3, <1>4, <1>5, <1>6, <1>7 DEF Command

(* A resumed command is over; nothing else waits for a heater by itself. *)
LEMMA OtherBreak ==
    ASSUME PrintInv, BreakAsked, [Next]_vars, ~\E g \in Greenlets : Command(g), ~BreakHeater
    PROVE  NoNewWait
<1>0. /\ pc \in [Greenlets -> Places] /\ script \in [Greenlets -> Seq(Commands)]
      /\ flags \in [gcode : BOOLEAN, heat : BOOLEAN, shutdown : BOOLEAN]
      /\ hist \in [last : Nat, skipped : BOOLEAN, asked : BOOLEAN, cut : BOOLEAN]
      /\ SD \in Greenlets /\ RO \in Greenlets /\ Clients \subseteq Greenlets
  BY DEF PrintInv, TypeOK, ControlType, DataType
<1>1. ASSUME NEW g \in Greenlets, Wake(g) PROVE NoNewWait
  <2>1. CASE GetMutex(g) \/ WaitFails(g) \/ MoveBackEnds(g) \/ DoPauseReturns(g)
    BY <1>0, <2>1 DEF GetMutex, WaitFails, MoveBackEnds, DoPauseReturns, HeaterWaits,
       NoNewWait
  <2>2. CASE EndWait(g)
    BY <1>0, <2>2 DEF EndWait, HeaterWaits, NoNewWait
  <2> QED BY <1>1, <2>1, <2>2 DEF Wake
<1>2. CASE SdStep \/ SdStart \/ SdWake
  <2>1. CASE SdRead \/ SdEndOfFile \/ SdReadFails \/ SdYield \/ SdStart \/ SdWake \/ SdExit
             \/ SdDispatch
    BY ZenonT(30), <1>0, <2>1 DEF SdRead, SdEndOfFile, SdReadFails, SdYield, SdStart, SdWake, SdExit,
       SdDispatch, Dispatch, SdGoes, Park, HeaterWaits, NoNewWait
  <2>2. CASE SdLineDone \/ SdLineFailed \/ SdLineCrashes \/ SdOnErrorDone
    BY <1>0, <2>2 DEF SdLineDone, SdLineFailed, SdLineCrashes, SdOnErrorDone, InvokeShutdown,
       SdGoes, HeaterWaits, NoNewWait
  <2>3. CASE SdOnError
    BY <1>0, <2>3 DEF SdOnError, RunScript, Park, HeaterWaits, NoNewWait
  <2> QED BY <1>2, <2>1, <2>2, <2>3 DEF SdStep
<1>3. CASE RunoutPaused \/ RunoutBegin \/ Runout
  BY <1>0, <1>3 DEF RunoutPaused, RunoutBegin, Runout, Park, HeaterWaits, NoNewWait
<1>4. CASE RunoutScript
  BY <1>0, <1>4 DEF RunoutScript, RunScript, Park, HeaterWaits, NoNewWait
<1>5. ASSUME NEW g \in Clients, NEW s \in Scripts, Request(g, s) PROVE NoNewWait
  BY <1>0, <1>5 DEF Request, RunScript, Park, HeaterWaits, NoNewWait
<1>6. CASE IdleReady \/ BreakMacro \/ ResumeMacro \/ EmergencyStop \/ Quiet
           \/ UNCHANGED vars
  BY <1>0, <1>6 DEF IdleReady, BreakMacro, ResumeMacro, EmergencyStop, Quiet, InvokeShutdown,
     vars, HeaterWaits, NoNewWait
<1> QED BY <1>1, <1>2, <1>3, <1>4, <1>5, <1>6 DEF Next, RunoutWake, Asynchronous

LEMMA BreakStep == PrintInv /\ BreakAsked /\ [Next]_vars => BreakAsked'
<1> SUFFICES ASSUME PrintInv, BreakAsked, [Next]_vars PROVE BreakAsked'
  OBVIOUS
<1>1. CASE BreakHeater
  BY <1>1 DEF BreakHeater, BreakAsked, HeaterWaits, PrintInv, TypeOK, DataType
<1>2. CASE \E g \in Greenlets : Command(g)
  BY <1>2, CommandBreak
<1>3. CASE ~BreakHeater /\ ~\E g \in Greenlets : Command(g)
  BY <1>3, OtherBreak DEF NoNewWait, BreakAsked
<1> QED BY <1>1, <1>2, <1>3
-----------------------------------------------------------------------------
(* Every reachable state satisfies IInv: what a print keeps to, an exact   *)
(* queue and a known owner of the mutex, and breaks only on request.       *)
THEOREM Invariance == Spec => []IInv
<1>1. Init => IInv
  <2> SUFFICES ASSUME Init PROVE QueueExact /\ OwnerKnown /\ PauseCommanded /\ BreakAsked
    BY InitInv DEF IInv
  <2>1. Lock!Queued = {} BY DEF Init, Lock!Queued
  <2> QED BY <2>1 DEF Init, QueueExact, OwnerKnown, PauseCommanded, BreakAsked, HeaterWaits
<1>2. IInv /\ [Next]_vars => IInv'
  BY StepInv, MutexStep, PauseStep, BreakStep DEF IInv, MutexInv
<1> QED BY <1>1, <1>2, PTL DEF Spec

-----------------------------------------------------------------------------
(* No wait is part of a cycle. *)

(* When all are parked, the owner of the mutex can be resumed, or it is in *)
(* do_pause and the work_handler, told to stop, can be resumed.            *)
LEMMA OwnerGoesOn ==
    ASSUME IInv, running = NoOne, holder # NoOne
    PROVE  \/ Ready(holder)
           \/ WaitsFor(holder) = SD /\ Ready(SD) /\ sd.mustPause
<1>1. holder \in Greenlets /\ pc[holder] \in Places
  BY DEF IInv, PrintInv, TypeOK, ControlType
<1>2. running # holder
  BY <1>1
<1>3. pc[holder] = "mutex" \/ InScript(holder)
  BY DEF IInv, OwnerKnown
<1>4. pc[holder] \notin {"gcode", "stopped", "failed"}
  BY <1>1, <1>2 DEF IInv, PrintInv, Active
<1>5. CASE pc[holder] = "dopause" /\ MustWait
  <2>1. script[holder] # <<>>
    BY <1>3, <1>5 DEF InScript
  <2>2. Head(script[holder]) \in PauseCommands
    BY <1>1, <1>5, <2>1 DEF IInv, PauseCommanded
  <2>3. sd.mustPause /\ sd.work /\ ~sd.fromSd
    BY <1>1, <1>5, <2>1, <2>2 DEF IInv, PrintInv, PauseSeen, Pausing, MustWait
  <2>4. pc[SD] \in {"due", "read", "busy"}
    BY <2>3 DEF IInv, PrintInv, Handler, Active, TypeOK, ControlType, Places
  <2> QED BY <1>5, <2>3, <2>4 DEF Ready, WaitsFor
<1> QED BY <1>1, <1>3, <1>4, <1>5 DEF InScript, Ready

LEMMA InvNoWaitCycle == IInv => NoWaitCycle
<1> SUFFICES ASSUME IInv, running = NoOne, NEW g \in Greenlets, pc[g] # "idle", ~Ready(g)
             PROVE  /\ WaitsFor(g) # NoOne
                    /\ \/ Ready(WaitsFor(g))
                       \/ /\ WaitsFor(WaitsFor(g)) # NoOne
                          /\ Ready(WaitsFor(WaitsFor(g)))
  BY DEF NoWaitCycle
<1>1. pc[g] \in {"mutex", "dopause", "busy"}
  BY DEF IInv, PrintInv, TypeOK, ControlType, Places, Active, Ready
<1>2. SD # NoOne /\ SD \in Greenlets
  OBVIOUS
<1>3. CASE pc[g] = "mutex"
  <2>1. g \in Lock!Queued
    BY <1>3 DEF Ready, IInv, QueueExact
  <2>2. holder # NoOne
    BY <2>1 DEF IInv, OwnerKnown, Lock!Queued
  <2>3. WaitsFor(g) = holder
    BY <1>3 DEF WaitsFor
  <2> QED BY <1>2, <2>2, <2>3, OwnerGoesOn
<1>4. CASE pc[g] = "busy"
  <2>1. holder # NoOne /\ ~sd.mustPause
    BY <1>4 DEF Ready
  <2>2. WaitsFor(g) = holder
    BY <1>4 DEF WaitsFor
  <2> QED BY <1>2, <2>1, <2>2, OwnerGoesOn
<1>5. CASE pc[g] = "dopause"
  <2>1. WaitsFor(g) = SD /\ sd.work /\ ~sd.fromSd
    BY <1>5 DEF WaitsFor, Ready, MustWait
  <2>2. pc[SD] \in {"due", "read", "busy"}
    BY <2>1 DEF IInv, PrintInv, Handler, Active, TypeOK, ControlType, Places
  <2>3. CASE ~Ready(SD)
    <3>1. holder # NoOne /\ ~sd.mustPause /\ WaitsFor(SD) = holder
      BY <2>2, <2>3 DEF Ready, WaitsFor
    <3> QED BY <2>1, <3>1, <1>2, OwnerGoesOn
  <2> QED BY <1>2, <2>1, <2>3
<1> QED BY <1>1, <1>3, <1>4, <1>5

(* Every chain of waits ends, at the second other greenlet at the latest,  *)
(* with one the reactor can resume: do_pause under the mutex, the mutex    *)
(* and the yielding of the work_handler never wait for each other.         *)
THEOREM NoWaitCycles == Spec => []NoWaitCycle
BY Invariance, InvNoWaitCycle, PTL

(* Nobody asks for a mutex that it owns or has asked for, which would park *)
(* it forever: run_script never finds its own greenlet there.              *)
THEOREM AskedForOnce ==
    Spec => [](\A g \in Greenlets :
                 pc[g] \in {"idle", "delay", "onerror"} => holder # g /\ g \notin Lock!Queued)
<1>1. IInv => \A g \in Greenlets :
                pc[g] \in {"idle", "delay", "onerror"} => holder # g /\ g \notin Lock!Queued
  BY DEF IInv, QueueExact, OwnerKnown, InScript
<1> QED BY <1>1, Invariance, PTL

(* All of it uses the mutex as GCodeLock has it, which is what             *)
(* ReactorMutex implements: nothing takes, queues for or releases it       *)
(* otherwise.                                                              *)
THEOREM PrintUsesLock == Spec => Lock!Spec
<1>1. Init => Lock!Init
  BY DEF Init, Lock!Init
<1>2. PrintInv /\ [Next]_vars => [Lock!Next]_Lock!lockVars
  <2> SUFFICES ASSUME PrintInv, [Next]_vars PROVE Lock!Next \/ UNCHANGED <<holder, waiting>>
    BY DEF Lock!lockVars
  <2>1. SD \in Greenlets /\ RO \in Greenlets /\ Clients \subseteq Greenlets
    OBVIOUS
  <2>2. ASSUME NEW g \in Greenlets, NEW s, RunScript(g, s) PROVE Lock!Next
    BY <2>2 DEF RunScript, Lock!Next
  <2>3. ASSUME NEW g \in Greenlets, Lock!Release(g) PROVE Lock!Next
    BY <2>3 DEF Lock!Next
  <2>4. ASSUME NEW g \in Greenlets, Command(g), ~EndScript(g)
        PROVE  UNCHANGED <<holder, waiting>>
    BY <2>4 DEF Command, SkipLine, Move, Fail, HeatAndWait, TemperatureWait, PauseIgnored,
       PauseAtOnce, PausePrint, PauseCompletes, ResumeIgnored, ResumeMovesBack,
       ResumeRefused, ResumePrint, ClearPauseCmd, CancelNothing, CancelPrint,
       CancelCompletes, ResetFile, ResetFileCompletes, LoadFile, M24, M25, M25Completes,
       M112, Crash, DoPause, NextLine, Raise
  <2>5. ASSUME NEW g \in Greenlets, EndScript(g) PROVE Lock!Next
    BY <2>3, <2>5 DEF EndScript
  <2>6. ASSUME NEW g \in Greenlets, Wake(g) PROVE UNCHANGED <<holder, waiting>>
    BY <2>6 DEF Wake, GetMutex, EndWait, WaitFails, DoPauseReturns, MoveBackEnds
  <2>7. ASSUME SdStep \/ SdStart \/ SdWake
        PROVE  Lock!Next \/ UNCHANGED <<holder, waiting>>
    <3>1. SdDispatch => Lock!Next
      BY <2>1 DEF SdDispatch, Lock!Next
    <3>2. SdLineDone \/ SdLineFailed \/ SdLineCrashes \/ SdOnErrorDone => Lock!Next
      BY <2>1, <2>3 DEF SdLineDone, SdLineFailed, SdLineCrashes, SdOnErrorDone
    <3>3. SdOnError => Lock!Next
      BY <2>1, <2>2 DEF SdOnError
    <3> QED BY <2>7, <3>1, <3>2, <3>3 DEF SdStep, SdRead, SdEndOfFile, SdReadFails, SdYield,
       SdExit, SdStart, SdWake
  <2>8. ASSUME NEW g \in Clients, NEW s \in Scripts, Request(g, s) PROVE Lock!Next
    BY <2>1, <2>2, <2>8 DEF Request
  <2>9. RunoutScript => Lock!Next
    BY <2>1, <2>2 DEF RunoutScript
  <2>10. ASSUME RunoutPaused \/ RunoutBegin \/ IdleReady \/ BreakMacro \/ ResumeMacro
                \/ BreakHeater \/ EmergencyStop \/ Runout \/ Quiet \/ UNCHANGED vars
         PROVE  UNCHANGED <<holder, waiting>>
    BY <2>10 DEF RunoutPaused, RunoutBegin, IdleReady, BreakMacro, ResumeMacro, BreakHeater,
       EmergencyStop, Runout, Quiet, vars
  <2> QED BY <2>4, <2>5, <2>6, <2>7, <2>8, <2>9, <2>10 DEF Next, RunoutWake, Asynchronous
<1> QED BY <1>1, <1>2, PrintInvariance, PTL DEF Spec, Lock!Spec
-----------------------------------------------------------------------------
(* Breaking off a wait *)

(* Only the loops of the heaters note a break nobody asked for. *)
LEMMA CutBy ==
    ASSUME PrintInv, [Next]_vars, hist'.cut # hist.cut
    PROVE  \E g \in Greenlets : TemperatureWait(g) \/ EndWait(g)
<1>0. hist \in [last : Nat, skipped : BOOLEAN, asked : BOOLEAN, cut : BOOLEAN]
  BY DEF PrintInv, TypeOK, DataType
<1>1. ASSUME NEW g \in Greenlets, Command(g) PROVE TemperatureWait(g)
  <2>1. CASE UNCHANGED hist
    BY <2>1
  <2>2. CASE SkipLine(g) \/ HeatAndWait(g) \/ ResetFile(g) \/ ResetFileCompletes(g)
             \/ LoadFile(g, "M23") \/ LoadFile(g, "SDCARD_PRINT_FILE")
    BY <1>0, <2>2 DEF SkipLine, HeatAndWait, ResetFile, ResetFileCompletes, LoadFile, Forgotten
  <2> QED BY <1>1, <2>1, <2>2 DEF Command, Move, Fail, PauseIgnored, PauseAtOnce, PausePrint,
     PauseCompletes, ResumeIgnored, ResumeMovesBack, ResumeRefused, ResumePrint,
     ClearPauseCmd, CancelNothing, CancelPrint, CancelCompletes, M24, M25, M25Completes,
     M112, Crash, EndScript
<1>2. ASSUME NEW g \in Greenlets, Wake(g) PROVE EndWait(g)
  BY <1>2 DEF Wake, GetMutex, WaitFails, DoPauseReturns, MoveBackEnds
<1>3. ~(SdStep \/ SdStart \/ SdWake)
  <2>1. CASE SdLineDone
    BY <1>0, <2>1 DEF SdLineDone
  <2> QED BY <2>1 DEF SdStep, SdStart, SdWake, SdRead, SdEndOfFile, SdReadFails, SdYield,
     SdDispatch, SdLineFailed, SdLineCrashes, SdOnError, SdOnErrorDone, SdExit
<1>4. CASE BreakHeater
  BY <1>0, <1>4 DEF BreakHeater
<1> QED BY <1>1, <1>2, <1>3, <1>4 DEF Next, RunoutPaused, RunoutWake, RunoutBegin,
   RunoutScript, IdleReady, Asynchronous, Request, BreakMacro, ResumeMacro, EmergencyStop,
   Runout, Quiet, vars

(* The flag breaks off unasked only a TEMPERATURE_WAIT that begins: M109   *)
(* clears it, and a wait that has begun is broken off on request only.     *)
THEOREM OnlyStaleBreaksHolds == Spec => OnlyStaleBreaks
<1>1. IInv /\ [Next]_vars => [hist'.cut /\ ~hist.cut =>
        \E g \in Greenlets : At(g, "TEMPERATURE_WAIT") /\ flags.heat]_vars
  <2> SUFFICES ASSUME IInv, [Next]_vars, hist'.cut, ~hist.cut
               PROVE  \E g \in Greenlets : At(g, "TEMPERATURE_WAIT") /\ flags.heat
    OBVIOUS
  <2>1. PICK g \in Greenlets : TemperatureWait(g) \/ EndWait(g)
    BY CutBy DEF IInv
  <2>2. hist \in [last : Nat, skipped : BOOLEAN, asked : BOOLEAN, cut : BOOLEAN]
    BY DEF IInv, PrintInv, TypeOK, DataType
  <2>3. CASE EndWait(g)
    <3>1. HeaterWaits(g) /\ flags.heat /\ ~hist.asked
      BY <2>2, <2>3 DEF EndWait, HeaterWaits
    <3> QED BY <3>1 DEF IInv, BreakAsked
  <2>4. CASE TemperatureWait(g)
    BY <2>2, <2>4 DEF TemperatureWait
  <2> QED BY <2>1, <2>3, <2>4
<1> QED BY <1>1, Invariance, PTL DEF Spec, OnlyStaleBreaks

-----------------------------------------------------------------------------
(* What the documentation says, and what takes it away *)

(* The break flags are set by their endpoints only, and a line is dropped  *)
(* by that of gcode only.                                                  *)
LEMMA FlagsBy ==
    ASSUME PrintInv, [Next]_vars
    PROVE  /\ flags'.heat => flags.heat \/ BreakHeater
           /\ flags'.gcode => flags.gcode \/ BreakMacro
           /\ hist'.skipped => hist.skipped \/ \E g \in Greenlets : SkipLine(g)
<1>0. /\ flags \in [gcode : BOOLEAN, heat : BOOLEAN, shutdown : BOOLEAN]
      /\ hist \in [last : Nat, skipped : BOOLEAN, asked : BOOLEAN, cut : BOOLEAN]
  BY DEF PrintInv, TypeOK, DataType
<1> DEFINE Tame == /\ flags'.heat => flags.heat
                   /\ flags'.gcode => flags.gcode
                   /\ hist'.skipped => hist.skipped
<1>1. UNCHANGED <<flags, hist>> => Tame
  OBVIOUS
<1>2. ASSUME NEW g \in Greenlets, Command(g), ~SkipLine(g) PROVE Tame
  <2>1. ASSUME HeatAndWait(g) \/ TemperatureWait(g) PROVE Tame
    BY <1>0, <2>1 DEF HeatAndWait, TemperatureWait
  <2>2. ASSUME CancelNothing(g) \/ CancelPrint(g) PROVE Tame
    BY <1>0, <2>2 DEF CancelNothing, CancelPrint, UnbreakFlags
  <2>3. ASSUME ResetFile(g) \/ ResetFileCompletes(g) \/ LoadFile(g, "M23")
               \/ LoadFile(g, "SDCARD_PRINT_FILE")
        PROVE  Tame
    BY <1>0, <2>3 DEF ResetFile, ResetFileCompletes, LoadFile, Forgotten
  <2>4. ASSUME M112(g) \/ Crash(g) PROVE Tame
    BY <1>0, <2>4 DEF M112, Crash, InvokeShutdown
  <2> QED BY <1>1, <1>2, <2>1, <2>2, <2>3, <2>4 DEF Command, Move, Fail, PauseIgnored,
     PauseAtOnce, PausePrint, PauseCompletes, ResumeIgnored, ResumeMovesBack, ResumeRefused,
     ResumePrint, ClearPauseCmd, CancelCompletes, M24, M25, M25Completes, EndScript
<1>3. ASSUME NEW g \in Greenlets, Command(g), SkipLine(g)
      PROVE  (flags'.heat => flags.heat) /\ (flags'.gcode => flags.gcode)
  BY <1>3 DEF SkipLine
<1>4. ASSUME NEW g \in Greenlets, Wake(g) PROVE Tame
  <2>1. ASSUME EndWait(g) PROVE Tame
    BY <1>0, <2>1 DEF EndWait
  <2> QED BY <1>1, <1>4, <2>1 DEF Wake, GetMutex, WaitFails, DoPauseReturns, MoveBackEnds
<1>5. ASSUME SdStep \/ SdStart \/ SdWake PROVE Tame
  <2>1. ASSUME SdLineDone \/ SdLineCrashes PROVE Tame
    BY <1>0, <2>1 DEF SdLineDone, SdLineCrashes, InvokeShutdown
  <2> QED BY <1>1, <1>5, <2>1 DEF SdStep, SdStart, SdWake, SdRead, SdEndOfFile, SdReadFails,
     SdYield, SdDispatch, SdLineFailed, SdOnError, SdOnErrorDone, SdExit
<1>6. ASSUME ResumeMacro \/ EmergencyStop PROVE Tame
  BY <1>0, <1>6 DEF ResumeMacro, EmergencyStop, InvokeShutdown
<1>7. ASSUME RunoutPaused \/ RunoutWake \/ IdleReady \/ Runout \/ Quiet \/ UNCHANGED vars
      PROVE  Tame
  BY <1>1, <1>7 DEF RunoutPaused, RunoutWake, RunoutBegin, RunoutScript, IdleReady, Runout,
     Quiet, vars
<1>8. ASSUME NEW g \in Clients, NEW s \in Scripts, Request(g, s) PROVE Tame
  BY <1>1, <1>8 DEF Request
<1>9. ASSUME BreakMacro PROVE (flags'.heat => flags.heat) /\ (hist'.skipped => hist.skipped)
  BY <1>0, <1>9 DEF BreakMacro
<1>10. ASSUME BreakHeater PROVE (flags'.gcode => flags.gcode) /\ (hist'.skipped => hist.skipped)
  BY <1>0, <1>10 DEF BreakHeater
<1> QED BY <1>2, <1>3, <1>4, <1>5, <1>6, <1>7, <1>8, <1>9, <1>10 DEF Next, Asynchronous

(* Without /api/breakheater a wait always ends at its temperature: the     *)
(* flag it leaves behind is all that breaks WaitsForTemperature.           *)
THEOREM WaitsHoldWithoutBreak ==
    ASSUME "breakheater" \notin Events
    PROVE  Spec => []WaitsForTemperature
<1> DEFINE J == ~flags.heat /\ ~hist.cut
<1>1. Init => J
  BY DEF Init
<1>2. IInv /\ J /\ [Next]_vars => J'
  <2> SUFFICES ASSUME IInv, J, [Next]_vars PROVE J'
    OBVIOUS
  <2>1. ~BreakHeater
    BY DEF BreakHeater
  <2>2. ~flags'.heat
    BY <2>1, FlagsBy DEF IInv
  <2>3. hist \in [last : Nat, skipped : BOOLEAN, asked : BOOLEAN, cut : BOOLEAN]
    BY DEF IInv, PrintInv, TypeOK, DataType
  <2>4. ASSUME NEW g \in Greenlets, TemperatureWait(g) \/ EndWait(g) PROVE ~hist'.cut
    BY <2>3, <2>4 DEF TemperatureWait, EndWait
  <2>5. ~hist'.cut
    BY <2>4, CutBy DEF IInv
  <2> QED BY <2>2, <2>5
<1>3. J => WaitsForTemperature
  BY DEF WaitsForTemperature
<1> HIDE DEF J
<1> QED BY <1>1, <1>2, <1>3, Invariance, PTL DEF Spec

(* Without /api/breakmacro a PAUSE saves the position RESUME goes back to, *)
(* and a print that is reported complete has dropped no line: the flag is  *)
(* all that breaks PauseCaptures and CompleteIsWhole.                      *)
THEOREM WholeWithoutBreak ==
    ASSUME "breakmacro" \notin Events
    PROVE  Spec => [](PauseCaptures /\ CompleteIsWhole)
<1> DEFINE J == ~flags.gcode /\ ~hist.skipped /\ (pr.paused => pr.saved)
<1>1. Init => J
  BY DEF Init
<1>2. IInv /\ J /\ [Next]_vars => J'
  <2> SUFFICES ASSUME IInv, J, [Next]_vars PROVE J'
    OBVIOUS
  <2>1. ~BreakMacro /\ ~\E g \in Greenlets : SkipLine(g)
    BY DEF BreakMacro, SkipLine
  <2>2. ~flags'.gcode /\ ~hist'.skipped
    BY <2>1, FlagsBy DEF IInv
  <2>3. pr \in PrFields
    BY DEF IInv, PrintInv, TypeOK, DataType
  <2>4. ASSUME NEW g \in Greenlets, PauseAtOnce(g) \/ PauseCompletes(g) PROVE pr'.saved
    <3>1. CASE PauseAtOnce(g)
      BY <3>1, Zenon DEF PauseAtOnce
    <3>2. CASE PauseCompletes(g)
      <4>1. pr' = [pr EXCEPT !.sent = TRUE, !.paused = TRUE, !.saved = ~flags.gcode]
        BY <3>2, Zenon DEF PauseCompletes
      <4>2. pr'.saved = ~flags.gcode
        BY <2>3, <4>1 DEF PrFields
      <4> QED BY <4>2
    <3> QED BY <2>4, <3>1, <3>2
  <2>5. ASSUME RunoutBegin \/ RunoutPaused PROVE pr'.paused = pr.paused /\ pr'.saved = pr.saved
    BY <2>3, <2>5 DEF RunoutBegin, RunoutPaused, PrFields
  <2>6. pr'.paused => pr'.saved
    BY <2>4, <2>5, PauseFields DEF IInv
  <2> QED BY <2>2, <2>6
<1>3. J => PauseCaptures /\ CompleteIsWhole
  BY DEF PauseCaptures, CompleteIsWhole
<1> HIDE DEF J
<1> QED BY <1>1, <1>2, <1>3, Invariance, PTL DEF Spec

(* The runout event stays out of it. *)
LEMMA NoRunout ==
    ASSUME "runout" \notin Events, PrintInv, [Next]_vars, pc[RO] = "idle"
    PROVE  pc'[RO] = "idle"
<1>0. pc \in [Greenlets -> Places] /\ RO \in Greenlets /\ RO # SD
  BY DEF PrintInv, TypeOK, ControlType
<1>1. ~RunoutPaused /\ ~RunoutWake /\ ~Runout
  BY DEF RunoutPaused, RunoutWake, RunoutBegin, RunoutScript, Runout
<1>2. ASSUME NEW g \in Greenlets, Command(g) PROVE pc'[RO] = "idle"
  <2>1. pc[g] \in {"gcode", "stopped", "failed"}
    BY <1>2 DEF Command, SkipLine, Move, Fail, HeatAndWait, TemperatureWait, PauseIgnored,
       PauseAtOnce, PausePrint, PauseCompletes, ResumeIgnored, ResumeMovesBack,
       ResumeRefused, ResumePrint, ClearPauseCmd, CancelNothing, CancelPrint,
       CancelCompletes, ResetFile, ResetFileCompletes, LoadFile, M24, M25, M25Completes,
       M112, Crash, EndScript, At, Executing, Stopped
  <2>2. g # RO BY <2>1
  <2>3. CASE ResumePrint(g) \/ M24(g) \/ LoadFile(g, "M23") \/ LoadFile(g, "SDCARD_PRINT_FILE")
    BY <1>0, <2>2, <2>3 DEF ResumePrint, M24, LoadFile, Raise
  <2>4. CASE pc' = pc \/ \E p : pc' = [pc EXCEPT ![g] = p]
    BY <1>0, <2>2, <2>4
  <2> QED BY <1>2, <2>3, <2>4 DEF Command, SkipLine, Move, Fail, HeatAndWait, TemperatureWait,
     PauseIgnored, PauseAtOnce, PausePrint, PauseCompletes, ResumeIgnored, ResumeMovesBack,
     ResumeRefused, ClearPauseCmd, CancelNothing, CancelPrint, CancelCompletes, ResetFile,
     ResetFileCompletes, M25, M25Completes, M112, Crash, EndScript, DoPause, NextLine, Raise,
     Park
<1>3. ASSUME NEW g \in Greenlets, Wake(g) PROVE pc'[RO] = "idle"
  BY <1>0, <1>3 DEF Wake, GetMutex, EndWait, WaitFails, MoveBackEnds, DoPauseReturns
<1>4. ASSUME SdStep \/ SdStart \/ SdWake PROVE pc'[RO] = "idle"
  BY <1>0, <1>4 DEF SdStep, SdRead, SdEndOfFile, SdReadFails, SdYield, SdDispatch,
     SdLineDone, SdLineFailed, SdLineCrashes, SdOnError, SdOnErrorDone, SdExit, SdStart,
     SdWake, RunScript, SdGoes, Park
<1>5. ASSUME NEW g \in Clients, NEW s \in Scripts, Request(g, s) PROVE pc'[RO] = "idle"
  BY <1>0, <1>5 DEF Request, RunScript, Park
<1>6. ASSUME IdleReady \/ BreakMacro \/ ResumeMacro \/ BreakHeater \/ EmergencyStop \/ Quiet
             \/ UNCHANGED vars
      PROVE  pc'[RO] = "idle"
  BY <1>6 DEF IdleReady, BreakMacro, ResumeMacro, BreakHeater, EmergencyStop, Quiet, vars
<1> QED BY <1>1, <1>2, <1>3, <1>4, <1>5, <1>6 DEF Next, Asynchronous

(* Without a runout event a PAUSE that takes effect has always told the    *)
(* work_handler to stop: the pause command that event sends before the     *)
(* print starts is all that breaks PauseTakesEffect.                       *)
THEOREM PausesWithoutRunout ==
    ASSUME "runout" \notin Events
    PROVE  Spec => PauseTakesEffect
<1> DEFINE J == pc[RO] = "idle" /\ (pr.sent => pr.paused)
<1>1. Init => J
  BY DEF Init
<1>2. IInv /\ J /\ [Next]_vars => J'
  <2> SUFFICES ASSUME IInv, J, [Next]_vars PROVE J'
    OBVIOUS
  <2>1. pc'[RO] = "idle"
    BY NoRunout DEF IInv
  <2>2. ~RunoutBegin /\ ~RunoutPaused
    BY DEF RunoutBegin, RunoutPaused
  <2>3. pr \in PrFields
    BY DEF IInv, PrintInv, TypeOK, DataType
  <2>4. ASSUME NEW g \in Greenlets, PauseAtOnce(g) \/ PauseCompletes(g) PROVE pr'.paused
    <3>1. CASE PauseAtOnce(g)
      BY <3>1, Zenon DEF PauseAtOnce
    <3>2. CASE PauseCompletes(g)
      <4>1. pr' = [pr EXCEPT !.sent = TRUE, !.paused = TRUE, !.saved = ~flags.gcode]
        BY <3>2, Zenon DEF PauseCompletes
      <4>2. pr'.paused = TRUE
        BY <2>3, <4>1 DEF PrFields
      <4> QED BY <4>2
    <3> QED BY <2>4, <3>1, <3>2
  <2>5. pr'.sent => pr'.paused
    BY <2>2, <2>4, PauseFields DEF IInv
  <2> QED BY <2>1, <2>5
<1>3. J /\ [~pr.paused /\ pr'.paused /\ ~pr.sent /\ sd'.work => sd'.mustPause]_vars
      => [~pr.paused /\ pr'.paused /\ sd'.work => sd'.mustPause]_vars
  OBVIOUS
<1> HIDE DEF J
<1> QED BY <1>1, <1>2, <1>3, Invariance, PauseStopsPrintHolds, PTL
    DEF Spec, PauseStopsPrint, PauseTakesEffect
=============================================================================
