---------------------------- MODULE TriggerSync ----------------------------
(***************************************************************************)
(* Homing with several micro-controllers: src/trsync.c, src/endstop.c and  *)
(* stepper_stop of src/stepper.c in each controller, the dispatcher        *)
(* klippy/chelper/trdispatch.c on the host, which runs in the threads that *)
(* read the serial lines, and MCU_trsync and MCU_endstop of klippy/mcu.py. *)
(*                                                                         *)
(* The controller with the endstop (Primary) and those that move steppers  *)
(* report their state to the host every Report ticks.  The host lets a     *)
(* controller run until Expire ticks after the last report of the others;  *)
(* a controller that is not given more time stops by itself.               *)
(*                                                                         *)
(* The links keep order and have any delay (SerialQueue); a report may be  *)
(* lost, a command is not.  All clocks show the same time: the conversion  *)
(* between the clocks of the controllers is taken to be exact.             *)
(***************************************************************************)
EXTENDS Integers, Sequences, FiniteSets, FiniteSetsExt

CONSTANTS
    Mcus,        \* the controllers of one endstop: MCU_endstop._trsyncs
    Primary,     \* _trsyncs[0], which reads the endstop
    Expire,      \* expire_ticks
    Report,      \* report_ticks
    MinExtend,   \* min_extend_ticks
    Lead,        \* how far ahead of the present a move starts
    Move,        \* how long the move takes
    MaxTime,     \* bound: the time
    MaxSessions, \* bound: homing moves
    MaxIncidents  \* bound: reports lost, lines that fail and the end of
                  \* the host process, all together

None == "none"

ASSUME SyncAssumption ==
    /\ IsFiniteSet(Mcus) /\ Primary \in Mcus /\ None \notin Mcus
    /\ Expire \in Nat /\ Report \in Nat \ {0} /\ MinExtend \in Nat
    /\ Lead \in Nat /\ Move \in Nat
    /\ MaxTime \in Nat /\ MaxSessions \in Nat /\ MaxIncidents \in Nat

VARIABLES
    now,
    \* struct trsync and the steppers, in each controller
    can,         \* TSF_CAN_TRIGGER
    report,      \* TSF_REPORT
    reason,      \* trigger_reason
    armed,       \* the stop signals of the steppers are registered
    expire,      \* expire_time, NoTime when the timer is not scheduled
    nextReport,  \* report_time, likewise
    halted,      \* the controller is shut down
    endstop,     \* time of the endstop timer of Primary, NoTime without
    \* the lines
    toMcu, toHost,
    cut,         \* the lines that have failed
    \* struct trdispatch, struct trdispatch_mcu
    active,      \* is_active: the fast readers are registered
    canDispatch, \* can_trigger
    lastStatus,  \* last_status_clock
    expireClock, \* expire_clock
    \* MCU_endstop and MCU_trsync
    phase,       \* where home_start and home_wait are
    start,       \* print_time of the move
    homeEnd,     \* _home_end_clock of Primary, NoTime for None
    complete,    \* _trigger_completion is complete
    asking,      \* the controller that stop() queries, None without
    answer,      \* last_params of SerialRetryCommand: its trigger_reason
    res,         \* the trigger reasons that stop() has returned
    result,      \* what home_wait has returned
    \* bookkeeping
    session,     \* homing moves so far
    stopTime,    \* when the steppers of a controller stopped in this move
    cutTime,     \* when its line failed
    crashTime,   \* when the host process ended
    lost          \* reports lost so far

mcuVars == <<can, report, reason, armed, expire, nextReport, halted, endstop,
             stopTime>>
dispatchVars == <<active, canDispatch, lastStatus, expireClock>>
hostVars == <<phase, start, homeEnd, complete, asking, answer, res,
              result, session>>
faultVars == <<cut, cutTime, crashTime, lost>>
vars == <<now, mcuVars, toMcu, toHost, dispatchVars, hostVars, faultVars>>

NoTime == -1

(* Trigger reasons: 0, REASON_ENDSTOP_HIT, REASON_COMMS_TIMEOUT,           *)
(* REASON_HOST_REQUEST and REASON_PAST_END_TIME.                           *)
Reasons == {"zero", "hit", "timeout", "host", "end"}

(* Commands to a controller. *)
Command(c, t, r) == [cmd |-> c, clock |-> t, reason |-> r]
Start(t) == Command("trsync_start", t, "timeout")
SetTimeout(t) == Command("trsync_set_timeout", t, "zero")
Trigger(r) == Command("trsync_trigger", 0, r)
Query == Command("query", 0, "host")       \* trsync_trigger of stop()
Home(t) == Command("endstop_home", t, "hit")
Unhome == Command("endstop_off", 0, "zero")

(* Messages of a controller: trsync_state, and the completion of a query.  *)
State(c, r, t) == [done |-> FALSE, can |-> c, reason |-> r, clock |-> t]
Done == [done |-> TRUE, can |-> FALSE, reason |-> "zero", clock |-> 0]

HostUp == crashTime = NoTime

(* What a controller sends when nobody can hear it any more is left out.   *)
Heard(m) == HostUp /\ m \notin cut
Sent(m, msgs) == [toHost EXCEPT ![m] = IF Heard(m) THEN @ \o msgs ELSE @]
Posted(msgs) == [m \in Mcus |-> IF m \in cut THEN toMcu[m]
                                ELSE toMcu[m] \o msgs[m]]
Only(p, msgs) == [m \in Mcus |-> IF m = p THEN msgs ELSE <<>>]

Init ==
    /\ now = 0
    /\ can = [m \in Mcus |-> FALSE] /\ report = [m \in Mcus |-> FALSE]
    /\ reason = [m \in Mcus |-> "zero"] /\ armed = [m \in Mcus |-> FALSE]
    /\ expire = [m \in Mcus |-> NoTime]
    /\ nextReport = [m \in Mcus |-> NoTime]
    /\ halted = [m \in Mcus |-> FALSE]
    /\ endstop = NoTime
    /\ toMcu = [m \in Mcus |-> <<>>] /\ toHost = [m \in Mcus |-> <<>>]
    /\ cut = {}
    /\ active = FALSE /\ canDispatch = FALSE
    /\ lastStatus = [m \in Mcus |-> 0] /\ expireClock = [m \in Mcus |-> 0]
    /\ phase = "idle" /\ start = 0 /\ homeEnd = NoTime /\ complete = FALSE
    /\ asking = None /\ answer = None
    /\ res = [m \in Mcus |-> None] /\ result = None
    /\ session = 0
    /\ stopTime = [m \in Mcus |-> NoTime]
    /\ cutTime = [m \in Mcus |-> NoTime] /\ crashTime = NoTime /\ lost = 0
-----------------------------------------------------------------------------
(* The controllers: interrupts.                                            *)

(* trsync_do_trigger: stop the steppers, once.                             *)
DoTrigger(m, r) ==
    IF can[m]
    THEN /\ can' = [can EXCEPT ![m] = FALSE]
         /\ reason' = [reason EXCEPT ![m] = r]
         /\ armed' = [armed EXCEPT ![m] = FALSE]
         /\ stopTime' = [stopTime EXCEPT ![m] = now]
    ELSE UNCHANGED <<can, reason, armed, stopTime>>

ExpireEvent(m) ==
    /\ expire[m] # NoTime /\ expire[m] <= now
    /\ expire' = [expire EXCEPT ![m] = NoTime]
    /\ DoTrigger(m, "timeout")
    /\ report' = [report EXCEPT ![m] = @ \/ can[m]]
    /\ UNCHANGED <<now, nextReport, halted, endstop, toMcu, toHost,
                   dispatchVars, hostVars, faultVars>>

ReportEvent(m) ==
    /\ nextReport[m] # NoTime /\ nextReport[m] <= now
    /\ nextReport' = [nextReport EXCEPT ![m] = @ + Report]
    /\ report' = [report EXCEPT ![m] = TRUE]
    /\ UNCHANGED <<now, can, reason, armed, expire, halted, endstop,
                   stopTime, toMcu, toHost, dispatchVars,
                   hostVars, faultVars>>

(* endstop_oversample_event, when the last sample matches.                 *)
EndstopEvent ==
    /\ endstop # NoTime /\ endstop <= now
    /\ endstop' = NoTime
    /\ DoTrigger(Primary, "hit")
    /\ report' = [report EXCEPT ![Primary] = @ \/ can[Primary]]
    /\ UNCHANGED <<now, expire, nextReport, halted, toMcu,
                   toHost, dispatchVars, hostVars, faultVars>>
-----------------------------------------------------------------------------
(* The controllers: tasks.                                                 *)

(* trsync_task: the time is read just before the flags.                    *)
TaskReports(m) ==
    /\ report[m]
    /\ report' = [report EXCEPT ![m] = FALSE]
    /\ toHost' = Sent(m, <<State(can[m], reason[m], now)>>)
    /\ UNCHANGED <<now, can, reason, armed, expire, nextReport, halted,
                   endstop, stopTime, toMcu, dispatchVars,
                   hostVars, faultVars>>

(* A command handler runs.                                                 *)
Runs(m, c) ==
    /\ toMcu[m] # <<>> /\ Head(toMcu[m]).cmd = c
    /\ ~halted[m]
    /\ toMcu' = [toMcu EXCEPT ![m] = Tail(@)]
    /\ UNCHANGED <<now, dispatchVars, hostVars, faultVars>>

(* A timer that is set in the past ("Timer too close"): the controller is  *)
(* shut down, stepper_shutdown stops the steppers and trsync_shutdown      *)
(* clears the trigger.                                                     *)
Halt(m) ==
    /\ halted' = [halted EXCEPT ![m] = TRUE]
    /\ can' = [can EXCEPT ![m] = FALSE]
    /\ report' = [report EXCEPT ![m] = FALSE]
    /\ reason' = [reason EXCEPT ![m] = "zero"]
    /\ armed' = [armed EXCEPT ![m] = FALSE]
    /\ expire' = [expire EXCEPT ![m] = NoTime]
    /\ nextReport' = [nextReport EXCEPT ![m] = NoTime]
    /\ endstop' = IF m = Primary THEN NoTime ELSE endstop
    /\ stopTime' = [stopTime EXCEPT ![m] = IF @ = NoTime THEN now ELSE @]
    /\ UNCHANGED toHost

(* trsync_start, and stepper_stop_on_trigger, which is sent with it.       *)
TrsyncStart(m) ==
    LET t == Head(toMcu[m]).clock
    IN  /\ Runs(m, "trsync_start")
        /\ \/ t < now /\ Halt(m)
           \/ /\ t >= now
              /\ can' = [can EXCEPT ![m] = TRUE]
              /\ report' = [report EXCEPT ![m] = FALSE]
              /\ reason' = [reason EXCEPT ![m] = "zero"]
              /\ armed' = [armed EXCEPT ![m] = TRUE]
              /\ expire' = [expire EXCEPT ![m] = NoTime]
              /\ nextReport' = [nextReport EXCEPT ![m] = t]
              /\ UNCHANGED <<halted, endstop, stopTime, toHost>>

TrsyncSetTimeout(m) ==
    LET t == Head(toMcu[m]).clock
    IN  /\ Runs(m, "trsync_set_timeout")
        /\ \/ can[m] /\ t < now /\ Halt(m)
           \/ /\ can[m] /\ t >= now
              /\ expire' = [expire EXCEPT ![m] = t]
              /\ UNCHANGED <<can, report, reason, armed, nextReport, halted,
                             endstop, stopTime, toHost>>
           \/ /\ ~can[m]
              /\ UNCHANGED <<can, report, reason, armed, expire, nextReport,
                             halted, endstop, stopTime, toHost>>

(* A slip in command_trsync_trigger: it stops the timers without a report. *)
TrsyncTriggerSilent(m) ==
    LET c == Head(toMcu[m]).cmd
    IN  /\ \E q \in {"trsync_trigger", "query"} : Runs(m, q)
        /\ DoTrigger(m, Head(toMcu[m]).reason)
        /\ report' = [report EXCEPT ![m] = FALSE]
        /\ expire' = [expire EXCEPT ![m] = NoTime]
        /\ nextReport' = [nextReport EXCEPT ![m] = NoTime]
        /\ toHost' = Sent(m, IF c = "query" THEN <<Done>> ELSE <<>>)
        /\ UNCHANGED <<halted, endstop>>

(* trsync_trigger: trigger, stop the timers and answer; the completion of  *)
(* a query comes after its answer (AnswerBeforeCompletion of SerialQueue). *)
TrsyncTrigger(m) ==
    LET c == Head(toMcu[m]).cmd
    IN  /\ \E q \in {"trsync_trigger", "query"} : Runs(m, q)
        /\ DoTrigger(m, Head(toMcu[m]).reason)
        /\ report' = [report EXCEPT ![m] = FALSE]
        /\ expire' = [expire EXCEPT ![m] = NoTime]
        /\ nextReport' = [nextReport EXCEPT ![m] = NoTime]
        /\ toHost' = Sent(m, <<State(FALSE, reason'[m], 0)>>
                               \o (IF c = "query" THEN <<Done>> ELSE <<>>))
        /\ UNCHANGED <<halted, endstop>>

EndstopHome ==
    LET t == Head(toMcu[Primary]).clock
    IN  /\ Runs(Primary, "endstop_home")
        /\ \/ t < now /\ Halt(Primary)
           \/ /\ t >= now
              /\ endstop' = t
              /\ UNCHANGED <<can, report, reason, armed, expire, nextReport,
                             halted, stopTime, toHost>>

(* endstop_home with sample_count 0. *)
EndstopOff ==
    /\ Runs(Primary, "endstop_off")
    /\ endstop' = NoTime
    /\ UNCHANGED <<can, report, reason, armed, expire, nextReport, halted,
                   stopTime, toHost>>
-----------------------------------------------------------------------------
(* The host, in the thread that reads the line of m: handle_trsync_state.  *)

Others(m) == IF Mcus = {m} THEN Mcus ELSE Mcus \ {m}

(* A slip in handle_trsync_state: each controller waits for itself.        *)
ExpireForOwn(m, status) == status[m] + Expire

(* The time until which m may run: Expire ticks after the oldest of the    *)
(* last reports of the others (its own, when it is alone).                 *)
ExpireFor(m, status) == Min({status[o] : o \in Others(m)}) + Expire

(* The timeout of m is worth extending.  The difference is compared as an  *)
(* unsigned number, so a negative one would be.                            *)
Extends(m, status) ==
    LET d == ExpireFor(m, status) - expireClock[m]
    IN  d >= MinExtend \/ d < 0

Dispatching == active /\ canDispatch

(* What the dispatcher sends to each controller. *)
Dispatched(msg, status) ==
    [o \in Mcus |->
        IF ~Dispatching THEN <<>>
        ELSE IF ~msg.can THEN <<Trigger("host")>>
        ELSE IF Extends(o, status) THEN <<SetTimeout(ExpireFor(o, status))>>
        ELSE <<>>]

(* MCU_trsync._handle_trsync_state is registered, from start() to stop().  *)
Registered(m) == phase # "idle" /\ asking # m /\ res[m] = None

PastEnd(m, msg) ==
    /\ Registered(m) /\ msg.can
    /\ m = Primary /\ homeEnd # NoTime /\ msg.clock >= homeEnd

(* A trsync_state arrives: handle_trsync_state if the fast readers are     *)
(* registered, then the handler of the message, _handle_trsync_state or,   *)
(* while stop() waits, the one of SerialRetryCommand.                      *)
HandleState(m) ==
    LET msg == Head(toHost[m])
        status == [lastStatus EXCEPT ![m] = msg.clock]
    IN  /\ Heard(m) /\ toHost[m] # <<>> /\ ~msg.done
        /\ toHost' = [toHost EXCEPT ![m] = Tail(@)]
        /\ canDispatch' = (canDispatch /\ (active => msg.can))
        /\ IF Dispatching /\ msg.can
           THEN /\ lastStatus' = status
                /\ expireClock' = [o \in Mcus |->
                                    IF Extends(o, status)
                                    THEN ExpireFor(o, status)
                                    ELSE expireClock[o]]
           ELSE UNCHANGED <<lastStatus, expireClock>>
        /\ toMcu' = Posted([o \in Mcus |->
                        Dispatched(msg, status)[o]
                        \o (IF o = m /\ PastEnd(m, msg)
                            THEN <<Trigger("end")>> ELSE <<>>)])
        /\ homeEnd' = IF PastEnd(m, msg) THEN NoTime ELSE homeEnd
        /\ complete' = (complete \/ (Registered(m) /\ ~msg.can))
        /\ answer' = IF asking = m THEN msg.reason ELSE answer
        /\ UNCHANGED <<now, mcuVars, active, phase, start, asking, res, result,
                       session, faultVars>>
-----------------------------------------------------------------------------
(* The host: MCU_endstop and MCU_trsync.                                   *)

(* home_start: trsync.start() for every controller. *)
HomeStart ==
    /\ HostUp /\ phase = "idle" /\ session < MaxSessions
    /\ session' = session + 1
    /\ start' = now + Lead
    /\ lastStatus' = [m \in Mcus |-> now + Lead]
    /\ expireClock' = [m \in Mcus |-> now + Lead + Expire]
    /\ toMcu' = Posted([m \in Mcus |-> <<Start(now + Lead),
                                         SetTimeout(now + Lead + Expire)>>])
    /\ homeEnd' = NoTime /\ complete' = FALSE
    /\ res' = [m \in Mcus |-> None] /\ result' = None
    /\ phase' = "started"
    /\ stopTime' = [m \in Mcus |-> NoTime]
    /\ UNCHANGED <<now, can, report, reason, armed, expire, nextReport, halted,
                   endstop, toHost, active, canDispatch, asking, answer,
                   faultVars>>

(* home_start, the rest: trdispatch_start, then endstop_home is sent. *)
TrdispatchStart ==
    /\ HostUp /\ phase = "started"
    /\ active' = TRUE /\ canDispatch' = TRUE
    /\ toMcu' = Posted(Only(Primary, <<Home(start)>>))
    /\ phase' = "moving"
    /\ UNCHANGED <<now, mcuVars, toHost, lastStatus, expireClock, start,
                   homeEnd, complete, asking, answer, res, result,
                   session, faultVars>>

(* home_wait: set_home_end_time.  (A move that drip_move has cut short     *)
(* ends earlier, but then the completion is there already.)                *)
SetHomeEndTime ==
    /\ HostUp /\ phase = "moving"
    /\ homeEnd' = start + Move
    /\ phase' = "waiting"
    /\ UNCHANGED <<now, mcuVars, toMcu, toHost, dispatchVars, start, complete,
                   asking, answer, res, result, session, faultVars>>

(* home_wait after _trigger_completion.wait(): switch off the endstop,    *)
(* trdispatch_stop.                                                        *)
TrdispatchStop ==
    /\ HostUp /\ phase = "waiting" /\ complete
    /\ toMcu' = Posted(Only(Primary, <<Unhome>>))
    /\ active' = FALSE
    /\ phase' = "stopping"
    /\ UNCHANGED <<now, mcuVars, toHost, canDispatch, lastStatus, expireClock,
                   start, homeEnd, complete, asking, answer, res,
                   result, session, faultVars>>

(* MCU_trsync.stop, of Primary and then of the others. *)
Ask(m) ==
    /\ HostUp /\ phase = "stopping" /\ asking = None /\ res[m] = None
    /\ m = Primary \/ res[Primary] # None
    /\ asking' = m /\ answer' = None
    /\ toMcu' = Posted(Only(m, <<Query>>))
    /\ UNCHANGED <<now, mcuVars, toHost, dispatchVars, phase, start, homeEnd,
                   complete, res, result, session, faultVars>>

(* SerialRetryCommand.get_response, when the query is completed: without   *)
(* an answer it is repeated, or the retries are used up.                   *)
Completed(m) ==
    /\ Heard(m) /\ toHost[m] # <<>> /\ Head(toHost[m]).done
    /\ toHost' = [toHost EXCEPT ![m] = Tail(@)]
    /\ \/ /\ answer # None
          /\ res' = [res EXCEPT ![m] = answer]
          /\ asking' = None
          /\ UNCHANGED <<toMcu, phase>>
       \/ /\ answer = None                       \* ask again
          /\ toMcu' = Posted(Only(m, <<Query>>))
          /\ UNCHANGED <<res, asking, phase>>
       \/ /\ answer = None                       \* an error
          /\ phase' = "failed" /\ asking' = None
          /\ UNCHANGED <<toMcu, res>>
    /\ UNCHANGED <<now, mcuVars, dispatchVars, start, homeEnd, complete,
                   answer, result, session, faultVars>>

(* Slips in home_wait: stop() is called for Primary only; a timeout of     *)
(* Primary only counts; it is taken for granted that the endstop was hit.  *)
AnsweredByPrimary == res[Primary] # None
VerdictOfPrimary ==
    IF res[Primary] = "timeout" THEN "timeout"
    ELSE IF res[Primary] # "hit" THEN "no_trigger" ELSE "hit"
VerdictTrusting ==
    IF \E m \in Mcus : res[m] = "timeout" THEN "timeout" ELSE "hit"

Answered == \A m \in Mcus : res[m] # None

(* What home_wait returns. *)
Verdict ==
    IF \E m \in Mcus : res[m] = "timeout" THEN "timeout"
    ELSE IF res[Primary] # "hit" THEN "no_trigger" ELSE "hit"

HomeWaitReturns ==
    /\ HostUp /\ phase = "stopping" /\ Answered
    /\ phase' = "idle"
    /\ result' = Verdict
    /\ UNCHANGED <<now, mcuVars, toMcu, toHost, dispatchVars, start, homeEnd,
                   complete, asking, answer, res, session, faultVars>>
-----------------------------------------------------------------------------
(* Faults.                                                                 *)

Incident == lost + Cardinality(cut) + (IF HostUp THEN 0 ELSE 1) < MaxIncidents

(* A report or an answer is lost; nobody sends it again. *)
Lose(m) ==
    /\ Incident /\ toHost[m] # <<>> /\ ~Head(toHost[m]).done
    /\ lost' = lost + 1
    /\ toHost' = [toHost EXCEPT ![m] = Tail(@)]
    /\ UNCHANGED <<now, mcuVars, toMcu, dispatchVars, hostVars, cut, cutTime,
                   crashTime>>

(* The line of a controller fails for good. *)
CutLink(m) ==
    /\ HostUp /\ m \notin cut /\ Incident
    /\ cut' = cut \cup {m}
    /\ cutTime' = [cutTime EXCEPT ![m] = now]
    /\ toMcu' = [toMcu EXCEPT ![m] = <<>>]
    /\ toHost' = [toHost EXCEPT ![m] = <<>>]
    /\ UNCHANGED <<now, mcuVars, dispatchVars, hostVars, crashTime, lost>>

(* The host process ends; what it has written may still arrive. *)
HostCrash ==
    /\ HostUp /\ Incident
    /\ crashTime' = now
    /\ toHost' = [m \in Mcus |-> <<>>]
    /\ UNCHANGED <<now, mcuVars, toMcu, dispatchVars, hostVars, cut, cutTime,
                   lost>>

(* Time passes.  Within a tick the timers of a controller that are due run *)
(* and so does trsync_task.  (The first move starts at 0.)                 *)
Tick ==
    /\ now < MaxTime /\ session > 0
    /\ \A m \in Mcus : /\ expire[m] = NoTime \/ expire[m] > now
                       /\ nextReport[m] = NoTime \/ nextReport[m] > now
                       /\ ~report[m]
    /\ now' = now + 1
    /\ UNCHANGED <<mcuVars, toMcu, toHost, dispatchVars, hostVars, faultVars>>
-----------------------------------------------------------------------------
McuStep(m) ==
    \/ ExpireEvent(m) \/ ReportEvent(m) \/ TaskReports(m)
    \/ TrsyncStart(m) \/ TrsyncSetTimeout(m) \/ TrsyncTrigger(m)

Host ==
    \/ HomeStart \/ TrdispatchStart \/ SetHomeEndTime \/ TrdispatchStop
    \/ HomeWaitReturns
    \/ \E m \in Mcus : HandleState(m) \/ Ask(m) \/ Completed(m)

Fault == HostCrash \/ \E m \in Mcus : Lose(m) \/ CutLink(m)

Next ==
    \/ \E m \in Mcus : McuStep(m)
    \/ EndstopEvent \/ EndstopHome \/ EndstopOff
    \/ Host \/ Fault \/ Tick

Spec == Init /\ [][Next]_vars
-----------------------------------------------------------------------------
(* Properties.                                                             *)

Times == Nat \cup {NoTime}

CommandType ==
    {c \in [cmd : {"trsync_start", "trsync_set_timeout", "trsync_trigger",
                   "query", "endstop_home", "endstop_off"},
            clock : Nat, reason : Reasons] :
        c.reason = "hit" => c.cmd = "endstop_home"}
MessageType ==
    [done : BOOLEAN, can : BOOLEAN, reason : Reasons, clock : Nat]

(* The types of the variables. *)
TypeOK ==
    /\ now \in Nat
    /\ can \in [Mcus -> BOOLEAN] /\ report \in [Mcus -> BOOLEAN]
    /\ reason \in [Mcus -> Reasons] /\ armed \in [Mcus -> BOOLEAN]
    /\ expire \in [Mcus -> Times] /\ nextReport \in [Mcus -> Times]
    /\ halted \in [Mcus -> BOOLEAN] /\ endstop \in Times
    /\ toMcu \in [Mcus -> Seq(CommandType)]
    /\ toHost \in [Mcus -> Seq(MessageType)]
    /\ cut \subseteq Mcus
    /\ active \in BOOLEAN /\ canDispatch \in BOOLEAN
    /\ lastStatus \in [Mcus -> Nat] /\ expireClock \in [Mcus -> Nat]
    /\ phase \in {"idle", "started", "moving", "waiting", "stopping",
                  "failed"}
    /\ start \in Nat /\ homeEnd \in Times /\ complete \in BOOLEAN
    /\ asking \in Mcus \cup {None} /\ answer \in Reasons \cup {None}
    /\ res \in [Mcus -> Reasons \cup {None}]
    /\ result \in {None, "timeout", "no_trigger", "hit"}
    /\ session \in Nat
    /\ stopTime \in [Mcus -> Times] /\ cutTime \in [Mcus -> Times]
    /\ crashTime \in Times /\ lost \in Nat

Late(t) == IF t > start THEN t ELSE start

(* A controller that runs in the current move, with its timeout set.       *)
Guarded(m) == can[m] /\ expire[m] # NoTime

(* A controller that has stopped in the current move.                      *)
Stopped(m) == stopTime[m] # NoTime

(* docs/Multi_MCU_Homing.md: when the communication with one controller is *)
(* lost or delayed, the steppers of the others move on for a limited time  *)
(* only.  Whatever the links do, Expire ticks after a controller stopped,  *)
(* a line failed or the host process ended, no controller is still running.*)
StopBound ==
    \A b \in Mcus : Guarded(b) =>
        /\ \A a \in Mcus \ {b} :
             Stopped(a) => now <= Late(stopTime[a]) + Expire
        /\ \A a \in cut : now <= Late(cutTime[a]) + Expire
        /\ ~HostUp => now <= Late(crashTime) + Expire

(* home_wait reports a hit only when the endstop has stopped Primary, and  *)
(* then no stepper has moved on for more than Expire ticks.                *)
HitIsReal ==
    phase = "idle" /\ result = "hit" =>
        /\ reason[Primary] = "hit"
        /\ \A m \in Mcus : /\ stopTime[m] # NoTime
                           /\ stopTime[m] <= Late(stopTime[Primary]) + Expire

(* Unless an answer is lost, a controller that has stopped because it was  *)
(* not given more time makes the homing move fail.  (With a lost answer a  *)
(* report sent before counts as the answer.)                               *)
TimeoutReported ==
    lost = 0 /\ phase = "idle" /\ result = "hit" =>
        \A m \in Mcus : reason[m] # "timeout"

(* When home_wait returns no trsync can stop a stepper any more and no     *)
(* stepper is left to be stopped: the next move begins with none of them.  *)
AllStopped ==
    phase = "idle" => \A m \in Mcus : ~can[m] /\ ~armed[m]

(* A report of an earlier move never ends this one: the host stops the     *)
(* controllers, or takes the move for ended, only when a controller has    *)
(* been stopped in this move.                                              *)
NoStaleTrigger ==
    phase \in {"moving", "waiting"} /\ (~canDispatch \/ complete) =>
        \E m \in Mcus : Stopped(m)

(* The trsync_start of this move is still under way.                       *)
Waits(m) == toMcu[m] # <<>> /\ toMcu[m][1].cmd = "trsync_start"

(* m is still to start, reports, has a message on its way that says that it*)
(* has stopped, or is shut down.                                           *)
Signals(m) == \/ halted[m] \/ Waits(m) \/ nextReport[m] # NoTime
              \/ \E i \in 1..Len(toHost[m]) : ~toHost[m][i].can

Listening == /\ HostUp /\ ~complete
             /\ phase \in {"started", "moving", "waiting"}

(* While the host waits for the end of the move it will hear of each       *)
(* controller whose line works, in whatever order timers, reports, timeouts*)
(* and triggers come: unless a report is lost.                             *)
EachIsHeard == lost = 0 /\ Listening => \A m \in Mcus \ cut : Signals(m)

(* What a controller does in the current move, for HomingMove.             *)
Doing(m) ==
    IF halted[m] THEN "shutdown"
    ELSE IF can[m] THEN "moving"
    ELSE IF ~Stopped(m) THEN "still"
    ELSE IF reason[m] = "hit" THEN "hit" ELSE "stopped"

HomingMove == INSTANCE HomingMove
    WITH open <- phase # "idle", at <- [m \in Mcus |-> Doing(m)],
         outcome <- result

(* home_start and home_wait make one homing move out of the triggers, the  *)
(* timeouts and the answers of all controllers: each starts once, stops    *)
(* once and stays, and what is returned is what happened to all of them.   *)
ImplementsMove == HomingMove!Spec

(* docs/Protocol.md: "the high-level code is expected to be capable of     *)
(* handling an occasional missing response".  While home_wait waits and    *)
(* all lines and the host work, a controller will still report, or a       *)
(* message is under way, or a controller has shut down.                    *)
WaitEnds ==
    phase = "waiting" /\ ~complete /\ HostUp /\ cut = {} =>
        \E m \in Mcus : \/ nextReport[m] # NoTime \/ report[m] \/ halted[m]
                        \/ toMcu[m] # <<>> \/ toHost[m] # <<>>
=============================================================================
