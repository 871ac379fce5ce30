------------------------------ MODULE Homing ------------------------------
(***************************************************************************)
(* Homing and probing on the host: klippy/extras/homing.py, REVERSE_HOMING *)
(* of klippy/stepper.py, klippy/extras/probe.py, and what they drive in    *)
(* kinematics/corexy.py, stepper_enable.py and tmc.py.                     *)
(*                                                                         *)
(* One command at a time is executed (GCodeLock).  An action is what it    *)
(* does from one pause to the next; breakmacro or a shutdown come in       *)
(* between.  Every call that can raise a command_error may do so.          *)
(*                                                                         *)
(* A position is abstracted to whether it is what the host believes (no    *)
(* longer, once the motors are off: a hand may move the axis), and samples *)
(* to how many are kept and whether they agree.                            *)
(***************************************************************************)
EXTENDS Naturals

CONSTANTS
    Axes,       \* the axes of the machine, 2 being Z
    Drivers,    \* TMC drivers: TMCVirtualPinHelper
    DriversOf,  \* the drivers whose virtual endstops make up an endstop
    Twice,      \* the endstops with a retract_dist, which are homed to twice
    StowEach,   \* deactivate_on_each_sample
    Samples,    \* sample_count
    Retries,    \* samples_retries
    MaxCycles,  \* MAX_TOTAL_RETRY_CYCLES
    Points,     \* len(probe_points) of a ProbePointsHelper
    MaxRounds   \* how often its finalize_callback may ask for a retry

Z == 2

(* The rail of Z has a second endstop, at its other end.                   *)
Endstops == (Axes \X {"primary"}) \cup {<<Z, "reverse">>}
Probe == <<Z, "primary">>    \* probe:z_virtual_endstop

ASSUME HomingAssumption ==
    /\ Axes \subseteq 0..2 /\ Z \in Axes
    /\ DriversOf \in [Endstops -> SUBSET Drivers]
    /\ Twice \subseteq Endstops
    /\ StowEach \in BOOLEAN
    /\ Samples \in Nat \ {0} /\ Retries \in Nat /\ MaxCycles \in Nat \ {0}
    /\ Points \in Nat \ {0} /\ MaxRounds \in Nat

VARIABLES
    \* the command
    op,        \* the command that is executed, or "none"
    pc,        \* where it is
    todo,      \* the axes that are still to be homed
    axis,      \* the one that is being homed
    samples,   \* len(positions) of run_probe
    retries,   \* its retries
    cycles,    \* its total_retry_cycles
    notify,    \* its must_notify_multi_probe
    got,       \* len(results) of start_probe
    rounds,    \* how often it threw the results away
    \* the objects
    reversed,  \* PrinterRail.reversed of Z
    homed,     \* the axes with limits: homed_axes
    mode,      \* the cached register fields of a driver: "run" or "home"
    saved,     \* what handle_homing_move_begin kept of them
    probe,     \* multi_probe_pending, multi, and whether it is deployed
    breakFlag, \* GCodeDispatch.break_flag
    down,      \* the printer is shut down
    \* bookkeeping
    exact,     \* the axes that are where the host believes
    by,        \* the endstop an axis was last homed to
    regFailed, \* an access to a register has failed
    fails      \* how often the samples of this run_probe did not agree

railVars == <<reversed, homed, exact, by>>
driverVars == <<mode, saved, regFailed>>
sampleVars == <<samples, retries, cycles, notify, fails>>
pointVars == <<got, rounds>>
homeVars == <<todo, axis>>
envVars == <<breakFlag, down>>
vars == <<op, pc, homeVars, sampleVars, pointVars, railVars, driverVars,
          probe, envVars>>

HomingOps == {"G28", "REVERSE_HOMING"}
ProbingOps == {"PROBE", "points"}
Moving == {"first", "second", "probing"}
Places == Moving \cup {"idle", "axis", "retract", "sample", "judge", "next",
                       "failed"}

(* PrinterProbe.multi_probe_pending, ProbeEndstopWrapper.multi; lowered:   *)
(* the probe is deployed; slip: the last script that should have moved it  *)
(* failed, was skipped, or was not reached because of a shutdown.          *)
ProbeState == [pending : BOOLEAN, multi : {"OFF", "FIRST", "ON"},
               lowered : BOOLEAN, slip : BOOLEAN]

(* PrinterRail.get_endstops.                                               *)
EndstopOf(a) == <<a, IF a = Z /\ reversed THEN "reverse" ELSE "primary">>

(* The move that is under way is to end on the probe.                      *)
ProbeMove ==
    pc = "probing" \/ (pc \in {"first", "second"} /\ EndstopOf(axis) = Probe)

(* A new process; the last one may have left the probe deployed.           *)
Init ==
    /\ op = "none" /\ pc = "idle" /\ todo = {} /\ axis = Z
    /\ samples = 0 /\ retries = 0 /\ cycles = 0 /\ notify = FALSE
    /\ got = 0 /\ rounds = 0 /\ fails = 0
    /\ reversed = FALSE /\ homed = {}
    /\ mode = [d \in Drivers |-> "run"] /\ saved = mode /\ regFailed = FALSE
    /\ probe \in {p \in ProbeState : ~p.pending /\ p.multi = "OFF"
                                     /\ p.slip = p.lowered}
    /\ breakFlag = FALSE /\ down = FALSE /\ exact = {}
    /\ by = [a \in Axes |-> <<a, "primary">>]
-----------------------------------------------------------------------------
(* The probe.  Each operator gives the outcomes of a call: whether it      *)
(* returns or raises, and the state it leaves.                             *)

Returns(p) == [ok |-> TRUE, p |-> p]
Raises(p) == [ok |-> FALSE, p |-> p]

(* run_gcode_from_command of activate_gcode and deactivate_gcode: while    *)
(* break_flag is set every line is skipped, without an error.              *)
Script(p, l) ==
    IF breakFlag THEN {Returns([p EXCEPT !.slip = TRUE])}
    ELSE {Returns([p EXCEPT !.lowered = l, !.slip = FALSE])} \cup
         {Raises([p EXCEPT !.lowered = m, !.slip = TRUE]) : m \in BOOLEAN}

(* ProbeEndstopWrapper.probe_prepare and probe_finish.                     *)
Prepared(p) ==
    IF p.multi = "ON" THEN {Returns(p)}
    ELSE {IF r.ok /\ p.multi = "FIRST"
          THEN Returns([r.p EXCEPT !.multi = "ON"]) ELSE r :
             r \in Script(p, TRUE)}
Finished(p) == IF p.multi = "OFF" THEN Script(p, FALSE) ELSE {Returns(p)}

(* PrinterProbe.multi_probe_begin and multi_probe_end.                     *)
Begun(p) == [p EXCEPT !.pending = TRUE,
                      !.multi = IF StowEach THEN @ ELSE "FIRST"]
EndedWithoutStow(p) == {Returns([p EXCEPT !.pending = FALSE, !.multi = "OFF"])}
Ended(p) ==
    LET q == [p EXCEPT !.pending = FALSE]
    IN  IF ~p.pending THEN {Returns(p)}
        ELSE IF StowEach THEN {Returns(q)}
        ELSE {IF r.ok THEN Returns([r.p EXCEPT !.multi = "OFF"]) ELSE r :
                 r \in Script(q, FALSE)}
-----------------------------------------------------------------------------
(* The drivers.  The handlers run one after the other, and the first that  *)
(* cannot write a register ends the event: those before it, and the fields *)
(* it has set itself, stay as they are.                                    *)
DriversBeginLate(ds, ok) ==       \* keeps what it has just set
    \E set \in SUBSET ds :
        /\ IF ok THEN set = ds ELSE set # {}
        /\ mode' = [d \in Drivers |-> IF d \in set THEN "home" ELSE mode[d]]
        /\ saved' = [d \in Drivers |-> IF d \in set THEN mode'[d] ELSE saved[d]]
        /\ regFailed' = (regFailed \/ ~ok)

DriversBegin(ds, ok) ==
    \E set \in SUBSET ds :
        /\ IF ok THEN set = ds ELSE set # {}
        /\ saved' = [d \in Drivers |-> IF d \in set THEN mode[d] ELSE saved[d]]
        /\ mode' = [d \in Drivers |-> IF d \in set THEN "home" ELSE mode[d]]
        /\ regFailed' = (regFailed \/ ~ok)

DriversEnd(ds, ok) ==
    \E set \in SUBSET ds :
        /\ IF ok THEN set = ds ELSE ds # {}
        /\ mode' = [d \in Drivers |-> IF d \in set THEN saved[d] ELSE mode[d]]
        /\ regFailed' = (regFailed \/ ~ok)
        /\ UNCHANGED saved

(* The events homing:homing_move_begin, sent with the probe in state p,    *)
(* and homing:homing_move_end, which leaves it in state p.                 *)
MoveBegins(e, p, ok) ==
    IF e = Probe
    THEN /\ \E r \in Prepared(p) : r.ok = ok /\ probe' = r.p
         /\ UNCHANGED driverVars
    ELSE probe' = p /\ DriversBegin(DriversOf[e], ok)

MoveEnds(e, p, ok) ==
    IF e = Probe
    THEN \E r \in Finished(probe) : r.ok = ok /\ p = r.p /\ UNCHANGED driverVars
    ELSE p = probe /\ DriversEnd(DriversOf[e], ok)
-----------------------------------------------------------------------------
(* The end of a command.                                                   *)
Done ==
    /\ op' = "none" /\ pc' = "idle" /\ todo' = {} /\ axis' = Z
    /\ samples' = 0 /\ retries' = 0 /\ cycles' = 0 /\ notify' = FALSE
    /\ got' = 0 /\ rounds' = 0 /\ fails' = 0

GoTo(place) == pc' = place /\ UNCHANGED op
Fail == GoTo("failed")

(* motor_off, with its event.                                              *)
MotorOffKeepsLimits == exact' = {} /\ UNCHANGED homed
MotorOff == homed' = {} /\ exact' = {}

(* A command_error leaves the handler of the command: G28 and              *)
(* REVERSE_HOMING turn the motors off, and gcode:command_error ends the    *)
(* session of the probe, whatever its script does.                         *)
CommandErrorOfG28 ==              \* REVERSE_HOMING leaves the motors on
    /\ pc = "failed"
    /\ IF op = "G28" /\ ~down THEN MotorOff ELSE UNCHANGED <<homed, exact>>
    /\ \E r \in Ended(probe) : probe' = r.p
    /\ Done
    /\ UNCHANGED <<reversed, by, driverVars, envVars>>

CommandError ==
    /\ pc = "failed"
    /\ IF op \in HomingOps /\ ~down THEN MotorOff ELSE UNCHANGED <<homed, exact>>
    /\ \E r \in Ended(probe) : probe' = r.p
    /\ Done
    /\ UNCHANGED <<reversed, by, driverVars, envVars>>

(* A call that changes nothing else raises.                                *)
Raise ==
    /\ pc \in {"retract", "sample", "next"}
    /\ Fail
    /\ UNCHANGED <<homeVars, sampleVars, pointVars, railVars, driverVars,
                   probe, envVars>>
-----------------------------------------------------------------------------
(* Homing: cmd_G28, cmd_REVERSE_HOMING, kin.home and home_rails.           *)
Accepts == pc = "idle" /\ ~breakFlag

G28(want) ==
    /\ Accepts
    /\ op' = "G28" /\ pc' = "axis" /\ todo' = want
    /\ UNCHANGED <<axis, sampleVars, pointVars, railVars, driverVars, probe,
                   envVars>>

ReverseHoming ==
    /\ Accepts
    /\ op' = "REVERSE_HOMING" /\ pc' = "axis" /\ todo' = {Z}
    /\ reversed' = ~reversed                    \* homing_params_switch
    /\ UNCHANGED <<axis, sampleVars, pointVars, homed, exact, by,
                   driverVars, probe, envVars>>

(* home_rails as far as its first move: the axis counts as homed from here *)
(* on, at a position that the move needs.                                  *)
BeginHome(a) ==
    LET e == EndstopOf(a)
        p == IF e = Probe THEN Begun(probe) ELSE probe  \* home_rails_begin
    IN  /\ pc = "axis"
        /\ a \in todo /\ \A b \in todo : a <= b
        /\ axis' = a
        /\ homed' = homed \cup {a} /\ exact' = exact \ {a}
        /\ by' = [by EXCEPT ![a] = e]
        /\ \E ok \in BOOLEAN :
              /\ MoveBegins(e, p, ok)
              /\ GoTo(IF ok THEN "first" ELSE "failed")
        /\ UNCHANGED <<todo, sampleVars, pointVars, reversed, envVars>>

(* The end of home_rails: homing:home_rails_end ends the session of the    *)
(* probe if it is the endstop, and switches the parameters back.           *)
RailsHomed(e, p) ==
    \E r \in IF e = Probe THEN Ended(p) ELSE {Returns(p)} :
        /\ probe' = r.p
        /\ reversed' = (reversed /\ ~r.ok)
        /\ IF ~r.ok
           THEN Fail /\ UNCHANGED <<homeVars, sampleVars, pointVars>>
           ELSE IF todo = {axis} THEN Done
           ELSE GoTo("axis") /\ todo' = todo \ {axis}
                /\ UNCHANGED <<axis, sampleVars, pointVars>>

(* homing_move ends, without a trigger, with one, or with one that was     *)
(* there already when the axis began to move: only the last does not give  *)
(* its position, which the second move notices (check_no_movement).        *)
HomingMoveDone ==
    LET e == EndstopOf(axis)
    IN  /\ pc \in {"first", "second"}
        /\ \E outcome \in {"none", "trigger", "still"}, ok \in BOOLEAN,
              p \in ProbeState :
              /\ MoveEnds(e, p, ok)
              /\ exact' = IF outcome = "trigger" THEN exact \cup {axis} ELSE exact
              /\ IF \/ outcome = "none" \/ ~ok
                    \/ pc = "second" /\ outcome = "still"
                 THEN /\ Fail /\ probe' = p
                      /\ UNCHANGED <<homeVars, sampleVars, pointVars, reversed>>
                 ELSE IF pc = "first" /\ e \in Twice
                 THEN /\ GoTo("retract") /\ probe' = p
                      /\ UNCHANGED <<homeVars, sampleVars, pointVars, reversed>>
                 ELSE RailsHomed(e, p)
        /\ UNCHANGED <<homed, by, envVars>>

(* The retract move has been queued: home again from a position set anew.  *)
HomeAgain ==
    /\ pc = "retract"
    /\ exact' = exact \ {axis}
    /\ \E ok \in BOOLEAN :
          /\ MoveBegins(EndstopOf(axis), probe, ok)
          /\ GoTo(IF ok THEN "second" ELSE "failed")
    /\ UNCHANGED <<homeVars, sampleVars, pointVars, reversed, homed, by, envVars>>
-----------------------------------------------------------------------------
(* run_probe.                                                              *)
RunProbe(p) ==
    /\ notify' = ~p.pending
    /\ probe' = IF p.pending THEN p ELSE Begun(p)
    /\ samples' = 0 /\ retries' = 0 /\ cycles' = 0 /\ fails' = 0

ProbeCommand ==
    /\ Accepts
    /\ op' = "PROBE" /\ pc' = "sample"
    /\ RunProbe(probe)
    /\ UNCHANGED <<homeVars, pointVars, railVars, driverVars, envVars>>

(* _probe: the position of Z must be known.                                *)
Sample ==
    /\ pc = "sample"
    /\ IF Z \in homed
       THEN \E ok \in BOOLEAN :
               /\ MoveBegins(Probe, probe, ok)
               /\ GoTo(IF ok THEN "probing" ELSE "failed")
       ELSE Fail /\ UNCHANGED <<probe, driverVars>>
    /\ UNCHANGED <<homeVars, sampleVars, pointVars, railVars, envVars>>

(* A probe that was triggered already is only reported.                    *)
ProbingMoveDone ==
    /\ pc = "probing"
    /\ \E hit \in BOOLEAN, ok \in BOOLEAN :
          /\ MoveEnds(Probe, probe', ok) /\ probe' \in ProbeState
          /\ IF hit /\ ok THEN GoTo("judge") /\ samples' = samples + 1
             ELSE Fail /\ UNCHANGED samples
    /\ UNCHANGED <<homeVars, retries, cycles, notify, fails, pointVars, railVars,
                   envVars>>

(* The samples agree, but there are not enough of them: retract.           *)
MoreSamplesThanAsked ==
    /\ pc = "judge" /\ samples <= Samples
    /\ GoTo("sample")
    /\ UNCHANGED <<homeVars, sampleVars, pointVars, railVars, driverVars, probe,
                   envVars>>

MoreSamples ==
    /\ pc = "judge" /\ samples < Samples
    /\ GoTo("sample")
    /\ UNCHANGED <<homeVars, sampleVars, pointVars, railVars, driverVars, probe,
                   envVars>>

(* They do not: throw them away.  After samples_retries times the nozzle is*)
(* shaken first, and the retries start again, at one.                      *)
RetryOnceMore ==
    /\ pc = "judge" /\ samples > 1 /\ retries <= Retries
    /\ GoTo("sample")
    /\ samples' = 0 /\ retries' = retries + 1 /\ fails' = fails + 1
    /\ UNCHANGED <<homeVars, cycles, notify, pointVars, railVars, driverVars,
                   probe, envVars>>

RetryUncounted ==
    /\ pc = "judge" /\ samples > 1 /\ retries < Retries
    /\ GoTo("sample")
    /\ samples' = 0
    /\ UNCHANGED <<homeVars, retries, cycles, notify, fails, pointVars, railVars,
                   driverVars, probe, envVars>>

Retry ==
    /\ pc = "judge" /\ samples > 1 /\ retries < Retries
    /\ GoTo("sample")
    /\ samples' = 0 /\ retries' = retries + 1 /\ fails' = fails + 1
    /\ UNCHANGED <<homeVars, cycles, notify, pointVars, railVars, driverVars,
                   probe, envVars>>

ShakeAndRetry ==
    /\ pc = "judge" /\ samples > 1 /\ retries >= Retries
    /\ samples' = 0 /\ retries' = 1 /\ fails' = fails + 1
    /\ cycles' = cycles + 1
    /\ IF cycles + 1 < MaxCycles
       THEN GoTo("sample") /\ UNCHANGED probe
       ELSE /\ Fail
            /\ \E r \in IF notify THEN Ended(probe) ELSE {Returns(probe)} :
                  probe' = r.p
    /\ UNCHANGED <<homeVars, notify, pointVars, railVars, driverVars, envVars>>

(* All samples agree; those thrown away may be too far from them.          *)
RunProbeEnds ==
    /\ pc = "judge" /\ samples = Samples
    /\ \E r \in IF notify THEN Ended(probe) ELSE {Returns(probe)},
          trusted \in BOOLEAN :
          /\ probe' = r.p
          /\ IF ~r.ok \/ ~trusted
             THEN Fail /\ UNCHANGED <<homeVars, sampleVars, pointVars>>
             ELSE IF op = "PROBE" THEN Done
             ELSE /\ GoTo("next") /\ got' = got + 1
                  /\ UNCHANGED <<homeVars, sampleVars, rounds>>
    /\ UNCHANGED <<railVars, driverVars, envVars>>
-----------------------------------------------------------------------------
(* ProbePointsHelper.start_probe.                                          *)
StartProbe ==
    /\ Accepts
    /\ op' = "points" /\ pc' = "next"
    /\ probe' = Begun(probe)
    /\ UNCHANGED <<homeVars, sampleVars, pointVars, railVars, driverVars,
                   envVars>>

SessionEnds ==
    \E r \in Ended(probe) :
        /\ probe' = r.p
        /\ IF r.ok THEN Done
           ELSE Fail /\ UNCHANGED <<homeVars, sampleVars, pointVars>>

(* The next point, unless there is none or breakmacro was called.          *)
MoveNext ==
    /\ pc = "next"
    /\ \/ (got >= Points \/ breakFlag) /\ SessionEnds
       \/ /\ ~breakFlag
          /\ \/ got < Points /\ UNCHANGED pointVars
             \/ got >= Points /\ rounds < MaxRounds
                /\ got' = 0 /\ rounds' = rounds + 1
          /\ RunProbe(probe) /\ GoTo("sample")
          /\ UNCHANGED homeVars
    /\ UNCHANGED <<railVars, driverVars, envVars>>
-----------------------------------------------------------------------------
(* Everything else.                                                        *)
M84 ==
    /\ Accepts
    /\ MotorOff
    /\ UNCHANGED <<op, pc, homeVars, sampleVars, pointVars, reversed, by,
                   driverVars, probe, envVars>>

BreakMacro ==
    /\ breakFlag' = TRUE
    /\ UNCHANGED <<op, pc, homeVars, sampleVars, pointVars, railVars, driverVars,
                   probe, down>>

(* resumemacro, and CANCEL_PRINT.                                          *)
ResumeMacro ==
    /\ breakFlag' = FALSE
    /\ UNCHANGED <<op, pc, homeVars, sampleVars, pointVars, railVars, driverVars,
                   probe, down>>

(* A shutdown, or a controller that no longer answers home_wait and is lost*)
(* for good: a move that is under way fails, without its end; whatever else*)
(* is may fail or go on.  Commands are accepted as before.                 *)
Shutdown ==
    /\ down' = TRUE
    /\ pc' \in IF pc = "idle" THEN {pc}
              ELSE IF pc \in Moving THEN {"failed"} ELSE {pc, "failed"}
    /\ probe' = IF ProbeMove THEN [probe EXCEPT !.slip = TRUE] ELSE probe
    /\ UNCHANGED <<op, homeVars, sampleVars, pointVars, railVars, driverVars,
                   breakFlag>>

Work ==
    \/ \E a \in Axes : BeginHome(a)
    \/ HomingMoveDone \/ HomeAgain
    \/ Sample \/ ProbingMoveDone \/ MoreSamples \/ Retry \/ ShakeAndRetry
    \/ RunProbeEnds \/ MoveNext \/ Raise \/ CommandError

Start ==
    \/ \E want \in SUBSET Axes \ {{}} : G28(want)
    \/ ReverseHoming \/ ProbeCommand \/ StartProbe \/ M84

Environment == BreakMacro \/ ResumeMacro \/ Shutdown

Next == Work \/ Start \/ Environment

Spec == Init /\ [][Next]_vars

(* A move ends, and a script that executes goes on.                        *)
FairSpec == Spec /\ WF_vars(Work)
-----------------------------------------------------------------------------
TypeOK ==
    /\ op \in HomingOps \cup ProbingOps \cup {"none"} /\ pc \in Places
    /\ todo \subseteq Axes /\ axis \in Axes
    /\ samples \in 0..Samples /\ retries \in Nat /\ cycles \in Nat
    /\ notify \in BOOLEAN /\ got \in 0..Points /\ rounds \in 0..MaxRounds
    /\ reversed \in BOOLEAN /\ homed \subseteq Axes
    /\ mode \in [Drivers -> {"run", "home"}]
    /\ saved \in [Drivers -> {"run", "home"}]
    /\ probe \in ProbeState
    /\ breakFlag \in BOOLEAN /\ down \in BOOLEAN
    /\ exact \subseteq Axes
    /\ by \in [Axes -> Endstops] /\ regFailed \in BOOLEAN /\ fails \in Nat

(* Except while homing is under way, an axis that counts as homed is where *)
(* the host believes, if it was homed to an endstop that is tried twice:   *)
(* home_rails declares the axis homed at an invented position, and an      *)
(* error at any later point must take that back.                           *)
PositionKnown ==
    op \notin HomingOps /\ ~down =>
        \A a \in homed : by[a] \in Twice => a \in exact

(* When the endstops of Z are left switched, by a REVERSE_HOMING that has  *)
(* failed, no axis counts as homed, so nothing but homing moves Z; and the *)
(* first homing that succeeds, of whatever axis, switches them back.       *)
SwappedIsUnhomed == op = "none" /\ ~down /\ reversed => homed = {}

(* A move that is to end on the probe is made with the probe deployed, and *)
(* after a command, however it ended, no session is open and the probe is  *)
(* stowed - unless the script that should have moved it failed, was skipped*)
(* because of breakmacro, or was not reached because of a shutdown.        *)
ProbeFollowed ==
    /\ ProbeMove => probe.lowered \/ probe.slip
    /\ pc = "idle" =>
          /\ ~probe.pending
          /\ probe.slip \/ (probe.multi = "OFF" /\ ~probe.lowered)

(* The drivers are set up for sensorless homing only while a homing move   *)
(* is under way, whichever way it ends, as long as no access to a register *)
(* fails.                                                                  *)
DriversRestored ==
    ~regFailed /\ ~down /\ pc \notin {"first", "second"} =>
        \A d \in Drivers : mode[d] = "run"

(* How often run_probe may find that its samples do not agree: the first   *)
(* cycle takes one more than the others, which begin with one retry spent. *)
PerCycle == IF Retries = 0 THEN 1 ELSE Retries
RetriesBounded == fails <= Retries + 1 + (MaxCycles - 1) * PerCycle

(* Every command ends: samples that never agree do not keep a probing      *)
(* session going for ever.                                                 *)
CommandEnds == op # "none" ~> op = "none"
=============================================================================
