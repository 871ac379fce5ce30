# Q1Libre in TLA+

Q1Libre is a firmware package for the Qidi Q1 Pro 3D printer.  It consists of an
installer, the tools that build it, and a vendored and patched copy of Klipper's
host software (klippy), with Moonraker and Fluidd on top.  What the printer does
while it prints is decided in klippy, so this development starts there: with the
scheduling of G-code scripts, and with a print from the virtual SD card under
everything that may interfere with it.  It goes on with what the print rests on:
the link to the micro-controllers, the synchronised stop of several controllers
at an endstop, and the homing and probing commands above it.

Paths below are relative to `src/`; `KL` is `overlay/home/mks/klipper/klippy`.

## 1. Inventory

| Component | State | Operations | Hard to test | Correct when |
|---|---|---|---|---|
| G-code mutex, `KL/reactor.py` `ReactorMutex` | `is_locked`, `next_pending`, `queue` | `__enter__`, wait loop, `__exit__`, foreign `update_timer` | the window between hand-over and wake-up; spurious wake-ups | one script at a time, FIFO, nobody forgotten |
| Reactor, `KL/reactor.py` `SelectReactor` | `_timers`, `_next_timer`, `_g_dispatch`, cached greenlets | register/update/unregister timer, `_check_timers`, `pause`, `_end_greenlet` | updates during a scan; a scan suspended inside a callback; re-entered callbacks | no due timer is slept through |
| G-code dispatch, `KL/gcode.py`; macro break, `KL/extras/gcode_macro_break.py` | `mutex`, `break_flag` | `run_script`, `_process_commands`, M112, breakmacro/resumemacro endpoints | endpoints set the flag without the mutex, in the middle of a command | what is reported done was done |
| Virtual SD, `KL/extras/virtual_sdcard.py` | `current_file`, `file_position`, `work_timer`, `must_pause_work`, `cmd_from_sd`, `lines` | `work_handler`, `do_pause/resume/cancel`, reset, load, M23-M26, shutdown handler | state kept across `reactor.pause()`; waiting for each other under the mutex; every way out of the loop; a position counted in characters and used in bytes | no line is left out; none is printed twice where characters are bytes; file open when used |
| Pause/resume, `KL/extras/pause_resume.py` | `is_paused`, `sd_paused`, `pause_command_sent` | PAUSE, RESUME, CLEAR_PAUSE, CANCEL_PRINT, endpoints | `send_pause_command` called by an event without the mutex | a pause stops the print, a resume continues it |
| Print statistics, `KL/extras/print_stats.py` | `state`, start times | `note_*`, `reset` | called by the work_handler and by cancel in any order | the reported state is that of the print |
| Heaters, `KL/extras/heaters.py` | targets, `break_flag` | wait loops, breakheater endpoint, PID callbacks | a stale break flag; MCU callbacks from a second thread | a wait ends for the right reason |
| Filament sensor, `KL/extras/filament_switch_sensor.py` | `filament_present`, `min_event_systime` | runout and insert events | the event runs beside the print | one event at a time; print paused |
| Idle timeout, `KL/extras/idle_timeout.py` | `state` | timer handler, sync_print_time | state read by the sensor is stale | |
| API server, `KL/webhooks.py` | connections | a greenlet per request, emergency_stop | requests overlap | every request answered |
| Homing, `KL/extras/homing.py`, `KL/stepper.py`, `KL/kinematics/corexy.py`, `KL/extras/stepper_enable.py`, `KL/extras/tmc.py` | rails, `reversed`, limits, register fields of the drivers | G28, REVERSE_HOMING, M18, the events around a homing move | the parameter swap when homing fails; an error half way through the axes; handlers that raise | what counts as homed is where the host believes; nothing set up for a homing move outlives it |
| Probing, `KL/extras/probe.py` | session (`multi_probe_pending`, `multi`), samples, retries | PROBE, `run_probe` retries, `start_probe` | retry limit, break flag between points, scripts that fail | the probe is down in its moves and up after them; bounded retries |
| Motion, `KL/toolhead.py` and kinematics | look-ahead queue, print time | moves, stalls, flush | real-time | |
| Serial link, `KL/chelper/serialqueue.c`, `KL/serialhdl.py`, `src/command.c`, `src/generic/serial_irq.c` (of Klipper) | sequence numbers, `sent_queue`, `notify_queue`, timers, kick pipe; `next_sequence`, `receive_buf` | send, ack, nak, retransmit, complete; accept, execute, answer | loss and damage, retransmission, wrap of 4 bits, two threads | commands exactly once and in order; completions after answers; nobody sleeps with work to do |
| Trigger synchronisation, `src/trsync.c`, `src/endstop.c`, `src/stepper.c`, `KL/chelper/trdispatch.c`, `KL/mcu.py` | flags and timers of each trsync, clocks of the dispatcher, `_trigger_completion` | start, report, extend, trigger, query, stop | hit, timeouts and the host's trigger race; reports of the last move; failing lines | no stepper runs on for long; a hit is told from a timeout |
| Power-loss record, `plr_record` | line counter, file | write every 50 lines, recreate | power loss between remove and first write | the record names a line that was reached |
| Installer, `overlay/control/postinst`, `overlay/root/scripts` | trees, environment, backups, services | stop, back up, rebuild, migrate, restart; background git | power loss, second run, background reset | a rerun repairs |
| Build pipeline, `tools/` | archive | extract, overlay, pack, validate | byte formats | the package it writes it can read |
| Moonraker, Fluidd, automount, services | | | | (vendored, static or I/O) |

How they interact: klippy's host code runs on one thread with cooperative
greenlets.  A greenlet gives up control only in `reactor.pause()`; everything
between two pauses is atomic.  API requests, the serial G-code input, timers and
MCU events become reactor callbacks; those that run G-code go through
`gcode.run_script` and so through the mutex, and those that set a flag
(breakmacro, resumemacro, breakheater, emergency_stop, the pause half of a runout
event) do not.  Commands to a controller go through the serial link, whose
queues are shared with a thread of its own; the dispatcher of a homing move runs
in the threads that read the lines.  A homing or probing command is one of the
commands of a script: it starts trigger synchronisation, waits for it in
`home_wait`, and tells the rest of klippy by events (`homing:homing_move_begin`
and so on), whose handlers may raise.

## 2. Modules

| Module | What it is |
|---|---|
| `GCodeLock` | what the mutex promises: a FIFO lock that is handed over, never freed, while somebody waits |
| `ReactorMutex` | the mutex as `reactor.py` implements it |
| `ReactorMutexProofs` | its invariant, exclusion, FIFO order and refinement of `GCodeLock`, proved |
| `ReactorTimers` | the timer scan and the dispatch greenlets of `reactor.py`, on which the mutex and all polling loops rest |
| `ReactorTimersProofs` | its invariant, proved |
| `PrintLifecycle` | what `print_stats` promises: the life of a print |
| `PrintJob` | the print and everything that interferes with it; uses `GCodeLock` as its mutex |
| `MCPrintJob` | files, scripts and events for TLC |
| `PrintJobProofs` | the invariant of the print (`PrintInv`) and the theorems that follow |
| `PrintJobWaitProofs` | the whole invariant: who waits for whom, how the mutex is used, and what alone causes each divergence |
| `CommandChannel` | what the serial link promises: commands executed once each and in order |
| `SerialQueue` | the link as `serialqueue.c` and `command.c` implement it, over a line that damages, loses and delays |
| `SerialQueueProofs` | its invariant and the refinement of `CommandChannel`, proved |
| `HomingMove` | what `home_start` and `home_wait` promise: one homing move out of many controllers |
| `TriggerSync` | homing moves of several controllers, from `home_start` to `home_wait`; its lines keep order, as `SerialQueue` shows |
| `TriggerSyncProofs` | its invariant, the theorems that follow and the refinement of `HomingMove`, proved |
| `Homing` | G28, REVERSE_HOMING, PROBE and probing of points; a homing move is one of its steps, `HomingMove` is what that step may rely on and `TriggerSync` what happens inside |
| `MCHoming` | endstops and a driver for TLC |
| `HomingProofs` | its invariant and the theorems that follow |

### ReactorMutex

`isLocked`, `nextPending` and `queue` are the fields of the class.  `pc` says
whether a greenlet is outside, parked in `__enter__` or inside; `due` holds the
greenlets whose timer has waketime NOW.  `EnterFree`/`EnterQueue` are the two
branches of `__enter__` up to its `pause(NEVER)`, `WakeOwner`/`WakeInVain` one
turn of its loop, `Exit` is `__exit__`, and `Nudge` an `update_timer` by code
that has nothing to do with the mutex.

### ReactorTimers

One greenlet, `dispatch` (`_g_dispatch`), polls and scans the timers.  When the
callback it runs calls `pause()`, that greenlet is parked on a timer of its own
and another takes over the dispatching (`Pause`); when the timer of a parked
greenlet is run, the dispatcher switches to it (`RunTimer`, `place` becomes
`"switch"`), and it goes on with its old callback until it pauses again
(`PauseAgain`) or returns into a scan that is no longer the dispatcher's
(`ReturnLate`, which is the remainder of `_check_timers` with
`_end_greenlet`).  `todo` is what the dispatcher's scan still has to look at,
`older` the order of `_timers`; the copy of the list that a scan works on shows
only in that unregistered timers (waketime NEVER) are passed over.  The
callbacks are arbitrary: `RegisterTimer`, `UpdateTimer` and `UnregisterTimer` are
whatever a module may do in them.  Two greenlet objects that the code would
create are two members of a pool, and a timer is registered again only when no
greenlet is still in its callback.

The other models rest on it: `PrintJob` and `ReactorMutex` let a greenlet that is
due get its turn in any order, and it is here that it gets it at all.

### PrintJob

`running` is the greenlet that executes, or `NoOne` while the reactor chooses:
another greenlet gets a turn only where the code calls `reactor.pause()`.
`pc[g]` is the place in the code, `script[g]` the commands that remain of what
`_process_commands` of that greenlet was given (a macro is the sequence of
commands it expands to).  `sd`, `pr`, `stats` and `flags` are the fields of
`VirtualSD`, `PauseResume`, `PrintStats` and the two break flags with the
shutdown state.  `hist` is history for the properties only and no guard reads it.

The file has two measures.  `_load_file` opens it in text mode (line 187), which
with Python 3 (the interpreter `control/postinst` sets up) makes one newline of CR
LF and one character of several bytes: `LineAt` gives the byte at which each line
begins, `Chars` how many characters it has when it is read.  `work_handler` adds
up characters (`Dispatch`, line 282) in `sd.next` and `sd.pos`, which are
`next_file_position` and `file_position`, and seeks to that number as if it were
bytes (`Seek`, line 230).  What has been read and not been dispatched, the
local `lines`, are the lines `sd.head` to `sd.read`; after a seek into the middle
of a line, `sd.offset` bytes of the first are missing.  What is left of it is run
as any of `Fragments`, with any number of characters that so many bytes can
have (`CharsLeft`).  `hist.last` is the last line up to which all have been completed;
one of these that is run again does not count.

Each greenlet is a client's request (`Clients`), the work_handler (`SD`) or the
runout event (`RO`).  Commands are the ones that act on the print, `G1` for
every command that may park in a full move queue, `G28` for one that may also
raise `gcode.error` (`Fail`, `WaitFails`) or anything else (`Crash` and, for a line of
the file, `SdLineCrashes`: the printer is shut down and the print left "paused"), and `M109`/`TEMPERATURE_WAIT` for the waits.  Polling loops
(`do_pause`, the yield of the work_handler, heater waits) are resumed when the
polled condition holds: a poll that fails changes nothing.

Unlocked endpoints and events are actions that are possible whenever the
reactor runs (`BreakMacro`, `ResumeMacro`, `BreakHeater`, `EmergencyStop`,
`Runout`).  `MaxEvents` bounds requests and events together; nothing else is
bounded.

### SerialQueue

The variables have the names of the fields of `struct serialqueue` and of the
statics of `command.c`.  A block carries one command and has the size
`MESSAGE_MAX`, so the receive window and `need_ack_bytes` count blocks.  The
sequence numbers are kept whole in the model and taken modulo `SeqMod` (16 in the
code) wherever the controller or the host compares one that came over the line.
`Submit` and `KickBgThread` are the two halves of `serialqueue_send_batch`, with the
lock given up in between; `CommandEvent` is `command_event` with
`check_send_command` and `build_and_send_command`, `KickEvent` the handler of the
pipe, `HandleMessage` is `handle_message` with `update_receive_seq`,
`RetransmitNak` and `RetransmitTimeout` are `retransmit_event`.  In the controller
`AcceptBlock` and `RejectBlock` are the outcomes of `command_find_block`, `Dispatch`
executes the command and may answer, `SendAck` is `command_send_ack`.  An answer
carries the number of the ack to come.  The connection starts from whatever
number the controller had before (`first`); until it has heard an answer the host
only sends `identify` requests, one at a time.

Incidents are counted together by `MaxIncidents`: a frame damaged or lost, a
timeout although the answer is coming, a message the controller sends by
itself, and a shutdown, whose `longjmp` leaves the block in `receive_buf`.

### TriggerSync

`can`, `report`, `reason`, `expire` and `nextReport` are the fields of `struct trsync`
of each controller, `armed` says whether `stepper_stop_on_trigger` has registered a
signal.  `lastStatus`, `expireClock`, `active` and `canDispatch` belong to the
dispatcher; `phase`, `homeEnd`, `complete`, `asking`, `answer` and `res` to
`MCU_endstop`, `MCU_trsync` and the query of `stop()`.  All controllers share one
clock, `now`; it moves on only when every timer that is due has run, since a
controller that misses one shuts down ("Rescheduled timer in the past").

Steps of the code that are one action: `trsync_start` with the
`stepper_stop_on_trigger` commands after it; `trsync_task`, which reads its time and
flags one after the other; the fast reader and the Python handler of one
message.  On a line that is cut, what is under way disappears.  The completion
of a query comes after its answer and is never lost (`AnswerBeforeCompletion` and
`CompletionArrives` of `SerialQueue`); the answer may be.  `ExpireFor` and `Extends`
keep the arithmetic of `trdispatch.c`, the unsigned comparison at line 115 included.

`HomingMove` forgets clocks, messages and the dispatcher.  `Doing` maps a controller to
what it does in the move: nothing yet, moving, stopped by the endstop (`"hit"`) or
otherwise, or shut down.  A homing move is open while `phase` is not `"idle"`.

### Homing

`op` is the command, `pc` the place in it: before the next axis (`"axis"`), in the
first and second homing move, about to `"retract"`, before a `"sample"`, in a
`"probing"` move, after it (`"judge"`), before the `"next"` point, or `"failed"` while a
`command_error` travels up.  An action goes from one pause to the next.  Every
call that can raise has an outcome in which it does: `Script`, `Prepared`, `Finished`
and `Ended` give the sets of outcomes of the probe's methods, `DriversBegin` and
`DriversEnd` those of the handlers in `tmc.py`, one of which may fail after others
have run.

`probe` is the session (`pending`, `multi`), whether the probe really is deployed
(`lowered`) and whether its last script failed, was skipped or was not reached
(`slip`).  `mode` and `saved` are a driver's register fields and what the
begin handler has kept of them.  `homed` is the set of axes with limits; `exact`, a
variable for the properties, the axes that are where the host believes: a
homing move that ends on its trigger makes an axis exact, `set_position` with an
invented position and switching the motors off make it inexact.

`BreakMacro`, `ResumeMacro` and `Shutdown` may come between any two steps.  While
`break_flag` is set, commands are not accepted and the scripts of the probe are
skipped without an error.  After a shutdown commands are still accepted
(`gcode.py:182` is commented out).  A controller that no longer answers `home_wait`
is counted as a shutdown, which follows.

## 3. What the runs check

| Run | Question | Instance |
|---|---|---|
| `reactor_mutex` | exclusion, FIFO, no lost wake-up, refinement of `GCodeLock` | 4 greenlets: one inside, one handed the mutex, one behind it, one arriving |
| `reactor_timers` | is a timer slept through, a greenlet lost or a due timer never run, in scans that callbacks interrupt? | 1 timer, 3 greenlets with timers of their own (up to two parked, one dispatching), times 0, 1 and NEVER |
| `print_job` | every safety property of the print, who waits for whom, refinement of `PrintLifecycle`, absence of deadlock | a file that heats, homes and pauses itself: two plain lines, one with a character of two bytes, and an empty one; 2 clients with 10 scripts; all events; `MaxEvents` 4 |
| `print_job_live` | every request is answered | a file of four short lines read three at a time; an error cancels the print; 2 clients; breakmacro and runout; `MaxEvents` 3 |
| `pause_after_runout` | violated: a PAUSE after a runout without a print | `MaxEvents` 3 |
| `complete_is_whole` | violated: "complete" although lines were dropped | `MaxEvents` 3 |
| `temperature_wait` | violated: a stale break flag ends a wait | `MaxEvents` 2 |
| `pause_captures` | violated: paused without a captured position | `MaxEvents` 3 |
| `serial_link` | exactly once and in order, order of answers and completions, overrun, wake-ups, progress | numbers modulo 3, 2 blocks pending, 3 commands, 1 incident |
| `trigger_sync` | how long steppers run on, hits and timeouts, leftovers of a move, whom the host hears of, refinement of `HomingMove` | 2 controllers, 2 moves, 1 incident, time up to 3, timeouts of 1 |
| `homing_waits` | violated: `home_wait` waits for an answer nobody repeats | 1 controller, 1 lost answer |
| `homing` | positions, switched endstops, probe, drivers, retries, progress | X and Z, one sensorless driver at the other end of Z, 2 samples, 2 retries, 2 cycles, 2 points, 1 retry of the points |

Four events are enough for the interference the properties are about: one
request starts the print, one pauses, resumes or cancels it, and two more
(another client, the sensor, an endpoint) come in between.  Two plain
lines make a print that can be stopped before, within and after a line, with a
chunk boundary between them (`ChunkLines` 1), and show `file_position` where it is
exact.  The third line has a byte more than characters: the resume after its
own PAUSE seeks to its newline and runs a rest of it, and a resume after the
fourth, which is one byte long, runs the fourth again.  The run reaches both.  The
liveness run and those that are violated have a file in which each line counts
as one byte; there a chunk has several lines.  The proofs remove these bounds.

The only state in which nothing can happen is `Quiet`: the events are used up
and every greenlet is idle.  TLC's deadlock check therefore also finds a polling
loop whose condition can never come true.

`serial_link` sends one command more than the numbers there are, so they wrap, and
`first` ranges over all of them; one incident is enough for every single fault
with all retransmissions it causes.  In `trigger_sync` a second move meets what
the first has left on the lines.  Two axes are needed in `homing` for an error in
the second one after the first was homed; two points and two samples so that
each is first and not first; two cycles for the first, which takes one more
retry, and another.  `StowEach` is `FALSE` there, the case with a session that has to
be closed; the proofs cover both.

For `ReactorTimers`, three greenlets let a callback that has been resumed end or
pause again while another is still parked, and two instants are enough for
due, not yet due and NEVER.

The properties:

* `NoTimerForgotten`: `_next_timer` is set to NEVER when a scan begins and put
  together again by what the scan passes and what the callbacks do; a scan
  that is abandoned half way must not leave it too late.
* `GreenletTimers`: a greenlet has a timer exactly from its pause to the end of
  its callback.  `_end_greenlet` unregisters it in the middle of the scan
  that is using it.
* `DueRuns`: each pause abandons a scan, and the next begins at the front of the
  list.  That a timer at its end is reached depends on the order: the timers
  of parked greenlets are appended behind it.
* `OneScriptAtATime`: whoever is in the middle of a script, parked in it or not,
  owns the mutex.  The delicate place is `on_error_gcode`, which takes the mutex
  a second time after the failing line has released it.
* `FileOpenWhenUsed`: `current_file` is open wherever the code uses it without a
  test, across all `reactor.pause()` calls in between.
* `PositionExact`: whatever pauses, errors, cancels and resumes came before,
  `file_position` is never behind the first line that was not completed, so a
  resume leaves nothing out; and as long as the completed lines have a byte for each
  character it is exactly there, so nothing is printed twice.  In other
  files it may be behind that line (see below).
* `StatsTruthful`, `ImplementsLifecycle`: what Moonraker and the screen read is
  the state of the print.  `complete` comes after every line has been completed,
  `cancelled` is final, the print comes one line further at a time and only while
  `printing`.  A line that is run again, after a resume from a position in
  characters, is no step of `PrintLifecycle`.
* `PauseStopsPrint`: a PAUSE that takes effect leaves no work_handler that was
  not told to stop, with one exception that `pause_after_runout` shows.
* `NoWaitCycle`: when all are parked, each greenlet can be resumed, or the one it
  waits for, or the one that one waits for.  `do_pause` holds the mutex while it
  polls for a work_handler that may be waiting for the mutex.
* `OnlyStaleBreaks`: the break flag ends a wait unasked only when a TEMPERATURE_WAIT
  begins while it is set; `temperature_wait` shows that this does happen.
* `ImplementsChannel`: a block that is sent again may have been executed; only the
  remainder of its number tells, in a buffer that may hold several copies.
* `CompletedWereDelivered`, `AnswerBeforeCompletion`: `SerialRetryCommand` repeats a
  command whose completion comes without an answer; the two travel in
  different messages with the same number.
* `WindowRespected`: `need_ack_bytes` is an estimate; as long as nothing is sent
  twice it never lets the host overrun the controller.
* `UnackedIsTimed`, `NoLostWakeup`: the senders and the background thread test and
  write `need_kick_clock`, the pipe and the timers in turns.
* `NakNotRepeated`: each copy of a block sent again is answered by a nak.
* `AllAcknowledged`, `CompletionArrives`: progress.  The exception of the latter is
  the last command when its ack is lost.
* `StopBound`: whatever fails, a controller whose timeout has been set stops `Expire`
  ticks after the others.  A controller whose line is cut between `trsync_start` and
  `trsync_set_timeout` has none yet; the property is about the others.
* `HitIsReal`, `TimeoutReported`: `home_wait` decides from the answers alone.  A lost
  answer makes a report sent before the timeout count, hence `lost = 0`.
* `NoStaleTrigger`: nothing of a move is left for the next.
* `EachIsHeard`: while the host waits, each controller whose line works is still to
  start, reports, or has its last word on the line.  A controller that stops its
  timers must have told so; only a lost report breaks this.
* `ImplementsMove`: each controller starts once, stops once and stays, `home_wait`
  returns when all have stopped and none is shut down, and a hit or a timeout that it
  returns is one, whatever was lost.
* `PositionKnown`: `home_rails` gives the axis limits before it moves, so any later
  error, in any axis, must take them back.  It is about axes with a
  `retract_dist`: without one, an endstop that is stuck is trusted.
* `SwappedIsUnhomed`: a REVERSE_HOMING that fails leaves the endstops of Z switched;
  what saves the printer is that no axis counts as homed then.
* `ProbeFollowed`: session, deployment and move agree, through nested sessions
  (`run_probe` within `start_probe`), errors in the middle and skipped scripts.
* `DriversRestored`: a failing homing move still sends its end event.  When a
  register cannot be written this no longer holds (see below).
* `RetriesBounded`, `CommandEnds`: the retry counter starts again at one after each
  shake, so the bound is `Retries + 1 + (MaxCycles - 1) * Retries`.
* `RequestServed`: `do_pause` polls under the mutex for a work_handler that may be
  waiting for the mutex; `cmd_from_sd` is what keeps this from blocking.

The five violation runs are disagreements of the code with its documentation;
`PROJECT.json` quotes the lines.  Others met while modelling, without a run of
their own:

* `docs/Status_Reference.md:614` (of Klipper) calls `file_position` "The current
  position (in bytes) of an active print", and M27 reports "SD printing byte"
  (`virtual_sdcard.py:217`).  It counts characters.  With CR LF line ends or
  characters of several bytes in lines that are completed, it falls behind by a byte for
  each, and a pause and resume goes back by as much: text that was printed is
  printed again, a line may be cut in two, and a seek into the middle of a character
  makes the read raise, which ends the print as "paused".  `print_job` has such a
  file and reaches these resumes; there `PositionExact` says only that nothing is left
  out.
* `docs/Config_Reference.md:2161` (of Klipper) says that an error is reported when
  samples do not agree within `samples_tolerance_retries`; `probe.py:201-222` shakes
  the nozzle and retries for up to 20 cycles.  `README.md:170` of the repository says
  the limit is 50; with 3 or more retries per cycle it is more.
* `qidi_stepper.py:125` describes REVERSE_HOMING as "Home Z using the reverse endstop
  pins".  After one that has failed the next homes with the primary ones.
* A register that cannot be written in the begin handler of a second driver
  leaves the first set up for homing, and the next begin event keeps that as
  its normal state.
* `docs/Multi_MCU_Homing.md:18` (of Klipper) gives 25 ms for the timeout of
  trigger synchronisation; `mcu.py:128` has 0.10 s.
* An error or breakmacro between G91 and G90 (`probe.py:234-240`) leaves relative
  coordinates, and `vibrate: 0` divides by zero (`probe.py:232`).

### Fairness

`FairSpec` assumes that a greenlet that executes goes on (weak fairness); that a
parked greenlet whose condition keeps coming true gets its turn (strong
fairness per greenlet: its timer is due again and again, and `DueRuns` of
`ReactorTimers` says that a due timer is run); and that heaters, move queues
and homing moves come to an end.  Requests and events are never forced.
`ReactorTimers` assumes that the loop goes on and that a callback returns or
pauses; time need not pass.
`SerialQueue` assumes that the background thread runs its handlers when they are
due (weak fairness of each, and of a `command_event` that sends something, since
`ready_queue` is not empty for ever once clocks advance), that a sender that has
released the lock writes to the pipe, that a line delivers what it does not
lose, and that `console_task` is run.  Incidents are never forced and are finite.
`Homing` assumes weak fairness of everything a command does: a move comes to an
end and a script goes on.  Commands, breakmacro, resumemacro and shutdowns are
not forced.  `TriggerSync` has no liveness property of its own: that `home_wait`
ends is violated (`homing_waits`).

## 4. What is proved

Three abstract specifications tie the modules together: `ReactorMutex` implements
`GCodeLock` and `PrintJob` uses its mutex as `GCodeLock` allows (`PrintUsesLock`);
`SerialQueue` implements `CommandChannel`, on which the lines of `TriggerSync` rest;
`TriggerSync` implements `HomingMove`, of which a move of `Homing` is one.  `PrintJob`
implements `PrintLifecycle`.  All of these are proved.  (That the lines of `TriggerSync`
and the moves of `Homing` are those promised is by their construction and not a
theorem.)

`ReactorMutexProofs`, for any set of greenlets: `IInv` is inductive.  Exclusion
alone is not: `Exit` of the owner and `WakeOwner` of the next must be told
apart from a newcomer, so `IInv` says that after a hand-over nobody is inside,
the mutex stays locked and the next owner's timer is due (`HandOver`), that
`is_locked` is true exactly while the mutex is owned or handed over
(`LockedIffOwned`), and that the queue holds exactly the parked greenlets, each
once (`QueueExact`).  FIFO order and the refinement of `GCodeLock` follow from
it step by step.

`ReactorTimersProofs`, for any number of timers and greenlets and any range of
times: `IInv` is inductive.  `NoTimerForgotten` needs to know that timers are left to
look at only while the dispatcher is inside a scan (`ScanInProgress`), so that
nothing is forgotten when it goes to sleep, and that one greenlet runs at a
time (`OneRuns`); a scan given up by `Pause` is made good by `_next_timer = NOW`.
`GreenletTimers` is part of it because a timer that is run must be that of a
parked greenlet.

`PrintJobProofs`, for every file, set of scripts, `on_error_gcode`, number of
clients and chunk size: `Spec => []PrintInv` and from it the safety properties above,
`PauseStopsPrint` and `ImplementsLifecycle`.  The argument:

* `Active` and `Handler` tie the place of a greenlet to `running`, `work_timer`,
  `cmd_from_sd` and `error_message`.
* `PauseSeen`: as long as a command is in `do_pause`, the work_handler knows that
  it has to stop, and when `do_pause` has returned either there is no
  work_handler or the command is part of it.  This is what makes closing
  the file after `do_pause` safe (`LineHasFile`, `FileOpenWhenUsed`).
* `Reading` and `WithinFile` relate the read pointer, the lines not yet dispatched
  and `file_position`: it is at most the byte at which the next line to dispatch (or
  what is left of it) begins, because a rest of a line has at most as many
  characters as bytes, and that line is at most the first one not completed.  While
  the completed lines are plain both are equalities.  `PositionExact` follows when a line
  ends, from `PositionExact` before it for a line that is run again.  `SeekFacts`
  finds the line of a seek: not behind the first one not completed, and exactly
  that one if the position is its first byte.
* `Started`, `Over` and `Ending` relate `print_start_time`, the state and the file,
  which gives `StatsTruthful` and the refinement.

There is one lemma per action (what it does to every part of `PrintInv`), with a
common lemma for the commands that leave the work_handler and the file alone.
The assumptions are `PrintJobAssumption`, that the greenlets are distinct and the files
and scripts are sequences of commands, and `FileAssumption`, that the lines follow
each other and a line has at least a byte for each character.  So `PositionHolds` is
about every file as it is on the disk, whatever its line ends and
encoding; that nothing is printed twice it claims for plain lines only.

`PrintJobWaitProofs` goes on, from the same assumptions, to who waits for whom.  Four
more parts make `IInv`: the queue of the mutex holds exactly the greenlets parked in
it, each once (`QueueExact`); its owner is in a script or about to be woken for one, and
nobody waits for a free mutex (`OwnerKnown`); whoever is in `do_pause` came there by
a command that pauses, or is the runout event (`PauseCommanded`); a heater's loop that
finds the flag set was broken off on request (`BreakAsked`).  The actions fall into
those that keep the mutex, take or ask for it and release it, with one lemma for
each kind.

* `NoWaitCycles`: an owner of the mutex that polls in `do_pause` has told the
  work_handler to stop (`PauseSeen`) and found `cmd_from_sd` clear, so the work_handler
  is due, reading or yielding, never in the mutex; and once told to stop it yields
  for nobody.  Everybody else waits for the owner, or, as the runout event, for the
  work_handler.  A chain of waits therefore ends at the second other greenlet at
  the latest, with one that can be resumed.
* `AskedForOnce`: nobody asks for a mutex it owns or has asked for; the code takes it
  recursively by `run_script_from_command`, which does not ask.
* `WaitsHoldWithoutBreak`, `WholeWithoutBreak`, `PausesWithoutRunout`: with one kind of event
  left out, everything else as it is, the properties that the violation runs refute
  hold.  The break flags and the early pause command are therefore the
  only causes of these four divergences.  Each is an assumption on `Events` that
  the other instances satisfy.

`SerialQueueProofs`, for every number of pending blocks below the range of the
sequence number, every window, and every number of commands and incidents.
`SentInv`, `NextInv` and `FramesInv` bound the numbers of all blocks on the line and in the
buffers from both sides: they are less than `SeqMod` apart, so equal remainders
mean equal numbers (`SameWire`), and a block that is accepted is the next one.
`ConnectInv` does the same before the two sides agree, when nothing is accepted
yet and the requests may be dropped.  `RepliesInv`, `NotifyInv` and `AnswersInv` give
the order of answers and completions, `OnceInv` the window, `TimerInv` and `WakeInv`
the timers and wake-ups.

`TriggerSyncProofs`, for any number of controllers, any timeouts, moves and faults.
The invariant has a part for each controller and its line (`Local`), which says
which commands and messages may be under way in each phase, and one for the
clocks (`Clocks`): what the dispatcher has promised a controller is at most `Expire`
after the last report of each other one, and a report is never later than the
moment a controller stops, a line fails or the host ends, so that these moments
freeze the limits.  `Tick` cannot pass an `expire_time`, which gives `StopBound`.  The
lines are empty, up to a failed one, when `stop()` has returned, so a new move
starts clean (`NoStaleTrigger`, `AllStopped`).  There is one lemma per action and part.
`EachIsHeard` is inductive together with it: a controller gives up reporting only in
`trsync_trigger`, which answers in the same step, and a message stays on the line until the
host has read it.  From it follows that `home_wait` ends up waiting for nobody only after
a report was lost (`WaitEndsUnlessLost`), so the loss is the only cause of what `homing_waits`
shows.  For the refinement of `HomingMove` the host's knowledge has to agree with the
controllers also when answers are lost: whatever it has heard of a reason is that reason
or none yet (`Tells`).

`HomingProofs`, for any axes, endstops, drivers, samples, retries, cycles, points and
rounds, and both values of `StowEach`.  `Base` says where each command may be;
`PosInv` that an axis is exact unless it is still to be homed by a G28 under way or the
command has failed; `ProbeInv` that a session is open exactly in the places inside
one, that `multi = "ON"` means deployed, and that between moves the probe is stowed
unless the session keeps it deployed; `DriverInv` which drivers are held by the move
under way and that they have kept `"run"`; `CountInv` relates the failures to the two
counters (`fails + PerCycle <= Retries + cycles * PerCycle + retries`).  None of the properties
is inductive alone: what follows a failure depends on the place it happened.

Only model-checked: liveness (`Served`, `DueRuns`, `RequestServed`, `AllAcknowledged`,
`CompletionArrives`, `CommandEnds`), which TLAPS does not do, and deadlock freedom as TLC
checks it, which is about `ENABLED`; `NoWaitCycles` is the part of it that can be proved.
Type invariants, and `AllStopped`, which are parts of the inductive invariants, are left to
the proofs where a run has other questions.

## 5. What is not modelled

In `ReactorTimers`: completions and the queue of asynchronous callbacks (which use the
operations modelled), file descriptors one by one, garbage collection, the end
of the reactor, exceptions that leave a callback.

In `SerialQueue`: command queues with their clocks and priorities (which command
is next and when; `CommandEvent` takes any number), several commands per block,
CAN and file output, the estimate of the round-trip time (a timeout may come
too early at any time), a reset of the controller within a session, encoding
and parsing of messages, the limit of `console_sendf` (an answer it drops is a lost
one).  Acknowledgements of the last session that arrive at the connection may
drop requests; they are repeated.

In `TriggerSync`: the conversion between the clocks of the controllers,
`endstop_query_state` after a hit, the shutdown that the host starts when a controller is
lost, the other users of `trsync` (a probe uses the same code).

In `Homing`: coordinates, speeds and whether samples agree (a free choice),
SET_KINEMATIC_POSITION, FORCE_MOVE and SET_STEPPER_ENABLE (which change what counts as homed or enabled on purpose),
`safe_z_home` and `homing_override`, manual probing, PROBE_ACCURACY and PROBE_CALIBRATE,
the nozzle shake itself, a restart after a shutdown (a new process may find the
probe deployed: `Init`).

In `PrintJob`: M26 and the position jumps of `sdcard_loop`, the
`plr_record` file and its counter, filament usage, the last line of a file without a
newline (it is never dispatched), what the rest of a cut line says (any of `Fragments`,
so more than the real rest) and which positions are inside a character (a read may
raise at any time, `SdReadFails`), encodings with less than a byte for each character, `pause_on_runout: False`, the insert event, the Idle state of the idle
timeout.  Motion planning and temperature control are real-valued; step
generation and the other tasks of the micro-controller, the installer and the
tools are planned or out of reach (see `PROJECT.json`).

## 6. Plan

1. `GCodeLock`, `ReactorMutex` (done, proved).
2. `PrintLifecycle`, `PrintJob` (done, proved, with the waits).
3. `ReactorTimers` (done, proved).  Next: the flags by which `delayed_gcode.py` and
   `idle_timeout.py` avoid updating a timer whose callback is parked.
4. `Installer`: postinst, debloat and the background git jobs with power loss at
   any point and a second run; what a rerun repairs.
5. `PowerLossRecord`: the record file against crash, pause, resume, next print.
6. `CommandChannel`, `SerialQueue` (done, proved).
7. `HomingMove`, `TriggerSync` (done, proved).
8. `Homing` (done, proved).  Next: `safe_z_home` and the bed mesh commands above it.
9. The build tools: archive writing and reading as functions over short inputs.

Runs planned: one per module, with bounds that let each fault occur twice.
Theorems planned: the invariants of `PowerLossRecord` and `Installer`.
