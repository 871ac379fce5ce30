------------------------------ MODULE PrintJob ------------------------------
(***************************************************************************)
(* A print from the virtual SD card and everything that may interfere with *)
(* it: the work_handler greenlet of virtual_sdcard.py, scripts of API      *)
(* clients (webhooks) that run on greenlets of their own, the runout event *)
(* of filament_switch_sensor.py, and the web endpoints of the vendor fork  *)
(* that set flags without taking the G-code mutex (breakmacro,             *)
(* resumemacro, breakheater, emergency_stop).                              *)
(*                                                                         *)
(* Greenlets are cooperative.  `running' is the greenlet that executes, or *)
(* NoOne while the reactor waits for its next timer or file descriptor:    *)
(* actions of one greenlet are interleaved with those of others only where *)
(* the code calls reactor.pause().  Polling loops are resumed when the     *)
(* condition they poll for holds; a poll that fails changes nothing.       *)
(***************************************************************************)
EXTENDS Sequences, Naturals

CONSTANTS
    SD,           \* the greenlet of virtual_sdcard.work_handler
    RO,           \* the greenlet of the filament runout event
    Clients,      \* greenlets of webhooks requests
    NoOne,        \* nobody
    File,         \* the G-code file: a sequence of lines, each the sequence
                  \* of commands it expands to
    LineAt,       \* the byte of the file at which each line begins, and at
                  \* last the one after the last newline
    Chars,        \* the characters of each line as it is read in text mode,
                  \* with a newline that counts as one
    Fragments,    \* what a line may say whose beginning is cut off
    OnError,      \* on_error_gcode, a sequence of commands
    RunoutGcode,  \* runout_gcode, a sequence of commands
    Scripts,      \* the scripts clients may send
    Events,       \* the asynchronous events that may occur
    ChunkLines,   \* lines that one read of 8192 bytes returns
    MaxEvents     \* bound on the client requests and events of a behaviour

Commands == {"G1", "G28", "M109", "TEMPERATURE_WAIT", "PAUSE", "RESUME",
             "CLEAR_PAUSE", "CANCEL_PRINT", "SDCARD_PRINT_FILE",
             "SDCARD_RESET_FILE", "M23", "M24", "M25", "M112"}

Greenlets == Clients \cup {SD, RO}

ASSUME PrintJobAssumption ==
    /\ SD # RO /\ SD \notin Clients /\ RO \notin Clients
    /\ NoOne \notin Greenlets
    /\ File \in Seq(Seq(Commands)) /\ Fragments \subseteq Seq(Commands)
    /\ OnError \in Seq(Commands) /\ RunoutGcode \in Seq(Commands)
    /\ Scripts \subseteq Seq(Commands)
    /\ Events \subseteq {"breakmacro", "resumemacro", "breakheater",
                         "emergency_stop", "runout"}
    /\ ChunkLines \in Nat \ {0} /\ MaxEvents \in Nat

(* The lines of the file follow each other, and a character has one byte or*)
(* more (two for a newline written as CR LF).                              *)
ASSUME FileAssumption ==
    /\ LineAt \in [1..Len(File) + 1 -> Nat] /\ LineAt[1] = 0
    /\ Chars \in [1..Len(File) -> Nat \ {0}]
    /\ \A i \in 1..Len(File), j \in 1..Len(File) + 1 :
          i < j => LineAt[i] + Chars[i] <= LineAt[j]

VARIABLES
    running,   \* the greenlet that executes, or NoOne
    pc,        \* where each greenlet is
    script,    \* the commands each greenlet has still to process
    holder,    \* the owner of the G-code mutex
    waiting,   \* its queue
    flags,     \* gcode.break_flag, heaters.break_flag, printer in shutdown
    moving,    \* idle_timeout.state = "Printing"
    sd,        \* the fields of VirtualSD and the locals of work_handler:
               \* `pos' is file_position, `next' next_file_position, lines
               \* `head'..`read' have been read and not been dispatched, and
               \* `offset' bytes of the first of them were skipped by a seek
    pr,        \* the fields of PauseResume; `saved': PAUSE_STATE of gcode_move
               \* holds the position of the latest pause
    stats,     \* the fields of PrintStats that steer it
    hist,      \* history: what has happened, for the properties only
    events     \* client requests and events so far

vars == <<running, pc, script, holder, waiting, flags, moving, sd, pr, stats,
          hist, events>>

Lock == INSTANCE GCodeLock

(* "due": the reactor callback is registered; "gcode": in _process_commands*)
(* with the mutex; "mutex": parked in the mutex; "wait": parked inside a   *)
(* command (a full move queue, a heater); "dopause": polling in do_pause;  *)
(* "restore": parked in the move of a RESUME; "stopped": the part of a     *)
(* command that may park has returned; "failed": a command has raised;     *)
(* "delay": the runout event's pause_delay.  The others are places in the  *)
(* work_handler.                                                           *)
Places == {"idle", "due", "mutex", "gcode", "wait", "dopause", "stopped",
           "restore", "failed", "delay", "loop", "read", "busy", "onerror",
           "exit"}

Init ==
    /\ running = NoOne
    /\ pc = [g \in Greenlets |-> "idle"]
    /\ script = [g \in Greenlets |-> <<>>]
    /\ holder = NoOne /\ waiting = <<>>
    /\ flags = [gcode |-> FALSE, heat |-> FALSE, shutdown |-> FALSE]
    /\ moving = FALSE
    /\ sd = [work |-> FALSE, mustPause |-> FALSE, fromSd |-> FALSE,
             file |-> FALSE, pos |-> 0, next |-> 0, read |-> 0, head |-> 1,
             offset |-> 0, error |-> FALSE]
    /\ pr = [paused |-> FALSE, sdPaused |-> FALSE, sent |-> FALSE,
             saved |-> FALSE]
    /\ stats = [state |-> "standby", started |-> FALSE, pausedAt |-> FALSE]
    /\ hist = [last |-> 0, skipped |-> FALSE, asked |-> FALSE, cut |-> FALSE]
    /\ events = 0
-----------------------------------------------------------------------------
(* PrintStats *)

ResetStats == [state |-> "standby", started |-> FALSE, pausedAt |-> FALSE]

NoteStart(s) ==
    [state |-> "printing", started |-> TRUE, pausedAt |-> s.pausedAt /\ ~s.started]

NotePause(s) ==
    [s EXCEPT !.pausedAt = TRUE,
              !.state = IF s.state = "error" THEN "error" ELSE "paused"]

(* A mistake: a print that is over is finished again. *)
NoteFinishAgain(s, how) == [s EXCEPT !.state = how, !.started = FALSE]

NoteFinish(s, how) ==
    IF s.started THEN [s EXCEPT !.state = how, !.started = FALSE] ELSE s

(* PauseResume *)

ClearPause(p) == [p EXCEPT !.paused = FALSE, !.sent = FALSE]
-----------------------------------------------------------------------------
(* Control flow *)

Executing(g) == running = g /\ pc[g] = "gcode" /\ script[g] # <<>>

(* The next line is command c, and the break flag lets it through. *)
At(g, c) == Executing(g) /\ Head(script[g]) = c
            /\ (flags.gcode => c = "CANCEL_PRINT")

(* do_pause has returned to command c. *)
Stopped(g, c) == running = g /\ pc[g] = "stopped" /\ script[g] # <<>>
                 /\ Head(script[g]) = c

NextLine(g) == /\ script' = [script EXCEPT ![g] = Tail(@)]
               /\ pc' = [pc EXCEPT ![g] = "gcode"]
               /\ UNCHANGED <<running, holder, waiting>>

(* gcode.error: _process_commands re-raises it, which ends the script. *)
Raise(g) == /\ script' = [script EXCEPT ![g] = <<>>]
            /\ pc' = [pc EXCEPT ![g] = "failed"]
            /\ UNCHANGED <<running, holder, waiting>>

(* reactor.pause() *)
Park(g, place) == /\ pc' = [pc EXCEPT ![g] = place]
                  /\ running' = NoOne

(* run_script: take the mutex, at once or after waiting for it. *)
RunScript(g, s) ==
    /\ script' = [script EXCEPT ![g] = s]
    /\ IF holder = NoOne
       THEN /\ Lock!Acquire(g)
            /\ pc' = [pc EXCEPT ![g] = "gcode"]
            /\ running' = g
       ELSE Lock!Enqueue(g) /\ Park(g, "mutex")

GetMutex(g) ==
    /\ running = NoOne /\ pc[g] = "mutex" /\ holder = g
    /\ running' = g
    /\ pc' = [pc EXCEPT ![g] = "gcode"]
    /\ UNCHANGED <<script, holder, waiting, flags, moving, sd, pr, stats, hist,
                   events>>

(* A script of a client or of the runout event ends, normally or not. *)
EndScript(g) ==
    /\ g # SD /\ running = g
    /\ pc[g] = "failed" \/ (pc[g] = "gcode" /\ script[g] = <<>>)
    /\ Lock!Release(g)
    /\ Park(g, "idle")
    /\ UNCHANGED <<script, flags, moving, sd, pr, stats, hist, events>>

(* The break flag drops every line but CANCEL_PRINT. *)
SkipLine(g) ==
    /\ Executing(g) /\ flags.gcode /\ Head(script[g]) # "CANCEL_PRINT"
    /\ NextLine(g)
    /\ hist' = [hist EXCEPT !.skipped = @ \/ g = SD]
    /\ UNCHANGED <<flags, moving, sd, pr, stats, events>>
-----------------------------------------------------------------------------
(* Commands that move or wait *)

(* G1, M400, G28: toolhead code may call reactor.pause() while its queue is full*)
(* and marks the printer as printing (toolhead:sync_print_time).           *)
Move(g) ==
    /\ At(g, "G1") \/ At(g, "G28")
    /\ moving' = TRUE
    /\ \/ NextLine(g)
       \/ Park(g, "wait") /\ UNCHANGED <<script, holder, waiting>>
    /\ UNCHANGED <<flags, sd, pr, stats, hist, events>>

(* G28 stands for the commands that may raise gcode.error. *)
Fail(g) ==
    /\ At(g, "G28")
    /\ Raise(g)
    /\ UNCHANGED <<flags, moving, sd, pr, stats, hist, events>>

(* A mistake: M109 does not clear the break flag. *)
HeatAndWaitStale(g) ==
    /\ At(g, "M109")
    /\ moving' = TRUE
    /\ hist' = [hist EXCEPT !.asked = FALSE]
    /\ \/ NextLine(g)
       \/ /\ ~flags.shutdown
          /\ Park(g, "wait") /\ UNCHANGED <<script, holder, waiting>>
    /\ UNCHANGED <<flags, sd, pr, stats, events>>

(* M109: set_temperature with wait.  _wait_for_temperature clears the break*)
(* flag before it looks at the heater.                                     *)
HeatAndWait(g) ==
    /\ At(g, "M109")
    /\ flags' = [flags EXCEPT !.heat = FALSE]
    /\ moving' = TRUE
    /\ hist' = [hist EXCEPT !.asked = FALSE]
    /\ \/ NextLine(g)
       \/ /\ ~flags.shutdown
          /\ Park(g, "wait") /\ UNCHANGED <<script, holder, waiting>>
    /\ UNCHANGED <<sd, pr, stats, events>>

(* TEMPERATURE_WAIT leaves its loop when the break flag is set, and neither*)
(* clears the flag before the loop nor after it.                           *)
TemperatureWait(g) ==
    /\ At(g, "TEMPERATURE_WAIT")
    /\ hist' = [hist EXCEPT !.asked = FALSE,
                            !.cut = @ \/ (flags.heat /\ ~flags.shutdown)]
    /\ \/ NextLine(g) /\ UNCHANGED moving
       \/ /\ ~flags.shutdown /\ ~flags.heat
          /\ moving' = TRUE
          /\ Park(g, "wait") /\ UNCHANGED <<script, holder, waiting>>
    /\ UNCHANGED <<flags, sd, pr, stats, events>>

(* The parked command goes on: the queue has room, the temperature is      *)
(* reached, the printer is in shutdown, or the wait is interrupted.        *)
EndWait(g) ==
    /\ running = NoOne /\ pc[g] = "wait"
    /\ running' = g
    /\ pc' = [pc EXCEPT ![g] = "gcode"]
    /\ script' = [script EXCEPT ![g] = Tail(@)]
    /\ \/ UNCHANGED <<flags, hist>>
       \/ /\ Head(script[g]) = "M109" /\ flags.heat /\ ~flags.shutdown
          /\ flags' = [flags EXCEPT !.heat = FALSE]
          /\ hist' = [hist EXCEPT !.cut = @ \/ ~hist.asked]
       \/ /\ Head(script[g]) = "TEMPERATURE_WAIT"
          /\ flags.heat /\ ~flags.shutdown
          /\ hist' = [hist EXCEPT !.cut = @ \/ ~hist.asked]
          /\ UNCHANGED flags
    /\ UNCHANGED <<holder, waiting, moving, sd, pr, stats, events>>
(* A homing move ends without a trigger. *)
WaitFails(g) ==
    /\ running = NoOne /\ pc[g] = "wait" /\ Head(script[g]) = "G28"
    /\ running' = g
    /\ pc' = [pc EXCEPT ![g] = "failed"]
    /\ script' = [script EXCEPT ![g] = <<>>]
    /\ UNCHANGED <<holder, waiting, flags, moving, sd, pr, stats, hist, events>>
-----------------------------------------------------------------------------
(* VirtualSD.do_pause *)

MustWait == sd.work /\ ~sd.fromSd

(* A mistake: do_pause waits for the work_handler without telling it. *)
DoPauseUnflagged(g) ==
    /\ IF MustWait
       THEN Park(g, "dopause")
       ELSE pc' = [pc EXCEPT ![g] = "stopped"] /\ UNCHANGED running
    /\ UNCHANGED <<script, holder, waiting, sd>>

(* do_pause, called by g, up to its first reactor.pause() or its return *)
DoPause(g) ==
    /\ sd' = [sd EXCEPT !.mustPause = @ \/ sd.work]
    /\ IF MustWait
       THEN Park(g, "dopause")
       ELSE pc' = [pc EXCEPT ![g] = "stopped"] /\ UNCHANGED running
    /\ UNCHANGED <<script, holder, waiting>>

(* The polling loop of do_pause ends. *)
DoPauseReturns(g) ==
    /\ running = NoOne /\ pc[g] = "dopause" /\ ~MustWait
    /\ running' = g
    /\ pc' = [pc EXCEPT ![g] = "stopped"]
    /\ UNCHANGED <<script, holder, waiting, flags, moving, sd, pr, stats, hist,
                   events>>

(* do_resume when no work_handler is registered *)
DoResume(s) == [s EXCEPT !.work = TRUE, !.mustPause = FALSE]
-----------------------------------------------------------------------------
(* PAUSE: send_pause_command, SAVE_GCODE_STATE, is_paused *)

PauseIgnored(g) ==
    /\ At(g, "PAUSE") /\ pr.paused
    /\ NextLine(g)
    /\ UNCHANGED <<flags, moving, sd, pr, stats, hist, events>>

(* The command has been sent already, or no print is active: no do_pause. *)
PauseAtOnce(g) ==
    /\ At(g, "PAUSE") /\ ~pr.paused
    /\ pr.sent \/ ~sd.work
    /\ pr' = [paused |-> TRUE, sent |-> TRUE, saved |-> TRUE,
              sdPaused |-> pr.sent /\ pr.sdPaused]
    /\ NextLine(g)
    /\ UNCHANGED <<flags, moving, sd, stats, hist, events>>

PausePrint(g) ==
    /\ At(g, "PAUSE") /\ ~pr.paused /\ ~pr.sent /\ sd.work
    /\ pr' = [pr EXCEPT !.sdPaused = TRUE]
    /\ DoPause(g)
    /\ UNCHANGED <<flags, moving, stats, hist, events>>

(* SAVE_GCODE_STATE is a line of its own to _process_commands: the break   *)
(* flag drops it.                                                          *)
PauseCompletes(g) ==
    /\ Stopped(g, "PAUSE")
    /\ pr' = [pr EXCEPT !.sent = TRUE, !.paused = TRUE, !.saved = ~flags.gcode]
    /\ NextLine(g)
    /\ UNCHANGED <<flags, moving, sd, stats, hist, events>>

(* RESUME: RESTORE_GCODE_STATE moves the head back, which may park or     *)
(* raise; then send_resume_command, which raises "SD busy" while a         *)
(* work_handler is registered.                                             *)
ResumeIgnored(g) ==
    /\ At(g, "RESUME") /\ ~pr.paused
    /\ NextLine(g)
    /\ UNCHANGED <<flags, moving, sd, pr, stats, hist, events>>

ResumeMovesBack(g) ==
    /\ At(g, "RESUME") /\ pr.paused
    /\ moving' = TRUE
    /\ \/ pc' = [pc EXCEPT ![g] = "stopped"] /\ UNCHANGED <<running, script, holder, waiting>>
       \/ Park(g, "restore") /\ UNCHANGED <<script, holder, waiting>>
       \/ Raise(g)
    /\ UNCHANGED <<flags, sd, pr, stats, hist, events>>

MoveBackEnds(g) ==
    /\ running = NoOne /\ pc[g] = "restore"
    /\ running' = g
    /\ pc' = [pc EXCEPT ![g] = "stopped"]
    /\ UNCHANGED <<script, holder, waiting, flags, moving, sd, pr, stats, hist,
                   events>>

ResumeRefused(g) ==
    /\ Stopped(g, "RESUME") /\ pr.sdPaused /\ sd.work
    /\ Raise(g)
    /\ UNCHANGED <<flags, moving, sd, pr, stats, hist, events>>

ResumePrint(g) ==
    /\ Stopped(g, "RESUME") /\ (pr.sdPaused => ~sd.work)
    /\ pr' = [pr EXCEPT !.paused = FALSE, !.sdPaused = FALSE, !.sent = FALSE]
    /\ script' = [script EXCEPT ![g] = Tail(@)]
    /\ IF pr.sdPaused
       THEN sd' = DoResume(sd) /\ pc' = [pc EXCEPT ![SD] = "due", ![g] = "gcode"]
       ELSE UNCHANGED sd /\ pc' = [pc EXCEPT ![g] = "gcode"]
    /\ UNCHANGED <<running, holder, waiting, flags, moving, stats, hist, events>>

ClearPauseCmd(g) ==
    /\ At(g, "CLEAR_PAUSE")
    /\ pr' = ClearPause(pr)
    /\ NextLine(g)
    /\ UNCHANGED <<flags, moving, sd, stats, hist, events>>
-----------------------------------------------------------------------------
(* CANCEL_PRINT clears the break flag, and with it that of the heaters. *)

UnbreakFlags == [flags EXCEPT !.gcode = FALSE, !.heat = @ /\ ~flags.gcode]

(* do_cancel when a file is open closes it; note_cancel; CLEAR_PAUSE *)
CancelNothing(g) ==
    /\ At(g, "CANCEL_PRINT")
    /\ ~sd.file \/ ~(sd.work \/ pr.sdPaused)
    /\ flags' = UnbreakFlags
    /\ sd' = [sd EXCEPT !.pos = IF sd.work \/ pr.sdPaused THEN 0 ELSE @]
    /\ pr' = ClearPause(pr)
    /\ NextLine(g)
    /\ UNCHANGED <<moving, stats, hist, events>>

(* A mistake: do_cancel closes the file without do_pause. *)
CancelAtOnce(g) ==
    /\ At(g, "CANCEL_PRINT")
    /\ sd.file /\ (sd.work \/ pr.sdPaused)
    /\ flags' = UnbreakFlags
    /\ pc' = [pc EXCEPT ![g] = "stopped"]
    /\ UNCHANGED <<running, script, holder, waiting, moving, sd, pr, stats, hist,
                   events>>

CancelPrint(g) ==
    /\ At(g, "CANCEL_PRINT")
    /\ sd.file /\ (sd.work \/ pr.sdPaused)
    /\ flags' = UnbreakFlags
    /\ DoPause(g)
    /\ UNCHANGED <<moving, pr, stats, hist, events>>

CancelCompletes(g) ==
    /\ Stopped(g, "CANCEL_PRINT")
    /\ sd' = [sd EXCEPT !.file = FALSE, !.pos = 0]
    /\ stats' = NoteFinish(stats, "cancelled")
    /\ pr' = ClearPause(pr)
    /\ NextLine(g)
    /\ UNCHANGED <<flags, moving, hist, events>>
-----------------------------------------------------------------------------
(* The commands of VirtualSD *)

(* _reset_file after its do_pause, and print_stats.reset *)
Closed == [sd EXCEPT !.file = FALSE, !.pos = 0]

Forgotten == [hist EXCEPT !.last = 0, !.skipped = FALSE]

ResetFile(g) ==
    /\ At(g, "SDCARD_RESET_FILE")
    /\ \/ sd.fromSd /\ Raise(g) /\ UNCHANGED <<sd, stats, hist>>
       \/ ~sd.fromSd /\ sd.file /\ DoPause(g) /\ UNCHANGED <<stats, hist>>
       \/ /\ ~sd.fromSd /\ ~sd.file
          /\ sd' = Closed /\ stats' = ResetStats /\ hist' = Forgotten
          /\ NextLine(g)
    /\ UNCHANGED <<flags, moving, pr, events>>

ResetFileCompletes(g) ==
    /\ Stopped(g, "SDCARD_RESET_FILE")
    /\ sd' = Closed /\ stats' = ResetStats /\ hist' = Forgotten
    /\ NextLine(g)
    /\ UNCHANGED <<flags, moving, pr, events>>

(* M23 and SDCARD_PRINT_FILE: no work_handler is registered, so do_pause   *)
(* returns at once.  Opening the file may fail after the old one is closed.*)
LoadFile(g, c) ==
    /\ At(g, c)
    /\ \/ sd.work /\ Raise(g) /\ UNCHANGED <<sd, stats, hist>>
       \/ /\ ~sd.work
          /\ sd' = Closed /\ stats' = ResetStats /\ hist' = Forgotten
          /\ Raise(g)
       \/ /\ ~sd.work
          /\ stats' = ResetStats /\ hist' = Forgotten
          /\ script' = [script EXCEPT ![g] = Tail(@)]
          /\ IF c = "M23"
             THEN sd' = [Closed EXCEPT !.file = TRUE] /\ UNCHANGED pc
             ELSE /\ sd' = DoResume([Closed EXCEPT !.file = TRUE])
                  /\ pc' = [pc EXCEPT ![SD] = "due"]
          /\ UNCHANGED <<running, holder, waiting>>
    /\ UNCHANGED <<flags, moving, pr, events>>

M24(g) ==
    /\ At(g, "M24")
    /\ IF sd.work
       THEN Raise(g) /\ UNCHANGED sd
       ELSE /\ sd' = DoResume(sd)
            /\ pc' = [pc EXCEPT ![SD] = "due"]
            /\ script' = [script EXCEPT ![g] = Tail(@)]
            /\ UNCHANGED <<running, holder, waiting>>
    /\ UNCHANGED <<flags, moving, pr, stats, hist, events>>

M25(g) ==
    /\ At(g, "M25")
    /\ DoPause(g)
    /\ UNCHANGED <<flags, moving, pr, stats, hist, events>>

M25Completes(g) ==
    /\ Stopped(g, "M25")
    /\ NextLine(g)
    /\ UNCHANGED <<flags, moving, sd, pr, stats, hist, events>>

(* invoke_shutdown and VirtualSD.handle_shutdown.  The G-code handlers stay*)
(* in place: commands are still processed after a shutdown.                *)
InvokeShutdown ==
    /\ flags' = [flags EXCEPT !.shutdown = TRUE]
    /\ sd' = [sd EXCEPT !.mustPause = @ \/ (sd.work /\ ~flags.shutdown)]

M112(g) ==
    /\ At(g, "M112")
    /\ InvokeShutdown
    /\ NextLine(g)
    /\ UNCHANGED <<moving, pr, stats, hist, events>>

(* A command raises anything but gcode.error: _process_commands shuts the  *)
(* printer down and re-raises.  For a line of the file see SdLineCrashes.  *)
Crash(g) ==
    /\ At(g, "G28") /\ (g = SD => sd.error)
    /\ InvokeShutdown
    /\ Raise(g)
    /\ UNCHANGED <<moving, pr, stats, hist, events>>
-----------------------------------------------------------------------------
(* VirtualSD.work_handler *)

SdGoes(place) == pc' = [pc EXCEPT ![SD] = place]

(* A mistake: the file goes on from where it was read, without a seek. *)
SdStartWithoutSeek ==
    /\ running = NoOne /\ pc[SD] = "due"
    /\ IF sd.file
       THEN /\ sd' = [sd EXCEPT !.error = FALSE]
            /\ stats' = NoteStart(stats)
            /\ running' = SD /\ SdGoes("loop")
       ELSE /\ sd' = [sd EXCEPT !.work = FALSE]
            /\ SdGoes("idle") /\ UNCHANGED <<running, stats>>
    /\ UNCHANGED <<script, holder, waiting, flags, moving, pr, hist, events>>

(* seek(n): n is taken as a number of bytes.  Reading goes on with the line*)
(* that byte is in, and with what is left of it.                           *)
Seek(n, line) ==
    /\ LineAt[line] <= n
    /\ \A later \in line + 1..Len(File) + 1 : n < LineAt[later]
    /\ sd' = [sd EXCEPT !.read = line - 1, !.head = line,
                        !.offset = n - LineAt[line], !.error = FALSE]

(* The timer fires.  Without a file the seek raises, and that is all. *)
SdStart ==
    /\ running = NoOne /\ pc[SD] = "due"
    /\ IF sd.file
       THEN /\ \E line \in 1..Len(File) + 1 : Seek(sd.pos, line)
            /\ stats' = NoteStart(stats)
            /\ running' = SD /\ SdGoes("loop")
       ELSE /\ sd' = [sd EXCEPT !.work = FALSE]
            /\ SdGoes("idle") /\ UNCHANGED <<running, stats>>
    /\ UNCHANGED <<script, holder, waiting, flags, moving, pr, hist, events>>

InLoop == running = SD /\ pc[SD] = "loop" /\ ~sd.mustPause

(* All lines that have been read are dispatched. *)
NoLines == sd.head > sd.read

SdRead ==
    /\ InLoop /\ NoLines /\ sd.read < Len(File)
    /\ sd' = [sd EXCEPT !.read = IF @ + ChunkLines < Len(File)
                                 THEN @ + ChunkLines ELSE Len(File)]
    /\ Park(SD, "read")
    /\ UNCHANGED <<script, holder, waiting, flags, moving, pr, stats, hist, events>>

SdEndOfFile ==
    /\ InLoop /\ NoLines /\ sd.read = Len(File)
    /\ sd' = [sd EXCEPT !.file = FALSE]
    /\ SdGoes("exit")
    /\ UNCHANGED <<running, script, holder, waiting, flags, moving, pr, stats,
                   hist, events>>

(* The read raises, as it does on bytes that are no text, and so after a   *)
(* seek into the middle of a character: the loop is left with the file open*)
(* and no error.                                                           *)
SdReadFails ==
    /\ InLoop /\ NoLines
    /\ SdGoes("exit")
    /\ UNCHANGED <<running, script, holder, waiting, flags, moving, sd, pr, stats,
                   hist, events>>

(* gcode_mutex.test(): somebody else has a script to run. *)
SdYield ==
    /\ InLoop /\ ~NoLines /\ holder # NoOne
    /\ Park(SD, "busy")
    /\ UNCHANGED <<script, holder, waiting, flags, moving, sd, pr, stats, hist,
                   events>>

SdWake ==
    /\ running = NoOne
    /\ \/ pc[SD] = "read"
       \/ pc[SD] = "busy" /\ (sd.mustPause \/ holder = NoOne)
    /\ running' = SD /\ SdGoes("loop")
    /\ UNCHANGED <<script, holder, waiting, flags, moving, sd, pr, stats, hist,
                   events>>

Bytes(line) == LineAt[line + 1] - LineAt[line]

(* The characters that may be left of a line when its first `cut' bytes are*)
(* skipped: at most one for each byte that is left, and at most one of     *)
(* those the line has is gone for each byte skipped.                       *)
CharsLeft(line, cut) ==
    {n \in 1..Chars[line] : /\ n <= Bytes(line) - cut
                            /\ Chars[line] <= n + cut}

(* The next line, or what is left of it, is run.  next_file_position is    *)
(* advanced by its characters.                                             *)
Dispatch(commands, chars) ==
    /\ sd' = [sd EXCEPT !.fromSd = TRUE, !.next = sd.pos + chars,
                        !.head = @ + 1, !.offset = 0]
    /\ script' = [script EXCEPT ![SD] = commands]

SdDispatch ==
    /\ InLoop /\ ~NoLines /\ holder = NoOne
    /\ IF sd.offset = 0
       THEN Dispatch(File[sd.head], Chars[sd.head])
       ELSE \E commands \in Fragments, n \in CharsLeft(sd.head, sd.offset) :
               Dispatch(commands, n)
    /\ Lock!Acquire(SD)
    /\ SdGoes("gcode")
    /\ UNCHANGED <<running, flags, moving, pr, stats, hist, events>>

SdReturned == running = SD /\ pc[SD] = "gcode" /\ script[SD] = <<>>
SdRaised == running = SD /\ pc[SD] = "failed"

SdLineDone ==
    /\ SdReturned /\ ~sd.error
    /\ Lock!Release(SD)
    /\ sd' = [sd EXCEPT !.fromSd = FALSE, !.pos = sd.next]
    /\ hist' = [hist EXCEPT !.last = IF sd.file /\ @ < sd.head - 1
                                      THEN sd.head - 1 ELSE @]
    /\ SdGoes("loop")
    /\ UNCHANGED <<running, script, flags, moving, pr, stats, events>>

(* A mistake: the line is over for do_pause before on_error_gcode has run. *)
SdLineFailedClears ==
    /\ SdRaised /\ ~sd.error
    /\ Lock!Release(SD)
    /\ sd' = [sd EXCEPT !.error = TRUE, !.fromSd = FALSE]
    /\ SdGoes("onerror")
    /\ UNCHANGED <<running, script, flags, moving, pr, stats, hist, events>>

(* cmd_from_sd stays set while on_error_gcode waits for the mutex and runs.*)
SdLineFailed ==
    /\ SdRaised /\ ~sd.error
    /\ Lock!Release(SD)
    /\ sd' = [sd EXCEPT !.error = TRUE]
    /\ SdGoes("onerror")
    /\ UNCHANGED <<running, script, flags, moving, pr, stats, hist, events>>

(* The line raises anything but gcode.error: no on_error_gcode, and no     *)
(* error_message.                                                          *)
SdLineCrashes ==
    /\ At(SD, "G28") /\ ~sd.error
    /\ InvokeShutdown
    /\ Lock!Release(SD)
    /\ script' = [script EXCEPT ![SD] = <<>>]
    /\ SdGoes("exit")
    /\ UNCHANGED <<running, moving, pr, stats, hist, events>>

(* A mistake: on_error_gcode runs as if the line's mutex were still held. *)
SdOnErrorUnlocked ==
    /\ running = SD /\ pc[SD] = "onerror"
    /\ script' = [script EXCEPT ![SD] = OnError]
    /\ SdGoes("gcode")
    /\ UNCHANGED <<running, holder, waiting, flags, moving, sd, pr, stats, hist,
                   events>>

SdOnError ==
    /\ running = SD /\ pc[SD] = "onerror"
    /\ RunScript(SD, OnError)
    /\ UNCHANGED <<flags, moving, sd, pr, stats, hist, events>>

SdOnErrorDone ==
    /\ (SdReturned \/ SdRaised) /\ sd.error
    /\ Lock!Release(SD)
    /\ SdGoes("exit")
    /\ UNCHANGED <<running, script, flags, moving, sd, pr, stats, hist, events>>

(* Two mistakes at the end of the work_handler: cmd_from_sd stays set when *)
(* a line has failed; print_stats is not told of a pause.                  *)
SdExitKeepsFromSd ==
    /\ running = SD
    /\ pc[SD] = "exit" \/ (pc[SD] = "loop" /\ sd.mustPause)
    /\ sd' = [sd EXCEPT !.work = FALSE]
    /\ stats' = IF sd.error THEN NoteFinish(stats, "error")
                ELSE IF sd.file THEN NotePause(stats)
                ELSE NoteFinish(stats, "complete")
    /\ Park(SD, "idle")
    /\ UNCHANGED <<script, holder, waiting, flags, moving, pr, hist, events>>

SdExitSilently ==
    /\ running = SD
    /\ pc[SD] = "exit" \/ (pc[SD] = "loop" /\ sd.mustPause)
    /\ sd' = [sd EXCEPT !.work = FALSE, !.fromSd = FALSE]
    /\ stats' = IF sd.error THEN NoteFinish(stats, "error")
                ELSE IF sd.file THEN stats
                ELSE NoteFinish(stats, "complete")
    /\ Park(SD, "idle")
    /\ UNCHANGED <<script, holder, waiting, flags, moving, pr, hist, events>>

SdExit ==
    /\ running = SD
    /\ pc[SD] = "exit" \/ (pc[SD] = "loop" /\ sd.mustPause)
    /\ sd' = [sd EXCEPT !.work = FALSE, !.fromSd = FALSE]
    /\ stats' = IF sd.error THEN NoteFinish(stats, "error")
                ELSE IF sd.file THEN NotePause(stats)
                ELSE NoteFinish(stats, "complete")
    /\ Park(SD, "idle")
    /\ UNCHANGED <<script, holder, waiting, flags, moving, pr, hist, events>>
-----------------------------------------------------------------------------
(* The runout event: send_pause_command without the mutex, pause_delay,    *)
(* then a script of its own.  Its script is empty until then.              *)

RunoutBegin ==
    /\ running = NoOne /\ pc[RO] = "due"
    /\ \/ pr.sent /\ Park(RO, "delay") /\ UNCHANGED <<sd, pr>>
       \/ /\ ~pr.sent /\ ~sd.work
          /\ pr' = [pr EXCEPT !.sdPaused = FALSE, !.sent = TRUE]
          /\ Park(RO, "delay") /\ UNCHANGED sd
       \/ /\ ~pr.sent /\ sd.work
          /\ pr' = [pr EXCEPT !.sdPaused = TRUE, !.sent = ~MustWait]
          /\ sd' = [sd EXCEPT !.mustPause = TRUE]
          /\ Park(RO, IF MustWait THEN "dopause" ELSE "delay")
    /\ UNCHANGED <<script, holder, waiting, flags, moving, stats, hist, events>>

RunoutPaused ==
    /\ running = RO /\ pc[RO] = "stopped" /\ script[RO] = <<>>
    /\ pr' = [pr EXCEPT !.sent = TRUE]
    /\ Park(RO, "delay")
    /\ UNCHANGED <<script, holder, waiting, flags, moving, sd, stats, hist, events>>

RunoutScript ==
    /\ running = NoOne /\ pc[RO] = "delay"
    /\ RunScript(RO, <<"PAUSE">> \o RunoutGcode \o <<"G1">>)
    /\ UNCHANGED <<flags, moving, sd, pr, stats, hist, events>>

(* idle_timeout: nothing moves and nobody holds the mutex. *)
IdleReady ==
    /\ running = NoOne /\ holder = NoOne /\ ~flags.shutdown
    /\ moving /\ moving' = FALSE
    /\ UNCHANGED <<running, pc, script, holder, waiting, flags, sd, pr, stats,
                   hist, events>>
-----------------------------------------------------------------------------
(* Requests of clients, and the events and web endpoints that do not take  *)
(* the mutex.  MaxEvents bounds their number.                              *)

Occurs == running = NoOne /\ events < MaxEvents /\ events' = events + 1

Request(g, s) ==
    /\ Occurs
    /\ pc[g] = "idle"
    /\ RunScript(g, s)
    /\ UNCHANGED <<flags, moving, sd, pr, stats, hist>>

BreakMacro ==
    /\ Occurs /\ "breakmacro" \in Events
    /\ flags' = [flags EXCEPT !.gcode = TRUE]
    /\ UNCHANGED <<running, pc, script, holder, waiting, moving, sd, pr, stats, hist>>

ResumeMacro ==
    /\ Occurs /\ "resumemacro" \in Events
    /\ flags' = [flags EXCEPT !.gcode = FALSE]
    /\ UNCHANGED <<running, pc, script, holder, waiting, moving, sd, pr, stats, hist>>

HeaterWaits(g) == pc[g] = "wait" /\ Head(script[g]) \in {"M109", "TEMPERATURE_WAIT"}

(* Some heater is heating up; whether anybody waits for it does not matter.*)
BreakHeater ==
    /\ Occurs /\ "breakheater" \in Events
    /\ flags' = [flags EXCEPT !.heat = TRUE]
    /\ hist' = [hist EXCEPT !.asked = \E g \in Greenlets : HeaterWaits(g)]
    /\ UNCHANGED <<running, pc, script, holder, waiting, moving, sd, pr, stats>>

EmergencyStop ==
    /\ Occurs /\ "emergency_stop" \in Events
    /\ InvokeShutdown
    /\ UNCHANGED <<running, pc, script, holder, waiting, moving, pr, stats, hist>>

Runout ==
    /\ Occurs /\ "runout" \in Events
    /\ moving /\ pc[RO] = "idle"
    /\ pc' = [pc EXCEPT ![RO] = "due"]
    /\ UNCHANGED <<running, script, holder, waiting, flags, moving, sd, pr, stats, hist>>

(* The behaviour has used up its events and everything has ended: the only *)
(* state in which nothing can happen.                                      *)
Quiet ==
    /\ running = NoOne /\ events = MaxEvents
    /\ \A g \in Greenlets : pc[g] = "idle"
    /\ UNCHANGED vars
-----------------------------------------------------------------------------
(* The steps of g while it executes *)
Command(g) ==
    \/ SkipLine(g) \/ Move(g) \/ Fail(g) \/ HeatAndWait(g) \/ TemperatureWait(g)
    \/ PauseIgnored(g) \/ PauseAtOnce(g) \/ PausePrint(g) \/ PauseCompletes(g)
    \/ ResumeIgnored(g) \/ ResumeMovesBack(g) \/ ResumeRefused(g) \/ ResumePrint(g)
    \/ ClearPauseCmd(g) \/ CancelNothing(g) \/ CancelPrint(g) \/ CancelCompletes(g)
    \/ ResetFile(g) \/ ResetFileCompletes(g)
    \/ LoadFile(g, "M23") \/ LoadFile(g, "SDCARD_PRINT_FILE")
    \/ M24(g) \/ M25(g) \/ M25Completes(g) \/ M112(g)
    \/ Crash(g) \/ EndScript(g)

SdStep ==
    \/ SdRead \/ SdEndOfFile \/ SdReadFails \/ SdYield \/ SdDispatch
    \/ SdLineDone \/ SdLineFailed \/ SdLineCrashes \/ SdOnError \/ SdOnErrorDone \/ SdExit

(* The steps that the reactor takes for a greenlet that is parked *)
Wake(g) == GetMutex(g) \/ EndWait(g) \/ WaitFails(g) \/ DoPauseReturns(g) \/ MoveBackEnds(g)

RunoutWake == RunoutBegin \/ RunoutScript

Asynchronous ==
    \/ \E g \in Clients, s \in Scripts : Request(g, s)
    \/ BreakMacro \/ ResumeMacro \/ BreakHeater \/ EmergencyStop \/ Runout

Next ==
    \/ \E g \in Greenlets : Command(g) \/ Wake(g)
    \/ SdStep \/ SdStart \/ SdWake
    \/ RunoutPaused \/ RunoutWake
    \/ IdleReady
    \/ Asynchronous
    \/ Quiet

Spec == Init /\ [][Next]_vars

(* A greenlet that executes goes on; each pass of the reactor looks at all *)
(* timers that are due, so a greenlet whose condition keeps coming true    *)
(* gets its turn; heaters and queues that are waited for become ready.     *)
Fairness ==
    /\ WF_vars(SdStep \/ RunoutPaused \/ \E g \in Greenlets : Command(g))
    /\ \A g \in Greenlets : SF_vars(Wake(g))
    /\ SF_vars(SdStart) /\ SF_vars(SdWake) /\ SF_vars(RunoutWake)

FairSpec == Spec /\ Fairness
-----------------------------------------------------------------------------
SdFields == [work : BOOLEAN, mustPause : BOOLEAN, fromSd : BOOLEAN, file : BOOLEAN,
             pos : Nat, next : Nat, read : Nat, head : Nat, offset : Nat,
             error : BOOLEAN]
PrFields == [paused : BOOLEAN, sdPaused : BOOLEAN, sent : BOOLEAN, saved : BOOLEAN]
StatsFields == [state : {"standby", "printing", "paused", "complete", "error",
                         "cancelled"},
                started : BOOLEAN, pausedAt : BOOLEAN]

ControlType ==
    /\ running \in Greenlets \cup {NoOne}
    /\ pc \in [Greenlets -> Places]
    /\ script \in [Greenlets -> Seq(Commands)]
    /\ holder \in Greenlets \cup {NoOne} /\ waiting \in Seq(Greenlets)

DataType ==
    /\ flags \in [gcode : BOOLEAN, heat : BOOLEAN, shutdown : BOOLEAN]
    /\ moving \in BOOLEAN
    /\ sd \in SdFields /\ pr \in PrFields /\ stats \in StatsFields
    /\ hist \in [last : Nat, skipped : BOOLEAN, asked : BOOLEAN, cut : BOOLEAN]
    /\ events \in 0..MaxEvents

TypeOK == ControlType /\ DataType

(* g is inside _process_commands, perhaps parked in the middle of it.  The *)
(* runout event may also be in do_pause without a script.                  *)
InScript(g) == pc[g] \in {"gcode", "wait", "restore", "failed"}
               \/ (pc[g] \in {"dopause", "stopped"} /\ script[g] # <<>>)

(* The G-code mutex serialises scripts: whoever is in the middle of one,   *)
(* parked in do_pause or in a heater's loop included, is its owner.        *)
OneScriptAtATime == \A g \in Greenlets : InScript(g) => holder = g

(* g is inside command c, in do_pause or after it. *)
Pausing(g, c) == pc[g] \in {"dopause", "stopped"} /\ script[g] # <<>>
                 /\ Head(script[g]) = c

(* current_file is open wherever the code uses it without a test: in the   *)
(* loop of the work_handler unless it is about to exit, and when do_cancel *)
(* and _reset_file close it after do_pause has returned.                   *)
FileOpenWhenUsed ==
    /\ pc[SD] \in {"loop", "read", "busy"} /\ ~sd.mustPause => sd.file
    /\ \A g \in Greenlets : \A c \in {"CANCEL_PRINT", "SDCARD_RESET_FILE"} :
          Pausing(g, c) => sd.file

(* In the first n lines every character is one byte, the newline included. *)
PlainTo(n) == \A i \in 1..n : Bytes(i) = Chars[i]

(* file_position counts characters and is used as a number of bytes.       *)
(* Whatever pauses, errors, cancellations and resumes come before, it is   *)
(* never behind the first line that was not completed, so a resume leaves  *)
(* nothing out; and if the lines completed so far are plain it is exactly  *)
(* there, so nothing is printed twice.                                     *)
PositionExact == sd.file =>
    /\ sd.pos <= LineAt[hist.last + 1]
    /\ PlainTo(hist.last) => sd.pos = LineAt[hist.last + 1]

(* print_stats says "printing" exactly while a work_handler runs, unless   *)
(* the print was cancelled under it.                                       *)
StatsTruthful ==
    /\ pc[SD] \notin {"idle", "due"} => stats.state \in {"printing", "cancelled"}
    /\ stats.state = "printing" => pc[SD] \notin {"idle", "due"}
-----------------------------------------------------------------------------
(* The inductive invariant, in parts *)

(* Greenlets at these places have not called reactor.pause(). *)
Active == \A g \in Greenlets :
    pc[g] \in {"gcode", "stopped", "failed", "loop", "onerror", "exit"} => running = g

(* A command that is parked is the first of its script; nothing is left of *)
(* a script that has failed; the runout event has none before its delay is *)
(* over.                                                                   *)
Parked ==
    /\ \A g \in Greenlets :
          /\ pc[g] \in {"wait", "restore"} => script[g] # <<>>
          /\ pc[g] = "restore" => Head(script[g]) = "RESUME"
          /\ pc[g] = "failed" => script[g] = <<>>
    /\ pc[RO] \in {"idle", "due", "delay"} => script[RO] = <<>>

(* work_timer, cmd_from_sd and error_message follow the work_handler. *)
Handler ==
    /\ sd.work <=> pc[SD] # "idle"
    /\ pc[SD] \in {"idle", "due", "loop", "read", "busy"} => ~sd.fromSd
    /\ pc[SD] \in {"mutex", "gcode", "wait", "restore", "stopped", "failed", "onerror"}
          => sd.fromSd
    /\ pc[SD] \notin {"dopause", "delay"}
    /\ pc[SD] \in {"loop", "read", "busy"} => ~sd.error
    /\ pc[SD] \in {"mutex", "onerror"} => sd.error

PauseCommands == {"PAUSE", "CANCEL_PRINT", "SDCARD_RESET_FILE", "M25"}

(* While a command is in do_pause the work_handler knows that it has to    *)
(* stop; when do_pause returns it has stopped or runs this very command or *)
(* on_error_gcode.                                                         *)
PauseSeen == \A g \in Greenlets, c \in PauseCommands : Pausing(g, c) =>
    /\ sd.work => sd.mustPause
    /\ pc[g] = "stopped" => ~MustWait
    /\ c = "SDCARD_RESET_FILE" => ~sd.fromSd

(* A parked work_handler has a file; a line closes it only by a cancel. *)
LineHasFile ==
    /\ pc[SD] \in {"read", "busy"} => sd.file
    /\ sd.fromSd /\ ~sd.error => sd.file \/ sd.mustPause

(* Nothing is read that is behind the first line not completed, a line is  *)
(* cut only when it is read again, and file_position is not behind what is *)
(* read.  While the lines are plain it is exact and nothing is cut.        *)
Reading ==
    /\ pc[SD] \in {"loop", "read", "busy"} /\ sd.file =>
          /\ sd.head <= hist.last + 1
          /\ sd.offset > 0 => sd.head <= hist.last
          /\ sd.pos <= LineAt[sd.head] + sd.offset
          /\ PlainTo(hist.last) =>
                sd.head = hist.last + 1 /\ sd.pos = LineAt[sd.head]
    /\ sd.fromSd /\ ~sd.error /\ sd.file =>
          /\ sd.offset = 0 /\ sd.head <= hist.last + 2
          /\ sd.next <= LineAt[sd.head]
          /\ PlainTo(hist.last) => sd.head = hist.last + 2
          /\ PlainTo(hist.last) /\ PlainTo(sd.head - 1) => sd.next = LineAt[sd.head]

(* What has been read and run lies within the file. *)
WithinFile ==
    /\ sd.read <= Len(File) /\ sd.head >= 1 /\ hist.last <= Len(File)
    /\ pc[SD] \in {"loop", "read", "busy"} /\ sd.file => sd.head <= sd.read + 1
    /\ sd.fromSd /\ ~sd.error => sd.head \in 2..sd.read + 1

(* print_start_time is set from note_start to _note_finish. *)
Started == stats.started <=> stats.state \in {"printing", "paused"}

(* A print that is over has no file. *)
Over == stats.state \in {"complete", "cancelled"} => ~sd.file

(* The work_handler leaves its loop without an error and without a file    *)
(* only at the end of the file or when a line has cancelled the print.     *)
Ending ==
    /\ pc[SD] = "exit" /\ ~sd.error /\ ~sd.file /\ stats.started
          => hist.last = Len(File)
    /\ pc[SD] = "loop" \/ (sd.fromSd /\ ~sd.error) => sd.file \/ ~stats.started

(* What a print keeps to *)
PrintInv ==
    /\ TypeOK /\ Active /\ Parked /\ Handler
    /\ OneScriptAtATime /\ PauseSeen
    /\ LineHasFile /\ FileOpenWhenUsed
    /\ Reading /\ WithinFile /\ PositionExact
    /\ Started /\ StatsTruthful /\ Over /\ Ending

(* The queue of the mutex holds the greenlets that are parked in it and    *)
(* have not been handed it, each once.                                     *)
QueueExact ==
    /\ \A g \in Greenlets : g \in Lock!Queued <=> pc[g] = "mutex" /\ holder # g
    /\ \A i, j \in 1..Len(waiting) : waiting[i] = waiting[j] => i = j

(* The mutex is not left behind: its owner is in a script, or is about to  *)
(* be woken for one; and nobody waits for a free mutex.                    *)
OwnerKnown ==
    /\ holder # NoOne => pc[holder] = "mutex" \/ InScript(holder)
    /\ holder = NoOne => waiting = <<>>

(* In do_pause are the commands that call it, and the runout event.        *)
PauseCommanded == \A g \in Greenlets :
    pc[g] = "dopause" /\ script[g] # <<>> => Head(script[g]) \in PauseCommands

(* A heater's loop that is found to be broken off was so on request.       *)
BreakAsked == \A g \in Greenlets : HeaterWaits(g) /\ flags.heat => hist.asked

(* What every reachable state satisfies, and every step preserves *)
IInv == PrintInv /\ QueueExact /\ OwnerKnown /\ PauseCommanded /\ BreakAsked
-----------------------------------------------------------------------------
(* What a parked greenlet waits for has come, or comes by itself (room in  *)
(* the move queue, a temperature): the reactor will resume it.             *)
Ready(g) ==
    \/ pc[g] = "mutex" /\ holder = g
    \/ pc[g] = "dopause" /\ ~MustWait
    \/ pc[g] = "busy" /\ (sd.mustPause \/ holder = NoOne)
    \/ pc[g] \in {"wait", "restore", "due", "read", "delay"}

(* Whom it waits for otherwise: do_pause for the work_handler, the mutex   *)
(* and the work_handler between two lines for the owner of the mutex.      *)
WaitsFor(g) == IF pc[g] = "dopause" THEN SD ELSE holder

(* No wait is part of a cycle, and none is for somebody who is gone: when  *)
(* all are parked, each greenlet can be resumed, or the one it waits for,  *)
(* or the one that one waits for.                                          *)
NoWaitCycle == running = NoOne => \A g \in Greenlets :
    \/ pc[g] = "idle" \/ Ready(g)
    \/ /\ WaitsFor(g) # NoOne
       /\ \/ Ready(WaitsFor(g))
          \/ /\ WaitsFor(WaitsFor(g)) # NoOne
             /\ Ready(WaitsFor(WaitsFor(g)))
-----------------------------------------------------------------------------
(* A PAUSE that takes effect leaves no work_handler running that has not   *)
(* been told to stop, unless the runout event had sent the pause command   *)
(* before.                                                                 *)
PauseStopsPrint == [][~pr.paused /\ pr'.paused /\ ~pr.sent /\ sd'.work
                      => sd'.mustPause]_vars

(* Only a TEMPERATURE_WAIT that begins may be broken off unasked, by a flag*)
(* that is left from before: never an M109, never a wait that has begun.   *)
OnlyStaleBreaks == [][hist'.cut /\ ~hist.cut =>
    \E g \in Greenlets : At(g, "TEMPERATURE_WAIT") /\ flags.heat]_vars

(* Every request of a client is answered: the polling loops under the mutex*)
(* and the yielding of the work_handler never wait for each other.         *)
RequestServed == \A g \in Clients : pc[g] # "idle" ~> pc[g] = "idle"

(* What print_stats reports is the life of a print: see PrintLifecycle.    *)
Lifecycle == INSTANCE PrintLifecycle
                 WITH phase <- stats.state, printed <- hist.last,
                      Lines <- Len(File)

(* print_stats.state and the lines completed step only as PrintLifecycle   *)
(* allows: no line before all lines in front of it are completed, though   *)
(* perhaps once more; "complete" after the last, nothing after "cancelled".*)
ImplementsLifecycle == Lifecycle!Spec
-----------------------------------------------------------------------------
(* What the documentation says, and the code does not always do *)

(* "PAUSE: Pauses the current print": also when the runout event came      *)
(* before the print, the work_handler has been told to stop.               *)
PauseTakesEffect == [][~pr.paused /\ pr'.paused /\ sd'.work => sd'.mustPause]_vars

(* PAUSE captures the position that RESUME goes back to. *)
PauseCaptures == pr.paused => pr.saved

(* "complete": the job has been printed, all of it. *)
CompleteIsWhole == stats.state = "complete" => ~hist.skipped

(* TEMPERATURE_WAIT returns when the temperature is in its bounds, the     *)
(* printer is in shutdown, or somebody asked to break off this wait.       *)
WaitsForTemperature == ~hist.cut
=============================================================================
